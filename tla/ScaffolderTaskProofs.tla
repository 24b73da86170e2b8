------------------------ MODULE ScaffolderTaskProofs ------------------------
(* Theorems about ScaffolderTask, for any setup file and templates, and any *)
(* number of tasks, attempts and failures.                                  *)
EXTENDS ScaffolderTask, SequenceFacts

-----------------------------------------------------------------------------
(* Trees and paths.                                                        *)

\* The nodes along the first n keys.
AlongFirst(g, contents, keys, n) ==
    g = [i \in 0..n |-> IF i = 0 THEN contents ELSE Child(g[i - 1], keys[i])]

\* There are nodes along any number of keys.
LEMMA NodesExist ==
  ASSUME NEW contents, NEW keys
  PROVE  \A n \in Nat : \E g : AlongFirst(g, contents, keys, n)
<1> DEFINE T == {n \in Nat : \E g : AlongFirst(g, contents, keys, n)}
<1>1. 0 \in T
  <2> DEFINE g == [i \in 0..0 |-> contents]
  <2>1. AlongFirst(g, contents, keys, 0)
    BY DEF AlongFirst
  <2> QED
    BY <2>1
<1>2. ASSUME NEW n \in Nat, n \in T PROVE n + 1 \in T
  <2>1. PICK f : AlongFirst(f, contents, keys, n)
    BY <1>2
  <2> DEFINE g == [i \in 0..(n + 1) |-> IF i <= n THEN f[i] ELSE Child(f[n], keys[n + 1])]
  <2>2. ASSUME NEW i \in 0..(n + 1)
        PROVE  g[i] = IF i = 0 THEN contents ELSE Child(g[i - 1], keys[i])
    <3>1. CASE i <= n
      <4>1. i \in 0..n /\ g[i] = f[i]
        BY <3>1
      <4>2. f[i] = IF i = 0 THEN contents ELSE Child(f[i - 1], keys[i])
        BY <2>1, <4>1 DEF AlongFirst
      <4>3. i # 0 => g[i - 1] = f[i - 1]
        BY <3>1
      <4> HIDE DEF g
      <4> QED
        BY <4>1, <4>2, <4>3
    <3>2. CASE i = n + 1
      <4>1. g[i] = Child(f[n], keys[i]) /\ g[i - 1] = f[n] /\ i # 0
        BY <3>2
      <4> HIDE DEF g
      <4> QED
        BY <4>1
    <3> QED
      BY <3>1, <3>2
  <2>3. g = [i \in 0..(n + 1) |-> g[i]]
    OBVIOUS
  <2> HIDE DEF g
  <2>4. AlongFirst(g, contents, keys, n + 1)
    BY <2>2, <2>3 DEF AlongFirst
  <2> QED
    BY <2>4
<1> HIDE DEF T
<1>3. Nat \subseteq T
  BY <1>1, <1>2, SetInduction
<1> QED
  BY <1>3 DEF T

\* The nodes along a path go from child to child.
LEMMA NodesGoDown ==
  ASSUME NEW contents, NEW keys, Len(keys) \in Nat
  PROVE  /\ NodesAlong(contents, keys)[0] = contents
         /\ \A i \in 1..Len(keys) :
                NodesAlong(contents, keys)[i] = Child(NodesAlong(contents, keys)[i - 1], keys[i])
<1> DEFINE along == CHOOSE g : AlongFirst(g, contents, keys, Len(keys))
<1>1. AlongFirst(along, contents, keys, Len(keys))
  BY NodesExist
<1>2. along = CHOOSE g : g = [i \in 0..Len(keys) |-> IF i = 0 THEN contents ELSE Child(g[i - 1], keys[i])]
  BY DEF AlongFirst
<1>3. NodesAlong(contents, keys) = along
  BY <1>2 DEF NodesAlong
<1> HIDE DEF along
<1>4. along[0] = contents /\ \A i \in 1..Len(keys) : along[i] = Child(along[i - 1], keys[i])
  BY <1>1 DEF AlongFirst
<1> QED
  BY <1>3, <1>4

\* Where two walks are at one node, they stay together as long as their keys are equal.
LEMMA NodesAgree ==
  ASSUME NEW c, NEW p, NEW d, NEW q, Len(p) \in Nat, Len(q) \in Nat,
         NEW k \in Nat, NEW m \in Nat, k <= m, m <= Len(p), m <= Len(q),
         NodesAlong(c, p)[k] = NodesAlong(d, q)[k], \A i \in (k + 1)..m : p[i] = q[i]
  PROVE  NodesAlong(c, p)[m] = NodesAlong(d, q)[m]
<1>1. PICK f, g : f = NodesAlong(c, p) /\ g = NodesAlong(d, q)
  OBVIOUS
<1>2. /\ \A i \in 1..Len(p) : f[i] = Child(f[i - 1], p[i])
      /\ \A i \in 1..Len(q) : g[i] = Child(g[i - 1], q[i])
      /\ f[k] = g[k]
  BY <1>1, NodesGoDown
<1> DEFINE T == {n \in Nat : k + n <= m => f[k + n] = g[k + n]}
<1>3. 0 \in T
  BY <1>2
<1>4. ASSUME NEW n \in Nat, n \in T PROVE n + 1 \in T
  <2> SUFFICES ASSUME k + (n + 1) <= m PROVE f[k + (n + 1)] = g[k + (n + 1)]
    OBVIOUS
  <2>1. PICK j \in Nat : j = k + (n + 1)
    OBVIOUS
  <2>2. j \in 1..Len(p) /\ j \in 1..Len(q) /\ j \in (k + 1)..m /\ j - 1 = k + n /\ k + n <= m
    BY <2>1
  <2>3. f[j] = Child(f[j - 1], p[j]) /\ g[j] = Child(g[j - 1], q[j]) /\ p[j] = q[j]
    BY <1>2, <2>2
  <2>4. f[j - 1] = g[j - 1]
    BY <1>4, <2>2
  <2> QED
    BY <2>1, <2>3, <2>4
<1> HIDE DEF T
<1>5. Nat \subseteq T
  BY <1>3, <1>4, SetInduction
<1>6. m - k \in T /\ k + (m - k) = m
  BY <1>5
<1> QED
  BY <1>1, <1>6 DEF T

\* Below what is no map nothing is found.
LEMMA NothingBelow ==
  ASSUME NEW c, NEW q, Len(q) \in Nat, NEW k \in Nat, k < Len(q), ~isMap(NodesAlong(c, q)[k])
  PROVE  NodesAlong(c, q)[Len(q)] = Undefined
<1>1. PICK g, l : g = NodesAlong(c, q) /\ l = Len(q) /\ l \in Nat
  OBVIOUS
<1>2. /\ \A i \in 1..l : g[i] = Child(g[i - 1], q[i])
      /\ ~isMap(g[k])
  BY <1>1, NodesGoDown
<1>3. \A node, key : ~isMap(node) => Child(node, key) = Undefined /\ ~isMap(Undefined)
  BY DEF Child, isMap, Undefined
<1> DEFINE T == {n \in Nat : k + (n + 1) <= l => g[k + (n + 1)] = Undefined}
<1>4. 0 \in T
  <2>1. k + 1 \in 1..l /\ (k + 1) - 1 = k
    BY <1>1
  <2> QED
    BY <1>2, <1>3, <2>1
<1>5. ASSUME NEW n \in Nat, n \in T PROVE n + 1 \in T
  <2> SUFFICES ASSUME k + ((n + 1) + 1) <= l PROVE g[k + ((n + 1) + 1)] = Undefined
    OBVIOUS
  <2>1. PICK j \in Nat : j = k + ((n + 1) + 1)
    OBVIOUS
  <2>2. j \in 1..l /\ j - 1 = k + (n + 1) /\ k + (n + 1) <= l
    BY <1>1, <2>1
  <2>3. g[j - 1] = Undefined
    BY <1>5, <2>2
  <2> QED
    BY <1>2, <1>3, <2>1, <2>2, <2>3
<1> HIDE DEF T
<1>6. Nat \subseteq T
  BY <1>4, <1>5, SetInduction
<1>7. l - (k + 1) \in T /\ k + ((l - (k + 1)) + 1) = l
  BY <1>1, <1>6
<1> QED
  BY <1>1, <1>7 DEF T

\* An entry is found under its key, and the others as before.
LEMMA EntryFound ==
  ASSUME NEW node, NEW key, NEW value
  PROVE  /\ isMap(WithEntry(node, key, value))
         /\ Child(WithEntry(node, key, value), key) = value
         /\ \A k : k # key => Child(WithEntry(node, key, value), k) = Child(node, k)
<1>1. PICK entries : entries = IF isMap(node) THEN node.entries ELSE <<>>
  OBVIOUS
<1>2. PICK all : all = [k \in DOMAIN entries \cup {key} |-> IF k = key THEN value ELSE entries[k]]
  OBVIOUS
<1>3. WithEntry(node, key, value) = YAMLMap(all)
  BY <1>1, <1>2 DEF WithEntry
<1>4. isMap(YAMLMap(all)) /\ YAMLMap(all).entries = all
  BY DEF isMap, YAMLMap
<1>5. DOMAIN all = DOMAIN entries \cup {key} /\ all[key] = value
  BY <1>2
<1>6. ASSUME NEW k, k # key PROVE Child(YAMLMap(all), k) = Child(node, k)
  <2>1. k \in DOMAIN all <=> k \in DOMAIN entries
    BY <1>5, <1>6
  <2>2. k \in DOMAIN entries => all[k] = entries[k]
    BY <1>2, <1>6
  <2>3. ~isMap(node) => k \notin DOMAIN entries
    BY <1>1
  <2>4. isMap(node) => entries = node.entries
    BY <1>1
  <2> QED
    BY <1>4, <2>1, <2>2, <2>3, <2>4 DEF Child
<1> QED
  BY <1>3, <1>4, <1>5, <1>6 DEF Child

\* The trees of SetIn, from the value up.
RisesTo(up, contents, keys, value, n) ==
    up = [j \in 0..n |->
            IF j = 0 THEN value
            ELSE WithEntry(NodesAlong(contents, keys)[Len(keys) - j], keys[Len(keys) - j + 1], up[j - 1])]

\* They can be made for any number of keys.
LEMMA RiseExists ==
  ASSUME NEW contents, NEW keys, NEW value
  PROVE  \A n \in Nat : \E up : RisesTo(up, contents, keys, value, n)
<1> DEFINE Above(j, node) == WithEntry(NodesAlong(contents, keys)[Len(keys) - j], keys[Len(keys) - j + 1], node)
           T == {n \in Nat : \E up : RisesTo(up, contents, keys, value, n)}
<1>0. \A up, n : RisesTo(up, contents, keys, value, n)
                    <=> up = [j \in 0..n |-> IF j = 0 THEN value ELSE Above(j, up[j - 1])]
  BY DEF RisesTo
<1> HIDE DEF Above
<1>1. 0 \in T
  <2> DEFINE up == [j \in 0..0 |-> value]
  <2>1. up = [j \in 0..0 |-> IF j = 0 THEN value ELSE Above(j, up[j - 1])]
    OBVIOUS
  <2>2. RisesTo(up, contents, keys, value, 0)
    BY <1>0, <2>1
  <2> QED
    BY <2>2
<1>2. ASSUME NEW n \in Nat, n \in T PROVE n + 1 \in T
  <2>1. PICK f : RisesTo(f, contents, keys, value, n)
    BY <1>2
  <2>2. f = [j \in 0..n |-> IF j = 0 THEN value ELSE Above(j, f[j - 1])]
    BY <1>0, <2>1
  <2> DEFINE up == [j \in 0..(n + 1) |-> IF j <= n THEN f[j] ELSE Above(n + 1, f[n])]
  <2>3. ASSUME NEW j \in 0..(n + 1)
        PROVE  up[j] = IF j = 0 THEN value ELSE Above(j, up[j - 1])
    <3>1. CASE j <= n
      <4>1. j \in 0..n /\ up[j] = f[j]
        BY <3>1
      <4>2. f[j] = IF j = 0 THEN value ELSE Above(j, f[j - 1])
        BY <2>2, <4>1
      <4>3. j # 0 => up[j - 1] = f[j - 1]
        BY <3>1
      <4> HIDE DEF up
      <4> QED
        BY <4>1, <4>2, <4>3
    <3>2. CASE j = n + 1
      <4>1. up[j] = Above(j, f[n]) /\ up[j - 1] = f[n] /\ j # 0
        BY <3>2
      <4> HIDE DEF up
      <4> QED
        BY <4>1
    <3> QED
      BY <3>1, <3>2
  <2>4. up = [j \in 0..(n + 1) |-> up[j]]
    OBVIOUS
  <2> HIDE DEF up
  <2>5. up = [j \in 0..(n + 1) |-> IF j = 0 THEN value ELSE Above(j, up[j - 1])]
    BY <2>3, <2>4
  <2>6. RisesTo(up, contents, keys, value, n + 1)
    BY <1>0, <2>5
  <2> QED
    BY <2>6
<1> HIDE DEF T
<1>3. Nat \subseteq T
  BY <1>1, <1>2, SetInduction
<1> QED
  BY <1>3 DEF T

\* The whole has the value at the path, and on the way to it each node has what it
\* had before but for the next one.
IsSetIn(whole, contents, keys, value) ==
    /\ NodesAlong(whole, keys)[Len(keys)] = value
    /\ \A i \in 0..(Len(keys) - 1) :
            NodesAlong(whole, keys)[i] =
                WithEntry(NodesAlong(contents, keys)[i], keys[i + 1], NodesAlong(whole, keys)[i + 1])

\* That is what SetIn makes.
LEMMA SetNodes ==
  ASSUME NEW contents, NEW keys, Len(keys) \in Nat, NEW value
  PROVE  IsSetIn(SetIn(contents, keys, value), contents, keys, value)
<1>0. PICK whole : whole = SetIn(contents, keys, value)
  OBVIOUS
<1>1. PICK n, before, after :
        n = Len(keys) /\ before = NodesAlong(contents, keys) /\ after = NodesAlong(whole, keys)
  OBVIOUS
<1> DEFINE up == CHOOSE f : RisesTo(f, contents, keys, value, Len(keys))
<1>2. RisesTo(up, contents, keys, value, n)
  BY <1>1, RiseExists
<1>3. whole = up[n]
  <2>1. up = CHOOSE f : f = [j \in 0..Len(keys) |->
                IF j = 0 THEN value
                ELSE WithEntry(NodesAlong(contents, keys)[Len(keys) - j],
                               keys[Len(keys) - j + 1], f[j - 1])]
    BY DEF RisesTo
  <2>2. SetIn(contents, keys, value) = up[Len(keys)]
    BY <2>1 DEF SetIn
  <2> QED
    BY <1>0, <1>1, <2>2
<1> HIDE DEF up
<1>4. up[0] = value /\ \A j \in 1..n : up[j] = WithEntry(before[n - j], keys[n - j + 1], up[j - 1])
  BY <1>1, <1>2 DEF RisesTo
<1>5. after[0] = whole /\ \A i \in 1..n : after[i] = Child(after[i - 1], keys[i])
  BY <1>1, NodesGoDown
<1> DEFINE T == {i \in Nat : i <= n => after[i] = up[n - i]}
<1>6. 0 \in T
  BY <1>1, <1>3, <1>5
<1>7. ASSUME NEW i \in Nat, i \in T PROVE i + 1 \in T
  <2> SUFFICES ASSUME i + 1 <= n PROVE after[i + 1] = up[n - (i + 1)]
    OBVIOUS
  <2>1. PICK k, j : k = i + 1 /\ j = n - i
    OBVIOUS
  <2>2. k \in 1..n /\ j \in 1..n /\ k - 1 = i /\ j - 1 = n - (i + 1) /\ n - j = i /\ n - j + 1 = k /\ i <= n
    BY <1>1, <2>1
  <2>3. after[k] = Child(after[i], keys[k])
    BY <1>5, <2>2
  <2>4. after[i] = up[j]
    BY <1>7, <2>1, <2>2
  <2>5. up[j] = WithEntry(before[i], keys[k], up[j - 1])
    BY <1>4, <2>2
  <2>6. after[k] = up[j - 1]
    BY <2>3, <2>4, <2>5, EntryFound
  <2> QED
    BY <2>1, <2>2, <2>6
<1> HIDE DEF T
<1>8. Nat \subseteq T
  BY <1>6, <1>7, SetInduction
<1>9. \A i \in 0..n : after[i] = up[n - i]
  <2>1. \A i \in 0..n : i \in T
    BY <1>8
  <2> QED
    BY <2>1 DEF T
<1>10. after[n] = value
  <2>1. n \in 0..n /\ n - n = 0
    BY <1>1
  <2> QED
    BY <1>4, <1>9, <2>1
<1>11. ASSUME NEW i \in 0..(n - 1)
       PROVE  after[i] = WithEntry(before[i], keys[i + 1], after[i + 1])
  <2>1. PICK k, j : k = i + 1 /\ j = n - i
    OBVIOUS
  <2>2. /\ k \in 0..n /\ j \in 1..n /\ i \in 0..n
        /\ j - 1 = n - k /\ n - j = i /\ n - j + 1 = k
    BY <1>1, <2>1
  <2>3. after[i] = up[j] /\ after[k] = up[n - k]
    BY <1>9, <2>1, <2>2
  <2>4. up[j] = WithEntry(before[n - j], keys[n - j + 1], up[j - 1])
    BY <1>4, <2>2
  <2> QED
    BY <2>1, <2>2, <2>3, <2>4
<1>12. IsSetIn(whole, contents, keys, value)
  BY <1>1, <1>10, <1>11 DEF IsSetIn
<1> QED
  BY <1>0, <1>12

\* How two paths relate: one begins the other, or they part at some key.
Begins(p, q) == Len(p) <= Len(q) /\ \A i \in 1..Len(p) : p[i] = q[i]

PartAt(p, q, m) ==
    m < Len(p) /\ m < Len(q) /\ (\A i \in 1..m : p[i] = q[i]) /\ p[m + 1] # q[m + 1]

\* Of two paths neither of which begins the other, there is a first key that differs.
LEMMA PathsPart ==
  ASSUME NEW p, NEW q, Len(p) \in Nat, Len(q) \in Nat
  PROVE  Begins(p, q) \/ Begins(q, p) \/ \E m \in Nat : PartAt(p, q, m)
<1> SUFFICES ASSUME \A m \in Nat : ~PartAt(p, q, m) PROVE Begins(p, q) \/ Begins(q, p)
  OBVIOUS
<1> DEFINE T == {n \in Nat : n <= Len(p) /\ n <= Len(q) => \A i \in 1..n : p[i] = q[i]}
<1>1. 0 \in T
  OBVIOUS
<1>2. ASSUME NEW n \in Nat, n \in T PROVE n + 1 \in T
  <2> SUFFICES ASSUME n + 1 <= Len(p), n + 1 <= Len(q), NEW i \in 1..(n + 1) PROVE p[i] = q[i]
    OBVIOUS
  <2>1. n < Len(p) /\ n < Len(q) /\ \A k \in 1..n : p[k] = q[k]
    BY <1>2
  <2>2. p[n + 1] = q[n + 1]
    BY <2>1 DEF PartAt
  <2>3. i = n + 1 \/ i \in 1..n
    OBVIOUS
  <2> QED
    BY <2>1, <2>2, <2>3
<1> HIDE DEF T
<1>3. Len(p) \in T /\ Len(q) \in T
  BY <1>1, <1>2, SetInduction
<1>4. CASE Len(p) <= Len(q)
  BY <1>3, <1>4 DEF T, Begins
<1>5. CASE Len(q) <= Len(p)
  BY <1>3, <1>5 DEF T, Begins
<1> QED
  BY <1>4, <1>5

\* The keys of a path.
IsPath(p) == p \in Seq(ToSet(p))

\* A path that begins another is its prefix.
LEMMA PathFacts ==
  ASSUME NEW p, IsPath(p)
  PROVE  /\ Len(p) \in Nat /\ DOMAIN p = 1..Len(p)
         /\ p # <<>> => Len(p) > 0
         /\ \A q : IsPath(q) /\ Begins(p, q) => IsPrefix(p, q)
         /\ \A q : IsPath(q) /\ Begins(p, q) /\ Len(p) = Len(q) => p = q
<1>1. Len(p) \in Nat /\ DOMAIN p = 1..Len(p)
  BY LenProperties DEF IsPath
<1>2. p # <<>> => Len(p) > 0
  BY <1>1, EmptySeq DEF IsPath
<1>3. ASSUME NEW q, IsPath(q), Begins(p, q) PROVE IsPrefix(p, q)
  <2>1. Len(q) \in Nat /\ Len(p) <= Len(q) /\ \A i \in 1..Len(p) : p[i] = q[i]
    BY <1>3, LenProperties DEF IsPath, Begins
  <2>2. PICK n \in Nat : n = Len(p)
    BY <1>1
  <2>3. SubSeq(p, 1, n) = [i \in 1..n |-> p[i]] /\ SubSeq(q, 1, n) = [i \in 1..n |-> q[i]]
    BY <2>1, <2>2, <1>3 DEF IsPath
  <2>4. SubSeq(p, 1, n) = SubSeq(q, 1, n)
    BY <2>1, <2>2, <2>3
  <2> QED
    BY <2>1, <2>2, <2>4 DEF IsPrefix
<1>4. ASSUME NEW q, IsPath(q), Begins(p, q), Len(p) = Len(q) PROVE p = q
  <2>1. DOMAIN q = 1..Len(q) /\ p = [i \in DOMAIN p |-> p[i]] /\ q = [i \in DOMAIN q |-> q[i]]
    BY <1>4, LenProperties DEF IsPath
  <2> QED
    BY <1>1, <1>4, <2>1 DEF Begins
<1> QED
  BY <1>1, <1>2, <1>3, <1>4

\* getIn finds the last of the nodes along a path.
LEMMA FoundAlong ==
  ASSUME NEW c, NEW q, IsPath(q), q # <<>>
  PROVE  getIn(c, q) = NodesAlong(c, q)[Len(q)]
  BY DEF getIn

\* A value that was set is found at its path.
LEMMA FoundThere ==
  ASSUME NEW c, NEW p, IsPath(p), p # <<>>, NEW value
  PROVE  getIn(SetIn(c, p, value), p) = value
<1>1. PICK whole : whole = SetIn(c, p, value)
  OBVIOUS
<1>2. Len(p) \in Nat
  BY PathFacts
<1>3. IsSetIn(whole, c, p, value)
  BY <1>1, <1>2, SetNodes
<1> QED
  BY <1>1, <1>3, FoundAlong DEF IsSetIn

\* What is not on the way is found as before.
LEMMA FoundElsewhere ==
  ASSUME NEW c, NEW p, IsPath(p), NEW q, IsPath(q), NEW value, NEW m \in Nat, PartAt(p, q, m)
  PROVE  getIn(SetIn(c, p, value), q) = getIn(c, q)
<1>1. PICK whole, n, l : whole = SetIn(c, p, value) /\ n = Len(p) /\ l = Len(q)
  OBVIOUS
<1>2. /\ n \in Nat /\ l \in Nat /\ m < n /\ m < l
      /\ (\A i \in 1..m : p[i] = q[i]) /\ p[m + 1] # q[m + 1]
  BY <1>1, PathFacts DEF PartAt
<1>3. NodesAlong(whole, q)[m] = NodesAlong(whole, p)[m] /\ NodesAlong(c, q)[m] = NodesAlong(c, p)[m]
  <2>1. \A d : NodesAlong(d, q)[0] = NodesAlong(d, p)[0]
    BY <1>1, <1>2, NodesGoDown
  <2>2. \A i \in (0 + 1)..m : q[i] = p[i]
    BY <1>2
  <2>3. Len(p) \in Nat /\ Len(q) \in Nat /\ 0 \in Nat /\ 0 <= m /\ m <= Len(p) /\ m <= Len(q)
    BY <1>1, <1>2
  <2> QED
    BY <2>1, <2>2, <2>3, NodesAgree
<1>4. NodesAlong(whole, p)[m] =
        WithEntry(NodesAlong(c, p)[m], p[m + 1], NodesAlong(whole, p)[m + 1])
  <2>1. m \in 0..(Len(p) - 1) /\ Len(p) \in Nat
    BY <1>1, <1>2
  <2>2. IsSetIn(whole, c, p, value)
    BY <1>1, <2>1, SetNodes
  <2> QED
    BY <2>1, <2>2 DEF IsSetIn
<1>5. PICK k \in Nat : k = m + 1
  OBVIOUS
<1>6. k \in 1..Len(q) /\ k - 1 = m /\ Len(q) \in Nat
  BY <1>1, <1>2, <1>5
<1>7. /\ NodesAlong(whole, q)[k] = Child(NodesAlong(whole, q)[m], q[k])
      /\ NodesAlong(c, q)[k] = Child(NodesAlong(c, q)[m], q[k])
  BY <1>6, NodesGoDown
<1>8. NodesAlong(whole, q)[k] = NodesAlong(c, q)[k]
  BY <1>2, <1>3, <1>4, <1>5, <1>7, EntryFound
<1>9. NodesAlong(whole, q)[l] = NodesAlong(c, q)[l]
  <2>1. k <= l /\ l <= Len(q) /\ \A i \in (k + 1)..l : q[i] = q[i]
    BY <1>1, <1>6
  <2> QED
    BY <1>2, <1>6, <1>8, <2>1, NodesAgree
<1>10. q # <<>>
  <2>1. Len(q) # 0
    BY <1>1, <1>2
  <2> QED
    BY <2>1
<1> QED
  BY <1>1, <1>9, <1>10, FoundAlong

\* Above the path there are maps.
LEMMA FoundAbove ==
  ASSUME NEW c, NEW p, IsPath(p), NEW q, IsPath(q), q # <<>>, NEW value,
         Begins(q, p), Len(q) < Len(p)
  PROVE  isMap(getIn(SetIn(c, p, value), q))
<1>1. PICK whole, m : whole = SetIn(c, p, value) /\ m = Len(q)
  OBVIOUS
<1>2. m \in 0..(Len(p) - 1) /\ Len(p) \in Nat /\ Len(q) \in Nat /\ m \in Nat /\ m <= Len(p) /\ m <= Len(q)
  BY <1>1, PathFacts
<1>3. NodesAlong(whole, q)[m] = NodesAlong(whole, p)[m]
  <2>1. NodesAlong(whole, q)[0] = NodesAlong(whole, p)[0]
    BY <1>2, NodesGoDown
  <2>2. \A i \in (0 + 1)..m : q[i] = p[i]
    BY <1>1 DEF Begins
  <2> QED
    BY <1>2, <2>1, <2>2, NodesAgree
<1>4. NodesAlong(whole, p)[m] =
        WithEntry(NodesAlong(c, p)[m], p[m + 1], NodesAlong(whole, p)[m + 1])
  <2>1. IsSetIn(whole, c, p, value)
    BY <1>1, <1>2, SetNodes
  <2> QED
    BY <1>2, <2>1 DEF IsSetIn
<1> QED
  BY <1>1, <1>3, <1>4, EntryFound, FoundAlong

\* Below a value that is no map nothing is found.
LEMMA FoundBelow ==
  ASSUME NEW c, NEW p, IsPath(p), p # <<>>, NEW q, IsPath(q), NEW value, ~isMap(value),
         Begins(p, q), Len(p) < Len(q)
  PROVE  getIn(SetIn(c, p, value), q) = Undefined
<1>1. PICK whole, m : whole = SetIn(c, p, value) /\ m = Len(p)
  OBVIOUS
<1>2. Len(p) \in Nat /\ Len(q) \in Nat /\ m \in Nat /\ m < Len(q) /\ m <= Len(p) /\ m <= Len(q)
  BY <1>1, PathFacts
<1>3. NodesAlong(whole, q)[m] = NodesAlong(whole, p)[m]
  <2>1. NodesAlong(whole, q)[0] = NodesAlong(whole, p)[0]
    BY <1>2, NodesGoDown
  <2>2. \A i \in (0 + 1)..m : q[i] = p[i]
    BY <1>1 DEF Begins
  <2> QED
    BY <1>2, <2>1, <2>2, NodesAgree
<1>4. NodesAlong(whole, p)[Len(p)] = value
  <2>1. IsSetIn(whole, c, p, value)
    BY <1>1, <1>2, SetNodes
  <2> QED
    BY <2>1 DEF IsSetIn
<1>5. NodesAlong(whole, q)[Len(q)] = Undefined
  BY <1>1, <1>2, <1>3, <1>4, NothingBelow
<1>6. q # <<>>
  BY <1>2, EmptySeq
<1> QED
  BY <1>1, <1>5, <1>6, FoundAlong

\* Below what is no map nothing is found.
LEMMA NotFoundBelow ==
  ASSUME NEW c, NEW p, IsPath(p), p # <<>>, NEW q, IsPath(q), Begins(p, q), Len(p) < Len(q),
         ~isMap(getIn(c, p))
  PROVE  getIn(c, q) = Undefined
<1>1. PICK m : m = Len(p)
  OBVIOUS
<1>2. Len(p) \in Nat /\ Len(q) \in Nat /\ m \in Nat /\ m < Len(q) /\ m <= Len(p) /\ m <= Len(q)
  BY <1>1, PathFacts
<1>3. NodesAlong(c, q)[m] = NodesAlong(c, p)[m]
  <2>1. NodesAlong(c, q)[0] = NodesAlong(c, p)[0]
    BY <1>2, NodesGoDown
  <2>2. \A i \in (0 + 1)..m : q[i] = p[i]
    BY <1>1 DEF Begins
  <2> QED
    BY <1>2, <2>1, <2>2, NodesAgree
<1>4. ~isMap(NodesAlong(c, q)[m])
  BY <1>1, <1>3, FoundAlong
<1>5. NodesAlong(c, q)[Len(q)] = Undefined
  BY <1>2, <1>4, NothingBelow
<1>6. q # <<>>
  BY <1>2, EmptySeq
<1> QED
  BY <1>5, <1>6, FoundAlong


\* On its way a path finds what the shorter one finds.
LEMMA FoundOnTheWay ==
  ASSUME NEW c, NEW p, IsPath(p), NEW q, IsPath(q), q # <<>>, Begins(q, p)
  PROVE  NodesAlong(c, p)[Len(q)] = getIn(c, q) /\ Len(q) \in 1..Len(p)
<1>1. PICK m : m = Len(q)
  OBVIOUS
<1>2. /\ Len(p) \in Nat /\ Len(q) \in Nat /\ m \in Nat /\ m <= Len(p) /\ m <= Len(q)
      /\ m \in 1..Len(p)
  BY <1>1, PathFacts DEF Begins
<1>3. NodesAlong(c, p)[m] = NodesAlong(c, q)[m]
  <2>1. NodesAlong(c, p)[0] = NodesAlong(c, q)[0]
    BY <1>2, NodesGoDown
  <2>2. \A i \in (0 + 1)..m : p[i] = q[i]
    BY <1>1 DEF Begins
  <2> QED
    BY <1>2, <2>1, <2>2, NodesAgree
<1> QED
  BY <1>1, <1>2, <1>3, FoundAlong

\* The path of the parent.
LEMMA FrontFacts ==
  ASSUME NEW p, IsPath(p), p # <<>>
  PROVE  IsPath(Front(p)) /\ Len(Front(p)) = Len(p) - 1 /\ Begins(Front(p), p)
<1>1. Len(p) \in Nat /\ Len(p) > 0 /\ DOMAIN p = 1..Len(p)
  BY PathFacts
<1>2. PICK n : n = Len(p) - 1
  OBVIOUS
<1>3. Front(p) = SubSeq(p, 1, n) /\ n \in Nat
  BY <1>1, <1>2 DEF Front
<1>4. /\ SubSeq(p, 1, n) = [i \in 1..n |-> p[i]] /\ Len(SubSeq(p, 1, n)) = n
  BY <1>1, <1>2, <1>3, SubSeqProperties DEF IsPath
<1>5. PICK f : f = SubSeq(p, 1, n)
  OBVIOUS
<1>6. f = [i \in 1..n |-> p[i]] /\ Len(f) = n /\ DOMAIN f = 1..n
  BY <1>4, <1>5
<1>7. f \in [1..n -> ToSet(f)] /\ n \in Nat
  BY <1>3, <1>6 DEF ToSet
<1>8. IsPath(f)
  BY <1>7, FunctionIsSeq DEF IsPath
<1>9. Begins(f, p)
  BY <1>1, <1>2, <1>6 DEF Begins
<1> QED
  BY <1>2, <1>3, <1>5, <1>6, <1>8, <1>9


-----------------------------------------------------------------------------
(* What the edits keep.                                                    *)

\* What holds somewhere is found there, and is no map.
LEMMA HoldsIsFound ==
  ASSUME NEW c, NEW q, NEW val, Holds(c, q, val)
  PROVE  getIn(c, q).kind \in {"scalar", "seq"} /\ ~isMap(getIn(c, q)) /\ getIn(c, q) # Undefined
  BY DEF Holds, Scalar, isMap, Undefined

LEMMA SameHolds ==
  ASSUME NEW c, NEW d, NEW q, getIn(d, q) = getIn(c, q), NEW val, Holds(c, q, val)
  PROVE  Holds(d, q, val)
  BY DEF Holds

\* A set that does not throw leaves what holds elsewhere.
LEMMA SetKeeps ==
  ASSUME NEW c, NEW p, IsPath(p), NEW q, IsPath(q), q # <<>>, NEW value, NEW val,
         ~IsPrefix(p, q), ~set(c, p, value).throws, Holds(c, q, val)
  PROVE  Holds(set(c, p, value).contents, q, val)
<1>1. Len(p) \in Nat /\ Len(q) \in Nat /\ ~Begins(p, q)
  BY PathFacts
<1>2. p # <<>>
  BY <1>1 DEF Begins
<1>3. set(c, p, value).contents = SetIn(c, p, Scalar(value))
  BY <1>2 DEF set, Edit
<1>4. ~Begins(q, p)
  <2> SUFFICES ASSUME Begins(q, p) PROVE FALSE
    OBVIOUS
  <2>1. NodesAlong(c, p)[Len(q)] = getIn(c, q) /\ Len(q) \in 1..Len(p)
    BY FoundOnTheWay
  <2>2. Len(q) # Len(p)
    <3> SUFFICES ASSUME Len(q) = Len(p) PROVE FALSE
      OBVIOUS
    <3>1. Begins(p, q)
      BY <1>1 DEF Begins
    <3> QED
      BY <1>1, <3>1
  <2>3. Len(q) \in 1..Len(p) - 1
    BY <1>1, <2>1, <2>2
  <2>4. NodesAlong(c, p)[Len(q)].kind \in {"scalar", "seq"}
    BY <2>1, HoldsIsFound
  <2>5. set(c, p, value).throws
    BY <2>3, <2>4 DEF set, Edit
  <2> QED
    BY <2>5
<1>5. PICK m \in Nat : PartAt(p, q, m)
  BY <1>1, <1>4, PathsPart
<1>6. getIn(SetIn(c, p, Scalar(value)), q) = getIn(c, q)
  BY <1>5, FoundElsewhere
<1> QED
  BY <1>3, <1>6, SameHolds

\* The elements of a sequence and one more.
LEMMA AppendElements ==
  ASSUME NEW items, items \in Seq(ToSet(items)), NEW e
  PROVE  /\ Append(items, e) \in Seq(ToSet(Append(items, e)))
         /\ e \in ToSet(Append(items, e)) /\ ToSet(items) \subseteq ToSet(Append(items, e))
<1>1. PICK S : S = ToSet(items) \cup {e}
  OBVIOUS
<1>2. items \in Seq(S) /\ e \in S
  BY <1>1
<1>3. PICK more : more = Append(items, e)
  OBVIOUS
<1>4. /\ more \in Seq(S) /\ Len(more) = Len(items) + 1 /\ Len(items) \in Nat
      /\ \A i \in 1..Len(items) : more[i] = items[i]
      /\ more[Len(items) + 1] = e
  BY <1>2, <1>3, AppendProperties
<1>5. DOMAIN more = 1..(Len(items) + 1) /\ DOMAIN items = 1..Len(items)
  BY <1>2, <1>4, LenProperties
<1>6. e \in ToSet(more) /\ ToSet(items) \subseteq ToSet(more)
  BY <1>4, <1>5 DEF ToSet
<1>7. more \in [1..Len(more) -> ToSet(more)] /\ Len(more) \in Nat
  BY <1>4, <1>5 DEF ToSet
<1>8. more \in Seq(ToSet(more))
  BY <1>7, FunctionIsSeq
<1> QED
  BY <1>3, <1>6, <1>8

\* Where append has a place for a value, and what it puts there.
Place(c, p) == getIn(c, p).kind = "seq" \/ isMap(getIn(c, Front(p)))

Longer(c, p, value, node) ==
    /\ append(c, p, value).contents = SetIn(c, p, node)
    /\ node.kind = "seq" /\ HasItems(node) /\ Scalar(value) \in ToSet(node.items)
    /\ getIn(c, p).kind = "seq" => ToSet(getIn(c, p).items) \subseteq ToSet(node.items)

LEMMA NoPlace ==
  ASSUME NEW c, NEW p, NEW value, ~Place(c, p)
  PROVE  append(c, p, value).contents = c
  BY DEF Place, append, Edit

LEMMA AppendMakes ==
  ASSUME NEW c, NEW p, IsPath(p), NEW value, HasItems(getIn(c, p)), Place(c, p)
  PROVE  p # <<>> /\ \E node : Longer(c, p, value, node)
<1>1. p # <<>>
  <2> SUFFICES ASSUME p = <<>> PROVE FALSE
    OBVIOUS
  <2>1. Front(p) = <<>>
    <3>1. Len(p) = 0 /\ Front(p) = SubSeq(p, 1, Len(p) - 1)
      BY DEF Front
    <3>2. 0 - 1 \in Int /\ 0 - 1 < 1 /\ 1 \in Int
      OBVIOUS
    <3>3. SubSeq(p, 1, 0 - 1) = <<>>
      BY <3>2, SubSeqEmpty
    <3> QED
      BY <3>1, <3>3
  <2>2. getIn(c, p) = Undefined /\ getIn(c, Front(p)) = Undefined
    BY <2>1 DEF getIn
  <2> QED
    BY <2>2 DEF Place, Undefined, isMap
<1>2. CASE getIn(c, p).kind = "seq"
  <2>1. PICK items : items = getIn(c, p).items
    OBVIOUS
  <2>2. items \in Seq(ToSet(items))
    BY <1>2, <2>1 DEF HasItems
  <2>3. PICK more : more = Append(items, Scalar(value))
    OBVIOUS
  <2>4. more \in Seq(ToSet(more)) /\ Scalar(value) \in ToSet(more) /\ ToSet(items) \subseteq ToSet(more)
    BY <2>2, <2>3, AppendElements
  <2>5. append(c, p, value).contents = SetIn(c, p, YAMLSeq(more))
    BY <1>2, <2>1, <2>3 DEF append, Edit
  <2>6. YAMLSeq(more).kind = "seq" /\ YAMLSeq(more).items = more
    BY DEF YAMLSeq
  <2>7. Longer(c, p, value, YAMLSeq(more))
    BY <2>1, <2>4, <2>5, <2>6 DEF Longer, HasItems
  <2> QED
    BY <1>1, <2>7
<1>3. CASE getIn(c, p).kind # "seq"
  <2>1. PICK more : more = <<Scalar(value)>>
    OBVIOUS
  <2>2. more \in Seq(ToSet(more)) /\ Scalar(value) \in ToSet(more)
    BY <2>1 DEF ToSet
  <2>3. isMap(getIn(c, Front(p)))
    BY <1>3 DEF Place
  <2>4. append(c, p, value).contents = SetIn(c, p, YAMLSeq(more))
    BY <1>3, <2>1, <2>3 DEF append, Edit
  <2>5. YAMLSeq(more).kind = "seq" /\ YAMLSeq(more).items = more
    BY DEF YAMLSeq
  <2>6. Longer(c, p, value, YAMLSeq(more))
    BY <1>3, <2>2, <2>4, <2>5 DEF Longer, HasItems
  <2> QED
    BY <1>1, <2>6
<1> QED
  BY <1>2, <1>3

\* An append that does not throw leaves all that holds.
LEMMA AppendKeeps ==
  ASSUME NEW c, NEW p, IsPath(p), NEW q, IsPath(q), q # <<>>, NEW value, NEW val,
         HasItems(getIn(c, p)), ~append(c, p, value).throws, Holds(c, q, val)
  PROVE  Holds(append(c, p, value).contents, q, val)
<1>1. CASE ~Place(c, p)
  BY <1>1, NoPlace
<1>2. CASE Place(c, p)
  <2>1. p # <<>> /\ \E n : Longer(c, p, value, n)
    BY <1>2, AppendMakes
  <2>2. PICK node : Longer(c, p, value, node)
    BY <2>1
  <2>3. append(c, p, value).contents = SetIn(c, p, node)
    BY <2>2 DEF Longer
  <2>4. Len(p) \in Nat /\ Len(q) \in Nat
    BY PathFacts
  <2>5. getIn(c, p).kind \in {"undefined", "seq"} /\ ~isMap(getIn(c, p))
    BY DEF append, Edit, isMap
  <2>6. getIn(c, q).kind \in {"scalar", "seq"} /\ ~isMap(getIn(c, q)) /\ getIn(c, q) # Undefined
    BY HoldsIsFound
  <2>7. CASE p = q
    <3>1. getIn(c, q).kind = "seq" /\ Scalar(val) \in ToSet(getIn(c, q).items)
      BY <2>5, <2>6, <2>7 DEF Holds, Scalar
    <3>2. node.kind = "seq" /\ Scalar(val) \in ToSet(node.items)
      BY <2>2, <2>7, <3>1 DEF Longer
    <3>3. getIn(SetIn(c, p, node), p) = node
      BY <2>1, FoundThere
    <3> QED
      BY <2>3, <2>7, <3>2, <3>3 DEF Holds
  <2>8. ASSUME Begins(p, q), p # q PROVE FALSE
    <3>1. Len(p) # Len(q)
      BY <2>8, PathFacts
    <3>2. Len(p) < Len(q)
      BY <2>4, <2>8, <3>1 DEF Begins
    <3>3. getIn(c, q) = Undefined
      BY <2>1, <2>5, <2>8, <3>2, NotFoundBelow
    <3> QED
      BY <2>6, <3>3
  <2>9. ASSUME Begins(q, p), p # q PROVE FALSE
    <3>1. Len(p) # Len(q)
      BY <2>9, PathFacts
    <3>2. Len(q) < Len(p)
      BY <2>4, <2>9, <3>1 DEF Begins
    <3>3. getIn(c, p) = Undefined
      BY <2>6, <2>9, <3>2, NotFoundBelow
    <3>4. isMap(getIn(c, Front(p)))
      BY <1>2, <3>3 DEF Place, Undefined
    <3>5. PICK r : r = Front(p)
      OBVIOUS
    <3>6. IsPath(r) /\ Len(r) = Len(p) - 1 /\ Begins(r, p)
      BY <2>1, <3>5, FrontFacts
    <3>7. Begins(q, r)
      BY <2>4, <2>9, <3>2, <3>6 DEF Begins
    <3>8. Len(q) # Len(r)
      <4>1. q # r
        BY <2>6, <3>4, <3>5
      <4> QED
        BY <3>6, <3>7, <4>1, PathFacts
    <3>9. Len(q) < Len(r)
      BY <2>4, <3>2, <3>6, <3>8
    <3>10. getIn(c, r) = Undefined
      BY <2>6, <3>6, <3>7, <3>9, NotFoundBelow
    <3> QED
      BY <3>4, <3>5, <3>10 DEF Undefined, isMap
  <2>10. ASSUME NEW m \in Nat, PartAt(p, q, m) PROVE Holds(SetIn(c, p, node), q, val)
    BY <2>10, FoundElsewhere, SameHolds
  <2> QED
    BY <2>3, <2>4, <2>7, <2>8, <2>9, <2>10, PathsPart
<1> QED
  BY <1>1, <1>2

\* Sequences stay sequences where another one, or a scalar, is set.
LEMMA ItemsKept ==
  ASSUME NEW c, NEW p, IsPath(p), p # <<>>, NEW q, IsPath(q), NEW value,
         ~isMap(value), HasItems(value), HasItems(getIn(c, q))
  PROVE  HasItems(getIn(SetIn(c, p, value), q))
<1>1. PICK new : new = SetIn(c, p, value)
  OBVIOUS
<1>2. Len(p) \in Nat /\ Len(q) \in Nat
  BY PathFacts
<1>3. CASE q = <<>>
  BY <1>3 DEF getIn, HasItems, Undefined
<1>4. CASE p = q
  BY <1>4, FoundThere
<1>5. CASE q # <<>> /\ p # q /\ Begins(p, q)
  <2>1. Len(p) # Len(q)
    BY <1>5, PathFacts
  <2>2. Len(p) < Len(q)
    BY <1>2, <1>5, <2>1 DEF Begins
  <2>3. getIn(new, q) = Undefined
    BY <1>1, <1>5, <2>2, FoundBelow
  <2> QED
    BY <1>1, <2>3 DEF HasItems, Undefined
<1>6. CASE q # <<>> /\ p # q /\ Begins(q, p)
  <2>1. Len(p) # Len(q)
    BY <1>6, PathFacts
  <2>2. Len(q) < Len(p)
    BY <1>2, <1>6, <2>1 DEF Begins
  <2>3. isMap(getIn(new, q))
    BY <1>1, <1>6, <2>2, FoundAbove
  <2> QED
    BY <1>1, <2>3 DEF HasItems, isMap
<1>7. ASSUME NEW m \in Nat, PartAt(p, q, m) PROVE HasItems(getIn(SetIn(c, p, value), q))
  <2>1. getIn(SetIn(c, p, value), q) = getIn(c, q)
    BY <1>7, FoundElsewhere
  <2> QED
    BY <2>1
<1> QED
  BY <1>1, <1>2, <1>3, <1>4, <1>5, <1>6, <1>7, PathsPart

LEMMA SetKeepsItems ==
  ASSUME NEW c, NEW p, IsPath(p), NEW q, IsPath(q), NEW value, HasItems(getIn(c, q))
  PROVE  HasItems(getIn(set(c, p, value).contents, q))
<1>1. CASE p = <<>>
  BY <1>1 DEF set, Edit
<1>2. CASE p # <<>>
  <2>1. set(c, p, value).contents = SetIn(c, p, Scalar(value))
    BY <1>2 DEF set, Edit
  <2>2. PICK node : node = Scalar(value)
    OBVIOUS
  <2>3. ~isMap(node) /\ HasItems(node)
    BY <2>2 DEF Scalar, isMap, HasItems
  <2> QED
    BY <1>2, <2>1, <2>2, <2>3, ItemsKept
<1> QED
  BY <1>1, <1>2

LEMMA AppendKeepsItems ==
  ASSUME NEW c, NEW p, IsPath(p), NEW q, IsPath(q), NEW value,
         HasItems(getIn(c, p)), HasItems(getIn(c, q))
  PROVE  HasItems(getIn(append(c, p, value).contents, q))
<1>1. CASE ~Place(c, p)
  BY <1>1, NoPlace
<1>2. CASE Place(c, p)
  <2>1. p # <<>> /\ \E n : Longer(c, p, value, n)
    BY <1>2, AppendMakes
  <2>2. PICK node : Longer(c, p, value, node)
    BY <2>1
  <2>3. append(c, p, value).contents = SetIn(c, p, node) /\ ~isMap(node) /\ HasItems(node)
    BY <2>2 DEF Longer, isMap
  <2> QED
    BY <2>1, <2>3, ItemsKept
<1> QED
  BY <1>1, <1>2

LEMMA AnnotationKeepsItems ==
  ASSUME NEW c, NEW q, IsPath(q), NEW value, HasItems(getIn(c, q))
  PROVE  HasItems(getIn(addAnnotation(c, value).contents, q))
<1>1. PICK p : p = Append(Annotations, "techdocs-ref")
  OBVIOUS
<1>2. Annotations \in Seq(ToSet(Annotations))
  BY DEF Annotations, ToSet
<1>3. IsPath(p) /\ p # <<>>
  <2>1. IsPath(p) /\ "techdocs-ref" \in ToSet(p)
    BY <1>1, <1>2, AppendElements DEF IsPath
  <2>2. ToSet(<<>>) = {}
    BY DEF ToSet
  <2> QED
    BY <2>1, <2>2
<1>4. PICK node : node = Scalar(value)
  OBVIOUS
<1>5. ~isMap(node) /\ HasItems(node)
  BY <1>4 DEF Scalar, isMap, HasItems
<1>6. addAnnotation(c, value).contents = SetIn(c, p, node)
  BY <1>1, <1>4 DEF addAnnotation, Edit
<1> QED
  BY <1>3, <1>5, <1>6, ItemsKept

-----------------------------------------------------------------------------
(* The calls of a setup file.                                              *)

USE AttemptsAssumption, SetupAssumption

Resources == {"application", "delta", "deployment", "automation"}

Envs == {"none"} \cup UNION {ToSet(Setup[n].environments) \cup ToSet(Setup[n].automations) :
                            n \in DOMAIN Setup}

CallSet == {Call(resource, nth, env) : resource \in Resources, nth \in DOMAIN Setup, env \in Envs}

\* Each deployment comes right after its delta.
Paired(calls) ==
    /\ \A i \in DOMAIN calls : calls[i].resource = "deployment" /\ i > 1 =>
            /\ calls[i - 1].resource = "delta"
            /\ calls[i - 1].nth = calls[i].nth /\ calls[i - 1].env = calls[i].env
    /\ \A i \in DOMAIN calls : calls[i].resource = "delta" =>
            /\ i + 1 \in DOMAIN calls /\ calls[i + 1].resource = "deployment"
            /\ calls[i + 1].nth = calls[i].nth /\ calls[i + 1].env = calls[i].env

\* The applications come one after the other, each one with what is made in it;
\* a suffix of such calls is in order as well.
InOrder(calls) ==
    /\ calls \in Seq(CallSet) /\ Paired(calls)
    /\ \A i, j \in DOMAIN calls : i < j => calls[i].nth <= calls[j].nth
    /\ \A i \in DOMAIN calls : i > 1 /\ calls[i].resource # "application" =>
            calls[i - 1].nth = calls[i].nth

\* The calls for one app, where no pair is cut in two.
OfApp(nth) == {calls \in Seq(CallSet) :
    /\ Paired(calls) /\ \A i \in DOMAIN calls : calls[i].nth = nth
    /\ calls # <<>> => calls[1].resource # "deployment"}

LEMMA CallIsCall ==
  ASSUME NEW resource \in Resources, NEW nth \in DOMAIN Setup, NEW env \in Envs
  PROVE  /\ Call(resource, nth, env) \in CallSet
         /\ Call(resource, nth, env).resource = resource
         /\ Call(resource, nth, env).nth = nth
         /\ Call(resource, nth, env).env = env
<1>1. Call(resource, nth, env) \in CallSet
  BY DEF CallSet
<1> QED
  BY <1>1 DEF Call

LEMMA CallShape ==
  ASSUME NEW c \in CallSet
  PROVE  /\ c.resource \in Resources /\ c.nth \in DOMAIN Setup /\ c.nth \in Nat
         /\ c.app = Setup[c.nth].id /\ c.env \in Envs
<1>1. PICK resource \in Resources, nth \in DOMAIN Setup, env \in Envs : c = Call(resource, nth, env)
  BY DEF CallSet
<1>2. DOMAIN Setup \subseteq Nat
  BY LenProperties
<1> QED
  BY <1>1, <1>2 DEF Call

LEMMA EnvIsEnv ==
  ASSUME NEW nth \in DOMAIN Setup
  PROVE  /\ "none" \in Envs
         /\ \A i \in DOMAIN Setup[nth].environments : Setup[nth].environments[i] \in Envs
         /\ \A i \in DOMAIN Setup[nth].automations : Setup[nth].automations[i] \in Envs
  BY DEF Envs, ToSet

\* Positions in what is concatenated.
LEMMA ConcatPositions ==
  ASSUME NEW S, NEW s \in Seq(S), NEW t \in Seq(S)
  PROVE  /\ s \o t \in Seq(S) /\ Len(s) \in Nat /\ Len(t) \in Nat
         /\ DOMAIN s = 1..Len(s) /\ DOMAIN t = 1..Len(t)
         /\ DOMAIN (s \o t) = 1..(Len(s) + Len(t))
         /\ \A i \in DOMAIN s : (s \o t)[i] = s[i]
         /\ \A i \in DOMAIN t : (s \o t)[Len(s) + i] = t[i]
         /\ \A k \in DOMAIN (s \o t) :
                k \in DOMAIN s \/ (k - Len(s) \in DOMAIN t /\ (s \o t)[k] = t[k - Len(s)])
<1>1. /\ s \o t \in Seq(S) /\ Len(s \o t) = Len(s) + Len(t)
      /\ Len(s) \in Nat /\ Len(t) \in Nat
      /\ DOMAIN s = 1..Len(s) /\ DOMAIN t = 1..Len(t)
      /\ DOMAIN (s \o t) = 1..(Len(s) + Len(t))
  BY ConcatProperties, LenProperties
<1>2. \A i \in 1..(Len(s) + Len(t)) : (s \o t)[i] = IF i <= Len(s) THEN s[i] ELSE t[i - Len(s)]
  BY ConcatProperties
<1>3. \A i \in DOMAIN s : (s \o t)[i] = s[i]
  BY <1>1, <1>2
<1>4. \A i \in DOMAIN t : (s \o t)[Len(s) + i] = t[i]
  <2> SUFFICES ASSUME NEW i \in DOMAIN t PROVE (s \o t)[Len(s) + i] = t[i]
    OBVIOUS
  <2>1. Len(s) + i \in 1..(Len(s) + Len(t)) /\ ~(Len(s) + i <= Len(s)) /\ Len(s) + i - Len(s) = i
    BY <1>1
  <2> QED
    BY <1>2, <2>1
<1>5. \A k \in DOMAIN (s \o t) :
        k \in DOMAIN s \/ (k - Len(s) \in DOMAIN t /\ (s \o t)[k] = t[k - Len(s)])
  BY <1>1, <1>2
<1> QED
  BY <1>1, <1>3, <1>4, <1>5

LEMMA ConcatPaired ==
  ASSUME NEW s \in Seq(CallSet), NEW t \in Seq(CallSet), Paired(s), Paired(t),
         t # <<>> => t[1].resource # "deployment"
  PROVE  Paired(s \o t)
<1> DEFINE r == s \o t
           n == Len(s)
<1>1. /\ n \in Nat /\ Len(t) \in Nat
      /\ DOMAIN s = 1..n /\ DOMAIN t = 1..Len(t) /\ DOMAIN r = 1..(n + Len(t))
      /\ \A i \in DOMAIN s : r[i] = s[i]
      /\ \A i \in DOMAIN t : r[n + i] = t[i]
      /\ \A k \in DOMAIN r : k \in DOMAIN s \/ (k - n \in DOMAIN t /\ r[k] = t[k - n])
  BY ConcatPositions
<1> HIDE DEF r, n
<1>2. ASSUME NEW i \in DOMAIN r, r[i].resource = "deployment", i > 1
      PROVE  /\ r[i - 1].resource = "delta"
             /\ r[i - 1].nth = r[i].nth /\ r[i - 1].env = r[i].env
  <2>1. CASE i \in DOMAIN s
    <3>1. i - 1 \in DOMAIN s /\ r[i] = s[i] /\ r[i - 1] = s[i - 1]
      BY <1>1, <1>2, <2>1
    <3> QED
      BY <1>2, <2>1, <3>1 DEF Paired
  <2>2. CASE i \notin DOMAIN s
    <3>1. i - n \in DOMAIN t /\ r[i] = t[i - n]
      BY <1>1, <2>2
    <3>2. i - n # 1
      <4>1. t # <<>>
        BY <3>1
      <4> QED
        BY <1>2, <3>1, <4>1
    <3>3. (i - n) - 1 \in DOMAIN t /\ i - n > 1 /\ n + ((i - n) - 1) = i - 1
      BY <1>1, <1>2, <3>1, <3>2
    <3>4. r[i - 1] = t[(i - n) - 1]
      BY <1>1, <3>3
    <3> QED
      BY <1>2, <3>1, <3>3, <3>4 DEF Paired
  <2> QED
    BY <2>1, <2>2
<1>3. ASSUME NEW i \in DOMAIN r, r[i].resource = "delta"
      PROVE  /\ i + 1 \in DOMAIN r /\ r[i + 1].resource = "deployment"
             /\ r[i + 1].nth = r[i].nth /\ r[i + 1].env = r[i].env
  <2>1. CASE i \in DOMAIN s
    <3>1. i + 1 \in DOMAIN s
      BY <1>1, <1>3, <2>1 DEF Paired
    <3>2. r[i] = s[i] /\ r[i + 1] = s[i + 1] /\ i + 1 \in DOMAIN r
      BY <1>1, <2>1, <3>1
    <3> QED
      BY <1>3, <2>1, <3>1, <3>2 DEF Paired
  <2>2. CASE i \notin DOMAIN s
    <3>1. i - n \in DOMAIN t /\ r[i] = t[i - n]
      BY <1>1, <2>2
    <3>2. (i - n) + 1 \in DOMAIN t
      BY <1>3, <3>1 DEF Paired
    <3>3. n + ((i - n) + 1) = i + 1 /\ i + 1 \in DOMAIN r
      BY <1>1, <3>2
    <3>4. r[i + 1] = t[(i - n) + 1]
      BY <1>1, <3>2, <3>3
    <3> QED
      BY <1>3, <3>1, <3>3, <3>4 DEF Paired
  <2> QED
    BY <2>1, <2>2
<1> QED
  BY <1>2, <1>3 DEF Paired, r

LEMMA ConcatOfApp ==
  ASSUME NEW nth, NEW s \in OfApp(nth), NEW t \in OfApp(nth)
  PROVE  s \o t \in OfApp(nth)
<1>1. /\ s \in Seq(CallSet) /\ t \in Seq(CallSet) /\ Paired(s) /\ Paired(t)
      /\ \A i \in DOMAIN s : s[i].nth = nth
      /\ \A i \in DOMAIN t : t[i].nth = nth
      /\ s # <<>> => s[1].resource # "deployment"
      /\ t # <<>> => t[1].resource # "deployment"
  BY DEF OfApp
<1>2. Paired(s \o t)
  BY <1>1, ConcatPaired
<1>3. s \o t \in Seq(CallSet) /\ \A i \in DOMAIN (s \o t) : (s \o t)[i].nth = nth
  BY <1>1, ConcatPositions
<1>4. s \o t # <<>> => (s \o t)[1].resource # "deployment"
  <2>1. CASE s = <<>>
    <3>1. s \o t = t
      BY <1>1, <2>1, ConcatEmptySeq
    <3> QED
      BY <1>1, <3>1
  <2>2. CASE s # <<>>
    <3>1. 1 \in DOMAIN s
      BY <1>1, <2>2
    <3> QED
      BY <1>1, <2>2, <3>1, ConcatPositions
  <2> QED
    BY <2>1, <2>2
<1> QED
  BY <1>2, <1>3, <1>4 DEF OfApp

\* The calls for an app are calls for it, the application first.
LEMMA CallsForApp ==
  ASSUME NEW nth \in DOMAIN Setup
  PROVE  /\ CallsFor(nth) \in OfApp(nth) /\ CallsFor(nth) \in Seq(CallSet)
         /\ CallsFor(nth) # <<>> /\ CallsFor(nth)[1].resource = "application"
<1> DEFINE app == Setup[nth]
           first == <<Call("application", nth, "none")>>
           pairs == [i \in DOMAIN app.environments |->
                        <<Call("delta", nth, app.environments[i]),
                          Call("deployment", nth, app.environments[i])>>]
           autos == [i \in DOMAIN app.automations |-> Call("automation", nth, app.automations[i])]
<1>1. /\ app.environments \in Seq(STRING) /\ app.automations \in Seq(STRING)
  <2>1. app \in [id: STRING, environments: Seq(STRING), automations: Seq(STRING)]
    BY LenProperties
  <2> QED
    BY <2>1
<1> HIDE DEF app
<1>2. first \in OfApp(nth) /\ first[1].resource = "application" /\ first \in Seq(CallSet)
      /\ 1 \in DOMAIN first
  <2> DEFINE c == Call("application", nth, "none")
  <2>0. "none" \in Envs /\ "application" \in Resources
    BY EnvIsEnv DEF Resources
  <2>1. c \in CallSet /\ c.resource = "application" /\ c.nth = nth
    BY <2>0, CallIsCall
  <2> HIDE DEF c
  <2>2. /\ <<c>> \in Seq(CallSet) /\ DOMAIN <<c>> = {1} /\ <<c>>[1] = c
    BY <2>1
  <2>3. Paired(<<c>>)
    BY <2>1, <2>2 DEF Paired
  <2> QED
    BY <2>1, <2>2, <2>3 DEF OfApp, c
<1>3. ASSUME NEW env \in Envs
      PROVE  <<Call("delta", nth, env), Call("deployment", nth, env)>> \in OfApp(nth)
  <2> DEFINE c == Call("delta", nth, env)
             d == Call("deployment", nth, env)
  <2>1. /\ c \in CallSet /\ c.resource = "delta" /\ c.nth = nth /\ c.env = env
        /\ d \in CallSet /\ d.resource = "deployment" /\ d.nth = nth /\ d.env = env
    <3>1. "delta" \in Resources /\ "deployment" \in Resources
      BY DEF Resources
    <3> QED
      BY <3>1, CallIsCall
  <2> HIDE DEF c, d
  <2>2. /\ <<c, d>> \in Seq(CallSet) /\ DOMAIN <<c, d>> = {1, 2}
        /\ <<c, d>>[1] = c /\ <<c, d>>[2] = d
    BY <2>1
  <2>3. \A i \in DOMAIN <<c, d>> : /\ <<c, d>>[i].nth = nth
                                   /\ <<c, d>>[i].resource = "deployment" => i - 1 = 1 /\ i = 2
                                   /\ <<c, d>>[i].resource = "delta" => i + 1 = 2 /\ i = 1
    BY <2>1, <2>2
  <2>4. Paired(<<c, d>>)
    BY <2>1, <2>2, <2>3 DEF Paired
  <2> QED
    BY <2>1, <2>2, <2>3, <2>4 DEF OfApp, c, d
<1>4. pairs \in Seq(OfApp(nth))
  <2>1. /\ DOMAIN app.environments = 1..Len(app.environments) /\ Len(app.environments) \in Nat
        /\ \A i \in DOMAIN app.environments : app.environments[i] \in Envs
    BY <1>1, LenProperties, EnvIsEnv DEF app
  <2>2. pairs \in [1..Len(app.environments) -> OfApp(nth)]
    BY <1>3, <2>1
  <2> QED
    BY <2>1, <2>2, FunctionIsSeq
<1>5. autos \in OfApp(nth)
  <2>1. /\ DOMAIN app.automations = 1..Len(app.automations) /\ Len(app.automations) \in Nat
        /\ \A i \in DOMAIN app.automations : app.automations[i] \in Envs
    BY <1>1, LenProperties, EnvIsEnv DEF app
  <2>2. \A i \in DOMAIN autos : autos[i] \in CallSet /\ autos[i].resource = "automation"
                                /\ autos[i].nth = nth
    BY <2>1, CallIsCall DEF Resources
  <2>3. autos \in [1..Len(app.automations) -> CallSet] /\ DOMAIN autos = DOMAIN app.automations
    BY <2>1, <2>2
  <2> HIDE DEF autos
  <2>4. autos \in Seq(CallSet)
    BY <2>1, <2>3, FunctionIsSeq
  <2>5. Paired(autos)
    BY <2>2 DEF Paired
  <2>6. autos # <<>> => 1 \in DOMAIN autos
    BY <2>4
  <2> QED
    BY <2>2, <2>4, <2>5, <2>6 DEF OfApp
<1>6. <<>> \in OfApp(nth) /\ OfApp(nth) \in SUBSET Seq(CallSet)
  BY DEF OfApp, Paired
<1>7. CallsFor(nth) = first \o FlattenSeq(pairs) \o autos
  BY DEF CallsFor, app
<1> HIDE DEF first, pairs, autos
<1>8. FlattenSeq(pairs) \in OfApp(nth)
  BY <1>4, <1>6, ConcatOfApp, FlattenClosed
<1>9. (first \o FlattenSeq(pairs)) \in OfApp(nth) /\ CallsFor(nth) \in OfApp(nth)
  BY <1>2, <1>5, <1>7, <1>8, ConcatOfApp
<1>10. (first \o FlattenSeq(pairs))[1] = first[1] /\ 1 \in DOMAIN (first \o FlattenSeq(pairs))
  <2>1. FlattenSeq(pairs) \in Seq(CallSet)
    BY <1>6, <1>8
  <2> QED
    BY <1>2, <2>1, ConcatPositions
<1>11. CallsFor(nth)[1] = first[1] /\ 1 \in DOMAIN CallsFor(nth)
  <2>1. (first \o FlattenSeq(pairs)) \in Seq(CallSet) /\ autos \in Seq(CallSet)
    BY <1>5, <1>6, <1>9
  <2> QED
    BY <1>7, <1>10, <2>1, ConcatPositions
<1>12. CallsFor(nth) \in Seq(CallSet)
  BY <1>6, <1>9
<1> QED
  BY <1>2, <1>9, <1>11, <1>12

\* The next app follows those before it.
LEMMA NextAppInOrder ==
  ASSUME NEW s, InOrder(s), NEW nth \in DOMAIN Setup,
         \A i \in DOMAIN s : s[i].nth <= nth
  PROVE  InOrder(s \o CallsFor(nth))
<1> DEFINE t == CallsFor(nth)
           r == s \o t
           n == Len(s)
<1>1. /\ t \in Seq(CallSet) /\ Paired(t) /\ \A i \in DOMAIN t : t[i].nth = nth
      /\ t # <<>> /\ t[1].resource = "application"
      /\ s \in Seq(CallSet) /\ Paired(s)
  BY CallsForApp DEF OfApp, InOrder
<1> HIDE DEF t
<1>2. /\ r \in Seq(CallSet) /\ n \in Nat /\ Len(t) \in Nat
      /\ DOMAIN s = 1..n /\ DOMAIN t = 1..Len(t) /\ DOMAIN r = 1..(n + Len(t))
      /\ \A i \in DOMAIN s : r[i] = s[i]
      /\ \A k \in DOMAIN r : k \in DOMAIN s \/ (k - n \in DOMAIN t /\ r[k] = t[k - n])
  BY <1>1, ConcatPositions
<1>3. Paired(r)
  BY <1>1, ConcatPaired
<1> HIDE DEF r, n
<1>4. nth \in Nat /\ \A i \in DOMAIN s : s[i].nth \in Nat
  <2>1. DOMAIN Setup \subseteq Nat
    BY LenProperties
  <2> QED
    BY <1>1, <2>1, CallShape, LenProperties
<1>5. ASSUME NEW i \in DOMAIN r, NEW j \in DOMAIN r, i < j PROVE r[i].nth <= r[j].nth
  <2>1. CASE j \in DOMAIN s
    <3>1. i \in DOMAIN s
      BY <1>2, <1>5, <2>1
    <3> QED
      BY <1>2, <1>5, <2>1, <3>1 DEF InOrder
  <2>2. CASE j \notin DOMAIN s
    <3>1. r[j].nth = nth
      BY <1>1, <1>2, <2>2
    <3>2. r[i].nth = nth \/ (i \in DOMAIN s /\ r[i].nth = s[i].nth)
      BY <1>1, <1>2
    <3> QED
      BY <1>4, <3>1, <3>2
  <2> QED
    BY <2>1, <2>2
<1>6. ASSUME NEW i \in DOMAIN r, i > 1, r[i].resource # "application"
      PROVE  r[i - 1].nth = r[i].nth
  <2>1. CASE i \in DOMAIN s
    <3>1. i - 1 \in DOMAIN s /\ r[i] = s[i] /\ r[i - 1] = s[i - 1]
      BY <1>2, <1>6, <2>1
    <3> QED
      BY <1>6, <2>1, <3>1 DEF InOrder
  <2>2. CASE i \notin DOMAIN s
    <3>1. i - n \in DOMAIN t /\ r[i] = t[i - n]
      BY <1>2, <2>2
    <3>2. i - n # 1
      BY <1>1, <1>6, <3>1
    <3>3. i - 1 \in DOMAIN r /\ i - 1 \notin DOMAIN s
      <4>1. /\ i \in 1..(n + Len(t)) /\ i - n \in 1..Len(t) /\ n \in Nat /\ Len(t) \in Nat
            /\ i - n # 1
        BY <1>2, <3>1, <3>2
      <4>2. i - 1 \in 1..(n + Len(t)) /\ i - 1 \notin 1..n
        BY <4>1
      <4> QED
        BY <1>2, <4>2
    <3>4. (i - 1) - n \in DOMAIN t /\ r[i - 1] = t[(i - 1) - n]
      BY <1>2, <3>3
    <3> QED
      BY <1>1, <3>1, <3>4
  <2> QED
    BY <2>1, <2>2
<1> QED
  BY <1>2, <1>3, <1>5, <1>6 DEF InOrder, r, n, t

\* The loop over apps makes calls that are in order, the application first.
LEMMA CallsInOrder ==
  ASSUME NEW first \in Nat \ {0}
  PROVE  /\ InOrder(CallsFrom(first))
         /\ CallsFrom(first) # <<>> => CallsFrom(first)[1].resource = "application"
<1> DEFINE part(m) == [i \in 1..m |-> CallsFor(first + i - 1)]
           upTo(m) == FlattenSeq(part(m))
           Good(m) == /\ InOrder(upTo(m))
                      /\ upTo(m) # <<>> => upTo(m)[1].resource = "application"
                      /\ \A i \in DOMAIN upTo(m) : upTo(m)[i].nth < first + m
           T == {m \in Nat : first + m <= Len(Setup) + 1 => Good(m)}
<1>0. Len(Setup) \in Nat /\ DOMAIN Setup = 1..Len(Setup)
  BY LenProperties
<1>1. 0 \in T
  <2>1. part(0) = <<>>
    OBVIOUS
  <2>2. upTo(0) = <<>>
    BY <2>1, FlattenEmpty
  <2>3. InOrder(<<>>)
    BY DEF InOrder, Paired
  <2> HIDE DEF upTo
  <2> QED
    BY <2>2, <2>3
<1>2. ASSUME NEW m \in Nat, m \in T PROVE m + 1 \in T
  <2> SUFFICES ASSUME first + (m + 1) <= Len(Setup) + 1 PROVE Good(m + 1)
    OBVIOUS
  <2> DEFINE nth == first + m
  <2>1. nth \in DOMAIN Setup /\ nth \in Nat
    BY <1>0
  <2>2. Good(m)
    BY <1>0, <1>2
  <2>3. part(m) \in Seq(Seq(CallSet))
    <3>1. \A i \in 1..m : first + i - 1 \in DOMAIN Setup
      BY <1>0
    <3>2. part(m) \in [1..m -> Seq(CallSet)]
      BY <3>1, CallsForApp
    <3> QED
      BY <3>2, FunctionIsSeq
  <2>4. part(m + 1) = Append(part(m), CallsFor(nth))
    <3>1. Len(part(m)) = m
      OBVIOUS
    <3>2. ASSUME NEW i \in 1..(m + 1)
          PROVE  part(m + 1)[i] = IF i = m + 1 THEN CallsFor(nth) ELSE part(m)[i]
      <4>1. part(m + 1)[i] = CallsFor(first + i - 1)
        OBVIOUS
      <4>2. CASE i = m + 1
        <5>1. first + i - 1 = nth
          BY <4>2
        <5> QED
          BY <4>1, <4>2, <5>1
      <4>3. CASE i # m + 1
        <5>1. i \in 1..m
          BY <4>3
        <5>2. part(m)[i] = CallsFor(first + i - 1)
          BY <5>1
        <5> QED
          BY <4>1, <4>3, <5>2
      <4> QED
        BY <4>2, <4>3
    <3> QED
      BY <2>3, <3>1, <3>2
  <2>5. CallsFor(nth) \in Seq(CallSet) /\ CallsFor(nth) # <<>>
        /\ CallsFor(nth)[1].resource = "application"
        /\ \A i \in DOMAIN CallsFor(nth) : CallsFor(nth)[i].nth = nth
    BY <2>1, CallsForApp DEF OfApp
  <2>6. upTo(m + 1) = upTo(m) \o CallsFor(nth)
    BY <2>3, <2>4, <2>5, FlattenAppend
  <2> HIDE DEF part, upTo
  <2>7. upTo(m) \in Seq(CallSet)
    BY <2>2 DEF InOrder
  <2>8. \A i \in DOMAIN upTo(m) : upTo(m)[i].nth \in Nat
    BY <2>7, CallShape, LenProperties
  <2>9. \A i \in DOMAIN upTo(m) : upTo(m)[i].nth <= nth /\ upTo(m)[i].nth < first + (m + 1)
    BY <2>1, <2>2, <2>8
  <2>10. InOrder(upTo(m + 1))
    BY <2>1, <2>2, <2>6, <2>9, NextAppInOrder
  <2>11. nth < first + (m + 1)
    BY <2>1
  <2> HIDE DEF nth
  <2> DEFINE u == upTo(m)
             c == CallsFor(nth)
  <2>14. /\ DOMAIN u = 1..Len(u) /\ Len(u) \in Nat
         /\ \A i \in DOMAIN u : i \in DOMAIN (u \o c) /\ (u \o c)[i] = u[i]
         /\ \A k \in DOMAIN (u \o c) :
                k \in DOMAIN u \/ (k - Len(u) \in DOMAIN c /\ (u \o c)[k] = c[k - Len(u)])
    <3> HIDE DEF u, c
    <3>1. u \in Seq(CallSet) /\ c \in Seq(CallSet)
      BY <2>5, <2>7 DEF u, c
    <3> QED
      BY <3>1, ConcatPositions
  <2>12. \A i \in DOMAIN upTo(m + 1) : upTo(m + 1)[i].nth < first + (m + 1)
    BY <2>5, <2>6, <2>9, <2>11, <2>14
  <2>13. upTo(m + 1)[1].resource = "application"
    <3>1. CASE upTo(m) = <<>>
      <4>1. upTo(m + 1) = CallsFor(nth)
        BY <2>5, <2>6, <3>1, ConcatEmptySeq
      <4> QED
        BY <2>5, <4>1
    <3>2. CASE upTo(m) # <<>>
      <4>1. 1 \in DOMAIN upTo(m)
        BY <2>7, <3>2
      <4> QED
        BY <2>2, <2>6, <2>14, <3>2, <4>1
    <3> QED
      BY <3>1, <3>2
  <2> QED
    BY <2>10, <2>12, <2>13
<1>3. CASE first <= Len(Setup) + 1
  <2> DEFINE m == Len(Setup) + 1 - first
  <2>1. m \in Nat /\ first + m <= Len(Setup) + 1
    BY <1>0, <1>3
  <2>2. CallsFrom(first) = upTo(m)
    BY DEF CallsFrom
  <2> HIDE DEF part, upTo, Good, m
  <2>3. 0 \in T /\ \A k \in Nat : k \in T => k + 1 \in T
    BY <1>1, <1>2
  <2> HIDE DEF T
  <2>4. m \in T
    BY <2>1, <2>3, SetInduction
  <2>5. Good(m)
    BY <2>1, <2>4 DEF T
  <2> QED
    BY <2>2, <2>5 DEF Good
<1>4. CASE ~(first <= Len(Setup) + 1)
  <2>1. 1..(Len(Setup) + 1 - first) = {}
    BY <1>0, <1>4
  <2>2. [i \in 1..(Len(Setup) + 1 - first) |-> CallsFor(first + i - 1)] = <<>>
    <3>1. \A S : S = {} => [i \in S |-> CallsFor(first + i - 1)] = <<>>
      OBVIOUS
    <3> QED
      BY <2>1, <3>1
  <2>3. CallsFrom(first) = <<>>
    BY <2>2, FlattenEmpty DEF CallsFrom
  <2> QED
    BY <2>3 DEF InOrder, Paired
<1> QED
  BY <1>3, <1>4

LEMMA CallsElements ==
  ASSUME NEW first \in Nat \ {0}
  PROVE  ToSet(CallsFrom(first)) = UNION {ToSet(CallsFor(nth)) : nth \in first..Len(Setup)}
<1> DEFINE m == Len(Setup) + 1 - first
           part == [i \in 1..m |-> CallsFor(first + i - 1)]
<1>0. Len(Setup) \in Nat /\ DOMAIN Setup = 1..Len(Setup)
  BY LenProperties
<1>1. \A i \in 1..m : first + i - 1 \in DOMAIN Setup /\ first + i - 1 \in first..Len(Setup)
  BY <1>0
<1>2. \A nth \in first..Len(Setup) : nth - first + 1 \in 1..m /\ first + (nth - first + 1) - 1 = nth
  BY <1>0
<1>3. part \in Seq(Seq(CallSet)) /\ DOMAIN part = 1..m
  <2>1. part \in [1..m -> Seq(CallSet)]
    BY <1>1, CallsForApp
  <2>2. CASE m \in Nat
    BY <2>1, <2>2, FunctionIsSeq
  <2>3. CASE m \notin Nat
    <3>1. 1..m = {}
      BY <1>0, <2>3
    <3>2. \A S : S = {} => [i \in S |-> CallsFor(first + i - 1)] = <<>>
      OBVIOUS
    <3>3. part = <<>>
      BY <3>1, <3>2
    <3> HIDE DEF part, m
    <3>4. part \in Seq(Seq(CallSet)) /\ DOMAIN part = {}
      BY <3>3
    <3> QED
      BY <3>1, <3>4
  <2> QED
    BY <2>2, <2>3
<1>4. \A i \in 1..m : part[i] = CallsFor(first + i - 1)
  OBVIOUS
<1>5. CallsFrom(first) = FlattenSeq(part)
  BY DEF CallsFrom
<1> HIDE DEF m, part
<1>6. ToSet(CallsFrom(first)) = UNION {ToSet(part[i]) : i \in 1..m}
  BY <1>3, <1>5, FlattenElements
<1>7. \A nth \in first..Len(Setup) : \E i \in 1..m : part[i] = CallsFor(nth)
  <2> SUFFICES ASSUME NEW nth \in first..Len(Setup) PROVE \E i \in 1..m : part[i] = CallsFor(nth)
    OBVIOUS
  <2>1. part[nth - first + 1] = CallsFor(nth)
    BY <1>2, <1>4
  <2> QED
    BY <1>2, <2>1
<1>8. \A i \in 1..m : \E nth \in first..Len(Setup) : part[i] = CallsFor(nth)
  BY <1>1, <1>4
<1> QED
  BY <1>6, <1>7, <1>8

\* The calls of the apps after one of them are those of the loop from there on.
LEMMA LaterCalls ==
  ASSUME NEW first \in Nat \ {0}, NEW call \in ToSet(Calls), call.nth >= first
  PROVE  call \in ToSet(CallsFrom(first))
<1>1. PICK nth \in 1..Len(Setup) : call \in ToSet(CallsFor(nth))
  BY CallsElements DEF Calls
<1>2. nth \in DOMAIN Setup /\ nth \in Nat /\ Len(Setup) \in Nat
  BY LenProperties
<1>3. call.nth = nth
  BY <1>1, <1>2, CallsForApp DEF OfApp, ToSet
<1>4. nth \in first..Len(Setup)
  BY <1>2, <1>3
<1> QED
  BY <1>1, <1>4, CallsElements

\* What is left after the first call.
LEMMA TailInOrder ==
  ASSUME NEW calls, InOrder(calls), calls # <<>>
  PROVE  /\ InOrder(Tail(calls)) /\ Head(calls) = calls[1] /\ 1 \in DOMAIN calls
         /\ DOMAIN Tail(calls) = 1..(Len(calls) - 1) /\ Len(calls) \in Nat
         /\ \A i \in DOMAIN Tail(calls) : i + 1 \in DOMAIN calls /\ Tail(calls)[i] = calls[i + 1]
<1> DEFINE t == Tail(calls)
<1>1. /\ calls \in Seq(CallSet) /\ t \in Seq(CallSet) /\ Len(t) = Len(calls) - 1
      /\ Len(calls) \in Nat \ {0} /\ Head(calls) = calls[1]
      /\ DOMAIN calls = 1..Len(calls) /\ DOMAIN t = 1..Len(t)
      /\ \A i \in 1..Len(t) : t[i] = calls[i + 1]
  BY HeadTailProperties, LenProperties, EmptySeq DEF InOrder
<1> HIDE DEF t
<1>2. \A i \in DOMAIN t : i + 1 \in DOMAIN calls /\ t[i] = calls[i + 1] /\ i \in Nat
  BY <1>1
<1>3. ASSUME NEW i \in DOMAIN t, i > 1
      PROVE  i - 1 \in DOMAIN t /\ t[i - 1] = calls[i] /\ t[i] = calls[i + 1] /\ i \in DOMAIN calls
             /\ (i + 1) - 1 = i /\ i + 1 > 1
  <2>1. i - 1 \in DOMAIN t /\ (i - 1) + 1 = i
    BY <1>1, <1>3
  <2> QED
    BY <1>2, <1>3, <2>1
<1>4. Paired(t)
  <2>1. ASSUME NEW i \in DOMAIN t, t[i].resource = "deployment", i > 1
        PROVE  /\ t[i - 1].resource = "delta"
               /\ t[i - 1].nth = t[i].nth /\ t[i - 1].env = t[i].env
    BY <1>2, <1>3, <2>1 DEF InOrder, Paired
  <2>2. ASSUME NEW i \in DOMAIN t, t[i].resource = "delta"
        PROVE  /\ i + 1 \in DOMAIN t /\ t[i + 1].resource = "deployment"
               /\ t[i + 1].nth = t[i].nth /\ t[i + 1].env = t[i].env
    <3>1. (i + 1) + 1 \in DOMAIN calls
      BY <1>2, <2>2 DEF InOrder, Paired
    <3>2. i + 1 \in DOMAIN t
      BY <1>1, <3>1
    <3> QED
      BY <1>2, <2>2, <3>1, <3>2 DEF InOrder, Paired
  <2> QED
    BY <2>1, <2>2 DEF Paired
<1>5. ASSUME NEW i \in DOMAIN t, NEW j \in DOMAIN t, i < j PROVE t[i].nth <= t[j].nth
  <2>1. i + 1 < j + 1
    BY <1>2, <1>5
  <2> QED
    BY <1>2, <2>1 DEF InOrder
<1>6. ASSUME NEW i \in DOMAIN t, i > 1, t[i].resource # "application"
      PROVE  t[i - 1].nth = t[i].nth
  <2>1. t[i] = calls[i + 1] /\ i + 1 \in DOMAIN calls
    BY <1>2
  <2>2. i + 1 > 1 /\ (i + 1) - 1 = i /\ t[i - 1] = calls[i]
    BY <1>3, <1>6
  <2>3. calls[(i + 1) - 1].nth = calls[i + 1].nth
    BY <1>6, <2>1, <2>2 DEF InOrder
  <2> QED
    BY <2>1, <2>2, <2>3
<1> QED
  BY <1>1, <1>2, <1>4, <1>5, <1>6 DEF InOrder, t

LEMMA SecondCall ==
  ASSUME NEW calls, InOrder(calls), 2 \in DOMAIN calls
  PROVE  /\ calls[2].resource = "deployment" =>
                calls[1].resource = "delta" /\ calls[1].env = calls[2].env
         /\ calls[2].resource # "application" => calls[1].nth = calls[2].nth
<1>1. 2 > 1 /\ 2 - 1 = 1
  OBVIOUS
<1>2. calls[2].resource = "deployment" => calls[2 - 1].resource = "delta" /\ calls[2 - 1].env = calls[2].env
  BY <1>1 DEF InOrder, Paired
<1>3. calls[2].resource # "application" => calls[2 - 1].nth = calls[2].nth
  BY <1>1 DEF InOrder
<1> QED
  BY <1>1, <1>2, <1>3

\* What the failure of a call leaves of the calls, with what it leads to.
LEMMA FailureInOrder ==
  ASSUME NEW calls, InOrder(calls), calls # <<>>
  PROVE  /\ InOrder(AfterFailure(calls))
         /\ AfterFailure(calls) # <<>> =>
                LET next == AfterFailure(calls)[1] IN
                /\ next.resource # "deployment"
                /\ next.resource # "application" =>
                        next.nth = calls[1].nth /\ calls[1].resource # "application"
<1> DEFINE call == calls[1]
           t == Tail(calls)
<1>1. /\ InOrder(t) /\ Head(calls) = call /\ 1 \in DOMAIN calls /\ call \in CallSet
      /\ DOMAIN t = 1..(Len(calls) - 1) /\ Len(calls) \in Nat /\ DOMAIN calls = 1..Len(calls)
      /\ \A i \in DOMAIN t : i + 1 \in DOMAIN calls /\ t[i] = calls[i + 1]
  <2>1. calls \in Seq(CallSet)
    BY DEF InOrder
  <2>2. 1 \in DOMAIN calls => call \in CallSet
    BY <2>1, LenProperties
  <2> QED
    BY <2>1, <2>2, TailInOrder, LenProperties
<1>2. call.nth \in Nat /\ call.nth \in DOMAIN Setup /\ call.nth + 1 \in Nat \ {0}
  BY <1>1, CallShape
<1> HIDE DEF call, t
<1>3. CASE call.resource = "application"
  <2>1. AfterFailure(calls) = CallsFrom(call.nth + 1)
    BY <1>1, <1>3 DEF AfterFailure
  <2> QED
    BY <1>2, <2>1, CallsInOrder
<1>4. CASE call.resource = "delta"
  <2>1. AfterFailure(calls) = Tail(t)
    BY <1>1, <1>4 DEF AfterFailure, t
  <2>2. 2 \in DOMAIN calls /\ calls[2].resource = "deployment" /\ calls[2].nth = call.nth
    <3>1. 1 + 1 \in DOMAIN calls /\ calls[1 + 1].resource = "deployment" /\ calls[1 + 1].nth = call.nth
      BY <1>1, <1>4 DEF InOrder, Paired, call
    <3> QED
      BY <3>1
  <2>3. 1 \in DOMAIN t /\ t[1] = calls[2]
    BY <1>1, <2>2
  <2>4. t # <<>>
    BY <2>3
  <2>5. /\ InOrder(Tail(t)) /\ DOMAIN Tail(t) = 1..(Len(t) - 1)
        /\ \A i \in DOMAIN Tail(t) : i + 1 \in DOMAIN t /\ Tail(t)[i] = t[i + 1]
    BY <1>1, <2>4, TailInOrder
  <2>6. ASSUME Tail(t) # <<>>
        PROVE  /\ Tail(t)[1].resource # "deployment"
               /\ Tail(t)[1].resource # "application" => Tail(t)[1].nth = call.nth
    <3>1. 1 \in DOMAIN Tail(t)
      BY <2>5, <2>6 DEF InOrder
    <3>2. 2 \in DOMAIN t /\ Tail(t)[1] = t[2]
      BY <2>5, <3>1
    <3>3. /\ t[2].resource = "deployment" => t[1].resource = "delta"
          /\ t[2].resource # "application" => t[1].nth = t[2].nth
      BY <1>1, <3>2, SecondCall
    <3> QED
      BY <2>2, <2>3, <3>2, <3>3
  <2> QED
    BY <1>4, <2>1, <2>5, <2>6 DEF call
<1>5. CASE call.resource # "application" /\ call.resource # "delta"
  <2>1. AfterFailure(calls) = t
    BY <1>1, <1>5 DEF AfterFailure, t
  <2>2. ASSUME t # <<>>
        PROVE  /\ t[1].resource # "deployment"
               /\ t[1].resource # "application" => t[1].nth = call.nth
    <3>1. 1 \in DOMAIN t
      BY <1>1, <2>2 DEF InOrder
    <3>2. 2 \in DOMAIN calls /\ t[1] = calls[2]
      BY <1>1, <3>1
    <3> QED
      BY <1>5, <3>2, SecondCall DEF call
  <2> QED
    BY <1>1, <1>5, <2>1, <2>2 DEF call
<1> QED
  BY <1>3, <1>4, <1>5 DEF call

-----------------------------------------------------------------------------
(* What is created belongs together.                                       *)

Objects == [resource: Resources, app: {Setup[nth].id : nth \in DOMAIN Setup}, env: Envs,
            by: Runs, delta: Nat]

CreateType ==
    /\ humanitec \in Seq(Objects)
    /\ todo \in [Runs -> Seq(CallSet)]
    /\ delta \in [Runs -> Nat]
    /\ failed \in [Runs -> SUBSET CallSet]

HasApplication(r, app) ==
    \E i \in DOMAIN humanitec :
        humanitec[i].resource = "application" /\ humanitec[i].app = app /\ humanitec[i].by = r

DeltaOf(r, call) ==
    [resource |-> "delta", app |-> call.app, env |-> call.env, by |-> r, delta |-> 0]

\* A run that is to create something has created the application for it, and
\* one that is to deploy holds the delta that it created for that environment.
Ready(r, calls) ==
    calls # <<>> =>
        /\ calls[1].resource # "application" => HasApplication(r, calls[1].app)
        /\ calls[1].resource = "deployment" =>
                delta[r] \in DOMAIN humanitec /\ humanitec[delta[r]] = DeltaOf(r, calls[1])

CreateInv ==
    /\ CreateType
    /\ \A r \in Runs : InOrder(todo[r]) /\ Ready(r, todo[r])
    /\ DeploysOwnDelta

\* Objects are only ever added.
Grows ==
    /\ humanitec' \in Seq(Objects)
    /\ \A i \in DOMAIN humanitec : i \in DOMAIN humanitec' /\ humanitec'[i] = humanitec[i]

LEMMA ApplicationKept ==
  ASSUME Grows, NEW r, NEW app, HasApplication(r, app)
  PROVE  HasApplication(r, app)'
  BY DEF Grows, HasApplication

LEMMA ReadyKept ==
  ASSUME Grows, NEW r, NEW calls, Ready(r, calls), delta'[r] = delta[r]
  PROVE  Ready(r, calls)'
  BY ApplicationKept DEF Ready, Grows

\* What a call creates fits what is there.
LEMMA ObjectCreated ==
  ASSUME CreateInv, NEW r \in Runs, NEW calls, calls = todo[r], calls # <<>>,
         humanitec' = Created(r, Head(todo[r]))
  PROVE  /\ Grows /\ DeploysOwnDelta'
         /\ calls[1].resource = "application" => HasApplication(r, calls[1].app)'
         /\ Len(humanitec') \in DOMAIN humanitec' /\ Len(humanitec') \in Nat
         /\ calls[1].resource = "delta" => humanitec'[Len(humanitec')] = DeltaOf(r, calls[1])
         /\ CreatedBy(r, calls[1])'
<1> DEFINE call == calls[1]
<1>1. InOrder(calls) /\ Ready(r, calls) /\ call \in CallSet /\ Head(todo[r]) = call
  <2>1. InOrder(calls) /\ Ready(r, calls) /\ calls \in Seq(CallSet)
    BY DEF CreateInv, InOrder
  <2> QED
    BY <2>1, TailInOrder, LenProperties
<1> HIDE DEF call
<1>2. PICK o : o = [resource |-> call.resource, app |-> call.app, env |-> call.env, by |-> r,
                    delta |-> IF call.resource = "deployment" THEN delta[r] ELSE 0]
  OBVIOUS
<1>3. humanitec \in Seq(Objects) /\ delta[r] \in Nat
  BY DEF CreateInv, CreateType
<1>4. o \in Objects
  BY <1>1, <1>2, <1>3, CallShape DEF Objects
<1>5. humanitec' = Append(humanitec, o)
  BY <1>1, <1>2 DEF Created
<1>6. PICK n \in Nat : n = Len(humanitec) /\ DOMAIN humanitec = 1..n
  BY <1>3, LenProperties
<1>7. /\ humanitec' \in Seq(Objects) /\ Len(humanitec') = n + 1 /\ DOMAIN humanitec' = 1..(n + 1)
      /\ \A i \in 1..n : humanitec'[i] = humanitec[i]
      /\ humanitec'[n + 1] = o
  <2>1. /\ Append(humanitec, o) \in Seq(Objects) /\ Len(Append(humanitec, o)) = Len(humanitec) + 1
        /\ \A i \in 1..Len(humanitec) : Append(humanitec, o)[i] = humanitec[i]
        /\ Append(humanitec, o)[Len(humanitec) + 1] = o
    BY <1>3, <1>4, AppendProperties
  <2>2. DOMAIN Append(humanitec, o) = 1..(Len(humanitec) + 1)
    BY <2>1, LenProperties
  <2> QED
    BY <1>5, <1>6, <2>1, <2>2
<1>8. Grows
  BY <1>6, <1>7 DEF Grows
<1>9. call.resource = "application" => HasApplication(r, call.app)'
  BY <1>2, <1>7 DEF HasApplication
<1>10. call.resource = "delta" => o = DeltaOf(r, call)
  BY <1>2 DEF DeltaOf
<1>11. DeploysOwnDelta'
  <2> DEFINE own(h, i) ==
                /\ h[i].resource = "deployment" =>
                    /\ h[i].delta \in 1..i - 1
                    /\ h[h[i].delta] = [resource |-> "delta", app |-> h[i].app, env |-> h[i].env,
                                        by |-> h[i].by, delta |-> 0]
                /\ h[i].resource # "application" =>
                    \E j \in 1..i - 1 : /\ h[j].resource = "application" /\ h[j].app = h[i].app
                                        /\ h[j].by = h[i].by
  <2>1. ASSUME NEW i \in 1..n PROVE own(humanitec', i)
    <3>1. own(humanitec, i)
      BY <1>6, <2>1 DEF CreateInv, DeploysOwnDelta
    <3>2. 1..i - 1 \subseteq 1..n /\ i \in 1..n
      OBVIOUS
    <3>3. humanitec'[i] = humanitec[i] /\ \A j \in 1..i - 1 : humanitec'[j] = humanitec[j]
      BY <1>7, <3>2
    <3> QED
      BY <3>1, <3>3
  <2>2. own(humanitec', n + 1)
    <3>1. humanitec'[n + 1] = o /\ (n + 1) - 1 = n
      BY <1>6, <1>7
    <3>2. ASSUME o.resource = "deployment"
          PROVE  /\ o.delta \in 1..n
                 /\ humanitec'[o.delta] = [resource |-> "delta", app |-> o.app, env |-> o.env,
                                           by |-> o.by, delta |-> 0]
      <4>1. call.resource = "deployment" /\ o.delta = delta[r] /\ o.app = call.app
            /\ o.env = call.env /\ o.by = r
        BY <1>2, <3>2
      <4>2. delta[r] \in 1..n /\ humanitec[delta[r]] = DeltaOf(r, call)
        BY <1>1, <1>6, <4>1 DEF Ready, call
      <4> QED
        BY <1>7, <4>1, <4>2 DEF DeltaOf
    <3>3. ASSUME o.resource # "application"
          PROVE  \E j \in 1..n : /\ humanitec'[j].resource = "application"
                                 /\ humanitec'[j].app = o.app /\ humanitec'[j].by = o.by
      <4>1. HasApplication(r, call.app) /\ o.app = call.app /\ o.by = r
        BY <1>1, <1>2, <3>3 DEF Ready, call
      <4> QED
        BY <1>6, <1>7, <4>1 DEF HasApplication
    <3> QED
      BY <3>1, <3>2, <3>3
  <2>3. \A i \in 1..(n + 1) : own(humanitec', i)
    <3> HIDE DEF own
    <3>1. \A i \in 1..(n + 1) : i \in 1..n \/ i = n + 1
      OBVIOUS
    <3> QED
      BY <2>1, <2>2, <3>1
  <2> QED
    BY <1>7, <2>3 DEF DeploysOwnDelta
<1>12. CreatedBy(r, call)'
  <2>1. o.resource = call.resource /\ o.app = call.app /\ o.env = call.env /\ o.by = r
    BY <1>2
  <2>2. n + 1 \in DOMAIN humanitec' /\ humanitec'[n + 1] = o
    BY <1>7
  <2> QED
    BY <2>1, <2>2 DEF CreatedBy
<1> QED
  BY <1>7, <1>8, <1>9, <1>10, <1>11, <1>12 DEF call

\* Whatever a call is answered, what is there stays.
LEMMA AnswerGrows ==
  ASSUME CreateInv, NEW r \in Runs, todo[r] # <<>>,
         humanitec' = humanitec \/ humanitec' = Created(r, Head(todo[r]))
  PROVE  Grows /\ DeploysOwnDelta'
<1>1. CASE humanitec' = humanitec
  BY <1>1 DEF CreateInv, CreateType, Grows, DeploysOwnDelta
<1>2. CASE humanitec' = Created(r, Head(todo[r]))
  BY <1>2, ObjectCreated
<1> QED
  BY <1>1, <1>2

\* The next call after one that succeeded.
LEMMA ReadyAfterSuccess ==
  ASSUME CreateInv, NEW r \in Runs, NEW calls, calls = todo[r], calls # <<>>,
         humanitec' = Created(r, Head(todo[r])),
         calls[1].resource = "delta" => delta'[r] = Len(humanitec')
  PROVE  Ready(r, Tail(calls))'
<1>1. InOrder(calls) /\ Ready(r, calls)
  BY DEF CreateInv
<1> DEFINE t == Tail(calls)
<1>2. /\ InOrder(t) /\ 1 \in DOMAIN calls /\ calls[1] \in CallSet
      /\ \A i \in DOMAIN t : i + 1 \in DOMAIN calls /\ t[i] = calls[i + 1]
      /\ \A i \in DOMAIN calls : calls[i] \in CallSet
  <2>1. calls \in Seq(CallSet)
    BY <1>1 DEF InOrder
  <2> QED
    BY <1>1, <2>1, TailInOrder, LenProperties
<1> HIDE DEF t
<1>3. HasApplication(r, calls[1].app)'
  BY <1>1, ObjectCreated, ApplicationKept DEF Ready
<1>4. ASSUME t # <<>>
      PROVE  /\ t[1].resource # "application" => HasApplication(r, t[1].app)'
             /\ t[1].resource = "deployment" =>
                    delta'[r] \in DOMAIN humanitec' /\ humanitec'[delta'[r]] = DeltaOf(r, t[1])
  <2>1. 1 \in DOMAIN t
    BY <1>2, <1>4 DEF InOrder
  <2>2. 2 \in DOMAIN calls /\ t[1] = calls[2]
    <3>1. 1 + 1 \in DOMAIN calls /\ t[1] = calls[1 + 1]
      BY <1>2, <2>1
    <3> QED
      BY <3>1
  <2>3. /\ t[1].resource = "deployment" =>
                calls[1].resource = "delta" /\ calls[1].env = t[1].env
        /\ t[1].resource # "application" => calls[1].nth = t[1].nth
    BY <1>1, <2>2, SecondCall
  <2>4. t[1].resource # "application" => calls[1].app = t[1].app
    BY <1>2, <2>2, <2>3, CallShape
  <2>5. ASSUME t[1].resource = "deployment"
        PROVE  delta'[r] \in DOMAIN humanitec' /\ humanitec'[delta'[r]] = DeltaOf(r, t[1])
    <3>1. DeltaOf(r, calls[1]) = DeltaOf(r, t[1])
      BY <2>3, <2>4, <2>5 DEF DeltaOf
    <3> QED
      BY <2>3, <2>5, <3>1, ObjectCreated
  <2> QED
    BY <1>3, <2>4, <2>5
<1> QED
  BY <1>4 DEF Ready, t

\* The next call after one that failed.
LEMMA ReadyAfterFailure ==
  ASSUME CreateInv, NEW r \in Runs, NEW calls, calls = todo[r], calls # <<>>, Grows
  PROVE  InOrder(AfterFailure(calls)) /\ Ready(r, AfterFailure(calls))'
<1>1. InOrder(calls) /\ Ready(r, calls)
  BY DEF CreateInv
<1> DEFINE left == AfterFailure(calls)
<1>2. /\ InOrder(left)
      /\ left # <<>> => /\ left[1].resource # "deployment"
                        /\ left[1].resource # "application" =>
                                left[1].nth = calls[1].nth /\ calls[1].resource # "application"
  BY <1>1, FailureInOrder
<1> HIDE DEF left
<1>3. ASSUME left # <<>>, left[1].resource # "application" PROVE HasApplication(r, left[1].app)'
  <2>1. calls[1] \in CallSet /\ left[1] \in CallSet
    <3>1. calls \in Seq(CallSet) /\ left \in Seq(CallSet)
      BY <1>1, <1>2 DEF InOrder
    <3>2. 1 \in DOMAIN calls /\ 1 \in DOMAIN left
      BY <1>3, <3>1
    <3> QED
      BY <3>1, <3>2, LenProperties
  <2>2. calls[1].app = left[1].app
    BY <1>2, <1>3, <2>1, CallShape
  <2> QED
    BY <1>1, <1>2, <1>3, <2>2, ApplicationKept DEF Ready
<1> QED
  BY <1>2, <1>3 DEF Ready, left

LEMMA InitCreate == CreateInit => CreateInv
<1> SUFFICES ASSUME CreateInit PROVE CreateInv
  OBVIOUS
<1>1. CreateType /\ DOMAIN humanitec = {}
  BY DEF CreateInit, CreateType
<1>2. \A r \in Runs : todo[r] = <<>>
  BY DEF CreateInit
<1>3. InOrder(<<>>)
  BY DEF InOrder, Paired
<1>4. DeploysOwnDelta
  BY <1>1 DEF DeploysOwnDelta
<1> QED
  BY <1>1, <1>2, <1>3, <1>4 DEF CreateInv, Ready

LEMMA CreateKept ==
  ASSUME CreateInv, UNCHANGED createVars
  PROVE  CreateInv'
  BY DEF createVars, CreateInv, CreateType, Ready, HasApplication, DeploysOwnDelta

\* One run is given other calls; the others go on as they were.
LEMMA RunGoesOn ==
  ASSUME CreateInv, Grows, DeploysOwnDelta', NEW r \in Runs, NEW calls,
         InOrder(calls), Ready(r, calls)',
         todo' = [todo EXCEPT ![r] = calls],
         delta' \in [Runs -> Nat], failed' \in [Runs -> SUBSET CallSet],
         \A q \in Runs \ {r} : delta'[q] = delta[q]
  PROVE  CreateInv'
<1>1. /\ todo' \in [Runs -> Seq(CallSet)] /\ todo'[r] = calls
      /\ \A q \in Runs \ {r} : todo'[q] = todo[q]
  BY DEF CreateInv, CreateType, InOrder
<1>2. CreateType'
  BY <1>1 DEF CreateType, Grows
<1>3. ASSUME NEW q \in Runs PROVE InOrder(todo'[q]) /\ Ready(q, todo[q])'
  <2>1. CASE q = r
    BY <1>1, <2>1 DEF Ready
  <2>2. CASE q # r
    <3>1. PICK own : own = todo[q]
      OBVIOUS
    <3>2. InOrder(own) /\ Ready(q, own)
      BY <3>1 DEF CreateInv
    <3>3. Ready(q, own)' /\ todo'[q] = own
      BY <1>1, <2>2, <3>1, <3>2, ReadyKept
    <3> QED
      BY <3>2, <3>3 DEF Ready
  <2> QED
    BY <2>1, <2>2
<1> QED
  BY <1>2, <1>3 DEF CreateInv

LEMMA BeginCreate ==
  ASSUME CreateInv, NEW r \in Runs, BeginCreating(r)
  PROVE  CreateInv'
<1>1. /\ todo' = [todo EXCEPT ![r] = Calls]
      /\ UNCHANGED <<humanitec, delta, failed>>
  BY DEF BeginCreating
<1>2. InOrder(Calls) /\ (Calls # <<>> => Calls[1].resource = "application")
  BY CallsInOrder DEF Calls
<1>3. Ready(r, Calls)'
  BY <1>2 DEF Ready
<1>4. Grows /\ DeploysOwnDelta'
  BY <1>1 DEF Grows, CreateInv, CreateType, DeploysOwnDelta
<1>5. delta' \in [Runs -> Nat] /\ failed' \in [Runs -> SUBSET CallSet]
  BY <1>1 DEF CreateInv, CreateType
<1> QED
  BY <1>1, <1>2, <1>3, <1>4, <1>5, RunGoesOn

LEMMA SuccessCreate ==
  ASSUME CreateInv, NEW r \in Runs, Succeeds(r)
  PROVE  CreateInv'
<1>1. PICK calls : calls = todo[r]
  OBVIOUS
<1>2. /\ calls # <<>> /\ humanitec' = Created(r, Head(todo[r]))
      /\ delta' = [delta EXCEPT ![r] = IF Head(calls).resource = "delta"
                                       THEN Len(humanitec') ELSE delta[r]]
      /\ todo' = [todo EXCEPT ![r] = Tail(calls)] /\ failed' = failed
  BY <1>1 DEF Succeeds
<1>3. InOrder(calls) /\ InOrder(Tail(calls)) /\ Head(calls) = calls[1]
  BY <1>1, <1>2, TailInOrder DEF CreateInv
<1>4. Grows /\ DeploysOwnDelta' /\ Len(humanitec') \in Nat
  BY <1>1, <1>2, ObjectCreated
<1>5. /\ delta' \in [Runs -> Nat] /\ \A q \in Runs \ {r} : delta'[q] = delta[q]
      /\ calls[1].resource = "delta" => delta'[r] = Len(humanitec')
      /\ failed' \in [Runs -> SUBSET CallSet]
  BY <1>2, <1>3, <1>4 DEF CreateInv, CreateType
<1>6. Ready(r, Tail(calls))'
  BY <1>1, <1>2, <1>5, ReadyAfterSuccess
<1> QED
  BY <1>2, <1>3, <1>4, <1>5, <1>6, RunGoesOn

LEMMA GiveUpCreate ==
  ASSUME CreateInv, NEW r \in Runs, todo[r] # <<>>, GivesUp(r),
         humanitec' = humanitec \/ humanitec' = Created(r, Head(todo[r]))
  PROVE  CreateInv'
<1>1. PICK calls : calls = todo[r]
  OBVIOUS
<1>2. /\ calls # <<>> /\ todo' = [todo EXCEPT ![r] = AfterFailure(calls)]
      /\ failed' = [failed EXCEPT ![r] = failed[r] \cup {Head(calls)}] /\ delta' = delta
  BY <1>1 DEF GivesUp
<1>3. InOrder(calls) /\ Head(calls) \in CallSet
  <2>1. InOrder(calls) /\ calls \in Seq(CallSet)
    BY <1>1 DEF CreateInv, InOrder
  <2> QED
    BY <1>2, <2>1, TailInOrder, LenProperties
<1>4. Grows /\ DeploysOwnDelta'
  BY AnswerGrows
<1>5. delta' \in [Runs -> Nat] /\ failed' \in [Runs -> SUBSET CallSet]
  BY <1>2, <1>3 DEF CreateInv, CreateType
<1>6. InOrder(AfterFailure(calls)) /\ Ready(r, AfterFailure(calls))'
  BY <1>1, <1>2, <1>4, ReadyAfterFailure
<1> HIDE DEF AfterFailure
<1> QED
  BY <1>2, <1>4, <1>5, <1>6, RunGoesOn

LEMMA AnswerCreate ==
  ASSUME CreateInv, NEW r \in Runs, CallAnswered(r)
  PROVE  CreateInv'
<1>1. CASE Succeeds(r)
  BY <1>1, SuccessCreate
<1>2. ASSUME Faulty(r)
      PROVE  /\ todo[r] # <<>>
             /\ humanitec' = humanitec \/ humanitec' = Created(r, Head(todo[r]))
  BY <1>2 DEF Faulty
<1>3. CASE Forbidden(r) /\ attempts[r] + 1 < Attempts
  <2>1. Faulty(r) /\ UNCHANGED <<todo, delta, failed>>
    BY <1>3 DEF Forbidden
  <2>2. Grows /\ DeploysOwnDelta'
    BY <1>2, <2>1, AnswerGrows
  <2>3. CreateType'
    BY <2>1, <2>2 DEF CreateInv, CreateType, Grows
  <2>4. ASSUME NEW q \in Runs PROVE InOrder(todo'[q]) /\ Ready(q, todo[q])'
    <3>1. PICK own : own = todo[q]
      OBVIOUS
    <3>2. InOrder(own) /\ Ready(q, own)
      BY <3>1 DEF CreateInv
    <3>3. Ready(q, own)' /\ todo'[q] = own
      BY <2>1, <2>2, <3>1, <3>2, ReadyKept
    <3> QED
      BY <3>2, <3>3 DEF Ready
  <2> QED
    BY <2>2, <2>3, <2>4 DEF CreateInv
<1>4. CASE Forbidden(r) /\ ~(attempts[r] + 1 < Attempts)
  <2>1. Faulty(r) /\ GivesUp(r)
    BY <1>4 DEF Forbidden
  <2> QED
    BY <1>2, <2>1, GiveUpCreate
<1>5. CASE Fails(r)
  <2>1. Faulty(r) /\ GivesUp(r)
    BY <1>5 DEF Fails
  <2> QED
    BY <1>2, <2>1, GiveUpCreate
<1>6. CASE AlreadyExists(r)
  BY <1>6, GiveUpCreate DEF AlreadyExists
<1> QED
  BY <1>1, <1>3, <1>4, <1>5, <1>6 DEF CallAnswered

\* A step of a task leaves Humanitec alone, begins to create or is answered.
LEMMA TaskCreates ==
  ASSUME NEW t \in Runs, StepOf(t)
  PROVE  UNCHANGED createVars \/ BeginCreating(t) \/ CallAnswered(t)
  BY DEF StepOf, FetchDirectory, FetchFails, NoFetch, readFile, writeFile, addAnnotationAction,
         getContentFails, loadSetupFile, HumanitecAnswers, handlerReturns

LEMMA NextCreate == CreateInv /\ [Next]_vars => CreateInv'
<1> SUFFICES ASSUME CreateInv, [Next]_vars PROVE CreateInv'
  OBVIOUS
<1>1. CASE UNCHANGED vars
  BY <1>1, CreateKept DEF vars
<1>2. ASSUME NEW t \in Runs, StepOf(t) PROVE CreateInv'
  BY <1>2, TaskCreates, CreateKept, BeginCreate, AnswerCreate
<1> QED
  BY <1>1, <1>2 DEF Next

\* Whatever calls failed, were retried or ran twice, and whatever other runs did
\* meanwhile: a run deploys the delta that it created itself for that
\* environment, and creates nothing in an application that it did not create.
THEOREM DeploysWhatItCreated == Spec => []DeploysOwnDelta
<1>1. Init => CreateInv
  BY InitCreate DEF Init
<1>2. CreateInv => DeploysOwnDelta
  BY DEF CreateInv
<1> QED
  BY <1>1, <1>2, NextCreate, PTL DEF Spec

-----------------------------------------------------------------------------
(* What a failure costs.                                                   *)

\* A call was made, or one that it depends on has failed.
Settled(t, call) ==
    \/ CreatedBy(t, call)
    \/ \E lost \in failed[t] :
            /\ lost.nth = call.nth
            /\ \/ lost = call \/ lost.resource = "application"
               \/ lost.resource = "delta" /\ call.resource = "deployment" /\ lost.env = call.env

Labels == {"start", "read", "write", "calls"}

\* Of the setup file that a run goes through, everything is still to come or
\* settled.
CompleteInv ==
    /\ pc \in [Runs -> Labels]
    /\ \A t \in Runs : pc[t] = "calls" =>
            \A call \in ToSet(Calls) : call \in ToSet(todo[t]) \/ Settled(t, call)

LEMMA SettledKept ==
  ASSUME Grows, NEW t, failed[t] \subseteq failed'[t], NEW call, Settled(t, call)
  PROVE  Settled(t, call)'
<1>1. CreatedBy(t, call) => CreatedBy(t, call)'
  BY DEF CreatedBy, Grows
<1> QED
  BY <1>1 DEF Settled

\* What a failed call takes away with it.
LEMMA FailureSettles ==
  ASSUME NEW calls, InOrder(calls), calls # <<>>,
         NEW call \in ToSet(Calls), call \in ToSet(calls)
  PROVE  \/ call \in ToSet(AfterFailure(calls))
         \/ call = calls[1]
         \/ /\ calls[1].nth = call.nth
            /\ \/ calls[1].resource = "application"
               \/ /\ calls[1].resource = "delta" /\ call.resource = "deployment"
                  /\ calls[1].env = call.env
<1> DEFINE lost == calls[1]
<1>1. /\ calls \in Seq(CallSet) /\ Head(calls) = lost /\ InOrder(Tail(calls))
      /\ 1 \in DOMAIN calls /\ lost \in CallSet
  <2>1. calls \in Seq(CallSet)
    BY DEF InOrder
  <2> QED
    BY <2>1, TailInOrder, LenProperties
<1>2. ToSet(calls) = {lost} \cup ToSet(Tail(calls)) /\ Tail(calls) \in Seq(CallSet)
  BY <1>1, TailElements
<1>3. CASE lost.resource = "application"
  <2>1. AfterFailure(calls) = CallsFrom(lost.nth + 1)
    BY <1>1, <1>3 DEF AfterFailure
  <2>2. PICK i \in DOMAIN calls : calls[i] = call
    BY DEF ToSet
  <2>3. call \in CallSet
    BY <1>1, <2>2, LenProperties
  <2>4. call.nth \in Nat /\ lost.nth \in Nat
    BY <1>1, <2>3, CallShape
  <2>5. i = 1 \/ 1 < i
    BY <1>1, <2>2, LenProperties
  <2>6. lost.nth <= call.nth
    BY <1>1, <2>2, <2>4, <2>5 DEF InOrder
  <2>7. CASE lost.nth = call.nth
    BY <1>3, <2>7
  <2>8. CASE lost.nth # call.nth
    <3>1. call.nth >= lost.nth + 1 /\ lost.nth + 1 \in Nat \ {0}
      BY <2>4, <2>6, <2>8
    <3> QED
      BY <2>1, <3>1, LaterCalls
  <2> QED
    BY <2>7, <2>8
<1>4. CASE lost.resource = "delta"
  <2>1. AfterFailure(calls) = Tail(Tail(calls))
    BY <1>1, <1>4 DEF AfterFailure
  <2>2. /\ 1 + 1 \in DOMAIN calls /\ calls[1 + 1].resource = "deployment"
        /\ calls[1 + 1].nth = lost.nth /\ calls[1 + 1].env = lost.env
    BY <1>1, <1>4 DEF InOrder, Paired
  <2>3. 1 \in DOMAIN Tail(calls) /\ Tail(calls)[1] = calls[1 + 1]
    BY <2>2, TailInOrder
  <2>4. Tail(calls) # <<>>
    <3>1. \A t : 1 \in DOMAIN t => t # <<>>
      OBVIOUS
    <3> QED
      BY <2>3, <3>1
  <2>5. /\ ToSet(Tail(calls)) = {Tail(calls)[1]} \cup ToSet(Tail(Tail(calls)))
    BY <1>1, <1>2, <2>4, TailElements, TailInOrder
  <2> QED
    BY <1>2, <1>4, <2>1, <2>2, <2>3, <2>5
<1>5. CASE lost.resource # "application" /\ lost.resource # "delta"
  <2>1. AfterFailure(calls) = Tail(calls)
    BY <1>1, <1>5 DEF AfterFailure
  <2> QED
    BY <1>2, <2>1
<1> QED
  BY <1>3, <1>4, <1>5

\* Of a call that is answered and what depends on it.
LEMMA AnswerSettles ==
  ASSUME CreateInv, NEW r \in Runs, CallAnswered(r)
  PROVE  /\ Grows
         /\ \A q \in Runs : failed[q] \subseteq failed'[q]
         /\ \A q \in Runs \ {r} : todo'[q] = todo[q]
         /\ \A call \in ToSet(Calls) :
                call \in ToSet(todo[r]) => call \in ToSet(todo'[r]) \/ Settled(r, call)'
<1>1. PICK calls : calls = todo[r]
  OBVIOUS
<1>2. calls # <<>> /\ InOrder(calls) /\ Head(calls) = calls[1] /\ calls \in Seq(CallSet)
  <2>1. calls # <<>>
    BY <1>1 DEF CallAnswered, Succeeds, Forbidden, Fails, Faulty, AlreadyExists
  <2> QED
    BY <1>1, <2>1, TailInOrder DEF CreateInv, InOrder
<1>3. todo \in [Runs -> Seq(CallSet)] /\ failed \in [Runs -> SUBSET CallSet]
  BY DEF CreateInv, CreateType
<1>4. CASE Succeeds(r)
  <2>1. /\ humanitec' = Created(r, Head(todo[r])) /\ failed' = failed
        /\ todo' = [todo EXCEPT ![r] = Tail(calls)]
    BY <1>1, <1>4 DEF Succeeds
  <2>2. Grows /\ CreatedBy(r, calls[1])'
    BY <1>1, <1>2, <2>1, ObjectCreated
  <2>3. ToSet(calls) = {calls[1]} \cup ToSet(Tail(calls))
    BY <1>2, TailElements
  <2>4. todo'[r] = Tail(calls) /\ \A q \in Runs \ {r} : todo'[q] = todo[q]
    BY <1>3, <2>1
  <2> QED
    BY <1>1, <2>1, <2>2, <2>3, <2>4 DEF Settled
<1>5. ASSUME GivesUp(r), humanitec' = humanitec \/ humanitec' = Created(r, Head(todo[r]))
      PROVE  /\ Grows
             /\ \A q \in Runs : failed[q] \subseteq failed'[q]
             /\ \A q \in Runs \ {r} : todo'[q] = todo[q]
             /\ \A call \in ToSet(Calls) :
                    call \in ToSet(todo[r]) => call \in ToSet(todo'[r]) \/ Settled(r, call)'
  <2>1. /\ todo' = [todo EXCEPT ![r] = AfterFailure(calls)]
        /\ failed' = [failed EXCEPT ![r] = failed[r] \cup {calls[1]}]
    BY <1>1, <1>2, <1>5 DEF GivesUp
  <2>2. Grows
    BY <1>1, <1>2, <1>5, AnswerGrows
  <2>3. /\ todo'[r] = AfterFailure(calls) /\ calls[1] \in failed'[r]
        /\ \A q \in Runs \ {r} : todo'[q] = todo[q]
        /\ \A q \in Runs : failed[q] \subseteq failed'[q]
    <3> HIDE DEF AfterFailure
    <3> QED
      BY <1>3, <2>1
  <2>4. ASSUME NEW call \in ToSet(Calls), call \in ToSet(calls),
               call \notin ToSet(AfterFailure(calls))
        PROVE  Settled(r, call)'
    BY <1>2, <2>3, <2>4, FailureSettles DEF Settled
  <2> QED
    BY <1>1, <2>2, <2>3, <2>4
<1>6. CASE Forbidden(r) /\ attempts[r] + 1 < Attempts
  <2>1. Faulty(r) /\ UNCHANGED <<todo, delta, failed>>
    BY <1>6 DEF Forbidden
  <2>2. Grows
    BY <1>1, <1>2, <2>1, AnswerGrows DEF Faulty
  <2> QED
    BY <2>1, <2>2
<1>7. CASE Forbidden(r) /\ ~(attempts[r] + 1 < Attempts)
  BY <1>5, <1>7 DEF Forbidden, Faulty
<1>8. CASE Fails(r)
  BY <1>5, <1>8 DEF Fails, Faulty
<1>9. CASE AlreadyExists(r)
  BY <1>5, <1>9 DEF AlreadyExists
<1> QED
  BY <1>4, <1>6, <1>7, <1>8, <1>9 DEF CallAnswered

\* A step that leaves Humanitec alone does not enter the calls either.
Elsewhere ==
    /\ UNCHANGED createVars /\ pc' \in [Runs -> Labels]
    /\ \A q \in Runs : pc'[q] = "calls" => pc[q] = "calls"

LEMMA StepLabels ==
  ASSUME CompleteInv, NEW t \in Runs, StepOf(t)
  PROVE  \/ Elsewhere
         \/ /\ BeginCreating(t) /\ pc' \in [Runs -> Labels]
            /\ \A q \in Runs \ {t} : pc'[q] = pc[q]
         \/ CallAnswered(t) /\ pc' = pc
<1>0. pc \in [Runs -> Labels]
  BY DEF CompleteInv
<1>1. ASSUME StepDone(t) \/ StepThrows(t) \/ Goto(t, "read") \/ Goto(t, "write")
      PROVE  /\ pc' \in [Runs -> Labels]
             /\ \A q \in Runs : pc'[q] = "calls" => pc[q] = "calls"
  BY <1>0, <1>1 DEF StepDone, StepThrows, Goto, Labels
<1>2. CASE FetchDirectory(t) \/ FetchFails(t) \/ NoFetch(t)
  BY <1>1, <1>2 DEF FetchDirectory, FetchFails, NoFetch, Elsewhere
<1>3. CASE readFile(t)
  BY <1>1, <1>3 DEF readFile, Elsewhere
<1>4. CASE writeFile(t)
  BY <1>1, <1>4 DEF writeFile, Elsewhere
<1>5. CASE addAnnotationAction(t) \/ getContentFails(t)
  BY <1>1, <1>5 DEF addAnnotationAction, getContentFails, Elsewhere
<1>6. CASE loadSetupFile(t)
  <2>1. CASE BeginCreating(t) /\ Goto(t, "calls")
    <3>1. pc' \in [Runs -> Labels] /\ \A q \in Runs \ {t} : pc'[q] = pc[q]
      BY <1>0, <2>1 DEF Goto, Labels
    <3> QED
      BY <2>1, <3>1
  <2>2. CASE (StepDone(t) \/ StepThrows(t)) /\ UNCHANGED createVars
    BY <1>1, <2>2 DEF Elsewhere
  <2> QED
    BY <1>6, <2>1, <2>2 DEF loadSetupFile
<1>7. CASE HumanitecAnswers(t)
  BY <1>7 DEF HumanitecAnswers, taskVars
<1>8. CASE handlerReturns(t)
  BY <1>1, <1>8 DEF handlerReturns, Elsewhere
<1> QED
  BY <1>2, <1>3, <1>4, <1>5, <1>6, <1>7, <1>8 DEF StepOf

LEMMA InitComplete == Init => CompleteInv
  BY DEF Init, CompleteInv, Labels

LEMMA NextComplete == CreateInv /\ CompleteInv /\ [Next]_vars => CompleteInv'
<1> SUFFICES ASSUME CreateInv, CompleteInv, [Next]_vars PROVE CompleteInv'
  OBVIOUS
<1>1. ASSUME Elsewhere PROVE CompleteInv'
  BY <1>1 DEF Elsewhere, CompleteInv, createVars, Settled, CreatedBy
<1>2. CASE UNCHANGED vars
  BY <1>1, <1>2 DEF vars, taskVars, Elsewhere, CompleteInv
<1>3. ASSUME NEW t \in Runs, BeginCreating(t), pc' \in [Runs -> Labels],
             \A q \in Runs \ {t} : pc'[q] = pc[q]
      PROVE  CompleteInv'
  <2>1. /\ UNCHANGED <<humanitec, failed>> /\ todo'[t] = Calls
        /\ \A q \in Runs \ {t} : todo'[q] = todo[q]
    BY <1>3 DEF BeginCreating, CreateInv, CreateType
  <2>2. ASSUME NEW q \in Runs, pc'[q] = "calls", NEW call \in ToSet(Calls)
        PROVE  call \in ToSet(todo'[q]) \/ Settled(q, call)'
    <3>1. CASE q = t
      BY <2>1, <2>2, <3>1
    <3>2. CASE q # t
      <4>1. call \in ToSet(todo[q]) \/ Settled(q, call)
        BY <1>3, <2>2, <3>2 DEF CompleteInv
      <4> QED
        BY <2>1, <3>2, <4>1 DEF Settled, CreatedBy
    <3> QED
      BY <3>1, <3>2
  <2> QED
    BY <1>3, <2>2 DEF CompleteInv
<1>4. ASSUME NEW t \in Runs, CallAnswered(t), pc' = pc PROVE CompleteInv'
  <2>1. /\ Grows
        /\ \A q \in Runs : failed[q] \subseteq failed'[q]
        /\ \A q \in Runs \ {t} : todo'[q] = todo[q]
        /\ \A call \in ToSet(Calls) :
                call \in ToSet(todo[t]) => call \in ToSet(todo'[t]) \/ Settled(t, call)'
    BY <1>4, AnswerSettles
  <2>2. ASSUME NEW q \in Runs, pc'[q] = "calls", NEW call \in ToSet(Calls)
        PROVE  call \in ToSet(todo'[q]) \/ Settled(q, call)'
    <3>1. call \in ToSet(todo[q]) \/ Settled(q, call)
      BY <1>4, <2>2 DEF CompleteInv
    <3>2. Settled(q, call) => Settled(q, call)'
      BY <2>1, SettledKept
    <3> QED
      BY <2>1, <3>1, <3>2
  <2> QED
    BY <1>4, <2>2 DEF CompleteInv
<1>5. ASSUME NEW t \in Runs, StepOf(t) PROVE CompleteInv'
  BY <1>1, <1>3, <1>4, <1>5, StepLabels
<1> QED
  BY <1>2, <1>5 DEF Next

\* A failure costs what depends on the call that failed and nothing else: when the
\* action returns, all the rest of the setup file has been created.
THEOREM CreatesTheRest == Spec => []CompleteButForFailures
<1>1. Init => CreateInv /\ CompleteInv
  BY InitCreate, InitComplete DEF Init
<1>2. CreateInv /\ CompleteInv /\ [Next]_vars => (CreateInv /\ CompleteInv)'
  BY NextCreate, NextComplete
<1>3. CompleteInv => CompleteButForFailures
  <2> SUFFICES ASSUME CompleteInv, NEW t \in Runs, pc[t] = "calls", todo[t] = <<>>,
                      NEW call \in ToSet(Calls)
               PROVE  Settled(t, call)
    BY DEF CompleteButForFailures, Settled
  <2>1. ToSet(<<>>) = {}
    BY DEF ToSet
  <2> QED
    BY <2>1 DEF CompleteInv
<1> QED
  BY <1>1, <1>2, <1>3, PTL DEF Spec

-----------------------------------------------------------------------------
(* How many calls are left.                                                *)

\* The apps that the calls are for.
AppsIn(calls) == IF calls = <<>> THEN 0 ELSE Len(Setup) + 1 - calls[1].nth

\* Less of the calls is left: fewer apps, or fewer calls of as many apps.
FewerCalls(fewer, calls) ==
    \/ AppsIn(fewer) < AppsIn(calls)
    \/ AppsIn(fewer) = AppsIn(calls) /\ Len(fewer) < Len(calls)

\* The apps of calls are numbers of apps.
LEMMA AppsAreNumbers ==
  ASSUME NEW calls, InOrder(calls)
  PROVE  /\ AppsIn(calls) \in Nat /\ Len(calls) \in Nat /\ Len(Setup) \in Nat
         /\ calls # <<>> => /\ calls[1].nth \in 1..Len(Setup) /\ 1 \in DOMAIN calls
                            /\ AppsIn(calls) = Len(Setup) + 1 - calls[1].nth
                            /\ AppsIn(calls) > 0 /\ Len(calls) > 0
<1>1. calls \in Seq(CallSet) /\ Len(calls) \in Nat /\ Len(Setup) \in Nat /\ DOMAIN Setup = 1..Len(Setup)
  BY LenProperties DEF InOrder
<1>2. CASE calls = <<>>
  BY <1>1, <1>2 DEF AppsIn
<1>3. CASE calls # <<>>
  <2>1. 1 \in DOMAIN calls /\ Len(calls) > 0
    BY <1>1, <1>3, LenProperties, EmptySeq
  <2>2. calls[1] \in CallSet
    BY <1>1, <2>1, LenProperties
  <2>3. calls[1].nth \in 1..Len(Setup)
    BY <1>1, <2>2, CallShape
  <2> QED
    BY <1>1, <1>3, <2>1, <2>3 DEF AppsIn
<1> QED
  BY <1>2, <1>3

\* What comes of an app later than the first leaves fewer apps.
LEMMA LaterIsFewer ==
  ASSUME NEW calls, InOrder(calls), calls # <<>>, NEW later, InOrder(later),
         later # <<>> => later[1].nth >= calls[1].nth,
         \/ Len(later) < Len(calls)
         \/ later # <<>> => later[1].nth > calls[1].nth
  PROVE  FewerCalls(later, calls)
<1>1. /\ AppsIn(calls) \in Nat /\ Len(calls) \in Nat /\ Len(Setup) \in Nat
      /\ calls[1].nth \in 1..Len(Setup)
      /\ AppsIn(calls) = Len(Setup) + 1 - calls[1].nth /\ AppsIn(calls) > 0
  BY AppsAreNumbers
<1>2. /\ AppsIn(later) \in Nat /\ Len(later) \in Nat
      /\ later # <<>> => /\ later[1].nth \in 1..Len(Setup)
                         /\ AppsIn(later) = Len(Setup) + 1 - later[1].nth
  BY AppsAreNumbers
<1>3. CASE later = <<>>
  <2>1. AppsIn(later) = 0
    BY <1>3 DEF AppsIn
  <2> QED
    BY <1>1, <2>1 DEF FewerCalls
<1>4. CASE later # <<>>
  <2>1. PICK n, m, apps, left, s : /\ n = calls[1].nth /\ m = later[1].nth /\ s = Len(Setup)
                                   /\ apps = AppsIn(calls) /\ left = AppsIn(later)
    OBVIOUS
  <2>2. /\ n \in 1..s /\ m \in 1..s /\ s \in Nat /\ m >= n
        /\ apps = s + 1 - n /\ left = s + 1 - m
    BY <1>1, <1>2, <1>4, <2>1
  <2>3. CASE m > n
    <3>1. left < apps
      BY <2>2, <2>3
    <3> QED
      BY <2>1, <3>1 DEF FewerCalls
  <2>4. CASE m = n
    <3>1. left = apps /\ Len(later) < Len(calls)
      <4>1. ~(m > n)
        BY <2>2, <2>4
      <4>2. Len(later) < Len(calls)
        BY <1>4, <2>1, <4>1
      <4> QED
        BY <2>2, <2>4, <4>2
    <3> QED
      BY <2>1, <3>1 DEF FewerCalls
  <2> QED
    BY <2>2, <2>3, <2>4
<1> QED
  BY <1>3, <1>4

\* A call that succeeded, or that nothing depends on, is one less.
LEMMA TailIsFewer ==
  ASSUME NEW calls, InOrder(calls), calls # <<>>
  PROVE  /\ FewerCalls(Tail(calls), calls) /\ InOrder(Tail(calls))
         /\ Len(Tail(calls)) < Len(calls)
         /\ Tail(calls) # <<>> => Tail(calls)[1].nth >= calls[1].nth
<1>1. PICK later : later = Tail(calls)
  OBVIOUS
<1>2. /\ InOrder(later) /\ 1 \in DOMAIN calls /\ DOMAIN later = 1..(Len(calls) - 1)
      /\ Len(calls) \in Nat
      /\ \A i \in DOMAIN later : i + 1 \in DOMAIN calls /\ later[i] = calls[i + 1]
  BY <1>1, TailInOrder
<1>3. Len(later) < Len(calls)
  <2>1. calls \in Seq(CallSet)
    BY DEF InOrder
  <2> QED
    BY <1>1, <2>1, HeadTailProperties, LenProperties, EmptySeq
<1>4. later # <<>> => later[1].nth >= calls[1].nth
  <2> SUFFICES ASSUME later # <<>> PROVE later[1].nth >= calls[1].nth
    OBVIOUS
  <2>1. 1 \in DOMAIN later
    BY <1>2, AppsAreNumbers
  <2>2. 1 + 1 \in DOMAIN calls /\ later[1] = calls[1 + 1]
    BY <1>2, <2>1
  <2>3. 1 < 1 + 1
    OBVIOUS
  <2>4. calls[1].nth <= calls[1 + 1].nth
    BY <1>2, <2>2, <2>3 DEF InOrder
  <2>5. calls[1].nth \in Nat /\ calls[1 + 1].nth \in Nat
    <3>1. calls \in Seq(CallSet)
      BY DEF InOrder
    <3>2. calls[1] \in CallSet /\ calls[1 + 1] \in CallSet
      BY <1>2, <2>2, <3>1, LenProperties
    <3> QED
      BY <3>2, CallShape
  <2> QED
    BY <2>2, <2>4, <2>5
<1> QED
  BY <1>1, <1>2, <1>3, <1>4, LaterIsFewer

\* A call that failed is one less, with those that depend on it.
LEMMA FailureIsFewer ==
  ASSUME NEW calls, InOrder(calls), calls # <<>>
  PROVE  FewerCalls(AfterFailure(calls), calls)
<1>1. PICK call, later : call = calls[1] /\ later = Tail(calls)
  OBVIOUS
<1>2. Head(calls) = call /\ call.nth \in 1..Len(Setup) /\ Len(Setup) \in Nat
  BY <1>1, TailInOrder, AppsAreNumbers
<1>3. /\ FewerCalls(later, calls) /\ InOrder(later) /\ Len(later) < Len(calls)
      /\ later # <<>> => later[1].nth >= call.nth
  BY <1>1, TailIsFewer
<1>4. CASE call.resource = "application"
  <2>1. PICK rest : rest = CallsFrom(call.nth + 1)
    OBVIOUS
  <2>2. AfterFailure(calls) = rest
    BY <1>2, <1>4, <2>1 DEF AfterFailure
  <2>3. call.nth + 1 \in Nat \ {0}
    BY <1>2
  <2>4. InOrder(rest)
    BY <2>1, <2>3, CallsInOrder
  <2>5. rest # <<>> => rest[1].nth > call.nth
    <3> SUFFICES ASSUME rest # <<>> PROVE rest[1].nth > call.nth
      OBVIOUS
    <3>1. 1 \in DOMAIN rest
      BY <2>4, AppsAreNumbers
    <3>2. rest[1] \in ToSet(rest)
      BY <3>1 DEF ToSet
    <3>3. ToSet(rest) = UNION {ToSet(CallsFor(nth)) : nth \in (call.nth + 1)..Len(Setup)}
      BY <2>1, <2>3, CallsElements
    <3>4. PICK nth \in (call.nth + 1)..Len(Setup) : rest[1] \in ToSet(CallsFor(nth))
      BY <3>2, <3>3
    <3>5. nth \in DOMAIN Setup
      BY <1>2, <3>4, LenProperties
    <3>6. rest[1].nth = nth
      BY <3>4, <3>5, CallsForApp DEF OfApp, ToSet
    <3> QED
      BY <1>2, <3>4, <3>6
  <2>6. rest # <<>> => rest[1].nth >= call.nth
    BY <1>2, <2>4, <2>5, AppsAreNumbers
  <2> QED
    BY <1>1, <2>2, <2>4, <2>5, <2>6, LaterIsFewer
<1>5. CASE call.resource = "delta"
  <2>1. AfterFailure(calls) = Tail(later)
    BY <1>1, <1>2, <1>5 DEF AfterFailure
  <2>2. later # <<>>
    <3>1. 1 + 1 \in DOMAIN calls
      BY <1>1, <1>5, TailInOrder DEF InOrder, Paired
    <3>2. 1 \in DOMAIN later
      BY <1>1, <3>1, TailInOrder, LenProperties DEF InOrder
    <3> QED
      BY <3>2
  <2>3. /\ InOrder(Tail(later)) /\ Len(Tail(later)) < Len(later)
        /\ Tail(later) # <<>> => Tail(later)[1].nth >= later[1].nth
    BY <1>3, <2>2, TailIsFewer
  <2>4. PICK last : last = Tail(later)
    OBVIOUS
  <2>5. /\ Len(later) \in Nat /\ Len(calls) \in Nat /\ Len(last) \in Nat
        /\ later[1].nth \in Nat /\ call.nth \in Nat
    <3>1. Len(later) \in Nat /\ later[1].nth \in 1..Len(Setup)
      BY <1>3, <2>2, AppsAreNumbers
    <3>2. Len(last) \in Nat /\ Len(calls) \in Nat
      BY <2>3, <2>4, AppsAreNumbers
    <3> QED
      BY <1>2, <3>1, <3>2
  <2>6. last # <<>> => last[1].nth \in Nat
    <3>1. last # <<>> => last[1].nth \in 1..Len(Setup)
      BY <2>3, <2>4, AppsAreNumbers
    <3> QED
      BY <3>1
  <2>7. Len(last) < Len(calls)
    BY <1>3, <2>3, <2>4, <2>5
  <2>8. last # <<>> => last[1].nth >= call.nth
    BY <1>3, <2>2, <2>3, <2>4, <2>5, <2>6
  <2>9. last # <<>> => last[1].nth >= calls[1].nth
    BY <1>1, <2>8
  <2> QED
    BY <2>1, <2>3, <2>4, <2>7, <2>9, LaterIsFewer
<1>6. CASE call.resource # "application" /\ call.resource # "delta"
  <2>1. AfterFailure(calls) = later
    BY <1>1, <1>2, <1>6 DEF AfterFailure
  <2> QED
    BY <1>3, <2>1
<1> QED
  BY <1>4, <1>5, <1>6

-----------------------------------------------------------------------------
(* The documents that no step names.                                       *)

USE RepositoryAssumption

\* The documents of a file, or what has become of them.
Alike(f, documents) ==
    /\ documents = [i \in DOMAIN Repository[f] |-> documents[i]]
    /\ \A i \in DOMAIN Repository[f] :
            /\ DOMAIN documents[i] = {"entity", "contents"}
            /\ documents[i].entity = Repository[f][i].entity

\* No step up to the current one names the entity.
Unnamed(t, f, entity) ==
    /\ entity # None
    /\ \A n \in 1..at[t] : steps[t][n].file = f => steps[t][n].entityRef \notin {None, entity}

Spared(t, f, documents) ==
    /\ Repository[f] # None /\ Alike(f, documents)
    /\ \A i \in DOMAIN Repository[f] :
            Unnamed(t, f, Repository[f][i].entity) => documents[i] = Repository[f][i]

\* What a step is about to write back is what it has read.
OthersInv ==
    /\ pc \in [Runs -> Labels]
    /\ at \in [Runs -> Nat \ {0}]
    /\ content = [t \in Runs |-> content[t]]
    /\ workspace = [t \in Runs |-> [f \in Files |-> workspace[t][f]]]
    /\ \A t \in Runs : pc[t] = "write" /\ Step(t).from # "absolute" /\ Step(t).file \in Files =>
            content[t] = workspace[t][Step(t).file] /\ content[t] # None
    /\ \A t \in Runs : \A f \in Files :
            workspace[t][f] # None => Spared(t, f, workspace[t][f])

LEMMA RepositoryAlike ==
  ASSUME NEW f \in Files, Repository[f] # None
  PROVE  Alike(f, Repository[f])
<1>1. Repository[f] \in Seq(ToSet(Repository[f]))
  OBVIOUS
<1>2. Repository[f] = [i \in DOMAIN Repository[f] |-> Repository[f][i]]
  BY <1>1, LenProperties
<1> QED
  BY <1>2 DEF Alike

\* The documents that an edit skips stay as they are, the others stay documents
\* of the same entities.
LEMMA EditKeeps ==
  ASSUME NEW f, NEW documents, Alike(f, documents), NEW edits_, NEW skips,
         EditAll(documents, edits_, skips) # None
  PROVE  /\ Alike(f, EditAll(documents, edits_, skips))
         /\ \A i \in DOMAIN Repository[f] :
                skips[i] => EditAll(documents, edits_, skips)[i] = documents[i]
<1> DEFINE new == [i \in DOMAIN documents |->
                    IF skips[i] THEN documents[i]
                    ELSE [documents[i] EXCEPT !.contents = edits_[i].contents]]
<1>1. EditAll(documents, edits_, skips) = new
  BY DEF EditAll
<1>2. DOMAIN documents = DOMAIN Repository[f]
  BY DEF Alike
<1>3. ASSUME NEW i \in DOMAIN Repository[f]
      PROVE  /\ DOMAIN new[i] = {"entity", "contents"}
             /\ new[i].entity = Repository[f][i].entity
  <2>1. DOMAIN documents[i] = {"entity", "contents"} /\ documents[i].entity = Repository[f][i].entity
    BY <1>3 DEF Alike
  <2>2. new[i] = IF skips[i] THEN documents[i]
                 ELSE [documents[i] EXCEPT !.contents = edits_[i].contents]
    BY <1>2
  <2> HIDE DEF new
  <2> QED
    BY <2>1, <2>2
<1>4. new = [i \in DOMAIN Repository[f] |-> new[i]]
  BY <1>2
<1>5. \A i \in DOMAIN Repository[f] : skips[i] => new[i] = documents[i]
  BY <1>2
<1> HIDE DEF new
<1> QED
  BY <1>1, <1>3, <1>4, <1>5 DEF Alike

LEMMA InitOthers == Init => OthersInv
  BY DEF Init, OthersInv, Labels

\* Later steps only name more.
LEMMA SparedKept ==
  ASSUME OthersInv, NEW t \in Runs, NEW f \in Files, NEW documents, Spared(t, f, documents),
         steps' = steps, at'[t] \in Nat, at'[t] >= at[t]
  PROVE  Spared(t, f, documents)'
<1>1. 1..at[t] \subseteq 1..at'[t]
  BY DEF OthersInv
<1>2. \A entity : Unnamed(t, f, entity)' => Unnamed(t, f, entity)
  BY <1>1 DEF Unnamed
<1> QED
  BY <1>2 DEF Spared

\* What a step of a task does to the rest of its state.
Advances(t) ==
    /\ steps' = steps
    /\ pc' \in [Runs -> Labels] /\ at' \in [Runs -> Nat \ {0}]
    /\ at'[t] >= at[t]
    /\ \A q \in Runs \ {t} : pc'[q] = pc[q] /\ at'[q] = at[q]

LEMMA StepAdvances ==
  ASSUME OthersInv, NEW t \in Runs, steps' = steps,
         \/ StepDone(t) \/ StepThrows(t)
         \/ Goto(t, "read") \/ Goto(t, "write") \/ Goto(t, "calls")
  PROVE  /\ Advances(t)
         /\ pc'[t] = "write" => Goto(t, "write")
<1>1. pc \in [Runs -> Labels] /\ at \in [Runs -> Nat \ {0}] /\ at[t] + 1 \in Nat \ {0}
  BY DEF OthersInv
<1>2. CASE StepDone(t)
  <2>1. at' = at \/ at' = [at EXCEPT ![t] = at[t] + 1]
    BY <1>2 DEF StepDone
  <2>2. pc' \in [Runs -> Labels] /\ pc'[t] = "start" /\ \A q \in Runs \ {t} : pc'[q] = pc[q]
    BY <1>1, <1>2 DEF StepDone, Labels
  <2>3. /\ at' \in [Runs -> Nat \ {0}] /\ at'[t] >= at[t]
        /\ \A q \in Runs \ {t} : at'[q] = at[q]
    BY <1>1, <2>1
  <2> QED
    BY <2>2, <2>3 DEF Advances
<1>3. CASE StepThrows(t)
  BY <1>1, <1>3 DEF StepThrows, Labels, Advances
<1>4. CASE Goto(t, "read") \/ Goto(t, "write") \/ Goto(t, "calls")
  <2>1. ASSUME NEW label \in Labels, Goto(t, label)
        PROVE  Advances(t) /\ pc'[t] = label
    <3>1. pc' \in [Runs -> Labels] /\ pc'[t] = label /\ \A q \in Runs \ {t} : pc'[q] = pc[q]
      BY <1>1, <2>1 DEF Goto
    <3>2. at' = at /\ at[t] \in Nat /\ at'[t] >= at[t]
      BY <1>1, <2>1 DEF Goto
    <3> QED
      BY <1>1, <3>1, <3>2 DEF Advances
  <2>2. "read" \in Labels /\ "write" \in Labels /\ "calls" \in Labels
    BY DEF Labels
  <2>3. CASE Goto(t, "write")
    BY <2>1, <2>2, <2>3
  <2>4. CASE Goto(t, "read") \/ Goto(t, "calls")
    <3>1. Advances(t) /\ pc'[t] # "write"
      BY <2>1, <2>2, <2>4
    <3> QED
      BY <3>1
  <2> QED
    BY <1>4, <2>3, <2>4
<1> QED
  BY <1>2, <1>3, <1>4

\* A step that changes files of its own workspace only, and leaves each of them
\* as it was or spared.
LEMMA WorkspaceSpared ==
  ASSUME OthersInv, NEW t \in Runs, Advances(t), content' = [q \in Runs |-> content'[q]],
         \A q \in Runs \ {t} : content'[q] = content[q],
         NEW new, workspace' = [workspace EXCEPT ![t] = new], new = [f \in Files |-> new[f]],
         \A f \in Files : new[f] = workspace[t][f] \/ Spared(t, f, new[f]),
         pc'[t] = "write" /\ Step(t)'.from # "absolute" /\ Step(t)'.file \in Files =>
            content'[t] = new[Step(t)'.file] /\ content'[t] # None
  PROVE  OthersInv'
<1>1. /\ workspace'[t] = new
      /\ \A q \in Runs \ {t} : workspace'[q] = workspace[q]
      /\ workspace' = [q \in Runs |-> [f \in Files |-> workspace'[q][f]]]
  <2>1. workspace = [q \in Runs |-> workspace[q]]
        /\ \A q \in Runs : workspace[q] = [f \in Files |-> workspace[q][f]]
    BY DEF OthersInv
  <2>2. workspace'[t] = new /\ \A q \in Runs \ {t} : workspace'[q] = workspace[q]
    BY <2>1
  <2>3. workspace' = [q \in Runs |-> workspace'[q]]
    BY <2>1
  <2>4. \A q \in Runs : workspace'[q] = [f \in Files |-> workspace'[q][f]]
    BY <2>1, <2>2
  <2> QED
    BY <2>2, <2>3, <2>4
<1>2. /\ pc' \in [Runs -> Labels] /\ at' \in [Runs -> Nat \ {0}] /\ steps' = steps
      /\ \A q \in Runs \ {t} : pc'[q] = pc[q] /\ at'[q] = at[q]
      /\ \A q \in Runs : at'[q] >= at[q] /\ at'[q] \in Nat
  <2>1. /\ at' \in [Runs -> Nat \ {0}] /\ at'[t] >= at[t]
        /\ \A q \in Runs \ {t} : pc'[q] = pc[q] /\ at'[q] = at[q]
        /\ pc' \in [Runs -> Labels] /\ steps' = steps
    BY DEF Advances
  <2>2. ASSUME NEW q \in Runs PROVE at'[q] \in Nat /\ at'[q] >= at[q]
    <3>1. at'[q] \in Nat /\ at[q] \in Nat
      BY <2>1 DEF OthersInv
    <3>2. at'[q] = at[q] \/ at'[q] >= at[q]
      BY <2>1
    <3>3. PICK before \in Nat, after \in Nat : before = at[q] /\ after = at'[q]
      BY <3>1
    <3> QED
      BY <3>2, <3>3
  <2> QED
    BY <2>1, <2>2
<1>3. ASSUME NEW q \in Runs, NEW f \in Files, workspace'[q][f] # None
      PROVE  Spared(q, f, workspace[q][f])'
  <2>1. PICK documents : documents = workspace'[q][f]
    OBVIOUS
  <2>2. Spared(q, f, documents)
    BY <1>1, <1>3, <2>1 DEF OthersInv
  <2>3. Spared(q, f, documents)'
    BY <1>2, <2>2, SparedKept
  <2> QED
    BY <2>1, <2>3 DEF Spared, Alike
<1>4. ASSUME NEW q \in Runs, pc'[q] = "write", Step(q)'.from # "absolute", Step(q)'.file \in Files
      PROVE  content'[q] = workspace'[q][Step(q)'.file] /\ content'[q] # None
  <2>1. CASE q = t
    BY <1>1, <1>4, <2>1
  <2>2. CASE q # t
    <3>1. Step(q)' = Step(q)
      BY <1>2, <2>2 DEF Step
    <3> QED
      BY <1>1, <1>2, <1>4, <2>2, <3>1 DEF OthersInv
  <2> QED
    BY <2>1, <2>2
<1> QED
  BY <1>1, <1>2, <1>3, <1>4 DEF OthersInv

\* A step that leaves every workspace as it is.
LEMMA SameWorkspaceSpared ==
  ASSUME OthersInv, NEW t \in Runs, Advances(t), content' = [q \in Runs |-> content'[q]],
         \A q \in Runs \ {t} : content'[q] = content[q], workspace' = workspace,
         pc'[t] = "write" /\ Step(t)'.from # "absolute" /\ Step(t)'.file \in Files =>
            content'[t] = workspace[t][Step(t)'.file] /\ content'[t] # None
  PROVE  OthersInv'
<1>1. PICK n : n = workspace[t]
  OBVIOUS
<1>2. workspace' = [workspace EXCEPT ![t] = n] /\ n = [f \in Files |-> n[f]]
  BY <1>1 DEF OthersInv
<1>3. \A f \in Files : n[f] = workspace[t][f] \/ Spared(t, f, n[f])
  BY <1>1
<1>4. pc'[t] = "write" /\ Step(t)'.from # "absolute" /\ Step(t)'.file \in Files =>
         content'[t] = n[Step(t)'.file] /\ content'[t] # None
  BY <1>1
<1> QED
  BY <1>2, <1>3, <1>4, WorkspaceSpared

\* The steps before an edit leave what is spared alone.
LEMMA FetchSpares ==
  ASSUME OthersInv, NEW t \in Runs, FetchDirectory(t) \/ FetchFails(t) \/ NoFetch(t)
  PROVE  OthersInv'
<1>1. Advances(t) /\ pc'[t] # "write" /\ content' = content
  <2>1. steps' = steps /\ content' = content /\ (Goto(t, "read") \/ StepThrows(t))
    BY DEF FetchDirectory, FetchFails, NoFetch
  <2>2. Advances(t) /\ (pc'[t] = "write" => Goto(t, "write"))
    BY <2>1, StepAdvances
  <2>3. pc'[t] # "write"
    BY <2>1 DEF Goto, StepThrows, OthersInv
  <2> QED
    BY <2>1, <2>2, <2>3
<1> DEFINE new == [f \in Files |-> IF FetchDirectory(t) /\ Repository[f] # None
                                   THEN Repository[f] ELSE workspace[t][f]]
<1>2. workspace' = [workspace EXCEPT ![t] = new]
  <2>1. CASE FetchDirectory(t)
    <3>1. workspace' = [workspace EXCEPT ![t] =
            [f \in Files |-> IF Repository[f] = None THEN workspace[t][f] ELSE Repository[f]]]
      BY <2>1 DEF FetchDirectory
    <3>2. new = [f \in Files |-> IF Repository[f] = None THEN workspace[t][f] ELSE Repository[f]]
      BY <2>1
    <3> QED
      BY <3>1, <3>2
  <2>2. CASE ~FetchDirectory(t)
    <3>1. workspace' = workspace
      BY <2>2 DEF FetchFails, NoFetch
    <3>2. new = workspace[t] /\ workspace = [workspace EXCEPT ![t] = workspace[t]]
      BY <2>2 DEF OthersInv
    <3> QED
      BY <3>1, <3>2
  <2> QED
    BY <2>1, <2>2
<1>3. \A f \in Files : new[f] = workspace[t][f] \/ (Repository[f] # None /\ new[f] = Repository[f])
  OBVIOUS
<1>4. new = [f \in Files |-> new[f]]
  OBVIOUS
<1>5. PICK n : n = new
  OBVIOUS
<1> HIDE DEF new
<1>6. \A f \in Files : n[f] = workspace[t][f] \/ Spared(t, f, n[f])
  BY <1>3, <1>5, RepositoryAlike DEF Spared
<1>7. content' = [q \in Runs |-> content'[q]] /\ \A q \in Runs \ {t} : content'[q] = content[q]
  BY <1>1 DEF OthersInv
<1> QED
  BY <1>1, <1>2, <1>4, <1>5, <1>6, <1>7, WorkspaceSpared

LEMMA ReadSpares ==
  ASSUME OthersInv, NEW t \in Runs, readFile(t)
  PROVE  OthersInv'
<1>1. /\ steps' = steps /\ workspace' = workspace
      /\ content' = [content EXCEPT ![t] = ContentOf(t)]
      /\ IF ContentOf(t) = None THEN StepThrows(t) ELSE Goto(t, "write")
  BY DEF readFile
<1>2. Advances(t) /\ (pc'[t] = "write" => Goto(t, "write"))
  BY <1>1, StepAdvances
<1>3. ASSUME pc'[t] = "write", Step(t)'.from # "absolute", Step(t)'.file \in Files
      PROVE  content'[t] = workspace[t][Step(t)'.file] /\ content'[t] # None
  <2>1. ContentOf(t) # None /\ at' = at
    <3>1. StepThrows(t) => pc'[t] = "start"
      BY DEF StepThrows, OthersInv
    <3> QED
      BY <1>1, <1>2, <1>3, <3>1 DEF Goto
  <2>2. Step(t)' = Step(t)
    BY <1>1, <2>1 DEF Step
  <2>3. content'[t] = ContentOf(t)
    BY <1>1 DEF OthersInv
  <2> QED
    BY <1>3, <2>1, <2>2, <2>3 DEF ContentOf
<1>4. content' = [q \in Runs |-> content'[q]] /\ \A q \in Runs \ {t} : content'[q] = content[q]
  BY <1>1 DEF OthersInv
<1> QED
  BY <1>1, <1>2, <1>3, <1>4, SameWorkspaceSpared

\* One file of the workspace is written.
LEMMA FileSpared ==
  ASSUME OthersInv, NEW t \in Runs, NEW f, NEW documents,
         f \in Files => Spared(t, f, documents)
  PROVE  LET new == [workspace[t] EXCEPT ![f] = documents]
         IN  /\ [workspace EXCEPT ![t][f] = documents] = [workspace EXCEPT ![t] = new]
             /\ new = [g \in Files |-> new[g]]
             /\ \A g \in Files : new[g] = workspace[t][g] \/ Spared(t, g, new[g])
<1>1. workspace[t] = [g \in Files |-> workspace[t][g]] /\ DOMAIN workspace = Runs
  BY DEF OthersInv
<1>2. PICK own : own = workspace[t]
  OBVIOUS
<1>3. PICK new : new = [own EXCEPT ![f] = documents]
  OBVIOUS
<1>4. new = [g \in Files |-> new[g]] /\ \A g \in Files : new[g] = IF g = f THEN documents ELSE own[g]
  BY <1>1, <1>2, <1>3
<1>5. \A g \in Files : new[g] = workspace[t][g] \/ Spared(t, g, new[g])
  BY <1>2, <1>4
<1>6. [workspace EXCEPT ![t][f] = documents] = [workspace EXCEPT ![t] = new]
  BY <1>2, <1>3
<1> QED
  BY <1>2, <1>3, <1>4, <1>5, <1>6

LEMMA WriteSpares ==
  ASSUME OthersInv, NEW t \in Runs, writeFile(t)
  PROVE  OthersInv'
<1> DEFINE step == Step(t)
<1>1. PICK documents : documents = updated(step, content[t])
  OBVIOUS
<1>2. /\ steps' = steps /\ content' = [content EXCEPT ![t] = None]
      /\ pc[t] = "write"
      /\ IF documents = None THEN StepThrows(t) /\ workspace' = workspace
         ELSE Write(t, documents) /\ StepDone(t)
  BY <1>1 DEF writeFile, Running
<1>3. Advances(t) /\ pc'[t] # "write"
  <2>1. StepDone(t) \/ StepThrows(t)
    BY <1>2
  <2>2. pc'[t] = "start"
    BY <2>1 DEF StepDone, StepThrows, OthersInv
  <2> QED
    BY <1>2, <2>1, <2>2, StepAdvances
<1>4. content' = [q \in Runs |-> content'[q]] /\ \A q \in Runs \ {t} : content'[q] = content[q]
  BY <1>2 DEF OthersInv
<1>5. CASE workspace' = workspace
  BY <1>3, <1>4, <1>5, SameWorkspaceSpared
<1>6. CASE workspace' # workspace
  <2>1. /\ documents # None /\ step.from # "absolute"
        /\ workspace' = [workspace EXCEPT ![t][step.file] = documents]
    BY <1>2, <1>6 DEF Write
  <2>2. PICK f : f = step.file
    OBVIOUS
  <2>3. ASSUME f \in Files PROVE Spared(t, f, documents)
    <3>1. PICK read : read = content[t]
      OBVIOUS
    <3>2. Spared(t, f, read)
      BY <1>2, <2>1, <2>2, <2>3, <3>1 DEF OthersInv
    <3>3. documents = EditAll(read, EditsOf(step, read), SkipsOf(step, read))
      BY <1>1, <3>1 DEF updated
    <3>4. /\ Alike(f, documents)
          /\ \A i \in DOMAIN Repository[f] : SkipsOf(step, read)[i] => documents[i] = read[i]
      BY <2>1, <3>2, <3>3, EditKeeps DEF Spared
    <3>5. ASSUME NEW i \in DOMAIN Repository[f], Unnamed(t, f, Repository[f][i].entity)
          PROVE  documents[i] = Repository[f][i]
      <4>1. read[i] = Repository[f][i] /\ i \in DOMAIN read
        BY <3>2, <3>5 DEF Spared, Alike
      <4>2. at[t] \in 1..at[t] /\ steps[t][at[t]].file = f
        BY <2>2 DEF OthersInv, Step
      <4>3. /\ Repository[f][i].entity # None
            /\ step.entityRef # None /\ step.entityRef # Repository[f][i].entity
        BY <3>5, <4>2 DEF Unnamed, Step
      <4>4. SkipsOf(step, read)[i]
        BY <4>1, <4>3 DEF SkipsOf, Skips
      <4> QED
        BY <3>4, <4>1, <4>4
    <3> QED
      BY <3>2, <3>4, <3>5 DEF Spared
  <2>4. PICK n : n = [workspace[t] EXCEPT ![f] = documents]
    OBVIOUS
  <2>5. /\ workspace' = [workspace EXCEPT ![t] = n] /\ n = [g \in Files |-> n[g]]
        /\ \A g \in Files : n[g] = workspace[t][g] \/ Spared(t, g, n[g])
    BY <2>1, <2>2, <2>3, <2>4, FileSpared
  <2> QED
    BY <1>3, <1>4, <2>5, WorkspaceSpared
<1> QED
  BY <1>5, <1>6

LEMMA AnnotationSpares ==
  ASSUME OthersInv, NEW t \in Runs, addAnnotationAction(t)
  PROVE  OthersInv'
<1> DEFINE step == Step(t)
<1>1. PICK documents : documents = Annotated(step)
  OBVIOUS
<1>2. /\ steps' = steps /\ content' = content
      /\ StepDone(t) \/ StepThrows(t)
      /\ \/ workspace' = workspace
         \/ /\ Repository[step.file] # None /\ documents # None
            /\ workspace' = [workspace EXCEPT ![t][step.file] = documents]
  BY <1>1 DEF addAnnotationAction
<1>3. Advances(t) /\ pc'[t] # "write"
  <2>1. pc'[t] = "start"
    BY <1>2 DEF StepDone, StepThrows, OthersInv
  <2> QED
    BY <1>2, <2>1, StepAdvances
<1>4. content' = [q \in Runs |-> content'[q]] /\ \A q \in Runs \ {t} : content'[q] = content[q]
  BY <1>2 DEF OthersInv
<1>5. CASE workspace' = workspace
  BY <1>3, <1>4, <1>5, SameWorkspaceSpared
<1>6. CASE workspace' # workspace
  <2>1. /\ documents # None /\ Repository[step.file] # None
        /\ workspace' = [workspace EXCEPT ![t][step.file] = documents]
    BY <1>2, <1>6
  <2>2. PICK f : f = step.file
    OBVIOUS
  <2>3. ASSUME f \in Files PROVE Spared(t, f, documents)
    <3> DEFINE read == Repository[f]
               skips == [i \in DOMAIN read |-> read[i].entity # None /\ read[i].entity # step.entityRef]
    <3>1. PICK edits_ : documents = EditAll(read, edits_, skips)
      BY <1>1, <2>2 DEF Annotated
    <3>2. Alike(f, read) /\ read # None
      BY <2>1, <2>2, <2>3, RepositoryAlike
    <3> HIDE DEF skips
    <3>3. /\ Alike(f, documents)
          /\ \A i \in DOMAIN read : skips[i] => documents[i] = read[i]
      BY <2>1, <3>1, <3>2, EditKeeps
    <3>4. ASSUME NEW i \in DOMAIN read, Unnamed(t, f, read[i].entity)
          PROVE  documents[i] = read[i]
      <4>1. at[t] \in 1..at[t] /\ steps[t][at[t]].file = f
        BY <2>2 DEF OthersInv, Step
      <4>2. read[i].entity # None /\ step.entityRef # read[i].entity
        BY <3>4, <4>1 DEF Unnamed, Step
      <4>3. skips[i]
        BY <4>2 DEF skips
      <4> QED
        BY <3>3, <4>3
    <3> QED
      BY <3>2, <3>3, <3>4 DEF Spared
  <2>4. PICK n : n = [workspace[t] EXCEPT ![f] = documents]
    OBVIOUS
  <2>5. /\ workspace' = [workspace EXCEPT ![t] = n] /\ n = [g \in Files |-> n[g]]
        /\ \A g \in Files : n[g] = workspace[t][g] \/ Spared(t, g, n[g])
    BY <2>1, <2>2, <2>3, <2>4, FileSpared
  <2> QED
    BY <1>3, <1>4, <2>5, WorkspaceSpared
<1> QED
  BY <1>5, <1>6

LEMMA OtherStepsSpare ==
  ASSUME OthersInv, NEW t \in Runs,
         getContentFails(t) \/ loadSetupFile(t) \/ HumanitecAnswers(t) \/ handlerReturns(t)
  PROVE  OthersInv'
<1>1. UNCHANGED <<steps, content, workspace>>
  BY DEF getContentFails, loadSetupFile, HumanitecAnswers, handlerReturns, taskVars
<1>2. CASE HumanitecAnswers(t)
  <2>1. UNCHANGED <<steps, content, workspace, pc, at>>
    BY <1>2 DEF HumanitecAnswers, taskVars
  <2> QED
    BY <2>1 DEF OthersInv, Spared, Unnamed, Step
<1>3. CASE getContentFails(t) \/ loadSetupFile(t) \/ handlerReturns(t)
  <2>1. StepDone(t) \/ StepThrows(t) \/ Goto(t, "calls")
    BY <1>3 DEF getContentFails, loadSetupFile, handlerReturns
  <2>2. pc'[t] # "write"
    BY <2>1 DEF StepDone, StepThrows, Goto, OthersInv
  <2>3. Advances(t)
    BY <1>1, <2>1, StepAdvances
  <2>4. content' = [q \in Runs |-> content'[q]] /\ \A q \in Runs \ {t} : content'[q] = content[q]
    BY <1>1 DEF OthersInv
  <2> QED
    BY <1>1, <2>2, <2>3, <2>4, SameWorkspaceSpared
<1> QED
  BY <1>2, <1>3

LEMMA NextOthers == OthersInv /\ [Next]_vars => OthersInv'
<1> SUFFICES ASSUME OthersInv, [Next]_vars PROVE OthersInv'
  OBVIOUS
<1>1. CASE UNCHANGED vars
  <2>1. UNCHANGED <<steps, content, workspace, pc, at>>
    BY <1>1 DEF vars, taskVars
  <2> QED
    BY <2>1 DEF OthersInv, Spared, Unnamed, Step
<1>2. ASSUME NEW t \in Runs, StepOf(t) PROVE OthersInv'
  BY <1>2, FetchSpares, ReadSpares, WriteSpares, AnnotationSpares, OtherStepsSpare DEF StepOf
<1> QED
  BY <1>1, <1>2 DEF Next

\* A file has the documents of several entities: those that no step up to now
\* named stay as they are in the repository.
THEOREM OthersStay == Spec => []OthersUntouched
<1>1. OthersInv => OthersUntouched
  <2> SUFFICES ASSUME OthersInv, NEW t \in Runs, NEW f \in Files, workspace[t][f] # None
               PROVE  /\ Len(workspace[t][f]) = Len(Repository[f])
                      /\ \A i \in DOMAIN Repository[f] :
                            Unnamed(t, f, Repository[f][i].entity) =>
                                workspace[t][f][i] = Repository[f][i]
    BY DEF OthersUntouched, Unnamed
  <2>1. PICK documents : documents = workspace[t][f]
    OBVIOUS
  <2>2. Spared(t, f, documents)
    BY <2>1 DEF OthersInv
  <2>3. Len(documents) = Len(Repository[f])
    <3>1. Repository[f] \in Seq(ToSet(Repository[f]))
      BY <2>2 DEF Spared
    <3>2. PICK n \in Nat : DOMAIN Repository[f] = 1..n /\ n = Len(Repository[f])
      BY <3>1, LenProperties
    <3>3. documents \in [1..n -> {documents[i] : i \in 1..n}]
      BY <2>2, <3>2 DEF Spared, Alike
    <3> QED
      BY <3>2, <3>3, FunctionIsSeq
  <2> QED
    BY <2>1, <2>2, <2>3 DEF Spared
<1> QED
  BY InitOthers, NextOthers, <1>1, PTL DEF Spec

-----------------------------------------------------------------------------
(* What was set or appended stays.                                         *)

USE TemplatesAssumption, ItemsAssumption

\* What may be appended to in the documents of a file are sequences.
ItemsIn(f, documents) ==
    \A i \in DOMAIN Repository[f] : \A path \in Appended : HasItems(getIn(documents[i].contents, path))

\* A remembered edit is still there.
Stands(t, e) ==
    /\ e.file \in Files /\ e.document \in DOMAIN Repository[e.file]
    /\ IsPath(e.path) /\ e.path # <<>>
    /\ workspace[t][e.file] # None
    /\ Holds(workspace[t][e.file][e.document].contents, e.path, e.value)

EditsInv ==
    /\ steps \in [Runs -> Templates]
    /\ \A t \in Runs : at[t] \in 1..Len(steps[t])
    /\ edits = [t \in Runs |-> edits[t]]
    /\ \A t \in Runs : \A f \in Files : workspace[t][f] # None => ItemsIn(f, workspace[t][f])
    /\ \A t \in Runs : \A e \in edits[t] : Stands(t, e)

\* The steps of a task, and what they edit.
LEMMA StepFacts ==
  ASSUME EditsInv, NEW t \in Runs
  PROVE  /\ Len(steps[t]) \in Nat
         /\ Step(t).action \in YamlActions => Step(t).file \in Files /\ IsPath(Step(t).path)
         /\ Step(t).action = "backend:add-annotation" => Step(t).file \in Files
         /\ Step(t).action = "yaml:append" => Step(t).path \in Appended
<1>1. PICK template \in Templates : template = steps[t]
  BY DEF EditsInv
<1>2. template \in Seq(ToSet(template)) /\ at[t] \in 1..Len(template)
  BY <1>1 DEF EditsInv
<1>3. Len(template) \in Nat /\ DOMAIN template = 1..Len(template)
  BY <1>2, LenProperties
<1>4. PICK step : step = Step(t)
  OBVIOUS
<1>5. step \in ToSet(template)
  BY <1>1, <1>2, <1>3, <1>4 DEF Step, ToSet
<1>6. step.action # "humanitec:create-app" => step.file \in Files /\ IsPath(step.path)
  BY <1>5 DEF IsPath
<1>7. step.action = "yaml:append" => step.path \in Appended
  BY <1>5 DEF Appended
<1> QED
  BY <1>1, <1>3, <1>4, <1>6, <1>7 DEF YamlActions

LEMMA AppendedPaths == \A path \in Appended : IsPath(path)
  BY DEF Appended, IsPath

LEMMA InitEdits == Init => EditsInv
<1> SUFFICES ASSUME Init PROVE EditsInv
  OBVIOUS
<1>1. steps \in [Runs -> Templates] /\ at = [t \in Runs |-> 1] /\ edits = [t \in Runs |-> {}]
      /\ workspace = [t \in Runs |-> [f \in Files |-> None]]
  BY DEF Init
<1>2. ASSUME NEW t \in Runs PROVE at[t] \in 1..Len(steps[t])
  <2>1. PICK template \in Templates : template = steps[t]
    BY <1>1
  <2>2. template \in Seq(ToSet(template)) /\ template # <<>>
    OBVIOUS
  <2>3. Len(template) \in Nat /\ Len(template) # 0
    BY <2>2
  <2> QED
    BY <1>1, <2>1, <2>3
<1> QED
  BY <1>1, <1>2 DEF EditsInv

\* An edit stands as long as its file is as it was.
LEMMA StandsKept ==
  ASSUME NEW t, NEW e, Stands(t, e), workspace'[t][e.file] = workspace[t][e.file]
  PROVE  Stands(t, e)'
  BY DEF Stands

\* A step goes on in its template.
StaysIn(t) ==
    /\ steps' = steps /\ at'[t] \in 1..Len(steps[t])
    /\ \A q \in Runs \ {t} : at'[q] = at[q]

LEMMA StepStaysIn ==
  ASSUME OthersInv, EditsInv, NEW t \in Runs, steps' = steps,
         \/ StepDone(t) \/ StepThrows(t) \/ at' = at
  PROVE  StaysIn(t)
<1>1. PICK n, l : n = at[t] /\ l = Len(steps[t])
  OBVIOUS
<1>2. l \in Nat /\ n \in 1..l /\ at \in [Runs -> Nat \ {0}]
  BY <1>1, StepFacts DEF EditsInv, OthersInv
<1>3. CASE at' = at
  BY <1>1, <1>2, <1>3 DEF StaysIn
<1>4. CASE StepThrows(t)
  BY <1>3, <1>4 DEF StepThrows
<1>5. CASE StepDone(t) /\ at' # at
  <2>1. n # l /\ at' = [at EXCEPT ![t] = n + 1]
    BY <1>1, <1>5 DEF StepDone
  <2>2. n + 1 \in 1..l
    BY <1>2, <2>1
  <2> QED
    BY <1>1, <1>2, <2>1, <2>2 DEF StaysIn
<1> QED
  BY <1>3, <1>4, <1>5

\* A step that changes no more than its own workspace.
LEMMA EditsKept ==
  ASSUME EditsInv, NEW t \in Runs, StaysIn(t), edits' = [q \in Runs |-> edits'[q]],
         \A q \in Runs \ {t} : edits'[q] = edits[q] /\ workspace'[q] = workspace[q],
         \A f \in Files : workspace'[t][f] = workspace[t][f] \/ ItemsIn(f, workspace'[t][f]),
         \A e \in edits'[t] : Stands(t, e)'
  PROVE  EditsInv'
<1>1. steps' \in [Runs -> Templates] /\ \A q \in Runs : at'[q] \in 1..Len(steps'[q])
  BY DEF EditsInv, StaysIn
<1>2. ASSUME NEW q \in Runs, NEW f \in Files, workspace'[q][f] # None
      PROVE  ItemsIn(f, workspace[q][f])'
  <2>1. ItemsIn(f, workspace'[q][f])
    <3>1. CASE workspace'[q][f] = workspace[q][f]
      <4>1. ItemsIn(f, workspace[q][f])
        BY <1>2, <3>1 DEF EditsInv
      <4> QED
        BY <3>1, <4>1
    <3>2. CASE workspace'[q][f] # workspace[q][f]
      BY <3>2
    <3> QED
      BY <3>1, <3>2
  <2> QED
    BY <2>1 DEF ItemsIn
<1>3. ASSUME NEW q \in Runs, NEW e \in edits'[q] PROVE Stands(q, e)'
  <2>1. CASE q = t
    BY <1>3, <2>1
  <2>2. CASE q # t
    <3>1. Stands(q, e) /\ workspace'[q] = workspace[q]
      BY <1>3, <2>2 DEF EditsInv
    <3> QED
      BY <3>1, StandsKept
  <2> QED
    BY <2>1, <2>2
<1> QED
  BY <1>1, <1>2, <1>3 DEF EditsInv

\* A step that leaves the workspaces and the history as they are.
LEMMA SameEdits ==
  ASSUME EditsInv, NEW t \in Runs, StaysIn(t), edits' = edits, workspace' = workspace
  PROVE  EditsInv'
<1>1. edits' = [q \in Runs |-> edits'[q]] /\ \A e \in edits'[t] : Stands(t, e)'
  BY StandsKept DEF EditsInv
<1> QED
  BY <1>1, EditsKept

LEMMA FetchKeepsEdits ==
  ASSUME OthersInv, EditsInv, NEW t \in Runs, FetchDirectory(t) \/ FetchFails(t) \/ NoFetch(t)
  PROVE  EditsInv'
<1>1. CASE FetchFails(t) \/ NoFetch(t)
  <2>1. steps' = steps /\ edits' = edits /\ workspace' = workspace /\ (StepThrows(t) \/ at' = at)
    BY <1>1 DEF FetchFails, NoFetch, Goto
  <2> QED
    BY <2>1, StepStaysIn, SameEdits
<1>2. CASE FetchDirectory(t)
  <2>1. PICK new : new = [f \in Files |-> IF Repository[f] = None THEN workspace[t][f] ELSE Repository[f]]
    OBVIOUS
  <2>2. /\ steps' = steps /\ at' = at
        /\ workspace' = [workspace EXCEPT ![t] = new]
        /\ edits' = [edits EXCEPT ![t] = {e \in edits[t] : Repository[e.file] = None}]
    BY <1>2, <2>1 DEF FetchDirectory, Goto
  <2>3. workspace'[t] = new /\ \A q \in Runs \ {t} : workspace'[q] = workspace[q]
    BY <2>2 DEF OthersInv
  <2>4. /\ edits' = [q \in Runs |-> edits'[q]]
        /\ edits'[t] = {e \in edits[t] : Repository[e.file] = None}
        /\ \A q \in Runs \ {t} : edits'[q] = edits[q]
    BY <2>2 DEF EditsInv
  <2>5. ASSUME NEW f \in Files PROVE workspace'[t][f] = workspace[t][f] \/ ItemsIn(f, workspace'[t][f])
    <3>1. new[f] = IF Repository[f] = None THEN workspace[t][f] ELSE Repository[f]
      BY <2>1
    <3>2. Repository[f] # None => ItemsIn(f, Repository[f])
      BY DEF ItemsIn
    <3> QED
      BY <2>3, <3>1, <3>2
  <2>6. ASSUME NEW e \in edits'[t] PROVE Stands(t, e)'
    <3>1. Stands(t, e) /\ Repository[e.file] = None /\ e.file \in Files
      BY <2>4, <2>6 DEF EditsInv, Stands
    <3>2. workspace'[t][e.file] = workspace[t][e.file]
      BY <2>1, <2>3, <3>1
    <3> QED
      BY <3>1, <3>2, StandsKept
  <2> QED
    BY <2>2, <2>3, <2>4, <2>5, <2>6, StepStaysIn, EditsKept
<1> QED
  BY <1>1, <1>2

\* What an edit makes of a document that it does not skip.
LEMMA EditedDocument ==
  ASSUME NEW f, NEW documents, Alike(f, documents), NEW changes, NEW skips,
         NEW made, made = EditAll(documents, changes, skips), made # None,
         NEW i \in DOMAIN Repository[f]
  PROVE  IF skips[i] THEN made[i] = documents[i]
         ELSE ~changes[i].throws /\ made[i].contents = changes[i].contents
<1>1. DOMAIN documents = DOMAIN Repository[f] /\ DOMAIN documents[i] = {"entity", "contents"}
  BY DEF Alike
<1>2. ~skips[i] => ~changes[i].throws
  BY <1>1 DEF EditAll
<1>3. made = [k \in DOMAIN documents |->
                IF skips[k] THEN documents[k]
                ELSE [documents[k] EXCEPT !.contents = changes[k].contents]]
  BY DEF EditAll
<1>4. made[i] = IF skips[i] THEN documents[i]
                ELSE [documents[i] EXCEPT !.contents = changes[i].contents]
  BY <1>1, <1>3
<1> QED
  BY <1>1, <1>2, <1>4


\* One file of the workspace is written, and no edit of it is lost.
LEMMA FileKept ==
  ASSUME OthersInv, EditsInv, NEW t \in Runs, StaysIn(t), NEW f \in Files, NEW made,
         workspace' = [workspace EXCEPT ![t][f] = made], ItemsIn(f, made), made # None,
         NEW remembered, edits' = [edits EXCEPT ![t] = remembered],
         \A e \in remembered :
            \/ e \in edits[t] /\ e.file # f
            \/ /\ e.file = f /\ e.document \in DOMAIN Repository[f]
               /\ IsPath(e.path) /\ e.path # <<>>
               /\ Holds(made[e.document].contents, e.path, e.value)
  PROVE  EditsInv'
<1>1. /\ workspace'[t][f] = made
      /\ \A g \in Files \ {f} : workspace'[t][g] = workspace[t][g]
      /\ \A q \in Runs \ {t} : workspace'[q] = workspace[q]
  <2>1. DOMAIN workspace = Runs /\ DOMAIN workspace[t] = Files
    BY DEF OthersInv
  <2> QED
    BY <2>1
<1>2. /\ edits' = [q \in Runs |-> edits'[q]] /\ edits'[t] = remembered
      /\ \A q \in Runs \ {t} : edits'[q] = edits[q]
  BY DEF EditsInv
<1>3. \A g \in Files : workspace'[t][g] = workspace[t][g] \/ ItemsIn(g, workspace'[t][g])
  BY <1>1
<1>4. ASSUME NEW e \in edits'[t] PROVE Stands(t, e)'
  <2>1. CASE e \in edits[t] /\ e.file # f
    <3>1. Stands(t, e) /\ e.file \in Files
      BY <2>1 DEF EditsInv, Stands
    <3> QED
      BY <1>1, <2>1, <3>1, StandsKept
  <2>2. CASE /\ e.file = f /\ e.document \in DOMAIN Repository[f]
             /\ IsPath(e.path) /\ e.path # <<>>
             /\ Holds(made[e.document].contents, e.path, e.value)
    BY <1>1, <2>2 DEF Stands
  <2> QED
    BY <1>2, <1>4, <2>1, <2>2
<1> QED
  BY <1>2, <1>1, <1>3, <1>4, EditsKept

\* What a step of yaml:set or yaml:append makes of a document.
ChangeOf(step, c) ==
    IF step.action = "yaml:set" THEN set(c, step.path, step.value)
    ELSE append(c, step.path, step.value)

LEMMA ChangeKeepsItems ==
  ASSUME NEW step, IsPath(step.path), NEW c, NEW q, IsPath(q), HasItems(getIn(c, q)),
         step.action # "yaml:set" => HasItems(getIn(c, step.path))
  PROVE  HasItems(getIn(ChangeOf(step, c).contents, q))
<1>1. CASE step.action = "yaml:set"
  BY <1>1, SetKeepsItems DEF ChangeOf
<1>2. CASE step.action # "yaml:set"
  BY <1>2, AppendKeepsItems DEF ChangeOf
<1> QED
  BY <1>1, <1>2

LEMMA ChangeKeeps ==
  ASSUME NEW step, IsPath(step.path), NEW c, ~ChangeOf(step, c).throws,
         step.action # "yaml:set" => HasItems(getIn(c, step.path)),
         NEW q, IsPath(q), q # <<>>, NEW value, Holds(c, q, value),
         ~(step.action = "yaml:set" /\ IsPrefix(step.path, q))
  PROVE  Holds(ChangeOf(step, c).contents, q, value)
<1>1. CASE step.action = "yaml:set"
  BY <1>1, SetKeeps DEF ChangeOf
<1>2. CASE step.action # "yaml:set"
  BY <1>2, AppendKeeps DEF ChangeOf
<1> QED
  BY <1>1, <1>2

LEMMA ChangeHolds ==
  ASSUME NEW step, IsPath(step.path), step.action \in YamlActions, NEW document,
         Reaches(step, document),
         step.action # "yaml:set" => HasItems(getIn(document.contents, step.path))
  PROVE  /\ step.path # <<>> /\ ~Skips(document, step.entityRef)
         /\ Holds(ChangeOf(step, document.contents).contents, step.path, step.value)
<1>1. step.path # <<>> /\ ~Skips(document, step.entityRef)
  BY DEF Reaches, Skips
<1>2. PICK c, p, value : c = document.contents /\ p = step.path /\ value = step.value
  OBVIOUS
<1>3. CASE step.action = "yaml:set"
  <2>1. ChangeOf(step, c).contents = SetIn(c, p, Scalar(value))
    BY <1>1, <1>2, <1>3 DEF ChangeOf, set, Edit
  <2>2. getIn(SetIn(c, p, Scalar(value)), p) = Scalar(value)
    BY <1>1, <1>2, FoundThere
  <2> QED
    BY <1>1, <1>2, <2>1, <2>2 DEF Holds
<1>4. CASE step.action # "yaml:set"
  <2>1. step.action = "yaml:append"
    BY <1>4 DEF YamlActions
  <2>2. Place(c, p) /\ HasItems(getIn(c, p))
    BY <1>2, <1>4, <2>1 DEF Reaches, Place
  <2>3. \E n : Longer(c, p, value, n)
    BY <1>2, <2>2, AppendMakes
  <2>4. PICK node : Longer(c, p, value, node)
    BY <2>3
  <2>5. /\ ChangeOf(step, c).contents = SetIn(c, p, node)
        /\ node.kind = "seq" /\ Scalar(value) \in ToSet(node.items)
    BY <1>2, <1>4, <2>4 DEF ChangeOf, Longer
  <2>6. getIn(SetIn(c, p, node), p) = node
    BY <1>1, <1>2, FoundThere
  <2> QED
    BY <1>1, <1>2, <2>5, <2>6 DEF Holds
<1> QED
  BY <1>3, <1>4

LEMMA WriteKeepsEdits ==
  ASSUME OthersInv, EditsInv, NEW t \in Runs, writeFile(t)
  PROVE  EditsInv'
<1>1. PICK step, read, made : step = Step(t) /\ read = content[t] /\ made = updated(step, read)
  OBVIOUS
<1>2. /\ steps' = steps /\ pc[t] = "write" /\ step.action \in YamlActions
      /\ IF made = None THEN StepThrows(t) /\ workspace' = workspace /\ edits' = edits
         ELSE /\ Write(t, made) /\ StepDone(t)
              /\ edits' = [edits EXCEPT ![t] = Remembered(t, step, read)]
  BY <1>1 DEF writeFile, Running
<1>3. StaysIn(t)
  BY <1>2, StepStaysIn
<1>4. step.file \in Files /\ IsPath(step.path) /\ (step.action = "yaml:append" => step.path \in Appended)
  BY <1>1, <1>2, StepFacts
<1>5. CASE made = None
  BY <1>2, <1>3, <1>5, SameEdits
<1>6. CASE made # None /\ step.from = "absolute"
  <2>1. Remembered(t, step, read) = edits[t]
    BY <1>6 DEF Remembered
  <2>2. edits' = edits
    BY <1>2, <1>6, <2>1 DEF EditsInv
  <2>3. workspace' = workspace
    BY <1>1, <1>2, <1>6 DEF Write
  <2> QED
    BY <1>3, <2>2, <2>3, SameEdits
<1>7. CASE made # None /\ step.from # "absolute"
  <2>1. PICK f \in Files : f = step.file
    BY <1>4
  <2>2. read = workspace[t][f] /\ read # None
    BY <1>1, <1>2, <1>7, <2>1 DEF OthersInv
  <2>3. Alike(f, read) /\ ItemsIn(f, read)
    BY <2>2 DEF OthersInv, EditsInv, Spared
  <2>4. DOMAIN read = DOMAIN Repository[f]
    BY <2>3 DEF Alike
  <2>5. workspace' = [workspace EXCEPT ![t][f] = made]
    BY <1>1, <1>2, <1>7, <2>1 DEF Write
  <2>6. made = EditAll(read, EditsOf(step, read), SkipsOf(step, read))
    BY <1>1 DEF updated
  <2>7. ASSUME NEW i \in DOMAIN Repository[f]
        PROVE  IF Skips(read[i], step.entityRef) THEN made[i] = read[i]
               ELSE /\ ~ChangeOf(step, read[i].contents).throws
                    /\ made[i].contents = ChangeOf(step, read[i].contents).contents
    <3>1. PICK changes, skips : changes = EditsOf(step, read) /\ skips = SkipsOf(step, read)
      OBVIOUS
    <3>2. changes[i] = ChangeOf(step, read[i].contents) /\ skips[i] = Skips(read[i], step.entityRef)
      BY <2>4, <3>1 DEF EditsOf, SkipsOf, ChangeOf
    <3>3. made = EditAll(read, changes, skips)
      BY <2>6, <3>1
    <3>4. IF skips[i] THEN made[i] = read[i]
          ELSE ~changes[i].throws /\ made[i].contents = changes[i].contents
      BY <1>7, <2>3, <3>3, EditedDocument
    <3> QED
      BY <3>2, <3>4
  <2>8. ASSUME NEW i \in DOMAIN Repository[f], step.action # "yaml:set"
        PROVE  HasItems(getIn(read[i].contents, step.path))
    BY <1>2, <1>4, <2>3, <2>8 DEF ItemsIn, YamlActions
  <2>9. ItemsIn(f, made)
    <3> SUFFICES ASSUME NEW i \in DOMAIN Repository[f], NEW path \in Appended
                 PROVE  HasItems(getIn(made[i].contents, path))
      BY DEF ItemsIn
    <3>1. IsPath(path) /\ HasItems(getIn(read[i].contents, path))
      BY <2>3, AppendedPaths DEF ItemsIn
    <3>2. HasItems(getIn(ChangeOf(step, read[i].contents).contents, path))
      BY <1>4, <2>8, <3>1, ChangeKeepsItems
    <3> QED
      BY <2>7, <3>1, <3>2
  <2>10. PICK remembered : remembered = Remembered(t, step, read)
    OBVIOUS
  <2>11. ASSUME NEW e \in remembered
         PROVE  \/ e \in edits[t] /\ e.file # f
                \/ /\ e.file = f /\ e.document \in DOMAIN Repository[f]
                   /\ IsPath(e.path) /\ e.path # <<>>
                   /\ Holds(made[e.document].contents, e.path, e.value)
    <3> DEFINE old == /\ e \in edits[t]
                      /\ ~(/\ e.file = f /\ ~Skips(read[e.document], step.entityRef)
                           /\ step.action = "yaml:set" /\ IsPrefix(step.path, e.path))
               new == \E i \in DOMAIN read : /\ Reaches(step, read[i])
                                             /\ e = [file |-> f, document |-> i, path |-> step.path,
                                                     value |-> step.value]
    <3>1. old \/ new
      BY <1>7, <2>1, <2>10, <2>11 DEF Remembered
    <3>2. CASE old /\ e.file # f
      BY <3>2
    <3>3. CASE old /\ e.file = f
      <4>1. Stands(t, e)
        BY <3>3 DEF EditsInv
      <4>2. PICK i, q, value : i = e.document /\ q = e.path /\ value = e.value
        OBVIOUS
      <4>3. /\ i \in DOMAIN Repository[f] /\ IsPath(q) /\ q # <<>>
            /\ Holds(read[i].contents, q, value)
        BY <2>2, <3>3, <4>1, <4>2 DEF Stands
      <4>4. CASE Skips(read[i], step.entityRef)
        BY <2>7, <3>3, <4>2, <4>3, <4>4
      <4>5. CASE ~Skips(read[i], step.entityRef)
        <5>1. ~(step.action = "yaml:set" /\ IsPrefix(step.path, q))
          BY <3>3, <4>2, <4>5
        <5>2. /\ ~ChangeOf(step, read[i].contents).throws
              /\ made[i].contents = ChangeOf(step, read[i].contents).contents
          BY <2>7, <4>3, <4>5
        <5>3. Holds(ChangeOf(step, read[i].contents).contents, q, value)
          BY <1>4, <2>8, <4>3, <5>1, <5>2, ChangeKeeps
        <5> QED
          BY <3>3, <4>2, <4>3, <5>2, <5>3
      <4> QED
        BY <4>4, <4>5
    <3>4. CASE new
      <4>1. PICK i \in DOMAIN read :
                /\ Reaches(step, read[i])
                /\ e = [file |-> f, document |-> i, path |-> step.path, value |-> step.value]
        BY <3>4
      <4>2. /\ step.path # <<>> /\ ~Skips(read[i], step.entityRef)
            /\ Holds(ChangeOf(step, read[i].contents).contents, step.path, step.value)
        BY <1>2, <1>4, <2>4, <2>8, <4>1, ChangeHolds
      <4>3. made[i].contents = ChangeOf(step, read[i].contents).contents
        BY <2>4, <2>7, <4>2
      <4>4. e.file = f /\ e.document = i /\ e.path = step.path /\ e.value = step.value
        BY <4>1
      <4> QED
        BY <1>4, <2>4, <4>2, <4>3, <4>4
    <3> QED
      BY <3>1, <3>2, <3>3, <3>4
  <2>12. edits' = [edits EXCEPT ![t] = remembered]
    BY <1>2, <1>7, <2>10
  <2> QED
    BY <1>3, <1>7, <2>5, <2>9, <2>11, <2>12, FileKept
<1> QED
  BY <1>5, <1>6, <1>7

LEMMA AnnotationKeepsEdits ==
  ASSUME OthersInv, EditsInv, NEW t \in Runs, addAnnotationAction(t)
  PROVE  EditsInv'
<1>1. PICK step, made : step = Step(t) /\ made = Annotated(step)
  OBVIOUS
<1>2. /\ steps' = steps /\ step.action = "backend:add-annotation"
      /\ StepDone(t) \/ StepThrows(t)
      /\ \/ workspace' = workspace /\ edits' = edits
         \/ /\ Repository[step.file] # None /\ made # None
            /\ workspace' = [workspace EXCEPT ![t][step.file] = made]
            /\ edits' = [edits EXCEPT ![t] = {e \in edits[t] : e.file # step.file}]
  BY <1>1 DEF addAnnotationAction, Running
<1>3. StaysIn(t)
  BY <1>2, StepStaysIn
<1>4. CASE workspace' = workspace /\ edits' = edits
  BY <1>3, <1>4, SameEdits
<1>5. CASE /\ Repository[step.file] # None /\ made # None
           /\ workspace' = [workspace EXCEPT ![t][step.file] = made]
           /\ edits' = [edits EXCEPT ![t] = {e \in edits[t] : e.file # step.file}]
  <2>1. PICK f \in Files : f = step.file
    BY <1>1, <1>2, StepFacts
  <2>2. PICK read : read = Repository[f] /\ Alike(f, read)
    BY <1>5, <2>1, RepositoryAlike
  <2>3. PICK changes, skips :
            /\ changes = [i \in DOMAIN read |->
                            IF read[i].entity = None THEN Edit(TRUE, read[i].contents)
                            ELSE addAnnotation(read[i].contents, "file:./docs")]
            /\ skips = [i \in DOMAIN read |-> read[i].entity # None /\ read[i].entity # step.entityRef]
    OBVIOUS
  <2>4. made = EditAll(read, changes, skips)
    BY <1>1, <2>1, <2>2, <2>3 DEF Annotated
  <2>5. ItemsIn(f, made)
    <3> SUFFICES ASSUME NEW i \in DOMAIN Repository[f], NEW path \in Appended
                 PROVE  HasItems(getIn(made[i].contents, path))
      BY DEF ItemsIn
    <3>1. IsPath(path) /\ HasItems(getIn(read[i].contents, path))
      BY <1>5, <2>1, <2>2, AppendedPaths
    <3>2. HasItems(getIn(changes[i].contents, path))
      <4>1. CASE read[i].entity = None
        <5>1. changes[i].contents = read[i].contents
          BY <2>2, <2>3, <4>1 DEF Edit
        <5> QED
          BY <3>1, <5>1
      <4>2. CASE read[i].entity # None
        <5>1. changes[i] = addAnnotation(read[i].contents, "file:./docs")
          BY <2>2, <2>3, <4>2
        <5> QED
          BY <3>1, <5>1, AnnotationKeepsItems
      <4> QED
        BY <4>1, <4>2
    <3>3. IF skips[i] THEN made[i] = read[i]
          ELSE ~changes[i].throws /\ made[i].contents = changes[i].contents
      BY <1>5, <2>2, <2>4, EditedDocument
    <3> QED
      BY <3>1, <3>2, <3>3
  <2>6. PICK remembered : remembered = {e \in edits[t] : e.file # f}
    OBVIOUS
  <2>7. /\ edits' = [edits EXCEPT ![t] = remembered]
        /\ workspace' = [workspace EXCEPT ![t][f] = made]
        /\ made # None
    BY <1>5, <2>1, <2>6
  <2>8. ASSUME NEW e \in remembered
        PROVE  \/ e \in edits[t] /\ e.file # f
               \/ /\ e.file = f /\ e.document \in DOMAIN Repository[f]
                  /\ IsPath(e.path) /\ e.path # <<>>
                  /\ Holds(made[e.document].contents, e.path, e.value)
    BY <2>6, <2>8
  <2> QED
    BY <1>3, <2>5, <2>7, <2>8, FileKept
<1> QED
  BY <1>2, <1>4, <1>5

LEMMA OtherStepsKeepEdits ==
  ASSUME OthersInv, EditsInv, NEW t \in Runs,
         \/ readFile(t) \/ getContentFails(t) \/ loadSetupFile(t)
         \/ HumanitecAnswers(t) \/ handlerReturns(t)
  PROVE  EditsInv'
<1>1. /\ steps' = steps /\ edits' = edits /\ workspace' = workspace
      /\ StepDone(t) \/ StepThrows(t) \/ at' = at
  BY DEF readFile, getContentFails, loadSetupFile, HumanitecAnswers, handlerReturns, taskVars, Goto
<1> QED
  BY <1>1, StepStaysIn, SameEdits

LEMMA NextEdits == OthersInv /\ EditsInv /\ [Next]_vars => EditsInv'
<1> SUFFICES ASSUME OthersInv, EditsInv, [Next]_vars PROVE EditsInv'
  OBVIOUS
<1>1. CASE UNCHANGED vars
  <2>1. UNCHANGED <<steps, at, edits, workspace>>
    BY <1>1 DEF vars, taskVars
  <2> QED
    BY <2>1 DEF EditsInv, Stands, ItemsIn
<1>2. ASSUME NEW t \in Runs, StepOf(t) PROVE EditsInv'
  BY <1>2, FetchKeepsEdits, WriteKeepsEdits, AnnotationKeepsEdits, OtherStepsKeepEdits DEF StepOf
<1> QED
  BY <1>1, <1>2 DEF Next

\* Steps share the files of the workspace: what one of them set or appended is
\* still in its document after every later step, unless a step set that path or
\* one above it, or fetched the file again.
THEOREM EditsStay == Spec => []EditsSurvive
<1>1. EditsInv => EditsSurvive
  BY DEF EditsInv, EditsSurvive, Stands
<1> QED
  BY InitOthers, NextOthers, InitEdits, NextEdits, <1>1, PTL DEF Spec


-----------------------------------------------------------------------------
(* Why a task ends.                                                        *)

\* What a task has left: steps, what its step still goes through before it writes
\* or makes calls, and of the calls the apps, the calls and the tries.
StepsLeft(t)  == IF status[t] = "processing" THEN Len(steps[t]) + 1 - at[t] ELSE 0
PhasesLeft(t) == CASE pc[t] = "start" -> 2 [] pc[t] = "read" -> 1 [] OTHER -> 0
TriesLeft(t)  == Attempts - attempts[t]

Left(t) == <<StepsLeft(t), PhasesLeft(t), AppsIn(todo[t]), Len(todo[t]), TriesLeft(t)>>

\* Less is left where the two differ first.
Less(m, n) == \E k \in 1..5 : m[k] < n[k] /\ \A i \in 1..(k - 1) : m[i] = n[i]

\* Whatever a step of a task does, it leaves less of the task, and what other
\* tasks do leaves it alone.
ComesToAnEnd ==
    [][\A t \in Runs : IF StepOf(t) THEN Less(Left(t)', Left(t)) ELSE Left(t)' = Left(t)]_vars

\* A task that has not ended is at a step, and what that does next belongs to its
\* action; what is left of a task is so many steps, phases, apps, calls and tries.
CanGoOn(t) ==
    /\ at[t] \in 1..Len(steps[t])
    /\ Step(t).action \in
         CASE pc[t] = "start" -> YamlActions \cup CreateApp \cup {"backend:add-annotation"}
           [] pc[t] = "calls" -> CreateApp
           [] OTHER           -> YamlActions
NeverStuck ==
    \A t \in Runs :
        /\ Left(t) \in Nat \X Nat \X Nat \X Nat \X (Nat \ {0})
        /\ status[t] = "processing" => CanGoOn(t)

\* No call is tried more often than the client tries it.
ProgressInv ==
    /\ attempts \in [Runs -> 0..(Attempts - 1)]
    /\ status = [t \in Runs |-> status[t]]
    /\ \A t \in Runs :
         /\ pc[t] = "calls" => Step(t).action \in CreateApp
         /\ pc[t] \in {"read", "write"} => Step(t).action \in YamlActions

LEMMA LessBy ==
  ASSUME NEW a1, NEW a2, NEW a3, NEW a4, NEW a5, NEW b1, NEW b2, NEW b3, NEW b4, NEW b5,
         \/ a1 < b1
         \/ a1 = b1 /\ a2 < b2
         \/ a1 = b1 /\ a2 = b2 /\ a3 < b3
         \/ a1 = b1 /\ a2 = b2 /\ a3 = b3 /\ a4 < b4
         \/ a1 = b1 /\ a2 = b2 /\ a3 = b3 /\ a4 = b4 /\ a5 < b5
  PROVE  Less(<<a1, a2, a3, a4, a5>>, <<b1, b2, b3, b4, b5>>)
<1>1. PICK m, n : m = <<a1, a2, a3, a4, a5>> /\ n = <<b1, b2, b3, b4, b5>>
  OBVIOUS
<1>2. /\ m[1] = a1 /\ m[2] = a2 /\ m[3] = a3 /\ m[4] = a4 /\ m[5] = a5
      /\ n[1] = b1 /\ n[2] = b2 /\ n[3] = b3 /\ n[4] = b4 /\ n[5] = b5
  BY <1>1
<1>3. /\ \A i \in 1..(1 - 1) : FALSE
      /\ \A i \in 1..(2 - 1) : i = 1
      /\ \A i \in 1..(3 - 1) : i = 1 \/ i = 2
      /\ \A i \in 1..(4 - 1) : i = 1 \/ i = 2 \/ i = 3
      /\ \A i \in 1..(5 - 1) : i = 1 \/ i = 2 \/ i = 3 \/ i = 4
      /\ 1 \in 1..5 /\ 2 \in 1..5 /\ 3 \in 1..5 /\ 4 \in 1..5 /\ 5 \in 1..5
  OBVIOUS
<1>4. Less(m, n)
  <2>1. CASE a1 < b1
    BY <1>2, <1>3, <2>1 DEF Less
  <2>2. CASE a1 = b1 /\ a2 < b2
    BY <1>2, <1>3, <2>2 DEF Less
  <2>3. CASE a1 = b1 /\ a2 = b2 /\ a3 < b3
    BY <1>2, <1>3, <2>3 DEF Less
  <2>4. CASE a1 = b1 /\ a2 = b2 /\ a3 = b3 /\ a4 < b4
    BY <1>2, <1>3, <2>4 DEF Less
  <2>5. CASE a1 = b1 /\ a2 = b2 /\ a3 = b3 /\ a4 = b4 /\ a5 < b5
    BY <1>2, <1>3, <2>5 DEF Less
  <2> QED
    BY <2>1, <2>2, <2>3, <2>4, <2>5
<1> QED
  BY <1>1, <1>4

\* An answer leaves fewer calls, or a try less.
LEMMA AnswerIsCloser ==
  ASSUME CreateInv, ProgressInv, NEW t \in Runs, CallAnswered(t)
  PROVE  /\ attempts' \in [Runs -> 0..(Attempts - 1)]
         /\ \A q \in Runs \ {t} : todo'[q] = todo[q] /\ attempts'[q] = attempts[q]
         /\ \/ FewerCalls(todo'[t], todo[t])
            \/ todo'[t] = todo[t] /\ attempts'[t] = attempts[t] + 1
<1>1. PICK calls, tried : calls = todo[t] /\ tried = attempts[t]
  OBVIOUS
<1>2. /\ calls # <<>>
  BY <1>1 DEF CallAnswered, Succeeds, Forbidden, Fails, Faulty, AlreadyExists
<1>3. /\ InOrder(calls) /\ todo \in [Runs -> Seq(CallSet)]
      /\ attempts \in [Runs -> 0..(Attempts - 1)] /\ tried \in 0..(Attempts - 1)
  BY <1>1 DEF CreateInv, CreateType, ProgressInv
<1>4. FewerCalls(Tail(calls), calls) /\ FewerCalls(AfterFailure(calls), calls)
  BY <1>2, <1>3, TailIsFewer, FailureIsFewer
<1>5. ASSUME NEW left, todo' = [todo EXCEPT ![t] = left], attempts' = [attempts EXCEPT ![t] = 0],
             FewerCalls(left, calls)
      PROVE  /\ attempts' \in [Runs -> 0..(Attempts - 1)]
             /\ \A q \in Runs \ {t} : todo'[q] = todo[q] /\ attempts'[q] = attempts[q]
             /\ FewerCalls(todo'[t], todo[t])
  <2>1. 0 \in 0..(Attempts - 1)
    OBVIOUS
  <2>2. /\ attempts' \in [Runs -> 0..(Attempts - 1)]
        /\ \A q \in Runs \ {t} : attempts'[q] = attempts[q]
    BY <1>3, <1>5, <2>1
  <2>3. todo'[t] = left /\ \A q \in Runs \ {t} : todo'[q] = todo[q]
    BY <1>3, <1>5
  <2> QED
    BY <1>1, <1>5, <2>2, <2>3
<1>6. CASE Succeeds(t)
  <2>1. todo' = [todo EXCEPT ![t] = Tail(calls)] /\ attempts' = [attempts EXCEPT ![t] = 0]
    BY <1>1, <1>6 DEF Succeeds
  <2> QED
    BY <1>4, <1>5, <2>1
<1>7. CASE GivesUp(t)
  <2>1. todo' = [todo EXCEPT ![t] = AfterFailure(calls)] /\ attempts' = [attempts EXCEPT ![t] = 0]
    BY <1>1, <1>7 DEF GivesUp
  <2> QED
    BY <1>4, <1>5, <2>1
<1>8. CASE Forbidden(t) /\ attempts[t] + 1 < Attempts
  <2>1. attempts' = [attempts EXCEPT ![t] = tried + 1] /\ todo' = todo
    BY <1>1, <1>8 DEF Forbidden
  <2>2. tried + 1 \in 0..(Attempts - 1)
    BY <1>1, <1>3, <1>8
  <2>3. /\ attempts' \in [Runs -> 0..(Attempts - 1)] /\ attempts'[t] = tried + 1
        /\ \A q \in Runs \ {t} : attempts'[q] = attempts[q]
    BY <1>3, <2>1, <2>2
  <2> QED
    BY <1>1, <2>1, <2>3
<1> QED
  BY <1>6, <1>7, <1>8 DEF CallAnswered, Forbidden, Fails, AlreadyExists

\* The kinds of steps, by what they leave of a task.
Ends(t)  == StepDone(t) \/ StepThrows(t)
Moves(t) == \/ pc[t] = "start" /\ Goto(t, "read") /\ Step(t).action \in YamlActions
            \/ pc[t] = "read" /\ Goto(t, "write") /\ Step(t).action \in YamlActions
            \/ pc[t] = "start" /\ Goto(t, "calls") /\ Step(t).action \in CreateApp

LEMMA StepKinds ==
  ASSUME NEW t \in Runs, StepOf(t)
  PROVE  /\ status[t] = "processing" /\ steps' = steps
         /\ \/ /\ Ends(t) \/ Moves(t)
               /\ UNCHANGED attempts
               /\ todo' = todo \/ todo' = [todo EXCEPT ![t] = Calls]
            \/ CallAnswered(t) /\ UNCHANGED <<pc, at, status>>
<1>1. CASE FetchDirectory(t) \/ FetchFails(t) \/ NoFetch(t)
  BY <1>1 DEF FetchDirectory, FetchFails, NoFetch, Running, Ends, Moves, createVars
<1>2. CASE readFile(t)
  BY <1>2 DEF readFile, Running, Ends, Moves, createVars
<1>3. CASE writeFile(t)
  BY <1>3 DEF writeFile, Running, Ends, createVars
<1>4. CASE addAnnotationAction(t) \/ getContentFails(t)
  BY <1>4 DEF addAnnotationAction, getContentFails, Running, Ends, createVars
<1>5. CASE loadSetupFile(t)
  BY <1>5 DEF loadSetupFile, Running, BeginCreating, Ends, Moves, createVars
<1>6. CASE HumanitecAnswers(t)
  BY <1>6 DEF HumanitecAnswers, Running, taskVars
<1>7. CASE handlerReturns(t)
  BY <1>7 DEF handlerReturns, Running, Ends, createVars
<1> QED
  BY <1>1, <1>2, <1>3, <1>4, <1>5, <1>6, <1>7 DEF StepOf

\* What a step does to the place of its task, and of the others.
LEMMA StepMoves ==
  ASSUME OthersInv, EditsInv, ProgressInv, NEW t \in Runs, Ends(t) \/ Moves(t), steps' = steps,
         status[t] = "processing"
  PROVE  /\ status' = [q \in Runs |-> status'[q]]
         /\ \A q \in Runs \ {t} : status'[q] = status[q] /\ at'[q] = at[q] /\ pc'[q] = pc[q]
         /\ \/ StepsLeft(t)' < StepsLeft(t) /\ pc'[t] = "start"
            \/ /\ at'[t] = at[t] /\ StepsLeft(t)' = StepsLeft(t)
               /\ PhasesLeft(t)' < PhasesLeft(t)
               /\ pc'[t] \in {"read", "write"} => Step(t).action \in YamlActions
               /\ pc'[t] = "calls" => Step(t).action \in CreateApp
<1>1. /\ pc \in [Runs -> Labels] /\ at \in [Runs -> Nat \ {0}]
      /\ status = [q \in Runs |-> status[q]]
  BY DEF OthersInv, ProgressInv
<1>2. PICK n, l : n = at[t] /\ l = Len(steps[t])
  OBVIOUS
<1>3. l \in Nat /\ n \in 1..l /\ StepsLeft(t) = l + 1 - n
  BY <1>2, StepFacts DEF EditsInv, StepsLeft
<1>4. CASE Ends(t)
  <2>1. pc' = [pc EXCEPT ![t] = "start"]
    BY <1>4 DEF Ends, StepDone, StepThrows
  <2>2. CASE at' = at /\ \E s \in {"completed", "failed"} : status' = [status EXCEPT ![t] = s]
    <3>1. PICK s \in {"completed", "failed"} : status' = [status EXCEPT ![t] = s]
      BY <2>2
    <3>2. status'[t] # "processing"
      BY <1>1, <3>1
    <3>3. StepsLeft(t)' = 0
      BY <3>2 DEF StepsLeft
    <3>4. 0 < l + 1 - n
      BY <1>3
    <3> QED
      BY <1>1, <1>3, <2>1, <2>2, <3>1, <3>3, <3>4
  <2>3. CASE at' = [at EXCEPT ![t] = n + 1] /\ status' = status
    <3>1. at'[t] = n + 1 /\ \A q \in Runs \ {t} : at'[q] = at[q]
      BY <1>1, <2>3
    <3>2. StepsLeft(t)' = l + 1 - (n + 1)
      BY <1>2, <2>3, <3>1 DEF StepsLeft
    <3>3. l + 1 - (n + 1) < l + 1 - n
      BY <1>3
    <3> QED
      BY <1>1, <1>3, <2>1, <2>3, <3>1, <3>2, <3>3
  <2> QED
    BY <1>2, <1>4, <2>2, <2>3 DEF Ends, StepDone, StepThrows
<1>5. CASE Moves(t)
  <2>1. at' = at /\ status' = status
    BY <1>5 DEF Moves, Goto
  <2>2. StepsLeft(t)' = StepsLeft(t)
    BY <2>1 DEF StepsLeft
  <2>3. /\ pc' \in [Runs -> {pc'[q] : q \in Runs}]
        /\ \A q \in Runs \ {t} : pc'[q] = pc[q]
        /\ \/ pc[t] = "start" /\ pc'[t] = "read" /\ Step(t).action \in YamlActions
           \/ pc[t] = "read" /\ pc'[t] = "write" /\ Step(t).action \in YamlActions
           \/ pc[t] = "start" /\ pc'[t] = "calls" /\ Step(t).action \in CreateApp
    BY <1>1, <1>5 DEF Moves, Goto
  <2>4. PhasesLeft(t)' < PhasesLeft(t)
    BY <2>3 DEF PhasesLeft
  <2> QED
    BY <1>1, <2>1, <2>2, <2>3, <2>4
<1> QED
  BY <1>4, <1>5

\* Whatever a step of a task does leaves less of it, and all of the others.
LEMMA StepIsCloser ==
  ASSUME CreateInv, OthersInv, EditsInv, ProgressInv, NEW t \in Runs, StepOf(t)
  PROVE  /\ ProgressInv' /\ Less(Left(t)', Left(t))
         /\ \A q \in Runs \ {t} : Left(q)' = Left(q)
<1>1. status[t] = "processing" /\ steps' = steps
  BY StepKinds
<1>2. /\ attempts \in [Runs -> 0..(Attempts - 1)]
      /\ \A q \in Runs : /\ pc[q] = "calls" => Step(q).action \in CreateApp
                         /\ pc[q] \in {"read", "write"} => Step(q).action \in YamlActions
      /\ status = [q \in Runs |-> status[q]]
  BY DEF ProgressInv
<1>3. CASE /\ Ends(t) \/ Moves(t)
           /\ UNCHANGED attempts
           /\ todo' = todo \/ todo' = [todo EXCEPT ![t] = Calls]
  <2>1. /\ status' = [q \in Runs |-> status'[q]]
        /\ \A q \in Runs \ {t} : status'[q] = status[q] /\ at'[q] = at[q] /\ pc'[q] = pc[q]
        /\ \/ StepsLeft(t)' < StepsLeft(t) /\ pc'[t] = "start"
           \/ /\ at'[t] = at[t] /\ StepsLeft(t)' = StepsLeft(t)
              /\ PhasesLeft(t)' < PhasesLeft(t)
              /\ pc'[t] \in {"read", "write"} => Step(t).action \in YamlActions
              /\ pc'[t] = "calls" => Step(t).action \in CreateApp
    BY <1>1, <1>3, StepMoves
  <2>2. \A q \in Runs \ {t} : todo'[q] = todo[q]
    <3>1. todo \in [Runs -> Seq(CallSet)]
      BY DEF CreateInv, CreateType
    <3> QED
      BY <1>3, <3>1
  <2>3. ASSUME NEW q \in Runs \ {t} PROVE Left(q)' = Left(q)
    BY <1>1, <1>3, <2>1, <2>2 DEF Left, StepsLeft, PhasesLeft, TriesLeft
  <2>4. Less(Left(t)', Left(t))
    <3>1. \/ StepsLeft(t)' < StepsLeft(t)
          \/ StepsLeft(t)' = StepsLeft(t) /\ PhasesLeft(t)' < PhasesLeft(t)
      BY <2>1
    <3> QED
      BY <3>1, LessBy DEF Left
  <2>5. ASSUME NEW q \in Runs
        PROVE  /\ pc'[q] = "calls" => Step(q)'.action \in CreateApp
               /\ pc'[q] \in {"read", "write"} => Step(q)'.action \in YamlActions
    <3>1. CASE q # t
      BY <1>1, <1>2, <2>1, <3>1 DEF Step
    <3>2. CASE q = t
      BY <1>1, <2>1, <3>2 DEF Step
    <3> QED
      BY <3>1, <3>2
  <2> QED
    BY <1>2, <1>3, <2>1, <2>3, <2>4, <2>5 DEF ProgressInv
<1>4. CASE CallAnswered(t) /\ UNCHANGED <<pc, at, status>>
  <2>1. /\ attempts' \in [Runs -> 0..(Attempts - 1)]
        /\ \A q \in Runs \ {t} : todo'[q] = todo[q] /\ attempts'[q] = attempts[q]
        /\ \/ FewerCalls(todo'[t], todo[t])
           \/ todo'[t] = todo[t] /\ attempts'[t] = attempts[t] + 1
    BY <1>4, AnswerIsCloser
  <2>2. ASSUME NEW q \in Runs \ {t} PROVE Left(q)' = Left(q)
    BY <1>1, <1>4, <2>1 DEF Left, StepsLeft, PhasesLeft, TriesLeft
  <2>3. Less(Left(t)', Left(t))
    <3>1. StepsLeft(t)' = StepsLeft(t) /\ PhasesLeft(t)' = PhasesLeft(t)
      BY <1>1, <1>4 DEF StepsLeft, PhasesLeft
    <3>2. CASE FewerCalls(todo'[t], todo[t])
      BY <3>1, <3>2, LessBy DEF Left, FewerCalls
    <3>3. CASE todo'[t] = todo[t] /\ attempts'[t] = attempts[t] + 1
      <4>1. TriesLeft(t)' < TriesLeft(t)
        BY <1>2, <3>3 DEF TriesLeft
      <4>2. AppsIn(todo'[t]) = AppsIn(todo[t]) /\ Len(todo'[t]) = Len(todo[t])
        BY <3>3
      <4> QED
        BY <3>1, <4>1, <4>2, LessBy DEF Left
    <3> QED
      BY <2>1, <3>2, <3>3
  <2>4. ProgressInv'
    BY <1>1, <1>2, <1>4, <2>1 DEF ProgressInv, Step
  <2> QED
    BY <2>2, <2>3, <2>4
<1> QED
  BY <1>3, <1>4, StepKinds

LEMMA InitProgress == Init => ProgressInv
<1> SUFFICES ASSUME Init PROVE ProgressInv
  OBVIOUS
<1>1. /\ attempts = [r \in Runs |-> 0] /\ pc = [t \in Runs |-> "start"]
      /\ status = [t \in Runs |-> "processing"]
  BY DEF Init, CreateInit
<1>2. 0 \in 0..(Attempts - 1)
  OBVIOUS
<1> QED
  BY <1>1, <1>2 DEF ProgressInv

\* All that is known of a task.
TaskInv == CreateInv /\ CompleteInv /\ OthersInv /\ EditsInv /\ ProgressInv

LEMMA InitTask == Init => TaskInv
  BY InitCreate, InitComplete, InitOthers, InitEdits, InitProgress DEF Init, TaskInv

LEMMA NextTask == TaskInv /\ [Next]_vars => TaskInv'
<1>1. CASE UNCHANGED vars
  <2>1. ProgressInv /\ UNCHANGED vars => ProgressInv'
    BY DEF ProgressInv, vars, taskVars, createVars, Step
  <2> QED
    BY <1>1, <2>1, NextCreate, NextComplete, NextOthers, NextEdits DEF TaskInv
<1>2. CASE Next
  <2>1. TaskInv => ProgressInv'
    BY <1>2, StepIsCloser DEF TaskInv, Next
  <2> QED
    BY <1>2, <2>1, NextCreate, NextComplete, NextOthers, NextEdits DEF TaskInv
<1> QED
  BY <1>1, <1>2

\* Whatever a step of a task does - a retry, a call given up, a file written, a
\* fetch - it leaves less of the task, and no step of another task makes it do
\* anything again: a task takes a bounded number of steps, however many faults
\* there are.
THEOREM TasksRunOut == Spec => ComesToAnEnd
<1> DEFINE Closer == \A t \in Runs : IF StepOf(t) THEN Less(Left(t)', Left(t))
                                     ELSE Left(t)' = Left(t)
<1>1. TaskInv /\ [Next]_vars => [Closer]_vars
  <2>1. ASSUME TaskInv, Next, NEW t \in Runs
        PROVE  IF StepOf(t) THEN Less(Left(t)', Left(t)) ELSE Left(t)' = Left(t)
    <3>1. CASE StepOf(t)
      BY <2>1, <3>1, StepIsCloser DEF TaskInv
    <3>2. CASE ~StepOf(t)
      <4>1. PICK q \in Runs : StepOf(q)
        BY <2>1 DEF Next
      <4>2. t \in Runs \ {q}
        BY <3>2, <4>1
      <4>3. Left(t)' = Left(t)
        BY <2>1, <4>1, <4>2, StepIsCloser DEF TaskInv
      <4> QED
        BY <3>2, <4>3
    <3> QED
      BY <3>1, <3>2
  <2> QED
    BY <2>1
<1> QED
  BY <1>1, InitTask, NextTask, PTL DEF Spec, ComesToAnEnd

\* A task that has not ended has a next step: it is at a step of its template, and
\* what it does next belongs to the action of that step.
THEOREM TasksGoOn == Spec => []NeverStuck
<1>1. TaskInv => NeverStuck
  <2> SUFFICES ASSUME TaskInv, NEW t \in Runs
               PROVE  /\ Left(t) \in Nat \X Nat \X Nat \X Nat \X (Nat \ {0})
                      /\ CanGoOn(t)
    BY DEF NeverStuck
  <2>1. PICK n, l : n = at[t] /\ l = Len(steps[t])
    OBVIOUS
  <2>2. l \in Nat /\ n \in 1..l
    BY <2>1, StepFacts DEF TaskInv, EditsInv
  <2>3. StepsLeft(t) \in Nat
    <3>1. l + 1 - n \in Nat /\ 0 \in Nat
      BY <2>2
    <3> QED
      BY <2>1, <3>1 DEF StepsLeft
  <2>4. PhasesLeft(t) \in Nat
    BY DEF PhasesLeft
  <2>5. AppsIn(todo[t]) \in Nat /\ Len(todo[t]) \in Nat
    BY AppsAreNumbers DEF TaskInv, CreateInv
  <2>6. TriesLeft(t) \in Nat \ {0}
    <3>1. attempts[t] \in 0..(Attempts - 1)
      BY DEF TaskInv, ProgressInv
    <3> QED
      BY <3>1 DEF TriesLeft
  <2>7. CanGoOn(t)
    <3>1. PICK template \in Templates : template = steps[t]
      BY DEF TaskInv, EditsInv
    <3>2. template \in Seq(ToSet(template))
      OBVIOUS
    <3>3. Step(t) \in ToSet(template)
      BY <2>1, <2>2, <3>1, <3>2, LenProperties DEF Step, ToSet
    <3>4. Step(t).action \in YamlActions \cup CreateApp \cup {"backend:add-annotation"}
      BY <3>3, ActionsAssumption DEF YamlActions, CreateApp
    <3>5. /\ pc[t] \in Labels
          /\ pc[t] = "calls" => Step(t).action \in CreateApp
          /\ pc[t] \in {"read", "write"} => Step(t).action \in YamlActions
      BY DEF TaskInv, OthersInv, ProgressInv
    <3> QED
      BY <2>1, <2>2, <3>4, <3>5 DEF CanGoOn, Labels
  <2> QED
    BY <2>3, <2>4, <2>5, <2>6, <2>7 DEF Left
<1> QED
  BY <1>1, InitTask, NextTask, PTL DEF Spec
=============================================================================
