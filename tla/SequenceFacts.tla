---------------------------- MODULE SequenceFacts ----------------------------
(* Induction over the natural numbers, for sets in the place of predicates, *)
(* and what it gives for FlattenSeq.                                       *)
EXTENDS SequencesExt, Integers, FiniteSets, FiniteSetTheorems, SequenceTheorems, TLAPS

\* A set that has 0, and n + 1 with n, has every natural number: a smallest one
\* that is missing would end a least interval.
LEMMA SetInduction ==
  ASSUME NEW T, 0 \in T, \A n \in Nat : n \in T => n + 1 \in T
  PROVE  Nat \subseteq T
<1> SUFFICES ASSUME NEW n \in Nat, n \notin T PROVE FALSE
  OBVIOUS
<1> DEFINE W == 0..n
           Bad == {S \in SUBSET W : \E m \in W : m \notin T /\ S = 0..m}
<1>1. IsFiniteSet(W)
  BY FS_Interval
<1>2. IsWellFoundedOn(StrictSubsetOrdering(W), FiniteSubsetsOf(W))
  BY FS_StrictSubsetOrderingWellFounded
<1>3. FiniteSubsetsOf(W) = SUBSET W
  BY <1>1, FS_FiniteSubsetsOfFinite
<1>4. Bad # {} /\ Bad \subseteq SUBSET W
  <2>1. W \in Bad
    OBVIOUS
  <2> QED
    BY <2>1
<1> HIDE DEF Bad
<1>5. PICK S \in Bad : \A U \in Bad : <<U, S>> \notin StrictSubsetOrdering(W)
  BY Zenon, <1>2, <1>3, <1>4, WFMin
<1> USE DEF Bad
<1>6. PICK m \in W : m \notin T /\ S = 0..m
  OBVIOUS
<1>7. m - 1 \in W /\ m - 1 \in Nat /\ m - 1 \notin T
  <2>1. m # 0
    BY <1>6
  <2> QED
    BY <1>6, <2>1
<1>8. 0..(m - 1) \in Bad
  BY <1>7
<1>9. 0..(m - 1) \subseteq S /\ 0..(m - 1) # S
  BY <1>6, <1>7
<1> QED
  BY <1>4, <1>5, <1>8, <1>9 DEF StrictSubsetOrdering

\* A set that has <<>>, and Append(s, e) with s, has every sequence.
LEMMA SequenceInduction ==
  ASSUME NEW S, NEW T, <<>> \in T,
         \A s \in Seq(S) : \A e \in S : s \in T => Append(s, e) \in T
  PROVE  Seq(S) \subseteq T
<1> DEFINE N == {n \in Nat : \A s \in Seq(S) : Len(s) = n => s \in T}
<1>1. 0 \in N
  OBVIOUS
<1>2. ASSUME NEW n \in Nat, n \in N PROVE n + 1 \in N
  <2> SUFFICES ASSUME NEW s \in Seq(S), Len(s) = n + 1 PROVE s \in T
    OBVIOUS
  <2>1. s # <<>>
    OBVIOUS
  <2>2. PICK r \in Seq(S), e \in S : s = Append(r, e)
    BY <2>1, SequenceEmptyOrAppend
  <2>3. Len(r) = n
    BY <2>2, AppendProperties
  <2> QED
    BY <1>2, <2>2, <2>3
<1>3. Nat \subseteq N
  <2> HIDE DEF N
  <2> QED
    BY <1>1, <1>2, SetInduction
<1> QED
  BY <1>3

-----------------------------------------------------------------------------
(* FlattenSeq: the recursive function in its definition exists.            *)

\* f concatenates the sequences up to each of them.
Concatenates(f, seqs) ==
    f = [i \in 1..Len(seqs) |-> IF i = 1 THEN seqs[i] ELSE f[i - 1] \o seqs[i]]

LEMMA ConcatenationExists ==
  ASSUME NEW S
  PROVE  \A seqs \in Seq(S) : \E f : Concatenates(f, seqs)
<1> DEFINE T == {seqs \in Seq(S) : \E f : Concatenates(f, seqs)}
<1>1. <<>> \in T
  <2> DEFINE f == [i \in 1..0 |-> 0]
  <2>1. f = [i \in 1..0 |-> IF i = 1 THEN <<>>[i] ELSE f[i - 1] \o <<>>[i]]
    OBVIOUS
  <2>2. Concatenates(f, <<>>)
    BY <2>1 DEF Concatenates
  <2> QED
    BY <2>2
<1>2. ASSUME NEW s \in Seq(S), NEW e \in S, s \in T PROVE Append(s, e) \in T
  <2>1. PICK f : Concatenates(f, s)
    BY <1>2
  <2> DEFINE n == Len(s)
             r == Append(s, e)
             g == [i \in 1..(n + 1) |->
                    IF i <= n THEN f[i] ELSE IF i = 1 THEN e ELSE f[n] \o e]
  <2>2. n \in Nat /\ Len(r) = n + 1 /\ r \in Seq(S)
        /\ (\A i \in 1..n : r[i] = s[i]) /\ r[n + 1] = e
    BY AppendProperties
  <2> HIDE DEF n, r
  <2>3. \A i \in 1..n : f[i] = IF i = 1 THEN s[i] ELSE f[i - 1] \o s[i]
    BY <2>1 DEF Concatenates, n
  <2>4. ASSUME NEW i \in 1..(n + 1)
        PROVE  g[i] = IF i = 1 THEN r[i] ELSE g[i - 1] \o r[i]
    <3>1. CASE i <= n
      <4>1. i \in 1..n /\ g[i] = f[i] /\ r[i] = s[i]
        BY <2>2, <3>1
      <4>2. i # 1 => g[i - 1] = f[i - 1]
        BY <2>2, <3>1
      <4> QED
        BY <2>3, <4>1, <4>2
    <3>2. CASE i = n + 1
      <4>1. r[i] = e /\ g[i] = IF i = 1 THEN e ELSE f[n] \o e
        BY <2>2, <3>2
      <4>2. i # 1 => g[i - 1] = f[n]
        BY <2>2, <3>2
      <4> QED
        BY <4>1, <4>2
    <3> QED
      BY <2>2, <3>1, <3>2
  <2>5. g = [i \in 1..Len(r) |-> IF i = 1 THEN r[i] ELSE g[i - 1] \o r[i]]
    <3>1. g = [i \in 1..(n + 1) |-> g[i]]
      OBVIOUS
    <3> HIDE DEF g
    <3> QED
      BY <2>2, <2>4, <3>1
  <2> HIDE DEF g
  <2>6. Concatenates(g, r)
    BY <2>5 DEF Concatenates
  <2> QED
    BY <2>2, <2>6 DEF r
<1> HIDE DEF T
<1>3. Seq(S) \subseteq T
  BY <1>1, <1>2, SequenceInduction
<1> QED
  BY <1>3 DEF T

\* What FlattenSeq computes, as such a function tells it.
LEMMA FlattenConcatenates ==
  ASSUME NEW S, NEW seqs \in Seq(S), seqs # <<>>
  PROVE  \E f : Concatenates(f, seqs) /\ FlattenSeq(seqs) = f[Len(seqs)]
<1> DEFINE f == CHOOSE g : Concatenates(g, seqs)
<1>1. Concatenates(f, seqs)
  BY ConcatenationExists
<1>2. f = CHOOSE g : g = [i \in 1..Len(seqs) |-> IF i = 1 THEN seqs[i] ELSE g[i - 1] \o seqs[i]]
  BY DEF Concatenates
<1>3. Len(seqs) # 0
  OBVIOUS
<1>4. FlattenSeq(seqs) = f[Len(seqs)]
  BY <1>2, <1>3 DEF FlattenSeq
<1> QED
  BY <1>1, <1>4

LEMMA FlattenEmpty == FlattenSeq(<<>>) = <<>>
  BY DEF FlattenSeq

LEMMA FlattenAppend ==
  ASSUME NEW S, NEW seqs \in Seq(Seq(S)), NEW s \in Seq(S)
  PROVE  FlattenSeq(Append(seqs, s)) = FlattenSeq(seqs) \o s
<1> DEFINE more == Append(seqs, s)
           n == Len(seqs)
<1>1. /\ n \in Nat /\ more \in Seq(Seq(S)) /\ more # <<>> /\ Len(more) = n + 1
      /\ \A i \in 1..n : more[i] = seqs[i]
      /\ more[n + 1] = s
  BY AppendProperties
<1> HIDE DEF more
<1>2. PICK g : Concatenates(g, more) /\ FlattenSeq(more) = g[n + 1]
  BY <1>1, FlattenConcatenates
<1>3. \A i \in 1..(n + 1) : g[i] = IF i = 1 THEN more[i] ELSE g[i - 1] \o more[i]
  BY <1>1, <1>2 DEF Concatenates
<1>4. CASE seqs = <<>>
  <2>1. n = 0 /\ g[1] = s
    BY <1>1, <1>3, <1>4
  <2>2. FlattenSeq(seqs) \o s = s
    BY <1>4, FlattenEmpty, ConcatEmptySeq
  <2> QED
    BY <1>2, <2>1, <2>2 DEF more
<1>5. CASE seqs # <<>>
  <2>1. PICK f : Concatenates(f, seqs) /\ FlattenSeq(seqs) = f[n]
    BY <1>5, FlattenConcatenates
  <2>2. \A i \in 1..n : f[i] = IF i = 1 THEN seqs[i] ELSE f[i - 1] \o seqs[i]
    BY <2>1 DEF Concatenates
  <2> DEFINE T == {i \in Nat : i + 1 \in 1..n => f[i + 1] = g[i + 1]}
  <2>3. 0 \in T
    BY <1>1, <1>3, <2>2
  <2>4. ASSUME NEW i \in Nat, i \in T PROVE i + 1 \in T
    <3> SUFFICES ASSUME i + 2 \in 1..n PROVE f[i + 2] = g[i + 2]
      OBVIOUS
    <3>1. f[i + 1] = g[i + 1]
      BY <1>1, <2>4
    <3> DEFINE k == i + 2
    <3>2. k \in 1..n /\ k \in 1..(n + 1) /\ k # 1 /\ k - 1 = i + 1
      BY <1>1
    <3> HIDE DEF k
    <3>3. f[k] = f[k - 1] \o seqs[k]
      BY <2>2, <3>2
    <3>4. g[k] = g[k - 1] \o more[k]
      BY <1>3, <3>2
    <3>5. f[k] = g[k]
      BY <1>1, <3>1, <3>2, <3>3, <3>4
    <3> QED
      BY <3>5 DEF k
  <2>5. Nat \subseteq T
    <3> HIDE DEF T
    <3> QED
      BY <2>3, <2>4, SetInduction
  <2>6. n \in Nat \ {0} /\ n - 1 \in Nat
    BY <1>1, <1>5, EmptySeq
  <2>7. f[n] = g[n]
    <3>1. n - 1 \in T
      BY <2>5, <2>6
    <3> QED
      BY <2>6, <3>1
  <2>8. g[n + 1] = g[n] \o more[n + 1]
    <3> DEFINE k == n + 1
    <3>1. k \in 1..(n + 1) /\ k # 1 /\ k - 1 = n
      BY <2>6
    <3> HIDE DEF k
    <3>2. g[k] = g[k - 1] \o more[k]
      BY <1>3, <3>1
    <3> QED
      BY <3>1, <3>2 DEF k
  <2> QED
    BY <1>1, <1>2, <2>1, <2>7, <2>8 DEF more
<1> QED
  BY <1>4, <1>5

LEMMA FlattenType ==
  ASSUME NEW S
  PROVE  \A seqs \in Seq(Seq(S)) : FlattenSeq(seqs) \in Seq(S)
<1> DEFINE T == {seqs \in Seq(Seq(S)) : FlattenSeq(seqs) \in Seq(S)}
<1>1. <<>> \in T
  <2>1. <<>> \in Seq(Seq(S)) /\ <<>> \in Seq(S)
    OBVIOUS
  <2> QED
    BY <2>1, FlattenEmpty
<1>2. ASSUME NEW seqs \in Seq(Seq(S)), NEW s \in Seq(S), seqs \in T
      PROVE  Append(seqs, s) \in T
  BY <1>2, FlattenAppend, ConcatProperties, AppendProperties
<1> HIDE DEF T
<1>3. Seq(Seq(S)) \subseteq T
  BY <1>1, <1>2, SequenceInduction
<1> QED
  BY <1>3 DEF T

\* FlattenSeq has what the sequences have, and nothing else.
LEMMA FlattenElements ==
  ASSUME NEW S
  PROVE  \A seqs \in Seq(Seq(S)) :
            ToSet(FlattenSeq(seqs)) = UNION {ToSet(seqs[i]) : i \in DOMAIN seqs}
<1> DEFINE T == {seqs \in Seq(Seq(S)) :
                    ToSet(FlattenSeq(seqs)) = UNION {ToSet(seqs[i]) : i \in DOMAIN seqs}}
<1>1. <<>> \in T
  <2>1. ToSet(<<>>) = {}
    BY DEF ToSet
  <2>2. UNION {ToSet(<<>>[i]) : i \in DOMAIN <<>>} = {}
    OBVIOUS
  <2> QED
    BY <2>1, <2>2, FlattenEmpty
<1>2. ASSUME NEW seqs \in Seq(Seq(S)), NEW s \in Seq(S), seqs \in T
      PROVE  Append(seqs, s) \in T
  <2> DEFINE more == Append(seqs, s)
  <2>1. /\ Len(seqs) \in Nat /\ more \in Seq(Seq(S)) /\ Len(more) = Len(seqs) + 1
        /\ \A i \in 1..Len(seqs) : more[i] = seqs[i]
        /\ more[Len(seqs) + 1] = s
    BY AppendProperties
  <2> HIDE DEF more
  <2>2. DOMAIN seqs = 1..Len(seqs) /\ DOMAIN more = 1..(Len(seqs) + 1)
    BY <2>1, LenProperties
  <2>3. UNION {ToSet(more[i]) : i \in DOMAIN more}
          = (UNION {ToSet(seqs[i]) : i \in DOMAIN seqs}) \cup ToSet(s)
    <3>1. \A i \in DOMAIN more : i \in DOMAIN seqs \/ i = Len(seqs) + 1
      BY <2>1, <2>2
    <3>2. \A i \in DOMAIN seqs : i \in DOMAIN more /\ more[i] = seqs[i]
      BY <2>1, <2>2
    <3>3. Len(seqs) + 1 \in DOMAIN more
      BY <2>1, <2>2
    <3>4. ASSUME NEW x \in UNION {ToSet(more[i]) : i \in DOMAIN more}
          PROVE  x \in (UNION {ToSet(seqs[i]) : i \in DOMAIN seqs}) \cup ToSet(s)
      BY <2>1, <3>1, <3>2, <3>4
    <3>5. (UNION {ToSet(seqs[i]) : i \in DOMAIN seqs}) \cup ToSet(s)
            \subseteq UNION {ToSet(more[i]) : i \in DOMAIN more}
      BY <2>1, <3>2, <3>3
    <3> QED
      BY <3>4, <3>5
  <2>4. FlattenSeq(seqs) \in Seq(S) /\ FlattenSeq(more) = FlattenSeq(seqs) \o s
    BY FlattenType, FlattenAppend DEF more
  <2>5. ToSet(FlattenSeq(seqs) \o s) = ToSet(FlattenSeq(seqs)) \cup ToSet(s)
    <3>1. \A r : ToSet(r) = Range(r)
      BY DEF ToSet, Range
    <3> QED
      BY <2>4, <3>1, RangeConcatenation
  <2> QED
    BY <1>2, <2>1, <2>3, <2>4, <2>5 DEF more
<1> HIDE DEF T
<1>3. Seq(Seq(S)) \subseteq T
  BY <1>1, <1>2, SequenceInduction
<1> QED
  BY <1>3 DEF T

-----------------------------------------------------------------------------
(* Sequences as functions, and their elements.                             *)

LEMMA FunctionIsSeq ==
  ASSUME NEW S, NEW n \in Nat, NEW f \in [1..n -> S]
  PROVE  f \in Seq(S) /\ Len(f) = n
  BY SeqDef

LEMMA ElementsOfSeq ==
  ASSUME NEW S, NEW s \in Seq(S)
  PROVE  ToSet(s) = {s[i] : i \in 1..Len(s)} /\ ToSet(s) \subseteq S
  BY LenProperties DEF ToSet

LEMMA ConcatElements ==
  ASSUME NEW S, NEW s \in Seq(S), NEW t \in Seq(S)
  PROVE  ToSet(s \o t) = ToSet(s) \cup ToSet(t)
<1>1. \A r : ToSet(r) = Range(r)
  BY DEF ToSet, Range
<1> QED
  BY <1>1, RangeConcatenation

\* What is left of a sequence has all but its head.
LEMMA TailElements ==
  ASSUME NEW S, NEW s \in Seq(S), s # <<>>
  PROVE  Tail(s) \in Seq(S) /\ ToSet(s) = {Head(s)} \cup ToSet(Tail(s))
<1>1. /\ Tail(s) \in Seq(S) /\ Len(Tail(s)) = Len(s) - 1 /\ Len(s) \in Nat \ {0}
      /\ \A i \in 1..Len(Tail(s)) : Tail(s)[i] = s[i + 1]
      /\ Head(s) = s[1]
  BY HeadTailProperties, EmptySeq
<1>2. /\ ToSet(s) = {s[i] : i \in 1..Len(s)}
      /\ ToSet(Tail(s)) = {Tail(s)[i] : i \in 1..Len(Tail(s))}
  BY <1>1, ElementsOfSeq
<1>3. ASSUME NEW i \in 1..Len(s) PROVE s[i] \in {Head(s)} \cup ToSet(Tail(s))
  <2>1. CASE i = 1
    BY <1>1, <2>1
  <2>2. CASE i # 1
    <3>1. i - 1 \in 1..Len(Tail(s)) /\ (i - 1) + 1 = i
      BY <1>1, <2>2
    <3>2. Tail(s)[i - 1] = s[i]
      BY <1>1, <3>1
    <3> QED
      BY <1>2, <3>1, <3>2
  <2> QED
    BY <2>1, <2>2
<1>4. 1 \in 1..Len(s) /\ \A i \in 1..Len(Tail(s)) : i + 1 \in 1..Len(s)
  BY <1>1
<1> QED
  BY <1>1, <1>2, <1>3, <1>4

\* What is closed under concatenation holds its flattened sequences.
LEMMA FlattenClosed ==
  ASSUME NEW S, NEW T \in SUBSET Seq(S), <<>> \in T, \A s, t \in T : s \o t \in T
  PROVE  \A seqs \in Seq(T) : FlattenSeq(seqs) \in T
<1> DEFINE F == {seqs \in Seq(T) : FlattenSeq(seqs) \in T}
<1>1. <<>> \in F
  <2>1. <<>> \in Seq(T)
    OBVIOUS
  <2> QED
    BY <2>1, FlattenEmpty
<1>2. ASSUME NEW seqs \in Seq(T), NEW s \in T, seqs \in F
      PROVE  Append(seqs, s) \in F
  <2>1. seqs \in Seq(Seq(S)) /\ s \in Seq(S) /\ Append(seqs, s) \in Seq(T)
    BY AppendProperties
  <2>2. FlattenSeq(Append(seqs, s)) = FlattenSeq(seqs) \o s
    BY <2>1, FlattenAppend
  <2> QED
    BY <1>2, <2>1, <2>2
<1> HIDE DEF F
<1>3. Seq(T) \subseteq F
  BY <1>1, <1>2, SequenceInduction
<1> QED
  BY <1>3 DEF F
====
