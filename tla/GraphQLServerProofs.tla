------------------------- MODULE GraphQLServerProofs -------------------------
(* Theorems about GraphQLServer, for any features, installations, catalogs, *)
(* page sizes and batches.                                                  *)
EXTENDS GraphQLServer, SequenceFacts

\* Of two integers, the least and the greatest.
LEMMA Smaller ==
  ASSUME NEW a \in Int, NEW b \in Int
  PROVE  /\ Min({a, b}) \in {a, b} /\ Min({a, b}) <= a /\ Min({a, b}) <= b
         /\ Max({a, b}) \in {a, b} /\ Max({a, b}) >= a /\ Max({a, b}) >= b
<1>1. \E x \in {a, b} : \A y \in {a, b} : x <= y
  OBVIOUS
<1>2. \E x \in {a, b} : \A y \in {a, b} : x >= y
  OBVIOUS
<1>3. Min({a, b}) \in {a, b} /\ \A y \in {a, b} : Min({a, b}) <= y
  BY <1>1 DEF Min
<1>4. Max({a, b}) \in {a, b} /\ \A y \in {a, b} : Max({a, b}) >= y
  BY <1>2 DEF Max
<1> QED
  BY <1>3, <1>4

-----------------------------------------------------------------------------
(* Rows in order.                                                          *)

\* Rows, as far as their order goes.
Pairs == Int \X Int

\* Rows of entities and of relations are pairs of integers.
LEMMA RowsArePairs == AllRows \subseteq Pairs /\ Nat \X Uids \subseteq Pairs
<1> USE RowsAssumption DEF AllRows, Pairs
<1>1. ASSUME NEW row \in AllRows PROVE row \in Pairs
  <2>1. row = <<row[1], row[2]>> /\ row[1] \in Values /\ row[2] \in Uids
    BY <1>1
  <2>2. row[1] \in Int /\ row[2] \in Int
    BY <2>1
  <2> QED
    BY <2>1, <2>2
<1>2. ASSUME NEW row \in Nat \X Uids PROVE row \in Pairs
  <2>1. row = <<row[1], row[2]>> /\ row[1] \in Nat /\ row[2] \in Uids
    BY <1>2
  <2>2. row[1] \in Int
    BY <2>1
  <2>3. row[2] \in Int
    BY <2>1
  <2> QED
    BY <2>1, <2>2, <2>3
<1> QED
  BY <1>1, <1>2

\* Rows are in a strict total order, whichever way it goes.
LEMMA RowOrder ==
  ASSUME NEW order
  PROVE  /\ \A a, b \in Pairs : a = b \/ InOrder(order, a, b) \/ InOrder(order, b, a)
         /\ \A a, b \in Pairs : InOrder(order, a, b) => a # b /\ ~InOrder(order, b, a)
         /\ \A a, b, c \in Pairs : InOrder(order, a, b) /\ InOrder(order, b, c) => InOrder(order, a, c)
<1>1. \A a \in Pairs : a[1] \in Int /\ a[2] \in Int /\ a = <<a[1], a[2]>>
  BY DEF Pairs
<1>2. /\ \A a, b \in Pairs : a = b \/ Precedes(a, b) \/ Precedes(b, a)
      /\ \A a, b \in Pairs : Precedes(a, b) => a # b /\ ~Precedes(b, a)
      /\ \A a, b, c \in Pairs : Precedes(a, b) /\ Precedes(b, c) => Precedes(a, c)
  BY <1>1 DEF Precedes
<1> QED
  BY <1>2 DEF InOrder

Increasing(s, order) == \A i, j \in DOMAIN s : i < j => InOrder(order, s[i], s[j])

\* A finite set of rows has a last one.
LEMMA LastRow ==
  ASSUME NEW order
  PROVE  \A n \in Nat : \A rows \in SUBSET Pairs :
            IsFiniteSet(rows) /\ Cardinality(rows) = n + 1 =>
                \E last \in rows : \A row \in rows \ {last} : InOrder(order, row, last)
<1> DEFINE Has(n) == \A rows \in SUBSET Pairs :
                        IsFiniteSet(rows) /\ Cardinality(rows) = n + 1 =>
                            \E last \in rows : \A row \in rows \ {last} : InOrder(order, row, last)
           T == {n \in Nat : Has(n)}
<1>0. ASSUME NEW rows \in SUBSET Pairs, NEW n \in Nat, IsFiniteSet(rows), Cardinality(rows) = n + 1
      PROVE  \E x \in rows : IsFiniteSet(rows \ {x}) /\ Cardinality(rows \ {x}) = n
  <2>1. PICK x : x \in rows
    BY <1>0, FS_EmptySet
  <2>2. IsFiniteSet(rows \ {x}) /\ Cardinality(rows \ {x}) = Cardinality(rows) - 1
    BY <1>0, <2>1, FS_RemoveElement
  <2>3. Cardinality(rows \ {x}) = n
    BY <1>0, <2>2
  <2> QED
    BY <2>1, <2>2, <2>3
<1>1. Has(0)
  <2> SUFFICES ASSUME NEW rows \in SUBSET Pairs, IsFiniteSet(rows), Cardinality(rows) = 0 + 1
               PROVE  \E last \in rows : \A row \in rows \ {last} : InOrder(order, row, last)
    OBVIOUS
  <2>1. PICK x \in rows : IsFiniteSet(rows \ {x}) /\ Cardinality(rows \ {x}) = 0
    BY <1>0
  <2>2. rows \ {x} = {}
    BY <2>1, FS_EmptySet
  <2> QED
    BY <2>2
<1>2. ASSUME NEW n \in Nat, Has(n) PROVE Has(n + 1)
  <2> SUFFICES ASSUME NEW rows \in SUBSET Pairs, IsFiniteSet(rows), Cardinality(rows) = (n + 1) + 1
               PROVE  \E last \in rows : \A row \in rows \ {last} : InOrder(order, row, last)
    OBVIOUS
  <2>1. PICK x \in rows : IsFiniteSet(rows \ {x}) /\ Cardinality(rows \ {x}) = n + 1
    BY <1>0
  <2>2. PICK y \in rows \ {x} : \A row \in (rows \ {x}) \ {y} : InOrder(order, row, y)
    BY <1>2, <2>1
  <2>3. CASE InOrder(order, x, y)
    BY <2>2, <2>3
  <2>4. CASE InOrder(order, y, x)
    BY <2>2, <2>4, RowOrder
  <2> QED
    BY <2>2, <2>3, <2>4, RowOrder
<1> HIDE DEF Has
<1>3. 0 \in T /\ \A n \in Nat : n \in T => n + 1 \in T
  BY <1>1, <1>2
<1>4. \A n \in Nat : n \in T
  <2> HIDE DEF T
  <2> QED
    BY <1>3, SetInduction
<1>5. \A n \in Nat : Has(n)
  BY <1>4
<1> QED
  BY <1>5 DEF Has

\* A finite set of rows can be put in order.
LEMMA SortedExists ==
  ASSUME NEW order
  PROVE  \A n \in Nat : \A rows \in SUBSET Pairs :
            IsFiniteSet(rows) /\ Cardinality(rows) = n =>
                \E s \in [1..n -> rows] : Increasing(s, order)
<1> DEFINE Has(n) == \A rows \in SUBSET Pairs :
                        IsFiniteSet(rows) /\ Cardinality(rows) = n =>
                            \E s \in [1..n -> rows] : Increasing(s, order)
           T == {n \in Nat : Has(n)}
<1>1. Has(0)
  <2> SUFFICES ASSUME NEW rows \in SUBSET Pairs PROVE \E s \in [1..0 -> rows] : Increasing(s, order)
    OBVIOUS
  <2> DEFINE s == [i \in 1..0 |-> 0]
  <2>1. s \in [1..0 -> rows] /\ DOMAIN s = {}
    OBVIOUS
  <2> QED
    BY <2>1 DEF Increasing
<1>2. ASSUME NEW n \in Nat, Has(n) PROVE Has(n + 1)
  <2> SUFFICES ASSUME NEW rows \in SUBSET Pairs, IsFiniteSet(rows), Cardinality(rows) = n + 1
               PROVE  \E s \in [1..(n + 1) -> rows] : Increasing(s, order)
    OBVIOUS
  <2>1. PICK last \in rows : \A row \in rows \ {last} : InOrder(order, row, last)
    BY LastRow
  <2>2. IsFiniteSet(rows \ {last}) /\ Cardinality(rows \ {last}) = (n + 1) - 1
    BY FS_RemoveElement
  <2>3. PICK s \in [1..n -> rows \ {last}] : Increasing(s, order)
    <3>1. rows \ {last} \in SUBSET Pairs /\ Cardinality(rows \ {last}) = n
      BY <2>2
    <3> QED
      BY <1>2, <2>2, <3>1
  <2> DEFINE t == [i \in 1..(n + 1) |-> IF i <= n THEN s[i] ELSE last]
  <2>4. t \in [1..(n + 1) -> rows]
    OBVIOUS
  <2>5. ASSUME NEW i \in 1..(n + 1), NEW j \in 1..(n + 1), i < j
        PROVE  InOrder(order, t[i], t[j])
    <3>1. i \in 1..n /\ t[i] = s[i] /\ s[i] \in rows \ {last}
      BY <2>5
    <3>2. CASE j <= n
      <4>1. j \in 1..n /\ t[j] = s[j]
        BY <3>2
      <4> QED
        BY <2>3, <2>5, <3>1, <4>1 DEF Increasing
    <3>3. CASE ~(j <= n)
      <4>1. t[j] = last
        BY <3>3
      <4> QED
        BY <2>1, <3>1, <4>1
    <3> QED
      BY <3>2, <3>3
  <2> HIDE DEF t
  <2> QED
    BY <2>4, <2>5 DEF Increasing
<1> HIDE DEF Has
<1>3. 0 \in T /\ \A n \in Nat : n \in T => n + 1 \in T
  BY <1>1, <1>2
<1>4. \A n \in Nat : n \in T
  <2> HIDE DEF T
  <2> QED
    BY <1>3, SetInduction
<1>5. \A n \in Nat : Has(n)
  BY <1>4
<1> QED
  BY <1>5 DEF Has

\* What a finite set of rows is sorted to: all of them, in order.
LEMMA SortedRows ==
  ASSUME NEW order, NEW rows \in SUBSET Pairs, IsFiniteSet(rows)
  PROVE  /\ Sorted(rows, order) \in Seq(rows)
         /\ Increasing(Sorted(rows, order), order)
         /\ \A row \in rows : \E i \in DOMAIN Sorted(rows, order) : Sorted(rows, order)[i] = row
<1>1. PICK n \in Nat : n = Cardinality(rows)
  BY FS_CardinalityType
<1> DEFINE s == Sorted(rows, order)
<1>2. s \in [1..n -> rows] /\ Increasing(s, order)
  <2>1. \E t \in [1..n -> rows] : Increasing(t, order)
    BY <1>1, SortedExists
  <2>2. s = CHOOSE t \in [1..n -> rows] : Increasing(t, order)
    BY <1>1 DEF Sorted, Increasing
  <2> HIDE DEF s
  <2> QED
    BY <2>1, <2>2
<1> HIDE DEF s
<1>3. s \in Seq(rows)
  BY <1>2, FunctionIsSeq
<1>4. ASSUME NEW i \in 1..n, NEW j \in 1..n, s[i] = s[j] PROVE i = j
  <2>1. s[i] \in Pairs /\ s[j] \in Pairs
    BY <1>2
  <2>2. ~(i < j) /\ ~(j < i)
    BY <1>2, <1>4, <2>1, RowOrder DEF Increasing
  <2> QED
    BY <2>2
<1>5. s \in Injection(1..n, rows)
  BY <1>2, <1>4 DEF Injection, IsInjective
<1>6. IsFiniteSet(1..n) /\ Cardinality(1..n) = n
  BY FS_Interval
<1>7. s \in Surjection(1..n, rows)
  BY <1>1, <1>5, <1>6, FS_Injection
<1> QED
  BY <1>2, <1>3, <1>7 DEF s, Surjection

\* A page from the front of the rows: what it leaves out comes after it, and then
\* it is full and there is more.
Leads(items, rows, order, size, more) ==
    /\ items \in Seq(rows) /\ Increasing(items, order)
    /\ \A row \in rows : \/ row \in ToSet(items)
                         \/ more /\ Len(items) = size /\ InOrder(order, items[Len(items)], row)

\* A page from their end.
Trails(items, rows, order, size) ==
    /\ items \in Seq(rows) /\ Increasing(items, order)
    /\ \A row \in rows : \/ row \in ToSet(items)
                         \/ Len(items) = size /\ InOrder(order, row, items[1])

\* The first rows of a sequence, and the last.
FirstOf(items, s, size) ==
    \E k \in Nat : /\ k <= Len(s) /\ (k = size \/ k = Len(s))
                  /\ Len(items) = k /\ \A i \in 1..k : items[i] = s[i]

LastOf(items, s, size) ==
    \E k \in Nat : /\ k <= Len(s) /\ (k = 0 \/ k = Len(s) - size)
                  /\ Len(items) = Len(s) - k /\ \A i \in 1..(Len(s) - k) : items[i] = s[k + i]

\* The first rows of a sorted sequence are a page forward.
LEMMA FirstRowsLead ==
  ASSUME NEW order, NEW rows, NEW size \in Nat \ {0}, NEW s \in Seq(rows), NEW items \in Seq(rows),
         Increasing(s, order), \A row \in rows : \E i \in DOMAIN s : s[i] = row,
         FirstOf(items, s, size)
  PROVE  Leads(items, rows, order, size, Len(s) > size)
<1> PICK k \in Nat : /\ k <= Len(s) /\ (k = size \/ k = Len(s))
                    /\ Len(items) = k /\ \A i \in 1..k : items[i] = s[i]
  BY DEF FirstOf
<1>0. PICK n \in Nat : n = Len(s) /\ DOMAIN s = 1..n
  BY LenProperties
<1>1. DOMAIN items = 1..k
  BY LenProperties
<1>2. ToSet(items) = {items[i] : i \in 1..k}
  BY <1>1 DEF ToSet
<1>3. Increasing(items, order)
  BY <1>0, <1>1 DEF Increasing
<1>4. ASSUME NEW row \in rows, row \notin ToSet(items)
      PROVE  Len(s) > size /\ Len(items) = size /\ InOrder(order, items[Len(items)], row)
  <2>1. PICK i \in 1..n : s[i] = row
    BY <1>0
  <2>2. ~(i <= k)
    <3>1. ASSUME i <= k PROVE FALSE
      <4>1. i \in 1..k /\ items[i] = row
        BY <2>1, <3>1
      <4> QED
        BY <1>2, <1>4, <4>1
    <3> QED
      BY <3>1
  <2>3. k < i /\ k < n
    BY <2>1, <2>2
  <2>4. k = size /\ k \in 1..n
    BY <1>0, <2>3
  <2>5. InOrder(order, s[k], s[i])
    BY <1>0, <2>1, <2>3, <2>4 DEF Increasing
  <2> QED
    BY <1>0, <2>1, <2>3, <2>4, <2>5
<1> QED
  BY <1>3, <1>4 DEF Leads

\* The last rows of a sorted sequence are a page backward.
LEMMA LastRowsTrail ==
  ASSUME NEW order, NEW rows, NEW size \in Nat \ {0}, NEW s \in Seq(rows), NEW items \in Seq(rows),
         Increasing(s, order), \A row \in rows : \E i \in DOMAIN s : s[i] = row,
         LastOf(items, s, size)
  PROVE  Trails(items, rows, order, size)
<1>0. PICK k \in Nat : /\ k <= Len(s) /\ (k = 0 \/ k = Len(s) - size)
                      /\ Len(items) = Len(s) - k /\ \A i \in 1..(Len(s) - k) : items[i] = s[k + i]
  BY DEF LastOf
<1>1. PICK n \in Nat : n = Len(s) /\ DOMAIN s = 1..n
  BY LenProperties
<1>2. DOMAIN items = 1..(n - k)
  BY <1>0, <1>1, LenProperties
<1>3. ToSet(items) = {items[i] : i \in 1..(n - k)}
  BY <1>2 DEF ToSet
<1>4. Increasing(items, order)
  <2> SUFFICES ASSUME NEW i \in 1..(n - k), NEW j \in 1..(n - k), i < j
               PROVE  InOrder(order, items[i], items[j])
    BY <1>2 DEF Increasing
  <2>1. k + i \in 1..n /\ k + j \in 1..n /\ k + i < k + j
    BY <1>0, <1>1
  <2>2. InOrder(order, s[k + i], s[k + j])
    BY <1>1, <2>1 DEF Increasing
  <2> QED
    BY <1>0, <1>1, <2>2
<1>5. ASSUME NEW row \in rows, row \notin ToSet(items)
      PROVE  Len(items) = size /\ InOrder(order, row, items[1])
  <2>1. PICK i \in 1..n : s[i] = row
    BY <1>1
  <2>2. i <= k
    <3>1. ASSUME k < i PROVE FALSE
      <4>1. i - k \in 1..(n - k) /\ k + (i - k) = i
        BY <3>1
      <4>2. items[i - k] = row
        BY <1>0, <1>1, <2>1, <4>1
      <4> QED
        BY <1>3, <1>5, <4>1, <4>2
    <3> QED
      BY <2>1, <3>1
  <2>3. k = n - size /\ k + 1 \in 1..n /\ i < k + 1 /\ n - k = size /\ 1 \in 1..(n - k)
    BY <1>0, <1>1, <2>1, <2>2
  <2>4. InOrder(order, s[i], s[k + 1])
    BY <1>1, <2>1, <2>3 DEF Increasing
  <2> QED
    BY <1>0, <1>1, <2>1, <2>3, <2>4
<1> QED
  BY <1>4, <1>5 DEF Trails

-----------------------------------------------------------------------------
(* The pages of `entities`.                                                *)

CatalogType == catalog \in [Uids -> Values \cup {None}]

\* The catalog has finitely many rows.
LEMMA PresentRowsFinite ==
  ASSUME CatalogType
  PROVE  PresentRows \subseteq AllRows /\ PresentRows \subseteq Pairs /\ IsFiniteSet(PresentRows)
<1>1. ASSUME NEW u \in Present PROVE u \in Uids /\ catalog[u] \in Values
  BY DEF Present, CatalogType
<1>2. PresentRows \subseteq AllRows
  <2>1. ASSUME NEW row \in PresentRows PROVE row \in AllRows
    <3>1. PICK u \in Present : row = <<Folded[catalog[u]], u>>
      BY DEF PresentRows
    <3>2. Folded[catalog[u]] \in Values
      BY <1>1, FoldedAssumption
    <3> QED
      BY <1>1, <3>1, <3>2 DEF AllRows
  <2> QED
    BY <2>1
<1>3. IsFiniteSet(Present)
  <2>1. Present \in SUBSET Uids
    BY DEF Present
  <2> QED
    BY <2>1, RowsAssumption, FS_Subset
<1> DEFINE f == [u \in Present |-> <<Folded[catalog[u]], u>>]
<1>4. f \in Surjection(Present, PresentRows)
  <2>1. f \in [Present -> PresentRows]
    BY DEF PresentRows
  <2>2. ASSUME NEW row \in PresentRows PROVE \E u \in Present : f[u] = row
    BY DEF PresentRows
  <2> HIDE DEF f
  <2> QED
    BY <2>1, <2>2 DEF Surjection
<1>5. IsFiniteSet(PresentRows)
  <2> HIDE DEF f
  <2> QED
    BY <1>3, <1>4, FS_Surjection
<1> QED
  BY <1>2, <1>5, RowsArePairs

\* A row is of an entity whose value is that of the row in some case; in lower case
\* it is the row.
LEMMA WrittenRow ==
  ASSUME CatalogType, NEW row \in PresentRows
  PROVE  AsWritten(row) \in AllRows /\ FoldedRow(AsWritten(row)) = row /\ FoldedRow(row) = row
<1>1. PICK u \in Present : row = <<Folded[catalog[u]], u>>
  BY DEF PresentRows
<1>2. u \in Uids /\ catalog[u] \in Values
  BY DEF Present, CatalogType
<1>3. AsWritten(row) = <<catalog[u], u>>
  BY <1>1 DEF AsWritten
<1>4. Folded[Folded[catalog[u]]] = Folded[catalog[u]]
  BY <1>2, FoldedAssumption
<1> QED
  BY <1>1, <1>2, <1>3, <1>4 DEF AllRows, FoldedRow

\* The rows beyond a cursor.
Beyond(order, at, back) ==
    {row \in PresentRows : at = None \/ IF back THEN InOrder(order, row, at) ELSE InOrder(order, at, row)}

\* The rows beyond a cursor are sorted by queryEntities.
LEMMA BeyondSorted ==
  ASSUME CatalogType, NEW order, NEW at, NEW back,
         NEW s, s = Sorted(Beyond(order, at, back), order)
  PROVE  /\ Beyond(order, at, back) \subseteq AllRows
         /\ s \in Seq(Beyond(order, at, back)) /\ Increasing(s, order)
         /\ \A row \in Beyond(order, at, back) : \E i \in DOMAIN s : s[i] = row
<1>1. Beyond(order, at, back) \in SUBSET PresentRows
  BY DEF Beyond
<1>2. /\ IsFiniteSet(Beyond(order, at, back)) /\ Beyond(order, at, back) \in SUBSET Pairs
      /\ Beyond(order, at, back) \subseteq AllRows
  BY <1>1, PresentRowsFinite, FS_Subset
<1> QED
  BY <1>2, SortedRows

Section(s, back, size) ==
    IF back THEN SubSeq(s, Max({1, Len(s) - size + 1}), Len(s)) ELSE SubSeq(s, 1, Min({size, Len(s)}))

\* What queryEntities takes of the rows beyond the cursor.
LEMMA QueriedItems ==
  ASSUME NEW cursor, NEW size, NEW answer, answer = queryEntities(cursor, size),
         NEW s, s = Sorted(Beyond(cursor.order, cursor.at, cursor.isPrevious), cursor.order)
  PROVE  /\ answer.items = Section(s, cursor.isPrevious, size)
         /\ answer.next = IF answer.items # <<>> /\ (cursor.isPrevious \/ Len(s) > size)
                          THEN [order |-> cursor.order, at |-> Last(answer.items),
                                begin |-> IF cursor.begin # None THEN cursor.begin ELSE answer.items[1]]
                          ELSE None
         /\ answer.prev = IF answer.items # <<>> /\ cursor.begin # None /\ cursor.begin # answer.items[1]
                          THEN [order |-> cursor.order, at |-> answer.items[1],
                                begin |-> IF cursor.begin # None THEN cursor.begin ELSE answer.items[1]]
                          ELSE None
  BY DEF queryEntities, Beyond, Section

\* A page forward, as queryEntities cuts it.
LEMMA FrontOf ==
  ASSUME NEW rows, NEW s \in Seq(rows), NEW size \in Nat \ {0},
         NEW items, items = SubSeq(s, 1, Min({size, Len(s)}))
  PROVE  items \in Seq(rows) /\ FirstOf(items, s, size)
<1>1. PICK n \in Nat : n = Len(s) /\ \A i \in 1..n : s[i] \in rows
  BY LenProperties
<1>2. PICK k \in Nat : k = Min({size, n}) /\ k <= n /\ (k = size \/ k = n)
  <2>1. size \in Int /\ n \in Int
    BY <1>1
  <2>2. Min({size, n}) \in {size, n} /\ Min({size, n}) <= size /\ Min({size, n}) <= n
    BY <2>1, Smaller
  <2> QED
    BY <2>2
<1>3. \A i \in 1..k : s[i] \in rows
  BY <1>1, <1>2
<1>4. /\ SubSeq(s, 1, k) \in Seq(rows)
      /\ Len(SubSeq(s, 1, k)) = IF 1 <= k THEN k - 1 + 1 ELSE 0
      /\ \A i \in 1..(k - 1 + 1) : SubSeq(s, 1, k)[i] = s[1 + i - 1]
  BY <1>3, SubSeqProperties
<1>5. /\ \A i \in 1..k : i \in 1..(k - 1 + 1) /\ 1 + i - 1 = i
      /\ (IF 1 <= k THEN k - 1 + 1 ELSE 0) = k
  OBVIOUS
<1>6. items = SubSeq(s, 1, k)
  BY <1>1, <1>2
<1> QED
  BY <1>1, <1>2, <1>4, <1>5, <1>6 DEF FirstOf

\* A page backward, as queryEntities cuts it.
LEMMA EndOf ==
  ASSUME NEW rows, NEW s \in Seq(rows), NEW size \in Nat \ {0}, NEW m, m = Len(s) - size + 1,
         NEW items, items = SubSeq(s, Max({1, m}), Len(s))
  PROVE  items \in Seq(rows) /\ LastOf(items, s, size)
<1>1. PICK n \in Nat : n = Len(s) /\ \A i \in 1..n : s[i] \in rows
  BY LenProperties
<1>2. m \in Int /\ m = n - size + 1
  BY <1>1
<1>3. Max({1, m}) \in {1, m} /\ Max({1, m}) >= 1 /\ Max({1, m}) >= m
  <2>1. 1 \in Int /\ m \in Int
    OBVIOUS
  <2> HIDE DEF Max
  <2> QED
    BY <2>1, Smaller
<1>4. PICK x \in Int : x = Max({1, m}) /\ x \in {1, m} /\ x >= 1
  BY <1>3
<1>5. PICK k \in Nat : x = k + 1 /\ k <= n /\ (k = 0 \/ k = n - size)
  <2>1. x - 1 \in Nat /\ x = (x - 1) + 1 /\ x - 1 <= n /\ (x - 1 = 0 \/ x - 1 = n - size)
    BY <1>2, <1>4
  <2> QED
    BY <2>1
<1>6. items = SubSeq(s, k + 1, n)
  BY <1>1, <1>2, <1>4, <1>5
<1>7. \A i \in (k + 1)..n : s[i] \in rows
  BY <1>1
<1>8. /\ SubSeq(s, k + 1, n) \in Seq(rows)
      /\ Len(SubSeq(s, k + 1, n)) = IF k + 1 <= n THEN n - (k + 1) + 1 ELSE 0
      /\ \A i \in 1..(n - (k + 1) + 1) : SubSeq(s, k + 1, n)[i] = s[(k + 1) + i - 1]
  BY <1>7, SubSeqProperties
<1>9. /\ \A i \in 1..(n - k) : i \in 1..(n - (k + 1) + 1) /\ (k + 1) + i - 1 = k + i
      /\ (IF k + 1 <= n THEN n - (k + 1) + 1 ELSE 0) = n - k
  BY <1>5
<1> QED
  BY <1>1, <1>5, <1>6, <1>8, <1>9 DEF LastOf

\* A page of the catalog: the rows next to the cursor on the side that is asked for,
\* and whether there are more.
PageOf(items, rows, order, size, back, begin, next, prev) ==
    /\ items \in Seq(rows) /\ Increasing(items, order)
    /\ back => Trails(items, rows, order, size)
    /\ ~back => Leads(items, rows, order, size, next # None)
    /\ next # None => items # <<>> /\ next = [order |-> order, at |-> Last(items),
                                              begin |-> IF begin # None THEN begin ELSE items[1]]
    /\ prev # None => items # <<>> /\ begin # None /\ prev = [order |-> order, at |-> items[1], begin |-> begin]
    /\ items # <<>> /\ prev = None => begin = None \/ begin = items[1]

\* The page of queryEntities, its rows and cursors.
LEMMA QueriedPage ==
  ASSUME CatalogType, NEW order \in Orders, NEW at \in AllRows \cup {None},
         NEW begin \in AllRows \cup {None}, NEW back \in BOOLEAN, NEW size \in Nat \ {0},
         NEW answer,
         answer = queryEntities([order |-> order, at |-> at, begin |-> begin, isPrevious |-> back], size),
         NEW rows, rows = Beyond(order, at, back), NEW items, items = answer.items
  PROVE  rows \subseteq AllRows /\ PageOf(items, rows, order, size, back, begin, answer.next, answer.prev)
<1> DEFINE cursor == [order |-> order, at |-> at, begin |-> begin, isPrevious |-> back]
           s == Sorted(rows, order)
<1>0. cursor.order = order /\ cursor.at = at /\ cursor.begin = begin /\ cursor.isPrevious = back
  OBVIOUS
<1>1. /\ answer.items = Section(s, back, size)
      /\ answer.next = IF answer.items # <<>> /\ (back \/ Len(s) > size)
                       THEN [order |-> order, at |-> Last(answer.items),
                             begin |-> IF begin # None THEN begin ELSE answer.items[1]]
                       ELSE None
      /\ answer.prev = IF answer.items # <<>> /\ begin # None /\ begin # answer.items[1]
                       THEN [order |-> order, at |-> answer.items[1],
                             begin |-> IF begin # None THEN begin ELSE answer.items[1]]
                       ELSE None
  <2>1. answer = queryEntities(cursor, size) /\ s = Sorted(Beyond(cursor.order, cursor.at, cursor.isPrevious), cursor.order)
    BY <1>0
  <2> HIDE DEF cursor, s
  <2>2. /\ answer.items = Section(s, cursor.isPrevious, size)
        /\ answer.next = IF answer.items # <<>> /\ (cursor.isPrevious \/ Len(s) > size)
                          THEN [order |-> cursor.order, at |-> Last(answer.items),
                                begin |-> IF cursor.begin # None THEN cursor.begin ELSE answer.items[1]]
                          ELSE None
        /\ answer.prev = IF answer.items # <<>> /\ cursor.begin # None /\ cursor.begin # answer.items[1]
                          THEN [order |-> cursor.order, at |-> answer.items[1],
                                begin |-> IF cursor.begin # None THEN cursor.begin ELSE answer.items[1]]
                          ELSE None
    BY <2>1, QueriedItems
  <2> QED
    BY <1>0, <2>1, <2>2
<1>2. /\ rows \subseteq AllRows /\ s \in Seq(rows) /\ Increasing(s, order)
      /\ \A row \in rows : \E i \in DOMAIN s : s[i] = row
  BY BeyondSorted
<1> HIDE DEF cursor, s
<1>3. back => Trails(items, rows, order, size)
  <2> SUFFICES ASSUME back PROVE Trails(items, rows, order, size)
    OBVIOUS
  <2>0. PICK m : m = Len(s) - size + 1
    OBVIOUS
  <2>1. items = SubSeq(s, Max({1, m}), Len(s))
    BY <1>1, <2>0 DEF Section
  <2>2. items \in Seq(rows) /\ LastOf(items, s, size)
    BY <1>2, <2>0, <2>1, EndOf
  <2> QED
    BY <1>2, <2>2, LastRowsTrail
<1>4. ~back => Leads(items, rows, order, size, Len(s) > size)
  <2> SUFFICES ASSUME ~back PROVE Leads(items, rows, order, size, Len(s) > size)
    OBVIOUS
  <2>1. items = SubSeq(s, 1, Min({size, Len(s)}))
    BY <1>1 DEF Section
  <2>2. items \in Seq(rows) /\ FirstOf(items, s, size)
    BY <1>2, <2>1, FrontOf
  <2> QED
    BY <1>2, <2>2, FirstRowsLead
<1>5. items \in Seq(rows) /\ Increasing(items, order)
  BY <1>3, <1>4 DEF Leads, Trails
<1>6. items # <<>> => items[1] \in AllRows /\ Last(items) = items[Len(items)] /\ items[Len(items)] \in AllRows
  <2>1. Len(items) \in Nat /\ \A i \in 1..Len(items) : items[i] \in rows
    BY <1>5, LenProperties
  <2>2. items # <<>> => Len(items) # 0
    BY <1>5, EmptySeq
  <2>3. Last(items) = items[Len(items)]
    BY DEF Last
  <2> QED
    BY <1>2, <2>1, <2>2, <2>3
<1>7. items # <<>> /\ (back \/ Len(s) > size) => answer.next # None
  <2> SUFFICES ASSUME items # <<>>, back \/ Len(s) > size PROVE answer.next # None
    OBVIOUS
  <2>1. PICK b \in AllRows : b = IF begin # None THEN begin ELSE items[1]
    BY <1>6
  <2>2. answer.next = [order |-> order, at |-> Last(items), begin |-> b]
    BY <1>1, <2>1
  <2>3. Last(items) \in AllRows
    BY <1>6
  <2>4. answer.next \in Cursors
    BY <2>2, <2>3 DEF Cursors
  <2> QED
    BY <2>4, NoneAssumption
<1>8. items # <<>> /\ begin # None /\ begin # items[1] => answer.prev # None
  <2> SUFFICES ASSUME items # <<>>, begin # None, begin # items[1] PROVE answer.prev # None
    OBVIOUS
  <2>1. answer.prev = [order |-> order, at |-> items[1], begin |-> begin]
    BY <1>1
  <2>2. answer.prev \in Cursors
    BY <1>6, <2>1 DEF Cursors
  <2> QED
    BY <2>2, NoneAssumption
<1>9. ~back => Leads(items, rows, order, size, answer.next # None)
  <2> SUFFICES ASSUME ~back PROVE Leads(items, rows, order, size, answer.next # None)
    OBVIOUS
  <2>1. Leads(items, rows, order, size, Len(s) > size)
    BY <1>4
  <2>2. Len(items) = size => items # <<>>
    BY <1>5, EmptySeq
  <2> QED
    BY <1>7, <2>1, <2>2 DEF Leads
<1>10. answer.next # None =>
            items # <<>> /\ answer.next = [order |-> order, at |-> Last(items),
                                           begin |-> IF begin # None THEN begin ELSE items[1]]
  BY <1>1
<1>11. answer.prev # None =>
            items # <<>> /\ begin # None /\ answer.prev = [order |-> order, at |-> items[1], begin |-> begin]
  BY <1>1
<1> QED
  BY <1>2, <1>3, <1>5, <1>8, <1>9, <1>10, <1>11 DEF PageOf

-----------------------------------------------------------------------------
(* The pages of a relation.                                                *)

Relations == [type: RelationTypes, target: Uids]

RefRow(refs, i) == <<i - 1, refs[i].target>>

RefsBetween(refs, from, to) == {RefRow(refs, i) : i \in (from + 1)..to}

RefSection(refs, from, to) == [i \in 1..(to - from) |-> <<from + i - 1, refs[from + i].target>>]

SortedAs(s, rows) ==
    /\ s \in Seq(rows) /\ Increasing(s, "asc")
    /\ \A row \in rows : \E i \in DOMAIN s : s[i] = row

SectionSorted(refs, from, to) ==
    /\ RefsBetween(refs, from, to) \subseteq Nat \X Uids
    /\ Len(RefSection(refs, from, to)) = to - from
    /\ SortedAs(RefSection(refs, from, to), RefsBetween(refs, from, to))

\* A section of the refs is sorted by offset.
LEMMA RefSectionSorted ==
  ASSUME NEW refs \in Seq(Relations), NEW from \in Nat, NEW to \in Nat, from <= to, to <= Len(refs)
  PROVE  SectionSorted(refs, from, to)
<1>0. PICK rows, s : rows = RefsBetween(refs, from, to) /\ s = RefSection(refs, from, to)
  OBVIOUS
<1>1. \A i \in 1..Len(refs) : refs[i].target \in Uids
  <2>1. \A i \in 1..Len(refs) : refs[i] \in Relations
    BY LenProperties
  <2> QED
    BY <2>1 DEF Relations
<1>2. PICK n \in Nat : n = to - from
  OBVIOUS
<1>3. \A i \in 1..n : from + i \in (from + 1)..to /\ from + i \in 1..Len(refs) /\ from + i - 1 \in Nat
  <2>1. Len(refs) \in Nat
    BY LenProperties
  <2> QED
    BY <1>2, <2>1
<1>4. DOMAIN s = 1..n /\ \A i \in 1..n : s[i] = <<from + i - 1, refs[from + i].target>>
  BY <1>0, <1>2 DEF RefSection
<1>5. ASSUME NEW i \in 1..n PROVE s[i] = RefRow(refs, from + i) /\ s[i] \in rows
  <2>1. s[i] = <<from + i - 1, refs[from + i].target>>
    BY <1>4
  <2>2. s[i] = RefRow(refs, from + i)
    BY <2>1 DEF RefRow
  <2>3. from + i \in (from + 1)..to
    BY <1>3
  <2> HIDE DEF RefRow
  <2> QED
    BY <1>0, <2>2, <2>3 DEF RefsBetween
<1>6. s \in [1..n -> rows]
  <2>1. s = [i \in 1..n |-> s[i]]
    BY <1>0, <1>2 DEF RefSection
  <2> QED
    BY <1>5, <2>1
<1>7. s \in Seq(rows) /\ Len(s) = n
  BY <1>6, FunctionIsSeq
<1>8. Increasing(s, "asc")
  <2> SUFFICES ASSUME NEW i \in 1..n, NEW j \in 1..n, i < j PROVE InOrder("asc", s[i], s[j])
    BY <1>4 DEF Increasing
  <2>1. s[i][1] = from + i - 1 /\ s[j][1] = from + j - 1
    BY <1>4
  <2>2. s[i][1] < s[j][1]
    BY <2>1
  <2> QED
    BY <2>2 DEF InOrder, Precedes
<1>9. ASSUME NEW row \in rows PROVE row \in Nat \X Uids /\ \E i \in 1..n : s[i] = row
  <2>1. PICK j \in (from + 1)..to : row = RefRow(refs, j)
    BY <1>0 DEF RefsBetween
  <2>2. j - from \in 1..n /\ from + (j - from) = j /\ j \in 1..Len(refs) /\ j - 1 \in Nat
    <3>1. Len(refs) \in Nat
      BY LenProperties
    <3> QED
      BY <1>2, <3>1
  <2>3. s[j - from] = row
    BY <1>5, <2>1, <2>2
  <2> QED
    BY <1>1, <2>1, <2>2, <2>3 DEF RefRow
<1> QED
  BY <1>0, <1>2, <1>4, <1>7, <1>8, <1>9 DEF SortedAs, SectionSorted

AnswersForward(answer, refs, size, from) ==
    \E end \in Nat :
        /\ from <= end /\ end <= Len(refs) /\ end <= from + size
        /\ end = from + size \/ end = Len(refs)
        /\ answer.items = RefSection(refs, from, end)
        /\ answer.cursors = [i \in DOMAIN answer.items |-> answer.items[i][1]]
        /\ answer.hasNextPage = (end < Len(refs))

AnswersBackward(answer, refs, size, to) ==
    \E start \in Nat :
        /\ start <= to /\ to <= Len(refs)
        /\ start = 0 \/ start = to - size
        /\ answer.items = RefSection(refs, start, to)
        /\ answer.cursors = [i \in DOMAIN answer.items |-> answer.items[i][1]]

\* What connectionFromArray makes of first and after.
LEMMA ForwardRefs ==
  ASSUME NEW refs \in Seq(Relations), NEW size \in Nat,
         NEW cursor, cursor = None \/ cursor \in 0..(Len(refs) - 1),
         NEW answer, answer = connectionFromArray(refs, Forward(size, cursor)),
         NEW from \in Nat, (cursor = None /\ from = 0) \/ (cursor # None /\ from = cursor + 1)
  PROVE  AnswersForward(answer, refs, size, from)
<1>1. PICK n \in Nat : n = Len(refs)
  BY LenProperties
<1>2. from <= n
  <2>1. CASE cursor = None
    BY <1>1, <2>1
  <2>2. CASE cursor # None
    BY <1>1, <2>2
  <2> QED
    BY <2>1, <2>2
<1>3. PICK far \in Int : far = from + size
  OBVIOUS
<1>4. n \in Int /\ Min({n, far}) \in {n, far} /\ Min({n, far}) <= n /\ Min({n, far}) <= far
  <2>1. n \in Int
    OBVIOUS
  <2> QED
    BY <1>3, <2>1, Smaller
<1>5. PICK end \in Nat : end = Min({n, far}) /\ end <= n /\ end <= far /\ (end = n \/ end = far)
  BY <1>3, <1>4
<1>6. from <= end
  BY <1>2, <1>3, <1>5
<1> DEFINE args == Forward(size, cursor)
<1>7. /\ args.first = size /\ args.after = cursor /\ args.last = None /\ args.before = None
      /\ size # None
  BY NoneAssumption DEF Forward
<1>8. /\ answer.items = [i \in 1..(end - from) |-> <<from + i - 1, refs[from + i].target>>]
      /\ answer.cursors = [i \in DOMAIN answer.items |-> answer.items[i][1]]
      /\ answer.hasNextPage = (end < n)
  <2> DEFINE known(c) == c # None /\ c \in 0 .. Len(refs) - 1
             from2 == IF known(args.after) THEN args.after + 1 ELSE 0
             to2 == IF known(args.before) THEN args.before ELSE Len(refs)
             end2 == IF args.first = None THEN to2 ELSE Min({to2, from2 + args.first})
             start2 == IF args.last = None THEN from2 ELSE Max({from2, end2 - args.last})
  <2>1. /\ answer.items = [i \in 1 .. end2 - start2 |-> <<start2 + i - 1, refs[start2 + i].target>>]
        /\ answer.hasNextPage =
                (args.first # None /\ end2 < (IF args.before = None THEN Len(refs) ELSE args.before))
    BY DEF connectionFromArray
  <2>2. answer.cursors = [i \in DOMAIN answer.items |-> answer.items[i][1]]
    BY DEF connectionFromArray
  <2>3. from2 = from
    BY <1>1, <1>7
  <2>4. to2 = n
    BY <1>1, <1>7
  <2> HIDE DEF from2, to2
  <2>5. end2 = end
    BY <1>3, <1>5, <1>7, <2>3, <2>4
  <2>6. start2 = from
    BY <1>7, <2>3
  <2> HIDE DEF end2, start2, args
  <2> QED
    BY <1>1, <1>7, <2>1, <2>2, <2>5, <2>6
<1> HIDE DEF args
<1> QED
  BY <1>1, <1>3, <1>5, <1>6, <1>8 DEF RefSection, AnswersForward

\* What connectionFromArray makes of last and before.
LEMMA BackwardRefs ==
  ASSUME NEW refs \in Seq(Relations), NEW size \in Nat \ {0},
         NEW cursor, cursor = None \/ cursor \in 0..(Len(refs) - 1),
         NEW answer, answer = connectionFromArray(refs, Backward(size, cursor)),
         NEW to \in Nat, (cursor = None /\ to = Len(refs)) \/ (cursor # None /\ to = cursor)
  PROVE  AnswersBackward(answer, refs, size, to)
<1>1. PICK n \in Nat : n = Len(refs)
  BY LenProperties
<1>2. to <= n
  <2>1. CASE cursor = None
    BY <1>1, <2>1
  <2>2. CASE cursor # None
    BY <1>1, <2>2
  <2> QED
    BY <2>1, <2>2
<1>3. PICK far \in Int : far = to - size
  OBVIOUS
<1>4. 0 \in Int /\ Max({0, far}) \in {0, far} /\ Max({0, far}) >= 0 /\ Max({0, far}) >= far
  <2>1. 0 \in Int
    OBVIOUS
  <2> QED
    BY <1>3, <2>1, Smaller
<1>5. PICK start \in Nat : start = Max({0, far}) /\ (start = 0 \/ start = far)
  BY <1>3, <1>4
<1>6. start <= to
  BY <1>3, <1>5
<1> DEFINE args == Backward(size, cursor)
<1>7. /\ args.first = None /\ args.after = None /\ args.last = size /\ args.before = cursor
      /\ size # None
  BY NoneAssumption DEF Backward
<1>8. /\ answer.items = [i \in 1..(to - start) |-> <<start + i - 1, refs[start + i].target>>]
      /\ answer.cursors = [i \in DOMAIN answer.items |-> answer.items[i][1]]
  <2> DEFINE known(c) == c # None /\ c \in 0 .. Len(refs) - 1
             from2 == IF known(args.after) THEN args.after + 1 ELSE 0
             to2 == IF known(args.before) THEN args.before ELSE Len(refs)
             end2 == IF args.first = None THEN to2 ELSE Min({to2, from2 + args.first})
             start2 == IF args.last = None THEN from2 ELSE Max({from2, end2 - args.last})
  <2>1. answer.items = [i \in 1 .. end2 - start2 |-> <<start2 + i - 1, refs[start2 + i].target>>]
    BY DEF connectionFromArray
  <2>2. answer.cursors = [i \in DOMAIN answer.items |-> answer.items[i][1]]
    BY DEF connectionFromArray
  <2>3. from2 = 0
    BY <1>7
  <2>4. to2 = to
    BY <1>1, <1>7
  <2> HIDE DEF from2, to2
  <2>5. end2 = to
    BY <1>7, <2>4
  <2> HIDE DEF end2
  <2>6. start2 = start
    BY <1>3, <1>5, <1>7, <2>3, <2>5
  <2> HIDE DEF start2, args
  <2> QED
    BY <2>1, <2>2, <2>5, <2>6
<1> HIDE DEF args
<1> QED
  BY <1>1, <1>2, <1>3, <1>5, <1>6, <1>8 DEF RefSection, AnswersBackward

\* The cursors of a page of refs are those of its ends.
LEMMA EndsOfPage ==
  ASSUME NEW refs, NEW args, NEW answer, answer = connectionFromArray(refs, args),
         answer.items # <<>>
  PROVE  /\ answer.startCursor = Head(answer.items)[1]
         /\ answer.endCursor = Last(answer.items)[1]
  BY DEF connectionFromArray

\* The next page of a relation.
LEMMA ForwardRefPage ==
  ASSUME NEW refs \in Seq(Relations), NEW size \in Nat \ {0},
         NEW cursor, cursor = None \/ cursor \in 0..(Len(refs) - 1),
         NEW answer, answer = connectionFromArray(refs, Forward(size, cursor)),
         NEW from \in Nat, (cursor = None /\ from = 0) \/ (cursor # None /\ from = cursor + 1)
  PROVE  /\ Leads(answer.items, RefsBetween(refs, from, Len(refs)), "asc", size, answer.hasNextPage)
         /\ RefsBetween(refs, from, Len(refs)) \subseteq Nat \X Uids
         /\ DOMAIN answer.cursors = DOMAIN answer.items
         /\ \A i \in DOMAIN answer.items : answer.cursors[i] = answer.items[i][1]
<1> DEFINE rows == RefsBetween(refs, from, Len(refs))
           s == RefSection(refs, from, Len(refs))
<1>1. PICK end \in Nat :
            /\ from <= end /\ end <= Len(refs) /\ end <= from + size
            /\ end = from + size \/ end = Len(refs)
            /\ answer.items = RefSection(refs, from, end)
            /\ answer.cursors = [i \in DOMAIN answer.items |-> answer.items[i][1]]
            /\ answer.hasNextPage = (end < Len(refs))
  <2>1. AnswersForward(answer, refs, size, from)
    BY ForwardRefs
  <2> QED
    BY <2>1 DEF AnswersForward
<1>2. PICK n \in Nat : n = Len(refs) /\ from <= n
  BY <1>1, LenProperties
<1>3. /\ rows \subseteq Nat \X Uids
      /\ s \in Seq(rows) /\ Len(s) = n - from /\ Increasing(s, "asc")
      /\ \A row \in rows : \E i \in DOMAIN s : s[i] = row
  <2>1. from <= n /\ n <= Len(refs)
    BY <1>2
  <2>2. SectionSorted(refs, from, n)
    BY <2>1, RefSectionSorted
  <2> QED
    BY <1>2, <2>2 DEF SectionSorted, SortedAs
<1>4. answer.items \in Seq(RefsBetween(refs, from, end)) /\ Len(answer.items) = end - from
  <2>1. from <= end /\ end <= Len(refs)
    BY <1>1
  <2>2. SectionSorted(refs, from, end)
    BY <2>1, RefSectionSorted
  <2> QED
    BY <1>1, <2>2 DEF SectionSorted, SortedAs
<1>5. answer.items \in Seq(rows)
  <2>1. RefsBetween(refs, from, end) \subseteq rows
    BY <1>1, <1>2 DEF RefsBetween
  <2> HIDE DEF rows
  <2>2. answer.items \in [1..(end - from) -> RefsBetween(refs, from, end)]
    BY <1>4, LenProperties
  <2>3. answer.items \in [1..(end - from) -> rows] /\ end - from \in Nat
    BY <1>1, <2>1, <2>2
  <2> QED
    BY <2>3, FunctionIsSeq
<1>6. FirstOf(answer.items, s, size)
  <2>1. PICK k \in Nat : k = end - from
    BY <1>1
  <2>2. k <= n - from /\ (k = size \/ k = n - from)
    BY <1>1, <1>2, <2>1
  <2>3. \A i \in 1..k : i \in 1..(n - from)
    BY <1>2, <2>2
  <2>4. \A i \in 1..k : answer.items[i] = s[i]
    BY <1>1, <1>2, <2>1, <2>3 DEF RefSection
  <2> HIDE DEF s
  <2> QED
    BY <1>3, <1>4, <2>1, <2>2, <2>4 DEF FirstOf
<1> HIDE DEF s, rows
<1>7. Leads(answer.items, rows, "asc", size, Len(s) > size)
  BY <1>3, <1>5, <1>6, FirstRowsLead
<1>8. Len(s) > size => answer.hasNextPage
  <2>1. end <= from + size /\ n \in Nat /\ Len(s) = n - from /\ n = Len(refs)
    BY <1>1, <1>2, <1>3
  <2>2. n - from > size => end < n
    BY <2>1
  <2>3. Len(s) > size => end < Len(refs)
    BY <2>1, <2>2
  <2>4. answer.hasNextPage = (end < Len(refs))
    BY <1>1
  <2> QED
    BY <2>3, <2>4
<1>9. Leads(answer.items, rows, "asc", size, answer.hasNextPage)
  BY <1>7, <1>8 DEF Leads
<1> QED
  BY <1>1, <1>3, <1>9 DEF rows

\* The page before.
LEMMA BackwardRefPage ==
  ASSUME NEW refs \in Seq(Relations), NEW size \in Nat \ {0},
         NEW cursor, cursor = None \/ cursor \in 0..(Len(refs) - 1),
         NEW answer, answer = connectionFromArray(refs, Backward(size, cursor)),
         NEW to \in Nat, (cursor = None /\ to = Len(refs)) \/ (cursor # None /\ to = cursor)
  PROVE  /\ Trails(answer.items, RefsBetween(refs, 0, to), "asc", size)
         /\ RefsBetween(refs, 0, to) \subseteq Nat \X Uids
         /\ DOMAIN answer.cursors = DOMAIN answer.items
         /\ \A i \in DOMAIN answer.items : answer.cursors[i] = answer.items[i][1]
<1> DEFINE rows == RefsBetween(refs, 0, to)
           s == RefSection(refs, 0, to)
<1>1. PICK start \in Nat :
            /\ start <= to /\ to <= Len(refs)
            /\ start = 0 \/ start = to - size
            /\ answer.items = RefSection(refs, start, to)
            /\ answer.cursors = [i \in DOMAIN answer.items |-> answer.items[i][1]]
  <2>1. AnswersBackward(answer, refs, size, to)
    BY BackwardRefs
  <2> QED
    BY <2>1 DEF AnswersBackward
<1>2. 0 \in Nat /\ 0 <= to /\ to - 0 = to
  OBVIOUS
<1>3. /\ rows \subseteq Nat \X Uids
      /\ s \in Seq(rows) /\ Len(s) = to /\ Increasing(s, "asc")
      /\ \A row \in rows : \E i \in DOMAIN s : s[i] = row
  <2>1. to <= Len(refs)
    BY <1>1
  <2>2. SectionSorted(refs, 0, to)
    BY <1>2, <2>1, RefSectionSorted
  <2> QED
    BY <1>2, <2>2 DEF SectionSorted, SortedAs
<1>4. answer.items \in Seq(RefsBetween(refs, start, to)) /\ Len(answer.items) = to - start
  <2>1. start <= to /\ to <= Len(refs)
    BY <1>1
  <2>2. SectionSorted(refs, start, to)
    BY <2>1, RefSectionSorted
  <2> QED
    BY <1>1, <2>2 DEF SectionSorted, SortedAs
<1>5. answer.items \in Seq(rows)
  <2>1. RefsBetween(refs, start, to) \subseteq rows
    BY <1>1 DEF RefsBetween
  <2> HIDE DEF rows
  <2>2. answer.items \in [1..(to - start) -> RefsBetween(refs, start, to)]
    BY <1>4, LenProperties
  <2>3. answer.items \in [1..(to - start) -> rows] /\ to - start \in Nat
    BY <1>1, <2>1, <2>2
  <2> QED
    BY <2>3, FunctionIsSeq
<1>6. LastOf(answer.items, s, size)
  <2>1. \A i \in 1..(to - start) : start + i \in 1..(to - 0) /\ 0 + (start + i) = start + i
    BY <1>1
  <2>2. ASSUME NEW i \in 1..(to - start) PROVE answer.items[i] = s[start + i]
    <3>1. answer.items[i] = <<start + i - 1, refs[start + i].target>>
      BY <1>1 DEF RefSection
    <3>2. s[start + i] = <<0 + (start + i) - 1, refs[0 + (start + i)].target>>
      BY <2>1 DEF RefSection
    <3>3. start + i \in Nat /\ 0 + (start + i) = start + i
      OBVIOUS
    <3> HIDE DEF s
    <3> QED
      BY <3>1, <3>2, <3>3
  <2> HIDE DEF s
  <2> QED
    BY <1>1, <1>3, <1>4, <2>2 DEF LastOf
<1> HIDE DEF s, rows
<1>7. Trails(answer.items, rows, "asc", size)
  BY <1>3, <1>5, <1>6, LastRowsTrail
<1> QED
  BY <1>1, <1>3, <1>7 DEF rows

-----------------------------------------------------------------------------
(* The pages of a walk.                                                    *)

\* An answer of `entities`: its rows, its cursors, and what it says of the rest.
IsAnswer(answer, items, rows, order, size, back, begin) ==
    /\ PageOf(items, rows, order, size, back, begin, answer.endCursor, answer.startCursor)
    /\ answer.hasNextPage = (answer.endCursor # None)
    /\ answer.hasPreviousPage = (answer.startCursor # None)
    /\ DOMAIN answer.cursors = DOMAIN items
    /\ \A i \in DOMAIN items :
            answer.cursors[i] = [order |-> order, at |-> AsWritten(items[i]),
                                 begin |-> IF begin # None THEN begin ELSE AsWritten(items[1])]

\* The answer of `entities`, for a request in either direction.
LEMMA EntitiesAnswer ==
  ASSUME CatalogType, NEW order \in Orders, NEW size \in Nat \ {0}, NEW back \in BOOLEAN,
         NEW cursor, NEW at \in AllRows \cup {None}, NEW begin \in AllRows \cup {None},
         \/ cursor = None /\ at = None /\ begin = None
         \/ cursor \in Cursors /\ cursor.order = order /\ at = cursor.at /\ begin = cursor.begin,
         NEW args, args = IF back THEN Backward(size, cursor) ELSE Forward(size, cursor),
         NEW answer, answer = entitiesPage(args, order),
         NEW rows, rows = Beyond(order, at, back), NEW items, items = answer.items
  PROVE  rows \subseteq AllRows /\ IsAnswer(answer, items, rows, order, size, back, begin)
<1>1. size # None
  BY NoneAssumption
<1>2. /\ decodedCursor(args) = cursor
      /\ isPrevious(args) = back
      /\ limit(args) = size
  <2>1. CASE back
    <3>1. /\ args.first = None /\ args.after = None /\ args.last = size /\ args.before = cursor
      BY <2>1 DEF Backward
    <3> QED
      BY <1>1, <2>1, <3>1 DEF decodedCursor, isPrevious, limit, Or
  <2>2. CASE ~back
    <3>1. /\ args.first = size /\ args.after = cursor /\ args.last = None /\ args.before = None
      BY <2>2 DEF Forward
    <3> QED
      BY <1>1, <2>2, <3>1 DEF decodedCursor, isPrevious, limit, Or
  <2> QED
    BY <2>1, <2>2
<1>3. /\ cursorObject(args, order).order = order /\ cursorObject(args, order).at = at
      /\ cursorObject(args, order).begin = begin
  <2>1. CASE cursor = None
    <3>1. None \notin Cursors
      BY NoneAssumption
    <3>2. cursorObject(args, order) = [order |-> order, at |-> None, begin |-> None]
      BY <1>2, <2>1 DEF cursorObject
    <3> QED
      BY <2>1, <3>1, <3>2
  <2>2. CASE cursor # None
    <3>1. cursorObject(args, order) = cursor
      BY <1>2, <2>2 DEF cursorObject
    <3> QED
      BY <2>2, <3>1
  <2> QED
    BY <2>1, <2>2
<1>4. PICK object : object = cursorObject(args, order)
  OBVIOUS
<1>5. PICK found : found = queryEntities([order |-> order, at |-> at, begin |-> begin, isPrevious |-> back], size)
  OBVIOUS
<1>6. /\ answer.items = found.items
      /\ answer.cursors = [i \in DOMAIN found.items |-> EdgeCursor(object, found.items, i)]
      /\ answer.startCursor = found.prev /\ answer.endCursor = found.next
      /\ answer.hasPreviousPage = (found.prev # None) /\ answer.hasNextPage = (found.next # None)
  BY <1>2, <1>3, <1>4, <1>5 DEF entitiesPage
<1>7. \A i \in DOMAIN items :
            EdgeCursor(object, items, i) =
                [order |-> order, at |-> AsWritten(items[i]),
                 begin |-> IF begin # None THEN begin ELSE AsWritten(items[1])]
  BY <1>3, <1>4 DEF EdgeCursor, Or
<1>8. rows \subseteq AllRows /\ PageOf(items, rows, order, size, back, begin, found.next, found.prev)
  <2>1. items = found.items
    BY <1>6
  <2> QED
    BY <1>5, <2>1, QueriedPage
<1> QED
  BY <1>6, <1>7, <1>8 DEF IsAnswer

\* A page in order begins with its first row.
LEMMA HeadIsFirst ==
  ASSUME NEW order, NEW rows \in SUBSET Pairs, NEW size \in Nat \ {0}, NEW more, NEW items,
         Leads(items, rows, order, size, more), items # <<>>, NEW row \in rows
  PROVE  ~InOrder(order, row, items[1])
<1>1. PICK n \in Nat \ {0} : n = Len(items) /\ DOMAIN items = 1..n
  BY LenProperties, EmptySeq DEF Leads
<1>2. \A i \in 1..n : items[i] \in Pairs
  BY <1>1, LenProperties DEF Leads
<1>3. \A i \in 1..n : i = 1 \/ InOrder(order, items[1], items[i])
  BY <1>1 DEF Leads, Increasing
<1>4. 1 \in 1..n /\ n \in 1..n
  BY <1>1
<1>5. CASE row \in ToSet(items)
  <2>1. PICK i \in 1..n : row = items[i]
    BY <1>1, <1>5 DEF ToSet
  <2> QED
    BY <1>2, <1>3, <1>4, <2>1, RowOrder
<1>6. CASE row \notin ToSet(items)
  <2>1. InOrder(order, items[n], row)
    BY <1>1, <1>6 DEF Leads
  <2>2. row \in Pairs
    OBVIOUS
  <2> QED
    BY <1>2, <1>3, <1>4, <2>1, <2>2, RowOrder
<1> QED
  BY <1>5, <1>6

\* What WalkSkipsNothing says of a walk, a page and the rows that are unchanged.
StandsFor(w, p, row) ==
    LET before(a, b) == IF w.moved = "back" \/ (w.moved = "start" /\ w.began = "last")
                        THEN InOrder(w.order, b, a) ELSE InOrder(w.order, a, b)
        forward == w.moved = "on" \/ (w.moved = "start" /\ w.began = "first")
        far == IF forward THEN Last(p.items) ELSE Head(p.items)
    IN  /\ w.from = None \/ before(w.from, row)
        /\ \/ Len(p.items) < w.size
           \/ forward /\ ~p.hasNextPage
           \/ before(row, far)

SkipsNothing(w, p, kept) ==
    /\ \A row \in kept : StandsFor(w, p, row) => row \in ToSet(p.items)
    /\ \A i \in DOMAIN p.items :
        /\ w.moved = "on" => InOrder(w.order, w.from, p.items[i])
        /\ w.moved = "back" => InOrder(w.order, p.items[i], w.from)
        /\ i > 1 => InOrder(w.order, p.items[i - 1], p.items[i])

\* The cursor of a walk stands for the row that it was at.
StoodAtRow(w) ==
    w.moved # "start" => IF w.field = "entities" THEN FoldedRow(w.from) = w.left ELSE w.from = w.left

\* WalkSkipsNothing, as a property of a walk, a page and settled rows.
LEMMA WalkAndPage ==
  WalkSkipsNothing <=>
    (walk.field \in {"entities", "relation"} /\ ~(walk.field = "relation" /\ shrunk) =>
        SkipsNothing(walk, page, settled) /\ StoodAtRow(walk))
  BY DEF WalkSkipsNothing, Stands, SkipsNothing, StandsFor, StoodAtRow

\* A page from the front of the rows beyond where the client came from skips none.
LEMMA ForwardSkipsNothing ==
  ASSUME NEW w, NEW p, NEW kept, NEW rows \in SUBSET Pairs, NEW items, items = p.items,
         w.moved = "on" \/ (w.moved = "start" /\ w.began = "first"), w.size \in Nat \ {0},
         Leads(items, rows, w.order, w.size, p.hasNextPage),
         \A row \in kept : w.from = None \/ InOrder(w.order, w.from, row) => row \in rows,
         w.moved = "on" => \A row \in rows : InOrder(w.order, w.from, row)
  PROVE  SkipsNothing(w, p, kept)
<1>1. PICK n \in Nat : n = Len(items) /\ DOMAIN items = 1..n
  BY LenProperties DEF Leads
<1>2. \A i \in 1..n : items[i] \in rows /\ items[i] \in Pairs
  BY <1>1, LenProperties DEF Leads
<1>3. ASSUME NEW row \in kept, StandsFor(w, p, row) PROVE row \in ToSet(items)
  <2>1. row \in rows
    BY <1>3 DEF StandsFor
  <2>2. SUFFICES ASSUME row \notin ToSet(items) PROVE FALSE
    OBVIOUS
  <2>3. p.hasNextPage /\ n = w.size /\ InOrder(w.order, items[n], row)
    BY <1>1, <2>1, <2>2 DEF Leads
  <2>4. n \in 1..n /\ ~(Len(items) < w.size)
    BY <1>1, <2>3
  <2>5. Last(items) = items[n]
    BY <1>1 DEF Last
  <2>6. InOrder(w.order, row, items[n])
    BY <1>3, <2>3, <2>4, <2>5 DEF StandsFor
  <2> QED
    BY <1>2, <2>1, <2>3, <2>4, <2>6, RowOrder
<1>4. ASSUME NEW i \in DOMAIN items
      PROVE  /\ w.moved = "on" => InOrder(w.order, w.from, items[i])
             /\ w.moved # "back"
             /\ i > 1 => InOrder(w.order, items[i - 1], items[i])
  <2>1. i > 1 => i - 1 \in 1..n /\ i - 1 < i
    BY <1>1
  <2>2. i > 1 => InOrder(w.order, items[i - 1], items[i])
    BY <1>1, <2>1 DEF Leads, Increasing
  <2>3. w.moved # "back" /\ (w.moved = "on" => InOrder(w.order, w.from, items[i]))
    BY <1>1, <1>2
  <2> QED
    BY <2>2, <2>3
<1> QED
  BY <1>3, <1>4 DEF SkipsNothing

\* A page backward stands for the rows it has.
LEMMA BackwardSkipsNothing ==
  ASSUME NEW w, NEW p, NEW kept, NEW rows \in SUBSET Pairs, NEW items, items = p.items,
         w.moved = "back" \/ (w.moved = "start" /\ w.began = "last"), w.size \in Nat \ {0},
         Trails(items, rows, w.order, w.size),
         \A row \in kept : w.from = None \/ InOrder(w.order, row, w.from) => row \in rows,
         w.moved = "back" => \A row \in rows : InOrder(w.order, row, w.from)
  PROVE  SkipsNothing(w, p, kept)
<1>1. PICK n \in Nat : n = Len(items) /\ DOMAIN items = 1..n
  BY LenProperties DEF Trails
<1>2. \A i \in 1..n : items[i] \in rows /\ items[i] \in Pairs
  BY <1>1, LenProperties DEF Trails
<1>3. ASSUME NEW row \in kept, StandsFor(w, p, row) PROVE row \in ToSet(items)
  <2>1. row \in rows
    BY <1>3 DEF StandsFor
  <2>2. SUFFICES ASSUME row \notin ToSet(items) PROVE FALSE
    OBVIOUS
  <2>3. n = w.size /\ InOrder(w.order, row, items[1])
    BY <1>1, <2>1, <2>2 DEF Trails
  <2>4. 1 \in 1..n /\ ~(Len(items) < w.size)
    BY <1>1, <2>3
  <2>5. Head(items) = items[1]
    OBVIOUS
  <2>6. InOrder(w.order, items[1], row)
    BY <1>3, <2>3, <2>4, <2>5 DEF StandsFor
  <2> QED
    BY <1>2, <2>1, <2>3, <2>4, <2>6, RowOrder
<1>4. ASSUME NEW i \in DOMAIN items
      PROVE  /\ w.moved = "back" => InOrder(w.order, items[i], w.from)
             /\ w.moved # "on"
             /\ i > 1 => InOrder(w.order, items[i - 1], items[i])
  <2>1. i > 1 => i - 1 \in 1..n /\ i - 1 < i
    BY <1>1
  <2>2. i > 1 => InOrder(w.order, items[i - 1], items[i])
    BY <1>1, <2>1 DEF Trails, Increasing
  <2>3. w.moved # "on" /\ (w.moved = "back" => InOrder(w.order, items[i], w.from))
    BY <1>1, <1>2
  <2> QED
    BY <2>2, <2>3
<1> QED
  BY <1>3, <1>4 DEF SkipsNothing

\* With fewer settled rows, none is skipped either.
LEMMA FewerRowsSkipped ==
  ASSUME NEW w, NEW p, NEW kept, NEW fewer \in SUBSET kept, SkipsNothing(w, p, kept)
  PROVE  SkipsNothing(w, p, fewer)
  BY DEF SkipsNothing

-----------------------------------------------------------------------------
RefsIn(rels) ==
    FlattenSeq([i \in DOMAIN rels |-> IF rels[i].type = "walked" THEN <<rels[i]>> ELSE <<>>])

RefRows(rels) == RefsBetween(RefsIn(rels), 0, Len(RefsIn(rels)))

\* A cursor of the page, which stands for a row; when the walk began at the front and
\* the cursor has the first row as the catalog does, there is none before that is
\* still unchanged.
CursorAt(cursor, row) ==
    /\ cursor \in Cursors /\ cursor.order = walk.order /\ FoldedRow(cursor.at) = row
    /\ walk.began = "first" /\ FoldedRow(cursor.begin) = cursor.begin =>
        \A other \in settled : ~InOrder(walk.order, other, cursor.begin)

EntitiesWalk ==
    /\ page.items \in Seq(AllRows) /\ DOMAIN page.cursors = DOMAIN page.items
    /\ \A i \in DOMAIN page.items : CursorAt(page.cursors[i], page.items[i])
    /\ page.items # <<>> /\ page.hasNextPage => CursorAt(page.endCursor, Last(page.items))
    /\ page.items # <<>> /\ page.hasPreviousPage => CursorAt(page.startCursor, Head(page.items))
    /\ settled \subseteq PresentRows

RelationWalk ==
    /\ walk.order = "asc" /\ settled \subseteq RefRows(relations)
    /\ ~shrunk =>
        /\ page.items \in Seq(RefRows(relations)) /\ DOMAIN page.cursors = DOMAIN page.items
        /\ \A i \in DOMAIN page.items : page.cursors[i] = page.items[i][1]
        /\ page.items # <<>> => /\ page.endCursor = Last(page.items)[1]
                                /\ page.startCursor = Head(page.items)[1]

PagesInv ==
    /\ DOMAIN walk = {"field", "order", "size", "began", "moved", "left", "from"}
    /\ CatalogType /\ relations \in Seq(Relations)
    /\ walk.field \in {"none", "entities", "relation"}
    /\ walk.field = "none" => page.items = <<>>
    /\ walk.field # "none" => walk.order \in Orders /\ walk.size \in Sizes
    /\ walk.field = "entities" => EntitiesWalk
    /\ walk.field = "relation" => RelationWalk
    /\ WalkSkipsNothing
    /\ KnowsTheWayBack

\* At first no walk has begun.
LEMMA InitPages == Init => PagesInv
<1> SUFFICES ASSUME Init PROVE PagesInv
  OBVIOUS
<1>1. PICK start \in Starts : catalog = start.catalog /\ relations = start.relations
  BY DEF Init, PagesInit
<1>2. CatalogType /\ relations \in Seq(Relations)
  BY <1>1, StartsAssumption DEF CatalogType, Relations
<1>3. walk.field = "none" /\ page.items = <<>>
  BY DEF Init, PagesInit, NoWalk, NoPage
<1>4. WalkSkipsNothing /\ KnowsTheWayBack
  BY <1>3 DEF WalkSkipsNothing, KnowsTheWayBack
<1>5. DOMAIN walk = {"field", "order", "size", "began", "moved", "left", "from"}
  BY DEF Init, PagesInit, NoWalk
<1> QED
  BY <1>2, <1>3, <1>4, <1>5 DEF PagesInv

\* An answer of `entities` to a walk, from its start or from a cursor of the page.
LEMMA EntitiesStep ==
  ASSUME CatalogType, catalog' = catalog,
         NEW order \in Orders, NEW size \in Sizes, NEW back \in BOOLEAN,
         NEW cursor, NEW at \in AllRows \cup {None}, NEW begin \in AllRows \cup {None},
         \/ cursor = None /\ at = None /\ begin = None
         \/ cursor \in Cursors /\ cursor.order = order /\ at = cursor.at /\ begin = cursor.begin,
         NEW args, args = IF back THEN Backward(size, cursor) ELSE Forward(size, cursor),
         page' = entitiesPage(args, order),
         walk'.field = "entities", walk'.order = order, walk'.size = size, walk'.from = at,
         settled' \subseteq PresentRows,
         back => walk'.moved = "back" \/ (walk'.moved = "start" /\ walk'.began = "last"),
         ~back => walk'.moved = "on" \/ (walk'.moved = "start" /\ walk'.began = "first"),
         walk'.moved = "start" <=> cursor = None,
         walk'.began = "first" /\ cursor # None /\ FoldedRow(begin) = begin =>
            \A other \in settled' : ~InOrder(order, other, begin),
         StoodAtRow(walk')
  PROVE  EntitiesWalk' /\ WalkSkipsNothing' /\ KnowsTheWayBack'
<1>0. PICK rows, items : rows = Beyond(order, at, back) /\ items = page'.items
  OBVIOUS
<1>1. size \in Nat \ {0} /\ None \notin AllRows /\ None \notin Cursors
  BY BoundsAssumption, NoneAssumption
<1>2. /\ rows \subseteq AllRows
      /\ PageOf(items, rows, order, size, back, begin, page'.endCursor, page'.startCursor)
      /\ page'.hasNextPage = (page'.endCursor # None)
      /\ page'.hasPreviousPage = (page'.startCursor # None)
      /\ DOMAIN page'.cursors = DOMAIN items
      /\ \A i \in DOMAIN items :
            page'.cursors[i] = [order |-> order, at |-> AsWritten(items[i]),
                                begin |-> IF begin # None THEN begin ELSE AsWritten(items[1])]
  <2>1. PICK answer : answer = page'
    OBVIOUS
  <2>2. answer = entitiesPage(args, order) /\ items = answer.items
    BY <1>0, <2>1
  <2>3. rows \subseteq AllRows /\ IsAnswer(answer, items, rows, order, size, back, begin)
    BY <1>0, <1>1, <2>2, EntitiesAnswer
  <2> QED
    BY <2>1, <2>3 DEF IsAnswer
<1>3. rows \in SUBSET Pairs
  BY <1>2, RowsArePairs
<1>4. items \in Seq(rows) /\ items \in Seq(AllRows)
  <2>1. items \in Seq(rows)
    BY <1>2 DEF PageOf
  <2>2. PICK n \in Nat : n = Len(items) /\ items \in [1..n -> rows]
    BY <2>1, LenProperties
  <2>3. items \in [1..n -> AllRows]
    BY <1>2, <2>2
  <2> QED
    BY <2>1, <2>3, FunctionIsSeq
<1>5. PresentRows' = PresentRows
  BY DEF PresentRows, Present
<1>6. \A row \in PresentRows : row \in rows <=>
            at = None \/ IF back THEN InOrder(order, row, at) ELSE InOrder(order, at, row)
  BY <1>0 DEF Beyond
<1>7. \A row \in rows : at = None \/ IF back THEN InOrder(order, row, at) ELSE InOrder(order, at, row)
  BY <1>0 DEF Beyond
<1>8. at = None <=> cursor = None
  BY <1>1 DEF Cursors
<1>9. \A i \in DOMAIN items : /\ items # <<>> /\ items[i] \in AllRows
                              /\ AsWritten(items[i]) \in AllRows
                              /\ FoldedRow(AsWritten(items[i])) = items[i]
                              /\ FoldedRow(items[i]) = items[i]
  <2>1. ASSUME NEW i \in DOMAIN items PROVE items[i] \in rows /\ items # <<>>
    BY <1>4, <2>1, LenProperties, EmptySeq
  <2>2. rows \subseteq PresentRows
    BY <1>0 DEF Beyond
  <2> QED
    BY <1>2, <2>1, <2>2, WrittenRow
<1>10. items # <<>> => /\ Len(items) \in DOMAIN items /\ 1 \in DOMAIN items
                      /\ Last(items) = items[Len(items)] /\ Head(items) = items[1]
  <2>1. Last(items) = items[Len(items)] /\ Head(items) = items[1]
    BY DEF Last
  <2> QED
    BY <1>4, <2>1, LenProperties, EmptySeq
<1> DEFINE Knows(b) == walk'.began = "first" /\ FoldedRow(b) = b =>
                            \A other \in settled' : ~InOrder(order, other, b)
<1>11. begin # None => Knows(begin)
  BY <1>1
<1>12. ASSUME items # <<>>, begin = None PROVE Knows(items[1]) /\ Knows(AsWritten(items[1]))
  <2>1. cursor = None /\ at = None
    BY <1>1, <1>12 DEF Cursors
  <2>2. ASSUME walk'.began = "first", NEW other \in settled' PROVE ~InOrder(order, other, items[1])
    <3>1. ~back
      BY <1>8, <2>1, <2>2
    <3>2. PICK more : Leads(items, rows, order, size, more)
      BY <1>2, <3>1 DEF PageOf
    <3>3. other \in rows
      BY <1>6, <2>1, <2>2
    <3> QED
      BY <1>1, <1>3, <1>12, <3>2, <3>3, HeadIsFirst
  <2>3. FoldedRow(AsWritten(items[1])) = items[1]
    BY <1>9, <1>10, <1>12
  <2> QED
    BY <2>2, <2>3
<1> HIDE DEF Knows
<1>13. ASSUME NEW row, NEW at1 \in AllRows, NEW b \in AllRows, NEW c, Knows(b), FoldedRow(at1) = row,
              c = [order |-> order, at |-> at1, begin |-> b]
       PROVE  /\ c \in Cursors /\ c.order = walk'.order /\ FoldedRow(c.at) = row
              /\ walk'.began = "first" /\ FoldedRow(c.begin) = c.begin =>
                    \A other \in settled' : ~InOrder(walk'.order, other, c.begin)
  BY <1>13 DEF Cursors, Knows
<1>14. EntitiesWalk'
  <2>1. ASSUME NEW i \in DOMAIN items PROVE CursorAt(page.cursors[i], page.items[i])'
    <3>1. PICK b \in AllRows : b = (IF begin # None THEN begin ELSE AsWritten(items[1])) /\ Knows(b)
      BY <1>9, <1>10, <1>11, <1>12
    <3>2. PICK c : c = page'.cursors[i] /\ c = [order |-> order, at |-> AsWritten(items[i]), begin |-> b]
      BY <1>2, <3>1
    <3> QED
      BY <1>0, <1>9, <1>13, <3>1, <3>2 DEF CursorAt
  <2>2. ASSUME page'.items # <<>>, page'.hasNextPage PROVE CursorAt(page.endCursor, Last(page.items))'
    <3>1. PICK b \in AllRows : b = (IF begin # None THEN begin ELSE items[1]) /\ Knows(b)
      BY <1>0, <1>9, <1>10, <1>11, <1>12, <2>2
    <3>2. PICK c : c = page'.endCursor /\ c = [order |-> order, at |-> Last(items), begin |-> b]
      BY <1>2, <2>2, <3>1 DEF PageOf
    <3>3. Last(items) \in AllRows /\ FoldedRow(Last(items)) = Last(items)
      BY <1>0, <1>9, <1>10, <2>2
    <3> QED
      BY <1>0, <1>13, <3>1, <3>2, <3>3 DEF CursorAt
  <2>3. ASSUME page'.items # <<>>, page'.hasPreviousPage PROVE CursorAt(page.startCursor, Head(page.items))'
    <3>1. begin # None /\ Knows(begin) /\ begin \in AllRows
      BY <1>2, <1>11, <2>3 DEF PageOf
    <3>2. PICK c : c = page'.startCursor /\ c = [order |-> order, at |-> items[1], begin |-> begin]
      BY <1>2, <2>3 DEF PageOf
    <3>3. Head(items) = items[1] /\ items[1] \in AllRows /\ FoldedRow(items[1]) = items[1]
      BY <1>0, <1>9, <1>10, <2>3
    <3> QED
      BY <1>0, <1>13, <3>1, <3>2, <3>3 DEF CursorAt
  <2> QED
    BY <1>0, <1>2, <1>4, <1>5, <2>1, <2>2, <2>3 DEF EntitiesWalk
<1>15. WalkSkipsNothing'
  <2>1. PICK w, p, kept : w = walk' /\ p = page' /\ kept = settled'
    OBVIOUS
  <2>2. w.order = order /\ w.size = size /\ w.from = at /\ StoodAtRow(w)
    BY <2>1
  <2>3. CASE back
    <3>1. Trails(items, rows, w.order, w.size)
      BY <1>2, <2>2, <2>3 DEF PageOf
    <3>2. \A row \in kept : w.from = None \/ InOrder(w.order, row, w.from) => row \in rows
      BY <1>6, <2>1, <2>2, <2>3
    <3>3. w.moved = "back" => \A row \in rows : InOrder(w.order, row, w.from)
      BY <1>7, <1>8, <2>1, <2>2, <2>3
    <3>4. SkipsNothing(w, p, kept)
      BY <1>0, <1>1, <1>3, <2>1, <2>2, <2>3, <3>1, <3>2, <3>3, BackwardSkipsNothing
    <3> QED
      BY <2>1, <2>2, <3>4 DEF WalkSkipsNothing, Stands, SkipsNothing, StandsFor, StoodAtRow
  <2>4. CASE ~back
    <3>1. PICK more : more = (p.endCursor # None) /\ more = p.hasNextPage
      BY <1>2, <2>1
    <3>2. Leads(items, rows, w.order, w.size, p.hasNextPage)
      BY <1>2, <2>1, <2>2, <2>4, <3>1 DEF PageOf
    <3>3. \A row \in kept : w.from = None \/ InOrder(w.order, w.from, row) => row \in rows
      BY <1>6, <2>1, <2>2, <2>4
    <3>4. w.moved = "on" => \A row \in rows : InOrder(w.order, w.from, row)
      BY <1>7, <1>8, <2>1, <2>2, <2>4
    <3>5. SkipsNothing(w, p, kept)
      BY <1>0, <1>1, <1>3, <2>1, <2>2, <2>4, <3>2, <3>3, <3>4, ForwardSkipsNothing
    <3> QED
      BY <2>1, <2>2, <3>5 DEF WalkSkipsNothing, Stands, SkipsNothing, StandsFor, StoodAtRow
  <2> QED
    BY <2>3, <2>4
<1>16. KnowsTheWayBack'
  <2> SUFFICES ASSUME walk'.began = "first", items # <<>>, ~page'.hasPreviousPage, NEW row \in settled'
               PROVE  ~InOrder(order, row, items[1])
    BY <1>0 DEF KnowsTheWayBack
  <2>1. begin = None \/ begin = items[1]
    BY <1>2 DEF PageOf
  <2>2. Knows(items[1])
    <3>1. CASE begin = None
      BY <1>12, <3>1
    <3>2. CASE begin # None
      BY <1>11, <2>1, <3>2
    <3> QED
      BY <3>1, <3>2
  <2>3. FoldedRow(items[1]) = items[1]
    BY <1>9, <1>10
  <2> QED
    BY <2>2, <2>3 DEF Knows
<1> QED
  BY <1>14, <1>15, <1>16

\* Filtered refs are refs.
LEMMA RefsInType ==
  ASSUME NEW rels \in Seq(Relations)
  PROVE  RefsIn(rels) \in Seq(Relations)
<1> DEFINE parts == [i \in DOMAIN rels |-> IF rels[i].type = "walked" THEN <<rels[i]>> ELSE <<>>]
<1>1. /\ Len(rels) \in Nat /\ DOMAIN rels = 1..Len(rels)
      /\ \A i \in DOMAIN rels : rels[i] \in Relations
  BY LenProperties
<1>2. parts \in [1..Len(rels) -> Seq(Relations)]
  BY <1>1
<1>3. parts \in Seq(Seq(Relations))
  BY <1>1, <1>2, FunctionIsSeq
<1> QED
  BY <1>3, FlattenType DEF RefsIn

\* A relation that is added leaves the others in their places.
LEMMA RefsStay ==
  ASSUME NEW rels \in Seq(Relations), NEW added \in Relations
  PROVE  RefRows(rels) \subseteq RefRows(Append(rels, added))
<1> DEFINE part(r) == IF r.type = "walked" THEN <<r>> ELSE <<>>
           parts == [i \in DOMAIN rels |-> part(rels[i])]
           more == Append(rels, added)
           old == RefsIn(rels)
           new == RefsIn(more)
<1>1. PICK n \in Nat : n = Len(rels) /\ DOMAIN rels = 1..n /\ \A i \in 1..n : rels[i] \in Relations
  BY LenProperties
<1>2. \A r \in Relations : part(r) \in Seq(Relations)
  OBVIOUS
<1>3. parts \in Seq(Seq(Relations)) /\ Len(parts) = n
  <2>1. parts \in [1..n -> Seq(Relations)]
    BY <1>1, <1>2
  <2> QED
    BY <2>1, FunctionIsSeq
<1>4. /\ more \in Seq(Relations) /\ DOMAIN more = 1..(n + 1) /\ more[n + 1] = added
      /\ \A i \in 1..n : more[i] = rels[i]
  BY <1>1, <1>2, AppendProperties
<1>5. [i \in DOMAIN more |-> part(more[i])] = Append(parts, part(added))
  <2> DEFINE f == [i \in DOMAIN more |-> part(more[i])]
             g == Append(parts, part(added))
  <2>1. part(added) \in Seq(Relations)
    BY <1>2
  <2>2. /\ g \in Seq(Seq(Relations)) /\ Len(g) = n + 1 /\ g[n + 1] = part(added)
        /\ \A i \in 1..n : g[i] = parts[i]
    <3> HIDE DEF parts, part
    <3> QED
      BY <1>3, <2>1, AppendProperties
  <2>3. g = [i \in 1..(n + 1) |-> g[i]]
    <3> HIDE DEF g
    <3> QED
      BY <2>2, LenProperties
  <2>4. \A i \in 1..n : parts[i] = part(rels[i])
    BY <1>1
  <2>5. \A i \in 1..(n + 1) : f[i] = g[i]
    <3>1. \A i \in 1..(n + 1) : f[i] = part(more[i])
      BY <1>4
    <3>2. \A i \in 1..(n + 1) : i \in 1..n \/ i = n + 1
      OBVIOUS
    <3> HIDE DEF f, g, parts, part, more
    <3> QED
      BY <1>4, <2>2, <2>4, <3>1, <3>2
  <2>6. f = [i \in 1..(n + 1) |-> f[i]]
    BY <1>4
  <2> HIDE DEF f, g
  <2>7. f = g
    BY <2>3, <2>5, <2>6
  <2> QED
    BY <2>7 DEF f, g
<1>6. new = old \o part(added)
  <2>1. old = FlattenSeq(parts) /\ new = FlattenSeq([i \in DOMAIN more |-> part(more[i])])
    BY DEF RefsIn
  <2>2. part(added) \in Seq(Relations)
    BY <1>2
  <2> HIDE DEF parts, part, more, old, new
  <2> QED
    BY <1>3, <1>5, <2>1, <2>2, FlattenAppend
<1>7. old \in Seq(Relations) /\ part(added) \in Seq(Relations)
  BY <1>2, RefsInType
<1> HIDE DEF part, old, new, more
<1>8. PICK m \in Nat, k \in Nat : m = Len(old) /\ k = Len(new) /\ m <= k /\ \A i \in 1..m : new[i] = old[i]
  <2>1. /\ Len(old) \in Nat /\ Len(part(added)) \in Nat /\ Len(new) = Len(old) + Len(part(added))
        /\ \A i \in 1..Len(old) : new[i] = old[i]
    BY <1>6, <1>7, LenProperties, ConcatProperties
  <2>2. Len(new) \in Nat /\ Len(old) <= Len(new)
    BY <2>1
  <2> QED
    BY <2>1, <2>2
<1>9. ASSUME NEW i \in (0 + 1)..m PROVE RefRow(old, i) = RefRow(new, i) /\ i \in (0 + 1)..k
  BY <1>8 DEF RefRow
<1>10. RefsBetween(old, 0, m) \subseteq RefsBetween(new, 0, k)
  BY <1>9 DEF RefsBetween
<1> QED
  BY <1>8, <1>10 DEF RefRows, old, new, more

\* The rows of a relation that are the settled ones at first.
LEMMA RowsOfRelation ==
  ASSUME NEW rels \in Seq(Relations), NEW size \in Nat
  PROVE  ToSet(connectionFromArray(RefsIn(rels), Forward(size, None)).items) \subseteq RefRows(rels)
<1>1. PICK refs, answer : refs = RefsIn(rels) /\ answer = connectionFromArray(refs, Forward(size, None))
  OBVIOUS
<1>2. refs \in Seq(Relations) /\ 0 \in Nat
  BY <1>1, RefsInType
<1>3. PICK cursor : cursor = None
  OBVIOUS
<1>4. AnswersForward(answer, refs, size, 0)
  BY <1>1, <1>2, <1>3, ForwardRefs
<1>5. PICK end \in Nat : end <= Len(refs) /\ answer.items = RefSection(refs, 0, end)
  BY <1>4 DEF AnswersForward
<1>6. PICK part, items : part = RefsBetween(refs, 0, end) /\ items = RefSection(refs, 0, end)
  OBVIOUS
<1>7. 0 <= end
  OBVIOUS
<1>8. items \in Seq(part)
  <2>1. SectionSorted(refs, 0, end)
    BY <1>2, <1>5, <1>7, RefSectionSorted
  <2> QED
    BY <1>6, <2>1 DEF SectionSorted, SortedAs
<1>9. ToSet(items) \subseteq part
  BY <1>8, ElementsOfSeq
<1>10. part \subseteq RefsBetween(refs, 0, Len(refs))
  <2>1. Len(refs) \in Nat
    BY <1>2, LenProperties
  <2>2. \A i \in (0 + 1)..end : i \in (0 + 1)..Len(refs)
    BY <1>5, <2>1
  <2> QED
    BY <1>6, <2>2 DEF RefsBetween
<1> QED
  BY <1>1, <1>5, <1>6, <1>9, <1>10 DEF RefRows

\* A row of a relation is never the sentinel.
LEMMA NoRefIsNone ==
  ASSUME NEW rels \in Seq(Relations)
  PROVE  RefRows(rels) \subseteq Nat \X Uids /\ None \notin RefRows(rels)
<1>1. PICK refs, n : refs = RefsIn(rels) /\ n = Len(refs)
  OBVIOUS
<1>2. refs \in Seq(Relations) /\ n \in Nat
  BY <1>1, RefsInType, LenProperties
<1>3. PICK rows, s : rows = RefsBetween(refs, 0, n) /\ s = RefSection(refs, 0, n)
  OBVIOUS
<1>4. 0 \in Nat /\ 0 <= n /\ n <= Len(refs)
  BY <1>1, <1>2
<1>5. rows \subseteq Nat \X Uids
  <2>1. SectionSorted(refs, 0, n)
    BY <1>2, <1>4, RefSectionSorted
  <2> QED
    BY <1>3, <2>1 DEF SectionSorted
<1> QED
  BY <1>1, <1>3, <1>5, NoneAssumption DEF RefRows

\* Rows of a relation are in order as their places are.
LEMMA RefOrder ==
  ASSUME NEW refs \in Seq(Relations), NEW i \in 1..Len(refs), NEW j \in 1..Len(refs)
  PROVE  InOrder("asc", RefRow(refs, i), RefRow(refs, j)) <=> i < j
<1>1. Len(refs) \in Nat
  BY LenProperties
<1>2. \A k \in 1..Len(refs) : refs[k].target \in Int
  <2>1. \A k \in 1..Len(refs) : refs[k] \in Relations
    BY LenProperties
  <2>2. \A k \in 1..Len(refs) : refs[k].target \in Uids
    BY <2>1 DEF Relations
  <2> QED
    BY <2>2, RowsAssumption
<1>3. InOrder("asc", RefRow(refs, i), RefRow(refs, j)) <=>
        i - 1 < j - 1 \/ (i - 1 = j - 1 /\ refs[i].target < refs[j].target)
  BY DEF InOrder, Precedes, RefRow
<1>4. i \in Int /\ j \in Int
  BY <1>1
<1>5. CASE i = j
  BY <1>2, <1>3, <1>4, <1>5
<1>6. CASE i # j
  BY <1>3, <1>4, <1>6
<1> QED
  BY <1>5, <1>6

\* An answer of a relation to a walk.
LEMMA RelationStep ==
  ASSUME relations \in Seq(Relations), relations' = relations,
         NEW size \in Sizes, NEW back \in BOOLEAN,
         NEW cursor, NEW at \in RefRows(relations) \cup {None},
         (cursor = None /\ at = None) \/ (at \in RefRows(relations) /\ at # None /\ cursor = at[1]),
         NEW args, args = IF back THEN Backward(size, cursor) ELSE Forward(size, cursor),
         page' = relationPage(args),
         walk'.field = "relation", walk'.order = "asc", walk'.size = size, walk'.from = at,
         settled' \subseteq RefRows(relations),
         back => walk'.moved = "back" \/ (walk'.moved = "start" /\ walk'.began = "last"),
         ~back => walk'.moved = "on" \/ (walk'.moved = "start" /\ walk'.began = "first"),
         walk'.moved = "start" <=> at = None,
         StoodAtRow(walk')
  PROVE  RelationWalk' /\ WalkSkipsNothing' /\ KnowsTheWayBack'
<1>1. PICK refs, answer, items : refs = RefsIn(relations) /\ answer = page' /\ items = answer.items
  OBVIOUS
<1>2. refs \in Seq(Relations) /\ RefRows(relations) = RefsBetween(refs, 0, Len(refs))
  BY <1>1, RefsInType DEF RefRows
<1>3. PICK n \in Nat : n = Len(refs)
  BY <1>2, LenProperties
<1>4. answer = connectionFromArray(refs, args)
  BY <1>1 DEF relationPage, filterEntityRefs, RefsIn
<1>5. size \in Nat \ {0}
  BY BoundsAssumption
<1>6. \A row \in RefRows(relations) : \E j \in 1..n : row = RefRow(refs, j)
  <2>1. (0 + 1)..Len(refs) = 1..n
    BY <1>3
  <2> QED
    BY <1>2, <2>1 DEF RefsBetween
<1>7. \A i, j \in 1..n : InOrder("asc", RefRow(refs, i), RefRow(refs, j)) <=> i < j
  BY <1>2, <1>3, RefOrder
<1>8. ASSUME at # None
      PROVE  \E i \in 1..n : at = RefRow(refs, i) /\ cursor = i - 1 /\ cursor # None /\ cursor \in 0..(Len(refs) - 1)
  <2>1. PICK i \in 1..n : at = RefRow(refs, i)
    BY <1>6, <1>8
  <2>2. cursor = i - 1
    BY <1>8, <2>1 DEF RefRow
  <2>3. i - 1 \in Nat /\ i - 1 \in 0..(n - 1)
    OBVIOUS
  <2>4. None \notin Nat
    BY NoneAssumption
  <2> QED
    BY <1>3, <2>1, <2>2, <2>3, <2>4
<1>9. cursor = None \/ cursor \in 0..(Len(refs) - 1)
  BY <1>8
<1>10. \E rows \in SUBSET RefRows(relations) :
            /\ items \in Seq(rows) /\ rows \subseteq Nat \X Uids
            /\ DOMAIN answer.cursors = DOMAIN items
            /\ \A i \in DOMAIN items : answer.cursors[i] = items[i][1]
            /\ SkipsNothing(walk', page', settled')
  <2>1. PICK w, kept : w = walk' /\ kept = settled'
    OBVIOUS
  <2>2. /\ w.order = "asc" /\ w.size = size /\ w.from = at /\ kept \subseteq RefRows(relations)
        /\ items = answer.items
    BY <1>1, <2>1
  <2>3. CASE ~back
    <3>1. PICK from \in Nat : (cursor = None /\ from = 0) \/ (cursor # None /\ from = cursor + 1)
      <4>1. CASE cursor = None
        BY <4>1
      <4>2. CASE cursor # None
        <5>1. cursor + 1 \in Nat
          BY <1>3, <1>9, <4>2
        <5> QED
          BY <4>2, <5>1
      <4> QED
        BY <4>1, <4>2
    <3>2. PICK rows : rows = RefsBetween(refs, from, Len(refs))
      OBVIOUS
    <3>3. answer = connectionFromArray(refs, Forward(size, cursor))
      BY <1>4, <2>3
    <3>4. /\ Leads(items, rows, "asc", size, answer.hasNextPage) /\ rows \subseteq Nat \X Uids
          /\ DOMAIN answer.cursors = DOMAIN items
          /\ \A i \in DOMAIN items : answer.cursors[i] = items[i][1]
      BY <1>2, <1>5, <1>9, <2>2, <3>1, <3>2, <3>3, ForwardRefPage
    <3>5. rows \in SUBSET RefRows(relations) /\ rows \in SUBSET Pairs
      <4>1. \A i \in (from + 1)..Len(refs) : i \in (0 + 1)..Len(refs)
        BY <1>3
      <4> QED
        BY <1>2, <3>2, <3>4, <4>1, RowsArePairs DEF RefsBetween
    <3>6. ASSUME NEW j \in 1..n
          PROVE  RefRow(refs, j) \in rows <=> at = None \/ InOrder("asc", at, RefRow(refs, j))
      <4>1. ASSUME j > from PROVE RefRow(refs, j) \in rows
        <5>1. j \in (from + 1)..Len(refs)
          BY <1>3, <4>1
        <5> QED
          BY <3>2, <5>1 DEF RefsBetween
      <4>2. ASSUME RefRow(refs, j) \in rows PROVE j > from
        <5>1. PICK i \in (from + 1)..Len(refs) : RefRow(refs, j) = RefRow(refs, i)
          BY <3>2, <4>2 DEF RefsBetween
        <5>2. j - 1 = i - 1
          BY <5>1 DEF RefRow
        <5> QED
          BY <1>3, <5>1, <5>2
      <4>3. CASE at = None
        <5>1. from = 0
          BY <3>1, <4>3
        <5> QED
          BY <4>1, <4>3, <5>1
      <4>4. CASE at # None
        <5>1. PICK i \in 1..n : at = RefRow(refs, i) /\ cursor = i - 1 /\ cursor # None
          BY <1>8, <4>4
        <5>2. from = i
          BY <3>1, <5>1
        <5>3. InOrder("asc", at, RefRow(refs, j)) <=> i < j
          BY <1>7, <5>1
        <5> QED
          BY <4>1, <4>2, <4>4, <5>2, <5>3
      <4> QED
        BY <4>3, <4>4
    <3>7. \A row \in kept : w.from = None \/ InOrder(w.order, w.from, row) => row \in rows
      BY <1>6, <2>2, <3>6
    <3>8. w.moved = "on" => \A row \in rows : InOrder(w.order, w.from, row)
      <4>1. w.moved = "on" => at # None
        BY <2>1
      <4> QED
        BY <1>6, <2>2, <3>5, <3>6, <4>1
    <3>9. SkipsNothing(w, answer, kept)
      <4>1. w.moved = "on" \/ (w.moved = "start" /\ w.began = "first")
        BY <2>1, <2>3
      <4>2. Leads(items, rows, w.order, w.size, answer.hasNextPage) /\ w.size \in Nat \ {0}
        BY <1>5, <2>2, <3>4
      <4> QED
        BY <1>1, <3>5, <3>7, <3>8, <4>1, <4>2, ForwardSkipsNothing
    <3>10. items \in Seq(rows)
      BY <3>4 DEF Leads
    <3> QED
      BY <1>1, <2>1, <3>4, <3>5, <3>9, <3>10
  <2>4. CASE back
    <3>1. PICK to \in Nat : (cursor = None /\ to = Len(refs)) \/ (cursor # None /\ to = cursor)
      BY <1>3, <1>9
    <3>2. PICK rows : rows = RefsBetween(refs, 0, to)
      OBVIOUS
    <3>3. answer = connectionFromArray(refs, Backward(size, cursor))
      BY <1>4, <2>4
    <3>4. /\ Trails(items, rows, "asc", size) /\ rows \subseteq Nat \X Uids
          /\ DOMAIN answer.cursors = DOMAIN items
          /\ \A i \in DOMAIN items : answer.cursors[i] = items[i][1]
      BY <1>2, <1>5, <1>9, <2>2, <3>1, <3>2, <3>3, BackwardRefPage
    <3>5. rows \in SUBSET RefRows(relations) /\ rows \in SUBSET Pairs
      <4>1. to <= n
        BY <1>3, <1>9, <3>1
      <4>2. \A i \in (0 + 1)..to : i \in (0 + 1)..Len(refs)
        BY <1>3, <4>1
      <4> QED
        BY <1>2, <3>2, <3>4, <4>2, RowsArePairs DEF RefsBetween
    <3>6. ASSUME NEW j \in 1..n
          PROVE  RefRow(refs, j) \in rows <=> at = None \/ InOrder("asc", RefRow(refs, j), at)
      <4>1. ASSUME j <= to PROVE RefRow(refs, j) \in rows
        <5>1. j \in (0 + 1)..to
          BY <1>3, <4>1
        <5> QED
          BY <3>2, <5>1 DEF RefsBetween
      <4>2. ASSUME RefRow(refs, j) \in rows PROVE j <= to
        <5>1. PICK i \in (0 + 1)..to : RefRow(refs, j) = RefRow(refs, i)
          BY <3>2, <4>2 DEF RefsBetween
        <5>2. j - 1 = i - 1
          BY <5>1 DEF RefRow
        <5> QED
          BY <1>3, <5>1, <5>2
      <4>3. CASE at = None
        <5>1. to = n
          BY <1>3, <3>1, <4>3
        <5> QED
          BY <4>1, <4>3, <5>1
      <4>4. CASE at # None
        <5>1. PICK i \in 1..n : at = RefRow(refs, i) /\ cursor = i - 1 /\ cursor # None
          BY <1>8, <4>4
        <5>2. to = i - 1
          BY <3>1, <5>1
        <5>3. InOrder("asc", RefRow(refs, j), at) <=> j < i
          BY <1>7, <5>1
        <5> QED
          BY <4>1, <4>2, <4>4, <5>2, <5>3
      <4> QED
        BY <4>3, <4>4
    <3>7. \A row \in kept : w.from = None \/ InOrder(w.order, row, w.from) => row \in rows
      BY <1>6, <2>2, <3>6
    <3>8. w.moved = "back" => \A row \in rows : InOrder(w.order, row, w.from)
      <4>1. w.moved = "back" => at # None
        BY <2>1
      <4> QED
        BY <1>6, <2>2, <3>5, <3>6, <4>1
    <3>9. SkipsNothing(w, answer, kept)
      <4>1. w.moved = "back" \/ (w.moved = "start" /\ w.began = "last")
        BY <2>1, <2>4
      <4>2. Trails(items, rows, w.order, w.size) /\ w.size \in Nat \ {0}
        BY <1>5, <2>2, <3>4
      <4> QED
        BY <1>1, <3>5, <3>7, <3>8, <4>1, <4>2, BackwardSkipsNothing
    <3>10. items \in Seq(rows)
      BY <3>4 DEF Trails
    <3> QED
      BY <1>1, <2>1, <3>4, <3>5, <3>9, <3>10
  <2> QED
    BY <2>3, <2>4
<1>11. PICK rows \in SUBSET RefRows(relations) :
            /\ items \in Seq(rows) /\ DOMAIN answer.cursors = DOMAIN items
            /\ \A i \in DOMAIN items : answer.cursors[i] = items[i][1]
            /\ SkipsNothing(walk', page', settled')
  BY <1>10
<1>12. items \in Seq(RefRows(relations))
  <2>1. PICK l \in Nat : l = Len(items) /\ items \in [1..l -> rows]
    BY <1>11, LenProperties
  <2>2. items \in [1..l -> RefRows(relations)]
    BY <2>1
  <2> QED
    BY <2>2, FunctionIsSeq
<1>13. items # <<>> => page'.endCursor = Last(items)[1] /\ page'.startCursor = Head(items)[1]
  <2>1. items # <<>> => answer.startCursor = Head(answer.items)[1] /\ answer.endCursor = Last(answer.items)[1]
    BY <1>1, <1>4, EndsOfPage
  <2> QED
    BY <1>1, <2>1
<1>14. RelationWalk'
  BY <1>1, <1>11, <1>12, <1>13 DEF RelationWalk
<1>15. WalkSkipsNothing'
  <2>1. PICK w, p, kept : w = walk' /\ p = page' /\ kept = settled' /\ SkipsNothing(w, p, kept)
    BY <1>11
  <2>2. StoodAtRow(w)
    BY <2>1
  <2> QED
    BY <2>1, <2>2 DEF WalkSkipsNothing, Stands, SkipsNothing, StandsFor, StoodAtRow
<1>16. KnowsTheWayBack'
  BY DEF KnowsTheWayBack
<1> QED
  BY <1>14, <1>15, <1>16

\* A walk begins at either end, without a cursor.
LEMMA BeginPages ==
  ASSUME PagesInv, NEW field \in {"entities", "relation"}, NEW order \in Orders, NEW size \in Sizes,
         NEW began \in {"first", "last"}, Begin(field, order, size, began)
  PROVE  PagesInv'
<1>1. /\ walk'.field = field /\ walk'.order = order /\ walk'.size = size /\ walk'.began = began
      /\ walk'.moved = "start" /\ walk'.from = None
      /\ settled' = RowsOf(field) /\ catalog' = catalog /\ relations' = relations
      /\ CatalogType /\ relations \in Seq(Relations)
  BY DEF Begin, Answer, PagesInv
<1>2. CatalogType' /\ relations' \in Seq(Relations)
  BY <1>1 DEF CatalogType
<1>0. DOMAIN walk' = {"field", "order", "size", "began", "moved", "left", "from"}
  BY DEF Begin
<1>3. PICK back, cursor, at, args :
        /\ back \in BOOLEAN /\ back = (began = "last") /\ cursor = None /\ at = None
        /\ args = IF back THEN Backward(size, cursor) ELSE Forward(size, cursor)
  OBVIOUS
<1>4. args = IF began = "first" THEN Forward(size, None) ELSE Backward(size, None)
  BY <1>3
<1>5. page' = IF field = "entities" THEN entitiesPage(args, order) ELSE relationPage(args)
  BY <1>4 DEF Begin, Answer
<1>6. CASE field = "entities"
  <2>1. settled' \subseteq PresentRows
    BY <1>1, <1>6 DEF RowsOf
  <2>2. page' = entitiesPage(args, order)
    BY <1>5, <1>6
  <2>3. PICK begin \in AllRows \cup {None} : begin = None
    OBVIOUS
  <2>4. StoodAtRow(walk')
    BY <1>1 DEF StoodAtRow
  <2>5. EntitiesWalk' /\ WalkSkipsNothing' /\ KnowsTheWayBack'
    BY <1>1, <1>3, <1>6, <2>1, <2>2, <2>3, <2>4, EntitiesStep
  <2> QED
    BY <1>0, <1>1, <1>2, <1>6, <2>5 DEF PagesInv
<1>7. CASE field = "relation"
  <2>1. order = "asc" /\ page' = relationPage(args)
    BY <1>5, <1>7 DEF Begin
  <2>2. settled' \subseteq RefRows(relations)
    <3>1. settled' = ToSet(connectionFromArray(RefsIn(relations), Forward(Len(relations), None)).items)
      BY <1>1, <1>7 DEF RowsOf, filterEntityRefs, RefsIn
    <3>2. Len(relations) \in Nat
      BY <1>1, LenProperties
    <3> QED
      BY <1>1, <3>1, <3>2, RowsOfRelation
  <2>3. RelationWalk' /\ WalkSkipsNothing' /\ KnowsTheWayBack'
    <3>1. /\ relations \in Seq(Relations) /\ relations' = relations
          /\ at \in RefRows(relations) \cup {None} /\ cursor = None /\ at = None
          /\ walk'.field = "relation" /\ walk'.order = "asc" /\ walk'.size = size /\ walk'.from = at
          /\ back => walk'.moved = "back" \/ (walk'.moved = "start" /\ walk'.began = "last")
          /\ ~back => walk'.moved = "on" \/ (walk'.moved = "start" /\ walk'.began = "first")
          /\ walk'.moved = "start" <=> at = None
      BY <1>1, <1>3, <1>7, <2>1
    <3>2. StoodAtRow(walk')
      BY <1>1 DEF StoodAtRow
    <3> QED
      BY <1>3, <2>1, <2>2, <3>1, <3>2, RelationStep
  <2> QED
    BY <1>0, <1>1, <1>2, <1>7, <2>3 DEF PagesInv
<1> QED
  BY <1>6, <1>7

\* A request goes on from a cursor that stands at the last row of the page.
LEMMA GoOnPages ==
  ASSUME PagesInv, GoOn
  PROVE  PagesInv'
<1>1. /\ page.items # <<>> /\ walk.field \in {"entities", "relation"}
      /\ walk.order \in Orders /\ walk.size \in Sizes
      /\ CatalogType /\ relations \in Seq(Relations)
      /\ DOMAIN walk = {"field", "order", "size", "began", "moved", "left", "from"}
  BY DEF GoOn, PagesInv
<1>2. PICK cursor \in {Last(page.cursors)} \cup (IF page.hasNextPage THEN {page.endCursor} ELSE {}) :
            Move(Forward(walk.size, cursor), cursor, "on", Last(page.items))
  BY DEF GoOn
<1>3. /\ walk'.field = walk.field /\ walk'.order = walk.order /\ walk'.size = walk.size
      /\ walk'.began = walk.began /\ walk'.moved = "on" /\ walk'.left = Last(page.items)
      /\ walk'.from = IF walk.field = "entities" THEN cursor.at ELSE Last(page.items)
      /\ settled' = settled /\ shrunk' = shrunk /\ catalog' = catalog /\ relations' = relations
      /\ DOMAIN walk' = DOMAIN walk
  <2>1. PICK row : row = Last(page.items)
    OBVIOUS
  <2>2. PICK from : from = IF walk.field = "entities" THEN cursor.at ELSE row
    OBVIOUS
  <2>3. walk' = [walk EXCEPT !.moved = "on", !.left = row, !.from = from]
    BY <1>2, <2>1, <2>2 DEF Move
  <2> QED
    BY <1>1, <1>2, <2>1, <2>2, <2>3 DEF Move, Answer
<1>4. CatalogType' /\ relations' \in Seq(Relations)
  BY <1>1, <1>3 DEF CatalogType
<1>5. Last(page.items) = page.items[Len(page.items)] /\ Last(page.cursors) = page.cursors[Len(page.cursors)]
  BY DEF Last
<1>6. PICK back, size, order, args :
            /\ back \in BOOLEAN /\ ~back
            /\ size \in Sizes /\ size = walk.size
            /\ order \in Orders /\ order = walk.order
            /\ args = IF back THEN Backward(size, cursor) ELSE Forward(size, cursor)
  BY <1>1
<1>7. page' = IF walk.field = "entities" THEN entitiesPage(args, order) ELSE relationPage(args)
  BY <1>2, <1>6 DEF Move, Answer
<1>8. CASE walk.field = "entities"
  <2>1. EntitiesWalk
    BY <1>8 DEF PagesInv
  <2>2. CursorAt(cursor, Last(page.items)) /\ Last(page.items) \in AllRows
    <3>1. PICK n \in Nat \ {0} : n = Len(page.items) /\ DOMAIN page.items = 1..n
      BY <1>1, <2>1, LenProperties, EmptySeq DEF EntitiesWalk
    <3>2. page.items[n] \in AllRows /\ CursorAt(page.cursors[n], page.items[n])
      BY <2>1, <3>1, LenProperties DEF EntitiesWalk
    <3>3. CASE cursor = Last(page.cursors)
      <4>1. DOMAIN page.cursors = 1..n
        BY <2>1, <3>1 DEF EntitiesWalk
      <4>2. Len(page.cursors) = n
        BY <4>1
      <4> QED
        BY <1>5, <3>1, <3>2, <3>3, <4>2
    <3>4. CASE page.hasNextPage /\ cursor = page.endCursor
      BY <1>1, <1>5, <2>1, <3>1, <3>2, <3>4 DEF EntitiesWalk
    <3> QED
      BY <3>3, <3>4
  <2>3. PICK at, begin : at = cursor.at /\ begin = cursor.begin
    OBVIOUS
  <2>4. /\ cursor \in Cursors /\ cursor.order = order /\ FoldedRow(at) = Last(page.items)
        /\ at \in AllRows \cup {None} /\ begin \in AllRows \cup {None} /\ cursor # None
        /\ walk'.began = "first" /\ FoldedRow(begin) = begin =>
                \A other \in settled' : ~InOrder(order, other, begin)
    BY <1>3, <1>6, <2>2, <2>3, NoneAssumption DEF CursorAt, Cursors
  <2>5. /\ page' = entitiesPage(args, order) /\ settled' \subseteq PresentRows
        /\ walk'.field = "entities" /\ walk'.order = order /\ walk'.size = size /\ walk'.from = at
        /\ walk'.moved = "on" /\ StoodAtRow(walk')
    BY <1>3, <1>6, <1>7, <1>8, <2>1, <2>3, <2>4 DEF EntitiesWalk, StoodAtRow
  <2>6. EntitiesWalk' /\ WalkSkipsNothing' /\ KnowsTheWayBack'
    <3>1. CatalogType /\ catalog' = catalog
      BY <1>1, <1>3
    <3>2. cursor \in Cursors /\ cursor.order = order /\ at = cursor.at /\ begin = cursor.begin
      BY <2>3, <2>4
    <3>3. /\ back => walk'.moved = "back" \/ (walk'.moved = "start" /\ walk'.began = "last")
          /\ ~back => walk'.moved = "on" \/ (walk'.moved = "start" /\ walk'.began = "first")
          /\ walk'.moved = "start" <=> cursor = None
      BY <1>6, <2>4, <2>5
    <3> QED
      BY <1>6, <2>4, <2>5, <3>1, <3>2, <3>3, EntitiesStep
  <2> QED
    BY <1>1, <1>3, <1>4, <1>8, <2>6 DEF PagesInv
<1>9. CASE walk.field = "relation"
  <2>1. RelationWalk
    BY <1>9 DEF PagesInv
  <2>2. CASE shrunk
    <3>1. RelationWalk'
      BY <1>3, <2>1, <2>2 DEF RelationWalk
    <3>2. WalkSkipsNothing' /\ KnowsTheWayBack'
      BY <1>3, <1>9, <2>2 DEF WalkSkipsNothing, KnowsTheWayBack
    <3> QED
      BY <1>1, <1>3, <1>4, <1>9, <3>1, <3>2 DEF PagesInv
  <2>3. CASE ~shrunk
    <3>1. PICK at : at = Last(page.items)
      OBVIOUS
    <3>2. PICK n \in Nat \ {0} : n = Len(page.items) /\ DOMAIN page.items = 1..n
      BY <1>1, <2>1, <2>3, LenProperties, EmptySeq DEF RelationWalk
    <3>3. at \in RefRows(relations) /\ page.cursors[n] = at[1]
      BY <1>5, <2>1, <2>3, <3>1, <3>2, LenProperties DEF RelationWalk
    <3>4. Len(page.cursors) = n
      BY <2>1, <2>3, <3>2 DEF RelationWalk
    <3>5. cursor = at[1]
      BY <1>1, <1>5, <2>1, <2>3, <3>1, <3>3, <3>4 DEF RelationWalk
    <3>6. at # None
      <4>1. None \notin RefRows(relations)
        BY <1>1, NoRefIsNone
      <4> QED
        BY <3>3, <4>1
    <3>7. /\ page' = relationPage(args) /\ settled' \subseteq RefRows(relations)
          /\ walk'.field = "relation" /\ walk'.order = "asc" /\ walk'.size = size /\ walk'.from = at
          /\ walk'.moved = "on" /\ at \in RefRows(relations) \cup {None}
          /\ StoodAtRow(walk')
      BY <1>3, <1>6, <1>7, <1>9, <2>1, <3>1, <3>3 DEF RelationWalk, StoodAtRow
    <3>8. RelationWalk' /\ WalkSkipsNothing' /\ KnowsTheWayBack'
      BY <1>1, <1>3, <1>6, <3>3, <3>5, <3>6, <3>7, RelationStep
    <3> QED
      BY <1>1, <1>3, <1>4, <1>9, <3>8 DEF PagesInv
  <2> QED
    BY <2>2, <2>3
<1> QED
  BY <1>1, <1>8, <1>9

\* A request goes back from a cursor that stands at the first row of the page.
LEMMA GoBackPages ==
  ASSUME PagesInv, GoBack
  PROVE  PagesInv'
<1>1. /\ page.items # <<>> /\ walk.field \in {"entities", "relation"}
      /\ walk.order \in Orders /\ walk.size \in Sizes
      /\ CatalogType /\ relations \in Seq(Relations)
      /\ DOMAIN walk = {"field", "order", "size", "began", "moved", "left", "from"}
  BY DEF GoBack, PagesInv
<1>2. PICK cursor \in {Head(page.cursors)} \cup (IF page.hasPreviousPage THEN {page.startCursor} ELSE {}) :
            Move(Backward(walk.size, cursor), cursor, "back", Head(page.items))
  BY DEF GoBack
<1>3. /\ walk'.field = walk.field /\ walk'.order = walk.order /\ walk'.size = walk.size
      /\ walk'.began = walk.began /\ walk'.moved = "back" /\ walk'.left = Head(page.items)
      /\ walk'.from = IF walk.field = "entities" THEN cursor.at ELSE Head(page.items)
      /\ settled' = settled /\ shrunk' = shrunk /\ catalog' = catalog /\ relations' = relations
      /\ DOMAIN walk' = DOMAIN walk
  <2>1. PICK row : row = Head(page.items)
    OBVIOUS
  <2>2. PICK from : from = IF walk.field = "entities" THEN cursor.at ELSE row
    OBVIOUS
  <2>3. walk' = [walk EXCEPT !.moved = "back", !.left = row, !.from = from]
    BY <1>2, <2>1, <2>2 DEF Move
  <2> QED
    BY <1>1, <1>2, <2>1, <2>2, <2>3 DEF Move, Answer
<1>4. CatalogType' /\ relations' \in Seq(Relations)
  BY <1>1, <1>3 DEF CatalogType
<1>5. Head(page.items) = page.items[1] /\ Head(page.cursors) = page.cursors[1]
  OBVIOUS
<1>6. PICK back, size, order, args :
            /\ back \in BOOLEAN /\ back
            /\ size \in Sizes /\ size = walk.size
            /\ order \in Orders /\ order = walk.order
            /\ args = IF back THEN Backward(size, cursor) ELSE Forward(size, cursor)
  BY <1>1
<1>7. page' = IF walk.field = "entities" THEN entitiesPage(args, order) ELSE relationPage(args)
  BY <1>2, <1>6 DEF Move, Answer
<1>8. CASE walk.field = "entities"
  <2>1. EntitiesWalk
    BY <1>8 DEF PagesInv
  <2>2. CursorAt(cursor, Head(page.items)) /\ Head(page.items) \in AllRows
    <3>1. PICK n \in Nat \ {0} : n = Len(page.items) /\ DOMAIN page.items = 1..n
      BY <1>1, <2>1, LenProperties, EmptySeq DEF EntitiesWalk
    <3>2. page.items[1] \in AllRows /\ CursorAt(page.cursors[1], page.items[1])
      BY <2>1, <3>1, LenProperties DEF EntitiesWalk
    <3>3. CASE cursor = Head(page.cursors)
      BY <1>5, <3>1, <3>2, <3>3
    <3>4. CASE page.hasPreviousPage /\ cursor = page.startCursor
      BY <1>1, <1>5, <2>1, <3>1, <3>2, <3>4 DEF EntitiesWalk
    <3> QED
      BY <3>3, <3>4
  <2>3. PICK at, begin : at = cursor.at /\ begin = cursor.begin
    OBVIOUS
  <2>4. /\ cursor \in Cursors /\ cursor.order = order /\ FoldedRow(at) = Head(page.items)
        /\ at \in AllRows \cup {None} /\ begin \in AllRows \cup {None} /\ cursor # None
        /\ walk'.began = "first" /\ FoldedRow(begin) = begin =>
                \A other \in settled' : ~InOrder(order, other, begin)
    BY <1>3, <1>6, <2>2, <2>3, NoneAssumption DEF CursorAt, Cursors
  <2>5. /\ page' = entitiesPage(args, order) /\ settled' \subseteq PresentRows
        /\ walk'.field = "entities" /\ walk'.order = order /\ walk'.size = size /\ walk'.from = at
        /\ walk'.moved = "back" /\ StoodAtRow(walk')
    BY <1>3, <1>6, <1>7, <1>8, <2>1, <2>3, <2>4 DEF EntitiesWalk, StoodAtRow
  <2>6. EntitiesWalk' /\ WalkSkipsNothing' /\ KnowsTheWayBack'
    <3>1. CatalogType /\ catalog' = catalog
      BY <1>1, <1>3
    <3>2. cursor \in Cursors /\ cursor.order = order /\ at = cursor.at /\ begin = cursor.begin
      BY <2>3, <2>4
    <3>3. /\ back => walk'.moved = "back" \/ (walk'.moved = "start" /\ walk'.began = "last")
          /\ ~back => walk'.moved = "on" \/ (walk'.moved = "start" /\ walk'.began = "first")
          /\ walk'.moved = "start" <=> cursor = None
      BY <1>6, <2>4, <2>5
    <3>4. /\ page' = entitiesPage(args, order) /\ settled' \subseteq PresentRows
          /\ walk'.field = "entities" /\ walk'.order = order /\ walk'.size = size /\ walk'.from = at
      BY <2>5
    <3>5. /\ order \in Orders /\ size \in Sizes /\ back \in BOOLEAN
          /\ at \in AllRows \cup {None} /\ begin \in AllRows \cup {None}
          /\ args = IF back THEN Backward(size, cursor) ELSE Forward(size, cursor)
      BY <1>6, <2>4
    <3>6. walk'.began = "first" /\ cursor # None /\ FoldedRow(begin) = begin =>
            \A other \in settled' : ~InOrder(order, other, begin)
      BY <2>4
    <3>7. StoodAtRow(walk')
      BY <2>5
    <3> QED
      BY <3>1, <3>2, <3>3, <3>4, <3>5, <3>6, <3>7, EntitiesStep
  <2> QED
    BY <1>1, <1>3, <1>4, <1>8, <2>6 DEF PagesInv
<1>9. CASE walk.field = "relation"
  <2>1. RelationWalk
    BY <1>9 DEF PagesInv
  <2>2. CASE shrunk
    <3>1. RelationWalk'
      BY <1>3, <2>1, <2>2 DEF RelationWalk
    <3>2. WalkSkipsNothing' /\ KnowsTheWayBack'
      BY <1>3, <1>9, <2>2 DEF WalkSkipsNothing, KnowsTheWayBack
    <3> QED
      BY <1>1, <1>3, <1>4, <1>9, <3>1, <3>2 DEF PagesInv
  <2>3. CASE ~shrunk
    <3>1. PICK at : at = Head(page.items)
      OBVIOUS
    <3>2. PICK n \in Nat \ {0} : n = Len(page.items) /\ DOMAIN page.items = 1..n
      BY <1>1, <2>1, <2>3, LenProperties, EmptySeq DEF RelationWalk
    <3>3. at \in RefRows(relations) /\ page.cursors[1] = at[1]
      BY <1>5, <2>1, <2>3, <3>1, <3>2, LenProperties DEF RelationWalk
    <3>5. cursor = at[1]
      BY <1>1, <1>5, <2>1, <2>3, <3>1, <3>3 DEF RelationWalk
    <3>6. at # None
      <4>1. None \notin RefRows(relations)
        BY <1>1, NoRefIsNone
      <4> QED
        BY <3>3, <4>1
    <3>7. /\ page' = relationPage(args) /\ settled' \subseteq RefRows(relations)
          /\ walk'.field = "relation" /\ walk'.order = "asc" /\ walk'.size = size /\ walk'.from = at
          /\ walk'.moved = "back" /\ at \in RefRows(relations) \cup {None}
          /\ StoodAtRow(walk')
      BY <1>3, <1>6, <1>7, <1>9, <2>1, <3>1, <3>3 DEF RelationWalk, StoodAtRow
    <3>8. RelationWalk' /\ WalkSkipsNothing' /\ KnowsTheWayBack'
      BY <1>1, <1>3, <1>6, <3>3, <3>5, <3>6, <3>7, RelationStep
    <3> QED
      BY <1>1, <1>3, <1>4, <1>9, <3>8 DEF PagesInv
  <2> QED
    BY <2>2, <2>3
<1> QED
  BY <1>1, <1>8, <1>9

\* What changes is not settled any more.
LEMMA ChangePages ==
  ASSUME PagesInv, CatalogChanges
  PROVE  PagesInv'
<1>1. /\ walk' = walk /\ page' = page /\ settled' = settled \cap RowsOf(walk.field)'
      /\ settled' \subseteq settled /\ CatalogType /\ relations \in Seq(Relations)
  BY DEF CatalogChanges, PagesInv
<1>2. CatalogType'
  <2>1. CASE catalog' = catalog
    BY <1>1, <2>1 DEF CatalogType
  <2>2. ASSUME NEW u \in Uids, NEW value \in Values \cup {None}, catalog' = [catalog EXCEPT ![u] = value]
        PROVE  CatalogType'
    BY <1>1, <2>2 DEF CatalogType
  <2> QED
    BY <2>1, <2>2 DEF CatalogChanges
<1>3. \/ relations' = relations /\ shrunk' = shrunk
      \/ shrunk' = shrunk /\ \E added \in Relations : relations' = Append(relations, added)
      \/ shrunk' /\ \E i \in DOMAIN relations : relations' = RemoveAt(relations, i)
  <2>1. ASSUME NEW type \in RelationTypes, NEW target \in Uids,
               relations' = Append(relations, [type |-> type, target |-> target])
        PROVE  \E added \in Relations : relations' = Append(relations, added)
    BY <2>1 DEF Relations
  <2> QED
    BY <2>1 DEF CatalogChanges
<1>4. relations' \in Seq(Relations)
  <2>1. ASSUME NEW i \in DOMAIN relations, relations' = RemoveAt(relations, i)
        PROVE  relations' \in Seq(Relations)
    <3>1. i \in 1..Len(relations)
      BY <1>1, LenProperties
    <3>2. /\ SubSeq(relations, 1, i - 1) \in Seq(Relations)
          /\ SubSeq(relations, i + 1, Len(relations)) \in Seq(Relations)
      BY <1>1, <3>1, LenProperties, SubSeqProperties
    <3> QED
      BY <2>1, <3>2, ConcatProperties DEF RemoveAt
  <2>2. ASSUME NEW added \in Relations, relations' = Append(relations, added)
        PROVE  relations' \in Seq(Relations)
    BY <1>1, <2>2, AppendProperties
  <2> QED
    BY <1>1, <1>3, <2>1, <2>2
<1>5. WalkSkipsNothing'
  <2>1. CASE walk.field \in {"entities", "relation"} /\ ~(walk.field = "relation" /\ shrunk')
    <3>1. ~(walk.field = "relation" /\ shrunk)
      BY <1>3, <2>1
    <3>2. SkipsNothing(walk, page, settled) /\ StoodAtRow(walk)
      BY <2>1, <3>1, WalkAndPage DEF PagesInv
    <3>3. PICK w, p, kept, fewer :
                fewer \subseteq kept /\ w = walk /\ p = page /\ kept = settled /\ fewer = settled'
      BY <1>1
    <3>4. SkipsNothing(w, p, fewer)
      BY <3>2, <3>3, FewerRowsSkipped
    <3> QED
      BY <1>1, <3>2, <3>3, <3>4 DEF WalkSkipsNothing, Stands, SkipsNothing, StandsFor, StoodAtRow
  <2>2. CASE ~(walk.field \in {"entities", "relation"} /\ ~(walk.field = "relation" /\ shrunk'))
    BY <1>1, <2>2 DEF WalkSkipsNothing
  <2> QED
    BY <2>1, <2>2
<1>6. KnowsTheWayBack'
  BY <1>1 DEF PagesInv, KnowsTheWayBack
<1>7. ASSUME walk.field = "entities" PROVE EntitiesWalk'
  <2>1. EntitiesWalk
    BY <1>7 DEF PagesInv
  <2>2. settled' \subseteq PresentRows'
    BY <1>1, <1>7 DEF RowsOf
  <2>3. \A cursor, row : CursorAt(cursor, row) => CursorAt(cursor, row)'
    BY <1>1 DEF CursorAt
  <2> QED
    BY <1>1, <2>1, <2>2, <2>3 DEF EntitiesWalk
<1>8. ASSUME walk.field = "relation" PROVE RelationWalk'
  <2>1. RelationWalk
    BY <1>8 DEF PagesInv
  <2>2. settled' \subseteq RefRows(relations')
    <3>1. settled' \subseteq ToSet(connectionFromArray(RefsIn(relations'), Forward(Len(relations'), None)).items)
      BY <1>1, <1>8 DEF RowsOf, filterEntityRefs, RefsIn
    <3>2. PICK rels \in Seq(Relations), size \in Nat : rels = relations' /\ size = Len(relations')
      BY <1>4, LenProperties
    <3>3. ToSet(connectionFromArray(RefsIn(rels), Forward(size, None)).items) \subseteq RefRows(rels)
      BY RowsOfRelation
    <3> QED
      BY <3>1, <3>2, <3>3
  <2>3. ASSUME ~shrunk' PROVE page'.items \in Seq(RefRows(relations'))
    <3>1. page.items \in Seq(RefRows(relations)) /\ RefRows(relations) \subseteq RefRows(relations')
      <4>1. CASE relations' = relations /\ shrunk' = shrunk
        BY <2>1, <2>3, <4>1 DEF RelationWalk
      <4>2. CASE shrunk' = shrunk /\ \E added \in Relations : relations' = Append(relations, added)
        <5>1. PICK rels \in Seq(Relations), added \in Relations :
                        rels = relations /\ relations' = Append(rels, added)
          BY <1>1, <4>2
        <5>2. RefRows(rels) \subseteq RefRows(Append(rels, added))
          BY RefsStay
        <5> QED
          BY <2>1, <2>3, <4>2, <5>1, <5>2 DEF RelationWalk
      <4> QED
        BY <1>3, <2>3, <4>1, <4>2
    <3>2. PICK n \in Nat : n = Len(page.items) /\ page.items \in [1..n -> RefRows(relations)]
      BY <3>1, LenProperties
    <3>3. page.items \in [1..n -> RefRows(relations')]
      BY <3>1, <3>2
    <3> QED
      BY <1>1, <3>3, FunctionIsSeq
  <2>4. ~shrunk' => ~shrunk
    BY <1>3
  <2> QED
    BY <1>1, <2>1, <2>2, <2>3, <2>4 DEF RelationWalk
<1> QED
  BY <1>1, <1>2, <1>4, <1>5, <1>6, <1>7, <1>8 DEF PagesInv

\* Steps that leave the walk and the catalog alone.
LEMMA SamePages ==
  ASSUME PagesInv, UNCHANGED <<catalog, relations, walk, page, settled, shrunk>>
  PROVE  PagesInv'
<1>1. PresentRows' = PresentRows
  BY DEF PresentRows, Present
<1>2. \A cursor, row : CursorAt(cursor, row)' <=> CursorAt(cursor, row)
  BY DEF CursorAt
<1>3. EntitiesWalk' <=> EntitiesWalk
  BY <1>1, <1>2 DEF EntitiesWalk
<1>4. RelationWalk' <=> RelationWalk
  BY DEF RelationWalk
<1>5. WalkSkipsNothing' <=> WalkSkipsNothing
  BY DEF WalkSkipsNothing, Stands
<1>6. KnowsTheWayBack' <=> KnowsTheWayBack
  BY DEF KnowsTheWayBack
<1> QED
  BY <1>3, <1>4, <1>5, <1>6 DEF PagesInv, CatalogType

\* Every step of the server keeps PagesInv.
LEMMA NextPages == PagesInv /\ [Next]_vars => PagesInv'
<1> SUFFICES ASSUME PagesInv, [Next]_vars PROVE PagesInv'
  OBVIOUS
<1>1. CASE request
  <2>1. ASSUME NEW field \in {"entities", "relation"}, NEW order \in Orders, NEW size \in Sizes,
               NEW began \in {"first", "last"}, Begin(field, order, size, began)
        PROVE  PagesInv'
    BY <2>1, BeginPages
  <2>2. CASE GoOn
    BY <2>2, GoOnPages
  <2>3. CASE GoBack
    BY <2>3, GoBackPages
  <2>4. ASSUME NEW queries \in Batches, AskForNodes(queries) PROVE PagesInv'
    BY <2>4, SamePages DEF AskForNodes
  <2>5. CASE Load
    BY <2>5, SamePages DEF Load
  <2>6. CASE Respond
    BY <2>6, SamePages DEF Respond
  <2>7. CASE CatalogChanges
    BY <2>7, ChangePages
  <2> QED
    BY <1>1, <2>1, <2>2, <2>3, <2>4, <2>5, <2>6, <2>7 DEF request, PagesNext
<1>2. CASE UNCHANGED pageVars
  BY <1>2, SamePages DEF pageVars
<1>3. ASSUME NEW f, initFeature(f) \/ addModule(f) PROVE PagesInv'
  BY <1>2, <1>3 DEF initFeature, addModule
<1>4. CASE init
  BY <1>2, <1>4 DEF init, pageVars
<1> QED
  BY <1>1, <1>2, <1>3, <1>4 DEF Next, vars

\* A walk through the pages of the catalog or of a relation shows every row that was
\* there all along, and goes forward or back as it is asked to, from where its cursor
\* stands: at the row it was at, unless the cursor is of an edge and the value of the
\* entity is not in lower case.
THEOREM WalksAreComplete == Spec => []WalkSkipsNothing
<1>1. PagesInv => WalkSkipsNothing
  BY DEF PagesInv
<1> QED
  BY InitPages, NextPages, <1>1, PTL DEF Spec

\* A page that has something before it says so, when the walk began at the front.
THEOREM WaysBackAreKnown == Spec => []KnowsTheWayBack
<1>1. PagesInv => KnowsTheWayBack
  BY DEF PagesInv
<1> QED
  BY InitPages, NextPages, <1>1, PTL DEF Spec

-----------------------------------------------------------------------------
(* The batches of the data loader.                                         *)

USE NoneAssumption, AnswersAssumption, StartsAssumption, BatchesAssumption, BoundsAssumption

Queries == Uids \cup {None}

LoadInv ==
    /\ relations \in Seq(Relations)
    /\ walk.size \in Nat
    /\ loading \in Seq(Queries)
    /\ changes \in Nat
    /\ LoadsByKey

\* The entries of a batch that have a ref are those that are asked for.
LEMMA LoaderAnswers ==
  ASSUME NEW queries \in Seq(Queries), NEW i \in DOMAIN queries
  PROVE  createCatalogLoader(queries)[i] =
            IF queries[i] = None THEN Undefined
            ELSE IF queries[i] \in Present THEN queries[i] ELSE Missing
<1> DEFINE parts == [j \in DOMAIN queries |-> IF queries[j] = None THEN <<>> ELSE <<j>>]
           entries == FlattenSeq(parts)
           items == getEntitiesByRefs([k \in DOMAIN entries |-> queries[entries[k]]])
<1>1. createCatalogLoader(queries)[i] =
        IF queries[i] = None THEN Undefined
        ELSE Or(items[CHOOSE k \in DOMAIN entries : entries[k] = i], Missing)
  BY DEF createCatalogLoader
<1> SUFFICES ASSUME queries[i] # None
             PROVE  Or(items[CHOOSE k \in DOMAIN entries : entries[k] = i], Missing) =
                        IF queries[i] \in Present THEN queries[i] ELSE Missing
  BY <1>1
<1>2. /\ Len(queries) \in Nat /\ DOMAIN queries = 1..Len(queries)
      /\ \A j \in DOMAIN queries : queries[j] \in Queries
  BY LenProperties
<1>3. parts \in Seq(Seq(Int)) /\ DOMAIN parts = DOMAIN queries
  <2>1. \A j \in DOMAIN queries : parts[j] \in Seq(Int)
    BY <1>2
  <2>2. parts \in [1..Len(queries) -> Seq(Int)]
    BY <1>2, <2>1
  <2> HIDE DEF parts
  <2> QED
    BY <1>2, <2>2, FunctionIsSeq
<1>4. i \in ToSet(parts[i])
  <2>1. parts[i] = <<i>>
    OBVIOUS
  <2> HIDE DEF parts
  <2>2. 1 \in DOMAIN <<i>> /\ <<i>>[1] = i
    OBVIOUS
  <2> QED
    BY <2>1, <2>2 DEF ToSet
<1> HIDE DEF parts
<1>5. i \in ToSet(entries)
  <2>1. ToSet(entries) = UNION {ToSet(parts[j]) : j \in DOMAIN parts}
    BY <1>3, FlattenElements
  <2> QED
    BY <1>3, <1>4, <2>1
<1> HIDE DEF entries
<1>6. PICK k \in DOMAIN entries : k = (CHOOSE l \in DOMAIN entries : entries[l] = i) /\ entries[k] = i
  BY <1>5 DEF ToSet
<1>7. items[k] = IF queries[i] \in Present THEN queries[i] ELSE None
  BY <1>6 DEF getEntitiesByRefs
<1> HIDE DEF items
<1>8. queries[i] \in Uids
  BY <1>2 DEF Queries
<1> QED
  BY <1>6, <1>7, <1>8 DEF Or

\* What is filtered of the relations are relations.
LEMMA RefsType ==
  ASSUME relations \in Seq(Relations), NEW type
  PROVE  filterEntityRefs(type) \in Seq(Relations)
<1> DEFINE parts == [i \in DOMAIN relations |->
                        IF relations[i].type = type THEN <<relations[i]>> ELSE <<>>]
<1>1. /\ Len(relations) \in Nat /\ DOMAIN relations = 1..Len(relations)
      /\ \A i \in DOMAIN relations : relations[i] \in Relations
  BY LenProperties
<1>2. parts \in [1..Len(relations) -> Seq(Relations)]
  BY <1>1
<1>3. parts \in Seq(Seq(Relations))
  BY <1>1, <1>2, FunctionIsSeq
<1> QED
  BY <1>3, FlattenType DEF filterEntityRefs

\* The nodes of a page of a relation are targets of its refs.
LEMMA NodesOfPage ==
  ASSUME NEW refs \in Seq(Relations), NEW args,
         args.first = None \/ args.first \in Int, args.last = None \/ args.last \in Int
  PROVE  LET items == connectionFromArray(refs, args).items
         IN  [i \in DOMAIN items |-> items[i][2]] \in Seq(Uids)
<1> DEFINE n == Len(refs)
           known(cursor) == cursor # None /\ cursor \in 0 .. n - 1
           from == IF known(args.after) THEN args.after + 1 ELSE 0
           to == IF known(args.before) THEN args.before ELSE n
           end == IF args.first = None THEN to ELSE Min({to, from + args.first})
           start == IF args.last = None THEN from ELSE Max({from, end - args.last})
           items == [i \in 1 .. end - start |-> <<start + i - 1, refs[start + i].target>>]
<1>1. connectionFromArray(refs, args).items = items
  BY DEF connectionFromArray
<1>2. /\ n \in Nat /\ DOMAIN refs = 1..n
      /\ \A i \in 1..n : refs[i] \in Relations
  BY LenProperties
<1>3. from \in Nat /\ to \in Nat /\ to <= n
  BY <1>2
<1> HIDE DEF from, to
<1>4. end \in Int /\ end <= n
  <2>0. to \in Int
    BY <1>3
  <2>1. CASE args.first = None
    BY <1>2, <1>3, <2>1
  <2>2. CASE args.first # None
    <3>1. PICK far \in Int : far = from + args.first
      BY <1>3, <2>2
    <3>2. end = Min({to, far})
      BY <2>2, <3>1
    <3> HIDE DEF end
    <3>3. Min({to, far}) \in {to, far} /\ Min({to, far}) <= to
      BY <2>0, Smaller
    <3> QED
      BY <1>2, <1>3, <3>2, <3>3
  <2> QED
    BY <2>1, <2>2
<1> HIDE DEF end
<1>5. start \in Int /\ start >= 0
  <2>0. from \in Int
    BY <1>3
  <2>1. CASE args.last = None
    BY <1>3, <2>1
  <2>2. CASE args.last # None
    <3>1. PICK far \in Int : far = end - args.last
      BY <1>4, <2>2
    <3>2. start = Max({from, far})
      BY <2>2, <3>1
    <3> HIDE DEF start
    <3>3. Max({from, far}) \in {from, far} /\ Max({from, far}) >= from
      BY <2>0, Smaller
    <3> QED
      BY <1>3, <3>2, <3>3
  <2> QED
    BY <2>1, <2>2
<1> HIDE DEF start
<1>6. PICK m \in Nat : 1..m = 1..(end - start)
  <2>1. CASE end - start > 0
    <3>1. end - start \in Nat
      BY <1>4, <1>5, <2>1
    <3> HIDE DEF items
    <3> QED
      BY <3>1
  <2>2. CASE ~(end - start > 0)
    <3>1. 1..0 = 1..(end - start)
      BY <1>4, <1>5, <2>2
    <3> QED
      BY <3>1
  <2> QED
    BY <2>1, <2>2
<1>7. \A i \in 1..(end - start) : start + i \in 1..n
  BY <1>2, <1>4, <1>5
<1>8. /\ DOMAIN items = 1..m
      /\ \A i \in 1..m : items[i][2] = refs[start + i].target
  BY <1>6
<1>9. \A i \in 1..m : refs[start + i].target \in Uids
  BY <1>2, <1>6, <1>7 DEF Relations
<1> HIDE DEF items
<1>10. [i \in DOMAIN items |-> items[i][2]] \in [1..m -> Uids]
  BY <1>8, <1>9
<1> QED
  BY <1>1, <1>10, FunctionIsSeq

\* The targets of a page wait to be loaded.
LEMMA AnswerLoads ==
  ASSUME LoadInv, NEW field, NEW order, NEW args, Answer(field, args, order),
         args.first = None \/ args.first \in Int, args.last = None \/ args.last \in Int
  PROVE  relations' \in Seq(Relations) /\ loading' \in Seq(Queries) /\ changes' \in Nat /\ LoadsByKey'
<1>1. /\ relations \in Seq(Relations) /\ relations' = relations /\ changes' = changes
      /\ changes \in Nat /\ loaded' = <<>>
  BY DEF LoadInv, Answer
<1>2. loading' \in Seq(Queries)
  <2>1. CASE field = "entities"
    BY <2>1 DEF Answer
  <2>2. CASE field # "entities"
    <3>1. page' = connectionFromArray(filterEntityRefs("walked"), args)
      BY <2>2 DEF Answer, relationPage
    <3>2. filterEntityRefs("walked") \in Seq(Relations)
      BY <1>1, RefsType
    <3>3. loading' = [i \in DOMAIN page'.items |-> page'.items[i][2]]
      BY <2>2 DEF Answer
    <3>4. loading' \in Seq(Uids)
      BY <3>1, <3>2, <3>3, NodesOfPage
    <3> QED
      BY <3>4 DEF Queries
  <2> QED
    BY <2>1, <2>2
<1> QED
  BY <1>1, <1>2 DEF LoadsByKey

\* At first nothing is loaded.
LEMMA InitLoad == Init => LoadInv
<1> SUFFICES ASSUME Init PROVE LoadInv
  OBVIOUS
<1>1. /\ \E start \in Starts : relations = start.relations
      /\ walk.size = 0 /\ loading = <<>> /\ loaded = <<>> /\ changes = 0
  BY DEF Init, PagesInit, NoWalk
<1>2. relations \in Seq(Relations)
  BY <1>1 DEF Relations
<1>3. LoadsByKey
  BY <1>1 DEF LoadsByKey
<1> QED
  BY <1>1, <1>2, <1>3 DEF LoadInv

\* Every step of the server keeps LoadInv.
LEMMA NextLoad == LoadInv /\ [Next]_vars => LoadInv'
<1> SUFFICES ASSUME LoadInv, [Next]_vars PROVE LoadInv'
  OBVIOUS
<1>1. ASSUME NEW field, NEW order, NEW size \in Sizes, NEW began, Begin(field, order, size, began)
      PROVE  LoadInv'
  <2> DEFINE args == IF began = "first" THEN Forward(size, None) ELSE Backward(size, None)
  <2>1. /\ args.first = None \/ args.first \in Int
        /\ args.last = None \/ args.last \in Int
    <3>1. size \in Int
      OBVIOUS
    <3>2. CASE began = "first"
      BY <3>1, <3>2 DEF Forward
    <3>3. CASE began # "first"
      BY <3>1, <3>3 DEF Backward
    <3> QED
      BY <3>2, <3>3
  <2>2. Answer(field, args, order) /\ walk'.size \in Nat
    BY <1>1 DEF Begin
  <2> HIDE DEF args
  <2> QED
    BY <2>1, <2>2, AnswerLoads DEF LoadInv
<1>2. CASE GoOn
  <2>1. PICK cursor : Answer(walk.field, Forward(walk.size, cursor), walk.order)
    BY <1>2 DEF GoOn, Move
  <2>2. walk'.size = walk.size /\ walk.size \in Nat
    BY <1>2 DEF GoOn, Move, LoadInv
  <2> DEFINE args == Forward(walk.size, cursor)
  <2>3. args.last = None /\ args.first \in Int
    BY <2>2 DEF Forward
  <2> HIDE DEF args
  <2> QED
    BY <2>1, <2>2, <2>3, AnswerLoads DEF LoadInv, args
<1>3. CASE GoBack
  <2>1. PICK cursor : Answer(walk.field, Backward(walk.size, cursor), walk.order)
    BY <1>3 DEF GoBack, Move
  <2>2. walk'.size = walk.size /\ walk.size \in Nat
    BY <1>3 DEF GoBack, Move, LoadInv
  <2> DEFINE args == Backward(walk.size, cursor)
  <2>3. args.first = None /\ args.last \in Int
    BY <2>2 DEF Backward
  <2> HIDE DEF args
  <2> QED
    BY <2>1, <2>2, <2>3, AnswerLoads DEF LoadInv, args
<1>4. ASSUME NEW queries \in Batches, AskForNodes(queries) PROVE LoadInv'
  BY <1>4 DEF AskForNodes, LoadInv, LoadsByKey, Queries
<1>5. CASE Load
  <2>1. /\ loading \in Seq(Queries) /\ loading' = loading /\ changes' = changes
        /\ loaded' = createCatalogLoader(loading)
        /\ catalog' = catalog /\ relations' = relations /\ walk' = walk
    BY <1>5 DEF Load, LoadInv
  <2>2. DOMAIN loaded' = DOMAIN loading /\ Present' = Present
    BY <2>1 DEF createCatalogLoader, Present
  <2>3. ASSUME NEW i \in DOMAIN loaded'
        PROVE  /\ loading[i] \in Queries
               /\ loaded'[i] = IF loading[i] = None THEN Undefined
                               ELSE IF loading[i] \in Present THEN loading[i] ELSE Missing
    <3>1. i \in DOMAIN loading /\ loading[i] \in Queries
      BY <2>1, <2>2, LenProperties
    <3> QED
      BY <2>1, <3>1, LoaderAnswers
  <2>4. LoadsByKey'
    BY <2>1, <2>2, <2>3 DEF LoadsByKey, Queries, Present
  <2> QED
    BY <2>1, <2>4 DEF LoadInv
<1>6. CASE Respond
  BY <1>6 DEF Respond, LoadInv, LoadsByKey
<1>7. CASE CatalogChanges
  <2>1. /\ changes' = changes + 1 /\ changes \in Nat /\ loading' = loading /\ loaded' = loaded
        /\ walk' = walk
    BY <1>7 DEF CatalogChanges, LoadInv
  <2>2. relations' \in Seq(Relations)
    <3>1. CASE relations' = relations
      BY <3>1 DEF LoadInv
    <3>2. ASSUME NEW type \in RelationTypes, NEW target \in Uids,
                 relations' = Append(relations, [type |-> type, target |-> target])
          PROVE  relations' \in Seq(Relations)
      BY <3>2 DEF LoadInv, Relations
    <3>3. ASSUME NEW i \in DOMAIN relations, relations' = RemoveAt(relations, i)
          PROVE  relations' \in Seq(Relations)
      <4>1. relations \in Seq(Relations) /\ i \in 1..Len(relations)
        BY LenProperties DEF LoadInv
      <4>2. /\ SubSeq(relations, 1, i - 1) \in Seq(Relations)
            /\ SubSeq(relations, i + 1, Len(relations)) \in Seq(Relations)
        BY <4>1, LenProperties, SubSeqProperties
      <4> QED
        BY <3>3, <4>2, ConcatProperties DEF RemoveAt
    <3> QED
      BY <1>7, <3>1, <3>2, <3>3 DEF CatalogChanges
  <2>3. LoadsByKey'
    BY <2>1 DEF LoadsByKey, LoadInv
  <2> QED
    BY <2>1, <2>2, <2>3 DEF LoadInv
<1>8. CASE UNCHANGED pageVars
  BY <1>8 DEF pageVars, LoadInv, LoadsByKey, Present
<1>9. CASE request
  BY <1>1, <1>2, <1>3, <1>4, <1>5, <1>6, <1>7, <1>9 DEF request, PagesNext
<1>10. ASSUME NEW f, initFeature(f) \/ addModule(f) PROVE LoadInv'
  BY <1>8, <1>10 DEF initFeature, addModule
<1>11. CASE init
  BY <1>8, <1>11 DEF init, pageVars
<1> QED
  BY <1>8, <1>9, <1>10, <1>11 DEF Next, vars

\* Each of the queries of a batch is answered with its own entity: in the pages
\* of a relation and in the nodes that a client asks for.
THEOREM AnswersByKey == Spec => []LoadsByKey
<1>1. LoadInv => LoadsByKey
  BY DEF LoadInv
<1> QED
  BY InitLoad, NextLoad, <1>1, PTL DEF Spec

-----------------------------------------------------------------------------
(* What the features register.                                             *)

USE FeaturesAssumption, InstallationsAssumption

RegistryTypes ==
    /\ installed \in Installations
    /\ state \in [installed -> {"idle", "adding", "done", "failed"}]
    /\ adding \in [installed -> Seq(STRING)]
    /\ \A id \in DOMAIN modules : modules[id] \in installed
    /\ context \in Seq(installed)

\* The features that are done are those that have set their context, each once.
ContextFollows ==
    /\ \A m, n \in DOMAIN context : context[m] = context[n] => m = n
    /\ \A f \in installed : state[f] = "done" <=> f \in ToSet(context)

LoadersFollow ==
    \A f \in installed : state[f] = "done" =>
        \A name \in Features[f].loaders : name \in DOMAIN loaders /\ loaders[name] = f

Has(registry, id, f) == id \in DOMAIN registry /\ registry[id] = f

\* The modules of a feature that awaits them are there or still to be added.
ModulesFollow ==
    \A f \in installed : Features[f].awaits =>
        /\ state[f] \in {"adding", "done"} =>
              \A id \in ToSet(Features[f].modules) : Has(modules, id, f) \/ id \in ToSet(adding[f])
        /\ state[f] = "done" => adding[f] = <<>>

\* A server is made when all features are done.
ServedFollows ==
    phase = "up" =>
        /\ \A f \in installed : state[f] = "done"
        /\ served.context = context /\ served.loaders = loaders
        /\ \A id \in DOMAIN served.modules : served.modules[id] \in installed
        /\ \A f \in installed : Features[f].awaits =>
              \A id \in ToSet(Features[f].modules) : Has(served.modules, id, f)

RegisteredInv ==
    RegistryTypes /\ ContextFollows /\ LoadersFollow /\ ModulesFollow /\ ServedFollows

\* What was registered under other names stays.
LEMMA RegisteredKeeps ==
  ASSUME NEW registry, NEW names, NEW f, NEW name
  PROVE  /\ name \in DOMAIN Registered(registry, names, f) <=> name \in names \/ name \in DOMAIN registry
         /\ name \in names => Registered(registry, names, f)[name] = f
         /\ name \notin names /\ name \in DOMAIN registry =>
                Registered(registry, names, f)[name] = registry[name]
  BY DEF Registered

\* A feature that comes to its loaders and context is done or has failed.
LEMMA Completes ==
  ASSUME RegistryTypes, ContextFollows, LoadersFollow, NEW f \in installed,
         state[f] # "done", addLoadersAndContext(f)
  PROVE  /\ installed' = installed /\ phase' = phase /\ served' = served
         /\ state' \in [installed -> {"idle", "adding", "done", "failed"}]
         /\ state'[f] \in {"done", "failed"}
         /\ \A g \in installed \ {f} : state'[g] = state[g]
         /\ context' \in Seq(installed)
         /\ ContextFollows' /\ LoadersFollow'
<1> DEFINE added == Features[f].loaders
<1>1. /\ installed' = installed /\ phase' = phase /\ served' = served
      /\ state \in [installed -> {"idle", "adding", "done", "failed"}]
      /\ context \in Seq(installed) /\ Len(context) \in Nat
      /\ DOMAIN context = 1..Len(context)
      /\ f \notin ToSet(context)
  BY LenProperties DEF addLoadersAndContext, RegistryTypes, ContextFollows
<1>2. CASE added \cap DOMAIN loaders # {}
  <2>1. /\ state' = [state EXCEPT ![f] = "failed"] /\ context' = context
        /\ \E before \in SUBSET (added \ DOMAIN loaders) : loaders' = Registered(loaders, before, f)
    BY <1>2 DEF addLoadersAndContext
  <2>2. \A name \in DOMAIN loaders : name \in DOMAIN loaders' /\ loaders'[name] = loaders[name]
    BY <2>1, RegisteredKeeps
  <2>3. /\ state' \in [installed -> {"idle", "adding", "done", "failed"}]
        /\ state'[f] = "failed"
        /\ \A g \in installed \ {f} : state'[g] = state[g]
    BY <1>1, <2>1
  <2>4. LoadersFollow'
    BY <1>1, <2>2, <2>3 DEF LoadersFollow
  <2>5. ContextFollows'
    BY <1>1, <2>1, <2>3 DEF ContextFollows
  <2> QED
    BY <1>1, <2>1, <2>3, <2>4, <2>5
<1>3. CASE added \cap DOMAIN loaders = {}
  <2>1. /\ state' = [state EXCEPT ![f] = "done"] /\ context' = Append(context, f)
        /\ loaders' = Registered(loaders, added, f)
    BY <1>3 DEF addLoadersAndContext, setContext
  <2>2. /\ \A name \in DOMAIN loaders : name \in DOMAIN loaders' /\ loaders'[name] = loaders[name]
        /\ \A name \in added : name \in DOMAIN loaders' /\ loaders'[name] = f
    BY <1>3, <2>1, RegisteredKeeps
  <2>3. /\ state' \in [installed -> {"idle", "adding", "done", "failed"}]
        /\ state'[f] = "done"
        /\ \A g \in installed \ {f} : state'[g] = state[g]
    BY <1>1, <2>1
  <2>4. LoadersFollow'
    BY <1>1, <2>2, <2>3 DEF LoadersFollow
  <2>5. /\ context' \in Seq(installed) /\ DOMAIN context' = 1..(Len(context) + 1)
        /\ \A n \in 1..Len(context) : context'[n] = context[n]
        /\ context'[Len(context) + 1] = f
    BY <1>1, <2>1, AppendProperties, LenProperties
  <2>6. ToSet(context') = ToSet(context) \cup {f}
    <3>1. ToSet(context') = {context'[n] : n \in 1..(Len(context) + 1)}
      BY <2>5 DEF ToSet
    <3>2. ToSet(context) = {context[n] : n \in 1..Len(context)}
      BY <1>1 DEF ToSet
    <3>3. 1..(Len(context) + 1) = 1..Len(context) \cup {Len(context) + 1}
      BY <1>1
    <3> QED
      BY <2>5, <3>1, <3>2, <3>3
  <2>7. \A m, n \in DOMAIN context' : context'[m] = context'[n] => m = n
    <3>1. \A n \in 1..Len(context) : context[n] # f
      BY <1>1 DEF ToSet
    <3>2. \A n \in DOMAIN context' : n \in 1..Len(context) \/ n = Len(context) + 1
      BY <1>1, <2>5
    <3>3. \A m, n \in 1..Len(context) : context[m] = context[n] => m = n
      BY <1>1 DEF ContextFollows
    <3> QED
      BY <2>5, <3>1, <3>2, <3>3
  <2>8. ContextFollows'
    BY <1>1, <2>3, <2>6, <2>7 DEF ContextFollows
  <2> QED
    BY <1>1, <2>3, <2>4, <2>5, <2>8
<1> QED
  BY <1>2, <1>3

\* At first nothing is registered.
LEMMA InitRegistered == Init => RegisteredInv
<1> SUFFICES ASSUME Init PROVE RegisteredInv
  OBVIOUS
<1>1. /\ installed \in Installations
      /\ state = [f \in installed |-> "idle"] /\ adding = [f \in installed |-> <<>>]
      /\ modules = <<>> /\ context = <<>> /\ phase = "starting"
  BY DEF Init
<1>2. ToSet(context) = {} /\ DOMAIN modules = {} /\ DOMAIN context = {}
  BY <1>1 DEF ToSet
<1>3. RegistryTypes
  BY <1>1, <1>2 DEF RegistryTypes
<1>4. ContextFollows /\ LoadersFollow /\ ModulesFollow /\ ServedFollows
  BY <1>1, <1>2 DEF ContextFollows, LoadersFollow, ModulesFollow, ServedFollows
<1> QED
  BY <1>3, <1>4 DEF RegisteredInv

\* The init of a feature keeps RegisteredInv.
LEMMA InitFeatureRegisters ==
  ASSUME RegisteredInv, NEW f, initFeature(f)
  PROVE  RegisteredInv'
<1>1. /\ f \in installed /\ f \in DOMAIN Features /\ phase = "starting" /\ state[f] = "idle"
      /\ adding' = [adding EXCEPT ![f] = Features[f].modules] /\ modules' = modules
      /\ state \in [installed -> {"idle", "adding", "done", "failed"}]
      /\ adding \in [installed -> Seq(STRING)]
      /\ RegistryTypes /\ ContextFollows /\ LoadersFollow /\ ModulesFollow
  BY DEF initFeature, RegisteredInv, RegistryTypes
<1>2. /\ adding' \in [installed -> Seq(STRING)]
      /\ adding'[f] = Features[f].modules
      /\ \A g \in installed \ {f} : adding'[g] = adding[g]
  BY <1>1
<1>3. CASE Features[f].awaits /\ Features[f].modules # <<>>
  <2>1. /\ state' = [state EXCEPT ![f] = "adding"]
        /\ UNCHANGED <<installed, loaders, context, phase, served>>
    BY <1>3 DEF initFeature
  <2>2. /\ state' \in [installed -> {"idle", "adding", "done", "failed"}]
        /\ state'[f] = "adding" /\ \A g \in installed \ {f} : state'[g] = state[g]
    BY <1>1, <2>1
  <2>3. RegistryTypes'
    BY <1>1, <1>2, <2>1, <2>2 DEF RegistryTypes
  <2>4. ContextFollows'
    BY <1>1, <2>1, <2>2 DEF ContextFollows
  <2>5. LoadersFollow'
    BY <1>1, <2>1, <2>2 DEF LoadersFollow
  <2>6. ModulesFollow'
    BY <1>1, <1>2, <2>1, <2>2 DEF ModulesFollow
  <2> QED
    BY <1>1, <2>1, <2>3, <2>4, <2>5, <2>6 DEF RegisteredInv, ServedFollows
<1>4. CASE ~(Features[f].awaits /\ Features[f].modules # <<>>)
  <2>1. addLoadersAndContext(f)
    BY <1>4 DEF initFeature
  <2>2. /\ installed' = installed /\ phase' = phase /\ served' = served
        /\ state' \in [installed -> {"idle", "adding", "done", "failed"}]
        /\ \A g \in installed \ {f} : state'[g] = state[g]
        /\ context' \in Seq(installed)
        /\ ContextFollows' /\ LoadersFollow'
    BY <1>1, <2>1, Completes
  <2>3. RegistryTypes'
    BY <1>1, <1>2, <2>2 DEF RegistryTypes
  <2>4. ToSet(<<>>) = {}
    BY DEF ToSet
  <2>5. ModulesFollow'
    BY <1>1, <1>2, <1>4, <2>2, <2>4 DEF ModulesFollow
  <2> QED
    BY <1>1, <2>2, <2>3, <2>5 DEF RegisteredInv, ServedFollows
<1> QED
  BY <1>3, <1>4

\* A module that resolves keeps RegisteredInv.
LEMMA AddModuleRegisters ==
  ASSUME RegisteredInv, NEW f, addModule(f)
  PROVE  RegisteredInv'
<1> DEFINE id == Head(adding[f])
           rejects == id \in DOMAIN modules
           left == IF rejects THEN <<>> ELSE Tail(adding[f])
<1>1. /\ f \in installed /\ f \in DOMAIN Features /\ adding[f] # <<>>
      /\ adding' = [adding EXCEPT ![f] = left]
      /\ modules' = IF rejects THEN modules ELSE Registered(modules, {id}, f)
      /\ state \in [installed -> {"idle", "adding", "done", "failed"}]
      /\ adding \in [installed -> Seq(STRING)]
      /\ RegistryTypes /\ ContextFollows /\ LoadersFollow /\ ModulesFollow /\ ServedFollows
  BY DEF addModule, RegisteredInv, RegistryTypes
<1>2. /\ Tail(adding[f]) \in Seq(STRING)
      /\ ToSet(adding[f]) = {id} \cup ToSet(Tail(adding[f]))
      /\ Len(Tail(adding[f])) = Len(adding[f]) - 1 /\ Len(adding[f]) \in Nat \ {0}
  <2>1. adding[f] \in Seq(STRING)
    BY <1>1
  <2> QED
    BY <1>1, <2>1, TailElements, HeadTailProperties, EmptySeq
<1>3. /\ adding' \in [installed -> Seq(STRING)] /\ adding'[f] = left
      /\ \A g \in installed \ {f} : adding'[g] = adding[g]
  <2>1. left \in Seq(STRING)
    <3>1. <<>> \in Seq(STRING) /\ Tail(adding[f]) \in Seq(STRING)
      BY <1>2
    <3> HIDE DEF rejects
    <3> QED
      BY <3>1, Zenon
  <2> HIDE DEF left
  <2> QED
    BY <1>1, <2>1
<1>4. /\ \A i \in DOMAIN modules : i \in DOMAIN modules' /\ modules'[i] = modules[i]
      /\ \A i \in DOMAIN modules' : modules'[i] \in installed
      /\ ~rejects => Has(modules', id, f)
  <2>1. \A i \in DOMAIN modules : modules[i] \in installed
    BY <1>1 DEF RegistryTypes
  <2>2. CASE rejects
    BY <1>1, <2>1, <2>2
  <2>3. CASE ~rejects
    <3> HIDE DEF id
    <3>1. modules' = Registered(modules, {id}, f)
      BY <1>1, <2>3
    <3>2. \A i : /\ i \in DOMAIN modules' <=> i = id \/ i \in DOMAIN modules
                 /\ i = id => modules'[i] = f
                 /\ i # id /\ i \in DOMAIN modules => modules'[i] = modules[i]
      BY <3>1, RegisteredKeeps
    <3> QED
      BY <1>1, <2>1, <2>3, <3>2 DEF Has
  <2> QED
    BY <2>2, <2>3
<1> HIDE DEF id, left
<1>0. ASSUME NEW g \in installed \ {f}, Features[g].awaits
      PROVE  /\ state[g] \in {"adding", "done"} =>
                    \A i \in ToSet(Features[g].modules) :
                        Has(modules', i, g) \/ i \in ToSet(adding'[g])
             /\ state[g] = "done" => adding'[g] = <<>>
  <2>1. adding'[g] = adding[g]
    BY <1>3
  <2>2. \A i : Has(modules, i, g) => Has(modules', i, g)
    BY <1>4 DEF Has
  <2>3. /\ state[g] \in {"adding", "done"} =>
              \A i \in ToSet(Features[g].modules) :
                  Has(modules, i, g) \/ i \in ToSet(adding[g])
        /\ state[g] = "done" => adding[g] = <<>>
    BY <1>0, <1>1 DEF ModulesFollow
  <2> QED
    BY <2>1, <2>2, <2>3
<1>5. CASE state[f] # "adding" \/ (~rejects /\ Len(adding[f]) > 1)
  <2>1. UNCHANGED <<installed, state, loaders, context, phase, served>>
    BY <1>5 DEF addModule, id
  <2>2. RegistryTypes'
    BY <1>1, <1>3, <1>4, <2>1 DEF RegistryTypes
  <2>3. ContextFollows' /\ LoadersFollow' /\ ServedFollows'
    BY <1>1, <2>1 DEF ContextFollows, LoadersFollow, ServedFollows
  <2>4. ASSUME NEW g \in installed, Features[g].awaits
        PROVE  /\ state[g] \in {"adding", "done"} =>
                    \A i \in ToSet(Features[g].modules) :
                        Has(modules', i, g) \/ i \in ToSet(adding'[g])
               /\ state[g] = "done" => adding'[g] = <<>>
    <3>1. CASE g # f
      BY <1>0, <2>4, <3>1
    <3>2. CASE g = f /\ state[f] = "adding"
      BY <1>1, <1>2, <1>3, <1>4, <1>5, <2>4, <3>2 DEF ModulesFollow, Has, left
    <3>3. CASE g = f /\ state[f] # "adding"
      BY <1>1, <2>4, <3>3 DEF ModulesFollow
    <3> QED
      BY <3>1, <3>2, <3>3
  <2>5. ModulesFollow'
    BY <2>1, <2>4 DEF ModulesFollow
  <2> QED
    BY <2>2, <2>3, <2>5 DEF RegisteredInv
<1>6. CASE state[f] = "adding" /\ rejects
  <2>1. /\ state' = [state EXCEPT ![f] = "failed"]
        /\ UNCHANGED <<installed, loaders, context, phase, served>>
    BY <1>6 DEF addModule, id
  <2>2. /\ state' \in [installed -> {"idle", "adding", "done", "failed"}]
        /\ state'[f] = "failed" /\ \A g \in installed \ {f} : state'[g] = state[g]
    BY <1>1, <2>1
  <2>3. RegistryTypes'
    BY <1>1, <1>3, <1>4, <2>1, <2>2 DEF RegistryTypes
  <2>4. ContextFollows'
    BY <1>1, <1>6, <2>1, <2>2 DEF ContextFollows
  <2>5. LoadersFollow'
    BY <1>1, <2>1, <2>2 DEF LoadersFollow
  <2>6. ModulesFollow'
    BY <1>0, <2>1, <2>2 DEF ModulesFollow
  <2>7. ServedFollows'
    BY <1>1, <1>6, <2>1 DEF ServedFollows
  <2> QED
    BY <2>3, <2>4, <2>5, <2>6, <2>7 DEF RegisteredInv
<1>7. CASE state[f] = "adding" /\ ~rejects /\ ~(Len(adding[f]) > 1)
  <2>1. addLoadersAndContext(f)
    BY <1>7 DEF addModule, id
  <2>2. /\ installed' = installed /\ phase' = phase /\ served' = served
        /\ state' \in [installed -> {"idle", "adding", "done", "failed"}]
        /\ \A g \in installed \ {f} : state'[g] = state[g]
        /\ context' \in Seq(installed)
        /\ ContextFollows' /\ LoadersFollow'
    BY <1>1, <1>7, <2>1, Completes
  <2>3. RegistryTypes'
    BY <1>1, <1>3, <1>4, <2>2 DEF RegistryTypes
  <2>4. left = <<>> /\ ToSet(Tail(adding[f])) = {}
    <3>1. Tail(adding[f]) = <<>>
      BY <1>2, <1>7, EmptySeq
    <3> QED
      BY <1>7, <3>1 DEF left, ToSet
  <2>5. ASSUME Features[f].awaits
        PROVE  \A i \in ToSet(Features[f].modules) : Has(modules', i, f)
    BY <1>1, <1>2, <1>4, <1>7, <2>4, <2>5 DEF ModulesFollow, Has
  <2>6. ModulesFollow'
    BY <1>0, <1>3, <2>2, <2>4, <2>5 DEF ModulesFollow
  <2>7. ServedFollows'
    BY <1>1, <1>7, <2>2 DEF ServedFollows
  <2> QED
    BY <2>2, <2>3, <2>6, <2>7 DEF RegisteredInv
<1> QED
  BY <1>5, <1>6, <1>7

\* Every step of the server keeps RegisteredInv.
LEMMA NextRegistered == RegisteredInv /\ [Next]_vars => RegisteredInv'
<1> SUFFICES ASSUME RegisteredInv, [Next]_vars PROVE RegisteredInv'
  OBVIOUS
<1>1. CASE init
  <2>1. /\ UNCHANGED <<installed, state, adding, modules, loaders, context>>
        /\ phase = "starting"
    BY <1>1 DEF init
  <2>2. (RegistryTypes /\ ContextFollows /\ LoadersFollow /\ ModulesFollow)'
    BY <2>1 DEF RegisteredInv, RegistryTypes, ContextFollows, LoadersFollow, ModulesFollow
  <2>3. ServedFollows'
    <3> SUFFICES ASSUME phase' = "up" PROVE ServedFollows'
      BY DEF ServedFollows
    <3>1. /\ \A f \in installed : state[f] = "done"
          /\ served' = [modules |-> modules, loaders |-> loaders, context |-> context]
      BY <1>1 DEF init
    <3>2. \A f \in installed : Features[f].awaits =>
              \A id \in ToSet(Features[f].modules) : Has(modules, id, f)
      BY <3>1 DEF RegisteredInv, ModulesFollow, ToSet
    <3> QED
      BY <2>1, <3>1, <3>2 DEF RegisteredInv, RegistryTypes, ServedFollows
  <2> QED
    BY <2>2, <2>3 DEF RegisteredInv
<1>2. CASE UNCHANGED serverVars
  BY <1>2 DEF serverVars, RegisteredInv, RegistryTypes, ContextFollows, LoadersFollow,
              ModulesFollow, ServedFollows
<1>3. CASE request
  BY <1>2, <1>3 DEF request
<1> QED
  BY <1>1, <1>2, <1>3, InitFeatureRegisters, AddModuleRegisters DEF Next, vars

-----------------------------------------------------------------------------
(* The context of a request.                                               *)

\* What the first n functions of a context make of the initial one.
Enriched(after, contexts, initial, n) ==
    IF n = 0 THEN initial
    ELSE Registered(after[n - 1], Features[contexts[n]].context, contexts[n])

Enriches(after, contexts, initial, last) ==
    after = [n \in 0..last |-> Enriched(after, contexts, initial, n)]

\* A context can be enriched by any sequence of setters.
LEMMA EnrichmentExists ==
  ASSUME NEW contexts, NEW initial
  PROVE  \A last \in Nat : \E after : Enriches(after, contexts, initial, last)
<1> DEFINE T == {last \in Nat : \E after : Enriches(after, contexts, initial, last)}
<1>1. 0 \in T
  <2> DEFINE after == [n \in 0..0 |-> initial]
  <2>1. Enriches(after, contexts, initial, 0)
    BY DEF Enriches, Enriched
  <2> QED
    BY <2>1
<1>2. ASSUME NEW last \in Nat, last \in T PROVE last + 1 \in T
  <2>1. PICK before : Enriches(before, contexts, initial, last)
    BY <1>2
  <2> DEFINE f == contexts[last + 1]
             after == [n \in 0..(last + 1) |->
                        IF n <= last THEN before[n]
                        ELSE Registered(before[last], Features[f].context, f)]
  <2>2. ASSUME NEW n \in 0..(last + 1) PROVE after[n] = Enriched(after, contexts, initial, n)
    <3>1. CASE n <= last
      <4>1. n \in 0..last /\ after[n] = before[n]
        BY <3>1
      <4>2. before[n] = Enriched(before, contexts, initial, n)
        BY <2>1, <4>1 DEF Enriches
      <4>3. n # 0 => after[n - 1] = before[n - 1]
        BY <3>1
      <4> HIDE DEF after
      <4> QED
        BY <4>1, <4>2, <4>3 DEF Enriched
    <3>2. CASE n = last + 1
      <4>1. /\ after[n] = Registered(before[last], Features[f].context, f)
            /\ after[n - 1] = before[last] /\ n # 0
        BY <3>2
      <4> HIDE DEF after
      <4> QED
        BY <3>2, <4>1 DEF Enriched
    <3> QED
      BY <3>1, <3>2
  <2>3. after = [n \in 0..(last + 1) |-> after[n]]
    OBVIOUS
  <2> HIDE DEF after
  <2>4. Enriches(after, contexts, initial, last + 1)
    BY <2>2, <2>3 DEF Enriches
  <2> QED
    BY <2>4
<1> HIDE DEF T
<1>3. Nat \subseteq T
  BY <1>1, <1>2, SetInduction
<1> QED
  BY <1>3 DEF T

\* Of those that set a key the last one is seen.
LastSetter(made, contexts, n, k, key) ==
    \E j \in k..n :
        /\ key \in DOMAIN made /\ made[key] = contexts[j]
        /\ key \in Features[contexts[j]].context

\* Of the setters of a key, one no earlier than any given one is seen.
LEMMA LastSetterIsSeen ==
  ASSUME NEW contexts, NEW initial, NEW last \in Nat, NEW after,
         Enriches(after, contexts, initial, last)
  PROVE  \A n \in 0..last : \A k \in 1..n : \A key \in Features[contexts[k]].context :
            LastSetter(after[n], contexts, n, k, key)
<1> DEFINE Seen(n) == \A k \in 1..n : \A key \in Features[contexts[k]].context :
                        LastSetter(after[n], contexts, n, k, key)
           T == {n \in Nat : n <= last => Seen(n)}
<1>1. 0 \in T
  OBVIOUS
<1>2. ASSUME NEW n \in Nat, n \in T PROVE n + 1 \in T
  <2> SUFFICES ASSUME n + 1 <= last, NEW k \in 1..(n + 1), NEW key \in Features[contexts[k]].context
               PROVE  LastSetter(after[n + 1], contexts, n + 1, k, key)
    OBVIOUS
  <2> DEFINE f == contexts[n + 1]
  <2>1. after[n + 1] = Registered(after[n], Features[f].context, f)
    <3>1. n + 1 \in 0..last /\ n + 1 # 0 /\ (n + 1) - 1 = n
      OBVIOUS
    <3>2. after[n + 1] = Enriched(after, contexts, initial, n + 1)
      BY <3>1 DEF Enriches
    <3> QED
      BY <3>1, <3>2 DEF Enriched
  <2>2. CASE key \in Features[f].context
    <3>1. key \in DOMAIN after[n + 1] /\ after[n + 1][key] = f
      BY <2>1, <2>2, RegisteredKeeps
    <3>2. n + 1 \in k..(n + 1)
      OBVIOUS
    <3> QED
      BY <2>2, <3>1, <3>2 DEF LastSetter
  <2>3. CASE key \notin Features[f].context
    <3>1. k \in 1..n
      BY <2>3
    <3>2. PICK j \in k..n : /\ key \in DOMAIN after[n] /\ after[n][key] = contexts[j]
                            /\ key \in Features[contexts[j]].context
      BY <1>2, <3>1 DEF LastSetter
    <3>3. key \in DOMAIN after[n + 1] /\ after[n + 1][key] = contexts[j]
      BY <2>1, <2>3, <3>2, RegisteredKeeps
    <3>4. j \in k..(n + 1)
      OBVIOUS
    <3> QED
      BY <3>2, <3>3, <3>4 DEF LastSetter
  <2> QED
    BY <2>2, <2>3
<1> HIDE DEF T
<1>3. Nat \subseteq T
  BY <1>1, <1>2, SetInduction
<1> QED
  BY <1>3 DEF T

\* What the resolvers are given.
LEMMA ContextIsEnriched ==
  ASSUME NEW initial, NEW last \in Nat, Len(served.context) = last
  PROVE  \A k \in 1..last : \A key \in Features[served.context[k]].context :
            LastSetter(ContextOf(initial), served.context, last, k, key)
<1> DEFINE after == CHOOSE g : Enriches(g, served.context, initial, last)
<1>1. Enriches(after, served.context, initial, last)
  BY EnrichmentExists
<1>2. ContextOf(initial) = after[last]
  BY DEF ContextOf, Enriches, Enriched
<1>3. PICK contexts : contexts = served.context
  OBVIOUS
<1> HIDE DEF after
<1>4. Enriches(after, contexts, initial, last)
  BY <1>1, <1>3
<1>5. last \in 0..last
  OBVIOUS
<1>6. \A k \in 1..last : \A key \in Features[contexts[k]].context :
            LastSetter(after[last], contexts, last, k, key)
  BY <1>4, <1>5, LastSetterIsSeen
<1> QED
  BY <1>2, <1>3, <1>6

\* What is registered when the server is made is served.
LEMMA RegisteredIsServed == RegisteredInv => ServesWhatWasRegistered
<1> SUFFICES ASSUME RegisteredInv, phase = "up" PROVE ServesWhatWasRegistered
  BY DEF ServesWhatWasRegistered
<1> DEFINE c == served.context
<1>1. /\ c = context /\ served.loaders = loaders
      /\ \A f \in installed : state[f] = "done" /\ f \in ToSet(c)
      /\ c \in Seq(installed)
      /\ \A m, n \in DOMAIN c : c[m] = c[n] => m = n
  BY DEF RegisteredInv, ServedFollows, RegistryTypes, ContextFollows
<1>2. PICK last \in Nat : Len(c) = last /\ DOMAIN c = 1..last
  BY <1>1, LenProperties
<1>3. Len(c) = Cardinality(installed)
  <2>1. c \in [1..last -> installed]
    BY <1>1, <1>2, LenProperties
  <2>2. c \in Injection(1..last, installed)
    BY <1>1, <1>2, <2>1 DEF Injection, IsInjective
  <2>3. c \in Surjection(1..last, installed)
    BY <1>1, <1>2, <2>1 DEF Surjection, ToSet
  <2>4. ExistsBijection(1..last, installed)
    BY <2>2, <2>3 DEF ExistsBijection, Bijection
  <2> QED
    BY <1>2, <2>4, FS_CountingElements
<1>4. \A f \in installed : \A name \in Features[f].loaders :
            name \in DOMAIN served.loaders /\ served.loaders[name] = f
  BY <1>1 DEF RegisteredInv, LoadersFollow
<1>5. \A f \in installed : Features[f].awaits =>
            \A id \in ToSet(Features[f].modules) :
                id \in DOMAIN served.modules /\ served.modules[id] = f
  BY DEF RegisteredInv, ServedFollows, Has
<1>6. \A id \in DOMAIN served.modules :
            Features[served.modules[id]].loaders \subseteq DOMAIN served.loaders
  BY <1>4 DEF RegisteredInv, ServedFollows
<1> DEFINE position(g) == CHOOSE n \in DOMAIN c : c[n] = g
           initial == [request |-> "yoga"]
<1>7. ASSUME NEW n \in 1..last PROVE position(c[n]) = n
  BY <1>1, <1>2
<1>8. ASSUME NEW f \in installed, NEW key \in Features[f].context
      PROVE  /\ key \in Features[ContextOf(initial)[key]].context
             /\ position(f) <= position(ContextOf(initial)[key])
  <2>1. PICK k \in 1..last : c[k] = f
    BY <1>1, <1>2 DEF ToSet
  <2>2. LastSetter(ContextOf(initial), c, last, k, key)
    BY <1>2, <1>8, <2>1, ContextIsEnriched
  <2>3. PICK j \in k..last : /\ ContextOf(initial)[key] = c[j]
                             /\ key \in Features[c[j]].context
    BY <2>2 DEF LastSetter
  <2>4. position(f) = k
    BY <1>7, <2>1
  <2>5. j \in 1..last /\ k <= j
    OBVIOUS
  <2>6. position(c[j]) = j
    BY <1>7, <2>5
  <2> QED
    BY <2>3, <2>4, <2>5, <2>6
<1> HIDE DEF position, initial
<1> QED
  BY <1>3, <1>4, <1>5, <1>6, <1>8 DEF ServesWhatWasRegistered, position, initial

\* A server that is up serves what was registered with it, in whatever order the
\* features were initialised and their modules resolved.
THEOREM ServesTheRegistered == Spec => []ServesWhatWasRegistered
  BY InitRegistered, NextRegistered, RegisteredIsServed, PTL DEF Spec
=============================================================================
