------------------------ MODULE SecondaryIndexProofs ------------------------
(* Proofs about SecondaryIndex: the search, the sorted index and the loops     *)
(* that change it, type correctness, and the properties its run checks, for    *)
(* every number of rows, every set of contents and every batch threshold.      *)
EXTENDS SecondaryIndex, NatFacts, FiniteSetTheorems, SequenceTheorems

----------------------------------------------------------------------------
\* The order of the entries.

Rows == [Id -> RowSet]

\* Ids are numbers, rows are triples of them, and a set of ids is finite.
LEMMA Ids ==
    /\ \A i \in Id : i \in Nat
    /\ \A ids \in SUBSET Id : IsFiniteSet(ids) /\ Cardinality(ids) \in Nat
    /\ \A rows \in Rows : \A i \in Id : rows[i] \in RowSet /\ rows[i][1] \in Int /\ rows[i][2] \in Int
<1>1. MaxId \in Nat /\ \A row \in RowSet : row \in Seq(Int) /\ Len(row) = 3
  BY IndexAssumption
<1>2. IsFiniteSet(Id)
  BY <1>1, FS_Interval DEF Id
<1>3. \A ids \in SUBSET Id : IsFiniteSet(ids) /\ Cardinality(ids) \in Nat
  BY <1>2, FS_Subset, FS_CardinalityType
<1>4. \A row \in RowSet : row[1] \in Int /\ row[2] \in Int
  BY <1>1
<1> QED BY <1>1, <1>3, <1>4 DEF Id, Rows

\* compare, field by field.
LEMMA Compared ==
    ASSUME NEW rows \in Rows, NEW i \in Id, NEW j \in Id
    PROVE  Precedes(rows, i, j) <=>
              \/ rows[i][1] < rows[j][1]
              \/ /\ rows[i][1] = rows[j][1]
                 /\ \/ rows[i][2] < rows[j][2]
                    \/ rows[i][2] = rows[j][2] /\ i < j
<1> DEFINE x == Rank(rows, i)
           y == Rank(rows, j)
<1>1. Len(x) = 3 /\ x[1] = rows[i][1] /\ x[2] = rows[i][2] /\ x[3] = i
  BY DEF Rank
<1>2. y[1] = rows[j][1] /\ y[2] = rows[j][2] /\ y[3] = j
  BY DEF Rank
<1>3. /\ x[1] \in Int /\ x[2] \in Int /\ x[3] \in Int /\ y[1] \in Int /\ y[2] \in Int /\ y[3] \in Int
  BY <1>1, <1>2, Ids
<1>4. Precedes(rows, i, j) <=> \E k \in 1 .. Len(x) : x[k] < y[k] /\ \A m \in 1 .. (k - 1) : x[m] = y[m]
  BY DEF Precedes, Less
<1> HIDE DEF x, y
<1>5. (\E k \in 1 .. 3 : x[k] < y[k] /\ \A m \in 1 .. (k - 1) : x[m] = y[m])
      <=> x[1] < y[1] \/ (x[1] = y[1] /\ (x[2] < y[2] \/ (x[2] = y[2] /\ x[3] < y[3])))
  <2>1. ASSUME NEW k \in 1 .. 3, x[k] < y[k], \A m \in 1 .. (k - 1) : x[m] = y[m]
        PROVE  x[1] < y[1] \/ (x[1] = y[1] /\ (x[2] < y[2] \/ (x[2] = y[2] /\ x[3] < y[3])))
    <3>1. k = 1 \/ k = 2 \/ k = 3
      OBVIOUS
    <3> QED BY <2>1, <3>1
  <2>2. ASSUME x[1] < y[1] PROVE \E k \in 1 .. 3 : x[k] < y[k] /\ \A m \in 1 .. (k - 1) : x[m] = y[m]
    <3> WITNESS 1 \in 1 .. 3
    <3> QED BY <2>2
  <2>3. ASSUME x[1] = y[1], x[2] < y[2] PROVE \E k \in 1 .. 3 : x[k] < y[k] /\ \A m \in 1 .. (k - 1) : x[m] = y[m]
    <3> WITNESS 2 \in 1 .. 3
    <3>1. \A m \in 1 .. (2 - 1) : m = 1
      OBVIOUS
    <3> QED BY <2>3, <3>1
  <2>4. ASSUME x[1] = y[1], x[2] = y[2], x[3] < y[3]
        PROVE  \E k \in 1 .. 3 : x[k] < y[k] /\ \A m \in 1 .. (k - 1) : x[m] = y[m]
    <3> WITNESS 3 \in 1 .. 3
    <3>1. \A m \in 1 .. (3 - 1) : m = 1 \/ m = 2
      OBVIOUS
    <3> QED BY <2>4, <3>1
  <2> QED BY <2>1, <2>2, <2>3, <2>4
<1> QED BY <1>1, <1>2, <1>4, <1>5

\* The order is strict and total on the ids.
LEMMA StrictOrder ==
    ASSUME NEW rows \in Rows, NEW i \in Id, NEW j \in Id, NEW k \in Id
    PROVE  /\ ~Precedes(rows, i, i)
           /\ Precedes(rows, i, j) => ~Precedes(rows, j, i)
           /\ Precedes(rows, i, j) /\ Precedes(rows, j, k) => Precedes(rows, i, k)
           /\ i = j \/ Precedes(rows, i, j) \/ Precedes(rows, j, i)
<1>1. /\ i \in Int /\ j \in Int /\ k \in Int
      /\ rows[i][1] \in Int /\ rows[i][2] \in Int /\ rows[j][1] \in Int /\ rows[j][2] \in Int
      /\ rows[k][1] \in Int /\ rows[k][2] \in Int
  BY Ids
<1>2. \A a, b \in {i, j, k} : a \in Id /\ b \in Id
  OBVIOUS
<1>3. \A a, b \in {i, j, k} :
        Precedes(rows, a, b) <=>
              \/ rows[a][1] < rows[b][1]
              \/ /\ rows[a][1] = rows[b][1]
                 /\ \/ rows[a][2] < rows[b][2]
                    \/ rows[a][2] = rows[b][2] /\ a < b
  BY <1>2, Compared
<1> QED BY <1>1, <1>3

\* It looks at the two rows only.
LEMMA SameOrder ==
    ASSUME NEW rows \in Rows, NEW other \in Rows, NEW i \in Id, NEW j \in Id, rows[i] = other[i], rows[j] = other[j]
    PROVE  Precedes(rows, i, j) <=> Precedes(other, i, j)
BY DEF Precedes, Rank

\* A sequence of ids in the order of the index.
Ordered(es, rows) ==
    es \in Seq(Id) /\ \A p, q \in 1 .. Len(es) : p < q => Precedes(rows, es[p], es[q])

\* What is before a row in a set, and how many.
Before(ids, rows, i) == {j \in ids : Precedes(rows, j, i)}

\* The count before a row grows along the order and is less than the set's.
LEMMA Ranks ==
    ASSUME NEW rows \in Rows, NEW ids \in SUBSET Id
    PROVE  /\ \A i \in ids : Cardinality(Before(ids, rows, i)) \in 0 .. Cardinality(ids) - 1
           /\ \A i, j \in ids : Precedes(rows, i, j) =>
                 Cardinality(Before(ids, rows, i)) < Cardinality(Before(ids, rows, j))
<1>1. \A i \in ids : Before(ids, rows, i) \in SUBSET ids /\ Before(ids, rows, i) \in SUBSET Id
  BY DEF Before
<1>2. \A i \in ids : i \notin Before(ids, rows, i)
  BY StrictOrder DEF Before
<1>3. IsFiniteSet(ids) /\ Cardinality(ids) \in Nat
  BY Ids
<1>4. \A i \in ids : IsFiniteSet(Before(ids, rows, i)) /\ Cardinality(Before(ids, rows, i)) \in Nat
  BY <1>1, Ids
<1>5. ASSUME NEW i \in ids PROVE Cardinality(Before(ids, rows, i)) < Cardinality(ids)
  <2>1. Cardinality(Before(ids, rows, i)) <= Cardinality(ids) /\ Cardinality(ids) # Cardinality(Before(ids, rows, i))
    BY <1>1, <1>2, <1>3, FS_Subset
  <2> QED BY <1>3, <1>4, <2>1
<1>6. ASSUME NEW i \in ids, NEW j \in ids, Precedes(rows, i, j)
      PROVE  Cardinality(Before(ids, rows, i)) < Cardinality(Before(ids, rows, j))
  <2>1. Before(ids, rows, i) \in SUBSET Before(ids, rows, j)
    BY <1>6, StrictOrder DEF Before
  <2>2. i \in Before(ids, rows, j)
    BY <1>6 DEF Before
  <2>3. /\ Cardinality(Before(ids, rows, i)) <= Cardinality(Before(ids, rows, j))
        /\ Cardinality(Before(ids, rows, j)) # Cardinality(Before(ids, rows, i))
    BY <1>2, <1>4, <2>1, <2>2, FS_Subset
  <2> QED BY <1>4, <2>3
<1> QED BY <1>3, <1>4, <1>5, <1>6

\* Every place of a sorted set has its row.
LEMMA RanksAreTaken ==
    ASSUME NEW rows \in Rows, NEW ids \in SUBSET Id, NEW p \in 1 .. Cardinality(ids)
    PROVE  \E i \in ids : Cardinality(Before(ids, rows, i)) = p - 1
<1> DEFINE n == Cardinality(ids)
           places == 0 .. n - 1
           f == [i \in ids |-> Cardinality(Before(ids, rows, i))]
<1>1. n \in Nat /\ IsFiniteSet(ids)
  BY Ids
<1>2. IsFiniteSet(places) /\ Cardinality(places) = n
  <2>1. n - 1 \in Int /\ (0 > n - 1 <=> n = 0) /\ (n - 1) - 0 + 1 = n
    BY <1>1
  <2> HIDE DEF n
  <2> QED BY <2>1, FS_Interval
<1>3. f \in [ids -> places]
  BY Ranks
<1>4. ASSUME NEW i \in ids, NEW j \in ids, f[i] = f[j] PROVE i = j
  <2>1. f[i] = Cardinality(Before(ids, rows, i)) /\ f[j] = Cardinality(Before(ids, rows, j))
    OBVIOUS
  <2>2. f[i] \in Int /\ f[j] \in Int
    BY <1>1, <1>3
  <2>3. (Precedes(rows, i, j) => f[i] < f[j]) /\ (Precedes(rows, j, i) => f[j] < f[i])
    BY <2>1, Ranks
  <2> HIDE DEF f
  <2>4. ~Precedes(rows, i, j) /\ ~Precedes(rows, j, i)
    BY <1>4, <2>2, <2>3
  <2> QED BY <2>4, StrictOrder
<1> HIDE DEF f, n, places
<1>5. f \in Injection(ids, places)
  BY <1>3, <1>4 DEF Injection, IsInjective
<1>6. f \in Surjection(ids, places)
  BY <1>2, <1>5, FS_Injection DEF n
<1>7. p - 1 \in places
  BY <1>1 DEF places, n
<1>8. PICK i \in ids : f[i] = p - 1
  BY <1>6, <1>7 DEF Surjection
<1> QED BY <1>8 DEF f

\* A sorted set is an ordered sequence of its rows.
LEMMA SortedIsOrdered ==
    ASSUME NEW rows \in Rows, NEW ids \in SUBSET Id
    PROVE  Ordered(Sorted(ids, rows), rows) /\ ToSet(Sorted(ids, rows)) = ids
<1> DEFINE n == Cardinality(ids)
           s == Sorted(ids, rows)
           rank(i) == Cardinality(Before(ids, rows, i))
<1>1. n \in Nat
  BY Ids
<1>2. ASSUME NEW p \in 1 .. n PROVE s[p] \in ids /\ rank(s[p]) = p - 1
  <2>1. s[p] = CHOOSE i \in ids : rank(i) = p - 1
    BY <1>1 DEF Sorted, Before
  <2>2. \E i \in ids : rank(i) = p - 1
    BY RanksAreTaken
  <2> HIDE DEF rank, s
  <2> QED BY <2>1, <2>2
<1>3. s = [p \in 1 .. n |-> s[p]]
  <2> DEFINE at(p) == CHOOSE i \in ids : Cardinality({j \in ids : Precedes(rows, j, i)}) = p - 1
  <2>1. s = [p \in 1 .. n |-> at(p)]
    BY DEF Sorted
  <2> HIDE DEF at, s, n
  <2> QED BY <2>1
<1> HIDE DEF s, n
<1>4. s \in Seq(ids) /\ s \in Seq(Id) /\ Len(s) = n /\ DOMAIN s = 1 .. n
  <2>1. s \in [1 .. n -> ids] /\ s \in [1 .. n -> Id]
    BY <1>2, <1>3
  <2> QED BY <1>1, <2>1
<1>5. ASSUME NEW p \in 1 .. n, NEW q \in 1 .. n, p < q PROVE Precedes(rows, s[p], s[q])
  <2>1. s[p] \in ids /\ s[q] \in ids /\ rank(s[p]) = p - 1 /\ rank(s[q]) = q - 1
    BY <1>2
  <2>2. Precedes(rows, s[q], s[p]) => rank(s[q]) < rank(s[p])
    BY <2>1, Ranks
  <2>3. p \in Int /\ q \in Int
    BY <1>1
  <2> HIDE DEF rank
  <2>4. s[p] # s[q] /\ ~Precedes(rows, s[q], s[p])
    BY <1>5, <2>1, <2>2, <2>3
  <2> QED BY <2>1, <2>4, StrictOrder
<1>6. ToSet(s) = ids
  <2>1. ASSUME NEW i \in ids PROVE \E p \in 1 .. n : s[p] = i
    <3> DEFINE p == rank(i) + 1
    <3>1. rank(i) \in 0 .. n - 1
      BY Ranks DEF n
    <3>2. p \in 1 .. n /\ p - 1 = rank(i)
      <4> HIDE DEF rank
      <4> QED BY <1>1, <3>1
    <3>3. s[p] \in ids /\ rank(s[p]) = rank(i)
      BY <1>2, <3>2
    <3>4. /\ Precedes(rows, s[p], i) => rank(s[p]) < rank(i)
          /\ Precedes(rows, i, s[p]) => rank(i) < rank(s[p])
      BY <3>3, Ranks
    <3>5. rank(i) \in Int /\ rank(s[p]) \in Int
      BY <1>1, <3>1, <3>3
    <3> HIDE DEF p, rank
    <3>6. ~Precedes(rows, s[p], i) /\ ~Precedes(rows, i, s[p])
      BY <3>3, <3>4, <3>5
    <3>7. s[p] = i
      BY <3>3, <3>6, StrictOrder
    <3> QED BY <3>2, <3>7
  <2> QED BY <1>2, <1>4, <2>1 DEF ToSet
<1> QED BY <1>4, <1>5, <1>6 DEF Ordered, s

\* An ordered sequence is the sorted set of its rows: there is only one.
LEMMA OrderedIsSorted ==
    ASSUME NEW rows \in Rows, NEW es, Ordered(es, rows)
    PROVE  es = Sorted(ToSet(es), rows)
<1> DEFINE n == Len(es)
           ids == ToSet(es)
<1>1. n \in Nat /\ DOMAIN es = 1 .. n /\ es \in [1 .. n -> Id] /\ es \in Seq(Id)
  BY DEF Ordered
<1>2. ids = {es[p] : p \in 1 .. n} /\ ids \in SUBSET Id
  BY <1>1 DEF ToSet
<1>3. \A p, q \in 1 .. n : p < q => Precedes(rows, es[p], es[q])
  BY DEF Ordered
<1> HIDE DEF ids, n
<1>4. ASSUME NEW p \in 1 .. n, NEW q \in 1 .. n
      PROVE  (es[p] = es[q] => p = q) /\ (Precedes(rows, es[q], es[p]) <=> q < p)
  <2>1. es[p] \in Id /\ es[q] \in Id
    BY <1>1
  <2>2. p < q \/ p = q \/ q < p
    BY <1>1
  <2>3. (p < q => Precedes(rows, es[p], es[q])) /\ (q < p => Precedes(rows, es[q], es[p]))
    BY <1>3
  <2>4. ~Precedes(rows, es[p], es[p]) /\ ~(Precedes(rows, es[p], es[q]) /\ Precedes(rows, es[q], es[p]))
    BY <2>1, StrictOrder
  <2>5. p \in Int /\ q \in Int
    BY <1>1
  <2> QED BY <2>2, <2>3, <2>4, <2>5
<1>5. ASSUME NEW p \in 1 .. n PROVE Cardinality(Before(ids, rows, es[p])) = p - 1
  <2> DEFINE f == [q \in 1 .. p - 1 |-> es[q]]
             B == Before(ids, rows, es[p])
  <2>1. p - 1 \in Nat /\ \A q \in 1 .. p - 1 : q \in 1 .. n /\ q < p
    BY <1>1
  <2>2. ASSUME NEW j \in B PROVE \E q \in 1 .. p - 1 : f[q] = j
    <3>1. j \in ids /\ Precedes(rows, j, es[p])
      BY DEF Before
    <3>2. PICK q \in 1 .. n : j = es[q]
      BY <1>2, <3>1
    <3>3. q \in 1 .. p - 1
      BY <1>1, <1>4, <3>1, <3>2
    <3> QED BY <3>2, <3>3
  <2>3. f \in [1 .. p - 1 -> B]
    <3>1. ASSUME NEW q \in 1 .. p - 1 PROVE es[q] \in B
      BY <1>2, <1>4, <2>1 DEF Before
    <3> QED BY <3>1
  <2>4. \A q, r \in 1 .. p - 1 : f[q] = f[r] => q = r
    BY <1>4, <2>1
  <2> HIDE DEF f, B
  <2>5. f \in Bijection(1 .. p - 1, B)
    BY <2>2, <2>3, <2>4 DEF Bijection, Injection, Surjection, IsInjective
  <2>6. Cardinality(B) = p - 1
    BY <2>1, <2>5, FS_CountingElements DEF ExistsBijection
  <2> QED BY <2>6 DEF B
<1>6. Cardinality(ids) = n
  <2>1. es \in Bijection(1 .. n, ids)
    BY <1>1, <1>2, <1>4 DEF Bijection, Injection, Surjection, IsInjective
  <2> QED BY <1>1, <2>1, FS_CountingElements DEF ExistsBijection
<1>7. ASSUME NEW p \in 1 .. n PROVE es[p] = CHOOSE i \in ids : Cardinality(Before(ids, rows, i)) = p - 1
  <2>1. es[p] \in ids
    BY <1>2
  <2>2. ASSUME NEW i \in ids, Cardinality(Before(ids, rows, i)) = p - 1 PROVE i = es[p]
    <3>1. PICK q \in 1 .. n : i = es[q]
      BY <1>2
    <3>2. p - 1 = q - 1
      BY <1>5, <2>2, <3>1
    <3>3. p = q
      BY <1>1, <3>2
    <3> QED BY <3>1, <3>3
  <2> QED BY <1>5, <2>1, <2>2
<1>8. Sorted(ids, rows) = [p \in 1 .. n |-> CHOOSE i \in ids : Cardinality(Before(ids, rows, i)) = p - 1]
  BY <1>6 DEF Sorted, Before
<1>9. es = [p \in 1 .. n |-> es[p]]
  BY <1>1
<1> QED BY <1>7, <1>8, <1>9 DEF ids

----------------------------------------------------------------------------
\* The search.


\* One round of sort.Search.
Halved(b, hits) ==
    LET h == (b[1] + b[2]) \div 2
    IN  IF b[1] >= b[2] THEN <<b[1], b[2]>> ELSE IF h \in hits THEN <<b[1], h>> ELSE <<h + 1, b[2]>>

\* The definition of Search is one of a loop.
LEMMA SearchLoop ==
    ASSUME NEW n \in Nat, NEW hits
    PROVE  \E b : b[0] = <<0, n>> /\ Search(n, hits) = b[n][1] /\ \A k \in 1 .. n : b[k] = Halved(b[k - 1], hits)
<1> DEFINE X == Int \X Int
           g == [r \in (1 .. n) \X X |-> Halved(r[2], hits)]
           x0 == <<0, n>>
<1>1. x0 \in X
  OBVIOUS
<1>2. \A x \in X : Halved(x, hits) \in X
  BY DEF Halved
<1> HIDE DEF X, x0
<1>3. g \in [(1 .. n) \X X -> X] /\ \A k \in 1 .. n : \A x \in X : g[<<k, x>>] = Halved(x, hits)
  BY <1>2
<1> HIDE DEF g
<1>4. PICK f : LoopIn(f, n, X, x0, g)
  BY <1>1, <1>3, LoopExistsIn
<1>7. f \in [0 .. n -> X] /\ f[0] = <<0, n>>
  BY <1>4 DEF LoopIn, x0
<1>8. ASSUME NEW k \in 1 .. n PROVE f[k] = Halved(f[k - 1], hits)
  BY <1>3, <1>4 DEF LoopIn
<1> DEFINE body(b) == [k \in 0 .. n |-> IF k = 0 THEN <<0, n>>
                          ELSE LET i == b[k - 1][1]
                                   j == b[k - 1][2]
                                   h == (i + j) \div 2
                               IN  IF i >= j THEN <<i, j>> ELSE IF h \in hits THEN <<i, h>> ELSE <<h + 1, j>>]
           c == CHOOSE b : b = body(b)
<1>9. ASSUME NEW b PROVE body(b) = [k \in 0 .. n |-> IF k = 0 THEN <<0, n>> ELSE Halved(b[k - 1], hits)]
  BY DEF Halved
<1>10. f = body(f)
  <2> DEFINE d == [k \in 0 .. n |-> IF k = 0 THEN <<0, n>> ELSE Halved(f[k - 1], hits)]
  <2>1. ASSUME NEW k \in 0 .. n PROVE f[k] = d[k]
    <3>1. k = 0 \/ k \in 1 .. n
      OBVIOUS
    <3>2. k # 0 => d[k] = Halved(f[k - 1], hits)
      OBVIOUS
    <3> QED BY <1>7, <1>8, <3>1, <3>2
  <2>2. f = d
    BY <1>7, <2>1
  <2> HIDE DEF body
  <2> QED BY <1>9, <2>2
<1>11. Search(n, hits) = c[n][1]
  BY DEF Search
<1> HIDE DEF body
<1>12. c = body(c)
  BY <1>10
<1> HIDE DEF c
<1>13. c = [k \in 0 .. n |-> IF k = 0 THEN <<0, n>> ELSE Halved(c[k - 1], hits)]
  BY <1>9, <1>12
<1>14. c[0] = <<0, n>>
  BY <1>13
<1>15. ASSUME NEW k \in 1 .. n PROVE c[k] = Halved(c[k - 1], hits)
  <2>1. k \in 0 .. n /\ k # 0
    OBVIOUS
  <2> DEFINE at(m) == IF m = 0 THEN <<0, n>> ELSE Halved(c[m - 1], hits)
  <2>2. c = [m \in 0 .. n |-> at(m)]
    BY <1>13
  <2>3. c[k] = at(k)
    <3> HIDE DEF at
    <3> QED BY <2>1, <2>2
  <2> QED BY <2>1, <2>3
<1> QED BY <1>11, <1>14, <1>15

\* From some place on.
Upward(n, hits) == \A p, q \in 0 .. n - 1 : p \in hits /\ p <= q => q \in hits

\* The search stays within the sequence, and finds the first hit when all behind it
\* are hits too.
LEMMA SearchFinds ==
    ASSUME NEW n \in Nat, NEW hits
    PROVE  /\ Search(n, hits) \in 0 .. n
           /\ Upward(n, hits) => \A p \in 0 .. n - 1 : p \in hits <=> Search(n, hits) <= p
<1>1. PICK b : b[0] = <<0, n>> /\ Search(n, hits) = b[n][1] /\ \A k \in 1 .. n : b[k] = Halved(b[k - 1], hits)
  BY SearchLoop
<1> DEFINE Sound(i, j) == Upward(n, hits) => \A p \in 0 .. n - 1 : (p < i => p \notin hits) /\ (p >= j => p \in hits)
           Good(k, x) == /\ x[1] \in 0 .. n /\ x[2] \in 0 .. n /\ x[1] <= x[2] /\ x[2] - x[1] <= n - k
                         /\ Sound(x[1], x[2])
           R == {r \in Nat \X (Int \X Int) : Good(r[1], r[2])}
<1>2. <<0, b[0]>> \in R
  <2>1. Sound(0, n)
    OBVIOUS
  <2> HIDE DEF Sound
  <2> QED BY <1>1, <2>1
<1>3. ASSUME NEW k \in 1 .. n, <<k - 1, b[k - 1]>> \in R PROVE <<k, b[k]>> \in R
  <2> DEFINE i == b[k - 1][1]
             j == b[k - 1][2]
             h == (i + j) \div 2
  <2>1. /\ b[k - 1] \in Int \X Int /\ i \in 0 .. n /\ j \in 0 .. n /\ i <= j /\ j - i <= n - (k - 1)
        /\ Sound(i, j)
    <3> HIDE DEF Sound
    <3> QED BY <1>3
  <2>2. b[k] = Halved(b[k - 1], hits)
    BY <1>1
  <2>3. k \in Nat /\ k <= n
    OBVIOUS
  <2> HIDE DEF R
  <2>4. CASE i = j
    <3>1. b[k] = <<i, j>>
      BY <2>1, <2>2, <2>4 DEF Halved
    <3>2. j - i <= n - k
      BY <2>1, <2>3, <2>4
    <3> HIDE DEF i, j, h, Sound
    <3> QED BY <2>1, <2>3, <3>1, <3>2 DEF R
  <2>5. CASE i < j /\ h \in hits
    <3>1. b[k] = <<i, h>>
      BY <2>1, <2>2, <2>5 DEF Halved
    <3>2. h \in 0 .. n /\ i <= h /\ h < j /\ h <= n - 1 /\ h - i <= n - k
      BY <2>1, <2>3, <2>5
    <3>3. Sound(i, h)
      <4> HIDE DEF h, i, j
      <4> QED BY <2>1, <2>5, <3>2 DEF Upward
    <3> HIDE DEF i, j, h, Sound
    <3> QED BY <2>1, <2>3, <3>1, <3>2, <3>3 DEF R
  <2>6. CASE i < j /\ h \notin hits
    <3>1. b[k] = <<h + 1, j>>
      BY <2>1, <2>2, <2>6 DEF Halved
    <3>2. h + 1 \in 0 .. n /\ h \in 0 .. n - 1 /\ h + 1 <= j /\ j - (h + 1) <= n - k
      BY <2>1, <2>3, <2>6
    <3>3. Sound(h + 1, j)
      <4> HIDE DEF h, i, j
      <4> QED BY <2>1, <2>6, <3>2 DEF Upward
    <3> HIDE DEF i, j, h, Sound
    <3> QED BY <2>1, <2>3, <3>1, <3>2, <3>3 DEF R
  <2> QED BY <2>1, <2>4, <2>5, <2>6
<1>4. \A k \in 0 .. n : <<k, b[k]>> \in R
  <2> HIDE DEF R
  <2> QED BY <1>2, <1>3, LoopInvariant
<1>5. /\ b[n][1] \in 0 .. n /\ b[n][2] = b[n][1]
      /\ Sound(b[n][1], b[n][2])
  <2>1. <<n, b[n]>> \in R
    <3> HIDE DEF R
    <3> QED BY <1>4
  <2> HIDE DEF Sound
  <2> QED BY <2>1
<1> QED BY <1>1, <1>5

----------------------------------------------------------------------------
\* One entry.

\* The place of a row: in an ordered index, what precedes it and nothing else is
\* before that place.
LEMMA PositionFinds ==
    ASSUME NEW rows \in Rows, NEW es \in Seq(Id), NEW i \in Id
    PROVE  /\ Position(es, rows, i) \in 0 .. Len(es)
           /\ Ordered(es, rows) => \A p \in 1 .. Len(es) : Precedes(rows, es[p], i) <=> p <= Position(es, rows, i)
<1> DEFINE n == Len(es)
           hits == {p \in 0 .. n - 1 : ~Precedes(rows, es[p + 1], i)}
<1>1. n \in Nat /\ \A p \in 1 .. n : es[p] \in Id
  OBVIOUS
<1>2. Position(es, rows, i) = Search(n, hits)
  BY DEF Position
<1>3. Search(n, hits) \in 0 .. n
  <2> HIDE DEF hits
  <2> QED BY <1>1, SearchFinds
<1>4. ASSUME Ordered(es, rows), NEW p \in 1 .. n PROVE Precedes(rows, es[p], i) <=> p <= Search(n, hits)
  <2>1. Upward(n, hits)
    <3>1. ASSUME NEW a \in 0 .. n - 1, NEW b \in 0 .. n - 1, a \in hits, a <= b PROVE b \in hits
      <4>1. a + 1 \in 1 .. n /\ b + 1 \in 1 .. n /\ (a = b \/ a + 1 < b + 1)
        BY <1>1, <3>1
      <4>2. a = b \/ Precedes(rows, es[a + 1], es[b + 1])
        BY <1>4, <4>1 DEF Ordered
      <4>3. ~Precedes(rows, es[a + 1], i) /\ es[a + 1] \in Id /\ es[b + 1] \in Id
        BY <1>1, <3>1, <4>1
      <4>4. ~Precedes(rows, es[b + 1], i)
        BY <4>2, <4>3, StrictOrder
      <4> QED BY <4>4
    <3> HIDE DEF hits, n
    <3> QED BY <3>1 DEF Upward
  <2>2. p - 1 \in 0 .. n - 1 /\ (p - 1) + 1 = p
    BY <1>1
  <2>3. p - 1 \in hits <=> Search(n, hits) <= p - 1
    <3> HIDE DEF hits, n
    <3> QED BY <1>1, <2>1, <2>2, SearchFinds
  <2>4. p - 1 \in hits <=> ~Precedes(rows, es[p], i)
    BY <2>2
  <2>5. p \in Int /\ Search(n, hits) \in Int
    <3> HIDE DEF hits
    <3> QED BY <1>1, <1>3
  <2> HIDE DEF hits, n
  <2> QED BY <2>3, <2>4, <2>5
<1> QED BY <1>2, <1>3, <1>4

\* The places of a sequence without one of its entries.
LEMMA RemovedAt ==
    ASSUME NEW S, NEW s \in Seq(S), NEW p \in 1 .. Len(s)
    PROVE  /\ RemoveAt(s, p) \in Seq(S) /\ Len(RemoveAt(s, p)) = Len(s) - 1
           /\ \A k \in 1 .. Len(s) - 1 : RemoveAt(s, p)[k] = IF k < p THEN s[k] ELSE s[k + 1]
<1> DEFINE a == SubSeq(s, 1, p - 1)
           b == SubSeq(s, p + 1, Len(s))
<1>1. Len(s) \in Nat /\ p - 1 \in 0 .. Len(s) /\ p + 1 \in 1 .. Len(s) + 1
  OBVIOUS
<1>2. a \in Seq(S) /\ Len(a) = p - 1 /\ \A k \in 1 .. p - 1 : a[k] = s[k]
  BY <1>1
<1>3. b \in Seq(S) /\ Len(b) = Len(s) - p /\ \A k \in 1 .. Len(s) - p : b[k] = s[p + k]
  BY <1>1
<1>4. RemoveAt(s, p) = a \o b
  BY DEF RemoveAt
<1> HIDE DEF a, b
<1>5. a \o b \in Seq(S) /\ Len(a \o b) = Len(s) - 1
  <2>1. a \o b \in Seq(S) /\ Len(a \o b) = Len(a) + Len(b)
    BY <1>2, <1>3, ConcatProperties
  <2>2. (p - 1) + (Len(s) - p) = Len(s) - 1
    BY <1>1
  <2> QED BY <1>2, <1>3, <2>1, <2>2
<1>6. \A k \in 1 .. Len(a) + Len(b) : (a \o b)[k] = IF k <= Len(a) THEN a[k] ELSE b[k - Len(a)]
  BY <1>2, <1>3, ConcatProperties
<1>7. ASSUME NEW k \in 1 .. Len(s) - 1 PROVE (a \o b)[k] = IF k < p THEN s[k] ELSE s[k + 1]
  <2>1. CASE k < p
    BY <1>1, <1>2, <1>3, <1>6, <2>1
  <2>2. CASE k >= p
    <3>1. /\ k - (p - 1) \in 1 .. Len(s) - p /\ p + (k - (p - 1)) = k + 1
          /\ ~(k <= p - 1) /\ ~(k < p) /\ k \in 1 .. Len(a) + Len(b)
      BY <1>1, <1>2, <1>3, <2>2
    <3>2. (a \o b)[k] = b[k - (p - 1)]
      BY <1>2, <1>6, <3>1
    <3>3. b[k - (p - 1)] = s[p + (k - (p - 1))]
      BY <1>3, <3>1
    <3> QED BY <3>1, <3>2, <3>3
  <2>3. k < p \/ k >= p
    BY <1>1
  <2> QED BY <2>1, <2>2, <2>3
<1> QED BY <1>4, <1>5, <1>7

\* What is at each place once e has been inserted at p.
HasInserted(r, s, p, e) ==
    /\ Len(r) = Len(s) + 1
    /\ \A k \in 1 .. Len(s) + 1 : r[k] = IF k < p THEN s[k] ELSE IF k = p THEN e ELSE s[k - 1]

\* A sequence with one entry more has it at the place asked for, and the rest around it.
LEMMA InsertedAt ==
    ASSUME NEW S, NEW s \in Seq(S), NEW p \in 1 .. Len(s) + 1, NEW e \in S
    PROVE  InsertAt(s, p, e) \in Seq(S) /\ HasInserted(InsertAt(s, p, e), s, p, e)
<1> DEFINE a == SubSeq(s, 1, p - 1)
           b == SubSeq(s, p, Len(s))
<1>1. Len(s) \in Nat /\ p - 1 \in 0 .. Len(s)
  OBVIOUS
<1>2. a \in Seq(S) /\ Len(a) = p - 1 /\ \A k \in 1 .. p - 1 : a[k] = s[k]
  BY <1>1
<1>3. b \in Seq(S) /\ Len(b) = Len(s) - p + 1 /\ \A k \in 1 .. Len(s) - p + 1 : b[k] = s[p + k - 1]
  BY <1>1
<1>4. InsertAt(s, p, e) = a \o <<e>> \o b
  BY DEF InsertAt
<1> HIDE DEF a, b
<1>5. a \o <<e>> \in Seq(S) /\ Len(a \o <<e>>) = p /\ \A k \in 1 .. p : (a \o <<e>>)[k] = IF k < p THEN s[k] ELSE e
  BY <1>1, <1>2
<1> DEFINE c == a \o <<e>>
<1>6. c \in Seq(S) /\ Len(c) = p
  BY <1>5
<1> HIDE DEF c
<1>7. c \o b \in Seq(S) /\ Len(c \o b) = Len(s) + 1
  <2>1. c \o b \in Seq(S) /\ Len(c \o b) = Len(c) + Len(b)
    BY <1>3, <1>6, ConcatProperties
  <2>2. p + (Len(s) - p + 1) = Len(s) + 1
    BY <1>1
  <2> QED BY <1>3, <1>6, <2>1, <2>2
<1>8. \A k \in 1 .. Len(c) + Len(b) : (c \o b)[k] = IF k <= Len(c) THEN c[k] ELSE b[k - Len(c)]
  BY <1>3, <1>6, ConcatProperties
<1>9. ASSUME NEW k \in 1 .. Len(s) + 1 PROVE (c \o b)[k] = IF k < p THEN s[k] ELSE IF k = p THEN e ELSE s[k - 1]
  <2>1. k \in 1 .. Len(c) + Len(b)
    BY <1>1, <1>3, <1>6
  <2>2. CASE k <= p
    <3>1. (c \o b)[k] = c[k] /\ k \in 1 .. p
      BY <1>6, <1>8, <2>1, <2>2
    <3>2. c[k] = IF k < p THEN s[k] ELSE e
      BY <1>5, <3>1 DEF c
    <3> QED BY <2>2, <3>1, <3>2
  <2>3. CASE k > p
    <3>1. k - p \in 1 .. Len(s) - p + 1 /\ p + (k - p) - 1 = k - 1 /\ ~(k <= p) /\ ~(k < p) /\ k # p
      BY <1>1, <2>3
    <3>2. (c \o b)[k] = b[k - p]
      BY <1>6, <1>8, <2>1, <3>1
    <3>3. b[k - p] = s[p + (k - p) - 1]
      BY <1>3, <3>1
    <3> QED BY <3>1, <3>2, <3>3
  <2>4. k <= p \/ k > p
    BY <1>1
  <2> QED BY <2>2, <2>3, <2>4
<1> QED BY <1>4, <1>7, <1>9 DEF c, HasInserted

\* A sequence of ids that names none twice.
Distinct(es) == es \in Seq(Id) /\ \A p, q \in 1 .. Len(es) : es[p] = es[q] => p = q

\* An ordered index names no row twice.
LEMMA OrderedIsDistinct ==
    ASSUME NEW rows \in Rows, NEW es, Ordered(es, rows)
    PROVE  Distinct(es) /\ ToSet(es) \in SUBSET Id /\ ToSet(es) = {es[p] : p \in 1 .. Len(es)}
<1>1. es \in Seq(Id) /\ Len(es) \in Nat /\ \A p, q \in 1 .. Len(es) : p < q => Precedes(rows, es[p], es[q])
  BY DEF Ordered
<1>2. ASSUME NEW p \in 1 .. Len(es), NEW q \in 1 .. Len(es), es[p] = es[q] PROVE p = q
  <2>1. es[p] \in Id /\ ~Precedes(rows, es[p], es[p])
    BY <1>1, StrictOrder
  <2>2. ~(p < q) /\ ~(q < p)
    BY <1>1, <1>2, <2>1
  <2> QED BY <1>1, <2>2
<1> QED BY <1>1, <1>2 DEF Distinct, ToSet

\* The index when only rows that it does not hold changed.
LEMMA SameOrdered ==
    ASSUME NEW rows \in Rows, NEW other \in Rows, NEW es, Ordered(es, rows), \A i \in ToSet(es) : rows[i] = other[i]
    PROVE  Ordered(es, other)
<1>1. es \in Seq(Id) /\ \A p \in 1 .. Len(es) : es[p] \in Id /\ es[p] \in ToSet(es)
  BY OrderedIsDistinct DEF Ordered
<1>2. \A p, q \in 1 .. Len(es) : Precedes(rows, es[p], es[q]) <=> Precedes(other, es[p], es[q])
  BY <1>1, SameOrder
<1> QED BY <1>1, <1>2 DEF Ordered

\* What is left of a sequence of distinct ids without one place.
LEMMA RemovedPlace ==
    ASSUME NEW es, Distinct(es), NEW p \in 1 .. Len(es)
    PROVE  Distinct(RemoveAt(es, p)) /\ ToSet(RemoveAt(es, p)) = ToSet(es) \ {es[p]}
<1> DEFINE r == RemoveAt(es, p)
<1>1. es \in Seq(Id) /\ Len(es) \in Nat /\ p \in Int /\ \A a, b \in 1 .. Len(es) : es[a] = es[b] => a = b
  BY DEF Distinct
<1>2. /\ r \in Seq(Id) /\ Len(r) = Len(es) - 1
      /\ \A k \in 1 .. Len(es) - 1 : r[k] = IF k < p THEN es[k] ELSE es[k + 1]
  BY <1>1, RemovedAt
<1> DEFINE old(k) == IF k < p THEN k ELSE k + 1
<1>3. \A k \in 1 .. Len(r) : old(k) \in 1 .. Len(es) /\ old(k) # p /\ r[k] = es[old(k)]
  <2> HIDE DEF r
  <2> QED BY <1>1, <1>2
<1>4. \A k, m \in 1 .. Len(r) : old(k) = old(m) => k = m
  <2> HIDE DEF r
  <2> QED BY <1>1, <1>2
<1>5. ASSUME NEW q \in 1 .. Len(es), q # p PROVE \E k \in 1 .. Len(r) : r[k] = es[q]
  <2> HIDE DEF r
  <2>1. CASE q < p
    <3>1. q \in 1 .. Len(r) /\ r[q] = es[q]
      BY <1>1, <1>2, <2>1
    <3> QED BY <3>1
  <2>2. CASE q > p
    <3>1. q - 1 \in 1 .. Len(r) /\ ~(q - 1 < p) /\ (q - 1) + 1 = q
      BY <1>1, <1>2, <2>2
    <3>2. r[q - 1] = es[q]
      BY <1>2, <3>1
    <3> QED BY <3>1, <3>2
  <2> QED BY <1>1, <1>5, <2>1, <2>2
<1>6. DOMAIN r = 1 .. Len(r) /\ DOMAIN es = 1 .. Len(es)
  BY <1>1, <1>2
<1> HIDE DEF r, old
<1>7. Distinct(r)
  BY <1>1, <1>2, <1>3, <1>4 DEF Distinct
<1>8. ToSet(r) = ToSet(es) \ {es[p]}
  <2>1. ToSet(r) = {r[k] : k \in 1 .. Len(r)} /\ ToSet(es) = {es[k] : k \in 1 .. Len(es)}
    BY <1>6 DEF ToSet
  <2>2. ASSUME NEW k \in 1 .. Len(r) PROVE r[k] \in ToSet(es) /\ r[k] # es[p]
    BY <1>1, <1>3, <2>1
  <2>3. ASSUME NEW q \in 1 .. Len(es), es[q] # es[p] PROVE es[q] \in ToSet(r)
    BY <1>5, <2>1, <2>3
  <2> QED BY <2>1, <2>2, <2>3
<1> QED BY <1>7, <1>8 DEF r

\* removeSecondaryIndices on any index of distinct entries: at most that row goes;
\* and it goes from an ordered one, which stays ordered.
LEMMA RemovedEntry ==
    ASSUME NEW rows \in Rows, NEW es, Distinct(es), NEW i \in Id
    PROVE  /\ Distinct(RemoveEntry(es, rows, i))
           /\ ToSet(RemoveEntry(es, rows, i)) \in SUBSET ToSet(es)
           /\ Ordered(es, rows) =>
                /\ Ordered(RemoveEntry(es, rows, i), rows)
                /\ ToSet(RemoveEntry(es, rows, i)) = ToSet(es) \ {i}
<1> DEFINE n == Len(es)
           p == Position(es, rows, i) + 1
           r == RemoveEntry(es, rows, i)
<1>1. es \in Seq(Id) /\ n \in Nat /\ DOMAIN es = 1 .. n /\ \A k \in 1 .. n : es[k] \in Id
  BY DEF Distinct
<1>2. p \in 1 .. n + 1
  <2>1. Position(es, rows, i) \in 0 .. Len(es)
    BY <1>1, PositionFinds
  <2> QED BY <1>1, <2>1
<1>3. r = IF p <= n /\ es[p] = i THEN RemoveAt(es, p) ELSE es
  BY DEF RemoveEntry
<1>4. CASE p <= n /\ es[p] = i
  <2>1. p \in 1 .. Len(es) /\ r = RemoveAt(es, p)
    BY <1>1, <1>2, <1>3, <1>4
  <2> HIDE DEF p, r
  <2>2. Distinct(r) /\ ToSet(r) = ToSet(es) \ {i}
    BY <1>4, <2>1, RemovedPlace
  <2>3. ASSUME Ordered(es, rows) PROVE Ordered(r, rows)
    <3>1. /\ r \in Seq(Id) /\ Len(r) = n - 1
          /\ \A k \in 1 .. n - 1 : r[k] = IF k < p THEN es[k] ELSE es[k + 1]
      BY <1>1, <2>1, RemovedAt
    <3>2. ASSUME NEW a \in 1 .. n - 1, NEW b \in 1 .. n - 1, a < b PROVE Precedes(rows, r[a], r[b])
      <4> DEFINE x == IF a < p THEN a ELSE a + 1
                 y == IF b < p THEN b ELSE b + 1
      <4>1. x \in 1 .. n /\ y \in 1 .. n /\ x < y /\ r[a] = es[x] /\ r[b] = es[y]
        BY <1>1, <2>1, <3>1, <3>2
      <4> HIDE DEF x, y
      <4> QED BY <2>3, <4>1 DEF Ordered
    <3> QED BY <3>1, <3>2 DEF Ordered
  <2> QED BY <2>2, <2>3 DEF r
<1>5. CASE ~(p <= n /\ es[p] = i)
  <2>1. r = es
    BY <1>3, <1>5
  <2>2. ASSUME Ordered(es, rows), NEW k \in 1 .. n, es[k] = i PROVE FALSE
    <3>1. ~Precedes(rows, i, i)
      BY StrictOrder
    <3>2. \A m \in 1 .. n : Precedes(rows, es[m], i) <=> m <= Position(es, rows, i)
      BY <1>1, <2>2, PositionFinds
    <3>3. ~(k <= Position(es, rows, i))
      BY <2>2, <3>1, <3>2
    <3>4. Position(es, rows, i) \in Int /\ k \in Int
      BY <1>1, PositionFinds
    <3>5. p <= k /\ p \in 1 .. n /\ p \in Int
      BY <1>1, <1>2, <3>3, <3>4
    <3> DEFINE pos == Position(es, rows, i)
    <3>6. p = pos + 1
      OBVIOUS
    <3> HIDE DEF p, pos, r
    <3>7. ~(p <= pos)
      BY <3>4, <3>6 DEF pos
    <3>8. ~Precedes(rows, es[p], i)
      BY <3>2, <3>5, <3>7 DEF pos
    <3>9. p = k \/ p < k
      BY <3>4, <3>5
    <3>10. p < k => Precedes(rows, es[p], es[k])
      BY <2>2, <3>5 DEF Ordered
    <3> QED BY <1>5, <2>2, <3>5, <3>8, <3>9, <3>10
  <2>3. Ordered(es, rows) => i \notin ToSet(es)
    BY <1>1, <2>2 DEF ToSet
  <2> HIDE DEF r
  <2> QED BY <2>1, <2>3 DEF r
<1> QED BY <1>4, <1>5

\* addSecondaryIndices: a row that an ordered index does not hold is added in order.
LEMMA AddedEntry ==
    ASSUME NEW rows \in Rows, NEW es \in Seq(Id), NEW i \in Id
    PROVE  /\ AddEntry(es, rows, i) \in Seq(Id)
           /\ Ordered(es, rows) /\ i \notin ToSet(es) =>
                /\ Ordered(AddEntry(es, rows, i), rows)
                /\ ToSet(AddEntry(es, rows, i)) = ToSet(es) \cup {i}
<1> DEFINE n == Len(es)
           pos == Position(es, rows, i)
           p == pos + 1
           r == AddEntry(es, rows, i)
<1>1. n \in Nat /\ DOMAIN es = 1 .. n /\ \A k \in 1 .. n : es[k] \in Id
  OBVIOUS
<1>2. pos \in 0 .. n /\ p \in 1 .. n + 1 /\ pos \in Int /\ p \in Int /\ p = pos + 1
  <2>1. pos \in 0 .. n
    BY PositionFinds
  <2> HIDE DEF pos
  <2> QED BY <1>1, <2>1
<1>3. r = InsertAt(es, p, i)
  BY DEF AddEntry
<1> HIDE DEF p, r
<1>4. /\ r \in Seq(Id) /\ Len(r) = n + 1
      /\ \A k \in 1 .. n + 1 : r[k] = IF k < p THEN es[k] ELSE IF k = p THEN i ELSE es[k - 1]
  <2>1. es \in Seq(Id) /\ i \in Id /\ p \in 1 .. Len(es) + 1
    BY <1>2
  <2>2. InsertAt(es, p, i) \in Seq(Id) /\ HasInserted(InsertAt(es, p, i), es, p, i)
    BY <2>1, InsertedAt
  <2> QED BY <1>3, <2>2 DEF HasInserted
<1>5. ASSUME Ordered(es, rows), i \notin ToSet(es) PROVE Ordered(r, rows) /\ ToSet(r) = ToSet(es) \cup {i}
  <2>1. \A k \in 1 .. n : Precedes(rows, es[k], i) <=> k <= pos
    BY <1>5, PositionFinds
  <2> HIDE DEF pos
  <2>2. ASSUME NEW k \in 1 .. n, k >= p PROVE Precedes(rows, i, es[k])
    <3>1. ~Precedes(rows, es[k], i)
      BY <1>1, <1>2, <2>1, <2>2
    <3>2. es[k] # i /\ es[k] \in Id
      BY <1>1, <1>5 DEF ToSet
    <3> QED BY <3>1, <3>2, StrictOrder
  <2>3. ASSUME NEW k \in 1 .. n, k < p PROVE Precedes(rows, es[k], i)
    BY <1>1, <1>2, <2>1, <2>3
  <2>4. ASSUME NEW a \in 1 .. n + 1, NEW b \in 1 .. n + 1, a < b PROVE Precedes(rows, r[a], r[b])
    <3>1. \A k, m \in 1 .. n : k < m => Precedes(rows, es[k], es[m])
      BY <1>5 DEF Ordered
    <3>2. CASE b < p
      <4>1. a \in 1 .. n /\ b \in 1 .. n /\ r[a] = es[a] /\ r[b] = es[b]
        BY <1>1, <1>2, <1>4, <2>4, <3>2
      <4> QED BY <2>4, <3>1, <4>1
    <3>3. CASE b = p
      <4>1. a \in 1 .. n /\ a < p /\ r[a] = es[a] /\ r[b] = i
        BY <1>1, <1>2, <1>4, <2>4, <3>3
      <4> QED BY <2>3, <4>1
    <3>4. CASE b > p /\ a < p
      <4>1. a \in 1 .. n /\ b - 1 \in 1 .. n /\ a < b - 1 /\ r[a] = es[a] /\ r[b] = es[b - 1]
        BY <1>1, <1>2, <1>4, <2>4, <3>4
      <4> QED BY <3>1, <4>1
    <3>5. CASE b > p /\ a = p
      <4>1. b - 1 \in 1 .. n /\ b - 1 >= p /\ r[a] = i /\ r[b] = es[b - 1]
        BY <1>1, <1>2, <1>4, <2>4, <3>5
      <4> QED BY <2>2, <4>1
    <3>6. CASE b > p /\ a > p
      <4>1. a - 1 \in 1 .. n /\ b - 1 \in 1 .. n /\ a - 1 < b - 1 /\ r[a] = es[a - 1] /\ r[b] = es[b - 1]
        BY <1>1, <1>2, <1>4, <2>4, <3>6
      <4> QED BY <3>1, <4>1
    <3> QED BY <1>2, <3>2, <3>3, <3>4, <3>5, <3>6
  <2>5. DOMAIN r = 1 .. n + 1
    BY <1>4
  <2>6. ToSet(r) = {r[k] : k \in 1 .. n + 1} /\ ToSet(es) = {es[k] : k \in 1 .. n}
    BY <1>1, <2>5 DEF ToSet
  <2>7. ASSUME NEW k \in 1 .. n + 1 PROVE r[k] \in ToSet(es) \cup {i}
    <3>1. (k < p => k \in 1 .. n) /\ (k > p => k - 1 \in 1 .. n) /\ (k < p \/ k = p \/ k > p)
      BY <1>1, <1>2
    <3> QED BY <1>4, <2>6, <3>1
  <2>8. ASSUME NEW k \in 1 .. n PROVE es[k] \in ToSet(r)
    <3>1. CASE k < p
      <4>1. k \in 1 .. n + 1 /\ r[k] = es[k]
        BY <1>1, <1>4, <3>1
      <4> QED BY <2>6, <4>1
    <3>2. CASE k >= p
      <4>1. k + 1 \in 1 .. n + 1 /\ ~(k + 1 < p) /\ k + 1 # p /\ (k + 1) - 1 = k
        BY <1>1, <1>2, <3>2
      <4>2. r[k + 1] = es[k]
        BY <1>4, <4>1
      <4> QED BY <2>6, <4>1, <4>2
    <3> QED BY <1>1, <1>2, <3>1, <3>2
  <2>9. i \in ToSet(r)
    <3>1. r[p] = i
      BY <1>2, <1>4
    <3> QED BY <1>2, <2>6, <3>1
  <2>10. ToSet(r) = ToSet(es) \cup {i}
    BY <2>6, <2>7, <2>8, <2>9
  <2> QED BY <1>1, <1>4, <2>4, <2>10 DEF Ordered
<1> QED BY <1>4, <1>5 DEF r

----------------------------------------------------------------------------
\* Several entries.

\* The order in which rows are taken out or put in names each of them once.
LEMMA Enumerated ==
    ASSUME NEW ids \in SUBSET Id
    PROVE  /\ SetToSeq(ids) \in Seq(Id) /\ ToSet(SetToSeq(ids)) = ids /\ Distinct(SetToSeq(ids))
<1> DEFINE n == Cardinality(ids)
           s == SetToSeq(ids)
<1>1. IsFiniteSet(ids) /\ n \in Nat
  BY Ids
<1>2. \E f \in [1 .. n -> ids] : IsInjective(f)
  <2>1. PICK f : f \in Bijection(1 .. n, ids)
    BY <1>1, FS_CardinalityType DEF ExistsBijection
  <2> QED BY <2>1 DEF Bijection, Injection
<1>3. s \in [1 .. n -> ids] /\ IsInjective(s)
  <2> HIDE DEF n
  <2>1. s = CHOOSE f \in [1 .. n -> ids] : IsInjective(f)
    BY DEF SetToSeq, n
  <2> QED BY <1>2, <2>1
<1> HIDE DEF s
<1>4. s \in Seq(Id) /\ Len(s) = n /\ DOMAIN s = 1 .. n
  BY <1>1, <1>3
<1>5. s \in Injection(1 .. n, ids)
  BY <1>3 DEF Injection
<1>6. IsFiniteSet(1 .. n) /\ Cardinality(1 .. n) = n
  <2>1. 1 \in Int /\ n \in Int /\ (1 > n => n = 0) /\ n - 1 + 1 = n
    BY <1>1
  <2> HIDE DEF n
  <2> QED BY <2>1, FS_Interval
<1>7. s \in Surjection(1 .. n, ids)
  BY <1>1, <1>5, <1>6, FS_Injection
<1>8. ToSet(s) = ids
  BY <1>3, <1>4, <1>7 DEF ToSet, Surjection
<1> QED BY <1>3, <1>4, <1>8 DEF s, Distinct, IsInjective

\* The definition of RemoveEntries is one of a loop.
LEMMA RemoveLoop ==
    ASSUME NEW rows \in Rows, NEW es, Distinct(es), NEW ids \in SUBSET Id
    PROVE  \E c : LET order == SetToSeq(ids)
                  IN  /\ c[0] = es /\ RemoveEntries(es, rows, ids) = c[Len(order)]
                      /\ \A k \in 1 .. Len(order) : c[k] = RemoveEntry(c[k - 1], rows, order[k])
<1> DEFINE order == SetToSeq(ids)
           n == Len(order)
           X == {s \in Seq(Id) : Distinct(s)}
           g == [r \in (1 .. n) \X X |-> RemoveEntry(r[2], rows, order[r[1]])]
<1>1. es \in X
  BY DEF Distinct
<1>2. order \in Seq(Id)
  BY Enumerated
<1> HIDE DEF order
<1>3. n \in Nat /\ \A k \in 1 .. n : order[k] \in Id
  BY <1>2
<1>4. \A k \in 1 .. n : \A x \in X : RemoveEntry(x, rows, order[k]) \in X
  BY <1>3, RemovedEntry DEF Distinct
<1> HIDE DEF X, n
<1>5. g \in [(1 .. n) \X X -> X] /\ \A k \in 1 .. n : \A x \in X : g[<<k, x>>] = RemoveEntry(x, rows, order[k])
  BY <1>4
<1> HIDE DEF g
<1>6. PICK f : LoopIn(f, n, X, es, g)
  BY <1>1, <1>3, <1>5, LoopExistsIn
<1>7. f \in [0 .. n -> X] /\ f[0] = es
  BY <1>6 DEF LoopIn
<1>8. ASSUME NEW k \in 1 .. n PROVE f[k] = RemoveEntry(f[k - 1], rows, order[k])
  BY <1>5, <1>6 DEF LoopIn
<1> DEFINE at(b, k) == IF k = 0 THEN es ELSE RemoveEntry(b[k - 1], rows, order[k])
           body(b) == [k \in 0 .. n |-> at(b, k)]
           c == CHOOSE b : b = body(b)
<1>9. RemoveEntries(es, rows, ids) = c[n]
  BY DEF RemoveEntries, order, n
<1>10. f = body(f)
  <2>1. ASSUME NEW k \in 0 .. n PROVE f[k] = at(f, k)
    <3>1. k = 0 \/ k \in 1 .. n
      BY <1>3
    <3> QED BY <1>7, <1>8, <3>1
  <2> HIDE DEF at
  <2> QED BY <1>7, <2>1
<1> HIDE DEF body
<1>11. c = body(c)
  BY <1>10
<1> HIDE DEF c, at
<1>12. \A k \in 0 .. n : c[k] = at(c, k)
  BY <1>11 DEF body
<1>13. c[0] = es
  BY <1>3, <1>12 DEF at
<1>14. ASSUME NEW k \in 1 .. n PROVE c[k] = RemoveEntry(c[k - 1], rows, order[k])
  <2>1. k \in 0 .. n /\ k # 0
    BY <1>3
  <2> QED BY <1>12, <2>1 DEF at
<1> QED BY <1>9, <1>13, <1>14 DEF order, n


Adding(c, es, rows, order) == c[0] = es /\ \A k \in 1 .. Len(order) : c[k] = AddEntry(c[k - 1], rows, order[k])

\* The definition of AddEntries is one of a loop.
LEMMA AddLoop ==
    ASSUME NEW rows \in Rows, NEW es, es \in Seq(Id), NEW ids \in SUBSET Id
    PROVE  \E c : Adding(c, es, rows, SetToSeq(ids)) /\ AddEntries(es, rows, ids) = c[Len(SetToSeq(ids))]
<1> DEFINE order == SetToSeq(ids)
           n == Len(order)
           X == Seq(Id)
           g == [r \in (1 .. n) \X X |-> AddEntry(r[2], rows, order[r[1]])]
<1>1. es \in X
  OBVIOUS
<1>2. order \in Seq(Id)
  BY Enumerated
<1> HIDE DEF order
<1>3. n \in Nat /\ \A k \in 1 .. n : order[k] \in Id
  BY <1>2
<1>4. \A k \in 1 .. n : \A x \in X : AddEntry(x, rows, order[k]) \in X
  BY <1>3, AddedEntry
<1> HIDE DEF X, n
<1>5. g \in [(1 .. n) \X X -> X] /\ \A k \in 1 .. n : \A x \in X : g[<<k, x>>] = AddEntry(x, rows, order[k])
  BY <1>4
<1> HIDE DEF g
<1>6. PICK f : LoopIn(f, n, X, es, g)
  BY <1>1, <1>3, <1>5, LoopExistsIn
<1>7. f \in [0 .. n -> X] /\ f[0] = es
  BY <1>6 DEF LoopIn
<1>8. ASSUME NEW k \in 1 .. n PROVE f[k] = AddEntry(f[k - 1], rows, order[k])
  BY <1>5, <1>6 DEF LoopIn
<1> DEFINE at(b, k) == IF k = 0 THEN es ELSE AddEntry(b[k - 1], rows, order[k])
           body(b) == [k \in 0 .. n |-> at(b, k)]
           c == CHOOSE b : b = body(b)
<1>9. AddEntries(es, rows, ids) = c[n]
  BY DEF AddEntries, order, n
<1>10. f = body(f)
  <2>1. ASSUME NEW k \in 0 .. n PROVE f[k] = at(f, k)
    <3>1. k = 0 \/ k \in 1 .. n
      BY <1>3
    <3> QED BY <1>7, <1>8, <3>1
  <2> HIDE DEF at
  <2> QED BY <1>7, <2>1
<1> HIDE DEF body
<1>11. c = body(c)
  BY <1>10
<1> HIDE DEF c, at
<1>12. \A k \in 0 .. n : c[k] = at(c, k)
  BY <1>11 DEF body
<1>13. c[0] = es
  BY <1>3, <1>12 DEF at
<1>14. ASSUME NEW k \in 1 .. n PROVE c[k] = AddEntry(c[k - 1], rows, order[k])
  <2>1. k \in 0 .. n /\ k # 0
    BY <1>3
  <2> QED BY <1>12, <2>1 DEF at
<1> QED BY <1>9, <1>13, <1>14 DEF order, n, Adding

\* Rows taken out one after the other: at most they go, and all of them go from an
\* ordered index, which stays ordered.
LEMMA RemovedEntries ==
    ASSUME NEW rows \in Rows, NEW es, Distinct(es), NEW ids \in SUBSET Id
    PROVE  /\ Distinct(RemoveEntries(es, rows, ids))
           /\ ToSet(RemoveEntries(es, rows, ids)) \in SUBSET ToSet(es)
           /\ Ordered(es, rows) =>
                /\ Ordered(RemoveEntries(es, rows, ids), rows)
                /\ ToSet(RemoveEntries(es, rows, ids)) = ToSet(es) \ ids
<1> DEFINE order == SetToSeq(ids)
           n == Len(order)
<1>1. order \in Seq(Id) /\ ToSet(order) = ids
  BY Enumerated
<1>2. PICK c : /\ c[0] = es /\ RemoveEntries(es, rows, ids) = c[n]
               /\ \A k \in 1 .. n : c[k] = RemoveEntry(c[k - 1], rows, order[k])
  BY RemoveLoop
<1> HIDE DEF order
<1>3. n \in Nat /\ (\A k \in 1 .. n : order[k] \in Id) /\ ids = {order[m] : m \in 1 .. n}
  BY <1>1 DEF ToSet
<1> DEFINE Good(k, s) == /\ Distinct(s) /\ ToSet(s) \in SUBSET ToSet(es)
                         /\ Ordered(es, rows) =>
                              Ordered(s, rows) /\ ToSet(s) = ToSet(es) \ {order[m] : m \in 1 .. k}
           R == {r \in Nat \X Seq(Id) : Good(r[1], r[2])}
<1> HIDE DEF n
<1>4. <<0, c[0]>> \in R
  <2>1. Good(0, es) /\ es \in Seq(Id)
    BY DEF Distinct
  <2> HIDE DEF Good
  <2> QED BY <1>2, <2>1
<1>5. ASSUME NEW k \in 1 .. n, <<k - 1, c[k - 1]>> \in R PROVE <<k, c[k]>> \in R
  <2>1. Good(k - 1, c[k - 1])
    <3> HIDE DEF Good
    <3> QED BY <1>5
  <2> DEFINE s == c[k - 1]
             i == order[k]
             out == {order[m] : m \in 1 .. k - 1}
  <2>2. c[k] = RemoveEntry(s, rows, i) /\ i \in Id
    BY <1>2, <1>3
  <2>3. {order[m] : m \in 1 .. k} = out \cup {i}
    <3>1. \A m \in 1 .. k : m \in 1 .. k - 1 \/ m = k
      BY <1>3
    <3>2. k \in 1 .. k /\ \A m \in 1 .. k - 1 : m \in 1 .. k
      BY <1>3
    <3> QED BY <3>1, <3>2
  <2> HIDE DEF s, i
  <2>4. /\ Distinct(s) /\ ToSet(s) \in SUBSET ToSet(es)
        /\ Ordered(es, rows) => Ordered(s, rows) /\ ToSet(s) = ToSet(es) \ out
    BY <2>1 DEF s
  <2> HIDE DEF out
  <2>5. /\ Distinct(c[k]) /\ ToSet(c[k]) \in SUBSET ToSet(s)
        /\ Ordered(s, rows) => Ordered(c[k], rows) /\ ToSet(c[k]) = ToSet(s) \ {i}
    BY <2>2, <2>4, RemovedEntry
  <2>6. Good(k, c[k])
    BY <2>3, <2>4, <2>5
  <2>7. c[k] \in Seq(Id) /\ k \in Nat
    BY <1>3, <2>5 DEF Distinct
  <2> HIDE DEF Good
  <2> QED BY <2>6, <2>7
<1>6. \A k \in 0 .. n : <<k, c[k]>> \in R
  <2> HIDE DEF R
  <2> QED BY <1>3, <1>4, <1>5, LoopInvariant
<1>7. Good(n, c[n])
  <2>1. <<n, c[n]>> \in R
    <3> HIDE DEF R
    <3> QED BY <1>3, <1>6
  <2> HIDE DEF Good
  <2> QED BY <2>1
<1> QED BY <1>2, <1>3, <1>7

\* Rows put into an ordered index that holds none of them, one after the other.
LEMMA AddedEntries ==
    ASSUME NEW rows \in Rows, NEW es, Ordered(es, rows), NEW ids \in SUBSET Id, ids \cap ToSet(es) = {}
    PROVE  /\ Ordered(AddEntries(es, rows, ids), rows)
           /\ ToSet(AddEntries(es, rows, ids)) = ToSet(es) \cup ids
<1> DEFINE order == SetToSeq(ids)
           n == Len(order)
<1>1. order \in Seq(Id) /\ ToSet(order) = ids /\ \A a, b \in 1 .. n : order[a] = order[b] => a = b
  BY Enumerated DEF Distinct
<1>2. es \in Seq(Id)
  BY DEF Ordered
<1>3. PICK c : Adding(c, es, rows, order) /\ AddEntries(es, rows, ids) = c[n]
  BY <1>2, AddLoop
<1> HIDE DEF order
<1>4. n \in Nat /\ (\A k \in 1 .. n : order[k] \in Id) /\ ids = {order[m] : m \in 1 .. n}
  BY <1>1 DEF ToSet
<1> DEFINE Good(k, s) == Ordered(s, rows) /\ ToSet(s) = ToSet(es) \cup {order[m] : m \in 1 .. k}
           R == {r \in Nat \X Seq(Id) : Good(r[1], r[2])}
<1> HIDE DEF n
<1>5. <<0, c[0]>> \in R
  <2>1. Good(0, es)
    OBVIOUS
  <2> HIDE DEF Good
  <2> QED BY <1>2, <1>3, <2>1 DEF Adding
<1>6. ASSUME NEW k \in 1 .. n, <<k - 1, c[k - 1]>> \in R PROVE <<k, c[k]>> \in R
  <2>1. Good(k - 1, c[k - 1])
    <3> HIDE DEF Good
    <3> QED BY <1>6
  <2> DEFINE s == c[k - 1]
             i == order[k]
             in == {order[m] : m \in 1 .. k - 1}
  <2>2. c[k] = AddEntry(s, rows, i) /\ i \in Id
    BY <1>3, <1>4 DEF Adding, n
  <2>3. {order[m] : m \in 1 .. k} = in \cup {i}
    <3>1. \A m \in 1 .. k : m \in 1 .. k - 1 \/ m = k
      BY <1>4
    <3>2. k \in 1 .. k /\ \A m \in 1 .. k - 1 : m \in 1 .. k
      BY <1>4
    <3> QED BY <3>1, <3>2
  <2>4. i \notin in /\ i \notin ToSet(es)
    <3>1. \A m \in 1 .. k - 1 : m \in 1 .. n /\ m # k
      BY <1>4
    <3> QED BY <1>1, <1>4, <3>1 DEF n
  <2> HIDE DEF s, i
  <2>5. Ordered(s, rows) /\ ToSet(s) = ToSet(es) \cup in
    BY <2>1 DEF s
  <2> HIDE DEF in
  <2>6. Ordered(c[k], rows) /\ ToSet(c[k]) = ToSet(s) \cup {i}
    <3>1. s \in Seq(Id)
      BY <2>5 DEF Ordered
    <3> QED BY <2>2, <2>4, <2>5, <3>1, AddedEntry
  <2>7. Good(k, c[k])
    BY <2>3, <2>5, <2>6
  <2>8. c[k] \in Seq(Id) /\ k \in Nat
    BY <1>4, <2>6 DEF Ordered
  <2> HIDE DEF Good
  <2> QED BY <2>7, <2>8
<1>7. \A k \in 0 .. n : <<k, c[k]>> \in R
  <2> HIDE DEF R
  <2> QED BY <1>4, <1>5, <1>6, LoopInvariant
<1>8. Good(n, c[n])
  <2>1. <<n, c[n]>> \in R
    <3> HIDE DEF R
    <3> QED BY <1>4, <1>7
  <2> HIDE DEF Good
  <2> QED BY <2>1
<1> QED BY <1>3, <1>4, <1>8

\* An entry behind all others.
LEMMA AppendedEntry ==
    ASSUME NEW rows \in Rows, NEW es, Ordered(es, rows), NEW i \in Id, \A j \in ToSet(es) : Precedes(rows, j, i)
    PROVE  Ordered(Append(es, i), rows) /\ ToSet(Append(es, i)) = ToSet(es) \cup {i}
<1> DEFINE n == Len(es)
           r == Append(es, i)
<1>1. es \in Seq(Id) /\ n \in Nat /\ DOMAIN es = 1 .. n /\ \A k \in 1 .. n : es[k] \in Id /\ es[k] \in ToSet(es)
  BY DEF Ordered, ToSet
<1>2. r \in Seq(Id) /\ Len(r) = n + 1 /\ DOMAIN r = 1 .. n + 1 /\ (\A k \in 1 .. n : r[k] = es[k]) /\ r[n + 1] = i
  BY <1>1
<1>3. \A k, m \in 1 .. n : k < m => Precedes(rows, es[k], es[m])
  BY DEF Ordered
<1> HIDE DEF r, n
<1>4. ASSUME NEW k \in 1 .. n + 1, NEW m \in 1 .. n + 1, k < m PROVE Precedes(rows, r[k], r[m])
  <2>1. k \in 1 .. n /\ (m \in 1 .. n \/ m = n + 1)
    BY <1>1, <1>4
  <2> QED BY <1>1, <1>2, <1>3, <1>4, <2>1
<1>5. ToSet(r) = {r[k] : k \in 1 .. n + 1} /\ ToSet(es) = {es[k] : k \in 1 .. n}
  BY <1>1, <1>2 DEF ToSet
<1>6. \A k \in 1 .. n + 1 : k \in 1 .. n \/ k = n + 1
  BY <1>1
<1>7. n + 1 \in 1 .. n + 1 /\ \A k \in 1 .. n : k \in 1 .. n + 1
  BY <1>1
<1>8. ToSet(r) = ToSet(es) \cup {i}
  <2>1. ASSUME NEW k \in 1 .. n + 1 PROVE r[k] \in ToSet(es) \cup {i}
    BY <1>1, <1>2, <1>6
  <2>2. ASSUME NEW k \in 1 .. n PROVE es[k] \in ToSet(r)
    BY <1>2, <1>5, <1>7
  <2>3. i \in ToSet(r)
    BY <1>2, <1>5, <1>7
  <2> QED BY <1>5, <2>1, <2>2, <2>3
<1> QED BY <1>2, <1>4, <1>8 DEF Ordered, r

\* One round of Without, and all of them.
KeepUnless(s, ids, i) == IF i \in ids THEN s ELSE Append(s, i)
Keeping(c, es, ids) == c[0] = <<>> /\ \A k \in 1 .. Len(es) : c[k] = KeepUnless(c[k - 1], ids, es[k])

\* The definition of Without is one of a loop.
LEMMA WithoutLoop ==
    ASSUME NEW es \in Seq(Id), NEW ids
    PROVE  \E c : Keeping(c, es, ids) /\ Without(es, ids) = c[Len(es)]
<1> DEFINE n == Len(es)
           X == Seq(Id)
           x0 == <<>>
           g == [r \in (1 .. n) \X X |-> KeepUnless(r[2], ids, es[r[1]])]
<1>1. x0 \in X /\ n \in Nat
  OBVIOUS
<1>2. \A k \in 1 .. n : \A x \in X : KeepUnless(x, ids, es[k]) \in X
  BY DEF KeepUnless
<1> HIDE DEF X, n, x0
<1>3. g \in [(1 .. n) \X X -> X] /\ \A k \in 1 .. n : \A x \in X : g[<<k, x>>] = KeepUnless(x, ids, es[k])
  BY <1>2
<1> HIDE DEF g
<1>4. PICK f : LoopIn(f, n, X, x0, g)
  BY <1>1, <1>3, LoopExistsIn
<1>5. f \in [0 .. n -> X] /\ f[0] = <<>>
  BY <1>4 DEF LoopIn, x0
<1>6. ASSUME NEW k \in 1 .. n PROVE f[k] = KeepUnless(f[k - 1], ids, es[k])
  BY <1>3, <1>4 DEF LoopIn
<1> DEFINE at(b, k) == IF k = 0 THEN <<>> ELSE IF es[k] \in ids THEN b[k - 1] ELSE Append(b[k - 1], es[k])
           body(b) == [k \in 0 .. n |-> at(b, k)]
           c == CHOOSE b : b = body(b)
<1>7. Without(es, ids) = c[n]
  BY DEF Without, n
<1>8. ASSUME NEW b, NEW k PROVE at(b, k) = IF k = 0 THEN <<>> ELSE KeepUnless(b[k - 1], ids, es[k])
  BY DEF KeepUnless
<1> HIDE DEF at
<1>9. f = body(f)
  <2>1. ASSUME NEW k \in 0 .. n PROVE f[k] = at(f, k)
    <3>1. k = 0 \/ (k \in 1 .. n /\ k # 0)
      BY <1>1
    <3> QED BY <1>5, <1>6, <1>8, <3>1
  <2> QED BY <1>5, <2>1
<1> HIDE DEF body
<1>10. c = body(c)
  BY <1>9
<1> HIDE DEF c
<1>11. \A k \in 0 .. n : c[k] = at(c, k)
  BY <1>10 DEF body
<1>12. c[0] = <<>>
  BY <1>1, <1>8, <1>11
<1>13. ASSUME NEW k \in 1 .. n PROVE c[k] = KeepUnless(c[k - 1], ids, es[k])
  <2>1. k \in 0 .. n /\ k # 0
    BY <1>1
  <2> QED BY <1>8, <1>11, <2>1
<1> QED BY <1>7, <1>12, <1>13 DEF Keeping, n

\* The entries of an ordered index that are not of some rows are in order.
LEMMA WithoutIsOrdered ==
    ASSUME NEW rows \in Rows, NEW es, Ordered(es, rows), NEW ids
    PROVE  Ordered(Without(es, ids), rows) /\ ToSet(Without(es, ids)) = ToSet(es) \ ids
<1> DEFINE n == Len(es)
<1>1. es \in Seq(Id) /\ n \in Nat /\ (\A k \in 1 .. n : es[k] \in Id) /\ ToSet(es) = {es[m] : m \in 1 .. n}
  BY OrderedIsDistinct DEF Ordered
<1>2. PICK c : Keeping(c, es, ids) /\ Without(es, ids) = c[n]
  BY <1>1, WithoutLoop
<1> DEFINE Good(k, s) == Ordered(s, rows) /\ ToSet(s) = {es[m] : m \in 1 .. k} \ ids
           R == {r \in Nat \X Seq(Id) : Good(r[1], r[2])}
<1>3. <<0, c[0]>> \in R
  <2>1. Good(0, <<>>)
    <3>1. <<>> \in Seq(Id) /\ Len(<<>>) = 0 /\ DOMAIN <<>> = {} /\ 1 .. 0 = {}
      OBVIOUS
    <3> QED BY <3>1 DEF Ordered, ToSet
  <2>2. c[0] = <<>> /\ <<>> \in Seq(Id)
    BY <1>2 DEF Keeping
  <2> HIDE DEF Good
  <2>3. Good(0, c[0]) /\ c[0] \in Seq(Id)
    BY <2>1, <2>2
  <2> QED BY <2>3
<1> HIDE DEF n
<1>4. ASSUME NEW k \in 1 .. n, <<k - 1, c[k - 1]>> \in R PROVE <<k, c[k]>> \in R
  <2>1. Good(k - 1, c[k - 1])
    <3> HIDE DEF Good
    <3> QED BY <1>4
  <2> DEFINE s == c[k - 1]
             i == es[k]
             seen == {es[m] : m \in 1 .. k - 1}
  <2>2. c[k] = KeepUnless(s, ids, i) /\ i \in Id
    BY <1>1, <1>2 DEF Keeping, n
  <2>3. {es[m] : m \in 1 .. k} = seen \cup {i}
    <3>1. \A m \in 1 .. k : m \in 1 .. k - 1 \/ m = k
      BY <1>1
    <3>2. k \in 1 .. k /\ \A m \in 1 .. k - 1 : m \in 1 .. k
      BY <1>1
    <3> QED BY <3>1, <3>2
  <2>4. \A j \in seen : Precedes(rows, j, i)
    <3>1. \A m \in 1 .. k - 1 : m \in 1 .. n /\ m < k
      BY <1>1
    <3> QED BY <3>1 DEF Ordered, n
  <2> HIDE DEF s, i
  <2>5. Ordered(s, rows) /\ ToSet(s) = seen \ ids
    BY <2>1 DEF s
  <2> HIDE DEF seen
  <2>6. Ordered(c[k], rows) /\ ToSet(c[k]) = (seen \cup {i}) \ ids
    <3>1. CASE i \in ids
      <4>1. c[k] = s
        BY <2>2, <3>1 DEF KeepUnless
      <4> QED BY <2>5, <3>1, <4>1
    <3>2. CASE i \notin ids
      <4>1. c[k] = Append(s, i)
        BY <2>2, <3>2 DEF KeepUnless
      <4>2. \A j \in ToSet(s) : Precedes(rows, j, i)
        BY <2>4, <2>5
      <4>3. Ordered(Append(s, i), rows) /\ ToSet(Append(s, i)) = ToSet(s) \cup {i}
        BY <2>2, <2>5, <4>2, AppendedEntry
      <4> QED BY <2>5, <3>2, <4>1, <4>3
    <3> QED BY <3>1, <3>2
  <2>7. Good(k, c[k])
    BY <2>3, <2>6
  <2>8. c[k] \in Seq(Id) /\ k \in Nat
    BY <1>1, <2>6 DEF Ordered
  <2> HIDE DEF Good
  <2> QED BY <2>7, <2>8
<1>5. \A k \in 0 .. n : <<k, c[k]>> \in R
  <2> HIDE DEF R
  <2> QED BY <1>1, <1>3, <1>4, LoopInvariant
<1>6. Good(n, c[n])
  <2>1. <<n, c[n]>> \in R
    <3> HIDE DEF R
    <3> QED BY <1>1, <1>5
  <2> HIDE DEF Good
  <2> QED BY <2>1
<1> QED BY <1>1, <1>2, <1>6

\* One round of Merge, and all of them.
Taken(es, more, rows, k, x) ==
    LET e == x.old + 1
        a == k - x.old
    IN  IF a > Len(more) \/ (e <= Len(es) /\ ~Precedes(rows, more[a], es[e]))
        THEN [old |-> e, out |-> Append(x.out, es[e])]
        ELSE [old |-> x.old, out |-> Append(x.out, more[a])]
Merging(c, es, more, rows) ==
    /\ c[0] = [old |-> 0, out |-> <<>>]
    /\ \A k \in 1 .. Len(es) + Len(more) : c[k] = Taken(es, more, rows, k, c[k - 1])

\* The definition of Merge is one of a loop.
LEMMA MergeLoop ==
    ASSUME NEW rows, NEW es \in Seq(Id), NEW more \in Seq(Id)
    PROVE  \E c : Merging(c, es, more, rows) /\ Merge(es, more, rows) = c[Len(es) + Len(more)].out
<1> DEFINE n == Len(es) + Len(more)
           X == [old : Nat, out : Seq(Id)]
           R == {r \in Nat \X X : r[2].old \in 0 .. Len(es) /\ r[1] - r[2].old \in 0 .. Len(more)}
           x0 == [old |-> 0, out |-> <<>>]
           g == [r \in (1 .. n) \X X |-> Taken(es, more, rows, r[1], r[2])]
<1>1. x0 \in X /\ n \in Nat /\ Len(es) \in Nat /\ Len(more) \in Nat
  OBVIOUS
<1>2. <<0, x0>> \in R /\ R \in SUBSET (Nat \X X)
  <2>1. x0.old = 0 /\ 0 - 0 \in 0 .. Len(more) /\ 0 \in 0 .. Len(es)
    BY <1>1
  <2> HIDE DEF x0, X
  <2> QED BY <1>1, <2>1
<1>3. ASSUME NEW k \in 1 .. n, NEW x \in X, x.old \in 0 .. Len(es), (k - 1) - x.old \in 0 .. Len(more)
      PROVE  LET y == Taken(es, more, rows, k, x)
             IN  y \in X /\ y.old \in 0 .. Len(es) /\ k - y.old \in 0 .. Len(more)
  <2> DEFINE e == x.old + 1
             a == k - x.old
             out == x.out
             y == Taken(es, more, rows, k, x)
             first == a > Len(more) \/ (e <= Len(es) /\ ~Precedes(rows, more[a], es[e]))
  <2>1. y = IF first THEN [old |-> e, out |-> Append(out, es[e])] ELSE [old |-> x.old, out |-> Append(out, more[a])]
    BY DEF Taken
  <2>2. x.old \in Nat /\ out \in Seq(Id) /\ e \in Nat /\ k - x.old >= 1 /\ k - e \in Int /\ k \in Int /\ a \in Int
    BY <1>3
  <2>3. first => e \in 1 .. Len(es) /\ k - e \in 0 .. Len(more)
    BY <1>1, <1>3, <2>2
  <2>4. ~first => a \in 1 .. Len(more)
    BY <1>1, <1>3, <2>2
  <2>5. CASE first
    <3>1. es[e] \in Id
      BY <2>3, <2>5
    <3>2. y = [old |-> e, out |-> Append(out, es[e])]
      BY <2>1, <2>5
    <3> HIDE DEF y, first, e, out
    <3>3. Append(out, es[e]) \in Seq(Id) /\ e \in 0 .. Len(es) /\ k - e \in 0 .. Len(more)
      BY <1>1, <2>2, <2>3, <2>5, <3>1
    <3>4. y \in X /\ y.old = e
      BY <2>2, <3>2, <3>3
    <3> QED BY <3>3, <3>4 DEF y
  <2>6. CASE ~first
    <3>1. more[a] \in Id
      BY <2>4, <2>6
    <3>2. y = [old |-> x.old, out |-> Append(out, more[a])]
      BY <2>1, <2>6
    <3>3. k - x.old \in 0 .. Len(more)
      BY <1>1, <2>2, <2>4, <2>6
    <3> HIDE DEF y, first, e, a, out
    <3>4. Append(out, more[a]) \in Seq(Id)
      BY <2>2, <3>1
    <3>5. y \in X /\ y.old = x.old
      BY <2>2, <3>2, <3>4
    <3> QED BY <1>3, <3>3, <3>5 DEF y
  <2> QED BY <2>5, <2>6
<1>4. ASSUME NEW k \in 1 .. n, NEW x \in X PROVE g[<<k, x>>] = Taken(es, more, rows, k, x)
  <2> HIDE DEF X
  <2> QED OBVIOUS
<1>5. Keeps(n, X, R, g)
  <2>1. ASSUME NEW k \in 1 .. n, NEW x \in X, <<k - 1, x>> \in R
        PROVE  g[<<k, x>>] \in X /\ <<k, g[<<k, x>>]>> \in R
    <3> DEFINE y == Taken(es, more, rows, k, x)
    <3>1. x.old \in 0 .. Len(es) /\ (k - 1) - x.old \in 0 .. Len(more) /\ k \in Nat
      <4> HIDE DEF X
      <4> QED BY <1>1, <2>1
    <3>2. y \in X /\ y.old \in 0 .. Len(es) /\ k - y.old \in 0 .. Len(more)
      BY <1>3, <3>1
    <3>3. g[<<k, x>>] = y
      BY <1>4
    <3> HIDE DEF y, X, g
    <3> QED BY <3>1, <3>2, <3>3
  <2> HIDE DEF X, R, g, n
  <2> QED BY <2>1 DEF Keeps
<1>6. PICK f \in [0 .. n -> X] : IsLoop(f, n, x0, g)
  <2> HIDE DEF X, R, g, n, x0
  <2> QED BY <1>1, <1>2, <1>5, LoopExists
<1> HIDE DEF X, R, g, n
<1>7. f \in [0 .. n -> X] /\ f[0] = x0
  BY <1>6 DEF IsLoop
<1>8. ASSUME NEW k \in 1 .. n PROVE f[k] = Taken(es, more, rows, k, f[k - 1])
  <2>1. k - 1 \in 0 .. n
    BY <1>1
  <2>2. f[k - 1] \in X
    BY <1>7, <2>1
  <2> QED BY <1>4, <1>6, <2>2 DEF IsLoop
<1> DEFINE at(b, k) == IF k = 0 THEN [old |-> 0, out |-> <<>>]
                       ELSE LET last == b[k - 1]
                                e == last.old + 1
                                a == k - last.old
                            IN  IF a > Len(more) \/ (e <= Len(es) /\ ~Precedes(rows, more[a], es[e]))
                                THEN [old |-> e, out |-> Append(last.out, es[e])]
                                ELSE [old |-> last.old, out |-> Append(last.out, more[a])]
           body(b) == [k \in 0 .. n |-> at(b, k)]
           c == CHOOSE b : b = body(b)
<1>9. Merge(es, more, rows) = c[n].out
  BY DEF Merge, n
<1>10. ASSUME NEW b, NEW k PROVE at(b, k) = IF k = 0 THEN x0 ELSE Taken(es, more, rows, k, b[k - 1])
  BY DEF Taken
<1> HIDE DEF at, x0
<1>11. f = body(f)
  <2>1. ASSUME NEW k \in 0 .. n PROVE f[k] = at(f, k)
    <3>1. k = 0 \/ (k \in 1 .. n /\ k # 0)
      BY <1>1
    <3> QED BY <1>7, <1>8, <1>10, <3>1
  <2> QED BY <1>7, <2>1
<1> HIDE DEF body
<1>12. c = body(c)
  BY <1>11
<1> HIDE DEF c
<1>13. \A k \in 0 .. n : c[k] = at(c, k)
  BY <1>12 DEF body
<1>14. c[0] = x0
  BY <1>1, <1>10, <1>13
<1>15. ASSUME NEW k \in 1 .. n PROVE c[k] = Taken(es, more, rows, k, c[k - 1])
  <2>1. k \in 0 .. n /\ k # 0
    BY <1>1
  <2> QED BY <1>10, <1>13, <2>1
<1> QED BY <1>9, <1>14, <1>15 DEF Merging, n, x0

\* mergeSecondaryIndexEntries: two ordered sequences without a common row merge into
\* an ordered one of all their rows.
LEMMA MergeIsOrdered ==
    ASSUME NEW rows \in Rows, NEW es, Ordered(es, rows), NEW more, Ordered(more, rows), ToSet(es) \cap ToSet(more) = {}
    PROVE  Ordered(Merge(es, more, rows), rows) /\ ToSet(Merge(es, more, rows)) = ToSet(es) \cup ToSet(more)
<1> DEFINE E == Len(es)
           A == Len(more)
           n == E + A
<1>1. /\ es \in Seq(Id) /\ E \in Nat /\ (\A k \in 1 .. E : es[k] \in Id) /\ ToSet(es) = {es[m] : m \in 1 .. E}
      /\ more \in Seq(Id) /\ A \in Nat /\ (\A k \in 1 .. A : more[k] \in Id) /\ ToSet(more) = {more[m] : m \in 1 .. A}
  BY OrderedIsDistinct DEF Ordered
<1>2. PICK c : Merging(c, es, more, rows) /\ Merge(es, more, rows) = c[n].out
  BY <1>1, MergeLoop
<1>3. /\ \A k, m \in 1 .. E : k < m => Precedes(rows, es[k], es[m])
      /\ \A k, m \in 1 .. A : k < m => Precedes(rows, more[k], more[m])
  BY DEF Ordered
<1>4. c[0] = [old |-> 0, out |-> <<>>] /\ \A k \in 1 .. n : c[k] = Taken(es, more, rows, k, c[k - 1])
  BY <1>2 DEF Merging
<1> HIDE DEF E, A
<1> DEFINE Olds(e) == {es[m] : m \in 1 .. e}
           News(a) == {more[m] : m \in 1 .. a}
           Good(e, a, s) == /\ Ordered(s, rows) /\ ToSet(s) = Olds(e) \cup News(a)
                            /\ \A j \in ToSet(s) : \A m \in e + 1 .. E : Precedes(rows, j, es[m])
                            /\ \A j \in ToSet(s) : \A m \in a + 1 .. A : Precedes(rows, j, more[m])
           X == [old : Nat, out : Seq(Id)]
           R == {r \in Nat \X X : /\ r[2].old \in 0 .. E /\ r[1] - r[2].old \in 0 .. A
                                  /\ Good(r[2].old, r[1] - r[2].old, r[2].out)}
<1>5. <<0, c[0]>> \in R
  <2>1. Good(0, 0, <<>>)
    <3>1. <<>> \in Seq(Id) /\ Len(<<>>) = 0 /\ DOMAIN <<>> = {} /\ 1 .. 0 = {}
      OBVIOUS
    <3> QED BY <3>1 DEF Ordered, ToSet
  <2>2. c[0] \in X /\ c[0].old = 0 /\ c[0].out = <<>> /\ 0 - 0 = 0 /\ 0 \in 0 .. E /\ 0 \in 0 .. A
    BY <1>1, <1>4
  <2> HIDE DEF Good, X
  <2> QED BY <2>1, <2>2
<1>6. ASSUME NEW k \in 1 .. n, NEW x \in X, x.old \in 0 .. E, (k - 1) - x.old \in 0 .. A,
             Good(x.old, (k - 1) - x.old, x.out)
      PROVE  LET y == Taken(es, more, rows, k, x)
             IN  y \in X /\ y.old \in 0 .. E /\ k - y.old \in 0 .. A /\ Good(y.old, k - y.old, y.out)
  <2> DEFINE o == x.old
             e == o + 1
             a == k - o
             b == a - 1
             out == x.out
             y == Taken(es, more, rows, k, x)
             first == a > A \/ (e <= E /\ ~Precedes(rows, more[a], es[e]))
  <2>1. y = IF first THEN [old |-> e, out |-> Append(out, es[e])] ELSE [old |-> o, out |-> Append(out, more[a])]
    BY DEF Taken, E, A
  <2>2. /\ o \in Nat /\ out \in Seq(Id) /\ e = o + 1 /\ k \in Int /\ a = k - o /\ b = a - 1 /\ b = (k - 1) - o
        /\ o \in 0 .. E /\ b \in 0 .. A /\ k <= E + A
    BY <1>1, <1>6
  <2>3. Good(o, b, out)
    <3> HIDE DEF Good
    <3>1. Good(o, (k - 1) - o, out)
      BY <1>6
    <3> HIDE DEF b
    <3> QED BY <2>2, <3>1
  <2> HIDE DEF o, e, a, b, out, y
  <2>4. /\ Ordered(out, rows) /\ ToSet(out) = Olds(o) \cup News(b)
        /\ \A j \in ToSet(out) : \A m \in o + 1 .. E : Precedes(rows, j, es[m])
        /\ \A j \in ToSet(out) : \A m \in b + 1 .. A : Precedes(rows, j, more[m])
    BY <2>3
  <2>5. CASE first
    <3>1. e \in 1 .. E /\ k - e = b /\ e \in Nat
      BY <1>1, <2>2, <2>5
    <3>2. y = [old |-> e, out |-> Append(out, es[e])]
      BY <2>1, <2>5
    <3>3. es[e] \in Id /\ \A j \in ToSet(out) : Precedes(rows, j, es[e])
      <4>1. e \in o + 1 .. E
        BY <1>1, <2>2, <3>1
      <4> QED BY <1>1, <2>4, <3>1, <4>1
    <3>4. Ordered(Append(out, es[e]), rows) /\ ToSet(Append(out, es[e])) = ToSet(out) \cup {es[e]}
      BY <2>4, <3>3, AppendedEntry
    <3>5. Olds(e) = Olds(o) \cup {es[e]}
      <4>1. \A m \in 1 .. e : m \in 1 .. o \/ m = e
        BY <2>2
      <4>2. e \in 1 .. e /\ \A m \in 1 .. o : m \in 1 .. e
        BY <2>2
      <4> QED BY <4>1, <4>2
    <3>6. ASSUME NEW m \in e + 1 .. E PROVE Precedes(rows, es[e], es[m]) /\ m \in o + 1 .. E
      <4>1. m \in 1 .. E /\ e < m /\ m \in o + 1 .. E
        BY <1>1, <2>2, <3>1
      <4> QED BY <1>3, <3>1, <4>1
    <3>7. ASSUME NEW m \in b + 1 .. A PROVE Precedes(rows, es[e], more[m])
      <4>1. a \in 1 .. A /\ m \in 1 .. A /\ (a = m \/ a < m) /\ ~(a > A)
        <5>1. a \in Int /\ a = b + 1 /\ b >= 0 /\ b \in Int
          BY <1>1, <2>2
        <5> QED BY <1>1, <5>1
      <4>2. ~Precedes(rows, more[a], es[e])
        BY <2>5, <4>1
      <4>3. more[a] \in Id /\ more[m] \in Id /\ more[a] \in ToSet(more) /\ es[e] \in ToSet(es)
        BY <1>1, <3>1, <4>1
      <4>4. Precedes(rows, es[e], more[a])
        BY <3>3, <4>2, <4>3, StrictOrder
      <4>5. a = m \/ Precedes(rows, more[a], more[m])
        BY <1>3, <4>1
      <4> QED BY <3>3, <4>3, <4>4, <4>5, StrictOrder
    <3> DEFINE s == Append(out, es[e])
    <3> HIDE DEF s, Olds, News
    <3>8. Good(e, b, s)
      <4>1. Ordered(s, rows) /\ ToSet(s) = ToSet(out) \cup {es[e]}
        BY <3>4 DEF s
      <4>2. \A j \in ToSet(s) : \A m \in e + 1 .. E : Precedes(rows, j, es[m])
        BY <2>4, <3>6, <4>1
      <4>3. \A j \in ToSet(s) : \A m \in b + 1 .. A : Precedes(rows, j, more[m])
        BY <2>4, <3>7, <4>1
      <4> QED BY <2>4, <3>5, <4>1, <4>2, <4>3
    <3>9. y.old = e /\ y.out = s /\ y = [old |-> e, out |-> s] /\ s \in Seq(Id) /\ e \in 0 .. E
      BY <1>1, <3>1, <3>2, <3>4 DEF Ordered, s
    <3>10. y \in X
      BY <3>1, <3>9
    <3> HIDE DEF Good, X
    <3>11. Good(y.old, k - y.old, y.out) /\ y.old \in 0 .. E /\ k - y.old \in 0 .. A
      BY <2>2, <3>1, <3>8, <3>9
    <3> QED BY <3>10, <3>11 DEF y
  <2>6. CASE ~first
    <3>1. a \in 1 .. A /\ k - o = a /\ a = b + 1
      BY <1>1, <2>2, <2>6
    <3>2. y = [old |-> o, out |-> Append(out, more[a])]
      BY <2>1, <2>6
    <3>3. more[a] \in Id /\ \A j \in ToSet(out) : Precedes(rows, j, more[a])
      <4>1. a \in b + 1 .. A
        BY <1>1, <2>2, <3>1
      <4> QED BY <1>1, <2>4, <3>1, <4>1
    <3>4. Ordered(Append(out, more[a]), rows) /\ ToSet(Append(out, more[a])) = ToSet(out) \cup {more[a]}
      BY <2>4, <3>3, AppendedEntry
    <3>5. News(a) = News(b) \cup {more[a]}
      <4>1. \A m \in 1 .. a : m \in 1 .. b \/ m = a
        BY <2>2
      <4>2. a \in 1 .. a /\ \A m \in 1 .. b : m \in 1 .. a
        BY <2>2, <3>1
      <4> QED BY <4>1, <4>2
    <3>6. ASSUME NEW m \in a + 1 .. A PROVE Precedes(rows, more[a], more[m]) /\ m \in b + 1 .. A
      <4>1. m \in 1 .. A /\ a < m /\ m \in b + 1 .. A
        BY <1>1, <2>2, <3>1
      <4> QED BY <1>3, <3>1, <4>1
    <3>7. ASSUME NEW m \in o + 1 .. E PROVE Precedes(rows, more[a], es[m])
      <4>1. e \in 1 .. E /\ m \in 1 .. E /\ (e = m \/ e < m) /\ e <= E
        BY <1>1, <2>2
      <4>2. Precedes(rows, more[a], es[e])
        BY <2>6, <4>1
      <4>3. es[e] \in Id /\ es[m] \in Id
        BY <1>1, <4>1
      <4>4. e = m \/ Precedes(rows, es[e], es[m])
        BY <1>3, <4>1
      <4> QED BY <3>3, <4>2, <4>3, <4>4, StrictOrder
    <3> DEFINE s == Append(out, more[a])
    <3> HIDE DEF s, Olds, News
    <3>8. Good(o, a, s)
      <4>1. Ordered(s, rows) /\ ToSet(s) = ToSet(out) \cup {more[a]}
        BY <3>4 DEF s
      <4>2. \A j \in ToSet(s) : \A m \in o + 1 .. E : Precedes(rows, j, es[m])
        BY <2>4, <3>7, <4>1
      <4>3. \A j \in ToSet(s) : \A m \in a + 1 .. A : Precedes(rows, j, more[m])
        BY <2>4, <3>6, <4>1
      <4> QED BY <2>4, <3>5, <4>1, <4>2, <4>3
    <3>9. y.old = o /\ y.out = s /\ y = [old |-> o, out |-> s] /\ s \in Seq(Id)
      BY <3>2, <3>4 DEF Ordered, s
    <3>10. y \in X
      BY <2>2, <3>9
    <3> HIDE DEF Good, X
    <3>11. Good(y.old, k - y.old, y.out) /\ y.old \in 0 .. E /\ k - y.old \in 0 .. A
      BY <1>1, <2>2, <3>1, <3>8, <3>9
    <3> QED BY <3>10, <3>11 DEF y
  <2> QED BY <2>5, <2>6
<1> HIDE DEF Good
<1>7. ASSUME NEW k \in 1 .. n, <<k - 1, c[k - 1]>> \in R PROVE <<k, c[k]>> \in R
  <2> DEFINE x == c[k - 1]
             y == c[k]
  <2> HIDE DEF X
  <2>1. x \in X /\ x.old \in 0 .. E /\ (k - 1) - x.old \in 0 .. A /\ Good(x.old, (k - 1) - x.old, x.out) /\ k \in Nat
    BY <1>1, <1>7
  <2>2. y = Taken(es, more, rows, k, x)
    BY <1>4
  <2> HIDE DEF x, y
  <2>3. y \in X /\ y.old \in 0 .. E /\ k - y.old \in 0 .. A /\ Good(y.old, k - y.old, y.out)
    BY <1>6, <2>1, <2>2
  <2>4. <<k, y>> \in R
    BY <2>1, <2>3
  <2> HIDE DEF R
  <2> QED BY <2>4 DEF y
<1>8. \A k \in 0 .. n : <<k, c[k]>> \in R
  <2>1. n \in Nat
    BY <1>1
  <2> HIDE DEF R, n
  <2> QED BY <1>5, <1>7, <2>1, LoopInvariant
<1>9. PICK y : y = c[n] /\ y.old \in 0 .. E /\ n - y.old \in 0 .. A /\ Good(y.old, n - y.old, y.out)
  <2>1. <<n, c[n]>> \in R
    <3> HIDE DEF R
    <3> QED BY <1>1, <1>8
  <2> HIDE DEF X
  <2> QED BY <2>1
<1>10. y.old = E /\ n - y.old = A
  BY <1>1, <1>9
<1> QED BY <1>1, <1>2, <1>9, <1>10 DEF Good

----------------------------------------------------------------------------
\* Range reads.

\* What a query asks for: a prefix of at most two fields and a cursor on the next.
LEMMA Query ==
    ASSUME NEW q \in Queries
    PROVE  /\ \/ q[1] = <<>> /\ Len(q[1]) = 0
              \/ \E a \in Int : q[1] = <<a>> /\ Len(q[1]) = 1
              \/ \E a, b \in Int : q[1] = <<a, b>> /\ Len(q[1]) = 2
           /\ q[2] # None => q[2] \in Int /\ (Len(q[1]) = 0 \/ Len(q[1]) = 1)
<1>1. \A field \in {1, 2} : \A v \in Values(field) : v \in Int
  <2>1. \A row \in RowSet : row[1] \in Int /\ row[2] \in Int
    BY IndexAssumption
  <2> QED BY <2>1 DEF Values
<1> DEFINE P == {<<>>} \cup {<<a>> : a \in Values(1)} \cup (Values(1) \X Values(2))
<1>2. ASSUME NEW p \in P
      PROVE  \/ p = <<>> /\ Len(p) = 0
             \/ \E a \in Int : p = <<a>> /\ Len(p) = 1
             \/ \E a, b \in Int : p = <<a, b>> /\ Len(p) = 2
  <2>1. CASE p = <<>>
    BY <2>1
  <2>2. CASE p \in {<<a>> : a \in Values(1)}
    <3>1. PICK a \in Values(1) : p = <<a>>
      BY <2>2
    <3> QED BY <1>1, <3>1
  <2>3. CASE p \in Values(1) \X Values(2)
    <3>1. PICK a \in Values(1), b \in Values(2) : p = <<a, b>>
      BY <2>3
    <3> QED BY <1>1, <3>1
  <2> QED BY <2>1, <2>2, <2>3
<1>3. CASE q \in {<<p, None>> : p \in P}
  <2>1. PICK p \in P : q = <<p, None>>
    BY <1>3
  <2> HIDE DEF P
  <2>2. q[1] = p /\ q[2] = None
    BY <2>1
  <2> QED BY <1>2, <2>2
<1>4. CASE q \in {<<>>} \X Values(1)
  <2>1. PICK v \in Values(1) : q[1] = <<>> /\ q[2] = v
    BY <1>4
  <2>2. Len(<<>>) = 0
    OBVIOUS
  <2> QED BY <1>1, <2>1, <2>2
<1>5. CASE q \in {<<a>> : a \in Values(1)} \X Values(2)
  <2>1. PICK a \in Values(1), v \in Values(2) : q[1] = <<a>> /\ q[2] = v
    BY <1>5
  <2>2. Len(<<a>>) = 1
    OBVIOUS
  <2> QED BY <1>1, <2>1, <2>2
<1> QED BY <1>3, <1>4, <1>5 DEF Queries

\* A row against a prefix: below it, above it or led by it, and this along the order.
LEMMA PrefixOrder ==
    ASSUME NEW rows \in Rows, NEW q \in Queries, NEW i \in Id
    PROVE  /\ ~(Below(rows, i, q[1]) /\ Above(rows, i, q[1]))
           /\ Leading(rows, i, Len(q[1])) = q[1] <=> ~Below(rows, i, q[1]) /\ ~Above(rows, i, q[1])
           /\ \A j \in Id : Precedes(rows, i, j) =>
                 /\ Below(rows, j, q[1]) => Below(rows, i, q[1])
                 /\ Above(rows, i, q[1]) => Above(rows, j, q[1])
                 /\ /\ q[2] # None
                    /\ Leading(rows, i, Len(q[1])) = q[1] /\ Leading(rows, j, Len(q[1])) = q[1]
                    => rows[i][Len(q[1]) + 1] <= rows[j][Len(q[1]) + 1]
<1>1. ASSUME NEW j \in Id PROVE rows[j] \in Seq(Int) /\ Len(rows[j]) = 3 /\ rows[j][1] \in Int /\ rows[j][2] \in Int
  BY Ids, IndexAssumption
<1>2. CASE q[1] = <<>> /\ Len(q[1]) = 0
  <2>1. ASSUME NEW j \in Id PROVE Leading(rows, j, 0) = <<>>
    BY <1>1 DEF Leading
  <2>2. \A j \in Id : ~Below(rows, j, q[1]) /\ ~Above(rows, j, q[1])
    BY <1>2, <2>1 DEF Below, Above, Less
  <2>3. ASSUME NEW j \in Id, Precedes(rows, i, j) PROVE rows[i][1] <= rows[j][1]
    <3>1. rows[i][1] < rows[j][1] \/ rows[i][1] = rows[j][1]
      BY <2>3, Compared
    <3> QED BY <1>1, <3>1
  <2> QED BY <1>2, <2>1, <2>2, <2>3
<1>3. CASE \E a \in Int : q[1] = <<a>> /\ Len(q[1]) = 1
  <2>1. PICK a \in Int : q[1] = <<a>> /\ Len(q[1]) = 1
    BY <1>3
  <2>2. ASSUME NEW j \in Id PROVE Leading(rows, j, 1) = <<rows[j][1]>>
    <3> DEFINE s == Leading(rows, j, 1)
               x == rows[j][1]
               t == <<x>>
    <3>1. s \in Seq(Int) /\ Len(s) = 1 /\ s[1] = x
      BY <1>1 DEF Leading
    <3>2. t \in Seq(Int) /\ Len(t) = 1 /\ t[1] = x
      BY <1>1
    <3>3. \A k \in 1 .. 1 : k = 1
      OBVIOUS
    <3> HIDE DEF s, t, x
    <3>4. \A k \in 1 .. Len(s) : s[k] = t[k]
      BY <3>1, <3>2, <3>3
    <3>5. s = t
      BY <3>1, <3>2, <3>4, SeqEqual
    <3> QED BY <3>5 DEF s, t, x
  <2>3. ASSUME NEW x \in Int, NEW y \in Int PROVE Less(<<x>>, <<y>>) <=> x < y
    <3> DEFINE s == <<x>>
               t == <<y>>
    <3>1. Len(s) = 1 /\ s[1] = x /\ t[1] = y
      OBVIOUS
    <3>2. Less(s, t) <=> \E k \in 1 .. Len(s) : s[k] < t[k] /\ \A m \in 1 .. (k - 1) : s[m] = t[m]
      BY DEF Less
    <3>3. 1 \in 1 .. 1 /\ (\A k \in 1 .. 1 : k = 1) /\ 1 .. (1 - 1) = {}
      OBVIOUS
    <3> HIDE DEF s, t
    <3>4. Less(s, t) <=> x < y
      BY <3>1, <3>2, <3>3
    <3> QED BY <3>4 DEF s, t
  <2>4. ASSUME NEW j \in Id PROVE (Below(rows, j, q[1]) <=> rows[j][1] < a) /\ (Above(rows, j, q[1]) <=> a < rows[j][1])
    BY <1>1, <2>1, <2>2, <2>3 DEF Below, Above
  <2>5. ASSUME NEW j \in Id PROVE Leading(rows, j, 1) = q[1] <=> rows[j][1] = a
    BY <2>1, <2>2
  <2>6. ASSUME NEW j \in Id, Precedes(rows, i, j)
        PROVE  \/ rows[i][1] < rows[j][1]
               \/ rows[i][1] = rows[j][1] /\ (rows[i][2] < rows[j][2] \/ rows[i][2] = rows[j][2])
    BY <2>6, Compared
  <2>7. ASSUME NEW j \in Id, Precedes(rows, i, j)
        PROVE /\ Below(rows, j, q[1]) => Below(rows, i, q[1])
              /\ Above(rows, i, q[1]) => Above(rows, j, q[1])
              /\ Leading(rows, i, 1) = q[1] /\ Leading(rows, j, 1) = q[1] => rows[i][2] <= rows[j][2]
    BY <1>1, <2>4, <2>5, <2>6, <2>7
  <2>8. /\ ~(Below(rows, i, q[1]) /\ Above(rows, i, q[1]))
        /\ Leading(rows, i, 1) = q[1] <=> ~Below(rows, i, q[1]) /\ ~Above(rows, i, q[1])
    BY <1>1, <2>4, <2>5
  <2> QED BY <2>1, <2>7, <2>8
<1>4. CASE \E a, b \in Int : q[1] = <<a, b>> /\ Len(q[1]) = 2
  <2>1. PICK a \in Int, b \in Int : q[1] = <<a, b>> /\ Len(q[1]) = 2
    BY <1>4
  <2>2. ASSUME NEW j \in Id PROVE Leading(rows, j, 2) = <<rows[j][1], rows[j][2]>>
    <3> DEFINE s == Leading(rows, j, 2)
               x == rows[j][1]
               y == rows[j][2]
               t == <<x, y>>
    <3>1. s \in Seq(Int) /\ Len(s) = 2 /\ s[1] = x /\ s[2] = y
      BY <1>1 DEF Leading
    <3>2. t \in Seq(Int) /\ Len(t) = 2 /\ t[1] = x /\ t[2] = y
      BY <1>1
    <3>3. \A k \in 1 .. 2 : k = 1 \/ k = 2
      OBVIOUS
    <3> HIDE DEF s, t, x, y
    <3>4. \A k \in 1 .. Len(s) : s[k] = t[k]
      BY <3>1, <3>2, <3>3
    <3>5. s = t
      BY <3>1, <3>2, <3>4, SeqEqual
    <3> QED BY <3>5 DEF s, t, x, y
  <2>3. ASSUME NEW x \in Int, NEW y \in Int, NEW u \in Int, NEW v \in Int
        PROVE  Less(<<x, y>>, <<u, v>>) <=> x < u \/ (x = u /\ y < v)
    <3> DEFINE s == <<x, y>>
               t == <<u, v>>
    <3>1. Len(s) = 2 /\ s[1] = x /\ s[2] = y /\ t[1] = u /\ t[2] = v
      OBVIOUS
    <3>2. Less(s, t) <=> \E k \in 1 .. Len(s) : s[k] < t[k] /\ \A m \in 1 .. (k - 1) : s[m] = t[m]
      BY DEF Less
    <3> HIDE DEF s, t
    <3>3. ASSUME Less(s, t) PROVE x < u \/ (x = u /\ y < v)
      <4>1. PICK k \in 1 .. 2 : s[k] < t[k] /\ \A m \in 1 .. (k - 1) : s[m] = t[m]
        BY <3>1, <3>2, <3>3
      <4>2. k = 1 \/ (k = 2 /\ 1 \in 1 .. k - 1)
        OBVIOUS
      <4> QED BY <3>1, <4>1, <4>2
    <3>4. ASSUME x < u PROVE Less(s, t)
      <4>1. 1 \in 1 .. Len(s) /\ s[1] < t[1] /\ \A m \in 1 .. (1 - 1) : s[m] = t[m]
        BY <3>1, <3>4
      <4> QED BY <3>2, <4>1
    <3>5. ASSUME x = u, y < v PROVE Less(s, t)
      <4>1. \A m \in 1 .. (2 - 1) : m = 1
        OBVIOUS
      <4>2. 2 \in 1 .. Len(s) /\ s[2] < t[2] /\ \A m \in 1 .. (2 - 1) : s[m] = t[m]
        BY <3>1, <3>5, <4>1
      <4> QED BY <3>2, <4>2
    <3> QED BY <3>3, <3>4, <3>5 DEF s, t
  <2>4. ASSUME NEW j \in Id
        PROVE  /\ Below(rows, j, q[1]) <=> rows[j][1] < a \/ (rows[j][1] = a /\ rows[j][2] < b)
               /\ Above(rows, j, q[1]) <=> a < rows[j][1] \/ (a = rows[j][1] /\ b < rows[j][2])
    BY <1>1, <2>1, <2>2, <2>3 DEF Below, Above
  <2>5. ASSUME NEW j \in Id PROVE Leading(rows, j, 2) = q[1] <=> rows[j][1] = a /\ rows[j][2] = b
    BY <2>1, <2>2
  <2>6. ASSUME NEW j \in Id, Precedes(rows, i, j)
        PROVE  \/ rows[i][1] < rows[j][1]
               \/ rows[i][1] = rows[j][1] /\ (rows[i][2] < rows[j][2] \/ rows[i][2] = rows[j][2])
    BY <2>6, Compared
  <2>7. ASSUME NEW j \in Id, Precedes(rows, i, j)
        PROVE /\ Below(rows, j, q[1]) => Below(rows, i, q[1])
              /\ Above(rows, i, q[1]) => Above(rows, j, q[1])
    BY <1>1, <2>4, <2>6, <2>7
  <2>8. /\ ~(Below(rows, i, q[1]) /\ Above(rows, i, q[1]))
        /\ Leading(rows, i, 2) = q[1] <=> ~Below(rows, i, q[1]) /\ ~Above(rows, i, q[1])
    BY <1>1, <2>4, <2>5
  <2>9. q[2] = None
    BY <2>1, Query
  <2> QED BY <2>1, <2>7, <2>8, <2>9
<1> QED BY <1>2, <1>3, <1>4, Query

\* A part of an ordered index.
LEMMA PartIsOrdered ==
    ASSUME NEW rows \in Rows, NEW es, Ordered(es, rows), NEW a \in 1 .. Len(es) + 1, NEW b \in 0 .. Len(es), a <= b + 1
    PROVE  /\ Ordered(SubSeq(es, a, b), rows)
           /\ ToSet(SubSeq(es, a, b)) = {es[p] : p \in a .. b}
<1> DEFINE s == SubSeq(es, a, b)
           n == b - a + 1
<1>1. /\ es \in Seq(Id) /\ Len(es) \in Nat /\ n \in Nat /\ a \in Int /\ b \in Int
      /\ \A p, q \in 1 .. Len(es) : p < q => Precedes(rows, es[p], es[q])
  BY DEF Ordered
<1>2. s \in Seq(Id) /\ Len(s) = n /\ \A k \in 1 .. n : s[k] = es[a + k - 1]
  BY <1>1
<1>3. DOMAIN s = 1 .. n
  BY <1>2
<1>4. \A k \in 1 .. n : a + k - 1 \in a .. b /\ a + k - 1 \in 1 .. Len(es)
  BY <1>1
<1>5. \A p \in a .. b : p - a + 1 \in 1 .. n /\ a + (p - a + 1) - 1 = p
  BY <1>1
<1> HIDE DEF s
<1>6. ASSUME NEW k \in 1 .. n, NEW m \in 1 .. n, k < m PROVE Precedes(rows, s[k], s[m])
  <2>1. a + k - 1 < a + m - 1
    BY <1>1, <1>6
  <2> HIDE DEF n
  <2> QED BY <1>1, <1>2, <1>4, <2>1
<1> HIDE DEF n
<1>7. ToSet(s) = {es[p] : p \in a .. b}
  <2>1. ToSet(s) = {s[k] : k \in 1 .. n}
    BY <1>3 DEF ToSet
  <2>2. ASSUME NEW k \in 1 .. n PROVE s[k] \in {es[p] : p \in a .. b}
    BY <1>2, <1>4
  <2>3. ASSUME NEW p \in a .. b PROVE es[p] \in ToSet(s)
    <3>1. s[p - a + 1] = es[p]
      BY <1>2, <1>5
    <3> QED BY <1>5, <2>1, <3>1
  <2> QED BY <2>1, <2>2, <2>3
<1> QED BY <1>2, <1>6, <1>7 DEF Ordered, s

\* rangePrefix and rangeAfter on an ordered index find the rows asked for.
LEMMA RangeFinds ==
    ASSUME mem \in Rows, Ordered(entries, mem), ToSet(entries) = alive, NEW q \in Queries
    PROVE  RangeOf(q[1], q[2]) = Sorted(Matching(q), mem)
<1> DEFINE n == Len(entries)
           prefix == q[1]
           after == q[2]
           field == Len(prefix) + 1
           notBelow == {p \in 0 .. n - 1 : ~Below(mem, entries[p + 1], prefix)}
           above == {p \in 0 .. n - 1 : Above(mem, entries[p + 1], prefix)}
           start == PrefixStart(prefix)
           end == PrefixEnd(prefix)
           Led(i) == Leading(mem, i, Len(prefix)) = prefix
<1>1. /\ entries \in Seq(Id) /\ n \in Nat /\ (\A p \in 1 .. n : entries[p] \in Id)
      /\ alive = {entries[p] : p \in 1 .. n}
      /\ \A p, r \in 1 .. n : p < r => Precedes(mem, entries[p], entries[r])
  BY OrderedIsDistinct DEF Ordered
<1>2. start = Search(n, notBelow) /\ end = Search(n, above)
  BY DEF PrefixStart, PrefixEnd
<1>3. \A p \in 0 .. n - 1 : p + 1 \in 1 .. n
  BY <1>1
<1>4. Upward(n, notBelow) /\ Upward(n, above)
  <2>1. ASSUME NEW p \in 0 .. n - 1, NEW r \in 0 .. n - 1, p <= r
        PROVE  p = r \/ Precedes(mem, entries[p + 1], entries[r + 1])
    <3>1. p = r \/ p + 1 < r + 1
      BY <1>1, <2>1
    <3> HIDE DEF n
    <3> QED BY <1>1, <1>3, <3>1
  <2>2. ASSUME NEW p \in 0 .. n - 1, NEW r \in 0 .. n - 1, p <= r
        PROVE  /\ Below(mem, entries[r + 1], prefix) => Below(mem, entries[p + 1], prefix)
               /\ Above(mem, entries[p + 1], prefix) => Above(mem, entries[r + 1], prefix)
    <3>1. entries[p + 1] \in Id /\ entries[r + 1] \in Id
      BY <1>1, <1>3
    <3> QED BY <2>1, <2>2, <3>1, PrefixOrder
  <2> HIDE DEF n
  <2> QED BY <2>2 DEF Upward
<1> HIDE DEF start, end
<1>5. start \in 0 .. n /\ \A p \in 0 .. n - 1 : p \in notBelow <=> start <= p
  <2> HIDE DEF notBelow, n
  <2> QED BY <1>1, <1>2, <1>4, SearchFinds
<1>6. end \in 0 .. n /\ \A p \in 0 .. n - 1 : p \in above <=> end <= p
  <2> HIDE DEF above, n
  <2> QED BY <1>1, <1>2, <1>4, SearchFinds
<1>7. start <= end
  <2> SUFFICES ASSUME end < start PROVE FALSE
    BY <1>1, <1>5, <1>6
  <2>1. end \in 0 .. n - 1 /\ ~(start <= end) /\ end <= end
    BY <1>1, <1>5, <1>6
  <2>2. end \in above /\ end \notin notBelow
    <3> HIDE DEF above, notBelow, n
    <3> QED BY <1>5, <1>6, <2>1
  <2>3. entries[end + 1] \in Id
    BY <1>1, <1>3, <2>1
  <2> QED BY <2>1, <2>2, <2>3, PrefixOrder
<1>8. ASSUME NEW p \in 1 .. n PROVE Led(entries[p]) <=> p \in start + 1 .. end
  <2>1. p - 1 \in 0 .. n - 1 /\ (p - 1) + 1 = p
    BY <1>1
  <2>2. (p - 1 \in notBelow <=> ~Below(mem, entries[p], prefix)) /\ (p - 1 \in above <=> Above(mem, entries[p], prefix))
    BY <2>1
  <2>3. Led(entries[p]) <=> ~Below(mem, entries[p], prefix) /\ ~Above(mem, entries[p], prefix)
    BY <1>1, PrefixOrder
  <2> HIDE DEF notBelow, above, Led
  <2>4. (p - 1 \in notBelow <=> start <= p - 1) /\ (p - 1 \in above <=> end <= p - 1)
    BY <1>5, <1>6, <2>1
  <2>5. p \in start + 1 .. end <=> start <= p - 1 /\ ~(end <= p - 1)
    BY <1>1, <1>5, <1>6
  <2> QED BY <2>2, <2>3, <2>4, <2>5
<1> DEFINE size == end - start
           passed == {p \in 0 .. size - 1 : CursorPassed(mem[entries[start + p + 1]], field, after)}
           offset == IF after = None THEN 0 ELSE Search(size, passed)
           lo == start + offset + 1
           Wanted(i) == after # None => mem[i][field] > after
<1>9. RangeOf(prefix, after) = SubSeq(entries, lo, end)
  BY DEF RangeOf, start, end
<1> HIDE DEF notBelow, above
<1>10. size \in Nat /\ start \in Int /\ end \in Int
  BY <1>1, <1>5, <1>6, <1>7
<1>11. offset \in 0 .. size /\ \A p \in start + 1 .. end : Wanted(entries[p]) <=> p >= lo
  <2>1. CASE after = None
    <3>1. offset = 0 /\ lo = start + 1
      BY <1>10, <2>1
    <3> HIDE DEF offset, lo, size
    <3> QED BY <1>10, <2>1, <3>1
  <2>2. CASE after # None
    <3>1. offset = Search(size, passed)
      BY <2>2
    <3>2. after \in Int /\ field \in {1, 2}
      <4>1. after \in Int /\ (Len(prefix) = 0 \/ Len(prefix) = 1)
        BY <2>2, Query
      <4>2. \A m : m = 0 \/ m = 1 => m + 1 \in {1, 2}
        OBVIOUS
      <4> QED BY <4>1, <4>2, Zenon
    <3>3. ASSUME NEW p \in 0 .. size - 1 PROVE start + p + 1 \in 1 .. n /\ start + p + 1 \in start + 1 .. end
      BY <1>1, <1>5, <1>6, <1>10
    <3>4. ASSUME NEW i \in Id PROVE mem[i][field] \in Int
      BY <3>2, Ids
    <3>5. ASSUME NEW p \in 0 .. size - 1, NEW r \in 0 .. size - 1, p \in passed, p <= r PROVE r \in passed
      <4> DEFINE x == entries[start + p + 1]
                 y == entries[start + r + 1]
      <4>1. x \in Id /\ y \in Id /\ Led(x) /\ Led(y)
        BY <1>1, <1>8, <3>3
      <4>2. p = r \/ start + p + 1 < start + r + 1
        BY <1>10, <3>5
      <4>3. p = r \/ Precedes(mem, x, y)
        BY <1>1, <3>3, <4>2
      <4>4. mem[x][field] > after
        BY <3>5 DEF CursorPassed
      <4> HIDE DEF x, y
      <4>5. p = r \/ mem[x][field] <= mem[y][field]
        BY <2>2, <4>1, <4>3, PrefixOrder
      <4> HIDE DEF field, after
      <4>6. p = r \/ mem[y][field] > after
        BY <3>2, <3>4, <4>1, <4>4, <4>5
      <4> HIDE DEF size
      <4> QED BY <3>5, <4>6 DEF CursorPassed, y
    <3>6. Upward(size, passed)
      <4> HIDE DEF passed, size
      <4> QED BY <3>5 DEF Upward
    <3>7. offset \in 0 .. size /\ \A p \in 0 .. size - 1 : p \in passed <=> offset <= p
      <4> HIDE DEF passed, size, offset
      <4> QED BY <1>10, <3>1, <3>6, SearchFinds
    <3>8. ASSUME NEW p \in start + 1 .. end PROVE Wanted(entries[p]) <=> p >= lo
      <4> DEFINE k == p - start - 1
      <4>1. k \in 0 .. size - 1 /\ start + k + 1 = p
        BY <1>10
      <4>2. k \in passed <=> Wanted(entries[p])
        BY <2>2, <4>1 DEF CursorPassed
      <4> HIDE DEF passed, Wanted, size, offset
      <4>3. k \in passed <=> offset <= k
        BY <3>7, <4>1
      <4>4. offset \in Int
        BY <1>10, <3>7
      <4>5. offset <= k <=> p >= lo
        BY <1>10, <4>4
      <4> HIDE DEF k, lo
      <4> QED BY <4>2, <4>3, <4>5
    <3> QED BY <3>7, <3>8
  <2> QED BY <2>1, <2>2
<1> HIDE DEF offset, passed
<1>12. lo \in 1 .. n + 1 /\ end \in 0 .. n /\ lo <= end + 1 /\ lo >= start + 1 /\ lo \in Int
  BY <1>1, <1>5, <1>6, <1>10, <1>11
<1> DEFINE part == SubSeq(entries, lo, end)
<1> HIDE DEF lo, part
<1>13. Ordered(part, mem) /\ ToSet(part) = {entries[p] : p \in lo .. end}
  BY <1>12, PartIsOrdered DEF part
<1>14. ASSUME NEW p \in 1 .. n PROVE p \in lo .. end <=> entries[p] \in Matching(q)
  <2>1. p \in lo .. end <=> p \in start + 1 .. end /\ p >= lo
    BY <1>1, <1>10, <1>12
  <2>2. entries[p] \in Matching(q) <=> Led(entries[p]) /\ Wanted(entries[p])
    BY <1>1 DEF Matching
  <2> HIDE DEF Led, Wanted
  <2> QED BY <1>8, <1>11, <2>1, <2>2
<1>15. \A p \in lo .. end : p \in 1 .. n
  BY <1>1, <1>10, <1>12
<1>16. Matching(q) \in SUBSET alive
  BY DEF Matching
<1>17. ToSet(part) = Matching(q)
  <2> HIDE DEF Led, Wanted, n
  <2> QED BY <1>1, <1>13, <1>14, <1>15, <1>16
<1>18. part = Sorted(ToSet(part), mem)
  BY <1>13, OrderedIsSorted
<1> QED BY <1>9, <1>17, <1>18 DEF part

----------------------------------------------------------------------------
\* The inductive invariant.

\* Both indexes hold these rows and nothing else.
Holds(ids, es, ks, rows) ==
    /\ Ordered(es, rows) /\ ToSet(es) = ids
    /\ \A i \in ids : KeyOf(rows[i]) \in DOMAIN ks /\ ks[KeyOf(rows[i])] = i
    /\ \A k \in DOMAIN ks : ks[k] \in ids /\ KeyOf(rows[ks[k]]) = k
Exact(ids) == Holds(ids, entries, keys, mem)

\* The values of the variables.
Typed ==
    /\ mem \in Rows /\ alive \in SUBSET Id /\ Distinct(entries)
    /\ DOMAIN keys \in SUBSET Keys /\ (\A k \in DOMAIN keys : keys[k] \in Id)
    /\ edits \in 0 .. MaxEdits

\* A commit has rows and runs without unsafe edits.
Running ==
    \/ commit = Idle
    \/ /\ edits = 0 /\ commit.stage \in {"prepare", "apply", "finish"} /\ Items # {} /\ Items \in SUBSET Id
       /\ commit = [items |-> commit.items, left |-> commit.left, stage |-> commit.stage]
       /\ commit.left \in SUBSET Items
       /\ \A i \in Items : commit.items[i] \in RowSet \cup {Gone}

\* A range view has the rows of its range, and no commit runs.
Viewed ==
    view = None \/
        /\ commit = Idle /\ edits = 0
        /\ view = [query |-> view.query, got |-> view.got, stage |-> view.stage]
        /\ view.query \in Queries /\ view.stage \in {"copied", "callback"}
        /\ view.got = Sorted(Matching(view.query), mem)

\* Between prepareIndexes and finishIndexes: the keys that the commit brings are
\* free, one for each row, and the rows it has applied have their contents.
Published ==
    /\ commit.left \cap Deleted = {}
    /\ \A i \in Items \ Deleted : KeyOf(commit.items[i]) \notin DOMAIN keys
    /\ \A i, j \in Items \ Deleted : KeyOf(commit.items[i]) = KeyOf(commit.items[j]) => i = j
    /\ \A i \in (Items \ Deleted) \ commit.left : i \in alive /\ mem[i] = commit.items[i]
    /\ commit.stage = "apply" => Deleted \in SUBSET alive /\ \A i \in Deleted : KeyOf(mem[i]) \notin DOMAIN keys
    /\ commit.stage = "finish" => commit.left = {} /\ Deleted \cap alive = {}

IndexInv ==
    /\ Typed /\ Running /\ Viewed
    /\ edits = 0 =>
         /\ commit.stage \in {"idle", "prepare"} => Exact(alive)
         /\ commit.stage = "prepare" => ~Collides(commit.items) /\ Deleted \in SUBSET alive
         /\ commit.stage \in {"apply", "finish"} => Exact(alive \ Items) /\ Published

\* No commit runs.
LEMMA IdleCommit == Idle.stage = "idle" /\ Idle.left = {} /\ Idle.items = NoItems /\ DOMAIN Idle.items = {}
BY DEF Idle, NoItems

\* The stage tells whether a commit runs.
LEMMA Stages ==
    ASSUME Running
    PROVE  /\ commit.stage \in {"idle", "prepare", "apply", "finish"}
           /\ commit = Idle <=> commit.stage = "idle"
           /\ commit = Idle => Items = {} /\ commit.left = {}
           /\ commit # Idle => edits = 0 /\ Items # {}
           /\ Items \in SUBSET Id /\ commit.left \in SUBSET Items
           /\ \A i \in Items : commit.items[i] \in RowSet \cup {Gone}
BY IdleCommit DEF Running, Items

\* An empty database has empty, exact indexes.
LEMMA Initially == ASSUME Init PROVE IndexInv
<1>1. mem \in Rows
  <2>1. (CHOOSE row \in RowSet : TRUE) \in RowSet
    BY IndexAssumption
  <2> DEFINE blank == CHOOSE row \in RowSet : TRUE
  <2>2. mem = [i \in Id |-> blank]
    BY DEF Init
  <2> HIDE DEF blank
  <2> QED BY <2>1, <2>2 DEF Rows, blank
<1>2. entries = <<>> /\ <<>> \in Seq(Id) /\ Len(<<>>) = 0 /\ DOMAIN <<>> = {} /\ 1 .. 0 = {}
  BY DEF Init
<1>3. Distinct(entries) /\ Ordered(entries, mem) /\ ToSet(entries) = {}
  BY <1>2 DEF Distinct, Ordered, ToSet
<1>4. DOMAIN keys = {} /\ alive = {} /\ edits = 0 /\ commit = Idle /\ view = None
  BY DEF Init
<1>5. edits \in 0 .. MaxEdits
  BY <1>4, IndexAssumption
<1>6. Exact(alive)
  BY <1>3, <1>4 DEF Exact, Holds
<1> QED BY <1>1, <1>3, <1>4, <1>5, <1>6, IdleCommit DEF IndexInv, Typed, Running, Viewed

\* validateIndexes has refused what collides.
LEMMA BeginStep ==
    ASSUME IndexInv, NEW items \in Writes, Begin(items)
    PROVE  IndexInv'
<1>1. PICK s \in SUBSET Id :
        s # {} /\ items \in [s -> RowSet \cup {Gone}] /\ \A i \in s : i \in alive \/ items[i] # Gone
  BY DEF Writes
<1>2. /\ edits = 0 /\ commit = Idle /\ view = None /\ ~Collides(items)
      /\ commit' = [items |-> items, left |-> DOMAIN items, stage |-> "prepare"]
      /\ UNCHANGED <<mem, alive, entries, keys, view, edits>>
  BY <1>1 DEF Begin, LocksStructure
<1>3. commit'.items = items /\ commit'.left = s /\ commit'.stage = "prepare" /\ DOMAIN items = s
  BY <1>1, <1>2
<1>4. Items' = s /\ Deleted' = {i \in s : items[i] = Gone}
  BY <1>3 DEF Items, Deleted
<1>5. Typed' /\ Viewed'
  BY <1>2 DEF IndexInv, Typed, Viewed
<1>6. Running'
  BY <1>1, <1>2, <1>3, <1>4 DEF Running
<1>7. Exact(alive)'
  BY <1>2, IdleCommit DEF IndexInv, Exact
<1>8. ~Collides(commit.items)' /\ Deleted' \in SUBSET alive'
  BY <1>1, <1>2, <1>3, <1>4 DEF Collides, CollidesWithRows
<1> QED BY <1>3, <1>5, <1>6, <1>7, <1>8 DEF IndexInv

\* Keys removed by value: the rest is as it was.
LEMMA KeysWithout ==
    ASSUME NEW ids, keys' = WithoutKeys(ids)
    PROVE  /\ \A k : k \in DOMAIN keys' <=> k \in DOMAIN keys /\ \A i \in ids : KeyOf(mem[i]) # k
           /\ \A k \in DOMAIN keys' : keys'[k] = keys[k]
BY DEF WithoutKeys

\* Rows leave both indexes together.
LEMMA HoldsWithout ==
    ASSUME NEW rows \in Rows, NEW ids \in SUBSET Id, NEW es, NEW ks, Holds(ids, es, ks, rows), NEW out \in SUBSET ids,
           NEW es2, Ordered(es2, rows), ToSet(es2) = ids \ out,
           NEW ks2, \A k : k \in DOMAIN ks2 <=> k \in DOMAIN ks /\ \A i \in out : KeyOf(rows[i]) # k,
           \A k \in DOMAIN ks2 : ks2[k] = ks[k]
    PROVE  Holds(ids \ out, es2, ks2, rows)
<1>1. ASSUME NEW i \in ids \ out PROVE KeyOf(rows[i]) \in DOMAIN ks2 /\ ks2[KeyOf(rows[i])] = i
  <2>1. KeyOf(rows[i]) \in DOMAIN ks /\ ks[KeyOf(rows[i])] = i
    BY DEF Holds
  <2>2. \A j \in out : KeyOf(rows[j]) # KeyOf(rows[i])
    BY <2>1 DEF Holds
  <2> QED BY <2>1, <2>2
<1>2. ASSUME NEW k \in DOMAIN ks2 PROVE ks2[k] \in ids \ out /\ KeyOf(rows[ks2[k]]) = k
  <2>1. ks[k] \in ids /\ KeyOf(rows[ks[k]]) = k
    BY DEF Holds
  <2> QED BY <2>1
<1> QED BY <1>1, <1>2 DEF Holds

\* prepareIndexes and prepareIndexBatch take the rows of the commit out of the indexes.
LEMMA PrepareStep ==
    ASSUME IndexInv, Prepare
    PROVE  IndexInv'
<1> DEFINE out == Items \cap alive
<1>1. /\ commit.stage = "prepare" /\ keys' = WithoutKeys(out)
      /\ entries' = IF InBatch THEN Without(entries, out) ELSE RemoveEntries(entries, mem, out)
      /\ commit' = [commit EXCEPT !.stage = "apply", !.left = Items \ Deleted]
      /\ mem' = mem /\ alive' = alive /\ view' = view /\ edits' = edits
  BY DEF Prepare
<1>2. /\ Typed /\ Running /\ Viewed /\ commit # Idle /\ edits = 0 /\ Items \in SUBSET Id /\ Items # {}
      /\ \A i \in Items : commit.items[i] \in RowSet \cup {Gone}
  BY <1>1, Stages DEF IndexInv
<1>3. Exact(alive) /\ ~Collides(commit.items) /\ Deleted \in SUBSET alive
  BY <1>1, <1>2 DEF IndexInv
<1>4. view = None
  BY <1>2 DEF Viewed
<1>5. /\ commit'.items = commit.items /\ commit'.left = Items \ Deleted /\ commit'.stage = "apply"
      /\ commit' = [items |-> commit'.items, left |-> commit'.left, stage |-> commit'.stage]
  BY <1>1, <1>2 DEF Running
<1>6. Items' = Items /\ Deleted' = Deleted
  BY <1>5 DEF Items, Deleted
<1>7. Ordered(entries', mem) /\ ToSet(entries') = alive \ out
  <2>1. Ordered(entries, mem) /\ ToSet(entries) = alive /\ Distinct(entries) /\ mem \in Rows
    BY <1>2, <1>3 DEF Exact, Holds, Typed
  <2>2. out \in SUBSET Id
    BY <1>2
  <2>3. CASE InBatch
    BY <1>1, <2>1, <2>3, WithoutIsOrdered
  <2>4. CASE ~InBatch
    BY <1>1, <2>1, <2>2, <2>4, RemovedEntries
  <2> QED BY <2>3, <2>4
<1>8. alive \ out = alive \ Items
  OBVIOUS
<1>9. Exact(alive \ Items)'
  <2>1. alive \in SUBSET Id /\ out \in SUBSET alive
    BY <1>2 DEF Typed
  <2> HIDE DEF out
  <2>2. /\ \A k : k \in DOMAIN keys' <=> k \in DOMAIN keys /\ \A i \in out : KeyOf(mem[i]) # k
        /\ \A k \in DOMAIN keys' : keys'[k] = keys[k]
    BY <1>1, KeysWithout
  <2>3. mem \in Rows /\ Holds(alive, entries, keys, mem)
    BY <1>2, <1>3 DEF Typed, Exact
  <2>4. Holds(alive \ out, entries', keys', mem)
    BY <1>7, <2>1, <2>2, <2>3, HoldsWithout
  <2> QED BY <1>1, <1>6, <1>8, <2>4 DEF Exact
<1>10. ASSUME NEW i \in Items \ Deleted PROVE KeyOf(commit.items[i]) \notin DOMAIN keys'
  <2> SUFFICES ASSUME KeyOf(commit.items[i]) \in DOMAIN keys' PROVE FALSE
    OBVIOUS
  <2> DEFINE k == KeyOf(commit.items[i])
  <2>1. k \in DOMAIN keys /\ \A j \in out : KeyOf(mem[j]) # k
    BY <1>1, KeysWithout
  <2>2. keys[k] \in alive /\ KeyOf(mem[keys[k]]) = k
    BY <1>3, <2>1 DEF Exact, Holds
  <2>3. keys[k] \in Items
    BY <1>3, <2>1 DEF Collides, CollidesWithRows, Items, Deleted
  <2> QED BY <2>1, <2>2, <2>3
<1>11. \A i, j \in Items \ Deleted : KeyOf(commit.items[i]) = KeyOf(commit.items[j]) => i = j
  BY <1>3 DEF Collides, Items, Deleted
<1>12. ASSUME NEW i \in Deleted PROVE KeyOf(mem[i]) \notin DOMAIN keys'
  <2>1. i \in out
    BY <1>3 DEF Deleted
  <2> QED BY <1>1, <2>1, KeysWithout
<1>13. Published'
  BY <1>1, <1>3, <1>5, <1>6, <1>10, <1>11, <1>12 DEF Published
<1>14. Typed'
  <2>1. Distinct(entries')
    BY <1>2, <1>7, OrderedIsDistinct DEF Typed
  <2>2. DOMAIN keys' \in SUBSET DOMAIN keys /\ \A k \in DOMAIN keys' : keys'[k] = keys[k]
    BY <1>1, KeysWithout
  <2> QED BY <1>1, <1>2, <2>1, <2>2 DEF Typed
<1>15. Running' /\ Viewed'
  BY <1>1, <1>2, <1>4, <1>5, <1>6 DEF Running, Viewed
<1> QED BY <1>5, <1>9, <1>13, <1>14, <1>15 DEF IndexInv

\* Rows that the indexes do not hold change.
LEMMA HoldsSame ==
    ASSUME NEW rows \in Rows, NEW other \in Rows, NEW ids, NEW es, NEW ks, Holds(ids, es, ks, rows),
           \A i \in ids : rows[i] = other[i]
    PROVE  Holds(ids, es, ks, other)
<1>1. Ordered(es, other)
  BY SameOrdered DEF Holds
<1> QED BY <1>1 DEF Holds

\* applyWrite and add change a row that is in no index.
LEMMA ApplyStep ==
    ASSUME IndexInv, NEW i \in Id, Apply(i)
    PROVE  IndexInv'
<1>1. /\ commit.stage = "apply" /\ i \in commit.left
      /\ mem' = [mem EXCEPT ![i] = commit.items[i]] /\ alive' = alive \cup {i}
      /\ commit' = [commit EXCEPT !.left = commit.left \ {i}]
      /\ entries' = entries /\ keys' = keys /\ view' = view /\ edits' = edits
  BY DEF Apply
<1>2. /\ Typed /\ Running /\ Viewed /\ commit # Idle /\ edits = 0 /\ Items \in SUBSET Id /\ Items # {}
      /\ commit.left \in SUBSET Items
      /\ \A j \in Items : commit.items[j] \in RowSet \cup {Gone}
  BY <1>1, Stages DEF IndexInv
<1>3. Exact(alive \ Items) /\ Published
  BY <1>1, <1>2 DEF IndexInv
<1>4. view = None
  BY <1>2 DEF Viewed
<1>5. /\ commit'.items = commit.items /\ commit'.left = commit.left \ {i} /\ commit'.stage = "apply"
      /\ commit' = [items |-> commit'.items, left |-> commit'.left, stage |-> commit'.stage]
  BY <1>1, <1>2 DEF Running
<1>6. Items' = Items /\ Deleted' = Deleted
  BY <1>5 DEF Items, Deleted
<1>7. i \in Items /\ i \notin Deleted /\ commit.items[i] \in RowSet
  BY <1>1, <1>2, <1>3 DEF Published, Deleted
<1>8. mem \in Rows /\ mem' \in Rows /\ mem'[i] = commit.items[i] /\ \A j \in Id : j # i => mem'[j] = mem[j]
  BY <1>1, <1>2, <1>7 DEF Typed, Rows
<1>9. alive \in SUBSET Id /\ alive' \in SUBSET Id /\ alive' \ Items = alive \ Items
  BY <1>1, <1>2, <1>7 DEF Typed
<1>10. Exact(alive \ Items)'
  <2>1. \A j \in alive \ Items : mem[j] = mem'[j]
    BY <1>7, <1>8, <1>9
  <2>2. Holds(alive \ Items, entries, keys, mem)
    BY <1>3 DEF Exact
  <2>3. Holds(alive \ Items, entries, keys, mem')
    BY <1>8, <2>1, <2>2, HoldsSame
  <2> QED BY <1>1, <1>6, <1>9, <2>3 DEF Exact
<1>11. Published'
  <2>1. \A j \in (Items \ Deleted) \ commit'.left : j \in alive' /\ mem'[j] = commit.items[j]
    BY <1>1, <1>2, <1>3, <1>5, <1>8 DEF Published
  <2>2. \A j \in Deleted : j \in Id /\ j # i /\ mem'[j] = mem[j]
    BY <1>2, <1>7, <1>8 DEF Deleted
  <2>3. Deleted \in SUBSET alive' /\ \A j \in Deleted : KeyOf(mem'[j]) \notin DOMAIN keys
    BY <1>1, <1>3, <2>2 DEF Published
  <2>4. commit'.left \cap Deleted = {}
    BY <1>3, <1>5 DEF Published
  <2> QED BY <1>1, <1>3, <1>5, <1>6, <2>1, <2>3, <2>4 DEF Published
<1>12. Typed'
  BY <1>1, <1>2, <1>8, <1>9 DEF Typed
<1>13. Running' /\ Viewed'
  BY <1>1, <1>2, <1>4, <1>5, <1>6 DEF Running, Viewed
<1> QED BY <1>5, <1>10, <1>11, <1>12, <1>13 DEF IndexInv

\* The memory of the rows that stay.
LEMMA KeptRows ==
    ASSUME mem \in Rows, NEW ids
    PROVE  Kept(ids) \in Rows /\ \A i \in Id : i \in ids => Kept(ids)[i] = mem[i]
<1> DEFINE blank == CHOOSE row \in RowSet : TRUE
<1>1. blank \in RowSet
  BY IndexAssumption
<1>2. Kept(ids) = [i \in Id |-> IF i \in ids THEN mem[i] ELSE blank]
  BY DEF Kept
<1> HIDE DEF blank
<1> QED BY <1>1, <1>2 DEF Rows

\* relationDelete finds nothing left to take out of the indexes.
LEMMA DeleteStep ==
    ASSUME IndexInv, Delete
    PROVE  IndexInv'
<1>1. /\ commit.stage = "apply" /\ commit.left = {} /\ alive' = alive \ Deleted
      /\ keys' = WithoutKeys(Deleted) /\ entries' = RemoveEntries(entries, mem, Deleted)
      /\ mem' = Kept(alive') /\ commit' = [commit EXCEPT !.stage = "finish"]
      /\ view' = view /\ edits' = edits
  BY DEF Delete
<1>2. /\ Typed /\ Running /\ Viewed /\ commit # Idle /\ edits = 0 /\ Items \in SUBSET Id /\ Items # {}
      /\ \A j \in Items : commit.items[j] \in RowSet \cup {Gone}
  BY <1>1, Stages DEF IndexInv
<1>3. Exact(alive \ Items) /\ Published
  BY <1>1, <1>2 DEF IndexInv
<1>4. view = None
  BY <1>2 DEF Viewed
<1>5. /\ commit'.items = commit.items /\ commit'.left = {} /\ commit'.stage = "finish"
      /\ commit' = [items |-> commit'.items, left |-> commit'.left, stage |-> commit'.stage]
  BY <1>1, <1>2 DEF Running
<1>6. Items' = Items /\ Deleted' = Deleted /\ Deleted \in SUBSET Items
  BY <1>5 DEF Items, Deleted
<1>7. mem \in Rows /\ alive \in SUBSET Id /\ Distinct(entries)
  BY <1>2 DEF Typed
<1>8. mem' \in Rows /\ \A i \in alive' : mem'[i] = mem[i]
  BY <1>1, <1>7, KeptRows
<1>9. Ordered(entries', mem) /\ ToSet(entries') = alive \ Items
  <2>1. Ordered(entries, mem) /\ ToSet(entries) = alive \ Items
    BY <1>3 DEF Exact, Holds
  <2>2. Deleted \in SUBSET Id
    BY <1>2, <1>6
  <2> QED BY <1>1, <1>6, <1>7, <2>1, <2>2, RemovedEntries
<1>10. DOMAIN keys' = DOMAIN keys /\ \A k \in DOMAIN keys : keys'[k] = keys[k]
  <2>1. \A i \in Deleted : KeyOf(mem[i]) \notin DOMAIN keys
    BY <1>1, <1>3 DEF Published
  <2> QED BY <1>1, <2>1, KeysWithout
<1>11. Exact(alive \ Items)'
  <2>1. Holds(alive \ Items, entries', keys', mem)
    BY <1>3, <1>9, <1>10 DEF Exact, Holds
  <2>2. alive' \ Items = alive \ Items /\ \A i \in alive \ Items : mem[i] = mem'[i]
    BY <1>1, <1>6, <1>8
  <2>3. Holds(alive \ Items, entries', keys', mem')
    BY <1>7, <1>8, <2>1, <2>2, HoldsSame
  <2> QED BY <1>6, <2>2, <2>3 DEF Exact
<1>12. Published'
  <2>1. \A j \in Items \ Deleted : j \in alive' /\ mem'[j] = commit.items[j]
    BY <1>1, <1>3, <1>8 DEF Published
  <2>2. /\ \A i \in Items \ Deleted : KeyOf(commit.items[i]) \notin DOMAIN keys'
        /\ \A i, j \in Items \ Deleted : KeyOf(commit.items[i]) = KeyOf(commit.items[j]) => i = j
    BY <1>3, <1>10 DEF Published
  <2>3. Deleted \cap alive' = {}
    BY <1>1
  <2> QED BY <1>5, <1>6, <2>1, <2>2, <2>3 DEF Published
<1>13. Typed'
  <2>1. Distinct(entries') /\ alive' \in SUBSET Id
    BY <1>1, <1>7, <1>9, OrderedIsDistinct
  <2> QED BY <1>1, <1>2, <1>8, <1>10, <2>1 DEF Typed
<1>14. Running' /\ Viewed'
  BY <1>1, <1>2, <1>4, <1>5, <1>6 DEF Running, Viewed
<1> QED BY <1>5, <1>11, <1>12, <1>13, <1>14 DEF IndexInv

\* finishIndexes and finishIndexBatch put the rows of the commit back.
LEMMA FinishStep ==
    ASSUME IndexInv, Finish
    PROVE  IndexInv'
<1> DEFINE fresh(k) == \E i \in Added : KeyOf(mem[i]) = k
           owner(k) == CHOOSE i \in Added : KeyOf(mem[i]) = k
<1>1. /\ commit.stage = "finish"
      /\ keys' = [k \in DOMAIN keys \cup {KeyOf(mem[i]) : i \in Added} |-> IF fresh(k) THEN owner(k) ELSE keys[k]]
      /\ entries' = IF InBatch THEN Merge(entries, Sorted(Added, mem), mem) ELSE AddEntries(entries, mem, Added)
      /\ commit' = Idle /\ mem' = mem /\ alive' = alive /\ view' = view /\ edits' = edits
  BY DEF Finish
<1>2. /\ Typed /\ Running /\ Viewed /\ commit # Idle /\ edits = 0 /\ Items \in SUBSET Id
      /\ mem \in Rows /\ alive \in SUBSET Id
  BY <1>1, Stages DEF IndexInv, Typed
<1>3. Holds(alive \ Items, entries, keys, mem) /\ Published
  BY <1>1, <1>2 DEF IndexInv, Exact
<1>4. view = None
  BY <1>2 DEF Viewed
<1>5. /\ Added = Items \ Deleted /\ (alive \ Items) \cup Added = alive /\ Added \cap (alive \ Items) = {}
      /\ Added \in SUBSET Id /\ \A i \in Added : mem[i] = commit.items[i] /\ i \in alive
  BY <1>1, <1>2, <1>3 DEF Added, Published, Deleted
<1>6. /\ \A i \in Added : KeyOf(mem[i]) \notin DOMAIN keys
      /\ \A i, j \in Added : KeyOf(mem[i]) = KeyOf(mem[j]) => i = j
  BY <1>3, <1>5 DEF Published
<1>7. Ordered(entries', mem) /\ ToSet(entries') = alive
  <2>1. Ordered(entries, mem) /\ ToSet(entries) = alive \ Items
    BY <1>3 DEF Holds
  <2>2. CASE InBatch
    <3> DEFINE more == Sorted(Added, mem)
    <3>1. Ordered(more, mem) /\ ToSet(more) = Added
      BY <1>2, <1>5, SortedIsOrdered
    <3> HIDE DEF more
    <3>2. entries' = Merge(entries, more, mem)
      BY <1>1, <2>2 DEF more
    <3>3. ToSet(entries) \cap ToSet(more) = {}
      BY <1>5, <2>1, <3>1
    <3> QED BY <1>2, <1>5, <2>1, <3>1, <3>2, <3>3, MergeIsOrdered
  <2>3. CASE ~InBatch
    <3>1. entries' = AddEntries(entries, mem, Added)
      BY <1>1, <2>3
    <3>2. Added \cap ToSet(entries) = {}
      BY <1>5, <2>1
    <3>3. mem \in Rows /\ Added \in SUBSET Id /\ Ordered(entries, mem)
      BY <1>2, <1>5, <2>1
    <3>4. /\ Ordered(AddEntries(entries, mem, Added), mem)
          /\ ToSet(AddEntries(entries, mem, Added)) = ToSet(entries) \cup Added
      BY <3>2, <3>3, AddedEntries
    <3> QED BY <1>5, <2>1, <3>1, <3>4
  <2> QED BY <2>2, <2>3
<1>8. ASSUME NEW i \in Added PROVE fresh(KeyOf(mem[i])) /\ owner(KeyOf(mem[i])) = i
  BY <1>6
<1>9. \A k \in DOMAIN keys : ~fresh(k)
  BY <1>6
<1>10. \A k : fresh(k) => owner(k) \in Added /\ KeyOf(mem[owner(k)]) = k
  OBVIOUS
<1> DEFINE D == DOMAIN keys \cup {KeyOf(mem[i]) : i \in Added}
<1>11. DOMAIN keys' = D /\ \A k \in D : keys'[k] = IF fresh(k) THEN owner(k) ELSE keys[k]
  <2> HIDE DEF fresh, owner
  <2> QED BY <1>1
<1>12. \A k \in D : k \in DOMAIN keys \/ fresh(k)
  OBVIOUS
<1>13. \A i \in Added : KeyOf(mem[i]) \in D
  OBVIOUS
<1> HIDE DEF fresh, owner
<1>14. ASSUME NEW i \in alive PROVE KeyOf(mem[i]) \in DOMAIN keys' /\ keys'[KeyOf(mem[i])] = i
  <2>1. CASE i \in Added
    BY <1>8, <1>11, <1>13, <2>1
  <2>2. CASE i \in alive \ Items
    <3>1. KeyOf(mem[i]) \in DOMAIN keys /\ keys[KeyOf(mem[i])] = i
      BY <1>3, <2>2 DEF Holds
    <3> QED BY <1>9, <1>11, <3>1
  <2> QED BY <1>5, <2>1, <2>2
<1>15. ASSUME NEW k \in DOMAIN keys' PROVE keys'[k] \in alive /\ KeyOf(mem[keys'[k]]) = k
  <2>1. CASE fresh(k)
    BY <1>5, <1>10, <1>11, <2>1
  <2>2. CASE ~fresh(k)
    <3>1. k \in DOMAIN keys /\ keys'[k] = keys[k]
      BY <1>11, <1>12, <2>2
    <3> QED BY <1>3, <3>1 DEF Holds
  <2> QED BY <2>1, <2>2
<1> HIDE DEF D
<1>16. Exact(alive)'
  BY <1>1, <1>7, <1>14, <1>15 DEF Exact, Holds
<1>17. Typed'
  <2>1. Distinct(entries')
    BY <1>2, <1>7, OrderedIsDistinct
  <2>2. ASSUME NEW k \in DOMAIN keys' PROVE k \in Keys /\ keys'[k] \in Id
    <3>1. keys'[k] \in Id /\ KeyOf(mem[keys'[k]]) = k
      BY <1>2, <1>15
    <3>2. mem[keys'[k]] \in RowSet
      BY <1>2, <3>1 DEF Rows
    <3> QED BY <3>1, <3>2 DEF Keys
  <2> QED BY <1>1, <1>2, <2>1, <2>2 DEF Typed
<1>18. Running' /\ Viewed'
  BY <1>1, <1>4 DEF Running, Viewed
<1>19. commit'.stage = "idle"
  BY <1>1, IdleCommit
<1> QED BY <1>16, <1>17, <1>18, <1>19 DEF IndexInv

\* ViewRange and ViewRangeAfter copy the range while no commit runs.
LEMMA ViewRangeStep ==
    ASSUME IndexInv, NEW q \in Queries, ViewRange(q)
    PROVE  IndexInv'
<1>1. /\ edits = 0 /\ view' = [query |-> q, got |-> RangeOf(q[1], q[2]), stage |-> "copied"]
      /\ mem' = mem /\ alive' = alive /\ entries' = entries /\ keys' = keys /\ commit' = commit /\ edits' = edits
      /\ commit # Idle => DOMAIN commit.items = {}
  BY DEF ViewRange, LocksStructure
<1>2. commit = Idle
  BY <1>1, Stages DEF IndexInv, Items
<1>3. mem \in Rows /\ Ordered(entries, mem) /\ ToSet(entries) = alive
  BY <1>1, <1>2, IdleCommit DEF IndexInv, Typed, Exact, Holds
<1>4. RangeOf(q[1], q[2]) = Sorted(Matching(q), mem)
  BY <1>3, RangeFinds
<1>5. Matching(q)' = Matching(q)
  BY <1>1 DEF Matching, Leading
<1>6. view'.query = q /\ view'.got = RangeOf(q[1], q[2]) /\ view'.stage = "copied"
  BY <1>1
<1>7. Viewed'
  <2>1. Matching(view.query)' = Matching(q)
    BY <1>1, <1>6 DEF Matching, Leading
  <2>2. view'.got = Sorted(Matching(view.query)', mem')
    BY <1>1, <1>4, <1>6, <2>1
  <2>3. view'.query \in Queries /\ view' = [query |-> view'.query, got |-> view'.got, stage |-> view'.stage]
    BY <1>1, <1>6
  <2> QED BY <1>1, <1>2, <1>6, <2>2, <2>3 DEF Viewed
<1> QED BY <1>1, <1>7 DEF IndexInv, Typed, Running, Items, Exact, Published, Deleted, Collides, CollidesWithRows

\* The callback of a range view starts and ends.
LEMMA CallbackStep ==
    ASSUME IndexInv, StartCallback \/ EndView
    PROVE  IndexInv'
<1>1. /\ mem' = mem /\ alive' = alive /\ entries' = entries /\ keys' = keys /\ commit' = commit /\ edits' = edits
      /\ view # None /\ (view' = [view EXCEPT !.stage = "callback"] \/ view' = None)
  BY DEF StartCallback, EndView
<1>2. CASE view' = None
  BY <1>1, <1>2 DEF IndexInv, Typed, Running, Viewed, Items, Exact, Published, Deleted, Collides, CollidesWithRows
<1>3. CASE view' = [view EXCEPT !.stage = "callback"]
  <2>1. /\ view = [query |-> view.query, got |-> view.got, stage |-> view.stage]
        /\ commit = Idle /\ edits = 0 /\ view.query \in Queries /\ view.got = Sorted(Matching(view.query), mem)
    BY <1>1 DEF IndexInv, Viewed
  <2>2. /\ view'.query = view.query /\ view'.got = view.got /\ view'.stage = "callback"
        /\ view' = [query |-> view'.query, got |-> view'.got, stage |-> view'.stage]
    BY <1>3, <2>1
  <2>3. Matching(view.query)' = Matching(view.query)
    BY <1>1, <2>2 DEF Matching, Leading
  <2>4. view'.got = Sorted(Matching(view.query)', mem')
    BY <1>1, <2>1, <2>2, <2>3
  <2>5. Viewed'
    BY <1>1, <2>1, <2>2, <2>4 DEF Viewed
  <2> QED BY <1>1, <2>5 DEF IndexInv, Typed, Running, Items, Exact, Published, Deleted, Collides, CollidesWithRows
<1> QED BY <1>1, <1>2, <1>3

\* An unsafe edit leaves only the types.
LEMMA UnsafeEditStep ==
    ASSUME IndexInv, NEW i \in Id, NEW row \in RowSet, UnsafeEdit(i, row)
    PROVE  IndexInv'
<1>1. /\ commit = Idle /\ view = None /\ edits < MaxEdits
      /\ mem' = [mem EXCEPT ![i] = row] /\ edits' = edits + 1
      /\ alive' = alive /\ entries' = entries /\ keys' = keys /\ commit' = commit /\ view' = view
  BY DEF UnsafeEdit
<1>2. Typed /\ mem' \in Rows
  BY <1>1 DEF IndexInv, Typed, Rows
<1>3. edits' \in 0 .. MaxEdits /\ edits' # 0
  <2>1. edits \in 0 .. MaxEdits /\ MaxEdits \in Nat
    BY <1>2, IndexAssumption DEF Typed
  <2> QED BY <1>1, <2>1
<1>4. Typed'
  BY <1>1, <1>2, <1>3 DEF Typed
<1>5. Running' /\ Viewed'
  BY <1>1 DEF Running, Viewed
<1> QED BY <1>3, <1>4, <1>5 DEF IndexInv

\* Flush rebuilds the indexes, or returns an error and leaves the types.
LEMMA FlushStep ==
    ASSUME IndexInv, NEW dead \in SUBSET Id, Flush(dead)
    PROVE  IndexInv'
<1> DEFINE ids == alive \ dead
<1>1. /\ edits > 0 /\ alive' = ids /\ commit' = commit /\ view' = view
      /\ \/ /\ KeysUnique(ids) /\ entries' = Sorted(ids, mem) /\ keys' = Lookups(ids) /\ mem' = Kept(alive')
            /\ edits' = 0
         \/ /\ entries' = RemoveEntries(entries, mem, dead) /\ keys' = WithoutKeys(dead)
            /\ mem' = mem /\ edits' = edits
  BY DEF Flush
<1>2. Typed /\ Running /\ Viewed /\ edits \in Nat /\ edits # 0
  BY <1>1, IndexAssumption DEF IndexInv, Typed
<1>3. commit = Idle /\ view = None
  BY <1>2, Stages DEF Viewed
<1>4. mem \in Rows /\ ids \in SUBSET Id /\ Distinct(entries)
  BY <1>2 DEF Typed
<1>5. Running' /\ Viewed' /\ commit'.stage = "idle"
  BY <1>1, <1>3, IdleCommit DEF Running, Viewed
<1> HIDE DEF ids
<1>6. CASE /\ KeysUnique(ids) /\ entries' = Sorted(ids, mem) /\ keys' = Lookups(ids) /\ mem' = Kept(alive')
           /\ edits' = 0
  <2> DEFINE owner(k) == CHOOSE i \in ids : KeyOf(mem[i]) = k
             D == {KeyOf(mem[i]) : i \in ids}
  <2>1. keys' = [k \in D |-> owner(k)]
    BY <1>6 DEF Lookups
  <2>2. \A i \in ids : KeyOf(mem[i]) \in D /\ owner(KeyOf(mem[i])) = i
    BY <1>6 DEF KeysUnique
  <2>3. \A k \in D : owner(k) \in ids /\ KeyOf(mem[owner(k)]) = k
    OBVIOUS
  <2> HIDE DEF owner, D
  <2>4. Ordered(entries', mem) /\ ToSet(entries') = ids
    BY <1>4, <1>6, SortedIsOrdered
  <2>5. DOMAIN keys' = D /\ \A k \in D : keys'[k] = owner(k)
    BY <2>1
  <2>6. Holds(ids, entries', keys', mem)
    BY <2>2, <2>3, <2>4, <2>5 DEF Holds
  <2>7. mem' \in Rows /\ \A i \in ids : mem[i] = mem'[i]
    BY <1>1, <1>4, <1>6, KeptRows
  <2>8. Exact(alive)'
    <3>1. Holds(ids, entries', keys', mem')
      BY <1>4, <2>6, <2>7, HoldsSame
    <3> QED BY <1>1, <3>1 DEF Exact
  <2>9. Distinct(entries')
    BY <1>4, <2>4, OrderedIsDistinct
  <2>10. ASSUME NEW k \in DOMAIN keys' PROVE k \in Keys /\ keys'[k] \in Id
    <3>1. owner(k) \in Id /\ KeyOf(mem[owner(k)]) = k /\ keys'[k] = owner(k)
      BY <1>4, <2>3, <2>5
    <3>2. mem[owner(k)] \in RowSet
      BY <1>4, <3>1 DEF Rows
    <3> QED BY <3>1, <3>2 DEF Keys
  <2>11. 0 \in 0 .. MaxEdits
    BY IndexAssumption
  <2>12. Typed'
    BY <1>1, <1>4, <1>6, <2>7, <2>9, <2>10, <2>11 DEF Typed
  <2> QED BY <1>5, <2>8, <2>12 DEF IndexInv
<1>7. CASE /\ entries' = RemoveEntries(entries, mem, dead) /\ keys' = WithoutKeys(dead)
           /\ mem' = mem /\ edits' = edits
  <2>1. Distinct(entries')
    BY <1>4, <1>7, RemovedEntries
  <2>2. DOMAIN keys' \in SUBSET DOMAIN keys /\ \A k \in DOMAIN keys' : keys'[k] = keys[k]
    BY <1>7, KeysWithout
  <2>3. Typed'
    BY <1>1, <1>2, <1>4, <1>7, <2>1, <2>2 DEF Typed
  <2> QED BY <1>2, <1>5, <1>7, <2>3 DEF IndexInv
<1> QED BY <1>1, <1>6, <1>7

\* A step that changes nothing.
LEMMA StutterStep ==
    ASSUME IndexInv, UNCHANGED vars
    PROVE  IndexInv'
<1>1. /\ mem' = mem /\ alive' = alive /\ entries' = entries /\ keys' = keys /\ commit' = commit /\ edits' = edits
      /\ view' = view
  BY DEF vars
<1>2. view # None => Matching(view.query)' = Matching(view.query)
  BY <1>1 DEF Matching, Leading
<1>3. Viewed'
  BY <1>1, <1>2 DEF IndexInv, Viewed
<1> QED BY <1>1, <1>3 DEF IndexInv, Typed, Running, Items, Exact, Published, Deleted, Collides, CollidesWithRows

\* The invariant holds in every reachable state.
THEOREM Invariance == Spec => []IndexInv
<1>1. Init => IndexInv
  BY Initially
<1>2. IndexInv /\ [Next]_vars => IndexInv'
  <2> SUFFICES ASSUME IndexInv, [Next]_vars PROVE IndexInv'
    OBVIOUS
  <2>1. ASSUME NEW items \in Writes, Begin(items) PROVE IndexInv'
    BY <2>1, BeginStep
  <2>2. CASE Prepare
    BY <2>2, PrepareStep
  <2>3. ASSUME NEW i \in Id, Apply(i) PROVE IndexInv'
    BY <2>3, ApplyStep
  <2>4. CASE Delete
    BY <2>4, DeleteStep
  <2>5. CASE Finish
    BY <2>5, FinishStep
  <2>6. ASSUME NEW q \in Queries, ViewRange(q) PROVE IndexInv'
    BY <2>6, ViewRangeStep
  <2>7. CASE StartCallback \/ EndView
    BY <2>7, CallbackStep
  <2>8. ASSUME NEW i \in Id, NEW row \in RowSet, UnsafeEdit(i, row) PROVE IndexInv'
    BY <2>8, UnsafeEditStep
  <2>9. ASSUME NEW dead \in SUBSET Id, Flush(dead) PROVE IndexInv'
    BY <2>9, FlushStep
  <2>10. CASE UNCHANGED vars
    BY <2>10, StutterStep
  <2> QED BY <2>1, <2>2, <2>3, <2>4, <2>5, <2>6, <2>7, <2>8, <2>9, <2>10 DEF Next
<1> QED BY <1>1, <1>2, PTL DEF Spec

\* Every variable holds what it may at every moment, and the ordered index never
\* holds a row twice: not in a commit of any size, nor after a Flush that failed
\* on rows edited behind the indexes.
THEOREM TypeCorrect == Spec => []TypeOK
<1>1. IndexInv => TypeOK
  <2> SUFFICES ASSUME IndexInv PROVE TypeOK
    OBVIOUS
  <2>1. Typed /\ Running /\ Viewed
    BY DEF IndexInv
  <2>2. ToSet(entries) \subseteq Id /\ IsInjective(entries)
    <3>1. entries \in Seq(Id) /\ \A p, q \in 1 .. Len(entries) : entries[p] = entries[q] => p = q
      BY <2>1 DEF Typed, Distinct
    <3> QED BY <3>1 DEF ToSet, IsInjective
  <2>3. commit.stage \in {"idle", "prepare", "apply", "finish"} /\ commit.left \subseteq Items
    BY <2>1, Stages
  <2> QED BY <2>1, <2>2, <2>3 DEF TypeOK, Typed, Viewed, Rows
<1> QED BY <1>1, Invariance, PTL

\* At every moment of a commit, of however many rows, one by one or in a batch, a
\* lookup of the unique index finds a row with that key, the rows that the commit
\* does not write are found and in order, and without a commit the indexes are those
\* of a rebuild.
THEOREM ExactIndexes == Spec => []IndexesAreExact
<1>1. IndexInv => IndexesAreExact
  <2> SUFFICES ASSUME IndexInv, edits = 0
               PROVE  /\ \A k \in DOMAIN keys : keys[k] \in alive /\ KeyOf(mem[keys[k]]) = k
                      /\ \A i \in alive \ Items : KeyOf(mem[i]) \in DOMAIN keys
                      /\ Without(entries, Items) = Sorted(alive \ Items, mem)
    BY DEF IndexesAreExact
  <2>1. mem \in Rows /\ Running
    BY DEF IndexInv, Typed
  <2>2. commit.stage \in {"idle", "prepare", "apply", "finish"}
    BY <2>1, Stages
  <2>3. Holds(alive, entries, keys, mem) \/ Holds(alive \ Items, entries, keys, mem)
    BY <2>2 DEF IndexInv, Exact
  <2>4. Ordered(entries, mem) /\ ToSet(entries) \ Items = alive \ Items
    BY <2>3 DEF Holds
  <2>5. Ordered(Without(entries, Items), mem) /\ ToSet(Without(entries, Items)) = alive \ Items
    BY <2>1, <2>4, WithoutIsOrdered
  <2>6. Without(entries, Items) = Sorted(alive \ Items, mem)
    BY <2>1, <2>5, OrderedIsSorted
  <2>7. /\ \A k \in DOMAIN keys : keys[k] \in alive /\ KeyOf(mem[keys[k]]) = k
        /\ \A i \in alive \ Items : KeyOf(mem[i]) \in DOMAIN keys
    BY <2>3 DEF Holds
  <2> QED BY <2>6, <2>7
<1> QED BY <1>1, Invariance, PTL

\* Whenever a range may be read, the two bisections and the cursor find exactly the
\* rows with the prefix that are beyond the cursor, in order.
THEOREM ExactRanges == Spec => []RangesAreExact
<1>1. IndexInv => RangesAreExact
  <2> SUFFICES ASSUME IndexInv, edits = 0, commit = Idle, NEW q \in Queries
               PROVE  RangeOf(q[1], q[2]) = Sorted(Matching(q), mem)
    BY DEF RangesAreExact
  <2>1. mem \in Rows /\ Ordered(entries, mem) /\ ToSet(entries) = alive
    BY IdleCommit DEF IndexInv, Typed, Exact, Holds
  <2> QED BY <2>1, RangeFinds
<1> QED BY <1>1, Invariance, PTL

\* While the callback of ViewRange runs its rows are those of the range.
THEOREM StableRanges == Spec => []RangeViewsAreStable
<1>1. IndexInv => RangeViewsAreStable
  BY DEF IndexInv, Viewed, RangeViewsAreStable
<1> QED BY <1>1, Invariance, PTL
=============================================================================
