------------------------ MODULE RelationIndexProofs ------------------------
(* Proofs about RelationIndex, for every schema and every project: the types *)
(* of rows, index and model; that the parts of the committed index fit the   *)
(* pointers it lists, whether a commit or a Flush came to it by a delta, by  *)
(* the delete route or by a model; that no delete leaves an orphan behind;   *)
(* that inverse views list exactly the rows that point at theirs; and that no *)
(* pointer dangles.                                                          *)
EXTENDS RelationIndex, NatFacts, FiniteSetTheorems, SequenceTheorems

----------------------------------------------------------------------------
\* Functions and sequences.

\* The rows that may exist are numbers, and a set of them is finite.
LEMMA Nodes ==
    /\ \A n \in Node : n \in Nat /\ n # 0
    /\ \A S \in SUBSET Node : S \in SUBSET Nat /\ IsFiniteSet(S) /\ Cardinality(S) \in Nat
BY NodesAssumption, FS_Subset, FS_CardinalityType

\* The numbers of a set before one of them.
Below(S, n) == {m \in S : m < n}

\* Their count grows with the number and is less than the set's.
LEMMA Ranks ==
    ASSUME NEW S \in SUBSET Nat, IsFiniteSet(S)
    PROVE  /\ Cardinality(S) \in Nat
           /\ \A i \in S : Cardinality(Below(S, i)) \in 0 .. Cardinality(S) - 1
           /\ \A i, j \in S : i < j => Cardinality(Below(S, i)) < Cardinality(Below(S, j))
<1>1. \A i \in S : Below(S, i) \in SUBSET S /\ i \notin Below(S, i)
  BY DEF Below
<1>2. Cardinality(S) \in Nat
  BY FS_CardinalityType
<1>3. \A i \in S : IsFiniteSet(Below(S, i)) /\ Cardinality(Below(S, i)) \in Nat
  BY <1>1, FS_Subset, FS_CardinalityType
<1>4. ASSUME NEW i \in S PROVE Cardinality(Below(S, i)) < Cardinality(S)
  <2>1. Cardinality(Below(S, i)) <= Cardinality(S) /\ Cardinality(S) # Cardinality(Below(S, i))
    BY <1>1, FS_Subset
  <2> QED BY <1>2, <1>3, <2>1
<1>5. ASSUME NEW i \in S, NEW j \in S, i < j
      PROVE  Cardinality(Below(S, i)) < Cardinality(Below(S, j))
  <2>1. \A m \in S : m < i => m < j
    BY <1>5
  <2>2. Below(S, i) \in SUBSET Below(S, j) /\ i \in Below(S, j)
    BY <1>5, <2>1 DEF Below
  <2>3. /\ Cardinality(Below(S, i)) <= Cardinality(Below(S, j))
        /\ Cardinality(Below(S, j)) # Cardinality(Below(S, i))
    BY <1>1, <1>3, <2>2, FS_Subset
  <2> QED BY <1>3, <2>3
<1> QED BY <1>2, <1>3, <1>4, <1>5

\* Every place has its number.
LEMMA RanksAreTaken ==
    ASSUME NEW S \in SUBSET Nat, IsFiniteSet(S), NEW p \in 1 .. Cardinality(S)
    PROVE  \E i \in S : Cardinality(Below(S, i)) = p - 1
<1> DEFINE n == Cardinality(S)
           places == 0 .. n - 1
           f == [i \in S |-> Cardinality(Below(S, i))]
<1>1. n \in Nat
  BY Ranks
<1>2. IsFiniteSet(places) /\ Cardinality(places) = n
  <2>1. n - 1 \in Int /\ (0 > n - 1 <=> n = 0) /\ (n - 1) - 0 + 1 = n
    BY <1>1
  <2> HIDE DEF n
  <2> QED BY <2>1, FS_Interval
<1>3. f \in [S -> places]
  BY Ranks
<1>4. ASSUME NEW i \in S, NEW j \in S, f[i] = f[j] PROVE i = j
  <2>1. f[i] \in Int /\ f[j] \in Int /\ i \in Int /\ j \in Int
    BY <1>1, <1>3
  <2>2. (i < j => f[i] < f[j]) /\ (j < i => f[j] < f[i])
    BY Ranks
  <2> HIDE DEF f
  <2> QED BY <1>4, <2>1, <2>2
<1> HIDE DEF f, n, places
<1>5. f \in Injection(S, places)
  BY <1>3, <1>4 DEF Injection, IsInjective
<1>6. f \in Surjection(S, places)
  BY <1>2, <1>5, FS_Injection DEF n
<1>7. p - 1 \in places
  BY <1>1 DEF places, n
<1>8. PICK i \in S : f[i] = p - 1
  BY <1>6, <1>7 DEF Surjection
<1> QED BY <1>8 DEF f

\* Ascending lists the numbers of a set.
LEMMA Ascends ==
    ASSUME NEW S \in SUBSET Nat, IsFiniteSet(S)
    PROVE  /\ Ascending(S) \in Seq(S) /\ Len(Ascending(S)) = Cardinality(S) /\ Cardinality(S) \in Nat
           /\ DOMAIN Ascending(S) = 1 .. Cardinality(S) /\ ToSet(Ascending(S)) = S
<1> DEFINE n == Cardinality(S)
           s == Ascending(S)
           rank(i) == Cardinality(Below(S, i))
<1>1. n \in Nat /\ \A i \in S : i \in Int
  BY Ranks
<1>2. ASSUME NEW p \in 1 .. n PROVE s[p] \in S /\ rank(s[p]) = p - 1
  <2>1. s[p] = CHOOSE i \in S : rank(i) = p - 1
    BY <1>1 DEF Ascending, Below
  <2>2. \E i \in S : rank(i) = p - 1
    BY RanksAreTaken
  <2> HIDE DEF rank, s
  <2> QED BY <2>1, <2>2
<1>3. s = [p \in 1 .. n |-> s[p]]
  <2> DEFINE at(p) == CHOOSE i \in S : Cardinality({j \in S : j < i}) = p - 1
  <2>1. s = [p \in 1 .. n |-> at(p)]
    BY DEF Ascending
  <2> HIDE DEF at, s, n
  <2> QED BY <2>1
<1> HIDE DEF s, n
<1>4. s \in Seq(S) /\ Len(s) = n /\ DOMAIN s = 1 .. n
  <2>1. s \in [1 .. n -> S]
    BY <1>2, <1>3
  <2> QED BY <1>1, <2>1
<1>5. ASSUME NEW i \in S PROVE \E p \in 1 .. n : s[p] = i
  <2> DEFINE p == rank(i) + 1
  <2>1. rank(i) \in 0 .. n - 1
    BY Ranks DEF n
  <2>2. p \in 1 .. n /\ p - 1 = rank(i)
    <3> HIDE DEF rank
    <3> QED BY <1>1, <2>1
  <2>3. s[p] \in S /\ rank(s[p]) = rank(i)
    BY <1>2, <2>2
  <2>4. (s[p] < i => rank(s[p]) < rank(i)) /\ (i < s[p] => rank(i) < rank(s[p]))
    BY <2>3, Ranks
  <2> HIDE DEF p, rank
  <2>5. rank(i) \in Int /\ rank(s[p]) \in Int
    BY <1>1, <2>1, <2>3
  <2>6. s[p] \in Int /\ i \in Int
    BY <1>1, <2>3
  <2>7. ~(rank(s[p]) < rank(i)) /\ ~(rank(i) < rank(s[p]))
    BY <2>3, <2>5
  <2>8. s[p] = i
    BY <2>4, <2>6, <2>7
  <2> QED BY <2>2, <2>8
<1>6. ToSet(s) = S
  BY <1>2, <1>4, <1>5 DEF ToSet
<1> QED BY <1>1, <1>4, <1>6 DEF s, n

\* The elements of a sequence.
LEMMA Elements ==
    ASSUME NEW T, NEW s \in Seq(T)
    PROVE  /\ DOMAIN s = 1 .. Len(s) /\ Len(s) \in Nat
           /\ ToSet(s) = {s[i] : i \in 1 .. Len(s)} /\ ToSet(s) \in SUBSET T
           /\ (s = <<>> <=> ToSet(s) = {}) /\ (s = <<>> <=> Len(s) = 0)
<1>1. DOMAIN s = 1 .. Len(s) /\ Len(s) \in Nat /\ \A i \in 1 .. Len(s) : s[i] \in T
  OBVIOUS
<1>2. s = <<>> <=> Len(s) = 0
  OBVIOUS
<1>3. Len(s) # 0 => 1 \in 1 .. Len(s)
  BY <1>1
<1> QED BY <1>1, <1>2, <1>3 DEF ToSet

\* What At takes from a sequence.
LEMMA AtPlaces ==
    ASSUME NEW T, NEW s \in Seq(T), NEW places \in SUBSET (1 .. Len(s))
    PROVE  /\ At(s, places) \in Seq(T) /\ Len(At(s, places)) <= Len(s)
           /\ ToSet(At(s, places)) = {s[i] : i \in places}
<1> DEFINE n == Cardinality(places)
           p == Ascending(places)
           a == At(s, places)
<1>1. Len(s) \in Nat /\ \A i \in 1 .. Len(s) : s[i] \in T /\ i \in Nat
  OBVIOUS
<1>2. IsFiniteSet(1 .. Len(s)) /\ Cardinality(1 .. Len(s)) = Len(s)
  <2>1. Len(s) \in Int /\ (1 > Len(s) <=> Len(s) = 0) /\ Len(s) - 1 + 1 = Len(s)
    BY <1>1
  <2> QED BY <2>1, FS_Interval
<1>3. places \in SUBSET Nat /\ IsFiniteSet(places) /\ n <= Len(s)
  BY <1>1, <1>2, FS_Subset
<1>4. n \in Nat /\ DOMAIN p = 1 .. n /\ ToSet(p) = places
  BY <1>3, Ascends
<1> HIDE DEF p, n
<1>5. places = {p[k] : k \in 1 .. n}
  BY <1>4 DEF ToSet
<1>6. a = [k \in 1 .. n |-> s[p[k]]]
  BY DEF At, p, n
<1>7. \A k \in 1 .. n : s[p[k]] \in T
  BY <1>1, <1>5
<1>8. a \in Seq(T) /\ Len(a) = n /\ DOMAIN a = 1 .. n
  BY <1>4, <1>6, <1>7
<1>9. ToSet(a) = {s[p[k]] : k \in 1 .. n}
  BY <1>6 DEF ToSet
<1> HIDE DEF a
<1>10. ToSet(a) = {s[i] : i \in places}
  BY <1>5, <1>9
<1> QED BY <1>3, <1>8, <1>10 DEF a

\* What Without leaves.
LEMMA Remaining ==
    ASSUME NEW T, NEW s \in Seq(T), NEW out
    PROVE  /\ Without(s, out) \in Seq(T) /\ Len(Without(s, out)) <= Len(s)
           /\ ToSet(Without(s, out)) = ToSet(s) \ out
<1> DEFINE places == {i \in DOMAIN s : s[i] \notin out}
<1>1. places \in SUBSET (1 .. Len(s)) /\ ToSet(s) = {s[i] : i \in DOMAIN s}
  BY Elements DEF ToSet
<1>2. Without(s, out) = At(s, places)
  BY DEF Without
<1>3. {s[i] : i \in places} = ToSet(s) \ out
  BY <1>1
<1> HIDE DEF places
<1> QED BY <1>1, <1>2, <1>3, AtPlaces

\* The elements of a concatenation.
LEMMA Joined ==
    ASSUME NEW T, NEW s \in Seq(T), NEW r \in Seq(T)
    PROVE  /\ s \o r \in Seq(T) /\ Len(s \o r) = Len(s) + Len(r) /\ ToSet(s \o r) = ToSet(s) \cup ToSet(r)
<1> DEFINE j == s \o r
<1>1. j \in Seq(T) /\ Len(j) = Len(s) + Len(r) /\ Len(s) \in Nat /\ Len(r) \in Nat
  OBVIOUS
<1>2. \A i \in 1 .. Len(s) : i \in 1 .. Len(j) /\ j[i] = s[i]
  BY <1>1
<1>3. \A i \in 1 .. Len(r) : i + Len(s) \in 1 .. Len(j) /\ j[i + Len(s)] = r[i]
  BY <1>1
<1>4. \A i \in 1 .. Len(j) : i \in 1 .. Len(s) \/ (i - Len(s) \in 1 .. Len(r) /\ j[i] = r[i - Len(s)])
  BY <1>1
<1> HIDE DEF j
<1>5. /\ ToSet(j) = {j[i] : i \in 1 .. Len(j)} /\ ToSet(s) = {s[i] : i \in 1 .. Len(s)}
      /\ ToSet(r) = {r[i] : i \in 1 .. Len(r)}
  BY <1>1, Elements
<1>6. ToSet(j) \subseteq ToSet(s) \cup ToSet(r)
  BY <1>2, <1>4, <1>5
<1>7. ToSet(s) \subseteq ToSet(j) /\ ToSet(r) \subseteq ToSet(j)
  BY <1>2, <1>3, <1>5
<1> QED BY <1>1, <1>6, <1>7 DEF j

\* A sequence of one element.
LEMMA Alone ==
    ASSUME NEW T, NEW x \in T
    PROVE  <<x>> \in Seq(T) /\ Len(<<x>>) = 1 /\ <<x>>[1] = x /\ ToSet(<<x>>) = {x} /\ <<x>> # <<>>
<1>1. <<x>> \in Seq(T) /\ Len(<<x>>) = 1 /\ <<x>>[1] = x
  OBVIOUS
<1>2. DOMAIN <<x>> = {1}
  OBVIOUS
<1>3. ToSet(<<x>>) = {x}
  BY <1>1, <1>2 DEF ToSet
<1> QED BY <1>1, <1>3

\* A nonempty sequence has a first element, and one of length 1 no other.
LEMMA FirstElement ==
    ASSUME NEW T, NEW s \in Seq(T)
    PROVE  /\ s # <<>> => s[1] \in ToSet(s) /\ 1 \in DOMAIN s
           /\ Len(s) <= 1 /\ s # <<>> => Len(s) = 1 /\ ToSet(s) = {s[1]} /\ s = <<s[1]>>
<1>1. DOMAIN s = 1 .. Len(s) /\ Len(s) \in Nat
  OBVIOUS
<1>2. s # <<>> => Len(s) # 0
  OBVIOUS
<1>3. s # <<>> => 1 \in DOMAIN s
  BY <1>1, <1>2
<1>4. ASSUME Len(s) <= 1, s # <<>> PROVE Len(s) = 1 /\ DOMAIN s = {1} /\ s = <<s[1]>>
  <2>1. Len(s) = 1
    BY <1>1, <1>2, <1>4
  <2>2. DOMAIN s = {1}
    BY <1>1, <2>1
  <2> QED BY <2>1, <2>2
<1> QED BY <1>3, <1>4 DEF ToSet

\* A slice put in order has exactly its members.
LEMMA Ordered ==
    ASSUME NEW s \in Seq(Node), NEW members \in SUBSET Node
    PROVE  InOrder(s, members) \in Seq(Node) /\ ToSet(InOrder(s, members)) = members
<1> DEFINE places == {i \in DOMAIN s : s[i] \in members /\ \A j \in 1 .. (i - 1) : s[j] # s[i]}
           kept == At(s, places)
           rest == Ascending(members \ ToSet(s))
<1>1. DOMAIN s = 1 .. Len(s) /\ Len(s) \in Nat /\ ToSet(s) = {s[i] : i \in DOMAIN s}
  BY DEF ToSet
<1>2. places \in SUBSET (1 .. Len(s))
  BY <1>1
<1>3. kept \in Seq(Node) /\ ToSet(kept) = {s[i] : i \in places}
  BY <1>2, AtPlaces
<1>4. ASSUME NEW x \in ToSet(s) \cap members PROVE \E i \in places : s[i] = x
  <2> DEFINE T == {i \in DOMAIN s : s[i] = x}
  <2>1. T \in SUBSET Nat /\ T # {}
    BY <1>1
  <2> HIDE DEF T
  <2>2. PICK i \in T : \A j \in T : i <= j
    BY <2>1, LeastElement
  <2>3. i \in 1 .. Len(s) /\ s[i] = x
    BY <1>1, <2>2 DEF T
  <2>4. ASSUME NEW j \in 1 .. (i - 1) PROVE s[j] # s[i]
    <3>1. j \in 1 .. Len(s) /\ j < i /\ i \in Nat /\ j \in Nat
      BY <1>1, <2>3
    <3>2. j \notin T
      BY <2>2, <3>1
    <3> QED BY <1>1, <2>3, <3>1, <3>2 DEF T
  <2> QED BY <1>1, <2>3, <2>4
<1>5. {s[i] : i \in places} = ToSet(s) \cap members
  <2>1. \A i \in places : s[i] \in ToSet(s) \cap members
    BY <1>1
  <2> HIDE DEF places
  <2> QED BY <1>4, <2>1
<1>6. rest \in Seq(Node) /\ ToSet(rest) = members \ ToSet(s)
  <2>1. members \ ToSet(s) \in SUBSET Nat /\ IsFiniteSet(members \ ToSet(s))
    BY Nodes
  <2>2. rest \in Seq(members \ ToSet(s)) /\ ToSet(rest) = members \ ToSet(s)
    BY <2>1, Ascends
  <2> HIDE DEF rest
  <2> QED BY <2>2
<1>7. InOrder(s, members) = kept \o rest
  BY DEF InOrder
<1> HIDE DEF kept, rest, places
<1>8. kept \o rest \in Seq(Node) /\ ToSet(kept \o rest) = ToSet(kept) \cup ToSet(rest)
  BY <1>3, <1>6, Joined
<1> QED BY <1>3, <1>5, <1>6, <1>7, <1>8

----------------------------------------------------------------------------
\* Fields and rows.

\* The fields of a row.
LEMMA Fields ==
    ASSUME NEW n \in Node
    PROVE  /\ \A f : f \in FieldsOf[n] <=> f \in Field /\ Spec[f].owner = TypeOf[n]
           /\ \A f : f \in Forward[n] <=> f \in FieldsOf[n] /\ Spec[f].kind # "inverse"
           /\ \A f : f \in InverseFields[n] <=> f \in FieldsOf[n] /\ Spec[f].kind = "inverse"
           /\ \A f : f \in BackFields[n] <=> f \in Field /\ ScalarBack(f) /\ Spec[f].target = TypeOf[n]
BY DEF FieldsOf, Forward, InverseFields, BackFields

\* What Register has checked of a field.
LEMMA Schema ==
    ASSUME NEW f \in Field
    PROVE  /\ Spec[f].kind = "ownedby" => ~Spec[f].many
           /\ Spec[f].kind = "inverse" =>
                /\ Spec[f].many /\ Spec[f].match \in Field /\ Spec[Spec[f].match].kind \in {"borrow", "option"}
                /\ Spec[Spec[f].match].owner = Spec[f].target /\ Spec[Spec[f].match].target = Spec[f].owner
           /\ OwnMany(f) /\ Spec[f].match \in Field =>
                /\ Spec[Spec[f].match].kind = "ownedby"
                /\ Spec[Spec[f].match].owner = Spec[f].target /\ Spec[Spec[f].match].target = Spec[f].owner
<1>1. ValidSpec(f) /\ "FK" \notin Field
  BY SchemaIsValid
<1> QED BY <1>1 DEF ValidSpec, OwnMany

\* The pointers of a row.
IsRel(n, rel) == rel \in [FieldsOf[n] -> Seq(Node)] /\ \A f \in FieldsOf[n] : Fits(f, rel[f])

\* A row of its parts.
LEMMA RowParts ==
    ASSUME NEW n \in Node, NEW row \in Row(n)
    PROVE  /\ row = [key |-> row.key, fk |-> row.fk, rel |-> row.rel]
           /\ row.key \in Key \cup {NoKey} /\ row.fk \in [BackFields[n] -> Node \cup {0}] /\ IsRel(n, row.rel)
           /\ DOMAIN row.rel = FieldsOf[n] /\ DOMAIN row.fk = BackFields[n]
BY DEF Row, IsRel

\* One field set.
LEMMA RelField ==
    ASSUME NEW n \in Node, NEW rel, IsRel(n, rel), NEW f \in FieldsOf[n], NEW s \in Seq(Node), Fits(f, s)
    PROVE  IsRel(n, [rel EXCEPT ![f] = s])
BY DEF IsRel

\* A row that nothing was put into.
LEMMA RowNew ==
    ASSUME NEW n \in Node, NEW k \in Key \cup {NoKey}
    PROVE  NewRow(n, k) \in Row(n)
<1>1. \A f : Fits(f, <<>>)
  <2>1. Len(<<>>) = 0 /\ ToSet(<<>>) = {}
    BY DEF ToSet
  <2> QED BY <2>1 DEF Fits
<1>2. IsRel(n, [f \in FieldsOf[n] |-> <<>>])
  <2>1. <<>> \in Seq(Node)
    OBVIOUS
  <2> QED BY <1>1, <2>1 DEF IsRel
<1>3. [f \in BackFields[n] |-> 0] \in [BackFields[n] -> Node \cup {0}]
  OBVIOUS
<1> QED BY <1>2, <1>3 DEF NewRow, Row, IsRel

\* A field keeps its type when it loses pointers.
LEMMA FitsLess ==
    ASSUME NEW f, NEW s \in Seq(Node), Fits(f, s), NEW r \in Seq(Node), Len(r) <= Len(s), ToSet(r) \subseteq ToSet(s)
    PROVE  Fits(f, r)
<1>1. Len(s) \in Nat /\ Len(r) \in Nat
  OBVIOUS
<1>2. Len(s) <= 1 => Len(r) <= 1
  BY <1>1
<1> QED BY <1>2 DEF Fits

----------------------------------------------------------------------------
\* Resolving pointers.

\* The row a pointer to t resolves to.
Choice(entries, mem, f, t) == CHOOSE x \in Targets(entries, mem, f, t) : TRUE

\* What a pointer resolves to is a row of the entries with the type of the field.
LEMMA Chosen ==
    ASSUME NEW entries, NEW mem, NEW f, NEW t, Targets(entries, mem, f, t) # {}
    PROVE  LET x == Choice(entries, mem, f, t)
           IN  x \in Targets(entries, mem, f, t) /\ TypeOf[x] = Spec[f].target /\ \E e \in entries : x = e[3]
<1>1. Choice(entries, mem, f, t) \in Targets(entries, mem, f, t)
  BY DEF Choice
<1> QED BY <1>1 DEF Targets, Candidates

\* The rows of the entries, and those that the pointers of a field find.
Listed(entries) == {e[3] : e \in entries}
Finding(entries, mem, f, s) == {Choice(entries, mem, f, t) : t \in {x \in ToSet(s) : Targets(entries, mem, f, x) # {}}}

\* Resolving a field keeps its length or shortens it, and leads to what its
\* pointers resolve to.
LEMMA Resolving ==
    ASSUME NEW entries, NEW mem, NEW f, NEW s \in Seq(Node)
    PROVE  LET r == Resolved(entries, mem, f, s)
           IN  /\ r \in Seq(Listed(entries)) /\ Len(r) <= Len(s)
               /\ ToSet(r) = Finding(entries, mem, f, s)
               /\ \A t \in ToSet(r) : TypeOf[t] = Spec[f].target
<1> DEFINE places == {i \in DOMAIN s : Targets(entries, mem, f, s[i]) # {}}
           a == Found(entries, mem, f, s)
           r == Resolved(entries, mem, f, s)
           found == {t \in ToSet(s) : Targets(entries, mem, f, t) # {}}
<1>1. DOMAIN s = 1 .. Len(s) /\ ToSet(s) = {s[i] : i \in DOMAIN s}
  BY DEF ToSet
<1>2. places \in SUBSET (1 .. Len(s)) /\ a = At(s, places)
  BY <1>1 DEF Found
<1>3. found = {s[i] : i \in places}
  BY <1>1
<1>4. a \in Seq(Node) /\ Len(a) <= Len(s) /\ ToSet(a) = found
  <2> HIDE DEF places, a, found
  <2> QED BY <1>2, <1>3, AtPlaces
<1>5. \A t \in found : Targets(entries, mem, f, t) # {}
  OBVIOUS
<1>6. r = [k \in DOMAIN a |-> Choice(entries, mem, f, a[k])]
  BY DEF Resolved, Choice
<1> HIDE DEF a, found, r, places
<1>7. DOMAIN a = 1 .. Len(a) /\ Len(a) \in Nat /\ \A k \in DOMAIN a : a[k] \in found
  BY <1>4 DEF ToSet
<1>8. \A k \in DOMAIN a : Choice(entries, mem, f, a[k]) \in Listed(entries) /\ TypeOf[Choice(entries, mem, f, a[k])] = Spec[f].target
  BY <1>5, <1>7, Chosen DEF Listed
<1>9. r \in Seq(Listed(entries)) /\ Len(r) = Len(a) /\ DOMAIN r = DOMAIN a
  BY <1>6, <1>7, <1>8
<1>10. ToSet(r) = {Choice(entries, mem, f, a[k]) : k \in DOMAIN a}
  BY <1>6 DEF ToSet
<1>11. ToSet(a) = {a[k] : k \in DOMAIN a}
  BY DEF ToSet
<1>12. ToSet(r) = {Choice(entries, mem, f, t) : t \in found}
  BY <1>4, <1>10, <1>11
<1>13. \A t \in ToSet(r) : TypeOf[t] = Spec[f].target
  BY <1>8, <1>10
<1> QED BY <1>4, <1>9, <1>12, <1>13 DEF r, found, Finding

\* Every row found is the one that some pointer of the field finds.
LEMMA ResolvedFrom ==
    ASSUME NEW entries, NEW mem, NEW f, NEW s \in Seq(Node), NEW x \in ToSet(Resolved(entries, mem, f, s))
    PROVE  \E t \in ToSet(s) : Targets(entries, mem, f, t) # {} /\ x = Choice(entries, mem, f, t)
<1>1. x \in Finding(entries, mem, f, s)
  BY Resolving
<1> QED BY <1>1 DEF Finding

\* The rows the entries lead to.
Led(entries, ns) == \A e \in entries : e[3] \in ns

\* A resolved field leads to rows of the entries, and keeps its type.
LEMMA ResolvedFits ==
    ASSUME NEW ns, NEW entries, Led(entries, ns), NEW mem, NEW f, NEW s \in Seq(Node), Fits(f, s)
    PROVE  Resolved(entries, mem, f, s) \in Seq(ns) /\ Fits(f, Resolved(entries, mem, f, s))
<1> DEFINE r == Resolved(entries, mem, f, s)
<1>1. r \in Seq(Listed(entries)) /\ Len(r) <= Len(s) /\ \A t \in ToSet(r) : TypeOf[t] = Spec[f].target
  BY Resolving
<1> HIDE DEF r
<1>2. r \in Seq(ns)
  <2>1. \A i \in 1 .. Len(r) : r[i] \in ns
    BY <1>1 DEF Led, Listed
  <2> QED BY <1>1, <2>1
<1>3. Len(s) <= 1 => Len(r) <= 1
  <2>1. Len(s) \in Nat /\ Len(r) \in Nat
    BY <1>2
  <2> QED BY <1>1, <2>1
<1> QED BY <1>1, <1>2, <1>3 DEF r, Fits

\* Entries lead to the rows they were made from.
LEMMA EntriesLead ==
    ASSUME NEW g, NEW ns, NEW tf
    PROVE  Led(Entries(g, ns, tf), ns)
<1> SUFFICES ASSUME NEW e \in Entries(g, ns, tf) PROVE e[3] \in ns
  BY DEF Led
<1>1. (\E n \in ns : e = <<"Id", n, n>>) \/ (\E n \in ns : e = <<"Key", g[n].key, n>>)
  BY DEF Entries
<1> QED BY <1>1

----------------------------------------------------------------------------
\* Resolved pointers of a set of rows.

\* The pointers of the rows in `rows' lead to rows in `ns' and have their types.
RefsTyped(rows, ns, refs) ==
    /\ DOMAIN refs = rows
    /\ \A n \in rows : /\ DOMAIN refs[n] = Forward[n]
                       /\ \A f \in Forward[n] : refs[n][f] \in Seq(ns) /\ Fits(f, refs[n][f])

\* A field of typed pointers.
LEMMA RefsField ==
    ASSUME NEW rows \in SUBSET Node, NEW ns \in SUBSET Node, NEW refs, RefsTyped(rows, ns, refs), NEW n \in rows, NEW f \in Forward[n]
    PROVE  /\ refs[n][f] \in Seq(ns) /\ refs[n][f] \in Seq(Node) /\ Fits(f, refs[n][f])
           /\ ToSet(refs[n][f]) \in SUBSET ns /\ \A t \in ToSet(refs[n][f]) : TypeOf[t] = Spec[f].target
<1>1. refs[n][f] \in Seq(ns) /\ Fits(f, refs[n][f])
  BY DEF RefsTyped
<1>2. ToSet(refs[n][f]) \in SUBSET ns
  BY <1>1, Elements
<1>3. refs[n][f] \in Seq(Node)
  <2> DEFINE s == refs[n][f]
  <2>1. s \in Seq(ns)
    BY <1>1
  <2> HIDE DEF s
  <2>2. \A i \in 1 .. Len(s) : s[i] \in Node
    BY <2>1
  <2>3. s \in Seq(Node)
    BY <2>1, <2>2
  <2> QED BY <2>3 DEF s
<1> QED BY <1>1, <1>2, <1>3 DEF Fits

\* Typed pointers stay typed among more rows.
LEMMA RefsWider ==
    ASSUME NEW rows \in SUBSET Node, NEW ns \in SUBSET Node, NEW more \in SUBSET Node, ns \subseteq more,
           NEW refs, RefsTyped(rows, ns, refs)
    PROVE  RefsTyped(rows, more, refs)
<1>1. ASSUME NEW s \in Seq(ns) PROVE s \in Seq(more)
  <2>1. \A i \in 1 .. Len(s) : s[i] \in more
    OBVIOUS
  <2> QED BY <2>1
<1> QED BY <1>1 DEF RefsTyped

\* The scan of rows gives typed pointers.
LEMMA ScanTyped ==
    ASSUME NEW g, IsGraph(g), NEW rows \in SUBSET DOMAIN g, NEW ns \in SUBSET Node,
           NEW entries, Led(entries, ns), NEW mem
    PROVE  RefsTyped(rows, ns, ScanAll(g, entries, mem, rows))
<1>1. DOMAIN ScanAll(g, entries, mem, rows) = rows
  BY DEF ScanAll
<1>2. ASSUME NEW n \in rows
      PROVE  /\ DOMAIN ScanAll(g, entries, mem, rows)[n] = Forward[n]
             /\ \A f \in Forward[n] : /\ ScanAll(g, entries, mem, rows)[n][f] \in Seq(ns)
                                      /\ Fits(f, ScanAll(g, entries, mem, rows)[n][f])
  <2>1. ScanAll(g, entries, mem, rows)[n] = [f \in Forward[n] |-> Resolved(entries, mem, f, g[n].rel[f])]
    BY DEF ScanAll, ScanNode
  <2>2. n \in Node /\ g[n] \in Row(n)
    BY DEF IsGraph
  <2>3. IsRel(n, g[n].rel)
    BY <2>2, RowParts
  <2>4. ASSUME NEW f \in Forward[n] PROVE g[n].rel[f] \in Seq(Node) /\ Fits(f, g[n].rel[f])
    <3>1. f \in FieldsOf[n]
      BY <2>2, Fields
    <3> QED BY <2>3, <3>1 DEF IsRel
  <2>5. \A f \in Forward[n] : /\ Resolved(entries, mem, f, g[n].rel[f]) \in Seq(ns)
                              /\ Fits(f, Resolved(entries, mem, f, g[n].rel[f]))
    BY <2>4, ResolvedFits
  <2> QED BY <2>1, <2>5
<1> QED BY <1>1, <1>2 DEF RefsTyped

\* Typed pointers over typed pointers.
LEMMA RefsOver ==
    ASSUME NEW rows, NEW more, NEW ns, NEW refs, RefsTyped(rows, ns, refs), NEW others, RefsTyped(more, ns, others)
    PROVE  RefsTyped(rows \cup more, ns, refs ++ others)
<1>1. /\ DOMAIN (refs ++ others) = rows \cup more
      /\ \A n \in rows : (refs ++ others)[n] = refs[n]
      /\ \A n \in more : n \notin rows => (refs ++ others)[n] = others[n]
  BY DEF RefsTyped, ++
<1> HIDE DEF ++
<1> QED BY <1>1 DEF RefsTyped

\* Typed pointers of fewer rows.
LEMMA RefsOfFewer ==
    ASSUME NEW rows, NEW ns, NEW refs, RefsTyped(rows, ns, refs), NEW some \in SUBSET rows
    PROVE  RefsTyped(some, ns, Restrict(refs, some))
BY DEF RefsTyped, Restrict

----------------------------------------------------------------------------
\* Rows that are written back.

\* A row of a graph.
LEMMA GraphRow ==
    ASSUME NEW g, IsGraph(g), NEW n \in DOMAIN g
    PROVE  /\ n \in Node /\ g[n] \in Row(n) /\ IsRel(n, g[n].rel) /\ DOMAIN g[n].rel = FieldsOf[n]
           /\ g[n].fk \in [BackFields[n] -> Node \cup {0}] /\ DOMAIN g[n].fk = BackFields[n]
           /\ \A f \in FieldsOf[n] : g[n].rel[f] \in Seq(Node) /\ Fits(f, g[n].rel[f])
<1>1. n \in Node /\ g[n] \in Row(n)
  BY DEF IsGraph
<1>2. IsRel(n, g[n].rel) /\ g[n].fk \in [BackFields[n] -> Node \cup {0}] /\ DOMAIN g[n].rel = FieldsOf[n] /\ DOMAIN g[n].fk = BackFields[n]
  BY <1>1, RowParts
<1> QED BY <1>1, <1>2 DEF IsRel

\* Rows over other rows, and some of the rows.
LEMMA GraphOver ==
    ASSUME NEW g, IsGraph(g), NEW h, IsGraph(h)
    PROVE  IsGraph(g ++ h)
BY DEF IsGraph, ++

\* Some of the rows of a graph.
LEMMA GraphOfFewer ==
    ASSUME NEW g, IsGraph(g), NEW some \in SUBSET DOMAIN g
    PROVE  IsGraph(Restrict(g, some)) /\ DOMAIN Restrict(g, some) = some /\ \A n \in some : Restrict(g, some)[n] = g[n]
BY DEF IsGraph, Restrict

\* Every pointer of the rows leads into ns.
PointsInto(g, ns) == \A n \in DOMAIN g : \A f \in FieldsOf[n] : ToSet(g[n].rel[f]) \subseteq ns

\* syncOwnSliceBackPointers keeps the types, and sets no field but back
\* pointers, to rows that list the child.
Synced(h, g, rows) ==
    \A c \in DOMAIN g :
        /\ h[c].key = g[c].key
        /\ \A f \in FieldsOf[c] :
              /\ ToSet(h[c].rel[f]) \subseteq ToSet(g[c].rel[f]) \cup rows
              /\ g[c].rel[f] # <<>> => h[c].rel[f] # <<>>
              /\ Spec[f].kind # "ownedby" => h[c].rel[f] = g[c].rel[f]

\* It does so for the own slices of typed pointers.
LEMMA SyncTyped ==
    ASSUME NEW g, IsGraph(g), NEW rows \in SUBSET Node, NEW into \in SUBSET Node, NEW refs, RefsTyped(rows, into, refs), NEW ns
    PROVE  /\ IsGraph(SyncBacks(g, refs, ns)) /\ DOMAIN SyncBacks(g, refs, ns) = DOMAIN g
           /\ Synced(SyncBacks(g, refs, ns), g, rows)
<1> DEFINE h == SyncBacks(g, refs, ns)
           lists(c, f) == UNION {Listing(refs, c, own) : own \in {x \in Field : OwnMany(x) /\ Spec[x].match = f}}
           fk(c) == [f \in DOMAIN g[c].fk |-> BackScalar(g[c], Listing(refs, c, f), f)]
           rel(c) == [f \in DOMAIN g[c].rel |-> IF lists(c, f) = {} THEN g[c].rel[f] ELSE <<CHOOSE n \in lists(c, f) : TRUE>>]
<1>1. DOMAIN h = DOMAIN g
  BY DEF SyncBacks
<1>2. \A c, f : Listing(refs, c, f) \in SUBSET rows
  BY DEF Listing, RefsTyped
<1>3. ASSUME NEW c \in DOMAIN g
      PROVE  /\ h[c] \in Row(c) /\ h[c].key = g[c].key
             /\ \A f \in FieldsOf[c] : /\ ToSet(h[c].rel[f]) \subseteq ToSet(g[c].rel[f]) \cup rows
                                       /\ g[c].rel[f] # <<>> => h[c].rel[f] # <<>>
                                       /\ Spec[f].kind # "ownedby" => h[c].rel[f] = g[c].rel[f]
  <2>1. /\ c \in Node /\ g[c] \in Row(c) /\ DOMAIN g[c].rel = FieldsOf[c] /\ DOMAIN g[c].fk = BackFields[c]
        /\ g[c].fk \in [BackFields[c] -> Node \cup {0}] /\ \A f \in FieldsOf[c] : g[c].rel[f] \in Seq(Node) /\ Fits(f, g[c].rel[f])
    BY GraphRow
  <2>2. h[c] = IF c \notin ns THEN g[c] ELSE [g[c] EXCEPT !.fk = fk(c), !.rel = rel(c)]
    BY DEF SyncBacks
  <2>3. fk(c) \in [BackFields[c] -> Node \cup {0}]
    <3>1. ASSUME NEW f \in BackFields[c] PROVE BackScalar(g[c], Listing(refs, c, f), f) \in Node \cup {0}
      <4>1. Listing(refs, c, f) # {} => (CHOOSE n \in Listing(refs, c, f) : TRUE) \in Listing(refs, c, f)
        OBVIOUS
      <4> QED BY <1>2, <2>1, <4>1 DEF BackScalar
    <3> QED BY <2>1, <3>1
  <2>4. ASSUME NEW f \in FieldsOf[c], lists(c, f) # {}
        PROVE  LET n == CHOOSE n \in lists(c, f) : TRUE
               IN  n \in rows /\ Spec[f].kind = "ownedby" /\ TypeOf[n] = Spec[f].target
    <3> DEFINE n == CHOOSE n \in lists(c, f) : TRUE
    <3>1. n \in lists(c, f)
      BY <2>4
    <3> HIDE DEF n
    <3>2. PICK own \in Field : OwnMany(own) /\ Spec[own].match = f /\ n \in Listing(refs, c, own)
      BY <3>1
    <3>3. n \in rows /\ own \in DOMAIN refs[n]
      BY <3>2 DEF Listing, RefsTyped
    <3>4. own \in Forward[n] /\ n \in Node
      BY <3>3 DEF RefsTyped
    <3>5. Spec[own].owner = TypeOf[n] /\ f \in Field
      BY <2>1, <3>4, Fields
    <3>6. Spec[f].kind = "ownedby" /\ Spec[f].target = Spec[own].owner
      BY <3>2, <3>5, Schema
    <3> QED BY <3>3, <3>5, <3>6 DEF n
  <2>5. ASSUME NEW f \in FieldsOf[c]
        PROVE  /\ rel(c)[f] \in Seq(Node) /\ Fits(f, rel(c)[f])
               /\ ToSet(rel(c)[f]) \subseteq ToSet(g[c].rel[f]) \cup rows
               /\ g[c].rel[f] # <<>> => rel(c)[f] # <<>>
               /\ Spec[f].kind # "ownedby" => rel(c)[f] = g[c].rel[f]
    <3>1. CASE lists(c, f) = {}
      <4>1. rel(c)[f] = g[c].rel[f]
        BY <2>1, <3>1
      <4> HIDE DEF rel
      <4> QED BY <2>1, <4>1
    <3>2. CASE lists(c, f) # {}
      <4> DEFINE n == CHOOSE n \in lists(c, f) : TRUE
      <4>1. rel(c)[f] = <<n>>
        BY <2>1, <3>2
      <4>2. n \in rows /\ Spec[f].kind = "ownedby" /\ TypeOf[n] = Spec[f].target
        BY <2>4, <3>2
      <4> HIDE DEF rel, n, lists
      <4>3. n \in Node /\ <<n>> \in Seq(Node) /\ Len(<<n>>) = 1 /\ ToSet(<<n>>) = {n}
        BY <4>2, Alone
      <4>4. Fits(f, <<n>>)
        BY <4>2, <4>3 DEF Fits
      <4> QED BY <4>1, <4>2, <4>3, <4>4
    <3> QED BY <3>1, <3>2
  <2>6. IsRel(c, rel(c))
    <3>1. DOMAIN rel(c) = FieldsOf[c] /\ rel(c) = [f \in FieldsOf[c] |-> rel(c)[f]]
      BY <2>1
    <3> HIDE DEF rel
    <3> QED BY <2>5, <3>1 DEF IsRel
  <2>7. CASE c \notin ns
    BY <2>1, <2>2, <2>7
  <2>8. CASE c \in ns
    <3>1. h[c] = [g[c] EXCEPT !.fk = fk(c), !.rel = rel(c)]
      BY <2>2, <2>8
    <3> HIDE DEF h, fk, rel
    <3>2. h[c] \in Row(c) /\ h[c].key = g[c].key /\ h[c].rel = rel(c)
      BY <2>1, <2>3, <2>6, <3>1 DEF Row, IsRel
    <3> QED BY <2>5, <3>2
  <2> QED BY <2>7, <2>8
<1> HIDE DEF h
<1>4. IsGraph(h)
  BY <1>1, <1>3 DEF IsGraph
<1>5. Synced(h, g, rows)
  BY <1>1, <1>3 DEF Synced
<1> QED BY <1>1, <1>4, <1>5 DEF h

\* Of a row that stays, a to-one pointer is the row it resolved to if that stays
\* too, and an option to a row that goes is nil.
IsCanonical(h, g, refs, dead) ==
    \A n \in DOMAIN g :
        /\ h[n].key = g[n].key /\ h[n].fk = g[n].fk
        /\ n \notin dead => \A f \in Forward[n] :
              h[n].rel[f] = IF Spec[f].many \/ refs[n][f] = <<>> THEN g[n].rel[f]
                            ELSE IF refs[n][f][1] \notin dead THEN refs[n][f]
                            ELSE IF Spec[f].kind = "option" THEN <<>> ELSE g[n].rel[f]

\* Canonical pointers have the types of the fields.
LEMMA CanonicalTyped ==
    ASSUME NEW g, IsGraph(g), NEW into \in SUBSET Node, NEW m, RefsTyped(DOMAIN g, into, m.refs), NEW dead
    PROVE  /\ IsGraph(Canonicalize(g, m, dead)) /\ DOMAIN Canonicalize(g, m, dead) = DOMAIN g
           /\ IsCanonical(Canonicalize(g, m, dead), g, m.refs, dead)
<1> DEFINE h == Canonicalize(g, m, dead)
           to(n, f) == IF f \notin Forward[n] \/ Spec[f].many \/ m.refs[n][f] = <<>> THEN g[n].rel[f]
                       ELSE IF m.refs[n][f][1] \notin dead THEN m.refs[n][f]
                       ELSE IF Spec[f].kind = "option" THEN <<>> ELSE g[n].rel[f]
           rel(n) == [f \in DOMAIN g[n].rel |-> to(n, f)]
<1>1. DOMAIN h = DOMAIN g
  BY DEF Canonicalize
<1>2. DOMAIN g \in SUBSET Node
  BY DEF IsGraph
<1>3. ASSUME NEW n \in DOMAIN g
      PROVE  /\ h[n] \in Row(n) /\ h[n].key = g[n].key /\ h[n].fk = g[n].fk
             /\ n \notin dead => \A f \in Forward[n] :
                   h[n].rel[f] = IF Spec[f].many \/ m.refs[n][f] = <<>> THEN g[n].rel[f]
                                 ELSE IF m.refs[n][f][1] \notin dead THEN m.refs[n][f]
                                 ELSE IF Spec[f].kind = "option" THEN <<>> ELSE g[n].rel[f]
  <2>1. /\ n \in Node /\ g[n] \in Row(n) /\ DOMAIN g[n].rel = FieldsOf[n]
        /\ \A f \in FieldsOf[n] : g[n].rel[f] \in Seq(Node) /\ Fits(f, g[n].rel[f])
    BY GraphRow
  <2>2. h[n] = IF n \in dead THEN g[n] ELSE [g[n] EXCEPT !.rel = rel(n)]
    BY DEF Canonicalize
  <2>3. ASSUME NEW f \in FieldsOf[n] PROVE rel(n)[f] = to(n, f) /\ to(n, f) \in Seq(Node) /\ Fits(f, to(n, f))
    <3>1. rel(n)[f] = to(n, f)
      BY <2>1
    <3>2. f \in Forward[n] => m.refs[n][f] \in Seq(Node) /\ Fits(f, m.refs[n][f])
      BY <1>2, RefsField
    <3>3. <<>> \in Seq(Node) /\ Fits(f, <<>>)
      BY DEF Fits, ToSet
    <3> QED BY <2>1, <3>1, <3>2, <3>3
  <2>4. rel(n) = [f \in FieldsOf[n] |-> to(n, f)]
    BY <2>1
  <2>5. IsRel(n, rel(n))
    <3> HIDE DEF rel, to
    <3> QED BY <2>3, <2>4 DEF IsRel
  <2>6. CASE n \in dead
    BY <2>1, <2>2, <2>6
  <2>7. CASE n \notin dead
    <3>1. h[n] = [g[n] EXCEPT !.rel = rel(n)]
      BY <2>2, <2>7
    <3>2. h[n] \in Row(n) /\ h[n].key = g[n].key /\ h[n].fk = g[n].fk /\ h[n].rel = rel(n)
      <4> HIDE DEF h, rel
      <4> QED BY <2>1, <2>5, <3>1 DEF Row, IsRel
    <3>3. \A f \in FieldsOf[n] : h[n].rel[f] = to(n, f)
      <4> HIDE DEF h, rel, to
      <4> QED BY <2>3, <3>2
    <3>4. \A f \in Forward[n] : f \in FieldsOf[n]
      BY <2>1, Fields
    <3> HIDE DEF h, rel
    <3> QED BY <3>2, <3>3, <3>4
  <2> QED BY <2>6, <2>7
<1> HIDE DEF h
<1>4. IsGraph(h)
  BY <1>1, <1>2, <1>3 DEF IsGraph
<1>5. IsCanonical(h, g, m.refs, dead)
  BY <1>3 DEF IsCanonical
<1> QED BY <1>1, <1>4, <1>5 DEF h

\* Rewired rows have their types, and point only at each other.
LEMMA RewireTyped ==
    ASSUME NEW g, IsGraph(g)
    PROVE  IsGraph(Rewire(g)) /\ DOMAIN Rewire(g) = DOMAIN g /\ PointsInto(Rewire(g), DOMAIN g)
<1> DEFINE tf == {<<Spec[f].target, Spec[f].match>> : f \in {x \in Field : ~OwnMany(x) /\ Spec[x].kind # "inverse"}}
           entries == Entries(g, DOMAIN g, tf)
           slice(f) == OwnMany(f) \/ Spec[f].kind = "inverse"
           to(n, f) == IF slice(f) THEN InOrder(g[n].rel[f], SliceMembers(g, n, f)) ELSE Resolved(entries, g, f, g[n].rel[f])
           rel(n) == [f \in DOMAIN g[n].rel |-> to(n, f)]
           h == Rewire(g)
<1>1. DOMAIN h = DOMAIN g /\ \A n \in DOMAIN g : h[n] = [g[n] EXCEPT !.rel = rel(n)]
  BY DEF Rewire
<1>2. DOMAIN g \in SUBSET Node
  BY DEF IsGraph
<1>3. Led(entries, DOMAIN g)
  BY EntriesLead
<1> HIDE DEF entries
<1>4. ASSUME NEW n \in DOMAIN g PROVE h[n] \in Row(n) /\ \A f \in FieldsOf[n] : ToSet(h[n].rel[f]) \subseteq DOMAIN g
  <2>1. /\ n \in Node /\ g[n] \in Row(n) /\ DOMAIN g[n].rel = FieldsOf[n]
        /\ \A f \in FieldsOf[n] : g[n].rel[f] \in Seq(Node) /\ Fits(f, g[n].rel[f])
    BY GraphRow
  <2>2. ASSUME NEW f \in FieldsOf[n] PROVE to(n, f) \in Seq(Node) /\ Fits(f, to(n, f)) /\ ToSet(to(n, f)) \subseteq DOMAIN g
    <3>1. CASE slice(f)
      <4> DEFINE members == SliceMembers(g, n, f)
      <4>1. members \subseteq DOMAIN g /\ \A c \in members : TypeOf[c] = Spec[f].target
        BY DEF SliceMembers
      <4>2. f \in Field /\ Spec[f].many
        <5>1. f \in Field
          BY <2>1, Fields
        <5> QED BY <3>1, <5>1, Schema DEF OwnMany
      <4>3. to(n, f) = InOrder(g[n].rel[f], members)
        BY <3>1
      <4> HIDE DEF members, to
      <4>4. to(n, f) \in Seq(Node) /\ ToSet(to(n, f)) = members
        BY <1>2, <2>1, <4>1, <4>3, Ordered
      <4> QED BY <4>1, <4>2, <4>4 DEF Fits
    <3>2. CASE ~slice(f)
      <4>1. to(n, f) = Resolved(entries, g, f, g[n].rel[f])
        BY <3>2
      <4> HIDE DEF to
      <4>2. to(n, f) \in Seq(DOMAIN g) /\ Fits(f, to(n, f))
        BY <1>3, <2>1, <4>1, ResolvedFits
      <4>3. ToSet(to(n, f)) \subseteq DOMAIN g
        BY <4>2, Elements
      <4>4. to(n, f) \in Seq(Node)
        <5>1. \A i \in 1 .. Len(to(n, f)) : to(n, f)[i] \in Node
          BY <1>2, <4>2
        <5> QED BY <4>2, <5>1
      <4> QED BY <4>2, <4>3, <4>4
    <3> QED BY <3>1, <3>2
  <2>3. rel(n) = [f \in FieldsOf[n] |-> to(n, f)]
    BY <2>1
  <2> HIDE DEF rel, to, slice
  <2>4. IsRel(n, rel(n))
    BY <2>2, <2>3 DEF IsRel
  <2>5. h[n] = [g[n] EXCEPT !.rel = rel(n)]
    BY <1>1
  <2> HIDE DEF h
  <2>6. h[n] \in Row(n) /\ h[n].rel = rel(n)
    BY <2>1, <2>4, <2>5 DEF Row, IsRel
  <2> QED BY <2>2, <2>3, <2>6
<1> HIDE DEF h
<1>5. IsGraph(h) /\ PointsInto(h, DOMAIN g)
  BY <1>1, <1>2, <1>4 DEF IsGraph, PointsInto
<1> QED BY <1>1, <1>5 DEF h

\* The rows of a settled graph: those that stay, pointing at each other.
LEMMA SettledTyped ==
    ASSUME NEW g, IsGraph(g), NEW into \in SUBSET Node, NEW m, m.nodes = DOMAIN g, RefsTyped(DOMAIN g, into, m.refs), NEW dead
    PROVE  /\ IsGraph(SettledRows(g, m, dead)) /\ DOMAIN SettledRows(g, m, dead) = m.nodes \ dead
           /\ PointsInto(SettledRows(g, m, dead), m.nodes \ dead)
<1> DEFINE c == Canonicalize(g, m, dead)
           r == Reconcile(g, m, dead)
           s == Restrict(r, m.nodes \ dead)
<1>1. DOMAIN g \in SUBSET Node
  BY DEF IsGraph
<1>2. IsGraph(c) /\ DOMAIN c = DOMAIN g
  BY CanonicalTyped
<1>3. r = SyncBacks(c, m.refs, m.nodes \ dead)
  BY DEF Reconcile
<1> HIDE DEF c, r
<1>4. IsGraph(r) /\ DOMAIN r = DOMAIN g
  BY <1>1, <1>2, <1>3, SyncTyped
<1>5. IsGraph(s) /\ DOMAIN s = m.nodes \ dead
  BY <1>4, GraphOfFewer
<1>6. SettledRows(g, m, dead) = Rewire(s)
  BY DEF SettledRows, s, r
<1> HIDE DEF s
<1> QED BY <1>5, <1>6, RewireTyped

\* The rows of a project that is opened.
LEMMA RehydratedTyped ==
    ASSUME NEW g, IsGraph(g)
    PROVE  IsGraph(Rehydrated(g)) /\ DOMAIN Rehydrated(g) = DOMAIN g /\ PointsInto(Rehydrated(g), DOMAIN g)
<1> DEFINE slice(f) == OwnMany(f) \/ Spec[f].kind = "inverse"
           rel(n) == [f \in DOMAIN g[n].rel |-> IF slice(f) THEN <<>> ELSE g[n].rel[f]]
           s == [n \in DOMAIN g |-> [g[n] EXCEPT !.rel = rel(n)]]
<1>1. Rehydrated(g) = Rewire(s)
  BY DEF Rehydrated
<1>2. ASSUME NEW n \in DOMAIN g PROVE n \in Node /\ s[n] \in Row(n)
  <2>1. /\ n \in Node /\ g[n] \in Row(n) /\ DOMAIN g[n].rel = FieldsOf[n]
        /\ \A f \in FieldsOf[n] : g[n].rel[f] \in Seq(Node) /\ Fits(f, g[n].rel[f])
    BY GraphRow
  <2>2. \A f : <<>> \in Seq(Node) /\ Fits(f, <<>>)
    BY DEF Fits, ToSet
  <2>3. IsRel(n, rel(n))
    <3> HIDE DEF slice
    <3> QED BY <2>1, <2>2 DEF IsRel
  <2>4. s[n] = [g[n] EXCEPT !.rel = rel(n)]
    OBVIOUS
  <2> HIDE DEF rel, s
  <2> QED BY <2>1, <2>3, <2>4 DEF Row, IsRel
<1>3. DOMAIN s = DOMAIN g
  OBVIOUS
<1> HIDE DEF s
<1>4. IsGraph(s)
  BY <1>2, <1>3 DEF IsGraph
<1> QED BY <1>1, <1>3, <1>4, RewireTyped

\* Edges are held by fields of rows.
HeldByRows(inc) == \A t, h, f : <<t, h, f>> \in DOMAIN inc => h \in Node /\ f \in Forward[h]

\* The holders an index knows of a row.
Holders(ix, n, f) == {h \in ix.nodes : <<n, h, Spec[f].match>> \in DOMAIN ix.inc}

\* Refreshed inverse views have their types; no other field changes.
LEMMA MirrorsTyped ==
    ASSUME NEW g, IsGraph(g), NEW ix, ix.nodes \in SUBSET Node, HeldByRows(ix.inc), NEW ns
    PROVE  /\ IsGraph(RefreshMirrors(g, ix, ns)) /\ DOMAIN RefreshMirrors(g, ix, ns) = DOMAIN g
           /\ \A n \in DOMAIN g :
                 /\ RefreshMirrors(g, ix, ns)[n].key = g[n].key /\ RefreshMirrors(g, ix, ns)[n].fk = g[n].fk
                 /\ n \notin ns => RefreshMirrors(g, ix, ns)[n] = g[n]
                 /\ \A f \in Forward[n] : RefreshMirrors(g, ix, ns)[n].rel[f] = g[n].rel[f]
                 /\ \A f \in InverseFields[n] : n \in ns => ToSet(RefreshMirrors(g, ix, ns)[n].rel[f]) = Holders(ix, n, f)
<1> DEFINE h == RefreshMirrors(g, ix, ns)
           to(n, f) == IF f \in InverseFields[n] THEN InverseHolders(ix, n, f) ELSE g[n].rel[f]
           rel(n) == [f \in DOMAIN g[n].rel |-> to(n, f)]
<1>1. DOMAIN h = DOMAIN g /\ \A n \in DOMAIN g : h[n] = IF n \notin ns THEN g[n] ELSE [g[n] EXCEPT !.rel = rel(n)]
  BY DEF RefreshMirrors
<1>2. DOMAIN g \in SUBSET Node
  BY DEF IsGraph
<1>3. ASSUME NEW n \in DOMAIN g
      PROVE  /\ h[n] \in Row(n) /\ h[n].key = g[n].key /\ h[n].fk = g[n].fk /\ (n \notin ns => h[n] = g[n])
             /\ \A f \in Forward[n] : h[n].rel[f] = g[n].rel[f]
             /\ \A f \in InverseFields[n] : n \in ns => ToSet(h[n].rel[f]) = Holders(ix, n, f)
  <2>1. /\ n \in Node /\ g[n] \in Row(n) /\ DOMAIN g[n].rel = FieldsOf[n]
        /\ \A f \in FieldsOf[n] : g[n].rel[f] \in Seq(Node) /\ Fits(f, g[n].rel[f])
    BY GraphRow
  <2>2. ASSUME NEW f \in InverseFields[n]
        PROVE  /\ InverseHolders(ix, n, f) \in Seq(Node) /\ Fits(f, InverseHolders(ix, n, f))
               /\ ToSet(InverseHolders(ix, n, f)) = Holders(ix, n, f)
    <3> DEFINE hs == Holders(ix, n, f)
               v == InverseHolders(ix, n, f)
    <3>1. f \in Field /\ Spec[f].kind = "inverse"
      BY <2>1, Fields
    <3>2. Spec[f].many /\ Spec[Spec[f].match].owner = Spec[f].target
      BY <3>1, Schema
    <3>3. ASSUME NEW x \in hs PROVE x \in Node /\ TypeOf[x] = Spec[f].target
      <4>1. x \in Node /\ Spec[f].match \in Forward[x]
        BY <3>3 DEF Holders, HeldByRows
      <4>2. Spec[Spec[f].match].owner = TypeOf[x]
        BY <4>1, Fields
      <4> QED BY <3>2, <4>1, <4>2
    <3>4. v = Ascending(hs)
      BY DEF InverseHolders, Holders
    <3> HIDE DEF hs, v
    <3>5. hs \in SUBSET Node
      BY <3>3
    <3>6. hs \in SUBSET Nat /\ IsFiniteSet(hs)
      BY <3>5, Nodes
    <3>7. v \in Seq(hs) /\ ToSet(v) = hs
      BY <3>4, <3>6, Ascends
    <3>8. v \in Seq(Node)
      <4>1. \A i \in 1 .. Len(v) : v[i] \in Node
        BY <3>5, <3>7
      <4> QED BY <3>7, <4>1
    <3>9. Fits(f, v)
      BY <3>2, <3>3, <3>7 DEF Fits
    <3> QED BY <3>7, <3>8, <3>9 DEF v, hs
  <2>3. \A f \in FieldsOf[n] : to(n, f) \in Seq(Node) /\ Fits(f, to(n, f))
    BY <2>1, <2>2
  <2>4. rel(n) = [f \in FieldsOf[n] |-> to(n, f)]
    BY <2>1
  <2>5. /\ \A f \in Forward[n] : to(n, f) = g[n].rel[f] /\ f \in FieldsOf[n]
        /\ \A f \in InverseFields[n] : to(n, f) = InverseHolders(ix, n, f) /\ f \in FieldsOf[n]
    BY <2>1, Fields
  <2>6. h[n] = IF n \notin ns THEN g[n] ELSE [g[n] EXCEPT !.rel = rel(n)]
    BY <1>1
  <2> HIDE DEF h, rel, to
  <2>7. IsRel(n, rel(n))
    BY <2>3, <2>4 DEF IsRel
  <2>8. CASE n \notin ns
    BY <2>1, <2>6, <2>8
  <2>9. CASE n \in ns
    <3>1. h[n] \in Row(n) /\ h[n].key = g[n].key /\ h[n].fk = g[n].fk /\ h[n].rel = rel(n)
      BY <2>1, <2>6, <2>7, <2>9 DEF Row, IsRel
    <3> QED BY <2>2, <2>4, <2>5, <2>9, <3>1
  <2> QED BY <2>8, <2>9
<1> HIDE DEF h
<1>4. IsGraph(h)
  BY <1>1, <1>2, <1>3 DEF IsGraph
<1> QED BY <1>1, <1>3, <1>4 DEF h

\* What a delta does to the rows of g: the fields it replaced, the inverse views
\* it refreshed, back pointers to rows it lists, and nothing else.
Published(h, g, d) ==
    \A n \in DOMAIN g :
        /\ h[n].key = g[n].key
        /\ n \in DOMAIN d.published => \A f \in Forward[n] : h[n].rel[f] = d.published[n][f]
        /\ n \notin DOMAIN d.published => \A f \in Forward[n] :
              /\ ToSet(h[n].rel[f]) \subseteq ToSet(g[n].rel[f]) \cup DOMAIN d.scanned
              /\ g[n].rel[f] # <<>> => h[n].rel[f] # <<>>
              /\ Spec[f].kind # "ownedby" => h[n].rel[f] = g[n].rel[f]
        /\ \A f \in InverseFields[n] :
              IF n \in d.mirrors THEN ToSet(h[n].rel[f]) = Holders(d.index, n, f) ELSE h[n].rel[f] = g[n].rel[f]

\* The rows of a delta have their types.
LEMMA DeltaRowsTyped ==
    ASSUME NEW g, IsGraph(g), NEW into \in SUBSET Node, NEW d, NEW rows \in SUBSET Node,
           RefsTyped(rows, into, d.scanned), RefsTyped(rows, into, d.published),
           d.index.nodes \in SUBSET Node, HeldByRows(d.index.inc)
    PROVE  IsGraph(DeltaRows(g, d)) /\ DOMAIN DeltaRows(g, d) = DOMAIN g /\ Published(DeltaRows(g, d), g, d)
<1> DEFINE s == SyncBacks(g, d.scanned, DOMAIN g)
           w == [n \in DOMAIN g |-> IF n \notin DOMAIN d.published THEN s[n] ELSE [s[n] EXCEPT !.rel = d.published[n] ++ @]]
           h == DeltaRows(g, d)
<1>1. /\ IsGraph(s) /\ DOMAIN s = DOMAIN g
      /\ \A n \in DOMAIN g :
            /\ s[n].key = g[n].key
            /\ \A f \in FieldsOf[n] : /\ ToSet(s[n].rel[f]) \subseteq ToSet(g[n].rel[f]) \cup rows
                                      /\ g[n].rel[f] # <<>> => s[n].rel[f] # <<>>
                                      /\ Spec[f].kind # "ownedby" => s[n].rel[f] = g[n].rel[f]
  <2>1. IsGraph(s) /\ DOMAIN s = DOMAIN g /\ Synced(s, g, rows)
    BY SyncTyped
  <2> HIDE DEF s
  <2> QED BY <2>1 DEF Synced
<1>2. h = RefreshMirrors(w, d.index, d.mirrors)
  BY DEF DeltaRows
<1>3. DOMAIN w = DOMAIN g /\ \A n \in DOMAIN g : w[n] = IF n \notin DOMAIN d.published THEN s[n] ELSE [s[n] EXCEPT !.rel = d.published[n] ++ s[n].rel]
  OBVIOUS
<1> HIDE DEF s, w, h
<1>4. DOMAIN g \in SUBSET Node
  BY DEF IsGraph
<1>5. DOMAIN d.scanned = rows /\ DOMAIN d.published = rows
  BY DEF RefsTyped
<1>6. ASSUME NEW n \in DOMAIN g
      PROVE  /\ w[n] \in Row(n) /\ w[n].key = g[n].key
             /\ n \in rows => \A f \in Forward[n] : w[n].rel[f] = d.published[n][f]
             /\ n \in rows => \A f \in InverseFields[n] : w[n].rel[f] = g[n].rel[f]
             /\ n \notin rows => w[n] = s[n]
  <2>1. /\ n \in Node /\ s[n] \in Row(n) /\ DOMAIN s[n].rel = FieldsOf[n]
        /\ \A f \in FieldsOf[n] : s[n].rel[f] \in Seq(Node) /\ Fits(f, s[n].rel[f])
    BY <1>1, GraphRow
  <2>2. CASE n \notin rows
    BY <1>1, <1>3, <1>5, <2>1, <2>2
  <2>3. CASE n \in rows
    <3> DEFINE rel == d.published[n] ++ s[n].rel
    <3>1. w[n] = [s[n] EXCEPT !.rel = rel]
      BY <1>3, <1>5, <2>3
    <3>2. DOMAIN d.published[n] = Forward[n] /\ \A f \in Forward[n] : d.published[n][f] \in Seq(Node) /\ Fits(f, d.published[n][f])
      BY <2>3, RefsField DEF RefsTyped
    <3>3. Forward[n] \subseteq FieldsOf[n] /\ \A f \in InverseFields[n] : f \in FieldsOf[n] /\ f \notin Forward[n] /\ Spec[f].kind # "ownedby"
      BY <2>1, Fields
    <3>4. /\ rel = [f \in FieldsOf[n] |-> IF f \in Forward[n] THEN d.published[n][f] ELSE s[n].rel[f]]
      <4>1. Forward[n] \cup FieldsOf[n] = FieldsOf[n]
        BY <3>3
      <4> QED BY <2>1, <3>2, <4>1 DEF ++
    <3> HIDE DEF rel
    <3>5. IsRel(n, rel)
      BY <2>1, <3>2, <3>4 DEF IsRel
    <3>6. w[n] \in Row(n) /\ w[n].key = s[n].key /\ w[n].rel = rel
      BY <2>1, <3>1, <3>5 DEF Row, IsRel
    <3>7. \A f \in Forward[n] : w[n].rel[f] = d.published[n][f]
      BY <3>3, <3>4, <3>6
    <3>8. \A f \in InverseFields[n] : w[n].rel[f] = g[n].rel[f]
      BY <1>1, <3>3, <3>4, <3>6
    <3> QED BY <1>1, <2>3, <3>6, <3>7, <3>8
  <2> QED BY <2>2, <2>3
<1>7. IsGraph(w)
  BY <1>3, <1>4, <1>6 DEF IsGraph
<1>8. /\ IsGraph(h) /\ DOMAIN h = DOMAIN g
      /\ \A n \in DOMAIN g :
            /\ h[n].key = w[n].key
            /\ n \notin d.mirrors => h[n] = w[n]
            /\ \A f \in Forward[n] : h[n].rel[f] = w[n].rel[f]
            /\ \A f \in InverseFields[n] : n \in d.mirrors => ToSet(h[n].rel[f]) = Holders(d.index, n, f)
  BY <1>2, <1>3, <1>7, MirrorsTyped
<1>9. ASSUME NEW n \in DOMAIN g
      PROVE  /\ h[n].key = g[n].key
             /\ n \in rows => \A f \in Forward[n] : h[n].rel[f] = d.published[n][f]
             /\ n \notin rows => \A f \in Forward[n] :
                  /\ ToSet(h[n].rel[f]) \subseteq ToSet(g[n].rel[f]) \cup rows
                  /\ g[n].rel[f] # <<>> => h[n].rel[f] # <<>>
                  /\ Spec[f].kind # "ownedby" => h[n].rel[f] = g[n].rel[f]
             /\ \A f \in InverseFields[n] :
                  IF n \in d.mirrors THEN ToSet(h[n].rel[f]) = Holders(d.index, n, f) ELSE h[n].rel[f] = g[n].rel[f]
  <2>1. h[n].key = g[n].key
    BY <1>6, <1>8
  <2>2. n \in rows => \A f \in Forward[n] : h[n].rel[f] = d.published[n][f]
    BY <1>6, <1>8
  <2>3. /\ \A f \in Forward[n] : f \in FieldsOf[n]
        /\ \A f \in InverseFields[n] : f \in FieldsOf[n] /\ Spec[f].kind # "ownedby"
    BY <1>4, Fields
  <2>4. ASSUME n \notin rows, NEW f \in Forward[n]
        PROVE  /\ ToSet(h[n].rel[f]) \subseteq ToSet(g[n].rel[f]) \cup rows
               /\ g[n].rel[f] # <<>> => h[n].rel[f] # <<>>
               /\ Spec[f].kind # "ownedby" => h[n].rel[f] = g[n].rel[f]
    <3>1. h[n].rel[f] = s[n].rel[f]
      BY <1>6, <1>8, <2>4
    <3> QED BY <1>1, <2>3, <3>1
  <2>5. ASSUME NEW f \in InverseFields[n], n \notin d.mirrors PROVE h[n].rel[f] = g[n].rel[f]
    <3>1. h[n] = w[n]
      BY <1>8, <2>5
    <3>2. w[n].rel[f] = g[n].rel[f]
      BY <1>1, <1>6, <2>3
    <3> QED BY <3>1, <3>2
  <2> QED BY <1>8, <2>1, <2>2, <2>4, <2>5
<1>10. Published(h, g, d)
  BY <1>5, <1>9 DEF Published
<1> QED BY <1>8, <1>10 DEF h

\* Pointers into the closure leave the fields that lose them, and no other.
IsDropped(h, losing, closure) ==
    \A n \in DOMAIN live :
        /\ h[n].key = live[n].key /\ h[n].fk = live[n].fk
        /\ \A f \in FieldsOf[n] :
              h[n].rel[f] = IF <<n, f>> \in losing THEN Without(live[n].rel[f], closure) ELSE live[n].rel[f]

\* It does so, and keeps the types.
LEMMA DroppedTyped ==
    ASSUME IsGraph(live), NEW losing, NEW closure
    PROVE  /\ IsGraph(Dropped(losing, closure)) /\ DOMAIN Dropped(losing, closure) = DOMAIN live
           /\ IsDropped(Dropped(losing, closure), losing, closure)
<1> DEFINE h == Dropped(losing, closure)
           to(n, f) == IF <<n, f>> \in losing THEN Without(live[n].rel[f], closure) ELSE live[n].rel[f]
           rel(n) == [f \in DOMAIN live[n].rel |-> to(n, f)]
<1>1. DOMAIN h = DOMAIN live /\ \A n \in DOMAIN live : h[n] = [live[n] EXCEPT !.rel = rel(n)]
  BY DEF Dropped
<1>2. ASSUME NEW n \in DOMAIN live
      PROVE  /\ h[n] \in Row(n) /\ n \in Node /\ h[n].key = live[n].key /\ h[n].fk = live[n].fk
             /\ \A f \in FieldsOf[n] : h[n].rel[f] = to(n, f)
  <2>1. /\ n \in Node /\ live[n] \in Row(n) /\ DOMAIN live[n].rel = FieldsOf[n]
        /\ \A f \in FieldsOf[n] : live[n].rel[f] \in Seq(Node) /\ Fits(f, live[n].rel[f])
    BY GraphRow
  <2>2. ASSUME NEW f \in FieldsOf[n] PROVE to(n, f) \in Seq(Node) /\ Fits(f, to(n, f))
    <3> DEFINE s == live[n].rel[f]
    <3>1. s \in Seq(Node) /\ Fits(f, s)
      BY <2>1
    <3>2. Without(s, closure) \in Seq(Node) /\ Len(Without(s, closure)) <= Len(s) /\ ToSet(Without(s, closure)) \subseteq ToSet(s)
      BY <3>1, Remaining
    <3>3. Fits(f, Without(s, closure))
      BY <3>1, <3>2, FitsLess
    <3> QED BY <3>1, <3>2, <3>3
  <2>3. rel(n) = [f \in FieldsOf[n] |-> to(n, f)]
    BY <2>1
  <2>4. h[n] = [live[n] EXCEPT !.rel = rel(n)]
    BY <1>1
  <2> HIDE DEF h, rel, to
  <2>5. IsRel(n, rel(n))
    BY <2>2, <2>3 DEF IsRel
  <2>6. h[n] \in Row(n) /\ h[n].rel = rel(n) /\ h[n].key = live[n].key /\ h[n].fk = live[n].fk
    BY <2>1, <2>4, <2>5 DEF Row, IsRel
  <2> QED BY <2>1, <2>3, <2>6
<1>3. IsGraph(h)
  <2> HIDE DEF h
  <2> QED BY <1>1, <1>2 DEF IsGraph
<1>4. IsDropped(h, losing, closure)
  BY <1>2 DEF IsDropped
<1> HIDE DEF h
<1> QED BY <1>1, <1>3, <1>4 DEF h

----------------------------------------------------------------------------
\* Edits.

\* Edited rows are rows the caller has, with their types and inverse views.
IsEdit(view, ch) ==
    /\ IsGraph(ch) /\ DOMAIN ch \subseteq DOMAIN view
    /\ \A n \in DOMAIN ch : \A f \in InverseFields[n] : ch[n].rel[f] = view[n].rel[f]

\* One row replaced.
LEMMA SingleEdit ==
    ASSUME NEW view, IsGraph(view), NEW n \in DOMAIN view, NEW row \in Row(n),
           \A f \in InverseFields[n] : row.rel[f] = view[n].rel[f]
    PROVE  IsEdit(view, Single(n, row))
BY DEF IsEdit, IsGraph, Single

\* One field of one row replaced.
LEMMA FieldEdit ==
    ASSUME NEW view, IsGraph(view), NEW n \in DOMAIN view, NEW f \in Forward[n], NEW s \in Seq(Node), Fits(f, s)
    PROVE  IsEdit(view, Single(n, [view[n] EXCEPT !.rel[f] = s]))
<1>1. f \in FieldsOf[n] /\ \A x \in InverseFields[n] : x \in FieldsOf[n] /\ x # f
  BY Fields DEF IsGraph
<1>2. n \in Node /\ view[n] \in Row(n) /\ IsRel(n, view[n].rel)
  BY GraphRow
<1>3. IsRel(n, [view[n].rel EXCEPT ![f] = s])
  BY <1>1, <1>2, RelField
<1>4. [view[n] EXCEPT !.rel[f] = s] = [view[n] EXCEPT !.rel = [view[n].rel EXCEPT ![f] = s]]
  OBVIOUS
<1>5. [view[n] EXCEPT !.rel[f] = s] \in Row(n)
  BY <1>2, <1>3, <1>4 DEF Row, IsRel
<1>6. \A x \in InverseFields[n] : [view[n] EXCEPT !.rel[f] = s].rel[x] = view[n].rel[x]
  BY <1>1, <1>2 DEF Row, IsRel
<1> QED BY <1>5, <1>6, SingleEdit

\* A pointer that a caller sets.
LEMMA RefEditTyped ==
    ASSUME NEW view, IsGraph(view), NEW ch \in RefEdits(view)
    PROVE  IsEdit(view, ch)
<1> DEFINE ts(f) == {t \in DOMAIN view : TypeOf[t] = Spec[f].target}
           choices(f) == {<<>>} \cup {<<t>> : t \in ts(f)} \cup (IF Spec[f].many THEN ts(f) \X ts(f) ELSE {})
           replaced(n, f) == {Single(n, [view[n] EXCEPT !.rel[f] = s]) : s \in choices(f) \ {view[n].rel[f]}}
<1>1. PICK n \in DOMAIN view : \E f \in Forward[n] : \E s \in choices(f) : ch = Single(n, [view[n] EXCEPT !.rel[f] = s])
  <2>1. RefEdits(view) = UNION {UNION {replaced(n, f) : f \in {x \in Forward[n] \cap Edited : ~OwnMany(x) /\ Spec[x].kind # "ownedby"}} : n \in DOMAIN view}
    BY DEF RefEdits
  <2> HIDE DEF choices
  <2>2. PICK n \in DOMAIN view : ch \in UNION {replaced(n, f) : f \in {x \in Forward[n] \cap Edited : ~OwnMany(x) /\ Spec[x].kind # "ownedby"}}
    BY <2>1
  <2>3. PICK f \in Forward[n] : ch \in replaced(n, f)
    BY <2>2
  <2> QED BY <2>3
<1>2. PICK f \in Forward[n] : \E s \in choices(f) : ch = Single(n, [view[n] EXCEPT !.rel[f] = s])
  BY <1>1
<1> SUFFICES ASSUME NEW s \in choices(f) PROVE IsEdit(view, Single(n, [view[n] EXCEPT !.rel[f] = s]))
  BY <1>2
<1>3. n \in Node /\ f \in FieldsOf[n] /\ ts(f) \in SUBSET Node /\ \A t \in ts(f) : TypeOf[t] = Spec[f].target
  BY Fields DEF IsGraph
<1>4. s \in Seq(Node) /\ Fits(f, s)
  <2>1. CASE s = <<>>
    BY <2>1 DEF Fits, ToSet
  <2>2. CASE \E t \in ts(f) : s = <<t>>
    <3>1. PICK t \in ts(f) : s = <<t>>
      BY <2>2
    <3>2. t \in Node /\ s \in Seq(Node) /\ Len(s) = 1 /\ ToSet(s) = {t}
      BY <1>3, <3>1, Alone
    <3> QED BY <1>3, <3>2 DEF Fits
  <2>3. CASE Spec[f].many /\ s \in ts(f) \X ts(f)
    <3>1. PICK t \in ts(f), u \in ts(f) : s = <<t, u>>
      BY <2>3
    <3>2. t \in Node /\ u \in Node
      BY <1>3
    <3>3. s \in Seq(Node) /\ Len(s) = 2 /\ s[1] = t /\ s[2] = u
      BY <3>1, <3>2
    <3>4. \A i \in DOMAIN s : s[i] \in ts(f)
      BY <3>1, <3>3
    <3> QED BY <1>3, <2>3, <3>3, <3>4 DEF Fits, ToSet
  <2> QED BY <2>1, <2>2, <2>3
<1> QED BY <1>3, <1>4, FieldEdit

\* A move keeps the types of the slices, of the pointer back and of the scalar.
LEMMA MoveTyped ==
    ASSUME NEW view, IsGraph(view), NEW f \in Field, OwnMany(f), NEW c \in DOMAIN view, TypeOf[c] = Spec[f].target,
           NEW o \in {0} \cup {n \in DOMAIN view : TypeOf[n] = Spec[f].owner}
    PROVE  IsEdit(view, Move(view, f, c, o))
<1> DEFINE losers == {p \in DOMAIN view : f \in FieldsOf[p] /\ c \in ToSet(view[p].rel[f])}
           back == o = 0 \/ (c \in DOMAIN index.owners /\ index.owners[c] = o)
           child == IF ScalarBack(f) /\ ~back THEN {} ELSE {c}
           slice(n) == IF n = o THEN Append(Without(view[n].rel[f], {c}), c) ELSE Without(view[n].rel[f], {c})
           to(n, g) == IF g = f THEN slice(n)
                       ELSE IF n = c /\ g = Spec[f].match THEN (IF o = 0 THEN <<>> ELSE <<o>>) ELSE view[n].rel[g]
           rel(n) == [g \in DOMAIN view[n].rel |-> to(n, g)]
           fk(n) == [g \in DOMAIN view[n].fk |-> IF n = c /\ g = f /\ back THEN o ELSE view[n].fk[g]]
           ch == Move(view, f, c, o)
           ns == losers \cup child \cup ({o} \ {0})
<1>1. DOMAIN ch = ns /\ \A n \in ns : ch[n] = [view[n] EXCEPT !.rel = rel(n), !.fk = fk(n)]
  BY DEF Move
<1>2. ns \subseteq DOMAIN view
  OBVIOUS
<1> HIDE DEF ns, back, losers, child
<1>3. ASSUME NEW n \in ns
      PROVE  n \in Node /\ ch[n] \in Row(n) /\ \A g \in InverseFields[n] : ch[n].rel[g] = view[n].rel[g]
  <2>1. /\ n \in Node /\ view[n] \in Row(n) /\ DOMAIN view[n].rel = FieldsOf[n] /\ DOMAIN view[n].fk = BackFields[n]
        /\ view[n].fk \in [BackFields[n] -> Node \cup {0}]
        /\ \A g \in FieldsOf[n] : view[n].rel[g] \in Seq(Node) /\ Fits(g, view[n].rel[g])
    BY <1>2, GraphRow
  <2>2. c \in Node /\ (o = 0 \/ (o \in Node /\ TypeOf[o] = Spec[f].owner))
    BY DEF IsGraph
  <2>3. ASSUME NEW g \in FieldsOf[n] PROVE to(n, g) \in Seq(Node) /\ Fits(g, to(n, g))
    <3>1. CASE g = f
      <4> DEFINE s == view[n].rel[f]
                 w == Without(s, {c})
      <4>1. s \in Seq(Node) /\ Fits(f, s)
        BY <2>1, <3>1
      <4>2. w \in Seq(Node) /\ Len(w) <= Len(s) /\ ToSet(w) \subseteq ToSet(s)
        BY <4>1, Remaining
      <4>3. Fits(f, w)
        BY <4>1, <4>2, FitsLess
      <4>4. to(n, g) = IF n = o THEN Append(w, c) ELSE w
        BY <3>1
      <4> HIDE DEF w, s, to
      <4>5. Append(w, c) = w \o <<c>>
        BY <2>2, <4>2
      <4>6. <<c>> \in Seq(Node) /\ ToSet(<<c>>) = {c}
        BY <2>2, Alone
      <4>7. w \o <<c>> \in Seq(Node) /\ ToSet(w \o <<c>>) = ToSet(w) \cup ToSet(<<c>>)
        BY ONLY <4>2, <4>6, Joined
      <4>8. Fits(f, w \o <<c>>)
        BY <4>3, <4>6, <4>7 DEF Fits, OwnMany
      <4> QED BY <3>1, <4>2, <4>3, <4>4, <4>5, <4>7, <4>8
    <3>2. CASE g # f /\ n = c /\ g = Spec[f].match
      <4>1. g \in Field
        BY <2>1, Fields
      <4>2. Spec[g].target = Spec[f].owner
        BY <3>2, <4>1, Schema
      <4>3. to(n, g) = IF o = 0 THEN <<>> ELSE <<o>>
        BY <3>2
      <4> HIDE DEF to
      <4>4. o # 0 => <<o>> \in Seq(Node) /\ Fits(g, <<o>>)
        BY <2>2, <4>2, Alone DEF Fits
      <4>5. <<>> \in Seq(Node) /\ Fits(g, <<>>)
        BY DEF Fits, ToSet
      <4> QED BY <4>3, <4>4, <4>5
    <3>3. CASE g # f /\ ~(n = c /\ g = Spec[f].match)
      <4>1. to(n, g) = view[n].rel[g]
        BY <3>3
      <4> HIDE DEF to
      <4> QED BY <2>1, <4>1
    <3> QED BY <3>1, <3>2, <3>3
  <2>4. rel(n) = [g \in FieldsOf[n] |-> to(n, g)]
    BY <2>1
  <2>5. fk(n) \in [BackFields[n] -> Node \cup {0}]
    BY <2>1, <2>2
  <2>6. ch[n] = [view[n] EXCEPT !.rel = rel(n), !.fk = fk(n)]
    BY <1>1
  <2>7. \A g \in InverseFields[n] : g \in FieldsOf[n] /\ to(n, g) = view[n].rel[g]
    <3> SUFFICES ASSUME NEW g \in InverseFields[n] PROVE g \in FieldsOf[n] /\ to(n, g) = view[n].rel[g]
      OBVIOUS
    <3>1. g \in FieldsOf[n] /\ g \in Field /\ Spec[g].kind = "inverse"
      BY <2>1, Fields
    <3>2. g # f /\ g # Spec[f].match
      BY <3>1, Schema DEF OwnMany
    <3> QED BY <3>1, <3>2
  <2> HIDE DEF rel, to, fk, ch
  <2>8. IsRel(n, rel(n))
    BY <2>3, <2>4 DEF IsRel
  <2>9. ch[n] \in Row(n) /\ ch[n].rel = rel(n)
    BY <2>1, <2>5, <2>6, <2>8 DEF Row, IsRel
  <2> QED BY <2>1, <2>4, <2>7, <2>9
<1> HIDE DEF ch
<1>4. IsGraph(ch) /\ \A n \in DOMAIN ch : \A g \in InverseFields[n] : ch[n].rel[g] = view[n].rel[g]
  BY <1>1, <1>3 DEF IsGraph
<1> QED BY <1>1, <1>2, <1>4 DEF ch, IsEdit

\* Slices in another order, and twice.
LEMMA SliceEditTyped ==
    ASSUME NEW view, IsGraph(view), NEW ch \in SliceEdits(view)
    PROVE  IsEdit(view, ch)
<1> DEFINE choices(n, f) == {Reverse(view[n].rel[f]), view[n].rel[f] \o view[n].rel[f]}
           replaced(n, f) == {Single(n, [view[n] EXCEPT !.rel[f] = s]) : s \in choices(n, f) \ {view[n].rel[f]}}
<1>1. PICK n \in DOMAIN view : \E f \in FieldsOf[n] : OwnMany(f) /\ \E s \in choices(n, f) : ch = Single(n, [view[n] EXCEPT !.rel[f] = s])
  <2>1. SliceEdits(view) = UNION {UNION {replaced(n, f) : f \in {x \in FieldsOf[n] \cap Edited : OwnMany(x)}} : n \in DOMAIN view}
    BY DEF SliceEdits
  <2> HIDE DEF choices
  <2>2. PICK n \in DOMAIN view : ch \in UNION {replaced(n, f) : f \in {x \in FieldsOf[n] \cap Edited : OwnMany(x)}}
    BY <2>1
  <2>3. PICK f \in FieldsOf[n] : OwnMany(f) /\ ch \in replaced(n, f)
    BY <2>2
  <2> QED BY <2>3
<1>2. PICK f \in FieldsOf[n] : OwnMany(f) /\ \E s \in choices(n, f) : ch = Single(n, [view[n] EXCEPT !.rel[f] = s])
  BY <1>1
<1> SUFFICES ASSUME NEW s \in choices(n, f) PROVE IsEdit(view, Single(n, [view[n] EXCEPT !.rel[f] = s]))
  BY <1>2
<1> DEFINE r == view[n].rel[f]
<1>3. r \in Seq(Node) /\ Fits(f, r)
  BY GraphRow
<1>4. s = Reverse(r) \/ s = r \o r
  OBVIOUS
<1> HIDE DEF r, choices, replaced
<1>5. Reverse(r) \in Seq(Node) /\ ToSet(Reverse(r)) \subseteq ToSet(r)
  <2>1. Len(r) \in Nat /\ \A i \in 1 .. Len(r) : (Len(r) - i) + 1 \in 1 .. Len(r)
    BY <1>3
  <2>2. DOMAIN r = 1 .. Len(r) /\ \A i \in 1 .. Len(r) : r[i] \in Node
    BY <1>3
  <2>3. Reverse(r) = [i \in 1 .. Len(r) |-> r[(Len(r) - i) + 1]]
    BY DEF Reverse
  <2>4. DOMAIN Reverse(r) = 1 .. Len(r) /\ \A i \in 1 .. Len(r) : Reverse(r)[i] = r[(Len(r) - i) + 1]
    BY <2>3
  <2>5. Reverse(r) \in Seq(Node)
    BY <2>1, <2>2, <2>3
  <2>6. \A i \in DOMAIN Reverse(r) : Reverse(r)[i] \in ToSet(r)
    BY <2>1, <2>2, <2>4 DEF ToSet
  <2> QED BY <2>5, <2>6 DEF ToSet
<1>6. r \o r \in Seq(Node) /\ ToSet(r \o r) = ToSet(r)
  <2>1. r \o r \in Seq(Node) /\ ToSet(r \o r) = ToSet(r) \cup ToSet(r)
    BY <1>3, Joined
  <2> QED BY <2>1
<1>7. Fits(f, s) /\ s \in Seq(Node)
  BY <1>2, <1>3, <1>4, <1>5, <1>6 DEF Fits, OwnMany
<1>8. f \in Forward[n]
  BY <1>2, Fields DEF OwnMany, IsGraph
<1> QED BY <1>7, <1>8, FieldEdit

\* A lookup key that a caller changes.
LEMMA KeyEditTyped ==
    ASSUME NEW view, IsGraph(view), NEW ch \in KeyEdits(view)
    PROVE  IsEdit(view, ch)
<1>1. PICK n \in DOMAIN view : \E k \in Key : ch = Single(n, [view[n] EXCEPT !.key = k])
  BY DEF KeyEdits
<1>2. PICK k \in Key : ch = Single(n, [view[n] EXCEPT !.key = k])
  BY <1>1
<1>3. n \in Node /\ view[n] \in Row(n)
  BY GraphRow
<1>4. [view[n] EXCEPT !.key = k] \in Row(n) /\ [view[n] EXCEPT !.key = k].rel = view[n].rel
  BY <1>3 DEF Row
<1> QED BY <1>2, <1>4, SingleEdit

\* Whatever a caller edits has its type.
LEMMA EditsTyped ==
    ASSUME project \in DOMAIN Projects, NEW view, IsGraph(view), NEW ch \in Edits(view)
    PROVE  IsEdit(view, ch)
<1>1. CASE ch \in RefEdits(view)
  BY <1>1, RefEditTyped
<1>2. CASE ch \in SliceEdits(view)
  BY <1>2, SliceEditTyped
<1>3. CASE ch \in KeyEdits(view)
  BY <1>3, KeyEditTyped
<1>4. CASE ch \in MoveEdits(view)
  <2> DEFINE cs(f) == {n \in DOMAIN view : TypeOf[n] = Spec[f].target}
             os(f) == {0} \cup {n \in DOMAIN view : TypeOf[n] = Spec[f].owner}
             moves(f) == {Move(view, f, c, o) : c \in cs(f), o \in os(f)}
  <2>1. MoveEdits(view) = UNION {moves(f) : f \in {x \in Edited : OwnMany(x)}}
    BY DEF MoveEdits
  <2> HIDE DEF cs, os
  <2>2. PICK f \in Edited : OwnMany(f) /\ ch \in moves(f)
    BY <1>4, <2>1
  <2>3. PICK c \in cs(f), o \in os(f) : ch = Move(view, f, c, o)
    BY <2>2
  <2>4. f \in Field
    BY ProjectsAssumption DEF Edited
  <2>5. c \in DOMAIN view /\ TypeOf[c] = Spec[f].target /\ o \in {0} \cup {n \in DOMAIN view : TypeOf[n] = Spec[f].owner}
    BY DEF cs, os
  <2> QED BY <2>2, <2>3, <2>4, <2>5, MoveTyped
<1> QED BY <1>1, <1>2, <1>3, <1>4 DEF Edits

\* A row that is created has its type.
LEMMA NewRowsTyped ==
    ASSUME NEW view, IsGraph(view), NEW n \in Node, NEW row \in NewRows(view, n)
    PROVE  row \in Row(n)
<1> DEFINE needs == {f \in Forward[n] : ~MayBeMissing(f) /\ Spec[f].kind # "ownedby"}
           keyed == \E f \in Field : Spec[f].target = TypeOf[n] /\ Spec[f].match = "Key"
           fits == {to \in [needs -> DOMAIN view] : \A f \in needs : TypeOf[to[f]] = Spec[f].target}
           rel(to, k) == [f \in needs |-> <<to[f]>>] ++ NewRow(n, k).rel
           ks == IF keyed THEN Key ELSE {NoKey}
<1>1. NewRows(view, n) = {[NewRow(n, k) EXCEPT !.rel = rel(to, k)] : to \in fits, k \in ks}
  BY DEF NewRows
<1>2. ks \subseteq Key \cup {NoKey}
  OBVIOUS
<1>3. needs \subseteq FieldsOf[n] /\ DOMAIN view \subseteq Node
  BY Fields DEF IsGraph
<1> HIDE DEF keyed, ks
<1>4. PICK to \in fits, k \in ks : row = [NewRow(n, k) EXCEPT !.rel = rel(to, k)]
  <2> HIDE DEF fits, rel
  <2> QED BY <1>1
<1>5. \A f \in needs : to[f] \in Node /\ TypeOf[to[f]] = Spec[f].target
  BY <1>3
<1> HIDE DEF needs, fits
<1>6. NewRow(n, k) \in Row(n)
  BY <1>2, RowNew
<1> DEFINE new == NewRow(n, k)
<1>7. DOMAIN new.rel = FieldsOf[n] /\ \A f \in FieldsOf[n] : new.rel[f] \in Seq(Node) /\ Fits(f, new.rel[f])
  BY <1>6, RowParts DEF IsRel
<1> HIDE DEF new
<1>8. \A f \in needs : <<to[f]>> \in Seq(Node) /\ Fits(f, <<to[f]>>)
  <2> TAKE f \in needs
  <2>1. <<to[f]>> \in Seq(Node) /\ Len(<<to[f]>>) = 1 /\ ToSet(<<to[f]>>) = {to[f]}
    BY <1>5, Alone
  <2> QED BY <1>5, <2>1 DEF Fits
<1>9. rel(to, k) = [f \in FieldsOf[n] |-> IF f \in needs THEN <<to[f]>> ELSE new.rel[f]]
  <2>1. needs \cup FieldsOf[n] = FieldsOf[n]
    BY <1>3
  <2> QED BY <1>7, <2>1 DEF ++, new
<1>10. row = [new EXCEPT !.rel = rel(to, k)]
  BY <1>4 DEF new
<1> HIDE DEF rel
<1>11. IsRel(n, rel(to, k))
  BY <1>7, <1>8, <1>9 DEF IsRel
<1>12. new \in Row(n)
  BY <1>6 DEF new
<1> QED BY <1>10, <1>11, <1>12 DEF Row, IsRel

----------------------------------------------------------------------------
\* Edges.

\* Field f of row n points at t.
IsEdge(refs, t, n, f) == n \in DOMAIN refs /\ f \in DOMAIN refs[n] /\ t \in ToSet(refs[n][f])

\* How often it does.
Count(refs, t, n, f) == Cardinality({i \in DOMAIN refs[n][f] : refs[n][f][i] = t})

\* Incoming has one entry for every edge.
LEMMA Edges ==
    ASSUME NEW refs
    PROVE  /\ \A t, n, f : <<t, n, f>> \in DOMAIN Incoming(refs) <=> IsEdge(refs, t, n, f)
           /\ \A e \in DOMAIN Incoming(refs) :
                 /\ e = <<e[1], e[2], e[3]>> /\ IsEdge(refs, e[1], e[2], e[3])
                 /\ Incoming(refs)[e] = Count(refs, e[1], e[2], e[3])
           /\ Incoming(refs) = [e \in DOMAIN Incoming(refs) |-> Count(refs, e[1], e[2], e[3])]
<1> DEFINE of(n, f) == {<<t, n, f>> : t \in ToSet(refs[n][f])}
           from(n) == UNION {of(n, f) : f \in DOMAIN refs[n]}
           edges == UNION {from(n) : n \in DOMAIN refs}
<1>1. Incoming(refs) = [e \in edges |-> Count(refs, e[1], e[2], e[3])]
  BY DEF Incoming, Count
<1>2. ASSUME NEW e \in edges PROVE e = <<e[1], e[2], e[3]>> /\ IsEdge(refs, e[1], e[2], e[3])
  <2> HIDE DEF from
  <2>1. PICK n \in DOMAIN refs : e \in from(n)
    OBVIOUS
  <2> USE DEF from
  <2> HIDE DEF of
  <2>2. PICK f \in DOMAIN refs[n] : e \in of(n, f)
    BY <2>1
  <2>3. PICK t \in ToSet(refs[n][f]) : e = <<t, n, f>>
    BY <2>2 DEF of
  <2> QED BY <2>3 DEF IsEdge
<1>3. ASSUME NEW t, NEW n, NEW f, IsEdge(refs, t, n, f) PROVE <<t, n, f>> \in edges
  <2>1. n \in DOMAIN refs /\ f \in DOMAIN refs[n] /\ <<t, n, f>> \in of(n, f)
    BY <1>3 DEF IsEdge
  <2> HIDE DEF of
  <2>2. <<t, n, f>> \in from(n)
    BY <2>1
  <2> HIDE DEF from
  <2> QED BY <2>1, <2>2
<1> HIDE DEF edges
<1>4. ASSUME NEW t, NEW n, NEW f, <<t, n, f>> \in edges PROVE IsEdge(refs, t, n, f)
  <2> DEFINE e == <<t, n, f>>
  <2>1. IsEdge(refs, e[1], e[2], e[3])
    BY <1>2, <1>4
  <2> QED BY <2>1
<1> QED BY <1>1, <1>2, <1>3, <1>4

\* Edges of typed pointers join rows, and are there at least once.
LEMMA EdgesTyped ==
    ASSUME NEW rows \in SUBSET Node, NEW ns \in SUBSET Node, NEW refs, RefsTyped(rows, ns, refs),
           NEW t, NEW n, NEW f, IsEdge(refs, t, n, f)
    PROVE  /\ n \in rows /\ f \in Forward[n] /\ t \in ns /\ n \in Node /\ f \in Field
           /\ Count(refs, t, n, f) \in Nat /\ Count(refs, t, n, f) > 0
<1>1. n \in rows /\ f \in Forward[n]
  BY DEF IsEdge, RefsTyped
<1>2. t \in ns /\ refs[n][f] \in Seq(ns)
  BY <1>1, RefsField DEF IsEdge
<1> DEFINE s == refs[n][f]
           at == {i \in DOMAIN s : s[i] = t}
<1>3. at \in SUBSET (1 .. Len(s)) /\ Len(s) \in Nat /\ at # {}
  <2>1. DOMAIN s = 1 .. Len(s) /\ Len(s) \in Nat
    BY <1>2
  <2>2. t \in ToSet(s)
    BY DEF IsEdge
  <2> HIDE DEF s
  <2> QED BY <2>1, <2>2 DEF ToSet
<1> HIDE DEF s
<1>4. IsFiniteSet(at)
  <2> HIDE DEF at
  <2>1. IsFiniteSet(1 .. Len(s))
    BY <1>3, FS_Interval
  <2> QED BY <1>3, <2>1, FS_Subset
<1>5. Cardinality(at) \in Nat /\ Cardinality(at) # 0
  <2> HIDE DEF at
  <2> QED BY <1>3, <1>4, FS_CardinalityType, FS_EmptySet
<1>6. Count(refs, t, n, f) = Cardinality(at)
  BY DEF Count, s
<1>7. Count(refs, t, n, f) \in Nat /\ Count(refs, t, n, f) > 0
  <2> HIDE DEF at
  <2> QED BY <1>5, <1>6
<1>8. f \in Field /\ n \in Node
  BY <1>1, Fields
<1> QED BY <1>1, <1>2, <1>7, <1>8

\* The edges of typed pointers are held by fields of rows.
LEMMA EdgesHeld ==
    ASSUME NEW rows \in SUBSET Node, NEW ns \in SUBSET Node, NEW refs, RefsTyped(rows, ns, refs)
    PROVE  HeldByRows(Incoming(refs))
BY Edges, EdgesTyped DEF HeldByRows

\* Edges and their counts once `new' is put over `old'.
LEMMA EdgesOver ==
    ASSUME NEW old, NEW new, NEW e
    PROVE  /\ e \in DOMAIN Incoming(new ++ old) <=>
                \/ e \in DOMAIN Incoming(new)
                \/ e \in DOMAIN Incoming(old) /\ e[2] \notin DOMAIN new
           /\ e \in DOMAIN Incoming(new) => e[2] \in DOMAIN new /\ Count(new ++ old, e[1], e[2], e[3]) = Incoming(new)[e]
           /\ e \in DOMAIN Incoming(old) =>
                /\ e[2] \in DOMAIN old
                /\ e[2] \notin DOMAIN new => Count(new ++ old, e[1], e[2], e[3]) = Incoming(old)[e]
<1>1. /\ DOMAIN (new ++ old) = DOMAIN new \cup DOMAIN old
      /\ \A n \in DOMAIN new : (new ++ old)[n] = new[n]
      /\ \A n \in DOMAIN old : n \notin DOMAIN new => (new ++ old)[n] = old[n]
  BY DEF ++
<1> DEFINE both == new ++ old
<1> HIDE DEF both
<1>2. \A t, n, f : /\ n \in DOMAIN new => (IsEdge(both, t, n, f) <=> IsEdge(new, t, n, f)) /\ Count(both, t, n, f) = Count(new, t, n, f)
                   /\ n \in DOMAIN old /\ n \notin DOMAIN new =>
                        (IsEdge(both, t, n, f) <=> IsEdge(old, t, n, f)) /\ Count(both, t, n, f) = Count(old, t, n, f)
  BY <1>1 DEF IsEdge, Count, both
<1>3. \A t, n, f : /\ IsEdge(new, t, n, f) => n \in DOMAIN new
                   /\ IsEdge(old, t, n, f) => n \in DOMAIN old
                   /\ IsEdge(both, t, n, f) => n \in DOMAIN new \/ n \in DOMAIN old
  BY <1>1 DEF IsEdge, both
<1>4. ASSUME e \in DOMAIN Incoming(new) PROVE e[2] \in DOMAIN new /\ e \in DOMAIN Incoming(both) /\ Count(both, e[1], e[2], e[3]) = Incoming(new)[e]
  <2>1. e = <<e[1], e[2], e[3]>> /\ IsEdge(new, e[1], e[2], e[3]) /\ Incoming(new)[e] = Count(new, e[1], e[2], e[3])
    BY <1>4, Edges
  <2>2. e[2] \in DOMAIN new /\ IsEdge(both, e[1], e[2], e[3]) /\ Count(both, e[1], e[2], e[3]) = Count(new, e[1], e[2], e[3])
    BY <1>2, <1>3, <2>1
  <2>3. <<e[1], e[2], e[3]>> \in DOMAIN Incoming(both)
    BY <2>2, Edges
  <2> QED BY <2>1, <2>2, <2>3
<1>5. ASSUME e \in DOMAIN Incoming(old)
      PROVE  /\ e[2] \in DOMAIN old
             /\ e[2] \notin DOMAIN new => e \in DOMAIN Incoming(both) /\ Count(both, e[1], e[2], e[3]) = Incoming(old)[e]
  <2>1. e = <<e[1], e[2], e[3]>> /\ IsEdge(old, e[1], e[2], e[3]) /\ Incoming(old)[e] = Count(old, e[1], e[2], e[3])
    BY <1>5, Edges
  <2>2. e[2] \in DOMAIN old /\ (e[2] \notin DOMAIN new => IsEdge(both, e[1], e[2], e[3]) /\ Count(both, e[1], e[2], e[3]) = Count(old, e[1], e[2], e[3]))
    BY <1>2, <1>3, <2>1
  <2>3. e[2] \notin DOMAIN new => <<e[1], e[2], e[3]>> \in DOMAIN Incoming(both)
    BY <2>2, Edges
  <2> QED BY <2>1, <2>2, <2>3
<1>6. ASSUME e \in DOMAIN Incoming(both)
      PROVE  e \in DOMAIN Incoming(new) \/ (e \in DOMAIN Incoming(old) /\ e[2] \notin DOMAIN new)
  <2>1. e = <<e[1], e[2], e[3]>> /\ IsEdge(both, e[1], e[2], e[3])
    BY <1>6, Edges
  <2>2. IsEdge(new, e[1], e[2], e[3]) \/ (e[2] \notin DOMAIN new /\ IsEdge(old, e[1], e[2], e[3]))
    BY <1>2, <1>3, <2>1
  <2>3. <<e[1], e[2], e[3]>> \in DOMAIN Incoming(new) \/ (e[2] \notin DOMAIN new /\ <<e[1], e[2], e[3]>> \in DOMAIN Incoming(old))
    BY <2>2, Edges
  <2> QED BY <2>1, <2>3
<1> QED BY <1>4, <1>5, <1>6 DEF both

\* Counts are numbers.
LEMMA CountsTyped ==
    ASSUME NEW rows \in SUBSET Node, NEW ns \in SUBSET Node, NEW refs, RefsTyped(rows, ns, refs)
    PROVE  \A e \in DOMAIN Incoming(refs) : Incoming(refs)[e] \in Nat /\ Incoming(refs)[e] > 0
<1> TAKE e \in DOMAIN Incoming(refs)
<1>1. IsEdge(refs, e[1], e[2], e[3]) /\ Incoming(refs)[e] = Count(refs, e[1], e[2], e[3])
  BY Edges
<1>2. Count(refs, e[1], e[2], e[3]) \in Nat /\ Count(refs, e[1], e[2], e[3]) > 0
  BY <1>1, EdgesTyped
<1> QED BY <1>1, <1>2

\* The edges of rows that are not replaced.
Spared(old, more) == [e \in {x \in DOMAIN Incoming(old) : x[2] \notin more} |-> Incoming(old)[e]]

\* The edges of rows that are not replaced, and those of their replacements, are
\* the edges of the rows with the replacements.
LEMMA ReplacedEdges ==
    ASSUME NEW rows \in SUBSET Node, NEW more \in SUBSET Node, NEW ns \in SUBSET Node,
           NEW old, RefsTyped(rows, ns, old), NEW new, RefsTyped(more, ns, new)
    PROVE  Spared(old, DOMAIN new) (+) Incoming(new) = Incoming(new ++ old)
<1> DEFINE kept == Spared(old, DOMAIN new)
           B == Incoming(new)
           both == Incoming(new ++ old)
           value(e) == (IF e \in DOMAIN kept THEN kept[e] ELSE 0) + (IF e \in DOMAIN B THEN B[e] ELSE 0)
           count(e) == Count(new ++ old, e[1], e[2], e[3])
<1>1. kept (+) B = [e \in DOMAIN kept \cup DOMAIN B |-> value(e)]
  BY DEF (+)
<1>2. both = [e \in DOMAIN both |-> count(e)]
  BY Edges
<1>3. \A e : e \in DOMAIN kept <=> e \in DOMAIN Incoming(old) /\ e[2] \notin DOMAIN new
  BY DEF Spared
<1>4. \A e \in DOMAIN kept : kept[e] = Incoming(old)[e]
  BY DEF Spared
<1>5. /\ \A e \in DOMAIN B : B[e] \in Nat
      /\ \A e \in DOMAIN Incoming(old) : Incoming(old)[e] \in Nat
  BY CountsTyped
<1>6. ASSUME NEW e
      PROVE  /\ e \in DOMAIN both <=> e \in DOMAIN B \/ (e \in DOMAIN Incoming(old) /\ e[2] \notin DOMAIN new)
             /\ e \in DOMAIN B => e[2] \in DOMAIN new /\ count(e) = B[e]
             /\ e \in DOMAIN Incoming(old) /\ e[2] \notin DOMAIN new => count(e) = Incoming(old)[e]
  BY EdgesOver
<1> HIDE DEF kept, both, B, count
<1>7. DOMAIN kept \cup DOMAIN B = DOMAIN both
  <2>1. \A e : e \in DOMAIN both <=> e \in DOMAIN B \/ e \in DOMAIN kept
    BY <1>3, <1>6
  <2> QED BY <2>1
<1>8. ASSUME NEW e \in DOMAIN both PROVE value(e) = count(e)
  <2>1. CASE e \in DOMAIN B
    <3>1. e[2] \in DOMAIN new /\ count(e) = B[e]
      BY <1>6, <2>1
    <3>2. e \notin DOMAIN kept
      BY <1>3, <3>1
    <3> QED BY <1>5, <2>1, <3>1, <3>2
  <2>2. CASE e \notin DOMAIN B
    <3>1. e \in DOMAIN kept
      BY <1>7, <2>2
    <3>2. count(e) = kept[e] /\ kept[e] \in Nat
      BY <1>3, <1>4, <1>5, <1>6, <3>1
    <3> QED BY <2>2, <3>1, <3>2
  <2> QED BY <2>1, <2>2
<1> HIDE DEF value
<1>9. kept (+) B = both
  BY <1>1, <1>2, <1>7, <1>8
<1> QED BY <1>9 DEF kept, B, both

\* The edges of fewer rows.
LEMMA EdgesOfFewer ==
    ASSUME NEW old, NEW some \in SUBSET DOMAIN old, NEW e
    PROVE  /\ e \in DOMAIN Incoming(Restrict(old, some)) <=> e \in DOMAIN Incoming(old) /\ e[2] \in some
           /\ e \in DOMAIN Incoming(Restrict(old, some)) =>
                /\ Incoming(Restrict(old, some))[e] = Incoming(old)[e]
                /\ Count(Restrict(old, some), e[1], e[2], e[3]) = Incoming(old)[e]
<1> DEFINE few == Restrict(old, some)
<1>1. DOMAIN few = some /\ \A n \in some : few[n] = old[n]
  BY DEF Restrict
<1> HIDE DEF few
<1>2. \A t, n, f : IsEdge(few, t, n, f) <=> IsEdge(old, t, n, f) /\ n \in some
  BY <1>1 DEF IsEdge
<1>3. \A t, n, f : n \in some => Count(few, t, n, f) = Count(old, t, n, f)
  BY <1>1 DEF Count
<1>4. ASSUME e \in DOMAIN Incoming(few)
      PROVE  /\ e \in DOMAIN Incoming(old) /\ e[2] \in some /\ Incoming(few)[e] = Incoming(old)[e]
             /\ Count(few, e[1], e[2], e[3]) = Incoming(old)[e]
  <2>1. e = <<e[1], e[2], e[3]>> /\ IsEdge(few, e[1], e[2], e[3]) /\ Incoming(few)[e] = Count(few, e[1], e[2], e[3])
    BY <1>4, Edges
  <2>2. IsEdge(old, e[1], e[2], e[3]) /\ e[2] \in some
    BY <1>2, <2>1
  <2>3. <<e[1], e[2], e[3]>> \in DOMAIN Incoming(old)
    BY <2>2, Edges
  <2>4. e \in DOMAIN Incoming(old)
    BY <2>1, <2>3
  <2>5. Incoming(old)[e] = Count(old, e[1], e[2], e[3])
    BY <2>4, Edges
  <2> QED BY <1>3, <2>1, <2>2, <2>4, <2>5
<1>5. ASSUME e \in DOMAIN Incoming(old), e[2] \in some PROVE e \in DOMAIN Incoming(few)
  <2>1. e = <<e[1], e[2], e[3]>> /\ IsEdge(old, e[1], e[2], e[3])
    BY <1>5, Edges
  <2>2. IsEdge(few, e[1], e[2], e[3])
    BY <1>2, <1>5, <2>1
  <2>3. <<e[1], e[2], e[3]>> \in DOMAIN Incoming(few)
    BY <2>2, Edges
  <2> QED BY <2>1, <2>3
<1> QED BY <1>4, <1>5 DEF few

\* Taking the edges of replaced rows out of the counters leaves the others.
LEMMA RemovedEdges ==
    ASSUME NEW rows \in SUBSET Node, NEW ns \in SUBSET Node, NEW old, RefsTyped(rows, ns, old), NEW more
    PROVE  Incoming(old) (-) Incoming(Restrict(old, more \cap rows)) = Spared(old, more)
<1> DEFINE A == Incoming(old)
           C == Incoming(Restrict(old, more \cap rows))
           B == [e \in DOMAIN A |-> IF e \in DOMAIN C THEN A[e] - C[e] ELSE A[e]]
           left == {d \in DOMAIN A : B[d] > 0}
           kept == {x \in DOMAIN A : x[2] \notin more}
<1>1. A (-) C = [e \in left |-> B[e]]
  BY DEF (-)
<1>2. \A e \in DOMAIN A : A[e] \in Nat /\ A[e] > 0 /\ e[2] \in rows
  <2>1. \A e \in DOMAIN A : A[e] \in Nat /\ A[e] > 0
    BY CountsTyped
  <2>2. \A e \in DOMAIN A : IsEdge(old, e[1], e[2], e[3])
    BY Edges
  <2>3. \A e \in DOMAIN A : e[2] \in rows
    BY <2>2 DEF IsEdge, RefsTyped
  <2> QED BY <2>1, <2>3
<1>3. ASSUME NEW e PROVE /\ e \in DOMAIN C <=> e \in DOMAIN A /\ e[2] \in more \cap rows
                         /\ e \in DOMAIN C => C[e] = A[e]
  <2>1. more \cap rows \in SUBSET DOMAIN old
    BY DEF RefsTyped
  <2> QED BY <2>1, EdgesOfFewer
<1> HIDE DEF A, C
<1>4. ASSUME NEW e \in DOMAIN A PROVE (B[e] > 0 <=> e[2] \notin more) /\ (e[2] \notin more => B[e] = A[e])
  <2>1. CASE e[2] \in more
    <3>1. B[e] = A[e] - A[e]
      BY <1>2, <1>3, <2>1
    <3> HIDE DEF B
    <3> QED BY <1>2, <2>1, <3>1
  <2>2. CASE e[2] \notin more
    <3>1. B[e] = A[e]
      BY <1>3, <2>2
    <3> HIDE DEF B
    <3> QED BY <1>2, <2>2, <3>1
  <2> QED BY <2>1, <2>2
<1> HIDE DEF B
<1>5. left = kept /\ \A e \in kept : B[e] = A[e]
  BY <1>4
<1>6. A (-) C = [e \in kept |-> A[e]]
  <2> HIDE DEF left, kept
  <2> QED BY <1>1, <1>5
<1> QED BY <1>6 DEF A, C, Spared

\* The counters a delta publishes are those of its rows.
LEMMA PublishedEdges ==
    ASSUME NEW rows \in SUBSET Node, NEW more \in SUBSET Node, NEW ns \in SUBSET Node,
           NEW old, RefsTyped(rows, ns, old), NEW new, RefsTyped(more, ns, new)
    PROVE  (Incoming(old) (-) Incoming(Restrict(old, DOMAIN new \cap rows))) (+) Incoming(new) = Incoming(new ++ old)
<1>1. Incoming(old) (-) Incoming(Restrict(old, DOMAIN new \cap rows)) = Spared(old, DOMAIN new)
  BY RemovedEdges
<1>2. Spared(old, DOMAIN new) (+) Incoming(new) = Incoming(new ++ old)
  BY ReplacedEdges
<1> QED BY <1>1, <1>2

\* Once nothing that stays points at the dead, the counters without them are
\* those of the rows that stay.
LEMMA DeadEdges ==
    ASSUME NEW rows, NEW old, DOMAIN old = rows, NEW dead, \A e \in DOMAIN Incoming(old) : e[2] \notin dead => e[1] \notin dead
    PROVE  Restrict(Incoming(old), LiveEdges(Incoming(old), dead)) = Incoming(Restrict(old, rows \ dead))
<1> DEFINE A == Incoming(old)
           C == Incoming(Restrict(old, rows \ dead))
           L == LiveEdges(A, dead)
<1>1. C = [e \in DOMAIN C |-> Count(Restrict(old, rows \ dead), e[1], e[2], e[3])]
  BY Edges
<1>2. ASSUME NEW e PROVE /\ e \in DOMAIN C <=> e \in DOMAIN A /\ e[2] \in rows \ dead
                         /\ e \in DOMAIN C => Count(Restrict(old, rows \ dead), e[1], e[2], e[3]) = A[e]
  BY EdgesOfFewer
<1>3. \A e \in DOMAIN A : e[2] \in rows
  <2>1. \A e \in DOMAIN A : IsEdge(old, e[1], e[2], e[3])
    BY Edges
  <2> QED BY <2>1 DEF IsEdge
<1>4. L = DOMAIN C
  BY <1>2, <1>3 DEF LiveEdges
<1>5. Restrict(A, L) = [e \in L |-> A[e]]
  BY DEF Restrict
<1> HIDE DEF A, C, L
<1>6. Restrict(A, L) = C
  <2> DEFINE count(e) == Count(Restrict(old, rows \ dead), e[1], e[2], e[3])
  <2>1. C = [e \in L |-> count(e)]
    BY <1>1, <1>4
  <2>2. \A e \in L : A[e] = count(e)
    BY <1>2, <1>4
  <2> HIDE DEF count
  <2> QED BY <1>5, <2>1, <2>2
<1> QED BY <1>6 DEF A, C, L

----------------------------------------------------------------------------
\* Ownership.

\* Owners are rows of the same graph.
OwnersTyped(ns, owners) == owners \in [DOMAIN owners -> ns] /\ DOMAIN owners \subseteq ns

\* What points at a child or back at an owner says who the owner is, the rows
\* in `except' aside.
AgreesBut(refs, owners, except) ==
    \A o \in DOMAIN refs : \A f \in DOMAIN refs[o] :
        /\ Spec[f].kind = "own" => \A c \in ToSet(refs[o][f]) \ except : c \in DOMAIN owners /\ owners[c] = o
        /\ Spec[f].kind = "ownedby" /\ Len(refs[o][f]) = 1 /\ o \notin except => o \in DOMAIN owners /\ owners[o] = refs[o][f][1]

Agrees(refs, owners) == AgreesBut(refs, owners, {})

\* An owner is one only because it points at the row or the row points back.
StatedBy(refs, c, o) ==
    \/ \E f : IsEdge(refs, c, o, f) /\ Spec[f].kind = "own"
    \/ \E f \in DOMAIN refs[c] : Spec[f].kind = "ownedby" /\ Len(refs[c][f]) = 1 /\ refs[c][f][1] = o

Stated(refs, owners) == \A c \in DOMAIN owners : StatedBy(refs, c, owners[c])

\* The owners that a row can have are rows.
LEMMA OwnerSetTyped ==
    ASSUME NEW ns \in SUBSET Node, NEW refs, RefsTyped(ns, ns, refs), NEW c \in ns
    PROVE  OwnerSet(Incoming(refs), refs, c) \in SUBSET ns
<1>1. ASSUME NEW e \in OwnEdges(Incoming(refs), c) PROVE e[2] \in ns
  <2>1. e \in DOMAIN Incoming(refs)
    BY DEF OwnEdges
  <2>2. IsEdge(refs, e[1], e[2], e[3])
    BY <2>1, Edges
  <2> QED BY <2>2 DEF IsEdge, RefsTyped
<1>2. ASSUME NEW o \in OwnedBy(refs, c) PROVE o \in ns
  <2>1. PICK f \in DOMAIN refs[c] : Len(refs[c][f]) = 1 /\ o = refs[c][f][1]
    BY DEF OwnedBy
  <2>2. f \in Forward[c]
    BY <2>1 DEF RefsTyped
  <2>3. refs[c][f] \in Seq(ns)
    BY <2>2, RefsField
  <2> QED BY <2>1, <2>3
<1> QED BY <1>1, <1>2 DEF OwnerSet

\* The owner of a row is the one that points at it, and the one it points back at.
OwnersAre(refs, c, set) ==
    /\ \A o, f : IsEdge(refs, c, o, f) /\ Spec[f].kind = "own" => set = {o}
    /\ \A f \in DOMAIN refs[c] : Spec[f].kind = "ownedby" /\ Len(refs[c][f]) = 1 => set = {refs[c][f][1]}

\* Without a conflict a row has no other owner.
LEMMA OneOwner ==
    ASSUME NEW ns \in SUBSET Node, NEW refs, RefsTyped(ns, ns, refs), NEW c \in ns, ~OwnerConflict(Incoming(refs), refs, c)
    PROVE  OwnersAre(refs, c, OwnerSet(Incoming(refs), refs, c))
<1> DEFINE inc == Incoming(refs)
           own == OwnEdges(inc, c)
<1>1. \A e, d \in own : e = d
  BY DEF OwnerConflict
<1>2. \A e \in own, o \in OwnedBy(refs, c) : e[2] = o
  BY DEF OwnerConflict
<1>3. OwnerSet(inc, refs, c) = IF own # {} THEN {e[2] : e \in own} ELSE OwnedBy(refs, c)
  BY DEF OwnerSet
<1>4. ASSUME NEW o, NEW f, IsEdge(refs, c, o, f), Spec[f].kind = "own" PROVE OwnerSet(inc, refs, c) = {o}
  <2> DEFINE e == <<c, o, f>>
  <2>1. e \in DOMAIN inc
    BY <1>4, Edges
  <2>2. e[1] = c /\ e[2] = o /\ e[3] = f
    OBVIOUS
  <2> HIDE DEF e, inc
  <2>3. e \in own
    BY <1>4, <2>1, <2>2 DEF OwnEdges
  <2> HIDE DEF own
  <2>4. own = {e}
    BY <1>1, <2>3
  <2> QED BY <1>3, <2>2, <2>4
<1>5. ASSUME NEW f \in DOMAIN refs[c], Spec[f].kind = "ownedby", Len(refs[c][f]) = 1
      PROVE  OwnerSet(inc, refs, c) = {refs[c][f][1]}
  <2> DEFINE o == refs[c][f][1]
  <2>1. o \in OwnedBy(refs, c)
    BY <1>5 DEF OwnedBy
  <2>2. ASSUME NEW p \in OwnedBy(refs, c) PROVE p = o
    <3>1. PICK g \in DOMAIN refs[c] : Spec[g].kind = "ownedby" /\ p = refs[c][g][1]
      BY DEF OwnedBy
    <3>2. f \in Forward[c] /\ g \in Forward[c] /\ c \in Node
      BY <3>1 DEF RefsTyped
    <3>3. f \in Field /\ g \in Field /\ Spec[f].owner = TypeOf[c] /\ Spec[g].owner = TypeOf[c]
      BY <3>2, Fields
    <3>4. f = g
      BY <1>5, <3>1, <3>3, SchemaIsValid
    <3> QED BY <3>1, <3>4
  <2> HIDE DEF o, own, inc
  <2>3. CASE own = {}
    BY <1>3, <2>1, <2>2, <2>3 DEF o
  <2>4. CASE own # {}
    <3>1. \A e \in own : e[2] = o
      BY <1>2, <2>1
    <3> QED BY <1>3, <2>4, <3>1 DEF o
  <2> QED BY <2>3, <2>4
<1> QED BY <1>4, <1>5 DEF inc, OwnersAre

\* Owners derived for the affected rows and kept for the others agree with the
\* pointers, when no affected row has two owners.
LEMMA OwnersAgree ==
    ASSUME NEW ns \in SUBSET Node, NEW refs, RefsTyped(ns, ns, refs), NEW affected \in SUBSET ns,
           \A c \in affected : ~OwnerConflict(Incoming(refs), refs, c),
           NEW kept, OwnersTyped(ns, kept), DOMAIN kept \cap affected = {}, AgreesBut(refs, kept, affected)
    PROVE  LET owners == OwnersOf(Incoming(refs), refs, affected) ++ kept
           IN  OwnersTyped(ns, owners) /\ Agrees(refs, owners)
<1> DEFINE derived == OwnersOf(Incoming(refs), refs, affected)
           owners == derived ++ kept
           set(c) == OwnerSet(Incoming(refs), refs, c)
           has == {n \in affected : set(n) # {}}
<1>1. derived = [c \in has |-> CHOOSE o \in set(c) : TRUE]
  BY DEF OwnersOf
<1>2. DOMAIN derived = has /\ \A c \in has : derived[c] \in set(c)
  <2> HIDE DEF set
  <2> QED BY <1>1
<1>3. \A c \in affected : set(c) \in SUBSET ns /\ OwnersAre(refs, c, set(c))
  BY OwnerSetTyped, OneOwner
<1>4. has \in SUBSET affected /\ \A c \in affected : c \in has <=> set(c) # {}
  OBVIOUS
<1> HIDE DEF derived, has, set
<1>5. /\ owners = [c \in has \cup DOMAIN kept |-> IF c \in has THEN derived[c] ELSE kept[c]]
  BY <1>2 DEF ++
<1>6. OwnersTyped(ns, owners)
  <2>1. \A c \in has : derived[c] \in ns
    BY <1>2, <1>3, <1>4
  <2>2. \A c \in DOMAIN kept : kept[c] \in ns
    BY DEF OwnersTyped
  <2> QED BY <1>4, <1>5, <2>1, <2>2 DEF OwnersTyped
<1> HIDE DEF owners
<1>7. /\ DOMAIN owners = has \cup DOMAIN kept /\ \A c \in has : owners[c] = derived[c]
      /\ \A c \in DOMAIN kept : owners[c] = kept[c]
  BY <1>4, <1>5
<1>8. ASSUME NEW o \in DOMAIN refs, NEW f \in DOMAIN refs[o], Spec[f].kind = "own", NEW c \in ToSet(refs[o][f])
      PROVE  c \in DOMAIN owners /\ owners[c] = o
  <2>1. CASE c \notin affected
    BY <1>7, <1>8, <2>1 DEF AgreesBut
  <2>2. CASE c \in affected
    <3>1. IsEdge(refs, c, o, f)
      BY <1>8 DEF IsEdge
    <3>2. set(c) = {o}
      BY <1>3, <1>8, <2>2, <3>1 DEF OwnersAre
    <3> QED BY <1>2, <1>4, <1>7, <2>2, <3>2
  <2> QED BY <2>1, <2>2
<1>9. ASSUME NEW o \in DOMAIN refs, NEW f \in DOMAIN refs[o], Spec[f].kind = "ownedby", Len(refs[o][f]) = 1
      PROVE  o \in DOMAIN owners /\ owners[o] = refs[o][f][1]
  <2>1. CASE o \notin affected
    BY <1>7, <1>9, <2>1 DEF AgreesBut
  <2>2. CASE o \in affected
    <3>1. set(o) = {refs[o][f][1]}
      BY <1>3, <1>9, <2>2 DEF OwnersAre
    <3> QED BY <1>2, <1>4, <1>7, <2>2, <3>1
  <2> QED BY <2>1, <2>2
<1>10. Agrees(refs, owners)
  BY <1>8, <1>9 DEF Agrees, AgreesBut
<1> QED BY <1>6, <1>10 DEF owners, derived

\* Every owner that a row can have is stated by a pointer, and the other way.
LEMMA OwnerIsStated ==
    ASSUME NEW refs, NEW c, NEW o \in OwnerSet(Incoming(refs), refs, c)
    PROVE  StatedBy(refs, c, o)
<1>1. CASE o \in OwnedBy(refs, c)
  BY <1>1 DEF OwnedBy, StatedBy
<1>2. CASE o \in {e[2] : e \in OwnEdges(Incoming(refs), c)}
  <2>1. PICK e \in DOMAIN Incoming(refs) : e[1] = c /\ Spec[e[3]].kind = "own" /\ o = e[2]
    BY <1>2 DEF OwnEdges
  <2>2. IsEdge(refs, e[1], e[2], e[3])
    BY <2>1, Edges
  <2> QED BY <2>1, <2>2 DEF StatedBy
<1> QED BY <1>1, <1>2 DEF OwnerSet

\* And a pointer that states an owner gives the row one.
LEMMA StatedIsOwner ==
    ASSUME NEW refs, NEW c, NEW o, StatedBy(refs, c, o)
    PROVE  OwnerSet(Incoming(refs), refs, c) # {}
<1>1. CASE \E f : IsEdge(refs, c, o, f) /\ Spec[f].kind = "own"
  <2>1. PICK f : IsEdge(refs, c, o, f) /\ Spec[f].kind = "own"
    BY <1>1
  <2> DEFINE e == <<c, o, f>>
  <2>2. e \in DOMAIN Incoming(refs) /\ e[1] = c /\ e[3] = f
    BY <2>1, Edges
  <2> HIDE DEF e
  <2>3. e \in OwnEdges(Incoming(refs), c)
    BY <2>1, <2>2 DEF OwnEdges
  <2> QED BY <2>3 DEF OwnerSet
<1>2. CASE \E f \in DOMAIN refs[c] : Spec[f].kind = "ownedby" /\ Len(refs[c][f]) = 1 /\ refs[c][f][1] = o
  <2>1. o \in OwnedBy(refs, c)
    BY <1>2 DEF OwnedBy
  <2> QED BY <2>1 DEF OwnerSet
<1> QED BY <1>1, <1>2 DEF StatedBy

\* Owners that are derived are stated by a pointer.
LEMMA OwnersStated ==
    ASSUME NEW refs, NEW affected, NEW kept, Stated(refs, kept)
    PROVE  Stated(refs, OwnersOf(Incoming(refs), refs, affected) ++ kept)
<1> DEFINE derived == OwnersOf(Incoming(refs), refs, affected)
           set(c) == OwnerSet(Incoming(refs), refs, c)
           has == {n \in affected : set(n) # {}}
<1>1. derived = [c \in has |-> CHOOSE o \in set(c) : TRUE]
  BY DEF OwnersOf
<1>2. DOMAIN derived = has /\ \A c \in has : derived[c] \in set(c)
  <2> HIDE DEF set
  <2> QED BY <1>1
<1>3. ASSUME NEW c, NEW o \in set(c) PROVE StatedBy(refs, c, o)
  BY OwnerIsStated
<1> HIDE DEF derived, has, set
<1>4. /\ DOMAIN (derived ++ kept) = has \cup DOMAIN kept
      /\ \A c \in has : (derived ++ kept)[c] = derived[c]
      /\ \A c \in DOMAIN kept : c \notin has => (derived ++ kept)[c] = kept[c]
  BY <1>2 DEF ++
<1>5. ASSUME NEW c \in has \cup DOMAIN kept PROVE StatedBy(refs, c, (derived ++ kept)[c])
  <2>1. CASE c \in has
    BY <1>2, <1>3, <1>4, <2>1
  <2>2. CASE c \notin has
    BY <1>4, <2>2 DEF Stated
  <2> QED BY <2>1, <2>2
<1> QED BY <1>4, <1>5 DEF Stated, derived

----------------------------------------------------------------------------
\* Models.

\* Required relations that lead nowhere are reported.
Reports(m) == \A n \in m.nodes : \A f \in Forward[n] : ~MayBeMissing(f) /\ m.refs[n][f] = <<>> => <<n, f>> \in m.missing

\* Every row has what it must have.
Complete(ns, refs) == \A n \in ns : \A f \in Forward[n] : ~MayBeMissing(f) => refs[n][f] # <<>>

\* A forest of rows that agrees with the pointers.
Forest(ns, refs, owners) == OwnersTyped(ns, owners) /\ Agrees(refs, owners) /\ Stated(refs, owners) /\ ~Cyclic(owners)

\* The owners of such a forest are those its pointers give.
LEMMA ForestIsDerived ==
    ASSUME NEW ns \in SUBSET Node, NEW refs, RefsTyped(ns, ns, refs), NEW owners, Forest(ns, refs, owners)
    PROVE  owners = OwnersOf(Incoming(refs), refs, ns)
<1> DEFINE set(c) == OwnerSet(Incoming(refs), refs, c)
           has == {n \in ns : set(n) # {}}
<1>1. ASSUME NEW c \in ns, NEW o \in set(c) PROVE c \in DOMAIN owners /\ owners[c] = o
  <2>1. StatedBy(refs, c, o)
    BY OwnerIsStated
  <2>2. CASE \E f : IsEdge(refs, c, o, f) /\ Spec[f].kind = "own"
    BY <2>2 DEF Forest, Agrees, AgreesBut, IsEdge
  <2>3. CASE \E f \in DOMAIN refs[c] : Spec[f].kind = "ownedby" /\ Len(refs[c][f]) = 1 /\ refs[c][f][1] = o
    <3>1. c \in DOMAIN refs
      BY DEF RefsTyped
    <3> QED BY <2>3, <3>1 DEF Forest, Agrees, AgreesBut
  <2> QED BY <2>1, <2>2, <2>3 DEF StatedBy
<1>2. ASSUME NEW c \in DOMAIN owners PROVE c \in ns /\ set(c) # {}
  <2>1. c \in ns
    BY DEF Forest, OwnersTyped
  <2>2. StatedBy(refs, c, owners[c])
    BY DEF Forest, Stated
  <2> QED BY <2>1, <2>2, StatedIsOwner
<1>3. OwnersOf(Incoming(refs), refs, ns) = [c \in has |-> CHOOSE o \in set(c) : TRUE]
  BY DEF OwnersOf
<1>4. owners = [c \in DOMAIN owners |-> owners[c]]
  BY DEF Forest, OwnersTyped
<1> HIDE DEF set
<1>5. DOMAIN owners = has
  BY <1>1, <1>2
<1>6. ASSUME NEW c \in has PROVE owners[c] = CHOOSE o \in set(c) : TRUE
  BY <1>1
<1> QED BY <1>3, <1>4, <1>5, <1>6

\* A relation model of the rows ns.
IsModel(m, ns) ==
    /\ ns \in SUBSET Node /\ m.nodes = ns /\ RefsTyped(ns, ns, m.refs) /\ Led(m.entries, ns)
    /\ Reports(m) /\ \A u \in m.unresolved : u[1] \in ns
    /\ m.ok => Forest(ns, m.refs, m.owners)

\* Unresolved pointers are those of the rows that were scanned.
LEMMA UnresolvedRows ==
    ASSUME NEW g, NEW entries, NEW mem, NEW ns, NEW u \in UnresolvedIn(g, entries, mem, ns)
    PROVE  u[1] \in ns
<1> DEFINE of(n, f) == {<<n, f, PointerValue(mem, f, t)>> : t \in
                            {p \in ToSet(g[n].rel[f]) : PointerValue(mem, f, p) # NoKey /\ Targets(entries, mem, f, p) = {}}}
           from(n) == UNION {of(n, f) : f \in Forward[n]}
<1>1. UnresolvedIn(g, entries, mem, ns) = UNION {from(n) : n \in ns}
  BY DEF UnresolvedIn
<1> HIDE DEF from
<1>2. PICK n \in ns : u \in from(n)
  BY <1>1
<1> USE DEF from
<1> HIDE DEF of
<1>3. PICK f \in Forward[n] : u \in of(n, f)
  BY <1>2
<1>4. \E t : u = <<n, f, PointerValue(mem, f, t)>>
  BY <1>3 DEF of
<1> QED BY <1>4

\* Missing relations of the rows that were scanned are reported.
LEMMA MissingRows ==
    ASSUME NEW refs, NEW ns, NEW n \in ns, NEW f \in Forward[n], ~MayBeMissing(f), refs[n][f] = <<>>
    PROVE  <<n, f>> \in MissingIn(refs, ns)
<1> DEFINE of(k) == {<<k, x>> : x \in {y \in Forward[k] : ~MayBeMissing(y) /\ refs[k][y] = <<>>}}
<1>1. <<n, f>> \in of(n)
  OBVIOUS
<1>2. MissingIn(refs, ns) = UNION {of(k) : k \in ns}
  BY DEF MissingIn
<1> HIDE DEF of
<1> QED BY <1>1, <1>2

\* A model linked from typed pointers.
LEMMA LinkedModel ==
    ASSUME NEW ns \in SUBSET Node, NEW entries, Led(entries, ns), NEW tf, NEW refs, RefsTyped(ns, ns, refs),
           NEW affected \in SUBSET ns, NEW kept, OwnersTyped(ns, kept), DOMAIN kept \cap affected = {},
           AgreesBut(refs, kept, affected), Stated(refs, kept), NEW scanned, \A u \in scanned.unresolved : u[1] \in ns,
           Complete(ns \ scanned.rows, refs)
    PROVE  IsModel(Linked(ns, entries, tf, refs, affected, kept, scanned), ns)
<1> DEFINE m == Linked(ns, entries, tf, refs, affected, kept, scanned)
           owners == OwnersOf(Incoming(refs), refs, affected) ++ kept
<1>1. /\ m.nodes = ns /\ m.entries = entries /\ m.refs = refs /\ m.owners = owners
      /\ m.missing = MissingIn(refs, scanned.rows) /\ m.unresolved = scanned.unresolved
      /\ m.ok = (~scanned.fails /\ ~(\E c \in affected : OwnerConflict(Incoming(refs), refs, c)) /\ ~Cyclic(owners))
  BY DEF Linked, ModelFrom
<1>2. ASSUME m.ok PROVE Forest(ns, refs, owners)
  <2>1. ~Cyclic(owners) /\ \A c \in affected : ~OwnerConflict(Incoming(refs), refs, c)
    BY <1>1, <1>2
  <2>2. OwnersTyped(ns, owners) /\ Agrees(refs, owners)
    BY <2>1, OwnersAgree
  <2>3. Stated(refs, owners)
    BY OwnersStated
  <2> QED BY <2>1, <2>2, <2>3 DEF Forest
<1> HIDE DEF m, owners
<1>3. Reports(m)
  <2> SUFFICES ASSUME NEW n \in ns, NEW f \in Forward[n], ~MayBeMissing(f), refs[n][f] = <<>>
               PROVE  <<n, f>> \in MissingIn(refs, scanned.rows)
    BY <1>1 DEF Reports
  <2>1. n \in scanned.rows
    BY DEF Complete
  <2> QED BY <2>1, MissingRows
<1> QED BY <1>1, <1>2, <1>3 DEF IsModel, m

\* The model of all rows.
LEMMA BuildModelSound ==
    ASSUME NEW g, IsGraph(g), NEW ns, ns = DOMAIN g, NEW entries, Led(entries, ns), NEW tf, NEW mem
    PROVE  IsModel(BuildModel(g, ns, entries, tf, mem), ns)
<1> DEFINE refs == ScanAll(g, entries, mem, ns)
           scanned == [rows |-> ns, unresolved |-> UnresolvedIn(g, entries, mem, ns), fails |-> ScanError(g, entries, mem, ns)]
<1>1. ns \in SUBSET Node
  BY DEF IsGraph
<1>2. RefsTyped(ns, ns, refs)
  BY <1>1, ScanTyped
<1>3. scanned.rows = ns /\ \A u \in scanned.unresolved : u[1] \in ns
  BY UnresolvedRows
<1>4. BuildModel(g, ns, entries, tf, mem) = Linked(ns, entries, tf, refs, ns, <<>>, scanned)
  BY DEF BuildModel
<1> HIDE DEF refs, scanned
<1>5. DOMAIN <<>> = {} /\ OwnersTyped(ns, <<>>)
  BY DEF OwnersTyped
<1>6. AgreesBut(refs, <<>>, ns)
  <2>1. \A o \in DOMAIN refs : o \in ns /\ DOMAIN refs[o] = Forward[o]
    BY <1>2 DEF RefsTyped
  <2>2. ASSUME NEW o \in DOMAIN refs, NEW f \in DOMAIN refs[o] PROVE ToSet(refs[o][f]) \subseteq ns
    <3>1. o \in ns /\ f \in Forward[o]
      BY <2>1
    <3>2. ToSet(refs[o][f]) \in SUBSET ns
      BY <1>1, <1>2, <3>1, RefsField
    <3> QED BY <3>2
  <2> QED BY <2>1, <2>2 DEF AgreesBut
<1>7. Complete(ns \ scanned.rows, refs)
  BY <1>3 DEF Complete
<1>8. DOMAIN <<>> \cap ns = {} /\ Stated(refs, <<>>)
  BY <1>5 DEF Stated
<1> QED BY <1>1, <1>2, <1>3, <1>4, <1>5, <1>6, <1>7, <1>8, LinkedModel

\* The rows whose owner the pointers of a row decide.
LEMMA OwnershipRows ==
    ASSUME NEW rows \in SUBSET Node, NEW ns \in SUBSET Node, rows \subseteq ns, NEW refs, RefsTyped(rows, ns, refs), NEW n \in rows
    PROVE  /\ OwnershipTargets(refs, n) \in SUBSET ns
           /\ \A f \in Forward[n] : Spec[f].kind = "own" => ToSet(refs[n][f]) \subseteq OwnershipTargets(refs, n)
           /\ \A f \in Forward[n] : Spec[f].kind = "ownedby" /\ refs[n][f] # <<>> => n \in OwnershipTargets(refs, n)
<1> DEFINE of(f) == IF Spec[f].kind = "own" THEN ToSet(refs[n][f])
                    ELSE IF Spec[f].kind = "ownedby" /\ refs[n][f] # <<>> THEN {n} ELSE {}
<1>1. OwnershipTargets(refs, n) = UNION {of(f) : f \in Forward[n]}
  BY DEF OwnershipTargets
<1>2. ASSUME NEW f \in Forward[n] PROVE of(f) \in SUBSET ns
  <2>1. ToSet(refs[n][f]) \in SUBSET ns
    BY RefsField
  <2> QED BY <2>1
<1>3. \A f \in Forward[n] : Spec[f].kind = "own" => of(f) = ToSet(refs[n][f])
  OBVIOUS
<1>4. \A f \in Forward[n] : Spec[f].kind = "ownedby" /\ refs[n][f] # <<>> => n \in of(f)
  OBVIOUS
<1> HIDE DEF of
<1>5. \A f \in Forward[n] : of(f) \subseteq OwnershipTargets(refs, n)
  BY <1>1
<1> QED BY <1>1, <1>2, <1>3, <1>4, <1>5

\* The model of rows read again over a committed model.
LEMMA RescanSound ==
    ASSUME NEW committed, NEW old, IsModel(committed, old), committed.ok, Complete(old, committed.refs),
           NEW g, IsGraph(g), NEW ns, ns = DOMAIN g, NEW rows, ns = old \cup rows,
           NEW entries, Led(entries, ns), NEW mem
    PROVE  IsModel(Rescan(committed, g, ns, entries, mem, rows), ns)
<1> DEFINE read == ScanAll(g, entries, mem, rows)
           stay == Restrict(committed.refs, committed.nodes \ rows)
           refs == read ++ stay
           scanned == [rows |-> rows, fails |-> ScanError(g, entries, mem, rows),
                       unresolved |-> {u \in committed.unresolved : u[1] \notin rows} \cup UnresolvedIn(g, entries, mem, rows)]
           affected == RescannedTargets(committed, refs, rows)
           kept == [c \in DOMAIN committed.owners \ affected |-> committed.owners[c]]
<1>1. /\ ns \in SUBSET Node /\ old \in SUBSET Node /\ rows \in SUBSET Node /\ committed.nodes = old
      /\ RefsTyped(old, old, committed.refs) /\ Forest(old, committed.refs, committed.owners)
      /\ old \subseteq ns /\ rows \in SUBSET DOMAIN g /\ \A u \in committed.unresolved : u[1] \in old
  BY DEF IsGraph, IsModel
<1>2. RefsTyped(rows, ns, read)
  BY <1>1, ScanTyped
<1>3. RefsTyped(old, ns, committed.refs)
  BY <1>1, RefsWider
<1>4. RefsTyped(old \ rows, ns, stay) /\ \A n \in old \ rows : stay[n] = committed.refs[n]
  BY <1>1, <1>3, RefsOfFewer DEF Restrict
<1>5. RefsTyped(ns, ns, refs)
  <2>1. RefsTyped(rows \cup (old \ rows), ns, refs)
    BY <1>2, <1>4, RefsOver
  <2>2. rows \cup (old \ rows) = ns
    OBVIOUS
  <2> HIDE DEF refs
  <2> QED BY <2>1, <2>2
<1>6. \A n \in old \ rows : refs[n] = committed.refs[n]
  BY <1>2, <1>4 DEF ++, RefsTyped
<1>7. scanned.rows = rows /\ \A u \in scanned.unresolved : u[1] \in ns
  <2>1. \A u \in UnresolvedIn(g, entries, mem, rows) : u[1] \in rows
    BY UnresolvedRows
  <2> QED BY <1>1, <2>1
<1>8. Rescan(committed, g, ns, entries, mem, rows) = Linked(ns, entries, committed.tf, refs, affected, kept, scanned)
  BY DEF Rescan, Rescanned, DeltaLinked
<1> HIDE DEF read, stay, refs, scanned
<1>9. /\ \A n \in rows \cap old : OwnershipTargets(committed.refs, n) \in SUBSET ns /\ OwnershipTargets(committed.refs, n) \subseteq affected
      /\ \A n \in rows : OwnershipTargets(refs, n) \in SUBSET ns /\ OwnershipTargets(refs, n) \subseteq affected
  <2>1. ASSUME NEW n \in old PROVE OwnershipTargets(committed.refs, n) \in SUBSET ns
    <3> DEFINE before == committed.refs
    <3>1. RefsTyped(old, ns, before)
      BY <1>3
    <3> HIDE DEF before
    <3>2. OwnershipTargets(before, n) \in SUBSET ns
      BY <1>1, <3>1, OwnershipRows
    <3> QED BY <3>2 DEF before
  <2>2. \A n \in ns : OwnershipTargets(refs, n) \in SUBSET ns
    BY <1>1, <1>5, OwnershipRows
  <2>3. \A n \in rows : OwnershipTargets(refs, n) \subseteq affected
    BY DEF RescannedTargets
  <2>4. \A n \in rows \cap old : OwnershipTargets(committed.refs, n) \subseteq affected
    BY <1>1 DEF RescannedTargets
  <2> QED BY <2>1, <2>2, <2>3, <2>4
<1>10. affected \in SUBSET ns
  BY <1>1, <1>9 DEF RescannedTargets
<1> HIDE DEF affected
<1>11. OwnersTyped(ns, kept) /\ DOMAIN kept \cap affected = {}
  BY <1>1 DEF Forest, OwnersTyped
<1>12. AgreesBut(refs, kept, affected)
  <2>1. DOMAIN refs = ns /\ \A o \in ns : DOMAIN refs[o] = Forward[o]
    BY <1>5 DEF RefsTyped
  <2>2. ASSUME NEW o \in ns, NEW f \in Forward[o]
        PROVE  /\ Spec[f].kind = "own" => \A c \in ToSet(refs[o][f]) \ affected : c \in DOMAIN kept /\ kept[c] = o
               /\ Spec[f].kind = "ownedby" /\ Len(refs[o][f]) = 1 /\ o \notin affected => o \in DOMAIN kept /\ kept[o] = refs[o][f][1]
    <3>1. CASE o \in rows
      <4>1. OwnershipTargets(refs, o) \subseteq affected
        BY <1>9, <3>1
      <4>2. /\ Spec[f].kind = "own" => ToSet(refs[o][f]) \subseteq OwnershipTargets(refs, o)
            /\ Spec[f].kind = "ownedby" /\ refs[o][f] # <<>> => o \in OwnershipTargets(refs, o)
        BY <1>1, <1>5, OwnershipRows
      <4>3. /\ Spec[f].kind = "own" => ToSet(refs[o][f]) \subseteq affected
            /\ Spec[f].kind = "ownedby" /\ refs[o][f] # <<>> => o \in affected
        BY <4>1, <4>2
      <4>4. Len(refs[o][f]) = 1 => refs[o][f] # <<>>
        OBVIOUS
      <4> QED BY <4>2, <4>3, <4>4
    <3>2. CASE o \notin rows
      <4>1. o \in old \ rows /\ refs[o] = committed.refs[o] /\ o \in DOMAIN committed.refs /\ f \in DOMAIN committed.refs[o]
        BY <1>1, <1>6, <3>2 DEF RefsTyped
      <4>2. /\ Spec[f].kind = "own" => \A c \in ToSet(refs[o][f]) : c \in DOMAIN committed.owners /\ committed.owners[c] = o
            /\ Spec[f].kind = "ownedby" /\ Len(refs[o][f]) = 1 => o \in DOMAIN committed.owners /\ committed.owners[o] = refs[o][f][1]
        BY <1>1, <4>1 DEF Forest, Agrees, AgreesBut
      <4> QED BY <4>2
    <3> QED BY <3>1, <3>2
  <2> QED BY ONLY <2>1, <2>2 DEF AgreesBut
<1>13. Complete(ns \ scanned.rows, refs)
  BY <1>6, <1>7 DEF Complete
<1>14. Stated(refs, kept)
  <2> SUFFICES ASSUME NEW c \in DOMAIN committed.owners, c \notin affected PROVE StatedBy(refs, c, committed.owners[c])
    BY DEF Stated
  <2> DEFINE o == committed.owners[c]
             before == committed.refs
  <2>1. StatedBy(before, c, o) /\ RefsTyped(old, ns, before) /\ c \in old
    BY <1>1, <1>3 DEF Forest, Stated, OwnersTyped
  <2>2. /\ \A n \in rows \cap old : OwnershipTargets(before, n) \subseteq affected
        /\ \A n \in old \ rows : refs[n] = before[n]
        /\ DOMAIN refs = ns
    BY <1>5, <1>6, <1>9 DEF RefsTyped
  <2> HIDE DEF o, before
  <2>3. CASE \E f : IsEdge(before, c, o, f) /\ Spec[f].kind = "own"
    <3>1. PICK f : IsEdge(before, c, o, f) /\ Spec[f].kind = "own"
      BY <2>3
    <3>2. o \in old /\ f \in Forward[o] /\ c \in ToSet(before[o][f])
      BY <2>1, <3>1 DEF IsEdge, RefsTyped
    <3>3. o \notin rows
      <4>1. ToSet(before[o][f]) \subseteq OwnershipTargets(before, o)
        BY <1>1, <2>1, <3>1, <3>2, OwnershipRows
      <4> QED BY <2>2, <3>2, <4>1
    <3>4. IsEdge(refs, c, o, f)
      BY <1>1, <2>2, <3>1, <3>2, <3>3 DEF IsEdge
    <3> QED BY <3>1, <3>4 DEF StatedBy, o
  <2>4. CASE \E f \in DOMAIN before[c] : Spec[f].kind = "ownedby" /\ Len(before[c][f]) = 1 /\ before[c][f][1] = o
    <3>1. PICK f \in DOMAIN before[c] : Spec[f].kind = "ownedby" /\ Len(before[c][f]) = 1 /\ before[c][f][1] = o
      BY <2>4
    <3>2. f \in Forward[c] /\ before[c][f] # <<>>
      BY <2>1, <3>1 DEF RefsTyped
    <3>3. c \notin rows
      <4>1. c \in OwnershipTargets(before, c)
        BY <1>1, <2>1, <3>1, <3>2, OwnershipRows
      <4> QED BY <2>1, <2>2, <4>1
    <3>4. refs[c] = before[c]
      BY <2>1, <2>2, <3>3
    <3> QED BY <3>1, <3>4 DEF StatedBy, o
  <2> QED BY <2>1, <2>3, <2>4 DEF StatedBy
<1> HIDE DEF kept
<1> QED BY <1>1, <1>5, <1>7, <1>8, <1>10, <1>11, <1>12, <1>13, <1>14, LinkedModel

----------------------------------------------------------------------------
\* Deletes.

\* The cascade stays within the graph and takes with a row all of its children.
LEMMA DoomedRows ==
    ASSUME NEW m, NEW committed, NEW explicit
    PROVE  /\ Doomed(m, committed, explicit) \in SUBSET m.nodes
           /\ explicit \subseteq m.nodes => explicit \subseteq Doomed(m, committed, explicit)
           /\ \A o \in Doomed(m, committed, explicit) :
                 DeletionChildren(m, committed, o) \cap m.nodes \subseteq Doomed(m, committed, explicit)
<1> DEFINE ns == m.nodes
           kids(o) == DeletionChildren(m, committed, o)
           dead == {n \in ns : \A s \in SUBSET ns : (explicit \subseteq s /\ \A o \in s : kids(o) \subseteq s) => n \in s}
<1>1. Doomed(m, committed, explicit) = dead
  BY DEF Doomed, Closure
<1> HIDE DEF kids, ns
<1>2. \A o \in dead : kids(o) \cap ns \subseteq dead
  OBVIOUS
<1>3. dead \in SUBSET ns /\ (explicit \subseteq ns => explicit \subseteq dead)
  OBVIOUS
<1> QED BY <1>1, <1>2, <1>3 DEF kids, ns

\* The children of a row in the proposed model, and the committed ones that it
\* gives no other owner.
LEMMA DeletionChildrenAre ==
    ASSUME NEW m, NEW committed, NEW o, NEW c
    PROVE  c \in DeletionChildren(m, committed, o) <=>
                \/ c \in DOMAIN m.owners /\ m.owners[c] = o
                \/ c \in m.nodes /\ c \in committed[o] /\ c \notin DOMAIN m.owners
BY DEF DeletionChildren, ChildrenOf

\* A committed index of the rows ns.
IsIndex(ix, ns) ==
    /\ ix = [nodes |-> ix.nodes, tf |-> ix.tf, entries |-> ix.entries, backs |-> ix.backs, refs |-> ix.refs,
             inc |-> ix.inc, owners |-> ix.owners, out |-> ix.out]
    /\ ns \in SUBSET Node /\ ix.nodes = ns /\ RefsTyped(ns, ns, ix.refs) /\ Led(ix.entries, ns)
    /\ Forest(ns, ix.refs, ix.owners) /\ Complete(ns, ix.refs)
    /\ ix.inc = Incoming(ix.refs) /\ ix.backs \subseteq Field
    /\ ix.out = [o \in Node |-> ChildrenOf(ix.owners, o)]

\* Part of a forest is a forest.
LEMMA FewerOwners ==
    ASSUME NEW owners, NEW fewer, DOMAIN fewer \subseteq DOMAIN owners, \A c \in DOMAIN fewer : fewer[c] = owners[c], ~Cyclic(owners)
    PROVE  ~Cyclic(fewer)
BY DEF Cyclic

\* What a settled model leaves in the index.
LEMMA BuildIndexSound ==
    ASSUME NEW m, NEW ns, IsModel(m, ns), NEW committed, NEW explicit, NEW dead, dead = Doomed(m, committed, explicit),
           Accepted(m, explicit, dead)
    PROVE  IsIndex(BuildIndex(m, dead), ns \ dead)
<1> DEFINE left == ns \ dead
           refs == [n \in left |-> [f \in Forward[n] |-> Without(m.refs[n][f], dead)]]
           owners == [c \in {x \in DOMAIN m.owners : x \notin dead /\ m.owners[x] \notin dead} |-> m.owners[c]]
           ix == BuildIndex(m, dead)
<1>1. /\ ns \in SUBSET Node /\ m.nodes = ns /\ RefsTyped(ns, ns, m.refs) /\ Led(m.entries, ns) /\ Reports(m)
      /\ OwnersTyped(ns, m.owners) /\ Agrees(m.refs, m.owners) /\ Stated(m.refs, m.owners) /\ ~Cyclic(m.owners)
      /\ ~Restricted(m, dead) /\ \A x \in m.missing : x[1] \in dead
  BY DEF IsModel, Accepted, Forest
<1>2. /\ ix.nodes = left /\ ix.entries = {e \in m.entries : e[3] \notin dead} /\ ix.refs = refs /\ ix.inc = Incoming(refs)
      /\ ix.owners = owners /\ ix.out = [o \in Node |-> ChildrenOf(owners, o)] /\ ix.backs \subseteq Field
      /\ ix = [nodes |-> ix.nodes, tf |-> ix.tf, entries |-> ix.entries, backs |-> ix.backs, refs |-> ix.refs,
               inc |-> ix.inc, owners |-> ix.owners, out |-> ix.out]
  BY <1>1 DEF BuildIndex
<1> HIDE DEF ix
<1>3. Led(ix.entries, left)
  BY <1>1, <1>2 DEF Led
<1>4. ASSUME NEW n \in left, NEW f \in Forward[n]
      PROVE  /\ refs[n][f] \in Seq(left) /\ Fits(f, refs[n][f]) /\ ToSet(refs[n][f]) = ToSet(m.refs[n][f]) \ dead
             /\ Len(refs[n][f]) <= Len(m.refs[n][f])
  <2> DEFINE s == m.refs[n][f]
             w == Without(s, dead)
  <2>1. s \in Seq(Node) /\ s \in Seq(ns) /\ Fits(f, s)
    <3>1. s \in Seq(ns) /\ Fits(f, s)
      BY <1>1 DEF RefsTyped
    <3> HIDE DEF s
    <3> QED BY <1>1, <3>1
  <2>2. w \in Seq(ns) /\ w \in Seq(Node) /\ Len(w) <= Len(s) /\ ToSet(w) = ToSet(s) \ dead
    BY <2>1, Remaining
  <2>3. refs[n][f] = w
    OBVIOUS
  <2> HIDE DEF refs, w, s
  <2>4. w \in Seq(left)
    <3>1. ToSet(w) = {w[i] : i \in 1 .. Len(w)} /\ ToSet(w) \in SUBSET ns
      BY <2>2, Elements
    <3>2. \A i \in 1 .. Len(w) : w[i] \in left
      BY <2>2, <3>1
    <3> QED BY <2>2, <3>2
  <2>5. Fits(f, w)
    BY <2>1, <2>2, FitsLess
  <2> QED BY <2>2, <2>3, <2>4, <2>5 DEF s
<1>5. DOMAIN refs = left /\ \A n \in left : DOMAIN refs[n] = Forward[n]
  OBVIOUS
<1> HIDE DEF refs
<1>6. RefsTyped(left, left, refs)
  BY <1>4, <1>5 DEF RefsTyped
<1>7. OwnersTyped(left, owners)
  BY <1>1 DEF OwnersTyped
<1>8. ~Cyclic(owners)
  BY <1>1, FewerOwners
<1>9. ASSUME NEW o \in left, NEW f \in Forward[o], Spec[f].kind = "ownedby", m.refs[o][f] # <<>>
      PROVE  LET p == m.refs[o][f][1]
             IN  m.refs[o][f] = <<p>> /\ o \in DOMAIN m.owners /\ m.owners[o] = p /\ p \notin dead
  <2> DEFINE s == m.refs[o][f]
             p == s[1]
  <2>1. f \in Field /\ ~Spec[f].many
    BY <1>1, <1>9, Fields, Schema
  <2>2. s \in Seq(ns) /\ Fits(f, s)
    BY <1>1, RefsField
  <2>3. Len(s) <= 1
    BY <2>1, <2>2 DEF Fits
  <2>4. Len(s) = 1 /\ s = <<p>>
    BY <1>9, <2>2, <2>3, FirstElement
  <2>5. o \in DOMAIN m.owners /\ m.owners[o] = p
    <3>1. o \in DOMAIN m.refs /\ f \in DOMAIN m.refs[o]
      BY <1>1 DEF RefsTyped
    <3> QED BY <1>1, <1>9, <2>4, <3>1 DEF Agrees, AgreesBut
  <2>6. p \notin dead
    <3> SUFFICES ASSUME p \in dead PROVE o \in dead
      OBVIOUS
    <3>1. o \in DeletionChildren(m, committed, p)
      BY <2>5, DeletionChildrenAre
    <3> QED BY <1>1, <3>1, DoomedRows
  <2> QED BY <2>4, <2>5, <2>6
<1>10. Agrees(refs, owners)
  <2>1. ASSUME NEW o \in left, NEW f \in Forward[o], Spec[f].kind = "own", NEW c \in ToSet(refs[o][f])
        PROVE  c \in DOMAIN owners /\ owners[c] = o
    <3>1. ToSet(refs[o][f]) = ToSet(m.refs[o][f]) \ dead
      BY <1>4
    <3>2. c \in ToSet(m.refs[o][f]) /\ c \notin dead /\ o \in DOMAIN m.refs /\ f \in DOMAIN m.refs[o]
      BY <1>1, <3>1 DEF RefsTyped
    <3>3. c \in DOMAIN m.owners /\ m.owners[c] = o
      BY <1>1, <2>1, <3>2 DEF Agrees, AgreesBut
    <3> QED BY <3>2, <3>3
  <2>2. ASSUME NEW o \in left, NEW f \in Forward[o], Spec[f].kind = "ownedby", Len(refs[o][f]) = 1
        PROVE  o \in DOMAIN owners /\ owners[o] = refs[o][f][1]
    <3> DEFINE p == m.refs[o][f][1]
    <3>1. refs[o][f] \in Seq(left) /\ ToSet(refs[o][f]) = ToSet(m.refs[o][f]) \ dead
      BY <1>4
    <3> DEFINE r == refs[o][f]
    <3>2. r \in Seq(left) /\ Len(r) = 1
      BY <2>2, <3>1
    <3> HIDE DEF r
    <3>3. r # <<>>
      BY <3>2
    <3>4. refs[o][f] \in Seq(left) /\ ToSet(refs[o][f]) = ToSet(m.refs[o][f]) \ dead /\ refs[o][f] # <<>>
      BY <3>1, <3>3 DEF r
    <3>5. refs[o][f][1] \in ToSet(refs[o][f])
      BY <3>4, FirstElement
    <3>6. m.refs[o][f] # <<>>
      <4>1. m.refs[o][f] \in Seq(ns)
        BY <1>1, RefsField
      <4>2. ToSet(m.refs[o][f]) # {}
        BY <3>4, <3>5
      <4> QED BY <4>1, <4>2, Elements
    <3>7. m.refs[o][f] = <<p>> /\ o \in DOMAIN m.owners /\ m.owners[o] = p /\ p \notin dead /\ p \in ns
      BY <1>1, <1>9, <2>2, <3>6 DEF OwnersTyped
    <3>8. ToSet(<<p>>) = {p}
      BY <3>7, Alone
    <3>9. refs[o][f][1] = p
      <4> HIDE DEF p
      <4> QED BY <3>4, <3>5, <3>7, <3>8
    <3> HIDE DEF p
    <3> QED BY <3>7, <3>9
  <2> HIDE DEF owners
  <2> QED BY <1>5, <2>1, <2>2 DEF Agrees, AgreesBut
<1>11. Complete(left, refs)
  <2> SUFFICES ASSUME NEW n \in left, NEW f \in Forward[n], ~MayBeMissing(f), refs[n][f] = <<>> PROVE FALSE
    BY DEF Complete
  <2>1. m.refs[n][f] # <<>>
    <3>1. SUFFICES ASSUME m.refs[n][f] = <<>> PROVE FALSE
      OBVIOUS
    <3>2. <<n, f>> \in m.missing
      BY <1>1, <3>1 DEF Reports
    <3>3. <<n, f>>[1] = n
      OBVIOUS
    <3> QED BY <1>1, <3>2, <3>3
  <2>2. ToSet(m.refs[n][f]) \cap dead # {}
    <3>1. m.refs[n][f] \in Seq(ns)
      BY <1>1, RefsField
    <3>2. ToSet(m.refs[n][f]) # {}
      BY <2>1, <3>1, Elements
    <3>3. ToSet(m.refs[n][f]) \ dead = {}
      BY <1>4, Elements
    <3> QED BY <3>2, <3>3
  <2>3. f \in Field /\ Spec[f].kind \in Kinds /\ Spec[f].kind # "inverse"
    <3>1. f \in Field /\ Spec[f].kind # "inverse"
      BY <1>1, Fields
    <3> QED BY <3>1, SchemaIsValid DEF ValidSpec
  <2>4. CASE Spec[f].kind = "ownedby"
    <3>1. m.refs[n][f] = <<m.refs[n][f][1]>> /\ m.refs[n][f][1] \notin dead /\ m.refs[n][f][1] \in ns
      BY <1>1, <1>9, <2>1, <2>4 DEF OwnersTyped
    <3>2. ToSet(<<m.refs[n][f][1]>>) = {m.refs[n][f][1]}
      BY <3>1, Alone
    <3> QED BY <2>2, <3>1, <3>2
  <2>5. CASE Spec[f].kind = "borrow" \/ (Spec[f].kind = "own" /\ ~Spec[f].many)
    BY <1>1, <2>2, <2>5 DEF Restricted
  <2>6. CASE Spec[f].kind = "option" \/ (Spec[f].kind = "own" /\ Spec[f].many)
    BY <2>6 DEF MayBeMissing
  <2> QED BY <2>3, <2>4, <2>5, <2>6 DEF Kinds
<1>12. Stated(refs, owners)
  <2> SUFFICES ASSUME NEW c \in DOMAIN m.owners, c \notin dead, m.owners[c] \notin dead PROVE StatedBy(refs, c, m.owners[c])
    BY DEF Stated
  <2> DEFINE o == m.owners[c]
  <2>1. StatedBy(m.refs, c, o) /\ c \in left /\ o \in left
    BY <1>1 DEF Stated, OwnersTyped
  <2> HIDE DEF o
  <2>2. CASE \E f : IsEdge(m.refs, c, o, f) /\ Spec[f].kind = "own"
    <3>1. PICK f : IsEdge(m.refs, c, o, f) /\ Spec[f].kind = "own"
      BY <2>2
    <3>2. f \in Forward[o] /\ c \in ToSet(m.refs[o][f])
      BY <1>1, <2>1, <3>1 DEF IsEdge, RefsTyped
    <3>3. c \in ToSet(refs[o][f])
      BY <1>4, <2>1, <3>2
    <3>4. IsEdge(refs, c, o, f)
      BY <1>5, <2>1, <3>2, <3>3 DEF IsEdge
    <3> QED BY <3>1, <3>4 DEF StatedBy, o
  <2>3. CASE \E f \in DOMAIN m.refs[c] : Spec[f].kind = "ownedby" /\ Len(m.refs[c][f]) = 1 /\ m.refs[c][f][1] = o
    <3>1. PICK f \in DOMAIN m.refs[c] : Spec[f].kind = "ownedby" /\ Len(m.refs[c][f]) = 1 /\ m.refs[c][f][1] = o
      BY <2>3
    <3>2. f \in Forward[c]
      BY <1>1, <2>1, <3>1 DEF RefsTyped
    <3> DEFINE s == m.refs[c][f]
               r == refs[c][f]
    <3>3. s \in Seq(ns) /\ Len(s) = 1 /\ s[1] = o
      BY <1>1, <2>1, <3>1, <3>2, RefsField
    <3>4. r \in Seq(left) /\ ToSet(r) = ToSet(s) \ dead /\ Len(r) <= Len(s)
      BY <1>4, <2>1, <3>2
    <3>5. f \in DOMAIN refs[c]
      BY <1>5, <2>1, <3>2
    <3> HIDE DEF s, r
    <3>6. s # <<>> /\ s[1] \in ToSet(s) /\ ToSet(s) = {o}
      <4>1. s # <<>>
        BY <3>3, Elements
      <4>2. Len(s) <= 1
        BY <3>3
      <4>3. s[1] \in ToSet(s) /\ ToSet(s) = {s[1]}
        BY <3>3, <4>1, <4>2, FirstElement
      <4> QED BY <3>3, <4>1, <4>3
    <3>7. ToSet(r) = {o}
      BY <2>1, <3>4, <3>6
    <3>8. r # <<>>
      BY <3>4, <3>7, Elements
    <3>9. Len(r) <= 1
      BY <3>3, <3>4
    <3>10. Len(r) = 1 /\ ToSet(r) = {r[1]}
      BY <3>4, <3>8, <3>9, FirstElement
    <3>11. r[1] = o
      BY <3>7, <3>10
    <3> QED BY <3>1, <3>5, <3>10, <3>11 DEF StatedBy, o, r
  <2> QED BY <2>1, <2>2, <2>3 DEF StatedBy
<1> HIDE DEF owners
<1>13. left \in SUBSET Node
  BY <1>1
<1> QED BY <1>2, <1>3, <1>6, <1>7, <1>8, <1>10, <1>11, <1>12, <1>13 DEF IsIndex, Forest, ix

\* A model that is kept: of the committed rows, valid and with nothing missing.
IsKept(m, ns) == IsModel(m, ns) /\ m.ok /\ Complete(ns, m.refs)

\* An accepted model without deletes has nothing missing.
LEMMA AcceptedComplete ==
    ASSUME NEW m, NEW ns, IsModel(m, ns), NEW explicit, Accepted(m, explicit, {})
    PROVE  IsKept(m, ns)
<1>1. m.missing = {} /\ m.ok /\ Reports(m) /\ m.nodes = ns
  BY DEF Accepted, IsModel
<1>2. Complete(ns, m.refs)
  BY <1>1 DEF Complete, Reports
<1> QED BY <1>1, <1>2 DEF IsKept

\* A model with nothing missing is accepted when nothing is deleted.
LEMMA NothingDeleted ==
    ASSUME NEW m, m.ok, m.missing = {}, NEW committed
    PROVE  Accepted(m, {}, {}) /\ Doomed(m, committed, {}) = {}
<1>1. Accepted(m, {}, {})
  BY DEF Accepted, Restricted
<1>2. Doomed(m, committed, {}) = {}
  <2> DEFINE kids(o) == DeletionChildren(m, committed, o)
  <2>1. Doomed(m, committed, {}) = {n \in m.nodes : \A s \in SUBSET m.nodes : ({} \subseteq s /\ \A o \in s : kids(o) \subseteq s) => n \in s}
    BY DEF Doomed, Closure
  <2> HIDE DEF kids
  <2> QED BY <2>1
<1> QED BY <1>1, <1>2

\* The model of a whole graph.
LEMMA RebuildSound ==
    ASSUME NEW g, IsGraph(g)
    PROVE  IsModel(Rebuild(g), DOMAIN g)
<1> DEFINE entries == Entries(g, DOMAIN g, TargetFields(DOMAIN g))
<1>1. Led(entries, DOMAIN g)
  BY EntriesLead
<1>2. Rebuild(g) = BuildModel(g, DOMAIN g, entries, TargetFields(DOMAIN g), g)
  BY DEF Rebuild, Built
<1> HIDE DEF entries
<1> QED BY <1>1, <1>2, BuildModelSound

\* The model of a transaction, whether it is derived from the committed one or
\* from all rows.
LEMMA TransactionModelSound ==
    ASSUME IsGraph(live), graph # None => IsKept(graph, DOMAIN live),
           NEW over, IsGraph(over), NEW fresh \in SUBSET DOMAIN over, NEW mem
    PROVE  IsModel(TransactionModel(over, fresh, mem), DOMAIN (over ++ live))
<1> DEFINE g == over ++ live
           none == graph = None
           ns == (IF none THEN DOMAIN live ELSE graph.nodes) \cup DOMAIN over
           retyped == none \/ \E n \in fresh : \A k \in graph.nodes : TypeOf[k] # TypeOf[n]
           tf == IF retyped THEN TargetFields(ns) ELSE graph.tf
           rekeyed == \E n \in DOMAIN over \cap graph.nodes :
                           <<TypeOf[n], "Key">> \in graph.tf /\ over[n].key # live[n].key
           created == Entries(over, fresh, tf)
           entries == IF retyped \/ rekeyed THEN Entries(g, ns, tf) ELSE graph.entries \cup created
           m == TransactionModel(over, fresh, mem)
           opened == {u[1] : u \in {x \in graph.unresolved : Candidates(entries, x[2], x[3]) # {}}}
<1>1. m = IF retyped \/ rekeyed \/ Overlap(graph.entries, created)
          THEN BuildModel(g, ns, entries, tf, mem)
          ELSE Rescan(graph, g, ns, entries, mem, DOMAIN over \cup opened)
  BY DEF TransactionModel, ModelDelta
<1>2. IsGraph(g) /\ DOMAIN g = DOMAIN over \cup DOMAIN live
  BY GraphOver DEF ++
<1>3. ns = DOMAIN g
  BY <1>2 DEF IsKept, IsModel
<1>4. ~none => IsKept(graph, DOMAIN live) /\ Led(graph.entries, DOMAIN live) /\ \A u \in graph.unresolved : u[1] \in DOMAIN live
  BY DEF IsKept, IsModel
<1>5. Led(entries, ns)
  <2>1. CASE retyped \/ rekeyed
    <3>1. Led(Entries(g, ns, tf), ns)
      BY EntriesLead
    <3> QED BY <2>1, <3>1
  <2>2. CASE ~(retyped \/ rekeyed)
    <3>1. Led(created, fresh)
      BY EntriesLead
    <3>2. entries = graph.entries \cup created /\ ~none
      BY <2>2
    <3> HIDE DEF entries, created, none, ns
    <3> QED BY <1>2, <1>3, <1>4, <3>1, <3>2 DEF Led
  <2> QED BY <2>1, <2>2
<1>6. ~none => \A n \in opened : n \in DOMAIN live
  BY <1>4
<1>7. retyped \/ ~none
  OBVIOUS
<1> HIDE DEF g, ns, entries, created, tf, rekeyed, opened, retyped, none
<1>8. CASE retyped \/ rekeyed \/ Overlap(graph.entries, created)
  <2>1. IsModel(BuildModel(g, ns, entries, tf, mem), ns)
    BY <1>2, <1>3, <1>5, BuildModelSound
  <2> QED BY <1>1, <1>3, <1>8, <2>1 DEF g
<1>9. CASE ~(retyped \/ rekeyed \/ Overlap(graph.entries, created))
  <2> DEFINE rows == DOMAIN over \cup opened
  <2>1. ns = DOMAIN live \cup rows
    BY <1>2, <1>3, <1>6, <1>7, <1>9
  <2>2. IsModel(graph, DOMAIN live) /\ graph.ok /\ Complete(DOMAIN live, graph.refs)
    BY <1>4, <1>7, <1>9 DEF IsKept
  <2> HIDE DEF rows
  <2>3. IsModel(Rescan(graph, g, ns, entries, mem, rows), ns)
    BY <1>2, <1>3, <1>5, <2>1, <2>2, RescanSound
  <2> QED BY <1>1, <1>3, <1>9, <2>3 DEF rows, g
<1> QED BY <1>8, <1>9

----------------------------------------------------------------------------
\* Deltas.

\* The pointers a delta reads.
Scanned(over, fresh, mem) == ScanAll(over, index.entries \cup Entries(over, fresh, index.tf), mem, DOMAIN over)

\* The index after a delta.
AfterDelta(fresh, created, refs, affected, owners) ==
    [index EXCEPT
        !.nodes = @ \cup fresh, !.entries = @ \cup created, !.refs = refs ++ @, !.owners = owners,
        !.inc = (@ (-) Incoming(Restrict(index.refs, DOMAIN refs \cap index.nodes))) (+) Incoming(refs),
        !.out = [o \in Node |-> {c \in @[o] : c \in DOMAIN owners => owners[c] = o}
                                \cup {c \in affected : c \in DOMAIN owners /\ owners[c] = o}]]

\* What it takes for a delta to be accepted, and what it publishes.
DeltaAccepted(over, fresh, mem, d) ==
    LET created == Entries(over, fresh, index.tf)
        refs == Scanned(over, fresh, mem)
        inc == EffectiveIncoming(refs)
        affected == Affected(refs)
        owners == OwnersAfter(inc, refs ++ index.refs, affected)
    IN  /\ \A n \in DOMAIN over \ fresh : n \in index.nodes
        /\ ~DeltaInvalid(fresh, refs, inc, refs ++ index.refs, affected)
        /\ ~Cyclic(owners) /\ DOMAIN index.owners \subseteq DOMAIN owners
        /\ d.scanned = refs /\ d.published = refs /\ d.mirrors = InverseTargets(refs)
        /\ d.index = AfterDelta(fresh, created, refs, affected, owners)

\* What has to have gone right for a delta to be accepted.
LEMMA DeltaParts ==
    ASSUME NEW over, NEW fresh, NEW mem, NEW aliased, Delta(over, fresh, {}, mem, aliased).verdict = "accept"
    PROVE  DeltaAccepted(over, fresh, mem, Delta(over, fresh, {}, mem, aliased))
<1> DEFINE created == Entries(over, fresh, index.tf)
           entries == index.entries \cup created
           refs == Scanned(over, fresh, mem)
           inc == EffectiveIncoming(refs)
           affected == Affected(refs)
           owners == OwnersAfter(inc, refs ++ index.refs, affected)
           d == Delta(over, fresh, {}, mem, aliased)
<1>1. Doubled(refs, {}) = refs /\ Emptied(refs, {}) = refs
  <2>1. refs = [n \in DOMAIN refs |-> refs[n]]
    BY DEF Scanned, ScanAll
  <2> HIDE DEF refs
  <2> QED BY <2>1 DEF Doubled, Emptied
<1>2. d = IF Unsupported(over, fresh, aliased) THEN [verdict |-> "refuse"]
          ELSE IF Overlap(index.entries, created) \/ ScanError(over, entries, mem, DOMAIN over) THEN [verdict |-> "error"]
          ELSE DeltaFrom(fresh, created, Doubled(refs, {}), Emptied(refs, {}))
  BY DEF Delta, Scanned
<1>3. ~Unsupported(over, fresh, aliased) /\ d = DeltaFrom(fresh, created, refs, refs)
  <2> HIDE DEF created, entries, refs
  <2> QED BY <1>1, <1>2
<1>4. \A n \in DOMAIN over \ fresh : n \in index.nodes
  BY <1>3 DEF Unsupported
<1>5. d = IF DeltaInvalid(fresh, refs, inc, refs ++ index.refs, affected) THEN [verdict |-> "error"]
          ELSE PublishDelta(fresh, created, refs, refs, affected, owners)
  BY <1>3 DEF DeltaFrom, ValidateDelta
<1> HIDE DEF created, entries, refs, inc, affected, owners
<1>6. ~DeltaInvalid(fresh, refs, inc, refs ++ index.refs, affected) /\ d = PublishDelta(fresh, created, refs, refs, affected, owners)
  BY <1>5
<1>7. ~Cyclic(owners) /\ ~(\E c \in DOMAIN index.owners : c \notin DOMAIN owners)
  <2>1. d.verdict = "accept"
    OBVIOUS
  <2> QED BY <1>6, <2>1 DEF PublishDelta
<1>8. d = [verdict |-> "accept", scanned |-> refs, published |-> refs, mirrors |-> InverseTargets(refs),
           index |-> AfterDelta(fresh, created, refs, affected, owners)]
  BY <1>6, <1>7 DEF PublishDelta, AfterDelta
<1>9. /\ d.scanned = refs /\ d.published = refs /\ d.mirrors = InverseTargets(refs)
      /\ d.index = AfterDelta(fresh, created, refs, affected, owners)
  <2> HIDE DEF d
  <2> QED BY <1>8
<1> HIDE DEF d
<1>10. DOMAIN index.owners \subseteq DOMAIN owners
  BY <1>7
<1> QED BY <1>4, <1>6, <1>7, <1>9, <1>10 DEF DeltaAccepted, created, refs, inc, affected, owners, d

\* The rows whose owner a delta derives again.
AffectedAre(refs, ns) ==
    /\ Affected(refs) \in SUBSET ns
    /\ \A n \in DOMAIN refs : \A f \in Forward[n] :
          /\ Spec[f].kind = "own" => ToSet(refs[n][f]) \subseteq Affected(refs) /\ CommittedTargets(n, f) \subseteq Affected(refs)
          /\ Spec[f].kind = "ownedby" => n \in Affected(refs)

\* The rows whose owner is looked at again are those.
LEMMA AffectedRows ==
    ASSUME NEW old, IsIndex(index, old), NEW ns \in SUBSET Node, old \subseteq ns, NEW rows \in SUBSET ns,
           NEW refs, RefsTyped(rows, ns, refs)
    PROVE  AffectedAre(refs, ns)
<1> DEFINE of(n, f) == ToSet(refs[n][f]) \cup CommittedTargets(n, f)
           from(n) == UNION {of(n, f) : f \in {x \in Forward[n] : Spec[x].kind = "own"}}
           back == {n \in rows : \E f \in Forward[n] : Spec[f].kind = "ownedby"}
<1>1. Affected(refs) = back \cup (UNION {from(n) : n \in rows})
  BY DEF Affected, RefsTyped
<1>2. ASSUME NEW n \in rows, NEW f \in Forward[n] PROVE of(n, f) \in SUBSET ns
  <2>1. ToSet(refs[n][f]) \in SUBSET ns
    BY RefsField
  <2>2. CommittedTargets(n, f) \in SUBSET ns
    <3>1. CASE n \notin old
      BY <3>1 DEF CommittedTargets, IsIndex
    <3>2. CASE n \in old
      <4> DEFINE before == index.refs
      <4>1. RefsTyped(old, old, before) /\ old \in SUBSET Node /\ index.nodes = old
        BY DEF IsIndex
      <4> HIDE DEF before
      <4>2. before[n][f] \in Seq(old)
        BY <3>2, <4>1 DEF RefsTyped
      <4>3. ToSet(before[n][f]) \in SUBSET old
        BY <4>2, Elements
      <4> QED BY <3>2, <4>1, <4>3 DEF CommittedTargets, before
    <3> QED BY <3>1, <3>2
  <2> QED BY <2>1, <2>2
<1>3. \A n \in rows : \A f : ToSet(refs[n][f]) \subseteq of(n, f) /\ CommittedTargets(n, f) \subseteq of(n, f)
  OBVIOUS
<1> HIDE DEF of
<1>4. ASSUME NEW n \in rows PROVE from(n) \in SUBSET ns
  BY <1>2
<1>5. \A n \in rows : \A f \in Forward[n] : Spec[f].kind = "own" => of(n, f) \subseteq from(n)
  OBVIOUS
<1> HIDE DEF from
<1>6. \A n \in rows : from(n) \subseteq Affected(refs)
  BY <1>1
<1>7. Affected(refs) \in SUBSET ns
  BY <1>1, <1>4
<1>8. ASSUME NEW n \in rows, NEW f \in Forward[n]
      PROVE  /\ Spec[f].kind = "own" => ToSet(refs[n][f]) \subseteq Affected(refs) /\ CommittedTargets(n, f) \subseteq Affected(refs)
             /\ Spec[f].kind = "ownedby" => n \in Affected(refs)
  <2>1. ASSUME Spec[f].kind = "own" PROVE ToSet(refs[n][f]) \subseteq Affected(refs) /\ CommittedTargets(n, f) \subseteq Affected(refs)
    <3>1. of(n, f) \subseteq Affected(refs)
      BY <1>5, <1>6, <2>1
    <3> QED BY <1>3, <3>1
  <2>2. ASSUME Spec[f].kind = "ownedby" PROVE n \in Affected(refs)
    BY <1>1, <2>2
  <2> QED BY <2>1, <2>2
<1>9. DOMAIN refs = rows
  BY DEF RefsTyped
<1> QED BY <1>7, <1>8, <1>9 DEF AffectedAre

\* What an accepted delta of the rows in `over' amounts to.
DeltaApplied(old, over, fresh, mem, d) ==
    /\ DOMAIN over \subseteq old \cup fresh
    /\ RefsTyped(DOMAIN over, old \cup fresh, Scanned(over, fresh, mem))
    /\ AffectedAre(Scanned(over, fresh, mem), old \cup fresh)
    /\ d.scanned = Scanned(over, fresh, mem) /\ d.published = Scanned(over, fresh, mem)
    /\ d.mirrors = InverseTargets(Scanned(over, fresh, mem))
    /\ IsIndex(d.index, old \cup fresh)
    /\ d.index.refs = Scanned(over, fresh, mem) ++ index.refs
    /\ DOMAIN index.owners \subseteq DOMAIN d.index.owners
    /\ \A c \in DOMAIN d.index.owners : c \notin Affected(Scanned(over, fresh, mem)) => c \in DOMAIN index.owners /\ d.index.owners[c] = index.owners[c]

\* An accepted delta leaves a committed index of the old rows and the new ones.
LEMMA DeltaSound ==
    ASSUME NEW old, IsIndex(index, old), NEW over, IsGraph(over), NEW fresh \in SUBSET DOMAIN over, NEW mem, NEW d,
           DeltaAccepted(over, fresh, mem, d)
    PROVE  DeltaApplied(old, over, fresh, mem, d)
<1> DEFINE created == Entries(over, fresh, index.tf)
           refs == Scanned(over, fresh, mem)
           before == index.refs
           both == refs ++ before
           inc == EffectiveIncoming(refs)
           affected == Affected(refs)
           owners == OwnersAfter(inc, both, affected)
           ns == old \cup fresh
           kept == [c \in DOMAIN index.owners \ affected |-> index.owners[c]]
           ix == d.index
<1>1. /\ \A n \in DOMAIN over \ fresh : n \in index.nodes
      /\ ~DeltaInvalid(fresh, refs, inc, both, affected)
      /\ ~Cyclic(owners) /\ DOMAIN index.owners \subseteq DOMAIN owners
      /\ d.scanned = refs /\ d.published = refs /\ d.mirrors = InverseTargets(refs)
      /\ ix = AfterDelta(fresh, created, refs, affected, owners)
  BY DEF DeltaAccepted
<1>2. /\ old \in SUBSET Node /\ index.nodes = old /\ RefsTyped(old, old, before) /\ Led(index.entries, old)
      /\ Forest(old, before, index.owners) /\ Complete(old, before) /\ index.inc = Incoming(before)
      /\ index.out = [o \in Node |-> ChildrenOf(index.owners, o)]
  BY DEF IsIndex
<1>3. ns \in SUBSET Node /\ old \subseteq ns /\ DOMAIN over \in SUBSET ns /\ DOMAIN over \in SUBSET DOMAIN over
  BY <1>1, <1>2 DEF IsGraph
<1>4. Led(index.entries \cup created, ns)
  <2>1. Led(created, fresh)
    BY EntriesLead
  <2> HIDE DEF created
  <2> QED BY <1>2, <2>1 DEF Led
<1>5. RefsTyped(DOMAIN over, ns, refs)
  <2>1. RefsTyped(DOMAIN over, ns, ScanAll(over, index.entries \cup created, mem, DOMAIN over))
    <3> HIDE DEF created, ns
    <3> QED BY <1>3, <1>4, ScanTyped
  <2> QED BY <2>1 DEF Scanned
<1>6. AffectedAre(refs, ns)
  <2> HIDE DEF refs, ns
  <2> QED BY <1>3, <1>5, AffectedRows
<1>7. AfterDelta(fresh, created, refs, affected, owners) =
        [index EXCEPT !.nodes = @ \cup fresh, !.entries = @ \cup created, !.refs = both, !.owners = owners,
            !.inc = (@ (-) Incoming(Restrict(before, DOMAIN refs \cap index.nodes))) (+) Incoming(refs),
            !.out = [o \in Node |-> {c \in @[o] : c \in DOMAIN owners => owners[c] = o}
                                    \cup {c \in affected : c \in DOMAIN owners /\ owners[c] = o}]]
  BY DEF AfterDelta
<1> HIDE DEF created, refs, before, ns
<1>8. RefsTyped(ns, ns, both)
  <2>1. RefsTyped(old, ns, before)
    BY <1>2, <1>3, RefsWider
  <2>2. RefsTyped(DOMAIN over \cup old, ns, both)
    BY <1>5, <2>1, RefsOver
  <2>3. DOMAIN over \cup old = ns
    BY <1>3 DEF ns
  <2> HIDE DEF both
  <2> QED BY <2>2, <2>3
<1>9. RefsTyped(old, ns, before) /\ DOMAIN refs = DOMAIN over /\ DOMAIN before = old
  <2>1. RefsTyped(old, ns, before)
    BY <1>2, <1>3, RefsWider
  <2> QED BY <1>2, <1>5, <2>1 DEF RefsTyped
<1>10. inc = Incoming(both)
  <2>1. inc = Spared(before, DOMAIN refs) (+) Incoming(refs)
    BY <1>2 DEF EffectiveIncoming, Spared, before
  <2> QED BY <1>2, <1>3, <1>5, <1>9, <2>1, ReplacedEdges
<1>11. /\ \A n \in DOMAIN over : both[n] = refs[n]
       /\ \A n \in old \ DOMAIN over : both[n] = before[n]
  BY <1>9 DEF ++
<1> HIDE DEF inc, both
<1>12. owners = OwnersOf(Incoming(both), both, affected) ++ kept
  BY <1>10 DEF OwnersAfter
<1>13. affected \in SUBSET ns
  BY <1>6 DEF AffectedAre
<1>14. \A c \in affected : ~OwnerConflict(Incoming(both), both, c)
  BY <1>1, <1>10 DEF DeltaInvalid
<1>15. OwnersTyped(ns, kept) /\ DOMAIN kept \cap affected = {}
  BY <1>2, <1>3 DEF Forest, OwnersTyped
<1> HIDE DEF affected
<1>16. AgreesBut(both, kept, affected)
  <2> SUFFICES ASSUME NEW o \in ns, NEW f \in Forward[o]
               PROVE  /\ Spec[f].kind = "own" => \A c \in ToSet(both[o][f]) \ affected : c \in DOMAIN kept /\ kept[c] = o
                      /\ Spec[f].kind = "ownedby" /\ Len(both[o][f]) = 1 /\ o \notin affected => o \in DOMAIN kept /\ kept[o] = both[o][f][1]
    BY <1>8 DEF AgreesBut, RefsTyped
  <2>1. CASE o \in DOMAIN over
    <3>1. both[o] = refs[o] /\ o \in DOMAIN refs
      BY <1>9, <1>11, <2>1
    <3>2. /\ Spec[f].kind = "own" => ToSet(refs[o][f]) \subseteq affected
          /\ Spec[f].kind = "ownedby" => o \in affected
      BY <1>6, <3>1 DEF AffectedAre, affected
    <3> QED BY <3>1, <3>2
  <2>2. CASE o \notin DOMAIN over
    <3>1. o \in old /\ both[o] = before[o] /\ o \in DOMAIN before /\ f \in DOMAIN before[o]
      <4>1. o \in old
        BY <1>1, <1>2, <2>2 DEF ns
      <4> QED BY <1>2, <1>11, <2>2, <4>1 DEF RefsTyped
    <3>2. /\ Spec[f].kind = "own" => \A c \in ToSet(both[o][f]) : c \in DOMAIN index.owners /\ index.owners[c] = o
          /\ Spec[f].kind = "ownedby" /\ Len(both[o][f]) = 1 => o \in DOMAIN index.owners /\ index.owners[o] = both[o][f][1]
      BY <1>2, <3>1 DEF Forest, Agrees, AgreesBut
    <3> QED BY <3>2
  <2> QED BY <2>1, <2>2
<1>17. \A c \in DOMAIN owners : c \notin affected => c \in DOMAIN index.owners /\ owners[c] = index.owners[c]
  <2>1. DOMAIN OwnersOf(Incoming(both), both, affected) \subseteq affected
    BY DEF OwnersOf
  <2> QED BY <1>12, <2>1 DEF ++
<1>18. Stated(both, kept)
  <2> SUFFICES ASSUME NEW c \in DOMAIN index.owners, c \notin affected PROVE StatedBy(both, c, index.owners[c])
    BY DEF Stated
  <2> DEFINE o == index.owners[c]
  <2>1. StatedBy(before, c, o) /\ c \in old
    BY <1>2 DEF Forest, Stated, OwnersTyped
  <2>2. DOMAIN both = ns
    BY <1>8 DEF RefsTyped
  <2> HIDE DEF o
  <2>3. CASE \E f : IsEdge(before, c, o, f) /\ Spec[f].kind = "own"
    <3>1. PICK f : IsEdge(before, c, o, f) /\ Spec[f].kind = "own"
      BY <2>3
    <3>2. o \in old /\ f \in Forward[o] /\ c \in ToSet(before[o][f])
      BY <1>2, <3>1 DEF IsEdge, RefsTyped
    <3>3. o \notin DOMAIN over
      <4>1. c \in CommittedTargets(o, f)
        BY <1>2, <3>2 DEF CommittedTargets, before
      <4> QED BY <1>6, <1>9, <3>1, <3>2, <4>1 DEF AffectedAre, affected
    <3>4. IsEdge(both, c, o, f)
      BY <1>3, <1>11, <2>2, <3>1, <3>2, <3>3 DEF IsEdge
    <3> QED BY <3>1, <3>4 DEF StatedBy, o
  <2>4. CASE \E f \in DOMAIN before[c] : Spec[f].kind = "ownedby" /\ Len(before[c][f]) = 1 /\ before[c][f][1] = o
    <3>1. PICK f \in DOMAIN before[c] : Spec[f].kind = "ownedby" /\ Len(before[c][f]) = 1 /\ before[c][f][1] = o
      BY <2>4
    <3>2. f \in Forward[c]
      BY <1>2, <2>1, <3>1 DEF RefsTyped
    <3>3. c \notin DOMAIN over
      BY <1>6, <1>9, <3>1, <3>2 DEF AffectedAre, affected
    <3>4. both[c] = before[c]
      BY <1>11, <2>1, <3>3
    <3> QED BY <3>1, <3>4 DEF StatedBy, o
  <2> QED BY <2>1, <2>3, <2>4 DEF StatedBy
<1> HIDE DEF kept, owners
<1>19. OwnersTyped(ns, owners) /\ Agrees(both, owners)
  BY <1>3, <1>8, <1>12, <1>13, <1>14, <1>15, <1>16, OwnersAgree
<1>20. Stated(both, owners)
  BY <1>12, <1>18, OwnersStated
<1>21. Complete(ns, both)
  <2> SUFFICES ASSUME NEW n \in ns, NEW f \in Forward[n], ~MayBeMissing(f), both[n][f] = <<>> PROVE FALSE
    BY DEF Complete
  <2>1. CASE n \in DOMAIN over
    <3>1. <<n, f>> \in MissingIn(refs, DOMAIN refs)
      BY <1>9, <1>11, <2>1, MissingRows
    <3> QED BY <1>1, <3>1 DEF DeltaInvalid
  <2>2. CASE n \notin DOMAIN over
    <3>1. n \in old /\ both[n] = before[n]
      BY <1>1, <1>2, <1>11, <2>2 DEF ns
    <3> QED BY <1>2, <3>1 DEF Complete
  <2> QED BY <2>1, <2>2
<1>22. (Incoming(before) (-) Incoming(Restrict(before, DOMAIN refs \cap old))) (+) Incoming(refs) = Incoming(both)
  BY <1>2, <1>3, <1>5, <1>9, PublishedEdges DEF both
<1> DEFINE out == [o \in Node |-> {c \in index.out[o] : c \in DOMAIN owners => owners[c] = o}
                                   \cup {c \in affected : c \in DOMAIN owners /\ owners[c] = o}]
<1>23. out = [o \in Node |-> ChildrenOf(owners, o)]
  <2> SUFFICES ASSUME NEW o \in Node
               PROVE  {c \in index.out[o] : c \in DOMAIN owners => owners[c] = o} \cup {c \in affected : c \in DOMAIN owners /\ owners[c] = o}
                        = ChildrenOf(owners, o)
    OBVIOUS
  <2>1. \A c : c \in index.out[o] <=> c \in DOMAIN index.owners /\ index.owners[c] = o
    BY <1>2 DEF ChildrenOf
  <2> QED BY <1>1, <1>17, <2>1 DEF ChildrenOf
<1>24. ix = [index EXCEPT !.nodes = ns, !.entries = index.entries \cup created, !.refs = both, !.owners = owners,
                !.inc = Incoming(both), !.out = [o \in Node |-> ChildrenOf(owners, o)]]
  BY <1>1, <1>2, <1>7, <1>22, <1>23 DEF ns
<1> HIDE DEF out, ix
<1>25. /\ index = [nodes |-> index.nodes, tf |-> index.tf, entries |-> index.entries, backs |-> index.backs, refs |-> index.refs,
                   inc |-> index.inc, owners |-> index.owners, out |-> index.out]
       /\ index.backs \subseteq Field
  BY DEF IsIndex
<1>26. ix = [nodes |-> ns, tf |-> index.tf, entries |-> index.entries \cup created, backs |-> index.backs, refs |-> both,
             inc |-> Incoming(both), owners |-> owners, out |-> [o \in Node |-> ChildrenOf(owners, o)]]
  BY <1>24, <1>25
<1>27. /\ ix.nodes = ns /\ ix.entries = index.entries \cup created /\ ix.backs = index.backs /\ ix.refs = both
       /\ ix.inc = Incoming(both) /\ ix.owners = owners /\ ix.out = [o \in Node |-> ChildrenOf(owners, o)]
       /\ ix = [nodes |-> ix.nodes, tf |-> ix.tf, entries |-> ix.entries, backs |-> ix.backs, refs |-> ix.refs,
                inc |-> ix.inc, owners |-> ix.owners, out |-> ix.out]
  BY <1>26
<1>28. IsIndex(ix, ns)
  BY <1>1, <1>3, <1>4, <1>8, <1>19, <1>21, <1>25, <1>27, <1>20 DEF IsIndex, Forest
<1>29. /\ DOMAIN over \subseteq old \cup fresh /\ RefsTyped(DOMAIN over, ns, refs) /\ AffectedAre(refs, ns)
       /\ d.scanned = refs /\ d.published = refs /\ d.mirrors = InverseTargets(refs) /\ IsIndex(ix, ns) /\ ix.refs = both
       /\ DOMAIN index.owners \subseteq DOMAIN ix.owners
       /\ \A c \in DOMAIN ix.owners : c \notin affected => c \in DOMAIN index.owners /\ ix.owners[c] = index.owners[c]
  BY <1>1, <1>3, <1>5, <1>6, <1>17, <1>27, <1>28 DEF ns
<1> QED BY <1>29 DEF DeltaApplied, ns, ix, refs, both, before, affected

\* Pointers that stay within fewer rows.
LEMMA RefsWithin ==
    ASSUME NEW rows, NEW ns \in SUBSET Node, NEW refs, RefsTyped(rows, ns, refs), NEW some,
           \A n \in rows : \A f \in Forward[n] : ToSet(refs[n][f]) \subseteq some
    PROVE  RefsTyped(rows, some, refs)
<1>1. ASSUME NEW n \in rows, NEW f \in Forward[n] PROVE refs[n][f] \in Seq(some) /\ Fits(f, refs[n][f])
  <2> DEFINE s == refs[n][f]
  <2>1. s \in Seq(ns) /\ Fits(f, s) /\ ToSet(s) \subseteq some
    BY DEF RefsTyped
  <2> HIDE DEF s
  <2>2. DOMAIN s = 1 .. Len(s) /\ Len(s) \in Nat /\ ToSet(s) = {s[i] : i \in 1 .. Len(s)}
    BY <2>1, Elements
  <2>3. \A i \in 1 .. Len(s) : s[i] \in some
    BY <2>1, <2>2
  <2>4. s \in Seq(some)
    BY <2>1, <2>3
  <2> QED BY <2>1, <2>4 DEF s
<1> QED BY <1>1 DEF RefsTyped

\* Rows that nothing outside points at, and that own nothing outside, can be
\* taken out of the index.
LEMMA WithoutDeadSound ==
    ASSUME NEW ix, NEW ns, IsIndex(ix, ns), NEW dead,
           \A n \in ns \ dead : \A f \in Forward[n] : ToSet(ix.refs[n][f]) \cap dead = {},
           \A c \in DOMAIN ix.owners : ix.owners[c] \in dead => c \in dead
    PROVE  IsIndex(WithoutDead(ix, dead), ns \ dead)
<1> DEFINE left == ns \ dead
           both == ix.refs
           all == ix.owners
           refs == Restrict(both, left)
           owners == Restrict(all, DOMAIN all \ dead)
           out == [o \in Node |-> IF o \in dead THEN {} ELSE {c \in ix.out[o] : ~(c \in dead /\ c \in DOMAIN all /\ all[c] = o)}]
           w == WithoutDead(ix, dead)
<1>1. /\ ns \in SUBSET Node /\ ix.nodes = ns /\ RefsTyped(ns, ns, both) /\ Led(ix.entries, ns) /\ OwnersTyped(ns, all)
      /\ Agrees(both, all) /\ Stated(both, all) /\ ~Cyclic(all) /\ Complete(ns, both)
      /\ ix.inc = Incoming(both) /\ ix.backs \subseteq Field /\ ix.out = [o \in Node |-> ChildrenOf(all, o)]
      /\ ix = [nodes |-> ix.nodes, tf |-> ix.tf, entries |-> ix.entries, backs |-> ix.backs, refs |-> both,
               inc |-> ix.inc, owners |-> all, out |-> ix.out]
  BY DEF IsIndex, Forest
<1>2. w = [ix EXCEPT !.nodes = left, !.entries = {e \in ix.entries : e[3] \notin dead}, !.refs = refs,
                     !.inc = Restrict(Incoming(both), LiveEdges(Incoming(both), dead)), !.owners = owners, !.out = out]
  BY <1>1 DEF WithoutDead
<1>3. \A n \in left : \A f \in Forward[n] : ToSet(both[n][f]) \cap dead = {}
  OBVIOUS
<1>4. \A c \in DOMAIN all : all[c] \in dead => c \in dead
  OBVIOUS
<1>5. DOMAIN refs = left /\ \A n \in left : refs[n] = both[n]
  BY <1>1 DEF Restrict, RefsTyped
<1>6. DOMAIN owners = DOMAIN all \ dead /\ \A c \in DOMAIN owners : owners[c] = all[c]
  BY DEF Restrict
<1>7. Restrict(Incoming(both), LiveEdges(Incoming(both), dead)) = Incoming(refs)
  <2>1. ASSUME NEW e \in DOMAIN Incoming(both), e[2] \notin dead PROVE e[1] \notin dead
    <3>1. IsEdge(both, e[1], e[2], e[3])
      BY <2>1, Edges
    <3>2. e[2] \in left /\ e[3] \in Forward[e[2]] /\ e[1] \in ToSet(both[e[2]][e[3]])
      BY <1>1, <2>1, <3>1 DEF IsEdge, RefsTyped
    <3> QED BY <1>3, <3>2
  <2>2. DOMAIN both = ns
    BY <1>1 DEF RefsTyped
  <2> HIDE DEF both
  <2> QED BY <2>1, <2>2, DeadEdges
<1> HIDE DEF both, all, refs, owners
<1>8. RefsTyped(left, left, refs)
  <2>1. RefsTyped(left, ns, refs)
    BY <1>1, RefsOfFewer DEF refs
  <2>2. \A n \in left : \A f \in Forward[n] : ToSet(both[n][f]) \subseteq left
    <3> SUFFICES ASSUME NEW n \in left, NEW f \in Forward[n] PROVE ToSet(both[n][f]) \subseteq left
      OBVIOUS
    <3>1. n \in ns
      OBVIOUS
    <3>2. both[n][f] \in Seq(ns)
      BY <1>1, <3>1 DEF RefsTyped
    <3>3. ToSet(both[n][f]) \in SUBSET ns
      BY <3>2, Elements
    <3> QED BY <1>3, <3>3
  <2>3. \A n \in left : \A f \in Forward[n] : ToSet(refs[n][f]) \subseteq left
    BY <1>5, <2>2
  <2> HIDE DEF left
  <2> QED BY <1>1, <2>1, <2>3, RefsWithin
<1>9. Led({e \in ix.entries : e[3] \notin dead}, left)
  BY <1>1 DEF Led
<1>10. OwnersTyped(left, owners)
  <2>1. \A c \in DOMAIN owners : c \in left /\ owners[c] \in left
    BY <1>1, <1>4, <1>6 DEF OwnersTyped
  <2>2. owners = [c \in DOMAIN owners |-> owners[c]]
    BY <1>6 DEF owners, Restrict
  <2> QED BY <2>1, <2>2 DEF OwnersTyped
<1>11. ~Cyclic(owners)
  BY <1>1, <1>6, FewerOwners
<1>12. Agrees(refs, owners)
  <2> SUFFICES ASSUME NEW o \in left, NEW f \in Forward[o]
               PROVE  /\ Spec[f].kind = "own" => \A c \in ToSet(both[o][f]) : c \in DOMAIN owners /\ owners[c] = o
                      /\ Spec[f].kind = "ownedby" /\ Len(both[o][f]) = 1 => o \in DOMAIN owners /\ owners[o] = both[o][f][1]
    BY <1>5, <1>8 DEF Agrees, AgreesBut, RefsTyped
  <2>1. o \in DOMAIN both /\ f \in DOMAIN both[o] /\ o \notin dead
    BY <1>1 DEF RefsTyped
  <2>2. /\ Spec[f].kind = "own" => \A c \in ToSet(both[o][f]) : c \in DOMAIN all /\ all[c] = o
        /\ Spec[f].kind = "ownedby" /\ Len(both[o][f]) = 1 => o \in DOMAIN all /\ all[o] = both[o][f][1]
    BY <1>1, <2>1 DEF Agrees, AgreesBut
  <2>3. \A c \in ToSet(both[o][f]) : c \notin dead
    BY <1>3
  <2> QED BY <1>6, <2>1, <2>2, <2>3
<1>13. Stated(refs, owners)
  <2> SUFFICES ASSUME NEW c \in DOMAIN owners PROVE StatedBy(refs, c, owners[c])
    BY DEF Stated
  <2> DEFINE o == owners[c]
  <2>1. c \in left /\ o \in left /\ o = all[c] /\ c \in DOMAIN all
    BY <1>6, <1>10 DEF OwnersTyped
  <2>2. StatedBy(both, c, o)
    BY <1>1, <2>1 DEF Stated
  <2> HIDE DEF o
  <2>3. \A f : IsEdge(both, c, o, f) => IsEdge(refs, c, o, f)
    BY <1>5, <2>1 DEF IsEdge
  <2>4. refs[c] = both[c]
    BY <1>5, <2>1
  <2> QED BY <2>2, <2>3, <2>4 DEF StatedBy, o
<1>14. Complete(left, refs)
  BY <1>1, <1>5 DEF Complete
<1>15. out = [o \in Node |-> ChildrenOf(owners, o)]
  <2> SUFFICES ASSUME NEW o \in Node PROVE out[o] = ChildrenOf(owners, o)
    OBVIOUS
  <2>1. ix.out[o] = ChildrenOf(all, o)
    BY <1>1
  <2>2. CASE o \in dead
    BY <1>4, <1>6, <2>2 DEF ChildrenOf
  <2>3. CASE o \notin dead
    BY <1>6, <2>1, <2>3 DEF ChildrenOf
  <2> QED BY <2>2, <2>3
<1> HIDE DEF out, w
<1>16. w = [nodes |-> left, tf |-> ix.tf, entries |-> {e \in ix.entries : e[3] \notin dead}, backs |-> ix.backs, refs |-> refs,
            inc |-> Incoming(refs), owners |-> owners, out |-> out]
  BY <1>1, <1>2, <1>7
<1>17. /\ w.nodes = left /\ w.entries = {e \in ix.entries : e[3] \notin dead} /\ w.backs = ix.backs /\ w.refs = refs
       /\ w.inc = Incoming(refs) /\ w.owners = owners /\ w.out = out
       /\ w = [nodes |-> w.nodes, tf |-> w.tf, entries |-> w.entries, backs |-> w.backs, refs |-> w.refs,
               inc |-> w.inc, owners |-> w.owners, out |-> w.out]
  BY <1>16
<1>18. left \in SUBSET Node
  BY <1>1
<1>19. IsIndex(w, left)
  BY <1>1, <1>8, <1>9, <1>10, <1>11, <1>12, <1>13, <1>14, <1>15, <1>17, <1>18 DEF IsIndex, Forest
<1> QED BY <1>19 DEF w

\* What a delete of Flush alone would take, and the fields of the survivors that
\* lose a pointer by it.
DeletedAlone == DeleteClosure("deletes")
Losing(closure) == {<<e[2], e[3]>> : e \in Survivors(closure)}

\* Deletes that Flush settles by the index alone (flushIncremental) find the
\* pointers as they were committed, each of them the row that its lookup value
\* finds, and take pointers from one field of a surviving row at most.  It holds
\* of a project without a Tower, whose Flush never takes that way.
QuietDeletes ==
    Route = "deletes" =>
        /\ \A n \in index.nodes : \A f \in Forward[n] :
              /\ live[n].rel[f] = index.refs[n][f]
              /\ \A t \in ToSet(live[n].rel[f]) : Targets(index.entries, live, f, t) = {t}
        /\ ~DeleteVetoed(DeletedAlone) => \A e, d \in Survivors(DeletedAlone) : e[2] = d[2] => e[3] = d[3]

\* The cascade over the committed forest.
LEMMA ClosureRows ==
    /\ DeletedAlone \in SUBSET index.nodes
    /\ deletes \subseteq index.nodes => deletes \subseteq DeletedAlone
    /\ \A o \in DeletedAlone : index.out[o] \cap index.nodes \subseteq DeletedAlone
<1> DEFINE ns == index.nodes
           kids(o) == index.out[o]
           dead == {n \in ns : \A s \in SUBSET ns : (deletes \subseteq s /\ \A o \in s : kids(o) \subseteq s) => n \in s}
<1>1. DeletedAlone = dead
  BY DEF DeletedAlone, DeleteClosure, Closure
<1> HIDE DEF kids, ns
<1>2. \A o \in dead : kids(o) \cap ns \subseteq dead
  OBVIOUS
<1>3. dead \in SUBSET ns /\ (deletes \subseteq ns => deletes \subseteq dead)
  OBVIOUS
<1> QED BY <1>1, <1>2, <1>3 DEF kids, ns

\* Deletes settled by the index alone leave a committed index of the survivors.
LEMMA DeleteRouteSound ==
    ASSUME IsGraph(live), IsIndex(index, DOMAIN live), QuietDeletes, Route = "deletes",
           NEW closure, closure = DeletedAlone, ~DeleteVetoed(closure),
           NEW losing, losing = Losing(closure),
           NEW base, base = Dropped(losing, closure),
           NEW over, over = Restrict(base, {h[1] : h \in losing}),
           NEW d, DeltaAccepted(over, {}, base, d)
    PROVE  /\ IsGraph(over) /\ IsIndex(d.index, DOMAIN live)
           /\ IsIndex(WithoutDead(d.index, closure), DOMAIN live \ closure)
<1> DEFINE old == DOMAIN live
           before == index.refs
           refs == Scanned(over, {}, base)
           both == refs ++ before
           ix == d.index
           holders == {h[1] : h \in losing}
<1>1. /\ old \in SUBSET Node /\ index.nodes = old /\ RefsTyped(old, old, before) /\ index.inc = Incoming(before)
      /\ Agrees(before, index.owners) /\ index.out = [o \in Node |-> ChildrenOf(index.owners, o)]
      /\ OwnersTyped(old, index.owners)
  BY DEF IsIndex, Forest
<1>2. /\ \A n \in old : \A f \in Forward[n] :
            /\ live[n].rel[f] = before[n][f]
            /\ \A t \in ToSet(live[n].rel[f]) : Targets(index.entries, live, f, t) = {t}
  BY <1>1 DEF QuietDeletes
<1>3. closure \in SUBSET old /\ \A o \in closure : index.out[o] \cap old \subseteq closure
  BY <1>1, ClosureRows
<1>4. /\ IsGraph(base) /\ DOMAIN base = old /\ IsDropped(base, losing, closure)
  BY DroppedTyped
<1>5. \A t, n, f : <<t, n, f>> \in Survivors(closure) <=> IsEdge(before, t, n, f) /\ t \in closure /\ n \notin closure
  <2> SUFFICES ASSUME NEW t, NEW n, NEW f
               PROVE  <<t, n, f>> \in Survivors(closure) <=> IsEdge(before, t, n, f) /\ t \in closure /\ n \notin closure
    OBVIOUS
  <2>1. <<t, n, f>> \in DOMAIN Incoming(before) <=> IsEdge(before, t, n, f)
    BY Edges
  <2> HIDE DEF before
  <2> QED BY <1>1, <2>1 DEF Survivors
<1>6. ASSUME NEW n \in holders PROVE n \in old /\ n \notin closure
  <2>1. PICK e \in Survivors(closure) : n = e[2]
    BY DEF Losing
  <2>2. e \in DOMAIN Incoming(before) /\ e[2] \notin closure
    BY <1>1, <2>1 DEF Survivors
  <2>3. IsEdge(before, e[1], e[2], e[3])
    BY <2>2, Edges
  <2> QED BY <1>1, <2>1, <2>2, <2>3 DEF IsEdge, RefsTyped
<1>7. ASSUME NEW n \in old, n \notin closure, NEW f \in Forward[n], NEW t \in ToSet(before[n][f]), t \in closure
      PROVE  <<n, f>> \in losing /\ n \in holders
  <2>1. IsEdge(before, t, n, f)
    BY <1>1 DEF IsEdge, RefsTyped
  <2> DEFINE e == <<t, n, f>>
  <2>2. e \in Survivors(closure) /\ e[2] = n /\ e[3] = f
    BY <1>5, <1>7, <2>1
  <2> HIDE DEF e
  <2>3. <<n, f>> \in losing
    BY <2>2 DEF Losing
  <2> QED BY <2>3
<1>8. holders \in SUBSET DOMAIN base
  BY <1>4, <1>6
<1>9. IsGraph(over) /\ DOMAIN over = holders /\ \A n \in holders : over[n] = base[n]
  BY <1>4, <1>8, GraphOfFewer
<1>10. IsIndex(index, old)
  OBVIOUS
<1>11. /\ RefsTyped(DOMAIN over, old \cup {}, refs) /\ IsIndex(ix, old \cup {}) /\ ix.refs = both
  <2> DEFINE fresh == {}
  <2>1. fresh \in SUBSET DOMAIN over /\ DeltaAccepted(over, fresh, base, d)
    OBVIOUS
  <2> HIDE DEF old, fresh
  <2>2. /\ RefsTyped(DOMAIN over, old \cup fresh, Scanned(over, fresh, base)) /\ IsIndex(d.index, old \cup fresh)
        /\ d.index.refs = Scanned(over, fresh, base) ++ index.refs
    <3>1. DeltaApplied(old, over, fresh, base, d)
      BY <1>9, <1>10, <2>1, DeltaSound
    <3> QED BY <3>1 DEF DeltaApplied
  <2> QED BY <2>2 DEF fresh
<1>12. old \cup {} = old
  OBVIOUS
<1> HIDE DEF old
<1>13. /\ RefsTyped(DOMAIN over, old, refs) /\ IsIndex(ix, old) /\ DOMAIN refs = holders
  BY <1>9, <1>11, <1>12 DEF RefsTyped
<1>14. ASSUME NEW n \in holders, NEW f \in Forward[n] PROVE ToSet(refs[n][f]) \cap closure = {}
  <2> DEFINE entries == index.entries \cup Entries(over, {}, index.tf)
             s == over[n].rel[f]
  <2>1. entries = index.entries
    <3>1. Entries(over, {}, index.tf) = {}
      BY DEF Entries
    <3> QED BY <3>1
  <2>2. refs[n][f] = Resolved(index.entries, base, f, s)
    BY <1>9, <2>1 DEF Scanned, ScanAll, ScanNode
  <2>3. n \in old /\ n \notin closure /\ n \in Node /\ f \in FieldsOf[n]
    BY <1>1, <1>6, Fields
  <2>4. live[n].rel[f] \in Seq(Node)
    BY <2>3, GraphRow DEF old
  <2>5. s = IF <<n, f>> \in losing THEN Without(live[n].rel[f], closure) ELSE live[n].rel[f]
    BY <1>4, <1>9, <2>3 DEF IsDropped, old
  <2> DEFINE l == live[n].rel[f]
  <2>6. Without(l, closure) \in Seq(Node) /\ ToSet(Without(l, closure)) = ToSet(l) \ closure
    <3> HIDE DEF l
    <3> QED BY <2>4, Remaining DEF l
  <2>7. s \in Seq(Node) /\ ToSet(s) \subseteq ToSet(live[n].rel[f])
    BY <2>4, <2>5, <2>6
  <2>8. ToSet(s) \cap closure = {}
    <3>1. CASE <<n, f>> \in losing
      <4>1. ToSet(s) = ToSet(live[n].rel[f]) \ closure
        BY <2>5, <2>6, <3>1
      <4> QED BY <4>1
    <3>2. CASE <<n, f>> \notin losing
      <4>1. s = before[n][f]
        BY <1>2, <2>3, <2>5, <3>2
      <4> HIDE DEF s
      <4> QED BY <1>7, <2>3, <3>2, <4>1
    <3> QED BY <3>1, <3>2
  <2>9. ASSUME NEW t \in ToSet(s) PROVE Choice(index.entries, base, f, t) = t
    <3>1. Targets(index.entries, live, f, t) = {t}
      BY <1>2, <2>3, <2>7
    <3>2. PointerValue(base, f, t) = PointerValue(live, f, t)
      BY <1>4 DEF PointerValue, IsDropped, old
    <3>3. Targets(index.entries, base, f, t) = {t}
      BY <3>1, <3>2 DEF Targets
    <3>4. \A x \in {t} : x = t
      OBVIOUS
    <3> QED BY <3>3, <3>4 DEF Choice
  <2>10. ASSUME NEW x \in ToSet(refs[n][f]) PROVE x \in ToSet(s)
    <3> DEFINE known == index.entries
    <3>1. x \in ToSet(Resolved(known, base, f, s)) /\ s \in Seq(Node)
      BY <2>2, <2>7
    <3> HIDE DEF known, s
    <3>2. PICK t \in ToSet(s) : x = Choice(known, base, f, t)
      BY <3>1, ResolvedFrom
    <3> QED BY <2>9, <3>2 DEF known
  <2>11. ToSet(refs[n][f]) \subseteq ToSet(s)
    BY <2>10
  <2> QED BY <2>8, <2>11
<1>15. /\ \A n \in holders : both[n] = refs[n]
       /\ \A n \in old \ holders : both[n] = before[n]
  BY <1>1, <1>13 DEF ++, RefsTyped
<1>16. ASSUME NEW n \in old \ closure, NEW f \in Forward[n] PROVE ToSet(both[n][f]) \cap closure = {}
  <2>1. CASE n \in holders
    BY <1>14, <1>15, <2>1
  <2>2. CASE n \notin holders
    <3>1. n \in old /\ n \notin closure /\ both[n] = before[n]
      BY <1>15, <2>2
    <3> HIDE DEF both, before, holders
    <3> QED BY <1>7, <2>2, <3>1
  <2> QED BY <2>1, <2>2
<1> DEFINE owners == ix.owners
<1>17. RefsTyped(old, old, both) /\ Stated(both, owners) /\ OwnersTyped(old, owners)
  BY <1>11, <1>13 DEF IsIndex, Forest
<1>18. ASSUME NEW c \in DOMAIN owners, owners[c] \in closure PROVE c \in closure
  <2> DEFINE o == owners[c]
  <2>1. SUFFICES ASSUME c \notin closure PROVE FALSE
    OBVIOUS
  <2>2. c \in old /\ o \in closure /\ o \in old /\ StatedBy(both, c, o) /\ o \in Node
    BY <1>1, <1>3, <1>17, <1>18 DEF Stated, OwnersTyped
  <2> HIDE DEF o, owners
  <2>3. CASE \E f : IsEdge(both, c, o, f) /\ Spec[f].kind = "own"
    <3>1. PICK f : IsEdge(both, c, o, f) /\ Spec[f].kind = "own"
      BY <2>3
    <3>2. o \notin holders
      BY <1>6, <2>2
    <3>3. both[o] = before[o]
      BY <1>15, <2>2, <3>2
    <3>4. o \in DOMAIN before /\ f \in DOMAIN before[o] /\ c \in ToSet(before[o][f])
      BY <1>1, <2>2, <3>1, <3>3 DEF IsEdge, RefsTyped
    <3>5. c \in DOMAIN index.owners /\ index.owners[c] = o
      BY <1>1, <3>1, <3>4 DEF Agrees, AgreesBut
    <3>6. c \in index.out[o]
      BY <1>1, <2>2, <3>5 DEF ChildrenOf
    <3> QED BY <1>3, <2>1, <2>2, <3>6
  <2>4. CASE \E f \in DOMAIN both[c] : Spec[f].kind = "ownedby" /\ Len(both[c][f]) = 1 /\ both[c][f][1] = o
    <3>1. PICK f \in DOMAIN both[c] : Len(both[c][f]) = 1 /\ both[c][f][1] = o
      BY <2>4
    <3>2. f \in Forward[c] /\ both[c][f] \in Seq(old)
      BY <1>17, <2>2, <3>1 DEF RefsTyped
    <3> DEFINE s == both[c][f]
    <3>3. s \in Seq(old) /\ Len(s) = 1 /\ s[1] = o
      BY <3>1, <3>2
    <3>4. ToSet(s) \cap closure = {}
      BY <1>16, <2>1, <2>2, <3>2
    <3> HIDE DEF s
    <3>5. s # <<>>
      BY ONLY <3>3
    <3>6. o \in ToSet(s)
      BY <3>3, <3>5, FirstElement
    <3> QED BY <2>2, <3>4, <3>6
  <2> QED BY <2>2, <2>3, <2>4 DEF StatedBy
<1> HIDE DEF ix, both, owners
<1>19. /\ \A n \in old \ closure : \A f \in Forward[n] : ToSet(ix.refs[n][f]) \cap closure = {}
       /\ \A c \in DOMAIN ix.owners : ix.owners[c] \in closure => c \in closure
  BY <1>11, <1>16, <1>18 DEF owners
<1>20. IsIndex(WithoutDead(ix, closure), old \ closure)
  BY <1>13, <1>19, WithoutDeadSound
<1> QED BY <1>9, <1>13, <1>20 DEF ix, old

----------------------------------------------------------------------------
\* The inductive invariant.

\* The rows, the index of them, and the model it was built from if it is kept.
Committed ==
    /\ IsGraph(live) /\ IsIndex(index, DOMAIN live)
    /\ graph # None => IsKept(graph, DOMAIN live)

\* The open transaction: new rows are loaded, and every other row that is
\* loaded has a snapshot.
Staged ==
    /\ tx = [work |-> tx.work, orig |-> tx.orig, fresh |-> tx.fresh, del |-> tx.del, scalar |-> tx.scalar, edits |-> tx.edits]
    /\ IsGraph(tx.work) /\ IsGraph(tx.orig) /\ tx.edits \in 0 .. MaxEdits
    /\ tx.fresh \subseteq DOMAIN tx.work /\ DOMAIN tx.work \subseteq DOMAIN tx.orig \cup tx.fresh

\* The replica of an index that is still published has no row that is gone.
Shadowed ==
    replica # None =>
        /\ DOMAIN replica.rows \subseteq Node /\ replica.current \in BOOLEAN
        /\ replica.current => DOMAIN replica.rows \subseteq DOMAIN live

\* Rows queued by an Unsafe session are new, and rows it deletes exist.
Queued ==
    /\ IsGraph(pending) /\ DOMAIN pending \cap DOMAIN live = {}
    /\ deletes \subseteq DOMAIN live /\ edits \in 0 .. MaxEdits

RelationInv == project \in DOMAIN Projects /\ Committed /\ Staged /\ Shadowed /\ Queued

\* The type invariant is part of it.
LEMMA Typed ==
    ASSUME RelationInv
    PROVE  TypeOK
<1> DEFINE ns == DOMAIN live
           refs == index.refs
           owners == index.owners
<1>1. /\ project \in DOMAIN Projects /\ IsGraph(live) /\ IsGraph(pending) /\ IsGraph(tx.work) /\ IsGraph(tx.orig)
      /\ deletes \subseteq ns /\ edits \in 0 .. MaxEdits /\ tx.edits \in 0 .. MaxEdits
  BY DEF RelationInv, Committed, Staged, Queued
<1>2. /\ ns \in SUBSET Node /\ index.nodes = ns /\ RefsTyped(ns, ns, refs) /\ OwnersTyped(ns, owners) /\ index.inc = Incoming(refs)
  BY DEF RelationInv, Committed, IsIndex, Forest
<1>3. DOMAIN index.refs = index.nodes /\ index.nodes \subseteq Node
  BY <1>2 DEF RefsTyped
<1>4. index.owners \in [DOMAIN index.owners -> index.nodes] /\ DOMAIN index.owners \subseteq index.nodes
  BY <1>2 DEF OwnersTyped
<1>5. ASSUME NEW e \in DOMAIN index.inc PROVE e[1] \in index.nodes /\ e[2] \in index.nodes /\ index.inc[e] > 0
  <2> HIDE DEF refs, ns
  <2>1. e \in DOMAIN Incoming(refs)
    BY <1>2
  <2>2. IsEdge(refs, e[1], e[2], e[3]) /\ Incoming(refs)[e] = Count(refs, e[1], e[2], e[3])
    BY <2>1, Edges
  <2>3. e[1] \in ns /\ e[2] \in ns /\ Count(refs, e[1], e[2], e[3]) > 0
    BY <1>2, <2>2, EdgesTyped
  <2> QED BY <1>2, <2>2, <2>3
<1>6. graph # None => graph.ok /\ graph.nodes = index.nodes
  BY <1>2 DEF RelationInv, Committed, IsKept, IsModel
<1>7. replica # None => DOMAIN replica.rows \subseteq Node /\ replica.current \in BOOLEAN
  BY DEF RelationInv, Shadowed
<1>8. \A g \in {live, pending, tx.work, tx.orig} : IsGraph(g)
  BY <1>1
<1> QED BY <1>1, <1>3, <1>4, <1>5, <1>6, <1>7, <1>8 DEF TypeOK

\* A model that is accepted and stored.
LEMMA SettleStep ==
    ASSUME NEW g, IsGraph(g), NEW m, IsModel(m, DOMAIN g), NEW committed, NEW explicit, NEW dead,
           dead = Doomed(m, committed, explicit), Accepted(m, explicit, dead),
           live' = SettledRows(g, m, dead), StoreCommitted(m, dead)
    PROVE  Committed' /\ DOMAIN live' = DOMAIN g \ dead
<1> DEFINE ns == DOMAIN g
<1>1. ns \in SUBSET Node /\ m.nodes = ns /\ RefsTyped(ns, ns, m.refs)
  BY DEF IsModel
<1>2. IsGraph(live') /\ DOMAIN live' = ns \ dead
  <2>1. m.nodes = DOMAIN g /\ RefsTyped(DOMAIN g, ns, m.refs) /\ ns \in SUBSET Node
    BY <1>1
  <2> HIDE DEF ns
  <2>2. IsGraph(SettledRows(g, m, dead)) /\ DOMAIN SettledRows(g, m, dead) = m.nodes \ dead
    BY <2>1, SettledTyped
  <2> QED BY <1>1, <2>2
<1>3. IsIndex(index', ns \ dead)
  <2>1. IsIndex(BuildIndex(m, dead), ns \ dead)
    BY BuildIndexSound
  <2> QED BY <2>1 DEF StoreCommitted
<1>4. ASSUME graph' # None PROVE IsKept(graph', DOMAIN live')
  <2>1. dead = {} /\ graph' = m
    BY <1>4 DEF StoreCommitted
  <2>2. IsKept(m, ns)
    BY <2>1, AcceptedComplete
  <2>3. DOMAIN live' = ns
    BY <1>2, <2>1
  <2> QED BY <2>1, <2>2, <2>3
<1> QED BY <1>2, <1>3, <1>4 DEF Committed

\* A delta that is published.
LEMMA DeltaStep ==
    ASSUME NEW old, IsIndex(index, old), NEW over, IsGraph(over), NEW fresh \in SUBSET DOMAIN over, NEW mem, NEW d,
           DeltaAccepted(over, fresh, mem, d), NEW g, IsGraph(g), DOMAIN g = old \cup fresh
    PROVE  IsGraph(DeltaRows(g, d)) /\ DOMAIN DeltaRows(g, d) = old \cup fresh /\ Published(DeltaRows(g, d), g, d)
<1> DEFINE ns == old \cup fresh
           refs == Scanned(over, fresh, mem)
           rows == DOMAIN over
<1>1. DeltaApplied(old, over, fresh, mem, d)
  BY DeltaSound
<1>2. /\ rows \subseteq ns /\ RefsTyped(rows, ns, refs) /\ d.scanned = refs /\ d.published = refs /\ IsIndex(d.index, ns)
  BY <1>1 DEF DeltaApplied
<1>3. /\ ns \in SUBSET Node /\ d.index.nodes = ns /\ d.index.inc = Incoming(d.index.refs) /\ RefsTyped(ns, ns, d.index.refs)
  BY <1>2 DEF IsIndex
<1>4. HeldByRows(d.index.inc)
  <2> DEFINE all == d.index.refs
  <2>1. RefsTyped(ns, ns, all)
    BY <1>3
  <2> HIDE DEF all, ns
  <2>2. HeldByRows(Incoming(all))
    BY <1>3, <2>1, EdgesHeld
  <2> QED BY <1>3, <2>2 DEF all
<1>5. RefsTyped(rows, ns, d.scanned) /\ RefsTyped(rows, ns, d.published) /\ d.index.nodes \in SUBSET Node /\ rows \in SUBSET Node
  BY <1>2, <1>3
<1> HIDE DEF ns, rows, refs
<1>6. IsGraph(DeltaRows(g, d)) /\ DOMAIN DeltaRows(g, d) = DOMAIN g /\ Published(DeltaRows(g, d), g, d)
  BY <1>3, <1>4, <1>5, DeltaRowsTyped
<1> QED BY <1>6 DEF ns

\* A transaction commits.
LEMMA CommitKeeps ==
    ASSUME RelationInv, Commit
    PROVE  RelationInv'
<1>1. PICK aliased \in Aliasing : CommitFrom(TxDelta(aliased), TxModel(aliased))
  BY DEF Commit
<1> DEFINE mem == Memory(aliased)
           d == TxDelta(aliased)
           m == TxModel(aliased)
           dead == Doomed(m, index.out, tx.del)
           g == Over ++ live
<1>2. /\ IsGraph(live) /\ IsIndex(index, DOMAIN live) /\ (graph # None => IsKept(graph, DOMAIN live))
      /\ IsGraph(tx.work) /\ tx.fresh \subseteq DOMAIN tx.work /\ project \in DOMAIN Projects
  BY DEF RelationInv, Committed, Staged
<1>3. /\ Settled /\ tx' = NoTx /\ UNCHANGED <<project, pending, deletes, edits>>
  BY DEF Commit
<1>4. IsGraph(Over) /\ DOMAIN Over = Touched \cup tx.fresh /\ tx.fresh \in SUBSET DOMAIN Over
  <2>1. Touched \cup tx.fresh \in SUBSET DOMAIN tx.work
    BY <1>2 DEF Touched
  <2>2. IsGraph(Over) /\ DOMAIN Over = Touched \cup tx.fresh
    BY <1>2, <2>1, GraphOfFewer DEF Over
  <2> QED BY <2>2
<1>5. IsGraph(g) /\ DOMAIN g = DOMAIN Over \cup DOMAIN live
  <2>1. IsGraph(g)
    BY <1>2, <1>4, GraphOver
  <2> QED BY <2>1 DEF ++
<1>6. CommitAs(Outcome(d, m, dead), d, m, dead)
  BY <1>1 DEF CommitFrom, CommitWith
<1>7. Staged'
  <2>1. MaxEdits' \in Nat
    BY <1>2, <1>3, ProjectsAssumption DEF MaxEdits
  <2>2. IsGraph(<<>>) /\ 0 \in 0 .. MaxEdits'
    BY <2>1 DEF IsGraph
  <2> QED BY <1>3, <2>2 DEF Staged, NoTx
<1>8. Queued'
  BY <1>3 DEF RelationInv, Queued, Settled, MaxEdits
<1>9. ASSUME Committed', Shadowed' PROVE RelationInv'
  BY <1>2, <1>3, <1>7, <1>8, <1>9 DEF RelationInv
<1>10. CASE Outcome(d, m, dead) = "rejected"
  <2>1. UNCHANGED <<live, index, graph, replica>>
    BY <1>6, <1>10 DEF CommitAs
  <2> QED BY <1>9, <2>1 DEF RelationInv, Committed, Shadowed
<1>11. CASE Outcome(d, m, dead) = "scalars"
  <2>1. live' = g /\ UNCHANGED <<index, graph, replica>>
    BY <1>6, <1>11 DEF CommitAs
  <2>2. ~Conflict /\ ~GraphChanged
    BY <1>11 DEF Outcome
  <2>3. DOMAIN Over \subseteq DOMAIN live
    BY <1>4, <2>2 DEF Conflict, GraphChanged
  <2>4. DOMAIN live' = DOMAIN live
    BY <1>5, <2>1, <2>3
  <2> HIDE DEF g
  <2>5. Committed' /\ Shadowed'
    BY <1>2, <1>5, <2>1, <2>4 DEF RelationInv, Committed, Shadowed
  <2> QED BY <1>9, <2>5
<1>12. CASE Outcome(d, m, dead) = "delta"
  <2>1. live' = DeltaRows(g, d) /\ index' = d.index /\ graph' = None /\ replica' = replica
    BY <1>6, <1>12 DEF CommitAs
  <2>2. d.verdict = "accept"
    BY <1>12 DEF Outcome
  <2>3. DeltaAccepted(Over, tx.fresh, mem, d)
    BY <2>2, DeltaParts DEF TxDelta
  <2> DEFINE old == DOMAIN live
             fresh == tx.fresh
             over == Over
  <2>4. /\ IsIndex(index, old) /\ IsGraph(over) /\ fresh \in SUBSET DOMAIN over /\ DeltaAccepted(over, fresh, mem, d)
    BY <1>2, <1>4, <2>3
  <2> HIDE DEF old, fresh, over, mem, d, g
  <2>5. DeltaApplied(old, over, fresh, mem, d)
    BY <2>4, DeltaSound
  <2>6. DOMAIN over \subseteq old \cup fresh /\ IsIndex(d.index, old \cup fresh)
    BY <2>5 DEF DeltaApplied
  <2>7. DOMAIN g = old \cup fresh
    BY <1>5, <2>4, <2>6 DEF old, over
  <2>8. IsGraph(DeltaRows(g, d)) /\ DOMAIN DeltaRows(g, d) = old \cup fresh
    BY <1>5, <2>4, <2>7, DeltaStep
  <2>9. Committed'
    BY <2>1, <2>6, <2>8 DEF Committed
  <2>10. Shadowed'
    BY <2>1, <2>8 DEF RelationInv, Shadowed, old
  <2> QED BY <1>9, <2>9, <2>10
<1>13. CASE Outcome(d, m, dead) = "model"
  <2>1. live' = SettledRows(g, m, dead) /\ StoreCommitted(m, dead) /\ replica' = Outdated
    BY <1>6, <1>13 DEF CommitAs
  <2>2. Accepted(m, tx.del, dead)
    BY <1>13 DEF Outcome
  <2>3. IsModel(m, DOMAIN g)
    BY <1>2, <1>4, TransactionModelSound DEF TxModel
  <2>4. Committed'
    <3> HIDE DEF g, m
    <3> QED BY <1>5, <2>1, <2>2, <2>3, SettleStep
  <2>5. Shadowed'
    BY <2>1 DEF RelationInv, Shadowed, Outdated
  <2> QED BY <1>9, <2>4, <2>5
<1>14. Outcome(d, m, dead) \in {"rejected", "scalars", "delta", "model"}
  BY DEF Outcome
<1> QED BY <1>10, <1>11, <1>12, <1>13, <1>14

\* The model a delete is settled by.
LEMMA DeletedModel ==
    ASSUME RelationInv
    PROVE  IsModel(TransactionModel(<<>>, {}, live), DOMAIN live)
<1> DEFINE over == <<>>
           fresh == {}
<1>1. IsGraph(live) /\ IsIndex(index, DOMAIN live) /\ (graph # None => IsKept(graph, DOMAIN live))
  BY DEF RelationInv, Committed
<1>2. IsGraph(over) /\ fresh \in SUBSET DOMAIN over /\ DOMAIN (over ++ live) = DOMAIN live
  BY DEF IsGraph, ++
<1> HIDE DEF over, fresh
<1>3. IsModel(TransactionModel(over, fresh, live), DOMAIN (over ++ live))
  BY <1>1, <1>2, TransactionModelSound
<1> QED BY <1>2, <1>3 DEF over, fresh

\* A row is deleted while a transaction is open.
LEMMA ConcurrentDeleteKeeps ==
    ASSUME RelationInv, ConcurrentDelete
    PROVE  RelationInv'
<1> DEFINE m == TransactionModel(<<>>, {}, live)
<1>1. PICK n \in DOMAIN live : DeleteRow(n, m)
  BY DEF ConcurrentDelete
<1> DEFINE dead == Doomed(m, index.out, {n})
<1>2. /\ IsGraph(live) /\ IsIndex(index, DOMAIN live) /\ (graph # None => IsKept(graph, DOMAIN live))
      /\ Settled /\ replica' = Outdated /\ UNCHANGED <<project, pending, deletes, edits, tx>>
  BY DEF RelationInv, Committed, ConcurrentDelete
<1>3. Accepted(m, {n}, dead) /\ live' = SettledRows(live, m, dead) /\ StoreCommitted(m, dead)
  BY <1>1 DEF DeleteRow, SettleDelete
<1>4. IsModel(m, DOMAIN live)
  BY DeletedModel
<1>5. Committed'
  <2> HIDE DEF m
  <2> QED BY <1>2, <1>3, <1>4, SettleStep
<1>6. Shadowed'
  BY <1>2 DEF RelationInv, Shadowed, Outdated
<1>7. Queued'
  BY <1>2 DEF RelationInv, Queued, Settled, MaxEdits
<1>8. Staged'
  BY <1>2 DEF RelationInv, Staged, MaxEdits
<1> QED BY <1>2, <1>5, <1>6, <1>7, <1>8 DEF RelationInv

\* Copies of rows are loaded into the transaction.
LEMMA LoadKeeps ==
    ASSUME RelationInv, NEW ch, IsGraph(ch), tx.edits < MaxEdits, NEW t, t.work = Load(ch).work, t.orig = Load(ch).orig,
           t.edits = Load(ch).edits, t = [work |-> t.work, orig |-> t.orig, fresh |-> t.fresh, del |-> t.del, scalar |-> t.scalar, edits |-> t.edits],
           t.fresh \subseteq DOMAIN ch \cup tx.fresh, tx.fresh \subseteq t.fresh, DOMAIN ch \subseteq DOMAIN tx.work \cup DOMAIN live \cup t.fresh,
           tx' = t, UNCHANGED <<project, live, index, graph, replica, pending, deletes, edits>>
    PROVE  RelationInv'
<1>1. /\ IsGraph(tx.work) /\ IsGraph(tx.orig) /\ tx.edits \in 0 .. MaxEdits
      /\ tx.fresh \subseteq DOMAIN tx.work /\ DOMAIN tx.work \subseteq DOMAIN tx.orig \cup tx.fresh
      /\ tx = [work |-> tx.work, orig |-> tx.orig, fresh |-> tx.fresh, del |-> tx.del, scalar |-> tx.scalar, edits |-> tx.edits]
      /\ IsGraph(live) /\ project \in DOMAIN Projects
  BY DEF RelationInv, Staged, Committed
<1> DEFINE snaps == Restrict(live, DOMAIN ch \cap DOMAIN live)
<1>2. t.work = ch ++ tx.work /\ t.orig = tx.orig ++ snaps /\ t.edits = tx.edits + 1
  BY <1>1 DEF Load
<1>3. IsGraph(snaps) /\ DOMAIN snaps = DOMAIN ch \cap DOMAIN live
  <2>1. DOMAIN ch \cap DOMAIN live \in SUBSET DOMAIN live
    OBVIOUS
  <2> QED BY <1>1, <2>1, GraphOfFewer
<1> HIDE DEF snaps
<1>4. IsGraph(t.work) /\ IsGraph(t.orig)
  <2>1. IsGraph(ch ++ tx.work)
    BY <1>1, GraphOver
  <2>2. IsGraph(tx.orig ++ snaps)
    BY <1>1, <1>3, GraphOver
  <2> QED BY <1>2, <2>1, <2>2
<1>5. DOMAIN t.work = DOMAIN ch \cup DOMAIN tx.work /\ DOMAIN t.orig = DOMAIN tx.orig \cup (DOMAIN ch \cap DOMAIN live)
  BY <1>2, <1>3 DEF ++
<1>6. t.fresh \subseteq DOMAIN t.work /\ DOMAIN t.work \subseteq DOMAIN t.orig \cup t.fresh
  BY <1>1, <1>5
<1>7. t.edits \in 0 .. MaxEdits
  <2>1. MaxEdits \in Nat
    BY <1>1, ProjectsAssumption DEF MaxEdits
  <2> QED BY <1>1, <1>2, <2>1
<1>8. Staged'
  BY <1>4, <1>6, <1>7 DEF Staged, MaxEdits
<1> QED BY <1>8 DEF RelationInv, Committed, Shadowed, Queued, MaxEdits

\* Edits, touched rows, new rows and deletes of a transaction.
LEMMA TxKeeps ==
    ASSUME RelationInv, TxEdit \/ TxTouch \/ TxCreate \/ TxDelete
    PROVE  RelationInv'
<1> DEFINE view == tx.work ++ live
<1>1. /\ IsGraph(tx.work) /\ IsGraph(live) /\ project \in DOMAIN Projects
      /\ tx = [work |-> tx.work, orig |-> tx.orig, fresh |-> tx.fresh, del |-> tx.del, scalar |-> tx.scalar, edits |-> tx.edits]
  BY DEF RelationInv, Staged, Committed
<1>2. IsGraph(view) /\ DOMAIN view = DOMAIN tx.work \cup DOMAIN live
  <2>1. IsGraph(view)
    BY <1>1, GraphOver
  <2> QED BY <2>1 DEF ++
<1>3. UNCHANGED <<project, live, index, graph, replica, pending, deletes, edits>> /\ tx.edits < MaxEdits
  BY DEF TxEdit, TxTouch, TxCreate, TxDelete
<1>4. ASSUME NEW ch
      PROVE  /\ Load(ch).fresh = tx.fresh /\ Load(ch).del = tx.del /\ Load(ch).scalar = tx.scalar
             /\ Load(ch) = [work |-> Load(ch).work, orig |-> Load(ch).orig, fresh |-> Load(ch).fresh, del |-> Load(ch).del,
                            scalar |-> Load(ch).scalar, edits |-> Load(ch).edits]
  <2> DEFINE w == ch ++ tx.work
             s == tx.orig ++ Restrict(live, DOMAIN ch \cap DOMAIN live)
  <2>1. Load(ch) = [tx EXCEPT !.work = w, !.edits = tx.edits + 1, !.orig = s]
    BY DEF Load
  <2> HIDE DEF w, s
  <2>2. Load(ch) = [work |-> w, orig |-> s, fresh |-> tx.fresh, del |-> tx.del, scalar |-> tx.scalar, edits |-> tx.edits + 1]
    BY <1>1, <2>1
  <2> QED BY <2>2
<1> HIDE DEF view
<1>5. CASE TxEdit
  <2>1. PICK ch \in Edits(view) : tx' = Load(ch)
    BY <1>5 DEF TxEdit, view
  <2>2. IsGraph(ch) /\ DOMAIN ch \subseteq DOMAIN view
    <3>1. IsEdit(view, ch)
      BY <1>1, <1>2, EditsTyped
    <3> QED BY <3>1 DEF IsEdit
  <2> DEFINE t == Load(ch)
  <2>3. /\ t.fresh = tx.fresh
        /\ t = [work |-> t.work, orig |-> t.orig, fresh |-> t.fresh, del |-> t.del, scalar |-> t.scalar, edits |-> t.edits]
    BY <1>4
  <2>4. t.work = Load(ch).work /\ t.orig = Load(ch).orig /\ t.edits = Load(ch).edits /\ tx' = t
    BY <2>1
  <2> HIDE DEF t
  <2> QED BY <1>2, <1>3, <2>2, <2>3, <2>4, LoadKeeps
<1>6. CASE TxTouch
  <2>1. PICK n \in DOMAIN view \ tx.scalar : tx' = [Load(Single(n, view[n])) EXCEPT !.scalar = @ \cup {n}]
    BY <1>6 DEF TxTouch, view
  <2> DEFINE ch == Single(n, view[n])
             l == Load(ch)
             t == [l EXCEPT !.scalar = @ \cup {n}]
  <2>2. IsGraph(ch) /\ DOMAIN ch \subseteq DOMAIN view
    <3>1. n \in DOMAIN view /\ n \in Node /\ view[n] \in Row(n)
      BY <1>2, <2>1, GraphRow
    <3>2. IsEdit(view, ch)
      BY <1>2, <3>1, SingleEdit
    <3> QED BY <3>2 DEF IsEdit
  <2>3. /\ l.fresh = tx.fresh
        /\ l = [work |-> l.work, orig |-> l.orig, fresh |-> l.fresh, del |-> l.del, scalar |-> l.scalar, edits |-> l.edits]
    BY <1>4
  <2>4. l.work = Load(ch).work /\ l.orig = Load(ch).orig /\ l.edits = Load(ch).edits /\ tx' = t
    BY <2>1
  <2> HIDE DEF l, ch
  <2>5. t = [work |-> l.work, orig |-> l.orig, fresh |-> l.fresh, del |-> l.del, scalar |-> l.scalar \cup {n}, edits |-> l.edits]
    BY <2>3
  <2> HIDE DEF t
  <2>6. /\ t.work = Load(ch).work /\ t.orig = Load(ch).orig /\ t.edits = Load(ch).edits /\ t.fresh = tx.fresh /\ tx' = t
        /\ t = [work |-> t.work, orig |-> t.orig, fresh |-> t.fresh, del |-> t.del, scalar |-> t.scalar, edits |-> t.edits]
    BY <2>3, <2>4, <2>5
  <2> QED BY <1>2, <1>3, <2>2, <2>6, LoadKeeps
<1>7. CASE TxCreate
  <2>1. PICK n \in Room \ DOMAIN view : \E row \in NewRows(view, n) : tx' = [Load(Single(n, row)) EXCEPT !.fresh = @ \cup {n}]
    BY <1>7 DEF TxCreate, view
  <2>2. PICK row \in NewRows(view, n) : tx' = [Load(Single(n, row)) EXCEPT !.fresh = @ \cup {n}]
    BY <2>1
  <2> DEFINE ch == Single(n, row)
             l == Load(ch)
             t == [l EXCEPT !.fresh = @ \cup {n}]
  <2>3. n \in Node
    BY <1>1, <2>1, ProjectsAssumption DEF Room
  <2>4. row \in Row(n)
    BY <1>2, <2>3, NewRowsTyped
  <2>5. IsGraph(ch) /\ DOMAIN ch = {n}
    BY <2>3, <2>4 DEF IsGraph, Single
  <2>6. /\ l.fresh = tx.fresh
        /\ l = [work |-> l.work, orig |-> l.orig, fresh |-> l.fresh, del |-> l.del, scalar |-> l.scalar, edits |-> l.edits]
    BY <1>4
  <2>7. l.work = Load(ch).work /\ l.orig = Load(ch).orig /\ l.edits = Load(ch).edits /\ tx' = t
    BY <2>2
  <2> HIDE DEF l, ch
  <2>8. t = [work |-> l.work, orig |-> l.orig, fresh |-> l.fresh \cup {n}, del |-> l.del, scalar |-> l.scalar, edits |-> l.edits]
    BY <2>6
  <2> HIDE DEF t
  <2>9. /\ t.work = Load(ch).work /\ t.orig = Load(ch).orig /\ t.edits = Load(ch).edits /\ t.fresh = tx.fresh \cup {n} /\ tx' = t
        /\ t = [work |-> t.work, orig |-> t.orig, fresh |-> t.fresh, del |-> t.del, scalar |-> t.scalar, edits |-> t.edits]
    BY <2>6, <2>7, <2>8
  <2>10. t.fresh \subseteq DOMAIN ch \cup tx.fresh /\ tx.fresh \subseteq t.fresh /\ DOMAIN ch \subseteq t.fresh
    BY <2>5, <2>9
  <2> QED BY <1>3, <2>5, <2>9, <2>10, LoadKeeps
<1>8. CASE TxDelete
  <2>1. PICK n : tx' = [tx EXCEPT !.del = @ \cup {n}, !.edits = @ + 1]
    BY <1>8 DEF TxDelete
  <2>2. tx' = [work |-> tx.work, orig |-> tx.orig, fresh |-> tx.fresh, del |-> tx.del \cup {n}, scalar |-> tx.scalar, edits |-> tx.edits + 1]
    BY <1>1, <2>1
  <2>3. /\ tx'.work = tx.work /\ tx'.orig = tx.orig /\ tx'.fresh = tx.fresh /\ tx'.edits = tx.edits + 1
        /\ tx' = [work |-> tx'.work, orig |-> tx'.orig, fresh |-> tx'.fresh, del |-> tx'.del, scalar |-> tx'.scalar, edits |-> tx'.edits]
    BY <2>2
  <2>4. tx.edits + 1 \in 0 .. MaxEdits
    <3>1. MaxEdits \in Nat /\ tx.edits \in 0 .. MaxEdits
      BY <1>1, ProjectsAssumption DEF MaxEdits, RelationInv, Staged
    <3> QED BY <1>3, <3>1
  <2>5. Staged'
    BY <1>3, <2>3, <2>4 DEF RelationInv, Staged, MaxEdits
  <2> QED BY <1>3, <2>5 DEF RelationInv, Committed, Shadowed, Queued, MaxEdits
<1> QED BY <1>5, <1>6, <1>7, <1>8

\* Edits of an Unsafe session.
LEMMA UnsafeKeeps ==
    ASSUME RelationInv, UnsafeEdit \/ UnsafeCreate \/ UnsafeDelete
    PROVE  RelationInv'
<1> DEFINE view == pending ++ live
<1>1. /\ IsGraph(pending) /\ IsGraph(live) /\ project \in DOMAIN Projects /\ DOMAIN pending \cap DOMAIN live = {}
      /\ deletes \subseteq DOMAIN live /\ edits \in 0 .. MaxEdits
  BY DEF RelationInv, Queued, Committed
<1>2. IsGraph(view) /\ DOMAIN view = DOMAIN pending \cup DOMAIN live
  <2>1. IsGraph(view)
    BY <1>1, GraphOver
  <2> QED BY <2>1 DEF ++
<1>3. edits' = edits + 1 /\ edits < MaxEdits /\ UNCHANGED <<project, index, graph, replica, tx>>
  BY DEF UnsafeEdit, UnsafeCreate, UnsafeDelete, UnsafeIdle
<1>4. edits' \in 0 .. MaxEdits'
  <2>1. MaxEdits \in Nat
    BY <1>1, ProjectsAssumption DEF MaxEdits
  <2> QED BY <1>1, <1>3, <2>1 DEF MaxEdits
<1>5. ASSUME IsGraph(live'), IsGraph(pending'), DOMAIN live' = DOMAIN live, DOMAIN pending' \cap DOMAIN live = {}, deletes' \subseteq DOMAIN live
      PROVE  RelationInv'
  <2>1. Committed'
    BY <1>3, <1>5 DEF RelationInv, Committed
  <2>2. Staged'
    BY <1>3 DEF RelationInv, Staged, MaxEdits
  <2>3. Shadowed'
    BY <1>3, <1>5 DEF RelationInv, Shadowed
  <2>4. Queued'
    BY <1>4, <1>5 DEF Queued
  <2> QED BY <1>1, <1>3, <2>1, <2>2, <2>3, <2>4 DEF RelationInv
<1> HIDE DEF view
<1>6. CASE UnsafeEdit
  <2>1. PICK ch \in Edits(view) : live' = Overwrite(live, ch) /\ pending' = Overwrite(pending, ch)
    BY <1>6 DEF UnsafeEdit, view
  <2>2. IsGraph(ch)
    <3>1. IsEdit(view, ch)
      BY <1>1, <1>2, EditsTyped
    <3> QED BY <3>1 DEF IsEdit
  <2>3. ASSUME NEW g, IsGraph(g) PROVE IsGraph(Overwrite(g, ch)) /\ DOMAIN Overwrite(g, ch) = DOMAIN g
    BY <2>2, <2>3 DEF IsGraph, Overwrite
  <2>4. deletes' = deletes
    BY <1>6 DEF UnsafeEdit
  <2> QED BY <1>1, <1>5, <2>1, <2>3, <2>4
<1>7. CASE UnsafeCreate
  <2>1. PICK n \in Room \ DOMAIN view : \E row \in NewRows(view, n) : pending' = Single(n, row) ++ pending
    BY <1>7 DEF UnsafeCreate, view
  <2>2. PICK row \in NewRows(view, n) : pending' = Single(n, row) ++ pending
    BY <2>1
  <2>3. n \in Node
    BY <1>1, <2>1, ProjectsAssumption DEF Room
  <2>4. row \in Row(n)
    BY <1>2, <2>3, NewRowsTyped
  <2>5. IsGraph(Single(n, row)) /\ DOMAIN Single(n, row) = {n}
    BY <2>3, <2>4 DEF IsGraph, Single
  <2>6. IsGraph(pending') /\ DOMAIN pending' = {n} \cup DOMAIN pending
    <3>1. IsGraph(pending')
      BY <1>1, <2>2, <2>5, GraphOver
    <3> QED BY <2>2, <2>5, <3>1 DEF ++
  <2>7. live' = live /\ deletes' = deletes
    BY <1>7 DEF UnsafeCreate
  <2> QED BY <1>1, <1>2, <1>5, <2>1, <2>6, <2>7
<1>8. CASE UnsafeDelete
  <2>1. PICK n \in DOMAIN live : deletes' = deletes \cup {n}
    BY <1>8 DEF UnsafeDelete
  <2>2. live' = live /\ pending' = pending
    BY <1>8 DEF UnsafeDelete
  <2> QED BY <1>1, <1>5, <2>1, <2>2
<1> QED BY <1>6, <1>7, <1>8

\* The rows that a Flush has noticed or that lose pointers by it, with the new ones.
FlushOver(route, losing, base) == pending ++ Restrict(base, IF route = "delta" THEN Moved ELSE {h[1] : h \in losing})

\* The ways a Flush can go.
FlushSettles(g) == FlushRebuild(g, Rebuild(g))
FlushPublishes(closure, losing, base, d) ==
    /\ Route \in {"delta", "deletes"} /\ closure = DeleteClosure(Route) /\ ~DeleteVetoed(closure)
    /\ losing = Losing(closure) /\ base = Dropped(losing, closure)
    /\ DeltaAccepted(FlushOver(Route, losing, base), DOMAIN pending, pending ++ base, d)
    /\ FlushIncremental(closure, pending ++ base, d, WithoutDead(d.index, closure))

\* flushRelations persists the queues alone, lets a model decide, or publishes.
LEMMA FlushWays ==
    ASSUME Flush, QuietDeletes
    PROVE  \/ Route = "persist" /\ Flushed /\ UNCHANGED <<live, index, graph, replica>>
           \/ \E losing, closure : FlushSettles(pending ++ Dropped(losing, closure)) /\ losing \in {{}, Losing(closure)}
           \/ \E closure, losing, base, d : FlushPublishes(closure, losing, base, d)
<1> DEFINE route == Route
           closure == DeleteClosure(route)
           vetoed == DeleteVetoed(closure)
           losing == IF vetoed THEN {} ELSE Losing(closure)
           base == Dropped(losing, closure)
           holders == {h[1] : h \in losing}
           twice == {n \in holders : Cardinality({h \in losing : h[1] = n}) > 1}
           over == FlushOver(route, losing, base)
           d == IF route = "full" \/ vetoed THEN [verdict |-> "refuse"]
                ELSE Delta(over, DOMAIN pending, twice, pending ++ base, FALSE)
<1>1. SUFFICES ASSUME Route # "persist", FlushDeletes(route, closure)
               PROVE  \/ \E lo, cl : FlushSettles(pending ++ Dropped(lo, cl)) /\ lo \in {{}, Losing(cl)}
                      \/ \E cl, lo, b, e : FlushPublishes(cl, lo, b, e)
  BY DEF Flush
<1>2. FlushVia(closure, pending ++ base, d)
  BY <1>1 DEF FlushDeletes, FlushDelta, FlushOver, Losing
<1>3. CASE d.verdict # "accept"
  <2>1. FlushRebuild(pending ++ base, Rebuild(pending ++ base))
    BY <1>2, <1>3 DEF FlushVia
  <2>2. losing \in {{}, Losing(closure)}
    OBVIOUS
  <2> HIDE DEF losing, closure
  <2> QED BY <2>1, <2>2 DEF FlushSettles
<1>4. CASE d.verdict = "accept"
  <2>1. route # "full" /\ ~vetoed
    <3>1. ASSUME route = "full" \/ vetoed PROVE FALSE
      <4>1. d = [verdict |-> "refuse"]
        BY <3>1
      <4> HIDE DEF d
      <4> QED BY <1>4, <4>1
    <3> QED BY <3>1
  <2>2. d = Delta(over, DOMAIN pending, twice, pending ++ base, FALSE) /\ losing = Losing(closure)
    BY <2>1
  <2>3. route \in {"delta", "deletes"}
    BY <1>1, <2>1 DEF Route
  <2>4. FlushIncremental(closure, pending ++ base, d, WithoutDead(d.index, closure))
    BY <1>2, <1>4 DEF FlushVia
  <2>5. twice = {}
    <3>1. CASE route = "delta"
      <4>1. closure = {}
        BY <3>1 DEF DeleteClosure
      <4> HIDE DEF closure
      <4>2. Losing(closure) = {}
        BY <4>1 DEF Losing, Survivors
      <4> QED BY <2>2, <4>2
    <3>2. CASE route = "deletes"
      <4>1. closure = DeletedAlone
        BY <3>2 DEF DeletedAlone
      <4>2. \A e, f \in Survivors(closure) : e[2] = f[2] => e[3] = f[3]
        BY <2>1, <3>2, <4>1 DEF QuietDeletes
      <4> HIDE DEF closure, losing
      <4> SUFFICES ASSUME NEW n \in holders PROVE ~(Cardinality({h \in losing : h[1] = n}) > 1)
        OBVIOUS
      <4>3. PICK k \in losing : k[1] = n
        OBVIOUS
      <4>4. \A h \in losing : h[1] = n => h = k
        <5> SUFFICES ASSUME NEW h \in losing, h[1] = n PROVE h = k
          OBVIOUS
        <5>1. PICK e \in Survivors(closure) : h = <<e[2], e[3]>>
          BY <2>2 DEF Losing
        <5>2. PICK f \in Survivors(closure) : k = <<f[2], f[3]>>
          BY <2>2 DEF Losing
        <5>3. e[2] = n /\ f[2] = n
          BY <4>3, <5>1, <5>2
        <5>4. e[3] = f[3]
          BY <4>2, <5>3
        <5> QED BY <5>1, <5>2, <5>3, <5>4
      <4>5. {h \in losing : h[1] = n} = {k}
        BY <4>3, <4>4
      <4>6. Cardinality({k}) = 1
        BY FS_Singleton
      <4> QED BY <4>5, <4>6
    <3> QED BY <2>3, <3>1, <3>2
  <2>6. DeltaAccepted(over, DOMAIN pending, pending ++ base, d)
    <3> HIDE DEF over, base
    <3>1. d = Delta(over, DOMAIN pending, {}, pending ++ base, FALSE)
      <4> HIDE DEF d, twice
      <4> QED BY <2>2, <2>5
    <3> HIDE DEF d
    <3> QED BY <1>4, <3>1, DeltaParts
  <2>7. FlushPublishes(closure, losing, base, d)
    <3>1. route = Route /\ closure = DeleteClosure(Route) /\ base = Dropped(losing, closure) /\ over = FlushOver(Route, losing, base)
      OBVIOUS
    <3> HIDE DEF over, base, d, losing, closure, route
    <3> QED BY <2>1, <2>2, <2>3, <2>4, <2>6, <3>1 DEF FlushPublishes, vetoed
  <2> HIDE DEF over, base, d, losing, closure
  <2> QED BY <2>7
<1> QED BY <1>3, <1>4

\* Overlaying nothing changes nothing.
LEMMA NothingOver ==
    ASSUME NEW f, f = [x \in DOMAIN f |-> f[x]]
    PROVE  <<>> ++ f = f
BY DEF ++

\* The index and the rows that a Flush publishes.
LEMMA PublishedIndex ==
    ASSUME RelationInv, QuietDeletes, NEW closure, NEW losing, NEW base, NEW d, FlushPublishes(closure, losing, base, d)
    PROVE  LET over == FlushOver(Route, losing, base)
               fresh == DOMAIN pending
               ns == DOMAIN live \cup fresh
           IN  /\ IsGraph(base) /\ DOMAIN base = DOMAIN live /\ IsGraph(pending ++ base) /\ DOMAIN (pending ++ base) = ns
               /\ IsGraph(over) /\ fresh \in SUBSET DOMAIN over
               /\ IsIndex(WithoutDead(d.index, closure), ns \ closure)
               /\ Route = "deletes" => /\ pending = <<>> /\ closure = DeletedAlone /\ over = Restrict(base, {h[1] : h \in losing})
                                       /\ pending ++ base = base
               /\ Route = "delta" => closure = {} /\ losing = {}
<1> DEFINE old == DOMAIN live
           over == FlushOver(Route, losing, base)
           fresh == DOMAIN pending
           ns == old \cup fresh
           g == pending ++ base
           mem == pending ++ base
<1>1. /\ IsGraph(live) /\ IsIndex(index, old) /\ IsGraph(pending)
  BY DEF RelationInv, Committed, Queued
<1>2. /\ Route \in {"delta", "deletes"} /\ closure = DeleteClosure(Route) /\ ~DeleteVetoed(closure)
      /\ losing = Losing(closure) /\ base = Dropped(losing, closure) /\ DeltaAccepted(over, fresh, mem, d)
  BY DEF FlushPublishes
<1>3. IsGraph(base) /\ DOMAIN base = old
  BY <1>1, <1>2, DroppedTyped
<1>4. IsGraph(g) /\ DOMAIN g = ns
  <2>1. IsGraph(g)
    BY <1>1, <1>3, GraphOver
  <2> QED BY <1>3, <2>1 DEF ++
<1>5. CASE Route = "deletes"
  <2>1. pending = <<>>
    BY <1>5 DEF Route
  <2>2. fresh = {} /\ closure = DeletedAlone
    BY <1>2, <1>5, <2>1 DEF DeletedAlone
  <2>3. mem = base
    <3>1. base = [x \in DOMAIN base |-> base[x]]
      BY <1>2 DEF Dropped
    <3> QED BY <2>1, <3>1, NothingOver
  <2>4. over = Restrict(base, {h[1] : h \in losing})
    <3> DEFINE part == Restrict(base, {h[1] : h \in losing})
    <3>1. over = <<>> ++ part
      BY <1>5, <2>1 DEF FlushOver
    <3>2. part = [x \in DOMAIN part |-> part[x]]
      BY DEF Restrict
    <3> HIDE DEF part, over
    <3>3. over = part
      BY <3>1, <3>2, NothingOver
    <3> QED BY <3>3 DEF part
  <2>5. DeltaAccepted(over, {}, base, d)
    BY <1>2, <2>2, <2>3
  <2> HIDE DEF over
  <2>6. IsGraph(over) /\ IsIndex(WithoutDead(d.index, closure), old \ closure)
    BY <1>1, <1>2, <1>5, <2>2, <2>4, <2>5, DeleteRouteSound
  <2>7. ns = old
    BY <2>2
  <2> HIDE DEF old, fresh, ns
  <2>8. fresh \in SUBSET DOMAIN over
    BY <2>2
  <2>9. /\ IsGraph(base) /\ DOMAIN base = old /\ IsGraph(g) /\ DOMAIN g = ns /\ IsGraph(over)
        /\ IsIndex(WithoutDead(d.index, closure), ns \ closure) /\ g = base
    BY <1>3, <1>4, <2>3, <2>6, <2>7
  <2> QED BY <1>5, <2>1, <2>2, <2>4, <2>8, <2>9 DEF over, old, fresh, ns
<1>6. CASE Route = "delta"
  <2>1. closure = {}
    BY <1>2, <1>6 DEF DeleteClosure
  <2>2. losing = {}
    BY <1>2, <2>1 DEF Losing, Survivors
  <2>3. Moved \in SUBSET DOMAIN base
    <3>1. replica # None /\ replica.current
      BY <1>6 DEF Route
    <3> QED BY <1>3, <3>1 DEF RelationInv, Shadowed, Moved
  <2>4. over = pending ++ Restrict(base, Moved)
    BY <1>6 DEF FlushOver
  <2>5. IsGraph(Restrict(base, Moved))
    BY <1>3, <2>3, GraphOfFewer
  <2>6. IsGraph(over) /\ fresh \in SUBSET DOMAIN over
    <3>1. IsGraph(over)
      BY <1>1, <2>4, <2>5, GraphOver
    <3> QED BY <2>4, <3>1 DEF ++
  <2> HIDE DEF over, old, fresh, mem, g
  <2>7. DeltaApplied(old, over, fresh, mem, d)
    BY <1>1, <1>2, <2>6, DeltaSound
  <2> DEFINE ix == d.index
  <2>8. IsIndex(ix, ns)
    BY <2>7 DEF DeltaApplied
  <2> HIDE DEF ns, ix
  <2>9. IsIndex(WithoutDead(ix, closure), ns \ closure)
    <3>1. /\ \A n \in ns \ closure : \A f \in Forward[n] : ToSet(ix.refs[n][f]) \cap closure = {}
          /\ \A c \in DOMAIN ix.owners : ix.owners[c] \in closure => c \in closure
      BY <2>1
    <3> QED BY <2>8, <3>1, WithoutDeadSound
  <2> QED BY <1>3, <1>4, <1>6, <2>1, <2>2, <2>6, <2>9 DEF over, old, fresh, ns, g, ix
<1> QED BY <1>2, <1>5, <1>6

\* What Flush publishes.
LEMMA FlushPublishesKeeps ==
    ASSUME RelationInv, QuietDeletes, NEW closure, NEW losing, NEW base, NEW d, FlushPublishes(closure, losing, base, d),
           UNCHANGED <<project, tx>>
    PROVE  RelationInv'
<1> DEFINE over == FlushOver(Route, losing, base)
           fresh == DOMAIN pending
           old == DOMAIN live
           ns == old \cup fresh
           left == ns \ closure
           mem == pending ++ base
           g == pending ++ base
           ix == WithoutDead(d.index, closure)
           rows == DeltaRows(g, d)
<1>1. /\ IsIndex(index, old) /\ project \in DOMAIN Projects
  BY DEF RelationInv, Committed
<1>2. /\ IsGraph(g) /\ DOMAIN g = ns /\ IsGraph(over) /\ fresh \in SUBSET DOMAIN over /\ IsIndex(ix, left)
  BY PublishedIndex
<1>3. DeltaAccepted(over, fresh, mem, d) /\ FlushIncremental(closure, g, d, ix)
  BY DEF FlushPublishes
<1> DEFINE lost == LostMirrors(closure)
<1>4. /\ live' = RefreshMirrors(Restrict(rows, DOMAIN g \ closure), ix, lost) /\ index' = ix /\ graph' = None
      /\ replica' = [rows |-> live', current |-> TRUE] /\ Flushed
  BY <1>3 DEF FlushIncremental
<1>5. IsGraph(rows) /\ DOMAIN rows = ns
  <2> HIDE DEF over, fresh, mem, g, old
  <2> QED BY <1>1, <1>2, <1>3, DeltaStep
<1> HIDE DEF rows, over, fresh, mem, g, old, ix, lost
<1>6. left \in SUBSET DOMAIN rows /\ DOMAIN g \ closure = left
  BY <1>2, <1>5
<1> HIDE DEF ns, left
<1>7. IsGraph(Restrict(rows, left)) /\ DOMAIN Restrict(rows, left) = left
  BY <1>5, <1>6, GraphOfFewer
<1>8. ix.nodes \in SUBSET Node /\ HeldByRows(ix.inc)
  <2>1. left \in SUBSET Node /\ ix.nodes = left /\ RefsTyped(left, left, ix.refs) /\ ix.inc = Incoming(ix.refs)
    BY <1>2 DEF IsIndex
  <2> DEFINE all == ix.refs
  <2>2. RefsTyped(left, left, all)
    BY <2>1
  <2> HIDE DEF all
  <2>3. HeldByRows(Incoming(all))
    BY <2>1, <2>2, EdgesHeld
  <2> QED BY <2>1, <2>3 DEF all
<1> DEFINE kept == Restrict(rows, left)
<1>9. IsGraph(RefreshMirrors(kept, ix, lost)) /\ DOMAIN RefreshMirrors(kept, ix, lost) = left
  <2> HIDE DEF kept
  <2> QED BY <1>7, <1>8, MirrorsTyped DEF kept
<1>10. IsGraph(live') /\ DOMAIN live' = left
  BY <1>4, <1>6, <1>9
<1>11. Committed'
  BY <1>2, <1>4, <1>10 DEF Committed
<1>12. Staged'
  BY DEF RelationInv, Staged, MaxEdits
<1>13. Shadowed'
  BY <1>4, <1>10 DEF Shadowed, IsGraph
<1>14. Queued'
  <2>1. MaxEdits' \in Nat
    BY <1>1, ProjectsAssumption DEF MaxEdits
  <2>2. pending' = <<>> /\ deletes' = {} /\ edits' = 0
    BY <1>4 DEF Flushed
  <2>3. IsGraph(<<>>) /\ DOMAIN <<>> = {}
    BY DEF IsGraph
  <2> QED BY <2>1, <2>2, <2>3 DEF Queued
<1> QED BY <1>1, <1>11, <1>12, <1>13, <1>14 DEF RelationInv

\* A Flush that a model of the whole project settles, or that it rejects.
LEMMA FlushSettlesKeeps ==
    ASSUME RelationInv, NEW losing, NEW closure, FlushSettles(pending ++ Dropped(losing, closure)), UNCHANGED <<project, tx>>
    PROVE  RelationInv'
<1> DEFINE base == Dropped(losing, closure)
           g == pending ++ base
           m == Rebuild(g)
           dead == Doomed(m, index.out, deletes)
<1>1. /\ IsGraph(live) /\ IsGraph(pending) /\ project \in DOMAIN Projects
  BY DEF RelationInv, Committed, Queued
<1>2. IsGraph(base) /\ DOMAIN base = DOMAIN live
  BY <1>1, DroppedTyped
<1> HIDE DEF base
<1>3. IsGraph(g) /\ DOMAIN g = DOMAIN pending \cup DOMAIN live
  <2>1. IsGraph(g)
    BY <1>1, <1>2, GraphOver
  <2> QED BY <1>2, <2>1 DEF ++
<1>4. FlushModel(g, m, dead)
  BY DEF FlushSettles, FlushRebuild, base
<1>5. Staged'
  BY DEF RelationInv, Staged, MaxEdits
<1> HIDE DEF g
<1>6. IsModel(m, DOMAIN g)
  BY <1>3, RebuildSound
<1>7. dead = Doomed(m, index.out, deletes)
  OBVIOUS
<1> HIDE DEF m, dead
<1>8. CASE Accepted(m, deletes, dead)
  <2>1. /\ live' = SettledRows(g, m, dead) /\ StoreCommitted(m, dead) /\ Flushed
        /\ replica' = IF replica # None /\ DOMAIN replica.rows \subseteq DOMAIN live'
                      THEN [rows |-> live', current |-> TRUE] ELSE Outdated
    BY <1>4, <1>8 DEF FlushModel
  <2>2. Committed' /\ DOMAIN live' = DOMAIN g \ dead
    BY <1>3, <1>6, <1>8, <1>7, <2>1, SettleStep
  <2>3. Shadowed'
    <3>1. CASE replica # None /\ DOMAIN replica.rows \subseteq DOMAIN live'
      BY <2>1, <2>2, <3>1 DEF Shadowed, Committed, IsGraph
    <3>2. CASE ~(replica # None /\ DOMAIN replica.rows \subseteq DOMAIN live')
      BY <2>1, <3>2 DEF RelationInv, Shadowed, Outdated
    <3> QED BY <3>1, <3>2
  <2>4. Queued'
    <3>1. MaxEdits' \in Nat
      BY <1>1, ProjectsAssumption DEF MaxEdits
    <3>2. pending' = <<>> /\ deletes' = {} /\ edits' = 0
      BY <2>1 DEF Flushed
    <3>3. IsGraph(<<>>) /\ DOMAIN <<>> = {}
      BY DEF IsGraph
    <3> QED BY <3>1, <3>2, <3>3 DEF Queued
  <2> QED BY <1>1, <1>5, <2>2, <2>3, <2>4 DEF RelationInv
<1>9. CASE ~Accepted(m, deletes, dead)
  <2>1. live' = Restrict(g, DOMAIN live) /\ UNCHANGED <<index, graph, replica, pending, deletes, edits>>
    BY <1>4, <1>9 DEF FlushModel
  <2>2. IsGraph(live') /\ DOMAIN live' = DOMAIN live
    <3>1. DOMAIN live \in SUBSET DOMAIN g
      BY <1>3
    <3> QED BY <1>3, <2>1, <3>1, GraphOfFewer
  <2> QED BY <1>1, <1>5, <2>1, <2>2 DEF RelationInv, Committed, Shadowed, Queued, MaxEdits
<1> QED BY <1>8, <1>9

\* The first index, and every one after a restart.
LEMMA OpenedIndex ==
    ASSUME NEW g, IsGraph(g), NEW m, m = Rebuild(g), m.ok, m.missing = {}
    PROVE  IsIndex(BuildIndex(m, {}), DOMAIN g) /\ IsKept(m, DOMAIN g)
<1> DEFINE ns == DOMAIN g
<1>1. IsModel(m, ns)
  BY RebuildSound
<1>2. Accepted(m, {}, {}) /\ Doomed(m, index.out, {}) = {}
  BY NothingDeleted
<1> DEFINE none == {}
<1>3. Accepted(m, none, none) /\ none = Doomed(m, index.out, none)
  BY <1>2
<1> HIDE DEF none, ns
<1>4. IsIndex(BuildIndex(m, none), ns \ none)
  BY <1>1, <1>3, BuildIndexSound
<1>5. ns \ none = ns
  BY DEF none
<1>6. IsKept(m, ns)
  BY <1>1, <1>2, AcceptedComplete
<1> QED BY <1>4, <1>5, <1>6 DEF none, ns

\* A project that is opened again has a new index.
LEMMA ReopenKeeps ==
    ASSUME RelationInv, Reopen
    PROVE  RelationInv'
<1> DEFINE g == Rehydrated(live)
           m == Rebuild(g)
<1>1. /\ Settled /\ live' = g /\ m.ok /\ m.missing = {} /\ StoreCommitted(m, {}) /\ replica' = None
      /\ UNCHANGED <<project, pending, deletes, edits, tx>>
  BY DEF Reopen
<1>2. IsGraph(g) /\ DOMAIN g = DOMAIN live
  BY RehydratedTyped DEF RelationInv, Committed
<1> HIDE DEF g
<1>3. IsIndex(BuildIndex(m, {}), DOMAIN g) /\ IsKept(m, DOMAIN g)
  BY <1>1, <1>2, OpenedIndex
<1> HIDE DEF m
<1>4. Committed'
  BY <1>1, <1>2, <1>3 DEF Committed, StoreCommitted
<1> QED BY <1>1, <1>2, <1>4 DEF RelationInv, Staged, Shadowed, Queued, MaxEdits

\* A project that is opened has the invariant.
LEMMA InitHolds ==
    ASSUME Init
    PROVE  RelationInv
<1> DEFINE g == Rehydrated(Projects[project].rows)
           m == Rebuild(live)
<1>1. /\ project \in DOMAIN Projects /\ live = g /\ m.ok /\ m.missing = {} /\ index = BuildIndex(m, {}) /\ graph = m
      /\ replica = None /\ pending = <<>> /\ deletes = {} /\ edits = 0 /\ tx = NoTx
  BY DEF Init
<1>2. IsGraph(live)
  <2>1. IsGraph(Projects[project].rows)
    BY <1>1, ProjectsAssumption
  <2> QED BY <1>1, <2>1, RehydratedTyped
<1>3. IsIndex(BuildIndex(m, {}), DOMAIN live) /\ IsKept(m, DOMAIN live)
  BY <1>1, <1>2, OpenedIndex
<1> HIDE DEF m, g
<1>4. Committed
  BY <1>1, <1>2, <1>3 DEF Committed
<1>5. MaxEdits \in Nat
  BY <1>1, ProjectsAssumption DEF MaxEdits
<1>6. IsGraph(<<>>) /\ DOMAIN <<>> = {} /\ 0 \in 0 .. MaxEdits
  BY <1>5 DEF IsGraph
<1>7. Staged
  BY <1>1, <1>6 DEF Staged, NoTx
<1>8. Queued
  BY <1>1, <1>6 DEF Queued
<1> QED BY <1>1, <1>4, <1>7, <1>8 DEF RelationInv, Shadowed

\* Every step keeps the invariant, deletes of Flush being quiet.
LEMMA StepKeeps ==
    ASSUME RelationInv, QuietDeletes, [Next]_vars
    PROVE  RelationInv'
<1>1. CASE TxEdit \/ TxTouch \/ TxCreate \/ TxDelete
  BY <1>1, TxKeeps
<1>2. CASE Commit
  BY <1>2, CommitKeeps
<1>3. CASE ConcurrentDelete
  BY <1>3, ConcurrentDeleteKeeps
<1>4. CASE UnsafeEdit \/ UnsafeCreate \/ UnsafeDelete
  BY <1>4, UnsafeKeeps
<1>5. CASE Flush
  <2>1. UNCHANGED <<project, tx>>
    BY <1>5 DEF Flush
  <2>2. CASE Route = "persist" /\ Flushed /\ UNCHANGED <<live, index, graph, replica>>
    <3>1. MaxEdits' \in Nat
      BY <2>1, ProjectsAssumption DEF MaxEdits, RelationInv
    <3>2. IsGraph(<<>>) /\ DOMAIN <<>> = {} /\ 0 \in 0 .. MaxEdits'
      BY <3>1 DEF IsGraph
    <3>3. Queued'
      BY <2>2, <3>2 DEF Queued, Flushed
    <3> QED BY <2>1, <2>2, <3>3 DEF RelationInv, Committed, Staged, Shadowed, MaxEdits
  <2>3. CASE \E losing, closure : FlushSettles(pending ++ Dropped(losing, closure)) /\ losing \in {{}, Losing(closure)}
    BY <2>1, <2>3, FlushSettlesKeeps
  <2>4. CASE \E closure, losing, base, d : FlushPublishes(closure, losing, base, d)
    BY <2>1, <2>4, FlushPublishesKeeps
  <2> QED BY <1>5, <2>2, <2>3, <2>4, FlushWays
<1>6. CASE TowerRebuild
  BY <1>6 DEF TowerRebuild, RelationInv, Committed, Staged, Shadowed, Queued, MaxEdits, IsGraph
<1>7. CASE Reopen
  BY <1>7, ReopenKeeps
<1>8. CASE UNCHANGED vars
  BY <1>8 DEF vars, RelationInv, Committed, Staged, Shadowed, Queued, MaxEdits
<1> QED BY <1>1, <1>2, <1>3, <1>4, <1>5, <1>6, <1>7, <1>8 DEF Next

----------------------------------------------------------------------------
\* Theorems.

\* committedOwnership, the Tower replica, the queues and the open transaction
\* hold what they may hold, whichever way commits and Flushes went.
THEOREM RelationTypeOK == RelationSpec /\ []QuietDeletes => []TypeOK
<1>1. Init => RelationInv
  BY InitHolds
<1>2. RelationInv /\ QuietDeletes /\ [Next]_vars => RelationInv'
  BY StepKeeps
<1>3. RelationInv => TypeOK
  BY Typed
<1> QED BY <1>1, <1>2, <1>3, PTL DEF RelationSpec

\* Deltas publish into parts of the index one by one; whatever they did, the
\* parts fit together: the incoming counts, the owners and the children of
\* relation_index.go are those of the pointers that are indexed, which lead from
\* live rows to live rows; every own pointer comes from the one owner, nothing
\* owns itself through others, and no required pointer is missing.
IndexIsDerived ==
    /\ index.nodes = DOMAIN live /\ \A e \in index.entries : e[3] \in DOMAIN live
    /\ \A n \in index.nodes : \A f \in Forward[n] : ToSet(index.refs[n][f]) \subseteq DOMAIN live
    /\ index.inc = Incoming(index.refs)
    /\ index.owners = OwnersOf(index.inc, index.refs, index.nodes)
    /\ index.out = [o \in Node |-> ChildrenOf(index.owners, o)]
    /\ \A e \in DOMAIN index.inc : Spec[e[3]].kind = "own" => e[1] \in DOMAIN index.owners /\ index.owners[e[1]] = e[2]
    /\ ~Cyclic(index.owners) /\ Complete(index.nodes, index.refs)

\* It is part of the inductive invariant.
LEMMA Derived ==
    ASSUME RelationInv
    PROVE  IndexIsDerived
<1> DEFINE ns == DOMAIN live
           refs == index.refs
           owners == index.owners
<1>1. /\ ns \in SUBSET Node /\ index.nodes = ns /\ RefsTyped(ns, ns, refs) /\ Forest(ns, refs, owners) /\ index.inc = Incoming(refs)
      /\ Led(index.entries, ns) /\ Complete(ns, refs) /\ index.out = [o \in Node |-> ChildrenOf(owners, o)]
  BY DEF RelationInv, Committed, IsIndex
<1>2. \A n \in ns : \A f \in Forward[n] : ToSet(refs[n][f]) \subseteq ns
  <2> SUFFICES ASSUME NEW n \in ns, NEW f \in Forward[n] PROVE ToSet(refs[n][f]) \subseteq ns
    OBVIOUS
  <2> HIDE DEF refs
  <2>1. refs[n][f] \in Seq(ns)
    BY <1>1 DEF RefsTyped
  <2> QED BY <2>1, Elements
<1> HIDE DEF refs, ns, owners
<1>3. owners = OwnersOf(Incoming(refs), refs, ns)
  BY <1>1, ForestIsDerived
<1>4. ASSUME NEW e \in DOMAIN index.inc, Spec[e[3]].kind = "own" PROVE e[1] \in DOMAIN owners /\ owners[e[1]] = e[2]
  <2>1. IsEdge(refs, e[1], e[2], e[3])
    BY <1>1, <1>4, Edges
  <2> QED BY <1>1, <1>4, <2>1 DEF Forest, Agrees, AgreesBut, IsEdge
<1>5. ~Cyclic(owners) /\ \A e \in index.entries : e[3] \in ns
  BY <1>1 DEF Forest, Led
<1> QED BY <1>1, <1>2, <1>3, <1>4, <1>5 DEF IndexIsDerived, refs, ns, owners

\* The committed index is consistent with itself after every commit and Flush.
THEOREM CommittedIndexIsDerived == RelationSpec /\ []QuietDeletes => []IndexIsDerived
<1>1. Init => RelationInv
  BY InitHolds
<1>2. RelationInv /\ QuietDeletes /\ [Next]_vars => RelationInv'
  BY StepKeeps
<1>3. RelationInv => IndexIsDerived
  BY Derived
<1> QED BY <1>1, <1>2, <1>3, PTL DEF RelationSpec

\* Without a Tower there is no replica, and every Flush derives the model anew.
NoTower == replica = None /\ "tower" \notin Projects[project].ops

\* Nothing is looked up in a replica that is not there.
LEMMA NoReplica ==
    ASSUME NoTower
    PROVE  QuietDeletes
BY DEF NoTower, QuietDeletes, Route

\* And none is ever taken.
LEMMA NoTowerKept ==
    ASSUME NoTower, [Next]_vars
    PROVE  NoTower'
<1>1. Route = "full" /\ Outdated = None
  BY DEF NoTower, Route, Outdated
<1>2. project' = project
  BY DEF Next, vars, TxEdit, TxTouch, TxCreate, TxDelete, Commit, ConcurrentDelete, UnsafeEdit, UnsafeCreate,
         UnsafeDelete, Flush, TowerRebuild, Reopen
<1>3. CASE TxEdit \/ TxTouch \/ TxCreate \/ TxDelete \/ UnsafeEdit \/ UnsafeCreate \/ UnsafeDelete
  BY <1>3 DEF NoTower, TxEdit, TxTouch, TxCreate, TxDelete, UnsafeEdit, UnsafeCreate, UnsafeDelete
<1>4. CASE Commit
  <2>1. PICK aliased \in Aliasing : CommitFrom(TxDelta(aliased), TxModel(aliased))
    BY <1>4 DEF Commit
  <2>2. replica' \in {replica, Outdated}
    BY <2>1 DEF CommitFrom, CommitWith, CommitAs
  <2> QED BY <1>1, <1>2, <2>2 DEF NoTower
<1>5. CASE ConcurrentDelete
  BY <1>1, <1>2, <1>5 DEF ConcurrentDelete, NoTower
<1>6. CASE Flush
  <2>1. FlushDeletes("full", DeleteClosure("full"))
    BY <1>1, <1>6 DEF Flush
  <2>2. PICK g : FlushVia(DeleteClosure("full"), g, [verdict |-> "refuse"])
    BY <2>1 DEF FlushDeletes, FlushDelta
  <2>3. FlushRebuild(g, Rebuild(g))
    BY <2>2 DEF FlushVia
  <2>4. replica' \in {replica, Outdated}
    BY <2>3 DEF FlushRebuild, FlushModel, NoTower
  <2> QED BY <1>1, <1>2, <2>4 DEF NoTower
<1>7. CASE TowerRebuild
  BY <1>7 DEF TowerRebuild, NoTower, Uses
<1>8. CASE Reopen
  BY <1>2, <1>8 DEF Reopen, NoTower
<1>9. CASE UNCHANGED vars
  BY <1>9 DEF vars, NoTower
<1> QED BY <1>3, <1>4, <1>5, <1>6, <1>7, <1>8, <1>9 DEF Next

\* A project without a Tower needs no condition on its deletes: its variables are
\* typed and its index is consistent whatever sessions and transactions do.
THEOREM WithoutTower ==
    ASSUME \A p \in DOMAIN Projects : "tower" \notin Projects[p].ops
    PROVE  RelationSpec => [](TypeOK /\ IndexIsDerived)
<1>1. Init => RelationInv /\ NoTower
  <2> SUFFICES ASSUME Init PROVE RelationInv /\ NoTower
    OBVIOUS
  <2>1. project \in DOMAIN Projects /\ replica = None
    BY DEF Init
  <2> QED BY <2>1, InitHolds DEF NoTower
<1>2. RelationInv /\ NoTower /\ [Next]_vars => RelationInv' /\ NoTower'
  BY StepKeeps, NoReplica, NoTowerKept
<1>3. RelationInv => TypeOK /\ IndexIsDerived
  BY Typed, Derived
<1> QED BY <1>1, <1>2, <1>3, PTL DEF RelationSpec

----------------------------------------------------------------------------
\* How a step can settle the graph.

\* A model of the rows g decides, and the rows it dooms go.
Settles(g, m, explicit, dead) ==
    /\ IsGraph(g) /\ DOMAIN live \subseteq DOMAIN g /\ IsModel(m, DOMAIN g)
    /\ dead = Doomed(m, index.out, explicit) /\ Accepted(m, explicit, dead)
    /\ live' = SettledRows(g, m, dead) /\ StoreCommitted(m, dead)

\* The delta of a commit is published.
CommitPublishes(aliased, d) ==
    /\ IsGraph(Over) /\ tx.fresh \in SUBSET DOMAIN Over
    /\ DeltaAccepted(Over, tx.fresh, Memory(aliased), d)
    /\ DeltaApplied(DOMAIN live, Over, tx.fresh, Memory(aliased), d)
    /\ IsGraph(Over ++ live) /\ DOMAIN (Over ++ live) = DOMAIN live \cup tx.fresh
    /\ live' = DeltaRows(Over ++ live, d) /\ index' = d.index /\ graph' = None

\* Rows are written back, and the relations among them stay as they were.
Writes(g) == live' = g /\ DOMAIN g = DOMAIN live /\ UNCHANGED <<index, graph>>

\* A commit is rejected, writes rows back, publishes a delta or is decided by a model.
LEMMA CommitSettles ==
    ASSUME RelationInv, Commit
    PROVE  \/ UNCHANGED <<live, index, graph>>
           \/ ~Conflict /\ ~GraphChanged /\ Writes(Over ++ live)
           \/ \E aliased, d : CommitPublishes(aliased, d)
           \/ \E aliased, dead : ~Conflict /\ Settles(Over ++ live, TxModel(aliased), tx.del, dead)
<1>1. PICK aliased \in Aliasing : CommitFrom(TxDelta(aliased), TxModel(aliased))
  BY DEF Commit
<1> DEFINE mem == Memory(aliased)
           d == TxDelta(aliased)
           m == TxModel(aliased)
           dead == Doomed(m, index.out, tx.del)
           g == Over ++ live
<1>2. /\ IsGraph(live) /\ IsIndex(index, DOMAIN live) /\ (graph # None => IsKept(graph, DOMAIN live))
      /\ IsGraph(tx.work) /\ tx.fresh \subseteq DOMAIN tx.work
  BY DEF RelationInv, Committed, Staged
<1>3. IsGraph(Over) /\ DOMAIN Over = Touched \cup tx.fresh /\ tx.fresh \in SUBSET DOMAIN Over
  <2>1. Touched \cup tx.fresh \in SUBSET DOMAIN tx.work
    BY <1>2 DEF Touched
  <2>2. IsGraph(Over) /\ DOMAIN Over = Touched \cup tx.fresh
    BY <1>2, <2>1, GraphOfFewer DEF Over
  <2> QED BY <2>2
<1>4. IsGraph(g) /\ DOMAIN g = DOMAIN Over \cup DOMAIN live
  <2>1. IsGraph(g)
    BY <1>2, <1>3, GraphOver
  <2> QED BY <2>1 DEF ++
<1>5. CommitAs(Outcome(d, m, dead), d, m, dead)
  BY <1>1 DEF CommitFrom, CommitWith
<1>6. CASE Outcome(d, m, dead) = "rejected"
  BY <1>5, <1>6 DEF CommitAs
<1>7. CASE Outcome(d, m, dead) = "scalars"
  <2>1. live' = g /\ UNCHANGED <<index, graph>>
    BY <1>5, <1>7 DEF CommitAs
  <2>2. ~Conflict /\ ~GraphChanged
    BY <1>7 DEF Outcome
  <2>3. DOMAIN g = DOMAIN live
    BY <1>3, <1>4, <2>2 DEF Conflict, GraphChanged
  <2> QED BY <2>1, <2>2, <2>3 DEF Writes
<1>8. CASE Outcome(d, m, dead) = "delta"
  <2>1. live' = DeltaRows(g, d) /\ index' = d.index /\ graph' = None
    BY <1>5, <1>8 DEF CommitAs
  <2>2. d.verdict = "accept"
    BY <1>8 DEF Outcome
  <2>3. DeltaAccepted(Over, tx.fresh, mem, d)
    BY <2>2, DeltaParts DEF TxDelta
  <2> DEFINE old == DOMAIN live
             fresh == tx.fresh
             over == Over
  <2>4. /\ IsIndex(index, old) /\ IsGraph(over) /\ fresh \in SUBSET DOMAIN over /\ DeltaAccepted(over, fresh, mem, d)
    BY <1>2, <1>3, <2>3
  <2> HIDE DEF old, fresh, over, mem, d, g
  <2>5. DeltaApplied(old, over, fresh, mem, d)
    BY <2>4, DeltaSound
  <2>6. DOMAIN over \subseteq old \cup fresh
    BY <2>5 DEF DeltaApplied
  <2>7. DOMAIN g = old \cup fresh
    BY <1>4, <2>4, <2>6 DEF old, over
  <2>8. CommitPublishes(aliased, d)
    BY <1>4, <2>1, <2>4, <2>5, <2>7 DEF CommitPublishes, old, over, fresh, mem, g
  <2> QED BY <2>8
<1>9. CASE Outcome(d, m, dead) = "model"
  <2>1. live' = SettledRows(g, m, dead) /\ StoreCommitted(m, dead)
    BY <1>5, <1>9 DEF CommitAs
  <2>2. Accepted(m, tx.del, dead)
    BY <1>9 DEF Outcome
  <2>3. IsModel(m, DOMAIN g)
    BY <1>2, <1>3, TransactionModelSound DEF TxModel
  <2>4. DOMAIN live \subseteq DOMAIN g
    BY <1>4
  <2>5. Settles(g, m, tx.del, dead) /\ ~Conflict
    BY <1>4, <1>9, <2>1, <2>2, <2>3, <2>4 DEF Settles, Outcome
  <2> HIDE DEF dead
  <2> QED BY <2>5
<1>10. Outcome(d, m, dead) \in {"rejected", "scalars", "delta", "model"}
  BY DEF Outcome
<1> QED BY <1>6, <1>7, <1>8, <1>9, <1>10

\* A model that settles takes with a row every child that it does not reparent.
LEMMA SettledLeavesNoOrphan ==
    ASSUME RelationInv, NEW g, NEW m, NEW explicit, NEW dead, Settles(g, m, explicit, dead)
    PROVE  LeavesNoOrphan(DOMAIN live \ DOMAIN live')
<1>1. /\ IsGraph(g) /\ DOMAIN live \subseteq DOMAIN g /\ IsModel(m, DOMAIN g)
      /\ dead = Doomed(m, index.out, explicit) /\ Accepted(m, explicit, dead)
      /\ live' = SettledRows(g, m, dead) /\ StoreCommitted(m, dead)
  BY DEF Settles
<1>2. DOMAIN live' = DOMAIN g \ dead
  BY <1>1, SettleStep
<1>3. /\ OwnersTyped(DOMAIN live, index.owners) /\ DOMAIN live \in SUBSET Node
      /\ index.out = [o \in Node |-> ChildrenOf(index.owners, o)]
  BY DEF RelationInv, Committed, IsIndex, Forest
<1>4. m.nodes = DOMAIN g
  BY <1>1 DEF IsModel
<1> DEFINE owners == [c \in {x \in DOMAIN m.owners : x \notin dead /\ m.owners[x] \notin dead} |-> m.owners[c]]
<1>5. index'.owners = owners
  BY <1>1 DEF StoreCommitted, BuildIndex
<1> SUFFICES ASSUME NEW c \in DOMAIN index.owners, NEW o, o = index.owners[c], o \in DOMAIN live \ DOMAIN live',
                    c \notin DOMAIN live \ DOMAIN live'
             PROVE  c \in DOMAIN owners /\ owners[c] # o
  BY <1>5 DEF LeavesNoOrphan
<1>6. c \in DOMAIN g /\ c \notin dead /\ o \in dead /\ o \in Node
  BY <1>1, <1>2, <1>3 DEF OwnersTyped
<1>7. c \in index.out[o]
  BY <1>3, <1>6 DEF ChildrenOf
<1>8. \A p \in dead : DeletionChildren(m, index.out, p) \cap m.nodes \subseteq dead
  BY <1>1, DoomedRows
<1>9. c \notin DeletionChildren(m, index.out, o)
  BY <1>4, <1>6, <1>8
<1>10. c \in DOMAIN m.owners /\ m.owners[c] # o
  BY <1>4, <1>6, <1>7, <1>9, DeletionChildrenAre
<1>11. m.owners[c] \notin dead
  <2> SUFFICES ASSUME m.owners[c] \in dead PROVE FALSE
    OBVIOUS
  <2> DEFINE p == m.owners[c]
  <2>1. c \in DeletionChildren(m, index.out, p)
    BY <1>10, DeletionChildrenAre
  <2> QED BY <1>4, <1>6, <1>8, <2>1
<1> QED BY <1>6, <1>10, <1>11

\* So do deletes that Flush settles by the index: their cascade is closed.
LEMMA PublishedLeavesNoOrphan ==
    ASSUME RelationInv, QuietDeletes, NEW closure, NEW losing, NEW base, NEW d, FlushPublishes(closure, losing, base, d),
           UNCHANGED <<project, tx>>
    PROVE  LeavesNoOrphan(DOMAIN live \ DOMAIN live')
<1>1. /\ OwnersTyped(DOMAIN live, index.owners) /\ DOMAIN live \in SUBSET Node /\ index.nodes = DOMAIN live
      /\ index.out = [o \in Node |-> ChildrenOf(index.owners, o)]
  BY DEF RelationInv, Committed, IsIndex, Forest
<1> DEFINE ix == WithoutDead(d.index, closure)
<1>2. IsIndex(ix, (DOMAIN live \cup DOMAIN pending) \ closure)
  BY PublishedIndex
<1>3. index' = ix /\ IsIndex(index', DOMAIN live')
  <2>1. RelationInv'
    BY FlushPublishesKeeps
  <2>2. index' = ix
    BY DEF FlushPublishes, FlushIncremental
  <2> QED BY <2>1, <2>2 DEF RelationInv, Committed
<1>4. DOMAIN live' = (DOMAIN live \cup DOMAIN pending) \ closure
  <2>1. ix.nodes = (DOMAIN live \cup DOMAIN pending) \ closure
    BY <1>2 DEF IsIndex
  <2> HIDE DEF ix
  <2> QED BY <1>3, <2>1 DEF IsIndex
<1>5. \A o \in closure : index.out[o] \cap index.nodes \subseteq closure
  <2>1. closure = DeletedAlone \/ closure = {}
    BY PublishedIndex DEF FlushPublishes
  <2> QED BY <2>1, ClosureRows
<1> SUFFICES ASSUME NEW c \in DOMAIN index.owners, index.owners[c] \in DOMAIN live \ DOMAIN live'
             PROVE  c \in DOMAIN live \ DOMAIN live'
  BY DEF LeavesNoOrphan
<1>6. c \in DOMAIN live /\ index.owners[c] \in closure
  BY <1>1, <1>4 DEF OwnersTyped
<1>7. c \in index.out[index.owners[c]]
  BY <1>1, <1>6 DEF ChildrenOf, OwnersTyped
<1> QED BY <1>1, <1>4, <1>5, <1>6, <1>7

\* Where no row goes, no child loses its owner.
LEMMA NothingGone ==
    ASSUME DOMAIN live \subseteq DOMAIN live'
    PROVE  LeavesNoOrphan(DOMAIN live \ DOMAIN live')
BY DEF LeavesNoOrphan

\* No step leaves a child of a row it takes without an owner.
LEMMA StepLeavesNoOrphan ==
    ASSUME RelationInv, QuietDeletes, [Next]_vars
    PROVE  LeavesNoOrphan(DOMAIN live \ DOMAIN live')
<1>1. IsGraph(live) /\ IsIndex(index, DOMAIN live)
  BY DEF RelationInv, Committed
<1>2. CASE UNCHANGED live
  BY <1>2, NothingGone
<1>3. CASE Commit
  <2>1. CASE Writes(Over ++ live)
    BY <2>1, NothingGone DEF Writes
  <2>2. CASE \E aliased, d : CommitPublishes(aliased, d)
    <3>1. PICK aliased, d : CommitPublishes(aliased, d)
      BY <2>2
    <3> DEFINE over == Over
               fresh == tx.fresh
               mem == Memory(aliased)
               g == Over ++ live
               old == DOMAIN live
    <3>2. /\ IsIndex(index, old) /\ IsGraph(over) /\ fresh \in SUBSET DOMAIN over /\ DeltaAccepted(over, fresh, mem, d)
          /\ IsGraph(g) /\ DOMAIN g = old \cup fresh /\ live' = DeltaRows(g, d)
      BY <1>1, <3>1 DEF CommitPublishes
    <3> HIDE DEF over, fresh, mem, g, old
    <3>3. DOMAIN live' = old \cup fresh
      BY <3>2, DeltaStep
    <3> QED BY <3>3, NothingGone DEF old
  <2>3. CASE \E aliased, dead : ~Conflict /\ Settles(Over ++ live, TxModel(aliased), tx.del, dead)
    <3>1. PICK aliased, dead : Settles(Over ++ live, TxModel(aliased), tx.del, dead)
      BY <2>3
    <3> QED BY <3>1, SettledLeavesNoOrphan
  <2> QED BY <1>2, <1>3, <2>1, <2>2, <2>3, CommitSettles
<1>4. CASE ConcurrentDelete
  <2> DEFINE m == TransactionModel(<<>>, {}, live)
  <2>1. PICK n \in DOMAIN live : DeleteRow(n, m)
    BY <1>4 DEF ConcurrentDelete
  <2> DEFINE dead == Doomed(m, index.out, {n})
  <2>2. Accepted(m, {n}, dead) /\ live' = SettledRows(live, m, dead) /\ StoreCommitted(m, dead)
    BY <2>1 DEF DeleteRow, SettleDelete
  <2>3. IsModel(m, DOMAIN live)
    BY DeletedModel
  <2>4. Settles(live, m, {n}, dead)
    BY <1>1, <2>2, <2>3 DEF Settles
  <2> QED BY <2>4, SettledLeavesNoOrphan
<1>5. CASE UnsafeEdit
  BY <1>5, NothingGone DEF UnsafeEdit, Overwrite
<1>6. CASE Flush
  <2>1. UNCHANGED <<project, tx>>
    BY <1>6 DEF Flush
  <2>2. CASE \E losing, closure : FlushSettles(pending ++ Dropped(losing, closure)) /\ losing \in {{}, Losing(closure)}
    <3>1. PICK losing, closure : FlushSettles(pending ++ Dropped(losing, closure))
      BY <2>2
    <3> DEFINE base == Dropped(losing, closure)
               g == pending ++ base
               m == Rebuild(g)
               dead == Doomed(m, index.out, deletes)
    <3>2. IsGraph(g) /\ DOMAIN g = DOMAIN pending \cup DOMAIN live
      <4>1. IsGraph(base) /\ DOMAIN base = DOMAIN live
        BY <1>1, DroppedTyped
      <4>2. IsGraph(pending)
        BY DEF RelationInv, Queued
      <4> HIDE DEF base
      <4>3. IsGraph(g)
        BY <4>1, <4>2, GraphOver
      <4> QED BY <4>1, <4>3 DEF ++
    <3>3. IsModel(m, DOMAIN g)
      <4> HIDE DEF g
      <4> QED BY <3>2, RebuildSound
    <3>4. FlushModel(g, m, dead)
      BY <3>1 DEF FlushSettles, FlushRebuild
    <3>5. dead = Doomed(m, index.out, deletes)
      OBVIOUS
    <3> HIDE DEF g, m, dead
    <3>6. CASE Accepted(m, deletes, dead)
      <4>1. live' = SettledRows(g, m, dead) /\ StoreCommitted(m, dead)
        BY <3>4, <3>6 DEF FlushModel
      <4>2. Settles(g, m, deletes, dead)
        BY <3>2, <3>3, <3>5, <3>6, <4>1 DEF Settles
      <4> QED BY <4>2, SettledLeavesNoOrphan
    <3>7. CASE ~Accepted(m, deletes, dead)
      <4>1. live' = Restrict(g, DOMAIN live)
        BY <3>4, <3>7 DEF FlushModel
      <4>2. DOMAIN live \in SUBSET DOMAIN g
        BY <3>2
      <4>3. DOMAIN live' = DOMAIN live
        BY <3>2, <4>1, <4>2, GraphOfFewer
      <4> QED BY <4>3, NothingGone
    <3> QED BY <3>6, <3>7
  <2>3. CASE \E closure, losing, base, d : FlushPublishes(closure, losing, base, d)
    <3>1. PICK closure, losing, base, d : FlushPublishes(closure, losing, base, d)
      BY <2>3
    <3> QED BY <2>1, <3>1, PublishedLeavesNoOrphan
  <2> QED BY <1>2, <1>6, <2>2, <2>3, FlushWays
<1>7. CASE Reopen
  <2>1. live' = Rehydrated(live)
    BY <1>7 DEF Reopen
  <2>2. DOMAIN live' = DOMAIN live
    BY <1>1, <2>1, RehydratedTyped
  <2> QED BY <2>2, NothingGone
<1>8. CASE TxEdit \/ TxTouch \/ TxCreate \/ TxDelete \/ UnsafeCreate \/ UnsafeDelete \/ TowerRebuild \/ UNCHANGED vars
  BY <1>2, <1>8 DEF TxEdit, TxTouch, TxCreate, TxDelete, UnsafeCreate, UnsafeDelete, TowerRebuild, vars
<1> QED BY <1>3, <1>4, <1>5, <1>6, <1>7, <1>8 DEF Next

\* Ownership is the lifetime of docs/relations.md: a child outlives its owner,
\* through a commit, another goroutine's delete or a Flush, only under a new one.
THEOREM CascadeLeavesNoOrphan ==
    RelationSpec /\ []QuietDeletes => [][LeavesNoOrphan(DOMAIN live \ DOMAIN live')]_vars
<1>1. Init => RelationInv
  BY InitHolds
<1>2. RelationInv /\ QuietDeletes /\ [Next]_vars => RelationInv'
  BY StepKeeps
<1>3. RelationInv /\ QuietDeletes /\ [Next]_vars => [LeavesNoOrphan(DOMAIN live \ DOMAIN live')]_vars
  BY StepLeavesNoOrphan
<1> QED BY <1>1, <1>2, <1>3, PTL DEF RelationSpec

----------------------------------------------------------------------------
\* Inverse views.

\* The fields that inverse views mirror, and a schema in which they look their
\* targets up by Id.
Mirrored == {f \in Field : Spec[f].kind \in {"borrow", "option"} /\ Spec[f].match = "Id"}
InversesById == \A f \in Field : Spec[f].kind = "inverse" => Spec[Spec[f].match].match = "Id"

\* Entries that find every row of ns by its Id.
FindsById(entries, ns, f) ==
    /\ Led(entries, ns) /\ \A e \in entries : e[1] = "Id" => e[2] = e[3]
    /\ \A t \in ns : TypeOf[t] = Spec[f].target => <<"Id", t, t>> \in entries

\* A pointer looked up by Id finds the row it leads to, if there is one.
LEMMA TargetById ==
    ASSUME NEW f \in Mirrored, NEW entries, NEW ns, FindsById(entries, ns, f), NEW mem, NEW t, TypeOf[t] = Spec[f].target
    PROVE  Targets(entries, mem, f, t) = IF t \in ns THEN {t} ELSE {}
<1>1. LookupField(f) = "Id" /\ PointerValue(mem, f, t) = t
  BY DEF Mirrored, LookupField, OwnMany, PointerValue
<1> DEFINE hits == {x \in entries : x[1] = "Id" /\ x[2] = t /\ TypeOf[x[3]] = Spec[f].target}
<1>2. Targets(entries, mem, f, t) = {e[3] : e \in hits}
  BY <1>1 DEF Targets, Candidates
<1>3. \A e \in hits : e[3] = t /\ t \in ns
  BY DEF FindsById, Led
<1>4. t \in ns => <<"Id", t, t>> \in hits /\ <<"Id", t, t>>[3] = t
  BY DEF FindsById
<1> HIDE DEF hits
<1> QED BY <1>2, <1>3, <1>4

\* The pointers that a lookup by id keeps.
LEMMA FoundById ==
    ASSUME NEW f \in Mirrored, NEW entries, NEW ns, FindsById(entries, ns, f), NEW mem, NEW s \in Seq(Node), Fits(f, s)
    PROVE  ToSet(Resolved(entries, mem, f, s)) = ToSet(s) \cap ns
<1>1. ToSet(Resolved(entries, mem, f, s)) = Finding(entries, mem, f, s)
  BY Resolving
<1>2. ASSUME NEW t \in ToSet(s) PROVE Targets(entries, mem, f, t) = IF t \in ns THEN {t} ELSE {}
  BY TargetById DEF Fits
<1>3. ASSUME NEW t \in ToSet(s), Targets(entries, mem, f, t) # {} PROVE t \in ns /\ Choice(entries, mem, f, t) = t
  <2>1. t \in ns /\ Targets(entries, mem, f, t) = {t}
    BY <1>2, <1>3
  <2> QED BY <2>1 DEF Choice
<1>4. ASSUME NEW t \in ToSet(s) \cap ns PROVE Targets(entries, mem, f, t) # {}
  BY <1>2
<1> QED BY <1>1, <1>3, <1>4 DEF Finding

\* Entries made of the rows find them by Id.
LEMMA MadeById ==
    ASSUME NEW g, NEW ns, NEW tf, NEW f \in Mirrored, <<Spec[f].target, "Id">> \in tf
    PROVE  FindsById(Entries(g, ns, tf), ns, f)
<1>1. ASSUME NEW e \in Entries(g, ns, tf), e[1] = "Id" PROVE e[2] = e[3]
  <2>1. (\E n \in ns : e = <<"Id", n, n>>) \/ (\E n \in ns : e = <<"Key", g[n].key, n>>)
    BY DEF Entries
  <2> QED BY <1>1, <2>1
<1>2. \A t \in ns : TypeOf[t] = Spec[f].target => <<"Id", t, t>> \in Entries(g, ns, tf)
  BY DEF Entries
<1> QED BY <1>1, <1>2, EntriesLead DEF FindsById

\* Inverse views list the rows whose pointers lead to them.
Exact(g) ==
    \A n \in DOMAIN g : \A f \in InverseFields[n] :
        ToSet(g[n].rel[f]) = {h \in DOMAIN g : Spec[f].match \in FieldsOf[h] /\ n \in ToSet(g[h].rel[Spec[f].match])}

\* What an inverse view mirrors.
LEMMA Mirrors ==
    ASSUME InversesById, NEW n \in Node, NEW f \in InverseFields[n], NEW h \in Node
    PROVE  /\ f \in FieldsOf[n] /\ Spec[f].kind = "inverse" /\ Spec[f].match \in Mirrored
           /\ Spec[Spec[f].match].target = TypeOf[n] /\ Spec[Spec[f].match].match = "Id"
           /\ Spec[f].match \in FieldsOf[h] <=> TypeOf[h] = Spec[f].target
           /\ Spec[f].match \in FieldsOf[h] <=> Spec[f].match \in Forward[h]
<1>1. f \in FieldsOf[n] /\ f \in Field /\ Spec[f].owner = TypeOf[n] /\ Spec[f].kind = "inverse"
  BY Fields
<1>2. /\ Spec[f].match \in Field /\ Spec[Spec[f].match].kind \in {"borrow", "option"}
      /\ Spec[Spec[f].match].owner = Spec[f].target /\ Spec[Spec[f].match].target = Spec[f].owner
  BY <1>1, Schema
<1>3. Spec[Spec[f].match].match = "Id"
  BY <1>1 DEF InversesById
<1>4. Spec[f].match \in FieldsOf[h] <=> Spec[Spec[f].match].owner = TypeOf[h]
  BY <1>2, Fields
<1>5. Spec[f].match \in Forward[h] <=> Spec[f].match \in FieldsOf[h]
  BY <1>2, Fields
<1> QED BY <1>1, <1>2, <1>3, <1>4, <1>5 DEF Mirrored

\* Rewiring keeps the pointers to rows that exist and makes the views exact.
IsRewired(h, g) ==
    \A n \in DOMAIN g : \A f \in Forward[n] : f \in Mirrored => ToSet(h[n].rel[f]) = ToSet(g[n].rel[f]) \cap DOMAIN g

\* Rewiring makes the inverse views exact, and leaves the other pointers.
LEMMA RewireExact ==
    ASSUME InversesById, NEW g, IsGraph(g)
    PROVE  IsRewired(Rewire(g), g) /\ Exact(Rewire(g))
<1> DEFINE tf == {<<Spec[f].target, Spec[f].match>> : f \in {x \in Field : ~OwnMany(x) /\ Spec[x].kind # "inverse"}}
           entries == Entries(g, DOMAIN g, tf)
           slice(f) == OwnMany(f) \/ Spec[f].kind = "inverse"
           to(n, f) == IF slice(f) THEN InOrder(g[n].rel[f], SliceMembers(g, n, f)) ELSE Resolved(entries, g, f, g[n].rel[f])
           rel(n) == [f \in DOMAIN g[n].rel |-> to(n, f)]
           h == Rewire(g)
<1>1. DOMAIN h = DOMAIN g /\ \A n \in DOMAIN g : h[n] = [g[n] EXCEPT !.rel = rel(n)]
  BY DEF Rewire
<1>2. DOMAIN g \in SUBSET Node
  BY DEF IsGraph
<1>3. ASSUME NEW n \in DOMAIN g, NEW f \in FieldsOf[n] PROVE h[n].rel[f] = to(n, f)
  <2>1. n \in Node /\ g[n] \in Row(n) /\ DOMAIN g[n].rel = FieldsOf[n]
    BY GraphRow
  <2>2. rel(n)[f] = to(n, f)
    BY <2>1
  <2>3. g[n] = [key |-> g[n].key, fk |-> g[n].fk, rel |-> g[n].rel]
    BY <2>1, RowParts
  <2> HIDE DEF h, rel, to
  <2>4. h[n].rel = rel(n)
    BY <1>1, <2>3
  <2> QED BY <2>2, <2>4
<1>4. ASSUME NEW n \in DOMAIN g, NEW f \in Forward[n], f \in Mirrored PROVE ToSet(h[n].rel[f]) = ToSet(g[n].rel[f]) \cap DOMAIN g
  <2>1. n \in Node /\ f \in FieldsOf[n] /\ f \in Field /\ ~slice(f)
    BY <1>2, <1>4, Fields DEF Mirrored, OwnMany
  <2>2. g[n].rel[f] \in Seq(Node) /\ Fits(f, g[n].rel[f])
    BY <2>1, GraphRow
  <2>3. <<Spec[f].target, "Id">> \in tf
    <3>1. <<Spec[f].target, Spec[f].match>> \in tf
      BY <2>1
    <3> QED BY <1>4, <3>1 DEF Mirrored
  <2>4. h[n].rel[f] = Resolved(entries, g, f, g[n].rel[f])
    BY <1>3, <2>1
  <2> HIDE DEF tf, h
  <2>5. FindsById(entries, DOMAIN g, f)
    BY <1>4, <2>3, MadeById
  <2> HIDE DEF entries
  <2> QED BY <1>4, <2>2, <2>4, <2>5, FoundById
<1>5. ASSUME NEW n \in DOMAIN g, NEW f \in InverseFields[n]
      PROVE  ToSet(h[n].rel[f]) = {c \in DOMAIN g : Spec[f].match \in FieldsOf[c] /\ n \in ToSet(h[c].rel[Spec[f].match])}
  <2> DEFINE back == Spec[f].match
             members == SliceMembers(g, n, f)
  <2>1. n \in Node /\ f \in FieldsOf[n] /\ Spec[f].kind = "inverse" /\ back \in Mirrored /\ Spec[back].match = "Id"
    BY <1>2, Mirrors
  <2>2. \A c \in DOMAIN g : (back \in FieldsOf[c] <=> TypeOf[c] = Spec[f].target) /\ (back \in FieldsOf[c] <=> back \in Forward[c])
    BY <1>2, Mirrors
  <2>3. members = {c \in DOMAIN g : TypeOf[c] = Spec[f].target /\ n \in ToSet(g[c].rel[back])}
    BY <2>1 DEF SliceMembers
  <2>4. h[n].rel[f] = InOrder(g[n].rel[f], members)
    BY <1>3, <2>1
  <2>5. g[n].rel[f] \in Seq(Node)
    BY <2>1, GraphRow
  <2> HIDE DEF members, back, h
  <2>6. members \in SUBSET Node
    BY <1>2, <2>3
  <2>7. ToSet(h[n].rel[f]) = members
    BY <2>4, <2>5, <2>6, Ordered
  <2>8. \A c \in DOMAIN g : back \in Forward[c] => ToSet(h[c].rel[back]) = ToSet(g[c].rel[back]) \cap DOMAIN g
    BY <1>4, <2>1
  <2> QED BY <2>2, <2>3, <2>7, <2>8 DEF back
<1> HIDE DEF h
<1>6. IsRewired(h, g)
  BY <1>4 DEF IsRewired
<1>7. Exact(h)
  BY <1>1, <1>5 DEF Exact
<1> QED BY <1>6, <1>7 DEF h

\* Rows whose pointers are those of refs, and views that are.
Agree(g, refs) == \A n \in DOMAIN g : \A f \in Forward[n] : f \in Mirrored => ToSet(g[n].rel[f]) = ToSet(refs[n][f])
Views(g, refs) == \A n \in DOMAIN g : \A f \in InverseFields[n] : \A h : h \in ToSet(g[n].rel[f]) <=> IsEdge(refs, n, h, Spec[f].match)

\* The views of rows with the pointers of refs are exact when they are those of refs.
LEMMA ExactViews ==
    ASSUME InversesById, NEW g, DOMAIN g \in SUBSET Node, NEW refs, DOMAIN refs = DOMAIN g,
           \A n \in DOMAIN g : DOMAIN refs[n] = Forward[n], Agree(g, refs)
    PROVE  Exact(g) <=> Views(g, refs)
<1> DEFINE holders(n, f) == {h \in DOMAIN g : Spec[f].match \in FieldsOf[h] /\ n \in ToSet(g[h].rel[Spec[f].match])}
<1>1. ASSUME NEW n \in DOMAIN g, NEW f \in InverseFields[n], NEW h
      PROVE  h \in holders(n, f) <=> IsEdge(refs, n, h, Spec[f].match)
  <2>1. CASE h \in DOMAIN g
    <3>1. Spec[f].match \in Mirrored /\ (Spec[f].match \in FieldsOf[h] <=> Spec[f].match \in Forward[h])
      BY <2>1, Mirrors
    <3> QED BY <2>1, <3>1 DEF IsEdge, Agree
  <2>2. CASE h \notin DOMAIN g
    BY <2>2 DEF IsEdge
  <2> QED BY <2>1, <2>2
<1>2. Exact(g) <=> \A n \in DOMAIN g : \A f \in InverseFields[n] : ToSet(g[n].rel[f]) = holders(n, f)
  BY DEF Exact
<1> HIDE DEF holders
<1> QED BY <1>1, <1>2 DEF Views

\* A model whose pointers are those of the rows g to rows of the model.
ModelAgrees(m, g) ==
    \A n \in m.nodes : \A f \in Forward[n] : f \in Mirrored => ToSet(m.refs[n][f]) = ToSet(g[n].rel[f]) \cap m.nodes

\* Lookup entries that serve the fields of the rows ns.
Served(entries, ns, tf) ==
    /\ Led(entries, ns) /\ \A e \in entries : e[1] = "Id" => e[2] = e[3]
    /\ \A t \in ns : <<TypeOf[t], "Id">> \in tf => <<"Id", t, t>> \in entries
    /\ \A n \in ns : \A f \in Forward[n] : f \in Mirrored => <<Spec[f].target, "Id">> \in tf

\* Entries that serve a field find by id.
LEMMA ServedFinds ==
    ASSUME NEW entries, NEW ns, NEW tf, Served(entries, ns, tf), NEW n \in ns, NEW f \in Forward[n], f \in Mirrored
    PROVE  FindsById(entries, ns, f)
BY DEF Served, FindsById

\* Entries made for the fields of the rows serve them.
LEMMA MadeServe ==
    ASSUME NEW g, NEW ns, NEW tf, \A n \in ns : \A f \in Forward[n] : f \in Mirrored => <<Spec[f].target, "Id">> \in tf
    PROVE  Served(Entries(g, ns, tf), ns, tf)
<1>1. ASSUME NEW e \in Entries(g, ns, tf), e[1] = "Id" PROVE e[2] = e[3]
  <2>1. (\E n \in ns : e = <<"Id", n, n>>) \/ (\E n \in ns : e = <<"Key", g[n].key, n>>)
    BY DEF Entries
  <2> QED BY <1>1, <2>1
<1>2. \A t \in ns : <<TypeOf[t], "Id">> \in tf => <<"Id", t, t>> \in Entries(g, ns, tf)
  BY DEF Entries
<1>3. Led(Entries(g, ns, tf), ns)
  BY EntriesLead
<1> QED BY <1>1, <1>2, <1>3 DEF Served

\* A graph asks for the lookup fields of its pointers.
LEMMA AskedFor ==
    ASSUME NEW ns, NEW n \in ns, NEW f \in Forward[n], f \in Mirrored
    PROVE  <<Spec[f].target, "Id">> \in TargetFields(ns)
<1>1. LookupField(f) = "Id"
  BY DEF Mirrored, LookupField, OwnMany
<1>2. f \in UNION {Forward[k] : k \in ns}
  OBVIOUS
<1>3. <<Spec[f].target, LookupField(f)>> \in TargetFields(ns)
  BY <1>2 DEF TargetFields
<1> QED BY <1>1, <1>3

\* Rows that are read give their pointers.
LEMMA ScannedById ==
    ASSUME NEW g, IsGraph(g), NEW ns, NEW entries, NEW tf, Served(entries, ns, tf), NEW mem, NEW rows, NEW n \in rows,
           n \in DOMAIN g, n \in ns, NEW f \in Forward[n], f \in Mirrored
    PROVE  ToSet(ScanAll(g, entries, mem, rows)[n][f]) = ToSet(g[n].rel[f]) \cap ns
<1>1. ScanAll(g, entries, mem, rows)[n][f] = Resolved(entries, mem, f, g[n].rel[f])
  BY DEF ScanAll, ScanNode
<1>2. n \in Node /\ f \in FieldsOf[n]
  <2>1. n \in Node
    BY GraphRow
  <2> QED BY <2>1, Fields
<1>3. g[n].rel[f] \in Seq(Node) /\ Fits(f, g[n].rel[f])
  BY <1>2, GraphRow
<1>4. FindsById(entries, ns, f)
  BY ServedFinds
<1> QED BY <1>1, <1>3, <1>4, FoundById

\* A model of all rows.
LEMMA BuiltAgrees ==
    ASSUME NEW g, IsGraph(g), NEW ns, ns = DOMAIN g, NEW entries, NEW tf, Served(entries, ns, tf), NEW mem,
           NEW m, m = BuildModel(g, ns, entries, tf, mem)
    PROVE  ModelAgrees(m, g) /\ Served(m.entries, m.nodes, m.tf)
<1> DEFINE refs == ScanAll(g, entries, mem, ns)
<1>1. m.nodes = ns /\ m.entries = entries /\ m.tf = tf /\ m.refs = refs
  BY DEF BuildModel, Linked, ModelFrom
<1>2. ASSUME NEW n \in ns, NEW f \in Forward[n], f \in Mirrored PROVE ToSet(refs[n][f]) = ToSet(g[n].rel[f]) \cap ns
  BY <1>2, ScannedById
<1> HIDE DEF refs
<1>3. ModelAgrees(m, g)
  BY <1>1, <1>2 DEF ModelAgrees
<1> QED BY <1>1, <1>3

\* The model of a whole graph keeps its pointers.
LEMMA RebuildAgrees ==
    ASSUME NEW g, IsGraph(g), NEW m, m = Rebuild(g)
    PROVE  ModelAgrees(m, g) /\ Served(m.entries, m.nodes, m.tf)
<1> DEFINE ns == DOMAIN g
           tf == TargetFields(ns)
           entries == Entries(g, ns, tf)
<1>1. \A n \in ns : \A f \in Forward[n] : f \in Mirrored => <<Spec[f].target, "Id">> \in tf
  BY AskedFor
<1>2. m = BuildModel(g, ns, entries, tf, g)
  BY DEF Rebuild, Built
<1> HIDE DEF tf
<1>3. Served(entries, ns, tf)
  BY <1>1, MadeServe
<1> HIDE DEF entries
<1> QED BY <1>2, <1>3, BuiltAgrees

\* A model derived from a committed one whose pointers are those of the rows old.
LEMMA RescanAgrees ==
    ASSUME NEW committed, NEW old, IsModel(committed, DOMAIN old), IsGraph(old), Agree(old, committed.refs),
           NEW g, IsGraph(g), NEW ns, ns = DOMAIN g, NEW rows, ns = DOMAIN old \cup rows, \A n \in ns \ rows : g[n] = old[n],
           NEW entries, Served(entries, ns, committed.tf), NEW mem,
           NEW m, m = Rescan(committed, g, ns, entries, mem, rows)
    PROVE  ModelAgrees(m, g) /\ Served(m.entries, m.nodes, m.tf)
<1> DEFINE read == ScanAll(g, entries, mem, rows)
           before == committed.refs
           stay == Restrict(before, committed.nodes \ rows)
           refs == read ++ stay
           tf == committed.tf
<1>1. m.nodes = ns /\ m.entries = entries /\ m.tf = tf /\ m.refs = refs
  BY DEF Rescan, Rescanned, DeltaLinked, Linked, ModelFrom
<1>2. committed.nodes = DOMAIN old /\ RefsTyped(DOMAIN old, DOMAIN old, before) /\ Served(entries, ns, tf)
  BY DEF IsModel
<1>3. DOMAIN read = rows
  BY DEF ScanAll
<1>4. \A n \in rows : refs[n] = read[n]
  BY <1>3 DEF ++
<1>5. \A n \in ns \ rows : refs[n] = before[n] /\ n \in DOMAIN old
  BY <1>2, <1>3 DEF ++, Restrict
<1> HIDE DEF refs, stay, tf, before
<1>6. ASSUME NEW n \in ns, NEW f \in Forward[n], f \in Mirrored PROVE ToSet(refs[n][f]) = ToSet(g[n].rel[f]) \cap ns
  <2>1. CASE n \in rows
    <3>1. n \in rows /\ n \in DOMAIN g /\ n \in ns /\ f \in Forward[n] /\ f \in Mirrored
      BY <1>6, <2>1
    <3>2. Served(entries, ns, tf)
      BY <1>2
    <3>3. ToSet(ScanAll(g, entries, mem, rows)[n][f]) = ToSet(g[n].rel[f]) \cap ns
      BY ONLY IsGraph(g), <3>1, <3>2, ScannedById
    <3> HIDE DEF read
    <3> QED BY <1>4, <2>1, <3>3 DEF read
  <2>2. CASE n \notin rows
    <3>1. ToSet(g[n].rel[f]) = ToSet(before[n][f])
      BY <1>5, <1>6, <2>2 DEF Agree, before
    <3>2. before[n][f] \in Seq(DOMAIN old)
      BY <1>2, <1>5, <2>2 DEF RefsTyped
    <3>3. ToSet(before[n][f]) \in SUBSET ns
      BY <3>2, Elements
    <3> QED BY <1>5, <2>2, <3>1, <3>3
  <2> QED BY <2>1, <2>2
<1>7. ModelAgrees(m, g)
  BY <1>1, <1>6 DEF ModelAgrees
<1> QED BY <1>1, <1>2, <1>7

\* The model of a transaction.
LEMMA TransactionAgrees ==
    ASSUME IsGraph(live), graph # None => IsKept(graph, DOMAIN live) /\ Served(graph.entries, DOMAIN live, graph.tf) /\ Agree(live, graph.refs),
           NEW over, IsGraph(over), NEW fresh \in SUBSET DOMAIN over, DOMAIN over \ fresh \subseteq DOMAIN live, NEW mem,
           NEW m, m = TransactionModel(over, fresh, mem)
    PROVE  ModelAgrees(m, over ++ live) /\ Served(m.entries, m.nodes, m.tf)
<1> DEFINE g == over ++ live
           none == graph = None
           ns == (IF none THEN DOMAIN live ELSE graph.nodes) \cup DOMAIN over
           retyped == none \/ \E n \in fresh : \A k \in graph.nodes : TypeOf[k] # TypeOf[n]
           tf == IF retyped THEN TargetFields(ns) ELSE graph.tf
           rekeyed == \E n \in DOMAIN over \cap graph.nodes :
                           <<TypeOf[n], "Key">> \in graph.tf /\ over[n].key # live[n].key
           created == Entries(over, fresh, tf)
           entries == IF retyped \/ rekeyed THEN Entries(g, ns, tf) ELSE graph.entries \cup created
           opened == {u[1] : u \in {x \in graph.unresolved : Candidates(entries, x[2], x[3]) # {}}}
           rows == DOMAIN over \cup opened
<1>1. m = IF retyped \/ rekeyed \/ Overlap(graph.entries, created)
          THEN BuildModel(g, ns, entries, tf, mem)
          ELSE Rescan(graph, g, ns, entries, mem, rows)
  BY DEF TransactionModel, ModelDelta
<1>2. /\ IsGraph(g) /\ DOMAIN g = DOMAIN over \cup DOMAIN live
      /\ \A n \in DOMAIN live \ DOMAIN over : g[n] = live[n]
  BY GraphOver DEF ++
<1>3. ns = DOMAIN g /\ DOMAIN over \subseteq ns
  BY <1>2 DEF IsKept, IsModel
<1>4. ~none => /\ IsModel(graph, DOMAIN live) /\ graph.nodes = DOMAIN live /\ Served(graph.entries, DOMAIN live, graph.tf)
               /\ Agree(live, graph.refs) /\ \A u \in graph.unresolved : u[1] \in DOMAIN live
  BY DEF IsKept, IsModel
<1>5. ~none => \A n \in opened : n \in DOMAIN live
  BY <1>4
<1>6. ~none => ns = DOMAIN live \cup fresh
  BY <1>4
<1>7. retyped \/ ~none
  OBVIOUS
<1>8. retyped => tf = TargetFields(ns)
  OBVIOUS
<1>9. ~retyped => tf = graph.tf /\ \A n \in fresh : \E k \in graph.nodes : TypeOf[k] = TypeOf[n]
  OBVIOUS
<1>10. /\ retyped \/ rekeyed => entries = Entries(g, ns, tf)
       /\ ~(retyped \/ rekeyed) => entries = graph.entries \cup created
  OBVIOUS
<1>11. created = Entries(over, fresh, tf) /\ g = over ++ live /\ rows = DOMAIN over \cup opened
  OBVIOUS
<1> HIDE DEF g, ns, entries, created, tf, rekeyed, opened, retyped, none, rows
<1>12. ASSUME NEW n \in ns, NEW f \in Forward[n], f \in Mirrored PROVE <<Spec[f].target, "Id">> \in tf
  <2>1. CASE retyped
    BY <1>8, <1>12, <2>1, AskedFor
  <2>2. CASE ~retyped
    <3>1. ASSUME NEW k \in DOMAIN live, NEW x \in Forward[k], x \in Mirrored PROVE <<Spec[x].target, "Id">> \in tf
      BY <1>4, <1>7, <1>9, <2>2, <3>1 DEF Served
    <3>2. CASE n \in DOMAIN live
      BY <1>12, <3>1, <3>2
    <3>3. CASE n \in fresh
      <4>1. PICK k \in DOMAIN live : TypeOf[k] = TypeOf[n]
        BY <1>4, <1>7, <1>9, <2>2, <3>3
      <4>2. k \in Node /\ n \in Node
        BY <3>3 DEF IsGraph
      <4>3. f \in Forward[k]
        BY <4>1, <4>2, Fields
      <4> QED BY <1>12, <3>1, <4>3
    <3> QED BY <1>6, <1>7, <2>2, <3>2, <3>3
  <2> QED BY <2>1, <2>2
<1>13. Served(entries, ns, tf)
  <2>1. CASE retyped \/ rekeyed
    <3>1. Served(Entries(g, ns, tf), ns, tf)
      BY <1>12, MadeServe
    <3> QED BY <1>10, <2>1, <3>1
  <2>2. CASE ~(retyped \/ rekeyed)
    <3>1. /\ Led(created, fresh) /\ \A e \in created : e[1] = "Id" => e[2] = e[3]
          /\ \A t \in fresh : <<TypeOf[t], "Id">> \in tf => <<"Id", t, t>> \in created
      <4>1. \A n \in fresh : \A f \in Forward[n] : f \in Mirrored => <<Spec[f].target, "Id">> \in tf
        BY <1>3, <1>12
      <4>2. Served(Entries(over, fresh, tf), fresh, tf)
        BY <4>1, MadeServe
      <4> QED BY <1>11, <4>2 DEF Served
    <3>2. entries = graph.entries \cup created /\ ~none /\ tf = graph.tf
      BY <1>7, <1>9, <1>10, <2>2
    <3>3. ns = DOMAIN live \cup fresh
      BY <1>6, <3>2
    <3>4. \A e \in entries : e[3] \in ns /\ (e[1] = "Id" => e[2] = e[3])
      BY <1>4, <3>1, <3>2, <3>3 DEF Served, Led
    <3>5. \A t \in ns : <<TypeOf[t], "Id">> \in tf => <<"Id", t, t>> \in entries
      BY <1>4, <3>1, <3>2, <3>3 DEF Served
    <3> QED BY <1>12, <3>4, <3>5 DEF Served, Led
  <2> QED BY <2>1, <2>2
<1>14. CASE retyped \/ rekeyed \/ Overlap(graph.entries, created)
  <2>1. m = BuildModel(g, ns, entries, tf, mem)
    BY <1>1, <1>14
  <2>2. ModelAgrees(m, g) /\ Served(m.entries, m.nodes, m.tf)
    BY <1>2, <1>3, <1>13, <2>1, BuiltAgrees
  <2> QED BY <1>11, <2>2
<1>15. CASE ~(retyped \/ rekeyed \/ Overlap(graph.entries, created))
  <2>1. m = Rescan(graph, g, ns, entries, mem, rows) /\ ~none /\ tf = graph.tf
    BY <1>1, <1>7, <1>9, <1>15
  <2>2. ns = DOMAIN live \cup rows /\ \A n \in ns \ rows : g[n] = live[n]
    BY <1>2, <1>3, <1>5, <1>11, <2>1
  <2>3. IsModel(graph, DOMAIN live) /\ Agree(live, graph.refs) /\ Served(entries, ns, graph.tf)
    BY <1>4, <1>13, <2>1
  <2>4. ModelAgrees(m, g) /\ Served(m.entries, m.nodes, m.tf)
    BY <1>2, <1>3, <2>1, <2>2, <2>3, RescanAgrees
  <2> QED BY <1>11, <2>4
<1> QED BY <1>14, <1>15

\* The rows a model settles have exact views, and the pointers of its index.
LEMMA SettledExact ==
    ASSUME InversesById, NEW g, IsGraph(g), NEW m, IsModel(m, DOMAIN g), ModelAgrees(m, g), NEW dead
    PROVE  Exact(SettledRows(g, m, dead)) /\ Agree(SettledRows(g, m, dead), BuildIndex(m, dead).refs)
<1> DEFINE ns == DOMAIN g
           left == m.nodes \ dead
           to == m.refs
           c == Canonicalize(g, m, dead)
           r == Reconcile(g, m, dead)
           s == Restrict(r, left)
           refs == [n \in left |-> [f \in Forward[n] |-> Without(to[n][f], dead)]]
<1>1. ns \in SUBSET Node /\ m.nodes = ns /\ RefsTyped(ns, ns, to) /\ left = ns \ dead
  BY DEF IsModel
<1>2. IsGraph(c) /\ DOMAIN c = ns /\ IsCanonical(c, g, to, dead)
  BY <1>1, CanonicalTyped
<1>3. r = SyncBacks(c, to, left) /\ SettledRows(g, m, dead) = Rewire(s) /\ BuildIndex(m, dead).refs = refs
  BY DEF Reconcile, SettledRows, BuildIndex
<1> HIDE DEF c, r, to
<1>4. /\ IsGraph(r) /\ DOMAIN r = ns
      /\ \A n \in ns : \A f \in FieldsOf[n] : Spec[f].kind # "ownedby" => r[n].rel[f] = c[n].rel[f]
  <2> HIDE DEF left, ns
  <2> DEFINE h == SyncBacks(c, to, left)
  <2>1. IsGraph(h) /\ DOMAIN h = DOMAIN c /\ Synced(h, c, ns)
    BY <1>1, <1>2, SyncTyped
  <2> HIDE DEF h
  <2> QED BY <1>2, <1>3, <2>1 DEF h, Synced
<1>5. IsGraph(s) /\ DOMAIN s = left /\ \A n \in left : s[n] = r[n]
  BY <1>1, <1>4, GraphOfFewer
<1> HIDE DEF s
<1>6. ASSUME NEW n \in left, NEW f \in Forward[n], f \in Mirrored PROVE ToSet(s[n].rel[f]) \cap left = ToSet(to[n][f]) \ dead
  <2>1. n \in ns /\ n \in Node /\ n \notin dead /\ f \in FieldsOf[n] /\ Spec[f].kind # "ownedby"
    BY <1>1, <1>6, Fields DEF Mirrored
  <2>2. s[n].rel[f] = c[n].rel[f]
    BY <1>4, <1>5, <2>1
  <2>3. to[n][f] \in Seq(ns) /\ Fits(f, to[n][f])
    BY <1>1, <2>1 DEF RefsTyped
  <2>4. ToSet(to[n][f]) = ToSet(g[n].rel[f]) \cap ns
    BY <1>1, <1>6, <2>1 DEF ModelAgrees, to
  <2>5. c[n].rel[f] = IF Spec[f].many \/ to[n][f] = <<>> THEN g[n].rel[f]
                      ELSE IF to[n][f][1] \notin dead THEN to[n][f]
                      ELSE IF Spec[f].kind = "option" THEN <<>> ELSE g[n].rel[f]
    BY <1>2, <2>1 DEF IsCanonical
  <2>6. CASE c[n].rel[f] = g[n].rel[f]
    BY <1>1, <2>2, <2>4, <2>6
  <2>7. CASE c[n].rel[f] = to[n][f]
    <3>1. ToSet(to[n][f]) \in SUBSET ns
      BY <2>3, Elements
    <3> QED BY <1>1, <2>2, <2>7, <3>1
  <2>8. CASE c[n].rel[f] = <<>> /\ to[n][f] # <<>> /\ ~Spec[f].many /\ to[n][f][1] \in dead
    <3>1. ToSet(<<>>) = {}
      BY DEF ToSet
    <3>2. Len(to[n][f]) <= 1
      BY <2>3, <2>8 DEF Fits
    <3>3. ToSet(to[n][f]) = {to[n][f][1]}
      BY <2>3, <2>8, <3>2, FirstElement
    <3> QED BY <2>2, <2>8, <3>1, <3>3
  <2> QED BY <2>5, <2>6, <2>7, <2>8
<1>7. IsRewired(Rewire(s), s) /\ Exact(Rewire(s)) /\ DOMAIN Rewire(s) = left
  BY <1>5, RewireExact, RewireTyped
<1>8. ASSUME NEW n \in left, NEW f \in Forward[n], f \in Mirrored PROVE ToSet(Rewire(s)[n].rel[f]) = ToSet(refs[n][f])
  <2>1. ToSet(Rewire(s)[n].rel[f]) = ToSet(s[n].rel[f]) \cap left
    BY <1>5, <1>7, <1>8 DEF IsRewired
  <2>2. refs[n][f] = Without(to[n][f], dead) /\ to[n][f] \in Seq(ns)
    BY <1>1 DEF RefsTyped
  <2> HIDE DEF refs
  <2>3. ToSet(refs[n][f]) = ToSet(to[n][f]) \ dead
    BY <2>2, Remaining
  <2> QED BY <1>6, <1>8, <2>1, <2>3
<1> HIDE DEF refs
<1>9. Agree(Rewire(s), refs)
  BY <1>7, <1>8 DEF Agree
<1> QED BY <1>3, <1>7, <1>9

\* The inverse views a delta refreshes.
LEMMA InverseTargetsAre ==
    ASSUME NEW refs, NEW n
    PROVE  /\ n \in DOMAIN refs /\ InverseFields[n] # {} => n \in InverseTargets(refs)
           /\ \A k \in DOMAIN refs : \A x \in Forward[k] :
                 /\ Spec[x].kind \in {"borrow", "option"}
                 /\ n \in ToSet(refs[k][x]) \/ n \in CommittedTargets(k, x)
                 => n \in InverseTargets(refs)
<1> DEFINE at(k, x) == ToSet(refs[k][x]) \cup CommittedTargets(k, x)
           all(k) == UNION {at(k, x) : x \in {y \in Forward[k] : Spec[y].kind \in {"borrow", "option"}}}
<1>1. InverseTargets(refs) = {k \in DOMAIN refs : InverseFields[k] # {}} \cup (UNION {all(k) : k \in DOMAIN refs})
  BY DEF InverseTargets
<1> HIDE DEF at
<1>2. ASSUME NEW k \in DOMAIN refs, NEW x \in Forward[k], Spec[x].kind \in {"borrow", "option"}, n \in at(k, x)
      PROVE  n \in InverseTargets(refs)
  <2>1. n \in all(k)
    BY <1>2
  <2> HIDE DEF all
  <2> QED BY <1>1, <2>1
<1> QED BY <1>1, <1>2 DEF at

\* Rows that a delta starts from: those it was not given have the views they had.
SameViews(g, ns) == \A n \in ns : \A f \in InverseFields[n] : g[n].rel[f] = live[n].rel[f]

\* The views after a delta, of rows whose views were those of the old index.
LEMMA DeltaViews ==
    ASSUME NEW old, old = DOMAIN live, IsIndex(index, old), Views(live, index.refs),
           NEW over, NEW fresh, fresh \in SUBSET DOMAIN over, NEW mem, NEW d, DeltaApplied(old, over, fresh, mem, d),
           NEW g, DOMAIN g = old \cup fresh, SameViews(g, old \ DOMAIN over), NEW h, DOMAIN h = DOMAIN g, Published(h, g, d)
    PROVE  Views(h, d.index.refs)
<1> DEFINE ns == old \cup fresh
           refs == Scanned(over, fresh, mem)
           before == index.refs
           ix == d.index
           all == d.index.refs
<1>1. /\ RefsTyped(DOMAIN over, ns, refs) /\ d.published = refs /\ d.mirrors = InverseTargets(refs)
      /\ IsIndex(ix, ns) /\ all = refs ++ before
  BY DEF DeltaApplied
<1>2. /\ ns \in SUBSET Node /\ ix.nodes = ns /\ RefsTyped(ns, ns, all) /\ ix.inc = Incoming(all)
  BY <1>1 DEF IsIndex
<1>3. /\ old \in SUBSET Node /\ index.nodes = old /\ RefsTyped(old, old, before)
  BY DEF IsIndex
<1>4. DOMAIN refs = DOMAIN over /\ \A k \in DOMAIN refs : all[k] = refs[k] /\ DOMAIN refs[k] = Forward[k]
  BY <1>1 DEF RefsTyped, ++
<1>5. DOMAIN before = old /\ (\A k \in old : DOMAIN before[k] = Forward[k]) /\ \A k \in old \ DOMAIN refs : all[k] = before[k]
  BY <1>1, <1>3 DEF RefsTyped, ++
<1>6. DOMAIN all = ns
  BY <1>2 DEF RefsTyped
<1> HIDE DEF refs, before, all, ix, ns
<1> SUFFICES ASSUME NEW n \in DOMAIN h, NEW f \in InverseFields[n], NEW x, NEW b, b = Spec[f].match
             PROVE  x \in ToSet(h[n].rel[f]) <=> IsEdge(all, n, x, b)
  BY DEF Views, all
<1>7. n \in ns /\ n \in Node
  BY <1>2 DEF ns
<1>8. Spec[b].kind \in {"borrow", "option"}
  <2>1. f \in Field /\ Spec[f].kind = "inverse"
    BY <1>7, Fields
  <2> QED BY <2>1, Schema
<1>9. CASE n \in d.mirrors
  <2>1. ToSet(h[n].rel[f]) = Holders(ix, n, f)
    BY <1>9 DEF Published, ix
  <2>2. x \in Holders(ix, n, f) <=> x \in ns /\ <<n, x, b>> \in DOMAIN Incoming(all)
    BY <1>2 DEF Holders
  <2>3. <<n, x, b>> \in DOMAIN Incoming(all) <=> IsEdge(all, n, x, b)
    BY Edges
  <2> QED BY <1>6, <2>1, <2>2, <2>3 DEF IsEdge
<1>10. CASE n \notin d.mirrors
  <2>1. n \notin DOMAIN refs
    BY <1>1, <1>10, InverseTargetsAre
  <2>2. n \in old
    BY <1>4, <1>7, <2>1 DEF ns
  <2>3. h[n].rel[f] = live[n].rel[f]
    <3>1. h[n].rel[f] = g[n].rel[f]
      BY <1>10 DEF Published
    <3> QED BY <1>4, <2>1, <2>2, <3>1 DEF SameViews
  <2>4. x \in ToSet(live[n].rel[f]) <=> IsEdge(before, n, x, b)
    BY <2>2 DEF Views, before
  <2>5. CASE x \in DOMAIN refs
    <3>1. ~IsEdge(all, n, x, b)
      BY <1>1, <1>4, <1>8, <1>10, <2>5, InverseTargetsAre DEF IsEdge
    <3>2. ~IsEdge(before, n, x, b)
      <4> SUFFICES ASSUME IsEdge(before, n, x, b) PROVE FALSE
        OBVIOUS
      <4>1. x \in old /\ b \in Forward[x] /\ n \in ToSet(before[x][b])
        BY <1>5 DEF IsEdge
      <4>2. n \in CommittedTargets(x, b)
        BY <1>3, <4>1 DEF CommittedTargets, before
      <4> QED BY <1>1, <1>8, <1>10, <2>5, <4>1, <4>2, InverseTargetsAre
    <3> QED BY <2>3, <2>4, <3>1, <3>2
  <2>6. CASE x \notin DOMAIN refs
    <3>1. DOMAIN all = DOMAIN refs \cup old
      BY <1>1, <1>5 DEF ++
    <3>2. IsEdge(all, n, x, b) <=> IsEdge(before, n, x, b)
      BY <1>5, <2>6, <3>1 DEF IsEdge
    <3> QED BY <2>3, <2>4, <3>2
  <2> QED BY <2>5, <2>6
<1> QED BY <1>9, <1>10

\* The pointers after a delta, of rows that agreed wherever it did not look.
LEMMA DeltaAgrees ==
    ASSUME NEW old, NEW over, NEW fresh \in SUBSET DOMAIN over, NEW mem, NEW d, DeltaApplied(old, over, fresh, mem, d),
           NEW g, DOMAIN g = old \cup fresh, NEW h, DOMAIN h = DOMAIN g, Published(h, g, d),
           \A n \in old \ DOMAIN over : \A f \in Forward[n] : f \in Mirrored => ToSet(g[n].rel[f]) = ToSet(index.refs[n][f])
    PROVE  Agree(h, d.index.refs)
<1> DEFINE refs == Scanned(over, fresh, mem)
           before == index.refs
           all == d.index.refs
<1>1. RefsTyped(DOMAIN over, old \cup fresh, refs) /\ d.published = refs /\ all = refs ++ before /\ RefsTyped(old \cup fresh, old \cup fresh, all)
  BY DEF DeltaApplied, IsIndex
<1>2. DOMAIN refs = DOMAIN over /\ DOMAIN all = old \cup fresh
  BY <1>1 DEF RefsTyped
<1>3. (\A k \in DOMAIN refs : all[k] = refs[k]) /\ (\A k \in DOMAIN all \ DOMAIN refs : all[k] = before[k])
  BY <1>1 DEF ++
<1> HIDE DEF refs, before, all
<1> SUFFICES ASSUME NEW n \in DOMAIN h, NEW f \in Forward[n], f \in Mirrored
             PROVE  ToSet(h[n].rel[f]) = ToSet(all[n][f])
  BY DEF Agree, all
<1>4. CASE n \in DOMAIN refs
  BY <1>1, <1>3, <1>4 DEF Published
<1>5. CASE n \notin DOMAIN refs
  <2>1. n \in old /\ n \in DOMAIN all /\ n \notin DOMAIN over /\ Spec[f].kind # "ownedby"
    BY <1>2, <1>5 DEF Mirrored
  <2>2. h[n].rel[f] = g[n].rel[f]
    BY <1>1, <1>5, <2>1 DEF Published
  <2> QED BY <1>3, <1>5, <2>1, <2>2 DEF before
<1> QED BY <1>4, <1>5

\* Rows and an index that mirror each other, with the model that is kept.
Backs(gr, rows, ix) ==
    gr # None =>
        /\ Served(gr.entries, DOMAIN rows, gr.tf)
        /\ \A n \in DOMAIN rows : \A f \in Forward[n] : f \in Mirrored => ToSet(gr.refs[n][f]) = ToSet(ix.refs[n][f])
Reflected(rows, ix, gr) == Views(rows, ix.refs) /\ Agree(rows, ix.refs) /\ Backs(gr, rows, ix)

\* Rows that a model settles mirror the index that is built from it.
LEMMA StoredReflects ==
    ASSUME InversesById, NEW m, NEW ns, IsModel(m, ns), Served(m.entries, m.nodes, m.tf), NEW dead,
           IsIndex(BuildIndex(m, dead), ns \ dead), NEW rows, IsGraph(rows), DOMAIN rows = ns \ dead,
           Exact(rows), Agree(rows, BuildIndex(m, dead).refs), NEW gr, gr = IF dead = {} THEN m ELSE None
    PROVE  Reflected(rows, BuildIndex(m, dead), gr)
<1> DEFINE left == ns \ dead
           ix == BuildIndex(m, dead)
           refs == ix.refs
           to == m.refs
<1>1. m.nodes = ns /\ RefsTyped(ns, ns, to) /\ left \in SUBSET Node /\ RefsTyped(left, left, refs)
  BY DEF IsModel, IsIndex
<1>2. refs = [n \in left |-> [f \in Forward[n] |-> Without(to[n][f], dead)]]
  BY <1>1 DEF BuildIndex
<1> HIDE DEF refs, to
<1>3. DOMAIN refs = left /\ \A n \in left : DOMAIN refs[n] = Forward[n]
  BY <1>1 DEF RefsTyped
<1>4. Agree(rows, refs) /\ DOMAIN rows \in SUBSET Node /\ DOMAIN refs = DOMAIN rows
  BY <1>1, <1>3 DEF refs
<1>5. Exact(rows) <=> Views(rows, refs)
  BY <1>3, <1>4, ExactViews
<1>6. ASSUME gr # None PROVE Backs(gr, rows, ix)
  <2>1. dead = {} /\ gr = m /\ left = ns
    BY <1>6
  <2>2. Served(gr.entries, DOMAIN rows, gr.tf)
    BY <1>1, <2>1
  <2>3. ASSUME NEW n \in ns, NEW f \in Forward[n] PROVE ToSet(to[n][f]) = ToSet(refs[n][f])
    <3>1. to[n][f] \in Seq(ns)
      BY <1>1 DEF RefsTyped
    <3>2. ToSet(Without(to[n][f], dead)) = ToSet(to[n][f]) \ dead
      BY <3>1, Remaining
    <3>3. refs[n][f] = Without(to[n][f], dead)
      BY <1>2, <2>1
    <3> QED BY <2>1, <3>2, <3>3
  <2> QED BY <2>1, <2>2, <2>3 DEF Backs, refs, to
<1>7. gr = None => Backs(gr, rows, ix)
  BY DEF Backs
<1> HIDE DEF ix
<1> QED BY <1>4, <1>5, <1>6, <1>7 DEF Reflected, refs, ix

\* What remains of rows, after a delete that the index settled, has the views of
\* what remains of the index.
LEMMA LostViews ==
    ASSUME NEW ns, NEW all, RefsTyped(ns, ns, all), NEW h, IsGraph(h), DOMAIN h = ns, Views(h, all), Agree(h, all),
           NEW left \in SUBSET ns, NEW ix, IsIndex(ix, left), ix.refs = Restrict(all, left), NEW lost,
           \A n \in left \ lost : \A f \in InverseFields[n] : \A x : IsEdge(all, n, x, Spec[f].match) => x \in left
    PROVE  LET s == RefreshMirrors(Restrict(h, left), ix, lost) IN Views(s, ix.refs) /\ Agree(s, ix.refs)
<1> DEFINE k == Restrict(h, left)
           s == RefreshMirrors(k, ix, lost)
           refs == ix.refs
<1>1. IsGraph(k) /\ DOMAIN k = left /\ \A n \in left : k[n] = h[n]
  BY GraphOfFewer DEF Restrict
<1>2. left \in SUBSET Node /\ ix.nodes = left /\ RefsTyped(left, left, refs) /\ ix.inc = Incoming(refs)
  BY DEF IsIndex
<1>3. HeldByRows(ix.inc)
  <2> HIDE DEF refs
  <2>1. HeldByRows(Incoming(refs))
    BY <1>2, EdgesHeld
  <2> QED BY <1>2, <2>1
<1>4. DOMAIN refs = left /\ (\A n \in left : refs[n] = all[n]) /\ DOMAIN all = ns
  BY <1>2 DEF RefsTyped, Restrict
<1> HIDE DEF k, refs
<1>5. /\ DOMAIN s = DOMAIN k
      /\ \A n \in DOMAIN k :
            /\ n \notin lost => s[n] = k[n]
            /\ \A f \in Forward[n] : s[n].rel[f] = k[n].rel[f]
            /\ \A f \in InverseFields[n] : n \in lost => ToSet(s[n].rel[f]) = Holders(ix, n, f)
  BY <1>1, <1>2, <1>3, MirrorsTyped
<1> HIDE DEF s
<1>6. ASSUME NEW n \in left, NEW f \in InverseFields[n], NEW x, NEW b, b = Spec[f].match
      PROVE  x \in ToSet(s[n].rel[f]) <=> IsEdge(refs, n, x, b)
  <2>1. CASE n \in lost
    <3>1. x \in ToSet(s[n].rel[f]) <=> x \in left /\ <<n, x, b>> \in DOMAIN Incoming(refs)
      BY <1>1, <1>2, <1>5, <1>6, <2>1 DEF Holders
    <3>2. <<n, x, b>> \in DOMAIN Incoming(refs) <=> IsEdge(refs, n, x, b)
      BY Edges
    <3> QED BY <1>4, <3>1, <3>2 DEF IsEdge
  <2>2. CASE n \notin lost
    <3>1. s[n].rel[f] = h[n].rel[f]
      BY <1>1, <1>5, <2>2
    <3>2. x \in ToSet(h[n].rel[f]) <=> IsEdge(all, n, x, b)
      BY <1>6 DEF Views
    <3>3. IsEdge(all, n, x, b) => x \in left
      BY <1>6, <2>2
    <3>4. IsEdge(all, n, x, b) <=> IsEdge(refs, n, x, b)
      BY <1>4, <3>3 DEF IsEdge
    <3> QED BY <3>1, <3>2, <3>4
  <2> QED BY <2>1, <2>2
<1>7. Views(s, refs)
  BY <1>1, <1>5, <1>6 DEF Views
<1>8. Agree(s, refs)
  BY <1>1, <1>4, <1>5 DEF Agree
<1> QED BY <1>7, <1>8 DEF s, k, refs

----------------------------------------------------------------------------
\* The invariant behind the inverse views.

\* The views are those of the committed index whether or not a session is open;
\* the forward pointers are once it is settled; the model that is kept is theirs.
Reflects ==
    /\ Views(live, index.refs)
    /\ Settled => Agree(live, index.refs)
    /\ Backs(graph, live, index)

\* Rows that a transaction has only touched are written back as they are: they
\* were not touched, or nobody else has changed them.
Snapshots ==
    /\ "touch" \notin Projects[project].ops => tx.scalar = {}
    /\ "concurrent" \notin Projects[project].ops => \A n \in DOMAIN tx.orig : n \in DOMAIN live /\ tx.orig[n] = live[n]

\* No project mixes the two.
OneOfTwo == \A p \in DOMAIN Projects : "touch" \notin Projects[p].ops \/ "concurrent" \notin Projects[p].ops

\* A model that settles the graph.
LEMMA SettledReflects ==
    ASSUME InversesById, NEW g, NEW m, NEW explicit, NEW dead, Settles(g, m, explicit, dead),
           ModelAgrees(m, g), Served(m.entries, m.nodes, m.tf)
    PROVE  Reflected(live', index', graph')
<1> DEFINE ns == DOMAIN g
           rows == SettledRows(g, m, dead)
<1>1. /\ IsGraph(g) /\ IsModel(m, ns) /\ dead = Doomed(m, index.out, explicit) /\ Accepted(m, explicit, dead)
      /\ live' = rows /\ StoreCommitted(m, dead)
  BY DEF Settles
<1>2. Committed' /\ DOMAIN live' = ns \ dead
  BY <1>1, SettleStep
<1>3. index' = BuildIndex(m, dead) /\ graph' = IF dead = {} THEN m ELSE None
  BY <1>1 DEF StoreCommitted
<1>4. Exact(rows) /\ Agree(rows, BuildIndex(m, dead).refs)
  BY <1>1, SettledExact
<1> HIDE DEF rows, ns
<1>5. IsGraph(live') /\ IsIndex(index', ns \ dead)
  BY <1>2 DEF Committed
<1>6. IsGraph(rows) /\ DOMAIN rows = ns \ dead /\ IsIndex(BuildIndex(m, dead), ns \ dead)
  BY <1>1, <1>2, <1>3, <1>5
<1> DEFINE gr == IF dead = {} THEN m ELSE None
<1>7. Reflected(rows, BuildIndex(m, dead), gr)
  BY <1>1, <1>4, <1>6, StoredReflects
<1> QED BY <1>1, <1>3, <1>7

\* Rows that stay as they were.
LEMMA SameReflects ==
    ASSUME Reflects, Settled, DOMAIN live' = DOMAIN live, \A n \in DOMAIN live : live'[n] = live[n], UNCHANGED <<index, graph>>
    PROVE  Reflected(live', index', graph')
BY DEF Reflects, Reflected, Views, Agree, Backs

\* A commit.
LEMMA CommitReflects ==
    ASSUME InversesById, OneOfTwo, RelationInv, Reflects, Snapshots, Commit
    PROVE  Reflected(live', index', graph')
<1>1. /\ IsGraph(live) /\ IsIndex(index, DOMAIN live) /\ (graph # None => IsKept(graph, DOMAIN live))
      /\ IsGraph(tx.work) /\ tx.fresh \subseteq DOMAIN tx.work /\ DOMAIN tx.work \subseteq DOMAIN tx.orig \cup tx.fresh
      /\ project \in DOMAIN Projects
  BY DEF RelationInv, Committed, Staged
<1>2. Settled /\ Views(live, index.refs) /\ Agree(live, index.refs) /\ Backs(graph, live, index)
  BY DEF Commit, Reflects
<1>3. CASE UNCHANGED <<live, index, graph>>
  BY <1>2, <1>3, SameReflects
<1>4. CASE ~Conflict /\ ~GraphChanged /\ Writes(Over ++ live)
  <2>1. live' = Over ++ live /\ DOMAIN live' = DOMAIN live /\ UNCHANGED <<index, graph>>
    BY <1>4 DEF Writes
  <2>2. tx.fresh = {} /\ \A n \in Touched : tx.work[n] = tx.orig[n]
    BY <1>4 DEF GraphChanged, RelationChanged
  <2>3. Touched \in SUBSET DOMAIN tx.work /\ Touched \in SUBSET DOMAIN tx.orig
    BY <1>1, <2>2 DEF Touched
  <2>4. DOMAIN Over = Touched /\ \A n \in Touched : Over[n] = tx.work[n]
    BY <2>2, <2>3 DEF Over, Restrict
  <2>5. \A n \in Touched : Over[n] = live[n]
    <3>1. CASE "touch" \notin Projects[project].ops
      <4>1. Touched = {}
        BY <2>2, <3>1 DEF Snapshots, Touched
      <4> QED BY <4>1
    <3>2. CASE "concurrent" \notin Projects[project].ops
      BY <2>2, <2>3, <2>4, <3>2 DEF Snapshots
    <3> QED BY <1>1, <3>1, <3>2 DEF OneOfTwo
  <2>6. \A n \in DOMAIN live : live'[n] = live[n]
    BY <2>1, <2>4, <2>5 DEF ++
  <2> QED BY <1>2, <2>1, <2>6, SameReflects
<1>5. CASE \E aliased, d : CommitPublishes(aliased, d)
  <2>1. PICK aliased, d : CommitPublishes(aliased, d)
    BY <1>5
  <2> DEFINE over == Over
             fresh == tx.fresh
             mem == Memory(aliased)
             g == Over ++ live
             old == DOMAIN live
             h == DeltaRows(g, d)
  <2>2. /\ IsIndex(index, old) /\ IsGraph(over) /\ fresh \in SUBSET DOMAIN over /\ DeltaAccepted(over, fresh, mem, d)
        /\ DeltaApplied(old, over, fresh, mem, d)
        /\ IsGraph(g) /\ DOMAIN g = old \cup fresh /\ live' = h /\ index' = d.index /\ graph' = None
    BY <1>1, <2>1 DEF CommitPublishes
  <2>3. \A n \in old \ DOMAIN over : g[n] = live[n]
    BY DEF ++
  <2>4. DOMAIN live = old /\ Views(live, index.refs)
    BY <1>2
  <2>5. \A n \in old : \A f \in Forward[n] : f \in Mirrored => ToSet(live[n].rel[f]) = ToSet(index.refs[n][f])
    BY <1>2 DEF Agree
  <2> HIDE DEF over, fresh, mem, g, old
  <2>6. DOMAIN h = DOMAIN g /\ Published(h, g, d)
    BY <2>2, DeltaStep
  <2> HIDE DEF h
  <2>7. \A n \in old \ DOMAIN over : \A f \in InverseFields[n] : g[n].rel[f] = live[n].rel[f]
    BY <2>3
  <2>8. \A n \in old \ DOMAIN over : \A f \in Forward[n] : f \in Mirrored => ToSet(g[n].rel[f]) = ToSet(index.refs[n][f])
    BY <2>3, <2>5
  <2>9. old = DOMAIN live /\ Views(live, index.refs) /\ SameViews(g, old \ DOMAIN over)
    BY <2>4, <2>7 DEF SameViews
  <2>10. Views(h, d.index.refs)
    BY <2>2, <2>6, <2>9, DeltaViews
  <2>11. Agree(h, d.index.refs)
    BY <2>2, <2>6, <2>8, DeltaAgrees
  <2> QED BY <2>2, <2>10, <2>11 DEF Reflected, Backs
<1>6. CASE \E aliased, dead : ~Conflict /\ Settles(Over ++ live, TxModel(aliased), tx.del, dead)
  <2>1. PICK aliased, dead : ~Conflict /\ Settles(Over ++ live, TxModel(aliased), tx.del, dead)
    BY <1>6
  <2> DEFINE over == Over
             fresh == tx.fresh
             mem == Memory(aliased)
             m == TxModel(aliased)
  <2>2. over = Restrict(tx.work, Touched \cup fresh) /\ Touched \cup fresh \in SUBSET DOMAIN tx.work
    BY <1>1 DEF Over, Touched
  <2>3. IsGraph(over) /\ DOMAIN over = Touched \cup fresh
    <3> HIDE DEF over, fresh
    <3> QED BY <1>1, <2>2, GraphOfFewer
  <2>4. fresh \in SUBSET DOMAIN over /\ DOMAIN over \ fresh \subseteq DOMAIN live /\ m = TransactionModel(over, fresh, mem)
    BY <2>1, <2>3 DEF Conflict, TxModel
  <2>5. graph # None => IsKept(graph, DOMAIN live) /\ Served(graph.entries, DOMAIN live, graph.tf) /\ Agree(live, graph.refs)
    BY <1>1, <1>2 DEF Backs, Agree
  <2>6. Settles(over ++ live, m, tx.del, dead)
    BY <2>1
  <2> HIDE DEF over, fresh, mem, m
  <2>7. ModelAgrees(m, over ++ live) /\ Served(m.entries, m.nodes, m.tf)
    BY <1>1, <2>3, <2>4, <2>5, TransactionAgrees
  <2> QED BY <2>6, <2>7, SettledReflects
<1> QED BY <1>3, <1>4, <1>5, <1>6, CommitSettles

\* A delete while a transaction is open.
LEMMA DeleteReflects ==
    ASSUME InversesById, RelationInv, Reflects, ConcurrentDelete
    PROVE  Reflected(live', index', graph')
<1> DEFINE over == <<>>
           fresh == {}
           mem == live
           m == TransactionModel(<<>>, {}, live)
<1>1. PICK n \in DOMAIN live : DeleteRow(n, m)
  BY DEF ConcurrentDelete
<1> DEFINE dead == Doomed(m, index.out, {n})
<1>2. Accepted(m, {n}, dead) /\ live' = SettledRows(live, m, dead) /\ StoreCommitted(m, dead)
  BY <1>1 DEF DeleteRow, SettleDelete
<1>3. IsModel(m, DOMAIN live) /\ IsGraph(live)
  BY DeletedModel DEF RelationInv, Committed
<1>4. Settles(live, m, {n}, dead)
  BY <1>2, <1>3 DEF Settles
<1>5. graph # None => IsKept(graph, DOMAIN live) /\ Served(graph.entries, DOMAIN live, graph.tf) /\ Agree(live, graph.refs)
  BY DEF RelationInv, Committed, Reflects, ConcurrentDelete, Backs, Agree
<1>6. IsGraph(over) /\ fresh \in SUBSET DOMAIN over /\ DOMAIN over \ fresh \subseteq DOMAIN live /\ m = TransactionModel(over, fresh, mem)
  BY DEF IsGraph
<1>7. DOMAIN (over ++ live) = DOMAIN live /\ \A k \in DOMAIN live : (over ++ live)[k] = live[k]
  BY DEF ++
<1> HIDE DEF over, fresh, m, dead, mem
<1>8. ModelAgrees(m, over ++ live) /\ Served(m.entries, m.nodes, m.tf)
  BY <1>3, <1>5, <1>6, TransactionAgrees
<1>9. ModelAgrees(m, live)
  BY <1>3, <1>7, <1>8 DEF ModelAgrees, IsModel
<1> QED BY <1>4, <1>8, <1>9, SettledReflects

\* An Unsafe edit leaves the views as they are, and the index.
LEMMA EditReflects ==
    ASSUME RelationInv, Reflects, UnsafeEdit
    PROVE  Reflects'
<1> DEFINE view == pending ++ live
<1>1. PICK ch \in Edits(view) : live' = Overwrite(live, ch) /\ pending' = Overwrite(pending, ch)
  BY DEF UnsafeEdit
<1>2. UNCHANGED <<index, graph>> /\ edits' = edits + 1 /\ edits \in 0 .. MaxEdits /\ MaxEdits \in Nat
  BY ProjectsAssumption DEF UnsafeEdit, RelationInv, Queued, MaxEdits
<1>3. ~Settled'
  BY <1>2 DEF Settled
<1>4. DOMAIN live' = DOMAIN live /\ \A n \in DOMAIN live : live'[n] = IF n \in DOMAIN ch THEN ch[n] ELSE live[n]
  BY <1>1 DEF Overwrite
<1>5. IsGraph(view) /\ \A n \in DOMAIN live : n \in DOMAIN view /\ view[n] = live[n]
  <2>1. IsGraph(live) /\ IsGraph(pending) /\ DOMAIN pending \cap DOMAIN live = {}
    BY DEF RelationInv, Committed, Queued
  <2>2. IsGraph(view)
    BY <2>1, GraphOver
  <2> QED BY <2>1, <2>2 DEF ++
<1> HIDE DEF view
<1>6. IsEdit(view, ch)
  BY <1>5, EditsTyped DEF RelationInv
<1>7. \A n \in DOMAIN live : \A f \in InverseFields[n] : live'[n].rel[f] = live[n].rel[f]
  BY <1>4, <1>5, <1>6 DEF IsEdit
<1>8. Views(live', index'.refs)
  BY <1>2, <1>4, <1>7 DEF Reflects, Views
<1>9. Backs(graph', live', index')
  BY <1>2, <1>4 DEF Reflects, Backs
<1> QED BY <1>2, <1>3, <1>8, <1>9 DEF Reflects

\* A project that is opened.
LEMMA OpenedReflects ==
    ASSUME InversesById, NEW g, IsGraph(g), NEW rows, rows = Rehydrated(g), NEW m, m = Rebuild(rows), m.ok, m.missing = {}
    PROVE  Reflected(rows, BuildIndex(m, {}), m)
<1> DEFINE to(n, f) == IF OwnMany(f) \/ Spec[f].kind = "inverse" THEN <<>> ELSE g[n].rel[f]
           s == [n \in DOMAIN g |-> [g[n] EXCEPT !.rel = [f \in DOMAIN g[n].rel |-> to(n, f)]]]
           ns == DOMAIN rows
           none == {}
<1>1. rows = Rewire(s) /\ DOMAIN s = DOMAIN g
  BY DEF Rehydrated
<1>2. IsGraph(rows) /\ DOMAIN rows = DOMAIN g
  BY RehydratedTyped
<1>3. IsGraph(s)
  <2>1. ASSUME NEW n \in DOMAIN g PROVE n \in Node /\ s[n] \in Row(n)
    <3> DEFINE rel == [f \in DOMAIN g[n].rel |-> to(n, f)]
    <3>1. /\ n \in Node /\ g[n] \in Row(n) /\ DOMAIN g[n].rel = FieldsOf[n]
          /\ \A f \in FieldsOf[n] : g[n].rel[f] \in Seq(Node) /\ Fits(f, g[n].rel[f])
      BY GraphRow
    <3>2. \A f \in FieldsOf[n] : to(n, f) \in Seq(Node) /\ Fits(f, to(n, f))
      BY <3>1 DEF Fits, ToSet
    <3>3. rel = [f \in FieldsOf[n] |-> to(n, f)]
      BY <3>1
    <3>4. s[n] = [g[n] EXCEPT !.rel = rel]
      OBVIOUS
    <3> HIDE DEF rel, to, s
    <3>5. IsRel(n, rel)
      BY <3>2, <3>3 DEF IsRel
    <3> QED BY <3>1, <3>4, <3>5 DEF Row, IsRel
  <2> HIDE DEF s
  <2> QED BY <1>1, <2>1 DEF IsGraph
<1> HIDE DEF s
<1>4. Exact(rows) /\ IsRewired(rows, s)
  BY <1>1, <1>3, RewireExact
<1>5. ModelAgrees(m, rows) /\ Served(m.entries, m.nodes, m.tf)
  BY <1>2, RebuildAgrees
<1>6. IsIndex(BuildIndex(m, none), ns \ none) /\ IsKept(m, ns)
  <2>1. IsIndex(BuildIndex(m, {}), DOMAIN rows) /\ IsKept(m, DOMAIN rows)
    BY <1>2, OpenedIndex
  <2>2. ns \ none = ns
    OBVIOUS
  <2> QED BY <2>1, <2>2
<1>7. IsModel(m, ns) /\ m.nodes = ns /\ RefsTyped(ns, ns, m.refs)
  BY <1>6 DEF IsKept, IsModel
<1> DEFINE refs == [n \in ns |-> [f \in Forward[n] |-> Without(m.refs[n][f], none)]]
<1>8. BuildIndex(m, none).refs = refs
  BY <1>7 DEF BuildIndex
<1>9. ASSUME NEW n \in ns, NEW f \in Forward[n], f \in Mirrored PROVE ToSet(rows[n].rel[f]) = ToSet(refs[n][f])
  <2> DEFINE r == m.refs[n][f]
  <2>1. ToSet(r) = ToSet(rows[n].rel[f]) \cap ns
    BY <1>5, <1>7, <1>9 DEF ModelAgrees
  <2>2. ToSet(rows[n].rel[f]) \subseteq ns
    BY <1>1, <1>2, <1>4, <1>9 DEF IsRewired
  <2>3. r \in Seq(ns)
    BY <1>7 DEF RefsTyped
  <2>4. refs[n][f] = Without(r, none)
    OBVIOUS
  <2> HIDE DEF r, refs, none
  <2>5. ToSet(Without(r, none)) = ToSet(r) \ none
    BY <2>3, Remaining
  <2> QED BY <2>1, <2>2, <2>4, <2>5 DEF none
<1> HIDE DEF refs
<1>10. Agree(rows, BuildIndex(m, none).refs)
  BY <1>8, <1>9 DEF Agree
<1>11. DOMAIN rows = ns \ none /\ m = IF none = {} THEN m ELSE None
  OBVIOUS
<1> HIDE DEF none, ns
<1>12. Reflected(rows, BuildIndex(m, none), m)
  BY <1>2, <1>4, <1>5, <1>6, <1>7, <1>10, <1>11, StoredReflects
<1> QED BY <1>12 DEF none

\* What the Tower replica is for: wherever Flush goes by it, a row that it finds
\* unchanged has the pointers that were committed.  It holds of a project without
\* a Tower, whose Flush never goes by a replica.
EditsNoticed ==
    Route # "full" => \A n \in index.nodes \ Moved : \A f \in Forward[n] :
        f \in Mirrored => ToSet(live[n].rel[f]) = ToSet(index.refs[n][f])

\* A Flush that a model of the whole project settles, or that it rejects.
LEMMA FlushSettlesReflects ==
    ASSUME InversesById, RelationInv, Reflects, ~Settled, NEW losing, NEW closure, losing \in {{}, Losing(closure)},
           FlushSettles(pending ++ Dropped(losing, closure))
    PROVE  Reflects'
<1> DEFINE base == Dropped(losing, closure)
           g == pending ++ base
           m == Rebuild(g)
           dead == Doomed(m, index.out, deletes)
           ns == DOMAIN live
           refs == index.refs
<1>1. /\ IsGraph(live) /\ IsGraph(pending) /\ DOMAIN pending \cap ns = {}
      /\ RefsTyped(ns, ns, refs) /\ ns \in SUBSET Node /\ index.inc = Incoming(refs)
  BY DEF RelationInv, Committed, Queued, IsIndex
<1>2. IsGraph(base) /\ DOMAIN base = ns /\ IsDropped(base, losing, closure)
  BY <1>1, DroppedTyped
<1>3. FlushModel(g, m, dead)
  BY DEF FlushSettles, FlushRebuild
<1>4. m = Rebuild(g) /\ dead = Doomed(m, index.out, deletes)
  OBVIOUS
<1> HIDE DEF base, m, dead
<1>5. IsGraph(g) /\ DOMAIN g = DOMAIN pending \cup ns /\ \A n \in ns : g[n] = base[n]
  <2>1. IsGraph(g)
    BY <1>1, <1>2, GraphOver
  <2> QED BY <1>1, <1>2, <2>1 DEF ++
<1> HIDE DEF g
<1>6. CASE Accepted(m, deletes, dead)
  <2>1. live' = SettledRows(g, m, dead) /\ StoreCommitted(m, dead)
    BY <1>3, <1>6 DEF FlushModel
  <2>2. IsModel(m, DOMAIN g) /\ ModelAgrees(m, g) /\ Served(m.entries, m.nodes, m.tf)
    BY <1>4, <1>5, RebuildSound, RebuildAgrees
  <2>3. Settles(g, m, deletes, dead)
    BY <1>4, <1>5, <1>6, <2>1, <2>2 DEF Settles
  <2>4. Reflected(live', index', graph')
    BY <2>2, <2>3, SettledReflects
  <2> QED BY <2>4 DEF Reflected, Reflects
<1>7. CASE ~Accepted(m, deletes, dead)
  <2>1. live' = Restrict(g, ns) /\ UNCHANGED <<index, graph, pending, deletes, edits>>
    BY <1>3, <1>7 DEF FlushModel
  <2>2. DOMAIN live' = ns /\ \A n \in ns : live'[n] = base[n]
    BY <1>5, <2>1 DEF Restrict
  <2>3. ~Settled'
    BY <2>1 DEF Settled
  <2>4. ASSUME NEW n \in ns, NEW f \in InverseFields[n] PROVE live'[n].rel[f] = live[n].rel[f]
    <3>1. f \in FieldsOf[n] /\ f \notin Forward[n]
      BY <1>1, Fields
    <3>2. <<n, f>> \notin losing
      <4> SUFFICES ASSUME <<n, f>> \in Losing(closure) PROVE FALSE
        OBVIOUS
      <4>1. PICK e \in DOMAIN index.inc : <<n, f>> = <<e[2], e[3]>>
        BY DEF Losing, Survivors
      <4>2. IsEdge(refs, e[1], n, f)
        BY <1>1, <4>1, Edges
      <4> QED BY <1>1, <3>1, <4>2 DEF IsEdge, RefsTyped
    <3> QED BY <1>2, <2>2, <3>1, <3>2 DEF IsDropped
  <2>5. Views(live', index'.refs)
    BY <2>1, <2>2, <2>4 DEF Reflects, Views
  <2>6. Backs(graph', live', index')
    BY <2>1, <2>2 DEF Reflects, Backs
  <2> QED BY <2>3, <2>5, <2>6 DEF Reflects
<1> QED BY <1>6, <1>7

\* A Flush that the index settles: what it looked at, and what it left alone.
LEMMA FlushLooked ==
    ASSUME RelationInv, QuietDeletes, EditsNoticed, NEW closure, NEW losing, NEW base, NEW d,
           FlushPublishes(closure, losing, base, d), NEW n \in DOMAIN live, n \notin DOMAIN FlushOver(Route, losing, base)
    PROVE  /\ Route # "full" /\ n \notin Moved /\ \A f \in FieldsOf[n] : base[n].rel[f] = live[n].rel[f]
           /\ \A f \in Forward[n] : f \in Mirrored => ToSet(live[n].rel[f]) = ToSet(index.refs[n][f])
<1>1. IsDropped(base, losing, closure) /\ Route \in {"delta", "deletes"}
  BY DroppedTyped DEF FlushPublishes, RelationInv, Committed
<1>2. IsGraph(live) /\ index.nodes = DOMAIN live
  BY DEF RelationInv, Committed, IsIndex
<1>3. n \notin Moved /\ \A f : <<n, f>> \notin losing
  <2>1. CASE Route = "delta"
    <3>1. losing = {} /\ FlushOver(Route, losing, base) = pending ++ Restrict(base, Moved)
      BY <2>1, PublishedIndex DEF FlushOver
    <3>2. Moved \subseteq DOMAIN FlushOver(Route, losing, base)
      BY <3>1 DEF ++, Restrict
    <3> QED BY <3>1, <3>2
  <2>2. CASE Route = "deletes"
    <3>1. Moved = {}
      BY <2>2 DEF Route
    <3>2. FlushOver(Route, losing, base) = Restrict(base, {k[1] : k \in losing})
      BY <2>2, PublishedIndex
    <3>3. n \notin {k[1] : k \in losing}
      BY <3>2 DEF Restrict
    <3> QED BY <3>1, <3>3
  <2> QED BY <1>1, <2>1, <2>2
<1>4. \A f \in FieldsOf[n] : base[n].rel[f] = live[n].rel[f]
  BY <1>1, <1>3 DEF IsDropped
<1>5. Route # "full"
  BY <1>1
<1> QED BY <1>2, <1>3, <1>4, <1>5 DEF EditsNoticed

\* A Flush that publishes a delta, or takes the cascade out of the index.
LEMMA FlushPublishesReflects ==
    ASSUME InversesById, RelationInv, QuietDeletes, EditsNoticed, Reflects,
           NEW closure, NEW losing, NEW base, NEW d, FlushPublishes(closure, losing, base, d)
    PROVE  Reflects'
<1> DEFINE over == FlushOver(Route, losing, base)
           fresh == DOMAIN pending
           old == DOMAIN live
           ns == old \cup fresh
           left == ns \ closure
           mem == pending ++ base
           g == pending ++ base
           ix == WithoutDead(d.index, closure)
           h == DeltaRows(g, d)
           lost == LostMirrors(closure)
           all == d.index.refs
<1>1. /\ IsIndex(index, old) /\ index.nodes = old /\ old \in SUBSET Node /\ Views(live, index.refs)
      /\ DOMAIN pending \cap old = {} /\ RefsTyped(old, old, index.refs)
  BY DEF RelationInv, Committed, Queued, Reflects, IsIndex
<1>2. /\ DOMAIN base = old /\ IsGraph(g) /\ DOMAIN g = ns /\ IsGraph(over) /\ fresh \in SUBSET DOMAIN over /\ IsIndex(ix, left)
  BY PublishedIndex
<1>3. DeltaAccepted(over, fresh, mem, d) /\ FlushIncremental(closure, g, d, ix)
  BY DEF FlushPublishes
<1>4. live' = RefreshMirrors(Restrict(h, DOMAIN g \ closure), ix, lost) /\ index' = ix /\ graph' = None
  BY <1>3 DEF FlushIncremental
<1>5. \A n \in old \ DOMAIN over : g[n] = base[n]
  BY <1>1, <1>2 DEF ++
<1>6. ASSUME NEW n \in old \ DOMAIN over
      PROVE  /\ \A f \in FieldsOf[n] : g[n].rel[f] = live[n].rel[f]
             /\ \A f \in Forward[n] : f \in Mirrored => ToSet(live[n].rel[f]) = ToSet(index.refs[n][f])
  BY <1>5, <1>6, FlushLooked
<1>7. \A n \in closure : n \in DOMAIN index.refs /\ n \notin DOMAIN over /\ fresh = {}
  <2> SUFFICES ASSUME closure # {} PROVE fresh = {} /\ \A n \in closure : n \in old /\ n \notin DOMAIN over
    BY <1>1 DEF RefsTyped
  <2>1. Route = "deletes" /\ losing = Losing(closure)
    BY PublishedIndex DEF FlushPublishes
  <2>2. fresh = {} /\ closure = DeletedAlone /\ DOMAIN over = {k[1] : k \in losing}
    <3>1. pending = <<>> /\ closure = DeletedAlone /\ over = Restrict(base, {k[1] : k \in losing})
      BY <2>1, PublishedIndex
    <3> HIDE DEF over
    <3> QED BY <3>1 DEF Restrict
  <2>3. \A k \in losing : k[1] \notin closure
    BY <2>1 DEF Losing, Survivors
  <2>4. closure \subseteq old
    BY <1>1, <2>2, ClosureRows
  <2> HIDE DEF over, fresh, old
  <2> QED BY <2>2, <2>3, <2>4
<1> HIDE DEF h, over, fresh, mem, g, old, ix, lost
<1>8. DeltaApplied(old, over, fresh, mem, d)
  BY <1>1, <1>2, <1>3, DeltaSound
<1>9. IsGraph(h) /\ DOMAIN h = ns /\ Published(h, g, d)
  BY <1>1, <1>2, <1>3, DeltaStep DEF h
<1>10. /\ SameViews(g, old \ DOMAIN over)
       /\ \A n \in old \ DOMAIN over : \A f \in Forward[n] : f \in Mirrored => ToSet(g[n].rel[f]) = ToSet(index.refs[n][f])
  <2>1. ASSUME NEW n \in old PROVE Forward[n] \subseteq FieldsOf[n] /\ InverseFields[n] \subseteq FieldsOf[n]
    BY <1>1, Fields
  <2> QED BY <1>6, <2>1 DEF SameViews
<1>11. DOMAIN g = old \cup fresh /\ DOMAIN h = DOMAIN g
  BY <1>2, <1>9
<1>12. Views(h, all) /\ Agree(h, all)
  <2> HIDE DEF ns, left
  <2>1. old = DOMAIN live
    BY DEF old
  <2>2. Views(h, d.index.refs)
    BY <1>1, <1>2, <1>8, <1>9, <1>10, <1>11, <2>1, DeltaViews
  <2>3. Agree(h, d.index.refs)
    BY <1>2, <1>8, <1>9, <1>10, <1>11, DeltaAgrees
  <2> QED BY <2>2, <2>3
<1>13. /\ RefsTyped(ns, ns, all) /\ d.index.nodes = ns /\ all = Scanned(over, fresh, mem) ++ index.refs
       /\ DOMAIN Scanned(over, fresh, mem) = DOMAIN over
  BY <1>8 DEF DeltaApplied, IsIndex, RefsTyped
<1>14. ix.refs = Restrict(all, left)
  BY <1>13 DEF ix, WithoutDead
<1>15. ASSUME NEW n \in left \ lost, NEW f \in InverseFields[n], NEW x, NEW b, b = Spec[f].match, IsEdge(all, n, x, b), x \notin left
       PROVE  FALSE
  <2>1. x \in ns /\ x \in closure /\ DOMAIN all = ns
    BY <1>13, <1>15 DEF IsEdge, RefsTyped
  <2>2. all[x] = index.refs[x] /\ n \in old /\ x \in old
    BY <1>1, <1>7, <1>13, <1>15, <2>1 DEF ++, RefsTyped
  <2>3. b \in Forward[x] /\ n \in ToSet(index.refs[x][b])
    BY <1>1, <1>15, <2>2 DEF IsEdge, RefsTyped
  <2>4. Spec[b].kind \in {"borrow", "option"}
    <3>1. n \in Node /\ f \in Field /\ Spec[f].kind = "inverse"
      BY <1>1, <1>15, <2>2, Fields
    <3> QED BY <1>15, <3>1, Schema
  <2>5. n \in lost
    BY <1>1, <2>1, <2>2, <2>3, <2>4 DEF lost, LostMirrors
  <2> QED BY <1>15, <2>5
<1> DEFINE s == RefreshMirrors(Restrict(h, left), ix, lost)
<1>16. live' = s
  BY <1>2, <1>4
<1> HIDE DEF all, ns, left
<1>17. left \in SUBSET ns
  BY DEF left
<1>18. Views(s, ix.refs) /\ Agree(s, ix.refs)
  BY <1>2, <1>9, <1>12, <1>13, <1>14, <1>15, <1>17, LostViews
<1> HIDE DEF s
<1> QED BY <1>4, <1>16, <1>18 DEF Reflects, Backs

\* What a transaction has loaded stays as the rows are, unless another
\* goroutine deletes.
LEMMA SnapshotsKept ==
    ASSUME RelationInv, Snapshots, [Next]_vars
    PROVE  Snapshots'
<1>1. /\ tx = [work |-> tx.work, orig |-> tx.orig, fresh |-> tx.fresh, del |-> tx.del, scalar |-> tx.scalar, edits |-> tx.edits]
      /\ DOMAIN tx.work \subseteq DOMAIN tx.orig \cup tx.fresh
  BY DEF RelationInv, Staged
<1>2. project' = project
  BY DEF Next, vars, TxEdit, TxTouch, TxCreate, TxDelete, Commit, ConcurrentDelete, UnsafeEdit, UnsafeCreate,
         UnsafeDelete, Flush, TowerRebuild, Reopen
<1>3. ASSUME tx' = NoTx PROVE Snapshots'
  <2>1. tx'.scalar = {} /\ tx'.orig = <<>> /\ DOMAIN <<>> = {}
    BY <1>3 DEF NoTx
  <2> QED BY <2>1 DEF Snapshots
<1>4. ASSUME NEW ch, tx'.orig = Load(ch).orig, tx'.scalar = tx.scalar \/ Uses("touch"), live' = live PROVE Snapshots'
  <2> DEFINE snaps == Restrict(live, DOMAIN ch \cap DOMAIN live)
  <2>1. tx'.orig = tx.orig ++ snaps
    BY <1>1, <1>4 DEF Load
  <2>2. DOMAIN snaps \subseteq DOMAIN live /\ \A n \in DOMAIN snaps : snaps[n] = live[n]
    BY DEF Restrict
  <2> HIDE DEF snaps
  <2>3. \A n \in DOMAIN tx'.orig : (n \in DOMAIN tx.orig /\ tx'.orig[n] = tx.orig[n]) \/ (n \in DOMAIN snaps /\ tx'.orig[n] = snaps[n])
    BY <2>1 DEF ++
  <2> QED BY <1>2, <1>4, <2>2, <2>3 DEF Snapshots, Uses
<1>5. ASSUME NEW ch
      PROVE  /\ Load(ch).scalar = tx.scalar
             /\ Load(ch) = [work |-> Load(ch).work, orig |-> Load(ch).orig, fresh |-> Load(ch).fresh, del |-> Load(ch).del,
                            scalar |-> Load(ch).scalar, edits |-> Load(ch).edits]
  <2> DEFINE w == ch ++ tx.work
             s == tx.orig ++ Restrict(live, DOMAIN ch \cap DOMAIN live)
  <2>1. Load(ch) = [tx EXCEPT !.work = w, !.edits = tx.edits + 1, !.orig = s]
    BY DEF Load
  <2> HIDE DEF w, s
  <2>2. Load(ch) = [work |-> w, orig |-> s, fresh |-> tx.fresh, del |-> tx.del, scalar |-> tx.scalar, edits |-> tx.edits + 1]
    BY <1>1, <2>1
  <2> QED BY <2>2
<1>6. CASE TxEdit
  <2>1. PICK ch : tx' = Load(ch)
    BY <1>6 DEF TxEdit
  <2> QED BY <1>4, <1>5, <1>6, <2>1 DEF TxEdit
<1>7. CASE TxTouch
  <2>1. PICK ch, n : tx' = [Load(ch) EXCEPT !.scalar = @ \cup {n}]
    BY <1>7 DEF TxTouch
  <2> DEFINE l == Load(ch)
  <2>2. l = [work |-> l.work, orig |-> l.orig, fresh |-> l.fresh, del |-> l.del, scalar |-> l.scalar, edits |-> l.edits]
    BY <1>5
  <2>3. tx' = [l EXCEPT !.scalar = @ \cup {n}]
    BY <2>1
  <2> HIDE DEF l
  <2>4. tx'.orig = l.orig
    BY <2>2, <2>3
  <2>5. Uses("touch") /\ live' = live
    BY <1>7 DEF TxTouch
  <2> QED BY <1>4, <2>4, <2>5 DEF l
<1>8. CASE TxCreate
  <2>1. PICK ch, n : tx' = [Load(ch) EXCEPT !.fresh = @ \cup {n}]
    BY <1>8 DEF TxCreate
  <2> DEFINE l == Load(ch)
  <2>2. l.scalar = tx.scalar /\ l = [work |-> l.work, orig |-> l.orig, fresh |-> l.fresh, del |-> l.del, scalar |-> l.scalar, edits |-> l.edits]
    BY <1>5
  <2>3. tx' = [l EXCEPT !.fresh = @ \cup {n}]
    BY <2>1
  <2> HIDE DEF l
  <2>4. tx'.orig = l.orig /\ tx'.scalar = tx.scalar
    BY <2>2, <2>3
  <2>5. live' = live
    BY <1>8 DEF TxCreate
  <2> QED BY <1>4, <2>4, <2>5 DEF l
<1>9. CASE TxDelete
  <2>1. PICK n : tx' = [tx EXCEPT !.del = @ \cup {n}, !.edits = @ + 1]
    BY <1>9 DEF TxDelete
  <2>2. tx'.orig = tx.orig /\ tx'.scalar = tx.scalar /\ live' = live
    BY <1>1, <1>9, <2>1 DEF TxDelete
  <2> QED BY <1>2, <2>2 DEF Snapshots
<1>10. CASE Commit
  BY <1>3, <1>10 DEF Commit
<1>11. CASE ConcurrentDelete
  BY <1>2, <1>11 DEF ConcurrentDelete, Uses, Snapshots
<1>12. CASE UnsafeEdit \/ UnsafeCreate \/ UnsafeDelete
  BY <1>3, <1>12 DEF UnsafeEdit, UnsafeCreate, UnsafeDelete, UnsafeIdle
<1>13. CASE Flush
  BY <1>3, <1>13 DEF Flush
<1>14. CASE TowerRebuild \/ Reopen
  BY <1>3, <1>14 DEF TowerRebuild, Reopen
<1>15. CASE UNCHANGED vars
  BY <1>2, <1>15 DEF vars, Snapshots
<1> QED BY <1>6, <1>7, <1>8, <1>9, <1>10, <1>11, <1>12, <1>13, <1>14, <1>15 DEF Next

\* Every step keeps the views, the edits of Unsafe sessions being noticed.
LEMMA StepReflects ==
    ASSUME InversesById, OneOfTwo, RelationInv, QuietDeletes, EditsNoticed, Reflects, Snapshots, [Next]_vars
    PROVE  Reflects'
<1>1. ASSUME Reflected(live', index', graph') PROVE Reflects'
  BY <1>1 DEF Reflected, Reflects
<1>2. ASSUME UNCHANGED <<live, index, graph>>, Settled' => Settled PROVE Reflects'
  BY <1>2 DEF Reflects, Backs, Settled
<1>3. CASE TxEdit \/ TxTouch \/ TxCreate \/ TxDelete \/ TowerRebuild
  BY <1>2, <1>3 DEF TxEdit, TxTouch, TxCreate, TxDelete, TowerRebuild, Settled
<1>4. CASE Commit
  BY <1>1, <1>4, CommitReflects
<1>5. CASE ConcurrentDelete
  BY <1>1, <1>5, DeleteReflects
<1>6. CASE UnsafeEdit
  BY <1>6, EditReflects
<1>7. CASE UnsafeCreate \/ UnsafeDelete
  <2>1. UNCHANGED <<live, index, graph>> /\ edits' = edits + 1 /\ edits \in 0 .. MaxEdits /\ MaxEdits \in Nat
    BY <1>7, ProjectsAssumption DEF UnsafeCreate, UnsafeDelete, RelationInv, Queued, MaxEdits
  <2>2. ~Settled'
    BY <2>1 DEF Settled
  <2> QED BY <1>2, <2>1, <2>2
<1>8. CASE Flush
  <2>1. ~Settled
    BY <1>8 DEF Flush
  <2>2. CASE Route = "persist" /\ Flushed /\ UNCHANGED <<live, index, graph, replica>>
    <3>1. Moved = {} /\ Route # "full"
      BY <2>2 DEF Route
    <3>2. index.nodes = DOMAIN live
      BY DEF RelationInv, Committed, IsIndex
    <3>3. Agree(live, index.refs)
      BY <3>1, <3>2 DEF EditsNoticed, Agree
    <3>4. Agree(live', index'.refs) /\ Views(live', index'.refs) /\ Backs(graph', live', index')
      BY <2>2, <3>3 DEF Reflects
    <3> QED BY <3>4 DEF Reflects
  <2>3. CASE \E losing, closure : FlushSettles(pending ++ Dropped(losing, closure)) /\ losing \in {{}, Losing(closure)}
    BY <2>1, <2>3, FlushSettlesReflects
  <2>4. CASE \E closure, losing, base, d : FlushPublishes(closure, losing, base, d)
    BY <2>4, FlushPublishesReflects
  <2> QED BY <1>8, <2>2, <2>3, <2>4, FlushWays
<1>9. CASE Reopen
  <2> DEFINE g == live
             rows == Rehydrated(g)
             m == Rebuild(rows)
  <2>1. live' = rows /\ m.ok /\ m.missing = {} /\ index' = BuildIndex(m, {}) /\ graph' = m
    BY <1>9 DEF Reopen, StoreCommitted
  <2>2. IsGraph(g) /\ rows = Rehydrated(g) /\ m = Rebuild(rows)
    BY DEF RelationInv, Committed
  <2> HIDE DEF g, rows, m
  <2>3. Reflected(rows, BuildIndex(m, {}), m)
    BY <2>1, <2>2, OpenedReflects
  <2> QED BY <1>1, <2>1, <2>3
<1>10. CASE UNCHANGED vars
  BY <1>2, <1>10 DEF vars, Settled
<1> QED BY <1>3, <1>4, <1>5, <1>6, <1>7, <1>8, <1>9, <1>10 DEF Next

\* It holds of a project that is opened.
LEMMA InitReflects ==
    ASSUME InversesById, Init
    PROVE  Reflects /\ Snapshots
<1> DEFINE g == Projects[project].rows
           rows == Rehydrated(g)
           m == Rebuild(rows)
<1>1. /\ project \in DOMAIN Projects /\ live = rows /\ m.ok /\ m.missing = {} /\ index = BuildIndex(m, {}) /\ graph = m
      /\ tx = NoTx
  BY DEF Init
<1>2. IsGraph(g) /\ rows = Rehydrated(g) /\ m = Rebuild(rows)
  BY <1>1, ProjectsAssumption
<1> HIDE DEF g, rows, m
<1>3. Reflected(rows, BuildIndex(m, {}), m)
  BY <1>1, <1>2, OpenedReflects
<1>4. tx.scalar = {} /\ tx.orig = <<>> /\ DOMAIN <<>> = {}
  BY <1>1 DEF NoTx
<1> QED BY <1>1, <1>3, <1>4 DEF Reflects, Reflected, Snapshots

\* With it the views are exact whenever no edit is outstanding.
LEMMA ReflectedExact ==
    ASSUME InversesById, RelationInv, Reflects
    PROVE  InversesAreExact
<1> DEFINE refs == index.refs
           g == live
<1>1. DOMAIN g \in SUBSET Node /\ DOMAIN refs = DOMAIN g /\ \A n \in DOMAIN g : DOMAIN refs[n] = Forward[n]
  BY DEF RelationInv, Committed, IsIndex, RefsTyped
<1>2. Views(g, refs) /\ (Settled => Agree(g, refs))
  BY DEF Reflects
<1> HIDE DEF g, refs
<1>3. Settled => Exact(g)
  BY <1>1, <1>2, ExactViews
<1> QED BY <1>3 DEF Exact, InversesAreExact, g

\* The inverse views are refreshed by deltas, by the delete route of Flush and by
\* rebuilds, each in a way of its own; after any of them they list exactly the
\* rows that point at theirs, as long as the edits of Unsafe sessions are noticed.
THEOREM InversesFollow ==
    ASSUME InversesById, OneOfTwo
    PROVE  RelationSpec /\ []QuietDeletes /\ []EditsNoticed => []InversesAreExact
<1> DEFINE Inv == RelationInv /\ Reflects /\ Snapshots
<1>1. Init => Inv
  BY InitHolds, InitReflects
<1>2. Inv /\ QuietDeletes /\ EditsNoticed /\ [Next]_vars => Inv'
  BY StepKeeps, StepReflects, SnapshotsKept
<1>3. Inv => InversesAreExact
  BY ReflectedExact
<1> HIDE DEF Inv
<1> QED BY <1>1, <1>2, <1>3, PTL DEF RelationSpec

\* Without a Tower every Flush derives the model anew, and nothing has to be
\* noticed.
THEOREM InversesFollowWithoutTower ==
    ASSUME InversesById, OneOfTwo, \A p \in DOMAIN Projects : "tower" \notin Projects[p].ops
    PROVE  RelationSpec => []InversesAreExact
<1> DEFINE Inv == RelationInv /\ Reflects /\ Snapshots /\ NoTower
<1>1. Init => Inv
  <2> SUFFICES ASSUME Init PROVE Inv
    OBVIOUS
  <2>1. NoTower
    BY DEF Init, NoTower
  <2> QED BY <2>1, InitHolds, InitReflects
<1>2. NoTower => QuietDeletes /\ EditsNoticed
  BY DEF NoTower, QuietDeletes, EditsNoticed, Route
<1>3. Inv /\ [Next]_vars => Inv'
  BY <1>2, StepKeeps, StepReflects, SnapshotsKept, NoTowerKept
<1>4. Inv => InversesAreExact
  BY ReflectedExact
<1> HIDE DEF Inv
<1> QED BY <1>1, <1>3, <1>4, PTL DEF RelationSpec

----------------------------------------------------------------------------
\* No pointer leads nowhere.

\* Fields that must point at a row look it up by Id.
RequiredById == \A f \in Field : Spec[f].kind # "inverse" /\ ~MayBeMissing(f) => Spec[f].match = "Id"

\* A field that must point at a row is no slice.
LEMMA RequiredFields ==
    ASSUME NEW n \in Node, NEW f \in Forward[n], ~MayBeMissing(f)
    PROVE  /\ f \in Field /\ f \in FieldsOf[n] /\ Spec[f].kind # "inverse" /\ Spec[f].kind # "option"
           /\ ~Spec[f].many /\ ~OwnMany(f) /\ (RequiredById => Spec[f].match = "Id")
<1>1. f \in Field /\ f \in FieldsOf[n] /\ Spec[f].kind # "inverse"
  BY Fields
<1>2. Spec[f].kind \in Kinds /\ (Spec[f].kind = "ownedby" => ~Spec[f].many)
  BY <1>1, SchemaIsValid DEF ValidSpec
<1>3. ~Spec[f].many /\ Spec[f].kind # "option"
  BY <1>1, <1>2 DEF MayBeMissing, Kinds
<1> QED BY <1>1, <1>3 DEF OwnMany, RequiredById

\* Rows whose pointers lead to rows of ns, and that have what they must have.
WholeRow(n, row, ns) ==
    \A f \in Forward[n] : ToSet(row.rel[f]) \subseteq ns /\ (~MayBeMissing(f) => row.rel[f] # <<>>)
WholeRows(g, rows, ns) == \A n \in rows : WholeRow(n, g[n], ns)
Whole(g, ns) == WholeRows(g, DOMAIN g, ns)
LeadInto(refs, rows, ns) == \A n \in rows : \A f \in Forward[n] : ToSet(refs[n][f]) \subseteq ns

\* Rewiring keeps a pointer that is looked up by Id, and leads to a row.
LEMMA RewireFinds ==
    ASSUME NEW g, IsGraph(g), NEW n \in DOMAIN g, NEW f \in Forward[n], ~OwnMany(f), Spec[f].match = "Id",
           NEW t \in DOMAIN g, t \in ToSet(g[n].rel[f])
    PROVE  Rewire(g)[n].rel[f] # <<>>
<1> DEFINE tf == {<<Spec[x].target, Spec[x].match>> : x \in {y \in Field : ~OwnMany(y) /\ Spec[y].kind # "inverse"}}
           entries == Entries(g, DOMAIN g, tf)
           s == g[n].rel[f]
           r == Resolved(entries, g, f, s)
<1>1. n \in Node /\ DOMAIN g[n].rel = FieldsOf[n] /\ \A x \in FieldsOf[n] : g[n].rel[x] \in Seq(Node) /\ Fits(x, g[n].rel[x])
  BY GraphRow
<1>2. f \in FieldsOf[n] /\ f \in Field /\ Spec[f].kind # "inverse"
  BY <1>1, Fields
<1>3. s \in Seq(Node) /\ TypeOf[t] = Spec[f].target
  BY <1>1, <1>2 DEF Fits
<1>4. Rewire(g)[n].rel[f] = r
  <2> DEFINE slice(x) == OwnMany(x) \/ Spec[x].kind = "inverse"
             rel == [x \in DOMAIN g[n].rel |-> IF slice(x) THEN InOrder(g[n].rel[x], SliceMembers(g, n, x))
                                               ELSE Resolved(entries, g, x, g[n].rel[x])]
  <2>1. Rewire(g)[n] = [g[n] EXCEPT !.rel = rel]
    BY DEF Rewire
  <2>2. g[n] \in Row(n)
    BY GraphRow
  <2>3. rel[f] = r
    BY <1>1, <1>2
  <2> HIDE DEF rel, r
  <2>4. Rewire(g)[n].rel = rel
    BY <2>1, <2>2 DEF Row
  <2> QED BY <2>3, <2>4
<1>5. <<"Id", t, t>> \in entries
  <2>1. <<TypeOf[t], "Id">> \in tf
    BY <1>2, <1>3
  <2> HIDE DEF tf
  <2> QED BY <2>1 DEF Entries
<1> HIDE DEF entries, s, tf
<1>6. t \in Targets(entries, g, f, t)
  <2>1. LookupField(f) = "Id" /\ PointerValue(g, f, t) = t
    BY DEF LookupField, PointerValue
  <2>2. <<"Id", t, t>>[1] = "Id" /\ <<"Id", t, t>>[2] = t /\ <<"Id", t, t>>[3] = t
    OBVIOUS
  <2>3. \E e \in {x \in entries : x[1] = "Id" /\ x[2] = t /\ TypeOf[x[3]] = Spec[f].target} : t = e[3]
    BY <1>3, <1>5, <2>2
  <2> QED BY <2>1, <2>3 DEF Targets, Candidates
<1>7. Choice(entries, g, f, t) \in ToSet(r)
  <2>1. ToSet(r) = Finding(entries, g, f, s)
    BY <1>3, Resolving
  <2>2. t \in ToSet(s) /\ Targets(entries, g, f, t) # {}
    BY <1>6 DEF s
  <2> QED BY <2>1, <2>2 DEF Finding
<1>8. ToSet(<<>>) = {}
  BY DEF ToSet
<1> QED BY <1>4, <1>7, <1>8

\* A pointer that syncOwnSliceBackPointers changes leads to a row that lists the child.
LEMMA SyncedPointers ==
    ASSUME NEW g, IsGraph(g), NEW refs, NEW ns, NEW c \in DOMAIN g, NEW f \in FieldsOf[c],
           SyncBacks(g, refs, ns)[c].rel[f] # g[c].rel[f]
    PROVE  \E n, own : SyncBacks(g, refs, ns)[c].rel[f] = <<n>> /\ OwnMany(own) /\ IsEdge(refs, c, n, own)
<1> DEFINE h == SyncBacks(g, refs, ns)
           lists(x) == UNION {Listing(refs, c, own) : own \in {y \in Field : OwnMany(y) /\ Spec[y].match = x}}
           fk == [x \in DOMAIN g[c].fk |-> BackScalar(g[c], Listing(refs, c, x), x)]
           rel == [x \in DOMAIN g[c].rel |-> IF lists(x) = {} THEN g[c].rel[x] ELSE <<CHOOSE n \in lists(x) : TRUE>>]
           n == CHOOSE n \in lists(f) : TRUE
<1>1. g[c] \in Row(c) /\ DOMAIN g[c].rel = FieldsOf[c]
  BY GraphRow
<1>2. h[c] = IF c \notin ns THEN g[c] ELSE [g[c] EXCEPT !.fk = fk, !.rel = rel]
  BY DEF SyncBacks
<1>3. rel[f] = IF lists(f) = {} THEN g[c].rel[f] ELSE <<n>>
  BY <1>1
<1>4. lists(f) # {} => n \in lists(f)
  OBVIOUS
<1> HIDE DEF h, fk, rel, n
<1>5. c \in ns => h[c].rel = rel
  BY <1>1, <1>2 DEF Row
<1>6. lists(f) # {} /\ h[c].rel[f] = <<n>>
  BY <1>2, <1>3, <1>5 DEF h
<1>7. PICK own \in Field : OwnMany(own) /\ n \in Listing(refs, c, own)
  BY <1>4, <1>6
<1>8. IsEdge(refs, c, n, own)
  BY <1>7 DEF Listing, IsEdge
<1> QED BY <1>6, <1>7, <1>8 DEF h

\* The rows that a model settles.
LEMMA SettledWhole ==
    ASSUME RequiredById, NEW g, IsGraph(g), NEW m, IsModel(m, DOMAIN g), NEW committed, NEW explicit, NEW dead,
           dead = Doomed(m, committed, explicit), Accepted(m, explicit, dead)
    PROVE  Whole(SettledRows(g, m, dead), DOMAIN g \ dead)
<1> DEFINE ns == DOMAIN g
           left == m.nodes \ dead
           to == m.refs
           c == Canonicalize(g, m, dead)
           r == Reconcile(g, m, dead)
           s == Restrict(r, left)
<1>1. ns \in SUBSET Node /\ m.nodes = ns /\ RefsTyped(ns, ns, to) /\ left = ns \ dead /\ m.ok /\ Agrees(to, m.owners)
  BY DEF IsModel, Accepted, Forest
<1>2. IsGraph(c) /\ DOMAIN c = ns /\ IsCanonical(c, g, to, dead)
  BY <1>1, CanonicalTyped
<1>3. r = SyncBacks(c, to, left) /\ SettledRows(g, m, dead) = Rewire(s)
  BY DEF Reconcile, SettledRows
<1>4. /\ DOMAIN SettledRows(g, m, dead) = left /\ PointsInto(SettledRows(g, m, dead), left)
  BY <1>1, SettledTyped
<1>5. \A n \in left : \A f \in Forward[n] : ~MayBeMissing(f) => Without(to[n][f], dead) # <<>>
  <2>1. IsIndex(BuildIndex(m, dead), ns \ dead)
    BY BuildIndexSound
  <2> DEFINE refs == [n \in left |-> [f \in Forward[n] |-> Without(to[n][f], dead)]]
  <2>2. BuildIndex(m, dead).refs = refs
    BY DEF BuildIndex
  <2>3. Complete(left, refs)
    BY <1>1, <2>1, <2>2 DEF IsIndex
  <2> QED BY <2>3 DEF Complete
<1>6. \A o \in dead : \A x : x \in DOMAIN m.owners /\ m.owners[x] = o /\ x \in ns => x \in dead
  BY <1>1, DoomedRows, DeletionChildrenAre
<1> HIDE DEF c, r, to
<1>7. IsGraph(r) /\ DOMAIN r = ns
  BY <1>1, <1>2, <1>3, SyncTyped
<1>8. IsGraph(s) /\ DOMAIN s = left /\ \A n \in left : s[n] = r[n]
  BY <1>1, <1>7, GraphOfFewer
<1> HIDE DEF s
<1>9. ASSUME NEW n \in left, NEW f \in Forward[n], ~MayBeMissing(f) PROVE Rewire(s)[n].rel[f] # <<>>
  <2>1. n \in ns /\ n \in Node /\ n \notin dead
    BY <1>1
  <2>2. f \in FieldsOf[n] /\ Spec[f].kind # "option" /\ ~Spec[f].many /\ ~OwnMany(f) /\ Spec[f].match = "Id"
    BY <1>9, <2>1, RequiredFields
  <2>3. to[n][f] \in Seq(ns) /\ Len(to[n][f]) <= 1
    BY <1>1, <2>1, <2>2 DEF RefsTyped, Fits
  <2>4. to[n][f] # <<>> /\ to[n][f][1] \notin dead
    <3> DEFINE q == to[n][f]
    <3>1. Without(q, dead) # <<>> /\ ToSet(Without(q, dead)) = ToSet(q) \ dead /\ Without(q, dead) \in Seq(ns)
      BY <1>5, <1>9, <2>3, Remaining
    <3> HIDE DEF q
    <3>2. \E t : t \in ToSet(q) /\ t \notin dead
      BY <3>1, FirstElement
    <3>3. q # <<>>
      BY <3>2 DEF ToSet
    <3>4. ToSet(q) = {q[1]}
      BY <2>3, <3>3, FirstElement DEF q
    <3> QED BY <3>2, <3>3, <3>4 DEF q
  <2>5. c[n].rel[f] = to[n][f]
    BY <1>2, <2>1, <2>2, <2>4 DEF IsCanonical
  <2>6. PICK t : t \in ToSet(r[n].rel[f]) /\ t \in left
    <3>1. CASE r[n].rel[f] = c[n].rel[f]
      <4>1. to[n][f][1] \in ToSet(to[n][f]) /\ to[n][f][1] \in ns
        BY <2>3, <2>4, FirstElement, Elements
      <4> QED BY <1>1, <2>4, <2>5, <3>1, <4>1
    <3>2. CASE r[n].rel[f] # c[n].rel[f]
      <4> DEFINE h == SyncBacks(c, to, left)
      <4>1. r = h /\ n \in DOMAIN c /\ f \in FieldsOf[n] /\ h[n].rel[f] # c[n].rel[f]
        BY <1>2, <1>3, <2>1, <2>2, <3>2
      <4> HIDE DEF left
      <4>2. \E p, own : SyncBacks(c, to, left)[n].rel[f] = <<p>> /\ OwnMany(own) /\ IsEdge(to, n, p, own)
        BY ONLY <1>2, <4>1, SyncedPointers DEF h
      <4>3. PICK p, own : r[n].rel[f] = <<p>> /\ OwnMany(own) /\ IsEdge(to, n, p, own)
        BY <4>1, <4>2
      <4>4. p \in ns /\ n \in DOMAIN m.owners /\ m.owners[n] = p
        BY <1>1, <4>3 DEF IsEdge, RefsTyped, Agrees, AgreesBut, OwnMany
      <4>5. p \notin dead
        BY <1>6, <2>1, <4>4
      <4>6. p \in ToSet(<<p>>)
        BY DEF ToSet
      <4> QED BY <1>1, <4>3, <4>4, <4>5, <4>6
    <3> QED BY <3>1, <3>2
  <2>7. t \in ToSet(s[n].rel[f]) /\ n \in DOMAIN s /\ t \in DOMAIN s
    BY <1>8, <2>6
  <2> QED BY <1>8, <2>2, <2>7, RewireFinds
<1>10. ASSUME NEW n \in left PROVE WholeRow(n, Rewire(s)[n], left)
  <2>1. \A f \in Forward[n] : f \in FieldsOf[n]
    BY <1>1, Fields
  <2>2. \A f \in FieldsOf[n] : ToSet(Rewire(s)[n].rel[f]) \subseteq left
    BY <1>3, <1>4 DEF PointsInto
  <2> QED BY <1>9, <2>1, <2>2 DEF WholeRow
<1> QED BY <1>1, <1>3, <1>4, <1>10 DEF Whole, WholeRows

\* The rows of a project that is opened, whose model misses nothing.
LEMMA OpenedWhole ==
    ASSUME NEW g, IsGraph(g), NEW rows, rows = Rehydrated(g), NEW m, m = Rebuild(rows), m.ok, m.missing = {}
    PROVE  Whole(rows, DOMAIN rows)
<1> DEFINE ns == DOMAIN rows
           tf == TargetFields(ns)
           entries == Entries(rows, ns, tf)
<1>1. IsGraph(rows) /\ DOMAIN rows = DOMAIN g /\ PointsInto(rows, ns)
  BY RehydratedTyped
<1>2. IsModel(m, ns)
  BY <1>1, RebuildSound
<1>3. m.refs = ScanAll(rows, entries, rows, ns)
  BY DEF Rebuild, Built, BuildModel, Linked, ModelFrom
<1> HIDE DEF entries, ns
<1>4. ns \in SUBSET Node /\ m.nodes = ns /\ Reports(m)
  BY <1>2 DEF IsModel
<1>5. ASSUME NEW n \in ns, NEW f \in Forward[n] PROVE f \in FieldsOf[n] /\ (~MayBeMissing(f) => rows[n].rel[f] # <<>>)
  <2>1. f \in FieldsOf[n]
    BY <1>4, Fields
  <2>2. rows[n].rel[f] \in Seq(Node)
    BY <1>1, <2>1, GraphRow DEF ns
  <2>3. m.refs[n][f] = Resolved(entries, rows, f, rows[n].rel[f])
    BY <1>3 DEF ScanAll, ScanNode
  <2>4. ~MayBeMissing(f) => m.refs[n][f] # <<>>
    BY <1>4 DEF Reports
  <2>5. rows[n].rel[f] = <<>> => m.refs[n][f] = <<>>
    <3> DEFINE s == rows[n].rel[f]
               q == Resolved(entries, rows, f, s)
    <3>1. q \in Seq(Listed(entries)) /\ Len(q) <= Len(s)
      BY <2>2, Resolving
    <3> HIDE DEF q, s
    <3>2. s = <<>> => Len(s) = 0
      OBVIOUS
    <3>3. s = <<>> => q = <<>>
      BY <3>1, <3>2
    <3> QED BY <2>3, <3>3 DEF q, s
  <2> QED BY <2>1, <2>4, <2>5
<1>6. \A n \in ns : \A f \in FieldsOf[n] : ToSet(rows[n].rel[f]) \subseteq ns
  BY <1>1 DEF PointsInto, ns
<1> QED BY <1>5, <1>6 DEF Whole, WholeRows, WholeRow, ns

\* Typed pointers lead to the rows they are typed for.
LEMMA TypedLead ==
    ASSUME NEW rows, NEW ns, NEW refs, RefsTyped(rows, ns, refs)
    PROVE  LeadInto(refs, rows, ns)
<1>1. ASSUME NEW n \in rows, NEW f \in Forward[n] PROVE ToSet(refs[n][f]) \subseteq ns
  <2>1. refs[n][f] \in Seq(ns)
    BY DEF RefsTyped
  <2> QED BY <2>1, Elements
<1> QED BY <1>1 DEF LeadInto

\* The rows after a delta, of rows that were whole wherever it did not look.
LEMMA DeltaWhole ==
    ASSUME NEW old, NEW over, NEW fresh \in SUBSET DOMAIN over, NEW mem, NEW d, DeltaApplied(old, over, fresh, mem, d),
           NEW g, DOMAIN g = old \cup fresh, NEW h, DOMAIN h = DOMAIN g, Published(h, g, d),
           NEW left \in SUBSET (old \cup fresh), DOMAIN over \subseteq left,
           LeadInto(Scanned(over, fresh, mem), DOMAIN over, left), WholeRows(g, left \ DOMAIN over, left)
    PROVE  WholeRows(h, left, left)
<1> DEFINE refs == Scanned(over, fresh, mem)
           all == d.index.refs
           ns == old \cup fresh
<1>1. /\ d.published = refs /\ d.scanned = refs /\ all = refs ++ index.refs /\ DOMAIN refs = DOMAIN over /\ Complete(ns, all)
  BY DEF DeltaApplied, IsIndex, RefsTyped
<1>2. \A k \in DOMAIN refs : all[k] = refs[k]
  BY <1>1 DEF ++
<1> HIDE DEF refs, all
<1> SUFFICES ASSUME NEW n \in left PROVE WholeRow(n, h[n], left)
  BY DEF WholeRows
<1>3. CASE n \in DOMAIN over
  <2>1. \A f \in Forward[n] : h[n].rel[f] = refs[n][f]
    BY <1>1, <1>3 DEF Published
  <2>2. \A f \in Forward[n] : ~MayBeMissing(f) => refs[n][f] # <<>>
    BY <1>1, <1>2, <1>3 DEF Complete
  <2> QED BY <1>3, <2>1, <2>2 DEF WholeRow, LeadInto, refs
<1>4. CASE n \notin DOMAIN over
  <2>1. \A f \in Forward[n] : /\ ToSet(h[n].rel[f]) \subseteq ToSet(g[n].rel[f]) \cup DOMAIN over
                              /\ g[n].rel[f] # <<>> => h[n].rel[f] # <<>>
    BY <1>1, <1>4 DEF Published
  <2>2. WholeRow(n, g[n], left)
    BY <1>4 DEF WholeRows
  <2> QED BY <2>1, <2>2 DEF WholeRow
<1> QED BY <1>3, <1>4

\* The rows that a step leaves settled.
LeftWhole == Whole(live', DOMAIN live')

\* A model that settles the graph.
LEMMA SettlesWhole ==
    ASSUME RequiredById, NEW g, NEW m, NEW explicit, NEW dead, Settles(g, m, explicit, dead)
    PROVE  LeftWhole
<1>1. /\ IsGraph(g) /\ IsModel(m, DOMAIN g) /\ dead = Doomed(m, index.out, explicit) /\ Accepted(m, explicit, dead)
      /\ live' = SettledRows(g, m, dead) /\ StoreCommitted(m, dead)
  BY DEF Settles
<1>2. DOMAIN live' = DOMAIN g \ dead
  BY <1>1, SettleStep
<1>3. Whole(SettledRows(g, m, dead), DOMAIN g \ dead)
  BY <1>1, SettledWhole
<1> QED BY <1>1, <1>2, <1>3 DEF LeftWhole

\* Pointers that an index has lead to its rows, and none that is required is missing.
LEMMA IndexWhole ==
    ASSUME NEW ix, NEW ns, IsIndex(ix, ns), NEW n \in ns, NEW row, \A f \in Forward[n] : row.rel[f] = ix.refs[n][f]
    PROVE  WholeRow(n, row, ns)
<1>1. RefsTyped(ns, ns, ix.refs) /\ Complete(ns, ix.refs)
  BY DEF IsIndex
<1>2. ASSUME NEW f \in Forward[n] PROVE ToSet(row.rel[f]) \subseteq ns
  <2>1. row.rel[f] \in Seq(ns)
    BY <1>1 DEF RefsTyped
  <2> QED BY <2>1, Elements
<1> QED BY <1>1, <1>2 DEF WholeRow, Complete

\* Once no edit is outstanding, the pointers of every row lead to rows, and
\* those that are required are there.
Reaches == Settled => Whole(live, DOMAIN live)

\* A commit of scalars writes its rows back as they are.
LEMMA UnwrittenRows ==
    ASSUME OneOfTwo, RelationInv, Snapshots, ~GraphChanged, Writes(Over ++ live)
    PROVE  DOMAIN live' = DOMAIN live /\ \A n \in DOMAIN live : live'[n] = live[n]
<1>1. /\ tx.fresh \subseteq DOMAIN tx.work /\ DOMAIN tx.work \subseteq DOMAIN tx.orig \cup tx.fresh /\ project \in DOMAIN Projects
  BY DEF RelationInv, Staged
<1>2. live' = Over ++ live /\ DOMAIN live' = DOMAIN live
  BY DEF Writes
<1>3. tx.fresh = {} /\ \A n \in Touched : tx.work[n] = tx.orig[n]
  BY DEF GraphChanged, RelationChanged
<1>4. Touched \in SUBSET DOMAIN tx.work /\ Touched \in SUBSET DOMAIN tx.orig
  BY <1>1, <1>3 DEF Touched
<1>5. DOMAIN Over = Touched /\ \A n \in Touched : Over[n] = tx.work[n]
  BY <1>3, <1>4 DEF Over, Restrict
<1>6. \A n \in Touched : Over[n] = live[n]
  <2>1. CASE "touch" \notin Projects[project].ops
    <3>1. Touched = {}
      BY <1>3, <2>1 DEF Snapshots, Touched
    <3> QED BY <3>1
  <2>2. CASE "concurrent" \notin Projects[project].ops
    BY <1>3, <1>4, <1>5, <2>2 DEF Snapshots
  <2> QED BY <1>1, <2>1, <2>2 DEF OneOfTwo
<1> QED BY <1>2, <1>5, <1>6 DEF ++

\* A commit.
LEMMA CommitWhole ==
    ASSUME RequiredById, OneOfTwo, RelationInv, Reaches, Snapshots, Commit
    PROVE  LeftWhole
<1>1. /\ IsGraph(live) /\ IsIndex(index, DOMAIN live)
      /\ IsGraph(tx.work) /\ tx.fresh \subseteq DOMAIN tx.work /\ DOMAIN tx.work \subseteq DOMAIN tx.orig \cup tx.fresh
      /\ project \in DOMAIN Projects
  BY DEF RelationInv, Committed, Staged
<1>2. Settled /\ Whole(live, DOMAIN live)
  BY DEF Commit, Reaches
<1>3. CASE UNCHANGED <<live, index, graph>>
  BY <1>2, <1>3 DEF LeftWhole
<1>4. CASE ~Conflict /\ ~GraphChanged /\ Writes(Over ++ live)
  <2>1. DOMAIN live' = DOMAIN live /\ \A n \in DOMAIN live : live'[n] = live[n]
    BY <1>1, <1>4, UnwrittenRows
  <2> QED BY <1>2, <2>1 DEF LeftWhole, Whole, WholeRows
<1>5. CASE \E aliased, d : CommitPublishes(aliased, d)
  <2>1. PICK aliased, d : CommitPublishes(aliased, d)
    BY <1>5
  <2> DEFINE over == Over
             fresh == tx.fresh
             mem == Memory(aliased)
             g == Over ++ live
             old == DOMAIN live
             ns == old \cup fresh
             h == DeltaRows(g, d)
  <2>2. /\ IsIndex(index, old) /\ IsGraph(over) /\ fresh \in SUBSET DOMAIN over /\ DeltaAccepted(over, fresh, mem, d)
        /\ DeltaApplied(old, over, fresh, mem, d)
        /\ IsGraph(g) /\ DOMAIN g = old \cup fresh /\ live' = h
    BY <1>1, <2>1 DEF CommitPublishes
  <2>3. \A n \in old \ DOMAIN over : g[n] = live[n]
    BY DEF ++
  <2>4. Whole(live, old) /\ DOMAIN live = old
    BY <1>2
  <2> HIDE DEF over, fresh, mem, g, old, ns
  <2> HIDE DEF h
  <2>5. DOMAIN h = DOMAIN g /\ Published(h, g, d)
    <3>1. IsGraph(DeltaRows(g, d)) /\ DOMAIN DeltaRows(g, d) = old \cup fresh /\ Published(DeltaRows(g, d), g, d)
      BY ONLY <2>2, DeltaStep
    <3> QED BY ONLY <2>2, <3>1 DEF h
  <2>6. DOMAIN over \subseteq ns /\ RefsTyped(DOMAIN over, ns, Scanned(over, fresh, mem))
    BY <2>2 DEF DeltaApplied, ns
  <2>7. LeadInto(Scanned(over, fresh, mem), DOMAIN over, ns)
    BY <2>6, TypedLead
  <2>8. WholeRows(g, ns \ DOMAIN over, ns)
    BY <2>2, <2>3, <2>4 DEF Whole, WholeRows, WholeRow, ns
  <2>9. ns \in SUBSET (old \cup fresh)
    BY DEF ns
  <2>10. WholeRows(h, ns, ns)
    BY <2>2, <2>5, <2>6, <2>7, <2>8, <2>9, DeltaWhole
  <2> QED BY <2>2, <2>5, <2>10 DEF LeftWhole, Whole, ns
<1>6. CASE \E aliased, dead : ~Conflict /\ Settles(Over ++ live, TxModel(aliased), tx.del, dead)
  BY <1>6, SettlesWhole
<1> QED BY <1>3, <1>4, <1>5, <1>6, CommitSettles

\* A delete while a transaction is open.
LEMMA DeleteWhole ==
    ASSUME RequiredById, RelationInv, ConcurrentDelete
    PROVE  LeftWhole
<1> DEFINE m == TransactionModel(<<>>, {}, live)
<1>1. PICK n \in DOMAIN live : DeleteRow(n, m)
  BY DEF ConcurrentDelete
<1> DEFINE dead == Doomed(m, index.out, {n})
<1>2. Accepted(m, {n}, dead) /\ live' = SettledRows(live, m, dead) /\ StoreCommitted(m, dead)
  BY <1>1 DEF DeleteRow, SettleDelete
<1>3. IsModel(m, DOMAIN live) /\ IsGraph(live)
  BY DeletedModel DEF RelationInv, Committed
<1>4. Settles(live, m, {n}, dead)
  BY <1>2, <1>3 DEF Settles
<1> QED BY <1>4, SettlesWhole

\* More exactly than EditsNoticed, for every pointer: wherever Flush goes by the
\* Tower replica, a row that it finds unchanged has the committed pointers.
PointersNoticed ==
    Route # "full" => \A n \in index.nodes \ Moved : \A f \in Forward[n] : live[n].rel[f] = index.refs[n][f]

\* A Flush that a model of the whole project settles, or that it rejects.
LEMMA FlushSettlesWhole ==
    ASSUME RequiredById, RelationInv, ~Settled, NEW losing, NEW closure, losing \in {{}, Losing(closure)},
           FlushSettles(pending ++ Dropped(losing, closure))
    PROVE  Reaches'
<1> DEFINE base == Dropped(losing, closure)
           g == pending ++ base
           m == Rebuild(g)
           dead == Doomed(m, index.out, deletes)
<1>1. IsGraph(live) /\ IsGraph(pending)
  BY DEF RelationInv, Committed, Queued
<1>2. IsGraph(base) /\ DOMAIN base = DOMAIN live
  BY <1>1, DroppedTyped
<1>3. FlushModel(g, m, dead)
  BY DEF FlushSettles, FlushRebuild
<1> HIDE DEF base
<1>4. IsGraph(g) /\ DOMAIN live \subseteq DOMAIN g
  <2>1. IsGraph(g)
    BY <1>1, <1>2, GraphOver
  <2> QED BY <1>2, <2>1 DEF ++
<1> HIDE DEF g
<1>5. CASE Accepted(m, deletes, dead)
  <2>1. live' = SettledRows(g, m, dead) /\ StoreCommitted(m, dead)
    BY <1>3, <1>5 DEF FlushModel
  <2>2. IsModel(m, DOMAIN g)
    BY <1>4, RebuildSound
  <2>3. Settles(g, m, deletes, dead)
    BY <1>4, <1>5, <2>1, <2>2 DEF Settles
  <2>4. LeftWhole
    BY <2>3, SettlesWhole
  <2> QED BY <2>4 DEF LeftWhole, Reaches
<1>6. CASE ~Accepted(m, deletes, dead)
  <2>1. UNCHANGED <<pending, deletes, edits>>
    BY <1>3, <1>6 DEF FlushModel
  <2> QED BY <2>1 DEF Settled, Reaches
<1> QED BY <1>5, <1>6

\* A Flush that publishes a delta, or takes the cascade out of the index.
LEMMA FlushPublishesWhole ==
    ASSUME RelationInv, QuietDeletes, EditsNoticed, PointersNoticed,
           NEW closure, NEW losing, NEW base, NEW d, FlushPublishes(closure, losing, base, d)
    PROVE  LeftWhole
<1> DEFINE over == FlushOver(Route, losing, base)
           fresh == DOMAIN pending
           old == DOMAIN live
           ns == old \cup fresh
           left == ns \ closure
           mem == pending ++ base
           g == pending ++ base
           ix == WithoutDead(d.index, closure)
           h == DeltaRows(g, d)
           k == Restrict(h, left)
           lost == LostMirrors(closure)
           read == Scanned(over, fresh, mem)
           all == d.index.refs
<1>1. /\ IsIndex(index, old) /\ index.nodes = old /\ old \in SUBSET Node
      /\ DOMAIN pending \cap old = {} /\ DOMAIN index.refs = old
  BY DEF RelationInv, Committed, Queued, IsIndex, RefsTyped
<1>2. /\ DOMAIN base = old /\ IsGraph(g) /\ DOMAIN g = ns /\ IsGraph(over) /\ fresh \in SUBSET DOMAIN over /\ IsIndex(ix, left)
  BY PublishedIndex
<1>3. DeltaAccepted(over, fresh, mem, d) /\ FlushIncremental(closure, g, d, ix)
  BY DEF FlushPublishes
<1>4. live' = RefreshMirrors(k, ix, lost)
  BY <1>2, <1>3 DEF FlushIncremental
<1>5. \A n \in old \ DOMAIN over : g[n] = base[n]
  BY <1>1, <1>2 DEF ++
<1>6. ASSUME NEW n \in old \ DOMAIN over PROVE \A f \in Forward[n] : g[n].rel[f] = index.refs[n][f]
  <2>1. Route # "full" /\ n \notin Moved /\ \A f \in FieldsOf[n] : base[n].rel[f] = live[n].rel[f]
    BY <1>6, FlushLooked
  <2>2. \A f \in Forward[n] : f \in FieldsOf[n]
    BY <1>1, Fields
  <2>3. \A f \in Forward[n] : live[n].rel[f] = index.refs[n][f]
    BY <1>1, <2>1 DEF PointersNoticed
  <2>4. g[n] = base[n]
    BY <1>5
  <2> HIDE DEF g
  <2> QED BY <2>1, <2>2, <2>3, <2>4
<1>7. \A n \in closure : n \notin DOMAIN over
  <2> SUFFICES ASSUME closure # {} PROVE \A n \in closure : n \notin DOMAIN over
    OBVIOUS
  <2>1. Route = "deletes" /\ losing = Losing(closure)
    BY PublishedIndex DEF FlushPublishes
  <2>2. DOMAIN over = {e[1] : e \in losing}
    <3>1. over = Restrict(base, {e[1] : e \in losing})
      BY <2>1, PublishedIndex
    <3> HIDE DEF over
    <3> QED BY <3>1 DEF Restrict
  <2>3. \A e \in losing : e[1] \notin closure
    BY <2>1 DEF Losing, Survivors
  <2> HIDE DEF over
  <2> QED BY <2>2, <2>3
<1> HIDE DEF h, over, fresh, mem, g, old, ix, lost
<1>8. DeltaApplied(old, over, fresh, mem, d)
  BY <1>1, <1>2, <1>3, DeltaSound
<1>9. IsGraph(h) /\ DOMAIN h = ns /\ Published(h, g, d)
  BY <1>1, <1>2, <1>3, DeltaStep DEF h
<1>10. /\ DOMAIN all = ns /\ d.index.nodes = ns /\ all = read ++ index.refs /\ DOMAIN read = DOMAIN over /\ DOMAIN over \subseteq ns
  BY <1>8 DEF DeltaApplied, IsIndex, RefsTyped
<1>11. ix.refs = Restrict(all, left)
  BY <1>10 DEF ix, WithoutDead
<1> HIDE DEF read, all, ns
<1>12. left \in SUBSET ns /\ DOMAIN over \subseteq left /\ RefsTyped(left, left, ix.refs)
  BY <1>2, <1>7, <1>10 DEF IsIndex
<1>13. /\ \A n \in DOMAIN over : ix.refs[n] = read[n]
       /\ \A n \in left \ DOMAIN over : ix.refs[n] = index.refs[n] /\ n \in old
  <2>1. \A n \in left : ix.refs[n] = all[n]
    BY <1>11, <1>12 DEF Restrict
  <2>2. fresh \subseteq DOMAIN over
    BY <1>2
  <2> QED BY <1>10, <1>12, <2>1, <2>2 DEF ++, ns
<1>14. LeadInto(read, DOMAIN over, left)
  <2>1. LeadInto(ix.refs, left, left)
    BY <1>12, TypedLead
  <2> QED BY <1>12, <1>13, <2>1 DEF LeadInto
<1>15. WholeRows(g, left \ DOMAIN over, left)
  <2> SUFFICES ASSUME NEW n \in left \ DOMAIN over PROVE WholeRow(n, g[n], left)
    BY DEF WholeRows
  <2>1. \A f \in Forward[n] : g[n].rel[f] = ix.refs[n][f]
    BY <1>6, <1>13
  <2> HIDE DEF left
  <2> QED BY <1>2, <2>1, IndexWhole
<1> HIDE DEF left, k
<1>16. WholeRows(h, left, left)
  BY <1>2, <1>8, <1>9, <1>12, <1>14, <1>15, DeltaWhole DEF ns, read
<1>17. IsGraph(k) /\ DOMAIN k = left /\ \A n \in left : k[n] = h[n]
  BY <1>9, <1>12, GraphOfFewer DEF k
<1>18. ix.nodes \in SUBSET Node /\ HeldByRows(ix.inc)
  BY <1>2, EdgesHeld DEF IsIndex
<1>19. DOMAIN live' = left /\ \A n \in left : \A f \in Forward[n] : live'[n].rel[f] = k[n].rel[f]
  BY <1>4, <1>17, <1>18, MirrorsTyped
<1> QED BY <1>16, <1>17, <1>19 DEF LeftWhole, Whole, WholeRows, WholeRow

\* Every step keeps it.
LEMMA StepReaches ==
    ASSUME RequiredById, OneOfTwo, RelationInv, QuietDeletes, EditsNoticed, PointersNoticed, Reaches, Snapshots, [Next]_vars
    PROVE  Reaches'
<1>1. ASSUME LeftWhole PROVE Reaches'
  BY <1>1 DEF LeftWhole, Reaches
<1>2. ASSUME live' = live, Settled' => Settled PROVE Reaches'
  BY <1>2 DEF Reaches
<1>3. CASE TxEdit \/ TxTouch \/ TxCreate \/ TxDelete \/ TowerRebuild
  BY <1>2, <1>3 DEF TxEdit, TxTouch, TxCreate, TxDelete, TowerRebuild, Settled
<1>4. CASE Commit
  BY <1>1, <1>4, CommitWhole
<1>5. CASE ConcurrentDelete
  BY <1>1, <1>5, DeleteWhole
<1>6. CASE UnsafeEdit \/ UnsafeCreate \/ UnsafeDelete
  <2>1. edits' = edits + 1 /\ edits \in 0 .. MaxEdits /\ MaxEdits \in Nat
    BY <1>6, ProjectsAssumption DEF UnsafeEdit, UnsafeCreate, UnsafeDelete, RelationInv, Queued, MaxEdits
  <2>2. ~Settled'
    BY <2>1 DEF Settled
  <2> QED BY <2>2 DEF Reaches
<1>7. CASE Flush
  <2>1. ~Settled
    BY <1>7 DEF Flush
  <2>2. CASE Route = "persist" /\ Flushed /\ UNCHANGED <<live, index, graph, replica>>
    <3>1. Moved = {} /\ Route # "full" /\ live' = live
      BY <2>2 DEF Route
    <3>2. IsIndex(index, DOMAIN live) /\ index.nodes = DOMAIN live
      BY DEF RelationInv, Committed, IsIndex
    <3>3. \A n \in DOMAIN live : \A f \in Forward[n] : live[n].rel[f] = index.refs[n][f]
      BY <3>1, <3>2 DEF PointersNoticed
    <3>4. \A n \in DOMAIN live : WholeRow(n, live[n], DOMAIN live)
      BY <3>2, <3>3, IndexWhole
    <3> QED BY <1>1, <3>1, <3>4 DEF LeftWhole, Whole, WholeRows
  <2>3. CASE \E losing, closure : FlushSettles(pending ++ Dropped(losing, closure)) /\ losing \in {{}, Losing(closure)}
    BY <2>1, <2>3, FlushSettlesWhole
  <2>4. CASE \E closure, losing, base, d : FlushPublishes(closure, losing, base, d)
    BY <1>1, <2>4, FlushPublishesWhole
  <2> QED BY <1>7, <2>2, <2>3, <2>4, FlushWays
<1>8. CASE Reopen
  <2> DEFINE g == live
             rows == Rehydrated(g)
             m == Rebuild(rows)
  <2>1. live' = rows /\ m.ok /\ m.missing = {}
    BY <1>8 DEF Reopen
  <2>2. IsGraph(g) /\ rows = Rehydrated(g) /\ m = Rebuild(rows)
    BY DEF RelationInv, Committed
  <2> HIDE DEF g, rows, m
  <2>3. Whole(rows, DOMAIN rows)
    BY <2>1, <2>2, OpenedWhole
  <2> QED BY <1>1, <2>1, <2>3 DEF LeftWhole
<1>9. CASE UNCHANGED vars
  BY <1>2, <1>9 DEF vars, Settled
<1> QED BY <1>3, <1>4, <1>5, <1>6, <1>7, <1>8, <1>9 DEF Next

\* It holds of a project that is opened.
LEMMA InitReaches ==
    ASSUME Init
    PROVE  Reaches
<1> DEFINE g == Projects[project].rows
           rows == Rehydrated(g)
           m == Rebuild(rows)
<1>1. project \in DOMAIN Projects /\ live = rows /\ m.ok /\ m.missing = {}
  BY DEF Init
<1>2. IsGraph(g) /\ rows = Rehydrated(g) /\ m = Rebuild(rows)
  BY <1>1, ProjectsAssumption
<1> HIDE DEF g, rows, m
<1>3. Whole(rows, DOMAIN rows)
  BY <1>1, <1>2, OpenedWhole
<1> QED BY <1>1, <1>3 DEF Reaches

\* With the inverse views it is the property of the rows.
LEMMA ReachesAll ==
    ASSUME RelationInv, Reflects, Reaches
    PROVE  NothingDangles
<1> SUFFICES ASSUME Settled, NEW n \in DOMAIN live, NEW f \in FieldsOf[n]
             PROVE  /\ ToSet(live[n].rel[f]) \subseteq DOMAIN live
                    /\ Spec[f].many \/ Spec[f].kind = "option" \/ Len(live[n].rel[f]) = 1
  BY DEF NothingDangles
<1>1. IsGraph(live) /\ n \in Node /\ DOMAIN index.refs = DOMAIN live
  BY DEF RelationInv, Committed, IsIndex, RefsTyped, IsGraph
<1>2. live[n].rel[f] \in Seq(Node) /\ Fits(f, live[n].rel[f])
  BY <1>1, GraphRow
<1>3. CASE Spec[f].kind = "inverse"
  <2>1. f \in InverseFields[n] /\ f \in Field
    BY <1>1, <1>3, Fields
  <2>2. \A h \in ToSet(live[n].rel[f]) : h \in DOMAIN live
    BY <1>1, <2>1 DEF Reflects, Views, IsEdge
  <2>3. Spec[f].many
    BY <1>3, <2>1, Schema
  <2> QED BY <2>2, <2>3
<1>4. CASE Spec[f].kind # "inverse"
  <2>1. f \in Forward[n]
    BY <1>1, <1>4, Fields
  <2>2. ToSet(live[n].rel[f]) \subseteq DOMAIN live /\ (~MayBeMissing(f) => live[n].rel[f] # <<>>)
    BY <2>1 DEF Reaches, Whole, WholeRows, WholeRow
  <2>3. ASSUME ~Spec[f].many, Spec[f].kind # "option" PROVE Len(live[n].rel[f]) = 1
    <3> DEFINE s == live[n].rel[f]
    <3>1. s # <<>> /\ Len(s) <= 1 /\ s \in Seq(Node)
      BY <1>2, <2>2, <2>3 DEF MayBeMissing, Fits
    <3> HIDE DEF s
    <3>2. Len(s) = 1
      BY <3>1, FirstElement
    <3> QED BY <3>2 DEF s
  <2> QED BY <2>2, <2>3
<1> QED BY <1>3, <1>4

\* Whatever mixture of commits, deletes, Flush and restarts a project has been
\* through, no pointer of its rows leads to a row that is gone, inverse views
\* included, and no required pointer is nil, as long as the edits of Unsafe
\* sessions are noticed.
THEOREM PointersHold ==
    ASSUME RequiredById, InversesById, OneOfTwo
    PROVE  RelationSpec /\ []QuietDeletes /\ []PointersNoticed => []NothingDangles
<1> DEFINE Inv == RelationInv /\ Reflects /\ Snapshots /\ Reaches
<1>1. Init => Inv
  BY InitHolds, InitReflects, InitReaches
<1>2. PointersNoticed => EditsNoticed
  BY DEF PointersNoticed, EditsNoticed
<1>3. Inv /\ QuietDeletes /\ PointersNoticed /\ [Next]_vars => Inv'
  BY <1>2, StepKeeps, StepReflects, SnapshotsKept, StepReaches
<1>4. Inv => NothingDangles
  BY ReachesAll
<1> HIDE DEF Inv
<1> QED BY <1>1, <1>3, <1>4, PTL DEF RelationSpec

\* Without a Tower nothing has to be noticed.
THEOREM PointersHoldWithoutTower ==
    ASSUME RequiredById, InversesById, OneOfTwo, \A p \in DOMAIN Projects : "tower" \notin Projects[p].ops
    PROVE  RelationSpec => []NothingDangles
<1> DEFINE Inv == RelationInv /\ Reflects /\ Snapshots /\ Reaches /\ NoTower
<1>1. Init => Inv
  <2> SUFFICES ASSUME Init PROVE Inv
    OBVIOUS
  <2>1. NoTower
    BY DEF Init, NoTower
  <2> QED BY <2>1, InitHolds, InitReflects, InitReaches
<1>2. NoTower => QuietDeletes /\ EditsNoticed /\ PointersNoticed
  BY DEF NoTower, QuietDeletes, EditsNoticed, PointersNoticed, Route
<1>3. Inv /\ [Next]_vars => Inv'
  BY <1>2, StepKeeps, StepReflects, SnapshotsKept, StepReaches, NoTowerKept
<1>4. Inv => NothingDangles
  BY ReachesAll
<1> HIDE DEF Inv
<1> QED BY <1>1, <1>3, <1>4, PTL DEF RelationSpec
=============================================================================
