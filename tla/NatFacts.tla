------------------------------- MODULE NatFacts -------------------------------
(***************************************************************************)
(* What the proofs of this project need of the natural numbers and the     *)
(* library does not state without an operator parameter: a set of numbers  *)
(* has a least element, a bounded one a greatest, and induction over the   *)
(* set of numbers that satisfy a formula.                                  *)
(***************************************************************************)
EXTENDS Integers, WellFoundedInduction, TLAPS

\* Every nonempty set of natural numbers has a least element: counters, queue
\* positions and row ids are such sets.
LEMMA LeastElement ==
    ASSUME NEW T \in SUBSET Nat, T # {}
    PROVE  \E x \in T : \A y \in T : x <= y
<1> DEFINE R == {ss \in Nat \X Nat : ss[1] < ss[2]}
<1>1. IsWellFoundedOn(R, Nat)
  BY NatLessThanWellFounded DEF OpToRel
<1>2. \A x, y \in Nat : <<y, x>> \in R <=> y < x
  BY DEF R
<1> HIDE DEF R
<1>3. PICK x \in T : \A y \in T : ~(<<y, x>> \in R)
  BY <1>1, WFMin
<1>4. ASSUME NEW y \in T PROVE x <= y
  <2>1. x \in Nat /\ y \in Nat
    OBVIOUS
  <2>2. ~(y < x)
    BY <2>1, <1>2, <1>3
  <2> QED BY <2>1, <2>2
<1> QED BY <1>4

\* Every nonempty bounded set of natural numbers has a greatest element: what
\* seedCounter looks for among the ids of the rows it loads.
LEMMA GreatestElement ==
    ASSUME NEW B \in Nat, NEW T \in SUBSET (0 .. B), T # {}
    PROVE  \E x \in T : \A y \in T : y <= x
<1> DEFINE D == {n \in Nat : B - n \in T}
<1>1. PICK t \in T : TRUE
  OBVIOUS
<1>2. B - t \in D
  <2>1. t \in 0 .. B
    OBVIOUS
  <2>2. B - t \in Nat /\ B - (B - t) = t
    BY <2>1
  <2> QED BY <2>2
<1>3. PICK d \in D : \A e \in D : d <= e
  <2>1. D \in SUBSET Nat /\ D # {}
    BY <1>2
  <2> HIDE DEF D
  <2> QED BY <2>1, LeastElement
<1>4. ASSUME NEW y \in T PROVE y <= B - d
  <2>1. y \in 0 .. B
    OBVIOUS
  <2>2. B - y \in Nat /\ B - (B - y) = y
    BY <2>1
  <2>3. d <= B - y /\ d \in Nat
    BY <2>2, <1>3
  <2> QED BY <2>1, <2>3
<1> QED BY <1>4

\* Induction over a set: a set with 0 that is closed under successor has every
\* natural number.
LEMMA SetInduction ==
    ASSUME NEW T \in SUBSET Nat, 0 \in T, \A n \in T : n + 1 \in T
    PROVE  T = Nat
<1>1. SUFFICES ASSUME Nat \ T # {} PROVE FALSE
  OBVIOUS
<1>2. PICK x \in Nat \ T : \A y \in Nat \ T : x <= y
  BY <1>1, LeastElement
<1>3. x # 0 /\ x - 1 \in Nat
  OBVIOUS
<1>4. x - 1 \in T
  BY <1>2, <1>3
<1> QED BY <1>4, <1>3

\* A loop whose state after k rounds is in R stays in R.
LEMMA LoopInvariant ==
    ASSUME NEW n \in Nat, NEW f, NEW R, <<0, f[0]>> \in R,
           \A k \in 1 .. n : <<k - 1, f[k - 1]>> \in R => <<k, f[k]>> \in R
    PROVE  \A k \in 0 .. n : <<k, f[k]>> \in R
<1> DEFINE T == {k \in Nat : k <= n => <<k, f[k]>> \in R}
<1>1. 0 \in T
  OBVIOUS
<1>2. ASSUME NEW k \in T PROVE k + 1 \in T
  <2> SUFFICES ASSUME k + 1 <= n PROVE <<k + 1, f[k + 1]>> \in R
    OBVIOUS
  <2>1. k \in Nat /\ k <= n /\ k + 1 \in 1 .. n /\ (k + 1) - 1 = k
    OBVIOUS
  <2>2. <<k, f[k]>> \in R
    BY <2>1
  <2> QED BY <2>1, <2>2
<1>3. T = Nat
  <2> HIDE DEF T
  <2>1. T \in SUBSET Nat
    BY DEF T
  <2> QED BY <1>1, <1>2, <2>1, SetInduction
<1> QED BY <1>3

\* A loop of n rounds: g gives the state after round k from the one before, and R
\* has the states that may occur after k rounds.
Keeps(n, X, R, g) ==
    \A k \in 1 .. n : \A x \in X : <<k - 1, x>> \in R => g[<<k, x>>] \in X /\ <<k, g[<<k, x>>]>> \in R
IsLoop(f, n, x0, g) == f[0] = x0 /\ \A k \in 1 .. n : f[k] = g[<<k, f[k - 1]>>]
StaysIn(f, n, R) == \A k \in 1 .. n : <<k - 1, f[k - 1]>> \in R

\* It has its sequence of states.
LEMMA LoopExists ==
    ASSUME NEW n \in Nat, NEW X, NEW R \in SUBSET (Nat \X X), NEW x0 \in X, NEW g, <<0, x0>> \in R, Keeps(n, X, R, g)
    PROVE  \E f \in [0 .. n -> X] : IsLoop(f, n, x0, g) /\ StaysIn(f, n, R)
<1> USE DEF Keeps
<1> DEFINE Good(m, f) == /\ f[0] = x0 /\ \A k \in 1 .. m : f[k] = g[<<k, f[k - 1]>>]
                         /\ \A k \in 0 .. m : <<k, f[k]>> \in R
           T == {m \in Nat : m <= n => \E f \in [0 .. m -> X] : Good(m, f)}
<1>1. 0 \in T
  <2> DEFINE f == [k \in 0 .. 0 |-> x0]
  <2>1. f \in [0 .. 0 -> X] /\ Good(0, f)
    OBVIOUS
  <2> HIDE DEF f, Good
  <2> QED BY <2>1
<1>2. ASSUME NEW m \in T PROVE m + 1 \in T
  <2> SUFFICES ASSUME m + 1 <= n PROVE \E f \in [0 .. m + 1 -> X] : Good(m + 1, f)
    OBVIOUS
  <2>1. m \in Nat /\ m <= n /\ m + 1 \in 1 .. n /\ (m + 1) - 1 = m
    OBVIOUS
  <2>2. PICK f \in [0 .. m -> X] : Good(m, f)
    BY <2>1
  <2> DEFINE h == [k \in 0 .. m + 1 |-> IF k = m + 1 THEN g[<<m + 1, f[m]>>] ELSE f[k]]
  <2>3. \A k \in 0 .. m : h[k] = f[k] /\ f[k] \in X
    BY <2>1, <2>2
  <2>4. h[m + 1] = g[<<m + 1, f[m]>>]
    BY <2>1
  <2>5. <<m, f[m]>> \in R /\ f[m] \in X
    BY <2>1, <2>2
  <2>6. g[<<m + 1, f[m]>>] \in X /\ <<m + 1, g[<<m + 1, f[m]>>]>> \in R
    BY <2>1, <2>5
  <2>7. h \in [0 .. m + 1 -> X]
    BY <2>1, <2>2, <2>6
  <2> HIDE DEF h
  <2>8. h[0] = x0
    BY <2>1, <2>2, <2>3
  <2>9. ASSUME NEW k \in 1 .. m + 1 PROVE h[k] = g[<<k, h[k - 1]>>]
    <3>1. CASE k = m + 1
      BY <2>1, <2>3, <2>4, <3>1
    <3>2. CASE k # m + 1
      <4>1. k \in 1 .. m /\ k \in 0 .. m /\ k - 1 \in 0 .. m
        BY <2>1, <3>2
      <4> QED BY <2>2, <2>3, <4>1
    <3> QED BY <3>1, <3>2
  <2>10. ASSUME NEW k \in 0 .. m + 1 PROVE <<k, h[k]>> \in R
    <3>1. CASE k = m + 1
      BY <2>4, <2>6, <3>1
    <3>2. CASE k # m + 1
      <4>1. k \in 0 .. m
        BY <2>1, <3>2
      <4> QED BY <2>2, <2>3, <4>1
    <3> QED BY <3>1, <3>2
  <2>11. Good(m + 1, h)
    BY <2>8, <2>9, <2>10
  <2> HIDE DEF Good
  <2> QED BY <2>7, <2>11
<1>3. T = Nat
  <2> HIDE DEF T
  <2>1. T \in SUBSET Nat
    BY DEF T
  <2> QED BY <1>1, <1>2, <2>1, SetInduction
<1>4. PICK f \in [0 .. n -> X] : Good(n, f)
  <2>1. n \in T
    BY <1>3
  <2> QED BY <2>1
<1>5. \A k \in 1 .. n : f[k] = g[<<k, f[k - 1]>>] /\ <<k - 1, f[k - 1]>> \in R
  <2>1. \A k \in 1 .. n : k - 1 \in 0 .. n
    OBVIOUS
  <2> QED BY <1>4, <2>1
<1> QED BY <1>4, <1>5 DEF IsLoop, StaysIn

LoopIn(f, n, X, x0, g) ==
    /\ f \in [0 .. n -> X] /\ f[0] = x0
    /\ \A k \in 1 .. n : k - 1 \in 0 .. n /\ f[k - 1] \in X /\ f[k] = g[<<k, f[k - 1]>>]

\* The same for a loop that may be in any state after any round.
LEMMA LoopExistsIn ==
    ASSUME NEW n \in Nat, NEW X, NEW x0 \in X, NEW g \in [(1 .. n) \X X -> X]
    PROVE  \E f : LoopIn(f, n, X, x0, g)
<1> DEFINE R == Nat \X X
<1>1. Keeps(n, X, R, g)
  <2>1. \A k \in 1 .. n : k \in Nat
    OBVIOUS
  <2> QED BY <2>1 DEF Keeps
<1>2. <<0, x0>> \in R /\ R \in SUBSET (Nat \X X)
  OBVIOUS
<1> HIDE DEF R
<1>3. PICK f \in [0 .. n -> X] : IsLoop(f, n, x0, g)
  BY <1>1, <1>2, LoopExists
<1>4. \A k \in 1 .. n : k - 1 \in 0 .. n
  OBVIOUS
<1>5. \A k \in 1 .. n : f[k - 1] \in X
  BY <1>3, <1>4
<1> QED BY <1>3, <1>4, <1>5 DEF IsLoop, LoopIn
=============================================================================
