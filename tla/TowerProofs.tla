---------------------------- MODULE TowerProofs ----------------------------
(***************************************************************************)
(* Proofs about Tower, for every number of goroutines, rows and updates:   *)
(* type correctness, and what the shadow replica, the lock of a tree and   *)
(* the epochs guarantee to updates of one tree.                            *)
(***************************************************************************)
EXTENDS Tower, NatFacts, FiniteSetTheorems

N == Cardinality(Node)

----------------------------------------------------------------------------
(* Ownership *)

\* The number of rows is a number.
LEMMA Rows == N \in Nat
BY TowerAssumption, FS_CardinalityType DEF N

\* f gives every row its first m + 1 owners, the row itself being the first.
Climbs(f, m) ==
    /\ f \in [0 .. m -> [Node -> Node]]
    /\ \A n \in Node : f[0][n] = n
    /\ \A k \in 1 .. m, n \in Node : f[k][n] = parent[f[k - 1][n]]

\* The owners above a row, defined step by step, exist.
LEMMA OwnersExist ==
    ASSUME parent \in [Node -> Node]
    PROVE  \E f : Climbs(f, N)
<1> DEFINE T == {m \in Nat : \E f : Climbs(f, m)}
<1>1. 0 \in T
  <2> DEFINE f == [k \in 0 .. 0 |-> [n \in Node |-> n]]
  <2>1. Climbs(f, 0)
    BY DEF Climbs
  <2> QED BY <2>1
<1>2. ASSUME NEW m \in T PROVE m + 1 \in T
  <2>1. m \in Nat
    OBVIOUS
  <2>2. PICK f : Climbs(f, m)
    OBVIOUS
  <2> DEFINE h == [n \in Node |-> parent[f[m][n]]]
             g == [k \in 0 .. m + 1 |-> IF k = m + 1 THEN h ELSE f[k]]
  <2>3. \A k \in 0 .. m : f[k] \in [Node -> Node]
    BY <2>1, <2>2 DEF Climbs
  <2>4. h \in [Node -> Node] /\ \A n \in Node : h[n] = parent[f[m][n]]
    BY <2>1, <2>3
  <2> HIDE DEF h
  <2>5. g[m + 1] = h /\ \A k \in 0 .. m : g[k] = f[k]
    BY <2>1
  <2>6. g \in [0 .. m + 1 -> [Node -> Node]]
    BY <2>1, <2>3, <2>4
  <2> HIDE DEF g
  <2>7. \A n \in Node : g[0][n] = n
    BY <2>1, <2>2, <2>5 DEF Climbs
  <2>8. ASSUME NEW k \in 1 .. m + 1, NEW n \in Node PROVE g[k][n] = parent[g[k - 1][n]]
    <3>1. CASE k = m + 1
      BY <2>1, <2>4, <2>5, <3>1
    <3>2. CASE k # m + 1
      <4>1. k \in 1 .. m /\ k - 1 \in 0 .. m /\ k \in 0 .. m
        BY <2>1, <3>2
      <4> QED BY <2>2, <2>5, <4>1 DEF Climbs
    <3> QED BY <3>1, <3>2
  <2>9. Climbs(g, m + 1)
    BY <2>6, <2>7, <2>8 DEF Climbs
  <2> QED BY <2>1, <2>9
<1>3. T = Nat
  <2> HIDE DEF T
  <2>1. T \in SUBSET Nat
    BY DEF T
  <2> QED BY <1>1, <1>2, <2>1, SetInduction
<1> QED BY <1>3, Rows

\* The definition of Up is one of a function.
LEMMA Owners ==
    ASSUME parent \in [Node -> Node]
    PROVE  /\ DOMAIN Up = 0 .. N /\ Up[0] = [n \in Node |-> n]
           /\ \A k \in 1 .. N : Up[k] = [n \in Node |-> parent[Up[k - 1][n]]]
<1>1. PICK f : Climbs(f, N)
  BY OwnersExist
<1>2. f = [k \in 0 .. N |->
             IF k = 0 THEN [n \in Node |-> n] ELSE LET below == f[k - 1] IN [n \in Node |-> parent[below[n]]]]
  <2>1. ASSUME NEW k \in 0 .. N
        PROVE  f[k] = IF k = 0 THEN [n \in Node |-> n] ELSE [n \in Node |-> parent[f[k - 1][n]]]
    <3>1. f[k] \in [Node -> Node]
      BY <1>1 DEF Climbs
    <3>2. CASE k = 0
      BY <1>1, <3>1, <3>2 DEF Climbs
    <3>3. CASE k # 0
      <4>1. k \in 1 .. N
        BY <3>3, Rows
      <4> QED BY <1>1, <3>1, <3>3, <4>1 DEF Climbs
    <3> QED BY <3>2, <3>3
  <2>2. f = [k \in 0 .. N |-> f[k]]
    BY <1>1 DEF Climbs
  <2> QED BY <2>1, <2>2
<1>3. Up = [k \in 0 .. N |->
             IF k = 0 THEN [n \in Node |-> n] ELSE LET below == Up[k - 1] IN [n \in Node |-> parent[below[n]]]]
  BY <1>2, Rows DEF Up, N
<1> DEFINE U == Up
<1>4. U = [k \in 0 .. N |-> IF k = 0 THEN [n \in Node |-> n] ELSE [n \in Node |-> parent[U[k - 1][n]]]]
  BY <1>3
<1> HIDE DEF U
<1>5. DOMAIN U = 0 .. N /\ U[0] = [n \in Node |-> n]
  BY <1>4, Rows
<1>6. ASSUME NEW k \in 1 .. N PROVE U[k] = [n \in Node |-> parent[U[k - 1][n]]]
  <2>1. k \in 0 .. N /\ k # 0
    BY Rows
  <2> QED BY <1>4, <2>1
<1> QED BY <1>5, <1>6 DEF U

\* The top-level owner of a row is a row, and a row is in its own branch.
LEMMA TopLevel ==
    ASSUME parent \in [Node -> Node], NEW n \in Node
    PROVE  OwnershipRoot(n) \in Node /\ Branch(n) \subseteq Node /\ n \in Branch(n)
<1> DEFINE U == Up
<1>1. /\ DOMAIN U = 0 .. N /\ U[0] = [m \in Node |-> m]
      /\ \A k \in 1 .. N : U[k] = [m \in Node |-> parent[U[k - 1][m]]]
  BY Owners
<1>2. OwnershipRoot(n) = U[N][n] /\ Branch(n) = {m \in Node : \E k \in DOMAIN U : U[k][m] = n}
  BY DEF OwnershipRoot, Branch, N
<1> HIDE DEF U
<1>3. U[N] \in [Node -> Node]
  <2> DEFINE T == {k \in Nat : k <= N => U[k] \in [Node -> Node]}
  <2>1. 0 \in T
    BY <1>1
  <2>2. ASSUME NEW k \in T PROVE k + 1 \in T
    <3> SUFFICES ASSUME k + 1 <= N PROVE U[k + 1] \in [Node -> Node]
      OBVIOUS
    <3>1. k <= N /\ k + 1 \in 1 .. N /\ (k + 1) - 1 = k
      BY Rows
    <3>2. U[k] \in [Node -> Node]
      BY <3>1
    <3>3. U[k + 1] = [m \in Node |-> parent[U[k][m]]]
      BY <1>1, <3>1
    <3> QED BY <3>2, <3>3
  <2>3. T = Nat
    <3> HIDE DEF T
    <3>1. T \in SUBSET Nat
      BY DEF T
    <3> QED BY <2>1, <2>2, <3>1, SetInduction
  <2> QED BY <2>3, Rows
<1>4. n \in Branch(n)
  <2>1. 0 \in DOMAIN U /\ U[0][n] = n
    BY <1>1, Rows
  <2> QED BY <1>2, <2>1
<1> QED BY <1>2, <1>3, <1>4

----------------------------------------------------------------------------
(* Type correctness *)

Shadow == [rows : [Node -> SUBSET Edit], base : [Node -> SUBSET Edit], epoch : Nat]
WithReplica == {"callback", "diff", "materialize", "commit", "capture", "relation", "retire"}
InTower == {"load", "rebuild", "graph"} \cup WithReplica
Busy == {"enter", "owner", "lock"} \cup InTower
Places == {"idle", "ok", "failed"} \cup Busy

Locals ==
    [root : Node \cup {Nobody}, owner : Node \cup {Nobody}, rep : Replica \cup {NoReplica},
     wrote : SUBSET (Node \X Kind), declared : SUBSET Node, fields : SUBSET (Node \X Kind),
     work : UNION {[D -> SUBSET Edit] : D \in SUBSET Node},
     seen : UNION {[D -> Nat] : D \in SUBSET Node}, then : {"ok", "owner", "failed"}]

StoreTyped ==
    /\ setup \in Setups
    /\ live \in [Node -> SUBSET Edit] /\ ver \in [Node -> Nat] /\ parent \in [Node -> Node] /\ epoch \in Nat
    /\ amid \in SUBSET (Client \cup Outside)

ShadowTyped ==
    /\ replica \in [Replica -> Shadow] /\ current \in Replica \cup {NoReplica}
    /\ \A x \in Replica : replica[x].epoch <= epoch

LocksTyped == writeLock \in [Node -> Client \cup {Nobody}] /\ rebuildMu \in Client \cup {Nobody}

\* A call in progress has a row that its client may update, and the replica it uses.
CallsTyped ==
    /\ pc \in [Client \cup Outside -> Places]
    /\ call \in [Client -> Locals]
    /\ \A c \in Client : /\ pc[c] \in Busy => call[c].root \in setup.root[c]
                         /\ pc[c] \in WithReplica => call[c].rep \in Replica

Typed == StoreTyped /\ ShadowTyped /\ LocksTyped /\ CallsTyped

\* There is a replica that nobody reaches: there is one more than goroutines.
LEMMA SpareReplica ==
    ASSUME Typed, current = NoReplica
    PROVE  Unused \in Replica /\ \A c \in Client : call[c].rep # Unused
<1> DEFINE f == [c \in Client |-> call[c].rep]
           Used == {f[c] : c \in Client}
<1>1. IsFiniteSet(Used) /\ Cardinality(Used) <= Cardinality(Client)
  <2>1. IsFiniteSet(Client) /\ f \in Surjection(Client, Used)
    BY TowerAssumption DEF Surjection
  <2> QED BY <2>1, FS_Surjection
<1>2. Cardinality(Client) \in Nat /\ Cardinality(Used) \in Nat
  BY <1>1, TowerAssumption, FS_CardinalityType
<1>3. IsFiniteSet(Replica) /\ Cardinality(Replica) = Cardinality(Client) + 1
  <2> DEFINE k == Cardinality(Client) + 1
  <2>1. k \in Nat /\ k >= 1
    BY <1>2
  <2>2. Replica = 1 .. k
    BY DEF Replica
  <2> HIDE DEF k
  <2>3. IsFiniteSet(1 .. k) /\ Cardinality(1 .. k) = k
    BY <2>1, FS_Interval
  <2> QED BY <2>2, <2>3 DEF k
<1>4. ~(Replica \subseteq Used)
  BY <1>1, <1>2, <1>3, FS_Subset
<1>5. PICK x \in Replica : x \notin Used
  BY <1>4
<1>6. \A y \in Replica : ~Reachable(y, current, Client) <=> \A c \in Client : call[c].rep # y
  BY <1>2 DEF Reachable, Replica, NoReplica
<1>7. ~Reachable(x, current, Client)
  BY <1>5, <1>6
<1> QED BY <1>6, <1>7 DEF Unused

\* What the setup holds is as Setup says.
LEMMA Settings ==
    ASSUME setup \in Setups
    PROVE  /\ setup.tracked \subseteq Client /\ setup.rows \subseteq Node
           /\ setup.root \in [Client -> SUBSET Node] /\ setup.parent \in [Node -> Node]
           /\ setup.moves \subseteq Node \X Node
BY TowerAssumption DEF Setup

\* Letting go of a replica.
LEMMA LetGoTyped ==
    ASSUME ShadowTyped, NEW c \in Client, NEW cur \in Replica \cup {NoReplica}, LetGo(c, cur), epoch \in Nat, epoch' = epoch
    PROVE  ShadowTyped'
<1>1. Blank \in Shadow /\ Blank.epoch = 0
  BY DEF Blank, Shadow
<1>2. current' = cur /\ replica' = [x \in Replica |-> IF Reachable(x, cur, Client \ {c}) THEN replica[x] ELSE Blank]
  BY DEF LetGo
<1>3. \A x \in Replica : replica'[x] = replica[x] \/ replica'[x] = Blank
  BY <1>2
<1>4. replica' \in [Replica -> Shadow]
  BY <1>1, <1>2 DEF ShadowTyped
<1> QED BY <1>1, <1>2, <1>3, <1>4 DEF ShadowTyped

\* The locals before a call, and those of a call that starts again or returns.
LEMMA IdleTyped ==
    /\ Idle \in Locals
    /\ \A r \in Node : [Idle EXCEPT !.root = r] \in Locals /\ [Idle EXCEPT !.root = r].root = r
    /\ \A w \in SUBSET (Node \X Kind), d \in SUBSET Node : [Idle EXCEPT !.wrote = w, !.declared = d] \in Locals
<1>1. [n \in {} |-> {}] \in UNION {[D -> SUBSET Edit] : D \in SUBSET Node}
  <2>1. [n \in {} |-> {}] \in [{} -> SUBSET Edit] /\ {} \in SUBSET Node
    OBVIOUS
  <2> QED BY <2>1
<1>2. [n \in {} |-> 0] \in UNION {[D -> Nat] : D \in SUBSET Node}
  <2>1. [n \in {} |-> 0] \in [{} -> Nat] /\ {} \in SUBSET Node
    OBVIOUS
  <2> QED BY <2>1
<1> DEFINE nowork == [n \in {} |-> {}]
           noseen == [n \in {} |-> 0]
<1>3. Idle = [root |-> Nobody, owner |-> Nobody, rep |-> NoReplica, wrote |-> {}, declared |-> {},
              fields |-> {}, work |-> nowork, seen |-> noseen, then |-> "ok"]
  BY DEF Idle
<1>4. nowork \in UNION {[D -> SUBSET Edit] : D \in SUBSET Node} /\ noseen \in UNION {[D -> Nat] : D \in SUBSET Node}
  BY <1>1, <1>2
<1> HIDE DEF nowork, noseen
<1> QED BY <1>3, <1>4 DEF Locals

\* The step of one goroutine in its call.
LEMMA CallStep ==
    ASSUME CallsTyped, setup' = setup, NEW c \in Client, NEW p \in Places, NEW l \in Locals,
           pc' = [pc EXCEPT ![c] = p], call' = [call EXCEPT ![c] = l],
           p \in Busy => l.root \in setup.root[c], p \in WithReplica => l.rep \in Replica
    PROVE  CallsTyped' /\ pc'[c] = p /\ call'[c] = l
BY DEF CallsTyped

\* A goroutine goes on with its locals.
LEMMA MoveStep ==
    ASSUME CallsTyped, setup' = setup, NEW c \in Client, NEW p \in Places, pc' = [pc EXCEPT ![c] = p], call' = call,
           p \in Busy => call[c].root \in setup.root[c], p \in WithReplica => call[c].rep \in Replica
    PROVE  CallsTyped'
<1>1. call' = [call EXCEPT ![c] = call[c]] /\ call[c] \in Locals
  BY DEF CallsTyped
<1> QED BY <1>1, CallStep

\* The fields of a goroutine's locals.
LEMMA LocalTypes ==
    ASSUME CallsTyped, NEW c \in Client
    PROVE  /\ call[c] \in Locals /\ DOMAIN call = Client
           /\ call[c].root \in Node \cup {Nobody} /\ call[c].owner \in Node \cup {Nobody}
           /\ call[c].rep \in Replica \cup {NoReplica}
           /\ call[c].wrote \in SUBSET (Node \X Kind) /\ call[c].declared \in SUBSET Node
           /\ call[c].fields \in SUBSET (Node \X Kind)
           /\ DOMAIN call[c].work \in SUBSET Node
           /\ \A n \in DOMAIN call[c].work : call[c].work[n] \in SUBSET Edit
           /\ call[c].then \in {"ok", "owner", "failed"}
BY DEF CallsTyped, Locals

\* Each way a call goes on or ends keeps the types of its locals.
LEMMA RetryTyped ==
    ASSUME Typed, setup' = setup, NEW c \in Client, Retry(c), pc[c] \in Busy
    PROVE  CallsTyped'
<1>1. call[c].root \in setup.root[c] /\ call[c].root \in Node
  BY Settings DEF Typed, StoreTyped, CallsTyped
<1> DEFINE l == [Idle EXCEPT !.root = call[c].root]
<1>2. l \in Locals /\ l.root = call[c].root
  BY <1>1, IdleTyped
<1>3. pc' = [pc EXCEPT ![c] = "owner"] /\ call' = [call EXCEPT ![c] = l]
  BY DEF Retry, Goto
<1> HIDE DEF l
<1> QED BY <1>1, <1>2, <1>3, CallStep DEF Typed, Places, Busy, InTower, WithReplica

\* A call that returns.
LEMMA ReturnTyped ==
    ASSUME Typed, setup' = setup, NEW c \in Client, NEW p \in {"ok", "failed"}, Return(c, p)
    PROVE  CallsTyped' /\ writeLock' \in [Node -> Client \cup {Nobody}]
<1> DEFINE l == [Idle EXCEPT !.wrote = call[c].wrote, !.declared = call[c].declared]
<1>1. l \in Locals
  BY LocalTypes, IdleTyped DEF Typed
<1>2. pc' = [pc EXCEPT ![c] = p] /\ call' = [call EXCEPT ![c] = l] /\ writeLock' = Unlocked(c)
  BY DEF Return, Goto
<1> HIDE DEF l
<1>3. writeLock' \in [Node -> Client \cup {Nobody}]
  BY <1>2 DEF Unlocked, Typed, LocksTyped
<1> QED BY <1>1, <1>2, <1>3, CallStep DEF Typed, Places, Busy, InTower, WithReplica

\* A goroutine enters a callback with a replica.
LEMMA StartTyped ==
    ASSUME Typed, setup' = setup, NEW c \in Client, NEW x \in Replica, StartCallback(c, x), pc[c] \in Busy
    PROVE  CallsTyped'
<1> DEFINE l == [call[c] EXCEPT !.rep = x, !.wrote = {}, !.declared = {}]
<1>1. l \in Locals /\ l.rep = x /\ l.root = call[c].root
  BY LocalTypes DEF Typed, Locals
<1>2. pc' = [pc EXCEPT ![c] = "callback"] /\ call' = [call EXCEPT ![c] = l]
  BY DEF StartCallback, Goto
<1>3. call[c].root \in setup.root[c]
  BY DEF Typed, CallsTyped
<1> HIDE DEF l
<1> QED BY <1>1, <1>2, <1>3, CallStep DEF Typed, Places, Busy, InTower, WithReplica

\* A commit of the engine.
LEMMA EngineTyped ==
    ASSUME StoreTyped, ShadowTyped, NEW g \in Client \cup Outside, NEW n \in Node, NEW kind \in Kind,
           EngineCommit(g, n, kind), setup' = setup, parent' \in [Node -> Node], UNCHANGED tower
    PROVE  StoreTyped' /\ ShadowTyped'
<1>1. <<g, kind>> \in Edit
  BY DEF Edit
<1>2. /\ live' \in [Node -> SUBSET Edit] /\ ver' \in [Node -> Nat] /\ epoch' \in Nat /\ epoch' > epoch
      /\ amid' \in SUBSET (Client \cup Outside)
  BY <1>1 DEF EngineCommit, StoreTyped
<1>3. replica' = replica /\ current' = current
  BY DEF tower
<1>4. \A x \in Replica : replica[x].epoch \in Nat
  BY DEF ShadowTyped, Shadow
<1> QED BY <1>2, <1>3, <1>4 DEF StoreTyped, ShadowTyped

\* What retire leaves in tower.replica.
LEMMA RetiredTyped ==
    ASSUME ShadowTyped, NEW x PROVE Retired(x) \in Replica \cup {NoReplica}
BY DEF ShadowTyped, Retired

\* The rows of a call are published.
LEMMA PublishTyped ==
    ASSUME Typed, NEW c \in Client, Publish(c), UNCHANGED tower
    PROVE  StoreTyped' /\ ShadowTyped' /\ setup' = setup
<1>1. \A n \in Touched(c) : call[c].work[n] \in SUBSET Edit
  BY LocalTypes DEF Typed, Touched
<1>2. live' \in [Node -> SUBSET Edit]
  BY <1>1 DEF Publish, Typed, StoreTyped
<1>3. ver' \in [Node -> Nat]
  BY DEF Publish, Typed, StoreTyped
<1>4. /\ epoch' \in Nat /\ epoch' > epoch /\ epoch \in Nat /\ setup' = setup /\ parent' = parent /\ amid' = amid
      /\ replica' = replica /\ current' = current
  BY DEF Publish, Typed, StoreTyped, tower
<1>5. \A x \in Replica : replica[x].epoch \in Nat
  BY DEF Typed, ShadowTyped, Shadow
<1> QED BY <1>2, <1>3, <1>4, <1>5 DEF Typed, StoreTyped, ShadowTyped

\* The lock of the tree, the replica and the callback.
LEMMA TypedEnters ==
    ASSUME Typed, NEW c \in Client,
           \/ \E r \in setup.root[c] : UpdateWithin(c, r)
           \/ UpdateByEngine(c) \/ EnterTower(c) \/ ReadOwner(c) \/ LockTree(c)
           \/ LoadReplica(c) \/ LoadStaleReplica(c) \/ FindRebuilt(c) \/ LockRebuild(c) \/ Rebuild(c)
    PROVE  Typed'
<1> USE DEF store, tower
<1>0. /\ StoreTyped /\ ShadowTyped /\ LocksTyped /\ CallsTyped /\ call[c] \in Locals
      /\ setup.root[c] \subseteq Node
      /\ pc[c] \in Busy => call[c].root \in setup.root[c]
  BY LocalTypes, Settings DEF Typed, StoreTyped, CallsTyped
<1>1. ASSUME NEW r \in setup.root[c], UpdateWithin(c, r) PROVE Typed'
  <2> DEFINE l == [call[c] EXCEPT !.root = r]
  <2>1. l \in Locals /\ l.root = r
    BY <1>0, <1>1 DEF Locals
  <2>2. /\ pc' = [pc EXCEPT ![c] = "enter"] /\ call' = [call EXCEPT ![c] = l]
        /\ UNCHANGED <<store, tower, writeLock, rebuildMu>>
    BY <1>1 DEF UpdateWithin, Goto
  <2> HIDE DEF l
  <2>3. CallsTyped'
    BY <1>0, <1>1, <2>1, <2>2, CallStep DEF Places, Busy, InTower, WithReplica
  <2> QED BY <1>0, <2>2, <2>3 DEF Typed, StoreTyped, ShadowTyped, LocksTyped
<1>2. CASE UpdateByEngine(c)
  <2>1. pc[c] = "enter"
    BY <1>2 DEF UpdateByEngine
  <2>2. call[c].root \in Node
    BY <1>0, <2>1 DEF Busy
  <2>3. PICK kind \in Kind :
           /\ EngineCommit(c, call[c].root, kind)
           /\ call' = [call EXCEPT ![c] = [Idle EXCEPT !.wrote = {<<call[c].root, kind>>},
                                                       !.declared = {call[c].root}]]
    BY <1>2 DEF UpdateByEngine
  <2> DEFINE l == [Idle EXCEPT !.wrote = {<<call[c].root, kind>>}, !.declared = {call[c].root}]
  <2>5. l \in Locals
    <3>1. {<<call[c].root, kind>>} \in SUBSET (Node \X Kind) /\ {call[c].root} \in SUBSET Node
      BY <2>2
    <3> QED BY <3>1, IdleTyped
  <2>6. /\ pc' = [pc EXCEPT ![c] = "ok"] /\ call' = [call EXCEPT ![c] = l]
        /\ UNCHANGED <<setup, parent, replica, current, writeLock, rebuildMu>>
    BY <1>2, <2>3 DEF UpdateByEngine, Goto
  <2> HIDE DEF l
  <2>7. CallsTyped'
    BY <1>0, <2>5, <2>6, CallStep DEF Places, Busy, InTower, WithReplica
  <2>8. StoreTyped' /\ ShadowTyped'
    BY <1>0, <2>2, <2>3, <2>6, EngineTyped DEF StoreTyped
  <2> QED BY <1>0, <2>6, <2>7, <2>8 DEF Typed, LocksTyped
<1>3. CASE EnterTower(c) \/ LoadStaleReplica(c) \/ LockRebuild(c) \/ LockTree(c)
  <2>1. PICK p \in {"owner", "rebuild", "graph", "load"} :
           pc' = [pc EXCEPT ![c] = p] /\ call' = call /\ UNCHANGED <<store, tower>>
    BY <1>3 DEF EnterTower, LoadStaleReplica, LockRebuild, LockTree, Goto
  <2>2. pc[c] \in Busy
    BY <1>3 DEF EnterTower, LoadStaleReplica, LockRebuild, LockTree, Busy, InTower
  <2>3. CallsTyped'
    BY <1>0, <2>1, <2>2, MoveStep DEF Places, Busy, InTower, WithReplica
  <2>4. writeLock' \in [Node -> Client \cup {Nobody}]
    BY <1>0, <1>3 DEF EnterTower, LoadStaleReplica, LockRebuild, LockTree, LocksTyped
  <2>5. rebuildMu' \in Client \cup {Nobody}
    BY <1>0, <1>3 DEF EnterTower, LoadStaleReplica, LockRebuild, LockTree, LocksTyped
  <2> QED BY <1>0, <2>1, <2>3, <2>4, <2>5 DEF Typed, StoreTyped, ShadowTyped, LocksTyped
<1>4. CASE ReadOwner(c)
  <2>1. pc[c] = "owner" /\ UNCHANGED <<store, tower, rebuildMu>>
    BY <1>4 DEF ReadOwner
  <2>2. call[c].root \in setup.root[c] /\ call[c].root \in Node
    BY <1>0, <2>1 DEF Busy
  <2> DEFINE owner == OwnershipRoot(call[c].root)
             l == [call[c] EXCEPT !.owner = owner]
  <2>3. owner \in Node
    BY <1>0, <2>2, TopLevel DEF StoreTyped
  <2>4. pc' = [pc EXCEPT ![c] = "lock"] /\ call' = [call EXCEPT ![c] = l]
    BY <1>4 DEF ReadOwner, Goto
  <2>5. writeLock' = writeLock \/ writeLock' = Unlocked(c)
    BY <1>4 DEF ReadOwner
  <2> HIDE DEF owner
  <2>6. l \in Locals /\ l.root = call[c].root
    BY <1>0, <2>3 DEF Locals
  <2> HIDE DEF l
  <2>7. CallsTyped'
    BY <1>0, <2>1, <2>2, <2>4, <2>6, CallStep DEF Places, Busy, InTower, WithReplica
  <2>8. writeLock' \in [Node -> Client \cup {Nobody}]
    BY <1>0, <2>5 DEF Unlocked, LocksTyped
  <2> QED BY <1>0, <2>1, <2>7, <2>8 DEF Typed, StoreTyped, ShadowTyped, LocksTyped
<1>5. CASE LoadReplica(c) \/ FindRebuilt(c)
  <2>1. /\ pc[c] \in {"load", "rebuild"} /\ Synced(current) /\ StartCallback(c, current)
        /\ UNCHANGED <<store, tower, writeLock, rebuildMu>>
    BY <1>5 DEF LoadReplica, FindRebuilt
  <2>2. current \in Replica
    BY <1>0, <2>1 DEF ShadowTyped, Synced
  <2>3. CallsTyped'
    BY <2>1, <2>2, StartTyped DEF Busy, InTower
  <2> QED BY <1>0, <2>1, <2>3 DEF Typed, StoreTyped, ShadowTyped, LocksTyped
<1>6. CASE Rebuild(c)
  <2> DEFINE x == IF current = NoReplica THEN Unused ELSE current
  <2>1. /\ pc[c] = "graph" /\ current' = x /\ StartCallback(c, x) /\ rebuildMu' = Nobody
        /\ replica' = [replica EXCEPT ![x] = IF current = NoReplica THEN Copy ELSE Refreshed(x)]
        /\ UNCHANGED <<store, writeLock>>
    BY <1>6 DEF Rebuild
  <2>2. x \in Replica
    BY <1>0, SpareReplica DEF ShadowTyped
  <2> HIDE DEF x
  <2>3. CallsTyped'
    BY <2>1, <2>2, StartTyped DEF Busy, InTower
  <2>4. \A s \in SUBSET Edit : Relations(s) \in SUBSET Edit
    BY DEF Relations, Fields
  <2>5. Copy \in Shadow /\ Copy.epoch = epoch
    BY <1>0, <2>4 DEF Copy, Shadow, StoreTyped
  <2>6. Refreshed(x) \in Shadow /\ Refreshed(x).epoch = epoch
    <3>1. replica[x].base \in [Node -> SUBSET Edit]
      BY <1>0, <2>2 DEF ShadowTyped, Shadow
    <3>2. \A n \in Node : Relations(live[n]) \in SUBSET Edit /\ replica[x].base[n] \in SUBSET Edit
      BY <1>0, <2>4, <3>1 DEF StoreTyped
    <3> QED BY <1>0, <3>2 DEF Refreshed, Shadow, StoreTyped
  <2>7. ShadowTyped'
    BY <1>0, <2>1, <2>2, <2>5, <2>6 DEF ShadowTyped, StoreTyped
  <2> QED BY <1>0, <2>1, <2>3, <2>7 DEF Typed, StoreTyped, LocksTyped
<1> QED BY <1>1, <1>2, <1>3, <1>4, <1>5, <1>6

\* The rows a diff looks at, and what it finds.
LEMMA ScopeTyped ==
    ASSUME Typed, NEW c \in Client, pc[c] \in Busy
    PROVE  Scope(c) \subseteq Node /\ Branch(call[c].root) \subseteq Node /\ Changed(c, Scope(c)) \in SUBSET (Node \X Kind)
<1>1. call[c].root \in Node /\ call[c].declared \subseteq Node
  BY LocalTypes, Settings DEF Typed, StoreTyped, CallsTyped
<1>2. Branch(call[c].root) \subseteq Node
  BY <1>1, TopLevel DEF Typed, StoreTyped
<1>3. Scope(c) \subseteq Node
  BY <1>1, <1>2 DEF Scope
<1>4. Changed(c, Scope(c)) \subseteq Scope(c) \X Kind
  BY DEF Changed
<1> QED BY <1>2, <1>3, <1>4

\* The callback writes.
LEMMA TypedWrites ==
    ASSUME Typed, NEW c \in Client, NEW n \in Node, NEW kind \in Kind, Write(c, n, kind) \/ WriteUndeclared(c, n, kind)
    PROVE  Typed'
<1> USE DEF store, tower
<1>0. StoreTyped /\ ShadowTyped /\ LocksTyped /\ CallsTyped /\ call[c] \in Locals
  BY LocalTypes DEF Typed
<1> DEFINE x == call[c].rep
           l == call'[c]
<1>1. /\ pc[c] = "callback" /\ UNCHANGED <<store, current, writeLock, rebuildMu, pc>>
      /\ replica' = [replica EXCEPT ![x].rows[n] = @ \cup {<<c, kind>>}]
  BY DEF Write, WriteUndeclared, WriteShadow
<1>2. PICK d \in {call[c].declared, call[c].declared \cup {n}} :
         call' = [call EXCEPT ![c] = [call[c] EXCEPT !.wrote = @ \cup {<<n, kind>>}, !.declared = d]]
  <2>1. CASE Write(c, n, kind)
    <3>1. call' = [call EXCEPT ![c] = [call[c] EXCEPT !.wrote = @ \cup {<<n, kind>>}, !.declared = @ \cup {n}]]
      BY <1>0, <2>1 DEF Write, Locals, CallsTyped
    <3> QED BY <3>1
  <2>2. CASE WriteUndeclared(c, n, kind)
    <3>1. call' = [call EXCEPT ![c] = [call[c] EXCEPT !.wrote = @ \cup {<<n, kind>>}]]
      BY <2>2 DEF WriteUndeclared
    <3>2. [call[c] EXCEPT !.wrote = @ \cup {<<n, kind>>}]
            = [call[c] EXCEPT !.wrote = @ \cup {<<n, kind>>}, !.declared = call[c].declared]
      BY <1>0 DEF Locals
    <3> QED BY <3>1, <3>2
  <2> QED BY <2>1, <2>2
<1>3. x \in Replica /\ call[c].root \in setup.root[c]
  BY <1>0, <1>1 DEF CallsTyped, WithReplica, Busy, InTower
<1>4. CallsTyped'
  <2> DEFINE m == [call[c] EXCEPT !.wrote = @ \cup {<<n, kind>>}, !.declared = d]
  <2>1. call[c].declared \in SUBSET Node /\ call[c].wrote \in SUBSET (Node \X Kind)
    BY <1>0, LocalTypes
  <2>2. d \in SUBSET Node /\ call[c].wrote \cup {<<n, kind>>} \in SUBSET (Node \X Kind)
    BY <2>1
  <2>3. m \in Locals /\ m.rep = x /\ m.root = call[c].root
    BY <1>0, <2>2 DEF Locals
  <2>4. call' = [call EXCEPT ![c] = m]
    BY <1>2
  <2>5. pc' = [pc EXCEPT ![c] = "callback"] /\ setup' = setup
    BY <1>0, <1>1 DEF CallsTyped
  <2> HIDE DEF m
  <2> QED BY <1>0, <1>3, <2>3, <2>4, <2>5, CallStep DEF Places, Busy, InTower, WithReplica
<1>5. ShadowTyped'
  <2> DEFINE y == [replica[x] EXCEPT !.rows[n] = @ \cup {<<c, kind>>}]
  <2>1. replica[x] \in Shadow /\ <<c, kind>> \in Edit
    BY <1>0, <1>3 DEF ShadowTyped, Edit
  <2>2. y \in Shadow /\ y.epoch = replica[x].epoch
    BY <2>1 DEF Shadow
  <2>3. replica' = [replica EXCEPT ![x] = y]
    BY <1>1
  <2> HIDE DEF x, y
  <2> QED BY <1>0, <1>1, <1>3, <2>2, <2>3 DEF ShadowTyped
<1> QED BY <1>0, <1>1, <1>4, <1>5 DEF Typed, StoreTyped, LocksTyped

ChangedRows(c) == {f[1] : f \in call[c].fields}

\* The copies that Materialize makes, and the versions it notes.
Patched(c) ==
    [n \in ChangedRows(c) |->
        UNION {Fields(IF <<n, kind>> \in call[c].fields THEN replica[call[c].rep].rows[n] ELSE live[n],
                      kind) : kind \in Kind}]
Versions(c) == [n \in ChangedRows(c) |-> ver[n]]
Relational(c) == \E n \in ChangedRows(c) : Relations(Patched(c)[n]) # Relations(live[n])

\* What Materialize does, in these terms.
LEMMA Materialized ==
    ASSUME Typed, NEW c \in Client, Materialize(c)
    PROVE  /\ pc[c] = "materialize" /\ UNCHANGED <<store, tower, writeLock, rebuildMu>>
           /\ pc' = [pc EXCEPT ![c] = IF Relational(c) THEN "relation" ELSE "commit"]
           /\ call' = [call EXCEPT ![c] = [call[c] EXCEPT !.work = Patched(c), !.fields = {}, !.seen = Versions(c)]]
BY DEF Materialize, Patched, Versions, ChangedRows, Relational, Goto

\* Copies are rows.
LEMMA PatchedTyped ==
    ASSUME Typed, NEW c \in Client, call[c].rep \in Replica
    PROVE  /\ ChangedRows(c) \in SUBSET Node /\ Patched(c) \in [ChangedRows(c) -> SUBSET Edit]
           /\ Versions(c) \in [ChangedRows(c) -> Nat]
<1>1. ChangedRows(c) \in SUBSET Node
  BY LocalTypes DEF Typed, ChangedRows
<1>2. replica[call[c].rep].rows \in [Node -> SUBSET Edit] /\ live \in [Node -> SUBSET Edit] /\ ver \in [Node -> Nat]
  BY DEF Typed, ShadowTyped, StoreTyped, Shadow
<1>3. ASSUME NEW n \in ChangedRows(c)
      PROVE  UNION {Fields(IF <<n, kind>> \in call[c].fields THEN replica[call[c].rep].rows[n] ELSE live[n],
                           kind) : kind \in Kind} \in SUBSET Edit
  BY <1>1, <1>2 DEF Fields
<1>4. Patched(c) \in [ChangedRows(c) -> SUBSET Edit]
  BY <1>3 DEF Patched
<1>5. Versions(c) \in [ChangedRows(c) -> Nat]
  BY <1>1, <1>2 DEF Versions
<1> QED BY <1>1, <1>4, <1>5

\* Callbacks end, are compared, and commit.
LEMMA TypedAttempts ==
    ASSUME Typed, NEW c \in Client,
           \/ CallbackFails(c) \/ CallbackEnds(c) \/ DiffFails(c) \/ DiffFindsNothing(c) \/ Diff(c) \/ Materialize(c)
           \/ CommitScalars(c) \/ ConflictScalars(c) \/ FailScalars(c) \/ CaptureEpochs(c)
           \/ CommitRelations(c) \/ RetireAfterRelations(c)
    PROVE  Typed'
<1> USE DEF store, tower
<1>0. /\ StoreTyped /\ ShadowTyped /\ LocksTyped /\ CallsTyped /\ call[c] \in Locals /\ epoch \in Nat
      /\ pc[c] \in Busy => call[c].root \in setup.root[c] /\ call[c].root \in Node
      /\ pc[c] \in WithReplica => call[c].rep \in Replica
      /\ Retired(call[c].rep) \in Replica \cup {NoReplica} /\ current \in Replica \cup {NoReplica}
      /\ call[c].then \in {"ok", "owner", "failed"}
  BY LocalTypes, Settings, RetiredTyped DEF Typed, StoreTyped, CallsTyped, ShadowTyped
<1>1. ASSUME NEW p \in {"ok", "failed"}, Return(c, p), NEW cur \in Replica \cup {NoReplica}, LetGo(c, cur),
             UNCHANGED <<store, rebuildMu>>
      PROVE  Typed'
  <2>1. CallsTyped' /\ writeLock' \in [Node -> Client \cup {Nobody}]
    BY <1>1, ReturnTyped
  <2>2. ShadowTyped'
    BY <1>0, <1>1, LetGoTyped
  <2> QED BY <1>0, <1>1, <2>1, <2>2 DEF Typed, StoreTyped, LocksTyped
<1>2. CASE CallbackFails(c) \/ DiffFails(c) \/ FailScalars(c)
  BY <1>0, <1>1, <1>2 DEF CallbackFails, DiffFails, FailScalars
<1>3. CASE DiffFindsNothing(c)
  BY <1>0, <1>1, <1>3 DEF DiffFindsNothing
<1>4. ASSUME Retry(c), LetGo(c, Retired(call[c].rep)), UNCHANGED <<store, writeLock, rebuildMu>>, pc[c] \in Busy
      PROVE  Typed'
  <2>1. CallsTyped'
    BY <1>4, RetryTyped
  <2>2. ShadowTyped'
    BY <1>0, <1>4, LetGoTyped
  <2> QED BY <1>0, <1>4, <2>1, <2>2 DEF Typed, StoreTyped, LocksTyped
<1>5. CASE CallbackEnds(c)
  <2>1. CASE Synced(call[c].rep)
    <3>1. /\ pc[c] = "callback" /\ pc' = [pc EXCEPT ![c] = "diff"] /\ call' = call
          /\ UNCHANGED <<store, tower, writeLock, rebuildMu>>
      BY <1>5, <2>1 DEF CallbackEnds, Goto
    <3>2. CallsTyped'
      BY <1>0, <3>1, MoveStep DEF Places, Busy, InTower, WithReplica
    <3> QED BY <1>0, <3>1, <3>2 DEF Typed, StoreTyped, ShadowTyped, LocksTyped
  <2>2. CASE ~Synced(call[c].rep)
    BY <1>4, <1>5, <2>2 DEF CallbackEnds, Busy, InTower, WithReplica
  <2> QED BY <2>1, <2>2
<1>6. CASE Diff(c)
  <2> DEFINE l == [call[c] EXCEPT !.fields = Changed(c, Scope(c))]
  <2>1. /\ pc[c] = "diff" /\ pc' = [pc EXCEPT ![c] = "materialize"] /\ call' = [call EXCEPT ![c] = l]
        /\ UNCHANGED <<store, tower, writeLock, rebuildMu>>
    BY <1>6 DEF Diff, Goto
  <2>2. Changed(c, Scope(c)) \in SUBSET (Node \X Kind)
    BY <2>1, ScopeTyped DEF Busy, InTower, WithReplica
  <2>3. l \in Locals /\ l.rep = call[c].rep /\ l.root = call[c].root
    BY <1>0, <2>2 DEF Locals
  <2> HIDE DEF l
  <2>4. CallsTyped'
    BY <1>0, <2>1, <2>3, CallStep DEF Places, Busy, InTower, WithReplica
  <2> QED BY <1>0, <2>1, <2>4 DEF Typed, StoreTyped, ShadowTyped, LocksTyped
<1>7. CASE Materialize(c)
  <2> DEFINE l == [call[c] EXCEPT !.work = Patched(c), !.fields = {}, !.seen = Versions(c)]
  <2>1. /\ pc[c] = "materialize" /\ pc' = [pc EXCEPT ![c] = IF Relational(c) THEN "relation" ELSE "commit"]
        /\ call' = [call EXCEPT ![c] = l] /\ UNCHANGED <<store, tower, writeLock, rebuildMu>>
    BY <1>7, Materialized
  <2>2. /\ Patched(c) \in UNION {[D -> SUBSET Edit] : D \in SUBSET Node}
        /\ Versions(c) \in UNION {[D -> Nat] : D \in SUBSET Node}
    BY <1>0, <2>1, PatchedTyped DEF WithReplica
  <2>3. l \in Locals /\ l.rep = call[c].rep /\ l.root = call[c].root
    BY <1>0, <2>2 DEF Locals
  <2> HIDE DEF l
  <2>4. CallsTyped'
    BY <1>0, <2>1, <2>3, CallStep DEF Places, Busy, InTower, WithReplica
  <2> QED BY <1>0, <2>1, <2>4 DEF Typed, StoreTyped, ShadowTyped, LocksTyped
<1>8. CASE CommitScalars(c)
  <2>1. /\ pc[c] = "commit" /\ Publish(c) /\ pc' = [pc EXCEPT ![c] = "capture"] /\ call' = call
        /\ UNCHANGED <<tower, writeLock, rebuildMu>>
    BY <1>8 DEF CommitScalars, Goto
  <2>2. StoreTyped' /\ ShadowTyped' /\ setup' = setup
    BY <2>1, PublishTyped
  <2>3. CallsTyped'
    BY <1>0, <2>1, <2>2, MoveStep DEF Places, Busy, InTower, WithReplica
  <2> QED BY <1>0, <2>1, <2>2, <2>3 DEF Typed, LocksTyped
<1>9. CASE ConflictScalars(c)
  <2> DEFINE l == [Idle EXCEPT !.root = call[c].root]
  <2>1. /\ pc[c] = "commit" /\ LetGo(c, Retired(call[c].rep)) /\ writeLock' = Unlocked(c)
        /\ pc' = [pc EXCEPT ![c] = "enter"] /\ call' = [call EXCEPT ![c] = l] /\ UNCHANGED <<store, rebuildMu>>
    BY <1>9 DEF ConflictScalars, Goto
  <2>2. l \in Locals /\ l.root = call[c].root
    BY <1>0, <2>1, IdleTyped DEF Busy, InTower, WithReplica
  <2> HIDE DEF l
  <2>3. CallsTyped'
    BY <1>0, <2>1, <2>2, CallStep DEF Places, Busy, InTower, WithReplica
  <2>4. ShadowTyped'
    BY <1>0, <2>1, LetGoTyped
  <2>5. writeLock' \in [Node -> Client \cup {Nobody}]
    BY <1>0, <2>1 DEF Unlocked, LocksTyped
  <2> QED BY <1>0, <2>1, <2>3, <2>4, <2>5 DEF Typed, StoreTyped, LocksTyped
<1>10. CASE CaptureEpochs(c)
  <2>1. /\ pc[c] = "capture" /\ replica' = [replica EXCEPT ![call[c].rep].epoch = epoch] /\ Return(c, "ok")
        /\ UNCHANGED <<store, current, rebuildMu>>
    BY <1>10 DEF CaptureEpochs
  <2>2. CallsTyped' /\ writeLock' \in [Node -> Client \cup {Nobody}]
    BY <2>1, ReturnTyped
  <2>3. ShadowTyped'
    <3> DEFINE y == [replica[call[c].rep] EXCEPT !.epoch = epoch]
    <3>1. y \in Shadow /\ y.epoch = epoch
      BY <1>0, <2>1 DEF ShadowTyped, Shadow, WithReplica
    <3>2. replica' = [replica EXCEPT ![call[c].rep] = y]
      BY <2>1
    <3> HIDE DEF y
    <3>3. replica' \in [Replica -> Shadow] /\ \A x \in Replica : replica'[x] = replica[x] \/ replica'[x] = y
      BY <1>0, <3>1, <3>2 DEF ShadowTyped
    <3> QED BY <1>0, <2>1, <3>1, <3>3 DEF ShadowTyped
  <2> QED BY <1>0, <2>1, <2>2, <2>3 DEF Typed, StoreTyped, LocksTyped
<1>11. CASE CommitRelations(c)
  <2>1. pc[c] = "relation" /\ pc' = [pc EXCEPT ![c] = "retire"] /\ UNCHANGED <<tower, writeLock, rebuildMu>>
    BY <1>11 DEF CommitRelations, Goto
  <2>2. PICK t \in {"ok", "owner", "failed"} : call' = [call EXCEPT ![c] = [call[c] EXCEPT !.then = t]]
    BY <1>11 DEF CommitRelations
  <2>3. StoreTyped' /\ ShadowTyped' /\ setup' = setup
    BY <1>0, <1>11, <2>1, PublishTyped DEF CommitRelations, StoreTyped, ShadowTyped
  <2> DEFINE l == [call[c] EXCEPT !.then = t]
  <2>4. l \in Locals /\ l.rep = call[c].rep /\ l.root = call[c].root
    BY <1>0 DEF Locals
  <2>5. call' = [call EXCEPT ![c] = l]
    BY <2>2
  <2> HIDE DEF l
  <2>6. CallsTyped'
    BY <1>0, <2>1, <2>3, <2>4, <2>5, CallStep DEF Places, Busy, InTower, WithReplica
  <2> QED BY <1>0, <2>1, <2>3, <2>6 DEF Typed, LocksTyped
<1>12. CASE RetireAfterRelations(c)
  <2>1. CASE call[c].then = "owner"
    BY <1>4, <1>12, <2>1 DEF RetireAfterRelations, Busy, InTower, WithReplica
  <2>2. CASE call[c].then # "owner"
    BY <1>0, <1>1, <1>12, <2>2 DEF RetireAfterRelations
  <2> QED BY <2>1, <2>2
<1> QED BY <1>2, <1>3, <1>5, <1>6, <1>7, <1>8, <1>9, <1>10, <1>11, <1>12

\* A commit outside Tower.
LEMMA TypedOutside ==
    ASSUME Typed, NEW e \in Outside, NEW n \in setup.rows, NEW kind \in Kind, CommitOutside(e, n, kind)
    PROVE  Typed'
<1>1. n \in Node /\ setup.moves \subseteq Node \X Node
  BY Settings DEF Typed, StoreTyped
<1>2. /\ EngineCommit(e, n, kind) /\ UNCHANGED <<setup, tower, writeLock, rebuildMu, call>>
      /\ pc' = [pc EXCEPT ![e] = "ok"]
  BY DEF CommitOutside, Goto
<1>3. parent' \in [Node -> Node]
  BY <1>1 DEF CommitOutside, Typed, StoreTyped
<1>4. StoreTyped' /\ ShadowTyped'
  BY <1>1, <1>2, <1>3, EngineTyped DEF Typed
<1>5. CallsTyped'
  BY <1>2, TowerAssumption DEF Typed, CallsTyped, Places
<1> QED BY <1>2, <1>4, <1>5 DEF Typed, LocksTyped

\* Every step keeps the types.
LEMMA TypedStep == Typed /\ [Next]_vars => Typed'
<1> SUFFICES ASSUME Typed, [Next]_vars PROVE Typed'
  OBVIOUS
<1>1. CASE UNCHANGED vars \/ Terminating
  BY <1>1 DEF Terminating, vars, store, tower, Typed, StoreTyped, ShadowTyped, LocksTyped, CallsTyped
<1>2. ASSUME NEW c \in Client, NEW r \in setup.root[c], UpdateWithin(c, r) PROVE Typed'
  BY <1>2, TypedEnters
<1>3. ASSUME NEW c \in Client, Step(c) \/ CallbackFails(c) \/ FailScalars(c) PROVE Typed'
  BY <1>3, TypedEnters, TypedAttempts DEF Step
<1> QED BY <1>1, <1>2, <1>3, TypedWrites, TypedOutside DEF Next

\* The start is typed.
LEMMA TypedInit == Init => Typed
<1> SUFFICES ASSUME Init PROVE Typed
  OBVIOUS
<1>1. setup.parent \in [Node -> Node] /\ setup \in Setups
  BY Settings DEF Init
<1>2. Blank \in Shadow /\ Blank.epoch = 0
  BY DEF Blank, Shadow
<1>3. StoreTyped
  BY <1>1 DEF Init, StoreTyped
<1>4. ShadowTyped
  BY <1>2 DEF Init, ShadowTyped
<1>5. CallsTyped
  BY IdleTyped, TowerAssumption DEF Init, CallsTyped, Places, Busy, InTower, WithReplica
<1>6. LocksTyped
  BY DEF Init, LocksTyped
<1> QED BY <1>3, <1>4, <1>5, <1>6 DEF Typed

\* The types are an invariant.
LEMMA TypedInvariant == Spec => []Typed
BY TypedInit, TypedStep, PTL DEF Spec

\* Every variable of Tower has its type, no replica's epoch is ahead of the tables,
\* and there is always storage for a new replica.
THEOREM TypeCorrect == Spec => []TypeOK
<1>1. Typed => TypeOK
  <2> SUFFICES ASSUME Typed PROVE TypeOK
    OBVIOUS
  <2>1. ASSUME NEW x \in Replica
        PROVE  /\ replica[x].rows \in [Node -> SUBSET Edit] /\ replica[x].base \in [Node -> SUBSET Edit]
               /\ replica[x].epoch \in 0 .. epoch
    BY DEF Typed, StoreTyped, ShadowTyped, Shadow
  <2>2. \A c \in Client : call[c].rep \in Replica \cup {NoReplica}
    BY LocalTypes DEF Typed
  <2> QED BY <2>1, <2>2 DEF Typed, StoreTyped, ShadowTyped, LocksTyped, TypeOK
<1> QED BY <1>1, TypedInvariant, PTL

----------------------------------------------------------------------------
(* Updates of one tree *)

\* All updates are of branches in the tree of row o, which stays their top-level
\* owner; and tracked callbacks that write rows they do not declare are audited,
\* their root enclosing the tree.
OneTree(o) ==
    /\ \A c \in Client : \A r \in setup.root[c] : \A n \in Branch(r) : OwnershipRoot(n) = o
    /\ setup.undeclared =>
        /\ setup.audit
        /\ \A c \in Tracked : \A r \in setup.root[c] : \A n \in Node : OwnershipRoot(n) = o => n \in Branch(r)

\* The relations in a row, and its scalars but for those of some goroutines
Seen(row, hidden) == {e \in row : e[2] = "scalars" => e[1] \notin hidden}

\* What the callback of c has put into row n of the shadow
Own(c, n) == {<<c, kind>> : kind \in {k \in Kind : <<n, k>> \in call[c].wrote}}

\* c has published its rows.
Landed(c) == pc[c] \in {"capture", "ok"} \/ (pc[c] = "retire" /\ call[c].then = "ok")

\* c has returned, and a field of row n is one it wrote and declared.
Signed(c, n, kind) == pc[c] = "ok" /\ <<n, kind>> \in call[c].wrote /\ n \in call[c].declared

\* One goroutine at a time works in the tree, on the current replica.
HasTree(o, c) ==
    /\ pc[c] \in InTower => writeLock[o] = c /\ call[c].owner = o
    /\ pc[c] = "lock" => call[c].owner = o
    /\ pc[c] \in WithReplica => call[c].rep = current
    /\ c \in amid => pc[c] = "ok"

\* What is written is declared, or the audit is going to find it.
Declares(c) ==
    /\ pc[c] \in WithReplica =>
        /\ \A w \in call[c].wrote : w[1] \in call[c].declared \/ (setup.undeclared /\ c \in Tracked /\ w[1] # call[c].root)
        /\ \A n \in call[c].declared : \E w \in call[c].wrote : w[1] = n
    /\ pc[c] \in {"materialize", "commit", "relation", "capture", "retire"} =>
        \A w \in call[c].wrote : w[1] \in call[c].declared

\* The edits of c are in the rows when it has published them, and not before.
Lands(c) ==
    /\ \A n \in Node, kind \in Kind : <<c, kind>> \in live[n] =>
        <<n, kind>> \in call[c].wrote /\ n \in call[c].declared /\ Landed(c)
    /\ Landed(c) /\ c \notin amid =>
        \A w \in call[c].wrote : w[1] \in call[c].declared => <<c, w[2]>> \in live[w[1]]

\* The replica differs from the rows by the edits of the callback on it, and by
\* the commits of scalars it does not know of.
Differs(c) ==
    \A n \in Node : /\ Seen(replica[current].rows[n], amid) = Seen(live[n], amid) \cup Own(c, n)
                    /\ replica[current].base[n] = Relations(live[n])

\* The same of a replica without a callback on it
Agrees ==
    \A n \in Node : /\ Seen(replica[current].rows[n], amid) = Seen(live[n], amid)
                    /\ replica[current].base[n] = Relations(live[n])

\* The callback is on rows of the tree, and of its branch unless it is tracked.
InBranch(o, c) ==
    \A w \in call[c].wrote : OwnershipRoot(w[1]) = o /\ (c \notin Tracked => w[1] \in Branch(call[c].root))

\* While the replica is in step with the tables, and from the epoch check to the
\* commit whether it is or not, it is the rows and the edits of one callback.
Shadows(o, c) ==
    /\ pc[c] \in {"diff", "materialize", "commit"} \/ (pc[c] \in {"callback", "relation", "retire"} /\ Synced(current))
        => Differs(c) /\ InBranch(o, c)
    /\ pc[c] = "capture" => Agrees

\* An edit of c in the replica is of the callback on it, or one that c committed.
Traces(c) ==
    current # NoReplica =>
        \A n \in Node, kind \in Kind : <<c, kind>> \in replica[current].rows[n] =>
            <<n, kind>> \in call[c].wrote /\ (pc[c] \in WithReplica \/ Signed(c, n, kind))

\* The copies to commit are the rows with the edits of the callback, as long as
\* their versions are current, and scalars that somebody committed before.
Works(c) ==
    /\ pc[c] = "materialize" =>
        call[c].wrote \subseteq call[c].fields /\ \A f \in call[c].fields : f \in call[c].wrote \/ f[2] = "scalars"
    /\ pc[c] \in {"commit", "relation"} =>
        /\ \A w \in call[c].wrote : w[1] \in Touched(c)
        /\ \A n \in Touched(c) :
              /\ call[c].seen[n] \in Nat /\ call[c].seen[n] <= ver[n]
              /\ ver[n] = call[c].seen[n] => Seen(call[c].work[n], amid) = Seen(live[n], amid) \cup Own(c, n)
              /\ \A d \in Client, kind \in Kind : d # c /\ <<d, kind>> \in call[c].work[n] => Signed(d, n, kind)
    /\ pc[c] = "commit" => \A n \in Touched(c) : Relations(call[c].work[n]) = Relations(live[n])

\* A replica that nobody uses is a former state of the rows; in step with the
\* tables, it lacks no commit that it can know of.
AtRest ==
    (\A c \in Client : pc[c] \notin WithReplica) /\ current # NoReplica =>
        \A n \in Node : /\ replica[current].base[n] = Relations(replica[current].rows[n])
                        /\ Synced(current) => Seen(replica[current].rows[n], amid) = Seen(live[n], amid)

UpdateInv(o, c) == HasTree(o, c) /\ Declares(c) /\ Lands(c) /\ Shadows(o, c) /\ Traces(c) /\ Works(c)

TowerInv(o) ==
    /\ \A c \in Client : UpdateInv(o, c)
    /\ AtRest
    /\ \A e \in Outside \ amid : Stays(e)

ClientStep(c) ==
    \/ \E r \in setup.root[c] : UpdateWithin(c, r)
    \/ Step(c)
    \/ \E n \in Node, kind \in Kind : Write(c, n, kind) \/ WriteUndeclared(c, n, kind)
    \/ CallbackFails(c)
    \/ FailScalars(c)

OutsideStep(e) == \E n \in setup.rows, kind \in Kind : CommitOutside(e, n, kind)

\* A step of one goroutine leaves the calls of the others and their locks alone.
LEMMA ClientFrame ==
    ASSUME Typed, NEW d \in Client, ClientStep(d)
    PROVE  /\ setup' = setup
           /\ \A g \in Client \cup Outside : g # d => pc'[g] = pc[g]
           /\ \A c \in Client : c # d => call'[c] = call[c]
           /\ \A n \in Node : writeLock[n] \notin {d, Nobody} => writeLock'[n] = writeLock[n]
<1> USE DEF store, tower
<1>0. /\ pc \in [Client \cup Outside -> Places] /\ call \in [Client -> Locals]
      /\ writeLock \in [Node -> Client \cup {Nobody}]
  BY DEF Typed, CallsTyped, LocksTyped
<1>1. /\ setup' = setup /\ (pc' = pc \/ \E p : pc' = [pc EXCEPT ![d] = p])
      /\ call' = call \/ \E l : call' = [call EXCEPT ![d] = l]
      /\ \/ writeLock' = writeLock \/ writeLock' = Unlocked(d)
         \/ \A n \in Node : writeLock[n] \notin {d, Nobody} => writeLock'[n] = writeLock[n]
  <2>1. CASE \E r \in setup.root[d] : UpdateWithin(d, r)
    BY <2>1 DEF UpdateWithin, Goto
  <2>6. CASE UpdateByEngine(d)
    BY <2>6 DEF UpdateByEngine, Goto
  <2>7. CASE EnterTower(d)
    BY <2>7 DEF EnterTower, Goto
  <2>9. CASE ReadOwner(d)
    <3> DEFINE owner == OwnershipRoot(call[d].root)
    <3>1. /\ call' = [call EXCEPT ![d] = [call[d] EXCEPT !.owner = owner]]
          /\ writeLock' = IF owner \in Held(d) THEN writeLock ELSE Unlocked(d)
          /\ pc' = [pc EXCEPT ![d] = "lock"] /\ setup' = setup
      BY <2>9 DEF ReadOwner, Goto
    <3> HIDE DEF owner
    <3> QED BY <3>1
  <2>8. CASE LockTree(d)
    <3> DEFINE owner == call[d].owner
    <3>1. /\ writeLock[owner] \in {d, Nobody} /\ writeLock' = [writeLock EXCEPT ![owner] = d]
          /\ call' = call /\ pc' = [pc EXCEPT ![d] = "load"] /\ setup' = setup
      BY <2>8 DEF LockTree, Goto
    <3> HIDE DEF owner
    <3>2. \A n \in Node : writeLock[n] \notin {d, Nobody} => writeLock'[n] = writeLock[n]
      BY <1>0, <3>1
    <3>3. \E p : pc' = [pc EXCEPT ![d] = p]
      BY <3>1
    <3> QED BY <3>1, <3>2, <3>3
  <2>2. CASE LoadReplica(d) \/ LoadStaleReplica(d) \/ FindRebuilt(d) \/ LockRebuild(d) \/ Rebuild(d)
    BY <2>2 DEF LoadReplica, LoadStaleReplica, FindRebuilt, LockRebuild, Rebuild, StartCallback, Goto
  <2>3. CASE \E n \in Node, kind \in Kind : Write(d, n, kind) \/ WriteUndeclared(d, n, kind)
    BY <2>3 DEF Write, WriteUndeclared, WriteShadow
  <2>4. CASE CallbackFails(d) \/ CallbackEnds(d) \/ DiffFails(d) \/ DiffFindsNothing(d) \/ Diff(d) \/ Materialize(d)
    BY <2>4 DEF CallbackFails, CallbackEnds, DiffFails, DiffFindsNothing, Diff, Materialize, Return, Retry, Goto
  <2>5. CASE CommitScalars(d) \/ ConflictScalars(d) \/ FailScalars(d) \/ CaptureEpochs(d) \/ CommitRelations(d)
             \/ RetireAfterRelations(d)
    BY <2>5 DEF CommitScalars, ConflictScalars, FailScalars, CaptureEpochs, CommitRelations, RetireAfterRelations,
       Publish, Return, Retry, Goto
  <2> QED BY <2>1, <2>2, <2>3, <2>4, <2>5, <2>6, <2>7, <2>8, <2>9 DEF ClientStep, Step
<1>2. \A g \in Client \cup Outside : g # d => pc'[g] = pc[g]
  BY <1>0, <1>1
<1>3. \A c \in Client : c # d => call'[c] = call[c]
  BY <1>0, <1>1
<1>4. \A n \in Node : writeLock[n] \notin {d, Nobody} => writeLock'[n] = writeLock[n]
  BY <1>0, <1>1 DEF Unlocked
<1> QED BY <1>1, <1>2, <1>3, <1>4

\* At most one goroutine is in the tree.
LEMMA Alone ==
    ASSUME NEW o, TowerInv(o), NEW c \in Client, NEW d \in Client, pc[c] \in InTower, pc[d] \in InTower
    PROVE  c = d
BY DEF TowerInv, UpdateInv, HasTree

\* The edits of a callback and its copies, field by field.
LEMMA OwnEdits ==
    ASSUME NEW c, NEW n, NEW e
    PROVE  e \in Own(c, n) <=> \E kind \in Kind : e = <<c, kind>> /\ <<n, kind>> \in call[c].wrote
BY DEF Own

\* They are the goroutine's, and of the rows it wrote.
LEMMA OwnTyped ==
    ASSUME NEW c \in Client, NEW n
    PROVE  /\ Own(c, n) \in SUBSET Edit
           /\ \A e \in Own(c, n) : e[1] = c
           /\ (\A w \in call[c].wrote : w[1] # n) => Own(c, n) = {}
<1>1. ASSUME NEW e \in Own(c, n)
      PROVE  e \in Edit /\ e[1] = c /\ \E w \in call[c].wrote : w[1] = n
  <2>1. PICK kind \in Kind : e = <<c, kind>> /\ <<n, kind>> \in call[c].wrote
    BY OwnEdits
  <2>2. <<n, kind>>[1] = n
    OBVIOUS
  <2> QED BY <2>1, <2>2 DEF Edit
<1> QED BY <1>1

\* An edit of a goroutine that is not hidden is seen.
LEMMA SeenOwn ==
    ASSUME NEW X, NEW O, NEW hidden, NEW c, c \notin hidden, \A e \in O : e[1] = c
    PROVE  Seen(X \cup O, hidden) = Seen(X, hidden) \cup O
BY DEF Seen

\* Two rows agree but for a commit of scalars by g.
ButFor(g, Y, Z) == \A e \in Edit : e # <<g, "scalars">> => (e \in Z <=> e \in Y)

\* g joins the hidden goroutines.
Joins(g, hidden, more) == \A a : a \in more <=> a \in hidden \/ a = g

\* None of the edits is of g.
Foreign(g, O) == \A e \in O : e[1] # g

\* What is seen in two rows differs in the same way when they differ by scalars of
\* a goroutine that is hidden.
LEMMA SeenThrough ==
    ASSUME NEW X \in SUBSET Edit, NEW Y \in SUBSET Edit, NEW Z \in SUBSET Edit, NEW O \in SUBSET Edit,
           NEW hidden, NEW g, NEW more, Joins(g, hidden, more), ButFor(g, Y, Z), Foreign(g, O),
           Seen(X, hidden) = Seen(Y, hidden) \cup O
    PROVE  Seen(X, more) = Seen(Z, more) \cup O /\ Relations(Z) = Relations(Y)
<1> USE DEF Joins, ButFor, Foreign
<1>1. \A e \in Edit : e = <<e[1], e[2]>>
  BY DEF Edit
<1>2. ASSUME NEW e \in Edit PROVE e \in Seen(X, more) <=> e \in Seen(Z, more) \cup O
  <2>1. e \in Seen(X, more) <=> e \in Seen(X, hidden) /\ ~(e[2] = "scalars" /\ e[1] = g)
    BY DEF Seen
  <2>2. e \in Seen(X, hidden) <=> e \in Seen(Y, hidden) \/ e \in O
    OBVIOUS
  <2>3. e \in Seen(Z, more) <=> e \in Z /\ ~(e[2] = "scalars" /\ e[1] = g) /\ (e[2] = "scalars" => e[1] \notin hidden)
    BY DEF Seen
  <2>4. e \in Seen(Y, hidden) <=> e \in Y /\ (e[2] = "scalars" => e[1] \notin hidden)
    BY DEF Seen
  <2>5. ~(e[2] = "scalars" /\ e[1] = g) => (e \in Z <=> e \in Y)
    BY <1>1
  <2> QED BY <2>1, <2>2, <2>3, <2>4, <2>5
<1>3. Seen(X, more) \in SUBSET Edit /\ Seen(Z, more) \in SUBSET Edit
  BY DEF Seen
<1>4. Seen(X, more) = Seen(Z, more) \cup O
  BY <1>2, <1>3
<1>5. Relations(Z) = Relations(Y)
  <2>1. Relations(Z) \in SUBSET Edit /\ Relations(Y) \in SUBSET Edit
    BY DEF Relations, Fields
  <2>2. ASSUME NEW e \in Edit PROVE e \in Relations(Z) <=> e \in Relations(Y)
    <3>1. e[2] = "relations" => e # <<g, "scalars">>
      OBVIOUS
    <3> QED BY <3>1 DEF Relations, Fields
  <2> QED BY <2>1, <2>2
<1> QED BY <1>4, <1>5

\* All relations are seen.
LEMMA SeenRelations ==
    ASSUME NEW X, NEW Y, NEW O, NEW hidden, Seen(X, hidden) = Seen(Y, hidden) \cup O
    PROVE  Relations(X) = Relations(Y) \cup Relations(O)
<1>1. \A e : e \in X /\ e[2] = "relations" <=> e \in Seen(X, hidden) /\ e[2] = "relations"
  BY DEF Seen
<1>2. \A e : e \in Y /\ e[2] = "relations" <=> e \in Seen(Y, hidden) /\ e[2] = "relations"
  BY DEF Seen
<1> QED BY <1>1, <1>2 DEF Relations, Fields

\* In the next state, with the priming carried inside
LEMMA SeenNext ==
    ASSUME NEW c
    PROVE  /\ Differs(c)' <=>
                \A n \in Node :
                    /\ Seen(replica'[current'].rows[n], amid') = Seen(live'[n], amid') \cup Own(c, n)'
                    /\ replica'[current'].base[n] = Relations(live'[n])
           /\ Agrees' <=>
                \A n \in Node : /\ Seen(replica'[current'].rows[n], amid') = Seen(live'[n], amid')
                                /\ replica'[current'].base[n] = Relations(live'[n])
BY DEF Differs, Agrees, Seen, Relations, Fields

\* g adds edits of its own to rows and loses no commit that is seen, and the rows'
\* versions and the epoch move; what else comes back into a row was committed.
Grows(g) ==
    /\ amid \subseteq amid' /\ \A a \in amid' : a \in amid \/ a = g
    /\ \A n \in Node : /\ Seen(live[n], amid) \subseteq live'[n]
                       /\ (ver'[n] = ver[n] /\ live'[n] = live[n]) \/ ver'[n] = ver[n] + 1
    /\ \A c \in Client, n \in Node, kind \in Kind :
          c # g /\ <<c, kind>> \in live'[n] => <<c, kind>> \in live[n] \/ Signed(c, n, kind)
    /\ \/ live' = live /\ ver' = ver /\ parent' = parent /\ epoch' = epoch /\ amid' = amid
       \/ epoch' = epoch + 1

\* g commits scalars inside the attempt of another goroutine.
Hidden(g) ==
    /\ parent' = parent /\ \A a : a \in amid' <=> a \in amid \/ a = g
    /\ \A n \in Node, e \in Edit : e # <<g, "scalars">> => (e \in live'[n] <=> e \in live[n])

\* A commit of the engine is such a step.
LEMMA EngineGrows ==
    ASSUME Typed, NEW g \in Client \cup Outside, NEW n \in Node, NEW kind \in Kind, EngineCommit(g, n, kind)
    PROVE  /\ Grows(g) /\ epoch' = epoch + 1 /\ <<g, kind>> \in live'[n]
           /\ ~GraphFree => kind = "scalars"
           /\ GraphFree => amid' = amid
           /\ ~GraphFree /\ parent' = parent => Hidden(g)
<1>1. live \in [Node -> SUBSET Edit] /\ ver \in [Node -> Nat] /\ epoch \in Nat
  BY DEF Typed, StoreTyped
<1>2. \A m \in Node : /\ live'[m] = IF m = n THEN live[m] \cup {<<g, kind>>} ELSE live[m]
                      /\ ver'[m] = IF m = n THEN ver[m] + 1 ELSE ver[m]
  BY <1>1 DEF EngineCommit
<1>3. /\ epoch' = epoch + 1 /\ amid' = IF GraphFree THEN amid ELSE amid \cup {g}
      /\ ~GraphFree => kind = "scalars"
  BY DEF EngineCommit, Kind
<1>4. ASSUME NEW m \in Node
      PROVE  /\ Seen(live[m], amid) \subseteq live'[m]
             /\ (ver'[m] = ver[m] /\ live'[m] = live[m]) \/ ver'[m] = ver[m] + 1
  BY <1>2 DEF Seen
<1>5. ASSUME NEW c \in Client, NEW m \in Node, NEW k \in Kind, c # g, <<c, k>> \in live'[m]
      PROVE  <<c, k>> \in live[m]
  <2>1. <<c, k>> # <<g, kind>>
    BY <1>5
  <2> QED BY <1>2, <1>5, <2>1
<1>6. Grows(g)
  BY <1>3, <1>4, <1>5 DEF Grows
<1>7. ASSUME ~GraphFree, parent' = parent PROVE Hidden(g)
  BY <1>2, <1>3, <1>7 DEF Hidden
<1> QED BY <1>2, <1>3, <1>6, <1>7

\* What Tower publishes is such a step.
LEMMA PublishGrows ==
    ASSUME Typed, NEW c \in Client, pc[c] \in {"commit", "relation"}, c \notin amid, Works(c), Publish(c), Current(c)
    PROVE  /\ Grows(c) /\ epoch' = epoch + 1 /\ amid' = amid /\ parent' = parent
           /\ \A n \in Node : Seen(live'[n], amid') = Seen(live[n], amid) \cup Own(c, n)
           /\ \A n \in Touched(c) : live'[n] = call[c].work[n]
           /\ \A n \in Node : n \notin Touched(c) => live'[n] = live[n]
<1>1. Touched(c) \subseteq Node /\ \A w \in call[c].wrote : w[1] \in Touched(c)
  BY LocalTypes DEF Works, Touched, Typed
<1>2. /\ amid' = amid /\ parent' = parent /\ epoch' = epoch + 1
      /\ \A n \in Node : /\ live'[n] = IF n \in Touched(c) THEN call[c].work[n] ELSE live[n]
                         /\ ver'[n] = IF n \in Touched(c) THEN ver[n] + 1 ELSE ver[n]
  BY DEF Publish
<1>3. ASSUME NEW n \in Node PROVE Seen(live'[n], amid') = Seen(live[n], amid) \cup Own(c, n)
  <2>1. CASE n \in Touched(c)
    BY <1>2, <2>1 DEF Works, Current
  <2>2. CASE n \notin Touched(c)
    <3>1. Own(c, n) = {}
      BY <1>1, <2>2, OwnTyped
    <3> QED BY <1>2, <2>2, <3>1
  <2> QED BY <2>1, <2>2
<1>4. ASSUME NEW n \in Node
      PROVE  /\ Seen(live[n], amid) \subseteq live'[n]
             /\ (ver'[n] = ver[n] /\ live'[n] = live[n]) \/ ver'[n] = ver[n] + 1
  <2>1. Seen(live'[n], amid') \subseteq live'[n]
    BY DEF Seen
  <2>2. (ver'[n] = ver[n] /\ live'[n] = live[n]) \/ ver'[n] = ver[n] + 1
    BY <1>2
  <2> QED BY <1>3, <2>1, <2>2
<1>5. ASSUME NEW d \in Client, NEW n \in Node, NEW kind \in Kind, d # c, <<d, kind>> \in live'[n]
      PROVE  <<d, kind>> \in live[n] \/ Signed(d, n, kind)
  <2>1. CASE n \in Touched(c)
    BY <1>2, <1>5, <2>1 DEF Works
  <2>2. CASE n \notin Touched(c)
    BY <1>2, <1>5, <2>2
  <2> QED BY <2>1, <2>2
<1>6. Grows(c)
  BY <1>2, <1>4, <1>5 DEF Grows
<1>7. \A n \in Touched(c) : live'[n] = call[c].work[n]
  BY <1>1, <1>2
<1> QED BY <1>2, <1>3, <1>6, <1>7

\* A step that leaves the rows alone.
LEMMA NoGrowth ==
    ASSUME live' = live, ver' = ver, parent' = parent, epoch' = epoch, amid' = amid, NEW g
    PROVE  Grows(g)
BY DEF Grows, Seen

\* The steps outside the tree, by place.
LEMMA EntrySteps ==
    ASSUME NEW d \in Client, ClientStep(d), pc[d] \notin InTower
    PROVE  /\ (\E r \in setup.root[d] : UpdateWithin(d, r)) \/ UpdateByEngine(d) \/ EnterTower(d) \/ ReadOwner(d) \/ LockTree(d)
           /\ replica' = replica /\ current' = current /\ pc[d] # "ok"
<1>1. (\E r \in setup.root[d] : UpdateWithin(d, r)) \/ UpdateByEngine(d) \/ EnterTower(d) \/ ReadOwner(d) \/ LockTree(d)
  BY DEF ClientStep, Step, Write, WriteUndeclared, WriteShadow, CallbackFails, FailScalars, LoadReplica, LoadStaleReplica,
     FindRebuilt, LockRebuild, Rebuild, CallbackEnds, DiffFails, DiffFindsNothing, Diff, Materialize, CommitScalars,
     ConflictScalars, CaptureEpochs, CommitRelations, RetireAfterRelations, InTower, WithReplica
<1>2. replica' = replica /\ current' = current
  BY <1>1 DEF UpdateWithin, UpdateByEngine, EnterTower, ReadOwner, LockTree, tower
<1>3. pc[d] # "ok"
  BY <1>1 DEF UpdateWithin, UpdateByEngine, EnterTower, ReadOwner, LockTree
<1> QED BY <1>1, <1>2, <1>3

\* Every step of an update adds only its own edits, and it commits with graphMu to
\* itself, from the tree, or scalars that the attempt of another does not see.
LEMMA ClientGrows ==
    ASSUME NEW o, Typed, TowerInv(o), NEW d \in Client, ClientStep(d)
    PROVE  /\ Grows(d)
           /\ \/ live' = live /\ ver' = ver /\ parent' = parent /\ epoch' = epoch /\ amid' = amid
              \/ pc[d] \in {"enter", "relation"} /\ GraphFree /\ epoch' = epoch + 1
              \/ pc[d] = "enter" /\ Hidden(d) /\ epoch' = epoch + 1
              \/ pc[d] = "commit" /\ epoch' = epoch + 1
<1> USE DEF store
<1>0. Works(d) /\ (d \in amid => pc[d] = "ok")
  BY DEF TowerInv, UpdateInv, HasTree
<1>1. CASE live' = live /\ ver' = ver /\ parent' = parent /\ epoch' = epoch /\ amid' = amid
  BY <1>1, NoGrowth
<1>2. CASE UpdateByEngine(d)
  <2>1. PICK kind \in Kind : EngineCommit(d, call[d].root, kind)
    BY <1>2 DEF UpdateByEngine
  <2>2. pc[d] = "enter" /\ parent' = parent
    BY <1>2 DEF UpdateByEngine
  <2>3. call[d].root \in Node
    BY <2>2, Settings DEF Typed, StoreTyped, CallsTyped, Busy
  <2> QED BY <2>1, <2>2, <2>3, EngineGrows
<1>3. CASE CommitScalars(d)
  BY <1>0, <1>3, PublishGrows DEF CommitScalars
<1>4. CASE CommitRelations(d)
  <2>1. CASE Current(d) /\ Publish(d)
    BY <1>0, <1>4, <2>1, PublishGrows DEF CommitRelations
  <2>2. CASE UNCHANGED store
    BY <1>1, <2>2
  <2> QED BY <1>4, <2>1, <2>2 DEF CommitRelations
<1>5. CASE (\E r \in setup.root[d] : UpdateWithin(d, r)) \/ EnterTower(d) \/ ReadOwner(d) \/ LockTree(d)
           \/ LoadReplica(d) \/ LoadStaleReplica(d) \/ FindRebuilt(d) \/ LockRebuild(d) \/ Rebuild(d)
  BY <1>1, <1>5 DEF UpdateWithin, EnterTower, ReadOwner, LockTree, LoadReplica, LoadStaleReplica, FindRebuilt,
     LockRebuild, Rebuild
<1>6. CASE (\E n \in Node, kind \in Kind : Write(d, n, kind) \/ WriteUndeclared(d, n, kind))
           \/ CallbackFails(d) \/ CallbackEnds(d) \/ DiffFails(d) \/ DiffFindsNothing(d) \/ Diff(d) \/ Materialize(d)
           \/ ConflictScalars(d) \/ FailScalars(d) \/ CaptureEpochs(d) \/ RetireAfterRelations(d)
  BY <1>1, <1>6 DEF Write, WriteUndeclared, WriteShadow, CallbackFails, CallbackEnds, DiffFails, DiffFindsNothing,
     Diff, Materialize, ConflictScalars, FailScalars, CaptureEpochs, RetireAfterRelations
<1> QED BY <1>2, <1>3, <1>4, <1>5, <1>6 DEF ClientStep, Step

\* So does every commit outside Tower.
LEMMA OutsideGrows ==
    ASSUME Typed, NEW e \in Outside, OutsideStep(e)
    PROVE  /\ Grows(e) /\ (GraphFree \/ Hidden(e)) /\ epoch' = epoch + 1
           /\ UNCHANGED <<setup, replica, current, writeLock, call>>
           /\ \A c \in Client : pc'[c] = pc[c]
           /\ pc' = [pc EXCEPT ![e] = "ok"]
           /\ \E n \in Node, kind \in Kind : <<e, kind>> \in live'[n]
<1>1. PICK n \in setup.rows, kind \in Kind : CommitOutside(e, n, kind)
  BY DEF OutsideStep
<1>2. n \in Node
  BY Settings DEF Typed, StoreTyped
<1>3. /\ EngineCommit(e, n, kind) /\ UNCHANGED <<setup, tower, writeLock, call>> /\ pc' = [pc EXCEPT ![e] = "ok"]
      /\ parent' = parent \/ kind = "relations"
  BY <1>1 DEF CommitOutside, Goto
<1>4. \A c \in Client : pc'[c] = pc[c]
  BY <1>3, TowerAssumption DEF Typed, CallsTyped
<1>5. /\ Grows(e) /\ epoch' = epoch + 1 /\ <<e, kind>> \in live'[n]
      /\ ~GraphFree => kind = "scalars"
      /\ ~GraphFree /\ parent' = parent => Hidden(e)
  BY <1>2, <1>3, EngineGrows
<1>6. GraphFree \/ Hidden(e)
  BY <1>3, <1>5
<1> QED BY <1>2, <1>3, <1>4, <1>5, <1>6 DEF tower

\* Another goroutine's step, as one that is in the tree sees it: the replica stays,
\* and between the epoch check and the return the rows change by hidden commits only.
LEMMA OtherSteps ==
    ASSUME NEW o \in Node, Typed, TowerInv(o), NEW c \in Client, NEW g, g # c,
           (g \in Client /\ ClientStep(g)) \/ (g \in Outside /\ OutsideStep(g))
    PROVE  /\ pc'[c] = pc[c] /\ call'[c] = call[c] /\ setup' = setup /\ Grows(g)
           /\ pc[c] \in InTower =>
                /\ replica' = replica /\ current' = current /\ writeLock'[o] = writeLock[o]
                /\ \/ live' = live /\ ver' = ver /\ parent' = parent /\ epoch' = epoch /\ amid' = amid
                   \/ pc[c] \notin {"diff", "materialize", "commit", "capture"} /\ epoch' = epoch + 1
                   \/ Hidden(g) /\ epoch' = epoch + 1
<1>0. HasTree(o, c) /\ Nobody # c
  BY TowerAssumption DEF TowerInv, UpdateInv
<1>1. pc[c] \in {"diff", "materialize", "commit", "capture"} => ~GraphFree
  BY DEF GraphFree, GraphReaders
<1>2. CASE g \in Outside /\ OutsideStep(g)
  BY <1>1, <1>2, OutsideGrows
<1>3. CASE g \in Client /\ ClientStep(g)
  <2>1. setup' = setup /\ pc'[c] = pc[c] /\ call'[c] = call[c] /\ Grows(g)
    BY <1>3, ClientFrame, ClientGrows
  <2>2. ASSUME pc[c] \in InTower
        PROVE  /\ replica' = replica /\ current' = current /\ writeLock'[o] = writeLock[o]
               /\ \/ live' = live /\ ver' = ver /\ parent' = parent /\ epoch' = epoch /\ amid' = amid
                  \/ pc[c] \notin {"diff", "materialize", "commit", "capture"} /\ epoch' = epoch + 1
                  \/ Hidden(g) /\ epoch' = epoch + 1
    <3>1. pc[g] \notin InTower
      BY <1>3, <2>2, Alone
    <3>2. writeLock[o] = c
      BY <1>0, <2>2 DEF HasTree
    <3>3. writeLock'[o] = writeLock[o]
      BY <1>0, <1>3, <3>2, ClientFrame
    <3>4. pc[g] # "commit"
      BY <3>1 DEF InTower, WithReplica
    <3>5. replica' = replica /\ current' = current
      BY <1>3, <3>1, EntrySteps
    <3>6. \/ live' = live /\ ver' = ver /\ parent' = parent /\ epoch' = epoch /\ amid' = amid
          \/ GraphFree /\ epoch' = epoch + 1
          \/ Hidden(g) /\ epoch' = epoch + 1
      BY <1>3, <3>4, ClientGrows
    <3> QED BY <1>1, <3>3, <3>5, <3>6
  <2> QED BY <2>1, <2>2
<1> QED BY <1>2, <1>3

\* Owners and branches are those of the committed ownership.
LEMMA SameOwners ==
    ASSUME parent' = parent
    PROVE  \A n : OwnershipRoot(n)' = OwnershipRoot(n) /\ Branch(n)' = Branch(n)
<1>1. Up' = Up
  BY DEF Up
<1> QED BY <1>1 DEF OwnershipRoot, Branch

\* A goroutine with a replica has the current one.
LEMMA OnCurrent ==
    ASSUME NEW o, Typed, TowerInv(o), NEW c \in Client, pc[c] \in WithReplica
    PROVE  call[c].rep = current /\ current \in Replica /\ current # NoReplica
<1>1. call[c].rep = current /\ call[c].rep \in Replica
  BY DEF TowerInv, UpdateInv, HasTree, Typed, CallsTyped
<1>2. Cardinality(Client) + 1 \in Nat
  BY TowerAssumption, FS_CardinalityType
<1>3. NoReplica \notin Replica
  BY <1>2 DEF Replica, NoReplica
<1> QED BY <1>1, <1>3

\* Letting go of a replica leaves the one in tower.replica as it is.
LEMMA LetGoKeeps ==
    ASSUME NEW c \in Client, NEW cur, LetGo(c, cur), cur \in Replica
    PROVE  current' = cur /\ replica'[cur] = replica[cur]
BY DEF LetGo, Reachable

\* A step puts edits of others into the current replica only from the rows.
LEMMA ShadowSteps ==
    ASSUME NEW o, Typed, TowerInv(o), NEW d \in Client, ClientStep(d),
           NEW c \in Client, c # d, NEW n \in Node, NEW kind \in Kind,
           current' # NoReplica, <<c, kind>> \in replica'[current'].rows[n]
    PROVE  <<c, kind>> \in live[n] \/ (current # NoReplica /\ <<c, kind>> \in replica[current].rows[n])
<1> USE DEF tower
<1>0. replica \in [Replica -> Shadow] /\ current \in Replica \cup {NoReplica}
  BY DEF Typed, ShadowTyped
<1>1. CASE replica' = replica /\ current' = current
  BY <1>1
<1>2. CASE pc[d] \notin InTower
  BY <1>1, <1>2, EntrySteps
<1>3. CASE LoadReplica(d) \/ LoadStaleReplica(d) \/ FindRebuilt(d) \/ LockRebuild(d) \/ Diff(d) \/ Materialize(d)
           \/ CommitScalars(d) \/ CommitRelations(d)
  BY <1>1, <1>3 DEF LoadReplica, LoadStaleReplica, FindRebuilt, LockRebuild, Diff, Materialize, CommitScalars, CommitRelations
<1>4. CASE Rebuild(d)
  <2> DEFINE x == IF current = NoReplica THEN Unused ELSE current
             y == IF current = NoReplica THEN Copy ELSE Refreshed(x)
  <2>1. replica' = [replica EXCEPT ![x] = y] /\ current' = x
    BY <1>4 DEF Rebuild
  <2>2. x \in Replica
    BY <1>0, SpareReplica
  <2>3. y.rows = live
    BY DEF Copy, Refreshed
  <2> HIDE DEF x, y
  <2> QED BY <1>0, <2>1, <2>2, <2>3
<1>5. ASSUME NEW m \in Node, NEW k \in Kind, Write(d, m, k) \/ WriteUndeclared(d, m, k)
      PROVE  current # NoReplica /\ <<c, kind>> \in replica[current].rows[n]
  <2>1. /\ pc[d] = "callback" /\ current' = current
        /\ replica' = [replica EXCEPT ![call[d].rep].rows[m] = @ \cup {<<d, k>>}]
    BY <1>5 DEF Write, WriteUndeclared, WriteShadow
  <2>2. call[d].rep = current /\ current \in Replica /\ current # NoReplica
    BY <2>1, OnCurrent DEF WithReplica
  <2>3. replica'[current].rows[n] = IF n = m THEN replica[current].rows[n] \cup {<<d, k>>} ELSE replica[current].rows[n]
    BY <1>0, <2>1, <2>2 DEF Shadow
  <2>4. <<c, kind>> # <<d, k>>
    OBVIOUS
  <2> QED BY <2>1, <2>2, <2>3, <2>4
<1>6. ASSUME NEW cur, cur \in {current, NoReplica}, LetGo(d, cur)
      PROVE  current # NoReplica /\ <<c, kind>> \in replica[current].rows[n]
  <2>1. current' = cur
    BY <1>6 DEF LetGo
  <2>2. cur = current /\ cur \in Replica
    BY <1>0, <1>6, <2>1
  <2> QED BY <1>6, <2>1, <2>2, LetGoKeeps
<1>7. Retired(call[d].rep) \in {current, NoReplica}
  BY DEF Retired
<1>8. CASE CallbackFails(d) \/ DiffFails(d) \/ DiffFindsNothing(d) \/ ConflictScalars(d) \/ FailScalars(d)
           \/ RetireAfterRelations(d)
  BY <1>6, <1>7, <1>8 DEF CallbackFails, DiffFails, DiffFindsNothing, ConflictScalars, FailScalars, RetireAfterRelations
<1>9. CASE CallbackEnds(d)
  BY <1>1, <1>6, <1>7, <1>9 DEF CallbackEnds
<1>10. CASE CaptureEpochs(d)
  <2>1. /\ pc[d] = "capture" /\ current' = current
        /\ replica' = [replica EXCEPT ![call[d].rep].epoch = epoch]
    BY <1>10 DEF CaptureEpochs
  <2>2. call[d].rep = current /\ current \in Replica
    BY <2>1, OnCurrent DEF WithReplica
  <2>3. replica'[current].rows = replica[current].rows
    BY <1>0, <2>1, <2>2 DEF Shadow
  <2> QED BY <2>1, <2>3
<1> QED BY <1>2, <1>3, <1>4, <1>5, <1>8, <1>9, <1>10 DEF ClientStep, Step, UpdateWithin, UpdateByEngine, EnterTower,
       ReadOwner, LockTree, InTower, WithReplica

\* A goroutine that has returned takes no step.
LEMMA Finished == ASSUME NEW d \in Client, ClientStep(d) PROVE pc[d] # "ok"
BY DEF ClientStep, Step, UpdateWithin, UpdateByEngine, EnterTower, ReadOwner, LockTree, LoadReplica, LoadStaleReplica,
   FindRebuilt, LockRebuild, Rebuild, Write, WriteUndeclared, WriteShadow, CallbackFails, CallbackEnds, DiffFails,
   DiffFindsNothing, Diff, Materialize, CommitScalars, ConflictScalars, FailScalars, CaptureEpochs, CommitRelations,
   RetireAfterRelations

\* What is signed stays so.
LEMMA StaysSigned ==
    ASSUME Typed, NEW g, (g \in Client /\ ClientStep(g)) \/ (g \in Outside /\ OutsideStep(g)),
           NEW d \in Client, NEW n, NEW kind, Signed(d, n, kind)
    PROVE  Signed(d, n, kind)'
<1>1. pc'[d] = pc[d] /\ call'[d] = call[d]
  <2>1. CASE g \in Client /\ ClientStep(g)
    <3>1. d # g
      BY <2>1, Finished DEF Signed
    <3> QED BY <2>1, <3>1, ClientFrame
  <2>2. CASE g \in Outside /\ OutsideStep(g)
    BY <2>2, OutsideGrows
  <2> QED BY <2>1, <2>2
<1> QED BY <1>1 DEF Signed

\* The step of one goroutine keeps the types.
LEMMA TypedNext ==
    ASSUME Typed, NEW g, (g \in Client /\ ClientStep(g)) \/ (g \in Outside /\ OutsideStep(g))
    PROVE  Typed'
<1>1. Next
  BY DEF Next, ClientStep, OutsideStep
<1> QED BY <1>1, TypedStep

\* A replica whose epochs are those of before a commit is out of step.
LEMMA FallsBehind ==
    ASSUME Typed, replica' = replica, current' = current, epoch' = epoch + 1
    PROVE  ~Synced(current)'
<1>1. current \in Replica => replica[current].epoch \in Nat /\ replica[current].epoch <= epoch /\ epoch \in Nat
  BY DEF Typed, StoreTyped, ShadowTyped, Shadow
<1>2. current \in Replica \cup {NoReplica}
  BY DEF Typed, ShadowTyped
<1> QED BY <1>1, <1>2 DEF Synced

\* The replica of an attempt stays what it is while others commit: either it falls
\* behind, or the attempt is past its epoch check and the commits are hidden.
LEMMA OthersKeepShadow ==
    ASSUME NEW o \in Node, Typed, TowerInv(o), NEW c \in Client, NEW g, g # c,
           (g \in Client /\ ClientStep(g)) \/ (g \in Outside /\ OutsideStep(g))
    PROVE  Shadows(o, c)'
<1>0. Shadows(o, c) /\ WithReplica \subseteq InTower
  BY DEF TowerInv, UpdateInv, InTower
<1>1. /\ pc'[c] = pc[c] /\ call'[c] = call[c] /\ setup' = setup /\ Tracked' = Tracked
      /\ pc[c] \in InTower =>
                /\ replica' = replica /\ current' = current
                /\ \/ live' = live /\ ver' = ver /\ parent' = parent /\ epoch' = epoch /\ amid' = amid
                   \/ pc[c] \notin {"diff", "materialize", "commit", "capture"} /\ epoch' = epoch + 1
                   \/ Hidden(g) /\ epoch' = epoch + 1
  BY OtherSteps DEF Tracked
<1>2. \A n : Own(c, n)' = Own(c, n)
  BY <1>1 DEF Own
<1>3. CASE pc[c] \notin WithReplica
  BY <1>1, <1>3 DEF Shadows, WithReplica
<1>4. CASE pc[c] \in WithReplica /\ live' = live /\ parent' = parent /\ epoch' = epoch /\ amid' = amid
  <2>1. replica' = replica /\ current' = current /\ (Synced(current)' <=> Synced(current))
    BY <1>0, <1>1, <1>4 DEF Synced
  <2>2. Differs(c)' <=> Differs(c)
    BY <1>2, <1>4, <2>1, SeenNext DEF Differs
  <2>3. Agrees' <=> Agrees
    BY <1>4, <2>1, SeenNext DEF Agrees
  <2>4. InBranch(o, c)' <=> InBranch(o, c)
    BY <1>1, <1>4, SameOwners DEF InBranch
  <2> QED BY <1>0, <1>1, <2>1, <2>2, <2>3, <2>4 DEF Shadows
<1>5. CASE pc[c] \in {"callback", "relation", "retire"} /\ epoch' = epoch + 1
  <2>1. ~Synced(current)'
    BY <1>0, <1>1, <1>5, FallsBehind DEF WithReplica
  <2> QED BY <1>1, <1>5, <2>1 DEF Shadows
<1>6. CASE pc[c] \in {"diff", "materialize", "commit", "capture"} /\ Hidden(g)
  <2>1. replica' = replica /\ current' = current /\ parent' = parent /\ \A a : a \in amid' <=> a \in amid \/ a = g
    BY <1>0, <1>1, <1>6 DEF WithReplica, Hidden
  <2>2. replica[current].rows \in [Node -> SUBSET Edit]
    <3>1. current \in Replica
      BY <1>6, OnCurrent DEF WithReplica
    <3> QED BY <3>1 DEF Typed, ShadowTyped, Shadow
  <2>3. live \in [Node -> SUBSET Edit] /\ live' \in [Node -> SUBSET Edit]
    BY TypedNext DEF Typed, StoreTyped
  <2>4. ASSUME NEW n \in Node, NEW O \in SUBSET Edit, \A e \in O : e[1] # g,
               Seen(replica[current].rows[n], amid) = Seen(live[n], amid) \cup O
        PROVE  /\ Seen(replica[current].rows[n], amid') = Seen(live'[n], amid') \cup O
               /\ Relations(live'[n]) = Relations(live[n])
    <3> DEFINE X == replica[current].rows[n]
               Y == live[n]
               Z == live'[n]
               more == amid'
    <3>1. X \in SUBSET Edit /\ Y \in SUBSET Edit /\ Z \in SUBSET Edit
      BY <2>2, <2>3
    <3>2. ButFor(g, Y, Z) /\ Foreign(g, O)
      BY <1>6, <2>4 DEF Hidden, ButFor, Foreign
    <3>3. Joins(g, amid, more)
      BY <2>1 DEF Joins
    <3>4. Seen(X, amid) = Seen(Y, amid) \cup O
      BY <2>4
    <3> HIDE DEF X, Y, Z, more
    <3>5. Seen(X, more) = Seen(Z, more) \cup O /\ Relations(Z) = Relations(Y)
      BY <3>1, <3>2, <3>3, <3>4, SeenThrough
    <3> QED BY <3>5 DEF X, Y, Z, more
  <2>5. ASSUME Differs(c), InBranch(o, c) PROVE Differs(c)' /\ InBranch(o, c)'
    <3>1. ASSUME NEW n \in Node
          PROVE  /\ Seen(replica[current].rows[n], amid') = Seen(live'[n], amid') \cup Own(c, n)
                 /\ replica[current].base[n] = Relations(live'[n])
      <4>1. Own(c, n) \in SUBSET Edit /\ \A e \in Own(c, n) : e[1] # g
        BY OwnTyped
      <4> QED BY <2>4, <2>5, <4>1 DEF Differs
    <3>2. Differs(c)'
      BY <1>2, <2>1, <3>1, SeenNext
    <3>3. InBranch(o, c)'
      BY <1>1, <2>1, <2>5, SameOwners DEF InBranch
    <3> QED BY <3>2, <3>3
  <2>6. ASSUME Agrees PROVE Agrees'
    <3>1. ASSUME NEW n \in Node
          PROVE  /\ Seen(replica[current].rows[n], amid') = Seen(live'[n], amid')
                 /\ replica[current].base[n] = Relations(live'[n])
      <4> DEFINE O == {}
      <4>1. /\ O \in SUBSET Edit /\ \A e \in O : e[1] # g
            /\ Seen(replica[current].rows[n], amid) = Seen(live[n], amid) \cup O
        BY <2>6 DEF Agrees
      <4> HIDE DEF O
      <4>2. /\ Seen(replica[current].rows[n], amid') = Seen(live'[n], amid') \cup O
            /\ Relations(live'[n]) = Relations(live[n])
        BY <2>4, <4>1
      <4> QED BY <2>6, <4>2 DEF Agrees, O
    <3> QED BY <2>1, <3>1, SeenNext
  <2>7. CASE pc[c] = "capture"
    <3>1. Agrees'
      BY <1>0, <2>6, <2>7 DEF Shadows
    <3> QED BY <1>1, <2>7, <3>1 DEF Shadows
  <2>8. CASE pc[c] # "capture"
    <3>1. Differs(c)' /\ InBranch(o, c)'
      BY <1>0, <1>6, <2>5, <2>8 DEF Shadows
    <3> QED BY <1>1, <2>8, <3>1 DEF Shadows
  <2> QED BY <2>7, <2>8
<1> QED BY <1>0, <1>1, <1>3, <1>4, <1>5, <1>6 DEF WithReplica

\* So do the copies it is going to commit.
LEMMA OthersKeepWorks ==
    ASSUME NEW o \in Node, Typed, TowerInv(o), NEW c \in Client, NEW g, g # c,
           (g \in Client /\ ClientStep(g)) \/ (g \in Outside /\ OutsideStep(g))
    PROVE  Works(c)'
<1>0. Works(c)
  BY DEF TowerInv, UpdateInv
<1>1. /\ pc'[c] = pc[c] /\ call'[c] = call[c] /\ Grows(g)
      /\ pc[c] \in InTower =>
                \/ live' = live /\ ver' = ver /\ parent' = parent /\ epoch' = epoch /\ amid' = amid
                \/ pc[c] \notin {"diff", "materialize", "commit", "capture"} /\ epoch' = epoch + 1
                \/ Hidden(g) /\ epoch' = epoch + 1
  BY OtherSteps
<1>2. (\A n : Own(c, n)' = Own(c, n)) /\ Touched(c)' = Touched(c)
  BY <1>1 DEF Own, Touched
<1>3. CASE pc[c] \notin {"commit", "relation"}
  BY <1>0, <1>1, <1>3 DEF Works
<1>4. CASE pc[c] \in {"commit", "relation"}
  <2>1. /\ Touched(c) \in SUBSET Node /\ \A n \in Touched(c) : call[c].work[n] \in SUBSET Edit
        /\ live \in [Node -> SUBSET Edit] /\ live' \in [Node -> SUBSET Edit] /\ ver \in [Node -> Nat]
    BY LocalTypes, TypedNext DEF Touched, Typed, StoreTyped
  <2>2. ASSUME NEW n \in Touched(c)
        PROVE  /\ call[c].seen[n] \in Nat /\ call[c].seen[n] <= ver'[n]
               /\ ver'[n] = call[c].seen[n] => Seen(call[c].work[n], amid') = Seen(live'[n], amid') \cup Own(c, n)
               /\ \A d \in Client, kind \in Kind : d # c /\ <<d, kind>> \in call[c].work[n] => Signed(d, n, kind)'
    <3>1. /\ call[c].seen[n] \in Nat /\ call[c].seen[n] <= ver[n]
          /\ ver[n] = call[c].seen[n] => Seen(call[c].work[n], amid) = Seen(live[n], amid) \cup Own(c, n)
          /\ \A d \in Client, kind \in Kind : d # c /\ <<d, kind>> \in call[c].work[n] => Signed(d, n, kind)
      BY <1>0, <1>4 DEF Works
    <3>2. /\ (ver'[n] = ver[n] /\ live'[n] = live[n]) \/ ver'[n] = ver[n] + 1
          /\ n \in Node /\ ver[n] \in Nat
      BY <1>1, <2>1 DEF Grows
    <3>3. ASSUME ver'[n] = call[c].seen[n]
          PROVE  Seen(call[c].work[n], amid') = Seen(live'[n], amid') \cup Own(c, n)
      <4>1. ver'[n] = ver[n] /\ live'[n] = live[n]
        BY <3>1, <3>2, <3>3
      <4>2. Seen(call[c].work[n], amid) = Seen(live[n], amid) \cup Own(c, n)
        BY <3>1, <3>3, <4>1
      <4>3. amid' = amid \/ \A a : a \in amid' <=> a \in amid \/ a = g
        BY <1>1 DEF Grows
      <4>4. CASE amid' = amid
        BY <4>1, <4>2, <4>4
      <4>5. CASE \A a : a \in amid' <=> a \in amid \/ a = g
        <5> DEFINE X == call[c].work[n]
                   Y == live[n]
                   O == Own(c, n)
                   more == amid'
        <5>1. X \in SUBSET Edit /\ Y \in SUBSET Edit /\ O \in SUBSET Edit /\ Foreign(g, O) /\ ButFor(g, Y, Y)
          BY <2>1, <3>2, OwnTyped DEF Foreign, ButFor
        <5>2. Seen(X, amid) = Seen(Y, amid) \cup O /\ Joins(g, amid, more)
          BY <4>2, <4>5 DEF Joins
        <5> HIDE DEF X, Y, O, more
        <5>3. Seen(X, more) = Seen(Y, more) \cup O
          BY <5>1, <5>2, SeenThrough
        <5> QED BY <4>1, <5>3 DEF X, Y, O, more
      <4> QED BY <4>3, <4>4, <4>5
    <3>4. \A d \in Client, kind \in Kind : d # c /\ <<d, kind>> \in call[c].work[n] => Signed(d, n, kind)'
      BY <3>1, StaysSigned
    <3>5. call[c].seen[n] <= ver'[n]
      BY <3>1, <3>2
    <3> QED BY <3>1, <3>3, <3>4, <3>5
  <2>3. ASSUME pc[c] = "commit", NEW n \in Touched(c) PROVE Relations(call[c].work[n]) = Relations(live'[n])
    <3>1. Relations(call[c].work[n]) = Relations(live[n])
      BY <1>0, <2>3 DEF Works
    <3>2. CASE live' = live
      BY <3>1, <3>2
    <3>3. CASE Hidden(g)
      <4> DEFINE Y == live[n]
                 Z == live'[n]
                 O == {}
                 more == amid'
      <4>1. Y \in SUBSET Edit /\ Z \in SUBSET Edit /\ ButFor(g, Y, Z)
        BY <2>1, <3>3 DEF Hidden, ButFor
      <4>2. Joins(g, amid, more) /\ Seen(Y, amid) = Seen(Y, amid) \cup O
        BY <3>3 DEF Hidden, Joins
      <4>3. O \in SUBSET Edit /\ Foreign(g, O)
        BY DEF Foreign
      <4> HIDE DEF Y, Z, O, more
      <4>4. Relations(Z) = Relations(Y)
        BY <4>1, <4>2, <4>3, SeenThrough
      <4> QED BY <3>1, <4>4 DEF Y, Z
    <3> QED BY <1>1, <2>3, <3>2, <3>3 DEF InTower, WithReplica
  <2>4. ASSUME NEW n \in Touched(c), ver'[n] = call[c].seen[n]
        PROVE  Seen(call[c].work[n], amid)' = Seen(live[n], amid)' \cup Own(c, n)
    <3>1. /\ Seen(call[c].work[n], amid)' = Seen(call'[c].work[n], amid')
          /\ Seen(live[n], amid)' = Seen(live'[n], amid')
      BY DEF Seen
    <3> QED BY <1>1, <2>2, <2>4, <3>1
  <2>5. ASSUME NEW n \in Touched(c), pc[c] = "commit" PROVE Relations(call[c].work[n])' = Relations(live[n])'
    <3>1. /\ Relations(call[c].work[n])' = Relations(call'[c].work[n])
          /\ Relations(live[n])' = Relations(live'[n])
      BY DEF Relations, Fields
    <3> QED BY <1>1, <2>3, <2>5, <3>1
  <2>6. \A w \in call[c].wrote : w[1] \in Touched(c)
    BY <1>0, <1>4 DEF Works
  <2> QED BY <1>1, <1>2, <1>4, <2>2, <2>4, <2>5, <2>6 DEF Works
<1> QED BY <1>3, <1>4

\* What is known of one goroutine stays true when another takes a step.
LEMMA OthersKeep ==
    ASSUME NEW o \in Node, Typed, TowerInv(o), NEW c \in Client, NEW g, g # c,
           (g \in Client /\ ClientStep(g)) \/ (g \in Outside /\ OutsideStep(g))
    PROVE  UpdateInv(o, c)'
<1>0. HasTree(o, c) /\ Declares(c) /\ Lands(c) /\ Traces(c)
  BY DEF TowerInv, UpdateInv
<1>1. /\ pc'[c] = pc[c] /\ call'[c] = call[c] /\ setup' = setup /\ Grows(g)
      /\ pc[c] \in InTower => current' = current /\ writeLock'[o] = writeLock[o]
  BY OtherSteps
<1>2. HasTree(o, c)'
  <2>1. c \in amid' => c \in amid
    BY <1>1 DEF Grows
  <2> QED BY <1>0, <1>1, <2>1 DEF HasTree, InTower
<1>3. Declares(c)'
  BY <1>0, <1>1 DEF Declares, Tracked
<1>4. Lands(c)'
  <2>1. Landed(c)' <=> Landed(c)
    BY <1>1 DEF Landed
  <2>2. ASSUME NEW n \in Node, NEW kind \in Kind, <<c, kind>> \in live'[n]
        PROVE  <<n, kind>> \in call[c].wrote /\ n \in call[c].declared /\ Landed(c)
    <3>1. CASE <<c, kind>> \in live[n]
      BY <1>0, <3>1 DEF Lands
    <3>2. CASE Signed(c, n, kind)
      BY <3>2 DEF Signed, Landed
    <3> QED BY <1>1, <2>2, <3>1, <3>2 DEF Grows
  <2>3. ASSUME Landed(c), c \notin amid', NEW w \in call[c].wrote, w[1] \in call[c].declared
        PROVE  <<c, w[2]>> \in live'[w[1]]
    <3>1. c \notin amid /\ w[1] \in Node
      BY <1>1, <2>3, LocalTypes DEF Grows, Typed
    <3>2. <<c, w[2]>> \in live[w[1]]
      BY <1>0, <2>3, <3>1 DEF Lands
    <3>3. <<c, w[2]>> \in Seen(live[w[1]], amid)
      BY <3>1, <3>2 DEF Seen
    <3> QED BY <1>1, <3>1, <3>3 DEF Grows
  <2> QED BY <1>1, <2>1, <2>2, <2>3 DEF Lands
<1>5. Traces(c)'
  <2>1. ASSUME current' # NoReplica, NEW n \in Node, NEW kind \in Kind, <<c, kind>> \in replica'[current'].rows[n]
        PROVE  <<n, kind>> \in call[c].wrote /\ (pc[c] \in WithReplica \/ Signed(c, n, kind))
    <3>1. <<c, kind>> \in live[n] \/ (current # NoReplica /\ <<c, kind>> \in replica[current].rows[n])
      <4>1. CASE g \in Client /\ ClientStep(g)
        BY <2>1, <4>1, ShadowSteps
      <4>2. CASE g \in Outside /\ OutsideStep(g)
        BY <2>1, <4>2, OutsideGrows
      <4> QED BY <4>1, <4>2
    <3>2. CASE <<c, kind>> \in live[n]
      BY <1>0, <3>2 DEF Lands, Landed, Signed, WithReplica
    <3>3. CASE current # NoReplica /\ <<c, kind>> \in replica[current].rows[n]
      BY <1>0, <3>3 DEF Traces
    <3> QED BY <3>1, <3>2, <3>3
  <2> QED BY <1>1, <2>1 DEF Traces, Signed
<1>6. Shadows(o, c)' /\ Works(c)'
  BY OthersKeepShadow, OthersKeepWorks
<1> QED BY <1>2, <1>3, <1>4, <1>5, <1>6 DEF UpdateInv

\* No edit of c is in the current replica.
Untouched(c) ==
    current # NoReplica => \A n \in Node, kind \in Kind : <<c, kind>> \notin replica[current].rows[n]

\* So it is until c has a replica, and when it left one that was retired.
LEMMA Untraced ==
    ASSUME NEW c, Traces(c), pc[c] \notin WithReplica \cup {"ok"}
    PROVE  Untouched(c)
BY DEF Traces, Signed, Untouched

\* It is as good a trace as any.
LEMMA NoTraces == ASSUME NEW c, Untouched(c)' PROVE Traces(c)'
BY DEF Traces, Untouched

\* Away from the lock of the tree, only what has landed matters.
LEMMA OutOfTree ==
    ASSUME NEW o, NEW c, pc'[c] \notin InTower \cup {"lock"}, Lands(c)', Traces(c)', c \in amid' => pc'[c] = "ok"
    PROVE  UpdateInv(o, c)'
BY DEF UpdateInv, HasTree, Declares, Shadows, Works, InTower, WithReplica

\* A step that publishes nothing, of a goroutine that has not published.
LEMMA NothingLands ==
    ASSUME NEW c, Lands(c), ~Landed(c), ~Landed(c)', live' = live
    PROVE  Lands(c)'
BY DEF Lands

\* A replica at rest stays at rest in a step that does not touch it.
LEMMA StaysAtRest ==
    ASSUME Typed, AtRest, NEW g, Grows(g), replica' = replica, current' = current,
           \A c \in Client : pc[c] \in WithReplica => pc'[c] \in WithReplica
    PROVE  AtRest'
<1> SUFFICES ASSUME \A c \in Client : pc'[c] \notin WithReplica, current # NoReplica, NEW n \in Node
             PROVE  /\ replica[current].base[n] = Relations(replica[current].rows[n])
                    /\ Synced(current)' => Seen(replica[current].rows[n], amid') = Seen(live'[n], amid')
  BY DEF AtRest, Relations, Fields, Seen
<1>1. /\ replica[current].base[n] = Relations(replica[current].rows[n])
      /\ Synced(current) => Seen(replica[current].rows[n], amid) = Seen(live[n], amid)
  BY DEF AtRest
<1>2. replica[current].epoch \in Nat /\ replica[current].epoch <= epoch /\ epoch \in Nat
  BY DEF Typed, StoreTyped, ShadowTyped, Shadow
<1>3. CASE live' = live /\ epoch' = epoch /\ amid' = amid
  BY <1>1, <1>3 DEF Synced
<1>4. CASE epoch' = epoch + 1
  <2>1. ~Synced(current)'
    BY <1>2, <1>4 DEF Synced
  <2> QED BY <1>1, <2>1
<1> QED BY <1>3, <1>4 DEF Grows

\* The way to the lock of the tree.
LEMMA EntryKeeps ==
    ASSUME NEW o \in Node, Typed, OneTree(o), TowerInv(o), NEW c \in Client, ClientStep(c), pc[c] \notin InTower
    PROVE  UpdateInv(o, c)'
<1>0. /\ HasTree(o, c) /\ Lands(c) /\ Traces(c) /\ pc \in [Client \cup Outside -> Places] /\ call \in [Client -> Locals]
      /\ parent \in [Node -> Node] /\ writeLock \in [Node -> Client \cup {Nobody}]
  BY DEF TowerInv, UpdateInv, Typed, CallsTyped, StoreTyped, LocksTyped
<1>6. /\ pc[c] \in {"idle", "enter", "owner", "lock"} /\ c \notin amid
      /\ Traces(c)'
  <2>1. pc[c] \in {"idle", "enter", "owner", "lock"}
    BY EntrySteps DEF UpdateWithin, UpdateByEngine, EnterTower, ReadOwner, LockTree
  <2>2. Untouched(c) /\ replica' = replica /\ current' = current
    BY <1>0, <2>1, Untraced, EntrySteps DEF WithReplica
  <2> QED BY <1>0, <2>1, <2>2, NoTraces DEF HasTree, Untouched
<1>1. ASSUME NEW r \in setup.root[c], UpdateWithin(c, r) PROVE UpdateInv(o, c)'
  <2>1. pc[c] = "idle" /\ pc'[c] = "enter" /\ live' = live /\ amid' = amid
    BY <1>0, <1>1 DEF UpdateWithin, Goto, store
  <2>2. Lands(c)'
    BY <1>0, <2>1, NothingLands DEF Landed
  <2> QED BY <2>1, <2>2, <1>6, OutOfTree DEF InTower, WithReplica
<1>2. CASE UpdateByEngine(c)
  <2> DEFINE r == call[c].root
             l(kind) == [Idle EXCEPT !.wrote = {<<r, kind>>}, !.declared = {r}]
  <2>1. PICK kind \in Kind : EngineCommit(c, r, kind) /\ call' = [call EXCEPT ![c] = l(kind)]
    BY <1>2 DEF UpdateByEngine
  <2>2. pc[c] = "enter" /\ pc'[c] = "ok"
    BY <1>0, <1>2 DEF UpdateByEngine, Goto
  <2>3. r \in Node
    BY <2>2, Settings DEF Typed, StoreTyped, CallsTyped, Busy
  <2>4. call'[c].wrote = {<<r, kind>>} /\ call'[c].declared = {r}
    BY <1>0, <2>1 DEF Idle
  <2>5. \A n \in Node : live'[n] = IF n = r THEN live[n] \cup {<<c, kind>>} ELSE live[n]
    BY <2>1 DEF EngineCommit, Typed, StoreTyped
  <2>6. \A n \in Node, k \in Kind : <<c, k>> \notin live[n]
    BY <1>0, <2>2 DEF Lands, Landed
  <2> HIDE DEF r, l
  <2>7. Landed(c)'
    BY <2>2 DEF Landed
  <2>8. ASSUME NEW n \in Node, NEW k \in Kind, <<c, k>> \in live'[n]
        PROVE  <<n, k>> \in call'[c].wrote /\ n \in call'[c].declared
    <3>1. n = r /\ <<c, k>> = <<c, kind>>
      BY <2>5, <2>6, <2>8
    <3>2. k = kind
      BY <3>1
    <3> QED BY <2>4, <3>1, <3>2
  <2>9. ASSUME NEW w \in call'[c].wrote PROVE <<c, w[2]>> \in live'[w[1]]
    <3>1. w[1] = r /\ w[2] = kind
      BY <2>4
    <3> QED BY <2>3, <2>5, <3>1
  <2>10. Lands(c)'
    BY <2>7, <2>8, <2>9 DEF Lands
  <2> QED BY <2>2, <2>10, <1>6, OutOfTree DEF InTower, WithReplica
<1>3. CASE EnterTower(c)
  <2>1. pc[c] = "enter" /\ pc'[c] = "owner" /\ live' = live /\ amid' = amid
    BY <1>0, <1>3 DEF EnterTower, Goto, store
  <2>2. Lands(c)'
    BY <1>0, <2>1, NothingLands DEF Landed
  <2> QED BY <2>1, <2>2, <1>6, OutOfTree DEF InTower, WithReplica
<1>4. CASE ReadOwner(c)
  <2> DEFINE l == [call[c] EXCEPT !.owner = OwnershipRoot(call[c].root)]
  <2>1. pc[c] = "owner" /\ pc'[c] = "lock" /\ live' = live /\ amid' = amid /\ call'[c] = l
    BY <1>0, <1>4 DEF ReadOwner, Goto, store
  <2>2. Lands(c)'
    BY <1>0, <2>1, NothingLands DEF Landed
  <2>3. call[c].root \in Node /\ call[c].root \in setup.root[c]
    BY <2>1, Settings DEF Typed, StoreTyped, CallsTyped, Busy
  <2>4. OwnershipRoot(call[c].root) = o
    BY <1>0, <2>3, TopLevel DEF OneTree
  <2>5. l.owner = o
    BY <1>0, <2>4 DEF Locals
  <2> HIDE DEF l
  <2>6. HasTree(o, c)' /\ Declares(c)' /\ Shadows(o, c)' /\ Works(c)'
    BY <1>6, <2>1, <2>5 DEF HasTree, Declares, Shadows, Works, InTower, WithReplica
  <2> QED BY <1>6, <2>2, <2>6 DEF UpdateInv
<1>5. CASE LockTree(c)
  <2>1. pc[c] = "lock" /\ pc'[c] = "load" /\ live' = live /\ amid' = amid /\ call' = call
    BY <1>0, <1>5 DEF LockTree, Goto, store
  <2>2. Lands(c)'
    BY <1>0, <2>1, NothingLands DEF Landed
  <2>3. call[c].owner = o /\ writeLock'[o] = c
    BY <1>0, <1>5, <2>1 DEF HasTree, LockTree
  <2>4. HasTree(o, c)' /\ Declares(c)' /\ Shadows(o, c)' /\ Works(c)'
    BY <1>6, <2>1, <2>3 DEF HasTree, Declares, Shadows, Works, InTower, WithReplica
  <2> QED BY <1>6, <2>2, <2>4 DEF UpdateInv
<1> QED BY <1>1, <1>2, <1>3, <1>4, <1>5, EntrySteps

\* A callback starts on a replica that is the rows.
LEMMA Starts ==
    ASSUME NEW o \in Node, Typed, OneTree(o), TowerInv(o), NEW c \in Client, pc[c] \in {"load", "rebuild", "graph"},
           NEW x \in Replica, StartCallback(c, x), current' = x,
           UNCHANGED <<store, writeLock>>,
           \A n \in Node : /\ Seen(replica'[x].rows[n], amid) = Seen(live[n], amid)
                           /\ replica'[x].base[n] = Relations(live[n])
                           /\ \A kind \in Kind : <<c, kind>> \notin replica'[x].rows[n]
    PROVE  UpdateInv(o, c)'
<1> DEFINE l == [call[c] EXCEPT !.rep = x, !.wrote = {}, !.declared = {}]
<1>0. HasTree(o, c) /\ Lands(c)
  BY DEF TowerInv, UpdateInv
<1>1. l.rep = x /\ l.wrote = {} /\ l.declared = {} /\ l.owner = call[c].owner /\ l.root = call[c].root
  BY DEF Typed, CallsTyped, Locals
<1>2. pc'[c] = "callback" /\ call'[c] = l
  BY DEF StartCallback, Goto, Typed, CallsTyped
<1> HIDE DEF l
<1>3. live' = live /\ writeLock' = writeLock /\ amid' = amid
  BY DEF store
<1>4. HasTree(o, c)' /\ Declares(c)'
  BY <1>0, <1>1, <1>2, <1>3 DEF HasTree, Declares, InTower, WithReplica
<1>5. Lands(c)'
  BY <1>0, <1>2, <1>3, NothingLands DEF Landed
<1>6. \A n : Own(c, n)' = {}
  BY <1>1, <1>2 DEF Own
<1>7. Shadows(o, c)'
  <2>1. Differs(c)'
    BY <1>3, <1>6, SeenNext
  <2>2. InBranch(o, c)'
    BY <1>1, <1>2 DEF InBranch
  <2> QED BY <1>2, <2>1, <2>2 DEF Shadows
<1>8. Works(c)' /\ Traces(c)'
  BY <1>2, NoTraces DEF Works, Untouched
<1> QED BY <1>4, <1>5, <1>7, <1>8 DEF UpdateInv

\* Two rows of which the same is seen have the same relations.
LEMMA SameRelations ==
    ASSUME NEW X, NEW Y, NEW hidden, Seen(X, hidden) = Seen(Y, hidden)
    PROVE  Relations(X) = Relations(Y)
<1>1. \A e : e[2] = "relations" => (e \in X <=> e \in Seen(X, hidden)) /\ (e \in Y <=> e \in Seen(Y, hidden))
  BY DEF Seen
<1> QED BY <1>1 DEF Relations, Fields

\* The way from the lock of the tree to the callback.
LEMMA ReplicaKeeps ==
    ASSUME NEW o \in Node, Typed, OneTree(o), TowerInv(o), NEW c \in Client,
           LoadReplica(c) \/ LoadStaleReplica(c) \/ FindRebuilt(c) \/ LockRebuild(c) \/ Rebuild(c)
    PROVE  UpdateInv(o, c)'
<1>0. /\ HasTree(o, c) /\ Lands(c) /\ Traces(c) /\ pc \in [Client \cup Outside -> Places] /\ current \in Replica \cup {NoReplica}
      /\ replica \in [Replica -> Shadow]
  BY DEF TowerInv, UpdateInv, Typed, CallsTyped, ShadowTyped
<1>1. pc[c] \in {"load", "rebuild", "graph"}
  BY DEF LoadReplica, LoadStaleReplica, FindRebuilt, LockRebuild, Rebuild
<1>2. current # NoReplica =>
        \A n \in Node : /\ replica[current].base[n] = Relations(replica[current].rows[n])
                        /\ Synced(current) => Seen(replica[current].rows[n], amid) = Seen(live[n], amid)
  <2>1. \A d \in Client : pc[d] \notin WithReplica
    BY <1>1, Alone DEF InTower, WithReplica
  <2> QED BY <2>1 DEF TowerInv, AtRest
<1>6. Untouched(c)
  BY <1>0, <1>1, Untraced DEF WithReplica
<1>3. CASE LoadStaleReplica(c) \/ LockRebuild(c)
  <2>1. pc'[c] \in {"rebuild", "graph"} /\ live' = live /\ amid' = amid /\ call' = call /\ writeLock' = writeLock
        /\ replica' = replica /\ current' = current
    BY <1>0, <1>3 DEF LoadStaleReplica, LockRebuild, Goto, store, tower
  <2>2. Lands(c)'
    BY <1>0, <1>1, <2>1, NothingLands DEF Landed
  <2>3. HasTree(o, c)' /\ Declares(c)' /\ Shadows(o, c)' /\ Works(c)'
    BY <1>0, <1>1, <2>1 DEF HasTree, Declares, Shadows, Works, InTower, WithReplica
  <2>4. Traces(c)'
    BY <1>6, <2>1, NoTraces DEF Untouched
  <2> QED BY <2>2, <2>3, <2>4 DEF UpdateInv
<1>4. CASE LoadReplica(c) \/ FindRebuilt(c)
  <2>1. Synced(current) /\ StartCallback(c, current) /\ UNCHANGED <<store, tower, writeLock>>
    BY <1>4 DEF LoadReplica, FindRebuilt
  <2>2. current \in Replica /\ current' = current /\ replica' = replica
    BY <1>0, <2>1 DEF Synced, tower
  <2>3. ASSUME NEW n \in Node
        PROVE  /\ Seen(replica'[current].rows[n], amid) = Seen(live[n], amid)
               /\ replica'[current].base[n] = Relations(live[n])
               /\ \A kind \in Kind : <<c, kind>> \notin replica'[current].rows[n]
    <3>1. /\ replica[current].base[n] = Relations(replica[current].rows[n])
          /\ Seen(replica[current].rows[n], amid) = Seen(live[n], amid)
      BY <1>2, <2>1 DEF Synced
    <3>2. Relations(replica[current].rows[n]) = Relations(live[n])
      BY <3>1, SameRelations
    <3> QED BY <1>6, <2>1, <2>2, <3>1, <3>2 DEF Untouched, Synced
  <2> QED BY <1>1, <2>1, <2>2, <2>3, Starts
<1>5. CASE Rebuild(c)
  <2> DEFINE x == IF current = NoReplica THEN Unused ELSE current
             y == IF current = NoReplica THEN Copy ELSE Refreshed(x)
  <2>1. replica' = [replica EXCEPT ![x] = y] /\ current' = x /\ StartCallback(c, x) /\ UNCHANGED <<store, writeLock>>
    BY <1>5 DEF Rebuild
  <2>2. x \in Replica
    BY <1>0, SpareReplica
  <2>3. ASSUME NEW n \in Node PROVE y.rows[n] = live[n] /\ y.base[n] = Relations(live[n])
    <3>1. CASE current = NoReplica
      BY <3>1 DEF Copy
    <3>2. CASE current # NoReplica
      BY <1>2, <3>2 DEF Refreshed
    <3> QED BY <3>1, <3>2
  <2> HIDE DEF x, y
  <2>4. replica'[x] = y
    BY <1>0, <2>1, <2>2
  <2>5. \A n \in Node, kind \in Kind : <<c, kind>> \notin live[n]
    BY <1>0, <1>1 DEF Lands, Landed
  <2>6. \A n \in Node : /\ Seen(replica'[x].rows[n], amid) = Seen(live[n], amid)
                         /\ replica'[x].base[n] = Relations(live[n])
                         /\ \A kind \in Kind : <<c, kind>> \notin replica'[x].rows[n]
    BY <2>3, <2>4, <2>5
  <2> QED BY <1>1, <2>1, <2>2, <2>6, Starts
<1> QED BY <1>3, <1>4, <1>5

\* A callback writes a row of its shadow.
LEMMA WriteKeeps ==
    ASSUME NEW o \in Node, Typed, OneTree(o), TowerInv(o), NEW c \in Client, NEW n \in Node, NEW kind \in Kind,
           Write(c, n, kind) \/ WriteUndeclared(c, n, kind)
    PROVE  UpdateInv(o, c)'
<1> DEFINE x == call[c].rep
<1>0. /\ HasTree(o, c) /\ Declares(c) /\ Lands(c) /\ Shadows(o, c) /\ Traces(c) /\ pc \in [Client \cup Outside -> Places]
      /\ replica \in [Replica -> Shadow] /\ parent \in [Node -> Node] /\ call \in [Client -> Locals]
  BY DEF TowerInv, UpdateInv, Typed, CallsTyped, ShadowTyped, StoreTyped
<1>1. /\ pc[c] = "callback" /\ pc' = pc /\ UNCHANGED <<store, current, writeLock>>
      /\ replica' = [replica EXCEPT ![x].rows[n] = @ \cup {<<c, kind>>}]
  BY DEF Write, WriteUndeclared, WriteShadow
<1>2. /\ call'[c].wrote = call[c].wrote \cup {<<n, kind>>}
      /\ call'[c].declared \in {call[c].declared, call[c].declared \cup {n}}
      /\ n \in call'[c].declared \/ (setup.undeclared /\ c \in Tracked /\ n # call[c].root)
      /\ call'[c].owner = call[c].owner /\ call'[c].rep = x /\ call'[c].root = call[c].root
  <2>1. CASE Write(c, n, kind)
    <3> DEFINE l == [call[c] EXCEPT !.wrote = @ \cup {<<n, kind>>}, !.declared = @ \cup {n}]
    <3>1. call'[c] = l
      BY <1>0, <2>1 DEF Write
    <3>2. /\ l.wrote = call[c].wrote \cup {<<n, kind>>} /\ l.declared = call[c].declared \cup {n}
          /\ l.owner = call[c].owner /\ l.rep = x /\ l.root = call[c].root
      BY <1>0 DEF Locals
    <3> HIDE DEF l, x
    <3> QED BY <3>1, <3>2
  <2>2. CASE WriteUndeclared(c, n, kind)
    <3> DEFINE l == [call[c] EXCEPT !.wrote = @ \cup {<<n, kind>>}]
    <3>1. call'[c] = l /\ setup.undeclared /\ c \in Tracked /\ n # call[c].root
      BY <1>0, <2>2 DEF WriteUndeclared
    <3>2. /\ l.wrote = call[c].wrote \cup {<<n, kind>>} /\ l.declared = call[c].declared
          /\ l.owner = call[c].owner /\ l.rep = x /\ l.root = call[c].root
      BY <1>0 DEF Locals
    <3> HIDE DEF l, x
    <3> QED BY <3>1, <3>2
  <2> QED BY <2>1, <2>2
<1>3. x \in Replica /\ x = current /\ call[c].owner = o /\ writeLock[o] = c
  BY <1>0, <1>1 DEF Typed, CallsTyped, HasTree, InTower, WithReplica
<1>4. OwnershipRoot(n) = o /\ (c \notin Tracked => n \in Branch(call[c].root))
  <2>1. call[c].root \in setup.root[c]
    BY <1>1 DEF Typed, CallsTyped, Busy, InTower, WithReplica
  <2>2. CASE Write(c, n, kind)
    BY <1>3, <2>1, <2>2 DEF Write, OneTree
  <2>3. CASE WriteUndeclared(c, n, kind)
    BY <2>1, <2>3 DEF WriteUndeclared, OneTree
  <2> QED BY <2>2, <2>3
<1> HIDE DEF x
<1>5. /\ replica'[x].epoch = replica[x].epoch /\ replica'[x].base = replica[x].base
      /\ \A m \in Node : replica'[x].rows[m] = IF m = n THEN replica[x].rows[m] \cup {<<c, kind>>} ELSE replica[x].rows[m]
  <2>1. replica[x] \in Shadow
    BY <1>0, <1>3
  <2> DEFINE rows == [replica[x].rows EXCEPT ![n] = replica[x].rows[n] \cup {<<c, kind>>}]
  <2>2. replica'[x] = [replica[x] EXCEPT !.rows = rows]
    BY <1>0, <1>1, <1>3
  <2>3. \A m \in Node : rows[m] = IF m = n THEN replica[x].rows[m] \cup {<<c, kind>>} ELSE replica[x].rows[m]
    BY <2>1 DEF Shadow
  <2> HIDE DEF rows
  <2> QED BY <2>1, <2>2, <2>3 DEF Shadow
<1>6. live' = live /\ parent' = parent /\ epoch' = epoch /\ setup' = setup /\ current' = current /\ writeLock' = writeLock
      /\ amid' = amid /\ c \notin amid
  BY <1>0, <1>1 DEF store, HasTree
<1>7. \A m \in Node : Own(c, m)' = IF m = n THEN Own(c, m) \cup {<<c, kind>>} ELSE Own(c, m)
  <2> SUFFICES ASSUME NEW m \in Node, NEW e
               PROVE  e \in Own(c, m)' <=> e \in Own(c, m) \/ (m = n /\ e = <<c, kind>>)
    OBVIOUS
  <2>1. e \in Own(c, m)' <=> \E k \in Kind : e = <<c, k>> /\ <<m, k>> \in call'[c].wrote
    BY DEF Own
  <2>2. e \in Own(c, m) <=> \E k \in Kind : e = <<c, k>> /\ <<m, k>> \in call[c].wrote
    BY OwnEdits
  <2>3. \A k : <<m, k>> \in call'[c].wrote <=> <<m, k>> \in call[c].wrote \/ (m = n /\ k = kind)
    BY <1>2
  <2> QED BY <2>1, <2>2, <2>3
<1>8. HasTree(o, c)' /\ Works(c)'
  BY <1>0, <1>1, <1>2, <1>3, <1>6 DEF HasTree, Works, InTower
<1>9. Lands(c)'
  BY <1>0, <1>1, <1>6, NothingLands DEF Landed
<1>10. Declares(c)'
  <2>1. Tracked' = Tracked
    BY <1>6 DEF Tracked
  <2>2. ASSUME NEW w \in call'[c].wrote
        PROVE  w[1] \in call'[c].declared \/ (setup.undeclared /\ c \in Tracked /\ w[1] # call[c].root)
    <3>1. CASE w \in call[c].wrote
      BY <1>0, <1>1, <1>2, <3>1 DEF Declares, WithReplica
    <3>2. CASE w = <<n, kind>>
      <4>1. w[1] = n
        BY <3>2
      <4> QED BY <1>2, <4>1
    <3> QED BY <1>2, <2>2, <3>1, <3>2
  <2>3. ASSUME NEW m \in call'[c].declared PROVE \E w \in call'[c].wrote : w[1] = m
    <3>1. CASE m \in call[c].declared
      BY <1>0, <1>1, <1>2, <3>1 DEF Declares, WithReplica
    <3>2. CASE m = n
      <4>1. <<n, kind>> \in call'[c].wrote /\ <<n, kind>>[1] = n
        BY <1>2
      <4> QED BY <3>2, <4>1
    <3> QED BY <1>2, <2>3, <3>1, <3>2
  <2> QED BY <1>1, <1>2, <1>6, <2>1, <2>2, <2>3 DEF Declares, WithReplica
<1>11. Shadows(o, c)'
  <2>1. Synced(current)' <=> Synced(current)
    BY <1>3, <1>5, <1>6 DEF Synced
  <2>2. ASSUME Synced(current) PROVE Differs(c)' /\ InBranch(o, c)'
    <3>1. Differs(c) /\ InBranch(o, c)
      BY <1>0, <1>1, <2>2 DEF Shadows
    <3>2. ASSUME NEW m \in Node
          PROVE  /\ Seen(replica'[x].rows[m], amid) = Seen(live[m], amid) \cup Own(c, m)'
                 /\ replica'[x].base[m] = Relations(live[m])
      <4> DEFINE X == replica[x].rows[m]
                 O == {<<c, kind>>}
      <4>1. Seen(X, amid) = Seen(live[m], amid) \cup Own(c, m) /\ replica[x].base[m] = Relations(live[m])
        BY <1>3, <3>1 DEF Differs
      <4>2. \A e \in O : e[1] = c
        OBVIOUS
      <4>3. /\ replica'[x].rows[m] = IF m = n THEN X \cup O ELSE X
            /\ Own(c, m)' = IF m = n THEN Own(c, m) \cup O ELSE Own(c, m)
        BY <1>5, <1>7
      <4> HIDE DEF X, O
      <4>4. Seen(X \cup O, amid) = Seen(X, amid) \cup O
        BY <1>6, <4>2, SeenOwn
      <4>5. CASE m = n
        BY <1>5, <4>1, <4>3, <4>4, <4>5
      <4>6. CASE m # n
        BY <1>5, <4>1, <4>3, <4>6
      <4> QED BY <4>5, <4>6
    <3>3. Differs(c)'
      BY <1>3, <1>6, <3>2, SeenNext
    <3>4. \A m : OwnershipRoot(m)' = OwnershipRoot(m) /\ Branch(m)' = Branch(m)
      BY <1>6, SameOwners
    <3>5. ASSUME NEW w \in call'[c].wrote
          PROVE  OwnershipRoot(w[1]) = o /\ (c \notin Tracked => w[1] \in Branch(call[c].root))
      <4>1. CASE w \in call[c].wrote
        BY <3>1, <4>1 DEF InBranch
      <4>2. CASE w = <<n, kind>>
        <5>1. w[1] = n
          BY <4>2
        <5> QED BY <1>4, <5>1
      <4> QED BY <1>2, <3>5, <4>1, <4>2
    <3>6. InBranch(o, c)'
      BY <1>2, <1>6, <3>4, <3>5 DEF InBranch, Tracked
    <3> QED BY <3>3, <3>6
  <2> QED BY <1>1, <2>1, <2>2 DEF Shadows
<1>12. Traces(c)'
  <2>1. ASSUME NEW m \in Node, NEW k \in Kind, <<c, k>> \in replica'[current'].rows[m]
        PROVE  <<m, k>> \in call'[c].wrote
    <3>1. CASE <<c, k>> \in replica[x].rows[m] /\ current # NoReplica
      BY <1>0, <1>2, <1>3, <3>1 DEF Traces
    <3>2. CASE m = n /\ <<c, k>> = <<c, kind>>
      <4>1. k = kind
        BY <3>2
      <4> QED BY <1>2, <3>2, <4>1
    <3>3. current # NoReplica
      BY <1>1, OnCurrent DEF WithReplica
    <3> QED BY <1>3, <1>5, <1>6, <2>1, <3>1, <3>2, <3>3
  <2> QED BY <1>1, <2>1 DEF Traces, WithReplica
<1> QED BY <1>8, <1>9, <1>10, <1>11, <1>12 DEF UpdateInv

\* A goroutine that retires its replica leaves the tower without one.
LEMMA Retires ==
    ASSUME NEW o, TowerInv(o), NEW c \in Client, pc[c] \in WithReplica, LetGo(c, Retired(call[c].rep))
    PROVE  AtRest' /\ \A d \in Client : Traces(d)'
<1>1. call[c].rep = current
  BY DEF TowerInv, UpdateInv, HasTree
<1>2. current' = NoReplica
  BY <1>1 DEF LetGo, Retired
<1> QED BY <1>2 DEF AtRest, Traces

\* The locals of a call that returns, and of one that goes round again.
LEMMA Returned ==
    ASSUME Typed, NEW c \in Client, NEW p, Return(c, p)
    PROVE  pc'[c] = p /\ call'[c].wrote = call[c].wrote /\ call'[c].declared = call[c].declared
<1> DEFINE l == [Idle EXCEPT !.wrote = call[c].wrote, !.declared = call[c].declared]
<1>1. call'[c] = l /\ pc'[c] = p
  BY DEF Return, Goto, Typed, CallsTyped
<1>2. l.wrote = call[c].wrote /\ l.declared = call[c].declared
  BY DEF Idle
<1> HIDE DEF l
<1> QED BY <1>1, <1>2

\* The attempts that publish nothing, and the end of those that went through
\* engine.commit.
LEMMA LeavesKeep ==
    ASSUME NEW o \in Node, Typed, OneTree(o), TowerInv(o), NEW c \in Client,
           \/ CallbackFails(c) \/ DiffFails(c) \/ ConflictScalars(c) \/ FailScalars(c) \/ RetireAfterRelations(c)
           \/ CallbackEnds(c) /\ ~Synced(call[c].rep)
    PROVE  UpdateInv(o, c)' /\ AtRest'
<1>0. Lands(c) /\ HasTree(o, c) /\ pc \in [Client \cup Outside -> Places]
  BY DEF TowerInv, UpdateInv, Typed, CallsTyped
<1>1. pc[c] \in WithReplica /\ LetGo(c, Retired(call[c].rep)) /\ live' = live /\ amid' = amid
  BY DEF CallbackFails, DiffFails, ConflictScalars, FailScalars, RetireAfterRelations, CallbackEnds, WithReplica, store
<1>2. AtRest' /\ Traces(c)' /\ c \notin amid'
  BY <1>0, <1>1, Retires DEF HasTree, WithReplica
<1>3. CASE CallbackFails(c) \/ DiffFails(c) \/ FailScalars(c)
  <2>1. ~Landed(c) /\ Return(c, "failed")
    BY <1>3 DEF CallbackFails, DiffFails, FailScalars, Landed
  <2>2. pc'[c] = "failed"
    BY <2>1, Returned
  <2>3. Lands(c)'
    BY <1>0, <1>1, <2>1, <2>2, NothingLands DEF Landed
  <2> QED BY <1>2, <2>2, <2>3, OutOfTree DEF InTower, WithReplica
<1>4. CASE ConflictScalars(c) \/ (CallbackEnds(c) /\ ~Synced(call[c].rep))
  <2>1. ~Landed(c) /\ pc'[c] \in {"enter", "owner"}
    BY <1>0, <1>4 DEF ConflictScalars, CallbackEnds, Retry, Goto, Landed
  <2>2. Lands(c)'
    BY <1>0, <1>1, <2>1, NothingLands DEF Landed
  <2> QED BY <1>2, <2>1, <2>2, OutOfTree DEF InTower, WithReplica
<1>5. CASE RetireAfterRelations(c)
  <2>1. CASE call[c].then = "owner"
    <3>1. ~Landed(c) /\ pc'[c] = "owner"
      BY <1>0, <1>5, <2>1 DEF RetireAfterRelations, Retry, Goto, Landed
    <3>2. Lands(c)'
      BY <1>0, <1>1, <3>1, NothingLands DEF Landed
    <3> QED BY <1>2, <3>1, <3>2, OutOfTree DEF InTower, WithReplica
  <2>2. CASE call[c].then # "owner"
    <3>1. /\ pc[c] = "retire" /\ pc'[c] = call[c].then /\ call[c].then \in {"ok", "failed"}
          /\ call'[c].wrote = call[c].wrote /\ call'[c].declared = call[c].declared
      BY <1>5, <2>2, Returned, LocalTypes DEF RetireAfterRelations, Typed
    <3>2. Landed(c)' <=> Landed(c)
      BY <3>1 DEF Landed
    <3>3. Lands(c)'
      BY <1>0, <1>1, <3>1, <3>2 DEF Lands
    <3> QED BY <1>2, <3>1, <3>3, OutOfTree DEF InTower, WithReplica
  <2> QED BY <2>1, <2>2
<1> QED BY <1>3, <1>4, <1>5

\* The diff of a set of rows finds what the callback wrote in them.  What else it
\* finds is scalars, which somebody committed since the epoch check.
LEMMA DiffFindsWrites ==
    ASSUME NEW o \in Node, Typed, TowerInv(o), NEW c \in Client, pc[c] = "diff", NEW nodes \in SUBSET Node
    PROVE  /\ \A f \in call[c].wrote : f[1] \in nodes => f \in Changed(c, nodes)
           /\ \A f \in Changed(c, nodes) : f[1] \in nodes /\ f[2] \in Kind /\ (f \in call[c].wrote \/ f[2] = "scalars")
<1> DEFINE x == replica[call[c].rep]
           differs(f) == Fields(x.rows[f[1]], f[2]) # IF f[2] = "scalars" THEN Fields(live[f[1]], f[2]) ELSE x.base[f[1]]
<1>1. \A n \in Node : /\ Seen(x.rows[n], amid) = Seen(live[n], amid) \cup Own(c, n)
                      /\ x.base[n] = Relations(live[n])
  BY DEF TowerInv, UpdateInv, HasTree, Shadows, Differs, WithReplica
<1>2. \A n \in Node, kind \in Kind : <<c, kind>> \notin live[n]
  BY DEF TowerInv, UpdateInv, Lands, Landed
<1>3. Changed(c, nodes) = {f \in nodes \X Kind : differs(f)}
  BY DEF Changed
<1>4. call[c].wrote \subseteq Node \X Kind
  BY LocalTypes DEF Typed
<1>5. ASSUME NEW f \in nodes \X Kind
      PROVE  (f \in call[c].wrote => differs(f)) /\ (f \notin call[c].wrote /\ f[2] # "scalars" => ~differs(f))
  <2>1. f = <<f[1], f[2]>> /\ f[1] \in Node /\ f[2] \in Kind
    OBVIOUS
  <2> DEFINE rows == Fields(x.rows[f[1]], f[2])
             before == Fields(live[f[1]], f[2])
  <2>2. f[2] # "scalars" => f[2] = "relations" /\ x.base[f[1]] = before
    BY <1>1, <2>1 DEF Kind, Relations
  <2>3. differs(f) <=> rows # before
    BY <2>2
  <2>4. CASE f \in call[c].wrote
    <3>1. <<c, f[2]>> \in Own(c, f[1])
      BY <2>1, <2>4, OwnEdits
    <3>2. <<c, f[2]>> \in Seen(x.rows[f[1]], amid)
      BY <1>1, <2>1, <3>1
    <3>3. <<c, f[2]>> \in rows
      BY <3>2 DEF Seen, Fields
    <3>4. <<c, f[2]>> \notin before
      BY <1>2, <2>1 DEF Fields
    <3> QED BY <2>3, <2>4, <3>3, <3>4
  <2>5. CASE f \notin call[c].wrote /\ f[2] # "scalars"
    <3> DEFINE X == x.rows[f[1]]
               Y == live[f[1]]
               O == Own(c, f[1])
    <3>1. Seen(X, amid) = Seen(Y, amid) \cup O
      BY <1>1, <2>1
    <3>2. \A e \in O : e[2] # "relations"
      <4>1. ASSUME NEW e \in O, e[2] = "relations" PROVE FALSE
        <5>1. PICK kind \in Kind : e = <<c, kind>> /\ <<f[1], kind>> \in call[c].wrote
          BY <4>1, OwnEdits
        <5>2. kind = f[2]
          BY <2>2, <2>5, <4>1, <5>1
        <5> QED BY <2>1, <2>5, <5>1, <5>2
      <4> QED BY <4>1
    <3>3. rows = Relations(X) /\ before = Relations(Y)
      BY <2>2, <2>5 DEF Relations
    <3> HIDE DEF X, Y, O, rows, before
    <3>4. Relations(X) = Relations(Y) \cup Relations(O)
      BY <3>1, SeenRelations
    <3>5. Relations(O) = {}
      BY <3>2 DEF Relations, Fields
    <3> QED BY <2>3, <2>5, <3>3, <3>4, <3>5
  <2> QED BY <2>4, <2>5
<1>6. ASSUME NEW f \in call[c].wrote, f[1] \in nodes PROVE f \in nodes \X Kind
  BY <1>4, <1>6
<1> HIDE DEF differs
<1>7. \A f \in Changed(c, nodes) : f \in nodes \X Kind /\ differs(f)
  BY <1>3
<1>8. \A f \in nodes \X Kind : f[1] \in nodes /\ f[2] \in Kind
  OBVIOUS
<1> QED BY <1>3, <1>5, <1>6, <1>7, <1>8

\* Once the audit has passed, all that the callback wrote is in the scope of the
\* diff, and declared.
LEMMA Audited ==
    ASSUME NEW o \in Node, Typed, OneTree(o), TowerInv(o), NEW c \in Client, pc[c] = "diff", ~AuditFails(c)
    PROVE  /\ call[c].wrote \subseteq Changed(c, Scope(c))
           /\ \A f \in Changed(c, Scope(c)) : f \in call[c].wrote \/ f[2] = "scalars"
           /\ \A w \in call[c].wrote : w[1] \in call[c].declared
<1> DEFINE root == call[c].root
           wrote == call[c].wrote
<1>0. /\ wrote \subseteq Node \X Kind /\ call[c].declared \subseteq Node
      /\ root \in setup.root[c] /\ root \in Node /\ parent \in [Node -> Node]
  BY LocalTypes, Settings DEF Typed, StoreTyped, CallsTyped, Busy, InTower, WithReplica
<1>1. Scope(c) \subseteq Node /\ Branch(root) \subseteq Node
  BY <1>0, TopLevel DEF Scope
<1>2. \A w \in wrote : OwnershipRoot(w[1]) = o /\ (c \notin Tracked => w[1] \in Branch(root))
  BY DEF TowerInv, UpdateInv, Shadows, InBranch, WithReplica
<1>3. /\ \A w \in wrote : w[1] \in call[c].declared \/ (setup.undeclared /\ c \in Tracked /\ w[1] # root)
      /\ \A n \in call[c].declared : \E w \in wrote : w[1] = n
  BY DEF TowerInv, UpdateInv, Declares, WithReplica
<1>4. ASSUME NEW w \in wrote PROVE w[1] \in Scope(c) /\ w[1] \in call[c].declared
  <2>1. CASE c \notin Tracked
    BY <1>2, <1>3, <2>1 DEF Scope
  <2>2. CASE c \in Tracked /\ ~setup.undeclared
    BY <1>3, <2>2 DEF Scope
  <2>3. CASE c \in Tracked /\ setup.undeclared
    <3> DEFINE full == ChangedNodes(c, Branch(root))
               found == ChangedNodes(c, Scope(c))
    <3>1. \A n \in Node : OwnershipRoot(n) = o => n \in Branch(root)
      BY <1>0, <2>3 DEF OneTree
    <3>2. \A f \in wrote : f[1] \in Branch(root)
      BY <1>0, <1>2, <3>1
    <3>3. Scope(c) \subseteq Branch(root)
      <4>1. root \in Branch(root)
        BY <1>0, TopLevel
      <4>2. call[c].declared \subseteq Branch(root)
        BY <1>3, <3>2
      <4> QED BY <2>3, <4>1, <4>2 DEF Scope
    <3>4. w \in Changed(c, Branch(root))
      BY <1>1, <3>2, DiffFindsWrites
    <3>5. Cardinality(full) = Cardinality(found) \/ full \subseteq found
      BY <2>3 DEF AuditFails, OneTree
    <3>6. found \subseteq full /\ full \subseteq Node
      <4>1. Changed(c, Scope(c)) \subseteq Changed(c, Branch(root))
        BY <3>3 DEF Changed
      <4>2. \A f \in Changed(c, Branch(root)) : f[1] \in Node
        BY <1>1, DiffFindsWrites
      <4> QED BY <4>1, <4>2 DEF ChangedNodes
    <3>7. full = found
      <4> HIDE DEF full, found
      <4>1. IsFiniteSet(full)
        BY <3>6, TowerAssumption, FS_Subset
      <4>2. CASE Cardinality(full) = Cardinality(found)
        BY <3>6, <4>1, <4>2, FS_Subset
      <4> QED BY <3>5, <3>6, <4>2
    <3>8. w[1] \in full
      BY <3>4 DEF ChangedNodes
    <3>9. w[1] \in Scope(c)
      <4>1. PICK f \in Changed(c, Scope(c)) : w[1] = f[1]
        BY <3>7, <3>8 DEF ChangedNodes
      <4> QED BY <1>1, <4>1, DiffFindsWrites
    <3> QED BY <1>3, <2>3, <3>9 DEF Scope
  <2> QED BY <2>1, <2>2, <2>3
<1>5. /\ \A f \in wrote : f[1] \in Scope(c) => f \in Changed(c, Scope(c))
      /\ \A f \in Changed(c, Scope(c)) : f \in wrote \/ f[2] = "scalars"
  BY <1>1, DiffFindsWrites
<1> QED BY <1>4, <1>5

\* The end of the callback and the diff.
LEMMA DiffKeeps ==
    ASSUME NEW o \in Node, Typed, OneTree(o), TowerInv(o), NEW c \in Client,
           (CallbackEnds(c) /\ Synced(call[c].rep)) \/ Diff(c)
    PROVE  UpdateInv(o, c)'
<1>0. /\ HasTree(o, c) /\ Declares(c) /\ Lands(c) /\ Shadows(o, c) /\ Traces(c) /\ pc \in [Client \cup Outside -> Places]
      /\ call[c] \in Locals /\ DOMAIN call = Client
  BY LocalTypes DEF TowerInv, UpdateInv, Typed, CallsTyped
<1> DEFINE l == [call[c] EXCEPT !.fields = Changed(c, Scope(c))]
<1>1. /\ pc[c] \in {"callback", "diff"} /\ pc'[c] \in {"diff", "materialize"}
      /\ UNCHANGED <<store, tower, writeLock>>
      /\ call'[c] = call[c] \/ call'[c] = l
  BY <1>0 DEF CallbackEnds, Diff, Goto
<1>2. /\ live' = live /\ parent' = parent /\ epoch' = epoch /\ setup' = setup /\ replica' = replica /\ current' = current
      /\ writeLock' = writeLock /\ Tracked' = Tracked /\ ver' = ver /\ amid' = amid
  BY <1>1 DEF store, tower, Tracked
<1>3. /\ l.wrote = call[c].wrote /\ l.declared = call[c].declared /\ l.rep = call[c].rep /\ l.root = call[c].root
      /\ l.owner = call[c].owner /\ l.fields = Changed(c, Scope(c))
  BY <1>0 DEF Locals
<1>4. pc'[c] = "materialize" => pc[c] = "diff" /\ ~AuditFails(c) /\ call'[c] = l
  BY <1>0 DEF CallbackEnds, Diff, Goto
<1> HIDE DEF l
<1>5. Differs(c) /\ InBranch(o, c)
  <2>1. call[c].rep = current
    BY <1>0, <1>1 DEF HasTree, WithReplica
  <2>2. CASE pc[c] = "callback"
    BY <1>0, <2>1, <2>2 DEF Diff, Shadows
  <2>3. CASE pc[c] = "diff"
    BY <1>0, <2>3 DEF Shadows
  <2> QED BY <1>1, <2>2, <2>3
<1>6. HasTree(o, c)'
  BY <1>0, <1>1, <1>2, <1>3 DEF HasTree, InTower, WithReplica
<1>7. Declares(c)' /\ Works(c)'
  <2>1. \A w \in call[c].wrote : w[1] \in call[c].declared \/ (setup.undeclared /\ c \in Tracked /\ w[1] # call[c].root)
    BY <1>0, <1>1 DEF Declares, WithReplica
  <2>4. \A n \in call[c].declared : \E w \in call[c].wrote : w[1] = n
    BY <1>0, <1>1 DEF Declares, WithReplica
  <2>2. CASE pc'[c] = "diff"
    BY <1>1, <1>2, <1>3, <2>1, <2>2, <2>4 DEF Declares, Works
  <2>3. CASE pc'[c] = "materialize"
    <3>1. /\ call[c].wrote \subseteq l.fields /\ \A f \in l.fields : f \in call[c].wrote \/ f[2] = "scalars"
          /\ \A w \in call[c].wrote : w[1] \in call[c].declared
      BY <1>3, <1>4, <2>3, Audited
    <3> QED BY <1>2, <1>3, <1>4, <2>1, <2>3, <2>4, <3>1 DEF Declares, Works
  <2> QED BY <1>1, <2>2, <2>3
<1>8. Lands(c)'
  BY <1>0, <1>1, <1>2, NothingLands DEF Landed
<1>9. Shadows(o, c)'
  <2>1. \A n : OwnershipRoot(n)' = OwnershipRoot(n) /\ Branch(n)' = Branch(n)
    BY <1>2, SameOwners
  <2>2. \A n : Own(c, n)' = Own(c, n)
    BY <1>1, <1>3 DEF Own
  <2>3. call'[c].wrote = call[c].wrote /\ call'[c].root = call[c].root
    BY <1>1, <1>3
  <2>4. InBranch(o, c)'
    BY <1>2, <1>5, <2>1, <2>3 DEF InBranch
  <2>5. Differs(c)'
    BY <1>2, <1>5, <2>2, SeenNext DEF Differs
  <2> QED BY <1>1, <2>4, <2>5 DEF Shadows
<1>10. Traces(c)'
  <2>1. call'[c].wrote = call[c].wrote
    BY <1>1, <1>3
  <2> QED BY <1>0, <1>1, <1>2, <2>1 DEF Traces, Signed, WithReplica
<1> QED BY <1>6, <1>7, <1>8, <1>9, <1>10 DEF UpdateInv

\* A diff that finds nothing leaves the replica as it was.
LEMMA NothingKeeps ==
    ASSUME NEW o \in Node, Typed, OneTree(o), TowerInv(o), NEW c \in Client, DiffFindsNothing(c)
    PROVE  UpdateInv(o, c)' /\ AtRest'
<1>0. HasTree(o, c) /\ Lands(c) /\ Shadows(o, c) /\ Traces(c) /\ current \in Replica \cup {NoReplica}
  BY DEF TowerInv, UpdateInv, Typed, ShadowTyped
<1>1. /\ pc[c] = "diff" /\ ~AuditFails(c) /\ Changed(c, Scope(c)) = {} /\ LetGo(c, current) /\ Return(c, "ok")
      /\ live' = live /\ amid' = amid /\ current \in Replica
  BY OnCurrent DEF DiffFindsNothing, store, WithReplica
<1>2. call[c].wrote = {}
  BY <1>1, Audited
<1>3. pc'[c] = "ok" /\ call'[c].wrote = {}
  BY <1>1, <1>2, Returned
<1>4. Lands(c)'
  <2>1. \A n \in Node, kind \in Kind : <<c, kind>> \notin live[n]
    BY <1>0, <1>1 DEF Lands, Landed
  <2> QED BY <1>1, <1>3, <2>1 DEF Lands
<1>5. current' = current /\ replica'[current] = replica[current]
  BY <1>1, LetGoKeeps
<1>6. Untouched(c)
  BY <1>0, <1>2 DEF Traces, Untouched
<1>7. AtRest'
  <2>1. \A n : Own(c, n) = {}
    BY <1>2 DEF Own
  <2>2. Differs(c)
    BY <1>0, <1>1 DEF Shadows
  <2>3. ASSUME NEW n \in Node
        PROVE  /\ replica[current].base[n] = Relations(replica[current].rows[n])
               /\ Seen(replica[current].rows[n], amid) = Seen(live[n], amid)
    <3>1. Seen(replica[current].rows[n], amid) = Seen(live[n], amid) /\ replica[current].base[n] = Relations(live[n])
      BY <2>1, <2>2 DEF Differs
    <3>2. Relations(replica[current].rows[n]) = Relations(live[n])
      BY <3>1, SameRelations
    <3> QED BY <3>1, <3>2
  <2> QED BY <1>1, <1>5, <2>3 DEF AtRest, Relations, Fields, Seen
<1>8. Traces(c)' /\ c \notin amid'
  <2>1. Traces(c)'
    BY <1>5, <1>6, NoTraces DEF Untouched
  <2> QED BY <1>0, <1>1, <2>1 DEF HasTree, WithReplica
<1> QED BY <1>3, <1>4, <1>7, <1>8, OutOfTree DEF InTower, WithReplica

\* A field of a copy is the shadow's when the diff found it, and else the row's.
LEMMA CopiedField ==
    ASSUME NEW c, NEW n \in ChangedRows(c), NEW e
    PROVE  e \in Patched(c)[n] <=>
                e[2] \in Kind /\ IF <<n, e[2]>> \in call[c].fields THEN e \in replica[call[c].rep].rows[n] ELSE e \in live[n]
<1> DEFINE rows == replica[call[c].rep].rows[n]
           field(kind) == Fields(IF <<n, kind>> \in call[c].fields THEN rows ELSE live[n], kind)
<1>1. Patched(c)[n] = UNION {field(kind) : kind \in Kind}
  BY DEF Patched
<1>2. \A kind : e \in field(kind) <=> e[2] = kind /\ IF <<n, kind>> \in call[c].fields THEN e \in rows ELSE e \in live[n]
  BY DEF Fields
<1> HIDE DEF rows, field
<1>3. e \in Patched(c)[n] <=> \E kind \in Kind : e \in field(kind)
  BY <1>1
<1>4. e \in Patched(c)[n] <=> e[2] \in Kind /\ IF <<n, e[2]>> \in call[c].fields THEN e \in rows ELSE e \in live[n]
  BY <1>2, <1>3
<1> QED BY <1>4 DEF rows

\* The copies to commit are the rows with the edits of the callback, and scalars
\* that were committed before.
LEMMA CopiesAreEdits ==
    ASSUME NEW o \in Node, Typed, TowerInv(o), NEW c \in Client, pc[c] = "materialize"
    PROVE  /\ \A w \in call[c].wrote : w[1] \in ChangedRows(c)
           /\ \A n \in ChangedRows(c) :
                 /\ n \in Node /\ Seen(Patched(c)[n], amid) = Seen(live[n], amid) \cup Own(c, n)
                 /\ \A d \in Client, kind \in Kind : d # c /\ <<d, kind>> \in Patched(c)[n] => Signed(d, n, kind)
<1>0. /\ HasTree(o, c) /\ Shadows(o, c) /\ Works(c) /\ live \in [Node -> SUBSET Edit] /\ replica \in [Replica -> Shadow]
      /\ call[c].fields \subseteq Node \X Kind /\ call[c].rep = current /\ current \in Replica /\ current # NoReplica
  BY LocalTypes, OnCurrent DEF TowerInv, UpdateInv, Typed, StoreTyped, ShadowTyped, WithReplica
<1>1. call[c].wrote \subseteq call[c].fields /\ Differs(c)
  BY <1>0 DEF Works, Shadows
<1>2. \A w \in call[c].wrote : w[1] \in ChangedRows(c)
  BY <1>1 DEF ChangedRows
<1>3. ASSUME NEW n \in ChangedRows(c)
      PROVE  /\ n \in Node /\ Seen(Patched(c)[n], amid) = Seen(live[n], amid) \cup Own(c, n)
             /\ \A d \in Client, kind \in Kind : d # c /\ <<d, kind>> \in Patched(c)[n] => Signed(d, n, kind)
  <2> DEFINE P == Patched(c)[n]
             X == replica[current].rows[n]
             Y == live[n]
             O == Own(c, n)
  <2>1. n \in Node
    BY <1>0 DEF ChangedRows
  <2>2. Seen(X, amid) = Seen(Y, amid) \cup O
    BY <1>1, <2>1 DEF Differs
  <2>3. X \subseteq Edit /\ Y \subseteq Edit
    BY <1>0, <2>1 DEF Shadow
  <2>4. \A e : e \in P <=> e[2] \in Kind /\ IF <<n, e[2]>> \in call[c].fields THEN e \in X ELSE e \in Y
    BY <1>0, CopiedField
  <2>5. \A e \in O : <<n, e[2]>> \in call[c].fields /\ e[2] \in Kind
    <3>1. ASSUME NEW e \in O PROVE <<n, e[2]>> \in call[c].fields /\ e[2] \in Kind
      <4>1. PICK kind \in Kind : e = <<c, kind>> /\ <<n, kind>> \in call[c].wrote
        BY OwnEdits
      <4>2. e[2] = kind
        BY <4>1
      <4> QED BY <1>1, <4>1, <4>2
    <3> QED BY <3>1
  <2>6. ASSUME NEW d \in Client, NEW kind \in Kind, d # c, <<d, kind>> \in P PROVE Signed(d, n, kind)
    <3>1. <<d, kind>> \in X \/ <<d, kind>> \in Y
      BY <2>4, <2>6
    <3>2. pc[d] \notin InTower /\ pc[d] \notin WithReplica
      BY <2>6, Alone DEF InTower, WithReplica
    <3>3. Lands(d) /\ Traces(d)
      BY DEF TowerInv, UpdateInv
    <3>4. CASE <<d, kind>> \in X
      BY <1>0, <2>1, <3>2, <3>3, <3>4 DEF Traces
    <3>5. CASE <<d, kind>> \in Y
      BY <2>1, <3>2, <3>3, <3>5 DEF Lands, Landed, Signed, InTower, WithReplica
    <3> QED BY <3>1, <3>4, <3>5
  <2> HIDE DEF P, X, Y, O
  <2>7. ASSUME NEW e PROVE e \in Seen(P, amid) <=> e \in Seen(Y, amid) \/ e \in O
    <3>1. CASE <<n, e[2]>> \in call[c].fields
      <4>1. e \in P <=> e[2] \in Kind /\ e \in X
        BY <2>4, <3>1
      <4>2. e \in X => e[2] \in Kind
        BY <2>3 DEF Edit
      <4>3. e \in Seen(P, amid) <=> e \in Seen(X, amid)
        BY <4>1, <4>2 DEF Seen
      <4> QED BY <2>2, <4>3
    <3>2. CASE <<n, e[2]>> \notin call[c].fields
      <4>1. e \in P <=> e[2] \in Kind /\ e \in Y
        BY <2>4, <3>2
      <4>2. e \in Y => e[2] \in Kind
        BY <2>3 DEF Edit
      <4>3. e \in Seen(P, amid) <=> e \in Seen(Y, amid)
        BY <4>1, <4>2 DEF Seen
      <4> QED BY <2>5, <3>2, <4>3
    <3> QED BY <3>1, <3>2
  <2>8. Seen(P, amid) = Seen(Y, amid) \cup O
    BY <2>7
  <2> QED BY <2>1, <2>6, <2>8 DEF P, Y, O
<1> QED BY <1>2, <1>3

\* Making the copies.
LEMMA MaterializeKeeps ==
    ASSUME NEW o \in Node, Typed, OneTree(o), TowerInv(o), NEW c \in Client, Materialize(c)
    PROVE  UpdateInv(o, c)'
<1>0. /\ HasTree(o, c) /\ Declares(c) /\ Lands(c) /\ Shadows(o, c) /\ Traces(c) /\ pc \in [Client \cup Outside -> Places]
      /\ call[c] \in Locals /\ DOMAIN call = Client /\ ver \in [Node -> Nat]
  BY LocalTypes DEF TowerInv, UpdateInv, Typed, CallsTyped, StoreTyped
<1> DEFINE l == [call[c] EXCEPT !.work = Patched(c), !.fields = {}, !.seen = Versions(c)]
<1>1. /\ pc[c] = "materialize" /\ pc'[c] = IF Relational(c) THEN "relation" ELSE "commit"
      /\ UNCHANGED <<store, tower, writeLock>> /\ call'[c] = l
  BY <1>0, Materialized
<1>2. /\ live' = live /\ ver' = ver /\ parent' = parent /\ epoch' = epoch /\ setup' = setup
      /\ replica' = replica /\ current' = current /\ writeLock' = writeLock /\ Tracked' = Tracked /\ amid' = amid
  BY <1>1 DEF store, tower, Tracked
<1>3. /\ l.wrote = call[c].wrote /\ l.declared = call[c].declared /\ l.rep = call[c].rep /\ l.root = call[c].root
      /\ l.owner = call[c].owner /\ l.work = Patched(c) /\ l.seen = Versions(c)
  BY <1>0 DEF Locals
<1> HIDE DEF l
<1>4. HasTree(o, c)' /\ Declares(c)'
  BY <1>0, <1>1, <1>2, <1>3 DEF HasTree, Declares, InTower, WithReplica
<1>5. Lands(c)'
  BY <1>0, <1>1, <1>2, NothingLands DEF Landed
<1>6. \A n : Own(c, n)' = Own(c, n)
  BY <1>1, <1>3 DEF Own
<1>7. Shadows(o, c)'
  <2>1. \A n : OwnershipRoot(n)' = OwnershipRoot(n) /\ Branch(n)' = Branch(n)
    BY <1>2, SameOwners
  <2>2. Differs(c) /\ InBranch(o, c)
    BY <1>0, <1>1 DEF Shadows
  <2>3. call'[c].wrote = call[c].wrote /\ call'[c].root = call[c].root
    BY <1>1, <1>3
  <2>4. InBranch(o, c)'
    BY <1>2, <2>1, <2>2, <2>3 DEF InBranch
  <2>5. Differs(c)'
    BY <1>2, <1>6, <2>2, SeenNext DEF Differs
  <2> QED BY <1>1, <2>4, <2>5 DEF Shadows
<1>8. Works(c)'
  <2>1. /\ \A w \in call[c].wrote : w[1] \in ChangedRows(c)
        /\ \A n \in ChangedRows(c) :
              /\ n \in Node /\ Seen(Patched(c)[n], amid) = Seen(live[n], amid) \cup Own(c, n)
              /\ \A d \in Client, kind \in Kind : d # c /\ <<d, kind>> \in Patched(c)[n] => Signed(d, n, kind)
    BY <1>1, CopiesAreEdits
  <2>2. Touched(c)' = ChangedRows(c)
    BY <1>1, <1>3 DEF Touched, Patched
  <2>3. \A n \in ChangedRows(c) : Versions(c)[n] = ver[n] /\ ver[n] \in Nat
    BY <1>0, <2>1 DEF Versions
  <2>4. pc'[c] = "commit" => \A n \in ChangedRows(c) : Relations(Patched(c)[n]) = Relations(live[n])
    BY <1>1 DEF Relational
  <2>5. call'[c].wrote = call[c].wrote /\ call'[c].work = Patched(c) /\ call'[c].seen = Versions(c) /\ pc'[c] # "materialize"
    BY <1>1, <1>3
  <2>6. \A n \in ChangedRows(c) : Versions(c)[n] \in Nat /\ Versions(c)[n] <= ver[n]
    BY <2>3
  <2>7. \A d \in Client : \A n, kind : Signed(d, n, kind) => Signed(d, n, kind)'
    BY StaysSigned DEF ClientStep, Step
  <2>8. \A n \in ChangedRows(c), d \in Client, kind \in Kind :
          d # c /\ <<d, kind>> \in Patched(c)[n] => Signed(d, n, kind)'
    BY <2>1, <2>7
  <2>9. \A n : Seen(call[c].work[n], amid)' = Seen(call'[c].work[n], amid') /\ Seen(live[n], amid)' = Seen(live'[n], amid')
    BY DEF Seen
  <2>10. \A n : Relations(call[c].work[n])' = Relations(call'[c].work[n]) /\ Relations(live[n])' = Relations(live'[n])
    BY DEF Relations, Fields
  <2>11. \A n \in ChangedRows(c) :
            Seen(call[c].work[n], amid)' = Seen(live[n], amid)' \cup Own(c, n)'
    BY <1>2, <1>6, <2>1, <2>5, <2>9
  <2>12. pc'[c] = "commit" => \A n \in ChangedRows(c) : Relations(call[c].work[n])' = Relations(live[n])'
    BY <1>2, <2>4, <2>5, <2>10
  <2> QED BY <1>2, <2>1, <2>2, <2>5, <2>6, <2>8, <2>11, <2>12 DEF Works
<1>9. Traces(c)'
  <2>1. call'[c].wrote = call[c].wrote
    BY <1>1, <1>3
  <2> QED BY <1>0, <1>1, <1>2, <2>1 DEF Traces, Signed, WithReplica
<1> QED BY <1>4, <1>5, <1>7, <1>8, <1>9 DEF UpdateInv

\* A goroutine that publishes its rows has landed its edits.
LEMMA PublishLands ==
    ASSUME NEW o \in Node, Typed, TowerInv(o), NEW c \in Client, pc[c] \in {"commit", "relation"}, Current(c), Publish(c),
           Landed(c)', call'[c].wrote = call[c].wrote, call'[c].declared = call[c].declared
    PROVE  Lands(c)'
<1>0. Declares(c) /\ Lands(c) /\ Works(c) /\ c \notin amid /\ call[c].wrote \subseteq Node \X Kind
  BY LocalTypes DEF TowerInv, UpdateInv, HasTree, Typed
<1>1. amid' = amid /\ \A n \in Node : Seen(live'[n], amid') = Seen(live[n], amid) \cup Own(c, n)
  BY <1>0, PublishGrows
<1>2. \A n \in Node, kind \in Kind : <<c, kind>> \notin live[n]
  BY <1>0 DEF Lands, Landed
<1>3. \A w \in call[c].wrote : w[1] \in call[c].declared
  BY <1>0 DEF Declares
<1>4. ASSUME NEW n \in Node, NEW kind \in Kind, <<c, kind>> \in live'[n]
      PROVE  <<n, kind>> \in call[c].wrote /\ n \in call[c].declared
  <2>1. <<c, kind>> \in Own(c, n)
    <3>1. <<c, kind>> \in Seen(live'[n], amid')
      BY <1>0, <1>1, <1>4 DEF Seen
    <3>2. <<c, kind>> \notin Seen(live[n], amid)
      BY <1>2 DEF Seen
    <3> QED BY <1>1, <3>1, <3>2
  <2>2. PICK k \in Kind : <<c, kind>> = <<c, k>> /\ <<n, k>> \in call[c].wrote
    BY <2>1, OwnEdits
  <2>3. k = kind
    BY <2>2
  <2>4. <<n, kind>> \in call[c].wrote /\ <<n, kind>>[1] = n
    BY <2>2, <2>3
  <2>5. n \in call[c].declared
    BY <1>3, <2>4
  <2> QED BY <2>4, <2>5
<1>5. ASSUME NEW w \in call[c].wrote PROVE <<c, w[2]>> \in live'[w[1]]
  <2>1. w = <<w[1], w[2]>> /\ w[1] \in Node /\ w[2] \in Kind
    BY <1>0
  <2>2. <<c, w[2]>> \in Own(c, w[1])
    BY <2>1, OwnEdits
  <2>3. <<c, w[2]>> \in Seen(live'[w[1]], amid')
    BY <1>1, <2>1, <2>2
  <2> QED BY <2>3 DEF Seen
<1> QED BY <1>4, <1>5 DEF Lands

\* Commits.
LEMMA CommitsKeep ==
    ASSUME NEW o \in Node, Typed, OneTree(o), TowerInv(o), NEW c \in Client, CommitScalars(c) \/ CommitRelations(c)
    PROVE  UpdateInv(o, c)'
<1>0. /\ HasTree(o, c) /\ Declares(c) /\ Lands(c) /\ Shadows(o, c) /\ Works(c) /\ Traces(c) /\ pc \in [Client \cup Outside -> Places]
      /\ call[c] \in Locals /\ DOMAIN call = Client
  BY LocalTypes DEF TowerInv, UpdateInv, Typed, CallsTyped
<1>1. CASE CommitScalars(c)
  <2>1. /\ pc[c] = "commit" /\ pc'[c] = "capture" /\ Current(c) /\ Publish(c) /\ call' = call
        /\ replica' = replica /\ current' = current /\ writeLock' = writeLock
    BY <1>0, <1>1 DEF CommitScalars, Goto, tower
  <2>2. HasTree(o, c)' /\ Declares(c)' /\ Works(c)' /\ Traces(c)'
    <3>1. amid' = amid
      BY <2>1 DEF Publish
    <3>2. setup' = setup /\ Tracked' = Tracked
      BY <2>1 DEF Publish, Tracked
    <3>3. HasTree(o, c)' /\ Works(c)'
      BY <1>0, <2>1, <3>1 DEF HasTree, Works, InTower, WithReplica
    <3>4. Declares(c)'
      BY <1>0, <2>1, <3>2 DEF Declares, WithReplica
    <3>5. Traces(c)'
      BY <1>0, <2>1 DEF Traces, Signed, WithReplica
    <3> QED BY <3>3, <3>4, <3>5
  <2>3. Lands(c)'
    BY <2>1, PublishLands DEF Landed
  <2>4. Shadows(o, c)'
    <3>1. /\ \A n \in Node : Seen(live'[n], amid') = Seen(live[n], amid) \cup Own(c, n)
          /\ \A n \in Touched(c) : live'[n] = call[c].work[n]
          /\ \A n \in Node : n \notin Touched(c) => live'[n] = live[n]
          /\ amid' = amid
      BY <1>0, <2>1, PublishGrows DEF HasTree
    <3>2. Differs(c)
      BY <1>0, <2>1 DEF Shadows
    <3>3. ASSUME NEW n \in Node PROVE Relations(live'[n]) = Relations(live[n])
      <4>1. CASE n \in Touched(c)
        BY <1>0, <2>1, <3>1, <4>1 DEF Works
      <4>2. CASE n \notin Touched(c)
        BY <3>1, <4>2
      <4> QED BY <4>1, <4>2
    <3>4. \A n \in Node : /\ Seen(replica[current].rows[n], amid) = Seen(live'[n], amid')
                          /\ replica[current].base[n] = Relations(live'[n])
      BY <3>1, <3>2, <3>3 DEF Differs
    <3>5. Agrees'
      BY <2>1, <3>1, <3>4, SeenNext
    <3> QED BY <2>1, <3>5 DEF Shadows
  <2> QED BY <2>2, <2>3, <2>4 DEF UpdateInv
<1>2. CASE CommitRelations(c)
  <2>1. /\ pc[c] = "relation" /\ pc'[c] = "retire"
        /\ replica' = replica /\ current' = current /\ writeLock' = writeLock
        /\ \/ Current(c) /\ Publish(c) /\ call'[c] = [call[c] EXCEPT !.then = "ok"]
           \/ UNCHANGED store /\ \E p \in {"owner", "failed"} : call'[c] = [call[c] EXCEPT !.then = p]
    BY <1>0, <1>2 DEF CommitRelations, Goto, tower
  <2>2. /\ call'[c].wrote = call[c].wrote /\ call'[c].declared = call[c].declared /\ call'[c].rep = call[c].rep
        /\ call'[c].root = call[c].root /\ call'[c].owner = call[c].owner
        /\ \/ Current(c) /\ Publish(c) /\ call'[c].then = "ok"
           \/ UNCHANGED store /\ call'[c].then # "ok"
    BY <1>0, <2>1 DEF Locals
  <2>3. HasTree(o, c)' /\ Declares(c)' /\ Works(c)' /\ Traces(c)'
    <3>1. amid' = amid /\ setup' = setup /\ Tracked' = Tracked
      BY <2>2 DEF Publish, store, Tracked
    <3>3. HasTree(o, c)' /\ Works(c)'
      BY <1>0, <2>1, <2>2, <3>1 DEF HasTree, Works, InTower, WithReplica
    <3>4. Declares(c)'
      BY <1>0, <2>1, <2>2, <3>1 DEF Declares, WithReplica
    <3>5. Traces(c)'
      BY <1>0, <2>1, <2>2 DEF Traces, Signed, WithReplica
    <3> QED BY <3>3, <3>4, <3>5
  <2>4. CASE Current(c) /\ Publish(c) /\ call'[c].then = "ok"
    <3>1. Lands(c)'
      BY <2>1, <2>2, <2>4, PublishLands DEF Landed
    <3>2. epoch' = epoch + 1
      BY <2>4 DEF Publish
    <3>4. ~Synced(current)'
      BY <2>1, <3>2, FallsBehind
    <3>5. Shadows(o, c)'
      BY <2>1, <3>4 DEF Shadows
    <3> QED BY <2>3, <3>1, <3>5 DEF UpdateInv
  <2>5. CASE UNCHANGED store /\ call'[c].then # "ok"
    <3>1. live' = live /\ parent' = parent /\ epoch' = epoch /\ setup' = setup /\ Tracked' = Tracked /\ amid' = amid
      BY <2>5 DEF store, Tracked
    <3>2. Lands(c)'
      BY <1>0, <2>1, <2>5, <3>1, NothingLands DEF Landed
    <3>3. \A n : OwnershipRoot(n)' = OwnershipRoot(n) /\ Branch(n)' = Branch(n)
      BY <3>1, SameOwners
    <3>4. \A n : Own(c, n)' = Own(c, n)
      BY <2>2 DEF Own
    <3>5. Synced(current)' <=> Synced(current)
      BY <2>1, <3>1 DEF Synced
    <3>6. ASSUME Synced(current) PROVE Differs(c)' /\ InBranch(o, c)'
      <4>1. Differs(c) /\ InBranch(o, c)
        BY <1>0, <2>1, <3>6 DEF Shadows
      <4>2. Differs(c)'
        BY <2>1, <3>1, <3>4, <4>1, SeenNext DEF Differs
      <4>3. InBranch(o, c)'
        BY <2>2, <3>1, <3>3, <4>1 DEF InBranch
      <4> QED BY <4>2, <4>3
    <3>7. Shadows(o, c)'
      BY <2>1, <3>5, <3>6 DEF Shadows
    <3> QED BY <2>3, <3>2, <3>7 DEF UpdateInv
  <2> QED BY <2>2, <2>4, <2>5
<1> QED BY <1>1, <1>2

\* The replica takes the epochs of now, when it is the rows.
LEMMA CaptureKeeps ==
    ASSUME NEW o \in Node, Typed, OneTree(o), TowerInv(o), NEW c \in Client, CaptureEpochs(c)
    PROVE  UpdateInv(o, c)' /\ AtRest'
<1>0. HasTree(o, c) /\ Declares(c) /\ Lands(c) /\ Shadows(o, c) /\ Traces(c) /\ replica \in [Replica -> Shadow]
  BY DEF TowerInv, UpdateInv, Typed, ShadowTyped
<1>1. /\ pc[c] = "capture" /\ replica' = [replica EXCEPT ![call[c].rep].epoch = epoch] /\ Return(c, "ok")
      /\ live' = live /\ current' = current /\ amid' = amid
  BY DEF CaptureEpochs, store
<1>2. call[c].rep = current /\ current \in Replica
  BY <1>0, <1>1 DEF HasTree, WithReplica, Typed, CallsTyped
<1>3. pc'[c] = "ok" /\ call'[c].wrote = call[c].wrote /\ call'[c].declared = call[c].declared
  BY <1>1, Returned
<1>4. Lands(c)'
  BY <1>0, <1>1, <1>3 DEF Lands, Landed
<1>5. replica'[current].rows = replica[current].rows /\ replica'[current].base = replica[current].base
  BY <1>0, <1>1, <1>2 DEF Shadow
<1>6. ASSUME NEW n \in Node
      PROVE  /\ replica[current].base[n] = Relations(replica[current].rows[n])
             /\ Seen(replica[current].rows[n], amid) = Seen(live[n], amid)
  <2>1. Seen(replica[current].rows[n], amid) = Seen(live[n], amid) /\ replica[current].base[n] = Relations(live[n])
    BY <1>0, <1>1 DEF Shadows, Agrees
  <2>2. Relations(replica[current].rows[n]) = Relations(live[n])
    BY <2>1, SameRelations
  <2> QED BY <2>1, <2>2
<1>7. AtRest'
  BY <1>1, <1>5, <1>6 DEF AtRest, Relations, Fields, Seen
<1>8. Traces(c)'
  <2>1. ASSUME NEW n \in Node, NEW kind \in Kind, <<c, kind>> \in replica'[current].rows[n], current # NoReplica
        PROVE  <<n, kind>> \in call[c].wrote /\ n \in call[c].declared
    <3>1. <<n, kind>> \in call[c].wrote /\ <<n, kind>>[1] = n
      BY <1>0, <1>5, <2>1 DEF Traces
    <3> QED BY <1>0, <1>1, <3>1 DEF Declares
  <2> QED BY <1>1, <1>3, <2>1 DEF Traces, Signed
<1> QED BY <1>3, <1>4, <1>7, <1>8, OutOfTree DEF InTower, WithReplica

\* The steps of an update with a replica, one by one.
LEMMA InTowerKeeps ==
    ASSUME NEW o \in Node, Typed, OneTree(o), TowerInv(o), NEW c \in Client, ClientStep(c), pc[c] \in InTower
    PROVE  UpdateInv(o, c)' /\ AtRest'
<1>0. pc \in [Client \cup Outside -> Places] /\ AtRest
  BY DEF Typed, CallsTyped, TowerInv
<1>1. ASSUME pc'[c] \in WithReplica PROVE AtRest'
  BY <1>1 DEF AtRest
<1>2. CASE LoadReplica(c) \/ FindRebuilt(c) \/ Rebuild(c)
  <2>1. pc'[c] \in WithReplica
    BY <1>0, <1>2 DEF LoadReplica, FindRebuilt, Rebuild, StartCallback, Goto, WithReplica
  <2> QED BY <1>1, <1>2, <2>1, ReplicaKeeps
<1>3. CASE LoadStaleReplica(c) \/ LockRebuild(c)
  <2>1. /\ replica' = replica /\ current' = current /\ pc[c] \notin WithReplica
        /\ \A d \in Client : d # c => pc'[d] = pc[d]
    BY <1>0, <1>3 DEF LoadStaleReplica, LockRebuild, Goto, tower, WithReplica
  <2>2. Grows(c)
    BY ClientGrows
  <2>3. \A d \in Client : pc[d] \in WithReplica => pc'[d] \in WithReplica
    BY <2>1
  <2>4. AtRest'
    BY <1>0, <2>1, <2>2, <2>3, StaysAtRest
  <2> QED BY <1>3, <2>4, ReplicaKeeps
<1>4. ASSUME NEW n \in Node, NEW kind \in Kind, Write(c, n, kind) \/ WriteUndeclared(c, n, kind)
      PROVE  UpdateInv(o, c)' /\ AtRest'
  <2>1. pc'[c] \in WithReplica
    BY <1>4 DEF Write, WriteUndeclared, WriteShadow, WithReplica
  <2> QED BY <1>1, <1>4, <2>1, WriteKeeps
<1>5. CASE (CallbackEnds(c) /\ Synced(call[c].rep)) \/ Diff(c)
  <2>1. pc'[c] \in WithReplica
    BY <1>0, <1>5 DEF CallbackEnds, Diff, Goto, WithReplica
  <2> QED BY <1>1, <1>5, <2>1, DiffKeeps
<1>6. CASE Materialize(c)
  <2>1. pc'[c] \in WithReplica
    BY <1>0, <1>6, Materialized DEF WithReplica
  <2> QED BY <1>1, <1>6, <2>1, MaterializeKeeps
<1>7. CASE CommitScalars(c) \/ CommitRelations(c)
  <2>1. pc'[c] \in WithReplica
    BY <1>0, <1>7 DEF CommitScalars, CommitRelations, Goto, WithReplica
  <2> QED BY <1>1, <1>7, <2>1, CommitsKeep
<1>8. CASE \/ CallbackFails(c) \/ DiffFails(c) \/ ConflictScalars(c) \/ FailScalars(c) \/ RetireAfterRelations(c)
           \/ CallbackEnds(c) /\ ~Synced(call[c].rep)
  BY <1>8, LeavesKeep
<1>9. CASE DiffFindsNothing(c)
  BY <1>9, NothingKeeps
<1>10. CASE CaptureEpochs(c)
  BY <1>10, CaptureKeeps
<1>11. ~(\E r \in setup.root[c] : UpdateWithin(c, r)) /\ ~UpdateByEngine(c) /\ ~EnterTower(c) /\ ~ReadOwner(c) /\ ~LockTree(c)
  BY DEF UpdateWithin, UpdateByEngine, EnterTower, ReadOwner, LockTree, InTower, WithReplica
<1> QED BY <1>2, <1>3, <1>4, <1>5, <1>6, <1>7, <1>8, <1>9, <1>10, <1>11 DEF ClientStep, Step

\* A commit outside Tower that is seen stays.
LEMMA CommitsStay ==
    ASSUME NEW g, Grows(g), NEW e \in Outside \ amid', pc'[e] = pc[e], \A f \in Outside \ amid : Stays(f)
    PROVE  Stays(e)'
<1>1. e \notin amid /\ \A n \in Node : Seen(live[n], amid) \subseteq live'[n]
  BY DEF Grows
<1>2. ASSUME pc[e] = "ok" PROVE \E n \in Node, kind \in Kind : <<e, kind>> \in live'[n]
  <2>1. PICK n \in Node : \E kind \in Kind : <<e, kind>> \in live[n]
    BY <1>1, <1>2 DEF Stays
  <2>2. PICK kind \in Kind : <<e, kind>> \in live[n]
    BY <2>1
  <2>3. <<e, kind>> \in Seen(live[n], amid)
    BY <1>1, <2>2 DEF Seen
  <2> QED BY <1>1, <2>3
<1> QED BY <1>2 DEF Stays

\* Every step keeps the invariant.
LEMMA TowerStep ==
    ASSUME NEW o \in Node, Typed, OneTree(o), TowerInv(o), [Next]_vars
    PROVE  TowerInv(o)'
<1>0. /\ AtRest /\ (\A e \in Outside \ amid : Stays(e)) /\ pc \in [Client \cup Outside -> Places]
      /\ \A c \in Client : UpdateInv(o, c)
  BY DEF TowerInv, Typed, CallsTyped
<1>1. ASSUME NEW c \in Client, ClientStep(c) PROVE TowerInv(o)'
  <2>1. \A d \in Client : d # c => UpdateInv(o, d)'
    BY <1>1, OthersKeep
  <2>2. UpdateInv(o, c)' /\ AtRest'
    <3>1. CASE pc[c] \in InTower
      BY <1>1, <3>1, InTowerKeeps
    <3>2. CASE pc[c] \notin InTower
      <4>1. \A d \in Client : pc[d] \in WithReplica => pc'[d] \in WithReplica
        BY <1>1, <3>2, ClientFrame DEF InTower
      <4>2. replica' = replica /\ current' = current /\ Grows(c)
        BY <1>1, <3>2, EntrySteps, ClientGrows
      <4>3. AtRest'
        BY <1>0, <4>1, <4>2, StaysAtRest
      <4> QED BY <1>1, <3>2, <4>3, EntryKeeps
    <3> QED BY <3>1, <3>2
  <2>3. \A e \in Outside \ amid' : Stays(e)'
    <3>1. \A e \in Outside : e # c /\ pc'[e] = pc[e]
      BY <1>1, ClientFrame, TowerAssumption
    <3>2. Grows(c)
      BY <1>1, ClientGrows
    <3> QED BY <1>0, <3>1, <3>2, CommitsStay
  <2> QED BY <2>1, <2>2, <2>3 DEF TowerInv
<1>2. ASSUME NEW e \in Outside, OutsideStep(e) PROVE TowerInv(o)'
  <2>1. \A d \in Client : UpdateInv(o, d)'
    BY <1>2, OthersKeep, TowerAssumption
  <2>2. /\ Grows(e) /\ replica' = replica /\ current' = current
        /\ \A d \in Client : pc'[d] = pc[d]
        /\ pc' = [pc EXCEPT ![e] = "ok"]
        /\ \E n \in Node, kind \in Kind : <<e, kind>> \in live'[n]
    BY <1>2, OutsideGrows
  <2>3. AtRest'
    BY <1>0, <2>2, StaysAtRest
  <2>4. \A f \in Outside \ amid' : Stays(f)'
    <3>1. \A f \in Outside : f # e => pc'[f] = pc[f]
      BY <1>0, <2>2
    <3>2. Stays(e)'
      BY <2>2 DEF Stays
    <3>3. \A f \in Outside \ amid' : f # e => Stays(f)'
      BY <1>0, <2>2, <3>1, CommitsStay
    <3> QED BY <3>2, <3>3
  <2> QED BY <2>1, <2>3, <2>4 DEF TowerInv
<1>3. CASE UNCHANGED vars
  <2> USE DEF vars, store, tower
  <2>1. \A n : OwnershipRoot(n)' = OwnershipRoot(n) /\ Branch(n)' = Branch(n)
    BY <1>3, SameOwners
  <2>2. \A c, n : Own(c, n)' = Own(c, n)
    BY <1>3 DEF Own
  <2>3. \A c \in Client : HasTree(o, c)' /\ Declares(c)' /\ Lands(c)' /\ Traces(c)'
    BY <1>0, <1>3 DEF UpdateInv, HasTree, Declares, Lands, Landed, Tracked, Traces, Signed
  <2>4. Synced(current)' <=> Synced(current)
    BY <1>3 DEF Synced
  <2>5. ASSUME NEW c \in Client PROVE Shadows(o, c)'
    <3>1. (Differs(c) => Differs(c)') /\ (Agrees => Agrees')
      BY <1>3, <2>2, SeenNext DEF Differs, Agrees
    <3>2. InBranch(o, c) => InBranch(o, c)'
      BY <1>3, <2>1 DEF InBranch, Tracked
    <3>3. pc' = pc /\ Shadows(o, c)
      BY <1>0, <1>3 DEF UpdateInv
    <3> QED BY <2>4, <3>1, <3>2, <3>3 DEF Shadows
  <2>6. \A c \in Client : Works(c)'
    BY <1>0, <1>3, <2>2 DEF UpdateInv, Works, Touched, Relations, Fields, Seen, Signed
  <2>7. AtRest' /\ \A e \in Outside \ amid' : Stays(e)'
    BY <1>0, <1>3, <2>4 DEF AtRest, Stays, Relations, Fields, Seen
  <2> QED BY <2>3, <2>5, <2>6, <2>7 DEF TowerInv, UpdateInv
<1>4. Next => \/ \E c \in Client : ClientStep(c)
              \/ \E e \in Outside : OutsideStep(e)
              \/ UNCHANGED vars
  BY DEF Next, ClientStep, OutsideStep, Terminating
<1> QED BY <1>1, <1>2, <1>3, <1>4

\* It holds at first.
LEMMA TowerStart == ASSUME NEW o \in Node, Init PROVE TowerInv(o)
<1>1. \A c \in Client : pc[c] = "idle" /\ call[c].wrote = {}
  BY DEF Init, Idle
<1>2. \A n \in Node : live[n] = {}
  BY DEF Init
<1>3. ASSUME NEW c \in Client PROVE UpdateInv(o, c)
  <2>1. Lands(c)
    BY <1>1, <1>2 DEF Lands, Landed
  <2>2. HasTree(o, c) /\ Declares(c) /\ Shadows(o, c) /\ Traces(c)
    BY <1>1 DEF Init, HasTree, Declares, Shadows, Traces, InTower, WithReplica
  <2>3. Works(c)
    BY <1>1 DEF Works
  <2> QED BY <2>1, <2>2, <2>3 DEF UpdateInv
<1>4. AtRest /\ \A e \in Outside \ amid : Stays(e)
  BY DEF Init, AtRest, Stays
<1> QED BY <1>3, <1>4 DEF TowerInv

\* While the updates stay in one tree, the invariant holds.
LEMMA TowerInvariant == ASSUME NEW o \in Node PROVE Spec /\ []OneTree(o) => [](Typed /\ TowerInv(o))
<1>1. Init => TowerInv(o)
  BY TowerStart
<1>2. Typed /\ OneTree(o) /\ TowerInv(o) /\ [Next]_vars => TowerInv(o)'
  BY TowerStep
<1> QED BY <1>1, <1>2, TypedInvariant, PTL DEF Spec

\* In one tree, UpdateWithin returns nil when the edits of its callback are in the
\* rows, and no later refresh, diff or commit takes them out again; nor a commit of
\* the engine, from a row without children or from outside Tower, unless it was one
\* of scalars inside an attempt of another update.
THEOREM AnsweredUpdatesLand == ASSUME NEW o \in Node PROVE Spec /\ []OneTree(o) => []UpdatesLand
<1>1. TowerInv(o) => UpdatesLand
  BY DEF TowerInv, UpdateInv, Lands, Landed, UpdatesLand
<1> QED BY <1>1, TowerInvariant, PTL

\* In one tree, no commit of Tower publishes edits of another callback, of one that
\* failed or is still running, or of a row that was not declared, whatever commits of
\* the engine fall between its steps: what the diff finds beyond the edits of its own
\* callback is scalars that were committed before.
THEOREM NoForeignEdits == ASSUME NEW o \in Node PROVE Spec /\ []OneTree(o) => []OnlyOwnEdits
<1>1. TowerInv(o) => OnlyOwnEdits
  BY DEF TowerInv, UpdateInv, Lands, Landed, OnlyOwnEdits
<1> QED BY <1>1, TowerInvariant, PTL

\* In one tree, a replica that passes synced() holds the committed rows wherever no
\* update holds the lock of the tree, its relation baseline included: all relations,
\* and all scalars but those that were committed inside an attempt, which the epochs
\* cannot tell from the attempt's own.
THEOREM SyncedReplicas == ASSUME NEW o \in Node PROVE Spec /\ []OneTree(o) => []SyncedIsCommitted
<1>1. Typed /\ TowerInv(o) => SyncedIsCommitted
  <2> SUFFICES ASSUME Typed, TowerInv(o), Synced(current), NEW n \in Node, writeLock[OwnershipRoot(n)] = Nobody
               PROVE  /\ Seen(replica[current].rows[n], amid) = Seen(live[n], amid)
                      /\ replica[current].base[n] = Relations(live[n])
    BY DEF SyncedIsCommitted, Noticed, Seen
  <2>1. CASE \A c \in Client : pc[c] \notin WithReplica
    <3>1. /\ replica[current].base[n] = Relations(replica[current].rows[n])
          /\ Seen(replica[current].rows[n], amid) = Seen(live[n], amid)
      BY <2>1 DEF TowerInv, AtRest, Synced
    <3> QED BY <3>1, SameRelations
  <2>2. ASSUME NEW c \in Client, pc[c] \in WithReplica
        PROVE  /\ Seen(replica[current].rows[n], amid) = Seen(live[n], amid)
               /\ replica[current].base[n] = Relations(live[n])
    <3>1. HasTree(o, c) /\ Shadows(o, c)
      BY DEF TowerInv, UpdateInv
    <3>2. writeLock[o] = c /\ c # Nobody
      BY <2>2, <3>1, TowerAssumption DEF HasTree, InTower
    <3>3. OwnershipRoot(n) # o
      BY <3>2
    <3>4. CASE pc[c] = "capture"
      BY <3>1, <3>4 DEF Shadows, Agrees
    <3>5. CASE pc[c] # "capture"
      <4>1. /\ Seen(replica[current].rows[n], amid) = Seen(live[n], amid) \cup Own(c, n)
            /\ replica[current].base[n] = Relations(live[n])
            /\ \A w \in call[c].wrote : OwnershipRoot(w[1]) = o
        BY <2>2, <3>1, <3>5 DEF Shadows, Differs, InBranch, WithReplica
      <4>2. Own(c, n) = {}
        BY <3>3, <4>1, OwnTyped
      <4> QED BY <4>1, <4>2
    <3> QED BY <3>4, <3>5
  <2> QED BY <2>1, <2>2
<1> QED BY <1>1, TowerInvariant, PTL
=============================================================================
