------------------------ MODULE TransactionEngineProofs ------------------------
(***************************************************************************)
(* Proofs about TransactionEngine, for every number of goroutines, rows,   *)
(* types and operations: type correctness, the order of the locks, what    *)
(* two commits exclude, and unique keys.                                   *)
(***************************************************************************)
EXTENDS TransactionEngine, TLAPS

----------------------------------------------------------------------------
(* Lock order *)

GraphMu == [kind |-> "graph", id |-> 0, gen |-> 0]
StructureMu(t) == [kind |-> "structure", id |-> t, gen |-> 0]
BranchMu(r) == [kind |-> "branch", id |-> RootOf[r], gen |-> 0]

\* c has the mutex for writing and no reader is left.
Owns(c, l) == writer[l] = c /\ readers[l] = {}

\* c has not been granted the mutex yet.
Waits(c, kind, id) == \E q \in want[c] : q.kind = kind /\ q.id = id

\* Requests name mutexes that exist.
Proper ==
    {q \in Request :
        /\ q.kind = "graph" => q.id = 0
        /\ q.kind = "structure" => q.id \in Type
        /\ q.kind \in {"branch", "row", "update"} => q.id \in Row}

\* Which mutexes an operation waits for at each place, and how.
WaitsAt(p, q) ==
    \/ p = "load" /\ q.kind = "graph" /\ ~q.excl
    \/ p = "load" /\ q.kind = "row"
    \/ p = "stage" /\ q.kind = "row" /\ ~q.excl
    \/ p = "within" /\ q.kind = "update" /\ q.excl
    \/ p = "view" /\ q.kind \in {"graph", "structure", "branch", "row"} /\ ~q.excl
    \/ p = "prepare" /\ q.kind = "graph"
    \/ p = "prepare" /\ q.kind = "structure" /\ q.excl
    \/ p = "commit" /\ q.kind \in {"branch", "row"} /\ q.excl

\* The rows that an operation locks exclusively are the ones it will unlock by id.
Requests(c) ==
    /\ \A q \in want[c] :
        /\ q \in Proper
        /\ WaitsAt(pc[c], q)
        /\ q.kind = "row" /\ q.excl => q.id \in asked[c]
        /\ q.kind = "row" /\ ~q.excl => asked[c] = {}
    /\ pc[c] \notin {"load", "commit", "publish", "release"} => asked[c] = {}
    /\ pc[c] = "idle" => mode[c] = "none"
    /\ pc[c] = "within" => mode[c] = "within"

\* The slot that was found is the next request's, and not a later one than exists.
Targets(c) ==
    /\ want[c] = {} => target[c] = 0
    /\ \A q \in want[c] : IsNext(c, q) /\ q.kind = "row" => target[c] <= slots[q.id]

\* The mutex of a row that is in resById, not of a slot that a delete left behind.
Live(l) == l.kind = "row" => l.id \in present /\ l.gen = slots[l.id]

\* What an operation holds, or has announced, at each place.
Holds(c) ==
    \A l \in AllLocks :
        /\ writer[l] = c =>
            /\ l.kind = "row" => l.gen <= slots[l.id] /\ (Live(l) => l.id \in asked[c])
            /\ l.kind = "update" => mode[c] = "within"
            /\ l.kind \in {"graph", "structure"} => pc[c] \in {"prepare", "commit", "publish", "release"}
            /\ l.kind = "branch" => pc[c] \in {"commit", "publish", "release"}
        /\ c \in readers[l] =>
            /\ pc[c] \notin {"idle", "open", "within", "retry", "changes"}
            /\ pc[c] \in {"prepare", "commit", "publish"} => l.kind \in {"graph", "structure"}

\* Everything held comes before everything awaited, but for a mutex that is
\* announced and awaited at once.
InOrder(c) ==
    \A l \in AllLocks, q \in want[c] :
        /\ c \in readers[l] => Before(l, q)
        /\ writer[l] = c /\ Live(l) => Before(l, q) \/ (IsNext(c, q) /\ l = LockOf(c, q))

\* The order of LocksInOrder, for programs that delete too: the mutexes that
\* deleted rows leave locked are not counted.
LiveLocksInOrder ==
    \A c \in Client : \A l \in Held(c), q \in want[c] : Live(l) => Before(l, q)

LockInv == \A c \in Client : Requests(c) /\ Targets(c) /\ Holds(c) /\ InOrder(c)

----------------------------------------------------------------------------
(* Exclusion *)

\* A commit that changes relations, and one that only writes rows of the graph
Reshapes(c) == LinksChanged(c) \/ \E r \in Structural(c) : InGraph(r)
Writes(c) == \E r \in Touched(c) : InGraph(r)

\* The rows whose type a commit has to itself
Shaped(c) == Structural(c) \cup {s \in Touched(c) : RowType[s] \in UniqueTypes}

\* From validation to publication a commit has graphMu, its structures and, once
\* granted, its branches.
Excludes(c) ==
    /\ pc[c] \in {"prepare", "commit", "publish"} =>
        /\ \A q \in want[c] : q.kind = "graph" => (q.excl <=> Reshapes(c))
        /\ Reshapes(c) => Waits(c, "graph", 0) \/ Owns(c, GraphMu)
        /\ Writes(c) => Waits(c, "graph", 0) \/ Owns(c, GraphMu) \/ c \in readers[GraphMu]
        /\ \A r \in Shaped(c) : Waits(c, "structure", RowType[r]) \/ Owns(c, StructureMu(RowType[r]))
    /\ pc[c] \in {"commit", "publish"} =>
        \A r \in LockedRows(c) : Waits(c, "branch", RootOf[r]) \/ Owns(c, BranchMu(r))

\* Branches are created and deleted whole.
WholeBranches(c) ==
    /\ \A r \in Deleted(c) : RootOf[r] = r
    /\ pc[c] = "stage" => \A r \in arg[c] : RootOf[r] = r
    /\ \A r \in Created(c) : RootOf[r] = r => Subtree(r) \subseteq Created(c)

\* What commit has validated is true until it publishes.
StillFree(c) == pc[c] \in {"commit", "publish"} => Created(c) \cap present = {}
StillCurrent(c) == pc[c] = "publish" => ~StaleWrite(c) /\ ~StaleDelete(c)
StillUnique(c) == pc[c] = "publish" => IndexValid(c)

ExclusionInv ==
    \A c \in Client : Excludes(c) /\ WholeBranches(c) /\ StillFree(c) /\ StillCurrent(c) /\ StillUnique(c)

----------------------------------------------------------------------------
(* Requests *)

\* The rows of an ownership branch.
LEMMA SubtreeRows == \A r \in Row : Subtree(r) \subseteq Row /\ r \in Subtree(r)
BY DEF Subtree

\* Names of rows, types and kinds of mutexes.
LEMMA Names ==
    /\ Row \subseteq Nat /\ Type \subseteq Nat /\ 0 \in Nat
    /\ RootOf \in [Row -> Row] /\ RowType \in [Row -> Type]
    /\ \A r \in Row : RootOf[r] \in Row /\ RowType[r] \in Type
BY EngineAssumption DEF Row, Type

\* cloneOwnershipAggregate asks for graphMu shared and for the rows of the branch
\* exclusively.
LEMMA CloneRequests ==
    ASSUME NEW r \in Row, NEW q \in CloneLocks(r)
    PROVE  /\ q \in Proper
           /\ \/ q.kind = "graph" /\ q.id = 0 /\ q.excl = FALSE
              \/ q.kind = "row" /\ q.excl = TRUE /\ RowLock(q.id, TRUE) \in CloneLocks(r)
<1>1. q = Graph(FALSE) \/ \E s \in Subtree(r) : q = RowLock(s, TRUE)
  BY DEF CloneLocks
<1>2. CASE q = Graph(FALSE)
  BY <1>2, Names DEF Graph, Proper, Request, Kind
<1>3. ASSUME NEW s \in Subtree(r), q = RowLock(s, TRUE)
      PROVE  q \in Proper /\ q.kind = "row" /\ q.excl = TRUE /\ RowLock(q.id, TRUE) \in CloneLocks(r)
  <2>1. q.id = s /\ q.kind = "row" /\ q.excl = TRUE
    BY <1>3 DEF RowLock
  <2>2. s \in Row /\ s \in Nat
    BY SubtreeRows, Names
  <2>3. q \in Proper
    BY <1>3, <2>2 DEF RowLock, Proper, Request, Kind
  <2> QED BY <1>3, <2>1, <2>3
<1> QED BY <1>1, <1>2, <1>3

\* getDetachedRoot asks for the same, or for graphMu and its one row shared.
LEMMA DetachedRequests ==
    ASSUME NEW r \in Row, NEW q \in DetachedLocks(r)
    PROVE  /\ q \in Proper
           /\ \/ q.kind = "graph" /\ q.id = 0 /\ q.excl = FALSE
              \/ q.kind = "row" /\ q.excl = TRUE /\ RowLock(q.id, TRUE) \in DetachedLocks(r)
              \/ q.kind = "row" /\ q.excl = FALSE /\ \A s \in Row : RowLock(s, TRUE) \notin DetachedLocks(r)
<1>1. CASE Subtree(r) # {r}
  BY <1>1, CloneRequests DEF DetachedLocks
<1>2. CASE Subtree(r) = {r}
  <2>1. \A p \in DetachedLocks(r) : p = Graph(FALSE) \/ p = RowLock(r, FALSE)
    BY <1>2 DEF DetachedLocks
  <2>2. \A s \in Row : RowLock(s, TRUE) \notin DetachedLocks(r)
    BY <2>1 DEF Graph, RowLock
  <2>3. CASE q = Graph(FALSE)
    BY <2>3, Names DEF Graph, Proper, Request, Kind
  <2>4. CASE q = RowLock(r, FALSE)
    <3>1. q.kind = "row" /\ q.excl = FALSE
      BY <2>4 DEF RowLock
    <3>2. q \in Proper
      BY <2>4, Names DEF RowLock, Proper, Request, Kind
    <3> QED BY <2>2, <3>1, <3>2
  <2> QED BY <2>1, <2>3, <2>4
<1> QED BY <1>1, <1>2

\* What a commit has changed is rows.
LEMMA CommitRows ==
    ASSUME NEW c \in Client
    PROVE  /\ Touched(c) \subseteq Row /\ Created(c) \subseteq Row /\ Deleted(c) \subseteq Row
           /\ Structural(c) \subseteq Row /\ LockedRows(c) \subseteq Row /\ Doomed(c) \subseteq Row
           /\ Shaped(c) \subseteq Row
<1>1. Touched(c) \subseteq Row /\ Created(c) \subseteq Row /\ Deleted(c) \subseteq Row
  BY DEF Touched, Loaded, Created, Deleted
<1>2. Structural(c) \subseteq Row /\ LockedRows(c) \subseteq Row /\ Shaped(c) \subseteq Row
  BY <1>1 DEF Structural, LockedRows, Shaped
<1>3. Doomed(c) \subseteq Row
  BY <1>1, SubtreeRows DEF Doomed
<1> QED BY <1>1, <1>2, <1>3

\* commit asks for graphMu, exclusively if relations change, and for the structure
\* of each type it shapes.
LEMMA ShapeRequests ==
    ASSUME NEW c \in Client
    PROVE  /\ \A q \in GraphAccess(c) \cup StructureLocks(c) :
                /\ q \in Proper
                /\ \/ q.kind = "graph" /\ q.id = 0 /\ (q.excl <=> Reshapes(c))
                   \/ q.kind = "structure" /\ q.excl
           /\ Reshapes(c) \/ Writes(c) => \E q \in GraphAccess(c) : q.kind = "graph" /\ q.id = 0
           /\ \A r \in Shaped(c) : \E q \in StructureLocks(c) : q.kind = "structure" /\ q.id = RowType[r]
<1>1. \A q \in GraphAccess(c) : q \in Proper /\ q.kind = "graph" /\ q.id = 0 /\ (q.excl <=> Reshapes(c))
  <2>1. Graph(TRUE) \in Proper /\ Graph(FALSE) \in Proper
    BY Names DEF Graph, Proper, Request, Kind
  <2>2. /\ Graph(TRUE).kind = "graph" /\ Graph(TRUE).id = 0 /\ Graph(TRUE).excl = TRUE
        /\ Graph(FALSE).kind = "graph" /\ Graph(FALSE).id = 0 /\ Graph(FALSE).excl = FALSE
    BY DEF Graph
  <2>3. CASE Reshapes(c)
    <3>1. GraphAccess(c) = {Graph(TRUE)}
      BY <2>3 DEF GraphAccess, Reshapes
    <3> QED BY <2>1, <2>2, <2>3, <3>1
  <2>4. CASE ~Reshapes(c)
    <3>1. GraphAccess(c) \subseteq {Graph(FALSE)}
      BY <2>4 DEF GraphAccess, Reshapes
    <3> QED BY <2>1, <2>2, <2>4, <3>1
  <2> QED BY <2>3, <2>4
<1>2. Reshapes(c) \/ Writes(c) => \E q \in GraphAccess(c) : q.kind = "graph" /\ q.id = 0
  BY DEF GraphAccess, Reshapes, Writes, Graph
<1>3. \A q \in StructureLocks(c) : q \in Proper /\ q.kind = "structure" /\ q.excl
  <2> SUFFICES ASSUME NEW q \in StructureLocks(c) PROVE q \in Proper /\ q.kind = "structure" /\ q.excl
    OBVIOUS
  <2>1. PICK r \in Row : q = Structure(RowType[r], TRUE)
    BY CommitRows DEF StructureLocks, Shaped
  <2> QED BY <2>1, Names DEF Structure, Proper, Request, Kind
<1>4. \A r \in Shaped(c) : \E q \in StructureLocks(c) : q.kind = "structure" /\ q.id = RowType[r]
  <2> SUFFICES ASSUME NEW r \in Shaped(c)
               PROVE  \E q \in StructureLocks(c) : q.kind = "structure" /\ q.id = RowType[r]
    OBVIOUS
  <2>1. Structure(RowType[r], TRUE) \in StructureLocks(c)
    BY DEF StructureLocks, Shaped
  <2> QED BY <2>1 DEF Structure
<1> QED BY <1>1, <1>2, <1>3, <1>4

\* Then it asks for branches and rows, all of them exclusively.
LEMMA RowRequests ==
    ASSUME NEW c \in Client
    PROVE  /\ \A q \in RowLocks(c) :
                /\ q \in Proper /\ q.kind \in {"branch", "row"} /\ q.excl
                /\ q.kind = "row" => q.id \in LockedRows(c)
           /\ \A r \in LockedRows(c) :
                /\ \E q \in RowLocks(c) : q.kind = "branch" /\ q.id = RootOf[r]
                /\ \E q \in RowLocks(c) : q.kind = "row" /\ q.id = r
<1>1. \A q \in RowLocks(c) :
         /\ q \in Proper /\ q.kind \in {"branch", "row"} /\ q.excl
         /\ q.kind = "row" => q.id \in LockedRows(c)
  <2> SUFFICES ASSUME NEW q \in RowLocks(c)
               PROVE  /\ q \in Proper /\ q.kind \in {"branch", "row"} /\ q.excl
                      /\ q.kind = "row" => q.id \in LockedRows(c)
    OBVIOUS
  <2>1. PICK r \in LockedRows(c) : q = Branch(r, TRUE) \/ q = RowLock(r, TRUE)
    BY DEF RowLocks
  <2>2. r \in Row /\ r \in Nat /\ RootOf[r] \in Row /\ RootOf[r] \in Nat
    BY CommitRows, Names
  <2>3. CASE q = Branch(r, TRUE)
    BY <2>2, <2>3 DEF Branch, Proper, Request, Kind
  <2>4. CASE q = RowLock(r, TRUE)
    BY <2>2, <2>4 DEF RowLock, Proper, Request, Kind
  <2> QED BY <2>1, <2>3, <2>4
<1>2. ASSUME NEW r \in LockedRows(c)
      PROVE  /\ \E q \in RowLocks(c) : q.kind = "branch" /\ q.id = RootOf[r]
             /\ \E q \in RowLocks(c) : q.kind = "row" /\ q.id = r
  <2>1. Branch(r, TRUE) \in RowLocks(c) /\ RowLock(r, TRUE) \in RowLocks(c)
    BY DEF RowLocks
  <2> QED BY <2>1 DEF Branch, RowLock
<1> QED BY <1>1, <1>2

----------------------------------------------------------------------------
(* Type correctness *)

\* The mutexes of the engine; a row and its updateMu have one per slot.
LEMMA LockNames ==
    ASSUME NEW l
    PROVE  l \in AllLocks <=>
             \/ l = GraphMu
             \/ \E t \in Type : l = [kind |-> "structure", id |-> t, gen |-> 0]
             \/ \E r \in Row : l = [kind |-> "branch", id |-> r, gen |-> 0]
             \/ \E k \in {"row", "update"}, r \in Row, g \in 1 .. MaxSlots :
                   l = [kind |-> k, id |-> r, gen |-> g]
BY DEF AllLocks, GraphMu

\* The requests of one row or one type.
LEMMA OneRequest ==
    /\ Graph(FALSE) \in Proper /\ Graph(FALSE).kind = "graph" /\ Graph(FALSE).id = 0 /\ ~Graph(FALSE).excl
    /\ \A t \in Type :
        Structure(t, FALSE) \in Proper /\ Structure(t, FALSE).kind = "structure" /\ ~Structure(t, FALSE).excl
    /\ \A r \in Row :
        /\ Branch(r, FALSE) \in Proper /\ Branch(r, FALSE).kind = "branch" /\ ~Branch(r, FALSE).excl
        /\ Branch(r, FALSE).id = RootOf[r]
        /\ RowLock(r, FALSE) \in Proper /\ RowLock(r, FALSE).kind = "row" /\ RowLock(r, FALSE).id = r
        /\ ~RowLock(r, FALSE).excl
        /\ UpdateMu(r) \in Proper /\ UpdateMu(r).kind = "update" /\ UpdateMu(r).excl
<1>1. ASSUME NEW r \in Row
      PROVE  /\ Branch(r, FALSE) \in Proper /\ Branch(r, FALSE).kind = "branch" /\ ~Branch(r, FALSE).excl
             /\ Branch(r, FALSE).id = RootOf[r]
             /\ RowLock(r, FALSE) \in Proper /\ RowLock(r, FALSE).kind = "row" /\ RowLock(r, FALSE).id = r
             /\ ~RowLock(r, FALSE).excl
             /\ UpdateMu(r) \in Proper /\ UpdateMu(r).kind = "update" /\ UpdateMu(r).excl
  <2>1. r \in Nat /\ RootOf[r] \in Row /\ RootOf[r] \in Nat
    BY Names
  <2>2. /\ Branch(r, FALSE) \in Proper /\ Branch(r, FALSE).kind = "branch" /\ ~Branch(r, FALSE).excl
        /\ Branch(r, FALSE).id = RootOf[r]
    BY <2>1 DEF Branch, Proper, Request, Kind
  <2>3. /\ RowLock(r, FALSE) \in Proper /\ RowLock(r, FALSE).kind = "row" /\ RowLock(r, FALSE).id = r
        /\ ~RowLock(r, FALSE).excl
    BY <2>1 DEF RowLock, Proper, Request, Kind
  <2>4. UpdateMu(r) \in Proper /\ UpdateMu(r).kind = "update" /\ UpdateMu(r).excl
    BY <2>1 DEF UpdateMu, Proper, Request, Kind
  <2> QED BY <2>2, <2>3, <2>4
<1>2. Graph(FALSE) \in Proper /\ Graph(FALSE).kind = "graph" /\ Graph(FALSE).id = 0 /\ ~Graph(FALSE).excl
  BY Names DEF Graph, Proper, Request, Kind
<1>3. ASSUME NEW t \in Type
      PROVE  Structure(t, FALSE) \in Proper /\ Structure(t, FALSE).kind = "structure" /\ ~Structure(t, FALSE).excl
  BY Names DEF Structure, Proper, Request, Kind
<1> QED BY <1>1, <1>2, <1>3

ViewManyLocks(t, rows) ==
    {Graph(FALSE) : u \in {t} \cap Participants} \cup {Structure(t, FALSE)}
    \cup {RowLock(r, FALSE) : r \in rows}

\* What ViewMany asks for, all of it shared.
LEMMA ViewManyRequests ==
    ASSUME NEW t \in Type, NEW rows \in SUBSET Row, NEW q \in ViewManyLocks(t, rows)
    PROVE  q \in Proper /\ q.kind \in {"graph", "structure", "row"} /\ ~q.excl
<1>1. q = Graph(FALSE) \/ q = Structure(t, FALSE) \/ \E r \in Row : q = RowLock(r, FALSE)
  BY DEF ViewManyLocks
<1>2. CASE q = Graph(FALSE)
  BY <1>2, OneRequest
<1>3. CASE q = Structure(t, FALSE)
  BY <1>3, OneRequest
<1>4. ASSUME NEW r \in Row, q = RowLock(r, FALSE)
      PROVE  q \in Proper /\ q.kind \in {"graph", "structure", "row"} /\ ~q.excl
  BY <1>4, OneRequest
<1> QED BY <1>1, <1>2, <1>3, <1>4

\* A mutex that a request leads to exists once the slot is known.
LEMMA LockOfRequest ==
    ASSUME TypeOK, NEW c \in Client, NEW q \in Proper, InSlot(q) => target[c] # 0
    PROVE  LockOf(c, q) \in AllLocks /\ LockOf(c, q).kind = q.kind /\ LockOf(c, q).id = q.id
<1>1. LockOf(c, q).kind = q.kind /\ LockOf(c, q).id = q.id
  BY DEF LockOf
<1>2. q.kind \in Kind
  BY DEF Proper, Request
<1>3. CASE q.kind \in {"row", "update"}
  <2>1. target[c] \in 1 .. MaxSlots
    BY <1>3, EngineAssumption DEF TypeOK, InSlot
  <2>2. LockOf(c, q) = [kind |-> q.kind, id |-> q.id, gen |-> target[c]] /\ q.id \in Row
    BY <1>3 DEF LockOf, InSlot, Proper
  <2> QED BY <1>1, <1>3, <2>1, <2>2, LockNames
<1>4. CASE q.kind = "graph"
  BY <1>1, <1>4, LockNames DEF LockOf, InSlot, Proper, GraphMu
<1>5. CASE q.kind = "structure"
  BY <1>1, <1>5, LockNames DEF LockOf, InSlot, Proper
<1>6. CASE q.kind = "branch"
  BY <1>1, <1>6, LockNames DEF LockOf, InSlot, Proper
<1> QED BY <1>2, <1>3, <1>4, <1>5, <1>6 DEF Kind

\* Proper requests are requests.
LEMMA ProperAreRequests == Proper \subseteq Request
BY DEF Proper

\* The variables that only some actions change keep their types when they stay.
LEMMA TypeCalls ==
    ASSUME TypeOK, NEW c \in Client, Calls(c)
    PROVE  TypeOK'
<1> USE DEF rowVars, lockVars, txVars, opVars
<1>1. CASE Begin(c)
  BY <1>1 DEF Begin, Start, Enter, TypeOK, Places
<1>2. ASSUME NEW r \in Row, Get(c, r) PROVE TypeOK'
  <2> DEFINE D == DetachedLocks(r)
             A == {s \in Row : RowLock(s, TRUE) \in D}
  <2>1. D \subseteq Request /\ A \subseteq Row
    BY DetachedRequests, ProperAreRequests
  <2>2. want' = [want EXCEPT ![c] = D] /\ asked' = [asked EXCEPT ![c] = A]
    BY <1>2 DEF Get
  <2> HIDE DEF D, A
  <2>3. want' \in [Client -> SUBSET Request] /\ asked' \in [Client -> SUBSET Row]
    BY <2>1, <2>2 DEF TypeOK
  <2>4. /\ pc' = [pc EXCEPT ![c] = "load"] /\ mode' = [mode EXCEPT ![c] = "detached"]
        /\ arg' = [arg EXCEPT ![c] = {r}] /\ budget' = [budget EXCEPT ![c] = @ - 1] /\ budget[c] > 0
        /\ UNCHANGED <<rowVars, lockVars, txVars, target, back>>
    BY <1>2 DEF Get, Start
  <2> QED BY <2>3, <2>4 DEF TypeOK, Places
<1>3. ASSUME NEW r \in Row, UpdateWithin(c, r) PROVE TypeOK'
  <2>1. {UpdateMu(r)} \subseteq Request
    BY OneRequest, ProperAreRequests
  <2> QED BY <1>3, <2>1 DEF UpdateWithin, Enter, Start, TypeOK, Places
<1>4. ASSUME NEW r \in Row, View(c, r) PROVE TypeOK'
  <2>1. Graph(FALSE) \in Request /\ Branch(r, FALSE) \in Request
    BY OneRequest, ProperAreRequests
  <2>2. RowLock(r, FALSE) \in Request
    BY OneRequest, ProperAreRequests
  <2>3. \E rows \in SUBSET Row, requests \in SUBSET Request : Enter(c, "view", rows, "view", requests)
    BY <1>4, <2>1, <2>2, SubtreeRows DEF View
  <2> QED BY <1>4, <2>3 DEF View, Enter, Start, TypeOK, Places
<1>5. ASSUME NEW t \in Type, NEW rows \in SUBSET Row, ViewMany(c, t, rows) PROVE TypeOK'
  <2>1. ViewManyLocks(t, rows) \subseteq Request
    BY ViewManyRequests, ProperAreRequests
  <2>2. Enter(c, "view", rows, "view", ViewManyLocks(t, rows)) /\ Start(c, "ViewMany")
    BY <1>5 DEF ViewMany, ViewManyLocks
  <2> QED BY <2>1, <2>2 DEF Enter, Start, TypeOK, Places
<1>6. ASSUME NEW r \in Row, TxGet(c, r) PROVE TypeOK'
  <2>1. CloneLocks(r) \subseteq Request
    BY CloneRequests, ProperAreRequests
  <2> QED BY <1>6, <2>1 DEF TxGet, Locking, TypeOK, Places
<1>7. ASSUME NEW r \in Row, TxDelete(c, r) PROVE TypeOK'
  <2>1. {RowLock(r, FALSE)} \subseteq Request
    BY OneRequest, ProperAreRequests
  <2> QED BY <1>7, <2>1 DEF TxDelete, Locking, TypeOK, Places
<1>8. ASSUME NEW r \in Row, TxDeleteCreated(c, r) PROVE TypeOK'
  BY <1>8 DEF TxDeleteCreated, TypeOK, Staged
<1>9. ASSUME NEW r \in Row, NEW v \in Value, TxCreate(c, r, v) PROVE TypeOK'
  BY <1>9 DEF TxCreate, TypeOK
<1>10. CASE Abort(c)
  BY <1>10 DEF Abort, Evict, NoRows, TypeOK, Places
<1>11. ASSUME NEW w \in [Row -> Value \cup {Nothing}], Commit(c, w) PROVE TypeOK'
  <2>1. \A r \in Row : snap[c][r] # Nothing => w[r] \in Value /\ snap[c][r] \in Snapshots
    BY <1>11 DEF Commit, Loaded, TypeOK
  <2>2. snap' \in [Client -> [Row -> Snapshots \cup {Nothing}]]
    BY <1>11, <2>1 DEF Commit, TypeOK, Snapshots
  <2> QED BY <1>11, <2>2 DEF Commit, TypeOK, Places
<1> QED BY <1>1, <1>2, <1>3, <1>4, <1>5, <1>6, <1>7, <1>8, <1>9, <1>10, <1>11 DEF Calls

\* The values a commit leads to are values.
LEMMA AfterValues ==
    ASSUME TypeOK, NEW c \in Client, NEW r \in Row
    PROVE  AfterVal(c, r) \in Value
BY DEF AfterVal, Created, Touched, Loaded, TypeOK, Snapshots

\* A snapshot of a row is one.
LEMMA SnapshotTyped == TypeOK => \A r \in Row : Snapshot(r) \in Snapshots
BY DEF TypeOK, Snapshot, Snapshots

\* The types of a transaction's working set
TxTyped ==
    /\ snap \in [Client -> [Row -> Snapshots \cup {Nothing}]]
    /\ news \in [Client -> [Row -> Value \cup {Nothing}]]
    /\ dels \in [Client -> [Row -> Staged \cup {Nothing}]]

\* evict empties the working set of c, and refresh renews its copies.
LEMMA EvictTyped ==
    ASSUME TypeOK, NEW c \in Client, UNCHANGED txVars \/ Evict(c) \/ Refresh(c)
    PROVE  TxTyped'
<1>0. TxTyped
  BY DEF TypeOK, TxTyped
<1>1. CASE UNCHANGED txVars
  BY <1>0, <1>1 DEF txVars, TxTyped
<1>2. CASE Evict(c)
  <2>1. NoRows \in [Row -> Snapshots \cup {Nothing}] /\ NoRows \in [Row -> Value \cup {Nothing}]
    BY DEF NoRows
  <2>2. NoRows \in [Row -> Staged \cup {Nothing}]
    BY DEF NoRows
  <2> QED BY <1>0, <1>2, <2>1, <2>2 DEF Evict, TxTyped
<1>3. CASE Refresh(c)
  <2> DEFINE F == [r \in Row |-> IF snap[c][r] # Nothing /\ r \in present THEN Snapshot(r) ELSE snap[c][r]]
  <2>1. F \in [Row -> Snapshots \cup {Nothing}]
    BY <1>0, SnapshotTyped DEF TxTyped
  <2>2. snap' = [snap EXCEPT ![c] = F] /\ news' = news /\ dels' = dels
    BY <1>0, <1>3 DEF Refresh, TxTyped
  <2> HIDE DEF F
  <2> QED BY <1>0, <2>1, <2>2 DEF TxTyped
<1> QED BY <1>1, <1>2, <1>3

\* The library's steps keep the types.
LEMMA TypeRuns ==
    ASSUME TypeOK, NEW c \in Client, Runs(c)
    PROVE  TypeOK'
<1> USE DEF rowVars, lockVars, txVars, opVars
<1>1. CASE Lookup(c)
  <2>1. PICK q \in want[c] :
           /\ InSlot(q)
           /\ \/ q.id \in present /\ target' = [target EXCEPT ![c] = slots[q.id]] /\ UNCHANGED <<want, pc, back>>
              \/ want' = [want EXCEPT ![c] = @ \ {q}] /\ UNCHANGED <<target, pc, back>>
              \/ /\ want' = [want EXCEPT ![c] = {}] /\ pc' = [pc EXCEPT ![c] = "release"]
                 /\ back' = [back EXCEPT ![c] = IF mode[c] = "tx" THEN "open" ELSE "idle"] /\ UNCHANGED target
    BY <1>1 DEF Lookup
  <2>2. UNCHANGED <<rowVars, lockVars, txVars, opVars, asked>>
    BY <1>1 DEF Lookup
  <2>3. want \in [Client -> SUBSET Request] /\ slots \in [Row -> 0 .. MaxSlots] /\ present \subseteq Row
    BY DEF TypeOK
  <2>4. want' \in [Client -> SUBSET Request]
    BY <2>1, <2>3
  <2>5. target' \in [Client -> 0 .. MaxSlots]
    BY <2>1, <2>3 DEF TypeOK
  <2>6. pc' \in [Client -> Places] /\ back' \in [Client -> {"idle", "open", "retry"}]
    BY <2>1 DEF TypeOK, Places
  <2> QED BY <2>2, <2>4, <2>5, <2>6 DEF TypeOK
<1>2. CASE Announce(c)
  <2>1. writer' \in [AllLocks -> Client \cup {NoClient}]
    BY <1>2 DEF Announce, TypeOK
  <2> QED BY <1>2, <2>1 DEF Announce, TypeOK
<1>3. CASE Acquire(c)
  <2>1. readers' \in [AllLocks -> SUBSET Client]
    <3>1. PICK l : UNCHANGED readers \/ readers' = [readers EXCEPT ![l] = @ \cup {c}]
      BY <1>3 DEF Acquire
    <3>2. readers \in [AllLocks -> SUBSET Client]
      BY DEF TypeOK
    <3>3. \A m \in AllLocks : readers'[m] \in SUBSET Client
      BY <3>1, <3>2
    <3> QED BY <3>1, <3>2, <3>3
  <2>2. want' \in [Client -> SUBSET Request] /\ target' \in [Client -> 0 .. MaxSlots]
    BY <1>3, EngineAssumption DEF Acquire, TypeOK
  <2> QED BY <1>3, <2>1, <2>2 DEF Acquire, TypeOK
<1>4. CASE Release(c)
  BY <1>4 DEF Release, TypeOK, Places
<1>5. CASE Attempt(c)
  <2>1. PICK r \in arg[c] : Locking(c, "load", {r}, CloneLocks(r))
    BY <1>5 DEF Attempt
  <2>2. r \in Row
    BY DEF TypeOK
  <2>3. CloneLocks(r) \subseteq Request
    BY <2>2, CloneRequests, ProperAreRequests
  <2> QED BY <1>5, <2>1, <2>2, <2>3 DEF Attempt, Locking, TypeOK, Places
<1>6. CASE Snap(c)
  <2>1. snap' \in [Client -> [Row -> Snapshots \cup {Nothing}]]
    <3>1. PICK r \in arg[c] : UNCHANGED snap \/ snap' = [snap EXCEPT ![c] = [s \in Row |->
                   IF s \in Subtree(r) /\ @[s] = Nothing THEN Snapshot(s) ELSE @[s]]]
      BY <1>6 DEF Snap
    <3> DEFINE F == [s \in Row |-> IF s \in Subtree(r) /\ snap[c][s] = Nothing THEN Snapshot(s) ELSE snap[c][s]]
    <3>2. F \in [Row -> Snapshots \cup {Nothing}]
      BY SnapshotTyped DEF TypeOK
    <3>3. UNCHANGED snap \/ snap' = [snap EXCEPT ![c] = F]
      BY <3>1 DEF TypeOK
    <3> HIDE DEF F
    <3> QED BY <3>2, <3>3 DEF TypeOK
  <2>2. back' \in [Client -> {"idle", "open", "retry"}]
    BY <1>6 DEF Snap, TypeOK
  <2>3. pc' \in [Client -> Places]
    BY <1>6 DEF Snap, TypeOK, Places
  <2> QED BY <1>6, <2>1, <2>2, <2>3 DEF Snap, TypeOK
<1>7. CASE BeginView(c)
  BY <1>7 DEF BeginView, TypeOK, Places
<1>8. CASE EndView(c)
  BY <1>8 DEF EndView, TypeOK, Places
<1>9. CASE StageDelete(c)
  <2>1. dels' \in [Client -> [Row -> Staged \cup {Nothing}]]
    BY <1>9 DEF StageDelete, TypeOK, Staged
  <2> QED BY <1>9, <2>1 DEF StageDelete, TypeOK, Places
<1>10. CASE Changes(c)
  <2>1. GraphAccess(c) \cup StructureLocks(c) \subseteq Request
    BY ShapeRequests, ProperAreRequests
  <2>2. want' \in [Client -> SUBSET Request] /\ pc' \in [Client -> Places]
    <3>1. \/ want' = want /\ pc' = [pc EXCEPT ![c] = "release"]
          \/ /\ want' = [want EXCEPT ![c] = GraphAccess(c) \cup StructureLocks(c)]
             /\ pc' = [pc EXCEPT ![c] = "prepare"]
      BY <1>10 DEF Changes
    <3>2. want \in [Client -> SUBSET Request] /\ pc \in [Client -> Places]
      BY DEF TypeOK
    <3>3. GraphAccess(c) \cup StructureLocks(c) \in SUBSET Request
      BY <2>1
    <3> QED BY <3>1, <3>2, <3>3 DEF Places
  <2>3. UNCHANGED txVars \/ Evict(c)
    BY <1>10 DEF Changes
  <2>4. TxTyped'
    BY <2>3, EvictTyped
  <2>5. UNCHANGED <<rowVars, lockVars, opVars, target, asked, back>>
    BY <1>10 DEF Changes
  <2> QED BY <2>2, <2>4, <2>5 DEF TypeOK, TxTyped
<1>12. ASSUME NEW b \in BOOLEAN, Refuse(c, b)
       PROVE  pc' \in [Client -> Places] /\ back' \in [Client -> {"idle", "open", "retry"}]
  BY <1>12 DEF Refuse, TypeOK, Places
<1>13. CASE Prepare(c)
  <2>1. RowLocks(c) \subseteq Request /\ LockedRows(c) \subseteq Row
    BY RowRequests, ProperAreRequests, CommitRows
  <2>2. want' \in [Client -> SUBSET Request] /\ asked' \in [Client -> SUBSET Row]
    <3>1. \/ want' = want /\ asked' = asked
          \/ want' = [want EXCEPT ![c] = RowLocks(c)] /\ asked' = [asked EXCEPT ![c] = LockedRows(c)]
      BY <1>13 DEF Prepare
    <3>2. want \in [Client -> SUBSET Request] /\ asked \in [Client -> SUBSET Row]
      BY DEF TypeOK
    <3> QED BY <2>1, <3>1, <3>2
  <2>3. pc' \in [Client -> Places] /\ back' \in [Client -> {"idle", "open", "retry"}]
    BY <1>13, <1>12 DEF Prepare, TypeOK, Places
  <2>4. UNCHANGED txVars \/ Evict(c)
    BY <1>13 DEF Prepare
  <2>5. TxTyped'
    BY <2>4, EvictTyped
  <2> QED BY <1>13, <2>2, <2>3, <2>5 DEF Prepare, TypeOK, TxTyped
<1>14. CASE Conflict(c)
  <2>1. pc' \in [Client -> Places] /\ back' \in [Client -> {"idle", "open", "retry"}]
    BY <1>14, <1>12 DEF Conflict
  <2>2. TxTyped'
    BY <1>14, EvictTyped DEF Conflict
  <2> QED BY <1>14, <2>1, <2>2 DEF Conflict, TypeOK, TxTyped
<1>15. CASE Reject(c)
  <2>1. pc' \in [Client -> Places] /\ back' \in [Client -> {"idle", "open", "retry"}]
    BY <1>15, <1>12 DEF Reject
  <2>2. TxTyped'
    BY <1>15, EvictTyped DEF Reject
  <2> QED BY <1>15, <2>1, <2>2 DEF Reject, TypeOK, TxTyped
<1>16. CASE Log(c)
  BY <1>16 DEF Log, TypeOK, Places
<1>17. CASE Publish(c)
  <2>1. present' \subseteq Row
    BY <1>17, CommitRows DEF Publish, AfterRows, TypeOK
  <2>2. slots' \in [Row -> 0 .. MaxSlots]
    BY <1>17, EngineAssumption DEF Publish, TypeOK
  <2>3. val' \in [Row -> Value]
    BY <1>17, AfterValues DEF Publish
  <2>4. ver' \in [Row -> Nat] /\ commits' \in [Row -> Nat]
    BY <1>17 DEF Publish, TypeOK
  <2>5. TxTyped'
    BY <1>17, EvictTyped DEF Publish
  <2>6. pc' \in [Client -> Places] /\ back' \in [Client -> {"idle", "open", "retry"}]
    BY <1>17 DEF Publish, TypeOK, Places
  <2> QED BY <1>17, <2>1, <2>2, <2>3, <2>4, <2>5, <2>6 DEF Publish, TypeOK, TxTyped
<1> QED BY <1>1, <1>2, <1>3, <1>4, <1>5, <1>6, <1>7, <1>8, <1>9, <1>10, <1>13, <1>14,
           <1>15, <1>16, <1>17 DEF Runs

\* Nothing is locked, loaded or staged when the program starts.
LEMMA TypeInit == Init => TypeOK
<1> SUFFICES ASSUME Init PROVE TypeOK
  OBVIOUS
<1>1. val \in [Row -> Value] /\ slots \in [Row -> 0 .. MaxSlots] /\ budget \in [Client -> Nat]
  <2>1. 0 \in 0 .. MaxSlots /\ 1 \in 0 .. MaxSlots /\ (CHOOSE v \in Value : TRUE) \in Value
    BY EngineAssumption
  <2>2. \A r \in Row : StartRows[r] \in Value \cup {Nothing}
    BY EngineAssumption
  <2> QED BY <2>1, <2>2, EngineAssumption DEF Init
<1>2. ver \in [Row -> Nat] /\ commits \in [Row -> Nat] /\ target \in [Client -> 0 .. MaxSlots]
  BY EngineAssumption DEF Init
<1>3. writer \in [AllLocks -> Client \cup {NoClient}] /\ readers \in [AllLocks -> SUBSET Client]
  BY DEF Init
<1>4. /\ pc \in [Client -> Places] /\ back \in [Client -> {"idle", "open", "retry"}]
      /\ mode \in [Client -> {"none", "tx", "detached", "within", "view"}]
  BY DEF Init, Places
<1>5. /\ arg \in [Client -> SUBSET Row] /\ want \in [Client -> SUBSET Request]
      /\ asked \in [Client -> SUBSET Row]
  BY DEF Init
<1>6. /\ snap \in [Client -> [Row -> Snapshots \cup {Nothing}]]
      /\ news \in [Client -> [Row -> Value \cup {Nothing}]]
      /\ dels \in [Client -> [Row -> Staged \cup {Nothing}]]
  BY DEF Init, NoRows
<1> QED BY <1>1, <1>2, <1>3, <1>4, <1>5, <1>6 DEF Init, TypeOK

\* Every action keeps the types.
LEMMA TypeStep == TypeOK /\ [Next]_vars => TypeOK'
<1>1. TypeOK /\ UNCHANGED vars => TypeOK'
  BY DEF vars, rowVars, lockVars, txVars, opVars, TypeOK
<1> QED BY <1>1, TypeCalls, TypeRuns DEF Next

\* Rows, locks, working sets and positions have their types in every reachable
\* state.
THEOREM TypeCorrect == Spec => []TypeOK
BY TypeInit, TypeStep, PTL DEF Spec

----------------------------------------------------------------------------
(* What a step of one goroutine leaves alone *)

\* The position, requests and working set of goroutine c
Same(c) ==
    /\ pc'[c] = pc[c] /\ mode'[c] = mode[c] /\ arg'[c] = arg[c] /\ want'[c] = want[c]
    /\ target'[c] = target[c] /\ asked'[c] = asked[c] /\ back'[c] = back[c]
    /\ snap'[c] = snap[c] /\ news'[c] = news[c] /\ dels'[c] = dels[c]

\* A goroutine's step changes only its own position, requests and working set.
LEMMA OthersSame ==
    ASSUME TypeOK, NEW d \in Client, Calls(d) \/ Runs(d), NEW c \in Client, c # d
    PROVE  Same(c)
<1> USE DEF rowVars, lockVars, txVars, opVars
<1>1. CASE Begin(d)
  BY <1>1 DEF Begin, Enter, TypeOK, Same
<1>2. ASSUME NEW r \in Row, Get(d, r) PROVE Same(c)
  <2>1. \E D, A : want' = [want EXCEPT ![d] = D] /\ asked' = [asked EXCEPT ![d] = A]
    BY <1>2 DEF Get
  <2>2. /\ pc' = [pc EXCEPT ![d] = "load"] /\ mode' = [mode EXCEPT ![d] = "detached"]
        /\ arg' = [arg EXCEPT ![d] = {r}]
        /\ UNCHANGED <<rowVars, lockVars, txVars, target, back>>
    BY <1>2 DEF Get
  <2> QED BY <2>1, <2>2 DEF TypeOK, Same
<1>3. ASSUME NEW r \in Row, UpdateWithin(d, r) PROVE Same(c)
  BY <1>3 DEF UpdateWithin, Enter, TypeOK, Same
<1>4. ASSUME NEW r \in Row, View(d, r) PROVE Same(c)
  <2>1. \E rows, requests : Enter(d, "view", rows, "view", requests)
    BY <1>4 DEF View
  <2> QED BY <2>1 DEF Enter, TypeOK, Same
<1>5. ASSUME NEW t \in Type, NEW rows \in SUBSET Row, ViewMany(d, t, rows) PROVE Same(c)
  <2>1. \E requests : Enter(d, "view", rows, "view", requests)
    BY <1>5 DEF ViewMany
  <2> QED BY <2>1 DEF Enter, TypeOK, Same
<1>6. ASSUME NEW r \in Row, TxGet(d, r) PROVE Same(c)
  BY <1>6 DEF TxGet, Locking, TypeOK, Same
<1>7. ASSUME NEW r \in Row, TxDelete(d, r) PROVE Same(c)
  BY <1>7 DEF TxDelete, Locking, TypeOK, Same
<1>8. ASSUME NEW r \in Row, TxDeleteCreated(d, r) PROVE Same(c)
  BY <1>8 DEF TxDeleteCreated, TypeOK, Same
<1>9. ASSUME NEW r \in Row, NEW v \in Value, TxCreate(d, r, v) PROVE Same(c)
  BY <1>9 DEF TxCreate, TypeOK, Same
<1>10. CASE Abort(d)
  BY <1>10 DEF Abort, Evict, TypeOK, Same
<1>11. ASSUME NEW w \in [Row -> Value \cup {Nothing}], Commit(d, w) PROVE Same(c)
  BY <1>11 DEF Commit, TypeOK, Same
<1>12. CASE Lookup(d)
  BY <1>12 DEF Lookup, TypeOK, Same
<1>13. CASE Announce(d)
  BY <1>13 DEF Announce, TypeOK, Same
<1>14. CASE Acquire(d)
  BY <1>14 DEF Acquire, TypeOK, Same
<1>15. CASE Release(d)
  BY <1>15 DEF Release, TypeOK, Same
<1>16. CASE Attempt(d)
  BY <1>16 DEF Attempt, Locking, TypeOK, Same
<1>17. CASE Snap(d)
  BY <1>17 DEF Snap, TypeOK, Same
<1>18. CASE BeginView(d)
  BY <1>18 DEF BeginView, TypeOK, Same
<1>19. CASE EndView(d)
  BY <1>19 DEF EndView, TypeOK, Same
<1>20. CASE StageDelete(d)
  BY <1>20 DEF StageDelete, TypeOK, Same
<1>21. CASE Changes(d)
  BY <1>21 DEF Changes, Evict, TypeOK, Same
<1>22. CASE Prepare(d)
  <2>1. \/ /\ pc' = [pc EXCEPT ![d] = "commit"] /\ want' = [want EXCEPT ![d] = RowLocks(d)]
           /\ asked' = [asked EXCEPT ![d] = LockedRows(d)] /\ UNCHANGED <<txVars, back>>
        \/ Refuse(d, FALSE) /\ (UNCHANGED txVars \/ Evict(d)) /\ UNCHANGED <<want, asked>>
    BY <1>22 DEF Prepare
  <2>2. UNCHANGED <<rowVars, lockVars, opVars, target>>
    BY <1>22 DEF Prepare
  <2> QED BY <2>1, <2>2 DEF Refuse, Evict, TypeOK, Same
<1>23. CASE Conflict(d)
  BY <1>23 DEF Conflict, Refuse, Refresh, Evict, TypeOK, Same
<1>24. CASE Reject(d)
  BY <1>24 DEF Reject, Refuse, Evict, TypeOK, Same
<1>25. CASE Log(d)
  BY <1>25 DEF Log, TypeOK, Same
<1>26. CASE Publish(d)
  BY <1>26 DEF Publish, Evict, TypeOK, Same
<1>27. CASE Calls(d)
  BY <1>27, <1>1, <1>2, <1>3, <1>4, <1>5, <1>6, <1>7, <1>8, <1>9, <1>10, <1>11 DEF Calls
<1>28. CASE Runs(d)
  BY <1>28, <1>12, <1>13, <1>14, <1>15, <1>16, <1>17, <1>18, <1>19, <1>20, <1>21, <1>22,
     <1>23, <1>24, <1>25, <1>26 DEF Runs
<1> QED BY <1>27, <1>28

\* Only Publish changes rows.
LEMMA RowsChange ==
    ASSUME NEW d \in Client, Calls(d) \/ Runs(d), ~Publish(d)
    PROVE  UNCHANGED rowVars
<1>1. CASE Calls(d)
  BY <1>1 DEF Calls, Begin, Enter, Get, UpdateWithin, View, ViewMany, TxGet, TxDelete,
     TxDeleteCreated, TxCreate, Abort, Commit, rowVars
<1>2. CASE Runs(d)
  BY <1>2 DEF Runs, Lookup, Announce, Acquire, Release, Attempt, Snap, BeginView, EndView,
     StageDelete, Changes, Prepare, Conflict, Reject, Log, rowVars
<1> QED BY <1>1, <1>2

\* Only Announce, Acquire and Release change locks.
LEMMA LocksChange ==
    ASSUME NEW d \in Client, Calls(d) \/ Runs(d), ~Announce(d), ~Acquire(d), ~Release(d)
    PROVE  UNCHANGED <<writer, readers, fatal>>
<1> USE DEF lockVars
<1>1. CASE Calls(d)
  BY <1>1 DEF Calls, Begin, Enter, Get, UpdateWithin, View, ViewMany, TxGet, TxDelete,
     TxDeleteCreated, TxCreate, Abort, Commit
<1>2. CASE Runs(d)
  BY <1>2 DEF Runs, Lookup, Attempt, Snap, BeginView, EndView,
     StageDelete, Changes, Prepare, Conflict, Reject, Log, Publish
<1> QED BY <1>1, <1>2

\* A goroutine takes only free mutexes and gives back only its own.
LEMMA LocksKept ==
    ASSUME TypeOK, NEW d \in Client, Calls(d) \/ Runs(d), NEW l \in AllLocks, NEW c \in Client
    PROVE  /\ c # d => (writer'[l] = c <=> writer[l] = c) /\ (c \in readers'[l] <=> c \in readers[l])
           /\ c # d \/ ~Release(d) =>
                /\ writer[l] = c => writer'[l] = c
                /\ c \in readers[l] => c \in readers'[l]
                /\ Owns(c, l) => writer'[l] = c /\ readers'[l] = {}
           /\ writer[l] \notin {d, NoClient} => writer'[l] = writer[l]
<1>0. NoClient # c /\ NoClient # d
  BY EngineAssumption
<1>1. CASE Announce(d)
  <2>1. PICK m : writer[m] = NoClient /\ writer' = [writer EXCEPT ![m] = d] /\ readers' = readers
    BY <1>1 DEF Announce
  <2> QED BY <1>0, <2>1 DEF TypeOK, Owns
<1>2. CASE Acquire(d)
  <2>1. PICK m : /\ writer' = writer
                 /\ readers' = readers \/ (writer[m] = NoClient /\ readers' = [readers EXCEPT ![m] = @ \cup {d}])
    BY <1>2 DEF Acquire
  <2>2. CASE readers' = readers
    BY <2>1, <2>2 DEF Owns
  <2>3. CASE writer[m] = NoClient /\ readers' = [readers EXCEPT ![m] = @ \cup {d}]
    BY <1>0, <2>1, <2>3 DEF TypeOK, Owns
  <2> QED BY <2>1, <2>2, <2>3
<1>3. CASE Release(d)
  <2>1. writer'[l] = (IF Releases(d, l) THEN NoClient ELSE writer[l]) /\ readers'[l] = readers[l] \ {d}
    BY <1>3 DEF Release
  <2>2. Releases(d, l) => writer[l] = d
    BY DEF Releases
  <2> QED BY <1>0, <1>3, <2>1, <2>2 DEF Owns
<1>4. CASE UNCHANGED <<writer, readers>>
  BY <1>4 DEF Owns
<1> QED BY <1>1, <1>2, <1>3, <1>4, LocksChange

----------------------------------------------------------------------------
(* Lock order: the order itself *)

\* Kinds and ids of mutexes.
LEMMA LockKinds ==
    ASSUME NEW l \in AllLocks
    PROVE  /\ l.kind \in Kind /\ l.id \in Nat
           /\ l.kind \in {"row", "update"} => l.id \in Row /\ l.gen \in 1 .. MaxSlots
           /\ l.kind \notin {"row", "update"} => l.gen = 0
<1>1. CASE l = GraphMu
  BY <1>1 DEF GraphMu, Kind
<1>2. CASE \E t \in Type : l = [kind |-> "structure", id |-> t, gen |-> 0]
  BY <1>2, Names DEF Kind
<1>3. CASE \E r \in Row : l = [kind |-> "branch", id |-> r, gen |-> 0]
  BY <1>3, Names DEF Kind
<1>4. CASE \E k \in {"row", "update"}, r \in Row, g \in 1 .. MaxSlots : l = [kind |-> k, id |-> r, gen |-> g]
  BY <1>4, Names DEF Kind
<1> QED BY <1>1, <1>2, <1>3, <1>4, LockNames

\* updateMu comes before everything an attempt takes, graphMu and structures come
\* before branches and rows, and no two requests come before each other.
LEMMA Levels ==
    ASSUME NEW p, NEW q
    PROVE  /\ p.kind = "update" /\ q.kind \in {"graph", "structure", "branch", "row"} => Before(p, q)
           /\ p.kind \in {"update", "graph", "structure"} /\ q.kind \in {"branch", "row"} => Before(p, q)
           /\ p.kind \in Kind /\ q.kind \in Kind /\ p.id \in Nat /\ q.id \in Nat =>
                 ~(Before(p, q) /\ Before(q, p))
<1>1. /\ Level("update") = 0 /\ Level("graph") = 1 /\ Level("structure") = 2
      /\ Level("branch") = 3 /\ Level("row") = 4
  BY DEF Level
<1> QED BY <1>1 DEF Before, Kind

\* At most one request is next.
LEMMA OneNext ==
    ASSUME NEW c, NEW p \in want[c], NEW q \in want[c], p \in Proper, q \in Proper, IsNext(c, p), IsNext(c, q)
    PROVE  p = q
<1>1. p.kind \in Kind /\ q.kind \in Kind /\ p.id \in Nat /\ q.id \in Nat
  BY DEF Proper, Request
<1>2. p # q => Before(p, q) /\ Before(q, p)
  BY DEF IsNext
<1> QED BY <1>1, <1>2, Levels

\* Slots are only added, and the mutex of a slot that is in use was in use before.
LEMMA SlotsGrow ==
    ASSUME TypeOK, NEW d \in Client, Calls(d) \/ Runs(d)
    PROVE  /\ \A r \in Row : slots[r] \in Nat /\ slots'[r] \in Nat /\ slots[r] <= slots'[r]
           /\ \A l \in AllLocks : (l.kind = "row" => l.gen <= slots[l.id]) /\ Live(l)' => Live(l)
<1>0. \A r \in Row : slots[r] \in Nat
  BY DEF TypeOK
<1>1. CASE ~Publish(d)
  <2>1. slots' = slots /\ present' = present
    BY <1>1, RowsChange DEF rowVars
  <2> QED BY <1>0, <2>1 DEF Live
<1>2. CASE Publish(d)
  <2>1. \A r \in Row : slots'[r] = IF r \in Created(d) THEN slots[r] + 1 ELSE slots[r]
    BY <1>2 DEF Publish
  <2>2. \A r \in Row : r \in present' => r \in present \/ r \in Created(d)
    BY <1>2 DEF Publish, AfterRows
  <2>3. \A r \in Row : slots[r] \in Nat /\ slots'[r] \in Nat /\ slots[r] <= slots'[r]
    BY <1>0, <2>1
  <2>4. ASSUME NEW l \in AllLocks, l.kind = "row", l.gen <= slots[l.id], l.id \in present', l.gen = slots'[l.id]
        PROVE  l.id \in present /\ l.gen = slots[l.id]
    <3>1. l.id \in Row
      BY <2>4, LockKinds
    <3>2. l.id \notin Created(d)
      BY <1>0, <2>1, <2>4, <3>1
    <3> QED BY <2>1, <2>2, <2>4, <3>1, <3>2
  <2> QED BY <2>3, <2>4 DEF Live
<1> QED BY <1>1, <1>2

\* What a goroutine still has between two acquisitions: nothing but an updateMu,
\* and not even that between two calls.
LEMMA HoldsNothing ==
    ASSUME TypeOK, NEW c \in Client, Requests(c), Holds(c), NEW l \in AllLocks
    PROVE  /\ pc[c] \in {"idle", "open", "within", "retry", "changes"} =>
                c \notin readers[l] /\ (writer[l] = c /\ Live(l) => l.kind = "update")
           /\ pc[c] = "idle" => ~(writer[l] = c /\ Live(l))
           /\ pc[c] = "prepare" =>
                /\ c \in readers[l] => l.kind \in {"graph", "structure"}
                /\ writer[l] = c /\ Live(l) => l.kind \in {"update", "graph", "structure"}
<1>1. l.kind \in Kind
  BY LockKinds
<1>2. writer[l] = c /\ Live(l) /\ l.kind = "row" => asked[c] # {}
  BY DEF Holds
<1>3. pc[c] \notin {"load", "commit", "publish", "release"} => asked[c] = {}
  BY DEF Requests
<1>4. pc[c] = "idle" => mode[c] # "within"
  BY DEF Requests
<1> QED BY <1>1, <1>2, <1>3, <1>4 DEF Holds, Kind

----------------------------------------------------------------------------
(* Lock order: every step keeps it *)

Ordered(c) == Requests(c) /\ Targets(c) /\ Holds(c) /\ InOrder(c)

\* The steps of another goroutine.
LEMMA OrderOthers ==
    ASSUME TypeOK, NEW d \in Client, Calls(d) \/ Runs(d), NEW c \in Client, c # d, Ordered(c)
    PROVE  Ordered(c)'
<1>1. Same(c)
  BY OthersSame
<1>2. \A l \in AllLocks : (writer'[l] = c <=> writer[l] = c) /\ (c \in readers'[l] <=> c \in readers[l])
  BY LocksKept
<1>3. Requests(c)'
  BY <1>1 DEF Ordered, Requests, Same
<1>4. \A q \in want[c] : (IsNext(c, q)' <=> IsNext(c, q)) /\ LockOf(c, q)' = LockOf(c, q)
  BY <1>1 DEF Same, IsNext, LockOf
<1>5. Targets(c)'
  <2>1. ASSUME NEW q \in want[c], IsNext(c, q), q.kind = "row" PROVE target[c] <= slots'[q.id]
    <3>1. q.id \in Row /\ target[c] <= slots[q.id]
      BY <2>1 DEF Ordered, Requests, Targets, Proper
    <3>2. target[c] \in Nat
      BY EngineAssumption DEF TypeOK
    <3> QED BY <3>1, <3>2, SlotsGrow
  <2> QED BY <1>1, <1>4, <2>1 DEF Ordered, Targets, Same
<1>6. \A l \in AllLocks : writer[l] = c /\ l.kind = "row" => l.gen <= slots[l.id]
  BY DEF Ordered, Holds
<1>7. \A l \in AllLocks : writer[l] = c /\ Live(l)' => Live(l)
  BY <1>6, SlotsGrow
<1>8. Holds(c)'
  <2>1. ASSUME NEW l \in AllLocks, writer[l] = c, l.kind = "row" PROVE l.gen <= slots'[l.id]
    BY <2>1, <1>6, SlotsGrow, LockKinds
  <2> QED BY <1>1, <1>2, <1>7, <2>1 DEF Ordered, Holds, Same
<1>9. InOrder(c)'
  BY <1>1, <1>2, <1>4, <1>7 DEF Ordered, InOrder, Same
<1> QED BY <1>3, <1>5, <1>8, <1>9 DEF Ordered

\* An operation that holds no lock out of order may ask for new ones.
LEMMA Asking ==
    ASSUME TypeOK, NEW c \in Client, Ordered(c), want[c] = {}, target'[c] = target[c],
           UNCHANGED <<writer, readers, present, slots>>, Requests(c)', Holds(c)',
           \A l \in AllLocks, q \in want'[c] :
              c \in readers[l] \/ (writer[l] = c /\ Live(l)) => Before(l, q)
    PROVE  Ordered(c)'
<1>1. target'[c] = 0
  BY DEF Ordered, Targets
<1>2. \A q \in want'[c] : q.kind = "row" => q.id \in Row
  BY DEF Requests, Proper
<1>3. Targets(c)'
  BY <1>1, <1>2 DEF Targets, TypeOK
<1>4. InOrder(c)'
  BY DEF InOrder, Live
<1> QED BY <1>3, <1>4 DEF Ordered

\* An operation that has all its locks moves on, and keeps them until it releases
\* them all.
LEMMA Moving ==
    ASSUME TypeOK, NEW c \in Client, Calls(c) \/ Runs(c), Ordered(c), want[c] = {},
           want'[c] = {}, target'[c] = target[c], asked'[c] = asked[c], mode'[c] = mode[c],
           writer' = writer, readers' = readers,
           \/ pc[c] = "open" /\ pc'[c] \in {"release", "changes"}
           \/ pc[c] = "load" /\ pc'[c] = "release"
           \/ pc[c] = "view" /\ pc'[c] \in {"viewing", "release"}
           \/ pc[c] = "viewing" /\ pc'[c] = "release"
           \/ pc[c] = "stage" /\ pc'[c] = "release"
           \/ pc[c] = "changes" /\ pc'[c] = "release"
           \/ pc[c] = "prepare" /\ pc'[c] = "release"
           \/ pc[c] = "commit" /\ pc'[c] \in {"release", "publish"}
           \/ pc[c] = "publish" /\ pc'[c] = "release"
    PROVE  Ordered(c)'
<1>1. Requests(c)'
  BY DEF Ordered, Requests
<1>2. Targets(c)'
  BY DEF Ordered, Targets
<1>3. InOrder(c)'
  BY DEF Ordered, InOrder
<1>4. Holds(c)'
  <2>1. \A l \in AllLocks : writer[l] = c /\ l.kind = "row" => l.gen <= slots[l.id]
    BY DEF Ordered, Holds
  <2>2. \A l \in AllLocks : writer[l] = c /\ Live(l)' => Live(l)
    BY <2>1, SlotsGrow
  <2>3. ASSUME NEW l \in AllLocks, writer[l] = c, l.kind = "row" PROVE l.gen <= slots'[l.id]
    BY <2>1, <2>3, SlotsGrow, LockKinds
  <2>4. ASSUME NEW l \in AllLocks, writer[l] = c
        PROVE  /\ l.kind = "row" /\ Live(l)' => l.id \in asked'[c]
               /\ l.kind = "update" => mode'[c] = "within"
               /\ l.kind \in {"graph", "structure"} => pc'[c] \in {"prepare", "commit", "publish", "release"}
               /\ l.kind = "branch" => pc'[c] \in {"commit", "publish", "release"}
    BY <2>2, <2>4 DEF Ordered, Holds
  <2>5. ASSUME NEW l \in AllLocks, c \in readers[l]
        PROVE  /\ pc'[c] \notin {"idle", "open", "within", "retry", "changes"}
               /\ pc'[c] \in {"prepare", "commit", "publish"} => l.kind \in {"graph", "structure"}
    BY <2>5 DEF Ordered, Holds
  <2> QED BY <2>3, <2>4, <2>5 DEF Holds
<1> QED BY <1>1, <1>2, <1>3, <1>4 DEF Ordered

\* A call enters with nothing held.
LEMMA OrderEnter ==
    ASSUME TypeOK, NEW c \in Client, Ordered(c), pc[c] = "idle",
           UNCHANGED <<writer, readers, present, slots>>, target'[c] = target[c],
           pc'[c] \in {"open", "load", "within", "view"}, mode'[c] # "none",
           pc'[c] = "within" => mode'[c] = "within",
           Requests(c)'
    PROVE  Ordered(c)'
<1>1. want[c] = {}
  BY DEF Ordered, Requests, WaitsAt
<1>2. \A l \in AllLocks : c \notin readers[l] /\ ~(writer[l] = c /\ Live(l))
  BY HoldsNothing DEF Ordered
<1>3. \A l \in AllLocks : writer[l] = c => l.kind = "row" /\ l.gen <= slots[l.id]
  BY <1>2, LockKinds DEF Ordered, Holds, Requests, Live, Kind
<1>4. Holds(c)'
  BY <1>2, <1>3 DEF Holds, Live
<1> QED BY <1>1, <1>2, <1>4, Asking

\* Between two acquisitions at most an updateMu is held, which comes first.
LEMMA AskBetween ==
    ASSUME TypeOK, NEW c \in Client, Ordered(c), want[c] = {},
           pc[c] \in {"open", "within", "retry"}, pc'[c] \in {"load", "stage"},
           mode'[c] = mode[c], target'[c] = target[c],
           UNCHANGED <<writer, readers, present, slots>>, Requests(c)',
           \A q \in want'[c] : q.kind \in {"graph", "structure", "branch", "row"}
    PROVE  Ordered(c)'
<1>1. \A l \in AllLocks : c \notin readers[l] /\ (writer[l] = c /\ Live(l) => l.kind = "update")
  BY HoldsNothing DEF Ordered
<1>2. \A l \in AllLocks : writer[l] = c => l.kind \in {"update", "row"}
  BY LockKinds DEF Ordered, Holds, Kind
<1>3. Holds(c)'
  BY <1>1, <1>2 DEF Ordered, Holds, Live
<1>4. \A l \in AllLocks, q \in want'[c] : c \in readers[l] \/ (writer[l] = c /\ Live(l)) => Before(l, q)
  BY <1>1, Levels
<1> QED BY <1>3, <1>4, Asking

\* cloneOwnershipAggregate, called by Tx.Get or by an attempt of UpdateWithin.
LEMMA AskClone ==
    ASSUME TypeOK, NEW c \in Client, Ordered(c), NEW r \in Row, Locking(c, "load", {r}, CloneLocks(r)),
           pc[c] \in {"open", "retry"} \/ (pc[c] = "within" /\ want[c] = {}),
           mode' = mode, target' = target, UNCHANGED <<writer, readers, present, slots>>
    PROVE  Ordered(c)'
<1>1. want[c] = {}
  BY DEF Ordered, Requests, WaitsAt
<1> DEFINE D == CloneLocks(r)
           A == {s \in Row : RowLock(s, TRUE) \in D}
<1>2. \A q \in D :
         /\ q \in Proper
         /\ \/ q.kind = "graph" /\ q.excl = FALSE
            \/ q.kind = "row" /\ q.excl = TRUE /\ q.id \in A
  <2> SUFFICES ASSUME NEW q \in D
               PROVE  /\ q \in Proper
                      /\ \/ q.kind = "graph" /\ q.excl = FALSE
                         \/ q.kind = "row" /\ q.excl = TRUE /\ q.id \in A
    OBVIOUS
  <2>1. q \in Proper
    BY CloneRequests
  <2>2. q.kind = "row" => q.id \in Row
    BY <2>1 DEF Proper
  <2> QED BY <2>1, <2>2, CloneRequests
<1>3. pc'[c] = "load" /\ want'[c] = D /\ asked'[c] = A
  BY DEF Locking, TypeOK
<1> HIDE DEF D, A
<1>4. Requests(c)'
  BY <1>2, <1>3 DEF Requests, WaitsAt
<1> QED BY <1>1, <1>2, <1>3, <1>4, AskBetween

\* A call that enters, or a request inside a callback, keeps the order.
LEMMA OrderCalls ==
    ASSUME TypeOK, NEW c \in Client, Calls(c), Ordered(c)
    PROVE  Ordered(c)'
<1> USE DEF rowVars, lockVars, txVars, opVars
<1>0. /\ pc \in [Client -> Places] /\ want \in [Client -> SUBSET Request] /\ asked \in [Client -> SUBSET Row]
      /\ mode \in [Client -> {"none", "tx", "detached", "within", "view"}]
      /\ arg \in [Client -> SUBSET Row]
  BY DEF TypeOK
<1>1. CASE Begin(c)
  <2>1. /\ pc[c] = "idle" /\ pc'[c] = "open" /\ mode'[c] = "tx" /\ want'[c] = {} /\ asked'[c] = {}
        /\ UNCHANGED <<writer, readers, present, slots, target>>
    BY <1>0, <1>1 DEF Begin, Start, Enter
  <2>2. Requests(c)'
    BY <2>1 DEF Requests
  <2> QED BY <2>1, <2>2, OrderEnter
<1>2. ASSUME NEW r \in Row, Get(c, r) PROVE Ordered(c)'
  <2> DEFINE D == DetachedLocks(r)
             A == {s \in Row : RowLock(s, TRUE) \in D}
  <2>1. \A q \in D :
           /\ q \in Proper
           /\ \/ q.kind = "graph" /\ q.excl = FALSE
              \/ q.kind = "row" /\ q.excl = TRUE /\ q.id \in A
              \/ q.kind = "row" /\ q.excl = FALSE /\ A = {}
    <3> SUFFICES ASSUME NEW q \in D
                 PROVE  /\ q \in Proper
                        /\ \/ q.kind = "graph" /\ q.excl = FALSE
                           \/ q.kind = "row" /\ q.excl = TRUE /\ q.id \in A
                           \/ q.kind = "row" /\ q.excl = FALSE /\ A = {}
      OBVIOUS
    <3>1. q \in Proper
      BY DetachedRequests
    <3>2. q.kind = "row" => q.id \in Row
      BY <3>1 DEF Proper
    <3> QED BY <3>1, <3>2, DetachedRequests
  <2>2. want' = [want EXCEPT ![c] = D] /\ asked' = [asked EXCEPT ![c] = A]
    BY <1>2 DEF Get
  <2> HIDE DEF D, A
  <2>3. /\ pc[c] = "idle" /\ pc' = [pc EXCEPT ![c] = "load"] /\ mode' = [mode EXCEPT ![c] = "detached"]
        /\ UNCHANGED <<writer, readers, present, slots, target>>
    BY <1>2 DEF Get, Start
  <2>4. want'[c] = D /\ asked'[c] = A /\ pc'[c] = "load" /\ mode'[c] = "detached"
    BY <1>0, <2>2, <2>3
  <2>5. Requests(c)'
    BY <2>1, <2>4 DEF Requests, WaitsAt
  <2> QED BY <2>3, <2>4, <2>5, OrderEnter
<1>3. ASSUME NEW r \in Row, UpdateWithin(c, r) PROVE Ordered(c)'
  <2>1. /\ pc[c] = "idle" /\ pc'[c] = "within" /\ mode'[c] = "within" /\ want'[c] = {UpdateMu(r)} /\ asked'[c] = {}
        /\ UNCHANGED <<writer, readers, present, slots, target>>
    BY <1>0, <1>3 DEF UpdateWithin, Start, Enter
  <2>2. Requests(c)'
    BY <2>1, OneRequest DEF Requests, WaitsAt
  <2> QED BY <2>1, <2>2, OrderEnter
<1>4. ASSUME NEW rows, NEW D, pc[c] = "idle", Enter(c, "view", rows, "view", D),
             \A q \in D : q \in Proper /\ q.kind \in {"graph", "structure", "branch", "row"} /\ ~q.excl
      PROVE  Ordered(c)'
  <2>1. /\ pc'[c] = "view" /\ mode'[c] = "view" /\ want'[c] = D /\ asked'[c] = {}
        /\ UNCHANGED <<writer, readers, present, slots, target>>
    BY <1>0, <1>4 DEF Enter
  <2>2. Requests(c)'
    BY <1>4, <2>1 DEF Requests, WaitsAt
  <2> QED BY <1>4, <2>1, <2>2, OrderEnter
<1>5. ASSUME NEW r \in Row, View(c, r) PROVE Ordered(c)'
  <2>1. \/ Enter(c, "view", Subtree(r), "view", {Graph(FALSE), Branch(r, FALSE)})
        \/ Enter(c, "view", {r}, "view", {RowLock(r, FALSE)})
    BY <1>5 DEF View
  <2>2. pc[c] = "idle"
    BY <1>5 DEF View, Start
  <2>3. CASE Enter(c, "view", Subtree(r), "view", {Graph(FALSE), Branch(r, FALSE)})
    <3>1. \A q \in {Graph(FALSE), Branch(r, FALSE)} :
              q \in Proper /\ q.kind \in {"graph", "structure", "branch", "row"} /\ ~q.excl
      BY OneRequest
    <3> QED BY <1>4, <2>2, <2>3, <3>1
  <2>4. CASE Enter(c, "view", {r}, "view", {RowLock(r, FALSE)})
    <3>1. \A q \in {RowLock(r, FALSE)} :
              q \in Proper /\ q.kind \in {"graph", "structure", "branch", "row"} /\ ~q.excl
      BY OneRequest
    <3> QED BY <1>4, <2>2, <2>4, <3>1
  <2> QED BY <2>1, <2>3, <2>4
<1>6. ASSUME NEW t \in Type, NEW rows \in SUBSET Row, ViewMany(c, t, rows) PROVE Ordered(c)'
  <2>1. \A q \in ViewManyLocks(t, rows) :
           q \in Proper /\ q.kind \in {"graph", "structure", "branch", "row"} /\ ~q.excl
    BY ViewManyRequests
  <2>2. Enter(c, "view", rows, "view", ViewManyLocks(t, rows)) /\ pc[c] = "idle"
    BY <1>6 DEF ViewMany, ViewManyLocks, Start
  <2> QED BY <1>4, <2>1, <2>2
<1>7. ASSUME NEW r \in Row, TxGet(c, r) PROVE Ordered(c)'
  BY <1>7, AskClone DEF TxGet, InCallback
<1>8. ASSUME NEW r \in Row, TxDelete(c, r) PROVE Ordered(c)'
  <2>1. /\ pc[c] = "open" /\ pc'[c] = "stage" /\ want'[c] = {RowLock(r, FALSE)}
        /\ asked'[c] = {s \in Row : RowLock(s, TRUE) \in {RowLock(r, FALSE)}}
        /\ UNCHANGED <<writer, readers, present, slots, target, mode>>
    BY <1>0, <1>8 DEF TxDelete, InCallback, Locking
  <2>2. \A s \in Row : RowLock(s, TRUE) # RowLock(r, FALSE)
    BY DEF RowLock
  <2>3. asked'[c] = {}
    BY <2>1, <2>2
  <2>4. \A q \in want'[c] : q \in Proper /\ q.kind = "row" /\ ~q.excl
    BY <2>1, OneRequest
  <2>5. Requests(c)'
    BY <2>1, <2>3, <2>4 DEF Requests, WaitsAt
  <2>6. want[c] = {}
    BY <2>1 DEF Ordered, Requests, WaitsAt
  <2> QED BY <2>1, <2>4, <2>5, <2>6, AskBetween
<1>9. CASE UNCHANGED <<pc, mode, want, target, asked, writer, readers, present, slots>>
  BY <1>9 DEF Ordered, Requests, Targets, Holds, InOrder, Live, IsNext, LockOf
<1>10. ASSUME NEW r \in Row, TxDeleteCreated(c, r) PROVE Ordered(c)'
  BY <1>9, <1>10 DEF TxDeleteCreated
<1>11. ASSUME NEW r \in Row, NEW v \in Value, TxCreate(c, r, v) PROVE Ordered(c)'
  BY <1>9, <1>11 DEF TxCreate
<1>12. CASE Abort(c)
  <2>1. want[c] = {}
    BY <1>12 DEF Abort, Ordered, Requests, WaitsAt
  <2>2. /\ pc[c] = "open" /\ pc'[c] = "release"
        /\ UNCHANGED <<writer, readers, present, slots, mode, want, target, asked>>
    BY <1>0, <1>12 DEF Abort
  <2> QED BY <2>1, <2>2, Moving
<1>13. ASSUME NEW w \in [Row -> Value \cup {Nothing}], Commit(c, w) PROVE Ordered(c)'
  <2>1. want[c] = {}
    BY <1>13 DEF Commit, Ordered, Requests, WaitsAt
  <2>2. /\ pc[c] = "open" /\ pc'[c] = "changes"
        /\ UNCHANGED <<writer, readers, present, slots, mode, want, target, asked>>
    BY <1>0, <1>13 DEF Commit
  <2> QED BY <2>1, <2>2, Moving
<1> QED BY <1>1, <1>2, <1>3, <1>5, <1>6, <1>7, <1>8, <1>10, <1>11, <1>12, <1>13 DEF Calls

\* The slot behind an id is looked up, or the id is gone.
LEMMA OrderLookup ==
    ASSUME TypeOK, NEW c \in Client, Lookup(c), Ordered(c)
    PROVE  Ordered(c)'
<1>1. PICK q \in want[c] :
         /\ IsNext(c, q) /\ InSlot(q) /\ target[c] = 0
         /\ \/ q.id \in present /\ target' = [target EXCEPT ![c] = slots[q.id]] /\ UNCHANGED <<want, pc, back>>
            \/ want' = [want EXCEPT ![c] = @ \ {q}] /\ UNCHANGED <<target, pc, back>>
            \/ want' = [want EXCEPT ![c] = {}] /\ pc' = [pc EXCEPT ![c] = "release"] /\ UNCHANGED target
  BY DEF Lookup
<1>2. UNCHANGED <<writer, readers, mode, asked, slots, present>>
  BY DEF Lookup, rowVars, lockVars, opVars
<1>3. /\ pc \in [Client -> Places] /\ want \in [Client -> SUBSET Request]
      /\ target \in [Client -> 0 .. MaxSlots] /\ \A r \in Row : slots[r] \in Nat
  BY DEF TypeOK
<1>4. \A p \in want[c] : p \in Proper
  BY DEF Ordered, Requests
<1>5. CASE q.id \in present /\ target' = [target EXCEPT ![c] = slots[q.id]] /\ UNCHANGED <<want, pc, back>>
  <2>1. Requests(c)' /\ Holds(c)'
    BY <1>2, <1>5 DEF Ordered, Requests, Holds, Live
  <2>2. target'[c] = slots[q.id]
    BY <1>3, <1>5
  <2>3. \A p \in want[c] : IsNext(c, p)' <=> IsNext(c, p)
    BY <1>5 DEF IsNext
  <2>4. Targets(c)'
    <3>1. \A p \in want[c] : IsNext(c, p) => p = q
      BY <1>1, <1>4, OneNext
    <3>2. q.id \in Row
      BY <1>1, <1>4 DEF Proper, InSlot
    <3> QED BY <1>2, <1>3, <1>5, <2>2, <2>3, <3>1, <3>2 DEF Targets
  <2>5. \A p \in want[c] : IsNext(c, p) => LockOf(c, p) \notin AllLocks
    <3> SUFFICES ASSUME NEW p \in want[c], IsNext(c, p), LockOf(c, p) \in AllLocks PROVE FALSE
      OBVIOUS
    <3>1. p = q
      BY <1>1, <1>4, OneNext
    <3>2. LockOf(c, p).kind \in {"row", "update"} /\ LockOf(c, p).gen = 0
      BY <1>1, <3>1 DEF LockOf, InSlot
    <3> QED BY <3>2, LockKinds
  <2>6. InOrder(c)'
    BY <1>2, <1>5, <2>5 DEF Ordered, InOrder, Live
  <2> QED BY <2>1, <2>4, <2>6 DEF Ordered
<1>6. CASE want' = [want EXCEPT ![c] = @ \ {q}] /\ UNCHANGED <<target, pc, back>>
  <2>1. want'[c] = want[c] \ {q}
    BY <1>3, <1>6
  <2>2. Requests(c)' /\ Holds(c)'
    BY <1>2, <1>6, <2>1 DEF Ordered, Requests, Holds, Live
  <2>3. Targets(c)'
    <3>1. target'[c] = 0
      BY <1>1, <1>6
    <3>2. \A p \in want'[c] : p.kind = "row" => p.id \in Row
      BY <1>4, <2>1 DEF Proper
    <3> QED BY <1>2, <1>3, <3>1, <3>2 DEF Targets
  <2>4. \A p \in want'[c] : ~IsNext(c, p)
    BY <1>1, <1>4, <2>1, OneNext
  <2>5. InOrder(c)'
    BY <1>2, <1>6, <2>1, <2>4 DEF Ordered, InOrder, Live
  <2> QED BY <2>2, <2>3, <2>5 DEF Ordered
<1>7. CASE want' = [want EXCEPT ![c] = {}] /\ pc' = [pc EXCEPT ![c] = "release"] /\ UNCHANGED target
  <2>1. want'[c] = {} /\ pc'[c] = "release" /\ target'[c] = 0
    BY <1>1, <1>3, <1>7
  <2>2. Requests(c)' /\ Targets(c)' /\ InOrder(c)'
    BY <2>1 DEF Requests, Targets, InOrder
  <2>3. Holds(c)'
    BY <1>2, <2>1 DEF Ordered, Holds, Live
  <2> QED BY <2>2, <2>3 DEF Ordered
<1> QED BY <1>1, <1>5, <1>6, <1>7

\* A mutex is as early or as late as the request that leads to it.
LEMMA AsEarly ==
    ASSUME NEW l, NEW p, NEW q, l.kind = q.kind, l.id = q.id
    PROVE  Before(l, p) <=> Before(q, p)
BY DEF Before

\* A writer announces itself at the next mutex of its list.
LEMMA OrderAnnounce ==
    ASSUME TypeOK, NEW c \in Client, Announce(c), Ordered(c)
    PROVE  Ordered(c)'
<1>1. PICK q \in want[c] :
         Ready(c, q) /\ q.excl /\ writer[LockOf(c, q)] = NoClient /\ writer' = [writer EXCEPT ![LockOf(c, q)] = c]
  BY DEF Announce
<1>2. UNCHANGED <<readers, mode, asked, slots, present, pc, want, target>>
  BY DEF Announce, rowVars, opVars
<1>3. q \in Proper /\ WaitsAt(pc[c], q) /\ (q.kind = "row" => q.id \in asked[c])
  BY <1>1 DEF Ordered, Requests
<1> DEFINE m == LockOf(c, q)
<1>4. m \in AllLocks /\ m.kind = q.kind /\ m.id = q.id
  BY <1>1, <1>3, LockOfRequest DEF Ready
<1>5. m.kind = "row" => m.gen <= slots[m.id]
  <2>1. q.kind = "row" => target[c] <= slots[q.id]
    BY <1>1 DEF Ordered, Targets, Ready
  <2>2. q.kind = "row" => m.gen = target[c]
    BY DEF LockOf, InSlot
  <2> QED BY <1>4, <2>1, <2>2
<1>6. \A l \in AllLocks : writer'[l] = c => l = m \/ writer[l] = c
  BY <1>1 DEF TypeOK
<1>7. Requests(c)' /\ Targets(c)'
  BY <1>2 DEF Ordered, Requests, Targets, IsNext
<1>8. \A p \in want[c] : Before(m, p) \/ p = q
  <2>1. \A p \in want[c] \ {q} : Before(q, p)
    BY <1>1 DEF Ready, IsNext
  <2> QED BY <1>4, <2>1, AsEarly
<1>9. IsNext(c, q)
  BY <1>1 DEF Ready
<1> HIDE DEF m
<1>10. Holds(c)'
  <2>1. /\ m.kind = "update" => mode[c] = "within"
        /\ m.kind \in {"graph", "structure"} => pc[c] = "prepare"
        /\ m.kind = "branch" => pc[c] = "commit"
    BY <1>1, <1>3, <1>4 DEF WaitsAt, Ordered, Requests
  <2> QED BY <1>2, <1>3, <1>4, <1>5, <1>6, <2>1 DEF Ordered, Holds, Live
<1>11. InOrder(c)'
  <2>1. \A p \in want[c] : (IsNext(c, p)' <=> IsNext(c, p)) /\ LockOf(c, p)' = LockOf(c, p)
    BY <1>2 DEF IsNext, LockOf
  <2>2. m = LockOf(c, q)
    BY DEF m
  <2> QED BY <1>2, <1>6, <1>8, <1>9, <2>1, <2>2 DEF Ordered, InOrder, Live
<1> QED BY <1>7, <1>10, <1>11 DEF Ordered

\* A mutex is granted.
LEMMA OrderAcquire ==
    ASSUME TypeOK, NEW c \in Client, Acquire(c), Ordered(c)
    PROVE  Ordered(c)'
<1>1. PICK q \in want[c] :
         /\ Ready(c, q)
         /\ \/ UNCHANGED readers
            \/ ~q.excl /\ readers' = [readers EXCEPT ![LockOf(c, q)] = @ \cup {c}]
         /\ want' = [want EXCEPT ![c] = @ \ {q}]
  BY DEF Acquire
<1>2. UNCHANGED <<writer, mode, asked, slots, present, pc>> /\ target' = [target EXCEPT ![c] = 0]
  BY DEF Acquire, rowVars, opVars
<1>3. q \in Proper /\ WaitsAt(pc[c], q)
  BY <1>1 DEF Ordered, Requests
<1> DEFINE m == LockOf(c, q)
<1>4. m \in AllLocks /\ m.kind = q.kind /\ m.id = q.id
  BY <1>1, <1>3, LockOfRequest DEF Ready
<1>5. \A l \in AllLocks : c \in readers'[l] => c \in readers[l] \/ (l = m /\ ~q.excl)
  BY <1>1 DEF TypeOK
<1>6. want'[c] = want[c] \ {q} /\ target'[c] = 0
  BY <1>1, <1>2 DEF TypeOK
<1>7. \A p \in want'[c] : Before(m, p) /\ ~IsNext(c, p) /\ p \in Proper
  <2>1. \A p \in want[c] \ {q} : Before(q, p)
    BY <1>1 DEF Ready, IsNext
  <2>2. \A p \in want[c] : p \in Proper
    BY DEF Ordered, Requests
  <2>3. \A p \in want[c] \ {q} : ~IsNext(c, p)
    BY <1>1, <2>2, OneNext DEF Ready
  <2> QED BY <1>4, <1>6, <2>1, <2>2, <2>3, AsEarly
<1> HIDE DEF m
<1>8. Requests(c)'
  BY <1>2, <1>6 DEF Ordered, Requests
<1>9. Targets(c)'
  <2>1. \A p \in want'[c] : p.kind = "row" => slots[p.id] \in Nat
    BY <1>7 DEF Proper, TypeOK
  <2> QED BY <1>2, <1>6, <2>1 DEF Targets
<1>10. Holds(c)'
  <2>1. ~q.excl => /\ pc[c] \notin {"idle", "open", "within", "retry", "changes"}
                   /\ pc[c] \in {"prepare", "commit", "publish"} => m.kind \in {"graph", "structure"}
    BY <1>3, <1>4 DEF WaitsAt
  <2> QED BY <1>2, <1>5, <2>1 DEF Ordered, Holds, Live
<1>11. InOrder(c)'
  BY <1>2, <1>5, <1>6, <1>7 DEF Ordered, InOrder, Live
<1> QED BY <1>8, <1>9, <1>10, <1>11 DEF Ordered

\* The deferred unlocks leave at most an updateMu, and mutexes of deleted rows.
LEMMA OrderRelease ==
    ASSUME TypeOK, NEW c \in Client, Release(c), Ordered(c)
    PROVE  Ordered(c)'
<1>1. /\ pc[c] = "release" /\ asked'[c] = {} /\ pc'[c] = back[c] /\ back[c] \in {"idle", "open", "retry"}
      /\ mode'[c] = (IF back[c] = "idle" THEN "none" ELSE mode[c])
      /\ UNCHANGED <<slots, present, want, target>>
  BY DEF Release, rowVars, TypeOK
<1>2. want[c] = {}
  BY <1>1 DEF Ordered, Requests, WaitsAt
<1>3. Requests(c)' /\ Targets(c)' /\ InOrder(c)'
  BY <1>1, <1>2 DEF Ordered, Requests, Targets, InOrder
<1>4. \A l \in AllLocks : c \notin readers'[l]
  BY DEF Release
<1>5. ASSUME NEW l \in AllLocks, writer'[l] = c
      PROVE  /\ l.kind \in {"row", "update"} /\ writer[l] = c
             /\ l.kind = "row" => ~Live(l)
             /\ l.kind = "update" => back[c] # "idle"
  <2>1. writer'[l] = (IF Releases(c, l) THEN NoClient ELSE writer[l]) /\ NoClient # c
    BY EngineAssumption DEF Release
  <2>2. ~Releases(c, l) /\ writer[l] = c
    BY <1>5, <2>1
  <2>3. l.kind = "row" /\ Live(l) => l.id \in asked[c] \cap present /\ l = SlotLock(l.id)
    <3>1. l.kind = "row" => l = [kind |-> "row", id |-> l.id, gen |-> l.gen]
      BY LockNames DEF GraphMu
    <3> QED BY <2>2, <3>1 DEF Ordered, Holds, Live, SlotLock
  <2>4. l.kind \in Kind
    BY LockKinds
  <2> QED BY <2>2, <2>3, <2>4 DEF Releases, Kind
<1>6. Holds(c)'
  <2>1. ASSUME NEW l \in AllLocks, writer'[l] = c
        PROVE  /\ l.kind = "row" => l.gen <= slots'[l.id] /\ ~Live(l)'
               /\ l.kind = "update" => mode'[c] = "within"
    BY <1>1, <1>5, <2>1 DEF Ordered, Holds, Live
  <2> QED BY <1>4, <1>5, <2>1 DEF Holds
<1> QED BY <1>3, <1>6 DEF Ordered

\* The steps of the library's own code.
LEMMA OrderRuns ==
    ASSUME TypeOK, NEW c \in Client, Runs(c), Ordered(c)
    PROVE  Ordered(c)'
<1> USE DEF rowVars, lockVars, txVars, opVars
<1>0. /\ pc \in [Client -> Places] /\ want \in [Client -> SUBSET Request] /\ asked \in [Client -> SUBSET Row]
      /\ mode \in [Client -> {"none", "tx", "detached", "within", "view"}] /\ arg \in [Client -> SUBSET Row]
  BY DEF TypeOK
<1>1. pc[c] \in {"changes", "viewing", "publish", "retry"} => want[c] = {}
  BY DEF Ordered, Requests, WaitsAt
<1>2. CASE Attempt(c)
  <2>1. PICK r \in arg[c] : Locking(c, "load", {r}, CloneLocks(r))
    BY <1>2 DEF Attempt
  <2>2. r \in Row
    BY <1>0
  <2> QED BY <1>2, <2>1, <2>2, AskClone DEF Attempt
<1>3. CASE Snap(c)
  <2>1. /\ pc[c] = "load" /\ want[c] = {} /\ pc'[c] = "release"
        /\ UNCHANGED <<writer, readers, mode, want, target, asked>>
    BY <1>0, <1>3 DEF Snap
  <2> QED BY <2>1, Moving
<1>4. CASE BeginView(c)
  <2>1. /\ pc[c] = "view" /\ want[c] = {} /\ pc'[c] \in {"viewing", "release"}
        /\ UNCHANGED <<writer, readers, mode, want, target, asked>>
    BY <1>0, <1>4 DEF BeginView
  <2> QED BY <2>1, Moving
<1>5. CASE EndView(c)
  <2>1. /\ pc[c] = "viewing" /\ pc'[c] = "release"
        /\ UNCHANGED <<writer, readers, mode, want, target, asked>>
    BY <1>0, <1>5 DEF EndView
  <2> QED BY <1>1, <2>1, Moving
<1>6. CASE StageDelete(c)
  <2>1. /\ pc[c] = "stage" /\ want[c] = {} /\ pc'[c] = "release"
        /\ UNCHANGED <<writer, readers, mode, want, target, asked>>
    BY <1>0, <1>6 DEF StageDelete
  <2> QED BY <2>1, Moving
<1>7. CASE Changes(c)
  <2>1. pc[c] = "changes" /\ want[c] = {} /\ UNCHANGED <<writer, readers, mode, target, asked, present, slots>>
    BY <1>0, <1>1, <1>7 DEF Changes
  <2>2. \/ want' = want /\ pc' = [pc EXCEPT ![c] = "release"]
        \/ /\ want' = [want EXCEPT ![c] = GraphAccess(c) \cup StructureLocks(c)]
           /\ pc' = [pc EXCEPT ![c] = "prepare"]
    BY <1>7 DEF Changes
  <2>3. CASE want' = want /\ pc' = [pc EXCEPT ![c] = "release"]
    <3>1. pc'[c] = "release"
      BY <1>0, <2>3
    <3> QED BY <2>1, <2>3, <3>1, Moving
  <2>4. CASE want' = [want EXCEPT ![c] = GraphAccess(c) \cup StructureLocks(c)] /\ pc' = [pc EXCEPT ![c] = "prepare"]
    <3>1. want'[c] = GraphAccess(c) \cup StructureLocks(c) /\ pc'[c] = "prepare"
      BY <1>0, <2>4
    <3>2. \A q \in want'[c] : q \in Proper /\ (q.kind = "graph" \/ (q.kind = "structure" /\ q.excl))
      BY <3>1, ShapeRequests
    <3>3. Requests(c)'
      BY <2>1, <3>1, <3>2 DEF Ordered, Requests, WaitsAt
    <3>4. \A l \in AllLocks : c \notin readers[l] /\ (writer[l] = c /\ Live(l) => l.kind = "update")
      BY <2>1, HoldsNothing DEF Ordered
    <3>5. Holds(c)'
      BY <2>1, <3>1, <3>4 DEF Ordered, Holds, Live
    <3>6. \A l \in AllLocks, q \in want'[c] : c \in readers[l] \/ (writer[l] = c /\ Live(l)) => Before(l, q)
      BY <3>2, <3>4, Levels
    <3> QED BY <2>1, <3>3, <3>5, <3>6, Asking
  <2> QED BY <2>2, <2>3, <2>4
<1>8. CASE Prepare(c)
  <2>1. pc[c] = "prepare" /\ want[c] = {} /\ UNCHANGED <<writer, readers, mode, target, present, slots>>
    BY <1>8 DEF Prepare
  <2>2. \/ pc' = [pc EXCEPT ![c] = "release"] /\ want' = want /\ asked' = asked
        \/ /\ pc' = [pc EXCEPT ![c] = "commit"] /\ want' = [want EXCEPT ![c] = RowLocks(c)]
           /\ asked' = [asked EXCEPT ![c] = LockedRows(c)]
    BY <1>8 DEF Prepare, Refuse
  <2>3. CASE pc' = [pc EXCEPT ![c] = "release"] /\ want' = want /\ asked' = asked
    <3>1. pc'[c] = "release"
      BY <1>0, <2>3
    <3> QED BY <2>1, <2>3, <3>1, Moving
  <2>4. CASE /\ pc' = [pc EXCEPT ![c] = "commit"] /\ want' = [want EXCEPT ![c] = RowLocks(c)]
             /\ asked' = [asked EXCEPT ![c] = LockedRows(c)]
    <3>1. want'[c] = RowLocks(c) /\ pc'[c] = "commit" /\ asked'[c] = LockedRows(c)
      BY <1>0, <2>4
    <3>2. \A q \in want'[c] :
             q \in Proper /\ q.kind \in {"branch", "row"} /\ q.excl /\ (q.kind = "row" => q.id \in asked'[c])
      BY <3>1, RowRequests
    <3>3. Requests(c)'
      BY <2>1, <3>1, <3>2 DEF Ordered, Requests, WaitsAt
    <3>4. \A l \in AllLocks :
             /\ c \in readers[l] => l.kind \in {"graph", "structure"}
             /\ writer[l] = c /\ Live(l) => l.kind \in {"update", "graph", "structure"}
      BY <2>1, HoldsNothing DEF Ordered
    <3>5. Holds(c)'
      BY <2>1, <3>1, <3>4 DEF Ordered, Holds, Live
    <3>6. \A l \in AllLocks, q \in want'[c] : c \in readers[l] \/ (writer[l] = c /\ Live(l)) => Before(l, q)
      BY <3>2, <3>4, Levels
    <3> QED BY <2>1, <3>3, <3>5, <3>6, Asking
  <2> QED BY <2>2, <2>3, <2>4
<1>9. CASE Conflict(c) \/ Reject(c)
  <2>1. pc[c] = "commit" /\ want[c] = {} /\ UNCHANGED <<writer, readers, mode, want, target, asked>>
    BY <1>9 DEF Conflict, Reject
  <2>2. pc' = [pc EXCEPT ![c] = "release"]
    BY <1>9 DEF Conflict, Reject, Refuse
  <2>3. pc'[c] = "release"
    BY <1>0, <2>2
  <2> QED BY <2>1, <2>3, Moving
<1>10. CASE Log(c)
  <2>1. /\ pc[c] = "commit" /\ want[c] = {} /\ pc'[c] = "publish"
        /\ UNCHANGED <<writer, readers, mode, want, target, asked>>
    BY <1>0, <1>10 DEF Log
  <2> QED BY <2>1, Moving
<1>11. CASE Publish(c)
  <2>1. /\ pc[c] = "publish" /\ pc'[c] = "release"
        /\ UNCHANGED <<writer, readers, mode, want, target, asked>>
    BY <1>0, <1>11 DEF Publish
  <2> QED BY <1>1, <2>1, Moving
<1> QED BY <1>2, <1>3, <1>4, <1>5, <1>6, <1>7, <1>8, <1>9, <1>10, <1>11,
           OrderLookup, OrderAnnounce, OrderAcquire, OrderRelease DEF Runs

\* Nobody waits or holds anything at the start.
LEMMA OrderInit == Init => LockInv
<1> SUFFICES ASSUME Init, NEW c \in Client PROVE Requests(c) /\ Targets(c) /\ Holds(c) /\ InOrder(c)
  BY DEF LockInv
<1>1. /\ pc[c] = "idle" /\ mode[c] = "none" /\ want[c] = {} /\ asked[c] = {} /\ target[c] = 0
      /\ \A l \in AllLocks : writer[l] # c /\ c \notin readers[l]
  BY EngineAssumption DEF Init
<1> QED BY <1>1 DEF Requests, Targets, Holds, InOrder

\* Every step keeps the order of every goroutine.
LEMMA OrderStep == TypeOK /\ LockInv /\ [Next]_vars => LockInv'
<1> SUFFICES ASSUME TypeOK, LockInv, [Next]_vars PROVE LockInv'
  OBVIOUS
<1>1. \A c \in Client : Ordered(c)
  BY DEF LockInv, Ordered
<1>2. CASE UNCHANGED vars
  BY <1>2 DEF vars, rowVars, lockVars, txVars, opVars, LockInv, Requests, Targets, Holds, InOrder,
     Live, IsNext, LockOf
<1>3. ASSUME NEW d \in Client, Calls(d) \/ Runs(d), NEW c \in Client PROVE Ordered(c)'
  BY <1>1, <1>3, OrderOthers, OrderCalls, OrderRuns
<1>4. CASE Next
  BY <1>3, <1>4 DEF Next, LockInv, Ordered
<1> QED BY <1>2, <1>4

\* The order is an invariant.
LEMMA LockInvariant == Spec => []LockInv
BY TypeCorrect, OrderInit, OrderStep, PTL DEF Spec

\* Whoever waits for a mutex holds only mutexes that come earlier, whatever its
\* program does, but for those that a deleted row left locked.
THEOREM OrderOfLocks == Spec => []LiveLocksInOrder
<1>1. TypeOK /\ LockInv => LiveLocksInOrder
  <2> SUFFICES ASSUME TypeOK, LockInv, NEW c \in Client, NEW l \in Held(c), NEW q \in want[c], Live(l)
               PROVE  Before(l, q)
    BY DEF LiveLocksInOrder
  <2>1. InOrder(c) /\ l \in AllLocks /\ (c \in readers[l] \/ (writer[l] = c /\ l # LockOf(c, q)))
    BY DEF LockInv, Held
  <2> QED BY <2>1 DEF InOrder
<1> QED BY <1>1, TypeCorrect, LockInvariant, PTL

----------------------------------------------------------------------------
(* Exclusion: what two commits cannot share *)

\* What a commit has changed follows from its working set alone.
LEMMA SameSets ==
    ASSUME NEW c, snap'[c] = snap[c], news'[c] = news[c], dels'[c] = dels[c]
    PROVE  /\ Loaded(c)' = Loaded(c) /\ Touched(c)' = Touched(c) /\ Created(c)' = Created(c)
           /\ Deleted(c)' = Deleted(c) /\ Structural(c)' = Structural(c) /\ Doomed(c)' = Doomed(c)
           /\ LockedRows(c)' = LockedRows(c) /\ Shaped(c)' = Shaped(c)
           /\ (Reshapes(c)' <=> Reshapes(c)) /\ (Writes(c)' <=> Writes(c))
<1>1. /\ Loaded(c)' = Loaded(c) /\ Touched(c)' = Touched(c) /\ Created(c)' = Created(c)
      /\ Deleted(c)' = Deleted(c)
  BY DEF Loaded, Touched, Created, Deleted
<1>2. Structural(c)' = Structural(c) /\ LockedRows(c)' = LockedRows(c)
  BY <1>1 DEF Structural, LockedRows
<1>3. Doomed(c)' = Doomed(c) /\ Shaped(c)' = Shaped(c)
  BY <1>1, <1>2 DEF Doomed, Shaped
<1>4. (Reshapes(c)' <=> Reshapes(c)) /\ (Writes(c)' <=> Writes(c))
  BY <1>1, <1>2 DEF Reshapes, Writes, LinksChanged
<1> QED BY <1>1, <1>2, <1>3, <1>4

\* Past validation, a commit waits for branches and rows only, and at publication
\* for nothing.
LEMMA WaitsLater ==
    ASSUME NEW c \in Client, Requests(c)
    PROVE  /\ pc[c] \in {"commit", "publish"} =>
                ~Waits(c, "graph", 0) /\ \A t : ~Waits(c, "structure", t)
           /\ pc[c] = "publish" => want[c] = {}
BY DEF Requests, WaitsAt, Waits

\* Two commits that have validated their creates shape different types.
LEMMA StructuresApart ==
    ASSUME NEW c \in Client, NEW d \in Client, c # d, Requests(c), Requests(d), Excludes(c), Excludes(d),
           pc[c] \in {"commit", "publish"}, pc[d] \in {"commit", "publish"},
           NEW r \in Shaped(c), NEW s \in Shaped(d)
    PROVE  RowType[r] # RowType[s]
<1>1. Owns(c, StructureMu(RowType[r])) /\ Owns(d, StructureMu(RowType[s]))
  BY WaitsLater DEF Excludes
<1> QED BY <1>1 DEF Owns

\* Two commits that publish write and delete in different branches.
LEMMA BranchesApart ==
    ASSUME NEW c \in Client, NEW d \in Client, c # d, Requests(c), Requests(d), Excludes(c), Excludes(d),
           pc[c] = "publish", pc[d] = "publish",
           NEW r \in LockedRows(c), NEW s \in LockedRows(d)
    PROVE  RootOf[r] # RootOf[s]
<1>1. Owns(c, BranchMu(r)) /\ Owns(d, BranchMu(s))
  BY WaitsLater DEF Excludes, Waits
<1> QED BY <1>1 DEF Owns, BranchMu

\* A row that a commit deletes or cascades to is created by it too, or lies in a
\* branch that it has locked.
LEMMA DoomedBranch ==
    ASSUME NEW d \in Client, WholeBranches(d), NEW r \in Doomed(d)
    PROVE  r \in Created(d) \/ \E x \in LockedRows(d) : RootOf[r] = RootOf[x]
<1>1. PICK x \in Deleted(d) : r \in Subtree(x)
  BY DEF Doomed
<1>2. x \in Row /\ RootOf[x] = x
  BY DEF Deleted, WholeBranches
<1>3. RootOf[r] = x
  BY <1>1, <1>2 DEF Subtree
<1>4. CASE x \in Created(d)
  BY <1>1, <1>2, <1>4 DEF WholeBranches
<1>5. CASE x \notin Created(d)
  BY <1>1, <1>2, <1>3, <1>5 DEF LockedRows
<1> QED BY <1>4, <1>5

\* A commit about to publish has its rows to itself.
LEMMA RowsApart ==
    ASSUME NEW c \in Client, NEW d \in Client, c # d, Requests(c), Requests(d), Excludes(c), Excludes(d),
           WholeBranches(d), StillFree(d), pc[c] = "publish", pc[d] = "publish",
           NEW r \in LockedRows(c), r \in present
    PROVE  r \notin Touched(d) \cup Created(d) \cup Doomed(d)
<1>1. r \notin Created(d)
  BY DEF StillFree
<1>2. r \notin Touched(d)
  BY BranchesApart DEF LockedRows
<1>3. r \notin Doomed(d)
  BY <1>1, DoomedBranch, BranchesApart
<1> QED BY <1>1, <1>2, <1>3

----------------------------------------------------------------------------
(* Exclusion: every step keeps it *)

Exclusive(c) == Excludes(c) /\ WholeBranches(c) /\ StillFree(c) /\ StillCurrent(c) /\ StillUnique(c)

\* Another goroutine publishes.
LEMMA ExclusionPublish ==
    ASSUME TypeOK, LockInv, ExclusionInv, NEW d \in Client, Publish(d), NEW c \in Client, c # d
    PROVE  StillFree(c)' /\ StillCurrent(c)' /\ StillUnique(c)'
<1>1. Same(c)
  BY OthersSame DEF Runs
<1>2. pc[d] = "publish" /\ present' = AfterRows(d)
  BY DEF Publish
<1>3. /\ Requests(c) /\ Requests(d) /\ Excludes(c) /\ Excludes(d) /\ WholeBranches(d)
      /\ StillFree(c) /\ StillFree(d) /\ StillCurrent(c) /\ StillUnique(c)
  BY DEF LockInv, ExclusionInv
<1>4. /\ Touched(c)' = Touched(c) /\ Created(c)' = Created(c) /\ Deleted(c)' = Deleted(c) /\ Doomed(c)' = Doomed(c)
      /\ pc'[c] = pc[c] /\ snap'[c] = snap[c] /\ news'[c] = news[c] /\ dels'[c] = dels[c]
  BY <1>1, SameSets DEF Same
<1>5. present' \subseteq present \cup Created(d)
  BY <1>2 DEF AfterRows
<1>6. StillFree(c)'
  <2>1. pc[c] \in {"commit", "publish"} => Created(c) \cap Created(d) = {}
    BY <1>2, <1>3, StructuresApart DEF Shaped, Structural
  <2> QED BY <1>3, <1>4, <1>5, <2>1 DEF StillFree
<1>7. StillCurrent(c)'
  <2> SUFFICES ASSUME pc[c] = "publish" PROVE ~StaleWrite(c)' /\ ~StaleDelete(c)'
    BY <1>4 DEF StillCurrent
  <2>1. ~StaleWrite(c) /\ ~StaleDelete(c)
    BY <1>3 DEF StillCurrent
  <2>2. ASSUME NEW r \in LockedRows(c), r \in present PROVE r \in present' /\ ver'[r] = ver[r]
    <3>1. r \notin Touched(d) \cup Created(d) \cup Doomed(d)
      BY <1>2, <1>3, <2>2, RowsApart
    <3>2. r \in Row
      BY <2>2 DEF TypeOK
    <3> QED BY <2>2, <3>1, <3>2 DEF Publish, AfterRows
  <2>3. ~StaleWrite(c)'
    BY <1>4, <2>1, <2>2 DEF StaleWrite, LockedRows
  <2>4. ~StaleDelete(c)'
    BY <1>4, <2>1, <2>2 DEF StaleDelete, LockedRows
  <2> QED BY <2>3, <2>4
<1>8. StillUnique(c)'
  <2> SUFFICES ASSUME pc[c] = "publish",
                      NEW r \in AfterRows(c)' \cap (Touched(c) \cup Created(c)), NEW s \in AfterRows(c)',
                      RowType[r] \in UniqueTypes, RowType[s] = RowType[r], AfterVal(c, r)' = AfterVal(c, s)'
               PROVE  r = s
    BY <1>4 DEF StillUnique, IndexValid
  <2>1. r \in Shaped(c)
    BY DEF Shaped, Structural
  <2>2. ASSUME NEW x \in AfterRows(c)', RowType[x] = RowType[r]
        PROVE  x \in AfterRows(c) /\ AfterVal(c, x)' = AfterVal(c, x)
    <3>1. x \notin Shaped(d)
      BY <1>2, <1>3, <2>1, <2>2, StructuresApart
    <3>2. x \notin Created(d) /\ x \notin Touched(d)
      BY <2>2, <3>1 DEF Shaped, Structural
    <3>3. x \in AfterRows(c)
      BY <1>4, <1>5, <3>2 DEF AfterRows
    <3>4. x \in Row
      BY <3>3 DEF AfterRows, Created, TypeOK
    <3>5. val'[x] = val[x]
      BY <3>2, <3>4 DEF Publish, AfterVal
    <3> QED BY <1>4, <3>3, <3>5 DEF AfterVal
  <2>3. r \in AfterRows(c) /\ s \in AfterRows(c) /\ AfterVal(c, r) = AfterVal(c, s)
    BY <2>2
  <2> QED BY <1>3, <2>3 DEF StillUnique, IndexValid
<1> QED BY <1>6, <1>7, <1>8

\* The steps of another goroutine.
LEMMA ExclusionOthers ==
    ASSUME TypeOK, LockInv, ExclusionInv, NEW d \in Client, Calls(d) \/ Runs(d), NEW c \in Client, c # d
    PROVE  Exclusive(c)'
<1>1. Same(c)
  BY OthersSame
<1>2. snap'[c] = snap[c] /\ news'[c] = news[c] /\ dels'[c] = dels[c] /\ pc'[c] = pc[c]
      /\ want'[c] = want[c] /\ arg'[c] = arg[c]
  BY <1>1 DEF Same
<1>3. Exclusive(c)
  BY DEF ExclusionInv, Exclusive
<1>4. \A l \in AllLocks : (Owns(c, l) => Owns(c, l)') /\ (c \in readers[l] => c \in readers'[l])
  BY LocksKept DEF Owns
<1>5. /\ GraphMu \in AllLocks /\ \A r \in Row : StructureMu(RowType[r]) \in AllLocks /\ BranchMu(r) \in AllLocks
  BY LockNames, Names DEF StructureMu, BranchMu
<1>6. Excludes(c)'
  <2>1. Shaped(c) \subseteq Row /\ LockedRows(c) \subseteq Row
    BY CommitRows
  <2>2. \A k, i : Waits(c, k, i)' <=> Waits(c, k, i)
    BY <1>2 DEF Waits
  <2>3. /\ Shaped(c)' = Shaped(c) /\ LockedRows(c)' = LockedRows(c)
        /\ (Reshapes(c)' <=> Reshapes(c)) /\ (Writes(c)' <=> Writes(c))
    BY <1>2, SameSets
  <2>4. Owns(c, GraphMu) => Owns(c, GraphMu)'
    BY <1>4, <1>5
  <2>5. c \in readers[GraphMu] => c \in readers'[GraphMu]
    BY <1>4, <1>5
  <2>6. \A r \in Shaped(c) : Owns(c, StructureMu(RowType[r])) => Owns(c, StructureMu(RowType[r]))'
    BY <1>4, <1>5, <2>1
  <2>7. \A r \in LockedRows(c) : Owns(c, BranchMu(r)) => Owns(c, BranchMu(r))'
    BY <1>4, <1>5, <2>1
  <2> QED BY <1>2, <1>3, <2>2, <2>3, <2>4, <2>5, <2>6, <2>7 DEF Exclusive, Excludes
<1>7. WholeBranches(c)'
  BY <1>2, <1>3, SameSets DEF Exclusive, WholeBranches
<1>8. CASE Publish(d)
  BY <1>6, <1>7, <1>8, ExclusionPublish DEF Exclusive
<1>9. CASE ~Publish(d)
  <2>1. UNCHANGED <<present, ver, val>>
    BY <1>9, RowsChange DEF rowVars
  <2>2. /\ Touched(c)' = Touched(c) /\ Created(c)' = Created(c) /\ Deleted(c)' = Deleted(c)
        /\ Doomed(c)' = Doomed(c)
    BY <1>2, SameSets
  <2>3. StillFree(c)' /\ StillCurrent(c)'
    BY <1>2, <1>3, <2>1, <2>2 DEF Exclusive, StillFree, StillCurrent, StaleWrite, StaleDelete
  <2>4. StillUnique(c)'
    BY <1>2, <1>3, <2>1, <2>2 DEF Exclusive, StillUnique, IndexValid, AfterRows, AfterVal
  <2> QED BY <1>6, <1>7, <2>3, <2>4 DEF Exclusive
<1> QED BY <1>8, <1>9

\* The steps of a commit between the sorting of its changes and publication.
LEMMA Committing ==
    ASSUME TypeOK, NEW c \in Client, Calls(c) \/ Runs(c), pc'[c] \in {"prepare", "commit", "publish"}
    PROVE  /\ UNCHANGED <<snap, news, dels, present, val, ver, slots, commits>>
           /\ \/ (Lookup(c) \/ Announce(c) \/ Acquire(c)) /\ pc' = pc
              \/ Changes(c) /\ pc'[c] = "prepare" /\ want'[c] = GraphAccess(c) \cup StructureLocks(c)
              \/ Prepare(c) /\ pc'[c] = "commit" /\ want'[c] = RowLocks(c)
              \/ Log(c) /\ pc'[c] = "publish" /\ want'[c] = want[c]
<1> USE DEF rowVars, lockVars, txVars, opVars
<1>0. /\ pc \in [Client -> Places] /\ want \in [Client -> SUBSET Request]
      /\ back \in [Client -> {"idle", "open", "retry"}]
  BY DEF TypeOK
<1>1. ASSUME pc[c] \notin {"prepare", "commit", "publish"}, pc' = pc PROVE FALSE
  BY <1>1
<1>2. CASE Calls(c)
  <2>1. ASSUME NEW m, NEW rows, NEW at, NEW requests, Enter(c, m, rows, at, requests),
               at \notin {"prepare", "commit", "publish"}
        PROVE  FALSE
    BY <1>0, <2>1 DEF Enter
  <2>2. ~Begin(c) /\ (\A r \in Row : ~UpdateWithin(c, r) /\ ~View(c, r))
    BY <2>1 DEF Begin, UpdateWithin, View
  <2>3. \A t \in Type, rows \in SUBSET Row : ~ViewMany(c, t, rows)
    BY <2>1 DEF ViewMany
  <2>4. \A r \in Row : ~Get(c, r)
    <3> SUFFICES ASSUME NEW r \in Row, Get(c, r) PROVE FALSE
      OBVIOUS
    <3>1. pc' = [pc EXCEPT ![c] = "load"]
      BY DEF Get
    <3> QED BY <1>0, <3>1
  <2>5. \A r \in Row : ~TxGet(c, r) /\ ~TxDelete(c, r)
    <3>1. ASSUME NEW at \in {"load", "stage"}, NEW rows, NEW D, Locking(c, at, rows, D) PROVE FALSE
      <4>1. pc' = [pc EXCEPT ![c] = at]
        BY <3>1 DEF Locking
      <4> QED BY <1>0, <3>1, <4>1
    <3> QED BY <3>1 DEF TxGet, TxDelete
  <2>6. \A r \in Row : ~TxDeleteCreated(c, r) /\ \A v \in Value : ~TxCreate(c, r, v)
    BY <1>1 DEF TxDeleteCreated, TxCreate, InCallback
  <2>7. ~Abort(c) /\ \A w \in [Row -> Value \cup {Nothing}] : ~Commit(c, w)
    BY <1>0 DEF Abort, Commit
  <2> QED BY <1>2, <2>2, <2>3, <2>4, <2>5, <2>6, <2>7 DEF Calls
<1>3. CASE Lookup(c)
  <2>1. pc' = pc \/ pc' = [pc EXCEPT ![c] = "release"]
    BY <1>3 DEF Lookup
  <2>2. pc' = pc
    BY <1>0, <2>1
  <2> QED BY <1>3, <2>2 DEF Lookup
<1>4. CASE Announce(c) \/ Acquire(c)
  BY <1>4 DEF Announce, Acquire
<1>5. ASSUME pc' = [pc EXCEPT ![c] = "release"] PROVE FALSE
  BY <1>0, <1>5
<1>6. ~Release(c) /\ ~Attempt(c)
  <2>1. ~Release(c)
    BY <1>0 DEF Release
  <2>2. ~Attempt(c)
    <3> SUFFICES ASSUME Attempt(c) PROVE FALSE
      OBVIOUS
    <3>1. pc' = [pc EXCEPT ![c] = "load"]
      BY DEF Attempt, Locking
    <3> QED BY <1>0, <3>1
  <2> QED BY <2>1, <2>2
<1>7. ~Snap(c) /\ ~EndView(c) /\ ~StageDelete(c) /\ ~Publish(c)
  BY <1>5 DEF Snap, EndView, StageDelete, Publish
<1>8. ~BeginView(c) /\ ~Conflict(c) /\ ~Reject(c)
  <2>1. ~BeginView(c)
    BY <1>0 DEF BeginView
  <2> QED BY <1>5, <2>1 DEF Conflict, Reject, Refuse
<1>9. CASE Changes(c)
  <2>1. ~Evict(c) \/ pc' # [pc EXCEPT ![c] = "release"]
    BY <1>5
  <2>2. /\ want' = [want EXCEPT ![c] = GraphAccess(c) \cup StructureLocks(c)]
        /\ pc' = [pc EXCEPT ![c] = "prepare"]
        /\ UNCHANGED txVars
    BY <1>9, <2>1 DEF Changes
  <2>3. want'[c] = GraphAccess(c) \cup StructureLocks(c) /\ pc'[c] = "prepare"
    BY <1>0, <2>2
  <2> QED BY <1>9, <2>2, <2>3 DEF Changes
<1>10. CASE Prepare(c)
  <2>1. \A b : ~Refuse(c, b)
    BY <1>5 DEF Refuse
  <2>2. /\ pc' = [pc EXCEPT ![c] = "commit"] /\ want' = [want EXCEPT ![c] = RowLocks(c)] /\ UNCHANGED txVars
    BY <1>10, <2>1 DEF Prepare
  <2>3. want'[c] = RowLocks(c) /\ pc'[c] = "commit"
    BY <1>0, <2>2
  <2> QED BY <1>10, <2>2, <2>3 DEF Prepare
<1>11. CASE Log(c)
  BY <1>0, <1>11 DEF Log
<1> QED BY <1>2, <1>3, <1>4, <1>6, <1>7, <1>8, <1>9, <1>10, <1>11 DEF Runs

\* A granted mutex is held as it was asked for.
LEMMA Granted ==
    ASSUME TypeOK, NEW c \in Client, Acquire(c), LockInv
    PROVE  \E q \in want[c] :
              /\ q \in Proper /\ WaitsAt(pc[c], q) /\ IsNext(c, q)
              /\ LockOf(c, q) \in AllLocks
              /\ (InSlot(q) => target[c] # 0)
              /\ q.excl => writer'[LockOf(c, q)] = c /\ readers'[LockOf(c, q)] = {}
              /\ ~q.excl => c \in readers'[LockOf(c, q)] /\ writer[LockOf(c, q)] = NoClient
              /\ want'[c] = want[c] \ {q}
<1>1. PICK q \in want[c] :
         /\ Ready(c, q)
         /\ \/ q.excl /\ writer[LockOf(c, q)] = c /\ readers[LockOf(c, q)] = {} /\ UNCHANGED readers
            \/ /\ ~q.excl /\ writer[LockOf(c, q)] = NoClient
               /\ readers' = [readers EXCEPT ![LockOf(c, q)] = @ \cup {c}]
         /\ want' = [want EXCEPT ![c] = @ \ {q}]
  BY DEF Acquire
<1>2. q \in Proper /\ WaitsAt(pc[c], q)
  BY <1>1 DEF LockInv, Requests
<1>3. LockOf(c, q) \in AllLocks
  BY <1>1, <1>2, LockOfRequest DEF Ready
<1>4. writer' = writer
  BY DEF Acquire
<1>5. q.excl => writer'[LockOf(c, q)] = c /\ readers'[LockOf(c, q)] = {}
  BY <1>1, <1>4
<1>6. ~q.excl => c \in readers'[LockOf(c, q)]
  BY <1>1, <1>3 DEF TypeOK
<1>7. want'[c] = want[c] \ {q}
  BY <1>1 DEF TypeOK
<1> QED BY <1>1, <1>2, <1>3, <1>5, <1>6, <1>7 DEF Ready

\* A commit's own steps keep what it excludes.
LEMMA ExcludesOwn ==
    ASSUME TypeOK, LockInv, ExclusionInv, NEW c \in Client, Calls(c) \/ Runs(c)
    PROVE  Excludes(c)'
<1> SUFFICES ASSUME pc'[c] \in {"prepare", "commit", "publish"} PROVE Excludes(c)'
  BY DEF Excludes
<1>1. Excludes(c) /\ Requests(c)
  BY DEF ExclusionInv, LockInv
<1>2. /\ Shaped(c)' = Shaped(c) /\ LockedRows(c)' = LockedRows(c)
      /\ (Reshapes(c)' <=> Reshapes(c)) /\ (Writes(c)' <=> Writes(c))
  BY Committing, SameSets
<1>3. Shaped(c) \subseteq Row /\ LockedRows(c) \subseteq Row
  BY CommitRows
<1>4. ~Release(c)
  BY Committing DEF Release, Lookup, Announce, Acquire, Changes, Prepare, Log
<1>5. \A l \in AllLocks : (Owns(c, l) => Owns(c, l)') /\ (c \in readers[l] => c \in readers'[l])
  BY <1>4, LocksKept DEF Owns
<1>6. /\ GraphMu \in AllLocks /\ \A r \in Row : StructureMu(RowType[r]) \in AllLocks /\ BranchMu(r) \in AllLocks
  BY LockNames, Names DEF StructureMu, BranchMu
<1>7. /\ Owns(c, GraphMu) => Owns(c, GraphMu)'
      /\ c \in readers[GraphMu] => c \in readers'[GraphMu]
      /\ \A r \in Shaped(c) : Owns(c, StructureMu(RowType[r])) => Owns(c, StructureMu(RowType[r]))'
      /\ \A r \in LockedRows(c) : Owns(c, BranchMu(r)) => Owns(c, BranchMu(r))'
  <2>1. Owns(c, GraphMu) => Owns(c, GraphMu)'
    BY <1>5, <1>6
  <2>2. c \in readers[GraphMu] => c \in readers'[GraphMu]
    BY <1>5, <1>6
  <2>3. \A r \in Shaped(c) : Owns(c, StructureMu(RowType[r])) => Owns(c, StructureMu(RowType[r]))'
    BY <1>3, <1>5, <1>6
  <2>4. \A r \in LockedRows(c) : Owns(c, BranchMu(r)) => Owns(c, BranchMu(r))'
    BY <1>3, <1>5, <1>6
  <2> QED BY <2>1, <2>2, <2>3, <2>4
<1>8. ASSUME pc'[c] = pc[c], want'[c] = want[c] PROVE Excludes(c)'
  <2>1. \A k, i : Waits(c, k, i)' <=> Waits(c, k, i)
    BY <1>8 DEF Waits
  <2> QED BY <1>1, <1>2, <1>7, <1>8, <2>1 DEF Excludes
<1>9. CASE Lookup(c) /\ pc' = pc
  <2>1. PICK q \in want[c] : want'[c] = want[c] \/ (q.kind = "row" /\ want'[c] = want[c] \ {q})
    <3>1. PICK q \in want[c] :
             \/ want' = want
             \/ q.kind = "row" /\ want' = [want EXCEPT ![c] = @ \ {q}]
             \/ pc' = [pc EXCEPT ![c] = "release"]
      BY <1>9 DEF Lookup
    <3> QED BY <1>9, <3>1 DEF TypeOK
  <2>2. \A k, i : k # "row" => (Waits(c, k, i)' <=> Waits(c, k, i))
    BY <2>1 DEF Waits
  <2> QED BY <1>1, <1>2, <1>7, <1>9, <2>1, <2>2 DEF Excludes
<1>10. CASE Announce(c)
  BY <1>8, <1>10 DEF Announce
<1>11. CASE Acquire(c)
  <2>1. PICK q \in want[c] :
              /\ q \in Proper /\ WaitsAt(pc[c], q)
              /\ q.excl => writer'[LockOf(c, q)] = c /\ readers'[LockOf(c, q)] = {}
              /\ ~q.excl => c \in readers'[LockOf(c, q)]
              /\ want'[c] = want[c] \ {q}
    BY <1>11, Granted
  <2>2. pc'[c] = pc[c]
    BY <1>11 DEF Acquire
  <2>3. \A k, i : Waits(c, k, i) => Waits(c, k, i)' \/ (q.kind = k /\ q.id = i)
    BY <2>1 DEF Waits
  <2>4. /\ q.kind = "graph" => LockOf(c, q) = GraphMu
        /\ \A t : q.kind = "structure" /\ q.id = t => LockOf(c, q) = StructureMu(t)
        /\ \A r : q.kind = "branch" /\ q.id = RootOf[r] => LockOf(c, q) = BranchMu(r)
    BY <2>1 DEF LockOf, InSlot, GraphMu, StructureMu, BranchMu, Proper
  <2>5. /\ q.kind = "graph" /\ q.excl => Owns(c, GraphMu)'
        /\ q.kind = "graph" /\ ~q.excl => c \in readers'[GraphMu]
        /\ \A t : q.kind = "structure" /\ q.id = t /\ q.excl => Owns(c, StructureMu(t))'
        /\ \A r : q.kind = "branch" /\ q.id = RootOf[r] /\ q.excl => Owns(c, BranchMu(r))'
    BY <2>1, <2>4 DEF Owns, BranchMu, StructureMu, GraphMu
  <2>6. /\ q.kind = "graph" => (q.excl <=> Reshapes(c))
        /\ q.kind \in {"structure", "branch"} => q.excl
    BY <1>1, <2>1, <2>2 DEF Excludes, WaitsAt
  <2>7. \A p \in want'[c] : p \in want[c]
    BY <2>1
  <2>8. \A r \in Shaped(c) : Waits(c, "structure", RowType[r])' \/ Owns(c, StructureMu(RowType[r]))'
    BY <1>1, <1>7, <2>2, <2>3, <2>5, <2>6 DEF Excludes
  <2>9. pc[c] \in {"commit", "publish"} =>
           \A r \in LockedRows(c) : Waits(c, "branch", RootOf[r])' \/ Owns(c, BranchMu(r))'
    BY <1>1, <1>7, <2>2, <2>3, <2>5, <2>6 DEF Excludes
  <2>10. Reshapes(c) => Waits(c, "graph", 0)' \/ Owns(c, GraphMu)'
    BY <1>1, <1>7, <2>2, <2>3, <2>5, <2>6 DEF Excludes
  <2>11. Writes(c) => Waits(c, "graph", 0)' \/ Owns(c, GraphMu)' \/ c \in readers'[GraphMu]
    BY <1>1, <1>7, <2>2, <2>3, <2>5, <2>6 DEF Excludes
  <2>12. \A p \in want'[c] : p.kind = "graph" => (p.excl <=> Reshapes(c))
    BY <1>1, <2>2, <2>7 DEF Excludes
  <2> QED BY <1>2, <2>2, <2>8, <2>9, <2>10, <2>11, <2>12 DEF Excludes
<1>12. CASE Changes(c) /\ pc'[c] = "prepare" /\ want'[c] = GraphAccess(c) \cup StructureLocks(c)
  <2>1. \A q \in want'[c] : q.kind = "graph" => (q.excl <=> Reshapes(c))
    BY <1>12, ShapeRequests
  <2>2. Reshapes(c) \/ Writes(c) => Waits(c, "graph", 0)'
    BY <1>12, ShapeRequests DEF Waits
  <2>3. \A r \in Shaped(c) : Waits(c, "structure", RowType[r])'
    BY <1>12, ShapeRequests DEF Waits
  <2> QED BY <1>2, <1>12, <2>1, <2>2, <2>3 DEF Excludes
<1>13. CASE Prepare(c) /\ pc'[c] = "commit" /\ want'[c] = RowLocks(c)
  <2>1. \A k, i : ~Waits(c, k, i)
    BY <1>13 DEF Prepare, Waits
  <2>2. pc[c] = "prepare"
    BY <1>13 DEF Prepare
  <2>3. \A q \in want'[c] : q.kind # "graph"
    BY <1>13, RowRequests
  <2>4. \A r \in LockedRows(c) : Waits(c, "branch", RootOf[r])'
    BY <1>13, RowRequests DEF Waits
  <2> QED BY <1>1, <1>2, <1>7, <1>13, <2>1, <2>2, <2>3, <2>4 DEF Excludes
<1>14. CASE Log(c) /\ pc'[c] = "publish" /\ want'[c] = want[c]
  <2>1. \A k, i : Waits(c, k, i)' <=> Waits(c, k, i)
    BY <1>14 DEF Waits
  <2>2. pc[c] = "commit"
    BY <1>14 DEF Log
  <2> QED BY <1>1, <1>2, <1>7, <1>14, <2>1, <2>2 DEF Excludes
<1> QED BY <1>9, <1>10, <1>11, <1>12, <1>13, <1>14, Committing

\* The steps that change what a transaction has staged or copied.
LEMMA WorkingSet ==
    ASSUME NEW c \in Client, Calls(c) \/ Runs(c)
    PROVE  \/ UNCHANGED <<snap, news, dels>>
           \/ Evict(c)
           \/ UNCHANGED <<snap, dels>> /\ \E r \in Row, v \in Value : TxCreate(c, r, v)
           \/ UNCHANGED <<snap, news>> /\ \E r \in Row : TxDeleteCreated(c, r)
           \/ UNCHANGED <<snap, news>> /\ StageDelete(c)
           \/ UNCHANGED <<news, dels>> /\ \E w \in [Row -> Value \cup {Nothing}] : Commit(c, w)
           \/ UNCHANGED <<news, dels>> /\ Snap(c)
           \/ UNCHANGED <<news, dels>> /\ Conflict(c) /\ Refresh(c)
<1> USE DEF rowVars, lockVars, txVars, opVars
<1>1. CASE Calls(c)
  <2>1. ASSUME NEW m, NEW rows, NEW at, NEW requests, Enter(c, m, rows, at, requests)
        PROVE  UNCHANGED <<snap, news, dels>>
    BY <2>1 DEF Enter
  <2>2. CASE Begin(c) \/ \E r \in Row : UpdateWithin(c, r) \/ View(c, r)
    BY <2>1, <2>2 DEF Begin, UpdateWithin, View
  <2>3. ASSUME NEW t \in Type, NEW rows \in SUBSET Row, ViewMany(c, t, rows) PROVE UNCHANGED <<snap, news, dels>>
    BY <2>1, <2>3 DEF ViewMany
  <2>4. ASSUME NEW r \in Row, Get(c, r) \/ TxGet(c, r) \/ TxDelete(c, r) PROVE UNCHANGED <<snap, news, dels>>
    BY <2>4 DEF Get, TxGet, TxDelete
  <2>5. ASSUME NEW r \in Row, TxDeleteCreated(c, r) PROVE UNCHANGED <<snap, news>>
    BY <2>5 DEF TxDeleteCreated
  <2>6. ASSUME NEW r \in Row, NEW v \in Value, TxCreate(c, r, v) PROVE UNCHANGED <<snap, dels>>
    BY <2>6 DEF TxCreate
  <2>7. CASE Abort(c)
    BY <2>7 DEF Abort
  <2>8. ASSUME NEW w \in [Row -> Value \cup {Nothing}], Commit(c, w) PROVE UNCHANGED <<news, dels>>
    BY <2>8 DEF Commit
  <2> QED BY <1>1, <2>2, <2>3, <2>4, <2>5, <2>6, <2>7, <2>8 DEF Calls
<1>2. CASE Runs(c)
  <2>1. CASE Lookup(c) \/ Announce(c) \/ Acquire(c) \/ Release(c) \/ Attempt(c) \/ BeginView(c) \/ EndView(c) \/ Log(c)
    BY <2>1 DEF Lookup, Announce, Acquire, Release, Attempt, BeginView, EndView, Log
  <2>2. CASE Changes(c) \/ Prepare(c) \/ Reject(c)
    BY <2>2 DEF Changes, Prepare, Reject
  <2>3. CASE Publish(c)
    BY <2>3 DEF Publish
  <2>4. CASE Snap(c)
    BY <2>4 DEF Snap
  <2>5. CASE StageDelete(c)
    BY <2>5 DEF StageDelete
  <2>6. CASE Conflict(c)
    BY <2>6 DEF Conflict, Refresh
  <2> QED BY <1>2, <2>1, <2>2, <2>3, <2>4, <2>5, <2>6 DEF Runs
<1> QED BY <1>1, <1>2

\* Whoever stands before the version of the row it deletes has just named it, or
\* named it before.
LEMMA Staging ==
    ASSUME TypeOK, NEW c \in Client, Calls(c) \/ Runs(c), pc'[c] = "stage"
    PROVE  \/ pc[c] = "stage" /\ arg' = arg /\ (Lookup(c) \/ Announce(c) \/ Acquire(c))
           \/ \E r \in Row : TxDelete(c, r)
<1> USE DEF rowVars, lockVars, txVars, opVars
<1>0. /\ pc \in [Client -> Places] /\ back \in [Client -> {"idle", "open", "retry"}]
  BY DEF TypeOK
<1>1. ASSUME NEW p \in {"open", "load", "within", "view", "changes", "release", "publish"},
             pc' = [pc EXCEPT ![c] = p] PROVE FALSE
  BY <1>0, <1>1
<1>2. CASE Calls(c)
  <2>1. ~Begin(c) /\ (\A r \in Row : ~UpdateWithin(c, r) /\ ~View(c, r))
    BY <1>1 DEF Begin, UpdateWithin, View, Enter
  <2>2. \A t \in Type, rows \in SUBSET Row : ~ViewMany(c, t, rows)
    BY <1>1 DEF ViewMany, Enter
  <2>3. \A r \in Row : ~Get(c, r) /\ ~TxGet(c, r)
    BY <1>1 DEF Get, TxGet, Locking
  <2>4. \A r \in Row : ~TxDeleteCreated(c, r) /\ \A v \in Value : ~TxCreate(c, r, v)
    BY DEF TxDeleteCreated, TxCreate, InCallback
  <2>5. ~Abort(c) /\ \A w \in [Row -> Value \cup {Nothing}] : ~Commit(c, w)
    BY <1>1 DEF Abort, Commit
  <2> QED BY <1>2, <2>1, <2>2, <2>3, <2>4, <2>5 DEF Calls
<1>3. CASE Lookup(c)
  <2>1. (pc' = pc \/ pc' = [pc EXCEPT ![c] = "release"]) /\ arg' = arg
    BY <1>3 DEF Lookup
  <2> QED BY <1>1, <1>3, <2>1
<1>4. CASE Announce(c) \/ Acquire(c)
  BY <1>4 DEF Announce, Acquire
<1>5. ~Release(c) /\ ~Attempt(c)
  BY <1>0, <1>1 DEF Release, Attempt, Locking
<1>6. ~Snap(c) /\ ~EndView(c) /\ ~StageDelete(c) /\ ~Publish(c) /\ ~Log(c)
  BY <1>1 DEF Snap, EndView, StageDelete, Publish, Log
<1>7. ~BeginView(c) /\ ~Conflict(c) /\ ~Reject(c)
  <2>1. ~BeginView(c)
    BY <1>0 DEF BeginView
  <2> QED BY <1>1, <2>1 DEF Conflict, Reject, Refuse
<1>8. ~Changes(c) /\ ~Prepare(c)
  <2>1. pc' # [pc EXCEPT ![c] = "prepare"] /\ pc' # [pc EXCEPT ![c] = "commit"]
    BY <1>0
  <2> QED BY <1>1, <2>1 DEF Changes, Prepare, Refuse
<1> QED BY <1>2, <1>3, <1>4, <1>5, <1>6, <1>7, <1>8 DEF Runs

\* evict leaves nothing.
LEMMA Evicted ==
    ASSUME TypeOK, NEW c \in Client, Evict(c)
    PROVE  Loaded(c)' = {} /\ Touched(c)' = {} /\ Created(c)' = {} /\ Deleted(c)' = {}
<1>1. snap'[c] = NoRows /\ news'[c] = NoRows /\ dels'[c] = NoRows
  BY DEF Evict, TypeOK
<1> QED BY <1>1 DEF NoRows, Loaded, Touched, Created, Deleted

\* Branches are created and deleted whole.
LEMMA BranchesOwn ==
    ASSUME TypeOK, NEW c \in Client, Calls(c) \/ Runs(c), WholeBranches(c)
    PROVE  WholeBranches(c)'
<1>1. ASSUME pc'[c] = "stage" PROVE \A r \in arg'[c] : RootOf[r] = r
  <2>1. CASE pc[c] = "stage" /\ arg' = arg
    BY <2>1 DEF WholeBranches
  <2>2. ASSUME NEW r \in Row, TxDelete(c, r) PROVE arg'[c] = {r} /\ RootOf[r] = r
    BY <2>2 DEF TxDelete, Locking, TypeOK
  <2> QED BY <1>1, <2>1, <2>2, Staging
<1>2. /\ \A r \in Deleted(c)' : RootOf[r] = r
      /\ \A r \in Created(c)' : RootOf[r] = r => Subtree(r) \subseteq Created(c)'
  <2>1. CASE UNCHANGED <<news, dels>>
    BY <2>1 DEF WholeBranches, Created, Deleted
  <2>2. CASE Evict(c)
    BY <2>2, Evicted
  <2>3. ASSUME UNCHANGED dels, NEW r \in Row, NEW v \in Value, TxCreate(c, r, v)
        PROVE  /\ Deleted(c)' = Deleted(c)
               /\ \A s \in Created(c)' : RootOf[s] = s => Subtree(s) \subseteq Created(c)'
    <3>1. news'[c] = [s \in Row |-> IF s \in Subtree(r) THEN v ELSE news[c][s]] /\ RootOf[r] = r
      BY <2>3 DEF TxCreate, TypeOK
    <3>2. v # Nothing
      BY EngineAssumption
    <3>3. Created(c)' = Created(c) \cup Subtree(r)
      BY <3>1, <3>2, SubtreeRows DEF Created
    <3>4. \A s \in Subtree(r) : RootOf[s] = r
      BY <3>1 DEF Subtree
    <3> QED BY <2>3, <3>3, <3>4 DEF WholeBranches, Deleted
  <2>4. ASSUME UNCHANGED news, NEW r \in Row, TxDeleteCreated(c, r)
        PROVE  Created(c)' = Created(c) /\ \A s \in Deleted(c)' : RootOf[s] = s
    <3>1. Deleted(c)' \subseteq Deleted(c) \cup {r} /\ RootOf[r] = r
      BY <2>4 DEF TxDeleteCreated, TypeOK, Deleted
    <3> QED BY <2>4, <3>1 DEF WholeBranches, Created
  <2>5. CASE UNCHANGED news /\ StageDelete(c)
    <3>1. PICK r \in arg[c] : dels' = [dels EXCEPT ![c][r] = [ver |-> ver[r], seen |-> commits[r]]]
      BY <2>5 DEF StageDelete
    <3>2. Deleted(c)' \subseteq Deleted(c) \cup {r}
      BY <3>1 DEF TypeOK, Deleted
    <3>3. RootOf[r] = r
      BY <2>5 DEF StageDelete, WholeBranches
    <3> QED BY <2>5, <3>2, <3>3 DEF WholeBranches, Created
  <2> QED BY <2>1, <2>2, <2>3, <2>4, <2>5, WorkingSet DEF WholeBranches
<1> QED BY <1>1, <1>2 DEF WholeBranches

\* A commit's own steps keep what it has validated.
LEMMA StillOwn ==
    ASSUME TypeOK, LockInv, ExclusionInv, NEW c \in Client, Calls(c) \/ Runs(c)
    PROVE  StillFree(c)' /\ StillCurrent(c)' /\ StillUnique(c)'
<1> SUFFICES ASSUME pc'[c] \in {"commit", "publish"} PROVE StillFree(c)' /\ StillCurrent(c)' /\ StillUnique(c)'
  BY DEF StillFree, StillCurrent, StillUnique
<1>1. UNCHANGED <<snap, news, dels, present, val, ver>>
  BY Committing
<1>2. Created(c)' = Created(c) /\ Touched(c)' = Touched(c) /\ Deleted(c)' = Deleted(c) /\ Doomed(c)' = Doomed(c)
  BY <1>1, SameSets
<1>3. /\ (StaleWrite(c)' <=> StaleWrite(c)) /\ (StaleDelete(c)' <=> StaleDelete(c))
  BY <1>1, <1>2 DEF StaleWrite, StaleDelete
<1>4. IndexValid(c) => IndexValid(c)'
  BY <1>1, <1>2 DEF IndexValid, AfterRows, AfterVal
<1>5. StillFree(c) /\ StillCurrent(c) /\ StillUnique(c)
  BY DEF ExclusionInv
<1>6. CASE pc' = pc
  BY <1>1, <1>2, <1>3, <1>4, <1>5, <1>6 DEF StillFree, StillCurrent, StillUnique
<1>7. CASE Prepare(c) /\ pc'[c] = "commit"
  <2>1. Created(c) \cap present = {}
    <3>1. pc' # [pc EXCEPT ![c] = "release"]
      BY <1>7 DEF TypeOK
    <3> QED BY <1>7, <3>1 DEF Prepare, Refuse
  <2> QED BY <1>1, <1>2, <1>7, <2>1 DEF StillFree, StillCurrent, StillUnique
<1>8. CASE Log(c) /\ pc'[c] = "publish"
  <2>1. ~StaleWrite(c) /\ ~StaleDelete(c) /\ IndexValid(c) /\ pc[c] = "commit"
    BY <1>8 DEF Log
  <2> QED BY <1>1, <1>2, <1>3, <1>4, <1>5, <2>1 DEF StillFree, StillCurrent, StillUnique
<1> QED BY <1>6, <1>7, <1>8, Committing

\* Nothing is staged at the start.
LEMMA ExclusionInit == Init => ExclusionInv
<1> SUFFICES ASSUME Init, NEW c \in Client
             PROVE  Excludes(c) /\ WholeBranches(c) /\ StillFree(c) /\ StillCurrent(c) /\ StillUnique(c)
  BY DEF ExclusionInv
<1>1. pc[c] = "idle" /\ Created(c) = {} /\ Deleted(c) = {}
  BY DEF Init, NoRows, Created, Deleted
<1> QED BY <1>1 DEF Excludes, WholeBranches, StillFree, StillCurrent, StillUnique

\* Every step keeps every goroutine's exclusion.
LEMMA ExclusionStep == TypeOK /\ LockInv /\ ExclusionInv /\ [Next]_vars => ExclusionInv'
<1> SUFFICES ASSUME TypeOK, LockInv, ExclusionInv, [Next]_vars PROVE ExclusionInv'
  OBVIOUS
<1>1. CASE UNCHANGED vars
  <2>1. UNCHANGED <<snap, news, dels, pc, want, arg, writer, readers, present, val, ver>>
    BY <1>1 DEF vars, rowVars, lockVars, txVars, opVars
  <2> SUFFICES ASSUME NEW c \in Client PROVE Exclusive(c)'
    BY DEF ExclusionInv, Exclusive
  <2>2. /\ Excludes(c) /\ WholeBranches(c) /\ StillFree(c) /\ StillCurrent(c) /\ StillUnique(c)
    BY DEF ExclusionInv
  <2>3. /\ Shaped(c)' = Shaped(c) /\ LockedRows(c)' = LockedRows(c)
        /\ (Reshapes(c)' <=> Reshapes(c)) /\ (Writes(c)' <=> Writes(c))
        /\ Created(c)' = Created(c) /\ Touched(c)' = Touched(c) /\ Deleted(c)' = Deleted(c) /\ Doomed(c)' = Doomed(c)
    BY <2>1, SameSets
  <2>4. \A k, i, l : (Waits(c, k, i)' <=> Waits(c, k, i)) /\ (Owns(c, l)' <=> Owns(c, l))
    BY <2>1 DEF Waits, Owns
  <2>5. Excludes(c)'
    <3>1. \A r : (Owns(c, StructureMu(RowType[r]))' <=> Owns(c, StructureMu(RowType[r])))
                 /\ (Owns(c, BranchMu(r))' <=> Owns(c, BranchMu(r)))
                 /\ (Owns(c, GraphMu)' <=> Owns(c, GraphMu))
      BY <2>1 DEF Owns
    <3> QED BY <2>1, <2>2, <2>3, <2>4, <3>1 DEF Excludes
  <2>6. WholeBranches(c)' /\ StillFree(c)'
    BY <2>1, <2>2, <2>3 DEF WholeBranches, StillFree
  <2>7. StillCurrent(c)' /\ StillUnique(c)'
    BY <2>1, <2>2, <2>3 DEF StillCurrent, StillUnique, StaleWrite, StaleDelete, IndexValid, AfterRows, AfterVal
  <2> QED BY <2>5, <2>6, <2>7 DEF Exclusive
<1>2. ASSUME NEW d \in Client, Calls(d) \/ Runs(d), NEW c \in Client PROVE Exclusive(c)'
  <2>1. CASE c # d
    BY <1>2, <2>1, ExclusionOthers
  <2>2. CASE c = d
    <3>1. WholeBranches(c)
      BY DEF ExclusionInv
    <3> QED BY <1>2, <2>2, <3>1, ExcludesOwn, BranchesOwn, StillOwn DEF Exclusive
  <2> QED BY <2>1, <2>2
<1> QED BY <1>1, <1>2 DEF Next, ExclusionInv, Exclusive

\* Exclusion is an invariant.
LEMMA ExclusionInvariant == Spec => []ExclusionInv
BY TypeCorrect, LockInvariant, ExclusionInit, ExclusionStep, PTL DEF Spec

----------------------------------------------------------------------------
(* Unique keys *)

\* A unique index that validateIndexes found in order before the frame was written
\* is in order when the rows are published, whatever others commit meanwhile.
THEOREM KeysAreUnique == Spec => []UniqueKeys
<1>1. Init => UniqueKeys
  BY StartAssumption DEF Init, UniqueKeys
<1>2. TypeOK /\ ExclusionInv /\ UniqueKeys /\ [Next]_vars => UniqueKeys'
  <2> SUFFICES ASSUME TypeOK, ExclusionInv, UniqueKeys, [Next]_vars PROVE UniqueKeys'
    OBVIOUS
  <2>1. CASE UNCHANGED <<present, val>>
    BY <2>1 DEF UniqueKeys
  <2>2. ASSUME NEW c \in Client, Publish(c) PROVE UniqueKeys'
    <3> SUFFICES ASSUME NEW r \in present', NEW s \in present', RowType[r] \in UniqueTypes,
                        RowType[r] = RowType[s], val'[r] = val'[s]
                 PROVE  r = s
      BY DEF UniqueKeys
    <3>1. IndexValid(c)
      BY <2>2 DEF ExclusionInv, StillUnique, Publish
    <3>2. r \in AfterRows(c) /\ s \in AfterRows(c)
      BY <2>2 DEF Publish
    <3>3. r \in Row /\ s \in Row
      BY <3>2, CommitRows DEF AfterRows, TypeOK
    <3>4. val'[r] = AfterVal(c, r) /\ val'[s] = AfterVal(c, s)
      BY <2>2, <3>3 DEF Publish
    <3>5. CASE r \in Touched(c) \cup Created(c) \/ s \in Touched(c) \cup Created(c)
      BY <3>1, <3>2, <3>4, <3>5 DEF IndexValid
    <3>6. CASE r \notin Touched(c) \cup Created(c) /\ s \notin Touched(c) \cup Created(c)
      <4>1. r \in present /\ s \in present /\ val[r] = val[s]
        BY <3>2, <3>4, <3>6 DEF AfterRows, AfterVal
      <4> QED BY <4>1 DEF UniqueKeys
    <3> QED BY <3>5, <3>6
  <2>3. CASE UNCHANGED vars
    BY <2>1, <2>3 DEF vars, rowVars
  <2>4. ASSUME NEW c \in Client, Calls(c) \/ Runs(c), ~Publish(c) PROVE UniqueKeys'
    BY <2>1, <2>4, RowsChange DEF rowVars
  <2> QED BY <2>2, <2>3, <2>4 DEF Next
<1> QED BY <1>1, <1>2, TypeCorrect, ExclusionInvariant, PTL DEF Spec
=============================================================================
