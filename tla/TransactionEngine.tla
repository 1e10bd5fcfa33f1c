------------------------- MODULE TransactionEngine -------------------------
(***************************************************************************)
(* Optimistic transactions over locked rows (engine.go, transaction.go,    *)
(* query.go, snapshot.go, view.go, branchlock.go and the committer half of *)
(* db.go).                                                                 *)
(*                                                                         *)
(* Work happens on private copies.  A commit takes graphMu when it touches *)
(* the relation graph, structureMu of the types whose shape or index it    *)
(* changes, the branch lock of every ownership root it touches and the     *)
(* mutex of every row, in that order; it then compares versions, writes    *)
(* its frame and publishes.  Readers take graphMu and a branch lock, or    *)
(* row locks.  A row's mutex lives in its slot: lockResource finds the     *)
(* slot by id and locks it later, unlockResource looks the id up again.    *)
(*                                                                         *)
(* Rows stand for (type, id) pairs in the order of their keys.  Ownership  *)
(* is fixed: RootOf gives the top-level owner, trees are two levels deep,  *)
(* and whole branches are created and deleted.  A value carries at most    *)
(* one borrow (Link) and is itself the unique key of an indexed type.      *)
(***************************************************************************)
EXTENDS Naturals

CONSTANTS
    Client,        \* goroutines
    NoClient,      \* "unlocked"
    Nothing,       \* "not in this transaction"
    NumRows,       \* rows are 1..NumRows, in (type, id) order
    NumTypes,      \* types are 1..NumTypes, in name order
    RowType,       \* row -> type
    RootOf,        \* row -> the root of its ownership branch
    Participants,  \* types that take part in a relation
    UniqueTypes,   \* types with a unique secondary index
    Value,         \* contents of a row
    Link,          \* value -> the row it borrows, 0 for none
    Ops,           \* client -> the operations its program uses
    StartRows,     \* row -> its value at the start, Nothing if it does not exist
    ReuseIds,      \* may a program create an explicit id that was deleted?
    WalErrors,     \* may a WAL append fail?
    MaxOps,        \* client -> bound on the operations it starts
    MaxSlots       \* bound on the slots one id has over time

Row == 1 .. NumRows
Type == 1 .. NumTypes
Operation == {"TxGet", "Create", "Delete", "Update", "UpdateWithin", "View", "ViewMany"}

ASSUME EngineAssumption ==
    /\ NumRows \in Nat /\ NumTypes \in Nat
    /\ MaxSlots \in Nat \ {0}
    /\ MaxOps \in [Client -> Nat]
    /\ RowType \in [Row -> Type]
    /\ RootOf \in [Row -> Row]
    /\ \A r \in Row : RootOf[RootOf[r]] = RootOf[r]
    /\ \A r \in Row : RootOf[r] # r => {RowType[r], RowType[RootOf[r]]} \subseteq Participants
    /\ Link \in [Value -> Row \cup {0}]
    /\ \A v \in Value : Link[v] # 0 => RowType[Link[v]] \in Participants
    /\ Ops \in [Client -> SUBSET Operation]
    /\ StartRows \in [Row -> Value \cup {Nothing}]
    /\ NoClient \notin Client
    /\ Nothing \notin Value /\ Value # {}

\* What Register loads has passed syncIndices and the validation of the graph.
ASSUME StartAssumption ==
    \A r \in Row : StartRows[r] # Nothing =>
        /\ RowType[r] \in Participants /\ Link[StartRows[r]] # 0 => StartRows[Link[StartRows[r]]] # Nothing
        /\ \A s \in Row : RowType[r] \in UniqueTypes /\ RowType[s] = RowType[r] /\ StartRows[s] = StartRows[r] => s = r

VARIABLES
    present,    \* ids in resById
    slots,      \* [Row -> slots ever appended for the id]; the last one is in resById
    val, ver,   \* [Row -> ...]: item and version of the row's current slot
    writer,     \* [Lock -> goroutine that announced or holds it for writing]
    readers,    \* [Lock -> goroutines that hold it for reading]
    pc,         \* [Client -> where its operation stands]
    mode,       \* [Client -> the kind of operation]
    arg,        \* [Client -> rows the operation names]
    want,       \* [Client -> lock requests still to be granted]
    target,     \* [Client -> slot found for the current request, 0 before the lookup]
    asked,      \* [Client -> rows locked by id, to be unlocked by id]
    back,       \* [Client -> where it continues after its deferred unlocks]
    snap,       \* [Client -> [Row -> copy in the transaction]]
    news,       \* [Client -> [Row -> staged create]]
    dels,       \* [Client -> [Row -> staged delete]]
    budget,     \* [Client -> operations it may still start]
    fatal,      \* a mutex was unlocked by someone who does not hold it
    commits     \* history: how often each id was written, created or deleted

rowVars == <<present, slots, val, ver, commits>>
lockVars == <<writer, readers, fatal>>
txVars == <<snap, news, dels>>
opVars == <<mode, arg, budget>>
vars == <<rowVars, lockVars, txVars, opVars, pc, want, target, asked, back>>

----------------------------------------------------------------------------
(* Locks *)

Kind == {"update", "graph", "structure", "branch", "row"}
Lock == [kind : Kind, id : Nat, gen : Nat]
Request == [kind : Kind, id : Nat, excl : BOOLEAN]
InSlot(q) == q.kind \in {"row", "update"}

Level(kind) ==
    CASE kind = "update" -> 0 [] kind = "graph" -> 1 [] kind = "structure" -> 2
      [] kind = "branch" -> 3 [] kind = "row" -> 4

\* The order in which every operation takes its locks; within a level by name
\* and id.
Before(p, q) ==
    \/ Level(p.kind) < Level(q.kind)
    \/ p.kind = q.kind /\ p.id < q.id

Graph(excl) == [kind |-> "graph", id |-> 0, excl |-> excl]
Structure(t, excl) == [kind |-> "structure", id |-> t, excl |-> excl]
Branch(r, excl) == [kind |-> "branch", id |-> RootOf[r], excl |-> excl]
RowLock(r, excl) == [kind |-> "row", id |-> r, excl |-> excl]
UpdateMu(r) == [kind |-> "update", id |-> r, excl |-> TRUE]

AllLocks ==
    {[kind |-> "graph", id |-> 0, gen |-> 0]}
    \cup {[kind |-> "structure", id |-> t, gen |-> 0] : t \in Type}
    \cup {[kind |-> "branch", id |-> r, gen |-> 0] : r \in Row}
    \cup {[kind |-> k, id |-> r, gen |-> g] : k \in {"row", "update"}, r \in Row, g \in 1 .. MaxSlots}

\* Mutant: row locks in the order the transaction touched the rows.
IsNextAnyOrder(c, q) ==
    q \in want[c] /\ \A p \in want[c] : Level(q.kind) <= Level(p.kind)

IsNext(c, q) == q \in want[c] /\ \A p \in want[c] \ {q} : Before(q, p)

LockOf(c, q) ==
    [kind |-> q.kind, id |-> q.id, gen |-> IF InSlot(q) THEN target[c] ELSE 0]

----------------------------------------------------------------------------
(* What a transaction holds *)

Subtree(r) == IF RootOf[r] = r THEN {s \in Row : RootOf[s] = r} ELSE {r}
InGraph(r) == RowType[r] \in Participants

Loaded(c) == {r \in Row : snap[c][r] # Nothing}
Touched(c) == {r \in Loaded(c) : snap[c][r].work # snap[c][r].orig}
Created(c) == {r \in Row : news[c][r] # Nothing}
Deleted(c) == {r \in Row : dels[c][r] # Nothing}
Structural(c) == Created(c) \cup Deleted(c)

\* deletionClosure: what the staged deletes take with them.
Doomed(c) == UNION {Subtree(r) : r \in Deleted(c)}

NoRows == [r \in Row |-> Nothing]

\* The rows and values the commit of c leads to.
AfterRows(c) == (present \cup Created(c)) \ Doomed(c)
AfterVal(c, r) ==
    IF r \in Created(c) THEN news[c][r]
    ELSE IF r \in Touched(c) THEN snap[c][r].work
    ELSE val[r]

LinksChanged(c) ==
    \E r \in Touched(c) : InGraph(r) /\ Link[snap[c][r].work] # Link[snap[c][r].orig]

\* Mutant: a changed relation field counts as a scalar edit.
GraphAccessScalar(c) ==
    IF \E r \in Structural(c) : InGraph(r) THEN {Graph(TRUE)}
    ELSE IF \E r \in Touched(c) : InGraph(r) THEN {Graph(FALSE)}
    ELSE {}

\* transactionGraphAccess
GraphAccess(c) ==
    IF LinksChanged(c) \/ \E r \in Structural(c) : InGraph(r) THEN {Graph(TRUE)}
    ELSE IF \E r \in Touched(c) : InGraph(r) THEN {Graph(FALSE)}
    ELSE {}

\* Mutant: only creates and deletes lock the structure of their type.
StructureLocksForShape(c) == {Structure(RowType[r], TRUE) : r \in Structural(c)}

\* transactionStructuralDBNames
StructureLocks(c) ==
    {Structure(RowType[r], TRUE) :
        r \in Structural(c) \cup {s \in Touched(c) : RowType[s] \in UniqueTypes}}

\* Mutant: created rows are locked too.
LockedRowsWithCreates(c) == Touched(c) \cup Deleted(c) \cup Created(c)

\* transactionResourceLocks: creates are not locked, nor what a delete cascades to.
LockedRows(c) == Touched(c) \cup (Deleted(c) \ Created(c))

\* Mutant: only branches are locked, not the rows.
BranchLocksOnly(c) == {Branch(r, TRUE) : r \in LockedRows(c)}

\* Mutant: only rows are locked, not their branches.
RowLocksOnly(c) == {RowLock(r, TRUE) : r \in LockedRows(c)}

\* lockTouchedBranches, then lockResource of every row.
RowLocks(c) == {Branch(r, TRUE) : r \in LockedRows(c)} \cup {RowLock(r, TRUE) : r \in LockedRows(c)}

\* validateTransactionGraph: no survivor borrows a row that will not be there.
GraphValid(c) ==
    \A r \in AfterRows(c) : InGraph(r) => Link[AfterVal(c, r)] \in AfterRows(c) \cup {0}

\* validateTransactionIndexes
IndexValid(c) ==
    \A r \in AfterRows(c) \cap (Touched(c) \cup Created(c)), s \in AfterRows(c) :
        (RowType[r] \in UniqueTypes /\ RowType[s] = RowType[r] /\ AfterVal(c, r) = AfterVal(c, s))
            => r = s

----------------------------------------------------------------------------
(* Operations start *)

Start(c, op) == ~fatal /\ pc[c] = "idle" /\ op \in Ops[c] /\ budget[c] > 0

Enter(c, m, rows, at, requests) ==
    /\ pc' = [pc EXCEPT ![c] = at]
    /\ mode' = [mode EXCEPT ![c] = m]
    /\ arg' = [arg EXCEPT ![c] = rows]
    /\ want' = [want EXCEPT ![c] = requests]
    /\ budget' = [budget EXCEPT ![c] = @ - 1]
    /\ asked' = [asked EXCEPT ![c] = {}]
    /\ UNCHANGED <<rowVars, lockVars, txVars, target, back>>

\* cloneOwnershipAggregate: graphMu is read-locked even for a flat type, and
\* every row of the subtree is locked by id.
CloneLocks(r) == {Graph(FALSE)} \cup {RowLock(s, TRUE) : s \in Subtree(r)}

\* getDetachedRoot, or getInTransaction when the row owns others.
DetachedLocks(r) ==
    IF Subtree(r) # {r} THEN CloneLocks(r)
    ELSE {Graph(FALSE) : s \in {r} \cap {t \in Row : InGraph(t)}} \cup {RowLock(r, FALSE)}

\* DB.Transaction calls fn
Begin(c) ==
    /\ \E op \in {"TxGet", "Create", "Delete"} : Start(c, op)
    /\ Enter(c, "tx", {}, "open", {})

\* DB.Get
Get(c, r) ==
    /\ Start(c, "Update")
    /\ pc' = [pc EXCEPT ![c] = "load"]
    /\ mode' = [mode EXCEPT ![c] = "detached"]
    /\ arg' = [arg EXCEPT ![c] = {r}]
    /\ want' = [want EXCEPT ![c] = DetachedLocks(r)]
    /\ asked' = [asked EXCEPT ![c] = {s \in Row : RowLock(s, TRUE) \in DetachedLocks(r)}]
    /\ budget' = [budget EXCEPT ![c] = @ - 1]
    /\ UNCHANGED <<rowVars, lockVars, txVars, target, back>>

\* DB.UpdateWithin of a row that owns nothing (Tower handles the others).
UpdateWithin(c, r) ==
    /\ Start(c, "UpdateWithin")
    /\ Subtree(r) = {r}
    /\ Enter(c, "within", {r}, "within", {UpdateMu(r)})

\* DB.View
View(c, r) ==
    /\ Start(c, "View")
    /\ IF InGraph(r)
       THEN Enter(c, "view", Subtree(r), "view", {Graph(FALSE), Branch(r, FALSE)})
       ELSE Enter(c, "view", {r}, "view", {RowLock(r, FALSE)})

\* DB.ViewMany, and viewRange once the index has named the rows
ViewMany(c, t, rows) ==
    /\ Start(c, "ViewMany")
    /\ rows \subseteq {r \in Row : RowType[r] = t}
    /\ Enter(c, "view", rows, "view",
             {Graph(FALSE) : u \in {t} \cap Participants} \cup {Structure(t, FALSE)}
             \cup {RowLock(r, FALSE) : r \in rows})

----------------------------------------------------------------------------
(* Inside a transaction callback *)

Locking(c, at, rows, requests) ==
    /\ pc' = [pc EXCEPT ![c] = at]
    /\ arg' = [arg EXCEPT ![c] = rows]
    /\ want' = [want EXCEPT ![c] = requests]
    /\ asked' = [asked EXCEPT ![c] = {s \in Row : RowLock(s, TRUE) \in requests}]

InCallback(c) == ~fatal /\ pc[c] = "open" /\ mode[c] = "tx"

\* Tx.Get of a row that is neither staged nor loaded yet
TxGet(c, r) ==
    /\ InCallback(c) /\ "TxGet" \in Ops[c]
    /\ r \notin Loaded(c) \cup Created(c)
    /\ Locking(c, "load", {r}, CloneLocks(r))
    /\ UNCHANGED <<rowVars, lockVars, txVars, mode, budget, target, back>>

\* Tx.Create: relationPrepareCreate and stageCreate over the subtree
TxCreate(c, r, v) ==
    /\ InCallback(c) /\ "Create" \in Ops[c]
    /\ RootOf[r] = r
    /\ \A s \in Subtree(r) :
          /\ s \notin present \cup Created(c)
          /\ slots[s] < MaxSlots
          /\ slots[s] > 0 => ReuseIds
    /\ news' = [news EXCEPT ![c] = [s \in Row |-> IF s \in Subtree(r) THEN v ELSE @[s]]]
    /\ UNCHANGED <<rowVars, lockVars, opVars, snap, dels, pc, want, target, asked, back>>

\* Tx.Delete of a row staged in this transaction
TxDeleteCreated(c, r) ==
    /\ InCallback(c) /\ "Delete" \in Ops[c]
    /\ r \in Created(c) \ Deleted(c) /\ RootOf[r] = r
    /\ dels' = [dels EXCEPT ![c][r] = [ver |-> 0, seen |-> commits[r]]]
    /\ UNCHANGED <<rowVars, lockVars, opVars, snap, news, pc, want, target, asked, back>>

\* Tx.Delete of a live row: find the slot, then read its version under RLock.
TxDelete(c, r) ==
    /\ InCallback(c) /\ "Delete" \in Ops[c]
    /\ r \notin Created(c) \cup Deleted(c) /\ RootOf[r] = r
    /\ Locking(c, "stage", {r}, {RowLock(r, FALSE)})
    /\ UNCHANGED <<rowVars, lockVars, txVars, mode, budget, target, back>>

StageDelete(c) ==
    /\ ~fatal /\ pc[c] = "stage" /\ want[c] = {}
    /\ \E r \in arg[c] : dels' = [dels EXCEPT ![c][r] = [ver |-> ver[r], seen |-> commits[r]]]
    /\ pc' = [pc EXCEPT ![c] = "release"]
    /\ back' = [back EXCEPT ![c] = "open"]
    /\ UNCHANGED <<rowVars, lockVars, opVars, snap, news, want, target, asked>>

\* evict
Evict(c) ==
    /\ snap' = [snap EXCEPT ![c] = NoRows]
    /\ news' = [news EXCEPT ![c] = NoRows]
    /\ dels' = [dels EXCEPT ![c] = NoRows]

\* The callback returns an error, or the caller drops a detached branch.
Abort(c) ==
    /\ ~fatal /\ pc[c] = "open"
    /\ Evict(c)
    /\ pc' = [pc EXCEPT ![c] = "release"]
    /\ back' = [back EXCEPT ![c] = "idle"]
    /\ UNCHANGED <<rowVars, lockVars, opVars, want, target, asked>>

----------------------------------------------------------------------------
(* Taking and releasing locks *)

\* db.resource: the slot behind an id, before anyone waits for its mutex.
\* lockResource skips an id that is gone, everyone else reports ErrNotFound.
Lookup(c) ==
    /\ ~fatal
    /\ \E q \in want[c] :
        /\ IsNext(c, q) /\ InSlot(q) /\ target[c] = 0
        /\ \/ /\ q.id \in present
              /\ target' = [target EXCEPT ![c] = slots[q.id]]
              /\ UNCHANGED <<want, pc, back>>
           \/ /\ q.id \notin present
              /\ q.kind = "row" /\ q.excl
              /\ want' = [want EXCEPT ![c] = @ \ {q}]
              /\ UNCHANGED <<target, pc, back>>
           \/ /\ q.id \notin present
              /\ ~(q.kind = "row" /\ q.excl)
              /\ want' = [want EXCEPT ![c] = {}]
              /\ pc' = [pc EXCEPT ![c] = "release"]
              /\ back' = [back EXCEPT ![c] = IF mode[c] = "tx" THEN "open" ELSE "idle"]
              /\ UNCHANGED target
    /\ UNCHANGED <<rowVars, lockVars, txVars, opVars, asked>>

Ready(c, q) == IsNext(c, q) /\ (InSlot(q) => target[c] # 0)

\* RWMutex.Lock turns later readers away before it waits for earlier ones.
Announce(c) ==
    /\ ~fatal
    /\ \E q \in want[c] :
        /\ Ready(c, q) /\ q.excl
        /\ writer[LockOf(c, q)] = NoClient
        /\ writer' = [writer EXCEPT ![LockOf(c, q)] = c]
    /\ UNCHANGED <<rowVars, readers, fatal, txVars, opVars, pc, want, target, asked, back>>

Acquire(c) ==
    /\ ~fatal
    /\ \E q \in want[c] :
        /\ Ready(c, q)
        /\ \/ /\ q.excl
              /\ writer[LockOf(c, q)] = c
              /\ readers[LockOf(c, q)] = {}
              /\ UNCHANGED readers
           \/ /\ ~q.excl
              /\ writer[LockOf(c, q)] = NoClient
              /\ readers' = [readers EXCEPT ![LockOf(c, q)] = @ \cup {c}]
        /\ want' = [want EXCEPT ![c] = @ \ {q}]
    /\ target' = [target EXCEPT ![c] = 0]
    /\ UNCHANGED <<rowVars, writer, fatal, txVars, opVars, pc, asked, back>>

SlotLock(r) == [kind |-> "row", id |-> r, gen |-> slots[r]]

\* Mutant: commit returns without calling releaseBranches.
ReleasesNoBranches(c, l) ==
    /\ writer[l] = c
    /\ l.kind # "branch"
    /\ l.kind = "row" => \E r \in asked[c] \cap present : l = SlotLock(r)
    /\ l.kind = "update" => back[c] = "idle"

\* What the deferred unlocks give back: row mutexes by id, so only the ones
\* whose id is still there; updateMu when UpdateWithin returns.
Releases(c, l) ==
    /\ writer[l] = c
    /\ l.kind = "row" => \E r \in asked[c] \cap present : l = SlotLock(r)
    /\ l.kind = "update" => back[c] = "idle"

\* The deferred unlocks, and the return to the caller or to the next attempt.
Release(c) ==
    /\ ~fatal /\ pc[c] = "release"
    /\ fatal' = (\E r \in asked[c] \cap present : writer[SlotLock(r)] # c)
    /\ writer' = [l \in AllLocks |-> IF Releases(c, l) THEN NoClient ELSE writer[l]]
    /\ readers' = [l \in AllLocks |-> readers[l] \ {c}]
    /\ asked' = [asked EXCEPT ![c] = {}]
    /\ pc' = [pc EXCEPT ![c] = back[c]]
    /\ mode' = [mode EXCEPT ![c] = IF back[c] = "idle" THEN "none" ELSE @]
    /\ arg' = [arg EXCEPT ![c] = IF back[c] # "idle" /\ mode[c] = "within" THEN @ ELSE {}]
    /\ back' = [back EXCEPT ![c] = "idle"]
    /\ UNCHANGED <<rowVars, txVars, budget, want, target>>

----------------------------------------------------------------------------
(* Reads *)

\* UpdateWithin begins an attempt: Transaction, Tx.UpdateWithin, Tx.Get.
Attempt(c) ==
    /\ ~fatal
    /\ pc[c] = "retry" \/ (pc[c] = "within" /\ want[c] = {})
    /\ \E r \in arg[c] : Locking(c, "load", {r}, CloneLocks(r))
    /\ UNCHANGED <<rowVars, lockVars, txVars, mode, budget, target, back>>

\* Mutant: the version before the one that was read.
SnapshotOffByOne(r) == [ver |-> ver[r] - 1, orig |-> val[r], work |-> val[r], seen |-> commits[r]]

Snapshot(r) == [ver |-> ver[r], orig |-> val[r], work |-> val[r], seen |-> commits[r]]

\* snapshotResource of the subtree and recordBatch, which keeps rows it has.
Snap(c) ==
    /\ ~fatal /\ pc[c] = "load" /\ want[c] = {}
    /\ \E r \in arg[c] :
        IF Subtree(r) \subseteq present
        THEN /\ snap' = [snap EXCEPT ![c] = [s \in Row |->
                   IF s \in Subtree(r) /\ @[s] = Nothing THEN Snapshot(s) ELSE @[s]]]
             /\ back' = [back EXCEPT ![c] = "open"]
        ELSE /\ back' = [back EXCEPT ![c] = IF mode[c] = "tx" THEN "open" ELSE "idle"]
             /\ UNCHANGED snap
    /\ pc' = [pc EXCEPT ![c] = "release"]
    /\ UNCHANGED <<rowVars, lockVars, opVars, news, dels, want, target, asked>>

\* The locks of a View are granted; in the graph the row may be missing.
BeginView(c) ==
    /\ ~fatal /\ pc[c] = "view" /\ want[c] = {}
    /\ pc' = [pc EXCEPT ![c] =
          IF \E r \in arg[c] : InGraph(r) /\ r \notin present THEN "release" ELSE "viewing"]
    /\ UNCHANGED <<rowVars, lockVars, txVars, opVars, want, target, asked, back>>

\* The callback of a View returns.
EndView(c) ==
    /\ ~fatal /\ pc[c] = "viewing"
    /\ pc' = [pc EXCEPT ![c] = "release"]
    /\ UNCHANGED <<rowVars, lockVars, txVars, opVars, want, target, asked, back>>

----------------------------------------------------------------------------
(* Commit *)

\* The caller's edits w are in; commit sorts out what changed and asks for
\* graphMu and the structure locks.
Commit(c, w) ==
    /\ ~fatal /\ pc[c] = "open"
    /\ \A r \in Row : w[r] = Nothing <=> r \notin Loaded(c)
    /\ snap' = [snap EXCEPT ![c] = [r \in Row |->
          IF @[r] = Nothing THEN Nothing ELSE [@[r] EXCEPT !.work = w[r]]]]
    /\ pc' = [pc EXCEPT ![c] = "changes"]
    /\ UNCHANGED <<rowVars, lockVars, opVars, news, dels, want, target, asked, back>>

Changes(c) ==
    /\ ~fatal /\ pc[c] = "changes"
    /\ IF Touched(c) \cup Structural(c) = {}
       THEN /\ Evict(c)
            /\ pc' = [pc EXCEPT ![c] = "release"]
            /\ UNCHANGED want
       ELSE /\ want' = [want EXCEPT ![c] = GraphAccess(c) \cup StructureLocks(c)]
            /\ pc' = [pc EXCEPT ![c] = "prepare"]
            /\ UNCHANGED txVars
    /\ UNCHANGED <<rowVars, lockVars, opVars, target, asked, back>>

\* How commit's caller goes on after an error: Transaction discards the working
\* set, Update leaves the branch bound, UpdateWithin retries a conflict.
Refuse(c, conflict) ==
    /\ pc' = [pc EXCEPT ![c] = "release"]
    /\ back' = [back EXCEPT ![c] =
          CASE mode[c] = "detached" -> "open"
            [] mode[c] = "within" /\ conflict -> "retry"
            [] OTHER -> "idle"]

\* Under graphMu and the structure locks: the graph is validated, a created id
\* must still be free; then the branches and rows.
Prepare(c) ==
    /\ ~fatal /\ pc[c] = "prepare" /\ want[c] = {}
    /\ IF (Graph(TRUE) \in GraphAccess(c) => GraphValid(c)) /\ Created(c) \cap present = {}
       THEN /\ pc' = [pc EXCEPT ![c] = "commit"]
            /\ want' = [want EXCEPT ![c] = RowLocks(c)]
            /\ asked' = [asked EXCEPT ![c] = LockedRows(c)]
            /\ UNCHANGED <<txVars, back>>
       ELSE /\ Refuse(c, FALSE)
            /\ IF mode[c] = "detached" THEN UNCHANGED txVars ELSE Evict(c)
            /\ UNCHANGED <<want, asked>>
    /\ UNCHANGED <<rowVars, lockVars, opVars, target>>

StaleWrite(c) == \E r \in Touched(c) : r \notin present \/ ver[r] # snap[c][r].ver
StaleDelete(c) ==
    \E r \in Deleted(c) \ Created(c) : r \notin present \/ ver[r] # dels[c][r].ver

\* refresh: live state into every copy that still has a row.
Refresh(c) ==
    /\ snap' = [snap EXCEPT ![c] = [r \in Row |->
          IF @[r] # Nothing /\ r \in present THEN Snapshot(r) ELSE @[r]]]
    /\ UNCHANGED <<news, dels>>

Conflict(c) ==
    /\ ~fatal /\ pc[c] = "commit" /\ want[c] = {}
    /\ StaleWrite(c) \/ StaleDelete(c)
    /\ IF mode[c] = "detached" THEN Refresh(c) ELSE Evict(c)
    /\ Refuse(c, TRUE)
    /\ UNCHANGED <<rowVars, lockVars, opVars, want, target, asked>>

\* A unique index refuses the final state, or the WAL append fails.
Reject(c) ==
    /\ ~fatal /\ pc[c] = "commit" /\ want[c] = {}
    /\ ~StaleWrite(c) /\ ~StaleDelete(c)
    /\ ~IndexValid(c) \/ WalErrors
    /\ IF mode[c] = "detached" THEN UNCHANGED txVars ELSE Evict(c)
    /\ Refuse(c, FALSE)
    /\ UNCHANGED <<rowVars, lockVars, opVars, want, target, asked>>

\* Mutant: versions are not compared.
LogUnchecked(c) ==
    /\ ~fatal /\ pc[c] = "commit" /\ want[c] = {}
    /\ IndexValid(c)
    /\ pc' = [pc EXCEPT ![c] = "publish"]
    /\ UNCHANGED <<rowVars, lockVars, txVars, opVars, want, target, asked, back>>

\* Versions and indexes are in order and the frame is on disk.
Log(c) ==
    /\ ~fatal /\ pc[c] = "commit" /\ want[c] = {}
    /\ ~StaleWrite(c) /\ ~StaleDelete(c)
    /\ IndexValid(c)
    /\ pc' = [pc EXCEPT ![c] = "publish"]
    /\ UNCHANGED <<rowVars, lockVars, txVars, opVars, want, target, asked, back>>

\* applyWrite, relationApplyCreate (a new slot), applyDeletedNodes, evict.
Publish(c) ==
    /\ ~fatal /\ pc[c] = "publish"
    /\ \A r \in Created(c) : slots[r] < MaxSlots   \* the bound
    /\ present' = AfterRows(c)
    /\ slots' = [r \in Row |-> IF r \in Created(c) THEN slots[r] + 1 ELSE slots[r]]
    /\ val' = [r \in Row |-> AfterVal(c, r)]
    /\ ver' = [r \in Row |->
          IF r \in Created(c) THEN 0 ELSE IF r \in Touched(c) THEN ver[r] + 1 ELSE ver[r]]
    /\ commits' = [r \in Row |->
          IF r \in Touched(c) \cup Created(c) \cup Doomed(c) THEN commits[r] + 1 ELSE commits[r]]
    /\ Evict(c)
    /\ pc' = [pc EXCEPT ![c] = "release"]
    /\ back' = [back EXCEPT ![c] = "idle"]
    /\ UNCHANGED <<lockVars, opVars, want, target, asked>>

----------------------------------------------------------------------------
Init ==
    /\ present = {r \in Row : StartRows[r] # Nothing}
    /\ slots = [r \in Row |-> IF StartRows[r] # Nothing THEN 1 ELSE 0]
    /\ val = [r \in Row |-> IF StartRows[r] # Nothing THEN StartRows[r] ELSE CHOOSE v \in Value : TRUE]
    /\ ver = [r \in Row |-> 0]
    /\ writer = [l \in AllLocks |-> NoClient]
    /\ readers = [l \in AllLocks |-> {}]
    /\ pc = [c \in Client |-> "idle"]
    /\ mode = [c \in Client |-> "none"]
    /\ arg = [c \in Client |-> {}]
    /\ want = [c \in Client |-> {}]
    /\ target = [c \in Client |-> 0]
    /\ asked = [c \in Client |-> {}]
    /\ back = [c \in Client |-> "idle"]
    /\ snap = [c \in Client |-> NoRows]
    /\ news = [c \in Client |-> NoRows]
    /\ dels = [c \in Client |-> NoRows]
    /\ budget = MaxOps
    /\ fatal = FALSE
    /\ commits = [r \in Row |-> 0]

\* A caller decides: it calls, edits, stages, hands in or gives up.
Calls(c) ==
    \/ Begin(c)
    \/ \E r \in Row : Get(c, r) \/ UpdateWithin(c, r) \/ View(c, r)
    \/ \E t \in Type, rows \in SUBSET Row : ViewMany(c, t, rows)
    \/ \E r \in Row : TxGet(c, r) \/ TxDelete(c, r) \/ TxDeleteCreated(c, r)
    \/ \E r \in Row, v \in Value : TxCreate(c, r, v)
    \/ Abort(c)
    \/ \E w \in [Row -> Value \cup {Nothing}] : Commit(c, w)

\* The library's own code runs on.
Runs(c) ==
    \/ Lookup(c) \/ Announce(c) \/ Acquire(c) \/ Release(c)
    \/ Attempt(c) \/ Snap(c) \/ BeginView(c) \/ EndView(c) \/ StageDelete(c)
    \/ Changes(c) \/ Prepare(c) \/ Conflict(c) \/ Reject(c) \/ Log(c) \/ Publish(c)

Next == \E c \in Client : Calls(c) \/ Runs(c)

Spec == Init /\ [][Next]_vars

\* Goroutines are scheduled, and callbacks return: the one of UpdateWithin ends
\* in a commit or an error.  Nothing obliges a caller to use a detached branch.
Returns(c) == mode[c] = "within" /\ (Abort(c) \/ \E w \in [Row -> Value \cup {Nothing}] : Commit(c, w))
FairSpec == Spec /\ \A c \in Client : WF_vars(Runs(c) \/ Returns(c))

----------------------------------------------------------------------------
(* Properties *)

Snapshots == [ver : Nat, orig : Value, work : Value, seen : Nat]
Staged == [ver : Nat, seen : Nat]
Places == {"idle", "open", "load", "stage", "within", "retry", "view", "viewing",
           "changes", "prepare", "commit", "publish", "release"}

\* Type correctness of rows, locks and the clients' positions.
TypeOK ==
    /\ present \subseteq Row
    /\ slots \in [Row -> 0 .. MaxSlots]
    /\ val \in [Row -> Value]
    /\ ver \in [Row -> Nat]
    /\ commits \in [Row -> Nat]
    /\ writer \in [AllLocks -> Client \cup {NoClient}]
    /\ readers \in [AllLocks -> SUBSET Client]
    /\ fatal \in BOOLEAN
    /\ pc \in [Client -> Places]
    /\ mode \in [Client -> {"none", "tx", "detached", "within", "view"}]
    /\ arg \in [Client -> SUBSET Row]
    /\ want \in [Client -> SUBSET Request]
    /\ target \in [Client -> 0 .. MaxSlots]
    /\ asked \in [Client -> SUBSET Row]
    /\ back \in [Client -> {"idle", "open", "retry"}]
    /\ snap \in [Client -> [Row -> Snapshots \cup {Nothing}]]
    /\ news \in [Client -> [Row -> Value \cup {Nothing}]]
    /\ dels \in [Client -> [Row -> Staged \cup {Nothing}]]
    /\ budget \in [Client -> Nat]

\* TODO.md: "first writer wins, ErrConflict + snapshot refresh".  A commit
\* overwrites or deletes a row only if nobody wrote, deleted or created it
\* since the committer took its copy.
FirstWriterWins ==
    [][\A c \in Client : (pc[c] = "publish" /\ pc[c]' = "release") =>
          /\ \A r \in Touched(c) : commits[r] = snap[c][r].seen
          /\ \A r \in Deleted(c) \ Created(c) : commits[r] = dels[c][r].seen]_vars

\* docs/transactions.md: View "read-locks its ownership subtree for the
\* duration of the callback"; the rows of a View, ViewMany or ViewRange neither
\* change nor disappear while the callback runs.
ViewsAreStable ==
    [][\A c \in Client : pc[c] = "viewing" =>
          \A r \in arg[c] : val[r]' = val[r] /\ (r \in present)' = (r \in present)]_vars

\* docs/how-it-works.md: validation and publication share the graph write lock,
\* so no parallel transaction adds a borrow after a delete was validated.  A
\* live row never borrows one that is gone.
NoDanglingBorrow ==
    \A r \in present : InGraph(r) => Link[val[r]] \in present \cup {0}

\* A unique index stays unique though validateIndexes runs before the WAL fsync
\* and the rows are published after it.
UniqueKeys ==
    \A r, s \in present :
        (RowType[r] \in UniqueTypes /\ RowType[r] = RowType[s] /\ val[r] = val[s]) => r = s

\* The locks a goroutine has been granted.
Held(c) ==
    {l \in AllLocks :
        \/ c \in readers[l]
        \/ writer[l] = c /\ (\A q \in want[c] : l # LockOf(c, q))}

\* engine.go: "Global (dbName,id) order prevents overlapping commits from
\* forming a cycle".  Whoever waits for a lock holds only earlier ones, across
\* graphMu, structures, branches and rows, commits and reads alike.
LocksInOrder ==
    \A c \in Client : \A l \in Held(c), q \in want[c] : Before(l, q)

\* db.go: "lockResource/unlockResource own the per-row mutex".  No row mutex is
\* unlocked by a goroutine that does not hold it.
UnlocksItsOwn == ~fatal

\* docs/how-it-works.md: writers take their locks in one total order, "so the
\* two classes cannot form a cycle".  Every call that started returns to its
\* caller: no deadlock, no lost unlock, no endless retry.
Busy(c) == pc[c] \notin {"idle", "open"} \/ mode[c] = "within"
OpsReturn == \A c \in Client : Busy(c) ~> ~Busy(c)
=============================================================================
