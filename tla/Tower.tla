------------------------------- MODULE Tower -------------------------------
(***************************************************************************)
(* UpdateWithin on ownership branches: the shadow replica, the lock of a   *)
(* tree, the epoch check, the diff and the two ways to commit (tower.go,   *)
(* tracked.go), against commits that do not go through Tower.              *)
(*                                                                         *)
(* A row is the set of edits it contains: whoever writes a row adds an     *)
(* edit of its own, as read-modify-write code does.  An edit is to the     *)
(* scalar fields of the row or to its relations, which are compared and    *)
(* copied apart.  The set of rows is fixed; ownership may move.  All       *)
(* tables of the relation graph share one epoch here, since a replica is   *)
(* out of date when any of them moved.  A call of engine.commit is one     *)
(* step; TransactionEngine has its locks.                                  *)
(***************************************************************************)
EXTENDS Naturals, FiniteSets

CONSTANTS
    Client,     \* goroutines that call UpdateWithin, once each
    Outside,    \* goroutines that commit once without Tower
    Node,       \* rows of the relation graph
    Nobody,     \* holder of a free mutex
    Setups      \* what the project and its callers may be: see Setup

Kind == {"scalars", "relations"}
Edit == (Client \cup Outside) \X Kind
Replica == 1 .. Cardinality(Client) + 1
NoReplica == 0

Setup ==
    [tracked : SUBSET Client,               \* the clients that use the write-declaring API
     rows : SUBSET Node,                    \* the rows there are
     root : [Client -> SUBSET Node],        \* the rows a client may update
     parent : [Node -> Node],               \* owners at first, a row nothing owns being its own
     moves : SUBSET (Node \X Node),         \* <<row, new parent>>: moves that Outside may commit
     writes : Nat,                          \* bound on the rows a callback writes
     undeclared : BOOLEAN,                  \* do tracked callbacks write rows they did not declare?
     audit : BOOLEAN,                       \* AuditTrackedWrites
     errors : BOOLEAN]                      \* may a commit fail in validation or in the WAL?

ASSUME TowerAssumption ==
    /\ IsFiniteSet(Client) /\ IsFiniteSet(Node)
    /\ Nobody \notin Client /\ Client \cap Outside = {}
    /\ \A s \in Setups : s \in Setup

VARIABLES
    setup,      \* one of Setups
    live,       \* [Node -> SUBSET Edit]: the committed rows
    ver,        \* [Node -> Nat]: their versions
    parent,     \* [Node -> Node]: committed ownership
    epoch,      \* the epoch counter of the participating tables
    replica,    \* [Replica -> rows, base, epoch]: shadow graphs
    current,    \* tower.replica, NoReplica for nil
    writeLock,  \* [Node -> Client or Nobody]: towerWriteLocks, by top-level owner
    rebuildMu,  \* Client or Nobody
    pc,         \* [Client \cup Outside -> where the goroutine is]
    call,       \* [Client -> the locals of its call]
    amid        \* history: those whose engine commit of scalars fell inside an attempt
                \* of Tower, between its epoch check and its return

store == <<setup, live, ver, parent, epoch, amid>>
tower == <<replica, current>>
vars == <<store, tower, writeLock, rebuildMu, pc, call>>

Tracked == setup.tracked

----------------------------------------------------------------------------
(* Ownership *)

\* Up[k][n] is the k-th owner above n.
Up == LET up[k \in 0 .. Cardinality(Node)] ==
            IF k = 0 THEN [n \in Node |-> n]
            ELSE LET below == up[k - 1] IN [n \in Node |-> parent[below[n]]]
      IN  up

\* committedOwnershipRoot: the owner of n that nothing owns
OwnershipRoot(n) == Up[Cardinality(Node)][n]

\* committedOwnershipKeys: r and everything below it
Branch(r) ==
    LET up == Up IN {n \in Node : \E k \in DOMAIN up : up[k][n] = r}

\* committedOwnerHasChildren
HasChildren(r) == Branch(r) # {r}

----------------------------------------------------------------------------
(* Replicas *)

Fields(row, kind) == {e \in row : e[2] = kind}
Relations(row) == Fields(row, "relations")

Synced(x) == x # NoReplica /\ replica[x].epoch = epoch

\* retire: a compare-and-swap, which leaves a newer replica alone
Retired(x) == IF current = x THEN NoReplica ELSE current

Reachable(x, cur, clients) == x = cur \/ \E c \in clients : call[c].rep = x

\* Storage for a new replica
Unused == CHOOSE x \in Replica : ~Reachable(x, current, Client)
Blank == [rows |-> [n \in Node |-> {}], base |-> [n \in Node |-> {}], epoch |-> 0]

\* c lets go of its replica, tower.replica being cur now: the garbage collector
\* takes one that nobody reaches.
LetGo(c, cur) ==
    /\ current' = cur
    /\ replica' = [x \in Replica |-> IF Reachable(x, cur, Client \ {c}) THEN replica[x] ELSE Blank]

\* buildTowerShadows and snapshotTowerRelations
Copy == [rows |-> live, base |-> [n \in Node |-> Relations(live[n])], epoch |-> epoch]

\* refresh: the rows that differ are copied in place, and they alone get a new
\* relation baseline.
Refreshed(x) ==
    [rows  |-> live,
     base  |-> [n \in Node |-> IF replica[x].rows[n] = live[n]
                               THEN replica[x].base[n] ELSE Relations(live[n])],
     epoch |-> epoch]

----------------------------------------------------------------------------
(* Locks *)

\* Mutant: an attempt gives graphMu back before it captures the epochs.
GraphReadersToCommit == {c \in Client : pc[c] \in {"diff", "materialize", "commit"}}

\* Goroutines between RLock and RUnlock of graphMu.  Its writers release it in
\* the step that takes it.
GraphReaders == {c \in Client : pc[c] \in {"diff", "materialize", "commit", "capture"}}
GraphFree == GraphReaders = {}

Held(c) == {n \in Node : writeLock[n] = c}
Unlocked(c) == [n \in Node |-> IF writeLock[n] = c THEN Nobody ELSE writeLock[n]]

\* resource.updateMu of row r, held from the call to its return
Updating(r) == \E c \in Client : call[c].root = r

Idle == [root |-> Nobody, owner |-> Nobody, rep |-> NoReplica, wrote |-> {}, declared |-> {},
         fields |-> {}, work |-> [n \in {} |-> {}], seen |-> [n \in {} |-> 0], then |-> "ok"]

Goto(c, place) == pc' = [pc EXCEPT ![c] = place]

\* An attempt that did not settle: towerRun goes round its loop again.
Retry(c) ==
    /\ Goto(c, "owner")
    /\ call' = [call EXCEPT ![c] = [Idle EXCEPT !.root = call[c].root]]

\* Mutant: the lock of the tree is not released.
ReturnLocked(c, outcome) ==
    /\ Goto(c, outcome)
    /\ call' = [call EXCEPT ![c] = [Idle EXCEPT !.wrote = call[c].wrote]]
    /\ UNCHANGED writeLock

\* towerRun and UpdateWithin return: their deferred unlocks run.
Return(c, outcome) ==
    /\ Goto(c, outcome)
    /\ writeLock' = Unlocked(c)
    /\ call' = [call EXCEPT ![c] = [Idle EXCEPT !.wrote = call[c].wrote,
                                                !.declared = call[c].declared]]

\* engine.commit for goroutine g on row n: scalar fields under graphMu.RLock,
\* relations under graphMu.Lock.  From load to publication nothing conflicts.
EngineCommit(g, n, kind) ==
    /\ kind = "relations" => GraphFree
    /\ live' = [live EXCEPT ![n] = @ \cup {<<g, kind>>}]
    /\ ver' = [ver EXCEPT ![n] = @ + 1]
    /\ epoch' = epoch + 1
    /\ amid' = IF GraphFree THEN amid ELSE amid \cup {g}

----------------------------------------------------------------------------
(* towerRun: the lock of the tree and the replica *)

\* UpdateWithin takes updateMu of its row.
UpdateWithin(c, r) ==
    /\ pc[c] = "idle" /\ ~Updating(r)
    /\ call' = [call EXCEPT ![c].root = r]
    /\ Goto(c, "enter")
    /\ UNCHANGED <<store, tower, writeLock, rebuildMu>>

\* towerRun declines a row that owns nothing and UpdateWithin runs a transaction
\* of the engine, which commits the row under its locks.
UpdateByEngine(c) ==
    LET r == call[c].root IN
    /\ pc[c] = "enter" /\ ~HasChildren(r)
    /\ \E kind \in Kind :
          /\ EngineCommit(c, r, kind)
          /\ call' = [call EXCEPT ![c] = [Idle EXCEPT !.wrote = {<<r, kind>>}, !.declared = {r}]]
    /\ Goto(c, "ok")
    /\ UNCHANGED <<setup, parent, tower, writeLock, rebuildMu>>

EnterTower(c) ==
    /\ pc[c] = "enter" /\ HasChildren(call[c].root)
    /\ Goto(c, "owner")
    /\ UNCHANGED <<store, tower, writeLock, rebuildMu, call>>

\* Every attempt reads the top-level owner again and lets go of the lock of
\* another tree.
ReadOwner(c) ==
    LET owner == OwnershipRoot(call[c].root) IN
    /\ pc[c] = "owner"
    /\ call' = [call EXCEPT ![c].owner = owner]
    /\ writeLock' = IF owner \in Held(c) THEN writeLock ELSE Unlocked(c)
    /\ Goto(c, "lock")
    /\ UNCHANGED <<store, tower, rebuildMu>>

LockTree(c) ==
    LET owner == call[c].owner IN
    /\ pc[c] = "lock"
    /\ writeLock[owner] \in {c, Nobody}
    /\ writeLock' = [writeLock EXCEPT ![owner] = c]
    /\ Goto(c, "load")
    /\ UNCHANGED <<store, tower, rebuildMu, call>>

\* The callback starts on replica x, with nothing written.
StartCallback(c, x) ==
    /\ call' = [call EXCEPT ![c] = [@ EXCEPT !.rep = x, !.wrote = {}, !.declared = {}]]
    /\ Goto(c, "callback")

LoadReplica(c) ==
    /\ pc[c] = "load" /\ Synced(current)
    /\ StartCallback(c, current)
    /\ UNCHANGED <<store, tower, writeLock, rebuildMu>>

LoadStaleReplica(c) ==
    /\ pc[c] = "load" /\ ~Synced(current)
    /\ Goto(c, "rebuild")
    /\ UNCHANGED <<store, tower, writeLock, rebuildMu, call>>

\* rebuild takes rebuildMu and finds that another goroutine has done its work.
FindRebuilt(c) ==
    /\ pc[c] = "rebuild" /\ rebuildMu = Nobody /\ Synced(current)
    /\ StartCallback(c, current)
    /\ UNCHANGED <<store, tower, writeLock, rebuildMu>>

LockRebuild(c) ==
    /\ pc[c] = "rebuild" /\ rebuildMu = Nobody /\ ~Synced(current)
    /\ rebuildMu' = c
    /\ Goto(c, "graph")
    /\ UNCHANGED <<store, tower, writeLock, call>>

\* Under graphMu.Lock: the current replica is refreshed in place, whoever is
\* using it; without one a new replica is published.
Rebuild(c) ==
    LET x == IF current = NoReplica THEN Unused ELSE current IN
    /\ pc[c] = "graph" /\ GraphFree
    /\ replica' = [replica EXCEPT ![x] = IF current = NoReplica THEN Copy ELSE Refreshed(x)]
    /\ current' = x
    /\ rebuildMu' = Nobody
    /\ StartCallback(c, x)
    /\ UNCHANGED <<store, writeLock>>

----------------------------------------------------------------------------
(* towerAttempt *)

\* The callback of c writes fields of row n of its shadow.
WriteShadow(c, n, kind) ==
    /\ pc[c] = "callback"
    /\ <<n, kind>> \notin call[c].wrote /\ Cardinality(call[c].wrote) < setup.writes
    /\ replica' = [replica EXCEPT ![call[c].rep].rows[n] = @ \cup {<<c, kind>>}]
    /\ UNCHANGED <<store, current, writeLock, rebuildMu, pc>>

\* A callback writes rows of its branch.  A tracked one takes them from Edit, which
\* accepts any row under the same top-level owner; the root needs no declaration.
Write(c, n, kind) ==
    /\ IF c \in Tracked THEN OwnershipRoot(n) = call[c].owner ELSE n \in Branch(call[c].root)
    /\ WriteShadow(c, n, kind)
    /\ call' = [call EXCEPT ![c].wrote = @ \cup {<<n, kind>>}, ![c].declared = @ \cup {n}]

\* A tracked callback writes a row it did not pass through Edit.
WriteUndeclared(c, n, kind) ==
    /\ setup.undeclared /\ c \in Tracked
    /\ n \in Branch(call[c].root) \ {call[c].root}
    /\ WriteShadow(c, n, kind)
    /\ call' = [call EXCEPT ![c].wrote = @ \cup {<<n, kind>>}]

\* Mutant: the error of the callback leaves the replica in place.
CallbackFailsUnretired(c) ==
    /\ pc[c] = "callback"
    /\ Return(c, "failed")
    /\ UNCHANGED <<store, tower, rebuildMu>>

\* The callback, or Edit, returns an error.
CallbackFails(c) ==
    /\ pc[c] = "callback"
    /\ LetGo(c, Retired(call[c].rep))
    /\ Return(c, "failed")
    /\ UNCHANGED <<store, rebuildMu>>

\* Mutant: the epochs are not compared again after the callback.
CallbackEndsUnchecked(c) ==
    /\ pc[c] = "callback"
    /\ Goto(c, "diff")
    /\ UNCHANGED <<store, tower, writeLock, rebuildMu, call>>

\* The callback returns nil and graphMu is read-locked: a replica that went out
\* of date meanwhile is retired and the attempt starts again.
CallbackEnds(c) ==
    /\ pc[c] = "callback"
    /\ IF Synced(call[c].rep)
       THEN Goto(c, "diff") /\ UNCHANGED <<tower, call>>
       ELSE Retry(c) /\ LetGo(c, Retired(call[c].rep))
    /\ UNCHANGED <<store, writeLock, rebuildMu>>

\* diffFields, for the rows of a set: scalar fields are compared with the live row,
\* relations with the baseline.
Changed(c, nodes) ==
    LET x == replica[call[c].rep] IN
    {f \in nodes \X Kind :
        Fields(x.rows[f[1]], f[2]) # IF f[2] = "scalars" THEN Fields(live[f[1]], f[2])
                                     ELSE x.base[f[1]]}

ChangedNodes(c, nodes) == {f[1] : f \in Changed(c, nodes)}

\* diffFor: a tracked update compares the root and what it declared, any other
\* the whole branch.
Scope(c) ==
    IF c \in Tracked THEN {call[c].root} \cup call[c].declared ELSE Branch(call[c].root)

\* auditDeclaration: the changes of the branch are not as many as the declared
\* ones, and one of them was not declared.
AuditFails(c) ==
    /\ setup.audit /\ c \in Tracked
    /\ LET full == ChangedNodes(c, Branch(call[c].root))
           declared == ChangedNodes(c, Scope(c))
       IN  Cardinality(full) # Cardinality(declared) /\ ~ full \subseteq declared

DiffFails(c) ==
    /\ pc[c] = "diff" /\ AuditFails(c)
    /\ LetGo(c, Retired(call[c].rep))
    /\ Return(c, "failed")
    /\ UNCHANGED <<store, rebuildMu>>

\* Nothing differs: the update is done.
DiffFindsNothing(c) ==
    /\ pc[c] = "diff" /\ ~AuditFails(c) /\ Changed(c, Scope(c)) = {}
    /\ LetGo(c, current)
    /\ Return(c, "ok")
    /\ UNCHANGED <<store, rebuildMu>>

Diff(c) ==
    /\ pc[c] = "diff" /\ ~AuditFails(c) /\ Changed(c, Scope(c)) # {}
    /\ call' = [call EXCEPT ![c].fields = Changed(c, Scope(c))]
    /\ Goto(c, "materialize")
    /\ UNCHANGED <<store, tower, writeLock, rebuildMu>>

\* materializeTowerChanges: the version of each changed row, and a copy of the
\* live row with the changed fields of the shadow.  A relation that differs from
\* the live one sends the change to engine.commit, after graphMu is released.
Materialize(c) ==
    LET shadow == replica[call[c].rep].rows
        nodes == {f[1] : f \in call[c].fields}
        work == [n \in nodes |->
                   UNION {Fields(IF <<n, kind>> \in call[c].fields THEN shadow[n] ELSE live[n],
                                 kind) : kind \in Kind}]
        relational == \E n \in nodes : Relations(work[n]) # Relations(live[n])
    IN  /\ pc[c] = "materialize"
        /\ call' = [call EXCEPT ![c] = [@ EXCEPT !.work = work, !.fields = {},
                                                 !.seen = [n \in nodes |-> ver[n]]]]
        /\ Goto(c, IF relational THEN "relation" ELSE "commit")
        /\ UNCHANGED <<store, tower, writeLock, rebuildMu>>

----------------------------------------------------------------------------
(* Commits *)

Touched(c) == DOMAIN call[c].work
Current(c) == \A n \in Touched(c) : ver[n] = call[c].seen[n]

\* The rows of the call are written through and the tables' epochs move.
Publish(c) ==
    /\ live' = [n \in Node |-> IF n \in Touched(c) THEN call[c].work[n] ELSE live[n]]
    /\ ver' = [n \in Node |-> IF n \in Touched(c) THEN ver[n] + 1 ELSE ver[n]]
    /\ epoch' = epoch + 1
    /\ UNCHANGED <<setup, parent, amid>>

\* commitTowerScalarChanges, under graphMu.RLock
CommitScalars(c) ==
    /\ pc[c] = "commit" /\ Current(c)
    /\ Publish(c)
    /\ Goto(c, "capture")
    /\ UNCHANGED <<tower, writeLock, rebuildMu, call>>

\* ErrConflict leaves towerRun, and UpdateWithin calls it again.
ConflictScalars(c) ==
    /\ pc[c] = "commit" /\ ~Current(c)
    /\ LetGo(c, Retired(call[c].rep))
    /\ writeLock' = Unlocked(c)
    /\ Goto(c, "enter")
    /\ call' = [call EXCEPT ![c] = [Idle EXCEPT !.root = call[c].root]]
    /\ UNCHANGED <<store, rebuildMu>>

\* A unique index or the WAL refuses the change.
FailScalars(c) ==
    /\ setup.errors
    /\ pc[c] = "commit" /\ Current(c)
    /\ LetGo(c, Retired(call[c].rep))
    /\ Return(c, "failed")
    /\ UNCHANGED <<store, rebuildMu>>

\* Mutant: the epoch is captured one too high.
CaptureEpochsAhead(c) ==
    /\ pc[c] = "capture"
    /\ replica' = [replica EXCEPT ![call[c].rep].epoch = epoch + 1]
    /\ Return(c, "ok")
    /\ UNCHANGED <<store, current, rebuildMu>>

\* captureEpochs: the replica takes the epochs of now, and the call returns.
CaptureEpochs(c) ==
    /\ pc[c] = "capture"
    /\ replica' = [replica EXCEPT ![call[c].rep].epoch = epoch]
    /\ Return(c, "ok")
    /\ UNCHANGED <<store, current, rebuildMu>>

\* commitTowerRelationChanges: engine.commit under graphMu.Lock publishes, finds
\* a version that moved, or fails.
CommitRelations(c) ==
    /\ pc[c] = "relation" /\ GraphFree
    /\ \/ /\ Current(c)
          /\ Publish(c)
          /\ call' = [call EXCEPT ![c].then = "ok"]
       \/ /\ ~Current(c)
          /\ call' = [call EXCEPT ![c].then = "owner"]
          /\ UNCHANGED store
       \/ /\ setup.errors /\ Current(c)
          /\ call' = [call EXCEPT ![c].then = "failed"]
          /\ UNCHANGED store
    /\ Goto(c, "retire")
    /\ UNCHANGED <<tower, writeLock, rebuildMu>>

\* The replica is retired whatever the outcome; towerRun tries again after a
\* conflict, with the lock of the tree held.
RetireAfterRelations(c) ==
    /\ pc[c] = "retire"
    /\ LetGo(c, Retired(call[c].rep))
    /\ IF call[c].then = "owner"
       THEN Retry(c) /\ UNCHANGED writeLock
       ELSE Return(c, call[c].then)
    /\ UNCHANGED <<store, rebuildMu>>

\* A commit of the engine by code that does not use UpdateWithin.
CommitOutside(e, n, kind) ==
    /\ pc[e] = "idle"
    /\ EngineCommit(e, n, kind)
    /\ \/ UNCHANGED parent
       \/ \E move \in setup.moves : /\ kind = "relations" /\ move[1] = n
                              /\ parent' = [parent EXCEPT ![n] = move[2]]
    /\ Goto(e, "ok")
    /\ UNCHANGED <<setup, tower, writeLock, rebuildMu, call>>

----------------------------------------------------------------------------
Init ==
    /\ live = [n \in Node |-> {}]
    /\ ver = [n \in Node |-> 0]
    /\ setup \in Setups
    /\ parent = setup.parent
    /\ epoch = 0
    /\ amid = {}
    /\ replica = [x \in Replica |-> Blank]
    /\ current = NoReplica
    /\ writeLock = [n \in Node |-> Nobody]
    /\ rebuildMu = Nobody
    /\ pc = [g \in Client \cup Outside |-> "idle"]
    /\ call = [c \in Client |-> Idle]

\* The steps of a call the scheduler must get round to
Step(c) ==
    \/ UpdateByEngine(c) \/ EnterTower(c) \/ ReadOwner(c) \/ LockTree(c)
    \/ LoadReplica(c) \/ LoadStaleReplica(c) \/ FindRebuilt(c) \/ LockRebuild(c) \/ Rebuild(c)
    \/ CallbackEnds(c) \/ DiffFails(c) \/ DiffFindsNothing(c) \/ Diff(c) \/ Materialize(c)
    \/ CommitScalars(c) \/ ConflictScalars(c) \/ CaptureEpochs(c)
    \/ CommitRelations(c) \/ RetireAfterRelations(c)

\* All calls have returned.
Terminating ==
    /\ \A g \in Client \cup Outside : pc[g] \in {"ok", "failed"}
    /\ UNCHANGED vars

Next ==
    \/ \E c \in Client :
          \/ \E r \in setup.root[c] : UpdateWithin(c, r)
          \/ Step(c)
          \/ \E n \in Node, kind \in Kind : Write(c, n, kind) \/ WriteUndeclared(c, n, kind)
          \/ CallbackFails(c)
          \/ FailScalars(c)
    \/ \E e \in Outside, n \in setup.rows, kind \in Kind : CommitOutside(e, n, kind)
    \/ Terminating

Spec == Init /\ [][Next]_vars

\* Goroutines keep running, and callbacks come to an end.
Fairness == \A c \in Client : WF_vars(Step(c))

FairSpec == Spec /\ Fairness

----------------------------------------------------------------------------
(* Properties *)

\* Every variable has its type, and no replica is ahead of the tables.
TypeOK ==
    /\ setup \in Setups
    /\ live \in [Node -> SUBSET Edit]
    /\ ver \in [Node -> Nat]
    /\ parent \in [Node -> Node]
    /\ epoch \in Nat
    /\ amid \subseteq Client \cup Outside
    /\ \A x \in Replica : /\ replica[x].rows \in [Node -> SUBSET Edit]
                          /\ replica[x].base \in [Node -> SUBSET Edit]
                          /\ replica[x].epoch \in 0 .. epoch
    /\ current \in Replica \cup {NoReplica}
    /\ writeLock \in [Node -> Client \cup {Nobody}]
    /\ rebuildMu \in Client \cup {Nobody}
    /\ \A c \in Client : call[c].rep \in Replica \cup {NoReplica}

\* All updates are in one tree, whose callbacks towerWriteLock puts in a queue.
SameTree == Cardinality({OwnershipRoot(r) : r \in UNION {setup.root[c] : c \in Client}}) = 1

\* docs/transactions.md: "A commit outside Tower bumps the epoch of the table it
\* touched, which retires the shadow".  So it stays: neither a refresh of the
\* shadow nor the diff and the patch of an update takes it out.
Stays(e) == pc[e] = "ok" => \E n \in Node, kind \in Kind : <<e, kind>> \in live[n]

OutsideCommitsStay == \A e \in Outside : Stays(e)

\* An update that returned nil is in every row its callback wrote and declared,
\* and stays there, whether Tower or the engine committed it; so does a commit
\* outside Tower.  The only ones that can be lost are commits of scalars by the
\* engine inside another update's attempt, which the epoch check of towerAttempt
\* comes too early for and captureEpochs takes for its own.
UpdatesLand ==
    SameTree =>
        /\ \A c \in Client \ amid : pc[c] = "ok" =>
              \A w \in call[c].wrote : w[1] \in call[c].declared => <<c, w[2]>> \in live[w[1]]
        /\ \A e \in Outside \ amid : Stays(e)

\* What is published was published by its own commit: no update lands an edit of a
\* callback that failed, that is still running, or that did not declare the row.
OnlyOwnEdits ==
    \A c \in Client, n \in Node, kind \in Kind : <<c, kind>> \in live[n] =>
        /\ <<n, kind>> \in call[c].wrote /\ n \in call[c].declared
        /\ pc[c] \in {"capture", "ok"} \/ (pc[c] = "retire" /\ call[c].then = "ok")

\* The edits of a row but for the commits that UpdatesLand excepts
Noticed(row) == {e \in row : e[2] = "scalars" => e[1] \notin amid}

\* A replica that passes synced() holds the committed relations, and the committed
\* scalars that it can know of, except in a tree some update has locked: this is
\* what lets a diff find the edits of one callback and nothing else.
SyncedIsCommitted ==
    SameTree /\ Synced(current) =>
        \A n \in Node : writeLock[OwnershipRoot(n)] = Nobody =>
            /\ Noticed(replica[current].rows[n]) = Noticed(live[n])
            /\ replica[current].base[n] = Relations(live[n])

\* Every call of UpdateWithin returns: the locks of trees, rebuildMu and graphMu
\* are not waited for in a circle, and the retries come to an end.
CallsReturn ==
    \A c \in Client : pc[c] = "enter" ~> pc[c] \in {"ok", "failed"}
=============================================================================
