---------------------------- MODULE UnsafeSession ----------------------------
(***************************************************************************)
(* Ids, the queues of the unsafe API and Flush, for one type without       *)
(* relations (persist.go, unsafe.go, seedCounter in db.go,                 *)
(* relationPrepareCreate, relationApplyPending and flushWithoutRelations   *)
(* in relation_runtime.go, rebuildSecondaryIndices).                       *)
(*                                                                         *)
(* Transactions reserve ids from the same counter as Unsafe.Create.  An    *)
(* unsafe session is exclusive, as UnsafeDB asks: it begins with the first *)
(* unsafe call and lasts until a Flush succeeds or the process stops.  A   *)
(* row is its unique key; all rows are in one chunk.                       *)
(***************************************************************************)
EXTENDS Naturals, Sequences

CONSTANTS
    MaxId,           \* ids are 1..MaxId
    Key,             \* values of the unique index, one per row
    None,            \* "no such row"
    Unlogged,        \* "wal.log has no frame for this row"
    MaxQueue,        \* bound on the creates queued in one session
    MaxRestarts,     \* bound on restarts
    Programs         \* whether Unsafe.Create is given explicit ids, and
                     \* whether an I/O error or a crash may cut a Flush short

Id == 1 .. MaxId

ASSUME SessionAssumption ==
    /\ MaxId \in Nat /\ MaxQueue \in Nat /\ MaxRestarts \in Nat
    /\ None \notin Key /\ Unlogged \notin Key \cup {None}
    /\ Programs \subseteq [explicit : BOOLEAN, errors : BOOLEAN]

VARIABLES
    live,       \* [Id -> Key or None]: rows in memory
    chunk,      \* [Id -> Key or None]: rows of the chunk file
    wal,        \* [Id -> Key, None or Unlogged]: last frame of each row in wal.log
    counter,    \* db.counter
    staged,     \* ids of creates staged in open transactions
    queue,      \* persistQueue: entities in the order they were queued
    doomed,     \* ids of deleteQueue
    session,    \* an unsafe session is open
    result,     \* what the last Flush returned
    restarts,   \* restarts so far
    program     \* one of Programs

files == <<chunk, wal>>
queues == <<queue, doomed, session, result>>
setting == <<restarts, program>>
vars == <<live, files, counter, staged, queues, setting>>

Rows == {i \in Id : live[i] # None}
Queued == {queue[n].id : n \in 1 .. Len(queue)}
Largest(S) == CHOOSE m \in S : \A i \in S : i <= m

\* rebuildSecondaryIndices finds no two rows with one key.
KeysUnique(rows) == \A i, j \in Id : rows[i] # None /\ rows[i] = rows[j] => i = j

\* wal.log without a frame
Truncated == [i \in Id |-> Unlogged]

\* What Register loads: the chunk file, and wal.log over it.
Stored == [i \in Id |-> IF wal[i] = Unlogged THEN chunk[i] ELSE wal[i]]

----------------------------------------------------------------------------
(* Transactions *)

\* Tx.Create with id 0: relationPrepareCreate takes the next number.
TxReserve ==
    /\ ~session /\ counter < MaxId
    /\ counter' = counter + 1
    /\ staged' = staged \cup {counter + 1}
    /\ UNCHANGED <<live, files, queues, setting>>

\* Mutant: an explicit id does not move the counter.
TxReserveExplicitUncounted(i) ==
    /\ ~session
    /\ i \notin Rows
    /\ staged' = staged \cup {i}
    /\ UNCHANGED <<live, files, counter, queues, setting>>

\* Tx.Create with an explicit id that no row has.  Two transactions may stage the
\* same id: commit refuses the second.
TxReserveExplicit(i) ==
    /\ ~session
    /\ i \notin Rows
    /\ counter' = IF i > counter THEN i ELSE counter
    /\ staged' = staged \cup {i}
    /\ UNCHANGED <<live, files, queues, setting>>

\* commit: the id must still be free and the key new to the index.
TxCommit(i, k) ==
    /\ i \in staged
    /\ live[i] = None /\ k \notin {live[j] : j \in Id}
    /\ live' = [live EXCEPT ![i] = k]
    /\ wal' = [wal EXCEPT ![i] = k]
    /\ staged' = staged \ {i}
    /\ UNCHANGED <<chunk, counter, queues, setting>>

\* The callback fails, or commit refuses: nothing gives the number back.
TxAbort(i) ==
    /\ i \in staged
    /\ staged' = staged \ {i}
    /\ UNCHANGED <<live, files, counter, queues, setting>>

\* A committed Delete
TxDelete(i) ==
    /\ ~session
    /\ i \in Rows
    /\ live' = [live EXCEPT ![i] = None]
    /\ wal' = [wal EXCEPT ![i] = None]
    /\ UNCHANGED <<chunk, counter, staged, queues, setting>>

----------------------------------------------------------------------------
(* The unsafe API *)

\* The caller has the database to itself.
Exclusive == staged = {}

\* Mutant: the number is taken but not set in the entity.
QueueCreateUnset(k) ==
    /\ Exclusive /\ counter < MaxId /\ Len(queue) < MaxQueue
    /\ counter' = counter + 1
    /\ queue' = Append(queue, [id |-> 0, key |-> k])
    /\ session' = TRUE
    /\ UNCHANGED <<live, files, staged, doomed, result, setting>>

\* Unsafe.Create with id 0
QueueCreate(k) ==
    /\ Exclusive /\ counter < MaxId /\ Len(queue) < MaxQueue
    /\ counter' = counter + 1
    /\ queue' = Append(queue, [id |-> counter + 1, key |-> k])
    /\ session' = TRUE
    /\ UNCHANGED <<live, files, staged, doomed, result, setting>>

\* Unsafe.Create with an explicit id; a live or queued one is ignored.
QueueCreateExplicit(i, k) ==
    /\ program.explicit
    /\ Exclusive /\ Len(queue) < MaxQueue
    /\ i \notin Rows \cup Queued
    /\ queue' = Append(queue, [id |-> i, key |-> k])
    /\ session' = TRUE
    /\ UNCHANGED <<live, files, counter, staged, doomed, result, setting>>

\* Unsafe.Delete
QueueDelete(i) ==
    /\ Exclusive
    /\ i \in Rows
    /\ doomed' = doomed \cup {i}
    /\ session' = TRUE
    /\ UNCHANGED <<live, files, counter, staged, queue, result, setting>>

\* A write through the pointer of Unsafe.Get, which marked the chunk dirty
Edit(i, k) ==
    /\ Exclusive
    /\ i \in Rows
    /\ live' = [live EXCEPT ![i] = k]
    /\ session' = TRUE
    /\ UNCHANGED <<files, counter, staged, queue, doomed, result, setting>>

\* relationApplyPending adds the queue in order up to the first id that is live
\* already, be it by an earlier entry of the same queue.
Clashes(n) ==
    queue[n].id \in Rows \/ \E m \in 1 .. n - 1 : queue[m].id = queue[n].id
Added == {n \in 1 .. Len(queue) : \A m \in 1 .. n : ~Clashes(m)}
AllAdded == Added = 1 .. Len(queue)
WithAdded ==
    [i \in Id |->
        IF \E n \in Added : queue[n].id = i
        THEN queue[CHOOSE n \in Added : queue[n].id = i].key
        ELSE live[i]]

\* relationDelete
WithoutDoomed == [i \in Id |-> IF i \in doomed THEN None ELSE WithAdded[i]]

\* A Flush that returns an error has changed memory and keeps its queues.
FlushFails(rows, error) ==
    /\ live' = rows
    /\ result' = error
    /\ session' = TRUE
    /\ UNCHANGED <<counter, staged, queue, doomed, setting>>

\* relationApplyPending refuses: deletes and indexes are not reached.
FlushRefusesId ==
    /\ Exclusive /\ ~AllAdded
    /\ FlushFails(WithAdded, "exists")
    /\ UNCHANGED files

\* relationReindex refuses: creates and deletes are in memory by then.
FlushRefusesKey ==
    /\ Exclusive /\ AllAdded
    /\ ~KeysUnique(WithoutDoomed)
    /\ FlushFails(WithoutDoomed, "unique")
    /\ UNCHANGED files

\* relationSave or a truncation fails, or the process stops on the way: with the
\* old chunk file, with the new one and the old wal.log, or with wal.log empty and
\* only transactions.wal left to truncate.
FlushFailsToSave ==
    /\ program.errors
    /\ Exclusive /\ AllAdded
    /\ KeysUnique(WithoutDoomed)
    /\ FlushFails(WithoutDoomed, "io")
    /\ \/ UNCHANGED files
       \/ chunk' = WithoutDoomed /\ wal' \in {wal, Truncated}

\* rows saved, wal.log truncated, queues cleared.
Save(rows) ==
    /\ live' = rows
    /\ chunk' = rows
    /\ wal' = Truncated
    /\ queue' = <<>> /\ doomed' = {}
    /\ session' = FALSE
    /\ result' = "ok"
    /\ UNCHANGED <<counter, staged, setting>>

\* Mutant: Flush saves without rebuilding the indexes.
FlushUnindexed == Exclusive /\ AllAdded /\ Save(WithoutDoomed)

\* Mutant: Flush drops the queued deletes.
FlushForgetsDeletes == Exclusive /\ AllAdded /\ KeysUnique(WithAdded) /\ Save(WithAdded)

\* Unsafe.Flush
Flush ==
    /\ Exclusive /\ AllAdded
    /\ KeysUnique(WithoutDoomed)
    /\ Save(WithoutDoomed)

----------------------------------------------------------------------------
\* Register and Open.  syncIndices panics on a duplicate key; seedCounter takes
\* the largest id that is still there.
Restart ==
    /\ restarts < MaxRestarts
    /\ KeysUnique(Stored)
    /\ restarts' = restarts + 1
    /\ live' = Stored
    /\ counter' = Largest({0} \cup {i \in Id : Stored[i] # None})
    /\ staged' = {} /\ queue' = <<>> /\ doomed' = {}
    /\ session' = FALSE
    /\ result' = "none"
    /\ UNCHANGED <<files, program>>

Init ==
    /\ live = [i \in Id |-> None]
    /\ chunk = live
    /\ wal = Truncated
    /\ counter = 0
    /\ staged = {} /\ queue = <<>> /\ doomed = {}
    /\ session = FALSE
    /\ result = "none"
    /\ restarts = 0
    /\ program \in Programs

Next ==
    \/ TxReserve
    \/ \E i \in Id : TxReserveExplicit(i) \/ TxAbort(i) \/ TxDelete(i) \/ QueueDelete(i)
    \/ \E i \in Id, k \in Key : TxCommit(i, k) \/ QueueCreateExplicit(i, k) \/ Edit(i, k)
    \/ \E k \in Key : QueueCreate(k)
    \/ FlushRefusesId \/ FlushRefusesKey \/ FlushFailsToSave \/ Flush
    \/ Restart

Spec == Init /\ [][Next]_vars

----------------------------------------------------------------------------
(* Properties *)

\* A create without an id
TakesNumber == TxReserve \/ \E k \in Key : QueueCreate(k)

\* The number that Tx.Create and Unsafe.Create give to an entity without an id
\* belongs to no row that exists, is queued or is staged in a transaction,
\* whatever was created, deleted, aborted or reloaded before, as long as the
\* program gives Unsafe.Create no explicit ids.
AutoIdsAreFree == [][TakesNumber /\ ~program.explicit => counter + 1 \notin Rows \cup Queued \cup staged]_vars

\* Open rebuilds the unique indexes and panics if it cannot: the files hold no
\* duplicate key, whatever commits, unsafe edits, rejected and accepted flushes
\* came before, as long as no Flush was cut short between chunk and log.
RestartOpens == program.errors \/ KeysUnique(Stored)

\* A Flush that returns nil has every queued create in memory and on disk and
\* every queued delete gone, when earlier flushes of the session failed too, as
\* long as an id it has deleted is not given to Unsafe.Create again.
FlushLands ==
    [][result' = "ok" /\ session /\ ~session' /\ ~program.explicit =>
          /\ \A n \in 1 .. Len(queue) : Stored'[queue[n].id] = queue[n].key
          /\ \A i \in doomed : Stored'[i] = None
          /\ live' = Stored']_vars

\* Type correctness of rows, queues and the counter of one database.
TypeOK ==
    /\ live \in [Id -> Key \cup {None}]
    /\ chunk \in [Id -> Key \cup {None}]
    /\ wal \in [Id -> Key \cup {None, Unlogged}]
    /\ counter \in 0 .. MaxId
    /\ staged \subseteq Id
    /\ queue \in Seq([id : Id, key : Key])
    /\ doomed \subseteq Id
    /\ session \in BOOLEAN
    /\ result \in {"none", "ok", "exists", "unique", "io"}
    /\ restarts \in 0 .. MaxRestarts
    /\ program \in Programs
=============================================================================
