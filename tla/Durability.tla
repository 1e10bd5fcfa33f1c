----------------------------- MODULE Durability -----------------------------
(***************************************************************************)
(* How nestory keeps committed rows on disk (wal.go, transaction_wal.go,   *)
(* storage.go, chunkstore.go, the WAL and publication steps of engine.go   *)
(* and the save loop of relation_runtime.go).                              *)
(*                                                                         *)
(* A commit appends one fsynced frame, to the wal.log of its type or, when *)
(* it spans types, to transactions.wal, and then publishes the rows in     *)
(* memory and marks their chunks dirty.  A checkpoint (Unsafe.Flush, and   *)
(* the commit of a delete in the relation graph) walks the types in name   *)
(* order: it rewrites the dirty chunk files, clears their flags, removes   *)
(* the type's wal.log, and after the last type removes transactions.wal.   *)
(* Loading applies wal.log and then transactions.wal over the chunk files. *)
(*                                                                         *)
(* Row locks, structure locks and graphMu are modelled here only by what   *)
(* they exclude: two logged frames never share a row, a commit that        *)
(* touches the relation graph excludes a checkpoint, one that creates or   *)
(* deletes in the graph excludes every other graph commit.                 *)
(***************************************************************************)
EXTENDS Naturals, Sequences

CONSTANTS
    Client,        \* goroutines that commit
    Row,           \* rows, live or not
    Value,         \* contents of a live row
    Absent,        \* "no such row"; in a frame, a tombstone
    Untouched,     \* "this frame says nothing about the row"
    Chunk,         \* chunks, each saved as one <n>.gob file
    ChunkOf,       \* row -> chunk
    ChunkType,     \* chunk -> entity type
    NumTypes,      \* types are 1..NumTypes in the order of their names
    SingleTypes,   \* types that commits confined to one type write
    CrossTypes,    \* types that commits spanning several types write
    GraphTypes,    \* types that take part in a relation
    TornWrites,    \* may an append leave a partial frame in the file?
    SyncErrors,    \* may Sync fail after the frame was written?
    SaveErrors,    \* may a checkpoint fail half-way?
    MaxLog,        \* bound on the entries of one log
    MaxCrashes     \* bound on crashes

Type == 1 .. NumTypes
Cell == Value \cup {Absent}
Frame == [Row -> Cell \cup {Untouched}]
Entry == [torn : BOOLEAN, rows : Frame]

ASSUME SortsAssumption ==
    /\ NumTypes \in Nat
    /\ Absent \notin Value
    /\ Untouched \notin Cell
    /\ ChunkOf \in [Row -> Chunk]
    /\ ChunkType \in [Chunk -> Type]
    /\ SingleTypes \subseteq Type
    /\ CrossTypes \subseteq Type
    /\ GraphTypes \subseteq Type
    /\ MaxLog \in Nat
    /\ MaxCrashes \in Nat

VARIABLES
    mem,        \* [Row -> Cell]: the live rows
    chunk,      \* [Row -> Cell]: the rows in the chunk files
    dirty,      \* chunks changed since they were last saved
    wal,        \* [Type -> Seq(Entry)]: <DataDir>/<Type>/wal.log
    txwal,      \* Seq(Entry): <DataDir>/transactions.wal
    pend,       \* [Client -> Frame]: logged and not yet published
    ckAt,       \* type being checkpointed, NumTypes+1 for transactions.wal, 0 for none
    ckStage,    \* where save/relationSave stands for type ckAt
    ckIdxs,     \* the dirty indices this save took
    ckTodo,     \* those of ckIdxs whose goroutine has not finished
    unsafe,     \* an Unsafe session holds the database until Flush completes
    up,         \* the process runs with the rows loaded
    crashes,    \* crashes so far
    promised    \* history: values a restart may give each row without
                \* contradicting what callers were told

vars == <<mem, chunk, dirty, wal, txwal, pend, ckAt, ckStage, ckIdxs, ckTodo,
          unsafe, up, crashes, promised>>
ckVars == <<ckAt, ckStage, ckIdxs, ckTodo>>

----------------------------------------------------------------------------
(* Frames and rows *)

Blank == [r \in Row |-> Untouched]
Touched(f) == {r \in Row : f[r] # Untouched}
RowType(r) == ChunkType[ChunkOf[r]]
TypesOf(f) == {RowType(r) : r \in Touched(f)}
GraphRow == {r \in Row : RowType(r) \in GraphTypes}
ChunksOf(t) == {k \in Chunk : ChunkType[k] = t}

Over(f, s) == [r \in Row |-> IF f[r] = Untouched THEN s[r] ELSE f[r]]

\* transactionGraphAccess: a create or a delete in the graph takes graphMu for
\* writing, a commit that only overwrites graph rows takes it for reading.
InGraph(f) == Touched(f) \cap GraphRow # {}
GraphWrite(f) == \E r \in Touched(f) \cap GraphRow : Absent \in {f[r], mem[r]}

\* structural && !walBackedStructural: a commit that changes the graph and deletes
\* a row, in the graph or not, ends in a checkpoint.
GraphDelete(f) == GraphWrite(f) /\ \E r \in Row : f[r] = Absent

Pending == UNION {Touched(pend[c]) : c \in Client}

----------------------------------------------------------------------------
(* Recovery *)

\* replayWAL, replayTransactionWAL: frames in order, up to the first short or
\* undecodable one.
Readable(log) == {i \in DOMAIN log : \A j \in 1 .. i : ~log[j].torn}
Writers(log, r) == {i \in Readable(log) : log[i].rows[r] # Untouched}
Last(S) == CHOOSE i \in S : \A j \in S : j <= i

Replay(log, r, base) ==
    IF Writers(log, r) = {} THEN base ELSE log[Last(Writers(log, r))].rows[r]

\* loadStore: the chunk files, then the type's wal.log, then transactions.wal.
Recovered(r) == Replay(txwal, r, Replay(wal[RowType(r)], r, chunk[r]))

\* Mutant: a recovered tombstone does not mark its chunk.
RecoveryDirtiesWritesOnly(k) ==
    \E r \in Row :
        /\ ChunkOf[r] = k
        /\ \E log \in {wal[RowType(r)], txwal} :
              \E i \in Writers(log, r) : log[i].rows[r] # Absent

\* applyRecoveredRows marks a chunk dirty when it overwrites or appends one of
\* its rows, and when it tombstones a row that is there.
RecoveryDirties(k) ==
    \E r \in Row :
        /\ ChunkOf[r] = k
        /\ \/ Recovered(r) # chunk[r]
           \/ \E log \in {wal[RowType(r)], txwal} :
                 \E i \in Writers(log, r) : log[i].rows[r] # Absent

----------------------------------------------------------------------------
(* Commits *)

\* Mutant: commits do not take graphMu against a checkpoint.
AdmissibleWithoutGraphMu(f) ==
    /\ up /\ ~unsafe
    /\ Touched(f) # {}
    /\ \A r \in Touched(f) : f[r] = Absent => mem[r] # Absent
    /\ Touched(f) \cap Pending = {}

\* What the locks a commit holds from its WAL append to its return exclude.
Admissible(f) ==
    /\ up /\ ~unsafe
    /\ Touched(f) # {}
    /\ \A r \in Touched(f) : f[r] = Absent => mem[r] # Absent
    /\ Touched(f) \cap Pending = {}
    /\ InGraph(f) =>
          /\ ckAt = 0
          /\ \A d \in Client : InGraph(pend[d]) =>
                ~GraphWrite(f) /\ ~GraphWrite(pend[d])

\* Mutant: a commit that spans types logs to the file of one of them.
AppendFrameToOneType(f, torn) ==
    \E t \in TypesOf(f) :
        /\ Len(wal[t]) < MaxLog
        /\ wal' = [wal EXCEPT ![t] = Append(@, [torn |-> torn, rows |-> f])]
        /\ UNCHANGED txwal

\* logTransactionChanges: one type logs to its own file, several to
\* transactions.wal; either file is opened with O_APPEND.
AppendFrame(f, torn) ==
    LET entry == [torn |-> torn, rows |-> f] IN
    \/ \E t \in SingleTypes :
          /\ TypesOf(f) = {t}
          /\ Len(wal[t]) < MaxLog
          /\ wal' = [wal EXCEPT ![t] = Append(@, entry)]
          /\ UNCHANGED txwal
    \/ /\ TypesOf(f) \subseteq CrossTypes
       /\ \A t \in Type : TypesOf(f) # {t}
       /\ Len(txwal) < MaxLog
       /\ txwal' = Append(txwal, entry)
       /\ UNCHANGED wal

MayBecome(f) ==
    [r \in Row |-> IF f[r] = Untouched THEN promised[r] ELSE promised[r] \cup {f[r]}]

\* The frame is written and fsynced.
Log(c, f) ==
    /\ pend[c] = Blank
    /\ Admissible(f)
    /\ AppendFrame(f, FALSE)
    /\ pend' = [pend EXCEPT ![c] = f]
    /\ promised' = MayBecome(f)
    /\ UNCHANGED <<mem, chunk, dirty, ckVars, unsafe, up, crashes>>

\* Write fails part-way, or Sync fails with the whole frame in the file: the
\* commit returns the error, publishes nothing and leaves the file as it is.
LogFails(f, torn) ==
    /\ IF torn THEN TornWrites ELSE SyncErrors
    /\ Admissible(f)
    /\ AppendFrame(f, torn)
    /\ promised' = IF torn THEN promised ELSE MayBecome(f)
    /\ UNCHANGED <<mem, chunk, dirty, pend, ckVars, unsafe, up, crashes>>

\* Mutant: publication forgets markDirty.
PublishUnmarked(c, u) ==
    /\ up
    /\ Touched(pend[c]) # {}
    /\ mem' = Over(pend[c], mem)
    /\ pend' = [pend EXCEPT ![c] = Blank]
    /\ promised' = [r \in Row |-> IF pend[c][r] # Untouched THEN {pend[c][r]} ELSE promised[r]]
    /\ UNCHANGED <<chunk, dirty, wal, txwal, ckVars, unsafe, up, crashes>>

\* applyWrite, relationApplyCreate, applyDeletedNodes, and for a delete in the
\* graph reconcileRelations (unlogged writes u to surviving rows that referred
\* to a deleted one), after which the commit itself starts a checkpoint.
Publish(c, u) ==
    LET f == pend[c] IN
    /\ up
    /\ Touched(f) # {}
    /\ mem' = Over(u, Over(f, mem))
    /\ dirty' = dirty \cup {ChunkOf[r] : r \in Touched(f) \cup Touched(u)}
    /\ pend' = [pend EXCEPT ![c] = Blank]
    /\ promised' = [r \in Row |->
          IF f[r] # Untouched THEN {f[r]}
          ELSE IF u[r] # Untouched THEN promised[r] \cup {u[r]}
          ELSE promised[r]]
    /\ IF GraphDelete(f)
       THEN /\ \A r \in Touched(u) :
                  r \in GraphRow \ Touched(f) /\ u[r] # Absent /\ mem[r] # Absent
            /\ ckAt' = 1 /\ ckStage' = "scan" /\ ckIdxs' = {} /\ ckTodo' = {}
       ELSE u = Blank /\ UNCHANGED ckVars
    /\ UNCHANGED <<chunk, wal, txwal, unsafe, up, crashes>>

----------------------------------------------------------------------------
(* Unsafe sessions and checkpoints *)

\* Unsafe.Get/All/Create/Delete followed by Flush: u is everything the session
\* changed, queued creates and deletes included; nothing of it is logged.  The
\* session is exclusive, and stays so after a Flush that failed.
Flush(u) ==
    /\ up /\ ckAt = 0
    /\ Pending = {}
    /\ \A r \in Touched(u) : u[r] = Absent => mem[r] # Absent
    /\ unsafe' = TRUE
    /\ mem' = Over(u, mem)
    /\ dirty' = dirty \cup {ChunkOf[r] : r \in Touched(u)}
    /\ promised' = MayBecome(u)
    /\ ckAt' = 1 /\ ckStage' = "scan" /\ ckIdxs' = {} /\ ckTodo' = {}
    /\ UNCHANGED <<chunk, wal, txwal, pend, up, crashes>>

\* Mutant: the loop over the types runs once too often.
CkAtTypeOffByOne(stage) == up /\ ckAt \in 1 .. NumTypes + 1 /\ ckStage = stage

CkAtType(stage) == up /\ ckAt \in Type /\ ckStage = stage

\* Mutant: the log is removed before the chunks are written.
ScanDirtyTruncatesFirst ==
    /\ CkAtType("scan")
    /\ ckIdxs' = dirty \cap ChunksOf(ckAt)
    /\ ckTodo' = ckIdxs'
    /\ ckStage' = IF ckIdxs' = {} THEN "truncate" ELSE "write"
    /\ wal' = [wal EXCEPT ![ckAt] = <<>>]
    /\ UNCHANGED <<mem, chunk, dirty, txwal, pend, ckAt, unsafe, up, crashes, promised>>

\* save: take the dirty indices; with none of them go straight to truncate.
ScanDirty ==
    /\ CkAtType("scan")
    /\ ckIdxs' = dirty \cap ChunksOf(ckAt)
    /\ ckTodo' = ckIdxs'
    /\ ckStage' = IF ckIdxs' = {} THEN "truncate" ELSE "write"
    /\ UNCHANGED <<mem, chunk, dirty, wal, txwal, pend, ckAt, unsafe, up, crashes, promised>>

\* One goroutine of save renames its finished temporary file over <n>.gob.
SaveChunk(k) ==
    /\ CkAtType("write")
    /\ k \in ckTodo
    /\ chunk' = [r \in Row |-> IF ChunkOf[r] = k THEN mem[r] ELSE chunk[r]]
    /\ ckTodo' = ckTodo \ {k}
    /\ UNCHANGED <<mem, dirty, wal, txwal, pend, ckAt, ckStage, ckIdxs, unsafe, up, crashes, promised>>

\* All goroutines are done without an error: clearDirty(idxs).
ClearDirty ==
    /\ CkAtType("write")
    /\ ckTodo = {}
    /\ dirty' = dirty \ ckIdxs
    /\ ckStage' = "truncate"
    /\ UNCHANGED <<mem, chunk, wal, txwal, pend, ckAt, ckIdxs, ckTodo, unsafe, up, crashes, promised>>

\* Mutant: transactions.wal goes with the first type's wal.log.
TruncateWalAndTx ==
    /\ CkAtType("truncate")
    /\ wal' = [wal EXCEPT ![ckAt] = <<>>]
    /\ txwal' = <<>>
    /\ ckAt' = ckAt + 1
    /\ ckStage' = "scan"
    /\ ckIdxs' = {} /\ ckTodo' = {}
    /\ UNCHANGED <<mem, chunk, dirty, pend, unsafe, up, crashes, promised>>

\* relationSave removes the type's wal.log and the loop moves to the next type.
TruncateWal ==
    /\ CkAtType("truncate")
    /\ wal' = [wal EXCEPT ![ckAt] = <<>>]
    /\ ckAt' = ckAt + 1
    /\ ckStage' = "scan"
    /\ ckIdxs' = {} /\ ckTodo' = {}
    /\ UNCHANGED <<mem, chunk, dirty, txwal, pend, unsafe, up, crashes, promised>>

\* sharedTransactionWAL().truncate(); the checkpoint is complete and its caller
\* is told so.
TruncateTx ==
    /\ up /\ ckAt = NumTypes + 1
    /\ txwal' = <<>>
    /\ ckAt' = 0 /\ ckStage' = "scan" /\ ckIdxs' = {} /\ ckTodo' = {}
    /\ unsafe' = FALSE
    /\ promised' = [r \in Row |-> IF r \in Pending THEN promised[r] ELSE {mem[r]}]
    /\ UNCHANGED <<mem, chunk, dirty, wal, pend, up, crashes>>

\* saveChunk, wal.truncate or transactionWAL.truncate returns an error: the
\* chunks written so far stay written, everything else is left as it is.
CheckpointFails ==
    /\ SaveErrors
    /\ up
    /\ \/ CkAtType("write") /\ ckTodo # {}
       \/ CkAtType("truncate")
       \/ ckAt = NumTypes + 1
    /\ ckAt' = 0 /\ ckStage' = "scan" /\ ckIdxs' = {} /\ ckTodo' = {}
    /\ UNCHANGED <<mem, chunk, dirty, wal, txwal, pend, unsafe, up, crashes, promised>>

CheckpointStep ==
    ScanDirty \/ (\E k \in Chunk : SaveChunk(k)) \/ ClearDirty \/ TruncateWal \/ TruncateTx

----------------------------------------------------------------------------
(* Crashes and restarts *)

Stop ==
    /\ up /\ crashes < MaxCrashes
    /\ up' = FALSE
    /\ crashes' = crashes + 1
    /\ pend' = [c \in Client |-> Blank]
    /\ unsafe' = FALSE
    /\ ckAt' = 0 /\ ckStage' = "scan" /\ ckIdxs' = {} /\ ckTodo' = {}
    /\ UNCHANGED <<mem, chunk, dirty>>

Crash == Stop /\ UNCHANGED <<wal, txwal, promised>>

\* The process stops inside appendFrame with part of the frame in the file.
CrashInAppend(f) ==
    /\ TornWrites
    /\ Admissible(f)
    /\ AppendFrame(f, TRUE)
    /\ Stop
    /\ UNCHANGED promised

\* Register of every type, then Open.
Recover ==
    /\ ~up
    /\ up' = TRUE
    /\ mem' = [r \in Row |-> Recovered(r)]
    /\ dirty' = {k \in Chunk : RecoveryDirties(k)}
    /\ promised' = [r \in Row |-> {Recovered(r)}]
    /\ UNCHANGED <<chunk, wal, txwal, pend, ckVars, unsafe, crashes>>

----------------------------------------------------------------------------
Init ==
    /\ mem \in [Row -> Cell]
    /\ chunk = mem
    /\ dirty = {}
    /\ wal = [t \in Type |-> <<>>]
    /\ txwal = <<>>
    /\ pend = [c \in Client |-> Blank]
    /\ ckAt = 0 /\ ckStage = "scan" /\ ckIdxs = {} /\ ckTodo = {}
    /\ unsafe = FALSE
    /\ up = TRUE
    /\ crashes = 0
    /\ promised = [r \in Row |-> {mem[r]}]

Next ==
    \/ \E c \in Client, f \in Frame : Log(c, f)
    \/ \E f \in Frame, torn \in BOOLEAN : LogFails(f, torn)
    \/ \E c \in Client, u \in Frame : Publish(c, u)
    \/ \E u \in Frame : Flush(u)
    \/ ScanDirty
    \/ \E k \in Chunk : SaveChunk(k)
    \/ ClearDirty
    \/ TruncateWal
    \/ TruncateTx
    \/ CheckpointFails
    \/ Crash
    \/ \E f \in Frame : CrashInAppend(f)
    \/ Recover

Spec == Init /\ [][Next]_vars

----------------------------------------------------------------------------
(* Properties *)

\* Type correctness of the files, the checkpoint's position and the history.
TypeOK ==
    /\ mem \in [Row -> Cell]
    /\ chunk \in [Row -> Cell]
    /\ dirty \subseteq Chunk
    /\ wal \in [Type -> Seq(Entry)]
    /\ txwal \in Seq(Entry)
    /\ pend \in [Client -> Frame]
    /\ ckAt \in 0 .. NumTypes + 1
    /\ ckStage \in {"scan", "write", "truncate"}
    /\ ckIdxs \subseteq Chunk
    /\ ckTodo \subseteq ckIdxs
    /\ unsafe \in BOOLEAN
    /\ up \in BOOLEAN
    /\ crashes \in Nat
    /\ promised \in [Row -> SUBSET Cell]

\* A frame was appended behind a partial one, where no replay reads it.
Buried(log) == \E i, j \in DOMAIN log : i < j /\ log[i].torn
Intact(r) == ~Buried(wal[RowType(r)]) /\ ~Buried(txwal)

\* README.md: "committed changes are recovered from a write-ahead log".  At
\* every moment, in the middle of a commit or a checkpoint too, a crash brings
\* each row back with a value its callers can accept: the last one committed,
\* or one of those whose commit or flush was still under way or failed.
CommittedAreRecovered == \A r \in Row : Recovered(r) \in promised[r]

\* The same for every row whose logs hold no frame behind a partial one.
Durable == \A r \in Row : Intact(r) => Recovered(r) \in promised[r]

\* wal.go, appendFrame: "The fsync is the durable commit point".  From then on
\* the whole frame is recovered, on all its types, before it is published.
FsyncCommits ==
    \A c \in Client : \A r \in Touched(pend[c]) :
        Intact(r) => Recovered(r) = pend[c][r]

\* A chunk that save would skip is already on disk as it is in memory; losing
\* one dirty mark would lose the row at the next truncation of its log.
CleanChunksAreSaved ==
    up => \A r \in Row : ChunkOf[r] \notin dirty => chunk[r] = mem[r]

\* A step of a checkpoint changes what a restart would load only to the row's
\* live value: it never brings an older committed value back.
CheckpointKeepsCommits ==
    [][CheckpointStep =>
          \A r \in Row : Intact(r) => Recovered(r)' \in {Recovered(r), mem[r]}]_vars

\* The whole machinery implements one durable value per row.
DurableValues == [r \in Row |-> Recovered(r)]
Abstract == INSTANCE DurableStore
    WITH live <- mem, durable <- DurableValues, inflight <- pend, running <- up
ImplementsDurableStore == Abstract!Spec
=============================================================================
