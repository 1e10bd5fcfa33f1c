# Nestory in TLA+

A verification development kept beside `src/` (DorianDevp/nestory, a persistent
in-memory object graph for Go): TLA+ modules, TLC configurations and TLAPS proofs.
`PROJECT.json` lists runs, mutants, theorems, hazards, and the source lines behind
every definition.

## 1. The system

| Component | Files | State | Operations |
|---|---|---|---|
| Transaction engine | `engine.go`, `transaction.go`, `query.go`, `snapshot.go`, `db.go` | per-transaction copies with versions, staged creates and deletes; per row a slot (item, version, `mu`, `updateMu`) | Get, Update, UpdateWithin, Tx.Get/Create/Delete, commit, refresh, evict |
| Locks and views | `branchlock.go`, `view.go`, `graphMu` | `graphMu`, `structureMu` per type, branch lock per root, row mutex per slot | lockTouchedBranches, lockResource, View, ViewMany, ViewRange |
| Durability | `wal.go`, `transaction_wal.go`, `storage.go`, `chunkstore.go` | chunk files, `wal.log` per type, `transactions.wal`, dirty flags | appendFrame, replay, save, truncate, loadStore |
| Tower | `tower.go`, `tracked.go` | shadow replica, table epochs, write lock per top-level owner | towerRun, towerAttempt, rebuild, refresh, retire, captureEpochs, Edit |
| Unsafe API and ids | `unsafe.go`, `persist.go` | persistQueue, deleteQueue, id counter | Unsafe.Get/Create/Delete, Flush, seedCounter |
| Relation graph | `relations.go`, `relation_runtime.go` | pointers of the rows, lookup targets, owners; the model of the last commit | buildRelationModel and its delta, deletionClosure, validation, reconciliation, rewiring, flushRelations |
| Relation index | `relation_index.go` | lookup targets, fields, owners, children, incoming counts | full build, field, create and delete deltas, inverse views |
| Secondary indexes | `secondary_index.go`, `indices.go` | unique map, ordered entries | validate, prepare, finish, rangePrefix, rangeAfter |
| Schema and row codec | `schema.go` | none | normalise, encode, decode |

**How they interact.** A commit works on private copies, classifies itself (flat,
graph-read, graph-write), takes `graphMu`, `structureMu`, branch and row locks in
that order, compares versions, validates relations and indexes, appends one fsynced
frame, and only then writes rows, indexes and the relation index. Every write of a
row of the relation graph moves the epoch of its table, which is how Tower learns
that its shadow is out of date. Tower commits scalar changes itself under
`graphMu.RLock` and hands relation changes to the engine. Unsafe edits change live
rows without a log entry; Flush makes them durable with a checkpoint. A delete in
the relation graph runs the same checkpoint inside its commit.

**What is hard.** Two logs replayed one after the other; a checkpoint in several
steps beside commits; torn frames; locks found by id and released by a second
lookup; versions checked long after the copy was made; a shadow that several
callbacks share and a rebuild changes in place; queues that survive a rejected
Flush; a relation index moved forward by deltas, by three routes of Flush and by
rebuilds, which must agree; slices that are not stored and are derived again from
the fields of their members; index entries that are pointers to rows under change.
The hazards in `PROJECT.json` give the lines.

**What makes each part correct.** Durability: what a caller was told is committed
is what a restart loads. Engine: no lost update, unique keys, no dangling borrow,
stable views, no deadlock. Tower: an update that returned nil is in the rows and
nothing else is. Unsafe: a Flush that returned nil applied its queues, ids are free,
the files open again. Relations: lifetimes hold on the rows, the increment equals
the rebuild, a reopened project is the same graph. Secondary indexes: the increment
equals the rebuild, a range holds exactly its rows.

## 2. Modules

| Module | Models | Checked through |
|---|---|---|
| `DurableStore` | abstract: one durable value per row | refinement target |
| `Durability` | frames, logs, chunk files, checkpoint, crash, recovery | `MCDurability` |
| `DurabilityProofs` | TLAPS proofs about `Durability` | tlapm |
| `TransactionEngine` | transactions, locks, views | `MCTransactionEngine` |
| `TransactionEngineProofs` | proofs: types, lock order, exclusion, unique keys | tlapm |
| `EngineCopiesProofs` | proofs: first writer, borrows, views, unlocks | tlapm |
| `Tower` | UpdateWithin on ownership branches | `MCTower` |
| `TowerProofs` | proofs about updates within one tree | tlapm |
| `UnsafeSession` | ids, unsafe queues, Flush of a type without relations | `MCUnsafeSession` |
| `UnsafeSessionProofs` | proofs: ids, files, Flush | tlapm |
| `RelationGraph` | the relation functions: no variables | through `RelationIndex` |
| `RelationIndex` | rows, committed relation index, transactions, sessions, Flush | `MCRelationIndex` |
| `RelationIndexProofs` | proofs: types, the committed index, orphans, inverse views | tlapm |
| `SecondaryIndex` | the ordered and the unique index of a type, range views | `MCSecondaryIndex` |
| `SecondaryIndexProofs` | proofs: exact indexes and ranges | tlapm |
| `NatFacts` | lemmas: induction over sets of naturals, loops as recursive functions | tlapm |

**Durability.** `mem` is the live rows, `chunk`, `wal`, `txwal` the files, `dirty`
the flags, `pend[c]` the frame a commit has fsynced and not published, `ckAt`,
`ckStage`, `ckIdxs`, `ckTodo` the position of the checkpoint. `Log` and `LogFails`
are `logTransactionChanges`; `Publish` is the second half of `commit`; `ScanDirty`,
`SaveChunk` (one goroutine), `ClearDirty`, `TruncateWal`, `TruncateTx` are
`flushPersist` step by step; `Crash`, `CrashInAppend` stop the process anywhere,
`Recover` is Register and Open. `Flush` starts a checkpoint, and so does a commit that
changes the graph and deletes a row, of a graph type or not (`GraphDelete`).
`promised[r]` is a history variable: the values a restart may give the row without
contradicting what callers were told. Locks appear only as what they exclude
(`Admissible`).

**TransactionEngine.** Every lock acquisition is a step: a request is looked up
(for rows: by id, finding a slot), announced (a waiting writer keeps new readers
out, as `sync.RWMutex` does) and granted; releases follow the deferred unlocks, row
mutexes by a second lookup of the id. `Commit`, `Changes`, `Prepare`, `Log`,
`Publish` are the stages of `commit`; `Conflict`, `Reject`, `Refuse` its error
paths. A value is at once the row's unique key and the holder of at most one borrow.

**Tower.** A row is the set of edits in it, so a lost or a foreign write is visible
as such. A call goes through the places of `towerRun` and `towerAttempt`: owner,
lock, load, rebuild (under `rebuildMu`, then `graphMu`), callback (one row per
step), epoch check, diff, materialise, commit, capture of epochs, or relation commit
and retirement. Scalar fields are compared with the live row and relations with the
replica's baseline, as `diffFields` does. Replicas nobody reaches are collected.
`setup`, one of `Setups`, is the project and its callers: ownership, who updates
what, whether callbacks write undeclared rows. The engine commits scalars or relations
of any row at any time its share of `graphMu` allows: for code outside Tower
(`CommitOutside`), and for UpdateWithin of a row that owns nothing (`UpdateByEngine`,
`query.go:155`), which takes no lock of a tree. `amid` is a history variable: whose
scalars the engine committed while an attempt was between its epoch check and its
return. While all updates are in one tree the code loses such commits (§6), and no
others, which is what the properties say.

**UnsafeSession.** One type, one chunk file, one `wal.log` reduced to the last frame
of each row. Flush is modelled with all its outcomes: refused id, refused key (rows
already added, queues kept), failure while saving (chunk written, log not yet
removed), success. `program`, one of `Programs`, says whether `Unsafe.Create` is
given explicit ids and whether a save can fail.

**RelationGraph.** A graph is a function from existing rows to contents: lookup key,
scalar back fields, and for every relation field the sequence of rows it points at.
A pointer is the row it leads to; `Targets` resolves it as the code does, by the
value it finds in that row. `Built` is `buildRelationModel`, `ModelDelta` is
`buildRelationModelDelta`, `Doomed` and `Restricted` are `deletionClosure`,
`Reconcile` is `reconcileRelations`, `Rewire` the wiring of `relations.go`, and
`Rehydrated` what Open reads back: stored fields, with own slices and inverse views
derived. `SchemaIsValid` is what Register checks, evaluated on every run.

**RelationIndex.** `live` is the rows, `index` and `graph` are `committedOwnership`,
`replica` the Tower shadow that Flush compares with, `pending` and `deletes` the
unsafe queues, `tx` one open transaction. All of commit and Flush runs under
`graphMu.Lock`, so each is one step, with all its routes: `Commit` writes scalars
back, or publishes a `Delta`, or falls back to the model; `Flush` takes the persist,
delta, delete or full route (`Route`), and an error leaves the caller's edits where
they are. `ConcurrentDelete` is another goroutine between staging and commit. Edits
are what callers do: set a reference, move a child (with the back field a caller
keeps in step), reorder or repeat a slice, change a key. Whether working copies
point at each other depends on how they were loaded and is a choice (`Aliasing`).

**SecondaryIndex.** `mem` is the memory that entries point at, so that a comparison
sees rows already written by the running commit; `entries` and `keys` are the two
indexes. A commit validates (`Begin`), takes its rows out (`Prepare`), writes them
one by one (`Apply`), deletes (`Delete`) and puts them back (`Finish`), singly or by
the batched merge; `Search`, which is `sort.Search`, is bisection, on whatever it is given. The loops
of the code (`Search`, `Without`, `Merge`, `RemoveEntries`, `AddEntries`) are
recursive functions, one iteration per argument. Views, unsafe edits and the rebuild
of Flush run beside a commit as the locks allow.

## 3. Runs

| Run | Instance | Question |
|---|---|---|
| `dur_single` | 2 clients, 2 rows and chunks of one graph type, torn writes, sync and save errors, 2 crashes, logs of 2 | are commits, deletes, unsafe flushes and checkpoints durable through crashes and errors? |
| `dur_cross` | 2 types written by cross-type commits, sync and save errors, 2 crashes | is a frame in `transactions.wal` all or nothing across types, and does the whole implement `DurableStore`? |
| `eng_flat` | 3 rows, 3 unique keys, one transaction against two detached calls or views, WAL errors | unique keys, lost updates, lock order, views |
| `eng_graph` | an owner with a child, a second root that can be borrowed; creates, deletes, relation edits | dangling borrows, lost updates, unlocks |
| `eng_live` | an owner with a child; loads, deletes, updates, views | does every call return, are views stable? |
| `tower` | a chain of 3 rows, a tracked client on the first and an ordinary one on either of the others, 2 writes per callback, failing callbacks and commits, UpdateWithin of the leaf through the engine; or 2 trees with a client each; in both a commit of scalars or relations from outside, which may move ownership inside the chain | on one tree: are engine commits of scalars inside an attempt the only ones lost, and the only ones a current replica lacks? everywhere: foreign edits, and does every call return? |
| `unsafe` | 3 ids, 2 keys, 2 queued creates, 1 restart; automatic ids with save errors, or explicit ids without | free ids, Flush applies its queues, Open can rebuild the unique index |
| `relations` | eight projects of 2 to 5 rows (below), 1 transaction, 2 edits per transaction or session, any number of them | index, models, lifetimes, cascade, inverse views, reopening |
| `sec_index` | 4 ids, 5 row contents, commits of up to 3 rows, batch threshold 3, 1 unsafe edit per Flush | exact indexes and ranges, stable range views |
| `replay_order` (violation) | a type written by both kinds of commit | `transactions.wal` is applied last and overwrites newer rows |
| `delete_keeps_lock` (violation) | a flat row, one delete, one view | the deleted row's mutex is never unlocked, the view waits for ever |
| `tower_stale_diff` (violation) | 2 trees, scalar commit from outside | a commit between the epoch check and the diff is reverted |

*The projects of `relations`* (`MCRelationIndex`): Folders (a tree with a scalar back
field, created, moved and deleted in transactions), Links (borrows and options into
it, with their inverse views), Sessions (the tree in unsafe sessions with a Tower
replica), Posts (both sides of an ownership, in transactions and sessions), Pins (the
same in sessions with a replica), Keys (targets looked up by a key that changes),
Race (deletes beside an open transaction), Boxes (a single owned row). Each is the
smallest in which its routes of commit and Flush are all taken.

*Bounds.* Two writers are enough for every pairwise race; the third actor, where a
race needs one, is the outside committer or the checkpoint. Two log entries are the
least with an older and a newer frame; two crashes let a recovery be followed by
another. Three ids let a deleted, an explicit and an automatic id coexist. Two
writes per callback let a refresh or a failure fall between them. Two edits in a
batch are the least with which one part of a batch undoes or contradicts the other
(move and delete, move and move back); histories of batches are unbounded. Three of
four ids in a batch leave an entry to merge with. Symmetry is used
only where clients or values are interchangeable and no liveness is checked.

*Deadlock.* The engine runs switch TLC's deadlock check off because clients have a
bounded number of operations and then stop; `OpsReturn` says that none stops in the
middle. Tower has a `Terminating` step instead.

*Fairness.* `TransactionEngine!FairSpec` and `Tower!FairSpec` assume weak fairness of
each goroutine's own steps: the Go scheduler runs every runnable goroutine, its
mutexes hand over to waiters, and user callbacks end. Starting a call, failing and
committing from outside are never assumed to happen. `eng_live` leaves WAL errors
out: a caller may retry a failing write for ever.

## 4. Proofs

Each theorem holds for every value of the constants that the named assumptions of its
module allow (`SortsAssumption`, `EngineAssumption`, `StartAssumption`,
`TowerAssumption`, `SessionAssumption`, `IndexAssumption`, `NodesAssumption`,
`SchemaIsValid`, `ProjectsAssumption`: sorts of the constants, what Register checks, and
valid initial rows; TLC evaluates them on every run). Some theorems have a temporal
hypothesis `[]H`: they are about the behaviours in which `H` holds throughout. Each
such hypothesis draws one of the limits that the violating runs of §3 and the traces
of §6 show.

### Durability (`DurabilityProofs`)

For all sets of clients, rows, chunks and types and every length of log, under
`SeparateLogs` (no type is written both by single-type and by cross-type commits; all
types take part in the relation graph or none does):

- `TypeCorrect` (needs no assumption);
- `InvariantHolds`: the inductive invariant `IInv`;
- `CommitsSurvive` (`Durable`), `FsyncIsCommitPoint` (`FsyncCommits`),
  `SkippedChunksAreSaved` (`CleanChunksAreSaved`);
- `CheckpointsKeepCommits` (an action property);
- `Refinement`: without torn writes the specification implements `DurableStore`.

`Durable` alone is not inductive. Whether removing a log is safe depends on the chunk
files being written (`CheckpointProgress`, `CleanChunksAreSaved`), on nothing having
been logged meanwhile (`CheckpointAlone`), and on the other log saying nothing about
the row (`LogsApart`); whether a publication agrees with the log depends on frames not
sharing rows (`PendingDisjoint`, `GraphExclusive`). Replay is characterised by three
lemmas: what an empty log, one more frame, and another base do to the value of a row
(`ReplayNothing`, `ReplayAppend`, `ReplayBase`). There is one lemma per action.

`SeparateLogs` is not a convenience: `replay_order` shows what happens without its
first part.

### Transaction engine (`TransactionEngineProofs`, `EngineCopiesProofs`)

For any number of goroutines, rows, types and values, any ownership of two levels, any
programs and any number of calls:

| Theorem | States | In behaviours with |
|---|---|---|
| `TypeCorrect` | `TypeOK` | |
| `OrderOfLocks` | `LiveLocksInOrder`: whoever waits holds only earlier mutexes, those left locked by deleted rows apart | |
| `KeysAreUnique` | `UniqueKeys` | |
| `FirstWriter` | `FirstWriterWins` | `[]NeverReused`: no id is created twice |
| `NoBorrowDangles` | `NoDanglingBorrow` | `[]NeverReused` |
| `StableViews` | `ViewsAreStable` | `[]NeverReused` |
| `UnlocksOwn` | `UnlocksItsOwn` | `[]CreatesAreRelated`: creates are of related types |
| `AllLocksOrdered` | `LocksInOrder` | `[]NothingDeleted`: nobody deletes |

The argument has three layers. `LockInv` says of each goroutine what it may wait for
and hold where it stands (`Requests`, `Targets`, `Holds`), and that the requests come
in order (`InOrder`): this is the order of mutexes. `ExclusionInv` builds on it: from
validation to publication a commit has the mutexes that keep others out (`Excludes`),
deletes whole branches (`WholeBranches`), and so what it validated stays true: new ids
stay free (`StillFree`), versions current (`StillCurrent`), keys unused
(`StillUnique`). The third layer relates copies to rows. `CopiesInv`: a version that
has not moved means contents that have not; `GraphInv`: borrows validated under
`graphMu` stay valid; `RowsInv` and `ViewsInv`: what a writer must lock meets what a
view holds; `UnlockInv`: the second lookup of an id finds the mutex of the first.

The hypotheses are needed. With explicit ids reused a new slot starts at version 0 and
`FirstWriterWins` fails; a load of an unrelated id that is being created breaks
`UnlocksItsOwn`; a deleted row keeps its mutex locked (`delete_keeps_lock`), which is
why programs with deletes have `LiveLocksInOrder` only.

### Tower (`TowerProofs`)

For any number of clients, rows and setups: `TypeCorrect`, and in behaviours with
`[]OneTree(o)`, for any row `o`,

- `AnsweredUpdatesLand` (`UpdatesLand`), `NoForeignEdits` (`OnlyOwnEdits`),
  `SyncedReplicas` (`SyncedIsCommitted`).

`OneTree(o)`: all updates are of branches under `o`, which stays their top-level
owner; tracked callbacks with undeclared writes are audited. It allows any number of
clients, failing callbacks and commits, refreshes, rebuilds and retirements, and engine
commits of scalars and relations between any two steps. Outside it §6 has traces that
violate `UpdatesLand` and `OnlyOwnEdits`.

`TowerInv(o)` follows one update through its call. Whoever is past the lock is the only
one there (`HasTree`); it wrote what it declared or what the audit will find
(`Declares`); while the replica is in step, and from the epoch check to the commit
whether it is or not, the replica is the rows with the writes of this call
(`Shadows`), so are the copies to commit while their versions are current (`Works`),
and after the commit the rows have the writes (`Lands`). A replica without a user is a
former state of the rows, the current one when its epochs are (`AtRest`). The
equalities are between rows as `Seen`: all their relations, and their scalars but for
those of `amid`. They cannot be stronger. When the engine commits scalars behind the epoch
check, the replica lacks them, the diff takes their absence for an edit, and the commit
of the attempt takes them out or leaves a replica that looks current without them. What
keeps other edits from coming in on that way is `Traces`: an edit in the replica is of the
callback on it or was committed by its own call, so that the diff finds nothing beyond
the writes of its callback but scalars that somebody committed before.

### Unsafe sessions (`UnsafeSessionProofs`)

For any number of ids, keys, queued creates and restarts: `TypeCorrect`, `FilesOpen`
(`RestartOpens`), `NumbersAreFree` (`AutoIdsAreFree`) and `FlushIsComplete`
(`FlushLands`). The inductive invariant adds that outside a session rows and files
agree and inside it no create is staged (`SessionsAreExclusive`), that the counter is
past every id (`CounterIsPast`), and that no row is queued both for creation and
deletion unless a rejected Flush has already made a later one impossible
(`DeletesAreOfOthers`). The cases that the properties themselves leave out
(`explicit`, `errors`) are in §6.

### Secondary indexes (`SecondaryIndexProofs`)

For any number of rows, any contents, any size of commit and any batch threshold:
`TypeCorrect`, `ExactIndexes` (`IndexesAreExact`), `ExactRanges` (`RangesAreExact`)
and `StableRanges` (`RangeViewsAreStable`).

The order of entries is strict and total, and the sorted sequence of a set of rows is
the only ordered one. Bisection finds the first hit of an upward closed set
(`SearchFinds`). From these, what each loop returns: taking rows out, putting them in
one by one, filtering and merging a batch keep the sequence ordered and change its
rows by exactly the given ones. `IndexInv` has the indexes stage by stage: exact for
all rows without a commit, exact for the rows outside the commit while it applies,
with the new keys free and distinct, the rows written so far in memory and the keys of
deleted rows gone.

### Relations (`RelationIndexProofs`)

For every schema that Register accepts and every list of projects (any rows, any
operations, any number of edits per batch):

| Theorem | States | In behaviours with |
|---|---|---|
| `RelationTypeOK` | `TypeOK` | `[]QuietDeletes` |
| `CommittedIndexIsDerived` | `IndexIsDerived`: every part of the committed index is what its pointers give, and they are sound | `[]QuietDeletes` |
| `CascadeLeavesNoOrphan` | the first half of `CascadeFollowsOwnership` | `[]QuietDeletes` |
| `InversesFollow` | `InversesAreExact` | `[]QuietDeletes`, `[]EditsNoticed` |
| `PointersHold` | `NothingDangles`, the first part of `LifetimesHold`: pointers lead to live rows, required ones are there | `[]QuietDeletes`, `[]PointersNoticed` |
| `WithoutTower`, `InversesFollowWithoutTower`, `PointersHoldWithoutTower` | the same of projects without a Tower | |

*Hypotheses.* `QuietDeletes`: when Flush takes the delete route, the rows have the
pointers that were committed, each the row that its lookup value finds, and a delete
that is not vetoed makes no survivor lose pointers through two fields. `EditsNoticed`:
when Flush goes by the replica, a row that it finds unmoved lists the same targets as
were committed in the fields that inverse views mirror; `PointersNoticed`: the same
pointers in every field. All are about the Tower replica only, and they are limits that
§6 shows with traces; on the projects of the run `relations` TLC finds that they hold
throughout. The theorems about inverse views and dangling pointers assume of the schema
that inverses mirror fields looked up by id (`InversesById`, the only case in which the
code fills them) and of the projects that none mixes commits of scalars with concurrent
deletes (`OneOfTwo`, again §6); those about dangling pointers also that required fields
look their target up by id (`RequiredById`: rewiring looks every pointer up once more,
and the proof does not follow other keys through reconciliation). The schema and the
projects of the run satisfy all three.

*Argument.* `RelationInv` is the inductive invariant: rows are typed; the index is one
of exactly the live rows (`IsIndex`: typed pointers among them, a forest of owners that
agrees with and is stated by the pointers, nothing required missing, counts and children
as derived); a model that is kept is a sound one of the same rows; the transaction has a
snapshot of whatever it did not create; a current replica has no row that is gone. Each
function of the code has a lemma saying what it returns for any graph: resolving and
scanning (`ScanTyped`, `FoundById`), counting (`Edges`, `ReplacedEdges`, `DeadEdges`),
deriving owners (`OwnersAgree`, `OwnersStated`, `ForestIsDerived`), a model from all rows
and from a committed model (`BuildModelSound`, `RescanSound`), the cascade
(`DoomedRows`, `BuildIndexSound`), a delta (`DeltaSound`: the parts of the index it
replaces one by one are those of a whole index) and the delete route
(`WithoutDeadSound`, `DeleteRouteSound`), reconciliation and rewiring.
For the inverse views `Reflects` is added: they are at all times those of the committed
index, the forward pointers are once no edit is outstanding, and so are those of the
kept model; `Snapshots` says that a transaction's copies are the rows as they are unless
another goroutine deletes. There is one lemma per operation and route (`CommitReflects`,
`DeleteReflects`, `EditReflects`, `FlushSettlesReflects`, `FlushPublishesReflects`,
`OpenedReflects`).
For `NothingDangles` it is `Reaches`: once no edit is outstanding, the pointers of every
row lead to rows and the required ones are there. A model that is accepted has both, and
reconciliation and rewiring keep them (`SettledWhole`); a delta writes the fields it
models and leaves the others to rows that survive (`DeltaWhole`); a Flush that goes by
the replica finds the rows it skips as they were committed, and survivors that it does
not edit list nothing that it takes (`FlushPublishesWhole`); opening binds every pointer
again (`OpenedWhole`).

### Induction (`NatFacts`)

The induction theorems of the library take an operator, which the provers cannot
instantiate. `LeastElement` comes from the well-foundedness of `<` on the naturals,
`SetInduction` (induction for a set) and `GreatestElement` from it. `LoopExists` and
`LoopExistsIn` show that a recursive function over the naturals satisfies its own
equation, `LoopInvariant` that what every iteration keeps holds at the end. Bisection
and the merge are proved about in this way, for every length.

### Only model-checked

- Liveness (`OpsReturn` of the engine, `CallsReturn` of Tower): fairness is outside
  the prover's reach.
- Of `RelationIndex`: `IndexMatchesGraph`, `DeltaOnlyRefuses` and `ModelDeltaIsRebuild`
  compare two computations entry by entry; the rest of `LifetimesHold` (one owner, both
  sides agree, nothing owns itself, on the rows rather than in the index, where
  `CommittedIndexIsDerived` has it), `ReopenKeepsGraph` and the second half of
  `CascadeFollowsOwnership` depend on how callers keep back fields in step (`Move`), which
  the invariant would have to follow through every edit.

## 5. Not modelled, or abstracted

- Durability: the chunk of a row is fixed, so the numbering of chunk files is not
  there; a frame behind a torn one is never read (decoding it could also fail).
- TransactionEngine: ownership is fixed and two levels deep, whole branches are
  created and deleted; publication of a commit is one step; back-reference
  materialisation is left out; `Get` of a root with children takes `graphMu` once
  instead of twice; `UpdateWithin` is the path for rows without children; calls
  nested in callbacks are not there.
- Tower: a fixed set of rows (no growth of blocks); engine commits are one step.
  The comparison that Flush makes with the shadow is in `RelationIndex`, where the
  replica is the rows it was taken from, without its callbacks.
- UnsafeSession: one type without relations.
- RelationIndex: commit and Flush are atomic (they hold `graphMu` exclusively; only
  commits of scalars do not) and do not fail in the WAL or in a save; the order of an
  inverse view is not compared; addresses appear as the row they lead to. Secondary
  indexes, logs and versions are in the other modules.
- SecondaryIndex: one commit at a time (`structureMu`); key bytes and field kinds are
  values with an order; the parsing of index tags is left out.
- Schema and row codec: reflection over struct layouts and their bytes; `Rehydrated`
  has what of a row is stored. FindOneBy and Filter: reads of copies.

## 6. Where the properties stop holding

The passing runs choose their constants inside the area where the code keeps its
promises. Outside it TLC finds these traces, by changing the constants named:

- torn writes and a second crash (`TornWrites`, `CommittedAreRecovered`): a torn
  frame is ignored but not cut off, and commits appended behind it are not replayed;
- flat types beside graph types (`GraphTypes`, `CommittedAreRecovered`): a graph
  delete checkpoints all types while a flat commit logs and publishes;
- a load of an id that another commit is creating (`UnlocksItsOwn`): `lockResource`
  skips the missing id and the deferred unlock hits a mutex nobody holds;
- explicit ids used again after a delete (`ReuseIds`, `FirstWriterWins`): the new
  slot starts at version 0 and a stale copy passes the version check;
- explicit ids in `Unsafe.Create` (`explicit` in `Programs`, which the properties
  `AutoIdsAreFree` and `FlushLands` exclude):
  the counter does not move, and an id removed by a rejected Flush can be created
  again and is then deleted by the next one;
- a Flush cut short between chunk and log (`errors` in `Programs`, `RestartOpens`): older
  frames are replayed over newer chunks and may duplicate a unique key;
- a commit of scalars by the engine inside an attempt of Tower (`UpdatesLand` without
  its `\ amid`, and `tower_stale_diff`). UpdateWithin of a leaf is such a commit when
  another update runs on a row above it: one tree and two calls of UpdateWithin are
  enough. Between the epoch check (`tower.go:905`) and the diff (`:910`) it is taken for
  an edit and reverted. Between the commit (`:930`) and `captureEpochs` (`:935`) its
  epoch is absorbed: the comment at `tower.go:1600` says "the shadow already holds
  exactly the values that were published", but the replica is then stale and passes
  `synced()` (`SyncedIsCommitted` without `Noticed`), and the next update of the tree
  reverts the commit;
- two trees and a commit of the engine (`UpdatesLand` without `SameTree`): the commit
  makes the replica stale, an update of the other tree refreshes it in place and
  overwrites the shadow under a running callback, whose update then finds no difference
  and returns nil without effect. The comment at `tower.go:25` says "Its maps are filled
  before publication and only read afterwards, so a rebuild publishes a replacement
  rather than mutating what running callbacks are looking at. That is what keeps
  callbacks on disjoint branches out of each other's way"; `refresh` (`tower.go:347`) is
  the rebuild that does not. `UpdatesLand` and `SyncedIsCommitted` therefore speak of
  one tree;
- ownership moved between trees (`moves` in `Setups`, `OnlyOwnEdits`): the owner is read before
  its lock is taken, and two callbacks then edit one tree;
- undeclared tracked writes without audit (`audit` in `Setups`, `OnlyOwnEdits`), or
  with audit when as many declared rows outside the branch changed as undeclared
  ones inside it: a later update publishes them;
- transactions beside sessions and a replica (operations "tx", "unsafe" and "tower" in
  one project, `IndexMatchesGraph`): a delta commit changes the index in place, so the
  replica taken before it still has "the index still published"
  (`relation_runtime.go:1612`); an unsafe edit that puts a row back to what the replica
  has looks unmoved, Flush only persists, and the index keeps the committed edge;
- a commit of scalars beside a delete ("touch" and "concurrent" in one project,
  `LifetimesHold`): the delete clears an option without a new version, the commit
  writes its old copy back whole, and the pointer leads to a row that is gone.
  `docs/relations.md:108` says "A surviving pointer becomes nil";
- a delete flushed against a replica when one survivor loses pointers through two
  fields (`LifetimesHold`): the survivor is listed twice, the second and empty set of
  its fields is published, and its other relations, mandatory borrows included, are
  emptied;
- two lookup keys swapped in one transaction ("tx" and "rekey", `IndexMatchesGraph`):
  pointers are resolved by the keys of the rows before the swap, to-one fields follow
  and slices do not;
- an unsafe edit of a child's scalar back field alone, with a replica
  (`ReopenKeepsGraph`): `graphMovedNodes` ignores scalars, Flush only persists, and the
  child that its owner still lists is gone from the slice after the next Open. `Move`
  therefore only clears the scalar of a child it takes out.

Further observations from the code that no module shows: an id whose row was
deleted last is assigned again after a restart (`seedCounter`); a Flush rejected for
a key cannot be repeated after a repair because its rows already exist; `View` runs
its callback under `graphMu.RLock`; between `prepareIndexBatch` and
`finishIndexBatch` a row of the batch is in no lookup map, although the comment at
`secondary_index.go:481` says "point lookups can keep using the previous lookup maps";
a delete whose checkpoint fails (`engine.go:503`) returns before the relation index is
stored, and leaves it behind the rows.

## 7. Plan

Done: `DurableStore`, `Durability`, `TransactionEngine`, `UnsafeSession`, `Tower` and
`SecondaryIndex`, each with proofs; `RelationGraph` with `RelationIndex` (and the Flush
of relation graphs). Next, in this order:

1. The properties of `RelationIndex` that §4 lists as only model-checked.
2. `ChunkFiles`: chunk numbers, partial first save, loading by position.
3. Composition: `TransactionEngine` over `DurableStore`, so that commit order and
   recovery meet.
4. Calls nested in a View callback; the failure between publication and
   `storeCommittedOwnership`.
