------------------------- MODULE EngineCopiesProofs -------------------------
(***************************************************************************)
(* Proofs about TransactionEngine that compare what a goroutine holds with *)
(* what others publish: copies and versions, borrows, views, and the       *)
(* mutexes that are unlocked by id.                                        *)
(*                                                                         *)
(* A version starts again at 0 when an id is created a second time, and a  *)
(* row then has a new mutex.  What copies, staged deletes and row locks    *)
(* promise is proved for the behaviours in which that does not happen.     *)
(***************************************************************************)
EXTENDS TransactionEngineProofs

----------------------------------------------------------------------------
(* Copies and versions *)

\* A row that exists has had its slot.
SlotsTell == \A r \in present : slots[r] > 0

\* No id is created a second time: auto-increment ids never are, explicit ids may be.
NeverReused == \A r \in Row : slots[r] <= 1

\* A copy knows how far its row has come: versions and commits move together, and
\* a row with the version of the copy has the contents of the copy.
CopiesTell(c) ==
    \A r \in Loaded(c) :
        /\ slots[r] > 0
        /\ r \in present =>
            /\ ver[r] + snap[c][r].seen = snap[c][r].ver + commits[r]
            /\ snap[c][r].ver <= ver[r]
            /\ snap[c][r].ver = ver[r] => snap[c][r].orig = val[r]

\* So does a staged delete.
DeletesTell(c) ==
    \A r \in Deleted(c) \ Created(c) :
        /\ slots[r] > 0
        /\ r \in present => ver[r] + dels[c][r].seen = dels[c][r].ver + commits[r]

\* The row that a delete is about to read has had its slot.
StagedTell(c) ==
    pc[c] = "stage" =>
        /\ \A q \in want[c], r \in arg[c] : q.id = r /\ q.kind = "row" /\ ~q.excl
        /\ want[c] = {} \/ target[c] # 0 => \A r \in arg[c] : slots[r] > 0

CopiesInv == \A c \in Client : CopiesTell(c) /\ DeletesTell(c) /\ StagedTell(c)

\* What a row's step in a publication is.
LEMMA Published ==
    ASSUME TypeOK, NEW d \in Client, Publish(d), NEW r \in Row
    PROVE  /\ r \in present' <=> (r \in present \/ r \in Created(d)) /\ r \notin Doomed(d)
           /\ r \in Created(d) => slots'[r] = slots[r] + 1
           /\ r \notin Created(d) => slots'[r] = slots[r]
           /\ r \notin Created(d) /\ r \in Touched(d) => ver'[r] = ver[r] + 1 /\ val'[r] = snap[d][r].work
           /\ r \notin Created(d) /\ r \notin Touched(d) => ver'[r] = ver[r] /\ val'[r] = val[r]
           /\ r \in Touched(d) \cup Created(d) \cup Doomed(d) => commits'[r] = commits[r] + 1
           /\ r \notin Touched(d) \cup Created(d) \cup Doomed(d) => commits'[r] = commits[r]
           /\ pc[d] = "publish"
           /\ slots[r] \in Nat /\ ver[r] \in Nat /\ commits[r] \in Nat
<1>1. present' = (present \cup Created(d)) \ Doomed(d) /\ pc[d] = "publish"
  BY DEF Publish, AfterRows
<1>2. /\ slots' = [s \in Row |-> IF s \in Created(d) THEN slots[s] + 1 ELSE slots[s]]
      /\ ver' = [s \in Row |-> IF s \in Created(d) THEN 0 ELSE IF s \in Touched(d) THEN ver[s] + 1 ELSE ver[s]]
      /\ commits' = [s \in Row |->
            IF s \in Touched(d) \cup Created(d) \cup Doomed(d) THEN commits[s] + 1 ELSE commits[s]]
      /\ val' = [s \in Row |-> AfterVal(d, s)]
  BY DEF Publish
<1>3. slots[r] \in Nat /\ ver[r] \in Nat /\ commits[r] \in Nat
  BY DEF TypeOK
<1> QED BY <1>1, <1>2, <1>3 DEF AfterVal

\* A row that has had its slot is not created again.
LEMMA NotAgain ==
    ASSUME TypeOK, NEW d \in Client, Publish(d), NeverReused', NEW r \in Row, slots[r] > 0
    PROVE  r \notin Created(d) /\ slots'[r] > 0
<1>1. slots'[r] <= 1
  BY DEF NeverReused
<1> QED BY <1>1, Published

\* Slots are only added.
LEMMA SlotsInvariant == Spec => []SlotsTell
<1>1. Init => SlotsTell
  BY DEF Init, SlotsTell
<1>2. TypeOK /\ SlotsTell /\ [Next]_vars => SlotsTell'
  <2> SUFFICES ASSUME TypeOK, SlotsTell, [Next]_vars PROVE SlotsTell'
    OBVIOUS
  <2>1. CASE UNCHANGED <<present, slots>>
    BY <2>1 DEF SlotsTell
  <2>2. ASSUME NEW c \in Client, Publish(c) PROVE SlotsTell'
    <3> SUFFICES ASSUME NEW r \in present' PROVE slots'[r] > 0
      BY DEF SlotsTell
    <3>1. r \in Row
      BY <2>2, CommitRows DEF Publish, AfterRows, TypeOK
    <3> QED BY <2>2, <3>1, Published DEF SlotsTell
  <2>3. CASE UNCHANGED vars
    BY <2>1, <2>3 DEF vars, rowVars
  <2>4. ASSUME NEW c \in Client, Calls(c) \/ Runs(c), ~Publish(c) PROVE SlotsTell'
    BY <2>1, <2>4, RowsChange DEF rowVars
  <2> QED BY <2>2, <2>3, <2>4 DEF Next
<1> QED BY <1>1, <1>2, TypeCorrect, PTL DEF Spec

\* A copy or a staged delete sees another goroutine publish.
LEMMA CopiesOthers ==
    ASSUME TypeOK, NeverReused', NEW c \in Client, CopiesTell(c), DeletesTell(c), NEW d \in Client, Publish(d),
           snap'[c] = snap[c], news'[c] = news[c], dels'[c] = dels[c]
    PROVE  CopiesTell(c)' /\ DeletesTell(c)'
<1>1. Loaded(c)' = Loaded(c) /\ Deleted(c)' = Deleted(c) /\ Created(c)' = Created(c)
  BY SameSets
<1>2. ASSUME NEW r \in Loaded(c)
      PROVE  /\ slots'[r] > 0
             /\ r \in present' =>
                 /\ ver'[r] + snap[c][r].seen = snap[c][r].ver + commits'[r]
                 /\ snap[c][r].ver <= ver'[r]
                 /\ snap[c][r].ver = ver'[r] => snap[c][r].orig = val'[r]
  <2>1. r \in Row /\ slots[r] > 0
    BY <1>2 DEF Loaded, CopiesTell
  <2>2. snap[c][r].ver \in Nat /\ snap[c][r].seen \in Nat
    BY <1>2 DEF Loaded, TypeOK, Snapshots
  <2>3. r \notin Created(d) /\ slots'[r] > 0
    BY <2>1, NotAgain
  <2>4. r \in present => /\ ver[r] + snap[c][r].seen = snap[c][r].ver + commits[r]
                         /\ snap[c][r].ver <= ver[r]
                         /\ snap[c][r].ver = ver[r] => snap[c][r].orig = val[r]
    BY <1>2 DEF CopiesTell
  <2>5. CASE r \in Touched(d)
    BY <2>1, <2>2, <2>3, <2>4, <2>5, Published
  <2>6. CASE r \notin Touched(d)
    BY <2>1, <2>2, <2>3, <2>4, <2>6, Published
  <2> QED BY <2>5, <2>6
<1>3. ASSUME NEW r \in Deleted(c) \ Created(c)
      PROVE  /\ slots'[r] > 0
             /\ r \in present' => ver'[r] + dels[c][r].seen = dels[c][r].ver + commits'[r]
  <2>1. r \in Row /\ slots[r] > 0
    BY <1>3 DEF Deleted, DeletesTell
  <2>2. dels[c][r].ver \in Nat /\ dels[c][r].seen \in Nat
    BY <1>3 DEF Deleted, TypeOK, Staged
  <2>3. r \notin Created(d) /\ slots'[r] > 0
    BY <2>1, NotAgain
  <2>4. r \in present => ver[r] + dels[c][r].seen = dels[c][r].ver + commits[r]
    BY <1>3 DEF DeletesTell
  <2>5. CASE r \in Touched(d)
    BY <2>1, <2>2, <2>3, <2>4, <2>5, Published
  <2>6. CASE r \notin Touched(d)
    BY <2>1, <2>2, <2>3, <2>4, <2>6, Published
  <2> QED BY <2>5, <2>6
<1> QED BY <1>1, <1>2, <1>3 DEF CopiesTell, DeletesTell

\* A transaction's own steps copy rows as they are, and edit copies in place.
LEMMA CopiesOwn ==
    ASSUME TypeOK, SlotsTell, NEW c \in Client, Calls(c) \/ Runs(c), CopiesTell(c), DeletesTell(c), StagedTell(c)
    PROVE  CopiesTell(c)' /\ DeletesTell(c)'
<1>1. CASE Evict(c)
  BY <1>1, Evicted DEF CopiesTell, DeletesTell
<1>2. CASE ~Evict(c)
  <2>0. UNCHANGED <<present, slots, val, ver, commits>>
    BY <1>2, RowsChange DEF Publish, rowVars
  <2>1. \A r \in Row : ver[r] \in Nat /\ commits[r] \in Nat
    BY DEF TypeOK
  <2> DEFINE Fresh(r, x) == x.ver = ver[r] /\ x.seen = commits[r] /\ x.orig = val[r]
  <2>11. \A r : Fresh(r, Snapshot(r))
    BY DEF Snapshot
  <2>2. CASE UNCHANGED <<snap, news, dels>>
    BY <2>0, <2>2 DEF CopiesTell, DeletesTell, Loaded, Deleted, Created
  <2>3. ASSUME UNCHANGED <<snap, dels>>, NEW r \in Row, NEW v \in Value, TxCreate(c, r, v)
        PROVE  CopiesTell(c)' /\ DeletesTell(c)'
    <3>1. news'[c] = [s \in Row |-> IF s \in Subtree(r) THEN v ELSE news[c][s]] /\ v # Nothing
      BY <2>3, EngineAssumption DEF TxCreate, TypeOK
    <3>2. Created(c) \subseteq Created(c)'
      BY <3>1 DEF Created
    <3> QED BY <2>0, <2>3, <3>2 DEF CopiesTell, DeletesTell, Loaded, Deleted
  <2>4. ASSUME UNCHANGED <<snap, news>>, NEW r \in Row, TxDeleteCreated(c, r)
        PROVE  CopiesTell(c)' /\ DeletesTell(c)'
    <3>1. r \in Created(c) /\ \A s \in Row : s # r => dels'[c][s] = dels[c][s]
      BY <2>4 DEF TxDeleteCreated, TypeOK
    <3>2. Deleted(c)' \ Created(c)' \subseteq Deleted(c) \ Created(c)
      BY <2>4, <3>1 DEF Deleted, Created
    <3>3. \A s \in Deleted(c)' \ Created(c)' : dels'[c][s] = dels[c][s]
      BY <2>4, <3>1 DEF Deleted, Created
    <3> QED BY <2>0, <2>4, <3>2, <3>3 DEF CopiesTell, DeletesTell, Loaded
  <2>5. CASE UNCHANGED <<snap, news>> /\ StageDelete(c)
    <3>1. PICK r \in arg[c] : dels' = [dels EXCEPT ![c][r] = [ver |-> ver[r], seen |-> commits[r]]]
      BY <2>5 DEF StageDelete
    <3>2. r \in Row /\ slots[r] > 0
      BY <2>5 DEF StageDelete, StagedTell, TypeOK
    <3>3. /\ dels'[c][r].ver = ver[r] /\ dels'[c][r].seen = commits[r]
          /\ \A s \in Row : s # r => dels'[c][s] = dels[c][s]
      BY <3>1, <3>2 DEF TypeOK
    <3>4. \A s \in Deleted(c)' \ Created(c)' : s = r \/ (s \in Deleted(c) \ Created(c) /\ dels'[c][s] = dels[c][s])
      BY <2>5, <3>3 DEF Deleted, Created
    <3>5. DeletesTell(c)'
      BY <2>0, <2>1, <3>2, <3>3, <3>4 DEF DeletesTell
    <3> QED BY <2>0, <2>5, <3>5 DEF CopiesTell, Loaded
  <2>6. ASSUME UNCHANGED <<news, dels>>,
               \A r \in Loaded(c)' :
                  \/ r \in present /\ Fresh(r, snap'[c][r])
                  \/ /\ r \in Loaded(c)
                     /\ snap'[c][r].ver = snap[c][r].ver /\ snap'[c][r].seen = snap[c][r].seen
                     /\ snap'[c][r].orig = snap[c][r].orig
        PROVE  CopiesTell(c)' /\ DeletesTell(c)'
    <3>1. \A r \in Loaded(c)' : r \in Row
      BY DEF Loaded
    <3>2. CopiesTell(c)'
      BY <2>0, <2>1, <2>6, <3>1 DEF CopiesTell, SlotsTell
    <3> QED BY <2>0, <2>6, <3>2 DEF DeletesTell, Deleted, Created
  <2>7. ASSUME UNCHANGED <<news, dels>>, NEW w \in [Row -> Value \cup {Nothing}], Commit(c, w)
        PROVE  CopiesTell(c)' /\ DeletesTell(c)'
    <3>1. snap'[c] = [r \in Row |-> IF snap[c][r] = Nothing THEN Nothing ELSE [snap[c][r] EXCEPT !.work = w[r]]]
      BY <2>7 DEF Commit, TypeOK
    <3>2. \A r \in Row : snap[c][r] # Nothing => snap[c][r] \in Snapshots
      BY DEF TypeOK
    <3>3. \A r \in Loaded(c)' :
             /\ r \in Loaded(c)
             /\ snap'[c][r].ver = snap[c][r].ver /\ snap'[c][r].seen = snap[c][r].seen
             /\ snap'[c][r].orig = snap[c][r].orig
      BY <3>1, <3>2 DEF Loaded, Snapshots
    <3> QED BY <2>6, <2>7, <3>3
  <2>8. CASE UNCHANGED <<news, dels>> /\ Snap(c)
    <3>1. PICK r \in arg[c] :
             \/ /\ Subtree(r) \subseteq present
                /\ snap' = [snap EXCEPT ![c] = [s \in Row |->
                      IF s \in Subtree(r) /\ @[s] = Nothing THEN Snapshot(s) ELSE @[s]]]
             \/ UNCHANGED snap
      BY <2>8 DEF Snap
    <3>2. CASE UNCHANGED snap
      BY <2>2, <2>8, <3>2
    <3>3. CASE /\ Subtree(r) \subseteq present
               /\ snap' = [snap EXCEPT ![c] = [s \in Row |->
                      IF s \in Subtree(r) /\ @[s] = Nothing THEN Snapshot(s) ELSE @[s]]]
      <4>1. snap'[c] = [s \in Row |-> IF s \in Subtree(r) /\ snap[c][s] = Nothing THEN Snapshot(s) ELSE snap[c][s]]
        BY <3>3 DEF TypeOK
      <4>2. \A s \in Loaded(c)' :
               \/ s \in present /\ snap'[c][s] = Snapshot(s)
               \/ s \in Loaded(c) /\ snap'[c][s] = snap[c][s]
        BY <3>3, <4>1 DEF Loaded
      <4>3. \A s \in Loaded(c)' :
               \/ s \in present /\ Fresh(s, snap'[c][s])
               \/ s \in Loaded(c) /\ snap'[c][s] = snap[c][s]
        BY <2>11, <4>2
      <4> HIDE DEF Fresh
      <4> QED BY <2>6, <2>8, <4>3
    <3> QED BY <3>1, <3>2, <3>3
  <2>9. CASE UNCHANGED <<news, dels>> /\ Refresh(c)
    <3>1. snap'[c] = [r \in Row |-> IF snap[c][r] # Nothing /\ r \in present THEN Snapshot(r) ELSE snap[c][r]]
      BY <2>9 DEF Refresh, TypeOK
    <3>2. \A s \in Loaded(c)' :
             \/ s \in present /\ snap'[c][s] = Snapshot(s)
             \/ s \in Loaded(c) /\ snap'[c][s] = snap[c][s]
      BY <3>1 DEF Loaded
    <3>3. \A s \in Loaded(c)' :
             \/ s \in present /\ Fresh(s, snap'[c][s])
             \/ s \in Loaded(c) /\ snap'[c][s] = snap[c][s]
      BY <2>11, <3>2
    <3> HIDE DEF Fresh
    <3> QED BY <2>6, <2>9, <3>3
  <2> QED BY <1>2, <2>2, <2>3, <2>4, <2>5, <2>7, <2>8, <2>9, WorkingSet
<1> QED BY <1>1, <1>2

\* A delete finds its slot before it reads the version.
LEMMA StagedOwn ==
    ASSUME TypeOK, LockInv, SlotsTell, NEW c \in Client, Calls(c) \/ Runs(c), StagedTell(c)
    PROVE  StagedTell(c)'
<1> SUFFICES ASSUME pc'[c] = "stage" PROVE StagedTell(c)'
  BY DEF StagedTell
<1>0. Requests(c) /\ Targets(c)
  BY DEF LockInv
<1>1. ASSUME NEW r \in Row, TxDelete(c, r) PROVE StagedTell(c)'
  <2>1. /\ arg'[c] = {r} /\ want'[c] = {RowLock(r, FALSE)} /\ target'[c] = target[c] /\ pc[c] = "open"
    BY <1>1 DEF TxDelete, Locking, InCallback, TypeOK
  <2>2. target[c] = 0
    BY <1>0, <2>1 DEF Requests, WaitsAt, Targets
  <2>3. RowLock(r, FALSE).id = r /\ RowLock(r, FALSE).kind = "row" /\ ~RowLock(r, FALSE).excl
    BY OneRequest
  <2> QED BY <2>1, <2>2, <2>3 DEF StagedTell
<1>2. ASSUME pc[c] = "stage", arg' = arg, Lookup(c) \/ Announce(c) \/ Acquire(c) PROVE StagedTell(c)'
  <2>1. UNCHANGED <<present, slots>>
    BY <1>2 DEF Lookup, Announce, Acquire, rowVars
  <2>2. \A q \in want[c], r \in arg[c] : q.id = r /\ q.kind = "row" /\ ~q.excl
    BY <1>2 DEF StagedTell
  <2>3. CASE Lookup(c)
    <3>1. PICK q \in want[c] :
             \/ q.id \in present /\ want' = want
             \/ q.kind = "row" /\ q.excl /\ want' = [want EXCEPT ![c] = @ \ {q}]
             \/ pc' = [pc EXCEPT ![c] = "release"]
      BY <2>3 DEF Lookup
    <3>2. pc' # [pc EXCEPT ![c] = "release"]
      BY DEF TypeOK
    <3>3. CASE arg[c] = {}
      <4>1. arg'[c] = {}
        BY <1>2, <3>3
      <4> QED BY <4>1 DEF StagedTell
    <3>4. CASE arg[c] # {}
      <4>1. q.id \in present /\ want' = want /\ \A r \in arg[c] : q.id = r
        BY <2>2, <3>1, <3>2, <3>4
      <4> QED BY <1>2, <2>1, <2>2, <4>1 DEF StagedTell, SlotsTell
    <3> QED BY <3>3, <3>4
  <2>4. CASE Announce(c)
    BY <1>2, <2>1, <2>2, <2>4 DEF Announce, StagedTell
  <2>5. CASE Acquire(c)
    <3>1. PICK q \in want[c] : (InSlot(q) => target[c] # 0) /\ want'[c] = want[c] \ {q}
      BY <2>5, Granted
    <3>2. \A r \in arg[c] : target[c] # 0
      BY <2>2, <3>1 DEF InSlot
    <3> QED BY <1>2, <2>1, <2>2, <3>1, <3>2 DEF StagedTell
  <2> QED BY <1>2, <2>3, <2>4, <2>5
<1> QED BY <1>1, <1>2, Staging

\* Every step keeps what copies tell, as long as no id is created again.
LEMMA CopiesStep ==
    TypeOK /\ LockInv /\ SlotsTell /\ NeverReused' /\ CopiesInv /\ [Next]_vars => CopiesInv'
<1> SUFFICES ASSUME TypeOK, LockInv, SlotsTell, NeverReused', CopiesInv, [Next]_vars PROVE CopiesInv'
  OBVIOUS
<1>1. CASE UNCHANGED vars
  BY <1>1 DEF vars, rowVars, txVars, opVars, CopiesInv, CopiesTell, DeletesTell, StagedTell, Loaded, Deleted, Created
<1>2. ASSUME NEW d \in Client, Calls(d) \/ Runs(d), NEW c \in Client
      PROVE  (CopiesTell(c) /\ DeletesTell(c) /\ StagedTell(c))'
  <2>1. CopiesTell(c) /\ DeletesTell(c) /\ StagedTell(c)
    BY DEF CopiesInv
  <2>2. CASE c = d
    BY <1>2, <2>1, <2>2, CopiesOwn, StagedOwn
  <2>3. CASE c # d
    <3>1. Same(c)
      BY <1>2, <2>3, OthersSame
    <3>2. CASE Publish(d)
      <4>1. CopiesTell(c)' /\ DeletesTell(c)'
        BY <2>1, <3>1, <3>2, CopiesOthers DEF Same
      <4>2. \A r \in arg[c] : slots[r] > 0 => slots'[r] > 0
        BY <3>2, NotAgain DEF TypeOK
      <4>3. StagedTell(c)'
        BY <2>1, <3>1, <4>2 DEF StagedTell, Same
      <4> QED BY <4>1, <4>3
    <3>3. CASE ~Publish(d)
      <4>1. UNCHANGED <<present, slots, val, ver, commits>>
        BY <1>2, <3>3, RowsChange DEF rowVars
      <4> QED BY <2>1, <3>1, <4>1 DEF Same, CopiesTell, DeletesTell, StagedTell, Loaded, Deleted, Created
    <3> QED BY <3>2, <3>3
  <2> QED BY <2>2, <2>3
<1> QED BY <1>1, <1>2 DEF Next, CopiesInv

\* Copies and staged deletes know how far their rows have come.
LEMMA CopiesInvariant == Spec /\ []NeverReused => []CopiesInv
<1>1. Init => CopiesInv
  <2> SUFFICES ASSUME Init, NEW c \in Client PROVE CopiesTell(c) /\ DeletesTell(c) /\ StagedTell(c)
    BY DEF CopiesInv
  <2>1. Loaded(c) = {} /\ Deleted(c) = {} /\ pc[c] = "idle"
    BY DEF Init, NoRows, Loaded, Deleted
  <2> QED BY <2>1 DEF CopiesTell, DeletesTell, StagedTell
<1> QED BY <1>1, CopiesStep, TypeCorrect, LockInvariant, SlotsInvariant, PTL DEF Spec

----------------------------------------------------------------------------
(* First writer wins *)

\* A commit writes or deletes a row only if nobody has written, deleted or created
\* it since the committer's copy was taken, in every behaviour in which no id is
\* created twice: the version it compares and the locks it holds from the
\* comparison to publication are enough.
THEOREM FirstWriter == Spec /\ []NeverReused => FirstWriterWins
<1>1. ASSUME TypeOK, ExclusionInv, CopiesInv, [Next]_vars,
             NEW c \in Client, pc[c] = "publish", pc[c]' = "release"
      PROVE  /\ \A r \in Touched(c) : commits[r] = snap[c][r].seen
             /\ \A r \in Deleted(c) \ Created(c) : commits[r] = dels[c][r].seen
  <2>1. ~StaleWrite(c) /\ ~StaleDelete(c)
    BY <1>1 DEF ExclusionInv, StillCurrent
  <2>2. CopiesTell(c) /\ DeletesTell(c)
    BY <1>1 DEF CopiesInv
  <2>3. ASSUME NEW r \in Touched(c) PROVE commits[r] = snap[c][r].seen
    <3>1. r \in Loaded(c) /\ r \in Row /\ snap[c][r].ver \in Nat /\ snap[c][r].seen \in Nat
      BY <1>1, <2>3 DEF Touched, Loaded, TypeOK, Snapshots
    <3>2. r \in present /\ ver[r] = snap[c][r].ver
      BY <2>1, <2>3 DEF StaleWrite
    <3>3. commits[r] \in Nat
      BY <1>1, <3>1 DEF TypeOK
    <3> QED BY <2>2, <3>1, <3>2, <3>3 DEF CopiesTell
  <2>4. ASSUME NEW r \in Deleted(c) \ Created(c) PROVE commits[r] = dels[c][r].seen
    <3>1. r \in Row /\ dels[c][r].ver \in Nat /\ dels[c][r].seen \in Nat
      BY <1>1, <2>4 DEF Deleted, TypeOK, Staged
    <3>2. r \in present /\ ver[r] = dels[c][r].ver
      BY <2>1, <2>4 DEF StaleDelete
    <3>3. commits[r] \in Nat
      BY <1>1, <3>1 DEF TypeOK
    <3> QED BY <2>2, <2>4, <3>1, <3>2, <3>3 DEF DeletesTell
  <2> QED BY <2>3, <2>4
<1>2. TypeOK /\ ExclusionInv /\ CopiesInv /\ [Next]_vars =>
        [\A c \in Client : (pc[c] = "publish" /\ pc[c]' = "release") =>
          /\ \A r \in Touched(c) : commits[r] = snap[c][r].seen
          /\ \A r \in Deleted(c) \ Created(c) : commits[r] = dels[c][r].seen]_vars
  BY <1>1
<1> QED BY <1>2, TypeCorrect, ExclusionInvariant, CopiesInvariant, PTL DEF Spec, FirstWriterWins

----------------------------------------------------------------------------
(* No dangling borrow *)

\* A commit that changes relations has validated the graph it leads to.
GraphStillValid(c) == pc[c] \in {"commit", "publish"} /\ Reshapes(c) => GraphValid(c)
GraphInv == \A c \in Client : GraphStillValid(c)

\* A commit that changes no relation deletes no row of the graph, by cascade or
\* otherwise.
LEMMA DoomedReshapes ==
    ASSUME NEW d \in Client, WholeBranches(d), ~Reshapes(d), NEW r \in Doomed(d)
    PROVE  ~InGraph(r)
<1>1. PICK x \in Deleted(d) : r \in Subtree(x)
  BY DEF Doomed
<1>2. x \in Row /\ RootOf[x] = x /\ ~InGraph(x)
  BY DEF Deleted, WholeBranches, Reshapes, Structural
<1>3. RootOf[r] = x /\ r \in Row
  BY <1>1, <1>2 DEF Subtree
<1> QED BY <1>2, <1>3, EngineAssumption DEF InGraph

\* Whoever publishes beside a commit that changes relations has nothing to do with
\* the graph.
LEMMA GraphApart ==
    ASSUME NEW c \in Client, NEW d \in Client, c # d, Requests(c), Requests(d), Excludes(c), Excludes(d),
           pc[c] \in {"commit", "publish"}, pc[d] \in {"commit", "publish"}, Reshapes(c)
    PROVE  ~Reshapes(d) /\ ~Writes(d)
<1>1. Owns(c, GraphMu)
  BY WaitsLater DEF Excludes
<1>2. Reshapes(d) => Owns(d, GraphMu)
  BY WaitsLater DEF Excludes
<1>3. Writes(d) => Owns(d, GraphMu) \/ d \in readers[GraphMu]
  BY WaitsLater DEF Excludes
<1> QED BY <1>1, <1>2, <1>3 DEF Owns

\* Such a publication leaves the validated graph as it was.
LEMMA GraphOthers ==
    ASSUME TypeOK, NEW c \in Client, NEW d \in Client, Publish(d), WholeBranches(d), ~Reshapes(d), ~Writes(d),
           GraphValid(c), snap'[c] = snap[c], news'[c] = news[c], dels'[c] = dels[c]
    PROVE  GraphValid(c)'
<1>1. Touched(c)' = Touched(c) /\ Created(c)' = Created(c) /\ Doomed(c)' = Doomed(c)
  BY SameSets
<1>2. ASSUME NEW r \in Row, InGraph(r)
      PROVE  (r \in present' <=> r \in present) /\ val'[r] = val[r]
  <2>1. r \notin Created(d) /\ r \notin Touched(d)
    BY <1>2 DEF Reshapes, Writes, Structural
  <2>2. r \notin Doomed(d)
    BY <1>2, DoomedReshapes
  <2> QED BY <2>1, <2>2, Published
<1>3. ASSUME NEW r \in Row, InGraph(r)
      PROVE  (r \in AfterRows(c)' <=> r \in AfterRows(c)) /\ AfterVal(c, r)' = AfterVal(c, r)
  BY <1>1, <1>2, <1>3 DEF AfterRows, AfterVal
<1>4. AfterRows(c)' \subseteq Row /\ AfterRows(c) \subseteq Row
  <2>1. present \subseteq Row /\ present' \subseteq Row
    BY CommitRows DEF TypeOK, Publish, AfterRows
  <2> QED BY <1>1, <2>1, CommitRows DEF AfterRows
<1>5. ASSUME NEW r \in AfterRows(c)', InGraph(r) PROVE Link[AfterVal(c, r)'] \in AfterRows(c)' \cup {0}
  <2>1. Link[AfterVal(c, r)] \in AfterRows(c) \cup {0}
    BY <1>3, <1>4, <1>5 DEF GraphValid
  <2>2. Link[AfterVal(c, r)] # 0 => InGraph(Link[AfterVal(c, r)])
    BY <1>4, <1>5, AfterValues, EngineAssumption DEF InGraph
  <2> QED BY <1>3, <1>4, <1>5, <2>1, <2>2
<1> QED BY <1>5 DEF GraphValid

\* Validation and publication share graphMu: what was validated holds until then.
LEMMA GraphStep == TypeOK /\ LockInv /\ ExclusionInv /\ GraphInv /\ [Next]_vars => GraphInv'
<1> SUFFICES ASSUME TypeOK, LockInv, ExclusionInv, GraphInv, [Next]_vars PROVE GraphInv'
  OBVIOUS
<1>1. ASSUME NEW c, snap'[c] = snap[c], news'[c] = news[c], dels'[c] = dels[c], UNCHANGED <<present, val>>
      PROVE  (GraphValid(c)' <=> GraphValid(c)) /\ (Reshapes(c)' <=> Reshapes(c))
  BY <1>1, SameSets DEF GraphValid, AfterRows, AfterVal
<1>2. CASE UNCHANGED vars
  BY <1>1, <1>2 DEF vars, rowVars, txVars, GraphInv, GraphStillValid
<1>3. ASSUME NEW d \in Client, Calls(d) \/ Runs(d), NEW c \in Client, c # d PROVE GraphStillValid(c)'
  <2>1. Same(c) /\ GraphStillValid(c)
    BY <1>3, OthersSame DEF GraphInv
  <2>2. CASE ~Publish(d)
    <3>1. UNCHANGED <<present, val>>
      BY <1>3, <2>2, RowsChange DEF rowVars
    <3> QED BY <1>1, <2>1, <3>1 DEF Same, GraphStillValid
  <2>3. CASE Publish(d)
    <3> SUFFICES ASSUME pc[c] \in {"commit", "publish"}, Reshapes(c) PROVE GraphValid(c)'
      BY <2>1, SameSets DEF Same, GraphStillValid
    <3>1. /\ Requests(c) /\ Requests(d) /\ Excludes(c) /\ Excludes(d) /\ WholeBranches(d)
      BY DEF LockInv, ExclusionInv
    <3>2. ~Reshapes(d) /\ ~Writes(d)
      BY <1>3, <2>3, <3>1, GraphApart DEF Publish
    <3> QED BY <2>1, <2>3, <3>1, <3>2, GraphOthers DEF Same, GraphStillValid
  <2> QED BY <2>2, <2>3
<1>4. ASSUME NEW c \in Client, Calls(c) \/ Runs(c) PROVE GraphStillValid(c)'
  <2> SUFFICES ASSUME pc'[c] \in {"commit", "publish"}, Reshapes(c)' PROVE GraphValid(c)'
    BY DEF GraphStillValid
  <2>1. UNCHANGED <<snap, news, dels, present, val>>
    BY <1>4, Committing
  <2>2. Reshapes(c) /\ (GraphValid(c)' <=> GraphValid(c))
    BY <1>1, <2>1
  <2>3. CASE pc[c] \in {"commit", "publish"}
    BY <2>2, <2>3 DEF GraphInv, GraphStillValid
  <2>4. CASE Prepare(c)
    <3>1. GraphAccess(c) = {Graph(TRUE)}
      BY <2>2 DEF GraphAccess, Reshapes
    <3>2. Graph(TRUE) \in GraphAccess(c)
      BY <3>1
    <3>3. pc' # [pc EXCEPT ![c] = "release"]
      BY DEF TypeOK
    <3>4. GraphValid(c)
      BY <2>4, <3>2, <3>3 DEF Prepare, Refuse
    <3> QED BY <2>2, <3>4
  <2> QED BY <1>4, <2>3, <2>4, Committing DEF Log
<1> QED BY <1>2, <1>3, <1>4 DEF Next, GraphInv

\* The validated graph is an invariant.
LEMMA GraphInvariant == Spec => []GraphInv
<1>1. Init => GraphInv
  BY DEF Init, GraphInv, GraphStillValid
<1> QED BY <1>1, GraphStep, TypeCorrect, LockInvariant, ExclusionInvariant, PTL DEF Spec

\* A live row never borrows one that is gone, in every behaviour in which no id is
\* created twice: commits that change relations are validated under graphMu, and
\* the others write rows whose borrows their unchanged version vouches for.
THEOREM NoBorrowDangles == Spec /\ []NeverReused => []NoDanglingBorrow
<1>1. Init => NoDanglingBorrow
  <2> SUFFICES ASSUME Init, NEW r \in present, InGraph(r) PROVE Link[val[r]] \in present \cup {0}
    BY DEF NoDanglingBorrow
  <2>1. r \in Row /\ StartRows[r] # Nothing /\ val[r] = StartRows[r] /\ StartRows[r] \in Value
    BY EngineAssumption DEF Init
  <2>2. Link[StartRows[r]] \in Row \cup {0}
    BY <2>1, EngineAssumption
  <2> QED BY <2>1, <2>2, StartAssumption DEF Init, InGraph
<1>2. TypeOK /\ ExclusionInv /\ CopiesInv /\ GraphInv /\ NoDanglingBorrow /\ [Next]_vars => NoDanglingBorrow'
  <2> SUFFICES ASSUME TypeOK, ExclusionInv, CopiesInv, GraphInv, NoDanglingBorrow, [Next]_vars
               PROVE  NoDanglingBorrow'
    OBVIOUS
  <2>1. CASE UNCHANGED <<present, val>>
    BY <2>1 DEF NoDanglingBorrow
  <2>2. ASSUME NEW c \in Client, Publish(c) PROVE NoDanglingBorrow'
    <3>1. present' = AfterRows(c) /\ val' = [r \in Row |-> AfterVal(c, r)] /\ pc[c] = "publish"
      BY <2>2 DEF Publish
    <3>2. AfterRows(c) \subseteq Row
      BY CommitRows DEF AfterRows, TypeOK
    <3>3. CASE Reshapes(c)
      <4>1. GraphValid(c)
        BY <3>1, <3>3 DEF GraphInv, GraphStillValid
      <4> QED BY <3>1, <3>2, <4>1 DEF GraphValid, NoDanglingBorrow
    <3>4. CASE ~Reshapes(c)
      <4> SUFFICES ASSUME NEW r \in present', InGraph(r) PROVE Link[val'[r]] \in present' \cup {0}
        BY DEF NoDanglingBorrow
      <4>0. WholeBranches(c) /\ StillCurrent(c) /\ CopiesTell(c)
        BY DEF ExclusionInv, CopiesInv
      <4>1. r \in Row /\ r \notin Created(c) /\ r \in present
        BY <3>1, <3>2, <3>4 DEF Reshapes, Structural, AfterRows
      <4>2. Link[val'[r]] = Link[val[r]]
        <5>1. CASE r \in Touched(c)
          <6>1. val'[r] = snap[c][r].work
            BY <2>2, <4>1, <5>1, Published
          <6>2. Link[snap[c][r].work] = Link[snap[c][r].orig]
            BY <3>4, <5>1 DEF Reshapes, LinksChanged
          <6>3. ver[r] = snap[c][r].ver
            BY <3>1, <4>0, <5>1 DEF StillCurrent, StaleWrite
          <6>4. snap[c][r].orig = val[r]
            BY <4>0, <4>1, <5>1, <6>3 DEF CopiesTell, Touched
          <6> QED BY <6>1, <6>2, <6>4
        <5>2. CASE r \notin Touched(c)
          BY <2>2, <4>1, <5>2, Published
        <5> QED BY <5>1, <5>2
      <4>3. Link[val[r]] \in present \cup {0}
        BY <4>1 DEF NoDanglingBorrow
      <4>4. Link[val[r]] # 0 => InGraph(Link[val[r]])
        BY <4>1, EngineAssumption DEF InGraph, TypeOK
      <4>5. Link[val[r]] # 0 => Link[val[r]] \in present'
        BY <3>1, <3>4, <4>0, <4>3, <4>4, DoomedReshapes DEF AfterRows
      <4> QED BY <4>2, <4>3, <4>5
    <3> QED BY <3>3, <3>4
  <2>3. CASE UNCHANGED vars
    BY <2>1, <2>3 DEF vars, rowVars
  <2>4. ASSUME NEW c \in Client, Calls(c) \/ Runs(c), ~Publish(c) PROVE NoDanglingBorrow'
    BY <2>1, <2>4, RowsChange DEF rowVars
  <2> QED BY <2>2, <2>3, <2>4 DEF Next
<1> QED BY <1>1, <1>2, TypeCorrect, ExclusionInvariant, CopiesInvariant, GraphInvariant, PTL DEF Spec

----------------------------------------------------------------------------
(* Stable views *)

FirstSlot(r) == [kind |-> "row", id |-> r, gen |-> 1]

\* A commit has the mutexes of the rows it writes.
RowsLocked(c) ==
    pc[c] \in {"commit", "publish"} =>
        \A r \in LockedRows(c) \cap present : Waits(c, "row", r) \/ Owns(c, FirstSlot(r))
RowsInv == \A c \in Client : RowsLocked(c)

\* A view has the locks that keep writers from row r, and the row exists.
ViewHolds(c, r) ==
    /\ InGraph(r) => Waits(c, "graph", 0) \/ c \in readers[GraphMu]
    /\ \/ InGraph(r) /\ (Waits(c, "branch", RootOf[r]) \/ c \in readers[BranchMu(r)])
       \/ Waits(c, "row", r)
       \/ c \in readers[FirstSlot(r)]
    /\ pc[c] = "viewing" \/ c \in readers[FirstSlot(r)] => r \in present

\* The slot that a view has found for row r is there, or somebody has it locked
\* for good.
ViewFinds(c, r) ==
    \A q \in want[c] : q.kind = "row" /\ q.id = r /\ IsNext(c, q) /\ target[c] # 0 =>
        /\ slots[r] > 0
        /\ r \in present \/ writer[FirstSlot(r)] # NoClient

ViewsInv ==
    \A c \in Client : pc[c] \in {"view", "viewing"} =>
        \A r \in arg[c] : ViewHolds(c, r) /\ ViewFinds(c, r)

\* The mutex of the one slot a row has.
LEMMA FirstGranted ==
    ASSUME TypeOK, NeverReused, NEW c \in Client, Targets(c), NEW q \in want[c], q \in Proper,
           IsNext(c, q), q.kind = "row", target[c] # 0
    PROVE  LockOf(c, q) = FirstSlot(q.id)
<1>1. q.id \in Row /\ target[c] <= slots[q.id]
  BY DEF Proper, Targets
<1>2. target[c] \in Nat /\ slots[q.id] \in Nat /\ slots[q.id] <= 1
  BY <1>1, EngineAssumption DEF TypeOK, NeverReused
<1>3. target[c] = 1
  BY <1>1, <1>2
<1> QED BY <1>3 DEF LockOf, InSlot, FirstSlot

\* The mutexes of first slots are mutexes.
LEMMA FirstSlots == \A r \in Row : FirstSlot(r) \in AllLocks
<1>1. 1 \in 1 .. MaxSlots
  BY EngineAssumption
<1> QED BY <1>1, LockNames DEF FirstSlot

\* A commit takes the mutexes of the rows it writes, and no row it has a copy of
\* appears later.
LEMMA RowsStep ==
    TypeOK /\ LockInv /\ NeverReused /\ NeverReused' /\ CopiesInv /\ RowsInv /\ [Next]_vars => RowsInv'
<1> SUFFICES ASSUME TypeOK, LockInv, NeverReused, NeverReused', CopiesInv, RowsInv, [Next]_vars PROVE RowsInv'
  OBVIOUS
<1>1. CASE UNCHANGED vars
  <2>1. UNCHANGED <<pc, snap, news, dels, present, want, writer, readers>>
    BY <1>1 DEF vars, rowVars, lockVars, txVars
  <2>2. ASSUME NEW c \in Client PROVE RowsLocked(c)'
    <3>1. LockedRows(c)' = LockedRows(c) /\ RowsLocked(c)
      BY <2>1, SameSets DEF RowsInv
    <3>2. \A r : (Waits(c, "row", r)' <=> Waits(c, "row", r)) /\ (Owns(c, FirstSlot(r))' <=> Owns(c, FirstSlot(r)))
      BY <2>1 DEF Waits, Owns, FirstSlot
    <3> QED BY <2>1, <3>1, <3>2 DEF RowsLocked
  <2> QED BY <2>2 DEF RowsInv
<1>2. ASSUME NEW d \in Client, Calls(d) \/ Runs(d), NEW c \in Client, c # d \/ ~Release(d), NEW r \in Row
      PROVE  Owns(c, FirstSlot(r)) => Owns(c, FirstSlot(r))'
  <2>1. FirstSlot(r)' = FirstSlot(r) /\ FirstSlot(r) \in AllLocks
    BY FirstSlots DEF FirstSlot
  <2>2. Owns(c, FirstSlot(r)) => writer'[FirstSlot(r)] = c /\ readers'[FirstSlot(r)] = {}
    BY <1>2, <2>1, LocksKept
  <2> QED BY <2>1, <2>2 DEF Owns
<1>3. ASSUME NEW d \in Client, Calls(d) \/ Runs(d), NEW c \in Client, c # d PROVE RowsLocked(c)'
  <2> SUFFICES ASSUME pc'[c] \in {"commit", "publish"}, NEW r \in LockedRows(c)' \cap present'
               PROVE  Waits(c, "row", r)' \/ Owns(c, FirstSlot(r))'
    BY DEF RowsLocked
  <2>1. Same(c)
    BY <1>3, OthersSame
  <2>2. LockedRows(c)' = LockedRows(c) /\ pc'[c] = pc[c] /\ want'[c] = want[c]
    BY <2>1, SameSets DEF Same
  <2>3. r \in Row /\ slots[r] > 0
    <3>1. r \in Loaded(c) \/ r \in Deleted(c) \ Created(c)
      BY <2>2 DEF LockedRows, Touched
    <3> QED BY <3>1 DEF CopiesInv, CopiesTell, DeletesTell, Loaded, Deleted
  <2>4. r \in present
    <3>1. CASE Publish(d)
      BY <2>3, <3>1, NotAgain, Published
    <3>2. CASE ~Publish(d)
      BY <1>3, <3>2, RowsChange DEF rowVars
    <3> QED BY <3>1, <3>2
  <2>5. Waits(c, "row", r) \/ Owns(c, FirstSlot(r))
    BY <2>2, <2>4 DEF RowsInv, RowsLocked
  <2>6. Waits(c, "row", r) => Waits(c, "row", r)'
    BY <2>2 DEF Waits
  <2> QED BY <1>2, <1>3, <2>3, <2>5, <2>6
<1>4. ASSUME NEW c \in Client, Calls(c) \/ Runs(c) PROVE RowsLocked(c)'
  <2> SUFFICES ASSUME pc'[c] \in {"commit", "publish"}, NEW r \in LockedRows(c)' \cap present'
               PROVE  Waits(c, "row", r)' \/ Owns(c, FirstSlot(r))'
    BY DEF RowsLocked
  <2>1. UNCHANGED <<snap, news, dels, present>>
    BY <1>4, Committing
  <2>2. r \in LockedRows(c) /\ r \in present /\ r \in Row
    BY <2>1, SameSets DEF TypeOK
  <2>3. ~Release(c)
    BY <1>4, Committing DEF Release, Lookup, Announce, Acquire, Changes, Prepare, Log
  <2>4. Owns(c, FirstSlot(r)) => Owns(c, FirstSlot(r))'
    BY <1>2, <1>4, <2>2, <2>3
  <2>5. CASE pc[c] \in {"commit", "publish"} /\ want'[c] = want[c]
    <3>1. Waits(c, "row", r)' <=> Waits(c, "row", r)
      BY <2>5 DEF Waits
    <3> QED BY <2>2, <2>4, <2>5, <3>1 DEF RowsInv, RowsLocked
  <2>6. CASE Lookup(c) /\ pc' = pc
    <3>1. PICK q \in want[c] : want'[c] = want[c] \/ (q.id \notin present /\ want'[c] = want[c] \ {q})
      <4>1. PICK q \in want[c] :
               \/ want' = want
               \/ q.id \notin present /\ want' = [want EXCEPT ![c] = @ \ {q}]
               \/ pc' = [pc EXCEPT ![c] = "release"]
        BY <2>6 DEF Lookup
      <4> QED BY <2>6, <4>1 DEF TypeOK
    <3>2. Waits(c, "row", r) => Waits(c, "row", r)'
      BY <2>2, <3>1 DEF Waits
    <3> QED BY <2>2, <2>4, <2>6, <3>2 DEF RowsInv, RowsLocked
  <2>7. CASE Announce(c)
    BY <2>5, <2>7 DEF Announce
  <2>8. CASE Acquire(c)
    <3>0. pc[c] = pc'[c] /\ Requests(c) /\ Targets(c)
      BY <2>8 DEF Acquire, LockInv
    <3>1. PICK q \in want[c] :
              /\ q \in Proper /\ WaitsAt(pc[c], q) /\ IsNext(c, q) /\ (InSlot(q) => target[c] # 0)
              /\ q.excl => writer'[LockOf(c, q)] = c /\ readers'[LockOf(c, q)] = {}
              /\ want'[c] = want[c] \ {q}
      BY <2>8, Granted
    <3>2. Waits(c, "row", r) => Waits(c, "row", r)' \/ (q.kind = "row" /\ q.id = r)
      BY <3>1 DEF Waits
    <3>3. q.kind = "row" /\ q.id = r => q.excl /\ LockOf(c, q) = FirstSlot(r)
      BY <3>0, <3>1, FirstGranted DEF WaitsAt, InSlot
    <3>4. q.kind = "row" /\ q.id = r => Owns(c, FirstSlot(r))'
      BY <3>1, <3>3 DEF Owns, FirstSlot
    <3> QED BY <2>2, <2>4, <3>0, <3>2, <3>4 DEF RowsInv, RowsLocked
  <2>9. CASE want'[c] = RowLocks(c)
    <3>1. \E q \in want'[c] : q.kind = "row" /\ q.id = r
      BY <2>2, <2>9, RowRequests
    <3> QED BY <3>1 DEF Waits
  <2> QED BY <1>4, <2>5, <2>6, <2>7, <2>8, <2>9, Committing DEF Log
<1> QED BY <1>1, <1>3, <1>4 DEF Next, RowsInv

\* The row mutexes of a commit are an invariant.
LEMMA RowsInvariant == Spec /\ []NeverReused => []RowsInv
<1>1. Init => RowsInv
  BY DEF Init, RowsInv, RowsLocked
<1> QED BY <1>1, RowsStep, TypeCorrect, LockInvariant, CopiesInvariant, PTL DEF Spec

\* The steps of a view until its callback has begun.
LEMMA Viewing ==
    ASSUME TypeOK, NEW c \in Client, Calls(c) \/ Runs(c), pc'[c] \in {"view", "viewing"}
    PROVE  \/ (\E r \in Row : View(c, r)) \/ (\E t \in Type, rows \in SUBSET Row : ViewMany(c, t, rows))
           \/ (Lookup(c) \/ Announce(c) \/ Acquire(c)) /\ pc' = pc /\ arg' = arg
           \/ BeginView(c)
<1> USE DEF rowVars, lockVars, txVars, opVars
<1>0. /\ pc \in [Client -> Places] /\ back \in [Client -> {"idle", "open", "retry"}]
  BY DEF TypeOK
<1>1. ASSUME NEW p \in {"open", "load", "stage", "within", "changes", "prepare", "commit", "release", "publish"},
             pc' = [pc EXCEPT ![c] = p] PROVE FALSE
  BY <1>0, <1>1
<1>2. CASE Calls(c)
  <2>1. ~Begin(c) /\ (\A r \in Row : ~UpdateWithin(c, r))
    BY <1>1 DEF Begin, UpdateWithin, Enter
  <2>2. \A r \in Row : ~Get(c, r) /\ ~TxGet(c, r) /\ ~TxDelete(c, r)
    BY <1>1 DEF Get, TxGet, TxDelete, Locking
  <2>3. \A r \in Row : ~TxDeleteCreated(c, r) /\ \A v \in Value : ~TxCreate(c, r, v)
    BY DEF TxDeleteCreated, TxCreate, InCallback
  <2>4. ~Abort(c) /\ \A w \in [Row -> Value \cup {Nothing}] : ~Commit(c, w)
    BY <1>1 DEF Abort, Commit
  <2> QED BY <1>2, <2>1, <2>2, <2>3, <2>4 DEF Calls
<1>3. CASE Lookup(c)
  <2>1. (pc' = pc \/ pc' = [pc EXCEPT ![c] = "release"]) /\ arg' = arg
    BY <1>3 DEF Lookup
  <2> QED BY <1>1, <1>3, <2>1
<1>4. CASE Announce(c) \/ Acquire(c)
  BY <1>4 DEF Announce, Acquire
<1>5. ~Release(c) /\ ~Attempt(c)
  BY <1>0, <1>1 DEF Release, Attempt, Locking
<1>6. ~Snap(c) /\ ~EndView(c) /\ ~StageDelete(c) /\ ~Publish(c) /\ ~Log(c)
  BY <1>1 DEF Snap, EndView, StageDelete, Publish, Log
<1>7. ~Conflict(c) /\ ~Reject(c)
  BY <1>1 DEF Conflict, Reject, Refuse
<1>8. ~Changes(c) /\ ~Prepare(c)
  BY <1>1 DEF Changes, Prepare, Refuse
<1> QED BY <1>2, <1>3, <1>4, <1>5, <1>6, <1>7, <1>8 DEF Runs

\* What a commit about to publish has locked of a row that it writes or deletes.
LEMMA PublisherLocks ==
    ASSUME TypeOK, LockInv, ExclusionInv, RowsInv, NEW d \in Client, pc[d] = "publish", NEW r \in Row, r \in present
    PROVE  /\ r \notin Created(d)
           /\ r \in Touched(d) => Owns(d, FirstSlot(r)) /\ Owns(d, BranchMu(r))
           /\ r \in Doomed(d) /\ InGraph(r) => Owns(d, GraphMu)
           /\ r \in Doomed(d) /\ ~InGraph(r) => Owns(d, FirstSlot(r))
<1>1. Requests(d) /\ Excludes(d) /\ WholeBranches(d) /\ StillFree(d) /\ RowsLocked(d)
  BY DEF LockInv, ExclusionInv, RowsInv
<1>2. r \notin Created(d)
  BY <1>1 DEF StillFree
<1>3. \A k, i : ~Waits(d, k, i)
  BY <1>1, WaitsLater DEF Waits
<1>4. r \in LockedRows(d) => Owns(d, FirstSlot(r)) /\ Owns(d, BranchMu(r))
  BY <1>1, <1>3 DEF RowsLocked, Excludes
<1>5. Reshapes(d) => Owns(d, GraphMu)
  BY <1>1, <1>3 DEF Excludes
<1>6. ASSUME r \in Doomed(d), ~InGraph(r) PROVE r \in LockedRows(d)
  <2>1. PICK x \in Deleted(d) : r \in Subtree(x)
    BY <1>6 DEF Doomed
  <2>2. x \in Row /\ RootOf[x] = x
    BY <1>1 DEF Deleted, WholeBranches
  <2>3. RootOf[r] = x
    BY <2>1, <2>2 DEF Subtree
  <2>4. r = x
    BY <1>6, <2>3, EngineAssumption DEF InGraph
  <2> QED BY <1>2, <2>4 DEF LockedRows
<1>7. r \in Doomed(d) /\ InGraph(r) => Reshapes(d)
  BY <1>1, DoomedReshapes
<1>8. r \in Touched(d) => r \in LockedRows(d)
  BY DEF LockedRows
<1> QED BY <1>2, <1>4, <1>5, <1>6, <1>7, <1>8

\* The mutex of a deleted row stays locked.
LEMMA LockedForGood ==
    ASSUME TypeOK, NEW d \in Client, Calls(d) \/ Runs(d), NEW r \in Row, r \notin present,
           writer[FirstSlot(r)] # NoClient
    PROVE  writer'[FirstSlot(r)] # NoClient
<1>1. FirstSlot(r) \in AllLocks /\ FirstSlot(r).kind = "row" /\ FirstSlot(r).id = r
  BY FirstSlots DEF FirstSlot
<1>2. CASE writer[FirstSlot(r)] # d
  BY <1>1, <1>2, LocksKept
<1>3. CASE writer[FirstSlot(r)] = d /\ ~Release(d)
  BY <1>1, <1>3, LocksKept
<1>4. CASE Release(d)
  <2>1. ~Releases(d, FirstSlot(r))
    BY <1>1 DEF Releases, SlotLock
  <2> QED BY <1>1, <1>4, <2>1 DEF Release
<1> QED BY <1>2, <1>3, <1>4

\* Once a row's mutex is granted or next, graphMu has been granted.
LEMMA GraphGranted ==
    ASSUME TypeOK, LockInv, NEW c \in Client, NEW r \in Row
    PROVE  /\ c \in readers[FirstSlot(r)] => ~Waits(c, "graph", 0)
           /\ \A q \in want[c] : q.kind = "row" /\ IsNext(c, q) => ~Waits(c, "graph", 0)
           /\ pc[c] = "viewing" => want[c] = {}
<1>0. Requests(c) /\ InOrder(c)
  BY DEF LockInv
<1>1. ASSUME NEW p \in want[c], p.kind = "graph", NEW l, l.kind = "row", l.id \in Nat PROVE ~Before(l, p)
  <2>1. p.id \in Nat
    BY <1>0 DEF Requests, Proper, Request
  <2>2. Before(p, l)
    BY <1>1, Levels
  <2> QED BY <1>1, <2>1, <2>2, Levels DEF Kind
<1>2. c \in readers[FirstSlot(r)] => ~Waits(c, "graph", 0)
  <2>1. FirstSlot(r) \in AllLocks /\ FirstSlot(r).kind = "row" /\ FirstSlot(r).id \in Nat
    BY FirstSlots, Names DEF FirstSlot
  <2> QED BY <1>0, <1>1, <2>1 DEF InOrder, Waits
<1>3. ASSUME NEW q \in want[c], q.kind = "row", IsNext(c, q) PROVE ~Waits(c, "graph", 0)
  <2>1. q.id \in Nat
    BY <1>0 DEF Requests, Proper, Request
  <2> QED BY <1>1, <1>3, <2>1 DEF IsNext, Waits
<1>4. pc[c] = "viewing" => want[c] = {}
  BY <1>0 DEF Requests, WaitsAt
<1> QED BY <1>2, <1>3, <1>4

\* Another goroutine's step leaves a view its locks and its rows.
LEMMA ViewsOthers ==
    ASSUME TypeOK, LockInv, ExclusionInv, RowsInv, NeverReused', NEW d \in Client, Calls(d) \/ Runs(d),
           NEW c \in Client, c # d, pc[c] \in {"view", "viewing"}, NEW r \in Row, ViewHolds(c, r), ViewFinds(c, r)
    PROVE  ViewHolds(c, r)' /\ ViewFinds(c, r)'
<1>1. pc'[c] = pc[c] /\ want'[c] = want[c] /\ target'[c] = target[c]
  BY OthersSame DEF Same
<1>2. \A k, i : Waits(c, k, i)' <=> Waits(c, k, i)
  BY <1>1 DEF Waits
<1>3. /\ GraphMu \in AllLocks /\ BranchMu(r) \in AllLocks /\ FirstSlot(r) \in AllLocks
  BY LockNames, Names, FirstSlots DEF BranchMu
<1>4. /\ c \in readers'[GraphMu] <=> c \in readers[GraphMu]
      /\ c \in readers'[BranchMu(r)] <=> c \in readers[BranchMu(r)]
      /\ c \in readers'[FirstSlot(r)] <=> c \in readers[FirstSlot(r)]
  BY <1>3, LocksKept
<1>5. \A q \in want[c] : IsNext(c, q)' <=> IsNext(c, q)
  BY <1>1 DEF IsNext
<1>6. (pc[c] = "viewing" \/ c \in readers[FirstSlot(r)]) => r \in present'
  <2> SUFFICES ASSUME pc[c] = "viewing" \/ c \in readers[FirstSlot(r)], Publish(d) PROVE r \in present'
    BY RowsChange DEF ViewHolds, rowVars
  <2>1. r \in present /\ ~Waits(c, "graph", 0) /\ (pc[c] = "viewing" => want[c] = {})
    BY GraphGranted DEF ViewHolds, Waits
  <2>2. InGraph(r) => c \in readers[GraphMu]
    BY <2>1 DEF ViewHolds
  <2>3. ~InGraph(r) => c \in readers[FirstSlot(r)]
    BY <2>1 DEF ViewHolds, Waits
  <2>4. r \notin Doomed(d)
    BY <2>1, <2>2, <2>3, PublisherLocks DEF Owns, Publish
  <2> QED BY <2>1, <2>4, Published
<1>7. ViewHolds(c, r)'
  <2>1. FirstSlot(r)' = FirstSlot(r) /\ BranchMu(r)' = BranchMu(r)
    BY DEF FirstSlot, BranchMu
  <2> QED BY <1>1, <1>2, <1>4, <1>6, <2>1 DEF ViewHolds
<1>8. ASSUME NEW q \in want[c], q.kind = "row", q.id = r, IsNext(c, q), target[c] # 0
      PROVE  slots'[r] > 0 /\ (r \in present' \/ writer'[FirstSlot(r)] # NoClient)
  <2>1. slots[r] > 0 /\ (r \in present \/ writer[FirstSlot(r)] # NoClient)
    BY <1>8 DEF ViewFinds
  <2>2. slots'[r] > 0
    BY <2>1, NotAgain, RowsChange DEF rowVars
  <2>3. CASE r \notin present
    BY <2>1, <2>2, <2>3, LockedForGood
  <2>4. CASE r \in present /\ ~Publish(d)
    BY <2>2, <2>4, RowsChange DEF rowVars
  <2>5. CASE r \in present /\ Publish(d)
    <3>1. InGraph(r) => c \in readers[GraphMu]
      BY <1>8, GraphGranted DEF ViewHolds
    <3>2. r \in Doomed(d) => Owns(d, FirstSlot(r))
      BY <2>5, <3>1, PublisherLocks DEF Owns, Publish
    <3>3. Owns(d, FirstSlot(r)) => writer'[FirstSlot(r)] = d
      BY <2>5 DEF Owns, Publish, lockVars
    <3> QED BY <2>2, <2>5, <3>2, <3>3, Published, EngineAssumption
  <2> QED BY <2>2, <2>3, <2>4, <2>5
<1>9. ViewFinds(c, r)'
  <2>1. FirstSlot(r)' = FirstSlot(r)
    BY DEF FirstSlot
  <2> QED BY <1>1, <1>5, <1>8, <2>1 DEF ViewFinds
<1> QED BY <1>7, <1>9

\* A view asks for its locks.
LEMMA ViewsEnter ==
    ASSUME TypeOK, LockInv, NEW c \in Client, pc[c] = "idle", NEW rows \in SUBSET Row, NEW D,
           Enter(c, "view", rows, "view", D),
           \A q \in D : q.kind = "row" => q.id \in rows,
           \A r \in rows :
              /\ InGraph(r) => \E q \in D : q.kind = "graph" /\ q.id = 0
              /\ \/ InGraph(r) /\ \E q \in D : q.kind = "branch" /\ q.id = RootOf[r]
                 \/ \E q \in D : q.kind = "row" /\ q.id = r
    PROVE  \A r \in arg'[c] : ViewHolds(c, r)' /\ ViewFinds(c, r)'
<1>1. /\ want'[c] = D /\ arg'[c] = rows /\ pc'[c] = "view"
      /\ UNCHANGED <<writer, readers, target, slots, present>>
  BY DEF Enter, TypeOK, rowVars, lockVars
<1>2. Requests(c) /\ Targets(c) /\ Holds(c)
  BY DEF LockInv
<1>3. target'[c] = 0
  BY <1>1, <1>2 DEF Requests, WaitsAt, Targets
<1> SUFFICES ASSUME NEW r \in rows PROVE ViewHolds(c, r)' /\ ViewFinds(c, r)'
  BY <1>1
<1>4. c \notin readers'[FirstSlot(r)']
  <2>1. FirstSlot(r) \in AllLocks /\ FirstSlot(r)' = FirstSlot(r)
    BY FirstSlots DEF FirstSlot
  <2> QED BY <1>1, <1>2, <2>1 DEF Holds
<1>5. ViewHolds(c, r)'
  BY <1>1, <1>4 DEF ViewHolds, Waits
<1>6. ViewFinds(c, r)'
  BY <1>3 DEF ViewFinds
<1> QED BY <1>5, <1>6

\* A view's own steps.
LEMMA ViewsOwn ==
    ASSUME TypeOK, LockInv, SlotsTell, NeverReused, NEW c \in Client, Calls(c) \/ Runs(c),
           pc'[c] \in {"view", "viewing"},
           pc[c] \in {"view", "viewing"} => \A r \in arg[c] : ViewHolds(c, r) /\ ViewFinds(c, r)
    PROVE  \A r \in arg'[c] : ViewHolds(c, r)' /\ ViewFinds(c, r)'
<1>0. Requests(c) /\ Targets(c)
  BY DEF LockInv
<1>1. ASSUME NEW r \in Row, View(c, r) PROVE \A s \in arg'[c] : ViewHolds(c, s)' /\ ViewFinds(c, s)'
  <2>1. pc[c] = "idle"
    BY <1>1 DEF View, Start
  <2>2. CASE InGraph(r)
    <3> DEFINE D == {Graph(FALSE), Branch(r, FALSE)}
    <3>1. Enter(c, "view", Subtree(r), "view", D)
      BY <1>1, <2>2 DEF View
    <3>2. \A s \in Subtree(r) : RootOf[s] = RootOf[r] /\ InGraph(s)
      BY <2>2, EngineAssumption DEF Subtree, InGraph
    <3>3. \A q \in D : q.kind # "row"
      BY OneRequest
    <3>4. /\ \E q \in D : q.kind = "graph" /\ q.id = 0
          /\ \E q \in D : q.kind = "branch" /\ q.id = RootOf[r]
      BY OneRequest
    <3>5. Subtree(r) \in SUBSET Row
      BY SubtreeRows
    <3> HIDE DEF D
    <3> QED BY <2>1, <3>1, <3>2, <3>3, <3>4, <3>5, ViewsEnter
  <2>3. CASE ~InGraph(r)
    <3> DEFINE D == {RowLock(r, FALSE)}
    <3>1. Enter(c, "view", {r}, "view", D)
      BY <1>1, <2>3 DEF View
    <3>2. (\A q \in D : q.kind = "row" /\ q.id = r) /\ \E q \in D : TRUE
      BY OneRequest
    <3>3. {r} \in SUBSET Row
      OBVIOUS
    <3> HIDE DEF D
    <3> QED BY <2>1, <2>3, <3>1, <3>2, <3>3, ViewsEnter
  <2> QED BY <2>2, <2>3
<1>2. ASSUME NEW t \in Type, NEW rows \in SUBSET Row, ViewMany(c, t, rows)
      PROVE  \A s \in arg'[c] : ViewHolds(c, s)' /\ ViewFinds(c, s)'
  <2> DEFINE D == ViewManyLocks(t, rows)
  <2>1. pc[c] = "idle" /\ Enter(c, "view", rows, "view", D) /\ \A r \in rows : RowType[r] = t
    BY <1>2 DEF ViewMany, ViewManyLocks, Start
  <2>2. \A r \in rows : InGraph(r) => \E q \in D : q.kind = "graph" /\ q.id = 0
    <3> SUFFICES ASSUME NEW r \in rows, InGraph(r) PROVE \E q \in D : q.kind = "graph" /\ q.id = 0
      OBVIOUS
    <3>1. t \in Participants
      BY <2>1 DEF InGraph
    <3>2. Graph(FALSE) \in D
      BY <3>1 DEF ViewManyLocks
    <3> QED BY <3>2, OneRequest
  <2>3. \A r \in rows : \E q \in D : q.kind = "row" /\ q.id = r
    <3> SUFFICES ASSUME NEW r \in rows PROVE \E q \in D : q.kind = "row" /\ q.id = r
      OBVIOUS
    <3>1. RowLock(r, FALSE) \in D
      BY DEF ViewManyLocks
    <3> QED BY <3>1, OneRequest
  <2>4. \A q \in D : q.kind = "row" => q.id \in rows
    <3> SUFFICES ASSUME NEW q \in D, q.kind = "row" PROVE q.id \in rows
      OBVIOUS
    <3>1. q = Graph(FALSE) \/ q = Structure(t, FALSE) \/ \E r \in rows : q = RowLock(r, FALSE)
      BY DEF ViewManyLocks
    <3>2. q # Graph(FALSE) /\ q # Structure(t, FALSE)
      BY OneRequest
    <3>3. PICK r \in rows : q = RowLock(r, FALSE)
      BY <3>1, <3>2
    <3>4. RowLock(r, FALSE).id = r
      BY DEF RowLock
    <3> QED BY <3>3, <3>4
  <2> HIDE DEF D
  <2> QED BY <2>1, <2>2, <2>3, <2>4, ViewsEnter
<1>3. ASSUME Lookup(c) \/ Announce(c) \/ Acquire(c), pc' = pc, arg' = arg, NEW r \in arg[c]
      PROVE  ViewHolds(c, r)' /\ ViewFinds(c, r)'
  <2>1. ViewHolds(c, r) /\ ViewFinds(c, r) /\ pc'[c] = pc[c] /\ UNCHANGED <<present, slots>> /\ r \in Row
    BY <1>3 DEF Lookup, Announce, Acquire, rowVars, TypeOK
  <2>2. FirstSlot(r)' = FirstSlot(r) /\ BranchMu(r)' = BranchMu(r) /\ FirstSlot(r) \in AllLocks
    BY <2>1, FirstSlots DEF FirstSlot, BranchMu
  <2>3. CASE Lookup(c)
    <3>1. PICK q \in want[c] :
             \/ q.id \in present /\ want' = want
             \/ q.kind = "row" /\ q.excl /\ want' = [want EXCEPT ![c] = @ \ {q}]
             \/ pc' = [pc EXCEPT ![c] = "release"]
      BY <2>3 DEF Lookup
    <3>2. pc' # [pc EXCEPT ![c] = "release"]
      BY DEF TypeOK
    <3>3. ~q.excl
      BY <1>0, <1>3 DEF Requests, WaitsAt
    <3>4. want' = want
      BY <3>1, <3>2, <3>3
    <3>5. UNCHANGED <<writer, readers>>
      BY <2>3 DEF Lookup, lockVars
    <3>6. \A k, i : Waits(c, k, i)' <=> Waits(c, k, i)
      BY <3>4 DEF Waits
    <3>7. ViewHolds(c, r)'
      BY <2>1, <2>2, <3>5, <3>6 DEF ViewHolds
    <3>8. PICK p \in want[c] : IsNext(c, p) /\ (target' # target => p.id \in present)
      BY <2>3 DEF Lookup
    <3>9. \A s \in want[c] : IsNext(c, s) => s = p
      BY <1>0, <3>8, OneNext DEF Requests
    <3>10. \A s \in want[c] : IsNext(c, s)' <=> IsNext(c, s)
      BY <3>4 DEF IsNext
    <3>11. ViewFinds(c, r)'
      BY <2>1, <2>2, <3>4, <3>5, <3>8, <3>9, <3>10 DEF ViewFinds, SlotsTell
    <3> QED BY <3>7, <3>11
  <2>4. CASE Announce(c)
    <3>1. PICK q \in want[c] : q.excl
      BY <2>4 DEF Announce
    <3> QED BY <1>0, <1>3, <3>1 DEF Requests, WaitsAt
  <2>5. CASE Acquire(c)
    <3>1. PICK q \in want[c] :
              /\ q \in Proper /\ WaitsAt(pc[c], q) /\ IsNext(c, q)
              /\ InSlot(q) => target[c] # 0
              /\ ~q.excl => c \in readers'[LockOf(c, q)] /\ writer[LockOf(c, q)] = NoClient
              /\ want'[c] = want[c] \ {q}
      BY <2>5, Granted
    <3>2. c \in readers'[LockOf(c, q)] /\ writer[LockOf(c, q)] = NoClient
      BY <1>3, <3>1 DEF WaitsAt
    <3>3. target'[c] = 0
      BY <2>5 DEF Acquire, TypeOK
    <3>4. ViewFinds(c, r)'
      BY <3>3 DEF ViewFinds
    <3>5. \A k, i : Waits(c, k, i) => Waits(c, k, i)' \/ (q.kind = k /\ q.id = i)
      BY <3>1 DEF Waits
    <3>6. /\ q.kind = "graph" => LockOf(c, q) = GraphMu
          /\ q.kind = "branch" /\ q.id = RootOf[r] => LockOf(c, q) = BranchMu(r)
      BY <3>1 DEF LockOf, InSlot, GraphMu, BranchMu, Proper
    <3>7. q.kind = "row" => LockOf(c, q) = FirstSlot(q.id) /\ target[c] # 0
      BY <1>0, <3>1, FirstGranted DEF InSlot
    <3>8. \A l \in AllLocks : c \in readers[l] => c \in readers'[l]
      BY <2>5, LocksKept DEF Acquire, Release
    <3>9. GraphMu \in AllLocks /\ BranchMu(r) \in AllLocks
      BY <2>1, LockNames, Names DEF BranchMu
    <3>10. c \in readers'[FirstSlot(r)] => c \in readers[FirstSlot(r)] \/ (q.kind = "row" /\ q.id = r)
      <4>1. readers' = readers \/ \E p \in want[c] :
               /\ Ready(c, p) /\ want' = [want EXCEPT ![c] = @ \ {p}]
               /\ readers' = [readers EXCEPT ![LockOf(c, p)] = @ \cup {c}]
        BY <2>5 DEF Acquire
      <4>2. ASSUME NEW p \in want[c], Ready(c, p), readers' = [readers EXCEPT ![LockOf(c, p)] = @ \cup {c}]
            PROVE  c \in readers'[FirstSlot(r)] => c \in readers[FirstSlot(r)] \/ (q.kind = "row" /\ q.id = r)
        <5>1. p = q
          BY <1>0, <3>1, <4>2, OneNext DEF Requests, Ready
        <5>2. LockOf(c, q) = FirstSlot(r) => q.kind = "row" /\ q.id = r
          BY DEF LockOf, FirstSlot
        <5>3. readers'[FirstSlot(r)] = readers[FirstSlot(r)] \/ LockOf(c, q) = FirstSlot(r)
          BY <2>2, <4>2, <5>1 DEF TypeOK
        <5> QED BY <5>2, <5>3
      <4> QED BY <4>1, <4>2
    <3>11. q.kind = "row" /\ q.id = r => r \in present
      BY <2>1, <3>1, <3>2, <3>7 DEF ViewFinds
    <3>12. ViewHolds(c, r)'
      <4>1. InGraph(r) => Waits(c, "graph", 0)' \/ c \in readers'[GraphMu]
        BY <2>1, <3>2, <3>5, <3>6, <3>8, <3>9 DEF ViewHolds
      <4>2. \/ InGraph(r) /\ (Waits(c, "branch", RootOf[r])' \/ c \in readers'[BranchMu(r)])
            \/ Waits(c, "row", r)'
            \/ c \in readers'[FirstSlot(r)]
        BY <2>1, <2>2, <3>2, <3>5, <3>6, <3>7, <3>8, <3>9 DEF ViewHolds
      <4>3. pc[c] = "viewing" \/ c \in readers'[FirstSlot(r)] => r \in present
        BY <2>1, <3>10, <3>11 DEF ViewHolds
      <4> QED BY <2>1, <2>2, <4>1, <4>2, <4>3 DEF ViewHolds
    <3> QED BY <3>4, <3>12
  <2> QED BY <1>3, <2>3, <2>4, <2>5
<1>4. CASE BeginView(c)
  <2>1. /\ pc[c] = "view" /\ want[c] = {} /\ want'[c] = {}
        /\ UNCHANGED <<arg, present, slots, writer, readers, target>>
    BY <1>4 DEF BeginView, rowVars, lockVars, opVars
  <2>2. pc'[c] = (IF \E r \in arg[c] : InGraph(r) /\ r \notin present THEN "release" ELSE "viewing")
    BY <1>4 DEF BeginView, TypeOK
  <2>3. \A r \in arg[c] : InGraph(r) => r \in present
    BY <2>2
  <2> SUFFICES ASSUME NEW r \in arg[c] PROVE ViewHolds(c, r)' /\ ViewFinds(c, r)'
    BY <2>1
  <2>4. ViewHolds(c, r) /\ \A k, i : ~Waits(c, k, i)
    BY <2>1 DEF Waits
  <2>5. r \in present
    BY <2>3, <2>4 DEF ViewHolds
  <2>6. FirstSlot(r)' = FirstSlot(r) /\ BranchMu(r)' = BranchMu(r)
    BY DEF FirstSlot, BranchMu
  <2>7. ViewHolds(c, r)'
    BY <2>1, <2>4, <2>5, <2>6 DEF ViewHolds
  <2> QED BY <2>1, <2>7 DEF ViewFinds
<1> QED BY <1>1, <1>2, <1>3, <1>4, Viewing

\* The locks of views are an invariant.
LEMMA ViewsInvariant == Spec /\ []NeverReused => []ViewsInv
<1>1. Init => ViewsInv
  BY DEF Init, ViewsInv
<1>2. /\ TypeOK /\ LockInv /\ ExclusionInv /\ SlotsTell /\ RowsInv /\ NeverReused /\ NeverReused'
      /\ ViewsInv /\ [Next]_vars
      => ViewsInv'
  <2> SUFFICES ASSUME TypeOK, LockInv, ExclusionInv, SlotsTell, RowsInv, NeverReused, NeverReused',
                      ViewsInv, [Next]_vars
               PROVE  ViewsInv'
    OBVIOUS
  <2>1. CASE UNCHANGED vars
    <3>1. UNCHANGED <<pc, arg, want, target, slots, present, writer, readers>>
      BY <2>1 DEF vars, rowVars, lockVars, opVars
    <3>2. \A c, r : (ViewHolds(c, r)' <=> ViewHolds(c, r)) /\ (ViewFinds(c, r)' <=> ViewFinds(c, r))
      BY <3>1 DEF ViewHolds, ViewFinds, Waits, IsNext, FirstSlot, BranchMu
    <3> QED BY <3>1, <3>2 DEF ViewsInv
  <2>2. ASSUME NEW d \in Client, Calls(d) \/ Runs(d), NEW c \in Client, pc'[c] \in {"view", "viewing"}
        PROVE  \A r \in arg'[c] : ViewHolds(c, r)' /\ ViewFinds(c, r)'
    <3>1. CASE c = d
      BY <2>2, <3>1, ViewsOwn DEF ViewsInv
    <3>2. CASE c # d
      <4>1. pc'[c] = pc[c] /\ arg'[c] = arg[c] /\ arg[c] \subseteq Row
        BY <2>2, <3>2, OthersSame DEF Same, TypeOK
      <4> QED BY <2>2, <3>2, <4>1, ViewsOthers DEF ViewsInv
    <3> QED BY <3>1, <3>2
  <2> QED BY <2>1, <2>2 DEF Next, ViewsInv
<1> QED BY <1>1, <1>2, TypeCorrect, LockInvariant, ExclusionInvariant, SlotsInvariant, RowsInvariant, PTL DEF Spec

\* The rows of a View, ViewMany or ViewRange neither change nor disappear while the
\* callback runs, in every behaviour in which no id is created twice: what a commit
\* has to lock to write or delete them, by cascade too, meets what the view holds.
THEOREM StableViews == Spec /\ []NeverReused => ViewsAreStable
<1>1. ASSUME TypeOK, LockInv, ExclusionInv, RowsInv, ViewsInv, [Next]_vars,
             NEW c \in Client, pc[c] = "viewing", NEW r \in arg[c]
      PROVE  val[r]' = val[r] /\ (r \in present)' = (r \in present)
  <2>1. CASE UNCHANGED <<present, val>>
    BY <2>1
  <2>2. ASSUME NEW d \in Client, Publish(d) PROVE val[r]' = val[r] /\ r \in present' /\ r \in present
    <3>1. c # d /\ pc[d] = "publish"
      BY <1>1, <2>2 DEF Publish
    <3>2. ViewHolds(c, r) /\ r \in Row /\ want[c] = {}
      BY <1>1, GraphGranted DEF ViewsInv, TypeOK
    <3>3. /\ r \in present /\ (InGraph(r) => c \in readers[GraphMu])
          /\ (InGraph(r) /\ c \in readers[BranchMu(r)]) \/ c \in readers[FirstSlot(r)]
      BY <1>1, <3>2 DEF ViewHolds, Waits
    <3>4. r \notin Touched(d) /\ r \notin Created(d) /\ r \notin Doomed(d)
      BY <1>1, <3>1, <3>2, <3>3, PublisherLocks DEF Owns
    <3> QED BY <1>1, <2>2, <3>2, <3>3, <3>4, Published
  <2>3. CASE UNCHANGED vars
    BY <2>1, <2>3 DEF vars, rowVars
  <2>4. ASSUME NEW d \in Client, Calls(d) \/ Runs(d), ~Publish(d) PROVE UNCHANGED <<present, val>>
    BY <2>4, RowsChange DEF rowVars
  <2> QED BY <1>1, <2>1, <2>2, <2>3, <2>4 DEF Next
<1>2. TypeOK /\ LockInv /\ ExclusionInv /\ RowsInv /\ ViewsInv /\ [Next]_vars =>
        [\A c \in Client : pc[c] = "viewing" =>
          \A r \in arg[c] : val[r]' = val[r] /\ (r \in present)' = (r \in present)]_vars
  BY <1>1
<1> QED BY <1>2, TypeCorrect, LockInvariant, ExclusionInvariant, RowsInvariant, ViewsInvariant, PTL
        DEF Spec, ViewsAreStable

----------------------------------------------------------------------------
(* Unlocking by id *)

\* Only rows of related types are created.
CreatesAreRelated == \A c \in Client : \A r \in Created(c) : InGraph(r)

\* Every row that c will unlock by id and that is there is awaited, or held by the
\* slot that its id leads to.
SlotsMatch(c) ==
    /\ \A r \in asked[c] \cap present : Waits(c, "row", r) \/ writer[SlotLock(r)] = c
    /\ \A q \in want[c] : IsNext(c, q) /\ q.kind = "row" /\ q.excl /\ target[c] # 0 /\ q.id \in present =>
          target[c] = slots[q.id]

\* While c has related rows to unlock by id it holds graphMu, or waits for graphMu
\* and for all of the rows.
GraphCovers(c) ==
    /\ (\E r \in asked[c] : InGraph(r)) => Waits(c, "graph", 0) \/ Owns(c, GraphMu) \/ c \in readers[GraphMu]
    /\ Waits(c, "graph", 0) => \A r \in asked[c] : Waits(c, "row", r)
    /\ pc[c] \in {"commit", "publish"} => asked[c] \subseteq LockedRows(c)

UnlockInv == \A c \in Client : SlotsMatch(c) /\ GraphCovers(c)

\* The mutexes of slots in use are mutexes.
LEMMA SlotLocks ==
    ASSUME TypeOK, SlotsTell, NEW r \in present
    PROVE  r \in Row /\ SlotLock(r) \in AllLocks /\ SlotLock(r).kind = "row" /\ SlotLock(r).id = r
<1>1. r \in Row /\ slots[r] \in 1 .. MaxSlots
  BY EngineAssumption DEF TypeOK, SlotsTell
<1> QED BY <1>1, LockNames DEF SlotLock

\* Another goroutine's step.
LEMMA UnlockOthers ==
    ASSUME TypeOK, LockInv, ExclusionInv, SlotsTell, CreatesAreRelated,
           NEW d \in Client, Calls(d) \/ Runs(d), NEW c \in Client, c # d, SlotsMatch(c), GraphCovers(c)
    PROVE  SlotsMatch(c)' /\ GraphCovers(c)'
<1>1. /\ pc'[c] = pc[c] /\ want'[c] = want[c] /\ target'[c] = target[c] /\ asked'[c] = asked[c]
      /\ LockedRows(c)' = LockedRows(c)
  BY OthersSame, SameSets DEF Same
<1>2. \A k, i : Waits(c, k, i)' <=> Waits(c, k, i)
  BY <1>1 DEF Waits
<1>3. \A q \in want[c] : IsNext(c, q)' <=> IsNext(c, q)
  BY <1>1 DEF IsNext
<1>4. GraphMu \in AllLocks
  BY LockNames
<1>5. GraphCovers(c)'
  <2>1. /\ Owns(c, GraphMu) => Owns(c, GraphMu)'
        /\ c \in readers[GraphMu] => c \in readers'[GraphMu]
    BY <1>4, LocksKept DEF Owns
  <2> QED BY <1>1, <1>2, <2>1 DEF GraphCovers
<1>6. ASSUME NEW r \in present', r \in asked[c]
      PROVE  \/ r \in present /\ slots'[r] = slots[r]
             \/ Waits(c, "graph", 0)
  <2>1. CASE ~Publish(d)
    BY <1>6, <2>1, RowsChange DEF rowVars
  <2>2. CASE Publish(d) /\ r \notin Created(d)
    BY <1>6, <2>2, Published DEF TypeOK
  <2>3. CASE Publish(d) /\ r \in Created(d)
    <3>1. InGraph(r) /\ Reshapes(d)
      BY <2>3 DEF CreatesAreRelated, Reshapes, Structural
    <3>2. Owns(d, GraphMu)
      BY <2>3, <3>1, WaitsLater DEF LockInv, ExclusionInv, Excludes, Publish
    <3> QED BY <1>6, <3>1, <3>2 DEF GraphCovers, Owns
  <2> QED BY <2>1, <2>2, <2>3
<1>7. SlotsMatch(c)'
  <2>1. ASSUME NEW r \in asked[c] \cap present' PROVE Waits(c, "row", r) \/ writer'[SlotLock(r)'] = c
    <3>1. CASE Waits(c, "graph", 0)
      BY <2>1, <3>1 DEF GraphCovers
    <3>2. CASE r \in present /\ slots'[r] = slots[r]
      <4>1. SlotLock(r)' = SlotLock(r) /\ SlotLock(r) \in AllLocks
        BY <3>2, SlotLocks DEF SlotLock
      <4>2. writer[SlotLock(r)] = c => writer'[SlotLock(r)] = c
        BY <4>1, LocksKept
      <4> QED BY <2>1, <3>2, <4>1, <4>2 DEF SlotsMatch
    <3> QED BY <1>6, <2>1, <3>1, <3>2
  <2>2. ASSUME NEW q \in want[c], IsNext(c, q), q.kind = "row", q.excl, target[c] # 0, q.id \in present'
        PROVE  target[c] = slots'[q.id]
    <3>1. q.id \in asked[c] /\ q.id \in Row
      BY <2>2 DEF LockInv, Requests, Proper
    <3>2. ~Waits(c, "graph", 0)
      BY <2>2, <3>1, GraphGranted
    <3> QED BY <1>6, <2>2, <3>1, <3>2 DEF SlotsMatch
  <2> QED BY <1>1, <1>2, <1>3, <2>1, <2>2 DEF SlotsMatch
<1> QED BY <1>5, <1>7

\* A goroutine asks for rows by id.
LEMMA UnlockAsks ==
    ASSUME TypeOK, NEW c \in Client, target'[c] = 0, \A r \in asked'[c] : Waits(c, "row", r)',
           (\E r \in asked'[c] : InGraph(r)) => Waits(c, "graph", 0)' \/ Owns(c, GraphMu)' \/ c \in readers'[GraphMu],
           pc'[c] \in {"commit", "publish"} => asked'[c] \subseteq LockedRows(c)'
    PROVE  SlotsMatch(c)' /\ GraphCovers(c)'
BY DEF SlotsMatch, GraphCovers

\* The steps of cloneOwnershipAggregate and getDetachedRoot that name rows.
LEMMA UnlockClones ==
    ASSUME TypeOK, LockInv, NEW c \in Client, NEW r \in Row,
           pc[c] \in {"idle", "open", "retry"} \/ (pc[c] = "within" /\ want[c] = {}), pc'[c] = "load", target' = target,
           \/ /\ want'[c] = CloneLocks(r)
              /\ asked'[c] = {s \in Row : RowLock(s, TRUE) \in CloneLocks(r)}
           \/ /\ want'[c] = DetachedLocks(r)
              /\ asked'[c] = {s \in Row : RowLock(s, TRUE) \in DetachedLocks(r)}
    PROVE  SlotsMatch(c)' /\ GraphCovers(c)'
<1>1. target'[c] = 0
  BY DEF LockInv, Requests, WaitsAt, Targets
<1>2. \A s \in asked'[c] : Waits(c, "row", s)'
  <2> SUFFICES ASSUME NEW s \in asked'[c] PROVE Waits(c, "row", s)'
    OBVIOUS
  <2>1. RowLock(s, TRUE) \in want'[c]
    OBVIOUS
  <2>2. RowLock(s, TRUE).kind = "row" /\ RowLock(s, TRUE).id = s
    BY DEF RowLock
  <2> QED BY <2>1, <2>2 DEF Waits
<1>3. asked'[c] # {} => Waits(c, "graph", 0)'
  <2>1. Graph(FALSE) \in CloneLocks(r)
    BY DEF CloneLocks
  <2>2. Subtree(r) = {r} => \A s \in Row : RowLock(s, TRUE) \notin DetachedLocks(r)
    <3> SUFFICES ASSUME Subtree(r) = {r}, NEW s \in Row, RowLock(s, TRUE) \in DetachedLocks(r) PROVE FALSE
      OBVIOUS
    <3>1. RowLock(s, TRUE) = Graph(FALSE) \/ RowLock(s, TRUE) = RowLock(r, FALSE)
      BY DEF DetachedLocks
    <3> QED BY <3>1 DEF RowLock, Graph
  <2>3. Subtree(r) # {r} => DetachedLocks(r) = CloneLocks(r)
    BY DEF DetachedLocks
  <2>4. asked'[c] # {} => Graph(FALSE) \in want'[c]
    BY <2>1, <2>2, <2>3
  <2> QED BY <2>4, OneRequest DEF Waits
<1> QED BY <1>1, <1>2, <1>3, UnlockAsks

\* A goroutine's own calls.
LEMMA UnlockCalls ==
    ASSUME TypeOK, LockInv, LockInv', NEW c \in Client, Calls(c), SlotsMatch(c), GraphCovers(c)
    PROVE  SlotsMatch(c)' /\ GraphCovers(c)'
<1> USE DEF rowVars, lockVars, txVars, opVars
<1>0. /\ pc \in [Client -> Places] /\ want \in [Client -> SUBSET Request] /\ asked \in [Client -> SUBSET Row]
  BY DEF TypeOK
<1>1. CASE asked'[c] = {}
  BY <1>1 DEF LockInv, Requests, SlotsMatch, GraphCovers
<1>2. CASE pc'[c] \notin {"load", "commit", "publish", "release"}
  BY <1>1, <1>2 DEF LockInv, Requests
<1>3. ASSUME NEW p \in {"open", "within", "view", "changes", "stage"}, pc' = [pc EXCEPT ![c] = p]
      PROVE  SlotsMatch(c)' /\ GraphCovers(c)'
  BY <1>0, <1>2, <1>3
<1>4. CASE Begin(c)
  BY <1>3, <1>4 DEF Begin, Enter
<1>5. ASSUME NEW r \in Row, UpdateWithin(c, r) \/ View(c, r) PROVE SlotsMatch(c)' /\ GraphCovers(c)'
  BY <1>3, <1>5 DEF UpdateWithin, View, Enter
<1>6. ASSUME NEW t \in Type, NEW rows \in SUBSET Row, ViewMany(c, t, rows) PROVE SlotsMatch(c)' /\ GraphCovers(c)'
  BY <1>3, <1>6 DEF ViewMany, Enter
<1>7. ASSUME NEW r \in Row, Get(c, r) PROVE SlotsMatch(c)' /\ GraphCovers(c)'
  <2> DEFINE D == DetachedLocks(r)
             A == {s \in Row : RowLock(s, TRUE) \in D}
  <2>1. /\ want' = [want EXCEPT ![c] = D] /\ asked' = [asked EXCEPT ![c] = A]
        /\ pc' = [pc EXCEPT ![c] = "load"] /\ pc[c] = "idle" /\ target' = target
    BY <1>7 DEF Get, Start
  <2> HIDE DEF A, D
  <2>2. want'[c] = D /\ asked'[c] = A /\ pc'[c] = "load"
    BY <1>0, <2>1
  <2> QED BY <2>1, <2>2, UnlockClones DEF A, D
<1>8. ASSUME NEW r \in Row, TxGet(c, r) PROVE SlotsMatch(c)' /\ GraphCovers(c)'
  <2> DEFINE D == CloneLocks(r)
             A == {s \in Row : RowLock(s, TRUE) \in D}
  <2>1. /\ want' = [want EXCEPT ![c] = D] /\ asked' = [asked EXCEPT ![c] = A]
        /\ pc' = [pc EXCEPT ![c] = "load"] /\ pc[c] = "open" /\ target' = target
    BY <1>8 DEF TxGet, InCallback, Locking
  <2> HIDE DEF A, D
  <2>2. want'[c] = D /\ asked'[c] = A /\ pc'[c] = "load"
    BY <1>0, <2>1
  <2> QED BY <2>1, <2>2, UnlockClones DEF A, D
<1>9. ASSUME NEW r \in Row, TxDelete(c, r) PROVE SlotsMatch(c)' /\ GraphCovers(c)'
  BY <1>3, <1>9 DEF TxDelete, Locking
<1>10. ASSUME NEW r \in Row, TxDeleteCreated(c, r) \/ \E v \in Value : TxCreate(c, r, v)
       PROVE  SlotsMatch(c)' /\ GraphCovers(c)'
  BY <1>2, <1>10 DEF TxDeleteCreated, TxCreate, InCallback
<1>11. ASSUME NEW w \in [Row -> Value \cup {Nothing}], Commit(c, w) PROVE SlotsMatch(c)' /\ GraphCovers(c)'
  BY <1>3, <1>11 DEF Commit
<1>12. CASE Abort(c)
  BY <1>1, <1>12 DEF Abort, LockInv, Requests
<1> QED BY <1>4, <1>5, <1>6, <1>7, <1>8, <1>9, <1>10, <1>11, <1>12 DEF Calls

\* A goroutine looks slots up, waits and is granted mutexes.
LEMMA UnlockWaits ==
    ASSUME TypeOK, LockInv, LockInv', SlotsTell, NEW c \in Client, Lookup(c) \/ Announce(c) \/ Acquire(c),
           SlotsMatch(c), GraphCovers(c)
    PROVE  SlotsMatch(c)' /\ GraphCovers(c)'
<1>0. UNCHANGED <<present, slots, asked, snap, news, dels>>
  BY DEF Lookup, Announce, Acquire, rowVars, txVars
<1>1. CASE asked'[c] = {}
  BY <1>1 DEF LockInv, Requests, SlotsMatch, GraphCovers
<1>2. LockedRows(c)' = LockedRows(c) /\ \A r : SlotLock(r)' = SlotLock(r)
  BY <1>0, SameSets DEF SlotLock
<1>5. Requests(c)
  BY DEF LockInv
<1>3. /\ \A l \in AllLocks : (writer[l] = c => writer'[l] = c) /\ (c \in readers[l] => c \in readers'[l])
                             /\ (Owns(c, l) => writer'[l] = c /\ readers'[l] = {})
      /\ GraphMu \in AllLocks /\ \A r \in present : SlotLock(r) \in AllLocks
  <2>1. ~Release(c)
    <3>1. \E q \in want[c] : TRUE
      BY DEF Lookup, Announce, Acquire
    <3>2. pc[c] = "release" => want[c] = {}
      BY <1>5 DEF Requests, WaitsAt
    <3> QED BY <3>1, <3>2 DEF Release
  <2> QED BY <2>1, LocksKept, LockNames, SlotLocks DEF Runs
<1>4. Owns(c, GraphMu) => Owns(c, GraphMu)'
  BY <1>3 DEF Owns
<1>6. CASE Lookup(c)
  <2>1. PICK q \in want[c] :
           /\ IsNext(c, q) /\ InSlot(q)
           /\ \/ q.id \in present /\ target' = [target EXCEPT ![c] = slots[q.id]] /\ UNCHANGED <<want, pc>>
              \/ /\ q.id \notin present /\ q.kind = "row"
                 /\ want' = [want EXCEPT ![c] = @ \ {q}] /\ UNCHANGED <<target, pc>>
              \/ ~(q.kind = "row" /\ q.excl)
    BY <1>6 DEF Lookup
  <2>2. CASE q.id \in present /\ target' = [target EXCEPT ![c] = slots[q.id]] /\ UNCHANGED <<want, pc>>
    <3>1. target'[c] = slots[q.id]
      BY <2>2 DEF TypeOK
    <3>2. \A p \in want[c] : (IsNext(c, p)' <=> IsNext(c, p)) /\ (IsNext(c, p) => p = q)
      BY <1>5, <2>1, <2>2, OneNext DEF IsNext, Requests
    <3>3. \A k, i : Waits(c, k, i)' <=> Waits(c, k, i)
      BY <2>2 DEF Waits
    <3>4. SlotsMatch(c)'
      BY <1>0, <1>2, <1>3, <2>2, <3>1, <3>2, <3>3 DEF SlotsMatch
    <3> QED BY <1>0, <1>2, <1>3, <1>4, <2>2, <3>3, <3>4 DEF GraphCovers
  <2>3. CASE /\ q.id \notin present /\ q.kind = "row"
             /\ want' = [want EXCEPT ![c] = @ \ {q}] /\ UNCHANGED <<target, pc>>
    <3>1. want'[c] = want[c] \ {q}
      BY <2>3 DEF TypeOK
    <3>2. \A k, i : Waits(c, k, i) => Waits(c, k, i)' \/ (k = "row" /\ i = q.id)
      BY <2>3, <3>1 DEF Waits
    <3>3. ~Waits(c, "graph", 0) /\ ~Waits(c, "graph", 0)'
      <4>1. q.id \in Row
        BY <1>5, <2>3 DEF Requests, Proper
      <4>2. ~Waits(c, "graph", 0)
        BY <2>1, <2>3, <4>1, GraphGranted
      <4> QED BY <3>1, <4>2 DEF Waits
    <3>4. target'[c] = 0
      BY <1>6, <2>3 DEF Lookup
    <3>5. SlotsMatch(c)'
      BY <1>0, <1>2, <1>3, <2>3, <3>2, <3>4 DEF SlotsMatch
    <3> QED BY <1>0, <1>2, <1>3, <1>4, <2>3, <3>2, <3>3, <3>5 DEF GraphCovers
  <2>4. CASE ~(q.kind = "row" /\ q.excl)
    <3>1. asked[c] = {}
      BY <1>5, <2>1, <2>4 DEF Requests, WaitsAt, InSlot
    <3> QED BY <1>0, <1>1, <3>1
  <2> QED BY <2>1, <2>2, <2>3, <2>4
<1>7. CASE Announce(c)
  <2>1. UNCHANGED <<want, target, pc>>
    BY <1>7 DEF Announce
  <2>2. \A k, i : Waits(c, k, i)' <=> Waits(c, k, i)
    BY <2>1 DEF Waits
  <2>3. \A p \in want[c] : IsNext(c, p)' <=> IsNext(c, p)
    BY <2>1 DEF IsNext
  <2>4. SlotsMatch(c)'
    BY <1>0, <1>2, <1>3, <2>1, <2>2, <2>3 DEF SlotsMatch
  <2> QED BY <1>0, <1>2, <1>3, <1>4, <2>1, <2>2, <2>4 DEF GraphCovers
<1>8. CASE Acquire(c)
  <2>1. PICK q \in want[c] :
            /\ q \in Proper /\ WaitsAt(pc[c], q) /\ IsNext(c, q) /\ (InSlot(q) => target[c] # 0)
            /\ q.excl => writer'[LockOf(c, q)] = c /\ readers'[LockOf(c, q)] = {}
            /\ ~q.excl => c \in readers'[LockOf(c, q)]
            /\ want'[c] = want[c] \ {q}
    BY <1>8, Granted
  <2>2. target'[c] = 0 /\ pc' = pc
    BY <1>8 DEF Acquire, TypeOK
  <2>3. \A k, i : Waits(c, k, i) => Waits(c, k, i)' \/ (k = q.kind /\ i = q.id)
    BY <2>1 DEF Waits
  <2>4. Waits(c, "graph", 0)' => Waits(c, "graph", 0) /\ q.kind # "row"
    <3>1. Waits(c, "graph", 0)' => Waits(c, "graph", 0)
      BY <2>1 DEF Waits
    <3>2. q.kind = "row" => ~Waits(c, "graph", 0)
      BY <2>1, GraphGranted DEF Proper
    <3> QED BY <3>1, <3>2
  <2>5. q.kind = "row" /\ q.id \in asked[c] => q.excl
    BY <1>5, <2>1 DEF Requests
  <2>6. q.kind = "row" /\ q.excl /\ q.id \in present => writer'[SlotLock(q.id)] = c
    <3>1. q.kind = "row" /\ q.excl /\ q.id \in present => LockOf(c, q) = SlotLock(q.id)
      BY <2>1 DEF SlotsMatch, LockOf, SlotLock, InSlot
    <3> QED BY <2>1, <3>1
  <2>7. q.kind = "graph" => (writer'[GraphMu] = c /\ readers'[GraphMu] = {}) \/ c \in readers'[GraphMu]
    <3>1. q.kind = "graph" => LockOf(c, q) = GraphMu
      BY <2>1 DEF LockOf, InSlot, GraphMu, Proper
    <3> QED BY <2>1, <3>1
  <2>8. SlotsMatch(c)'
    <3>1. \A r \in asked[c] \cap present : Waits(c, "row", r)' \/ writer'[SlotLock(r)] = c
      BY <1>3, <2>3, <2>5, <2>6 DEF SlotsMatch
    <3> QED BY <1>0, <1>2, <2>2, <3>1 DEF SlotsMatch
  <2>9. GraphCovers(c)'
    <3>1. (\E r \in asked[c] : InGraph(r)) => Waits(c, "graph", 0)' \/ Owns(c, GraphMu)' \/ c \in readers'[GraphMu]
      BY <1>3, <1>4, <2>3, <2>7 DEF GraphCovers, Owns
    <3>2. Waits(c, "graph", 0)' => \A r \in asked[c] : Waits(c, "row", r)'
      BY <2>3, <2>4 DEF GraphCovers
    <3> QED BY <1>0, <1>2, <2>2, <3>1, <3>2 DEF GraphCovers
  <2> QED BY <2>8, <2>9
<1> QED BY <1>6, <1>7, <1>8

\* The rest of the library's own steps.
LEMMA UnlockRuns ==
    ASSUME TypeOK, LockInv, LockInv', ExclusionInv, SlotsTell, NEW c \in Client, Runs(c),
           SlotsMatch(c), GraphCovers(c)
    PROVE  SlotsMatch(c)' /\ GraphCovers(c)'
<1> USE DEF rowVars, lockVars, txVars, opVars
<1>0. /\ pc \in [Client -> Places] /\ want \in [Client -> SUBSET Request] /\ asked \in [Client -> SUBSET Row]
      /\ target \in [Client -> 0 .. MaxSlots]
  BY DEF TypeOK
<1>1. Requests(c) /\ Targets(c) /\ Requests(c)'
  BY DEF LockInv
<1>2. CASE asked'[c] = {}
  BY <1>1, <1>2 DEF Requests, SlotsMatch, GraphCovers
<1>3. CASE Release(c)
  <2>1. asked'[c] = {}
    BY <1>0, <1>3 DEF Release
  <2> QED BY <1>2, <2>1
<1>4. CASE Attempt(c)
  <2>1. PICK r \in arg[c] : Locking(c, "load", {r}, CloneLocks(r))
    BY <1>4 DEF Attempt
  <2>2. r \in Row
    BY DEF TypeOK
  <2> DEFINE D == CloneLocks(r)
             A == {s \in Row : RowLock(s, TRUE) \in D}
  <2>3. /\ want' = [want EXCEPT ![c] = D] /\ asked' = [asked EXCEPT ![c] = A]
        /\ pc' = [pc EXCEPT ![c] = "load"] /\ target' = target
        /\ pc[c] = "retry" \/ (pc[c] = "within" /\ want[c] = {})
    BY <1>4, <2>1 DEF Attempt, Locking
  <2> HIDE DEF A, D
  <2>4. want'[c] = D /\ asked'[c] = A /\ pc'[c] = "load"
    BY <1>0, <2>3
  <2> QED BY <2>2, <2>3, <2>4, UnlockClones DEF A, D
<1>5. CASE BeginView(c) \/ EndView(c) \/ StageDelete(c) \/ Changes(c)
  <2>1. pc[c] \in {"view", "viewing", "stage", "changes"} /\ asked' = asked
    BY <1>5 DEF BeginView, EndView, StageDelete, Changes
  <2> QED BY <1>1, <1>2, <2>1 DEF Requests
<1>6. CASE Snap(c) \/ Conflict(c) \/ Reject(c)
  <2>1. want[c] = {} /\ UNCHANGED <<asked, want, target, writer, readers, present, slots>>
    BY <1>6 DEF Snap, Conflict, Reject
  <2>2. pc' = [pc EXCEPT ![c] = "release"]
    BY <1>6 DEF Snap, Conflict, Reject, Refuse
  <2>3. pc'[c] = "release"
    BY <1>0, <2>2
  <2>4. \A k, i : ~Waits(c, k, i) /\ ~Waits(c, k, i)'
    BY <2>1 DEF Waits
  <2> QED BY <2>1, <2>3, <2>4 DEF SlotsMatch, GraphCovers, SlotLock, Owns
<1>7. CASE Log(c)
  <2>1. /\ want[c] = {} /\ pc[c] = "commit"
        /\ UNCHANGED <<asked, want, target, writer, readers, present, slots, snap, news, dels>>
    BY <1>7 DEF Log
  <2>2. \A k, i : ~Waits(c, k, i) /\ ~Waits(c, k, i)'
    BY <2>1 DEF Waits
  <2>3. LockedRows(c)' = LockedRows(c)
    BY <2>1, SameSets
  <2> QED BY <2>1, <2>2, <2>3 DEF SlotsMatch, GraphCovers, SlotLock, Owns
<1>8. CASE Prepare(c)
  <2>1. pc[c] = "prepare" /\ want[c] = {} /\ UNCHANGED <<writer, readers, target, present, slots>>
    BY <1>8 DEF Prepare
  <2>2. \/ asked' = asked
        \/ /\ pc' = [pc EXCEPT ![c] = "commit"] /\ want' = [want EXCEPT ![c] = RowLocks(c)]
           /\ asked' = [asked EXCEPT ![c] = LockedRows(c)] /\ UNCHANGED <<snap, news, dels>>
    BY <1>8 DEF Prepare, Refuse
  <2>3. CASE asked' = asked
    BY <1>1, <1>2, <2>1, <2>3 DEF Requests
  <2>4. CASE /\ pc' = [pc EXCEPT ![c] = "commit"] /\ want' = [want EXCEPT ![c] = RowLocks(c)]
             /\ asked' = [asked EXCEPT ![c] = LockedRows(c)] /\ UNCHANGED <<snap, news, dels>>
    <3>1. want'[c] = RowLocks(c) /\ asked'[c] = LockedRows(c) /\ LockedRows(c)' = LockedRows(c)
      BY <1>0, <2>4, CommitRows, SameSets
    <3>2. \A r \in asked'[c] : Waits(c, "row", r)'
      BY <3>1, RowRequests DEF Waits
    <3>3. target'[c] = 0
      BY <1>1, <2>1 DEF Targets
    <3>4. (\E r \in LockedRows(c) : InGraph(r)) => Reshapes(c) \/ Writes(c)
      BY DEF LockedRows, Reshapes, Writes, Structural
    <3>5. (\E r \in LockedRows(c) : InGraph(r)) => Owns(c, GraphMu) \/ c \in readers[GraphMu]
      BY <2>1, <3>4 DEF ExclusionInv, Excludes, Waits
    <3> QED BY <2>1, <3>1, <3>2, <3>3, <3>5, UnlockAsks DEF Owns
  <2> QED BY <2>2, <2>3, <2>4
<1>9. CASE Publish(c)
  <2>1. /\ pc[c] = "publish" /\ pc'[c] = "release"
        /\ UNCHANGED <<writer, readers, want, target, asked>>
    BY <1>0, <1>9 DEF Publish
  <2>2. want[c] = {}
    BY <1>1, <2>1 DEF Requests, WaitsAt
  <2>3. \A k, i : ~Waits(c, k, i) /\ ~Waits(c, k, i)'
    BY <2>1, <2>2 DEF Waits
  <2>4. ASSUME NEW r \in asked[c] \cap present' PROVE writer'[SlotLock(r)'] = c
    <3>1. r \in LockedRows(c) /\ r \in Row
      BY <1>0, <2>1, <2>4 DEF GraphCovers
    <3>2. r \in present
      BY <2>1, <3>1 DEF ExclusionInv, StillCurrent, StaleWrite, StaleDelete, LockedRows
    <3>3. r \notin Created(c)
      BY <2>1, <3>2 DEF ExclusionInv, StillFree
    <3>4. slots'[r] = slots[r]
      BY <1>9, <3>1, <3>3 DEF Publish
    <3> QED BY <2>1, <2>3, <2>4, <3>2, <3>4 DEF SlotsMatch, SlotLock
  <2> QED BY <2>1, <2>2, <2>3, <2>4 DEF SlotsMatch, GraphCovers, Owns
<1> QED BY <1>3, <1>4, <1>5, <1>6, <1>7, <1>8, <1>9, UnlockWaits DEF Runs

\* The slots of rows that will be unlocked are an invariant.
LEMMA UnlockInvariant == Spec /\ []CreatesAreRelated => []UnlockInv
<1>1. Init => UnlockInv
  <2> SUFFICES ASSUME Init, NEW c \in Client PROVE SlotsMatch(c) /\ GraphCovers(c)
    BY DEF UnlockInv
  <2>1. asked[c] = {} /\ want[c] = {}
    BY DEF Init
  <2> QED BY <2>1 DEF SlotsMatch, GraphCovers, Waits
<1>2. /\ TypeOK /\ LockInv /\ LockInv' /\ ExclusionInv /\ SlotsTell /\ CreatesAreRelated /\ UnlockInv /\ [Next]_vars
      => UnlockInv'
  <2> SUFFICES ASSUME TypeOK, LockInv, LockInv', ExclusionInv, SlotsTell, CreatesAreRelated, UnlockInv,
                      [Next]_vars, NEW c \in Client
               PROVE  SlotsMatch(c)' /\ GraphCovers(c)'
    BY DEF UnlockInv
  <2>0. SlotsMatch(c) /\ GraphCovers(c)
    BY DEF UnlockInv
  <2>1. CASE UNCHANGED vars
    <3>1. UNCHANGED <<pc, want, target, asked, slots, present, writer, readers, snap, news, dels>>
      BY <2>1 DEF vars, rowVars, lockVars, opVars, txVars
    <3>2. LockedRows(c)' = LockedRows(c)
      BY <3>1, SameSets
    <3>3. GraphCovers(c)'
      BY <2>0, <3>1, <3>2 DEF GraphCovers, Waits, Owns
    <3> QED BY <2>0, <3>1, <3>3 DEF SlotsMatch, Waits, IsNext, SlotLock
  <2>2. ASSUME NEW d \in Client, Calls(d) \/ Runs(d) PROVE SlotsMatch(c)' /\ GraphCovers(c)'
    <3>1. CASE c # d
      BY <2>0, <2>2, <3>1, UnlockOthers
    <3>2. CASE c = d
      BY <2>0, <2>2, <3>2, UnlockCalls, UnlockRuns
    <3> QED BY <3>1, <3>2
  <2> QED BY <2>1, <2>2 DEF Next
<1> QED BY <1>1, <1>2, TypeCorrect, LockInvariant, ExclusionInvariant, SlotsInvariant, PTL DEF Spec

\* No goroutine unlocks a row mutex that it does not hold, though unlockResource
\* looks the id up again, in every behaviour in which only rows of related types are
\* created: their creation needs graphMu, which whoever locked rows of the graph by
\* id still has.
THEOREM UnlocksOwn == Spec /\ []CreatesAreRelated => []UnlocksItsOwn
<1>1. Init => UnlocksItsOwn
  BY DEF Init, UnlocksItsOwn
<1>2. LockInv /\ UnlockInv /\ UnlocksItsOwn /\ [Next]_vars => UnlocksItsOwn'
  <2> SUFFICES ASSUME LockInv, UnlockInv, ~fatal, [Next]_vars PROVE ~fatal'
    BY DEF UnlocksItsOwn
  <2>1. CASE UNCHANGED vars
    BY <2>1 DEF vars, lockVars
  <2>2. ASSUME NEW c \in Client, Release(c) PROVE ~fatal'
    <3>1. fatal' = (\E r \in asked[c] \cap present : writer[SlotLock(r)] # c) /\ pc[c] = "release"
      BY <2>2 DEF Release
    <3>2. want[c] = {}
      BY <3>1 DEF LockInv, Requests, WaitsAt
    <3>3. \A r \in asked[c] \cap present : writer[SlotLock(r)] = c
      BY <3>2 DEF UnlockInv, SlotsMatch, Waits
    <3> QED BY <3>1, <3>3
  <2>3. ASSUME NEW c \in Client, Calls(c) \/ Runs(c), ~Release(c) PROVE fatal' = fatal
    BY <2>3, LocksChange DEF Announce, Acquire
  <2> QED BY <2>1, <2>2, <2>3 DEF Next
<1> QED BY <1>1, <1>2, LockInvariant, UnlockInvariant, PTL DEF Spec

----------------------------------------------------------------------------
(* The order of all locks *)

\* No transaction deletes.
NothingDeleted == \A c \in Client : Deleted(c) = {}

\* Row mutexes are held by the slots that ids lead to, and so are the slots found.
LiveInv ==
    /\ \A c \in Client, l \in AllLocks : writer[l] = c => Live(l)
    /\ \A c \in Client : \A q \in want[c] :
          IsNext(c, q) /\ q.kind = "row" /\ target[c] # 0 => q.id \in present /\ target[c] = slots[q.id]

\* A slot is looked up for one request; whoever asks anew has found none.
LEMMA TargetMoves ==
    ASSUME TypeOK, LockInv, NEW c \in Client, Calls(c) \/ Runs(c), ~Lookup(c)
    PROVE  target'[c] = 0 \/ (target'[c] = target[c] /\ want'[c] = want[c])
<1> USE DEF rowVars, lockVars, txVars, opVars
<1>1. Requests(c) /\ Targets(c) /\ target \in [Client -> 0 .. MaxSlots] /\ want \in [Client -> SUBSET Request]
  BY DEF LockInv, TypeOK
<1>2. pc[c] \in {"idle", "open", "retry", "changes", "publish"} \/ want[c] = {} => target[c] = 0
  BY <1>1 DEF Requests, WaitsAt, Targets
<1>3. CASE Calls(c)
  <2>1. pc[c] \in {"idle", "open"} /\ target' = target
    BY <1>3 DEF Calls, Begin, Start, Enter, Get, UpdateWithin, View, ViewMany, TxGet, TxDelete, InCallback,
       TxDeleteCreated, TxCreate, Abort, Commit
  <2> QED BY <1>2, <2>1
<1>4. CASE Announce(c) \/ Release(c) \/ BeginView(c) \/ EndView(c) \/ Snap(c) \/ StageDelete(c)
           \/ Conflict(c) \/ Reject(c) \/ Log(c) \/ Publish(c)
  BY <1>4 DEF Announce, Release, BeginView, EndView, Snap, StageDelete, Conflict, Reject, Log, Publish
<1>5. CASE Acquire(c)
  BY <1>1, <1>5 DEF Acquire
<1>6. CASE Attempt(c) \/ Changes(c) \/ Prepare(c)
  <2>1. pc[c] \in {"retry", "changes"} \/ want[c] = {}
    BY <1>6 DEF Attempt, Changes, Prepare
  <2>2. target' = target
    BY <1>6 DEF Attempt, Changes, Prepare
  <2> QED BY <1>2, <2>1, <2>2
<1> QED BY <1>3, <1>4, <1>5, <1>6 DEF Runs

\* Without deletes every slot that is there stays.
LEMMA LiveStays ==
    ASSUME TypeOK, ExclusionInv, NothingDeleted, [Next]_vars, NEW r \in present
    PROVE  r \in present' /\ slots'[r] = slots[r]
<1>1. CASE UNCHANGED vars
  BY <1>1 DEF vars, rowVars
<1>2. ASSUME NEW d \in Client, Publish(d) PROVE r \in present' /\ slots'[r] = slots[r]
  <2>1. r \notin Created(d)
    BY <1>2 DEF ExclusionInv, StillFree, Publish
  <2>2. Doomed(d) = {}
    BY DEF NothingDeleted, Doomed
  <2> QED BY <1>2, <2>1, <2>2 DEF Publish, AfterRows, TypeOK
<1>3. ASSUME NEW d \in Client, Calls(d) \/ Runs(d), ~Publish(d) PROVE r \in present' /\ slots'[r] = slots[r]
  BY <1>3, RowsChange DEF rowVars
<1> QED BY <1>1, <1>2, <1>3 DEF Next

\* The slots behind row mutexes are an invariant of programs that do not delete.
LEMMA LiveInvariant == Spec /\ []NothingDeleted => []LiveInv
<1>1. Init => LiveInv
  <2> SUFFICES ASSUME Init PROVE LiveInv
    OBVIOUS
  <2>1. \A c \in Client, l \in AllLocks : writer[l] # c
    BY EngineAssumption DEF Init
  <2> QED BY <2>1 DEF Init, LiveInv
<1>2. TypeOK /\ LockInv /\ ExclusionInv /\ NothingDeleted /\ LiveInv /\ [Next]_vars => LiveInv'
  <2> SUFFICES ASSUME TypeOK, LockInv, ExclusionInv, NothingDeleted, LiveInv, [Next]_vars PROVE LiveInv'
    OBVIOUS
  <2>1. \A l \in AllLocks : Live(l) => Live(l)'
    BY LiveStays DEF Live
  <2>2. ASSUME NEW c \in Client, NEW l \in AllLocks, writer'[l] = c PROVE Live(l)'
    <3>1. CASE writer[l] = c
      BY <2>1, <2>2, <3>1 DEF LiveInv
    <3>2. CASE writer[l] # c
      <4>1. PICK d \in Client : Calls(d) \/ Runs(d)
        BY <2>2, <3>2 DEF Next, vars, lockVars
      <4>2. c = d
        BY <2>2, <3>2, <4>1, LocksKept
      <4>3. Announce(c)
        <5>1. ~Acquire(c)
          BY <2>2, <3>2 DEF Acquire
        <5>2. ~Release(c)
          BY <2>2, <3>2, EngineAssumption DEF Release
        <5> QED BY <2>2, <3>2, <4>1, <4>2, <5>1, <5>2, LocksChange
      <4>4. PICK q \in want[c] : Ready(c, q) /\ writer' = [writer EXCEPT ![LockOf(c, q)] = c]
        BY <4>3 DEF Announce
      <4>5. l = LockOf(c, q)
        BY <2>2, <3>2, <4>4 DEF TypeOK
      <4>6. q.kind = "row" => q.id \in present /\ target[c] = slots[q.id]
        BY <4>4 DEF LiveInv, Ready, InSlot
      <4>7. Live(l)
        BY <4>5, <4>6 DEF Live, LockOf, InSlot
      <4> QED BY <2>1, <4>7
    <3> QED BY <3>1, <3>2
  <2>3. ASSUME NEW c \in Client, NEW q \in want'[c], IsNext(c, q)', q.kind = "row", target'[c] # 0
        PROVE  q.id \in present' /\ target'[c] = slots'[q.id]
    <3>1. SUFFICES q.id \in present /\ target'[c] = slots[q.id]
      BY LiveStays
    <3>2. CASE target'[c] = target[c] /\ want'[c] = want[c]
      <4>1. IsNext(c, q)
        BY <2>3, <3>2 DEF IsNext
      <4> QED BY <2>3, <3>2, <4>1 DEF LiveInv
    <3>3. CASE Lookup(c)
      <4>1. PICK p \in want[c] :
               /\ IsNext(c, p) /\ target[c] = 0
               /\ \/ p.id \in present /\ target' = [target EXCEPT ![c] = slots[p.id]] /\ want' = want
                  \/ target' = target
        BY <3>3 DEF Lookup
      <4>2. p.id \in present /\ target' = [target EXCEPT ![c] = slots[p.id]] /\ want' = want
        BY <2>3, <4>1
      <4>3. IsNext(c, q) /\ q \in want[c]
        BY <2>3, <4>2 DEF IsNext
      <4>4. p = q
        BY <4>1, <4>3, OneNext DEF LockInv, Requests
      <4> QED BY <4>2, <4>4 DEF TypeOK
    <3>4. CASE UNCHANGED vars
      BY <3>2, <3>4 DEF vars
    <3>5. ASSUME NEW d \in Client, d # c, Calls(d) \/ Runs(d) PROVE target'[c] = target[c] /\ want'[c] = want[c]
      BY <3>5, OthersSame DEF Same
    <3>6. CASE Calls(c) \/ Runs(c)
      BY <2>3, <3>2, <3>3, <3>6, TargetMoves
    <3> QED BY <3>2, <3>4, <3>5, <3>6 DEF Next
  <2> QED BY <2>2, <2>3 DEF LiveInv
<1> QED BY <1>1, <1>2, TypeCorrect, LockInvariant, ExclusionInvariant, PTL DEF Spec

\* In programs that do not delete, whoever waits for a mutex holds only earlier
\* ones: graphMu, then structures, then branches, then rows by type and id.  (A
\* delete leaves the mutexes of its rows locked: OrderOfLocks is the theorem for
\* programs that delete.)
THEOREM AllLocksOrdered == Spec /\ []NothingDeleted => []LocksInOrder
<1>1. LockInv /\ LiveInv => LocksInOrder
  <2> SUFFICES ASSUME LockInv, LiveInv, NEW c \in Client, NEW l \in Held(c), NEW q \in want[c]
               PROVE  Before(l, q)
    BY DEF LocksInOrder
  <2>1. l \in AllLocks /\ (c \in readers[l] \/ (writer[l] = c /\ l # LockOf(c, q)))
    BY DEF Held
  <2>2. InOrder(c)
    BY DEF LockInv
  <2> QED BY <2>1, <2>2 DEF InOrder, LiveInv
<1> QED BY <1>1, LockInvariant, LiveInvariant, PTL
=============================================================================
