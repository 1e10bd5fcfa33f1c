-------------------------- MODULE DurabilityProofs --------------------------
(***************************************************************************)
(* Proofs about Durability for every value of its constants.               *)
(*                                                                         *)
(* The safety theorems assume SeparateLogs: no type is written both by     *)
(* single-type and by cross-type commits, and either every type takes part *)
(* in the relation graph or none does.  Without the first part loading     *)
(* replays frames out of order (run replay_order), without the second a    *)
(* flat commit, which takes no graphMu, runs beside a checkpoint.          *)
(***************************************************************************)
EXTENDS Durability, TLAPS, WellFoundedInduction

SeparateLogs ==
    /\ SingleTypes \cap CrossTypes = {}
    /\ GraphTypes \in {{}, Type}

----------------------------------------------------------------------------
(* The inductive invariant *)

\* Each row is written by one log only.
LogsApart ==
    /\ \A t \in Type : t \notin SingleTypes => wal[t] = <<>>
    /\ \A i \in DOMAIN txwal : \A r \in Row :
          txwal[i].rows[r] # Untouched => RowType(r) \in CrossTypes

\* Row locks: logged frames do not overlap.
PendingDisjoint ==
    \A c, d \in Client : c # d => Touched(pend[c]) \cap Touched(pend[d]) = {}

\* graphMu: a frame that creates or deletes in the graph is alone there.
GraphExclusive ==
    \A c, d \in Client :
        c # d /\ InGraph(pend[c]) /\ InGraph(pend[d]) => ~GraphWrite(pend[c])

\* Nothing is logged or unpublished while a checkpoint runs, or while the
\* process is down.
CheckpointAlone ==
    /\ ckAt # 0 => up /\ (unsafe \/ GraphTypes = Type)
    /\ ckAt # 0 \/ ~up \/ unsafe => \A c \in Client : pend[c] = Blank

\* What is live was promised or is being promised.
LiveIsPromised == up => \A r \in Row : mem[r] \in promised[r]

\* How far the checkpoint has come.
CheckpointProgress ==
    /\ \A t \in Type : ckAt # 0 /\ t < ckAt => wal[t] = <<>> /\ ChunksOf(t) \cap dirty = {}
    /\ ckAt \in Type /\ ckStage = "truncate" => ChunksOf(ckAt) \cap dirty = {}
    /\ ckAt \in Type /\ ckStage = "write" =>
          /\ ckIdxs = ChunksOf(ckAt) \cap dirty
          /\ \A r \in Row : ChunkOf[r] \in ckIdxs \ ckTodo => chunk[r] = mem[r]

IInv ==
    /\ TypeOK
    /\ LogsApart
    /\ PendingDisjoint
    /\ GraphExclusive
    /\ CheckpointAlone
    /\ LiveIsPromised
    /\ CheckpointProgress
    /\ CleanChunksAreSaved
    /\ Durable
    /\ FsyncCommits

----------------------------------------------------------------------------
(* Replay *)

\* A non-empty set of indices of a log has a last element: the one frame whose
\* value replay leaves in the row.
LEMMA LastExists ==
    ASSUME NEW n \in Nat, NEW S \in SUBSET (1 .. n), S # {}
    PROVE  /\ Last(S) \in S
           /\ \A j \in S : j <= Last(S)
<1> DEFINE R == OpToRel(<, Nat)
           T == {m \in 0 .. n : n - m \in S}
<1>1. IsWellFoundedOn(R, Nat)
  BY NatLessThanWellFounded
<1>2. T \subseteq Nat /\ T # {}
  <2>1. PICK i \in S : TRUE
    OBVIOUS
  <2>2. n - i \in 0 .. n /\ n - (n - i) = i
    OBVIOUS
  <2>3. n - i \in T
    BY <2>2
  <2>4. T \subseteq Nat
    OBVIOUS
  <2> HIDE DEF T
  <2> QED BY <2>3, <2>4
<1> HIDE DEF T, R
<1>3. PICK x \in T : \A y \in T : ~(<<y, x>> \in R)
  BY <1>1, <1>2, WFMin
<1>4. \A y \in T : ~(y < x)
  <2> SUFFICES ASSUME NEW y \in T, y < x PROVE FALSE
    OBVIOUS
  <2>1. <<y, x>> \in Nat \X Nat
    BY <1>2
  <2>2. <<y, x>> \in R
    BY <2>1 DEF R, OpToRel
  <2> QED BY <2>2, <1>3
<1>5. \E i \in S : \A j \in S : j <= i
  <2>1. n - x \in S
    BY <1>3 DEF T
  <2>2. ASSUME NEW j \in S PROVE j <= n - x
    <3>1. n - j \in T
      BY n - (n - j) = j DEF T
    <3> QED BY <3>1, <1>2, <1>3, <1>4
  <2> QED BY <2>1, <2>2
<1> QED
  BY <1>5 DEF Last

----------------------------------------------------------------------------
\* What replay makes of a row is a legal row.
LEMMA ReplayType ==
    ASSUME NEW log \in Seq(Entry), NEW r \in Row, NEW base \in Cell
    PROVE  Replay(log, r, base) \in Cell
<1>1. CASE Writers(log, r) = {}
  BY <1>1 DEF Replay
<1>2. CASE Writers(log, r) # {}
  <2>1. Writers(log, r) \in SUBSET (1 .. Len(log)) /\ Len(log) \in Nat
    BY DEF Writers, Readable
  <2>2. Last(Writers(log, r)) \in Writers(log, r)
    BY <2>1, <1>2, LastExists
  <2> DEFINE i == Last(Writers(log, r))
  <2>3. i \in DOMAIN log /\ log[i].rows[r] # Untouched
    BY <2>2 DEF Writers, Readable
  <2> HIDE DEF i
  <2>4. log[i] \in Entry
    BY <2>3
  <2>5. log[i].rows[r] \in Cell
    BY <2>3, <2>4 DEF Entry, Frame
  <2> QED BY <1>2, <2>5 DEF Replay, i
<1> QED BY <1>1, <1>2

\* Replay looks at a row only through the frames that touch it.
LEMMA ReplayNothing ==
    ASSUME NEW log, NEW r \in Row, NEW base,
           \A i \in DOMAIN log : log[i].rows[r] = Untouched
    PROVE  Replay(log, r, base) = base
BY DEF Replay, Writers, Readable

\* Appending a frame to a log that stays readable up to it: replay ends with
\* that frame's value for the rows it touches, and as before for the others.
LEMMA ReplayAppend ==
    ASSUME NEW log \in Seq(Entry), NEW e \in Entry, NEW r \in Row, NEW base,
           ~Buried(Append(log, e))
    PROVE  /\ ~Buried(log)
           /\ Replay(Append(log, e), r, base) =
                 IF ~e.torn /\ e.rows[r] # Untouched THEN e.rows[r] ELSE Replay(log, r, base)
<1> DEFINE n == Len(log)
           new == Append(log, e)
<1>1. /\ n \in Nat /\ DOMAIN log = 1 .. n /\ DOMAIN new = 1 .. (n + 1)
      /\ new[n + 1] = e
      /\ \A i \in 1 .. n : new[i] = log[i]
  OBVIOUS
<1> HIDE DEF n, new
<1>2. \A i \in 1 .. n : ~log[i].torn
  BY <1>1 DEF Buried, new
<1>3. ~Buried(log)
  BY <1>1, <1>2 DEF Buried
<1>4. Readable(log) = 1 .. n
  BY <1>1, <1>2 DEF Readable
<1>5. Readable(new) = IF e.torn THEN 1 .. n ELSE 1 .. (n + 1)
  BY <1>1, <1>2 DEF Readable
<1>6. CASE ~e.torn /\ e.rows[r] # Untouched
  <2>1. Writers(new, r) \in SUBSET (1 .. (n + 1)) /\ n + 1 \in Writers(new, r)
    BY <1>1, <1>5, <1>6 DEF Writers
  <2>2. Last(Writers(new, r)) = n + 1
    <3>1. /\ Last(Writers(new, r)) \in Writers(new, r)
          /\ n + 1 <= Last(Writers(new, r))
      BY <2>1, <1>1, LastExists, n + 1 \in Nat
    <3> QED BY <3>1, <2>1, <1>1
  <2> QED BY <1>1, <1>3, <1>6, <2>1, <2>2 DEF Replay, new
<1>7. CASE ~(~e.torn /\ e.rows[r] # Untouched)
  <2>1. Writers(new, r) = Writers(log, r)
    BY <1>1, <1>4, <1>5, <1>7 DEF Writers
  <2>2. Writers(log, r) # {} => Last(Writers(log, r)) \in 1 .. n
    <3>1. Writers(log, r) \in SUBSET (1 .. n)
      BY <1>4 DEF Writers
    <3> QED BY <3>1, <1>1, LastExists
  <2> QED BY <1>1, <1>3, <1>7, <2>1, <2>2 DEF Replay, new
<1> QED BY <1>6, <1>7

----------------------------------------------------------------------------
(* Type correctness, for every choice of the constants *)

LEMMA RowFacts ==
    ASSUME NEW r \in Row
    PROVE  ChunkOf[r] \in Chunk /\ RowType(r) \in Type
BY SortsAssumption DEF RowType

LEMMA RecoveredType ==
    ASSUME TypeOK, NEW r \in Row
    PROVE  Recovered(r) \in Cell
<1>1. /\ wal[RowType(r)] \in Seq(Entry) /\ txwal \in Seq(Entry) /\ chunk[r] \in Cell
  BY RowFacts DEF TypeOK
<1>2. Replay(wal[RowType(r)], r, chunk[r]) \in Cell
  BY <1>1, ReplayType
<1> QED BY <1>1, <1>2, ReplayType DEF Recovered

LEMMA AppendType ==
    ASSUME TypeOK, NEW f \in Frame, NEW torn \in BOOLEAN, AppendFrame(f, torn)
    PROVE  wal' \in [Type -> Seq(Entry)] /\ txwal' \in Seq(Entry)
<1> DEFINE entry == [torn |-> torn, rows |-> f]
<1>1. entry \in Entry
  BY DEF Entry
<1> HIDE DEF entry
<1>2. CASE \E t \in SingleTypes : wal' = [wal EXCEPT ![t] = Append(@, entry)] /\ UNCHANGED txwal
  <2>1. PICK t \in SingleTypes : wal' = [wal EXCEPT ![t] = Append(@, entry)] /\ UNCHANGED txwal
    BY <1>2
  <2>2. t \in Type /\ wal[t] \in Seq(Entry)
    BY SortsAssumption DEF TypeOK
  <2>3. Append(wal[t], entry) \in Seq(Entry)
    BY <2>2, <1>1
  <2> QED BY <2>1, <2>2, <2>3 DEF TypeOK
<1>3. CASE txwal' = Append(txwal, entry) /\ UNCHANGED wal
  BY <1>1, <1>3 DEF TypeOK
<1> QED BY <1>2, <1>3 DEF AppendFrame, entry

LEMMA OverType ==
    ASSUME NEW f \in Frame, NEW s \in [Row -> Cell]
    PROVE  Over(f, s) \in [Row -> Cell]
BY DEF Over, Frame

LEMMA MayBecomeType ==
    ASSUME TypeOK, NEW f \in Frame
    PROVE  MayBecome(f) \in [Row -> SUBSET Cell]
BY DEF TypeOK, MayBecome, Frame

LEMMA BlankType == Blank \in Frame
BY DEF Blank, Frame

\* The part of a crash that both crash actions share.
LEMMA StopType ==
    ASSUME TypeOK, Stop, wal' \in [Type -> Seq(Entry)], txwal' \in Seq(Entry),
           UNCHANGED promised
    PROVE  TypeOK'
<1>1. pend' \in [Client -> Frame]
  BY BlankType DEF Stop
<1>2. crashes' \in Nat
  BY DEF Stop, TypeOK
<1>3. ckAt' \in 0 .. NumTypes + 1
  BY SortsAssumption DEF Stop
<1>4. up' \in BOOLEAN /\ unsafe' \in BOOLEAN
  BY DEF Stop
<1>5. ckStage' \in {"scan", "write", "truncate"} /\ ckIdxs' \subseteq Chunk /\ ckTodo' \subseteq ckIdxs'
  BY DEF Stop
<1>6. mem' \in [Row -> Cell] /\ chunk' \in [Row -> Cell] /\ dirty' \subseteq Chunk
      /\ promised' \in [Row -> SUBSET Cell]
  BY DEF Stop, TypeOK
<1> QED BY <1>1, <1>2, <1>3, <1>4, <1>5, <1>6 DEF TypeOK

LEMMA TypeStep == TypeOK /\ [Next]_vars => TypeOK'
<1> SUFFICES ASSUME TypeOK, [Next]_vars PROVE TypeOK'
  OBVIOUS
<1> USE SortsAssumption
<1>1. ASSUME NEW c \in Client, NEW f \in Frame, Log(c, f) PROVE TypeOK'
  <2>1. wal' \in [Type -> Seq(Entry)] /\ txwal' \in Seq(Entry)
    BY <1>1, AppendType DEF Log
  <2>2. promised' \in [Row -> SUBSET Cell]
    BY <1>1, MayBecomeType DEF Log
  <2>3. pend' \in [Client -> Frame]
    BY <1>1 DEF Log, TypeOK
  <2> QED BY <1>1, <2>1, <2>2, <2>3 DEF Log, TypeOK, ckVars
<1>2. ASSUME NEW f \in Frame, NEW torn \in BOOLEAN, LogFails(f, torn) PROVE TypeOK'
  <2>1. wal' \in [Type -> Seq(Entry)] /\ txwal' \in Seq(Entry)
    BY <1>2, AppendType DEF LogFails
  <2>2. promised' \in [Row -> SUBSET Cell]
    BY <1>2, MayBecomeType DEF LogFails, TypeOK
  <2> QED BY <1>2, <2>1, <2>2 DEF LogFails, TypeOK, ckVars
<1>3. ASSUME NEW c \in Client, NEW u \in Frame, Publish(c, u) PROVE TypeOK'
  <2>1. pend[c] \in Frame
    BY DEF TypeOK
  <2>2. mem' \in [Row -> Cell]
    BY <1>3, <2>1, OverType DEF Publish, TypeOK
  <2>3. dirty' \subseteq Chunk
    BY <1>3, RowFacts DEF Publish, TypeOK, Touched
  <2>4. promised' \in [Row -> SUBSET Cell]
    BY <1>3, <2>1 DEF Publish, TypeOK, Frame
  <2>5. pend' \in [Client -> Frame]
    BY <1>3, BlankType DEF Publish, TypeOK
  <2>6. ckAt' \in 0 .. NumTypes + 1 /\ ckStage' \in {"scan", "write", "truncate"}
        /\ ckIdxs' \subseteq Chunk /\ ckTodo' \subseteq ckIdxs'
    BY <1>3 DEF Publish, TypeOK, ckVars
  <2> QED BY <1>3, <2>2, <2>3, <2>4, <2>5, <2>6 DEF Publish, TypeOK
<1>4. ASSUME NEW u \in Frame, Flush(u) PROVE TypeOK'
  <2>1. mem' \in [Row -> Cell]
    BY <1>4, OverType DEF Flush, TypeOK
  <2>2. dirty' \subseteq Chunk
    BY <1>4, RowFacts DEF Flush, TypeOK, Touched
  <2>3. promised' \in [Row -> SUBSET Cell]
    BY <1>4, MayBecomeType DEF Flush
  <2> QED BY <1>4, <2>1, <2>2, <2>3 DEF Flush, TypeOK
<1>5. CASE ScanDirty
  BY <1>5 DEF ScanDirty, CkAtType, TypeOK
<1>6. ASSUME NEW k \in Chunk, SaveChunk(k) PROVE TypeOK'
  BY <1>6 DEF SaveChunk, TypeOK
<1>7. CASE ClearDirty
  BY <1>7 DEF ClearDirty, TypeOK
<1>8. CASE TruncateWal
  <2>1. <<>> \in Seq(Entry)
    OBVIOUS
  <2>2. wal' \in [Type -> Seq(Entry)]
    BY <1>8, <2>1 DEF TruncateWal, TypeOK
  <2>3. ckAt' \in 0 .. NumTypes + 1
    BY <1>8 DEF TruncateWal, CkAtType, Type
  <2> QED BY <1>8, <2>2, <2>3 DEF TruncateWal, TypeOK
<1>9. CASE TruncateTx
  <2>1. promised' \in [Row -> SUBSET Cell]
    BY <1>9 DEF TruncateTx, TypeOK
  <2>2. <<>> \in Seq(Entry)
    OBVIOUS
  <2>3. 0 \in 0 .. NumTypes + 1
    OBVIOUS
  <2> QED BY <1>9, <2>1, <2>2, <2>3 DEF TruncateTx, TypeOK
<1>10. CASE CheckpointFails
  <2>1. 0 \in 0 .. NumTypes + 1
    OBVIOUS
  <2> QED BY <1>10, <2>1 DEF CheckpointFails, TypeOK
<1>11. CASE Crash
  BY <1>11, StopType DEF Crash, TypeOK
<1>12. ASSUME NEW f \in Frame, CrashInAppend(f) PROVE TypeOK'
  <2>1. wal' \in [Type -> Seq(Entry)] /\ txwal' \in Seq(Entry)
    BY <1>12, AppendType DEF CrashInAppend
  <2> QED BY <1>12, <2>1, StopType DEF CrashInAppend
<1>13. CASE Recover
  <2>1. mem' \in [Row -> Cell] /\ promised' \in [Row -> SUBSET Cell]
    BY <1>13, RecoveredType DEF Recover
  <2>2. dirty' \subseteq Chunk
    BY <1>13 DEF Recover
  <2> QED BY <1>13, <2>1, <2>2 DEF Recover, TypeOK, ckVars
<1>14. CASE UNCHANGED vars
  BY <1>14 DEF vars, TypeOK
<1> QED
  BY <1>1, <1>2, <1>3, <1>4, <1>5, <1>6, <1>7, <1>8, <1>9, <1>10, <1>11, <1>12, <1>13, <1>14
  DEF Next

LEMMA TypeInit == Init => TypeOK
<1>1. <<>> \in Seq(Entry)
  OBVIOUS
<1>2. 0 \in 0 .. NumTypes + 1
  BY SortsAssumption
<1> SUFFICES ASSUME Init PROVE TypeOK
  OBVIOUS
<1>3. mem \in [Row -> Cell] /\ chunk \in [Row -> Cell] /\ promised \in [Row -> SUBSET Cell]
  BY DEF Init
<1>4. wal \in [Type -> Seq(Entry)] /\ txwal \in Seq(Entry) /\ pend \in [Client -> Frame]
  BY <1>1, BlankType DEF Init
<1>5. /\ dirty \subseteq Chunk /\ ckIdxs \subseteq Chunk /\ ckTodo \subseteq ckIdxs
      /\ ckStage \in {"scan", "write", "truncate"}
      /\ unsafe \in BOOLEAN /\ up \in BOOLEAN
  BY DEF Init
<1>6. ckAt \in 0 .. NumTypes + 1 /\ crashes \in Nat
  BY <1>2 DEF Init
<1> QED BY <1>3, <1>4, <1>5, <1>6 DEF TypeOK

\* Every action keeps the files, the dirty flags and the checkpoint's position
\* well formed, whatever the types, the workload and the failures.
THEOREM TypeCorrect == Spec => []TypeOK
BY TypeInit, TypeStep, PTL DEF Spec

----------------------------------------------------------------------------
(* What the steps do to the recovered rows *)

LEMMA FrameFacts ==
    ASSUME NEW f \in Frame
    PROVE  /\ Touched(f) = {} <=> f = Blank
           /\ \A r \in Row : f[r] # Untouched <=> r \in Touched(f)
<1>1. Touched(f) = {} => f = Blank
  BY DEF Touched, Blank, Frame
<1> QED BY <1>1 DEF Touched, Blank

\* A commit under way excludes a checkpoint.
LEMMA NoAppendInCheckpoint ==
    ASSUME SeparateLogs, CheckpointAlone, NEW f \in Frame, Admissible(f)
    PROVE  ckAt = 0 /\ up /\ ~unsafe
<1>1. PICK r \in Touched(f) : r \in Row /\ RowType(r) \in Type
  BY RowFacts DEF Admissible, Touched
<1>2. GraphTypes = Type => InGraph(f)
  BY <1>1 DEF InGraph, GraphRow
<1> QED BY <1>2 DEF Admissible, CheckpointAlone

LEMMA SameFiles ==
    ASSUME UNCHANGED <<chunk, wal, txwal>>, NEW r \in Row
    PROVE  Recovered(r)' = Recovered(r) /\ (Intact(r)' <=> Intact(r))
BY DEF Recovered, Intact

LEMMA AppendFacts ==
    ASSUME NEW log \in Seq(Entry), NEW e \in Entry, NEW i \in DOMAIN Append(log, e)
    PROVE  Append(log, e)[i] = e \/ (i \in DOMAIN log /\ Append(log, e)[i] = log[i])
<1>1. i \in 1 .. (Len(log) + 1) /\ DOMAIN log = 1 .. Len(log) /\ Len(log) \in Nat
  OBVIOUS
<1>2. CASE i = Len(log) + 1
  BY <1>1, <1>2
<1>3. CASE i # Len(log) + 1
  BY <1>1, <1>3
<1> QED BY <1>2, <1>3

\* An append changes the recovered state by its frame and nothing else.
LEMMA AppendRecovered ==
    ASSUME SeparateLogs, TypeOK, LogsApart, UNCHANGED chunk,
           NEW f \in Frame, NEW torn \in BOOLEAN, AppendFrame(f, torn)
    PROVE  /\ LogsApart'
           /\ \A r \in Row : Intact(r)' =>
                 /\ Intact(r)
                 /\ Recovered(r)' = IF ~torn /\ f[r] # Untouched THEN f[r] ELSE Recovered(r)
<1> DEFINE entry == [torn |-> torn, rows |-> f]
<1>1. entry \in Entry /\ entry.torn = torn /\ entry.rows = f
  BY DEF Entry
<1> HIDE DEF entry
<1>2. ASSUME NEW t \in SingleTypes, TypesOf(f) = {t},
             wal' = [wal EXCEPT ![t] = Append(@, entry)], UNCHANGED txwal
      PROVE  /\ LogsApart'
             /\ \A r \in Row : Intact(r)' =>
                   /\ Intact(r)
                   /\ Recovered(r)' = IF ~torn /\ f[r] # Untouched THEN f[r] ELSE Recovered(r)
  <2>1. t \in Type /\ t \notin CrossTypes /\ wal[t] \in Seq(Entry)
    BY SortsAssumption DEF SeparateLogs, TypeOK
  <2>2. LogsApart'
    BY <1>2, <2>1 DEF LogsApart, TypeOK
  <2>3. ASSUME NEW r \in Row, Intact(r)'
        PROVE  /\ Intact(r)
               /\ Recovered(r)' = IF ~torn /\ f[r] # Untouched THEN f[r] ELSE Recovered(r)
    <3>1. RowType(r) \in Type
      BY RowFacts
    <3>2. CASE RowType(r) = t
      <4>1. wal'[t] = Append(wal[t], entry)
        BY <1>2, <2>1 DEF TypeOK
      <4>2. ~Buried(Append(wal[t], entry)) /\ ~Buried(txwal)
        BY <2>3, <3>2, <4>1, <1>2 DEF Intact
      <4>3. /\ ~Buried(wal[t])
            /\ Replay(Append(wal[t], entry), r, chunk[r]) =
                  IF ~torn /\ f[r] # Untouched THEN f[r] ELSE Replay(wal[t], r, chunk[r])
        BY <4>2, <2>1, <1>1, ReplayAppend
      <4>4. \A i \in DOMAIN txwal : txwal[i].rows[r] = Untouched
        BY <2>1, <3>2 DEF LogsApart
      <4>5. \A b : Replay(txwal, r, b) = b
        BY <4>4, ReplayNothing
      <4> QED BY <4>1, <4>2, <4>3, <4>5, <3>2, <1>2 DEF Recovered, Intact
    <3>3. CASE RowType(r) # t
      <4>1. wal'[RowType(r)] = wal[RowType(r)]
        BY <1>2, <3>1, <3>3 DEF TypeOK
      <4>2. f[r] = Untouched
        BY <1>2, <3>3 DEF TypesOf, Touched
      <4> QED BY <4>1, <4>2, <2>3, <1>2 DEF Recovered, Intact
    <3> QED BY <3>2, <3>3
  <2> QED BY <2>2, <2>3
<1>3. ASSUME TypesOf(f) \subseteq CrossTypes, txwal' = Append(txwal, entry), UNCHANGED wal
      PROVE  /\ LogsApart'
             /\ \A r \in Row : Intact(r)' =>
                   /\ Intact(r)
                   /\ Recovered(r)' = IF ~torn /\ f[r] # Untouched THEN f[r] ELSE Recovered(r)
  <2>1. txwal \in Seq(Entry)
    BY DEF TypeOK
  <2>2. LogsApart'
    <3>1. ASSUME NEW r \in Row, f[r] # Untouched PROVE RowType(r) \in CrossTypes
      BY <1>3, <3>1 DEF TypesOf, Touched
    <3>2. \A i \in DOMAIN txwal' : txwal'[i] = entry \/ (i \in DOMAIN txwal /\ txwal'[i] = txwal[i])
      BY <1>1, <1>3, <2>1, AppendFacts
    <3> QED BY <1>1, <1>3, <3>1, <3>2 DEF LogsApart
  <2>3. ASSUME NEW r \in Row, Intact(r)'
        PROVE  /\ Intact(r)
               /\ Recovered(r)' = IF ~torn /\ f[r] # Untouched THEN f[r] ELSE Recovered(r)
    <3> DEFINE base == Replay(wal[RowType(r)], r, chunk[r])
    <3>1. ~Buried(Append(txwal, entry)) /\ ~Buried(wal[RowType(r)])
      BY <2>3, <1>3 DEF Intact
    <3>2. Recovered(r)' = Replay(Append(txwal, entry), r, base) /\ Recovered(r) = Replay(txwal, r, base)
      BY <1>3 DEF Recovered
    <3> HIDE DEF base
    <3>3. /\ ~Buried(txwal)
          /\ Replay(Append(txwal, entry), r, base) =
                IF ~torn /\ f[r] # Untouched THEN f[r] ELSE Replay(txwal, r, base)
      BY <3>1, <2>1, <1>1, ReplayAppend
    <3> QED BY <3>1, <3>2, <3>3 DEF Intact
  <2> QED BY <2>2, <2>3
<1> QED BY <1>2, <1>3 DEF AppendFrame, entry

\* Over another base, replay gives the same value or leaves each base alone.
LEMMA ReplayBase ==
    ASSUME NEW log, NEW r, NEW a, NEW b
    PROVE  \/ Replay(log, r, a) = Replay(log, r, b)
           \/ Replay(log, r, a) = a /\ Replay(log, r, b) = b
BY DEF Replay

LEMMA ReplayEmpty ==
    ASSUME NEW r \in Row, NEW base
    PROVE  Replay(<<>>, r, base) = base /\ ~Buried(<<>>)
<1>1. DOMAIN <<>> = {}
  OBVIOUS
<1> QED BY <1>1 DEF Replay, Writers, Readable, Buried

----------------------------------------------------------------------------
(* Every action keeps the invariant *)

LEMMA LogKeeps ==
    ASSUME SeparateLogs, IInv, TypeOK', NEW c \in Client, NEW f \in Frame, Log(c, f)
    PROVE  IInv'
<1> USE SortsAssumption DEF IInv
<1>1. ckAt = 0 /\ up /\ ~unsafe /\ ckAt' = 0 /\ up' = up /\ unsafe' = unsafe
  BY NoAppendInCheckpoint DEF Log, ckVars
<1>2. /\ LogsApart'
      /\ \A r \in Row : Intact(r)' =>
            /\ Intact(r)
            /\ Recovered(r)' = IF f[r] # Untouched THEN f[r] ELSE Recovered(r)
  BY AppendRecovered DEF Log
<1>3. /\ pend'[c] = f
      /\ \A d \in Client : d # c => pend'[d] = pend[d]
      /\ mem' = mem
  BY DEF Log, TypeOK
<1>4. \A d \in Client : Touched(f) \cap Touched(pend[d]) = {}
  BY DEF Log, Admissible, Pending
<1>5. PendingDisjoint'
  BY <1>3, <1>4 DEF PendingDisjoint
<1>6. GraphExclusive'
  <2>1. ASSUME NEW a \in Client, NEW b \in Client, a # b, InGraph(pend'[a]), InGraph(pend'[b]),
               NEW r \in Touched(pend'[a]) \cap GraphRow, Absent \in {pend'[a][r], mem[r]}
        PROVE  FALSE
    <3>1. CASE a = c
      <4>1. GraphWrite(f)
        BY <1>3, <2>1, <3>1 DEF GraphWrite
      <4> QED BY <1>3, <2>1, <3>1, <4>1 DEF Log, Admissible
    <3>2. CASE b = c
      <4>1. GraphWrite(pend[a])
        BY <1>3, <2>1, <3>2 DEF GraphWrite
      <4> QED BY <1>3, <2>1, <3>2, <4>1 DEF Log, Admissible
    <3>3. CASE a # c /\ b # c
      <4>1. GraphWrite(pend[a])
        BY <1>3, <2>1, <3>3 DEF GraphWrite
      <4> QED BY <1>3, <2>1, <3>3, <4>1 DEF GraphExclusive
    <3> QED BY <3>1, <3>2, <3>3
  <2> QED BY <2>1, <1>3 DEF GraphExclusive, GraphWrite, InGraph
<1>7. CheckpointAlone'
  BY <1>1 DEF CheckpointAlone
<1>8. \A r \in Row : promised[r] \subseteq promised'[r] /\ (f[r] # Untouched => f[r] \in promised'[r])
  BY DEF Log, MayBecome
<1>9. LiveIsPromised'
  BY <1>1, <1>3, <1>8 DEF LiveIsPromised
<1>10. CheckpointProgress'
  BY <1>1 DEF CheckpointProgress, Type
<1>11. CleanChunksAreSaved'
  BY DEF Log, CleanChunksAreSaved
<1>12. Durable'
  BY <1>2, <1>8 DEF Durable
<1>13. FsyncCommits'
  <2>1. ASSUME NEW d \in Client, NEW r \in Touched(pend'[d]), Intact(r)'
        PROVE  Recovered(r)' = pend'[d][r]
    <3>1. CASE d = c
      BY <3>1, <2>1, <1>2, <1>3 DEF Touched
    <3>2. CASE d # c
      BY <3>2, <2>1, <1>2, <1>3, <1>4 DEF Touched, FsyncCommits
    <3> QED BY <3>1, <3>2
  <2> QED BY <2>1 DEF FsyncCommits, Touched
<1> QED BY <1>2, <1>5, <1>6, <1>7, <1>9, <1>10, <1>11, <1>12, <1>13

LEMMA LogFailsKeeps ==
    ASSUME SeparateLogs, IInv, TypeOK', NEW f \in Frame, NEW torn \in BOOLEAN, LogFails(f, torn)
    PROVE  IInv'
<1> USE SortsAssumption DEF IInv
<1>1. ckAt = 0 /\ up /\ ~unsafe /\ ckAt' = 0 /\ up' = up /\ unsafe' = unsafe
  BY NoAppendInCheckpoint DEF LogFails, ckVars
<1>2. /\ LogsApart'
      /\ \A r \in Row : Intact(r)' =>
            /\ Intact(r)
            /\ Recovered(r)' = IF ~torn /\ f[r] # Untouched THEN f[r] ELSE Recovered(r)
  BY AppendRecovered DEF LogFails
<1>3. pend' = pend /\ mem' = mem
  BY DEF LogFails
<1>4. \A d \in Client : Touched(f) \cap Touched(pend[d]) = {}
  BY DEF LogFails, Admissible, Pending
<1>5. PendingDisjoint' /\ GraphExclusive'
  BY <1>3 DEF PendingDisjoint, GraphExclusive, InGraph, GraphWrite
<1>6. CheckpointAlone' /\ CheckpointProgress'
  BY <1>1 DEF CheckpointAlone, CheckpointProgress, Type
<1>7. \A r \in Row : promised[r] \subseteq promised'[r]
                     /\ (~torn /\ f[r] # Untouched => f[r] \in promised'[r])
  BY DEF LogFails, MayBecome
<1>8. LiveIsPromised'
  BY <1>1, <1>3, <1>7 DEF LiveIsPromised
<1>9. CleanChunksAreSaved'
  BY DEF LogFails, CleanChunksAreSaved
<1>10. Durable'
  BY <1>2, <1>7 DEF Durable
<1>11. FsyncCommits'
  BY <1>2, <1>3, <1>4 DEF FsyncCommits, Touched
<1> QED BY <1>2, <1>5, <1>6, <1>8, <1>9, <1>10, <1>11

LEMMA PublishKeeps ==
    ASSUME SeparateLogs, IInv, TypeOK', NEW c \in Client, NEW u \in Frame, Publish(c, u)
    PROVE  IInv'
<1> USE SortsAssumption DEF IInv
<1> DEFINE f == pend[c]
<1>1. /\ f \in Frame /\ Touched(f) # {} /\ up /\ up' = up /\ unsafe' = unsafe
      /\ mem' = Over(u, Over(f, mem))
      /\ dirty' = dirty \cup {ChunkOf[r] : r \in Touched(f) \cup Touched(u)}
      /\ pend'[c] = Blank
      /\ \A d \in Client : d # c => pend'[d] = pend[d]
      /\ UNCHANGED <<chunk, wal, txwal>>
  BY DEF Publish, TypeOK
<1>2. promised' = [r \in Row |->
          IF f[r] # Untouched THEN {f[r]}
          ELSE IF u[r] # Untouched THEN promised[r] \cup {u[r]}
          ELSE promised[r]]
  BY DEF Publish
<1>3. /\ GraphDelete(f) => /\ \A r \in Touched(u) : r \in GraphRow \ Touched(f)
                           /\ ckAt' = 1 /\ ckStage' = "scan"
      /\ ~GraphDelete(f) => u = Blank /\ UNCHANGED ckVars
  BY DEF Publish
<1>4. Touched(Blank) = {} /\ Touched(u) \cap Touched(f) = {}
  BY <1>3 DEF Touched, Blank
<1> HIDE DEF f
<1>5. ckAt = 0 /\ ~unsafe
  BY <1>1, <1>4 DEF CheckpointAlone, f
<1>6. ASSUME GraphDelete(f)
      PROVE  /\ GraphTypes = Type
             /\ \A d \in Client : d # c => ~InGraph(pend[d]) /\ pend[d] = Blank
  <2>1. InGraph(f) /\ GraphWrite(f) /\ GraphRow # {}
    BY <1>6 DEF GraphDelete, GraphWrite, InGraph
  <2>2. GraphTypes = Type
    BY <2>1 DEF SeparateLogs, GraphRow
  <2>3. GraphRow = Row
    BY <2>2, RowFacts DEF GraphRow
  <2>4. ASSUME NEW d \in Client, d # c PROVE ~InGraph(pend[d])
    BY <2>1, <2>4 DEF GraphExclusive, f
  <2>5. ASSUME NEW d \in Client, d # c PROVE pend[d] = Blank
    BY <2>4, <2>5, <2>3, FrameFacts DEF InGraph, Touched, TypeOK
  <2> QED BY <2>2, <2>4, <2>5
<1>7. LogsApart'
  BY <1>1 DEF LogsApart
<1>8. PendingDisjoint'
  BY <1>1, <1>4 DEF PendingDisjoint
<1>9. GraphExclusive'
  <2>1. ASSUME NEW a \in Client, NEW b \in Client, a # b, InGraph(pend'[a]), InGraph(pend'[b]),
               NEW r \in Touched(pend'[a]) \cap GraphRow, Absent \in {pend'[a][r], mem'[r]}
        PROVE  FALSE
    <3>1. a # c /\ b # c
      BY <2>1, <1>1, <1>4 DEF InGraph
    <3>2. ~GraphDelete(f)
      BY <3>1, <2>1, <1>1, <1>6
    <3>3. r \in Row /\ f[r] = Untouched /\ u[r] = Untouched
      <4>1. r \in Touched(pend[a])
        BY <2>1, <1>1, <3>1
      <4>2. Touched(pend[a]) \cap Touched(f) = {}
        BY <3>1 DEF PendingDisjoint, f
      <4> QED BY <4>1, <4>2, <3>2, <1>3 DEF Touched, Blank
    <3>4. mem'[r] = mem[r]
      BY <1>1, <3>3 DEF Over
    <3>5. GraphWrite(pend[a])
      BY <2>1, <1>1, <3>1, <3>4 DEF GraphWrite
    <3> QED BY <2>1, <1>1, <3>1, <3>5 DEF GraphExclusive
  <2> QED BY <2>1 DEF GraphExclusive, GraphWrite, InGraph
<1>10. CheckpointAlone'
  <2>1. CASE GraphDelete(f)
    BY <1>1, <1>3, <1>5, <1>6, <2>1 DEF CheckpointAlone
  <2>2. CASE ~GraphDelete(f)
    BY <1>1, <1>3, <1>5, <2>2 DEF CheckpointAlone, ckVars
  <2> QED BY <2>1, <2>2
<1>11. LiveIsPromised'
  <2>1. ASSUME NEW r \in Row PROVE mem'[r] \in promised'[r]
    <3>1. mem'[r] = IF u[r] # Untouched THEN u[r] ELSE IF f[r] # Untouched THEN f[r] ELSE mem[r]
      BY <1>1 DEF Over
    <3>2. f[r] # Untouched => u[r] = Untouched
      BY <1>4 DEF Touched
    <3>3. mem[r] \in promised[r]
      BY <1>1 DEF LiveIsPromised
    <3> QED BY <3>1, <3>2, <3>3, <1>2
  <2> QED BY <2>1 DEF LiveIsPromised
<1>12. CheckpointProgress'
  BY <1>3, <1>5 DEF CheckpointProgress, ckVars, Type
<1>13. CleanChunksAreSaved'
  <2>1. ASSUME NEW r \in Row, ChunkOf[r] \notin dirty' PROVE chunk'[r] = mem'[r]
    <3>1. f[r] = Untouched /\ u[r] = Untouched /\ ChunkOf[r] \notin dirty
      BY <2>1, <1>1 DEF Touched
    <3> QED BY <3>1, <1>1 DEF Over, CleanChunksAreSaved
  <2> QED BY <2>1 DEF CleanChunksAreSaved
<1>14. Durable'
  <2>1. ASSUME NEW r \in Row, Intact(r)' PROVE Recovered(r)' \in promised'[r]
    <3>1. Intact(r) /\ Recovered(r)' = Recovered(r)
      BY <2>1, <1>1, SameFiles
    <3>2. f[r] # Untouched => Recovered(r) = f[r]
      BY <3>1 DEF FsyncCommits, Touched, f
    <3>3. Recovered(r) \in promised[r]
      BY <3>1 DEF Durable
    <3> QED BY <3>1, <3>2, <3>3, <1>2
  <2> QED BY <2>1 DEF Durable
<1>15. FsyncCommits'
  <2>1. ASSUME NEW d \in Client, NEW r \in Touched(pend'[d]), Intact(r)'
        PROVE  Recovered(r)' = pend'[d][r]
    <3>1. d # c
      BY <2>1, <1>1, <1>4
    <3> QED BY <2>1, <3>1, <1>1, SameFiles DEF FsyncCommits, Touched
  <2> QED BY <2>1 DEF FsyncCommits, Touched
<1> QED BY <1>7, <1>8, <1>9, <1>10, <1>11, <1>12, <1>13, <1>14, <1>15

LEMMA FlushKeeps ==
    ASSUME SeparateLogs, IInv, TypeOK', NEW u \in Frame, Flush(u)
    PROVE  IInv'
<1> USE SortsAssumption DEF IInv
<1>1. \A d \in Client : pend[d] = Blank /\ pend'[d] = Blank /\ Touched(pend'[d]) = {}
  <2>1. \A d \in Client : Touched(pend[d]) = {} /\ pend' = pend
    BY DEF Flush, Pending
  <2> QED BY <2>1, FrameFacts DEF TypeOK
<1>2. UNCHANGED <<chunk, wal, txwal>> /\ up /\ up' /\ unsafe' /\ ckAt' = 1 /\ ckStage' = "scan"
  BY DEF Flush
<1>3. LogsApart'
  BY <1>2 DEF LogsApart
<1>4. PendingDisjoint' /\ GraphExclusive' /\ FsyncCommits'
  BY <1>1 DEF PendingDisjoint, GraphExclusive, FsyncCommits, InGraph
<1>5. CheckpointAlone' /\ CheckpointProgress'
  BY <1>1, <1>2 DEF CheckpointAlone, CheckpointProgress, Type
<1>6. \A r \in Row : promised[r] \subseteq promised'[r] /\ (u[r] # Untouched => u[r] \in promised'[r])
  BY DEF Flush, MayBecome
<1>7. \A r \in Row : mem'[r] = IF u[r] = Untouched THEN mem[r] ELSE u[r]
  BY DEF Flush, Over
<1>8. LiveIsPromised'
  BY <1>2, <1>6, <1>7 DEF LiveIsPromised
<1>9. CleanChunksAreSaved'
  <2>1. ASSUME NEW r \in Row, ChunkOf[r] \notin dirty' PROVE chunk'[r] = mem'[r]
    <3>1. u[r] = Untouched /\ ChunkOf[r] \notin dirty
      BY <2>1 DEF Flush, Touched
    <3> QED BY <3>1, <1>2, <1>7 DEF CleanChunksAreSaved
  <2> QED BY <2>1 DEF CleanChunksAreSaved
<1>10. Durable'
  BY <1>2, <1>6, SameFiles DEF Durable
<1> QED BY <1>3, <1>4, <1>5, <1>8, <1>9, <1>10

LEMMA ScanDirtyKeeps ==
    ASSUME SeparateLogs, IInv, TypeOK', ScanDirty
    PROVE  IInv'
<1> USE SortsAssumption DEF IInv
<1>1. UNCHANGED <<mem, chunk, dirty, wal, txwal, pend, ckAt, unsafe, up, promised>>
  BY DEF ScanDirty
<1>2. LogsApart' /\ PendingDisjoint' /\ GraphExclusive' /\ CheckpointAlone'
      /\ LiveIsPromised' /\ CleanChunksAreSaved'
  BY <1>1 DEF LogsApart, PendingDisjoint, GraphExclusive, GraphWrite, InGraph, CheckpointAlone,
              LiveIsPromised, CleanChunksAreSaved
<1>3. Durable' /\ FsyncCommits'
  BY <1>1, SameFiles DEF Durable, FsyncCommits, Touched
<1>4. CheckpointProgress'
  BY <1>1 DEF CheckpointProgress, ScanDirty, CkAtType
<1> QED BY <1>2, <1>3, <1>4

\* While a checkpoint runs no commit is under way, so the parts of the
\* invariant about commits hold whatever the checkpoint writes.
LEMMA IdleCommits ==
    ASSUME IInv, ckAt # 0, UNCHANGED pend
    PROVE  /\ \A c \in Client : pend[c] = Blank
           /\ PendingDisjoint' /\ GraphExclusive' /\ FsyncCommits'
           /\ Pending = {}
<1>1. Touched(Blank) = {}
  BY DEF Touched, Blank
<1>2. \A c \in Client : pend[c] = Blank /\ pend'[c] = Blank
  BY DEF IInv, CheckpointAlone
<1>3. PendingDisjoint' /\ GraphExclusive' /\ FsyncCommits'
  BY <1>1, <1>2 DEF PendingDisjoint, GraphExclusive, FsyncCommits, InGraph
<1>4. Pending = {}
  BY <1>1, <1>2 DEF Pending
<1> QED BY <1>2, <1>3, <1>4

LEMMA SaveChunkKeeps ==
    ASSUME SeparateLogs, IInv, TypeOK', NEW k \in Chunk, SaveChunk(k)
    PROVE  IInv'
<1> USE SortsAssumption DEF IInv
<1>1. /\ UNCHANGED <<mem, dirty, wal, txwal, pend, ckAt, ckStage, ckIdxs, unsafe, up, promised>>
      /\ ckAt \in Type /\ ckStage = "write" /\ up /\ ckAt # 0 /\ k \in ckTodo /\ ckTodo' = ckTodo \ {k}
  BY DEF SaveChunk, CkAtType, Type
<1>2. \A r \in Row : chunk'[r] = IF ChunkOf[r] = k THEN mem[r] ELSE chunk[r]
  BY DEF SaveChunk
<1>3. PendingDisjoint' /\ GraphExclusive' /\ FsyncCommits'
  BY <1>1, IdleCommits
<1>4. LogsApart' /\ CheckpointAlone' /\ LiveIsPromised'
  BY <1>1 DEF LogsApart, CheckpointAlone, LiveIsPromised
<1>5. CleanChunksAreSaved'
  BY <1>1, <1>2 DEF CleanChunksAreSaved
<1>6. CheckpointProgress'
  BY <1>1, <1>2 DEF CheckpointProgress
<1>7. Durable'
  <2>1. ASSUME NEW r \in Row, Intact(r)' PROVE Recovered(r)' \in promised'[r]
    <3>1. Intact(r) /\ Recovered(r) \in promised[r] /\ mem[r] \in promised[r]
      BY <2>1, <1>1 DEF Intact, Durable, LiveIsPromised
    <3>2. Recovered(r)' \in {Recovered(r), mem[r]}
      <4>1. CASE ChunkOf[r] = k
        <5>1. chunk'[r] = mem[r]
          BY <4>1, <1>2
        <5> QED BY <5>1, <1>1, ReplayBase DEF Recovered
      <4>2. CASE ChunkOf[r] # k
        BY <4>2, <1>1, <1>2 DEF Recovered
      <4> QED BY <4>1, <4>2
    <3> QED BY <3>1, <3>2, <1>1
  <2> QED BY <2>1 DEF Durable
<1> QED BY <1>3, <1>4, <1>5, <1>6, <1>7

LEMMA ClearDirtyKeeps ==
    ASSUME SeparateLogs, IInv, TypeOK', ClearDirty
    PROVE  IInv'
<1> USE SortsAssumption DEF IInv
<1>1. /\ UNCHANGED <<mem, chunk, wal, txwal, pend, ckAt, unsafe, up, promised>>
      /\ ckAt \in Type /\ ckStage = "write" /\ up /\ ckAt # 0
      /\ ckTodo = {} /\ dirty' = dirty \ ckIdxs /\ ckStage' = "truncate"
  BY DEF ClearDirty, CkAtType, Type
<1>2. PendingDisjoint' /\ GraphExclusive' /\ FsyncCommits'
  BY <1>1, IdleCommits
<1>3. LogsApart' /\ CheckpointAlone' /\ LiveIsPromised'
  BY <1>1 DEF LogsApart, CheckpointAlone, LiveIsPromised
<1>4. CleanChunksAreSaved'
  BY <1>1 DEF CleanChunksAreSaved, CheckpointProgress
<1>5. CheckpointProgress'
  BY <1>1 DEF CheckpointProgress
<1>6. Durable'
  BY <1>1, SameFiles DEF Durable
<1> QED BY <1>2, <1>3, <1>4, <1>5, <1>6

LEMMA TruncateWalKeeps ==
    ASSUME SeparateLogs, IInv, TypeOK', TruncateWal
    PROVE  IInv'
<1> USE SortsAssumption DEF IInv
<1>1. /\ UNCHANGED <<mem, chunk, dirty, txwal, pend, unsafe, up, promised>>
      /\ ckAt \in Type /\ ckStage = "truncate" /\ up /\ ckAt # 0
      /\ ckAt' = ckAt + 1 /\ ckStage' = "scan" /\ ckAt' # 0
  BY DEF TruncateWal, CkAtType, Type
<1>2. wal'[ckAt] = <<>> /\ \A t \in Type : t # ckAt => wal'[t] = wal[t]
  BY <1>1 DEF TruncateWal, TypeOK
<1>3. PendingDisjoint' /\ GraphExclusive' /\ FsyncCommits'
  BY <1>1, IdleCommits
<1>4. LogsApart' /\ CheckpointAlone' /\ LiveIsPromised' /\ CleanChunksAreSaved'
  BY <1>1, <1>2 DEF LogsApart, CheckpointAlone, LiveIsPromised, CleanChunksAreSaved
<1>5. CheckpointProgress'
  <2>1. ASSUME NEW t \in Type, t < ckAt + 1 PROVE wal'[t] = <<>> /\ ChunksOf(t) \cap dirty' = {}
    <3>1. t = ckAt \/ t < ckAt
      BY <2>1, <1>1 DEF Type
    <3> QED BY <3>1, <1>1, <1>2 DEF CheckpointProgress
  <2> QED BY <2>1, <1>1 DEF CheckpointProgress
<1>6. Durable'
  <2>1. ASSUME NEW r \in Row, Intact(r)' PROVE Recovered(r)' \in promised'[r]
    <3>1. RowType(r) \in Type /\ mem[r] \in promised[r]
      BY RowFacts, <1>1 DEF LiveIsPromised
    <3>2. CASE RowType(r) = ckAt /\ ckAt \in SingleTypes
      <4>1. \A i \in DOMAIN txwal : txwal[i].rows[r] = Untouched
        BY <3>2 DEF LogsApart, SeparateLogs
      <4>2. chunk[r] = mem[r]
        <5>1. ChunkOf[r] \notin dirty
          BY <3>2, <1>1, RowFacts DEF CheckpointProgress, ChunksOf, RowType
        <5> QED BY <5>1, <1>1 DEF CleanChunksAreSaved
      <4>3. Recovered(r)' = chunk[r]
        BY <4>1, <3>2, <1>1, <1>2, ReplayNothing, ReplayEmpty DEF Recovered
      <4> QED BY <4>2, <4>3, <3>1, <1>1
    <3>3. CASE ~(RowType(r) = ckAt /\ ckAt \in SingleTypes)
      <4>1. wal'[RowType(r)] = wal[RowType(r)]
        BY <3>1, <3>3, <1>1, <1>2 DEF LogsApart
      <4>2. Intact(r) /\ Recovered(r)' = Recovered(r)
        BY <4>1, <2>1, <1>1 DEF Intact, Recovered
      <4> QED BY <4>2, <1>1 DEF Durable
    <3> QED BY <3>2, <3>3
  <2> QED BY <2>1 DEF Durable
<1> QED BY <1>3, <1>4, <1>5, <1>6

LEMMA TruncateTxRecovers ==
    ASSUME SeparateLogs, IInv, TruncateTx, NEW r \in Row
    PROVE  Recovered(r)' = mem[r] /\ ChunkOf[r] \notin dirty
<1> USE SortsAssumption DEF IInv
<1>1. RowType(r) \in Type /\ RowType(r) < ckAt /\ ckAt # 0 /\ up
  BY RowFacts DEF TruncateTx, Type
<1>2. wal[RowType(r)] = <<>> /\ ChunkOf[r] \notin dirty
  BY <1>1, RowFacts DEF CheckpointProgress, ChunksOf, RowType
<1>3. chunk[r] = mem[r]
  BY <1>1, <1>2 DEF CleanChunksAreSaved
<1> QED BY <1>2, <1>3, ReplayEmpty DEF Recovered, TruncateTx

LEMMA TruncateTxKeeps ==
    ASSUME SeparateLogs, IInv, TypeOK', TruncateTx
    PROVE  IInv'
<1> USE SortsAssumption DEF IInv
<1>1. /\ UNCHANGED <<mem, chunk, dirty, wal, pend, up>> /\ up /\ ckAt # 0 /\ ckAt' = 0
      /\ txwal' = <<>> /\ unsafe' = FALSE
  BY DEF TruncateTx
<1>2. Pending = {} /\ PendingDisjoint' /\ GraphExclusive' /\ FsyncCommits'
  BY <1>1, IdleCommits
<1>3. \A r \in Row : promised'[r] = {mem[r]}
  BY <1>2 DEF TruncateTx
<1>4. LogsApart'
  <2>1. DOMAIN <<>> = {}
    OBVIOUS
  <2> QED BY <1>1, <2>1 DEF LogsApart
<1>5. CheckpointAlone' /\ LiveIsPromised' /\ CleanChunksAreSaved' /\ CheckpointProgress'
  BY <1>1, <1>3 DEF CheckpointAlone, LiveIsPromised, CleanChunksAreSaved, CheckpointProgress, Type
<1>6. Durable'
  BY <1>3, TruncateTxRecovers DEF Durable
<1> QED BY <1>2, <1>4, <1>5, <1>6

LEMMA CheckpointFailsKeeps ==
    ASSUME SeparateLogs, IInv, TypeOK', CheckpointFails
    PROVE  IInv'
<1> USE SortsAssumption DEF IInv
<1>1. /\ UNCHANGED <<mem, chunk, dirty, wal, txwal, pend, unsafe, up, promised>>
      /\ ckAt # 0 /\ up /\ ckAt' = 0
  BY DEF CheckpointFails, CkAtType, Type
<1>2. (\A c \in Client : pend[c] = Blank) /\ PendingDisjoint' /\ GraphExclusive' /\ FsyncCommits'
  BY <1>1, IdleCommits
<1>3. LogsApart' /\ LiveIsPromised' /\ CleanChunksAreSaved'
  BY <1>1 DEF LogsApart, LiveIsPromised, CleanChunksAreSaved
<1>4. CheckpointAlone' /\ CheckpointProgress'
  BY <1>1, <1>2 DEF CheckpointAlone, CheckpointProgress, Type
<1>5. Durable'
  BY <1>1, SameFiles DEF Durable
<1> QED BY <1>2, <1>3, <1>4, <1>5

\* A crash leaves nothing but the files and what callers were told.
LEMMA StopKeeps ==
    ASSUME IInv, TypeOK', Stop, LogsApart', Durable'
    PROVE  IInv'
<1> USE SortsAssumption DEF IInv
<1>1. ~up' /\ ckAt' = 0 /\ \A c \in Client : pend'[c] = Blank /\ Touched(pend'[c]) = {}
  BY DEF Stop, Touched, Blank
<1>2. PendingDisjoint' /\ GraphExclusive' /\ FsyncCommits'
  BY <1>1 DEF PendingDisjoint, GraphExclusive, FsyncCommits, InGraph
<1>3. CheckpointAlone' /\ CheckpointProgress' /\ LiveIsPromised' /\ CleanChunksAreSaved'
  BY <1>1 DEF CheckpointAlone, CheckpointProgress, LiveIsPromised, CleanChunksAreSaved, Type
<1> QED BY <1>2, <1>3

LEMMA CrashKeeps ==
    ASSUME SeparateLogs, IInv, TypeOK', Crash
    PROVE  IInv'
<1>1. LogsApart' /\ Durable'
  BY SameFiles DEF Crash, Stop, IInv, LogsApart, Durable
<1> QED BY <1>1, StopKeeps DEF Crash

LEMMA CrashInAppendKeeps ==
    ASSUME SeparateLogs, IInv, TypeOK', NEW f \in Frame, CrashInAppend(f)
    PROVE  IInv'
<1>1. /\ LogsApart'
      /\ \A r \in Row : Intact(r)' => Intact(r) /\ Recovered(r)' = Recovered(r)
  BY AppendRecovered DEF CrashInAppend, Stop, IInv
<1>2. Durable'
  BY <1>1 DEF CrashInAppend, IInv, Durable
<1> QED BY <1>1, <1>2, StopKeeps DEF CrashInAppend

LEMMA RecoverKeeps ==
    ASSUME SeparateLogs, IInv, TypeOK', Recover
    PROVE  IInv'
<1> USE SortsAssumption DEF IInv
<1>1. /\ UNCHANGED <<chunk, wal, txwal, pend, ckAt, ckStage, ckIdxs, ckTodo, unsafe>>
      /\ ~up /\ up' /\ ckAt = 0
      /\ \A r \in Row : mem'[r] = Recovered(r) /\ promised'[r] = {Recovered(r)}
  BY DEF Recover, ckVars, CheckpointAlone
<1>2. \A c \in Client : pend'[c] = Blank /\ Touched(pend'[c]) = {}
  BY <1>1 DEF CheckpointAlone, Touched, Blank
<1>3. PendingDisjoint' /\ GraphExclusive' /\ FsyncCommits'
  BY <1>2 DEF PendingDisjoint, GraphExclusive, FsyncCommits, InGraph
<1>4. LogsApart' /\ CheckpointAlone' /\ LiveIsPromised' /\ CheckpointProgress'
  BY <1>1, <1>2 DEF LogsApart, CheckpointAlone, LiveIsPromised, CheckpointProgress, Type
<1>5. CleanChunksAreSaved'
  <2>1. ASSUME NEW r \in Row, ChunkOf[r] \notin dirty' PROVE chunk'[r] = mem'[r]
    <3>1. ~RecoveryDirties(ChunkOf[r])
      BY <2>1, RowFacts DEF Recover
    <3> QED BY <3>1, <1>1 DEF RecoveryDirties
  <2> QED BY <2>1 DEF CleanChunksAreSaved
<1>6. Durable'
  BY <1>1, SameFiles DEF Durable
<1> QED BY <1>3, <1>4, <1>5, <1>6

LEMMA InvariantInit ==
    ASSUME Init
    PROVE  IInv
<1> USE SortsAssumption
<1>1. TypeOK
  BY TypeInit
<1>2. /\ DOMAIN <<>> = {} /\ wal = [t \in Type |-> <<>>] /\ txwal = <<>> /\ chunk = mem
      /\ \A c \in Client : pend[c] = Blank /\ Touched(pend[c]) = {}
      /\ \A r \in Row : promised[r] = {mem[r]}
      /\ ckAt = 0 /\ up /\ ~unsafe
  BY DEF Init, Touched, Blank
<1>3. \A r \in Row : Recovered(r) = mem[r]
  BY <1>2, RowFacts, ReplayEmpty DEF Recovered
<1>4. LogsApart /\ PendingDisjoint /\ GraphExclusive /\ FsyncCommits
  BY <1>2 DEF LogsApart, PendingDisjoint, GraphExclusive, InGraph, FsyncCommits
<1>5. CheckpointAlone /\ LiveIsPromised /\ CheckpointProgress /\ CleanChunksAreSaved /\ Durable
  BY <1>2, <1>3 DEF CheckpointAlone, LiveIsPromised, CheckpointProgress, CleanChunksAreSaved,
                    Durable, Type
<1> QED BY <1>1, <1>4, <1>5 DEF IInv

LEMMA InvariantStep ==
    ASSUME SeparateLogs, IInv, [Next]_vars
    PROVE  IInv'
<1>1. TypeOK'
  BY TypeStep DEF IInv
<1>2. CASE UNCHANGED vars
  BY <1>2 DEF vars, IInv, TypeOK, LogsApart, PendingDisjoint, GraphExclusive, GraphWrite, InGraph,
              CheckpointAlone, LiveIsPromised, CheckpointProgress, CleanChunksAreSaved, Durable,
              FsyncCommits, Recovered, Intact
<1>3. CASE Next
  BY <1>1, <1>3, LogKeeps, LogFailsKeeps, PublishKeeps, FlushKeeps, ScanDirtyKeeps,
     SaveChunkKeeps, ClearDirtyKeeps, TruncateWalKeeps, TruncateTxKeeps, CheckpointFailsKeeps,
     CrashKeeps, CrashInAppendKeeps, RecoverKeeps DEF Next
<1> QED BY <1>2, <1>3

----------------------------------------------------------------------------
(* Theorems *)

\* The invariant of the durability layer, from which the others follow.
THEOREM InvariantHolds ==
    ASSUME SeparateLogs
    PROVE  Spec => []IInv
<1>1. Init => IInv
  BY InvariantInit
<1>2. IInv /\ [Next]_vars => IInv'
  BY InvariantStep
<1> QED BY <1>1, <1>2, PTL DEF Spec

\* A crash at any point, inside a commit or a checkpoint too, loses no
\* acknowledged commit, as long as nothing was appended behind a partial frame.
THEOREM CommitsSurvive ==
    ASSUME SeparateLogs
    PROVE  Spec => []Durable
<1>1. IInv => Durable
  BY DEF IInv
<1> QED BY <1>1, InvariantHolds, PTL

\* The fsync of appendFrame is the commit point: from then on the whole frame
\* is recovered, whether or not it was published.
THEOREM FsyncIsCommitPoint ==
    ASSUME SeparateLogs
    PROVE  Spec => []FsyncCommits
<1>1. IInv => FsyncCommits
  BY DEF IInv
<1> QED BY <1>1, InvariantHolds, PTL

\* save may skip every chunk without a dirty mark.
THEOREM SkippedChunksAreSaved ==
    ASSUME SeparateLogs
    PROVE  Spec => []CleanChunksAreSaved
<1>1. IInv => CleanChunksAreSaved
  BY DEF IInv
<1> QED BY <1>1, InvariantHolds, PTL

----------------------------------------------------------------------------
(* Checkpoints *)

\* One checkpoint step leaves each recovered row alone or makes it live.
LEMMA CheckpointMoves ==
    ASSUME SeparateLogs, IInv, CheckpointStep, NEW r \in Row
    PROVE  Recovered(r)' \in {Recovered(r), mem[r]}
<1> USE SortsAssumption DEF IInv
<1>1. CASE ScanDirty
  BY <1>1, SameFiles DEF ScanDirty
<1>2. ASSUME NEW k \in Chunk, SaveChunk(k) PROVE Recovered(r)' \in {Recovered(r), mem[r]}
  <2>1. UNCHANGED <<wal, txwal>> /\ chunk'[r] \in {chunk[r], mem[r]}
    BY <1>2 DEF SaveChunk
  <2> QED BY <2>1, ReplayBase DEF Recovered
<1>3. CASE ClearDirty
  BY <1>3, SameFiles DEF ClearDirty
<1>4. CASE TruncateWal
  <2>1. /\ UNCHANGED <<mem, chunk, dirty, txwal>> /\ ckAt \in Type /\ up
        /\ RowType(r) \in Type /\ ckStage = "truncate"
    BY <1>4, RowFacts DEF TruncateWal, CkAtType
  <2>2. CASE RowType(r) = ckAt
    <3>1. ChunkOf[r] \notin dirty
      BY <2>1, <2>2, RowFacts DEF CheckpointProgress, ChunksOf, RowType
    <3>2. chunk[r] = mem[r]
      BY <3>1, <2>1 DEF CleanChunksAreSaved
    <3>3. wal'[RowType(r)] = <<>>
      BY <1>4, <2>1, <2>2 DEF TruncateWal, TypeOK
    <3>4. CASE ckAt \in SingleTypes
      <4>1. \A i \in DOMAIN txwal : txwal[i].rows[r] = Untouched
        BY <2>2, <3>4 DEF LogsApart, SeparateLogs
      <4> QED BY <4>1, <2>1, <3>2, <3>3, ReplayNothing, ReplayEmpty DEF Recovered
    <3>5. CASE ckAt \notin SingleTypes
      BY <2>1, <2>2, <3>3, <3>5 DEF LogsApart, Recovered
    <3> QED BY <3>4, <3>5
  <2>3. CASE RowType(r) # ckAt
    <3>1. wal'[RowType(r)] = wal[RowType(r)]
      BY <1>4, <2>1, <2>3 DEF TruncateWal, TypeOK
    <3> QED BY <3>1, <2>1 DEF Recovered
  <2> QED BY <2>2, <2>3
<1>5. CASE TruncateTx
  BY <1>5, TruncateTxRecovers
<1> QED BY <1>1, <1>2, <1>3, <1>4, <1>5 DEF CheckpointStep

\* A checkpoint never brings an older committed value back.
THEOREM CheckpointsKeepCommits ==
    ASSUME SeparateLogs
    PROVE  Spec => CheckpointKeepsCommits
<1>1. IInv /\ [Next]_vars =>
        [CheckpointStep =>
            \A r \in Row : Intact(r) => Recovered(r)' \in {Recovered(r), mem[r]}]_vars
  BY CheckpointMoves
<1> QED BY <1>1, InvariantHolds, PTL DEF Spec, CheckpointKeepsCommits

----------------------------------------------------------------------------
(* Refinement of DurableStore, when no append leaves a partial frame *)

NoTears ==
    /\ \A t \in Type : \A i \in DOMAIN wal[t] : ~wal[t][i].torn
    /\ \A i \in DOMAIN txwal : ~txwal[i].torn

LEMMA NoTearsIntact ==
    ASSUME NoTears, NEW r \in Row
    PROVE  Intact(r)
BY RowFacts DEF NoTears, Intact, Buried

LEMMA AppendNoTears ==
    ASSUME TypeOK, NoTears, NEW f \in Frame, AppendFrame(f, FALSE)
    PROVE  NoTears'
<1> DEFINE entry == [torn |-> FALSE, rows |-> f]
<1>1. entry \in Entry /\ entry.torn = FALSE
  BY DEF Entry
<1> HIDE DEF entry
<1>2. ASSUME NEW log \in Seq(Entry), \A i \in DOMAIN log : ~log[i].torn
      PROVE  \A i \in DOMAIN Append(log, entry) : ~Append(log, entry)[i].torn
  BY <1>1, <1>2, AppendFacts
<1>3. ASSUME NEW t \in SingleTypes, wal' = [wal EXCEPT ![t] = Append(@, entry)], UNCHANGED txwal
      PROVE  NoTears'
  <2>1. t \in Type /\ wal[t] \in Seq(Entry)
    BY SortsAssumption DEF TypeOK
  <2>2. wal'[t] = Append(wal[t], entry) /\ \A s \in Type : s # t => wal'[s] = wal[s]
    BY <1>3, <2>1 DEF TypeOK
  <2>3. \A i \in DOMAIN wal'[t] : ~wal'[t][i].torn
    BY <2>1, <2>2, <1>2 DEF NoTears
  <2> QED BY <1>3, <2>2, <2>3 DEF NoTears
<1>4. ASSUME txwal' = Append(txwal, entry), UNCHANGED wal
      PROVE  NoTears'
  BY <1>2, <1>4 DEF NoTears, TypeOK
<1> QED BY <1>3, <1>4 DEF AppendFrame, entry

LEMMA NoTearsStep ==
    ASSUME ~TornWrites, TypeOK, NoTears, [Next]_vars
    PROVE  NoTears'
<1>1. ASSUME NEW c \in Client, NEW f \in Frame, Log(c, f) PROVE NoTears'
  BY <1>1, AppendNoTears DEF Log
<1>2. ASSUME NEW f \in Frame, NEW torn \in BOOLEAN, LogFails(f, torn) PROVE NoTears'
  <2>1. torn = FALSE
    BY <1>2 DEF LogFails
  <2> QED BY <1>2, <2>1, AppendNoTears DEF LogFails
<1>3. CASE TruncateWal
  <2>1. DOMAIN <<>> = {}
    OBVIOUS
  <2>2. \A t \in Type : wal'[t] = wal[t] \/ wal'[t] = <<>>
    BY <1>3 DEF TruncateWal, TypeOK
  <2> QED BY <1>3, <2>1, <2>2 DEF TruncateWal, NoTears
<1>4. CASE TruncateTx
  <2>1. DOMAIN <<>> = {}
    OBVIOUS
  <2> QED BY <1>4, <2>1 DEF TruncateTx, NoTears
<1>5. CASE UNCHANGED <<wal, txwal>>
  BY <1>5 DEF NoTears
<1> QED
  BY <1>1, <1>2, <1>3, <1>4, <1>5
  DEF Next, vars, Publish, Flush, ScanDirty, SaveChunk, ClearDirty, CheckpointFails, Crash,
      CrashInAppend, Recover

LEMMA AbstractInit ==
    ASSUME Init
    PROVE  Abstract!Init
<1>1. /\ DOMAIN <<>> = {} /\ wal = [t \in Type |-> <<>>] /\ txwal = <<>> /\ chunk = mem
      /\ mem \in [Row -> Cell]
  BY DEF Init
<1>2. \A r \in Row : Recovered(r) = mem[r]
  BY <1>1, RowFacts, ReplayEmpty DEF Recovered
<1>3. DurableValues = mem
  BY <1>1, <1>2 DEF DurableValues
<1> QED BY <1>1, <1>3 DEF Init, Abstract!Init, Abstract!Cell, Cell, Abstract!Blank, Blank

\* The abstract module's vocabulary is this one's.
LEMMA SameVocabulary ==
    /\ Abstract!Frame = Frame
    /\ Abstract!Blank = Blank
    /\ Abstract!Busy = Pending
    /\ \A f \in Frame : Abstract!Touched(f) = Touched(f)
    /\ \A f \in Frame : \A s \in [Row -> Cell] : Abstract!Over(f, s) = Over(f, s)
BY DEF Abstract!Frame, Frame, Abstract!Cell, Cell, Abstract!Blank, Blank, Abstract!Busy, Pending,
       Abstract!Touched, Touched, Abstract!Over, Over

LEMMA SameDurable ==
    ASSUME UNCHANGED <<chunk, wal, txwal>>
    PROVE  DurableValues' = DurableValues
BY SameFiles DEF DurableValues

LEMMA AppendDurable ==
    ASSUME SeparateLogs, IInv, NoTears, NoTears', UNCHANGED chunk,
           NEW f \in Frame, AppendFrame(f, FALSE)
    PROVE  DurableValues' = Abstract!Over(f, DurableValues)
<1>1. \A r \in Row : Recovered(r)' = IF f[r] = Untouched THEN Recovered(r) ELSE f[r]
  <2>1. ASSUME NEW r \in Row PROVE Intact(r)'
    BY RowFacts DEF NoTears, Intact, Buried
  <2> QED BY <2>1, AppendRecovered DEF IInv
<1> QED BY <1>1 DEF DurableValues, Abstract!Over

LEMMA CheckpointPersists ==
    ASSUME SeparateLogs, IInv, CheckpointStep
    PROVE  \E rows \in SUBSET Row : Abstract!Persist(rows)
<1>1. UNCHANGED <<mem, pend, up>> /\ up /\ ckAt # 0
  BY SortsAssumption DEF CheckpointStep, ScanDirty, SaveChunk, ClearDirty, TruncateWal, TruncateTx,
                         CkAtType, Type
<1>2. Abstract!Busy = {}
  BY <1>1, IdleCommits, SameVocabulary
<1> DEFINE rows == {r \in Row : Recovered(r)' = mem[r]}
<1>3. DurableValues' = [r \in Row |-> IF r \in rows THEN mem[r] ELSE DurableValues[r]]
  BY CheckpointMoves DEF DurableValues
<1>4. Abstract!Persist(rows)
  BY <1>1, <1>2, <1>3 DEF Abstract!Persist
<1> QED BY <1>4

LEMMA AbstractStep ==
    ASSUME SeparateLogs, ~TornWrites, IInv, NoTears, NoTears', [Next]_vars
    PROVE  [Abstract!Next]_(Abstract!vars)
<1>1. ASSUME NEW c \in Client, NEW f \in Frame, Log(c, f)
      PROVE  Abstract!Commit(c, f)
  <2>1. DurableValues' = Abstract!Over(f, DurableValues)
    BY <1>1, AppendDurable DEF Log
  <2> QED BY <1>1, <2>1, SameVocabulary DEF Abstract!Commit, Log, Admissible
<1>2. ASSUME NEW f \in Frame, NEW torn \in BOOLEAN, LogFails(f, torn)
      PROVE  Abstract!CommitInDoubt(f)
  <2>1. torn = FALSE
    BY <1>2 DEF LogFails
  <2>2. DurableValues' = Abstract!Over(f, DurableValues)
    BY <1>2, <2>1, AppendDurable DEF LogFails
  <2> QED BY <1>2, <2>2, SameVocabulary DEF Abstract!CommitInDoubt, LogFails, Admissible
<1>3. ASSUME NEW c \in Client, NEW u \in Frame, Publish(c, u)
      PROVE  Abstract!Publish(c, u)
  <2>1. DurableValues' = DurableValues
    BY <1>3, SameDurable DEF Publish
  <2>2. mem' = Abstract!Over(u, Abstract!Over(pend[c], mem))
    BY <1>3 DEF Publish, Over, Abstract!Over
  <2> QED BY <1>3, <2>1, <2>2, SameVocabulary DEF Abstract!Publish, Publish
<1>4. ASSUME NEW u \in Frame, Flush(u)
      PROVE  Abstract!UnloggedWrite(u)
  <2>1. DurableValues' = DurableValues
    BY <1>4, SameDurable DEF Flush
  <2>2. mem' = Abstract!Over(u, mem)
    BY <1>4 DEF Flush, Over, Abstract!Over
  <2> QED BY <1>4, <2>1, <2>2 DEF Abstract!UnloggedWrite, Flush
<1>5. ASSUME CheckpointStep
      PROVE  \E rows \in SUBSET Row : Abstract!Persist(rows)
  BY <1>5, CheckpointPersists
<1>6. CASE CheckpointFails
  BY <1>6, SameDurable DEF CheckpointFails, Abstract!vars
<1>7. CASE Crash
  BY <1>7, SameDurable, SameVocabulary DEF Crash, Stop, Abstract!Crash, Abstract!Next
<1>8. ASSUME NEW f \in Frame, CrashInAppend(f) PROVE FALSE
  BY <1>8 DEF CrashInAppend
<1>9. CASE Recover
  <2>1. DurableValues' = DurableValues
    BY <1>9, SameDurable DEF Recover
  <2> QED BY <1>9, <2>1 DEF Recover, DurableValues, Abstract!Restart, Abstract!Next
<1>10. CASE UNCHANGED vars
  BY <1>10, SameDurable DEF vars, Abstract!vars
<1> QED
  BY <1>1, <1>2, <1>3, <1>4, <1>5, <1>6, <1>7, <1>8, <1>9, <1>10, SameVocabulary
  DEF Next, CheckpointStep, Abstract!Next

\* Chunk files, dirty flags, one log per type and the cross-type log together
\* behave like one durable value per row that a commit changes in one step.
THEOREM Refinement ==
    ASSUME SeparateLogs, ~TornWrites
    PROVE  Spec => ImplementsDurableStore
<1>1. Init => Abstract!Init /\ NoTears
  <2>1. Init => NoTears
    <3>1. DOMAIN <<>> = {}
      OBVIOUS
    <3> QED BY <3>1 DEF Init, NoTears
  <2> QED BY <2>1, AbstractInit
<1>2. IInv /\ NoTears /\ [Next]_vars => NoTears'
  BY NoTearsStep DEF IInv
<1>3. IInv /\ NoTears /\ NoTears' /\ [Next]_vars => [Abstract!Next]_(Abstract!vars)
  BY AbstractStep
<1> QED BY <1>1, <1>2, <1>3, InvariantHolds, PTL DEF Spec, ImplementsDurableStore, Abstract!Spec
=============================================================================
