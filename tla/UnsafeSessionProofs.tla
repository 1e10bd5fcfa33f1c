-------------------------- MODULE UnsafeSessionProofs --------------------------
(***************************************************************************)
(* Proofs about UnsafeSession: type correctness, that the files open after *)
(* every crash, that numbers are given out once, and that a Flush that     *)
(* returns nil did what was queued; for every number of ids, keys, queued  *)
(* creates and restarts.                                                   *)
(***************************************************************************)
EXTENDS UnsafeSession, NatFacts

\* Outside a session memory, files and (empty) queues agree, and a session never
\* overlaps a transaction that has staged a create.
SessionsAreExclusive ==
    /\ ~session => queue = <<>> /\ doomed = {} /\ live = Stored
    /\ session => staged = {}

\* The counter is past every id in use, in memory or waiting.
CounterIsPast ==
    ~program.explicit => \A i \in Rows \cup Queued \cup staged \cup doomed : i <= counter

\* No queued create is queued for deletion as well, until one of them is live: from
\* then on no Flush of the session gets past relationApplyPending.
DeletesAreOfOthers ==
    ~program.explicit => \/ \E n \in 1 .. Len(queue) : queue[n].id \in Rows
                         \/ Queued \cap doomed = {}

Inv == SessionsAreExclusive /\ CounterIsPast /\ DeletesAreOfOthers /\ RestartOpens

----------------------------------------------------------------------------
(* What Flush computes *)

\* An entry of the queue is an id and a key.
LEMMA QueueEntry ==
    ASSUME TypeOK
    PROVE  /\ Len(queue) \in Nat
           /\ \A n \in 1 .. Len(queue) : queue[n].id \in Id /\ queue[n].key \in Key
<1> DEFINE E == [id : Id, key : Key]
<1>1. queue \in Seq(E)
  BY DEF TypeOK
<1>2. \A e \in E : e.id \in Id /\ e.key \in Key
  OBVIOUS
<1> HIDE DEF E
<1>3. Len(queue) \in Nat /\ \A n \in 1 .. Len(queue) : queue[n] \in E
  BY <1>1
<1> QED BY <1>2, <1>3

\* A Flush or a restart leaves an empty queue, which is one of no entries.
LEMMA EmptyQueue == <<>> \in Seq([id : Id, key : Key])
<1> DEFINE E == [id : Id, key : Key]
<1>1. <<>> \in Seq(E)
  <2> HIDE DEF E
  <2> QED OBVIOUS
<1> QED BY <1>1

\* relationApplyPending sets each row it adds to the key of an entry that it
\* added, and keeps every other row.
LEMMA AddedRows ==
    ASSUME TypeOK
    PROVE  /\ WithAdded \in [Id -> Key \cup {None}]
           /\ \A i \in Id : \/ WithAdded[i] = live[i] /\ \A n \in Added : queue[n].id # i
                            \/ \E n \in Added : queue[n].id = i /\ WithAdded[i] = queue[n].key
<1>1. ASSUME NEW i \in Id
      PROVE  \/ WithAdded[i] = live[i] /\ \A n \in Added : queue[n].id # i
             \/ \E n \in Added : queue[n].id = i /\ WithAdded[i] = queue[n].key
  <2>1. CASE \E n \in Added : queue[n].id = i
    <3> DEFINE c == CHOOSE n \in Added : queue[n].id = i
    <3>1. c \in Added /\ queue[c].id = i
      BY <2>1
    <3>2. WithAdded[i] = queue[c].key
      BY <2>1 DEF WithAdded
    <3> QED BY <3>1, <3>2
  <2>2. CASE ~\E n \in Added : queue[n].id = i
    BY <2>2 DEF WithAdded
  <2> QED BY <2>1, <2>2
<1>2. ASSUME NEW i \in Id PROVE WithAdded[i] \in Key \cup {None}
  <2>1. CASE WithAdded[i] = live[i]
    BY <2>1 DEF TypeOK
  <2>2. CASE \E n \in Added : WithAdded[i] = queue[n].key
    BY <2>2, QueueEntry DEF Added
  <2> QED BY <1>1, <2>1, <2>2
<1>3. WithAdded = [i \in Id |-> WithAdded[i]]
  BY DEF WithAdded
<1> QED BY <1>1, <1>2, <1>3

\* A row is in memory after relationApplyPending exactly when it was there or an
\* entry of the queue added it.
LEMMA AddedIds ==
    ASSUME TypeOK, NEW i \in Id
    PROVE  WithAdded[i] # None <=> i \in Rows \/ \E n \in Added : queue[n].id = i
<1>1. \A n \in Added : queue[n].key # None
  BY QueueEntry, SessionAssumption DEF Added
<1> QED BY <1>1, AddedRows DEF Rows, TypeOK

\* A queue that relationApplyPending takes whole has no live id, and each of its
\* creates is in memory with its own key.
LEMMA WholeQueue ==
    ASSUME TypeOK, AllAdded, NEW n \in 1 .. Len(queue)
    PROVE  queue[n].id \notin Rows /\ WithAdded[queue[n].id] = queue[n].key
<1>1. Len(queue) \in Nat
  BY QueueEntry
<1>2. \A m \in 1 .. Len(queue) : ~Clashes(m)
  BY <1>1 DEF AllAdded, Added
<1>3. PICK m \in Added : queue[m].id = queue[n].id /\ WithAdded[queue[n].id] = queue[m].key
  BY AddedRows, QueueEntry DEF AllAdded
<1>4. m \in 1 .. Len(queue)
  BY DEF Added
<1>5. ~(m < n) /\ ~(n < m)
  BY <1>1, <1>2, <1>3, <1>4 DEF Clashes
<1>6. m = n
  BY <1>1, <1>4, <1>5
<1> QED BY <1>2, <1>3, <1>6 DEF Clashes

\* relationDelete leaves rows behind, of the same type.
LEMMA DoomedRows ==
    ASSUME TypeOK
    PROVE  /\ WithoutDoomed \in [Id -> Key \cup {None}]
           /\ \A i \in Id : WithoutDoomed[i] = IF i \in doomed THEN None ELSE WithAdded[i]
BY AddedRows DEF WithoutDoomed

\* What Register loads is rows.
LEMMA StoredRows ==
    ASSUME TypeOK
    PROVE  /\ Stored \in [Id -> Key \cup {None}]
           /\ \A i \in Id : Stored[i] = IF wal[i] = Unlogged THEN chunk[i] ELSE wal[i]
BY SessionAssumption DEF Stored, TypeOK

\* seedCounter finds the largest id of the rows that Register loaded.
LEMMA SeedCounter ==
    ASSUME TypeOK, NEW S \in SUBSET Id
    PROVE  /\ Largest({0} \cup S) \in 0 .. MaxId
           /\ \A i \in S : i <= Largest({0} \cup S)
<1> DEFINE T == {0} \cup S
<1>1. MaxId \in Nat /\ T \in SUBSET (0 .. MaxId) /\ T # {}
  BY SessionAssumption DEF Id
<1>2. \E x \in T : \A y \in T : y <= x
  <2> HIDE DEF T
  <2> QED BY <1>1, GreatestElement
<1>3. Largest(T) \in T /\ \A y \in T : y <= Largest(T)
  <2> HIDE DEF T
  <2> QED BY <1>2 DEF Largest
<1> QED BY <1>1, <1>3

----------------------------------------------------------------------------
(* Type correctness *)

\* Every action keeps rows, queues, counter and files of their types.
LEMMA TypeStep == TypeOK /\ [Next]_vars => TypeOK'
<1> SUFFICES ASSUME TypeOK, [Next]_vars PROVE TypeOK'
  OBVIOUS
<1> USE DEF files, queues, setting
<1>1. CASE TxReserve
  BY <1>1, SessionAssumption DEF TxReserve, TypeOK, Id
<1>2. ASSUME NEW i \in Id, TxReserveExplicit(i) PROVE TypeOK'
  BY <1>2, SessionAssumption DEF TxReserveExplicit, TypeOK, Id
<1>3. ASSUME NEW i \in Id, TxAbort(i) PROVE TypeOK'
  BY <1>3 DEF TxAbort, TypeOK
<1>4. ASSUME NEW i \in Id, TxDelete(i) PROVE TypeOK'
  BY <1>4 DEF TxDelete, TypeOK
<1>5. ASSUME NEW i \in Id, QueueDelete(i) PROVE TypeOK'
  BY <1>5 DEF QueueDelete, TypeOK
<1>6. ASSUME NEW i \in Id, NEW k \in Key, TxCommit(i, k) PROVE TypeOK'
  BY <1>6 DEF TxCommit, TypeOK
<1>7. ASSUME NEW i \in Id, NEW k \in Key, QueueCreateExplicit(i, k) PROVE TypeOK'
  BY <1>7 DEF QueueCreateExplicit, TypeOK
<1>8. ASSUME NEW i \in Id, NEW k \in Key, Edit(i, k) PROVE TypeOK'
  BY <1>8 DEF Edit, TypeOK
<1>9. ASSUME NEW k \in Key, QueueCreate(k) PROVE TypeOK'
  <2>1. counter + 1 \in Id
    BY <1>9, SessionAssumption DEF QueueCreate, TypeOK, Id
  <2>2. counter' \in 0 .. MaxId
    BY <2>1, <1>9 DEF QueueCreate, Id
  <2> QED BY <1>9, <2>1, <2>2 DEF QueueCreate, TypeOK
<1>10. CASE FlushRefusesId
  BY <1>10, AddedRows DEF FlushRefusesId, FlushFails, TypeOK
<1>11. CASE FlushRefusesKey
  BY <1>11, DoomedRows DEF FlushRefusesKey, FlushFails, TypeOK
<1>12. CASE FlushFailsToSave
  BY <1>12, DoomedRows DEF FlushFailsToSave, FlushFails, TypeOK, Truncated
<1>13. CASE Flush
  BY <1>13, DoomedRows, EmptyQueue DEF Flush, Save, TypeOK, Truncated
<1>14. CASE Restart
  <2>1. counter' \in 0 .. MaxId
    BY <1>14, SeedCounter DEF Restart
  <2>2. restarts' \in 0 .. MaxRestarts
    BY <1>14, SessionAssumption DEF Restart, TypeOK
  <2> QED BY <1>14, <2>1, <2>2, StoredRows, EmptyQueue DEF Restart, TypeOK
<1>15. CASE UNCHANGED vars
  BY <1>15 DEF vars, TypeOK
<1> QED BY <1>1, <1>2, <1>3, <1>4, <1>5, <1>6, <1>7, <1>8, <1>9, <1>10, <1>11,
           <1>12, <1>13, <1>14, <1>15 DEF Next

\* A new database is one of empty rows, queues and files.
LEMMA InitTyped == Init => TypeOK
<1>1. ASSUME Init PROVE TypeOK
  <2>1. live \in [Id -> Key \cup {None}] /\ chunk \in [Id -> Key \cup {None}]
    BY <1>1 DEF Init
  <2>2. wal \in [Id -> Key \cup {None, Unlogged}]
    BY <1>1 DEF Init, Truncated
  <2>3. counter \in 0 .. MaxId /\ restarts \in 0 .. MaxRestarts
    BY <1>1, SessionAssumption DEF Init
  <2> QED BY <1>1, <2>1, <2>2, <2>3, EmptyQueue DEF Init, TypeOK
<1> QED BY <1>1

\* Rows, queues, counter and files have their types in every reachable state.
THEOREM TypeCorrect == Spec => []TypeOK
BY InitTyped, TypeStep, PTL DEF Spec

----------------------------------------------------------------------------
(* The inductive invariant, part by part *)

\* Outside a session there is nothing to flush and memory is what Register would
\* load: transactions write both, Flush and Register make them equal.
LEMMA ExclusiveStep == TypeOK /\ SessionsAreExclusive /\ [Next]_vars => SessionsAreExclusive'
<1> SUFFICES ASSUME TypeOK, SessionsAreExclusive, [Next]_vars PROVE SessionsAreExclusive'
  OBVIOUS
<1> USE DEF files, queues, setting
<1>1. CASE TxReserve
  BY <1>1 DEF TxReserve, SessionsAreExclusive, Stored
<1>2. ASSUME NEW i \in Id, TxReserveExplicit(i) PROVE SessionsAreExclusive'
  BY <1>2 DEF TxReserveExplicit, SessionsAreExclusive, Stored
<1>3. ASSUME NEW i \in Id, TxAbort(i) PROVE SessionsAreExclusive'
  BY <1>3 DEF TxAbort, SessionsAreExclusive, Stored
<1>4. ASSUME NEW i \in Id, TxDelete(i) PROVE SessionsAreExclusive'
  <2>1. live' = Stored'
    BY <1>4, SessionAssumption DEF TxDelete, SessionsAreExclusive, Stored, TypeOK
  <2> QED BY <1>4, <2>1 DEF TxDelete, SessionsAreExclusive
<1>5. ASSUME NEW i \in Id, QueueDelete(i) PROVE SessionsAreExclusive'
  BY <1>5 DEF QueueDelete, SessionsAreExclusive, Exclusive
<1>6. ASSUME NEW i \in Id, NEW k \in Key, TxCommit(i, k) PROVE SessionsAreExclusive'
  <2>1. ~session
    BY <1>6 DEF TxCommit, SessionsAreExclusive
  <2>2. live' = Stored'
    BY <1>6, <2>1, SessionAssumption DEF TxCommit, SessionsAreExclusive, Stored, TypeOK
  <2> QED BY <1>6, <2>1, <2>2 DEF TxCommit, SessionsAreExclusive
<1>7. ASSUME NEW i \in Id, NEW k \in Key, QueueCreateExplicit(i, k) PROVE SessionsAreExclusive'
  BY <1>7 DEF QueueCreateExplicit, SessionsAreExclusive, Exclusive
<1>8. ASSUME NEW i \in Id, NEW k \in Key, Edit(i, k) PROVE SessionsAreExclusive'
  BY <1>8 DEF Edit, SessionsAreExclusive, Exclusive
<1>9. ASSUME NEW k \in Key, QueueCreate(k) PROVE SessionsAreExclusive'
  BY <1>9 DEF QueueCreate, SessionsAreExclusive, Exclusive
<1>10. CASE FlushRefusesId
  BY <1>10 DEF FlushRefusesId, FlushFails, SessionsAreExclusive, Exclusive
<1>11. CASE FlushRefusesKey
  BY <1>11 DEF FlushRefusesKey, FlushFails, SessionsAreExclusive, Exclusive
<1>12. CASE FlushFailsToSave
  BY <1>12 DEF FlushFailsToSave, FlushFails, SessionsAreExclusive, Exclusive
<1>13. CASE Flush
  <2>1. live' = Stored'
    BY <1>13, DoomedRows DEF Flush, Save, Stored, Truncated
  <2> QED BY <1>13, <2>1 DEF Flush, Save, SessionsAreExclusive
<1>14. CASE Restart
  BY <1>14 DEF Restart, SessionsAreExclusive, Stored
<1>15. CASE UNCHANGED vars
  BY <1>15 DEF vars, SessionsAreExclusive, Stored
<1> QED BY <1>1, <1>2, <1>3, <1>4, <1>5, <1>6, <1>7, <1>8, <1>9, <1>10, <1>11,
           <1>12, <1>13, <1>14, <1>15 DEF Next

\* The files hold no duplicate key: a commit checks its key against memory, which
\* is what the files hold, and Flush replaces the files by rows it has indexed.
LEMMA OpensStep ==
    TypeOK /\ SessionsAreExclusive /\ SessionsAreExclusive' /\ RestartOpens /\ [Next]_vars => RestartOpens'
<1> SUFFICES ASSUME TypeOK, SessionsAreExclusive, SessionsAreExclusive', RestartOpens, [Next]_vars
             PROVE  RestartOpens'
  OBVIOUS
<1> USE DEF files, queues, setting
<1>1. CASE UNCHANGED <<chunk, wal, program>>
  BY <1>1 DEF RestartOpens, KeysUnique, Stored
<1>2. ASSUME NEW i \in Id, TxDelete(i) PROVE RestartOpens'
  <2>1. Stored' = [Stored EXCEPT ![i] = None]
    BY <1>2, SessionAssumption DEF TxDelete, Stored, TypeOK
  <2> QED BY <1>2, <2>1, StoredRows DEF TxDelete, RestartOpens, KeysUnique
<1>3. ASSUME NEW i \in Id, NEW k \in Key, TxCommit(i, k) PROVE RestartOpens'
  <2>1. ~session /\ ~session'
    BY <1>3 DEF TxCommit, SessionsAreExclusive
  <2>2. live = Stored /\ live' = Stored'
    BY <2>1 DEF SessionsAreExclusive
  <2>3. KeysUnique(live) => KeysUnique(live')
    BY <1>3 DEF TxCommit, KeysUnique, TypeOK
  <2> QED BY <1>3, <2>2, <2>3 DEF TxCommit, RestartOpens
<1>4. CASE FlushFailsToSave
  BY <1>4 DEF FlushFailsToSave, FlushFails, RestartOpens
<1>5. CASE Flush
  <2>1. live' = Stored'
    BY <1>5 DEF Flush, Save, SessionsAreExclusive
  <2> QED BY <1>5, <2>1 DEF Flush, Save, RestartOpens
<1> QED BY <1>1, <1>2, <1>3, <1>4, <1>5 DEF Next, vars, TxReserve, TxReserveExplicit, TxAbort,
           QueueDelete, QueueCreateExplicit, Edit, QueueCreate, FlushRefusesId,
           FlushRefusesKey, FlushFails, Restart

\* A Flush keeps in memory only rows that were there or were queued.
LEMMA FlushIds ==
    ASSUME TypeOK, NEW i \in Id
    PROVE  /\ WithAdded[i] # None => i \in Rows \cup Queued
           /\ WithoutDoomed[i] # None => i \in Rows \cup Queued
<1>1. WithAdded[i] # None => i \in Rows \cup Queued
  BY AddedIds DEF Added, Queued
<1> QED BY <1>1, DoomedRows

\* The counter stays past every id in use: it moves with each id it hands out and
\* with each explicit id of a transaction, and Register restarts it at the largest
\* id that is left.
LEMMA CounterStep == TypeOK /\ CounterIsPast /\ [Next]_vars => CounterIsPast'
<1> SUFFICES ASSUME TypeOK, CounterIsPast, [Next]_vars, ~program'.explicit
             PROVE  \A i \in (Rows \cup Queued \cup staged \cup doomed)' : i <= counter'
  BY DEF CounterIsPast
<1> USE DEF files, queues, setting
<1> DEFINE InUse == Rows \cup Queued \cup staged \cup doomed
           Past  == \A i \in InUse' : i <= counter'
<1>1. program' = program /\ \A i \in InUse : i <= counter
  BY DEF CounterIsPast, Next, vars, TxReserve, TxReserveExplicit, TxAbort, TxDelete, TxCommit,
         QueueDelete, QueueCreateExplicit, Edit, QueueCreate, FlushRefusesId, FlushRefusesKey,
         FlushFailsToSave, FlushFails, Flush, Save, Restart
<1>2. counter \in Nat /\ InUse \in SUBSET Nat
  <2>1. counter \in Nat /\ Id \in SUBSET Nat
    BY SessionAssumption DEF TypeOK, Id
  <2>2. Rows \subseteq Id /\ staged \subseteq Id /\ doomed \subseteq Id
    BY DEF Rows, TypeOK
  <2>3. Queued \subseteq Id
    BY QueueEntry DEF Queued
  <2> QED BY <2>1, <2>2, <2>3
<1>3. ASSUME counter' \in Nat, counter <= counter', \A i \in InUse' : i \in InUse \/ i <= counter'
      PROVE  Past
  BY <1>1, <1>2, <1>3
<1>4. CASE TxReserve
  BY <1>4, <1>2, <1>3 DEF TxReserve, Rows, Queued
<1>5. ASSUME NEW i \in Id, TxReserveExplicit(i) PROVE Past
  BY <1>5, <1>2, <1>3, SessionAssumption DEF TxReserveExplicit, Rows, Queued, Id
<1>6. ASSUME NEW i \in Id, TxAbort(i) PROVE Past
  BY <1>6, <1>2, <1>3 DEF TxAbort, Rows, Queued
<1>7. ASSUME NEW i \in Id, TxDelete(i) PROVE Past
  BY <1>7, <1>2, <1>3 DEF TxDelete, Rows, Queued, TypeOK
<1>8. ASSUME NEW i \in Id, QueueDelete(i) PROVE Past
  BY <1>8, <1>2, <1>3 DEF QueueDelete, Rows, Queued
<1>9. ASSUME NEW i \in Id, NEW k \in Key, TxCommit(i, k) PROVE Past
  BY <1>9, <1>2, <1>3 DEF TxCommit, Rows, Queued, TypeOK
<1>10. ASSUME NEW i \in Id, NEW k \in Key, QueueCreateExplicit(i, k) PROVE Past
  BY <1>10, <1>1 DEF QueueCreateExplicit
<1>11. ASSUME NEW i \in Id, NEW k \in Key, Edit(i, k) PROVE Past
  BY <1>11, <1>2, <1>3 DEF Edit, Rows, Queued, TypeOK
<1>12. ASSUME NEW k \in Key, QueueCreate(k) PROVE Past
  <2>1. Queued' \subseteq Queued \cup {counter + 1}
    BY <1>12, QueueEntry DEF QueueCreate, Queued, TypeOK
  <2> QED BY <1>12, <2>1, <1>2, <1>3 DEF QueueCreate, Rows
<1>13. CASE FlushRefusesId
  <2>1. Rows' \subseteq Rows \cup Queued
    BY <1>13, FlushIds DEF FlushRefusesId, FlushFails, Rows
  <2> QED BY <1>13, <2>1, <1>2, <1>3 DEF FlushRefusesId, FlushFails, Queued
<1>14. CASE FlushRefusesKey
  <2>1. Rows' \subseteq Rows \cup Queued
    BY <1>14, FlushIds DEF FlushRefusesKey, FlushFails, Rows
  <2> QED BY <1>14, <2>1, <1>2, <1>3 DEF FlushRefusesKey, FlushFails, Queued
<1>15. CASE FlushFailsToSave
  <2>1. Rows' \subseteq Rows \cup Queued
    BY <1>15, FlushIds DEF FlushFailsToSave, FlushFails, Rows
  <2> QED BY <1>15, <2>1, <1>2, <1>3 DEF FlushFailsToSave, FlushFails, Queued
<1>16. CASE Flush
  <2>1. Rows' \subseteq Rows \cup Queued
    BY <1>16, FlushIds DEF Flush, Save, Rows
  <2>2. Queued' = {} /\ doomed' = {} /\ staged' = staged /\ counter' = counter
    BY <1>16 DEF Flush, Save, Queued
  <2> QED BY <2>1, <2>2, <1>2, <1>3
<1>17. CASE Restart
  <2>1. InUse' = {i \in Id : Stored[i] # None}
    BY <1>17 DEF Restart, Rows, Queued
  <2> QED BY <1>17, <2>1, SeedCounter DEF Restart
<1>18. CASE UNCHANGED vars
  BY <1>18, <1>2, <1>3 DEF vars, Rows, Queued
<1> QED BY <1>4, <1>5, <1>6, <1>7, <1>8, <1>9, <1>10, <1>11, <1>12, <1>13, <1>14, <1>15,
           <1>16, <1>17, <1>18 DEF Next

\* A create is queued with a number that no queued delete has; a row can join the
\* deletes only once it is live, and a failed Flush that made the creates live
\* leaves them live until the session ends.
LEMMA DeletesStep ==
    TypeOK /\ SessionsAreExclusive /\ CounterIsPast /\ DeletesAreOfOthers /\ [Next]_vars => DeletesAreOfOthers'
<1> SUFFICES ASSUME TypeOK, SessionsAreExclusive, CounterIsPast, DeletesAreOfOthers, [Next]_vars,
                    ~program'.explicit
             PROVE  \/ \E n \in (1 .. Len(queue))' : queue'[n].id \in Rows'
                    \/ Queued' \cap doomed' = {}
  BY DEF DeletesAreOfOthers
<1> USE DEF files, queues, setting
<1> DEFINE Others == \/ \E n \in (1 .. Len(queue))' : queue'[n].id \in Rows'
                     \/ Queued' \cap doomed' = {}
<1>1. program' = program
  BY DEF Next, vars, TxReserve, TxReserveExplicit, TxAbort, TxDelete, TxCommit,
         QueueDelete, QueueCreateExplicit, Edit, QueueCreate, FlushRefusesId, FlushRefusesKey,
         FlushFailsToSave, FlushFails, Flush, Save, Restart
<1>2. \/ \E n \in 1 .. Len(queue) : queue[n].id \in Rows
      \/ Queued \cap doomed = {}
  BY <1>1 DEF DeletesAreOfOthers
<1>3. ASSUME queue' = queue, doomed' = doomed, Rows \subseteq Rows' PROVE Others
  BY <1>2, <1>3 DEF Queued
<1>4. ASSUME doomed' = {} PROVE Others
  BY <1>4
<1>5. CASE TxReserve
  BY <1>5, <1>3 DEF TxReserve, Rows
<1>6. ASSUME NEW i \in Id, TxReserveExplicit(i) PROVE Others
  BY <1>6, <1>3 DEF TxReserveExplicit, Rows
<1>7. ASSUME NEW i \in Id, TxAbort(i) PROVE Others
  BY <1>7, <1>3 DEF TxAbort, Rows
<1>8. ASSUME NEW i \in Id, TxDelete(i) PROVE Others
  BY <1>8, <1>4 DEF TxDelete, SessionsAreExclusive
<1>9. ASSUME NEW i \in Id, NEW k \in Key, TxCommit(i, k) PROVE Others
  BY <1>9, <1>4 DEF TxCommit, SessionsAreExclusive
<1>10. ASSUME NEW i \in Id, QueueDelete(i) PROVE Others
  <2>1. queue' = queue /\ Rows' = Rows /\ Queued' = Queued /\ doomed' = doomed \cup {i}
    BY <1>10 DEF QueueDelete, Rows, Queued
  <2>2. CASE i \in Queued
    BY <1>10, <2>1, <2>2 DEF QueueDelete, Queued
  <2>3. CASE i \notin Queued
    BY <1>2, <2>1, <2>3
  <2> QED BY <2>2, <2>3
<1>11. ASSUME NEW i \in Id, NEW k \in Key, QueueCreateExplicit(i, k) PROVE Others
  BY <1>11, <1>1 DEF QueueCreateExplicit
<1>12. ASSUME NEW i \in Id, NEW k \in Key, Edit(i, k) PROVE Others
  <2>1. Rows \subseteq Rows'
    BY <1>12, SessionAssumption DEF Edit, Rows, TypeOK
  <2> QED BY <1>12, <2>1, <1>3 DEF Edit
<1>13. ASSUME NEW k \in Key, QueueCreate(k) PROVE Others
  <2>1. counter + 1 \notin doomed
    BY <1>1, SessionAssumption DEF CounterIsPast, TypeOK, Id
  <2>2. Queued' = Queued \cup {counter + 1}
    BY <1>13, QueueEntry DEF QueueCreate, Queued, TypeOK
  <2>3. \A n \in 1 .. Len(queue) : n \in (1 .. Len(queue))' /\ queue'[n] = queue[n]
    BY <1>13, QueueEntry DEF QueueCreate, TypeOK
  <2>4. Rows' = Rows /\ doomed' = doomed
    BY <1>13 DEF QueueCreate, Rows
  <2> QED BY <1>2, <2>1, <2>2, <2>3, <2>4
<1>14. CASE FlushRefusesId
  <2>1. Rows \subseteq Rows'
    BY <1>14, AddedIds DEF FlushRefusesId, FlushFails, Rows
  <2> QED BY <1>14, <2>1, <1>3 DEF FlushRefusesId, FlushFails
<1>15. ASSUME Exclusive, AllAdded, live' = WithoutDoomed, queue' = queue, doomed' = doomed
       PROVE  Others
  <2>1. Queued \cap doomed = {}
    BY <1>2, <1>15, WholeQueue
  <2> QED BY <1>15, <2>1 DEF Queued
<1>16. CASE FlushRefusesKey
  BY <1>15, <1>16 DEF FlushRefusesKey, FlushFails
<1>17. CASE FlushFailsToSave
  BY <1>15, <1>17 DEF FlushFailsToSave, FlushFails
<1>18. CASE Flush
  BY <1>4, <1>18 DEF Flush, Save
<1>19. CASE Restart
  BY <1>4, <1>19 DEF Restart
<1>20. CASE UNCHANGED vars
  BY <1>3, <1>20 DEF vars, Rows
<1> QED BY <1>5, <1>6, <1>7, <1>8, <1>9, <1>10, <1>11, <1>12, <1>13, <1>14, <1>16,
           <1>17, <1>18, <1>19, <1>20 DEF Next

----------------------------------------------------------------------------
(* The theorems *)

\* Sessions, counter, queues and files satisfy the inductive invariant in every
\* reachable state.
LEMMA Invariance == Spec => [](TypeOK /\ Inv)
<1>1. Init => TypeOK /\ Inv
  <2> SUFFICES ASSUME Init PROVE Inv
    BY InitTyped
  <2>1. Rows = {} /\ Queued = {} /\ staged = {} /\ doomed = {}
    BY DEF Init, Rows, Queued
  <2>2. Stored = live
    BY DEF Init, Stored, Truncated
  <2>3. KeysUnique(live)
    BY DEF Init, KeysUnique
  <2> QED BY <2>1, <2>2, <2>3 DEF Init, Inv, SessionsAreExclusive, CounterIsPast,
             DeletesAreOfOthers, RestartOpens
<1>2. (TypeOK /\ Inv) /\ [Next]_vars => (TypeOK /\ Inv)'
  BY TypeStep, ExclusiveStep, OpensStep, CounterStep, DeletesStep DEF Inv
<1> QED BY <1>1, <1>2, PTL DEF Spec

\* Open never panics on a duplicate key: as long as no Flush was cut short, chunk
\* file and log together hold unique keys in every reachable state, so whenever
\* the process stops rebuildSecondaryIndices succeeds at the next start.
THEOREM FilesOpen == Spec => []RestartOpens
BY Invariance, PTL DEF Inv

\* The number that relationPrepareCreate or Unsafe.Create takes from the counter
\* belongs to no row, queued create or staged create.
THEOREM NumbersAreFree == Spec => AutoIdsAreFree
<1>1. ASSUME TypeOK, Inv
      PROVE  TakesNumber /\ ~program.explicit => counter + 1 \notin Rows \cup Queued \cup staged
  BY <1>1, SessionAssumption DEF TypeOK, Inv, CounterIsPast
<1> QED BY <1>1, Invariance, PTL DEF AutoIdsAreFree, Spec

\* A Flush that returns nil has applied every queued create and delete to memory
\* and to the files, whatever flushes of the session failed before it.
THEOREM FlushIsComplete == Spec => FlushLands
<1> DEFINE Lands == result' = "ok" /\ session /\ ~session' /\ ~program.explicit =>
                      /\ \A n \in 1 .. Len(queue) : Stored'[queue[n].id] = queue[n].key
                      /\ \A i \in doomed : Stored'[i] = None
                      /\ live' = Stored'
<1>1. ASSUME TypeOK, Inv, [Next]_vars PROVE Lands
  <2> SUFFICES ASSUME result' = "ok", session, ~session', ~program.explicit
               PROVE  /\ \A n \in 1 .. Len(queue) : Stored'[queue[n].id] = queue[n].key
                      /\ \A i \in doomed : Stored'[i] = None
                      /\ live' = Stored'
    OBVIOUS
  <2>1. Flush
    BY <1>1 DEF Next, vars, files, queues, setting, TxReserve, TxReserveExplicit, TxAbort, TxDelete,
       TxCommit, QueueDelete, QueueCreateExplicit, Edit, QueueCreate, FlushRefusesId,
       FlushRefusesKey, FlushFailsToSave, FlushFails, Restart
  <2>2. SessionsAreExclusive'
    BY <1>1, ExclusiveStep DEF Inv
  <2>3. live' = Stored' /\ live' = WithoutDoomed
    BY <2>1, <2>2 DEF SessionsAreExclusive, Flush, Save
  <2>4. Queued \cap doomed = {}
    BY <1>1, <2>1, WholeQueue DEF Flush, Inv, DeletesAreOfOthers
  <2>5. ASSUME NEW n \in 1 .. Len(queue) PROVE WithoutDoomed[queue[n].id] = queue[n].key
    <3>1. queue[n].id \in Id /\ queue[n].id \notin doomed
      BY <1>1, <2>4, QueueEntry DEF Queued
    <3> QED BY <1>1, <2>1, <3>1, WholeQueue, DoomedRows DEF Flush
  <2>6. ASSUME NEW i \in doomed PROVE WithoutDoomed[i] = None
    BY <1>1, DoomedRows DEF TypeOK
  <2> QED BY <2>3, <2>5, <2>6
<1> QED BY <1>1, Invariance, PTL DEF FlushLands, Spec
=============================================================================
