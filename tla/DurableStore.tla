---------------------------- MODULE DurableStore ----------------------------
(***************************************************************************)
(* What the durability layer promises its callers, with no file, log or    *)
(* chunk in sight: one durable value per row, changed by a commit's frame  *)
(* as a whole, and one live value per row, reset to the durable one by a   *)
(* restart.  Durability.tla implements it with chunk files, one wal.log    *)
(* per type and one transactions.wal.                                      *)
(*                                                                         *)
(* A frame is a function from rows to the value it writes, Absent for a    *)
(* tombstone, Untouched for a row it says nothing about.                   *)
(***************************************************************************)
CONSTANTS Client, Row, Value, Absent, Untouched

VARIABLES
    live,      \* what readers see in memory
    durable,   \* what a restart would load
    inflight,  \* per client: the frame it committed and has not published
    running    \* FALSE between a crash and the restart

vars == <<live, durable, inflight, running>>

Cell == Value \cup {Absent}
Frame == [Row -> Cell \cup {Untouched}]
Blank == [r \in Row |-> Untouched]
Touched(f) == {r \in Row : f[r] # Untouched}

\* State s after frame f was written over it.
Over(f, s) == [r \in Row |-> IF f[r] = Untouched THEN s[r] ELSE f[r]]

Busy == UNION {Touched(inflight[c]) : c \in Client}

Init ==
    /\ durable \in [Row -> Cell]
    /\ live = durable
    /\ inflight = [c \in Client |-> Blank]
    /\ running = TRUE

\* The commit point: the frame becomes durable as a whole.
Commit(c, f) ==
    /\ running
    /\ inflight[c] = Blank
    /\ Touched(f) \cap Busy = {}
    /\ durable' = Over(f, durable)
    /\ inflight' = [inflight EXCEPT ![c] = f]
    /\ UNCHANGED <<live, running>>

\* A commit whose outcome the caller is told is an error may be durable all the
\* same, again as a whole.
CommitInDoubt(f) ==
    /\ running
    /\ Touched(f) \cap Busy = {}
    /\ durable' = Over(f, durable)
    /\ UNCHANGED <<live, inflight, running>>

\* A committed frame becomes visible; the same step may carry unlogged writes u.
Publish(c, u) ==
    /\ running
    /\ live' = Over(u, Over(inflight[c], live))
    /\ inflight' = [inflight EXCEPT ![c] = Blank]
    /\ UNCHANGED <<durable, running>>

\* Writes through live pointers.
UnloggedWrite(u) ==
    /\ running
    /\ live' = Over(u, live)
    /\ UNCHANGED <<durable, inflight, running>>

\* A checkpoint makes the live value of some rows durable; it never takes back
\* a frame that is committed and not yet published.
Persist(rows) ==
    /\ running
    /\ rows \cap Busy = {}
    /\ durable' = [r \in Row |-> IF r \in rows THEN live[r] ELSE durable[r]]
    /\ UNCHANGED <<live, inflight, running>>

Crash ==
    /\ running
    /\ running' = FALSE
    /\ inflight' = [c \in Client |-> Blank]
    /\ UNCHANGED <<live, durable>>

Restart ==
    /\ ~running
    /\ running' = TRUE
    /\ live' = durable
    /\ UNCHANGED <<durable, inflight>>

Next ==
    \/ \E c \in Client, f \in Frame : Commit(c, f)
    \/ \E f \in Frame : CommitInDoubt(f)
    \/ \E c \in Client, u \in Frame : Publish(c, u)
    \/ \E u \in Frame : UnloggedWrite(u)
    \/ \E rows \in SUBSET Row : Persist(rows)
    \/ Crash
    \/ Restart

Spec == Init /\ [][Next]_vars
=============================================================================
