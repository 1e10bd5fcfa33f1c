--------------------------- MODULE MCUnsafeSession ---------------------------
(* UnsafeSession for TLC.  Keys are only compared with each other. *)
EXTENDS UnsafeSession, TLC

\* One program leaves the ids of Unsafe.Create to the counter and meets I/O
\* errors; the other gives explicit ids.
AutomaticAndExplicit == {[explicit |-> FALSE, errors |-> TRUE], [explicit |-> TRUE, errors |-> FALSE]}

Symmetry == Permutations(Key)
=============================================================================
