---------------------------- MODULE MCDurability ----------------------------
(* Instances of Durability: rows are integers, one chunk per row unless the  *)
(* instance says otherwise, types 1..NumTypes.                               *)
EXTENDS Durability, TLC

\* All rows are of one type.
OneType == [k \in Chunk |-> 1]

\* A row of each type, a chunk each.
OwnChunk == [r \in Row |-> r]
OwnType == [k \in Chunk |-> k]

Symmetry == Permutations(Client) \cup Permutations(Value)
=============================================================================
