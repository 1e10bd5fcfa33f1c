------------------------------ MODULE MCTower ------------------------------
(* Instances of Tower over a few rows. *)
EXTENDS Tower, TLC

CONSTANTS c1, c2

\* One tree: 1 owns 2, 2 owns 3.  Row 3 may move from 2 to 1, after which 2 owns
\* nothing.  c1 updates either row below the root; c2, tracked, the root.
OneTree ==
    [tracked |-> {c2}, rows |-> 1..3, root |-> (c1 :> {2, 3}) @@ (c2 :> {1}),
     parent |-> <<1, 1, 2, 4>>, moves |-> {<<3, 1>>},
     writes |-> 2, undeclared |-> TRUE, audit |-> TRUE, errors |-> TRUE]

\* Two trees: 1 owns 2, 3 owns 4, and a client for each.
TwoTrees ==
    [tracked |-> {}, rows |-> 1..4, root |-> (c1 :> {1}) @@ (c2 :> {3}),
     parent |-> <<1, 1, 3, 3>>, moves |-> {},
     writes |-> 1, undeclared |-> FALSE, audit |-> FALSE, errors |-> FALSE]

OneOrTwoTrees == {OneTree, TwoTrees}
OnlyTwoTrees == {TwoTrees}
============================================================================
