------------------------ MODULE MCTransactionEngine ------------------------
(* Small instances of TransactionEngine for TLC. *)
EXTENDS TransactionEngine, TLC

CONSTANTS c1, c2, v1, v2, v3

\* One flat type of two or three rows.
FlatType == [r \in Row |-> 1]
FlatRoot == [r \in Row |-> r]
NoLinks == [v \in Value |-> 0]

\* A branch of two types, root 1 and child 2, and a second root 3.
TreeType == <<1, 2, 2>>
TreeRoot == <<1, 1, 3>>
PairType == <<1, 2>>
PairRoot == <<1, 1>>
LinkTo3 == [v \in Value |-> IF v = v2 THEN 3 ELSE 0]

\* Writers and readers of a flat type; nobody deletes, and no transaction loads
\* a row that another is creating.
FlatOps ==
    (c1 :> {"TxGet", "Create"}) @@ (c2 :> {"Update", "UpdateWithin", "View", "ViewMany"})

\* One client reshapes the graph, the other reads and edits it.
GraphOps ==
    (c1 :> {"TxGet", "Create", "Delete"}) @@ (c2 :> {"Update", "UpdateWithin", "View", "ViewMany"})

LiveOps == (c1 :> {"TxGet", "Delete"}) @@ (c2 :> {"Update", "UpdateWithin", "View", "ViewMany"})

DeleteAndView == (c1 :> {"Delete"}) @@ (c2 :> {"View"})

OneOp == [c \in Client |-> 1]
TwoThenOne == [c \in Client |-> IF c = c1 THEN 2 ELSE 1]
OneThenTwo == [c \in Client |-> IF c = c1 THEN 1 ELSE 2]

V1V2None == <<v1, v2, Nothing>>
V1V1 == <<v1, v1>>
V1V1None == <<v1, v1, Nothing>>
V1 == <<v1>>
=============================================================================
