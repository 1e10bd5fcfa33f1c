-------------------------- MODULE MCRelationIndex --------------------------
(* Projects for RelationIndex.  Types: folders (an own slice with a scalar    *)
(* back field, and the inverse of the links that need them), links (a borrow  *)
(* and an option of folders), users and their posts (an own slice with an     *)
(* ownedby pointer back), pins (an option of a post), tags and tagged rows    *)
(* (looked up by key), and boxes that own one item.                           *)
EXTENDS RelationIndex

MCNode == 1..16
MCTypeOf ==
    [n \in MCNode |-> CASE n \in 1..3 -> "Folder" [] n \in 4..5 -> "Link" [] n \in 6..7 -> "User"
                        [] n \in 8..9 -> "Post" [] n = 10 -> "Pin" [] n \in 11..12 -> "Tag"
                        [] n = 13 -> "Tagged" [] n = 14 -> "Box" [] OTHER -> "Item"]

Relation(owner, kind, many, target, match) ==
    [owner |-> owner, kind |-> kind, many |-> many, target |-> target, match |-> match]

MCSpec ==
    [kids |-> Relation("Folder", "own", TRUE, "Folder", "FK"),
     links |-> Relation("Folder", "inverse", TRUE, "Link", "to"),
     to |-> Relation("Link", "borrow", FALSE, "Folder", "Id"),
     near |-> Relation("Link", "option", FALSE, "Folder", "Id"),
     posts |-> Relation("User", "own", TRUE, "Post", "user"),
     user |-> Relation("Post", "ownedby", FALSE, "User", "Id"),
     pinned |-> Relation("Pin", "option", FALSE, "Post", "Id"),
     tags |-> Relation("Tagged", "borrow", TRUE, "Tag", "Key"),
     main |-> Relation("Tagged", "option", FALSE, "Tag", "Key"),
     item |-> Relation("Box", "own", FALSE, "Item", "Id")]
MCField == DOMAIN MCSpec

Blank(ns) == [n \in ns |-> NewRow(n, NoKey)]

\* A tree whose folders transactions create, move and delete.
Folders ==
    [rows |-> [Blank({1, 2, 4}) EXCEPT ![2].fk["kids"] = 1, ![4].rel["to"] = <<1>>, ![4].rel["near"] = <<2>>],
     room |-> {3}, edits |-> 2, fields |-> {"kids"}, ops |-> {"tx", "txcreate"}]

\* The links into it, and the inverse views they give.
Links == [Folders EXCEPT !.room = {5}, !.fields = {"to"}]

\* Unsafe sessions on the same tree, with and without a Tower replica.
Sessions ==
    [rows |-> [Blank({1, 2, 4}) EXCEPT ![2].fk["kids"] = 1, ![4].rel["to"] = <<1>>, ![4].rel["near"] = <<2>>],
     room |-> {3}, edits |-> 2, fields |-> {"kids"}, ops |-> {"unsafe", "tower", "create"}]

\* Both sides of an ownership, in transactions and in sessions without a replica.
Posts ==
    [rows |-> [Blank({6, 7, 8, 10}) EXCEPT ![8].rel["user"] = <<6>>, ![10].rel["pinned"] = <<8>>],
     room |-> {9}, edits |-> 2, fields |-> {"posts"}, ops |-> {"unsafe", "create", "tx"}]

\* The same, in sessions that the replica serves.
Pins == [Posts EXCEPT !.ops = {"unsafe", "create", "tower"}]

\* Relations that look their target up by a key that changes.
Keys ==
    [rows |-> [n \in {11, 12, 13} |-> IF n = 13 THEN [NewRow(13, NoKey) EXCEPT !.rel["tags"] = <<11>>, !.rel["main"] = <<12>>]
                                      ELSE NewRow(n, n + 90)],
     room |-> {}, edits |-> 2, fields |-> {"tags", "main"}, ops |-> {"unsafe", "tower", "rekey"}]

\* Rows disappear while a transaction is open.
Race ==
    [rows |-> [Blank({1, 2, 4}) EXCEPT ![2].fk["kids"] = 1, ![4].rel["to"] = <<1>>, ![4].rel["near"] = <<2>>],
     room |-> {}, edits |-> 2, fields |-> {"near", "kids"}, ops |-> {"tx", "concurrent"}]

\* Ownership of a single row.
Boxes ==
    [rows |-> [Blank({14, 15}) EXCEPT ![14].rel["item"] = <<15>>],
     room |-> {16}, edits |-> 2, fields |-> {"item"}, ops |-> {"tx", "txcreate", "touch", "unsafe", "create"}]

MCProjects == <<Folders, Links, Sessions, Posts, Pins, Keys, Race, Boxes>>
=============================================================================
