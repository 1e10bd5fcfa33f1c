-------------------------- MODULE MCSecondaryIndex --------------------------
(* Four rows, five contents: two fields of two values each and four keys, so  *)
(* that commits meet equal fields, equal keys and swaps.                      *)
EXTENDS SecondaryIndex

FiveRows == {<<1, 1, 1>>, <<1, 2, 2>>, <<2, 1, 3>>, <<1, 1, 4>>, <<2, 2, 1>>}
=============================================================================
