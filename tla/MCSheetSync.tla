---------------------------- MODULE MCSheetSync ----------------------------
(***************************************************************************)
(* SheetSync for TLC: two streams; the Sheet holds one of them, undecided, *)
(* or both.                                                                *)
(***************************************************************************)
EXTENDS SheetSync, TLC

CONSTANTS n1, n2

MCOne == {<<[key |-> 1, name |-> n1, guide |-> Review]>>}
MCTwo == {<<[key |-> 1, name |-> n1, guide |-> Review], [key |-> 2, name |-> n2, guide |-> Review]>>}
=============================================================================
