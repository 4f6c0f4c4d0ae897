--------------------------- MODULE MCStateUpdate ---------------------------
(***************************************************************************)
(* The instance of StateUpdate for TLC: texts short and long, with a blank *)
(* at the cut, around, or nothing else, and an item that is no text.       *)
(***************************************************************************)
EXTENDS StateUpdate

CONSTANTS x, y

MCItems == {<<x>>, <<x, Blank, y>>, <<y, y, y>>, <<Blank, x>>, <<Blank>>, None}
=============================================================================
