------------------------------- MODULE MCDiff -------------------------------
(***************************************************************************)
(* Files of up to MaxLines lines over two texts, with one line of context: *)
(* three unchanged lines between two changes part them.  MaxCells lets     *)
(* small middles through the table and has larger ones replaced whole.     *)
(***************************************************************************)
EXTENDS Hunks

CONSTANTS x, y

MCTexts == {x, y}
=============================================================================
