----------------------------- MODULE MCFrontEnd -----------------------------
(***************************************************************************)
(* A dial of two digits to the base 2, eight pixels of two units each, and *)
(* two zooms, so that every drag, clamp and carry happens.                 *)
(***************************************************************************)
EXTENDS FrontEnd
MCTunable == 1 .. 3
MCUnset == {-1, 2}
MCShift == [level \in 0 .. 1 |-> 2 ^ level]
=============================================================================
