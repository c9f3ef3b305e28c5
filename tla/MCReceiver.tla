----------------------------- MODULE MCReceiver -----------------------------
(***************************************************************************)
(* Two clients.  Blocks of five units against frames of two and pages of   *)
(* two packets, so that frames and pages end inside a block, and every     *)
(* page at another place of a block than the one before.                   *)
(***************************************************************************)
EXTENDS Receiver
MCUnset == {Outside, 3}
=============================================================================
