---------------------------- MODULE MCResampling ----------------------------
(***************************************************************************)
(* Every kind of converter with three taps (two asked for), buffers of two *)
(* outputs and calls of up to two samples, so that a buffer fills in the   *)
(* middle of a call and calls end with a buffer half full.  Rates of 2 and *)
(* 3 give the ratios 1 and 2/3, up and down.                               *)
(***************************************************************************)
EXTENDS Resampling

=============================================================================
