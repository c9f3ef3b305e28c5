---------------------------- MODULE MCRtlDevice ----------------------------
(***************************************************************************)
(* The driver opened up to three times, so that a loop left over from the  *)
(* first open meets a second and a third handle, with a ring of two blocks *)
(* and four blocks delivered, so that it fills and wraps.                  *)
(***************************************************************************)
EXTENDS RtlDevice
=============================================================================
