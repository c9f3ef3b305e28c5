---------------------------- MODULE MCRingBuffer ----------------------------
(***************************************************************************)
(* The ring buffer on three slots, which it leaves empty, half full and    *)
(* full, with head and tail on either side of the wrap, and elements of    *)
(* two parts, so that a torn element differs from every element written.   *)
(***************************************************************************)
EXTENDS RingBuffer
=============================================================================
