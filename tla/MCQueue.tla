------------------------------ MODULE MCQueue ------------------------------
(***************************************************************************)
(* The queue with three slots and four threads, the most for which no      *)
(* wakeup is lost.                                                         *)
(***************************************************************************)
EXTENDS Queue

ASSUME RoomAssumption == RoomForAllButOne
=============================================================================
