---------------------------- MODULE MCSdrSession ----------------------------
(***************************************************************************)
(* Sets of calls for the programs that use the library.                    *)
(***************************************************************************)
EXTENDS SdrSession

\* sdrcmd and the Qt application: one thread that makes every call.
AppCalls == [c \in Controllers |-> {"start", "stop", "tune", "delete"}]

\* Clients of sdrserver that start and stop.  parseAndExecute has no command
\* for sdrDelete.
StoppingCalls == [c \in Controllers |-> {"start", "stop"}]
=============================================================================
