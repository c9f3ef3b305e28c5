----------------------------- MODULE MCWsServer -----------------------------
(***************************************************************************)
(* Two connections and three descriptors for their sockets and files: a    *)
(* number is given back and taken again while its first owner still has it *)
(* to close, and descriptors can run out.                                  *)
(***************************************************************************)
EXTENDS WsServer
=============================================================================
