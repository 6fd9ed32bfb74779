--------------------------- MODULE MCSocketServer ---------------------------
(* More clients than threads. *)
EXTENDS SocketServer

CONSTANTS c1, c2
=============================================================================
