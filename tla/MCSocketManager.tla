--------------------------- MODULE MCSocketManager ---------------------------
(* Instances of SocketManager for TLC. *)
EXTENDS SocketManager

CONSTANTS a1, a2
===============================================================================
