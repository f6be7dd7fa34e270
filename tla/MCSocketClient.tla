--------------------------- MODULE MCSocketClient ---------------------------
(* Small instances of SocketClient: presses that share one token. *)
EXTENDS SocketClient

CONSTANTS send, react
=============================================================================
