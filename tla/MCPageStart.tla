---------------------------- MODULE MCPageStart ----------------------------
(* Small instances of PageStart: a page, two processes of its backend. *)
EXTENDS PageStart
=============================================================================
