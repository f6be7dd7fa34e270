---------------------------- MODULE MCLauncher ----------------------------
(* Small instances of Launcher: a few children, faults and asks. *)
EXTENDS Launcher
=============================================================================
