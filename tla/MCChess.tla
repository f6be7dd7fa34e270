------------------------------ MODULE MCChess ------------------------------
(* Small instances of Chess: a challenge in a group of three. *)
EXTENDS Chess, TLC

CONSTANTS ann, bob, cat

Bystanders == Permutations({bob, cat})
=============================================================================
