---------------------------- MODULE MCComposer ----------------------------
(* Small instances of Composer: a few words written in two conversations. *)
EXTENDS Composer, TLC

CONSTANTS ops, team, w1, w2

Interchangeable == Permutations({ops, team}) \cup Permutations({w1, w2})

\* Bound: the saves of one connection on their way at a time.
FewSaves == Len(saves) <= 2
=============================================================================
