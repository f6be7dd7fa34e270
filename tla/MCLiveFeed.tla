---------------------------- MODULE MCLiveFeed ----------------------------
(* Small instances of LiveFeed: the service, a development backend and a  *)
(* read-only one on one store.                                            *)
EXTENDS LiveFeed, TLC

CONSTANTS service, dev, tool, chat, trigger

Interchangeable == Permutations({service, dev})
=============================================================================
