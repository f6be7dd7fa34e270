--------------------------- MODULE MCBrokerRepair ---------------------------
(* Small instances of BrokerRepair: the service and a development backend. *)
EXTENDS BrokerRepair, TLC

CONSTANTS service, dev

Interchangeable == Permutations({service, dev})
=============================================================================
