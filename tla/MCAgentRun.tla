---------------------------- MODULE MCAgentRun ----------------------------
(* Small instances of AgentRun: the service and a development backend.    *)
EXTENDS AgentRun

CONSTANTS service, dev, r1
=============================================================================
