---------------------------- MODULE MCPersistence ----------------------------
(* Small instances of Persistence: the executions of one session.           *)
EXTENDS Persistence

CONSTANTS s1
=============================================================================
