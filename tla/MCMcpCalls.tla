----------------------------- MODULE MCMcpCalls -----------------------------
(***************************************************************************)
(* Small instances of McpCalls: an endpoint whose tool only reads and a    *)
(* sandbox profile whose tool writes.                                      *)
(***************************************************************************)
EXTENDS McpCalls, TLC

CONSTANTS Web, Job

MCAnnotated == [t \in Targets |-> IF t = Web THEN "read" ELSE "write"]
=============================================================================
