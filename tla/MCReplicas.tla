------------------------------ MODULE MCReplicas ------------------------------
(***************************************************************************)
(* Small instances of Replicas: the run Long is a chain of MaxStages       *)
(* stages, every other one has a single stage.                             *)
(***************************************************************************)
EXTENDS Replicas

CONSTANT Long

MCChainOf == [r \in Runs |-> IF r = Long THEN MaxStages ELSE 1]
===============================================================================
