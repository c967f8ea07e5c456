---------------------------- MODULE MCStageLease ----------------------------
(***************************************************************************)
(* Small instances of StageLease: values for the constants that a cfg      *)
(* cannot write, and the symmetry of the runs that are interchangeable.    *)
(***************************************************************************)
EXTENDS StageLease, TLC

CONSTANTS
  Apart,          (* The runs that belong to the second project.            *)
  NodeSlots,      (* max_concurrency of every node.                         *)
  RunningLimit,   (* max_running_tasks of both projects.                    *)
  QueueLimit,     (* max_queued_tasks of both projects.                     *)
  Main, Side      (* The two projects.                                      *)

MCProjects   == {Main, Side}
MCProjectOf  == [r \in Runs |-> IF r \in Apart THEN Side ELSE Main]
MCNodeMax    == [n \in Nodes |-> NodeSlots]
MCMaxRunning == [p \in MCProjects |-> RunningLimit]
MCMaxQueued  == [p \in MCProjects |-> QueueLimit]

RunSymmetry == Permutations(Runs \ Apart)

(* BOUND: a behaviour follows one long chain with its gate, calls, retries   *)
(* and revocation on one node, or a fleet of short runs that race for the   *)
(* nodes while an edge node is wiped and the scheduler's mode is changed.   *)
Created == {r \in Runs : db.run[r] # "absent"}
Alone   ==
  /\ Cardinality(Created) <= 1 /\ Created \cap Apart = {}
  /\ wiped = {} /\ sched.mode = "sequential"
  /\ \A r \in Runs, i \in Pos : db.node[r][i] \notin EdgeNodes
Short   ==
  /\ revoked = {}
  /\ \A r \in Runs : db.len[r] <= 1 /\ ~db.gated[r]
  /\ \A r \in Runs, i \in Pos :
       db.attempt[r][i] <= 1 /\ ~db.executing[r][i] /\ ~db.settled[r][i]
AloneOrShort == Alone \/ Short
=============================================================================
