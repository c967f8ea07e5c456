---------------------------- MODULE RunLifecycle ----------------------------
(***************************************************************************)
(* What the coordinator promises to whoever submits a linear run: a chain  *)
(* of `len` stages is carried out in order, one stage at a time and each   *)
(* exactly once; the run is completed exactly when its last stage is; and  *)
(* a run that has ended never changes again.  Leases, workers, retries,    *)
(* time and approvals are absent: StageLease implements this module.       *)
(***************************************************************************)
EXTENDS Integers

CONSTANTS
  Runs,        (* Identities of the runs ever submitted.                   *)
  MaxStages    (* Longest chain a run may ask for.                         *)

VARIABLES
  phase,       (* Where the run stands, per run.                           *)
  len,         (* Length of its chain, 0 before it is submitted.           *)
  done         (* Number of its stages that are completed.                 *)

vars == <<phase, len, done>>

Ended == {"completed", "failed", "cancelled"}

Init ==
  /\ phase = [r \in Runs |-> "absent"]
  /\ len   = [r \in Runs |-> 0]
  /\ done  = [r \in Runs |-> 0]

Submit(r) ==
  /\ phase[r] = "absent" /\ phase'[r] = "open"
  /\ len'[r] \in 1..MaxStages
  /\ done'[r] = 0

(* One more stage is completed; the last one, and only it, ends the run.   *)
Advance(r) ==
  /\ phase[r] = "open"
  /\ done'[r] = done[r] + 1
  /\ len'[r] = len[r]
  /\ phase'[r] = IF done[r] + 1 = len[r] THEN "completed" ELSE "open"

Abort(r) ==
  /\ phase[r] = "open" /\ phase'[r] \in {"failed", "cancelled"}
  /\ UNCHANGED <<len[r], done[r]>>

Stay(r) == UNCHANGED <<phase[r], len[r], done[r]>>

(* A maintenance pass may end several runs in one transaction, so every    *)
(* run takes a step of its own or none.                                    *)
Next == \A r \in Runs : Submit(r) \/ Advance(r) \/ Abort(r) \/ Stay(r)

Spec == Init /\ [][Next]_vars
=============================================================================
