--------------------------------- MODULE Saga ---------------------------------
(***************************************************************************)
(* What the process engine promises about the effects of its instances:    *)
(* while an instance is open its confirmed effects pile up; if it is       *)
(* completed they stand; if it is stopped they are undone one at a time,   *)
(* the latest first, before it ends the way it was stopped; and an         *)
(* instance that has ended never changes again.  Tokens, stages, leases,   *)
(* retries and subprocesses are absent: ProcessEngine implements this.     *)
(***************************************************************************)
EXTENDS Integers

CONSTANT Instances   (* Identities of the instances ever started.            *)

VARIABLES
  phase,   (* Where each instance stands.                                    *)
  goal,    (* How it will end, once it has been stopped with effects to undo. *)
  effects, (* Its confirmed effects that still have to be undone or kept, by  *)
           (* the place of the step that had them.                            *)
  abandoned  (* The instances nobody may act for any more.                    *)

vars == <<phase, goal, effects, abandoned>>

Ended == {"completed", "failed", "cancelled"}

Init ==
  /\ phase   = [i \in Instances |-> "absent"]
  /\ goal    = [i \in Instances |-> "none"]
  /\ effects = [i \in Instances |-> {}]
  /\ abandoned = {}

(* A subprocess may end within the very step that starts it.                *)
Start(i) ==
  /\ phase[i] = "absent" /\ phase'[i] \in {"open"} \cup Ended
  /\ UNCHANGED <<goal[i], effects[i]>>

(* A step is confirmed, and has at most one effect.                         *)
Gains(i) ==
  /\ effects[i] \subseteq effects'[i]
  /\ \A j, k \in effects'[i] \ effects[i] : j = k

Work(i) ==
  /\ phase[i] = "open" /\ phase'[i] = "open"
  /\ Gains(i)
  /\ goal'[i] = goal[i]

Complete(i) ==
  /\ phase[i] = "open" /\ phase'[i] = "completed"
  /\ effects'[i] = {}
  /\ goal'[i] = goal[i]

Stop(i) ==
  /\ phase[i] = "open"
  /\ Gains(i)
  /\ IF effects'[i] = {}
       THEN phase'[i] \in {"failed", "cancelled"} /\ goal'[i] = goal[i]
       ELSE phase'[i] = "compensating" /\ goal'[i] \in {"failed", "cancelled"}

Undo(i) ==
  /\ phase[i] = "compensating"
  /\ \E k \in effects[i] :
       /\ \A j \in effects[i] : j <= k
       /\ effects'[i] = effects[i] \ {k}
  /\ phase'[i] = IF effects'[i] = {} THEN goal[i] ELSE "compensating"
  /\ goal'[i] = goal[i]

(* The power to act for an instance is revoked: its effects stand, and it   *)
(* ends at once.                                                            *)
Abandon(i) ==
  /\ phase[i] \in {"open", "compensating"} /\ phase'[i] = "cancelled"
  /\ effects'[i] = {}
  /\ goal'[i] = goal[i]

Stay(i) == UNCHANGED <<phase[i], goal[i], effects[i]>>

(* One handler may move a whole family of instances.                        *)
Next ==
  /\ abandoned \subseteq abandoned'
  /\ \A i \in Instances :
       IF i \in abandoned' \ abandoned THEN Abandon(i)
       ELSE Start(i) \/ Work(i) \/ Complete(i) \/ Stop(i) \/ Undo(i) \/ Stay(i)

Spec == Init /\ [][Next]_vars
=============================================================================
