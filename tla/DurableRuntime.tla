---------------------------- MODULE DurableRuntime ----------------------------
(***************************************************************************)
(* Processes kept alive by Temporal workflows.                              *)
(*                                                                         *)
(* The coordinator's database says where an instance stands; a workflow    *)
(* makes it move when only time has to pass.  It ticks the coordinator,     *)
(* sleeps until the deadline the reply names or until it is notified, and   *)
(* ticks again.  An instance is started by a request (the coordinator then  *)
(* starts its workflow) or by a schedule (a parent workflow has the         *)
(* coordinator create the instance and starts its workflow as a child).     *)
(* Requests between the two arrive late, arrive twice, or their replies are *)
(* lost; the coordinator crashes between its commit and what follows; both  *)
(* kinds of workflow can be cancelled at any time.                         *)
(*                                                                         *)
(* Data abstracted: an instance is a fork of Branches, each an optional     *)
(* stage of a worker and then a timer, and a join; ProcessEngine has the    *)
(* rest of the engine.  'failed' and 'cancelled' are one status, 'stopped'. *)
(* Temporal itself is external: its histories, its task queue and the       *)
(* replay of a workflow after its worker has died are not modelled.        *)
(***************************************************************************)
EXTENDS Integers, FiniteSets

CONSTANTS
  Direct,       (* Processes that a request starts.                          *)
  Scheduled,    (* Occurrences of schedules, each with its idempotency key.  *)
  Branches,     (* The branches of an instance.                              *)
  Working,      (* The branches that begin with a stage of a worker.         *)
  MaxStarted,   (* BOUND: processes started.                                 *)
  MaxSends,     (* BOUND: scheduled-start requests in flight at a time.      *)
  MaxFaults     (* BOUND: crashes, lost messages and refused starts.         *)

Instances == Direct \cup Scheduled

ConstantsAssumption ==
  /\ Direct \cap Scheduled = {}
  /\ Working \subseteq Branches /\ {"join", "poll", "end"} \cap Branches = {}
  /\ IsFiniteSet(Instances)
  /\ MaxStarted \in Nat /\ MaxSends \in Nat \ {0} /\ MaxFaults \in Nat

VARIABLES
  inst,     (* Rows of process_instances, and how many a key has created.    *)
  rcpt,     (* process_scheduled_start_receipts: response and cancellation.  *)
  wf,       (* agatProcessWorkflow of each instance.                         *)
  par,      (* agatScheduledProcessWorkflow of each occurrence.              *)
  reqs,     (* scheduled-start requests that are still under way.            *)
  note,     (* The news of an instance since the last tick: none, a          *)
            (* notification that is sent or lost, a change nobody is told of. *)
  coord,    (* The coordinator: whether it is up, the starts it has in hand,  *)
            (* and those it has to take back.                                *)
  faults    (* BOUND: faults so far.                                         *)

db   == <<inst, rcpt>>
net  == <<reqs, note>>
vars == <<inst, rcpt, wf, par, reqs, note, coord, faults>>

Ended   == {"completed", "stopped"}
Asleep  == {"sleep", "cleanSleep"}

(* TYPE INVARIANT: in particular an idempotency key creates one instance at *)
(* most, however often scheduled-start arrives.                            *)
TypeOK ==
  /\ inst \in [Instances ->
       [status : {"absent", "active", "compensating"} \cup Ended,
        wait   : [Branches -> {"work", "ahead", "due", "done"}],
        cur    : Branches \cup {"join"},               (* current_node_id      *)
        armed  : BOOLEAN,                              (* has a compensation   *)
        born   : 0..1]]
  /\ rcpt \in [Scheduled -> {"none", "made", "madeCancelled", "fenced"}]
  /\ wf \in [Instances ->
       [st    : {"none", "tick", "told", "cancelCall", "cleanTick", "closed"} \cup Asleep,
        wake  : BOOLEAN,                               (* revision # observed  *)
        timer : Branches \cup {"poll", "end"},         (* of the last reply    *)
        stray : BOOLEAN]]                              (* an abandoned tick    *)
  /\ par \in [Scheduled ->
       {"none", "start", "child", "run", "cancelCall", "cleanSleep", "cleanTick", "closed"}]
  /\ reqs \in [Scheduled -> 0..MaxSends]
  /\ note \in [Instances -> {"none", "sent", "lost", "silent"}]
  /\ coord \in [up : BOOLEAN, starting : SUBSET Direct, failed : SUBSET Direct]
  /\ faults \in 0..MaxFaults

Init ==
  /\ \E c \in Branches :
       inst = [i \in Instances |->
                [status |-> "absent", cur |-> c, armed |-> FALSE, born |-> 0,
                 wait |-> [b \in Branches |-> IF b \in Working THEN "work" ELSE "ahead"]]]
  /\ rcpt = [k \in Scheduled |-> "none"]
  /\ wf = [i \in Instances |-> [st |-> "none", wake |-> FALSE, timer |-> "poll", stray |-> FALSE]]
  /\ par = [k \in Scheduled |-> "none"]
  /\ reqs = [k \in Scheduled |-> 0]
  /\ note = [i \in Instances |-> "none"]
  /\ coord = [up |-> TRUE, starting |-> {}, failed |-> {}]
  /\ faults = 0

Fault == faults < MaxFaults /\ faults' = faults + 1

(***************************************************************************)
(* The engine, as far as the runtime sees it.                              *)
(***************************************************************************)
(* startProcess: the token enters every branch, `cur` the last.            *)
Born(row) == [row EXCEPT !.status = "active", !.born = @ + 1]

(* completeDueWaitStages: every wait that is due is over; the last branch   *)
(* to reach the join completes the instance.                               *)
Ticked(row) ==
  LET due == {b \in Branches : row.wait[b] = "due"}
      now == [b \in Branches |-> IF b \in due THEN "done" ELSE row.wait[b]]
  IN  IF row.status # "active" \/ due = {} THEN row
      ELSE [row EXCEPT !.wait = now, !.cur = "join",
              !.status = IF \A b \in Branches : now[b] = "done" THEN "completed" ELSE @]

(* cancelProcessInstance, or the failure of a stage: what is armed is       *)
(* compensated first.                                                      *)
Cancelled(row) ==
  IF row.status # "active" THEN row
  ELSE [row EXCEPT !.status = IF row.armed THEN "compensating" ELSE "stopped",
                   !.wait = [b \in Branches |-> "done"], !.cur = "join"]

(* nextCheckDelay of durableProcessState: the deadline of the wait at the   *)
(* current node, otherwise a poll after a minute, five, or an hour.        *)
TimerOf(row) ==
  IF row.cur # "join" /\ row.wait[row.cur] \in {"ahead", "due"} THEN row.cur ELSE "poll"

(* The database says that there is nothing left to do, or when to ask next. *)
ReplyOf(row) == IF row.status \in Ended THEN "end" ELSE TimerOf(row)

(* A request that changed the instance calls notifyProcessRuntime.  What    *)
(* the maintenance timer, another worker's poll or the overview changed --  *)
(* a lease swept, a signal expired, an embedded subprocess whose wait was   *)
(* over -- notifies nobody.                                                *)
Silent(i) == note' = [note EXCEPT ![i] = IF @ = "none" THEN "silent" ELSE @]
Notify(i) == note' = [note EXCEPT ![i] = "sent"] \/ Silent(i)

(* The stage of a branch is completed, an HTTP stage with a compensation    *)
(* perhaps, or a subprocess; the branch comes to its timer.                *)
Report(i, b) ==
  /\ coord.up /\ inst[i].status = "active" /\ inst[i].wait[b] = "work"
  /\ \E armed \in {inst[i].armed, TRUE} :
       inst' = [inst EXCEPT ![i].wait[b] = "ahead", ![i].cur = b, ![i].armed = armed]
  /\ Notify(i)
  /\ UNCHANGED <<rcpt, wf, par, reqs, coord, faults>>

(* A stage fails for good, or an operator cancels the instance.            *)
Stop(i) ==
  /\ coord.up /\ inst[i].status = "active"
  /\ inst' = [inst EXCEPT ![i] = Cancelled(@)]
  /\ Notify(i)
  /\ UNCHANGED <<rcpt, wf, par, reqs, coord, faults>>

(* The last compensation is carried out, or given up.                      *)
Compensate(i) ==
  /\ coord.up /\ inst[i].status = "compensating"
  /\ inst' = [inst EXCEPT ![i].status = "stopped"]
  /\ Notify(i)
  /\ UNCHANGED <<rcpt, wf, par, reqs, coord, faults>>

(* enforceRunIdentities: the principal of an instance has lost its right,   *)
(* and it ends at once, what is armed is not compensated.                  *)
Revoke(i) ==
  /\ coord.up /\ inst[i].status \in {"active", "compensating"}
  /\ inst' = [inst EXCEPT ![i].status = "stopped", ![i].cur = "join",
                          ![i].wait = [b \in Branches |-> "done"]]
  /\ Silent(i)
  /\ UNCHANGED <<rcpt, wf, par, reqs, coord, faults>>

(* The deadline of a wait passes.                                          *)
Pass(i, b) ==
  /\ inst[i].status = "active" /\ inst[i].wait[b] = "ahead"
  /\ inst' = [inst EXCEPT ![i].wait[b] = "due"]
  /\ UNCHANGED <<rcpt, wf, par, net, coord, faults>>

(***************************************************************************)
(* Starting by a request: the commit, then the workflow.                   *)
(***************************************************************************)
Started == {i \in Direct : inst[i].born > 0} \cup {k \in Scheduled : par[k] # "none"}

StartDirect(i) ==
  /\ coord.up /\ inst[i].status = "absent" /\ Cardinality(Started) < MaxStarted
  /\ inst' = [inst EXCEPT ![i] = Born(@)]
  /\ coord' = [coord EXCEPT !.starting = @ \cup {i}]
  /\ UNCHANGED <<rcpt, wf, par, net, faults>>

(* workflow.start with USE_EXISTING and REJECT_DUPLICATE: the first task of *)
(* a new workflow is a tick, one that exists or existed stays as it is.    *)
Begun(w) == IF w.st = "none" THEN [w EXCEPT !.st = "tick"] ELSE w

Accept(i) ==
  /\ coord.up /\ i \in coord.starting
  /\ wf' = [wf EXCEPT ![i] = Begun(@)]
  /\ coord' = [coord EXCEPT !.starting = @ \ {i}]
  /\ UNCHANGED <<db, par, net, faults>>

(* Temporal cannot be reached, or its reply is lost though it has accepted: *)
(* then the workflow is under way.                                         *)
Refuse(i) ==
  /\ coord.up /\ i \in coord.starting /\ Fault
  /\ \E w \in {wf[i], Begun(wf[i])} : wf' = [wf EXCEPT ![i] = w]
  /\ coord' = [coord EXCEPT !.starting = @ \ {i}, !.failed = @ \cup {i}]
  /\ UNCHANGED <<db, par, net>>

(* The request that started it cancels the instance and answers 503; it     *)
(* does not notify a workflow that it takes for absent.                    *)
TakeBack(i) ==
  /\ coord.up /\ i \in coord.failed
  /\ inst' = [inst EXCEPT ![i] = Cancelled(@)]
  /\ Silent(i)
  /\ coord' = [coord EXCEPT !.failed = @ \ {i}]
  /\ UNCHANGED <<rcpt, wf, par, reqs, faults>>

Crash ==
  /\ coord.up /\ Fault
  /\ coord' = [up |-> FALSE, starting |-> {}, failed |-> {}]
  /\ note' = [i \in Instances |-> IF note[i] = "sent" THEN "lost" ELSE note[i]]
  /\ UNCHANGED <<db, wf, par, reqs>>

(* MUTANT of Reconciled: the instances of schedules are started as well.    *)
ReconciledAll == {i \in Instances : inst[i].status \in {"active", "compensating"}}

(* listActiveDurableProcesses.                                             *)
Reconciled == {i \in Direct : inst[i].status \in {"active", "compensating"}}

(* MUTANT of Restart: active instances are not looked for.                  *)
RestartBare ==
  /\ ~coord.up
  /\ coord' = [coord EXCEPT !.up = TRUE]
  /\ UNCHANGED <<db, wf, par, net, faults>>

Restart ==
  /\ ~coord.up
  /\ coord' = [coord EXCEPT !.up = TRUE]
  /\ wf' = [i \in Instances |-> IF i \in Reconciled THEN Begun(wf[i]) ELSE wf[i]]
  /\ UNCHANGED <<db, par, net, faults>>

(***************************************************************************)
(* Notifications: sent once, without waiting for the answer.               *)
(***************************************************************************)
Deliver(i) ==
  /\ note[i] = "sent"
  /\ wf' = [wf EXCEPT ![i].wake = @ \/ wf[i].st \notin {"none", "closed"}]
  /\ note' = [note EXCEPT ![i] = "none"]
  /\ UNCHANGED <<db, par, reqs, coord, faults>>

LoseNote(i) ==
  /\ note[i] = "sent" /\ Fault
  /\ note' = [note EXCEPT ![i] = "lost"]
  /\ UNCHANGED <<db, wf, par, reqs, coord>>

(***************************************************************************)
(* agatProcessWorkflow.                                                    *)
(***************************************************************************)
(* Two steps of driveProcess: the coordinator carries out a tick and says    *)
(* what it finds; lost and silent changes are in what it says.              *)
Tick(i) ==
  /\ coord.up /\ wf[i].st = "tick"
  /\ inst' = [inst EXCEPT ![i] = Ticked(@)]
  /\ \/ /\ wf' = [wf EXCEPT ![i].st = "told", ![i].timer = ReplyOf(Ticked(inst[i]))]
        /\ note' = [note EXCEPT ![i] = IF @ \in {"lost", "silent"} THEN "none" ELSE @]
        /\ UNCHANGED faults
     \/ Fault /\ UNCHANGED <<wf, note>>        (* the reply is lost: again   *)
  /\ UNCHANGED <<rcpt, par, reqs, coord>>

(* MUTANT of Heard: the revision is read when the reply is there.           *)
HeardLate(w) ==
  IF w.timer = "end" THEN [w EXCEPT !.st = "closed"]
  ELSE [w EXCEPT !.st = "sleep", !.wake = FALSE]

(* ... and the workflow takes the reply up.  It has read the revision       *)
(* before it asked, so a wake-up since then is not forgotten.              *)
Heard(w) ==
  IF w.timer = "end" THEN [w EXCEPT !.st = "closed"] ELSE [w EXCEPT !.st = "sleep"]

Hear(i) ==
  /\ wf[i].st = "told"
  /\ wf' = [wf EXCEPT ![i] = Heard(@)]
  /\ UNCHANGED <<db, par, net, coord, faults>>

(* The condition holds, its timer fires or the history has grown too long:  *)
(* continueAsNew goes back to the top of the loop without a revision.      *)
Fires(i) == wf[i].timer \in Branches => inst[i].wait[wf[i].timer] # "ahead"

Wake(i) ==
  /\ wf[i].st = "sleep" /\ (wf[i].wake \/ Fires(i))
  /\ wf' = [wf EXCEPT ![i].st = "tick", ![i].wake = FALSE]
  /\ UNCHANGED <<db, par, net, coord, faults>>

ContinueAsNew(i) ==
  /\ wf[i].st = "told" /\ wf[i].timer # "end"
  /\ wf' = [wf EXCEPT ![i].st = "tick", ![i].wake = FALSE]
  /\ UNCHANGED <<db, par, net, coord, faults>>

(* Temporal cancels the workflow, for its operator or for the parent; a     *)
(* tick under way is given up and may still arrive.                        *)
CancelWorkflow(i) ==
  /\ wf[i].st \in {"tick", "told", "sleep"}
  /\ wf' = [wf EXCEPT ![i].st = "cancelCall", ![i].stray = @ \/ wf[i].st = "tick"]
  /\ UNCHANGED <<db, par, net, coord, faults>>

StrayTick(i) ==
  /\ coord.up /\ wf[i].stray
  /\ inst' = [inst EXCEPT ![i] = Ticked(@)]
  /\ wf' = [wf EXCEPT ![i].stray = FALSE]
  /\ UNCHANGED <<rcpt, par, net, coord, faults>>

(* The cleanup of a cancelled workflow: cancelProcess once, then ticks till *)
(* the instance has ended, each after a wake-up or a minute.  A reply is    *)
(* taken up as it is given: that an instance has ended is never old news.   *)
Cleaned(row) == IF row.status \in Ended THEN "closed" ELSE "cleanSleep"

CancelCall(i) ==
  /\ coord.up /\ wf[i].st = "cancelCall"
  /\ inst' = [inst EXCEPT ![i] = Cancelled(@)]
  /\ \/ /\ wf' = [wf EXCEPT ![i].st = Cleaned(Cancelled(inst[i])), ![i].wake = FALSE]
        /\ UNCHANGED faults
     \/ Fault /\ UNCHANGED wf
  /\ UNCHANGED <<rcpt, par, net, coord>>

CleanWake(i) ==
  /\ wf[i].st = "cleanSleep"
  /\ wf' = [wf EXCEPT ![i].st = "cleanTick"]
  /\ UNCHANGED <<db, par, net, coord, faults>>

CleanTick(i) ==
  /\ coord.up /\ wf[i].st = "cleanTick"
  /\ inst' = [inst EXCEPT ![i] = Ticked(@)]
  /\ wf' = [wf EXCEPT ![i].st = Cleaned(Ticked(inst[i])), ![i].wake = FALSE]
  /\ UNCHANGED <<rcpt, par, net, coord, faults>>

(***************************************************************************)
(* agatScheduledProcessWorkflow and the receipts.                          *)
(***************************************************************************)
Trigger(k) ==
  /\ par[k] = "none" /\ Cardinality(Started) < MaxStarted
  /\ par' = [par EXCEPT ![k] = "start"]
  /\ UNCHANGED <<db, wf, net, coord, faults>>

(* An attempt of the start activity; an earlier one may have timed out      *)
(* while its request is still under way.                                   *)
SendStart(k) ==
  /\ par[k] = "start" /\ reqs[k] < MaxSends
  /\ reqs' = [reqs EXCEPT ![k] = @ + 1]
  /\ UNCHANGED <<db, wf, par, note, coord, faults>>

LoseStart(k) ==
  /\ reqs[k] > 0 /\ Fault
  /\ reqs' = [reqs EXCEPT ![k] = @ - 1]
  /\ UNCHANGED <<db, wf, par, note, coord>>

(* MUTANT of Receive: the receipt is not looked up.                         *)
ReceiveAnew(k) ==
  IF rcpt[k] \in {"none", "made"}
  THEN inst' = [inst EXCEPT ![k] = Born(@)] /\ rcpt' = [rcpt EXCEPT ![k] = "made"]
  ELSE UNCHANGED db

(* startScheduledProcess under the lock of the project: instance, owner and *)
(* receipt, or what the receipt says.                                      *)
Receive(k) ==
  IF rcpt[k] = "none"
  THEN inst' = [inst EXCEPT ![k] = Born(@)] /\ rcpt' = [rcpt EXCEPT ![k] = "made"]
  ELSE UNCHANGED db

(* The parent goes on with the reply if it still waits for one, and fails   *)
(* on SCHEDULED_START_CANCELLED.                                           *)
ArriveStart(k) ==
  /\ coord.up /\ reqs[k] > 0
  /\ reqs' = [reqs EXCEPT ![k] = @ - 1]
  /\ Receive(k)
  /\ \/ /\ par' = [par EXCEPT ![k] = IF @ # "start" THEN @
                                     ELSE IF rcpt'[k] = "made" THEN "child" ELSE "closed"]
        /\ UNCHANGED faults
     \/ par[k] = "start" /\ Fault /\ UNCHANGED par     (* the reply is lost  *)
  /\ UNCHANGED <<wf, note, coord>>

(* startChild fails if somebody has already started the workflow.          *)
StartChild(k) ==
  /\ par[k] = "child"
  /\ par' = [par EXCEPT ![k] = IF wf[k].st = "none" THEN "run" ELSE "closed"]
  /\ wf' = [wf EXCEPT ![k] = Begun(@)]
  /\ UNCHANGED <<db, net, coord, faults>>

(* The parent is cancelled before its child has started, or just while the  *)
(* child starts; afterwards the cancellation is the child's.               *)
CancelParent(k) ==
  /\ par[k] \in {"start", "child"}
  /\ par' = [par EXCEPT ![k] = "cancelCall"]
  /\ \/ UNCHANGED wf
     \/ par[k] = "child" /\ wf' = [wf EXCEPT ![k].st = "cancelCall"]
  /\ UNCHANGED <<db, net, coord, faults>>

(* MUTANT of Fence: without a receipt there is nothing to record.           *)
FenceMade(k) ==
  /\ rcpt' = [rcpt EXCEPT ![k] = IF @ = "none" THEN "none" ELSE "madeCancelled"]
  /\ inst' = [inst EXCEPT ![k] = Cancelled(@)]

(* cancelScheduledProcess with the key of the start: the intent is recorded *)
(* whether or not the start has arrived yet.                               *)
Fence(k) ==
  /\ rcpt' = [rcpt EXCEPT ![k] = IF @ \in {"none", "fenced"} THEN "fenced" ELSE "madeCancelled"]
  /\ inst' = [inst EXCEPT ![k] = Cancelled(@)]

CancelScheduled(k) ==
  /\ coord.up /\ par[k] = "cancelCall"
  /\ Fence(k)
  /\ \/ /\ par' = [par EXCEPT ![k] =
                     IF inst[k].status = "absent" THEN "closed" ELSE Cleaned(Cancelled(inst[k]))]
        /\ UNCHANGED faults
     \/ Fault /\ UNCHANGED par
  /\ UNCHANGED <<wf, net, coord>>

ParentWake(k) ==
  /\ par[k] = "cleanSleep"
  /\ par' = [par EXCEPT ![k] = "cleanTick"]
  /\ UNCHANGED <<db, wf, net, coord, faults>>

ParentTick(k) ==
  /\ coord.up /\ par[k] = "cleanTick"
  /\ inst' = [inst EXCEPT ![k] = Ticked(@)]
  /\ par' = [par EXCEPT ![k] = Cleaned(Ticked(inst[k]))]
  /\ UNCHANGED <<rcpt, wf, net, coord, faults>>

(* child.result().                                                         *)
ParentEnds(k) ==
  /\ par[k] = "run" /\ wf[k].st = "closed"
  /\ par' = [par EXCEPT ![k] = "closed"]
  /\ UNCHANGED <<db, wf, net, coord, faults>>

(***************************************************************************)
(* The specification.                                                      *)
(***************************************************************************)
WorkflowStep(i) ==
  Tick(i) \/ Hear(i) \/ Wake(i) \/ CancelCall(i) \/ CleanWake(i) \/ CleanTick(i)
ParentStep(k) ==
  ArriveStart(k) \/ StartChild(k) \/ CancelScheduled(k) \/ ParentWake(k) \/ ParentTick(k) \/ ParentEnds(k)

Next ==
  \/ \E i \in Instances :
       \/ Tick(i) \/ Hear(i) \/ Wake(i) \/ ContinueAsNew(i)
       \/ CancelWorkflow(i) \/ StrayTick(i) \/ CancelCall(i) \/ CleanWake(i) \/ CleanTick(i)
       \/ Deliver(i) \/ LoseNote(i)
       \/ Stop(i) \/ Compensate(i) \/ Revoke(i)
       \/ \E b \in Branches : Report(i, b) \/ Pass(i, b)
  \/ \E i \in Direct : StartDirect(i) \/ Accept(i) \/ Refuse(i) \/ TakeBack(i)
  \/ \E k \in Scheduled :
       \/ Trigger(k) \/ SendStart(k) \/ LoseStart(k) \/ ArriveStart(k) \/ StartChild(k)
       \/ CancelParent(k) \/ CancelScheduled(k) \/ ParentWake(k) \/ ParentTick(k) \/ ParentEnds(k)
  \/ Crash \/ Restart

Spec == Init /\ [][Next]_vars

(* Activities are retried without limit, timers fire, a coordinator that is *)
(* down is started again; workers carry out stages and compensations.      *)
Fairness ==
  /\ WF_vars(Restart)
  /\ \A i \in Instances :
       /\ WF_vars(WorkflowStep(i)) /\ WF_vars(Deliver(i)) /\ WF_vars(Compensate(i))
       /\ \A b \in Branches : WF_vars(Report(i, b) \/ Pass(i, b))
  /\ \A i \in Direct : WF_vars(Accept(i) \/ TakeBack(i))
  /\ \A k \in Scheduled : WF_vars(SendStart(k)) /\ WF_vars(ParentStep(k))

FairSpec == Spec /\ Fairness

(***************************************************************************)
(* Properties.                                                             *)
(***************************************************************************)
(* No workflow, of a process or of a schedule, closes and leaves behind an  *)
(* instance that still moves: nobody would tick it again.                  *)
ClosedIsSettled ==
  /\ \A i \in Instances : wf[i].st = "closed" => inst[i].status \in Ended
  /\ \A k \in Scheduled : par[k] = "closed" => inst[k].status \in Ended \cup {"absent"}

(* Once the cancellation of a scheduled start has been recorded, no start   *)
(* that is still under way brings the process to life.                     *)
CancellationStands ==
  \A k \in Scheduled :
    /\ rcpt[k] = "fenced" => inst[k].status = "absent"
    /\ rcpt[k] = "madeCancelled" \/ par[k] = "closed" => inst[k].status # "active"

(* A workflow does not sleep through news it was sent: unless a notification *)
(* is on its way or was lost, or the coordinator has told nobody of a       *)
(* change since the last tick, its timer is the one that the database asks  *)
(* for now.  In particular a notification that comes during a tick counts   *)
(* although the reply of that tick knew nothing of the change.              *)
SleepsOnNews ==
  \A i \in Instances :
    wf[i].st = "sleep" /\ ~wf[i].wake /\ note[i] = "none" =>
      inst[i].status \notin Ended /\ wf[i].timer = TimerOf(inst[i])

(* Whatever is lost or crashes, every instance ends, and so does every      *)
(* workflow.                                                               *)
InstancesEnd ==
  /\ \A i \in Direct : inst[i].status = "active" ~> inst[i].status \in Ended /\ wf[i].st \in {"none", "closed"}
  /\ \A k \in Scheduled : par[k] # "none" ~>
       par[k] = "closed" /\ inst[k].status \in Ended \cup {"absent"} /\ wf[k].st \in {"none", "closed"}
===============================================================================
