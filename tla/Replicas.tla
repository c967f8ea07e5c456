------------------------------- MODULE Replicas -------------------------------
(***************************************************************************)
(* Several coordinators over one PostgreSQL database, READ COMMITTED.      *)
(*                                                                         *)
(* A coordinator carries out one transaction at a time, statement by       *)
(* statement: what it has read may have been changed by another one since, *)
(* a row it has updated or selected FOR UPDATE stays locked until it       *)
(* commits, and SKIP LOCKED passes over the rows of others.  A transaction *)
(* whose first statement locks all that it goes on to read (completeLease, *)
(* failLease, the sweep of the maintenance tick) is one step: whoever else *)
(* wants its rows waits for the commit.                                    *)
(*                                                                         *)
(* Data abstracted: runs are linear chains of one project; `late` says     *)
(* that the deadline of a lease has passed; tool calls, nodes and revoked  *)
(* identities are left to StageLease.                                      *)
(***************************************************************************)
EXTENDS Integers, FiniteSets

CONSTANTS
  Coordinators,   (* The replicas.                                           *)
  Runs,           (* The runs ever submitted: numbers, in their order.       *)
  MaxStages,      (* Longest chain asked for.                                *)
  ChainOf,        (* How many stages each run asks for.                      *)
  Gated,          (* The runs that ask for an approval.                      *)
  MaxAttempts,    (* stages.max_attempts.                                    *)
  MaxQueued,      (* projects.max_queued_tasks.                              *)
  MaxRunning,     (* projects.max_running_tasks.                             *)
  MaxAborts,      (* BOUND: transactions that are rolled back.               *)
  OperatorsRace   (* Others may step in between an operator's statements.    *)

ASSUME LimitsAssumption ==
  /\ Runs \subseteq Nat /\ MaxStages \in Nat \ {0}
  /\ ChainOf \in [Runs -> 1..MaxStages] /\ Gated \subseteq Runs
  /\ MaxAttempts \in Nat \ {0} /\ MaxQueued \in Nat \ {0} /\ MaxRunning \in Nat \ {0}
  /\ MaxAborts \in Nat /\ OperatorsRace \in BOOLEAN

Stages == Runs \X (1..MaxStages)

OpenRun   == {"queued", "running", "waiting_approval"}
EndedRun  == {"completed", "failed", "cancelled"}
OpenStage == {"pending", "queued", "running", "waiting_approval"}
Operator  == {"cancel", "approve", "reject"}

VARIABLES
  run,      (* The committed rows of runs.                                   *)
  stage,    (* The committed rows of stages.                                 *)
  tx,       (* The transaction each coordinator has open.                    *)
  aborts    (* BOUND: how many were rolled back.                             *)

rows == <<run, stage>>
vars == <<run, stage, tx, aborts>>

(* `of` is the stage, or the first stage of the run, that the transaction  *)
(* is about; `room` whether the queue of the project had room; `swept` the *)
(* stages its sweep has updated, which stay locked together with their     *)
(* runs; `pool` the candidates that the snapshot of its query holds.       *)
NoStage == <<>>
Idle    == [op |-> "none", of |-> NoStage, room |-> FALSE, swept |-> {}, pool |-> {}]

(* TYPE INVARIANT: in particular no stage is ever leased more often than    *)
(* max_attempts allows, whichever replicas take it back and give it out.   *)
TypeOK ==
  /\ run \in [Runs -> [status : OpenRun \cup EndedRun \cup {"absent", "refused"},
                       len    : 0..MaxStages]]
  /\ stage \in [Stages -> [status  : OpenStage \cup EndedRun \cup {"absent"},
                           attempt : 0..MaxAttempts,   (* numbers its leases  *)
                           late    : BOOLEAN]]
  /\ tx \in [Coordinators ->
               [op    : {"none", "create", "swept", "selected"} \cup Operator,
                of    : Stages \cup {NoStage},
                room  : BOOLEAN,
                swept : SUBSET Stages,
                pool  : SUBSET Stages]]
  /\ aborts \in 0..MaxAborts

Init ==
  /\ run = [r \in Runs |-> [status |-> "absent", len |-> 0]]
  /\ stage = [s \in Stages |-> [status |-> "absent", attempt |-> 0, late |-> FALSE]]
  /\ tx = [c \in Coordinators |-> Idle]
  /\ aborts = 0

(***************************************************************************)
(* Transactions and their locks.                                           *)
(***************************************************************************)
Others(c) == Coordinators \ {c}

StageFree(c, s) == \A d \in Others(c) : s \notin tx[d].swept
RunFree(c, r)   == \A d \in Others(c) : \A s \in tx[d].swept : s[1] # r
ProjectFree(c)  == \A d \in Others(c) : tx[d].op # "create"

(* Unless operators race, the statements of a cancellation or of a decision *)
(* follow each other without another transaction between them.             *)
Calm == OperatorsRace \/ \A d \in Coordinators : tx[d].op \notin Operator
AtOnce(c, r) == OperatorsRace \/ RunFree(c, r)

Begin(c, t) == tx[c].op = "none" /\ Calm /\ tx' = [tx EXCEPT ![c] = t]
Commit(c)   == tx' = [tx EXCEPT ![c] = Idle]

(* The payload cannot be built, the connection is lost, PostgreSQL resolves *)
(* a deadlock against it or the statement timeout strikes.  To roll back a  *)
(* transaction that holds no lock is to have read and found nothing.       *)
Abort(c) ==
  /\ tx[c].op = "create" \/ tx[c].swept # {}
  /\ aborts < MaxAborts
  /\ aborts' = aborts + 1
  /\ Commit(c)
  /\ UNCHANGED rows

(***************************************************************************)
(* createRun: assertProjectQueueCapacity locks the row of the project and  *)
(* counts, then the run and its chain are inserted.                        *)
(***************************************************************************)
Room == Cardinality({r \in Runs : run[r].status \in OpenRun}) + 1 <= MaxQueued

(* MUTANT of CreateLock: the row of the project is not locked.              *)
CreateCount(c) ==
  /\ Begin(c, [Idle EXCEPT !.op = "create", !.room = Room])
  /\ UNCHANGED <<run, stage, aborts>>

CreateLock(c) ==
  /\ ProjectFree(c) /\ \E r \in Runs : run[r].status = "absent"
  /\ Begin(c, [Idle EXCEPT !.op = "create", !.room = Room])
  /\ UNCHANGED <<run, stage, aborts>>

(* BOUND: runs are submitted in the order of their numbers, each once.      *)
CreateRun(c, r) ==
  LET n     == ChainOf[r]
      first == IF r \in Gated /\ n = 1 THEN "waiting_approval" ELSE "queued"
  IN  /\ tx[c].op = "create" /\ Calm
      /\ run[r].status = "absent"
      /\ \A q \in Runs : q < r => run[q].status # "absent"
      /\ run' = [run EXCEPT ![r] = IF tx[c].room THEN [status |-> first, len |-> n]
                                   ELSE [@ EXCEPT !.status = "refused"]]
      /\ stage' = [s \in Stages |->
           IF s[1] # r \/ s[2] > n \/ ~tx[c].room THEN stage[s]
           ELSE [stage[s] EXCEPT !.status = IF s[2] = 1 THEN first ELSE "pending"]]
      /\ Commit(c)
      /\ UNCHANGED aborts

(***************************************************************************)
(* cleanupExpiredLeases, in the maintenance tick and before a lease.        *)
(***************************************************************************)
(* MUTANT of GivenBack: the attempts are not counted.                       *)
GivenBackAgain(row) == [row EXCEPT !.status = "queued", !.late = FALSE]

(* What becomes of a stage whose lease has ended without a result.         *)
GivenBack(row) ==
  [row EXCEPT !.status = IF row.attempt < MaxAttempts THEN "queued" ELSE "failed", !.late = FALSE]

StagesBack(S) == [s \in Stages |-> IF s \in S THEN GivenBack(stage[s]) ELSE stage[s]]
RunsBack(S) ==
  [r \in Runs |-> IF \E s \in S : s[1] = r
                  THEN [run[r] EXCEPT !.status = GivenBack(stage[CHOOSE s \in S : s[1] = r]).status]
                  ELSE run[r]]

Late(s) == stage[s].status = "running" /\ stage[s].late

(* FOR UPDATE SKIP LOCKED.                                                 *)
Sweepable(c) == {s \in Stages : Late(s) /\ StageFree(c, s)}

MaintenanceSweep(c) ==
  /\ tx[c].op = "none" /\ Calm
  /\ Sweepable(c) # {}
  /\ stage' = StagesBack(Sweepable(c)) /\ run' = RunsBack(Sweepable(c))
  /\ UNCHANGED <<tx, aborts>>

(***************************************************************************)
(* leaseNext: the sweep, the query of candidates, the grant.               *)
(***************************************************************************)
LeaseSweep(c) ==
  /\ Begin(c, [Idle EXCEPT !.op = "swept", !.swept = Sweepable(c)])
  /\ UNCHANGED <<run, stage, aborts>>

(* What coordinator c reads: the committed rows and its own updates.       *)
Seen(c)    == StagesBack(tx[c].swept)
SeenRun(c) == RunsBack(tx[c].swept)

Load(c) == Cardinality({s \in Stages : Seen(c)[s].status = "running"})

(* MUTANT of Candidates: only runs that wait in the queue.                  *)
CandidatesOfQueued(c) ==
  {s \in Stages :
     /\ Seen(c)[s].status = "queued" /\ SeenRun(c)[s[1]].status = "queued"
     /\ Load(c) < MaxRunning
     /\ \A j \in 1..(s[2] - 1) : Seen(c)[<<s[1], j>>].status = "completed"}

Candidates(c) ==
  {s \in Stages :
     /\ Seen(c)[s].status = "queued"
     /\ SeenRun(c)[s[1]].status \in {"queued", "running"}
     /\ Load(c) < MaxRunning
     /\ \A j \in 1..(s[2] - 1) : Seen(c)[<<s[1], j>>].status = "completed"}

(* The rows that the query finds in its snapshot.  It locks them one after  *)
(* the other only then, while others may already have changed them.        *)
LeaseSelect(c) ==
  /\ tx[c].op = "swept" /\ Calm
  /\ tx' = [tx EXCEPT ![c].op = "selected", ![c].pool = Candidates(c)]
  /\ UNCHANGED <<run, stage, aborts>>

(* MUTANT of Grantable: no FOR UPDATE, and an UPDATE by id alone.           *)
GrantableAsRead(c) == tx[c].pool

(* FOR UPDATE OF p, s SKIP LOCKED passes over what others hold and looks at *)
(* a changed stage again; at the counts of the query it does not.          *)
Grantable(c) ==
  {s \in tx[c].pool : ProjectFree(c) /\ StageFree(c, s) /\ Seen(c)[s].status = "queued"}

LeaseGrant(c) ==
  /\ tx[c].op = "selected" /\ Calm
  /\ \E s \in Grantable(c) :
       /\ stage' = [Seen(c) EXCEPT ![s] =
                      [status |-> "running", attempt |-> @.attempt + 1, late |-> FALSE]]
       /\ run' = [SeenRun(c) EXCEPT ![s[1]].status = "running"]
  /\ Commit(c)
  /\ UNCHANGED aborts

LeaseNothing(c) ==
  /\ tx[c].op = "selected" /\ Calm
  /\ Grantable(c) = {}
  /\ stage' = Seen(c) /\ run' = SeenRun(c)
  /\ Commit(c)
  /\ UNCHANGED aborts

(***************************************************************************)
(* completeLease and failLease lock the stage first and refuse a late lease. *)
(***************************************************************************)
(* MUTANT of Held: the deadline is not looked at.                           *)
HeldOrLate(s) == stage[s].status = "running"

Held(s) == stage[s].status = "running" /\ ~stage[s].late

Complete(s) ==
  LET next == <<s[1], s[2] + 1>>
      last == s[2] = run[s[1]].len
      to   == IF s[1] \in Gated /\ s[2] + 1 = run[s[1]].len THEN "waiting_approval" ELSE "queued"
  IN  /\ Held(s) /\ Calm
      /\ stage' = [q \in Stages |->
           IF q = s THEN [stage[q] EXCEPT !.status = "completed"]
           ELSE IF q = next /\ ~last THEN [stage[q] EXCEPT !.status = to]
           ELSE stage[q]]
      /\ run' = [run EXCEPT ![s[1]].status =
                   IF last THEN "completed" ELSE IF to = "queued" THEN "running" ELSE to]
      /\ UNCHANGED <<tx, aborts>>

Fail(s) ==
  /\ Held(s) /\ Calm
  /\ stage' = StagesBack({s}) /\ run' = RunsBack({s})
  /\ UNCHANGED <<tx, aborts>>

(* The deadline of a lease passes: no heartbeat has renewed it.            *)
Lapse(s) ==
  /\ Held(s) /\ Calm
  /\ stage' = [stage EXCEPT ![s].late = TRUE]
  /\ UNCHANGED <<run, tx, aborts>>

(***************************************************************************)
(* cancelRun and decideApproval: a SELECT without lock, then UPDATEs, of    *)
(* which those of the run and of the decided stage look at nothing but ids. *)
(***************************************************************************)
CancelRead(c, r) ==
  /\ run[r].status \in OpenRun /\ AtOnce(c, r)
  /\ Begin(c, [Idle EXCEPT !.op = "cancel", !.of = <<r, 1>>])
  /\ UNCHANGED <<run, stage, aborts>>

CancelWrite(c) ==
  LET r == tx[c].of[1]
  IN  /\ tx[c].op = "cancel"
      /\ RunFree(c, r)
      /\ stage' = [s \in Stages |->
           IF s[1] = r /\ stage[s].status \in OpenStage
             THEN [stage[s] EXCEPT !.status = "cancelled", !.late = FALSE] ELSE stage[s]]
      /\ run' = [run EXCEPT ![r].status = "cancelled"]
      /\ Commit(c)
      /\ UNCHANGED aborts

DecideRead(c, s, verdict) ==
  /\ stage[s].status = "waiting_approval" /\ AtOnce(c, s[1])
  /\ Begin(c, [Idle EXCEPT !.op = verdict, !.of = s])
  /\ UNCHANGED <<run, stage, aborts>>

DecideWrite(c) ==
  LET s  == tx[c].of
      ok == tx[c].op = "approve"
  IN  /\ tx[c].op \in {"approve", "reject"}
      /\ RunFree(c, s[1])
      /\ stage' = [stage EXCEPT ![s].status = IF ok THEN "queued" ELSE "cancelled"]
      /\ run' = [run EXCEPT ![s[1]].status = IF ok THEN "running" ELSE "cancelled"]
      /\ Commit(c)
      /\ UNCHANGED aborts

(***************************************************************************)
(* The specification.                                                      *)
(***************************************************************************)
CreateOf(c)  == \E r \in Runs : CreateRun(c, r)
LeaseStep(c) == LeaseSweep(c) \/ LeaseSelect(c) \/ LeaseGrant(c) \/ LeaseNothing(c)

Next ==
  \/ \E c \in Coordinators :
       \/ CreateLock(c) \/ CreateOf(c)
       \/ LeaseSweep(c) \/ LeaseSelect(c) \/ LeaseGrant(c) \/ LeaseNothing(c)
       \/ MaintenanceSweep(c)
       \/ CancelWrite(c) \/ DecideWrite(c)
       \/ Abort(c)
       \/ \E r \in Runs : CancelRead(c, r)
       \/ \E s \in Stages, verdict \in {"approve", "reject"} : DecideRead(c, s, verdict)
  \/ \E s \in Stages : Complete(s) \/ Fail(s) \/ Lapse(s)

Spec == Init /\ [][Next]_vars

(* A transaction goes on until it ends, workers keep asking every replica   *)
(* for work, and whoever holds a lease reports in time or is late.         *)
Fairness ==
  /\ \A c \in Coordinators :
       WF_vars(LeaseStep(c) \/ CreateOf(c) \/ CancelWrite(c) \/ DecideWrite(c))
  /\ \A s \in Stages : WF_vars(Complete(s) \/ Fail(s) \/ Lapse(s))

FairSpec == Spec /\ Fairness

(***************************************************************************)
(* Properties.                                                             *)
(***************************************************************************)
(* Two replicas never have the same stage in hand: a lease that is held and *)
(* not late stands until its worker reports or falls silent, or an operator *)
(* cancels; no step of a replica with an older reading replaces or ends it. *)
OneLeaseAtATime ==
  [][\A s \in Stages :
       Held(s) /\ stage'[s] # stage[s] =>
         Complete(s) \/ Fail(s) \/ Lapse(s) \/ \E c \in Coordinators : CancelWrite(c)]_stage

(* The last place in the queue of a project is given away once, though two  *)
(* replicas may count the open runs at the same time.                      *)
QueueQuota == Cardinality({r \in Runs : run[r].status \in OpenRun}) <= MaxQueued

(* A run that is completed, failed or cancelled never changes again.       *)
EndedForGood ==
  [][\A r \in Runs : run[r].status \in EndedRun => run'[r].status = run[r].status]_run

(* Neither SKIP LOCKED, nor a rollback, nor a worker that falls silent ever *)
(* leaves a run behind: it ends, or comes before the operator.             *)
RunsAdvance ==
  \A r \in Runs :
    run[r].status \in {"queued", "running"} ~> run[r].status \in EndedRun \cup {"waiting_approval"}

(* What a client is promised by one coordinator it is promised by several:  *)
(* the committed rows go through the life of a chain step by step.         *)
Promise == INSTANCE RunLifecycle WITH
  phase <- [r \in Runs |-> IF run[r].status \in {"absent", "refused"} THEN "absent"
                           ELSE IF run[r].status \in OpenRun THEN "open" ELSE run[r].status],
  len   <- [r \in Runs |-> run[r].len],
  done  <- [r \in Runs |-> Cardinality({s \in Stages : s[1] = r /\ stage[s].status = "completed"})]

ImplementsLifecycle == Promise!Spec
===============================================================================
