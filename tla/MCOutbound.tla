------------------------------ MODULE MCOutbound ------------------------------
(***************************************************************************)
(* Small instances of the coordinator's three outbound protocols: with     *)
(* Temporal, with the sink of audit events, with the object store.  They    *)
(* share no state, so a behaviour of this module is one of one of them;    *)
(* which, is chosen at the start.                                          *)
(***************************************************************************)
EXTENDS Integers

CONSTANTS
  Direct, Scheduled, Branches, Working, MaxStarted, MaxSends, TemporalFaults,
  Coordinators, MaxAttempts,
  MaxEvents, BatchSize, MaxReplays, SinkFaults,
  Artifacts, LockModes, StoreFaults

VARIABLES
  protocol,                                    (* The one that is looked at. *)
  inst, rcpt, wf, par, reqs, note, coord,      (* DurableRuntime             *)
  last, outbox, letter, batch, sink,           (* SiemOutbox                 *)
  artifact, cmd, object, saving, job, admin, locks,     (* ArtifactStore     *)
  faults

temporalVars == <<inst, rcpt, wf, par, reqs, note, coord>>
sinkVars     == <<last, outbox, letter, batch, sink>>
storeVars    == <<artifact, cmd, object, saving, job, admin, locks>>

Temporal == INSTANCE DurableRuntime WITH MaxFaults <- TemporalFaults
Siem     == INSTANCE SiemOutbox
              WITH Exporters <- Coordinators, MaxFaults <- SinkFaults, row <- outbox
Store    == INSTANCE ArtifactStore WITH MaxFaults <- StoreFaults, row <- artifact

ASSUME OutboundAssumption ==
  Temporal!ConstantsAssumption /\ Siem!ConstantsAssumption /\ Store!ConstantsAssumption

(* What the other protocols could start with is not told apart.            *)
Init ==
  /\ protocol \in {"temporal", "siem", "store"}
  /\ Temporal!Init /\ Siem!Init /\ Store!Init
  /\ protocol # "temporal" =>
       \A i \in Temporal!Instances : inst[i].cur = CHOOSE b \in Branches : TRUE
  /\ protocol # "store" => locks /\ \A a \in Artifacts : artifact[a].state = "none"

OnlyTemporal == protocol = "temporal" /\ UNCHANGED <<protocol, sinkVars, storeVars>>
OnlySiem     == protocol = "siem" /\ UNCHANGED <<protocol, temporalVars, storeVars>>
OnlyStore    == protocol = "store" /\ UNCHANGED <<protocol, temporalVars, sinkVars>>

(* The components' Next, disjunct by disjunct.                             *)
TemporalNext ==
  \/ \E i \in Temporal!Instances :
       \/ Temporal!Tick(i) /\ OnlyTemporal
       \/ Temporal!Hear(i) /\ OnlyTemporal
       \/ Temporal!Wake(i) /\ OnlyTemporal
       \/ Temporal!ContinueAsNew(i) /\ OnlyTemporal
       \/ Temporal!CancelWorkflow(i) /\ OnlyTemporal
       \/ Temporal!StrayTick(i) /\ OnlyTemporal
       \/ Temporal!CancelCall(i) /\ OnlyTemporal
       \/ Temporal!CleanWake(i) /\ OnlyTemporal
       \/ Temporal!CleanTick(i) /\ OnlyTemporal
       \/ Temporal!Deliver(i) /\ OnlyTemporal
       \/ Temporal!LoseNote(i) /\ OnlyTemporal
       \/ Temporal!Stop(i) /\ OnlyTemporal
       \/ Temporal!Compensate(i) /\ OnlyTemporal
       \/ Temporal!Revoke(i) /\ OnlyTemporal
       \/ \E b \in Branches :
            \/ Temporal!Report(i, b) /\ OnlyTemporal
            \/ Temporal!Pass(i, b) /\ OnlyTemporal
  \/ \E i \in Direct :
       \/ Temporal!StartDirect(i) /\ OnlyTemporal
       \/ Temporal!Accept(i) /\ OnlyTemporal
       \/ Temporal!Refuse(i) /\ OnlyTemporal
       \/ Temporal!TakeBack(i) /\ OnlyTemporal
  \/ \E k \in Scheduled :
       \/ Temporal!Trigger(k) /\ OnlyTemporal
       \/ Temporal!SendStart(k) /\ OnlyTemporal
       \/ Temporal!LoseStart(k) /\ OnlyTemporal
       \/ Temporal!ArriveStart(k) /\ OnlyTemporal
       \/ Temporal!StartChild(k) /\ OnlyTemporal
       \/ Temporal!CancelParent(k) /\ OnlyTemporal
       \/ Temporal!CancelScheduled(k) /\ OnlyTemporal
       \/ Temporal!ParentWake(k) /\ OnlyTemporal
       \/ Temporal!ParentTick(k) /\ OnlyTemporal
       \/ Temporal!ParentEnds(k) /\ OnlyTemporal
  \/ Temporal!Crash /\ OnlyTemporal
  \/ Temporal!Restart /\ OnlyTemporal

SiemNext ==
  \/ Siem!Record /\ OnlySiem
  \/ Siem!Migrate /\ OnlySiem
  \/ Siem!ActivateRegion /\ OnlySiem
  \/ \E c \in Coordinators :
       \/ Siem!Claim(c) /\ OnlySiem
       \/ Siem!Store(c) /\ OnlySiem
       \/ Siem!Acknowledged(c) /\ OnlySiem
       \/ Siem!Crash(c) /\ OnlySiem
       \/ \E terminal \in BOOLEAN : Siem!Failed(c, terminal) /\ OnlySiem
  \/ \E e \in Siem!Events :
       \/ Siem!BackoffEnds(e) /\ OnlySiem
       \/ Siem!Lapse(e) /\ OnlySiem
       \/ Siem!Replay(e) /\ OnlySiem
       \/ Siem!Resolve(e) /\ OnlySiem
       \/ Siem!Purge(e) /\ OnlySiem

StoreNext ==
  \/ \E a \in Artifacts :
       \/ Store!Put(a) /\ OnlyStore
       \/ Store!Commit(a) /\ OnlyStore
       \/ Store!Rollback(a) /\ OnlyStore
       \/ Store!Stage(a) /\ OnlyStore
       \/ Store!Lapse(a) /\ OnlyStore
       \/ Store!BackoffEnds(a) /\ OnlyStore
       \/ Store!RetentionEnds(a) /\ OnlyStore
       \/ Store!LockEnds(a) /\ OnlyStore
       \/ Store!GraceEnds(a) /\ OnlyStore
       \/ \E hold \in BOOLEAN : Store!Protect(a, hold) /\ OnlyStore
       \/ Store!Protected(a) /\ OnlyStore
       \/ Store!Migrate(a) /\ OnlyStore
       \/ Store!MigratedTo(a) /\ OnlyStore
       \/ Store!DeleteOrphan(a) /\ OnlyStore
       \/ \E c \in Coordinators :
            \/ Store!Delete(c, a) /\ OnlyStore
            \/ Store!Delivered(c, a) /\ OnlyStore
            \/ Store!Fails(c, a) /\ OnlyStore
  \/ \E c \in Coordinators :
       \/ Store!Claim(c) /\ OnlyStore
       \/ Store!Crash(c) /\ OnlyStore
  \/ Store!Scan /\ OnlyStore
  \/ Store!Probe /\ OnlyStore
  \/ Store!Quarantine /\ OnlyStore
  \/ Store!Killed /\ OnlyStore

Next == TemporalNext \/ SiemNext \/ StoreNext

vars == <<protocol, temporalVars, sinkVars, storeVars, faults>>

(* What is fair in a protocol that has not begun is not enabled.           *)
Spec == Init /\ [][Next]_vars /\ Temporal!Fairness /\ Siem!Fairness /\ Store!Fairness

(* The properties of the three modules, where they are stated and explained. *)
TypeOK ==
  CASE protocol = "temporal" -> Temporal!TypeOK
    [] protocol = "siem"     -> Siem!TypeOK
    [] protocol = "store"    -> Store!TypeOK

ClosedIsSettled    == Temporal!ClosedIsSettled
CancellationStands == Temporal!CancellationStands
SleepsOnNews       == Temporal!SleepsOnNews
InstancesEnd       == Temporal!InstancesEnd
LettersMatch       == Siem!LettersMatch
EventsSettle       == Siem!EventsSettle
RowsTellTheTruth   == Store!RowsTellTheTruth
DeletionsSettle    == Store!DeletionsSettle
===============================================================================
