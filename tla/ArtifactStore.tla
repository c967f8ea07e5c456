----------------------------- MODULE ArtifactStore -----------------------------
(***************************************************************************)
(* Artifacts between PostgreSQL, which says what exists, and an S3 bucket, *)
(* which has the bytes.                                                    *)
(*                                                                         *)
(* There is no transaction across the two.  Bytes are put before their row *)
(* is committed.  An artifact whose retention is over is deleted through   *)
(* artifact_storage_outbox: coordinators stage a command, claim it for 60  *)
(* seconds, delete the object and settle the command.  An administrator    *)
(* protects artifacts, moves old payloads out of PostgreSQL and reconciles *)
(* the bucket with the rows, from a process of their own.  Coordinators    *)
(* stall and crash between any two steps, and a call to S3 may fail with   *)
(* or without its effect.                                                  *)
(*                                                                         *)
(* Data abstracted: contents, hashes and sizes (an object is there or not), *)
(* object versions (keys are never reused), and times, which are flags.    *)
(* Nobody deletes runs, and nobody else writes to the bucket, which is     *)
(* external.                                                               *)
(***************************************************************************)
EXTENDS Integers, FiniteSets

CONSTANTS
  Artifacts,      (* Artifacts, by id.                                       *)
  Coordinators,   (* Processes that run the lifecycle.                       *)
  MaxAttempts,    (* Attempts to delete an object: 10 in the code.           *)
  LockModes,      (* Whether the bucket enforces protection: TRUE, FALSE.    *)
  MaxFaults       (* BOUND: crashes, stalls and failed calls.                *)

ConstantsAssumption ==
  /\ MaxAttempts \in Nat \ {0} /\ MaxFaults \in Nat /\ LockModes \subseteq BOOLEAN

VARIABLES
  row,      (* artifacts.                                                    *)
  cmd,      (* artifact_storage_outbox, by artifact.                         *)
  object,   (* The bucket: age and protection of each object.                *)
  saving,   (* Artifacts that were put and whose rows are not committed yet. *)
  job,      (* What the lifecycle of each coordinator has in hand.           *)
  admin,    (* What the administrator's process is at.                       *)
  locks,    (* artifactObjectLockMode # none.                                *)
  faults    (* BOUND: faults so far.                                         *)

vars == <<row, cmd, object, saving, job, admin, locks, faults>>

NoObject == [age |-> "none", lock |-> "none"]
NoItem   == [attempts |-> 0, gone |-> FALSE]
NoJob    == [a \in Artifacts |-> NoItem]
Idle     == [op |-> "idle", art |-> {}, hold |-> FALSE, seen |-> {}]

Init ==
  /\ row \in [Artifacts -> {[state |-> s, hold |-> FALSE, due |-> FALSE] : s \in {"none", "postgresql"}}]
  /\ cmd = [a \in Artifacts |->
       [status |-> "none", attempts |-> 0, by |-> "none", ready |-> TRUE, lapsed |-> FALSE]]
  /\ object = [a \in Artifacts |-> NoObject]
  /\ saving = {}
  /\ job = [c \in Coordinators |-> NoJob]
  /\ admin = Idle
  /\ locks \in LockModes
  /\ faults = 0

Fault   == faults < MaxFaults /\ faults' = faults + 1
Kept(a) == object[a].age # "none"

(***************************************************************************)
(* Writing: persistArtifact, within completeLease and other transactions.  *)
(***************************************************************************)
New == [age |-> "fresh", lock |-> IF locks THEN "until" ELSE "none"]

Put(a) ==
  /\ row[a].state = "none" /\ a \notin saving /\ ~Kept(a)
  /\ object' = [object EXCEPT ![a] = New]
  /\ saving' = saving \cup {a}
  /\ UNCHANGED <<row, cmd, job, admin, faults, locks>>

Commit(a) ==
  /\ a \in saving
  /\ saving' = saving \ {a}
  /\ row' = [row EXCEPT ![a] = [@ EXCEPT !.state = "ready", !.due = FALSE]]
  /\ UNCHANGED <<cmd, object, job, admin, faults, locks>>

Rollback(a) ==
  /\ a \in saving /\ Fault
  /\ saving' = saving \ {a}
  /\ UNCHANGED <<row, cmd, object, job, admin, locks>>

(***************************************************************************)
(* The lifecycle: runArtifactLifecycle.                                    *)
(***************************************************************************)
Busy(c) == {a \in Artifacts : job[c][a].attempts > 0}

(* MUTANT of Expired: a hold does not matter.                               *)
ExpiredOnHold(a) == row[a].state = "ready" /\ row[a].due

(* The candidates are selected first, but each UPDATE repeats the test, so *)
(* that what was selected does not matter.  One candidate of the batch.    *)
Expired(a) == row[a].state = "ready" /\ ~row[a].hold /\ row[a].due

Stage(a) ==
  /\ Expired(a) /\ cmd[a].status = "none"
  /\ row' = [row EXCEPT ![a].state = "delete_pending"]
  /\ cmd' = [cmd EXCEPT ![a].status = "pending"]
  /\ UNCHANGED <<object, saving, job, admin, faults, locks>>

(* MUTANT of Claimable: a claim never lapses.                               *)
ClaimableOnce(a) == cmd[a].status = "pending" /\ cmd[a].ready

Claimable(a) ==
  \/ cmd[a].status = "pending" /\ cmd[a].ready
  \/ cmd[a].status = "delivering" /\ cmd[a].lapsed

(* The claim returns the commands with their number of attempts.           *)
Claim(c) ==
  LET ids == {a \in Artifacts : Claimable(a)}
  IN  /\ Busy(c) = {} /\ ids # {}
      /\ cmd' = [a \in Artifacts |->
           IF a \in ids
             THEN [cmd[a] EXCEPT !.status = "delivering", !.by = c, !.lapsed = FALSE, !.attempts = @ + 1]
             ELSE cmd[a]]
      /\ job' = [job EXCEPT ![c] = [a \in Artifacts |->
           IF a \in ids THEN [attempts |-> cmd[a].attempts + 1, gone |-> FALSE] ELSE NoItem]]
      /\ UNCHANGED <<row, object, saving, admin, faults, locks>>

(* The object is deleted, or already was.  Protection forbids it.          *)
Delete(c, a) ==
  /\ a \in Busy(c) /\ ~job[c][a].gone /\ object[a].lock = "none"
  /\ object' = [object EXCEPT ![a] = NoObject]
  /\ job' = [job EXCEPT ![c][a].gone = TRUE]
  /\ UNCHANGED <<row, cmd, saving, admin, faults, locks>>

Holds(c, a) == cmd[a].status = "delivering" /\ cmd[a].by = c

Delivered(c, a) ==
  /\ a \in Busy(c) /\ job[c][a].gone /\ Holds(c, a)
  /\ cmd' = [cmd EXCEPT ![a].status = "delivered", ![a].by = "none"]
  /\ row' = [row EXCEPT ![a].state = IF @ = "delete_pending" THEN "deleted" ELSE @]
  /\ job' = [job EXCEPT ![c][a] = NoItem]
  /\ UNCHANGED <<object, saving, admin, faults, locks>>

(* The call fails, or its answer is lost, or the claim is lost by the time *)
(* the object is deleted.  The command is settled by its holder only; the  *)
(* row, after the last attempt, by whoever thinks it was the last.         *)
Fails(c, a) ==
  LET terminal == job[c][a].attempts >= MaxAttempts
  IN  /\ a \in Busy(c)
      /\ IF object[a].lock # "none" \/ (job[c][a].gone /\ ~Holds(c, a)) THEN faults' = faults ELSE Fault
      /\ cmd' = IF Holds(c, a)
                  THEN [cmd EXCEPT ![a] = [@ EXCEPT !.status = IF terminal THEN "dead" ELSE "pending",
                                                    !.by = "none", !.lapsed = FALSE, !.ready = FALSE]]
                  ELSE cmd
      /\ row' = [row EXCEPT ![a].state =
           IF terminal /\ @ = "delete_pending" THEN "delete_failed" ELSE @]
      /\ job' = [job EXCEPT ![c][a] = NoItem]
      /\ UNCHANGED <<object, saving, admin, locks>>

Crash(c) ==
  /\ Busy(c) # {} /\ Fault
  /\ job' = [job EXCEPT ![c] = NoJob]
  /\ UNCHANGED <<row, cmd, object, saving, admin, locks>>

(* A claim lapses: that of a coordinator that crashed, in any case; that of *)
(* one that is alive only if it stalls.                                    *)
Abandoned(a) == cmd[a].status = "delivering" /\ a \notin Busy(cmd[a].by)

Lapse(a) ==
  /\ cmd[a].status = "delivering" /\ ~cmd[a].lapsed
  /\ IF Abandoned(a) THEN faults' = faults ELSE Fault
  /\ cmd' = [cmd EXCEPT ![a].lapsed = TRUE]
  /\ UNCHANGED <<row, object, saving, job, admin, locks>>

BackoffEnds(a) ==
  /\ cmd[a].status = "pending" /\ ~cmd[a].ready
  /\ cmd' = [cmd EXCEPT ![a].ready = TRUE]
  /\ UNCHANGED <<row, object, saving, job, admin, faults, locks>>

(* The date of the row has passed; the one at the provider, which may be    *)
(* another; and the grace of reconcileArtifactObjects, which is longer     *)
(* than the transaction that follows a put.                                *)
RetentionEnds(a) ==
  /\ row[a].state = "ready" /\ ~row[a].due
  /\ row' = [row EXCEPT ![a].due = TRUE]
  /\ UNCHANGED <<cmd, object, saving, job, admin, faults, locks>>

LockEnds(a) ==
  /\ object[a].lock = "until" /\ a \notin saving
  /\ object' = [object EXCEPT ![a].lock = "none"]
  /\ UNCHANGED <<row, cmd, saving, job, admin, faults, locks>>

GraceEnds(a) ==
  /\ object[a].age = "fresh" /\ a \notin saving
  /\ object' = [object EXCEPT ![a].age = "old"]
  /\ UNCHANGED <<row, cmd, saving, job, admin, faults, locks>>

(***************************************************************************)
(* The administrator's process (artifact-store-admin), one command at a    *)
(* time: reconciling is coordinated with the other two commands            *)
(* (docs/s3-artifact-store-lifecycle.md, reconcile --apply).               *)
(***************************************************************************)
(* setArtifactRetention: the object is protected first, then the row.      *)
Protect(a, hold) ==
  /\ admin.op = "idle" /\ row[a].state = "ready"
  /\ locks => Kept(a)
  /\ admin' = [Idle EXCEPT !.op = "protect", !.art = {a}, !.hold = hold]
  /\ object' = IF locks THEN [object EXCEPT ![a].lock = IF hold THEN "hold" ELSE "until"] ELSE object
  /\ UNCHANGED <<row, cmd, saving, job, faults, locks>>

(* The UPDATE finds the row ready still, or the command fails.             *)
Protected(a) ==
  /\ admin.op = "protect" /\ a \in admin.art
  /\ admin' = Idle
  /\ row' = IF row[a].state = "ready"
              THEN [row EXCEPT ![a].hold = admin.hold, ![a].due = FALSE] ELSE row
  /\ UNCHANGED <<cmd, object, saving, job, faults, locks>>

(* migratePostgresArtifactsToS3: an object that is there already, from an   *)
(* earlier attempt, is taken as it is.                                     *)
Migrate(a) ==
  /\ admin.op = "idle" /\ row[a].state = "postgresql"
  /\ admin' = [Idle EXCEPT !.op = "migrate", !.art = {a}]
  /\ object' = IF Kept(a) THEN object ELSE [object EXCEPT ![a] = New]
  /\ UNCHANGED <<row, cmd, saving, job, faults, locks>>

MigratedTo(a) ==
  /\ admin.op = "migrate" /\ a \in admin.art
  /\ admin' = Idle
  /\ row' = [row EXCEPT ![a].state = "ready"]
  /\ UNCHANGED <<cmd, object, saving, job, faults, locks>>

(* reconcileArtifactObjects --apply: the bucket is listed, the rows read;   *)
(* what is old and has no row is an orphan.                                *)
InBucket(a) == row[a].state \notin {"none", "postgresql", "deleted"}

Scan ==
  /\ admin.op = "idle"
  /\ admin' = [Idle EXCEPT !.op = "scanned",
                 !.art = {a \in Artifacts : object[a].age = "old" /\ ~InBucket(a)},
                 !.seen = {a \in Artifacts : InBucket(a) /\ row[a].state # "delete_pending"}]
  /\ UNCHANGED <<row, cmd, object, saving, job, faults, locks>>

(* The objects of the rows are looked for; a row read as delete_pending is  *)
(* spared.                                                                 *)
Probe ==
  /\ admin.op = "scanned"
  /\ admin' = [admin EXCEPT !.op = "probed", !.seen = {a \in @ : ~Kept(a)}]
  /\ UNCHANGED <<row, cmd, object, saving, job, faults, locks>>

(* An orphan that is gone or protected ends the command with an error.     *)
DeleteOrphan(a) ==
  /\ admin.op = "probed" /\ a \in admin.art
  /\ IF object[a].lock = "none" /\ Kept(a)
       THEN /\ object' = [object EXCEPT ![a] = NoObject]
            /\ admin' = [admin EXCEPT !.art = @ \ {a}]
       ELSE admin' = Idle /\ UNCHANGED object
  /\ UNCHANGED <<row, cmd, saving, job, faults, locks>>

(* Rows without an object are quarantined unless they are deleted by now.  *)
Quarantine ==
  /\ admin.op = "probed" /\ admin.art = {}
  /\ row' = [a \in Artifacts |->
       IF a \in admin.seen /\ row[a].state # "deleted" THEN [row[a] EXCEPT !.state = "missing"] ELSE row[a]]
  /\ admin' = Idle
  /\ UNCHANGED <<cmd, object, saving, job, faults, locks>>

Killed ==
  /\ admin.op # "idle" /\ Fault
  /\ admin' = Idle
  /\ UNCHANGED <<row, cmd, object, saving, job, locks>>

Next ==
  \/ \E a \in Artifacts :
       \/ Put(a) \/ Commit(a) \/ Rollback(a)
       \/ Stage(a) \/ Lapse(a) \/ BackoffEnds(a) \/ RetentionEnds(a) \/ LockEnds(a) \/ GraceEnds(a)
       \/ \E hold \in BOOLEAN : Protect(a, hold)
       \/ Protected(a) \/ Migrate(a) \/ MigratedTo(a) \/ DeleteOrphan(a)
       \/ \E c \in Coordinators : Delete(c, a) \/ Delivered(c, a) \/ Fails(c, a)
  \/ \E c \in Coordinators : Claim(c) \/ Crash(c)
  \/ Scan \/ Probe \/ Quarantine \/ Killed

Spec == Init /\ [][Next]_vars

(* The lifecycle's timers fire, every call to S3 ends, and time passes.    *)
Works(c, a) == Delete(c, a) \/ Delivered(c, a) \/ Fails(c, a)

Fairness ==
  /\ \A c \in Coordinators : WF_vars(Claim(c)) /\ \A a \in Artifacts : WF_vars(Works(c, a))
  /\ \A a \in Artifacts : WF_vars(Stage(a)) /\ WF_vars(BackoffEnds(a)) /\ WF_vars(Abandoned(a) /\ Lapse(a))

FairSpec == Spec /\ Fairness

(***************************************************************************)
(* Properties.                                                             *)
(***************************************************************************)
TypeOK ==
  /\ row \in [Artifacts ->
       [state : {"none", "postgresql", "ready", "delete_pending", "delete_failed", "deleted", "missing"},
        hold : BOOLEAN, due : BOOLEAN]]
  /\ cmd \in [Artifacts ->
       [status : {"none", "pending", "delivering", "delivered", "dead"}, attempts : Nat,
        by : Coordinators \cup {"none"}, ready : BOOLEAN, lapsed : BOOLEAN]]
  /\ object \in [Artifacts -> [age : {"none", "fresh", "old"}, lock : {"none", "until", "hold"}]]
  /\ saving \subseteq Artifacts
  /\ job \in [Coordinators -> [Artifacts -> [attempts : Nat, gone : BOOLEAN]]]
  /\ admin \in [op : {"idle", "protect", "migrate", "scanned", "probed"},
                art : SUBSET Artifacts, hold : BOOLEAN, seen : SUBSET Artifacts]
  /\ locks \in LockModes /\ faults \in 0..MaxFaults

(* The rows tell the truth about the bucket, between any two steps: what is *)
(* ready or on hold has its bytes, what waits for its deletion has a        *)
(* command that somebody will carry out, and what is called deleted is gone *)
(* (docs/adr-018-s3-artifact-authority.md).                                *)
RowsTellTheTruth ==
  \A a \in Artifacts :
    /\ row[a].state = "ready" \/ row[a].hold => Kept(a)
    /\ row[a].state = "delete_pending" => cmd[a].status \in {"pending", "delivering"}
    /\ row[a].state = "deleted" => ~Kept(a) /\ cmd[a].status = "delivered"

(* Every deletion that was staged is carried out or given up, whatever     *)
(* crashes or stalls.                                                      *)
DeletionsSettle ==
  \A a \in Artifacts :
    cmd[a].status \in {"pending", "delivering"} ~> cmd[a].status \in {"delivered", "dead"}
=============================================================================
