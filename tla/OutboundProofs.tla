----------------------------- MODULE OutboundProofs -----------------------------
(***************************************************************************)
(* What is proved of the three outbound protocols holds where TLC checks    *)
(* them together: MCOutbound, for every value of its constants.            *)
(***************************************************************************)
EXTENDS MCOutbound, TLAPS

TP == INSTANCE DurableRuntimeProofs WITH MaxFaults <- TemporalFaults
AP == INSTANCE ArtifactStoreProofs WITH MaxFaults <- StoreFaults, row <- artifact

(***************************************************************************)
(* The instances that the proofs are about are those that are composed.    *)
(***************************************************************************)
LEMMA Constants == TP!ConstantsAssumption /\ Siem!ConstantsAssumption /\ AP!ConstantsAssumption
BY OutboundAssumption
   DEF Temporal!ConstantsAssumption, Temporal!Instances, Temporal!IsFiniteSet,
       TP!ConstantsAssumption, TP!Instances, TP!IsFiniteSet,
       Store!ConstantsAssumption, AP!ConstantsAssumption

LEMMA TemporalInit == Temporal!Init <=> TP!Init
BY DEF Temporal!Init, Temporal!Instances, TP!Init, TP!Instances

LEMMA StoreInit == Store!Init <=> AP!Init
BY DEF Store!Init, Store!NoObject, Store!NoItem, Store!NoJob, Store!Idle,
       AP!Init, AP!NoObject, AP!NoItem, AP!NoJob, AP!Idle

(* The runtime's steps, one by one.                                        *)
LEMMA TemporalWorkflow ==
  ASSUME NEW i
  PROVE  /\ Temporal!Tick(i) <=> TP!Tick(i)
         /\ Temporal!Hear(i) <=> TP!Hear(i)
         /\ Temporal!Wake(i) <=> TP!Wake(i)
         /\ Temporal!ContinueAsNew(i) <=> TP!ContinueAsNew(i)
         /\ Temporal!CancelWorkflow(i) <=> TP!CancelWorkflow(i)
         /\ Temporal!StrayTick(i) <=> TP!StrayTick(i)
         /\ Temporal!CancelCall(i) <=> TP!CancelCall(i)
         /\ Temporal!CleanWake(i) <=> TP!CleanWake(i)
         /\ Temporal!CleanTick(i) <=> TP!CleanTick(i)
         /\ Temporal!Deliver(i) <=> TP!Deliver(i)
         /\ Temporal!LoseNote(i) <=> TP!LoseNote(i)
<1> USE DEF Temporal!db, TP!db, Temporal!net, TP!net, Temporal!Fault, TP!Fault,
            Temporal!Ended, TP!Ended
<1>1. Temporal!Tick(i) <=> TP!Tick(i)
  BY DEF Temporal!Tick, Temporal!Ticked, Temporal!ReplyOf, Temporal!TimerOf,
         TP!Tick, TP!Ticked, TP!ReplyOf, TP!TimerOf
<1>1a. Temporal!Hear(i) <=> TP!Hear(i)
  BY DEF Temporal!Hear, Temporal!Heard, TP!Hear, TP!Heard
<1>2. Temporal!Wake(i) <=> TP!Wake(i)
  BY DEF Temporal!Wake, Temporal!Fires, TP!Wake, TP!Fires
<1>3. Temporal!ContinueAsNew(i) <=> TP!ContinueAsNew(i)
  BY DEF Temporal!ContinueAsNew, TP!ContinueAsNew
<1>4. Temporal!CancelWorkflow(i) <=> TP!CancelWorkflow(i)
  BY DEF Temporal!CancelWorkflow, TP!CancelWorkflow
<1>5. Temporal!StrayTick(i) <=> TP!StrayTick(i)
  BY DEF Temporal!StrayTick, Temporal!Ticked, TP!StrayTick, TP!Ticked
<1>6. Temporal!CancelCall(i) <=> TP!CancelCall(i)
  BY DEF Temporal!CancelCall, Temporal!Cancelled, Temporal!Cleaned,
         TP!CancelCall, TP!Cancelled, TP!Cleaned
<1>7. Temporal!CleanWake(i) <=> TP!CleanWake(i)
  BY DEF Temporal!CleanWake, TP!CleanWake
<1>8. Temporal!CleanTick(i) <=> TP!CleanTick(i)
  BY DEF Temporal!CleanTick, Temporal!Ticked, Temporal!Cleaned, TP!CleanTick, TP!Ticked, TP!Cleaned
<1>9. Temporal!Deliver(i) <=> TP!Deliver(i)
  BY DEF Temporal!Deliver, TP!Deliver
<1>10. Temporal!LoseNote(i) <=> TP!LoseNote(i)
  BY DEF Temporal!LoseNote, TP!LoseNote
<1>11. QED
  BY <1>1, <1>1a, <1>2, <1>3, <1>4, <1>5, <1>6, <1>7, <1>8, <1>9, <1>10

LEMMA TemporalEngine ==
  ASSUME NEW i
  PROVE  /\ Temporal!Stop(i) <=> TP!Stop(i)
         /\ Temporal!Compensate(i) <=> TP!Compensate(i)
         /\ Temporal!Revoke(i) <=> TP!Revoke(i)
         /\ \A b \in Branches : Temporal!Report(i, b) <=> TP!Report(i, b)
         /\ \A b \in Branches : Temporal!Pass(i, b) <=> TP!Pass(i, b)
         /\ Temporal!StartDirect(i) <=> TP!StartDirect(i)
         /\ Temporal!Accept(i) <=> TP!Accept(i)
         /\ Temporal!Refuse(i) <=> TP!Refuse(i)
         /\ Temporal!TakeBack(i) <=> TP!TakeBack(i)
<1> USE DEF Temporal!db, TP!db, Temporal!net, TP!net, Temporal!Fault, TP!Fault,
            Temporal!Notify, TP!Notify, Temporal!Silent, TP!Silent
<1>1. Temporal!Stop(i) <=> TP!Stop(i)
  BY DEF Temporal!Stop, Temporal!Cancelled, TP!Stop, TP!Cancelled
<1>2. Temporal!Compensate(i) <=> TP!Compensate(i)
  BY DEF Temporal!Compensate, TP!Compensate
<1>2a. Temporal!Revoke(i) <=> TP!Revoke(i)
  BY DEF Temporal!Revoke, TP!Revoke
<1>3. \A b \in Branches : Temporal!Report(i, b) <=> TP!Report(i, b)
  BY DEF Temporal!Report, TP!Report
<1>4. \A b \in Branches : Temporal!Pass(i, b) <=> TP!Pass(i, b)
  BY DEF Temporal!Pass, TP!Pass
<1>5. Temporal!StartDirect(i) <=> TP!StartDirect(i)
  BY DEF Temporal!StartDirect, Temporal!Started, Temporal!Born, Temporal!Cardinality,
         TP!StartDirect, TP!Started, TP!Born, TP!Cardinality
<1>6. Temporal!Accept(i) <=> TP!Accept(i)
  BY DEF Temporal!Accept, Temporal!Begun, TP!Accept, TP!Begun
<1>7. Temporal!Refuse(i) <=> TP!Refuse(i)
  BY DEF Temporal!Refuse, Temporal!Begun, TP!Refuse, TP!Begun
<1>8. Temporal!TakeBack(i) <=> TP!TakeBack(i)
  BY DEF Temporal!TakeBack, Temporal!Cancelled, TP!TakeBack, TP!Cancelled
<1>9. QED
  BY <1>1, <1>2, <1>2a, <1>3, <1>4, <1>5, <1>6, <1>7, <1>8

LEMMA TemporalSchedule ==
  ASSUME NEW k
  PROVE  /\ Temporal!Trigger(k) <=> TP!Trigger(k)
         /\ Temporal!SendStart(k) <=> TP!SendStart(k)
         /\ Temporal!LoseStart(k) <=> TP!LoseStart(k)
         /\ Temporal!ArriveStart(k) <=> TP!ArriveStart(k)
         /\ Temporal!StartChild(k) <=> TP!StartChild(k)
         /\ Temporal!CancelParent(k) <=> TP!CancelParent(k)
         /\ Temporal!CancelScheduled(k) <=> TP!CancelScheduled(k)
         /\ Temporal!ParentWake(k) <=> TP!ParentWake(k)
         /\ Temporal!ParentTick(k) <=> TP!ParentTick(k)
         /\ Temporal!ParentEnds(k) <=> TP!ParentEnds(k)
<1> USE DEF Temporal!db, TP!db, Temporal!net, TP!net, Temporal!Fault, TP!Fault
<1>1. Temporal!Trigger(k) <=> TP!Trigger(k)
  BY DEF Temporal!Trigger, Temporal!Started, Temporal!Cardinality,
         TP!Trigger, TP!Started, TP!Cardinality
<1>2. Temporal!SendStart(k) <=> TP!SendStart(k)
  BY DEF Temporal!SendStart, TP!SendStart
<1>3. Temporal!LoseStart(k) <=> TP!LoseStart(k)
  BY DEF Temporal!LoseStart, TP!LoseStart
<1>4. Temporal!ArriveStart(k) <=> TP!ArriveStart(k)
  BY DEF Temporal!ArriveStart, Temporal!Receive, Temporal!Born, TP!ArriveStart, TP!Receive, TP!Born
<1>5. Temporal!StartChild(k) <=> TP!StartChild(k)
  BY DEF Temporal!StartChild, Temporal!Begun, TP!StartChild, TP!Begun
<1>6. Temporal!CancelParent(k) <=> TP!CancelParent(k)
  BY DEF Temporal!CancelParent, TP!CancelParent
<1>7. Temporal!CancelScheduled(k) <=> TP!CancelScheduled(k)
  BY DEF Temporal!CancelScheduled, Temporal!Fence, Temporal!Cancelled, Temporal!Cleaned, Temporal!Ended,
         TP!CancelScheduled, TP!Fence, TP!Cancelled, TP!Cleaned, TP!Ended
<1>8. Temporal!ParentWake(k) <=> TP!ParentWake(k)
  BY DEF Temporal!ParentWake, TP!ParentWake
<1>9. Temporal!ParentTick(k) <=> TP!ParentTick(k)
  BY DEF Temporal!ParentTick, Temporal!Ticked, Temporal!Cleaned, Temporal!Ended,
         TP!ParentTick, TP!Ticked, TP!Cleaned, TP!Ended
<1>10. Temporal!ParentEnds(k) <=> TP!ParentEnds(k)
  BY DEF Temporal!ParentEnds, TP!ParentEnds
<1>11. QED
  BY <1>1, <1>2, <1>3, <1>4, <1>5, <1>6, <1>7, <1>8, <1>9, <1>10

LEMMA TemporalStep == TemporalNext => TP!Next /\ OnlyTemporal
<1>1. (Temporal!Crash <=> TP!Crash) /\ (Temporal!Restart <=> TP!Restart)
  BY DEF Temporal!Crash, Temporal!Restart, Temporal!db, Temporal!net, Temporal!Fault,
         Temporal!Reconciled, Temporal!Begun, Temporal!Instances,
         TP!Crash, TP!Restart, TP!db, TP!net, TP!Fault, TP!Reconciled, TP!Begun, TP!Instances
<1>2. Temporal!Instances = TP!Instances
  BY DEF Temporal!Instances, TP!Instances
<1>3. QED
  BY <1>1, <1>2, TemporalWorkflow, TemporalEngine, TemporalSchedule DEF TemporalNext, TP!Next

LEMMA SiemStep == SiemNext => Siem!Next /\ OnlySiem
BY DEF SiemNext, Siem!Next

LEMMA StoreStep == StoreNext => AP!Next /\ OnlyStore
<1> USE DEF Store!Fault, AP!Fault, Store!Kept, AP!Kept, Store!NoObject, AP!NoObject,
            Store!NoItem, AP!NoItem, Store!Idle, AP!Idle, Store!New, AP!New, Store!Busy, AP!Busy
<1>1. ASSUME NEW a
      PROVE  /\ Store!Put(a) <=> AP!Put(a)
             /\ Store!Commit(a) <=> AP!Commit(a)
             /\ Store!Rollback(a) <=> AP!Rollback(a)
             /\ Store!Stage(a) <=> AP!Stage(a)
             /\ Store!Lapse(a) <=> AP!Lapse(a)
             /\ Store!BackoffEnds(a) <=> AP!BackoffEnds(a)
             /\ Store!RetentionEnds(a) <=> AP!RetentionEnds(a)
             /\ Store!LockEnds(a) <=> AP!LockEnds(a)
             /\ Store!GraceEnds(a) <=> AP!GraceEnds(a)
  <2>1. /\ Store!Put(a) <=> AP!Put(a)
        /\ Store!Commit(a) <=> AP!Commit(a)
        /\ Store!Rollback(a) <=> AP!Rollback(a)
    BY DEF Store!Put, Store!Commit, Store!Rollback, AP!Put, AP!Commit, AP!Rollback
  <2>2. /\ Store!Stage(a) <=> AP!Stage(a)
        /\ Store!Lapse(a) <=> AP!Lapse(a)
        /\ Store!BackoffEnds(a) <=> AP!BackoffEnds(a)
    BY DEF Store!Stage, Store!Expired, Store!Lapse, Store!Abandoned, Store!BackoffEnds,
           AP!Stage, AP!Expired, AP!Lapse, AP!Abandoned, AP!BackoffEnds
  <2>3. /\ Store!RetentionEnds(a) <=> AP!RetentionEnds(a)
        /\ Store!LockEnds(a) <=> AP!LockEnds(a)
        /\ Store!GraceEnds(a) <=> AP!GraceEnds(a)
    BY DEF Store!RetentionEnds, Store!LockEnds, Store!GraceEnds,
           AP!RetentionEnds, AP!LockEnds, AP!GraceEnds
  <2>4. QED
    BY <2>1, <2>2, <2>3
<1>2. ASSUME NEW a
      PROVE  /\ \A hold \in BOOLEAN : Store!Protect(a, hold) <=> AP!Protect(a, hold)
             /\ Store!Protected(a) <=> AP!Protected(a)
             /\ Store!Migrate(a) <=> AP!Migrate(a)
             /\ Store!MigratedTo(a) <=> AP!MigratedTo(a)
             /\ Store!DeleteOrphan(a) <=> AP!DeleteOrphan(a)
  <2>1. \A hold \in BOOLEAN : Store!Protect(a, hold) <=> AP!Protect(a, hold)
    BY DEF Store!Protect, AP!Protect
  <2>2. (Store!Protected(a) <=> AP!Protected(a)) /\ (Store!Migrate(a) <=> AP!Migrate(a))
    BY DEF Store!Protected, Store!Migrate, AP!Protected, AP!Migrate
  <2>3. (Store!MigratedTo(a) <=> AP!MigratedTo(a)) /\ (Store!DeleteOrphan(a) <=> AP!DeleteOrphan(a))
    BY DEF Store!MigratedTo, Store!DeleteOrphan, AP!MigratedTo, AP!DeleteOrphan
  <2>4. QED
    BY <2>1, <2>2, <2>3
<1>3. ASSUME NEW a, NEW c
      PROVE  /\ Store!Delete(c, a) <=> AP!Delete(c, a)
             /\ Store!Delivered(c, a) <=> AP!Delivered(c, a)
             /\ Store!Fails(c, a) <=> AP!Fails(c, a)
  BY DEF Store!Delete, Store!Delivered, Store!Fails, Store!Holds,
         AP!Delete, AP!Delivered, AP!Fails, AP!Holds
<1>4. ASSUME NEW c PROVE (Store!Claim(c) <=> AP!Claim(c)) /\ (Store!Crash(c) <=> AP!Crash(c))
  BY DEF Store!Claim, Store!Claimable, Store!Crash, Store!NoJob,
         AP!Claim, AP!Claimable, AP!Crash, AP!NoJob
<1>5. (Store!Scan <=> AP!Scan) /\ (Store!Probe <=> AP!Probe)
  BY DEF Store!Scan, Store!InBucket, Store!Probe, AP!Scan, AP!InBucket, AP!Probe
<1>6. (Store!Quarantine <=> AP!Quarantine) /\ (Store!Killed <=> AP!Killed)
  BY DEF Store!Quarantine, Store!Killed, AP!Quarantine, AP!Killed
<1>7. QED
  BY <1>1, <1>2, <1>3, <1>4, <1>5, <1>6 DEF StoreNext, AP!Next

(***************************************************************************)
(* The export of audit events: what every step of SiemOutbox keeps, for     *)
(* any number of coordinators, events, attempts, replays and faults.       *)
(***************************************************************************)
(* Only recorded events have rows or are in anyone's hand, and what an      *)
(* exporter calls stored the sink has.                                     *)
KnownEvents ==
  /\ \A e \in Siem!Events : outbox[e].status # "none" => e <= last
  /\ \A c \in Coordinators : batch[c].ids \subseteq 1..last

StoredIsInSink ==
  \A c \in Coordinators : batch[c].stored => batch[c].ids # {} /\ batch[c].ids \subseteq sink

SiemInv == Siem!TypeOK /\ KnownEvents /\ StoredIsInSink /\ Siem!LettersMatch

DeadLetters == [status : {"none", "open", "replayed", "resolved"}, replays : 0..MaxReplays]
OutboxRows == [status : {"none", "dead", "delivered"} \cup Siem!Open, attempts : Nat,
         by : Coordinators \cup {"none"}, ready : BOOLEAN, lapsed : BOOLEAN]

(* A row whose lock has lapsed is pending, another stays.                   *)
LEMMA UnlockedRow ==
  ASSUME NEW r \in OutboxRows
  PROVE  /\ Siem!Unlocked(r) \in OutboxRows
         /\ \/ Siem!Unlocked(r).status = r.status
            \/ r.status = "delivering" /\ Siem!Unlocked(r).status = "pending"
<1> DEFINE u == [r EXCEPT !.status = "pending", !.by = "none", !.lapsed = FALSE]
<1>1. u \in OutboxRows /\ u.status = "pending"
  BY DEF OutboxRows, Siem!Open
<1>2. QED
  BY <1>1 DEF Siem!Unlocked

(* A settled row has the status it was given, and no holder.                *)
LEMMA ClosedRow ==
  ASSUME NEW r \in OutboxRows, NEW status \in {"none", "dead", "delivered"} \cup Siem!Open
  PROVE  Siem!Closed(r, status) \in OutboxRows /\ Siem!Closed(r, status).status = status
BY DEF Siem!Closed, OutboxRows

(* What addEvent adds to rows of the right type: at most one, and new.      *)
LEMMA RecordedRows ==
  ASSUME Siem!ConstantsAssumption, last \in 0..MaxEvents, NEW rows \in [Siem!Events -> OutboxRows]
  PROVE  /\ Siem!Recorded(rows) \in [Siem!Events -> OutboxRows]
         /\ \A e \in Siem!Events : e # last + 1 => Siem!Recorded(rows)[e] = rows[e]
         /\ last < MaxEvents => last + 1 \in Siem!Events /\ Siem!Recorded(rows)[last + 1] = Siem!Fresh
         /\ Siem!Counted => last' \in 0..MaxEvents /\ last <= last'
                       /\ (last < MaxEvents => last' = last + 1)
                       /\ (last = MaxEvents => Siem!Recorded(rows) = rows)
<1>1. Siem!Fresh \in OutboxRows
  BY DEF Siem!Fresh, Siem!NoRow, OutboxRows, Siem!Open
<1>2. QED
  BY <1>1 DEF Siem!Recorded, Siem!Counted, Siem!Events, Siem!ConstantsAssumption

LEMMA SiemInitHolds == ASSUME Siem!ConstantsAssumption, Siem!Init PROVE SiemInv
BY DEF Siem!ConstantsAssumption, Siem!Init, SiemInv, Siem!TypeOK, KnownEvents, StoredIsInSink,
       Siem!LettersMatch, Siem!NoRow, Siem!NoLetter, Siem!NoBatch, Siem!Open, Siem!Events

LEMMA SiemRecordHolds == ASSUME Siem!ConstantsAssumption, SiemInv, Siem!Record PROVE SiemInv'
<1>1. outbox \in [Siem!Events -> OutboxRows]
  BY DEF SiemInv, Siem!TypeOK, OutboxRows
<1>2. /\ outbox' \in [Siem!Events -> OutboxRows] /\ last' = last + 1 /\ last' \in 0..MaxEvents
      /\ last' \in Siem!Events /\ outbox'[last'] = Siem!Fresh /\ outbox[last'].status = "none"
      /\ \A e \in Siem!Events : e # last' => outbox'[e] = outbox[e]
  <2>1. last + 1 \in Siem!Events /\ last \in 0..MaxEvents
    BY DEF SiemInv, Siem!TypeOK, Siem!Record, Siem!Events, Siem!ConstantsAssumption
  <2>2. outbox[last + 1].status = "none"
    BY <2>1 DEF SiemInv, KnownEvents
  <2>3. QED
    BY <1>1, <2>1, <2>2, RecordedRows DEF Siem!Record
<1>3. Siem!TypeOK'
  BY <1>2 DEF SiemInv, Siem!TypeOK, Siem!Record, OutboxRows
<1>4. KnownEvents' /\ StoredIsInSink'
  BY <1>2 DEF SiemInv, Siem!TypeOK, KnownEvents, StoredIsInSink, Siem!Record, Siem!Events
<1>5. Siem!LettersMatch'
  BY <1>2 DEF SiemInv, Siem!LettersMatch, Siem!Record, Siem!Fresh, Siem!NoRow, Siem!Open
<1>6. QED
  BY <1>3, <1>4, <1>5 DEF SiemInv

LEMMA SiemClaimHolds ==
  ASSUME Siem!ConstantsAssumption, SiemInv, NEW c \in Coordinators, Siem!Claim(c)
  PROVE  SiemInv'
<1> DEFINE rows == [e \in Siem!Events |-> Siem!Unlocked(outbox[e])]
           ids == Siem!Claimable(rows)
<1>1. /\ rows \in [Siem!Events -> OutboxRows]
      /\ \A e \in Siem!Events : \/ rows[e].status = outbox[e].status
                                \/ outbox[e].status = "delivering" /\ rows[e].status = "pending"
  <2>1. \A e \in Siem!Events : outbox[e] \in OutboxRows
    BY DEF SiemInv, Siem!TypeOK, OutboxRows
  <2>2. QED
    BY <2>1, UnlockedRow
<1>3. /\ ids \subseteq {e \in Siem!Events : rows[e].status = "pending"}
      /\ ids \subseteq Siem!Events
  BY DEF Siem!Claimable
<1>4. /\ outbox' = [e \in Siem!Events |->
           IF e \in ids THEN [rows[e] EXCEPT !.status = "delivering", !.by = c, !.attempts = @ + 1]
           ELSE rows[e]]
      /\ batch' = [batch EXCEPT ![c].ids = ids]
      /\ UNCHANGED <<last, letter, sink, faults>> /\ batch[c].ids = {}
  BY DEF Siem!Claim
<1> HIDE DEF rows, ids
<1>2. ASSUME NEW r \in OutboxRows
      PROVE  LET q == [r EXCEPT !.status = "delivering", !.by = c, !.attempts = @ + 1]
             IN  q \in OutboxRows /\ q.status = "delivering"
  <2>1. ASSUME NEW n \in Nat
        PROVE  LET q == [r EXCEPT !.status = "delivering", !.by = c, !.attempts = n]
               IN  q \in OutboxRows /\ q.status = "delivering"
    BY DEF OutboxRows, Siem!Open
  <2>2. r.attempts + 1 \in Nat
    BY DEF OutboxRows
  <2>3. QED
    BY <2>1, <2>2
<1>5. outbox' \in [Siem!Events -> OutboxRows] /\ \A e \in ids : outbox'[e].status = "delivering"
  BY <1>1, <1>2, <1>3, <1>4
<1>6. \A e \in Siem!Events :
        \/ outbox'[e].status = outbox[e].status
        \/ outbox[e].status \in Siem!Open /\ outbox'[e].status \in Siem!Open
  BY <1>1, <1>3, <1>4, <1>5 DEF Siem!Open
<1>7. Siem!TypeOK'
  <2>1. [batch[c] EXCEPT !.ids = ids] \in [ids : SUBSET Siem!Events, stored : BOOLEAN]
    BY <1>3 DEF SiemInv, Siem!TypeOK
  <2>2. batch' \in [Coordinators -> [ids : SUBSET Siem!Events, stored : BOOLEAN]]
    BY <1>4, <2>1 DEF SiemInv, Siem!TypeOK
  <2>3. QED
    BY <1>4, <1>5, <2>2 DEF SiemInv, Siem!TypeOK, OutboxRows
<1>8. KnownEvents'
  <2>1. \A e \in ids : e \in Siem!Events /\ outbox[e].status # "none"
    BY <1>1, <1>3
  <2>2. ids \subseteq 1..last
    BY <2>1, <1>3 DEF SiemInv, Siem!TypeOK, KnownEvents, Siem!Events, Siem!ConstantsAssumption
  <2>3. \A e \in Siem!Events : outbox'[e].status # "none" => e <= last'
    BY <1>4, <1>6 DEF SiemInv, KnownEvents, Siem!Open
  <2>4. QED
    BY <1>4, <2>2, <2>3 DEF SiemInv, Siem!TypeOK, KnownEvents
<1>9. Siem!LettersMatch'
  BY <1>4, <1>6 DEF SiemInv, Siem!LettersMatch, Siem!Open
<1>10. StoredIsInSink'
  BY <1>4 DEF SiemInv, Siem!TypeOK, StoredIsInSink
<1>11. QED
  BY <1>7, <1>8, <1>9, <1>10 DEF SiemInv

LEMMA SiemStoreHolds ==
  ASSUME Siem!ConstantsAssumption, SiemInv, NEW c \in Coordinators, Siem!Store(c)
  PROVE  SiemInv'
<1>1. [batch[c] EXCEPT !.stored = TRUE] \in [ids : SUBSET Siem!Events, stored : BOOLEAN]
  BY DEF SiemInv, Siem!TypeOK
<1>2. Siem!TypeOK'
  BY <1>1 DEF SiemInv, Siem!TypeOK, KnownEvents, Siem!Store
<1>3. KnownEvents' /\ StoredIsInSink' /\ Siem!LettersMatch'
  BY DEF SiemInv, Siem!TypeOK, KnownEvents, StoredIsInSink, Siem!LettersMatch, Siem!Store
<1>4. QED
  BY <1>2, <1>3 DEF SiemInv

LEMMA SiemAcknowledgedHolds ==
  ASSUME Siem!ConstantsAssumption, SiemInv, NEW c \in Coordinators, Siem!Acknowledged(c)
  PROVE  SiemInv'
<1>1. \A e \in Siem!Events : outbox[e] \in OutboxRows
  BY DEF SiemInv, Siem!TypeOK, OutboxRows
<1>2. outbox' \in [Siem!Events -> OutboxRows]
  BY <1>1, ClosedRow DEF Siem!Acknowledged
<1>3. ASSUME NEW e \in Siem!Events
      PROVE  \/ outbox'[e] = outbox[e]
             \/ outbox[e].status = "delivering" /\ outbox'[e].status = "delivered" /\ e \in sink
  BY <1>1, ClosedRow DEF Siem!Acknowledged, Siem!Held, SiemInv, StoredIsInSink
<1>4. batch' = [batch EXCEPT ![c] = Siem!NoBatch] /\ UNCHANGED <<last, letter, sink, faults>>
  BY DEF Siem!Acknowledged
<1>5. Siem!TypeOK'
  BY <1>2, <1>4 DEF SiemInv, Siem!TypeOK, OutboxRows, Siem!NoBatch
<1>6. KnownEvents' /\ StoredIsInSink'
  BY <1>3, <1>4 DEF SiemInv, Siem!TypeOK, KnownEvents, StoredIsInSink, Siem!NoBatch
<1>7. Siem!LettersMatch'
  BY <1>3, <1>4 DEF SiemInv, Siem!LettersMatch, Siem!Open
<1>8. QED
  BY <1>5, <1>6, <1>7 DEF SiemInv

(* The heart of the matter: row and letter of an event are settled by the   *)
(* same condition.                                                         *)
LEMMA SiemFailedHolds ==
  ASSUME Siem!ConstantsAssumption, SiemInv, NEW c \in Coordinators, NEW terminal \in BOOLEAN,
         Siem!Failed(c, terminal)
  PROVE  SiemInv'
<1>1. \A e \in Siem!Events : outbox[e] \in OutboxRows /\ letter[e] \in DeadLetters
  BY DEF SiemInv, Siem!TypeOK, OutboxRows, DeadLetters
<1>2. ASSUME NEW r \in OutboxRows
      PROVE  LET q == [Siem!Closed(r, "pending") EXCEPT !.ready = FALSE]
             IN  q \in OutboxRows /\ q.status = "pending"
  <2>1. Siem!Closed(r, "pending") \in OutboxRows /\ Siem!Closed(r, "pending").status = "pending"
    BY ClosedRow DEF Siem!Open
  <2>2. QED
    BY <2>1 DEF OutboxRows
<1>3. ASSUME NEW r \in OutboxRows
      PROVE  Siem!Closed(r, "dead") \in OutboxRows /\ Siem!Closed(r, "dead").status = "dead"
  BY ClosedRow
<1>4. ASSUME NEW e \in Siem!Events
      PROVE  /\ outbox'[e] \in OutboxRows /\ letter'[e] \in DeadLetters
             /\ \/ outbox'[e] = outbox[e] /\ letter'[e] = letter[e]
                \/ /\ outbox[e].status = "delivering" /\ outbox'[e].status = "pending"
                   /\ letter'[e] = letter[e]
                \/ /\ outbox[e].status = "delivering" /\ outbox'[e].status = "dead"
                   /\ letter'[e].status = "open"
  <2>1. [letter[e] EXCEPT !.status = "open"] \in DeadLetters
        /\ [letter[e] EXCEPT !.status = "open"].status = "open"
    BY <1>1 DEF DeadLetters
  <2>2. CASE e \notin Siem!Held(c)
    BY <1>1, <2>2 DEF Siem!Failed
  <2>3. CASE e \in Siem!Held(c) /\ Siem!GivenUp(outbox[e], terminal)
    BY <1>1, <1>3, <2>1, <2>3 DEF Siem!Failed, Siem!Held
  <2>4. CASE e \in Siem!Held(c) /\ ~Siem!GivenUp(outbox[e], terminal)
    BY <1>1, <1>2, <2>4 DEF Siem!Failed, Siem!Held
  <2>5. QED
    BY <2>2, <2>3, <2>4
<1>5. outbox' \in [Siem!Events -> OutboxRows] /\ letter' \in [Siem!Events -> DeadLetters]
  <2>1. outbox' = [e \in Siem!Events |-> outbox'[e]] /\ letter' = [e \in Siem!Events |-> letter'[e]]
    BY DEF Siem!Failed
  <2>2. QED
    BY <1>4, <2>1
<1>6. batch' = [batch EXCEPT ![c] = Siem!NoBatch] /\ UNCHANGED <<last, sink, faults>>
  BY DEF Siem!Failed
<1>7. Siem!TypeOK'
  BY <1>5, <1>6 DEF SiemInv, Siem!TypeOK, OutboxRows, DeadLetters, Siem!NoBatch
<1>8. KnownEvents' /\ StoredIsInSink'
  BY <1>4, <1>6 DEF SiemInv, Siem!TypeOK, KnownEvents, StoredIsInSink, Siem!NoBatch
<1>9. Siem!LettersMatch'
  BY <1>4, <1>6 DEF SiemInv, Siem!LettersMatch, Siem!Open
<1>10. QED
  BY <1>7, <1>8, <1>9 DEF SiemInv

(* Time, a crash, a lost region: rows change their status only from         *)
(* "delivering" to "pending", and letters not at all.                      *)
LEMMA SiemQuietHolds ==
  ASSUME Siem!ConstantsAssumption, SiemInv, last' = last, letter' = letter, sink' = sink,
         outbox' \in [Siem!Events -> OutboxRows], faults' \in 0..SinkFaults,
         \A e \in Siem!Events : \/ outbox'[e].status = outbox[e].status
                                \/ outbox[e].status \in Siem!Open /\ outbox'[e].status \in Siem!Open,
         batch' \in [Coordinators -> [ids : SUBSET Siem!Events, stored : BOOLEAN]],
         \A c \in Coordinators : batch'[c] = batch[c] \/ batch'[c] = Siem!NoBatch
  PROVE  SiemInv'
<1>1. Siem!TypeOK'
  BY DEF SiemInv, Siem!TypeOK, OutboxRows
<1>2. KnownEvents'
  <2>1. \A e \in Siem!Events : outbox'[e].status # "none" => e <= last'
    BY DEF SiemInv, KnownEvents, Siem!Open
  <2>2. \A c \in Coordinators : batch'[c].ids \subseteq 1..last'
    BY DEF SiemInv, KnownEvents, Siem!NoBatch
  <2>3. QED
    BY <2>1, <2>2 DEF KnownEvents
<1>3. StoredIsInSink'
  BY DEF SiemInv, StoredIsInSink, Siem!NoBatch
<1>4. Siem!LettersMatch'
  BY DEF SiemInv, Siem!LettersMatch, Siem!Open
<1>5. QED
  BY <1>1, <1>2, <1>3, <1>4 DEF SiemInv

LEMMA FaultCounted == ASSUME Siem!ConstantsAssumption, SiemInv, Siem!Fault PROVE faults' \in 0..SinkFaults
BY DEF Siem!ConstantsAssumption, SiemInv, Siem!TypeOK, Siem!Fault

LEMMA SiemBackoffEndsHolds ==
  ASSUME Siem!ConstantsAssumption, SiemInv, NEW e \in Siem!Events, Siem!BackoffEnds(e)
  PROVE  SiemInv'
<1>1. outbox \in [Siem!Events -> OutboxRows]
  BY DEF SiemInv, Siem!TypeOK, OutboxRows
<1>2. [outbox[e] EXCEPT !.ready = TRUE] \in OutboxRows
      /\ [outbox[e] EXCEPT !.ready = TRUE].status = outbox[e].status
  BY <1>1 DEF OutboxRows
<1>3. outbox' \in [Siem!Events -> OutboxRows] /\ \A f \in Siem!Events : outbox'[f].status = outbox[f].status
  BY <1>1, <1>2 DEF Siem!BackoffEnds
<1>4. batch' = batch /\ last' = last /\ letter' = letter /\ sink' = sink /\ faults' = faults
  BY DEF Siem!BackoffEnds
<1>5. batch' \in [Coordinators -> [ids : SUBSET Siem!Events, stored : BOOLEAN]] /\ faults' \in 0..SinkFaults
  BY <1>4 DEF SiemInv, Siem!TypeOK
<1>6. QED
  BY <1>3, <1>4, <1>5, SiemQuietHolds

LEMMA SiemLapseHolds ==
  ASSUME Siem!ConstantsAssumption, SiemInv, NEW e \in Siem!Events, Siem!Lapse(e)
  PROVE  SiemInv'
<1>1. outbox \in [Siem!Events -> OutboxRows] /\ faults \in 0..SinkFaults
  BY DEF SiemInv, Siem!TypeOK, OutboxRows
<1>2. [outbox[e] EXCEPT !.lapsed = TRUE] \in OutboxRows
      /\ [outbox[e] EXCEPT !.lapsed = TRUE].status = outbox[e].status
  BY <1>1 DEF OutboxRows
<1>3. outbox' \in [Siem!Events -> OutboxRows] /\ \A f \in Siem!Events : outbox'[f].status = outbox[f].status
  BY <1>1, <1>2 DEF Siem!Lapse
<1>4. faults' \in 0..SinkFaults
  BY <1>1, FaultCounted DEF Siem!Lapse
<1>5. batch' = batch /\ last' = last /\ letter' = letter /\ sink' = sink
  BY DEF Siem!Lapse
<1>6. batch' \in [Coordinators -> [ids : SUBSET Siem!Events, stored : BOOLEAN]]
  BY <1>5 DEF SiemInv, Siem!TypeOK
<1>7. QED
  BY <1>3, <1>4, <1>5, <1>6, SiemQuietHolds

LEMMA SiemCrashHolds ==
  ASSUME Siem!ConstantsAssumption, SiemInv, NEW c \in Coordinators, Siem!Crash(c)
  PROVE  SiemInv'
<1>1. outbox' \in [Siem!Events -> OutboxRows] /\ outbox' = outbox
  BY DEF SiemInv, Siem!TypeOK, OutboxRows, Siem!Crash
<1>2. /\ batch' \in [Coordinators -> [ids : SUBSET Siem!Events, stored : BOOLEAN]]
      /\ \A x \in Coordinators : batch'[x] = batch[x] \/ batch'[x] = Siem!NoBatch
  BY DEF SiemInv, Siem!TypeOK, Siem!Crash, Siem!NoBatch
<1>3. last' = last /\ letter' = letter /\ sink' = sink /\ faults' \in 0..SinkFaults
  BY FaultCounted DEF Siem!Crash
<1>4. QED
  BY <1>1, <1>2, <1>3, SiemQuietHolds

LEMMA SiemActivateRegionHolds ==
  ASSUME Siem!ConstantsAssumption, SiemInv, Siem!ActivateRegion
  PROVE  SiemInv'
<1>1. \A e \in Siem!Events : outbox[e] \in OutboxRows
  BY DEF SiemInv, Siem!TypeOK, OutboxRows
<1>2. ASSUME NEW r \in OutboxRows
      PROVE  LET q == [Siem!Closed(r, "pending") EXCEPT !.ready = TRUE]
             IN  q \in OutboxRows /\ q.status = "pending"
  <2>1. Siem!Closed(r, "pending") \in OutboxRows /\ Siem!Closed(r, "pending").status = "pending"
    BY ClosedRow DEF Siem!Open
  <2>2. QED
    BY <2>1 DEF OutboxRows
<1>3. ASSUME NEW e \in Siem!Events
      PROVE  /\ outbox'[e] \in OutboxRows
             /\ \/ outbox'[e].status = outbox[e].status
                \/ outbox[e].status \in Siem!Open /\ outbox'[e].status \in Siem!Open
  <2>1. CASE outbox[e].status = "delivering"
    BY <1>1, <1>2, <2>1 DEF Siem!ActivateRegion, Siem!Open
  <2>2. CASE outbox[e].status # "delivering"
    BY <1>1, <2>2 DEF Siem!ActivateRegion
  <2>3. QED
    BY <2>1, <2>2
<1>7. outbox' \in [Siem!Events -> OutboxRows]
  <2>1. outbox' = [e \in Siem!Events |-> outbox'[e]]
    BY DEF Siem!ActivateRegion
  <2>2. QED
    BY <1>3, <2>1
<1>4. /\ batch' \in [Coordinators -> [ids : SUBSET Siem!Events, stored : BOOLEAN]]
      /\ \A x \in Coordinators : batch'[x] = Siem!NoBatch
  BY DEF Siem!ActivateRegion, Siem!NoBatch
<1>5. last' = last /\ letter' = letter /\ sink' = sink /\ faults' \in 0..SinkFaults
  BY FaultCounted DEF Siem!ActivateRegion
<1>6. QED
  BY <1>3, <1>4, <1>5, <1>7, SiemQuietHolds

(* Only rows of recorded events are migrated, and no letter of theirs is    *)
(* open: an event without a row has nothing in the dead letters.           *)
LEMMA SiemMigrateHolds ==
  ASSUME Siem!ConstantsAssumption, SiemInv, Siem!Migrate
  PROVE  SiemInv'
<1>1. Siem!Fresh \in OutboxRows /\ Siem!Fresh.status = "pending"
  BY DEF Siem!Fresh, Siem!NoRow, OutboxRows, Siem!Open
<1>2. outbox' \in [Siem!Events -> OutboxRows]
  BY <1>1 DEF SiemInv, Siem!TypeOK, OutboxRows, Siem!Migrate
<1>3. ASSUME NEW e \in Siem!Events
      PROVE  \/ outbox'[e] = outbox[e]
             \/ outbox[e].status = "none" /\ outbox'[e].status = "pending" /\ e <= last
  BY <1>1 DEF Siem!Migrate
<1>4. UNCHANGED <<last, letter, batch, sink>> /\ faults' \in 0..SinkFaults
  BY FaultCounted DEF Siem!Migrate
<1>5. Siem!TypeOK' /\ KnownEvents' /\ StoredIsInSink'
  BY <1>2, <1>3, <1>4 DEF SiemInv, Siem!TypeOK, OutboxRows, KnownEvents, StoredIsInSink
<1>6. Siem!LettersMatch'
  BY <1>3, <1>4 DEF SiemInv, Siem!LettersMatch, Siem!Open
<1>7. QED
  BY <1>5, <1>6 DEF SiemInv

(* A handler of the administrator records an event besides what it does.    *)
LEMMA RecordedStep ==
  ASSUME Siem!ConstantsAssumption, SiemInv, NEW rows \in [Siem!Events -> OutboxRows],
         outbox' = Siem!Recorded(rows), Siem!Counted
  PROVE  /\ outbox' \in [Siem!Events -> OutboxRows]
         /\ last' \in 0..MaxEvents /\ last <= last'
         /\ \A e \in Siem!Events : \/ outbox'[e] = rows[e]
                                  \/ /\ outbox[e].status = "none" /\ outbox'[e].status = "pending"
                                     /\ e = last + 1 /\ e <= last'
<1>1. last \in 0..MaxEvents /\ MaxEvents \in Nat
  BY DEF Siem!ConstantsAssumption, SiemInv, Siem!TypeOK
<1>2. Siem!Fresh.status = "pending"
  BY DEF Siem!Fresh, Siem!NoRow
<1>3. \A e \in Siem!Events : e = last + 1 => outbox[e].status = "none"
  BY <1>1 DEF SiemInv, KnownEvents
<1>4. CASE last < MaxEvents
  BY <1>1, <1>2, <1>3, <1>4, RecordedRows
<1>5. CASE last = MaxEvents
  BY <1>1, <1>5, RecordedRows
<1>6. QED
  BY <1>1, <1>4, <1>5

LEMMA SiemReplayHolds ==
  ASSUME Siem!ConstantsAssumption, SiemInv, NEW e \in Siem!Events, Siem!Replay(e)
  PROVE  SiemInv'
<1> DEFINE rows == [outbox EXCEPT ![e] = Siem!Fresh]
<1>1. Siem!Fresh \in OutboxRows /\ Siem!Fresh.status = "pending"
  BY DEF Siem!Fresh, Siem!NoRow, OutboxRows, Siem!Open
<1>2. /\ rows \in [Siem!Events -> OutboxRows] /\ rows[e] = Siem!Fresh
      /\ \A f \in Siem!Events : f # e => rows[f] = outbox[f]
  BY <1>1 DEF SiemInv, Siem!TypeOK, OutboxRows
<1>3. outbox' = Siem!Recorded(rows) /\ Siem!Counted
  BY DEF Siem!Replay
<1> HIDE DEF rows
<1>4. /\ outbox' \in [Siem!Events -> OutboxRows] /\ last' \in 0..MaxEvents /\ last <= last'
      /\ \A f \in Siem!Events : \/ outbox'[f] = rows[f]
                               \/ /\ outbox[f].status = "none" /\ outbox'[f].status = "pending"
                                  /\ f = last + 1 /\ f <= last'
  BY <1>2, <1>3, RecordedStep
<1>5. outbox[e].status = "dead" /\ e <= last /\ outbox'[e].status = "pending"
  BY <1>1, <1>2, <1>4 DEF Siem!Replay, SiemInv, KnownEvents
<1>6. /\ letter' \in [Siem!Events -> DeadLetters] /\ letter'[e].status = "replayed"
      /\ \A f \in Siem!Events : f # e => letter'[f] = letter[f]
  <2>1. letter \in [Siem!Events -> DeadLetters]
    BY DEF SiemInv, Siem!TypeOK, DeadLetters
  <2>2. letter[e].replays + 1 \in 0..MaxReplays
    BY <2>1 DEF Siem!Replay, DeadLetters, Siem!ConstantsAssumption
  <2>3. QED
    BY <2>1, <2>2 DEF Siem!Replay, DeadLetters
<1>7. UNCHANGED <<batch, sink, faults>>
  BY DEF Siem!Replay
<1>8. Siem!TypeOK'
  BY <1>4, <1>6, <1>7 DEF SiemInv, Siem!TypeOK, OutboxRows, DeadLetters
<1>9. KnownEvents' /\ StoredIsInSink'
  <2>1. \A f \in Siem!Events : outbox'[f].status # "none" => f <= last'
    BY <1>2, <1>4, <1>5 DEF SiemInv, Siem!TypeOK, KnownEvents, Siem!Events
  <2>2. QED
    BY <1>4, <1>7, <2>1 DEF SiemInv, Siem!TypeOK, KnownEvents, StoredIsInSink
<1>10. Siem!LettersMatch'
  BY <1>2, <1>4, <1>5, <1>6, <1>7 DEF SiemInv, Siem!LettersMatch, Siem!Open
<1>11. QED
  BY <1>8, <1>9, <1>10 DEF SiemInv

LEMMA SiemResolveHolds ==
  ASSUME Siem!ConstantsAssumption, SiemInv, NEW e \in Siem!Events, Siem!Resolve(e)
  PROVE  SiemInv'
<1>1. outbox \in [Siem!Events -> OutboxRows]
  BY DEF SiemInv, Siem!TypeOK, OutboxRows
<1>2. /\ outbox' \in [Siem!Events -> OutboxRows] /\ last' \in 0..MaxEvents /\ last <= last'
      /\ \A f \in Siem!Events : \/ outbox'[f] = outbox[f]
                               \/ /\ outbox[f].status = "none" /\ outbox'[f].status = "pending"
                                  /\ f = last + 1 /\ f <= last'
  BY <1>1, RecordedStep DEF Siem!Resolve
<1>3. /\ letter' \in [Siem!Events -> DeadLetters] /\ letter'[e].status = "resolved"
      /\ letter[e].status = "open"
      /\ \A f \in Siem!Events : f # e => letter'[f] = letter[f]
  BY DEF Siem!Resolve, SiemInv, Siem!TypeOK, DeadLetters
<1>4. UNCHANGED <<batch, sink, faults>>
  BY DEF Siem!Resolve
<1>5. Siem!TypeOK'
  BY <1>2, <1>3, <1>4 DEF SiemInv, Siem!TypeOK, OutboxRows, DeadLetters
<1>6. KnownEvents' /\ StoredIsInSink'
  <2>1. \A f \in Siem!Events : outbox'[f].status # "none" => f <= last'
    BY <1>2 DEF SiemInv, Siem!TypeOK, KnownEvents, Siem!Events
  <2>2. QED
    BY <1>2, <1>4, <2>1 DEF SiemInv, Siem!TypeOK, KnownEvents, StoredIsInSink
<1>7. Siem!LettersMatch'
  BY <1>2, <1>3, <1>4 DEF SiemInv, Siem!LettersMatch, Siem!Open
<1>8. QED
  BY <1>5, <1>6, <1>7 DEF SiemInv

LEMMA SiemPurgeHolds ==
  ASSUME Siem!ConstantsAssumption, SiemInv, NEW e \in Siem!Events, Siem!Purge(e)
  PROVE  SiemInv'
<1>1. Siem!NoRow \in OutboxRows /\ Siem!NoRow.status = "none"
  BY DEF Siem!NoRow, OutboxRows, Siem!Open
<1>2. Siem!NoLetter \in DeadLetters /\ Siem!NoLetter.status = "none"
  BY DEF Siem!NoLetter, DeadLetters, Siem!ConstantsAssumption
<1>3. /\ outbox' \in [Siem!Events -> OutboxRows] /\ letter' \in [Siem!Events -> DeadLetters]
      /\ outbox'[e].status = "none" /\ letter'[e].status = "none"
      /\ \A f \in Siem!Events : f # e => outbox'[f] = outbox[f] /\ letter'[f] = letter[f]
  BY <1>1, <1>2 DEF Siem!Purge, SiemInv, Siem!TypeOK, OutboxRows, DeadLetters
<1>4. UNCHANGED <<last, batch, sink, faults>>
  BY DEF Siem!Purge
<1>5. Siem!TypeOK' /\ KnownEvents' /\ StoredIsInSink'
  BY <1>3, <1>4 DEF SiemInv, Siem!TypeOK, OutboxRows, DeadLetters, KnownEvents, StoredIsInSink
<1>6. Siem!LettersMatch'
  BY <1>3, <1>4 DEF SiemInv, Siem!LettersMatch, Siem!Open
<1>7. QED
  BY <1>5, <1>6 DEF SiemInv

LEMMA SiemStepHolds ==
  ASSUME Siem!ConstantsAssumption, SiemInv, [Siem!Next]_(Siem!vars)
  PROVE  SiemInv'
<1>1. CASE Siem!Record \/ Siem!Migrate \/ Siem!ActivateRegion
  BY <1>1, SiemRecordHolds, SiemMigrateHolds, SiemActivateRegionHolds
<1>2. ASSUME NEW c \in Coordinators,
             \/ Siem!Claim(c) \/ Siem!Store(c) \/ Siem!Acknowledged(c) \/ Siem!Crash(c)
             \/ \E terminal \in BOOLEAN : Siem!Failed(c, terminal)
      PROVE  SiemInv'
  BY <1>2, SiemClaimHolds, SiemStoreHolds, SiemAcknowledgedHolds, SiemCrashHolds, SiemFailedHolds
<1>3. ASSUME NEW e \in Siem!Events,
             Siem!BackoffEnds(e) \/ Siem!Lapse(e) \/ Siem!Replay(e) \/ Siem!Resolve(e) \/ Siem!Purge(e)
      PROVE  SiemInv'
  BY <1>3, SiemBackoffEndsHolds, SiemLapseHolds, SiemReplayHolds, SiemResolveHolds, SiemPurgeHolds
<1>4. CASE UNCHANGED Siem!vars
  BY <1>4 DEF Siem!vars, SiemInv, Siem!TypeOK, KnownEvents, StoredIsInSink, Siem!LettersMatch
<1>5. QED
  BY <1>1, <1>2, <1>3, <1>4 DEF Siem!Next

(***************************************************************************)
(* A behaviour is one of one protocol.  The others rest where they could    *)
(* have begun: of their faults, which they share, nothing is said.         *)
(***************************************************************************)
IInv ==
  /\ protocol \in {"temporal", "siem", "store"}
  /\ protocol = "temporal" => TP!TypeOK
  /\ protocol = "siem" => SiemInv
  /\ protocol = "store" => AP!TypeOK
  /\ TP!Tied /\ Siem!LettersMatch /\ AP!Tied

LEMMA InitHolds == Init => IInv
<1>1. Init => TP!IInv
  BY Constants, TemporalInit, TP!InitHolds DEF Init
<1>2. Init => SiemInv
  BY Constants, SiemInitHolds DEF Init
<1>3. Init => AP!IInv
  BY Constants, StoreInit, AP!InitHolds DEF Init
<1>4. QED
  BY <1>1, <1>2, <1>3 DEF IInv, Init, TP!IInv, SiemInv, AP!IInv

(* What rests keeps what does not mention the faults.                      *)
LEMMA Rests ==
  /\ TP!Tied /\ UNCHANGED temporalVars => TP!Tied'
  /\ Siem!LettersMatch /\ UNCHANGED sinkVars => Siem!LettersMatch'
  /\ AP!Tied /\ UNCHANGED storeVars => AP!Tied'
<1>1. TP!Tied /\ UNCHANGED temporalVars => TP!Tied'
  BY DEF temporalVars, TP!Tied, TP!InstanceTied, TP!ScheduleTied, TP!NewsOf, TP!TimerOf
<1>2. Siem!LettersMatch /\ UNCHANGED sinkVars => Siem!LettersMatch'
  BY DEF sinkVars, Siem!LettersMatch
<1>3. AP!Tied /\ UNCHANGED storeVars => AP!Tied'
  BY DEF storeVars, AP!Tied, AP!RowTied, AP!AdminTied, AP!Kept
<1>4. QED
  BY <1>1, <1>2, <1>3

LEMMA StepHolds == IInv /\ [Next]_vars => IInv'
<1> SUFFICES ASSUME IInv, [Next]_vars PROVE IInv'
  OBVIOUS
<1>1. CASE TemporalNext
  <2>1. TP!Next /\ OnlyTemporal
    BY <1>1, TemporalStep
  <2>2. TP!IInv'
    BY <2>1, Constants, TP!StepHolds DEF IInv, OnlyTemporal, TP!IInv
  <2>3. Siem!LettersMatch' /\ AP!Tied'
    BY <2>1, Rests DEF IInv, OnlyTemporal
  <2>4. QED
    BY <2>1, <2>2, <2>3 DEF IInv, OnlyTemporal, TP!IInv
<1>2. CASE SiemNext
  <2>1. Siem!Next /\ OnlySiem
    BY <1>2, SiemStep
  <2>2. SiemInv'
    BY <2>1, Constants, SiemStepHolds DEF IInv, OnlySiem
  <2>3. TP!Tied' /\ AP!Tied'
    BY <2>1, Rests DEF IInv, OnlySiem
  <2>4. QED
    BY <2>1, <2>2, <2>3 DEF IInv, OnlySiem, SiemInv
<1>3. CASE StoreNext
  <2>1. AP!Next /\ OnlyStore
    BY <1>3, StoreStep
  <2>2. AP!IInv'
    BY <2>1, Constants, AP!StepHolds DEF IInv, OnlyStore, AP!IInv
  <2>3. TP!Tied' /\ Siem!LettersMatch'
    BY <2>1, Rests DEF IInv, OnlyStore
  <2>4. QED
    BY <2>1, <2>2, <2>3 DEF IInv, OnlyStore, AP!IInv
<1>4. CASE UNCHANGED vars
  <2>1. TP!Tied' /\ Siem!LettersMatch' /\ AP!Tied'
    BY <1>4, Rests DEF IInv, vars
  <2>2. protocol' = protocol
    BY <1>4 DEF vars
  <2>3. protocol = "temporal" => TP!IInv'
    BY <1>4, Constants, TP!StepHolds DEF IInv, vars, temporalVars, TP!IInv, TP!vars
  <2>4. protocol = "siem" => SiemInv'
    BY <1>4, Constants, SiemStepHolds DEF IInv, vars, sinkVars, Siem!vars
  <2>5. protocol = "store" => AP!IInv'
    BY <1>4, Constants, AP!StepHolds DEF IInv, vars, storeVars, AP!IInv, AP!vars
  <2>6. QED
    BY <2>1, <2>2, <2>3, <2>4, <2>5 DEF IInv, TP!IInv, AP!IInv
<1>5. QED
  BY <1>1, <1>2, <1>3, <1>4 DEF Next

LEMMA Invariance == Spec => []IInv
BY InitHolds, StepHolds, PTL DEF Spec

(***************************************************************************)
(* The theorems, of the properties that the run outbound checks.           *)
(***************************************************************************)
(* What a protocol's variables can be holds in the composition: one         *)
(* instance for an idempotency key, however often it is sent, among it.    *)
THEOREM Typed == Spec => []TypeOK
<1>1. ASSUME IInv PROVE TypeOK
  <2>1. Temporal!TypeOK <=> TP!TypeOK
    BY DEF Temporal!TypeOK, Temporal!Ended, Temporal!Asleep, Temporal!Instances,
           TP!TypeOK, TP!Ended, TP!Asleep, TP!Instances
  <2>3. Store!TypeOK <=> AP!TypeOK
    BY DEF Store!TypeOK, AP!TypeOK
  <2>4. CASE protocol = "temporal"
    BY <1>1, <2>1, <2>4 DEF IInv, TypeOK
  <2>5. CASE protocol = "siem"
    BY <1>1, <2>5 DEF IInv, SiemInv, TypeOK
  <2>6. CASE protocol = "store"
    BY <1>1, <2>3, <2>6 DEF IInv, TypeOK
  <2>7. QED
    BY <1>1, <2>4, <2>5, <2>6 DEF IInv
<1>2. QED
  BY <1>1, Invariance, PTL

(* No workflow, of a process or of a schedule, closes while its instance    *)
(* still moves, whatever crashes, is lost, comes twice or is cancelled.    *)
THEOREM WorkflowsCloseLast == Spec => []ClosedIsSettled
<1>1. IInv => ClosedIsSettled
  <2>1. Temporal!ClosedIsSettled <=> TP!ClosedIsSettled
    BY DEF Temporal!ClosedIsSettled, Temporal!Instances, Temporal!Ended,
           TP!ClosedIsSettled, TP!Instances, TP!Ended
  <2>2. QED
    BY <2>1, TP!TiedIsEnough DEF IInv, ClosedIsSettled
<1>2. QED
  BY <1>1, Invariance, PTL

(* A start that was cancelled before it arrived stays cancelled: the fence  *)
(* of cancelScheduledProcess holds against every duplicate under way.      *)
THEOREM CancelledStartsStayDead == Spec => []CancellationStands
<1>1. IInv => CancellationStands
  <2>1. Temporal!CancellationStands <=> TP!CancellationStands
    BY DEF Temporal!CancellationStands, TP!CancellationStands
  <2>2. QED
    BY <2>1, TP!TiedIsEnough DEF IInv, CancellationStands
<1>2. QED
  BY <1>1, Invariance, PTL

(* A sleeping workflow has the timer the database would name now, unless a  *)
(* notification is on its way to it or was lost, or the coordinator has told *)
(* nobody of a change since the last tick: driveProcess reads the revision   *)
(* before it asks, so what happens between the reply and its receipt counts. *)
THEOREM SleepersAreUpToDate == Spec => []SleepsOnNews
<1>1. IInv => SleepsOnNews
  <2>1. Temporal!SleepsOnNews <=> TP!SleepsOnNews
    BY DEF Temporal!SleepsOnNews, Temporal!Instances, Temporal!Ended, Temporal!TimerOf,
           TP!SleepsOnNews, TP!Instances, TP!Ended, TP!TimerOf
  <2>2. QED
    BY <2>1, TP!TiedIsEnough DEF IInv, SleepsOnNews
<1>2. QED
  BY <1>1, Invariance, PTL

(* Outbox and dead letters tell one story, and what is called delivered the *)
(* sink has.                                                               *)
THEOREM OutboxAndLettersAgree == Spec => []LettersMatch
<1>1. IInv => LettersMatch
  BY DEF IInv, LettersMatch
<1>2. QED
  BY <1>1, Invariance, PTL

(* PostgreSQL's rows and the bucket's objects agree between any two steps   *)
(* of coordinators and of the administrator.                               *)
THEOREM RowsAndObjectsAgree == Spec => []RowsTellTheTruth
<1>1. IInv => RowsTellTheTruth
  <2>1. Store!RowsTellTheTruth <=> AP!RowsTellTheTruth
    BY DEF Store!RowsTellTheTruth, Store!Kept, AP!RowsTellTheTruth, AP!Kept
  <2>2. QED
    BY <2>1, AP!TiedIsEnough DEF IInv, RowsTellTheTruth
<1>2. QED
  BY <1>1, Invariance, PTL
===============================================================================
