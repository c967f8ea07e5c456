------------------------------ MODULE SiemOutbox ------------------------------
(***************************************************************************)
(* The export of audit events to a SIEM.                                   *)
(*                                                                         *)
(* Every event gets a row of audit_export_outbox in its own transaction.   *)
(* The exporter of each coordinator claims a batch for 60 seconds, posts   *)
(* it, and settles it by the sink's answer: delivered, to be retried after *)
(* a backoff, or dead with a letter in audit_export_dead_letters, which an *)
(* administrator replays or resolves.  Retention deletes what is done      *)
(* with.  Exporters crash and stall, answers are lost, the schema is       *)
(* migrated again, and a region that was lost is activated elsewhere.      *)
(*                                                                         *)
(* Data abstracted: the payload and its hashes; times are flags (backoff   *)
(* over, lock lapsed); a retention date may pass at any moment.  The sink  *)
(* is external.                                                            *)
(***************************************************************************)
EXTENDS Integers, FiniteSets

CONSTANTS
  Exporters,     (* Coordinators, by coordinatorInstanceId.                  *)
  MaxEvents,     (* BOUND: events recorded.                                  *)
  BatchSize,     (* siemBatchSize.                                           *)
  MaxAttempts,   (* siemMaxAttempts.                                         *)
  MaxReplays,    (* BOUND: replays of one letter.                            *)
  MaxFaults      (* BOUND: crashes, stalls, migrations and activations.      *)

ConstantsAssumption ==
  /\ MaxEvents \in Nat /\ MaxReplays \in Nat /\ MaxFaults \in Nat
  /\ BatchSize \in Nat \ {0} /\ MaxAttempts \in Nat \ {0}

VARIABLES
  last,     (* Id of the newest event.                                       *)
  row,      (* audit_export_outbox, by event.                                *)
  letter,   (* audit_export_dead_letters, by event.                          *)
  batch,    (* What the exporter of each coordinator has in hand.            *)
  sink,     (* Events that the SIEM has stored.                              *)
  faults    (* BOUND: faults so far.                                         *)

vars == <<last, row, letter, batch, sink, faults>>

Events   == 1..MaxEvents
Open     == {"pending", "delivering"}
NoBatch  == [ids |-> {}, stored |-> FALSE]
NoRow    == [status |-> "none", attempts |-> 0, by |-> "none", ready |-> TRUE, lapsed |-> FALSE]
Fresh    == [NoRow EXCEPT !.status = "pending"]
NoLetter == [status |-> "none", replays |-> 0]

Init ==
  /\ last = 0 /\ sink = {} /\ faults = 0
  /\ row    = [e \in Events |-> NoRow]
  /\ letter = [e \in Events |-> NoLetter]
  /\ batch  = [c \in Exporters |-> NoBatch]

Fault == faults < MaxFaults /\ faults' = faults + 1

(* addEvent and its trigger: the new event's row is written with it.  Once  *)
(* the bound is reached, the events of the handlers below are left out.    *)
Recorded(rows) == IF last < MaxEvents THEN [rows EXCEPT ![last + 1] = Fresh] ELSE rows
Counted == last' = IF last < MaxEvents THEN last + 1 ELSE last

Record ==
  /\ last < MaxEvents
  /\ row' = Recorded(row) /\ Counted
  /\ UNCHANGED <<letter, batch, sink, faults>>

(***************************************************************************)
(* The exporter (pumpSiem), one batch at a time.                           *)
(***************************************************************************)
(* Rows whose lock has lapsed are pending again, whoever held them.        *)
Unlocked(r) ==
  IF r.status = "delivering" /\ r.lapsed
    THEN [r EXCEPT !.status = "pending", !.by = "none", !.lapsed = FALSE] ELSE r

(* MUTANT of Claimable: a row that has had its attempts is left alone.      *)
ClaimableBelow(rows) ==
  {e \in Events : rows[e].status = "pending" /\ rows[e].ready /\ rows[e].attempts < MaxAttempts}

(* The oldest rows that are due.                                           *)
Claimable(rows) ==
  LET due == {e \in Events : rows[e].status = "pending" /\ rows[e].ready}
  IN  {e \in due : Cardinality({f \in due : f < e}) < BatchSize}

Claim(c) ==
  /\ batch[c].ids = {}
  /\ LET rows == [e \in Events |-> Unlocked(row[e])]
         ids  == Claimable(rows)
     IN  /\ row' = [e \in Events |->
              IF e \in ids THEN [rows[e] EXCEPT !.status = "delivering", !.by = c, !.attempts = @ + 1]
              ELSE rows[e]]
         /\ batch' = [batch EXCEPT ![c].ids = ids]
  /\ UNCHANGED <<last, letter, sink, faults>>

(* The request reaches the sink, which stores the batch.                   *)
Store(c) ==
  /\ batch[c].ids # {} /\ ~batch[c].stored
  /\ batch' = [batch EXCEPT ![c].stored = TRUE]
  /\ sink' = sink \cup batch[c].ids
  /\ UNCHANGED <<last, row, letter, faults>>

(* The rows of its batch that an exporter still holds.                     *)
Held(c) == {e \in batch[c].ids : row[e].status = "delivering" /\ row[e].by = c}

Closed(r, status) == [r EXCEPT !.status = status, !.by = "none", !.lapsed = FALSE]

(* The exact acknowledgement has come.                                     *)
Acknowledged(c) ==
  /\ batch[c].stored
  /\ row' = [e \in Events |-> IF e \in Held(c) THEN Closed(row[e], "delivered") ELSE row[e]]
  /\ batch' = [batch EXCEPT ![c] = NoBatch]
  /\ UNCHANGED <<last, letter, sink, faults>>

GivenUp(r, terminal) == terminal \/ r.attempts >= MaxAttempts

(* MUTANT of Failed: letters are written for the whole batch.               *)
FailedUnchecked(c, terminal) ==
  /\ batch[c].ids # {}
  /\ terminal => ~batch[c].stored
  /\ row' = [e \in Events |->
       IF e \notin Held(c) THEN row[e]
       ELSE IF GivenUp(row[e], terminal) THEN Closed(row[e], "dead")
       ELSE [Closed(row[e], "pending") EXCEPT !.ready = FALSE]]
  /\ letter' = [e \in Events |->
       IF e \in batch[c].ids /\ GivenUp(row[e], terminal) THEN [letter[e] EXCEPT !.status = "open"]
       ELSE letter[e]]
  /\ batch' = [batch EXCEPT ![c] = NoBatch]
  /\ UNCHANGED <<last, sink, faults>>

(* A timeout, a refusal or a wrong acknowledgement; a 4xx is terminal.     *)
(* When another exporter takes a row between the SELECT and the UPDATE,    *)
(* the transaction is rolled back and the exporter's catch block settles   *)
(* the rest as a network error: the same step, later, not terminal.        *)
Failed(c, terminal) ==
  /\ batch[c].ids # {}
  /\ terminal => ~batch[c].stored
  /\ row' = [e \in Events |->
       IF e \notin Held(c) THEN row[e]
       ELSE IF GivenUp(row[e], terminal) THEN Closed(row[e], "dead")
       ELSE [Closed(row[e], "pending") EXCEPT !.ready = FALSE]]
  /\ letter' = [e \in Events |->
       IF e \in Held(c) /\ GivenUp(row[e], terminal) THEN [letter[e] EXCEPT !.status = "open"]
       ELSE letter[e]]
  /\ batch' = [batch EXCEPT ![c] = NoBatch]
  /\ UNCHANGED <<last, sink, faults>>

(***************************************************************************)
(* Time, crashes and recovery.                                             *)
(***************************************************************************)
(* The backoff of a row is over.                                           *)
BackoffEnds(e) ==
  /\ row[e].status = "pending" /\ ~row[e].ready
  /\ row' = [row EXCEPT ![e].ready = TRUE]
  /\ UNCHANGED <<last, letter, batch, sink, faults>>

(* A lock lapses: that of an exporter that has crashed, in any case.  That  *)
(* of one that is alive only if it stalls, as a request times out first.   *)
Abandoned(e) == row[e].status = "delivering" /\ e \notin batch[row[e].by].ids

Lapse(e) ==
  /\ row[e].status = "delivering" /\ ~row[e].lapsed
  /\ IF Abandoned(e) THEN faults' = faults ELSE Fault
  /\ row' = [row EXCEPT ![e].lapsed = TRUE]
  /\ UNCHANGED <<last, letter, batch, sink>>

Crash(c) ==
  /\ batch[c].ids # {} /\ Fault
  /\ batch' = [batch EXCEPT ![c] = NoBatch]
  /\ UNCHANGED <<last, row, letter, sink>>

(* migrateFleetHa, at each start over SQLite and in each schema job over    *)
(* PostgreSQL: every event without a row gets one.                         *)
Migrate ==
  /\ Fault
  /\ row' = [e \in Events |-> IF e <= last /\ row[e].status = "none" THEN Fresh ELSE row[e]]
  /\ UNCHANGED <<last, letter, batch, sink>>

(* A lost region is activated on its database: the old exporters are       *)
(* fenced, and what they had in hand is due at once.                       *)
ActivateRegion ==
  /\ Fault
  /\ row' = [e \in Events |->
       IF row[e].status = "delivering" THEN [Closed(row[e], "pending") EXCEPT !.ready = TRUE]
       ELSE row[e]]
  /\ batch' = [c \in Exporters |-> NoBatch]
  /\ UNCHANGED <<last, letter, sink>>

(***************************************************************************)
(* The administrator, and retention.                                       *)
(***************************************************************************)
Replay(e) ==
  /\ letter[e].status = "open" /\ row[e].status = "dead"
  /\ letter[e].replays < MaxReplays
  /\ row' = Recorded([row EXCEPT ![e] = Fresh]) /\ Counted
  /\ letter' = [letter EXCEPT ![e] = [status |-> "replayed", replays |-> @.replays + 1]]
  /\ UNCHANGED <<batch, sink, faults>>

Resolve(e) ==
  /\ letter[e].status = "open"
  /\ letter' = [letter EXCEPT ![e].status = "resolved"]
  /\ row' = Recorded(row) /\ Counted
  /\ UNCHANGED <<batch, sink, faults>>

(* runAuditExportRetention: what may go once its date has passed.          *)
Purgeable(e) ==
  \/ row[e].status = "delivered" /\ letter[e].status \in {"none", "replayed"}
  \/ row[e].status = "dead" /\ letter[e].status = "resolved"

Purge(e) ==
  /\ Purgeable(e)
  /\ row' = [row EXCEPT ![e] = NoRow]
  /\ letter' = [letter EXCEPT ![e] = NoLetter]
  /\ UNCHANGED <<last, batch, sink, faults>>

Next ==
  \/ Record \/ Migrate \/ ActivateRegion
  \/ \E c \in Exporters :
       \/ Claim(c) \/ Store(c) \/ Acknowledged(c) \/ Crash(c)
       \/ \E terminal \in BOOLEAN : Failed(c, terminal)
  \/ \E e \in Events : BackoffEnds(e) \/ Lapse(e) \/ Replay(e) \/ Resolve(e) \/ Purge(e)

Spec == Init /\ [][Next]_vars

(* The exporters' timers fire, every request ends, and time passes.        *)
Answered(c) == Acknowledged(c) \/ \E terminal \in BOOLEAN : Failed(c, terminal)

Fairness ==
  /\ \A c \in Exporters : WF_vars(Claim(c)) /\ WF_vars(Answered(c))
  /\ \A e \in Events : WF_vars(BackoffEnds(e)) /\ WF_vars(Abandoned(e) /\ Lapse(e))

FairSpec == Spec /\ Fairness

(***************************************************************************)
(* Properties.                                                             *)
(***************************************************************************)
TypeOK ==
  /\ last \in 0..MaxEvents /\ sink \subseteq 1..last /\ faults \in 0..MaxFaults
  /\ row \in [Events ->
       [status : {"none", "dead", "delivered"} \cup Open, attempts : Nat,
        by : Exporters \cup {"none"}, ready : BOOLEAN, lapsed : BOOLEAN]]
  /\ letter \in [Events -> [status : {"none", "open", "replayed", "resolved"}, replays : 0..MaxReplays]]
  /\ batch \in [Exporters -> [ids : SUBSET Events, stored : BOOLEAN]]

(* The outbox and the dead letters tell one story, through lost locks,      *)
(* crashes, replays and retention: a row is dead exactly while its letter   *)
(* is open or resolved, a replayed letter has a row that is on its way or  *)
(* delivered, and what is called delivered the sink has stored.  It is this *)
(* that replayAuditExportDeadLetter otherwise reports as an error.         *)
LettersMatch ==
  \A e \in Events :
    /\ row[e].status = "dead" <=> letter[e].status \in {"open", "resolved"}
    /\ letter[e].status = "replayed" => row[e].status \in Open \cup {"delivered"}
    /\ row[e].status = "delivered" => e \in sink

(* An event that waits or is under way is delivered or given up in the     *)
(* end, whatever crashes.                                                  *)
EventsSettle ==
  \A e \in Events : row[e].status \in Open ~> row[e].status \in {"delivered", "dead"}

(* The life of an outbox row is finite: what retention has deleted is not   *)
(* exported once more (docs/siem-retention-dlq.md).                        *)
PurgedForGood ==
  [][\A e \in 1..last : row[e].status = "none" => row'[e].status = "none"]_vars
=============================================================================
