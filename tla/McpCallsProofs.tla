--------------------------- MODULE McpCallsProofs ---------------------------
(***************************************************************************)
(* The theorems of McpCalls, for any number of attempts, calls, operators, *)
(* targets, rules and changes of policy.                                   *)
(*                                                                         *)
(* Nearly every action leaves a call as it is, moves it from waiting to    *)
(* executing or closes it, and sends nothing (QuietStep).  Two do more: a  *)
(* request creates the call, and the check right before the effect sends   *)
(* it.                                                                     *)
(***************************************************************************)
EXTENDS McpCalls, TLAPS

StageType  == [status : {"queued", "running", "completed", "failed", "cancelled"},
               lease  : 0..MaxAttempts, ttl : -1..LeaseTtl]
GateType   == [rule : Rules, override : Overrides, deny : BOOLEAN, enabled : BOOLEAN,
               trust : BOOLEAN, target : Targets \cup {NoTarget},
               catalog : Targets \cup {NoTarget}, changes : 0..MaxChanges]
FlightType == [at : {"none", "connecting", "sent", "reading"}, target : Targets \cup {NoTarget}]
WireType   == [times : Nat, need : 0..2, risk : Risks]

(* A call that is not yet started has sent nothing, one that is about to     *)
(* send has not sent before, and what was sent had its approvals.           *)
Sound(k) ==
  /\ call[k].status \in {"absent", "waiting_approval"} =>
       wire[k].times = 0 /\ flight[k].at = "none"
  /\ flight[k].at = "connecting" => wire[k].times = 0
  /\ wire[k].times > 0 =>
       /\ Cardinality(call[k].approvers) >= wire[k].need
       /\ wire[k].risk = "destructive" => Cardinality(call[k].approvers) >= 2

(* A queued stage has an attempt left.                                      *)
LeaseLeft == stage.status = "queued" => stage.lease < MaxAttempts

IInv == TypeOK /\ LeaseLeft /\ (\A k \in Keys : Sound(k)) /\ NothingWaitsUnderDeny

LedgerStep == [Ledger!Next]_(Ledger!vars)

(* What most actions do to a call: they leave its status, start or close it; *)
(* its approvers change only while it waits for them.                       *)
Quiet(k) ==
  /\ call'[k] \in CallRow
  /\ \/ call'[k].status = call[k].status
     \/ call[k].status = "waiting_approval" /\ call'[k].status = "executing"
     \/ call[k].status \in OpenCall /\ call'[k].status \in ClosedCall
  /\ call'[k].approvers = call[k].approvers \/ call[k].status = "waiting_approval"

(* And to its execution in memory: it goes on, ends, or starts with it.     *)
Carried(k) ==
  \/ flight'[k].at = flight[k].at
  \/ flight'[k].at \in {"none", "reading"} /\ flight[k].at # "none"
  \/ call[k].status = "waiting_approval" /\ call'[k].status = "executing"

LEMMA QuietStep ==
  ASSUME IInv,
         call' = [k \in Keys |-> call'[k]], \A k \in Keys : Quiet(k),
         flight' \in [Keys -> FlightType], \A k \in Keys : Carried(k),
         wire' = wire,
         stage' \in StageType, gate' \in GateType, listing' \in Targets \cup {NoTarget},
         stage'.status = "queued" => stage'.lease < MaxAttempts,
         gate'.deny => gate.deny \/ \A k \in Keys : call'[k].status # "waiting_approval"
  PROVE  IInv' /\ LedgerStep
<1>1. TypeOK'
  <2>1. call' \in [Keys -> CallRow]
    BY DEF Quiet
  <2>2. QED
    BY <2>1 DEF IInv, TypeOK, StageType, GateType, FlightType
<1>2. ASSUME NEW k \in Keys
      PROVE  Sound(k)'
  <2>1. Sound(k) /\ Quiet(k) /\ Carried(k)
    BY DEF IInv
  <2>2. QED
    BY <2>1 DEF Sound, Quiet, Carried, OpenCall, ClosedCall
<1>3. NothingWaitsUnderDeny'
  <2>1. \A k \in Keys : call'[k].status = "waiting_approval" => call[k].status = "waiting_approval"
    BY DEF Quiet, ClosedCall
  <2>2. QED
    BY <2>1 DEF IInv, NothingWaitsUnderDeny
<1>4. LedgerStep
  <2> DEFINE S == {k \in Keys : call[k].status \in OpenCall /\ call'[k].status \notin OpenCall}
             phase == [k \in Keys |-> IF call[k].status = "absent" THEN "absent"
                                      ELSE IF call[k].status \in OpenCall THEN "open" ELSE "closed"]
             times == [k \in Keys |-> wire[k].times]
  <2>1. \A k \in S : phase[k] = "open"
    BY DEF OpenCall
  <2>2. ASSUME NEW k \in Keys
        PROVE  phase'[k] = IF k \in S THEN "closed" ELSE phase[k]
    BY DEF Quiet, OpenCall, ClosedCall
  <2>3. phase' = [k \in Keys |-> IF k \in S THEN "closed" ELSE phase[k]]
    BY <2>2
  <2>4. times' = times
    OBVIOUS
  <2>5. S \in SUBSET Keys
    OBVIOUS
  <2> HIDE DEF S
  <2>6. \E T \in SUBSET Keys :
          /\ \A k \in T : phase[k] = "open"
          /\ phase' = [k \in Keys |-> IF k \in T THEN "closed" ELSE phase[k]]
          /\ times' = times
    <3> HIDE DEF phase, times
    <3>1. QED
      BY <2>1, <2>3, <2>4, <2>5
  <2>7. QED
    BY <2>6, Zenon DEF LedgerStep, Ledger!Next, Ledger!Close
<1>5. QED
  BY <1>1, <1>2, <1>3, <1>4 DEF IInv, LeaseLeft

(***************************************************************************)
(* The initial state.                                                      *)
(***************************************************************************)
LEMMA InitHolds == Init => IInv /\ Ledger!Init
<1> SUFFICES ASSUME Init PROVE IInv /\ Ledger!Init
  OBVIOUS
<1>1. TypeOK
  <2>1. NoCall \in CallRow
    BY TimesAssumption DEF NoCall, CallRow, Risks
  <2>2. stage \in StageType
    BY AttemptsAssumption, TimesAssumption DEF Init, StageType
  <2>3. gate \in GateType
    BY RulesAssumption, ChangesAssumption DEF Init, GateType
  <2>4. flight \in [Keys -> FlightType] /\ wire \in [Keys -> WireType]
    BY DEF Init, NoFlight, FlightType, WireType, Risks
  <2>5. QED
    BY <2>1, <2>2, <2>3, <2>4 DEF Init, TypeOK, StageType, GateType, FlightType, WireType
<1>2. \A k \in Keys : Sound(k)
  BY DEF Init, Sound, NoFlight
<1>3. LeaseLeft /\ NothingWaitsUnderDeny
  BY AttemptsAssumption DEF Init, LeaseLeft, NothingWaitsUnderDeny, NoCall
<1>4. Ledger!Init
  BY DEF Init, Ledger!Init, NoCall
<1>5. QED
  BY <1>1, <1>2, <1>3, <1>4 DEF IInv

(***************************************************************************)
(* The parts of the state.                                                 *)
(***************************************************************************)
LEMMA Parts ==
  ASSUME IInv
  PROVE  /\ stage \in StageType /\ gate \in GateType /\ listing \in Targets \cup {NoTarget}
         /\ call \in [Keys -> CallRow] /\ flight \in [Keys -> FlightType]
         /\ stage.status = "queued" => stage.lease < MaxAttempts
BY DEF IInv, TypeOK, LeaseLeft, StageType, GateType, FlightType

LEMMA Rewritten ==
  ASSUME NEW row \in CallRow, NEW status \in OpenCall \cup ClosedCall,
         NEW window \in -1..(ApprovalTtl + Window)
  PROVE  /\ [row EXCEPT !.status = status, !.window = window] \in CallRow
         /\ [row EXCEPT !.status = status, !.window = window].status = status
         /\ [row EXCEPT !.status = status, !.window = window].approvers = row.approvers
<1>1. status \in OpenCall \cup ClosedCall \cup {"absent"}
  OBVIOUS
<1>2. QED
  BY <1>1, Zenon DEF CallRow

LEMMA Ended ==
  ASSUME NEW row \in CallRow, NEW status \in ClosedCall
  PROVE  /\ End(row, status) \in CallRow /\ End(row, status).status = status
         /\ End(row, status).approvers = row.approvers
<1>1. 0 \in -1..(ApprovalTtl + Window)
  BY TimesAssumption
<1>2. status \in OpenCall \cup ClosedCall \cup {"absent"}
  OBVIOUS
<1>3. QED
  BY <1>1, <1>2, Zenon DEF End, CallRow

LEMMA SameCalls ==
  ASSUME IInv, UNCHANGED call
  PROVE  call' = [k \in Keys |-> call'[k]] /\ \A k \in Keys : Quiet(k)
BY Parts DEF Quiet

LEMMA SameFlight ==
  ASSUME IInv, UNCHANGED flight
  PROVE  flight' \in [Keys -> FlightType] /\ \A k \in Keys : Carried(k)
BY Parts DEF Carried

(* Rows that are open may be closed, with any status of the closed ones.    *)
LEMMA SomeClosed ==
  ASSUME IInv, call' = [k \in Keys |-> call'[k]],
         \A k \in Keys : \/ call'[k] = call[k]
                         \/ /\ call[k].status \in OpenCall
                            /\ \E status \in ClosedCall : call'[k] = End(call[k], status)
  PROVE  \A k \in Keys : Quiet(k)
<1> SUFFICES ASSUME NEW k \in Keys PROVE Quiet(k)
  OBVIOUS
<1>1. call[k] \in CallRow
  BY Parts
<1>2. CASE call'[k] = call[k]
  BY <1>1, <1>2 DEF Quiet
<1>3. CASE call[k].status \in OpenCall
           /\ \E status \in ClosedCall : call'[k] = End(call[k], status)
  BY <1>1, <1>3, Ended DEF Quiet
<1>4. QED
  BY <1>2, <1>3

LEMMA OneClosed ==
  ASSUME IInv, NEW k \in Keys, NEW status \in ClosedCall,
         call[k].status \in OpenCall, call' = Closed(k, status)
  PROVE  call' = [j \in Keys |-> call'[j]] /\ \A j \in Keys : Quiet(j)
<1>1. \A j \in Keys : call'[j] = IF j = k THEN End(call[k], status) ELSE call[j]
  BY Parts DEF Closed
<1>2. call' = [j \in Keys |-> call'[j]]
  BY Parts DEF Closed
<1>3. QED
  BY <1>1, <1>2, SomeClosed

LEMMA OneLanded ==
  ASSUME IInv, NEW k \in Keys, flight[k].at # "none", Landed(k)
  PROVE  flight' \in [Keys -> FlightType] /\ \A j \in Keys : Carried(j)
<1>1. NoFlight \in FlightType /\ NoFlight.at = "none"
  BY DEF NoFlight, FlightType
<1>2. QED
  BY <1>1, Parts DEF Landed, Carried

LEMMA StageGiven ==
  ASSUME IInv, stage.status = "running"
  PROVE  /\ Given(stage) \in StageType
         /\ Given(stage).status = "queued" => Given(stage).lease < MaxAttempts
<1>1. Given(stage).lease = stage.lease
  BY Parts DEF Given, StageType
<1>2. Given(stage).status = "queued" => stage.lease < MaxAttempts
  BY Parts DEF Given, StageType
<1>3. Given(stage) \in StageType
  <2>1. -1 \in -1..LeaseTtl
    BY TimesAssumption
  <2>2. \E status \in {"queued", "failed"} :
          Given(stage) = [status |-> status, lease |-> stage.lease, ttl |-> -1]
    BY Parts DEF Given, StageType
  <2>3. QED
    BY <2>1, <2>2, Parts DEF StageType
<1>4. QED
  BY <1>1, <1>2, <1>3

LEMMA StageSwept ==
  ASSUME IInv
  PROVE  /\ Swept \in StageType
         /\ Swept.status = "queued" => Swept.lease < MaxAttempts
BY Parts, StageGiven DEF Swept

(***************************************************************************)
(* The steps that are quiet.                                               *)
(***************************************************************************)
LEMMA CancelStep ==
  ASSUME IInv, NEW k \in Keys, Cancel(k)
  PROVE  IInv' /\ LedgerStep
<1>1. call' = [j \in Keys |-> call'[j]] /\ \A j \in Keys : Quiet(j)
  BY OneClosed DEF Cancel, OpenCall, ClosedCall
<1>2. QED
  BY <1>1, QuietStep, Parts, SameFlight DEF Cancel

LEMMA RejectStep ==
  ASSUME IInv, NEW k \in Keys, NEW a, Reject(k, a)
  PROVE  IInv' /\ LedgerStep
<1> DEFINE row == End(call[k], "rejected")
           new == [row EXCEPT !.approvers = @ \ {a}]
<1>1. row \in CallRow /\ row.status = "rejected"
  BY Parts, Ended DEF ClosedCall
<1>2. new \in CallRow /\ new.status = "rejected"
  <2> HIDE DEF row
  <2>1. QED
    BY <1>1 DEF CallRow
<1>3. call' = [call EXCEPT ![k] = new] /\ call[k].status = "waiting_approval"
  BY Zenon DEF Reject
<1> HIDE DEF row, new
<1>4. call' = [j \in Keys |-> call'[j]]
  BY <1>3, Parts
<1>5. ASSUME NEW j \in Keys PROVE Quiet(j)
  BY <1>2, <1>3, Parts DEF Quiet, OpenCall, ClosedCall
<1>6. QED
  BY <1>4, <1>5, QuietStep, Parts, SameFlight DEF Reject

(* The execution in memory ends, and with it the call if it still executes. *)
LEMMA LandedStep ==
  ASSUME IInv, NEW k \in Keys, NEW status \in ClosedCall,
         flight[k].at # "none", Landed(k),
         call' = IF call[k].status = "executing" THEN Closed(k, status) ELSE call,
         UNCHANGED <<stage, gate, listing, wire>>
  PROVE  IInv' /\ LedgerStep
<1>1. call' = [j \in Keys |-> call'[j]] /\ \A j \in Keys : Quiet(j)
  <2>1. CASE call[k].status = "executing"
    BY <2>1, OneClosed DEF OpenCall
  <2>2. CASE call[k].status # "executing"
    BY <2>2, SameCalls
  <2>3. QED
    BY <2>1, <2>2
<1>2. QED
  BY <1>1, OneLanded, QuietStep, Parts

LEMMA PollStep ==
  ASSUME IInv, NEW k \in Keys, Poll(k)
  PROVE  IInv' /\ LedgerStep
<1>1. CASE call[k].status = "executing" /\ Executable(k)
  <2>1. flight' = [flight EXCEPT ![k].at = "reading"] /\ UNCHANGED call
    BY <1>1 DEF Poll
  <2>2. flight' \in [Keys -> FlightType] /\ \A j \in Keys : Carried(j)
    BY <2>1, Parts DEF Poll, FlightType, Carried
  <2>3. QED
    BY <2>1, <2>2, QuietStep, Parts, SameCalls DEF Poll
<1>2. CASE ~(call[k].status = "executing" /\ Executable(k))
  BY <1>2, LandedStep DEF Poll, ClosedCall
<1>3. QED
  BY <1>1, <1>2

LEMMA AnswerStep ==
  ASSUME IInv, NEW k \in Keys, Answer(k)
  PROVE  IInv' /\ LedgerStep
BY LandedStep DEF Answer, Answering, ClosedCall

LEMMA BreakStep ==
  ASSUME IInv, NEW k \in Keys, Break(k)
  PROVE  IInv' /\ LedgerStep
BY LandedStep DEF Break, ClosedCall

LEMMA CrashStep ==
  ASSUME IInv, Crash
  PROVE  IInv' /\ LedgerStep
<1>1. flight' \in [Keys -> FlightType] /\ \A k \in Keys : Carried(k)
  BY Parts DEF Crash, NoFlight, FlightType, Carried
<1>2. QED
  BY <1>1, QuietStep, Parts, SameCalls DEF Crash

LEMMA LeaseNextStep ==
  ASSUME IInv, LeaseNext
  PROVE  IInv' /\ LedgerStep
<1>1. CASE Swept.status = "queued"
  <2>1. stage.lease + 1 \in 0..MaxAttempts /\ LeaseTtl \in -1..LeaseTtl
    <3>1. Swept.lease = stage.lease
      BY Parts DEF Swept, Given, StageType
    <3>2. QED
      BY <1>1, <3>1, StageSwept, Parts, AttemptsAssumption, TimesAssumption DEF StageType
  <2>2. stage' = [status |-> "running", lease |-> stage.lease + 1, ttl |-> LeaseTtl]
    BY <1>1 DEF LeaseNext
  <2>3. stage' \in StageType /\ stage'.status # "queued"
    BY <2>1, <2>2 DEF StageType
  <2>4. QED
    BY <2>3, QuietStep, Parts, SameCalls, SameFlight DEF LeaseNext
<1>2. CASE Swept.status # "queued"
  <2>1. stage' = Swept
    BY <1>2 DEF LeaseNext
  <2>2. QED
    BY <2>1, StageSwept, QuietStep, Parts, SameCalls, SameFlight DEF LeaseNext
<1>3. QED
  BY <1>1, <1>2

LEMMA RenewLeaseStep ==
  ASSUME IInv, RenewLease
  PROVE  IInv' /\ LedgerStep
<1>1. LeaseTtl \in -1..LeaseTtl
  BY TimesAssumption
<1>2. stage' \in StageType /\ stage'.status # "queued"
  BY <1>1, Parts DEF RenewLease, Owned, StageType
<1>3. QED
  BY <1>2, QuietStep, Parts, SameCalls, SameFlight DEF RenewLease

(* Whatever set of calls stops waiting, the step is quiet for them.         *)
LEMMA WaitingClosed ==
  ASSUME IInv, call' = [k \in Keys |-> call'[k]],
         \A k \in Keys : \/ call'[k] = call[k]
                         \/ call[k].status = "waiting_approval"
                            /\ call'[k] = End(call[k], "expired")
  PROVE  \A k \in Keys : Quiet(k)
BY SomeClosed DEF OpenCall, ClosedCall

LEMMA CompleteLeaseStep ==
  ASSUME IInv, CompleteLease
  PROVE  IInv' /\ LedgerStep
<1>1. call' = [k \in Keys |-> call'[k]] /\ \A k \in Keys : Quiet(k)
  BY WaitingClosed DEF CompleteLease, WithoutWaiting
<1>2. -1 \in -1..LeaseTtl
  BY TimesAssumption
<1>3. stage' \in StageType /\ stage'.status # "queued"
  BY <1>2, Parts, Zenon DEF CompleteLease, StageType
<1>4. QED
  BY <1>1, <1>3, QuietStep, Parts, SameFlight DEF CompleteLease

LEMMA FailLeaseStep ==
  ASSUME IInv, FailLease
  PROVE  IInv' /\ LedgerStep
<1>1. call' = [k \in Keys |-> call'[k]] /\ \A k \in Keys : Quiet(k)
  BY WaitingClosed DEF FailLease, WithoutWaiting
<1>2. stage' \in StageType /\ (stage'.status = "queued" => stage'.lease < MaxAttempts)
  BY StageGiven DEF FailLease, Owned
<1>3. QED
  BY <1>1, <1>2, QuietStep, Parts, SameFlight DEF FailLease

LEMMA CancelRunStep ==
  ASSUME IInv, CancelRun
  PROVE  IInv' /\ LedgerStep
<1>1. call' = [k \in Keys |-> call'[k]] /\ \A k \in Keys : Quiet(k)
  BY WaitingClosed DEF CancelRun, WithoutWaiting
<1>2. -1 \in -1..LeaseTtl
  BY TimesAssumption
<1>3. stage' \in StageType /\ stage'.status # "queued"
  BY <1>2, Parts, Zenon DEF CancelRun, StageType
<1>4. QED
  BY <1>1, <1>3, QuietStep, Parts, SameFlight DEF CancelRun

LEMMA MaintenanceStep ==
  ASSUME IInv, MaintenanceTick
  PROVE  IInv' /\ LedgerStep
<1>1. call' = [k \in Keys |-> call'[k]]
  BY DEF MaintenanceTick
<1>2. \A k \in Keys : \/ call'[k] = call[k]
                      \/ call[k].status \in OpenCall /\ call'[k] = End(call[k], "expired")
  BY DEF MaintenanceTick, Stale
<1>3. \A k \in Keys : Quiet(k)
  BY <1>1, <1>2, SomeClosed DEF ClosedCall
<1>4. QED
  BY <1>1, <1>3, StageSwept, QuietStep, Parts, SameFlight DEF MaintenanceTick

LEMMA TickStep ==
  ASSUME IInv, Tick
  PROVE  IInv' /\ LedgerStep
<1>1. stage' \in StageType /\ stage'.status = stage.status /\ stage'.lease = stage.lease
  <2>1. IF stage.status = "running" THEN Down(stage.ttl) \in -1..LeaseTtl
                                    ELSE stage.ttl \in -1..LeaseTtl
    BY Parts, TimesAssumption DEF Down, StageType
  <2>2. QED
    BY <2>1, Parts DEF Tick, StageType
<1>2. call' = [k \in Keys |-> call'[k]]
  BY DEF Tick
<1>3. ASSUME NEW k \in Keys PROVE Quiet(k)
  <2>1. call[k] \in CallRow
    BY Parts
  <2>2. CASE call[k].status \in OpenCall
    <3>1. Down(call[k].window) \in -1..(ApprovalTtl + Window)
      <4>1. call[k].window \in -1..(ApprovalTtl + Window)
        BY <2>1 DEF CallRow
      <4>2. QED
        BY <4>1, TimesAssumption DEF Down
    <3>2. call'[k] = [call[k] EXCEPT !.window = Down(@)]
      BY <2>2 DEF Tick
    <3>3. call'[k] \in CallRow
      BY <2>1, <3>1, <3>2 DEF CallRow
    <3>4. call'[k].status = call[k].status /\ call'[k].approvers = call[k].approvers
      BY <2>1, <3>2 DEF CallRow
    <3>5. QED
      BY <3>3, <3>4 DEF Quiet
  <2>3. CASE call[k].status \notin OpenCall
    BY <2>1, <2>3 DEF Tick, Quiet
  <2>4. QED
    BY <2>2, <2>3
<1>4. QED
  BY <1>1, <1>2, <1>3, QuietStep, Parts, SameFlight DEF Tick

(***************************************************************************)
(* Administration.                                                         *)
(***************************************************************************)
LEMMA Changed ==
  ASSUME IInv, NEW g \in GateType, g.changes = gate.changes, Change(g)
  PROVE  gate' \in GateType /\ gate'.deny = g.deny
<1>1. g.changes + 1 \in 0..MaxChanges
  BY ChangesAssumption, Parts DEF Change, GateType
<1>2. gate' = [g EXCEPT !.changes = @ + 1]
  BY DEF Change
<1>3. QED
  BY <1>1, <1>2 DEF GateType

(* A change of the gate that does not touch the kill switch.                *)
LEMMA GateStep ==
  ASSUME IInv, gate' \in GateType, gate'.deny = gate.deny,
         listing' \in Targets \cup {NoTarget}, UNCHANGED <<stage, call, flight, wire>>
  PROVE  IInv' /\ LedgerStep
BY QuietStep, Parts, SameCalls, SameFlight

LEMMA ActivatePolicyStep ==
  ASSUME IInv, NEW r \in Rules, ActivatePolicy(r)
  PROVE  IInv' /\ LedgerStep
<1> DEFINE g == [gate EXCEPT !.rule = r]
<1>1. g \in GateType /\ g.changes = gate.changes /\ g.deny = gate.deny
  BY Parts DEF GateType
<1>2. Change(g)
  BY DEF ActivatePolicy
<1> HIDE DEF g
<1>3. QED
  BY <1>1, <1>2, Changed, GateStep, Parts DEF ActivatePolicy

LEMMA SetToolPolicyStep ==
  ASSUME IInv, NEW p \in Overrides, SetToolPolicy(p)
  PROVE  IInv' /\ LedgerStep
<1> DEFINE g == [gate EXCEPT !.override = p]
<1>1. g \in GateType /\ g.changes = gate.changes /\ g.deny = gate.deny
  BY Parts DEF GateType
<1>2. Change(g)
  BY DEF SetToolPolicy
<1> HIDE DEF g
<1>3. QED
  BY <1>1, <1>2, Changed, GateStep, Parts DEF SetToolPolicy

LEMMA EmergencyDenyStep ==
  ASSUME IInv, NEW on \in BOOLEAN, EmergencyDeny(on)
  PROVE  IInv' /\ LedgerStep
<1> DEFINE g == [gate EXCEPT !.deny = on]
<1>1. g \in GateType /\ g.changes = gate.changes /\ g.deny = on
  BY Parts, Zenon DEF GateType
<1>2. Change(g)
  BY DEF EmergencyDeny
<1> HIDE DEF g
<1>3. gate' \in GateType /\ gate'.deny = on
  BY <1>1, <1>2, Changed
<1>4. call' = [k \in Keys |-> call'[k]]
  BY DEF EmergencyDeny
<1>5. \A k \in Keys : \/ call'[k] = call[k]
                      \/ call[k].status \in OpenCall /\ call'[k] = End(call[k], "rejected")
  BY DEF EmergencyDeny, OpenCall
<1>6. \A k \in Keys : Quiet(k)
  BY <1>4, <1>5, SomeClosed DEF ClosedCall
<1>7. ASSUME on, NEW k \in Keys
      PROVE  call'[k].status # "waiting_approval"
  <2>1. CASE call[k].status = "waiting_approval"
    <3>1. call'[k] = End(call[k], "rejected")
      BY <1>7, <2>1 DEF EmergencyDeny
    <3>2. QED
      BY <3>1, Ended, Parts DEF ClosedCall
  <2>2. CASE call[k].status # "waiting_approval"
    BY <2>2 DEF EmergencyDeny
  <2>3. QED
    BY <2>1, <2>2
<1>8. gate'.deny => \A k \in Keys : call'[k].status # "waiting_approval"
  BY <1>3, <1>7
<1>9. QED
  BY <1>3, <1>4, <1>6, <1>8, QuietStep, Parts, SameFlight DEF EmergencyDeny

LEMMA UpdateServerStep ==
  ASSUME IInv, UpdateServer
  PROVE  IInv' /\ LedgerStep
<1>1. ASSUME NEW g \in GateType, g.changes = gate.changes, g.deny = gate.deny, Change(g)
      PROVE  IInv' /\ LedgerStep
  BY <1>1, Changed, GateStep, Parts DEF UpdateServer
<1>2. CASE Change([gate EXCEPT !.enabled = ~@])
  <2> DEFINE g == [gate EXCEPT !.enabled = ~@]
  <2>1. g \in GateType /\ g.changes = gate.changes /\ g.deny = gate.deny
    BY Parts DEF GateType
  <2>2. Change(g)
    BY <1>2
  <2> HIDE DEF g
  <2>3. QED
    BY <1>1, <2>1, <2>2
<1>3. CASE Change([gate EXCEPT !.trust = ~@])
  <2> DEFINE g == [gate EXCEPT !.trust = ~@]
  <2>1. g \in GateType /\ g.changes = gate.changes /\ g.deny = gate.deny
    BY Parts DEF GateType
  <2>2. Change(g)
    BY <1>3
  <2> HIDE DEF g
  <2>3. QED
    BY <1>1, <2>1, <2>2
<1>4. ASSUME NEW t \in Targets,
             Change([gate EXCEPT !.target = t,
                                 !.catalog = IF t \in Sandboxed THEN t ELSE NoTarget])
      PROVE  IInv' /\ LedgerStep
  <2> DEFINE u == IF t \in Sandboxed THEN t ELSE NoTarget
             g == [gate EXCEPT !.target = t, !.catalog = u]
  <2>1. Change(g)
    BY <1>4
  <2>2. u \in Targets \cup {NoTarget} /\ t \in Targets \cup {NoTarget}
    OBVIOUS
  <2>3. g \in GateType /\ g.changes = gate.changes /\ g.deny = gate.deny
    <3> HIDE DEF u
    <3>1. QED
      BY <2>2, Parts, Zenon DEF GateType
  <2> HIDE DEF g
  <2>4. QED
    BY <1>1, <2>1, <2>3
<1>5. QED
  BY <1>2, <1>3, <1>4 DEF UpdateServer

LEMMA DeleteServerStep ==
  ASSUME IInv, DeleteServer
  PROVE  IInv' /\ LedgerStep
<1> DEFINE g == [gate EXCEPT !.enabled = FALSE, !.target = NoTarget, !.catalog = NoTarget]
<1>1. g \in GateType /\ g.changes = gate.changes /\ g.deny = gate.deny
  <2>1. NoTarget \in Targets \cup {NoTarget} /\ FALSE \in BOOLEAN
    OBVIOUS
  <2>2. QED
    BY <2>1, Parts, Zenon DEF GateType
<1>2. Change(g)
  BY DEF DeleteServer
<1> HIDE DEF g
<1>3. QED
  BY <1>1, <1>2, Changed, GateStep, Parts DEF DeleteServer

LEMMA SyncStartStep ==
  ASSUME IInv, SyncStart
  PROVE  IInv' /\ LedgerStep
<1>1. gate' \in GateType /\ gate'.deny = gate.deny
  BY Changed, Parts DEF SyncStart
<1>2. gate.target \in Targets \cup {NoTarget}
  BY Parts DEF GateType
<1>3. QED
  BY <1>1, <1>2, GateStep DEF SyncStart

LEMMA SyncSaveStep ==
  ASSUME IInv, SyncSave
  PROVE  IInv' /\ LedgerStep
<1>1. gate' \in GateType /\ gate'.deny = gate.deny
  BY Parts DEF SyncSave, GateType
<1>2. QED
  BY <1>1, GateStep DEF SyncSave

LEMMA AdministerStep ==
  ASSUME IInv, Administer
  PROVE  IInv' /\ LedgerStep
BY ActivatePolicyStep, SetToolPolicyStep, EmergencyDenyStep, UpdateServerStep,
   DeleteServerStep, SyncStartStep, SyncSaveStep DEF Administer

(***************************************************************************)
(* The policy, and the steps that create, start and send a call.           *)
(***************************************************************************)
LEMMA PolicyTyped ==
  ASSUME IInv
  PROVE  /\ Approvals \in 0..2
         /\ gate.catalog # NoTarget => Risk \in Risks
<1>1. Approvals \in 0..2
  BY DEF Approvals
<1>2. gate.catalog # NoTarget => Annotated[gate.catalog] \in Risks
  BY Parts, TargetsAssumption DEF GateType
<1>3. QED
  BY <1>1, <1>2 DEF Risk, Risks

LEMMA ProfileTyped ==
  ASSUME IInv
  PROVE  Profile(gate.target) \in Sandboxed \cup {"http"}
BY DEF Profile

LEMMA DestructiveNeedsTwo ==
  ASSUME Effect # "deny", Risk = "destructive"
  PROVE  Approvals = 2
BY DEF Effect, Approvals, Critical

LEMMA Started ==
  ASSUME IInv, NEW k \in Keys, Start(k)
  PROVE  /\ flight' \in [Keys -> FlightType]
         /\ \A j \in Keys : j # k => flight'[j] = flight[j]
         /\ flight'[k].at = "connecting"
<1>1. [at |-> "connecting", target |-> gate.target] \in FlightType
  BY Parts DEF GateType, FlightType
<1>2. QED
  BY <1>1, Parts DEF Start

LEMMA ApproveStep ==
  ASSUME IInv, NEW k \in Keys, NEW a \in Actors, Approve(k, a)
  PROVE  IInv' /\ LedgerStep
<1>1. CASE call[k].profile # Profile(gate.target) \/ Effect = "deny"
  <2>1. call' = Closed(k, "rejected") /\ UNCHANGED flight
    BY <1>1 DEF Approve
  <2>2. call' = [j \in Keys |-> call'[j]] /\ \A j \in Keys : Quiet(j)
    BY <2>1, OneClosed DEF Approve, OpenCall, ClosedCall
  <2>3. QED
    BY <2>1, <2>2, QuietStep, Parts, SameFlight DEF Approve
<1>2. CASE ~(call[k].profile # Profile(gate.target) \/ Effect = "deny")
  <2> DEFINE required == AtMost2(call[k].required, Approvals)
             given == call[k].approvers \cup {a}
             asked == [call[k] EXCEPT !.required = required, !.approvers = given]
             begun == [asked EXCEPT !.status = "executing", !.window = Window]
  <2>1. call[k] \in CallRow /\ call[k].status = "waiting_approval"
    BY Parts DEF Approve
  <2>2. required \in 0..2 /\ given \in SUBSET Actors
    BY <2>1, PolicyTyped DEF AtMost2, CallRow
  <2>3. asked \in CallRow /\ asked.status = "waiting_approval"
    <3> HIDE DEF required, given
    <3>1. QED
      BY <2>1, <2>2, Zenon DEF CallRow
  <2>4. begun \in CallRow /\ begun.status = "executing"
    <3>1. Window \in -1..(ApprovalTtl + Window)
      BY TimesAssumption
    <3>2. "executing" \in OpenCall \cup ClosedCall
      BY DEF OpenCall
    <3> HIDE DEF asked
    <3>3. QED
      BY <2>3, <3>1, <3>2, Rewritten
  <2>5. \/ call' = [call EXCEPT ![k] = asked] /\ UNCHANGED flight
        \/ call' = [call EXCEPT ![k] = begun] /\ Start(k)
    BY <1>2, Zenon DEF Approve
  <2>6. UNCHANGED <<stage, gate, listing, wire>>
    BY DEF Approve
  <2> HIDE DEF asked, begun
  <2>7. call' = [j \in Keys |-> call'[j]] /\ \A j \in Keys : Quiet(j)
    BY <2>1, <2>3, <2>4, <2>5, Parts DEF Quiet
  <2>8. flight' \in [Keys -> FlightType] /\ \A j \in Keys : Carried(j)
    <3>1. CASE UNCHANGED flight
      BY <3>1, SameFlight
    <3>2. CASE call' = [call EXCEPT ![k] = begun] /\ Start(k)
      <4>1. call'[k].status = "executing"
        BY <2>4, <3>2, Parts
      <4>2. QED
        BY <2>1, <3>2, <4>1, Started DEF Carried
    <3>3. QED
      BY <2>5, <3>1, <3>2
  <2>9. QED
    BY <2>6, <2>7, <2>8, QuietStep, Parts
<1>3. QED
  BY <1>1, <1>2

LEMMA RequestStep ==
  ASSUME IInv, NEW k \in Keys, Request(k)
  PROVE  IInv' /\ LedgerStep
<1> DEFINE status == CASE Effect = "deny"     -> "rejected"
                       [] Effect = "approval" -> "waiting_approval"
                       [] OTHER               -> "executing"
           window == CASE status = "waiting_approval" -> ApprovalTtl
                       [] status = "executing"        -> Window
                       [] OTHER                       -> 0
           row == [status |-> status, risk |-> Risk, profile |-> Profile(gate.target),
                   required |-> Approvals, approvers |-> {}, window |-> window]
<1>1. status \in {"rejected", "waiting_approval", "executing"}
  OBVIOUS
<1>2. window \in -1..(ApprovalTtl + Window)
  <2> HIDE DEF status
  <2>1. QED
    BY <1>1, TimesAssumption
<1>3. gate.deny => status = "rejected"
  <2>1. gate.deny => Effect = "deny"
    BY DEF Effect
  <2>2. QED
    BY <2>1
<1>4. /\ call[k].status = "absent"
      /\ call' = [call EXCEPT ![k] = row]
      /\ IF status = "executing" THEN Start(k) ELSE UNCHANGED flight
      /\ UNCHANGED <<stage, gate, listing, wire>>
  BY Zenon DEF Request
<1>5. gate.catalog # NoTarget
  BY DEF Request, Resolves
<1> HIDE DEF status, window
<1>6. row \in CallRow
  <2>1. status \in OpenCall \cup ClosedCall \cup {"absent"}
    BY <1>1 DEF OpenCall, ClosedCall
  <2>2. QED
    BY <1>2, <1>5, <2>1, PolicyTyped, ProfileTyped DEF CallRow
<1>7. row.status = status
  OBVIOUS
<1> HIDE DEF row
<1>8. /\ call' \in [Keys -> CallRow]
      /\ \A j \in Keys : j # k => call'[j] = call[j]
      /\ call'[k].status = status
  BY <1>4, <1>6, <1>7, Parts
<1>9. /\ flight' \in [Keys -> FlightType]
      /\ \A j \in Keys : j # k => flight'[j] = flight[j]
      /\ status = "waiting_approval" => flight'[k].at = flight[k].at
  BY <1>4, Parts, Started
<1>10. TypeOK'
  BY <1>4, <1>8, <1>9 DEF IInv, TypeOK, FlightType
<1>11. ASSUME NEW j \in Keys PROVE Sound(j)'
  <2>1. Sound(j)
    BY DEF IInv
  <2>2. CASE j = k
    BY <1>1, <1>4, <1>8, <1>9, <2>1, <2>2 DEF Sound
  <2>3. CASE j # k
    BY <1>4, <1>8, <1>9, <2>1, <2>3 DEF Sound
  <2>4. QED
    BY <2>2, <2>3
<1>12. NothingWaitsUnderDeny'
  BY <1>3, <1>4, <1>8 DEF IInv, NothingWaitsUnderDeny
<1>13. LeaseLeft'
  BY <1>4 DEF IInv, LeaseLeft
<1>14. LedgerStep
  <2> DEFINE phase == [j \in Keys |-> IF call[j].status = "absent" THEN "absent"
                                      ELSE IF call[j].status \in OpenCall THEN "open" ELSE "closed"]
             times == [j \in Keys |-> wire[j].times]
             p == IF status \in OpenCall THEN "open" ELSE "closed"
  <2>1. phase[k] = "absent" /\ times' = times
    BY <1>4
  <2>2. phase' = [phase EXCEPT ![k] = p]
    BY <1>1, <1>8
  <2>3. p \in {"open", "closed"}
    OBVIOUS
  <2> HIDE DEF p
  <2>4. \E q \in {"open", "closed"} : phase' = [phase EXCEPT ![k] = q]
    <3> HIDE DEF phase
    <3>1. QED
      BY <2>2, <2>3
  <2>5. \E j \in Keys : /\ phase[j] = "absent"
                        /\ \E q \in {"open", "closed"} : phase' = [phase EXCEPT ![j] = q]
                        /\ times' = times
    <3> HIDE DEF phase, times
    <3>1. QED
      BY <2>1, <2>4
  <2>6. QED
    BY <2>5, Zenon DEF LedgerStep, Ledger!Next, Ledger!Create
<1>15. QED
  BY <1>10, <1>11, <1>12, <1>13, <1>14 DEF IInv

LEMMA PreflightStep ==
  ASSUME IInv, NEW k \in Keys, Preflight(k)
  PROVE  IInv' /\ LedgerStep
<1>1. CASE ~(call[k].status = "executing" /\ Executable(k))
  BY <1>1, LandedStep DEF Preflight, ClosedCall
<1>2. CASE call[k].status = "executing" /\ Executable(k)
  <2>1. /\ flight[k].at = "connecting"
        /\ flight' = [flight EXCEPT ![k].at = "sent"]
        /\ wire' = [wire EXCEPT ![k] = [times |-> @.times + 1, need |-> Approvals, risk |-> Risk]]
        /\ UNCHANGED <<call, stage, gate, listing>>
    BY <1>2 DEF Preflight
  <2>2. wire[k].times = 0
    BY <2>1 DEF IInv, Sound
  <2>3. Approvals \in 0..2 /\ Risk \in Risks
    BY <1>2, PolicyTyped DEF Executable, Resolves
  <2>4. wire \in [Keys -> WireType]
    BY DEF IInv, TypeOK, WireType
  <2>5. wire' = [wire EXCEPT ![k] = [times |-> 1, need |-> Approvals, risk |-> Risk]]
    BY <2>1, <2>2
  <2>6. /\ Cardinality(call[k].approvers) >= Approvals
        /\ Risk = "destructive" => Approvals = 2
    BY <1>2, DestructiveNeedsTwo DEF Executable
  <2>7. /\ wire' \in [Keys -> WireType]
        /\ \A j \in Keys : j # k => wire'[j] = wire[j]
        /\ wire'[k].times = 1 /\ wire'[k].need = Approvals /\ wire'[k].risk = Risk
    <3>1. [times |-> 1, need |-> Approvals, risk |-> Risk] \in WireType
      BY <2>3 DEF WireType
    <3>2. QED
      BY <2>4, <2>5, <3>1
  <2>8. /\ flight' \in [Keys -> FlightType]
        /\ \A j \in Keys : j # k => flight'[j] = flight[j]
        /\ flight'[k].at = "sent"
    BY <2>1, Parts DEF FlightType
  <2>9. TypeOK'
    BY <2>1, <2>7, <2>8 DEF IInv, TypeOK, FlightType, WireType
  <2>10. ASSUME NEW j \in Keys PROVE Sound(j)'
    <3>1. Sound(j) /\ call'[j] = call[j]
      BY <2>1 DEF IInv
    <3>2. CASE j # k
      BY <2>7, <2>8, <3>1, <3>2 DEF Sound
    <3>3. CASE j = k
      BY <1>2, <2>1, <2>3, <2>6, <2>7, <2>8, <3>3 DEF Sound
    <3>4. QED
      BY <3>2, <3>3
  <2>11. LeaseLeft' /\ NothingWaitsUnderDeny'
    BY <2>1 DEF IInv, LeaseLeft, NothingWaitsUnderDeny
  <2>12. LedgerStep
    <3> DEFINE phase == [j \in Keys |-> IF call[j].status = "absent" THEN "absent"
                                        ELSE IF call[j].status \in OpenCall THEN "open" ELSE "closed"]
               times == [j \in Keys |-> wire[j].times]
    <3>1. phase[k] = "open" /\ times[k] = 0 /\ phase' = phase
      BY <1>2, <2>1, <2>2 DEF OpenCall
    <3>2. times' = [times EXCEPT ![k] = 1]
      BY <2>7
    <3>3. \E j \in Keys : /\ phase[j] = "open" /\ times[j] = 0
                          /\ times' = [times EXCEPT ![j] = 1]
                          /\ phase' = phase
      <4> HIDE DEF phase, times
      <4>1. QED
        BY <3>1, <3>2
    <3>4. QED
      BY <3>3, Zenon DEF LedgerStep, Ledger!Next, Ledger!Send
  <2>13. QED
    BY <2>9, <2>10, <2>11, <2>12 DEF IInv
<1>3. QED
  BY <1>1, <1>2

(***************************************************************************)
(* The invariant, and what follows from it.                                *)
(***************************************************************************)
LEMMA StepHolds == IInv /\ [Next]_vars => IInv' /\ LedgerStep
<1> SUFFICES ASSUME IInv, [Next]_vars PROVE IInv' /\ LedgerStep
  OBVIOUS
<1>1. CASE UNCHANGED vars
  BY <1>1, QuietStep, Parts, SameCalls, SameFlight DEF vars
<1>2. CASE Work
  BY <1>2, LeaseNextStep, RenewLeaseStep, CompleteLeaseStep, FailLeaseStep, CancelRunStep,
     RequestStep, CancelStep, PreflightStep, PollStep, AnswerStep, BreakStep, ApproveStep,
     RejectStep DEF Work
<1>3. CASE Administer \/ Crash \/ MaintenanceTick \/ Tick
  BY <1>3, AdministerStep, CrashStep, MaintenanceStep, TickStep
<1>4. QED
  BY <1>1, <1>2, <1>3 DEF Next

LEMMA Invariance == Spec => []IInv
<1>1. Init => IInv
  BY InitHolds
<1>2. IInv /\ [Next]_vars => IInv'
  BY StepHolds
<1>3. QED
  BY <1>1, <1>2, PTL DEF Spec

(* Every row of the gateway has the values its columns allow.               *)
THEOREM Typed == Spec => []TypeOK
<1>1. IInv => TypeOK
  BY DEF IInv
<1>2. QED
  BY <1>1, Invariance, PTL

(* What went upstream had the approvals the policy asked for at that        *)
(* moment, and two of different operators where it was destructive          *)
(* (approveMcpToolCall, assertMcpToolCallExecutable).                       *)
THEOREM FourEyesKept == Spec => []FourEyes
<1>1. IInv => FourEyes
  BY DEF IInv, Sound, FourEyes
<1>2. QED
  BY <1>1, Invariance, PTL

(* Under the kill switch nothing waits for an operator                      *)
(* (setMcpEmergencyDeny, callLeaseTool).                                    *)
THEOREM NothingWaits == Spec => []NothingWaitsUnderDeny
<1>1. IInv => NothingWaitsUnderDeny
  BY DEF IInv
<1>2. QED
  BY <1>1, Invariance, PTL

(* Every step of the gateway is one the ledger allows, or changes nothing   *)
(* it can see: a call is decided once, sent at most once while it is open,  *)
(* and a closed one stays closed.                                           *)
THEOREM LedgerKept == Spec => Ledger!Init /\ [][Ledger!Next]_(Ledger!vars)
<1>1. Init => Ledger!Init
  BY InitHolds
<1>2. IInv /\ [Next]_vars => [Ledger!Next]_(Ledger!vars)
  BY StepHolds DEF LedgerStep
<1>3. QED
  BY <1>1, <1>2, Invariance, PTL DEF Spec
=============================================================================
