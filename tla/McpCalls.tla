------------------------------ MODULE McpCalls ------------------------------
(***************************************************************************)
(* The MCP gateway: calls to tools that a worker makes under the lease of  *)
(* one stage, the approvals operators give, the policy, kill switch and    *)
(* catalogue they are judged by, and the two awaits between the decision   *)
(* and the effect upstream.                                                *)
(*                                                                         *)
(* One coordinator: a handler runs without interruption up to its first    *)
(* await.  executeCall is therefore three steps: the decision that starts  *)
(* it (it checks the call once, captures the connection and awaits), the   *)
(* check right before the request (Preflight), and the answer.  The tool   *)
(* of a sandbox server is a Job: it is checked again while it runs.        *)
(*                                                                         *)
(* Data abstracted: one server with one tool; arguments and results; a     *)
(* deadline is the time left until it; the target of the server stands for *)
(* its endpoint or its sandbox profile; the policy document is the rule    *)
(* that matches the tool.  Local identities are off (StageLease models     *)
(* them) and the node that holds a lease is the only one to use its calls. *)
(***************************************************************************)
EXTENDS Integers, FiniteSets

CONSTANTS
  Ids,           (* clientCallId values a worker uses under one lease.       *)
  MaxAttempts,   (* stages.max_attempts; a lease is named by its attempt.    *)
  Actors,        (* Operators, by OIDC subject.                              *)
  Targets,       (* Endpoints and sandbox profiles the server may have.      *)
  Sandboxed,     (* Those that are sandbox profiles.                         *)
  NoTarget,      (* No tool in the catalogue; no server any more.            *)
  Annotated,     (* The risk a target's annotations declare for the tool.    *)
  Rules,         (* Policy rules the operators publish for the tool.         *)
  Overrides,     (* Per-tool policies they set, "none" for the default.      *)
  LeaseTtl,      (* Ticks a lease lasts when granted or renewed.             *)
  ApprovalTtl,   (* approvalTtlSeconds, in whole ticks.                      *)
  Window,        (* The execution window, requestTimeoutSeconds + 30.        *)
  MaxChanges     (* BOUND: changes of server and policy, and listings.       *)

Risks == {"read", "write", "destructive", "unknown"}

ASSUME AttemptsAssumption == MaxAttempts \in Nat \ {0}
ASSUME TimesAssumption ==
  LeaseTtl \in Nat \ {0} /\ ApprovalTtl \in Nat /\ Window \in Nat
ASSUME TargetsAssumption ==
  /\ Sandboxed \subseteq Targets /\ NoTarget \notin Targets /\ Targets # {}
  /\ Annotated \in [Targets -> Risks]
ASSUME RulesAssumption ==
  /\ Rules \subseteq {"allow", "approval", "critical", "deny"} /\ "allow" \in Rules
  /\ Overrides \subseteq {"none", "allow", "approval", "deny"} /\ "none" \in Overrides
ASSUME ChangesAssumption == MaxChanges \in Nat
ASSUME ActorsAssumption == IsFiniteSet(Actors)

Leases == 1..MaxAttempts
Keys   == Leases \X Ids        (* UNIQUE(lease_id, client_call_id)           *)

VARIABLES
  stage,     (* The stage the worker runs: its row in stages.                *)
  call,      (* mcp_tool_calls with mcp_tool_call_approvals.                 *)
  gate,      (* mcp_servers, the policy in force, settings.mcp_emergency_deny *)
  listing,   (* The target a listTools request in flight was sent to.        *)
  flight,    (* executeCall in progress: memory, lost in a crash.            *)
  wire       (* HISTORY: what went upstream for each call.                   *)

vars == <<stage, call, gate, listing, flight, wire>>

OpenCall   == {"waiting_approval", "executing"}
ClosedCall == {"completed", "failed", "rejected", "expired"}

Profile(t) == IF t \in Sandboxed THEN t ELSE "http"

CallRow ==
  [status    : OpenCall \cup ClosedCall \cup {"absent"},
   risk      : Risks,                          (* as at the time of request  *)
   profile   : Sandboxed \cup {"http"},        (* sandbox_profile_sha256     *)
   required  : 0..2,                           (* required_approvals         *)
   approvers : SUBSET Actors,
   window    : -1..(ApprovalTtl + Window)]     (* expires_at - now           *)

NoCall == [status |-> "absent", risk |-> "read", profile |-> "http",
           required |-> 0, approvers |-> {}, window |-> 0]

TypeOK ==
  /\ stage \in [status : {"queued", "running", "completed", "failed", "cancelled"},
                lease  : 0..MaxAttempts,
                ttl    : -1..LeaseTtl]
  /\ call \in [Keys -> CallRow]
  /\ gate \in [rule     : Rules,
               override : Overrides,
               deny     : BOOLEAN,                   (* emergency deny       *)
               enabled  : BOOLEAN,
               trust    : BOOLEAN,                   (* trust_annotations    *)
               target   : Targets \cup {NoTarget},
               catalog  : Targets \cup {NoTarget},   (* whose tools it lists *)
               changes  : 0..MaxChanges]
  /\ listing \in Targets \cup {NoTarget}
  /\ flight \in [Keys -> [at : {"none", "connecting", "sent", "reading"},
                          target : Targets \cup {NoTarget}]]
  /\ wire \in [Keys -> [times : Nat, need : 0..2, risk : Risks]]

NoFlight == [at |-> "none", target |-> NoTarget]

Init ==
  /\ stage = [status |-> "queued", lease |-> 0, ttl |-> -1]
  /\ call = [k \in Keys |-> NoCall]
  /\ \E t \in Targets :
       gate = [rule |-> "allow", override |-> "none", deny |-> FALSE, enabled |-> TRUE,
               trust |-> TRUE, target |-> t, catalog |-> t, changes |-> 0]
  /\ listing = NoTarget
  /\ flight = [k \in Keys |-> NoFlight]
  /\ wire = [k \in Keys |-> [times |-> 0, need |-> 0, risk |-> "read"]]

(***************************************************************************)
(* evaluateMcpPolicy: the rule, the tool's own override or the server's    *)
(* default by risk, four eyes for what is critical, then the kill switch.  *)
(***************************************************************************)
Risk     == IF gate.trust THEN Annotated[gate.catalog] ELSE "unknown"
Legacy   == IF gate.override # "none" THEN gate.override
            ELSE IF Risk = "read" THEN "allow" ELSE "approval"
Critical == Risk = "destructive" \/ gate.rule = "critical"

Effect ==
  IF "deny" \in {gate.rule, Legacy} \/ gate.deny THEN "deny"
  ELSE IF Critical \/ "approval" \in {gate.rule, Legacy} THEN "approval"
  ELSE "allow"

Approvals == IF Effect # "approval" THEN 0 ELSE IF Critical THEN 2 ELSE 1

(* resolveMcpLeaseTool: the lease is running and not past its deadline, the *)
(* server is enabled and the tool is in its catalogue.                     *)
Resolves(k) ==
  /\ stage.status = "running" /\ stage.lease = k[1] /\ stage.ttl >= 0
  /\ gate.enabled /\ gate.catalog # NoTarget

(* MUTANT of Executable: the number recorded when the call was decided.    *)
ExecutableAsDecided(k) ==
  /\ Resolves(k)
  /\ call[k].profile = Profile(gate.target)
  /\ Effect # "deny"
  /\ Cardinality(call[k].approvers) >= call[k].required

(* assertMcpToolCallExecutable, for a call that is still executing.        *)
Executable(k) ==
  /\ Resolves(k)
  /\ call[k].profile = Profile(gate.target)
  /\ Effect # "deny"
  /\ Cardinality(call[k].approvers) >= Approvals

(* A row that is closed: its deadline no longer matters.                   *)
End(row, status) == [row EXCEPT !.status = status, !.window = 0]
Closed(k, status) == [call EXCEPT ![k] = End(@, status)]

(* executeCall up to its await: the decision has just been checked; the    *)
(* connection is the one that was resolved with it.                        *)
Start(k) == flight' = [flight EXCEPT ![k] = [at |-> "connecting", target |-> gate.target]]

(***************************************************************************)
(* The worker asks.  callLeaseTool: a known (lease, client id) is answered *)
(* with the state of its row and starts nothing.                           *)
(***************************************************************************)
Request(k) ==
  /\ call[k].status = "absent"
  /\ Resolves(k)
  /\ LET status == CASE Effect = "deny"     -> "rejected"
                     [] Effect = "approval" -> "waiting_approval"
                     [] OTHER               -> "executing"
     IN /\ call' = [call EXCEPT ![k] =
             [status    |-> status,
              risk      |-> Risk,
              profile   |-> Profile(gate.target),
              required  |-> Approvals,
              approvers |-> {},
              window    |-> CASE status = "waiting_approval" -> ApprovalTtl
                              [] status = "executing"        -> Window
                              [] OTHER                       -> 0]]
        /\ IF status = "executing" THEN Start(k) ELSE UNCHANGED flight
  /\ UNCHANGED <<stage, gate, listing, wire>>

(* cancelMcpToolCallForLease: the worker stops waiting for an approval.    *)
Cancel(k) ==
  /\ call[k].status = "waiting_approval"
  /\ call' = Closed(k, "expired")
  /\ UNCHANGED <<stage, gate, listing, flight, wire>>

(***************************************************************************)
(* Operators decide.  approveMcpToolCall judges the call by the policy of  *)
(* now; the last approval needed starts the execution.                     *)
(***************************************************************************)
AtMost2(a, b) == IF a > b THEN a ELSE b

Approve(k, a) ==
  /\ call[k].status = "waiting_approval" /\ call[k].window >= 0
  /\ Resolves(k)
  /\ IF call[k].profile # Profile(gate.target) \/ Effect = "deny"
     THEN call' = Closed(k, "rejected") /\ UNCHANGED flight
     ELSE /\ a \notin call[k].approvers
          /\ LET required == AtMost2(call[k].required, Approvals)
                 given    == call[k].approvers \cup {a}
                 asked    == [call[k] EXCEPT !.required = required, !.approvers = given]
             IN IF Cardinality(given) < required
                THEN call' = [call EXCEPT ![k] = asked] /\ UNCHANGED flight
                ELSE /\ call' = [call EXCEPT ![k] =
                               [asked EXCEPT !.status = "executing", !.window = Window]]
                     /\ Start(k)
  /\ UNCHANGED <<stage, gate, listing, wire>>

(* rejectMcpToolCall replaces the operator's own approval, if any.         *)
Reject(k, a) ==
  /\ call[k].status = "waiting_approval"
  /\ call' = [call EXCEPT ![k] = [End(call[k], "rejected") EXCEPT !.approvers = @ \ {a}]]
  /\ UNCHANGED <<stage, gate, listing, flight, wire>>

(***************************************************************************)
(* executeCall after its awaits.                                           *)
(***************************************************************************)
Landed(k) == flight' = [flight EXCEPT ![k] = NoFlight]

(* MUTANT of Preflight: judges the policy again and not the call's row.    *)
PreflightByPolicy(k) ==
  /\ flight[k].at = "connecting"
  /\ IF Executable(k)
     THEN /\ flight' = [flight EXCEPT ![k].at = "sent"]
          /\ wire' = [wire EXCEPT ![k] = [times |-> @.times + 1, need |-> Approvals, risk |-> Risk]]
          /\ UNCHANGED call
     ELSE /\ call' = IF call[k].status = "executing" THEN Closed(k, "rejected") ELSE call
          /\ Landed(k)
          /\ UNCHANGED wire
  /\ UNCHANGED <<stage, gate, listing>>

(* The connection is up, or the Job's Secret and NetworkPolicy exist: the  *)
(* call is checked once more and goes upstream, or is rejected.            *)
Preflight(k) ==
  /\ flight[k].at = "connecting"
  /\ IF call[k].status = "executing" /\ Executable(k)
     THEN /\ flight' = [flight EXCEPT ![k].at = "sent"]
          /\ wire' = [wire EXCEPT ![k] = [times |-> @.times + 1, need |-> Approvals, risk |-> Risk]]
          /\ UNCHANGED call
     ELSE /\ call' = IF call[k].status = "executing" THEN Closed(k, "rejected") ELSE call
          /\ Landed(k)
          /\ UNCHANGED wire
  /\ UNCHANGED <<stage, gate, listing>>

(* KubernetesSandboxExecutor polls the Job and checks the call each time:  *)
(* the Job runs on, has ended and is read, or is deleted half way.         *)
Poll(k) ==
  /\ flight[k].at = "sent" /\ flight[k].target \in Sandboxed
  /\ IF call[k].status = "executing" /\ Executable(k)
     THEN flight' = [flight EXCEPT ![k].at = "reading"] /\ UNCHANGED call
     ELSE /\ call' = IF call[k].status = "executing" THEN Closed(k, "rejected") ELSE call
          /\ Landed(k)
  /\ UNCHANGED <<stage, gate, listing, wire>>

Answering(k) ==
  \/ flight[k].at = "sent" /\ flight[k].target \notin Sandboxed
  \/ flight[k].at = "reading"

(* completeMcpToolCall, for a call that is still executing; for another one *)
(* it throws, failMcpToolCall finds nothing and the row is returned.        *)
Answer(k) ==
  /\ Answering(k)
  /\ call' = IF call[k].status = "executing" THEN Closed(k, "completed") ELSE call
  /\ Landed(k)
  /\ UNCHANGED <<stage, gate, listing, wire>>

(* No connection, an expired credential, an error or a timeout upstream.   *)
Break(k) ==
  /\ flight[k].at # "none"
  /\ call' = IF call[k].status = "executing" THEN Closed(k, "failed") ELSE call
  /\ Landed(k)
  /\ UNCHANGED <<stage, gate, listing, wire>>

(* The coordinator stops: executions under way and listings are gone.      *)
Crash ==
  /\ listing # NoTarget \/ \E k \in Keys : flight[k].at # "none"
  /\ flight' = [k \in Keys |-> NoFlight]
  /\ listing' = NoTarget
  /\ UNCHANGED <<stage, call, gate, wire>>

(***************************************************************************)
(* The stage's lease.                                                      *)
(***************************************************************************)
(* leaseHasUncertainMcpSideEffects: by the risk recorded with the request. *)
Uncertain(l) ==
  \E k \in Keys : /\ k[1] = l /\ call[k].risk # "read"
                  /\ call[k].status \in {"executing", "completed", "failed"}

(* MUTANT of Given: one attempt more than max_attempts.                    *)
GivenOnceMore(s) == IF stage.lease <= MaxAttempts /\ ~Uncertain(stage.lease)
                    THEN [s EXCEPT !.status = "queued", !.ttl = -1]
                    ELSE [s EXCEPT !.status = "failed", !.ttl = -1]

(* A stage whose lease is lost or given up: queued again, or failed.       *)
Given(s) == IF stage.lease < MaxAttempts /\ ~Uncertain(stage.lease)
            THEN [s EXCEPT !.status = "queued", !.ttl = -1]
            ELSE [s EXCEPT !.status = "failed", !.ttl = -1]

(* cleanupExpiredLeases.                                                   *)
Swept == IF stage.status = "running" /\ stage.ttl < 0 THEN Given(stage) ELSE stage

(* expireWaitingMcpCallsForLease, and the same for all calls of the run.   *)
WithoutWaiting(S) ==
  [k \in Keys |-> IF k \in S /\ call[k].status = "waiting_approval"
                  THEN End(call[k], "expired") ELSE call[k]]
OfLease(l) == {k \in Keys : k[1] = l}

(* leaseNext: the sweep, then the grant if the stage is in the queue.      *)
LeaseNext ==
  /\ stage' = IF Swept.status = "queued"
              THEN [status |-> "running", lease |-> stage.lease + 1, ttl |-> LeaseTtl]
              ELSE Swept
  /\ stage' # stage
  /\ UNCHANGED <<call, gate, listing, flight, wire>>

Owned == stage.status = "running" /\ stage.ttl > 0

RenewLease ==
  /\ Owned
  /\ stage' = [stage EXCEPT !.ttl = LeaseTtl]
  /\ UNCHANGED <<call, gate, listing, flight, wire>>

(* A call that executes holds the completion up; one that waits is closed. *)
CompleteLease ==
  /\ Owned
  /\ \A k \in OfLease(stage.lease) : call[k].status # "executing"
  /\ call' = WithoutWaiting(OfLease(stage.lease))
  /\ stage' = [stage EXCEPT !.status = "completed", !.ttl = -1]
  /\ UNCHANGED <<gate, listing, flight, wire>>

FailLease ==
  /\ Owned
  /\ call' = WithoutWaiting(OfLease(stage.lease))
  /\ stage' = Given(stage)
  /\ UNCHANGED <<gate, listing, flight, wire>>

CancelRun ==
  /\ stage.status \in {"queued", "running"}
  /\ call' = WithoutWaiting(Keys)
  /\ stage' = [stage EXCEPT !.status = "cancelled", !.ttl = -1]
  /\ UNCHANGED <<gate, listing, flight, wire>>

(* cleanupExpiredMcpCalls: the window passed, or the lease is not the one  *)
(* the stage runs under.                                                   *)
Stale(k, s) ==
  /\ call[k].status \in OpenCall
  /\ \/ call[k].window < 0
     \/ s.status # "running" \/ s.lease # k[1] \/ s.ttl < 0

(* maintenanceTick: first the leases, then the calls.                      *)
MaintenanceTick ==
  /\ stage' = Swept
  /\ call' = [k \in Keys |-> IF Stale(k, stage')
                             THEN End(call[k], "expired") ELSE call[k]]
  /\ UNCHANGED <<gate, listing, flight, wire>>

Down(n) == IF n >= 0 THEN n - 1 ELSE n

Tick ==
  /\ stage' = [stage EXCEPT !.ttl = IF stage.status = "running" THEN Down(@) ELSE @]
  /\ call' = [k \in Keys |-> IF call[k].status \in OpenCall
                             THEN [call[k] EXCEPT !.window = Down(@)] ELSE call[k]]
  /\ UNCHANGED <<gate, listing, flight, wire>>

(***************************************************************************)
(* Administration.  BOUND: MaxChanges changes and listings in all.         *)
(***************************************************************************)
Change(g) ==
  /\ gate.changes < MaxChanges
  /\ gate' = [g EXCEPT !.changes = @ + 1]

Registered == gate.target # NoTarget

(* activateMcpPolicy; setMcpToolPolicy, for a tool the catalogue has.      *)
ActivatePolicy(r) ==
  /\ r # gate.rule
  /\ Change([gate EXCEPT !.rule = r])
  /\ UNCHANGED <<stage, call, listing, flight, wire>>

SetToolPolicy(p) ==
  /\ gate.catalog # NoTarget /\ p # gate.override
  /\ Change([gate EXCEPT !.override = p])
  /\ UNCHANGED <<stage, call, listing, flight, wire>>

(* MUTANT of EmergencyDeny: the calls that wait are left waiting.          *)
DenyQuietly(on) ==
  /\ on # gate.deny
  /\ Change([gate EXCEPT !.deny = on])
  /\ UNCHANGED <<stage, call, listing, flight, wire>>

(* setMcpEmergencyDeny: switching it on rejects every call that waits.     *)
EmergencyDeny(on) ==
  /\ on # gate.deny
  /\ Change([gate EXCEPT !.deny = on])
  /\ call' = [k \in Keys |-> IF on /\ call[k].status = "waiting_approval"
                             THEN End(call[k], "rejected") ELSE call[k]]
  /\ UNCHANGED <<stage, listing, flight, wire>>

(* updateMcpServer: enabled, trust_annotations, and the target; an HTTP    *)
(* catalogue is dropped with its endpoint, a sandbox profile brings its    *)
(* own.                                                                    *)
UpdateServer ==
  /\ Registered
  /\ \/ Change([gate EXCEPT !.enabled = ~@])
     \/ Change([gate EXCEPT !.trust = ~@])
     \/ \E t \in Targets \ {gate.target} :
          Change([gate EXCEPT !.target = t,
                              !.catalog = IF t \in Sandboxed THEN t ELSE NoTarget])
  /\ UNCHANGED <<stage, call, listing, flight, wire>>

(* deleteMcpServer: not while a call to it is open.                        *)
DeleteServer ==
  /\ Registered
  /\ \A k \in Keys : call[k].status \notin OpenCall
  /\ Change([gate EXCEPT !.enabled = FALSE, !.target = NoTarget, !.catalog = NoTarget])
  /\ UNCHANGED <<stage, call, listing, flight, wire>>

(* syncServer: listTools is sent to the target of now ...                  *)
SyncStart ==
  /\ listing = NoTarget /\ Registered /\ gate.enabled
  /\ listing' = gate.target
  /\ Change(gate)
  /\ UNCHANGED <<stage, call, flight, wire>>

(* ... and saveMcpCatalog stores its answer with whatever server the id    *)
(* names by then; a failure leaves the old catalogue.                      *)
SyncSave ==
  /\ listing # NoTarget
  /\ \/ gate' = [gate EXCEPT !.catalog = IF Registered THEN listing ELSE @]
     \/ gate' = gate
  /\ listing' = NoTarget
  /\ UNCHANGED <<stage, call, flight, wire>>

Administer ==
  \/ \E r \in Rules : ActivatePolicy(r)
  \/ \E p \in Overrides : SetToolPolicy(p)
  \/ \E on \in BOOLEAN : EmergencyDeny(on)
  \/ UpdateServer \/ DeleteServer \/ SyncStart \/ SyncSave

Work ==
  \/ LeaseNext \/ RenewLease \/ CompleteLease \/ FailLease \/ CancelRun
  \/ \E k \in Keys :
       \/ Request(k) \/ Cancel(k) \/ Preflight(k) \/ Poll(k) \/ Answer(k) \/ Break(k)
       \/ \E a \in Actors : Approve(k, a) \/ Reject(k, a)

Next == Work \/ Administer \/ Crash \/ MaintenanceTick \/ Tick

(* The clock runs and the maintenance timer fires; nothing else is owed.   *)
Fairness == WF_vars(Tick) /\ WF_vars(MaintenanceTick)

Spec     == Init /\ [][Next]_vars
FairSpec == Spec /\ Fairness

(***************************************************************************)
(* Properties.                                                             *)
(***************************************************************************)
(* What went upstream had, at that moment, the approvals the policy then   *)
(* in force asked for, each from a different operator, and was asked for   *)
(* once: two awaits, a policy tightened or loosened, a changed risk, a     *)
(* changed profile or a repeated request do not get round four eyes        *)
(* (approveMcpToolCall, assertMcpToolCallExecutable).                      *)
FourEyes ==
  \A k \in Keys : wire[k].times > 0 =>
    /\ Cardinality(call[k].approvers) >= wire[k].need
    /\ wire[k].risk = "destructive" => Cardinality(call[k].approvers) >= 2

(* Under the kill switch nothing waits for an operator, so that switching  *)
(* it off again revives nothing (setMcpEmergencyDeny, callLeaseTool).      *)
NothingWaitsUnderDeny ==
  gate.deny => \A k \in Keys : call[k].status # "waiting_approval"

Ledger == INSTANCE CallLedger WITH
  phase <- [k \in Keys |-> IF call[k].status = "absent" THEN "absent"
                           ELSE IF call[k].status \in OpenCall THEN "open" ELSE "closed"],
  times <- [k \in Keys |-> wire[k].times]

(* Every call is decided, sent and closed as the ledger allows: whatever   *)
(* repeats, races, changes of policy, answers that come too late or        *)
(* restarts, it is sent at most once, a closed call stays closed, and the  *)
(* maintenance closes each one in the end.                                 *)
ImplementsLedger == Ledger!Spec

(* docs/mcp-gateway.md:104: once a risky call of a stage was sent, the     *)
(* stage is not queued again automatically (leaseHasUncertainMcpSideEffects). *)
EffectNotRepeated ==
  \A k \in Keys : wire[k].times > 0 /\ wire[k].risk # "read" =>
    stage.lease = k[1] /\ stage.status # "queued"
=============================================================================
