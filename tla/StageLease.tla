----------------------------- MODULE StageLease -----------------------------
(***************************************************************************)
(* Stage dispatch of the Agat coordinator: how the stages of linear runs   *)
(* are queued, leased to worker nodes, renewed, completed, failed, expired *)
(* and retried, with operator approvals, run cancellation, identity        *)
(* revocation, remote wipe of edge nodes and the scheduler's limits.       *)
(*                                                                         *)
(* One coordinator process over SQLite: each request handler runs its      *)
(* store calls to the end before another handler runs, so a handler is one *)
(* action.  A handler is a chain of functions on the database value `db`,  *)
(* each translated from one method of AgatStore, in the order of the code: *)
(* LeaseNext is Sweep(Enforce(db)) followed by a grant or by nothing.      *)
(*                                                                         *)
(* Data abstracted: which of the eligible candidates the priority order,   *)
(* the model router and the worker's capabilities select is a free choice  *)
(* (it may be none of them); a lease id, drawn with randomUUID, is named   *)
(* by the stage's attempt number; a deadline is the time left until it;    *)
(* of the calls to tools only those whose risk is not "read" are kept, one *)
(* at a time per lease.                                                    *)
(***************************************************************************)
EXTENDS Integers, FiniteSets

CONSTANTS
  Runs,          (* Identities of the linear runs that may be created.       *)
  MaxStages,     (* BOUND: longest agent chain of a run.                     *)
  MaxAttempts,   (* stages.max_attempts.                                     *)
  Nodes,         (* Registered worker nodes.                                 *)
  NoNode,        (* NULL in stages.node_id.                                  *)
  EdgeNodes,     (* The hardware_attested nodes, which can be wiped.         *)
  Projects,
  ProjectOf,     (* runs.project_id.                                         *)
  NodeMax,       (* nodes.max_concurrency.                                   *)
  MaxRunning,    (* projects.max_running_tasks.                              *)
  MaxQueued,     (* projects.max_queued_tasks.                               *)
  Modes,         (* Scheduler modes the operator sets.                       *)
  GlobalCaps,    (* Values of global_max_concurrency the operator sets.      *)
  LeaseTtl,      (* leaseTtlSeconds, in ticks.                               *)
  ToolCrashes,   (* A restart may cut a tool call off before it is settled.  *)
  Console        (* Operators read the overview and decide approvals.        *)

ASSUME StagesAssumption   == MaxStages \in Nat \ {0}
ASSUME AttemptsAssumption == MaxAttempts \in Nat \ {0}
ASSUME TtlAssumption      == LeaseTtl \in Nat \ {0}
ASSUME NodesAssumption    == NoNode \notin Nodes /\ EdgeNodes \subseteq Nodes
ASSUME ProjectsAssumption ==
  /\ ProjectOf  \in [Runs -> Projects]
  /\ NodeMax    \in [Nodes -> Nat]
  /\ MaxRunning \in [Projects -> Nat]
  /\ MaxQueued  \in [Projects -> Nat]
ASSUME SchedulerAssumption ==
  /\ Modes \subseteq {"sequential", "parallel", "auto"} /\ "sequential" \in Modes
  /\ GlobalCaps \subseteq 1..128 /\ 1 \in GlobalCaps
ASSUME SwitchesAssumption == ToolCrashes \in BOOLEAN /\ Console \in BOOLEAN

Pos    == 1..MaxStages      (* Positions in a chain.                        *)
Leases == 1..MaxAttempts    (* Leases a stage can ever have.                *)

OpenRun     == {"queued", "running", "waiting_approval"}
RunStatus   == OpenRun \cup {"absent", "completed", "failed", "cancelled"}
OpenStage   == {"pending", "queued", "running", "waiting_approval"}
StageStatus == OpenStage \cup {"absent", "completed", "failed", "cancelled"}
Outcome     == {"none", "open", "completed", "failed", "expired", "cancelled"}

VARIABLES
  db,       (* The tables runs, stages and mcp_tool_calls.                   *)
  revoked,  (* Runs whose bound principal is not allowed to run them now.    *)
  wiped,    (* Edge nodes whose credential_state is no longer active.        *)
  sched     (* settings.scheduler_mode and settings.global_max_concurrency.  *)

vars == <<db, revoked, wiped, sched>>

(***************************************************************************)
(* The columns of db.  The last two are history: `outcome` how each lease  *)
(* of a stage ended, and `effect` the lease under which a risky tool call  *)
(* was first sent upstream that was not rejected afterwards (or 0).        *)
(***************************************************************************)
PerStage(S) == [Runs -> [Pos -> S]]

Database ==
  [run       : [Runs -> RunStatus],
   len       : [Runs -> 0..MaxStages],
   gated     : [Runs -> BOOLEAN],             (* last stage requires_approval *)
   status    : PerStage(StageStatus),
   node      : PerStage(Nodes \cup {NoNode}),
   ttl       : PerStage(-1..LeaseTtl),        (* lease_expires_at - now       *)
   attempt   : PerStage(0..MaxAttempts),
   executing : PerStage(BOOLEAN),             (* a call of the current lease  *)
   settled   : PerStage(BOOLEAN),             (* some of them ended           *)
   outcome   : PerStage([Leases -> Outcome]),
   effect    : PerStage(0..MaxAttempts)]

Everywhere(v) == [r \in Runs |-> [i \in Pos |-> v]]

Init ==
  /\ db = [run       |-> [r \in Runs |-> "absent"],
           len       |-> [r \in Runs |-> 0],
           gated     |-> [r \in Runs |-> FALSE],
           status    |-> Everywhere("absent"),
           node      |-> Everywhere(NoNode),
           ttl       |-> Everywhere(-1),
           attempt   |-> Everywhere(0),
           executing |-> Everywhere(FALSE),
           settled   |-> Everywhere(FALSE),
           outcome   |-> Everywhere([l \in Leases |-> "none"]),
           effect    |-> Everywhere(0)]
  /\ revoked = {}
  /\ wiped = {}
  /\ sched = [mode |-> "sequential", max |-> 1]

(***************************************************************************)
(* Reading the database.                                                   *)
(***************************************************************************)
Running(d) == {s \in Runs \X Pos : d.status[s[1]][s[2]] = "running"}

NodeLoad(d, n)    == Cardinality({s \in Running(d) : d.node[s[1]][s[2]] = n})
ProjectLoad(d, p) == Cardinality({s \in Running(d) : ProjectOf[s[1]] = p})
GlobalLoad(d)     == Cardinality(Running(d))

(* MUTANT of Holds: the row is found by node and stage, the lease id of the *)
(* request is not compared.                                                 *)
HoldsAnyLease(d, n, r, i, l) == d.status[r][i] = "running" /\ d.node[r][i] = n

(* The row "WHERE node_id = ? AND lease_id = ? AND status = 'running'".    *)
Holds(d, n, r, i, l) ==
  /\ d.status[r][i] = "running"
  /\ d.node[r][i] = n
  /\ d.attempt[r][i] = l

(* ... and its deadline is still ahead: lease_expires_at > now.            *)
Owns(d, n, r, i, l) == Holds(d, n, r, i, l) /\ d.ttl[r][i] > 0

(* The lease sweep's condition is lease_expires_at < now: a lease whose    *)
(* deadline is exactly now is neither owned nor expired.                   *)
Expired(d, r, i) == d.status[r][i] = "running" /\ d.ttl[r][i] < 0

(* MUTANT of Retrying: attempt <= max_attempts.                             *)
RetryingOnceMore(d, r, i) ==
  /\ d.attempt[r][i] <= MaxAttempts
  /\ ~(d.executing[r][i] \/ d.settled[r][i])

(* MUTANT of Retrying: only a call that is still executing blocks a retry.  *)
RetryingAfterAnswer(d, r, i) == d.attempt[r][i] < MaxAttempts /\ ~d.executing[r][i]

(* leaseHasUncertainMcpSideEffects, and the attempts that are left.         *)
Retrying(d, r, i) ==
  /\ d.attempt[r][i] < MaxAttempts
  /\ ~(d.executing[r][i] \/ d.settled[r][i])

(***************************************************************************)
(* Writing the database.                                                   *)
(***************************************************************************)
(* Every stage of the set S is released: its lease ends with the given     *)
(* outcome, node_id and lease_id become NULL, and the tool calls of that   *)
(* lease no longer belong to any lease of the stage.                       *)
Released(d, S, to, how) ==
  [d EXCEPT
    !.status    = [r \in Runs |-> [i \in Pos |->
                     IF <<r, i>> \in S THEN to[r][i] ELSE d.status[r][i]]],
    !.node      = [r \in Runs |-> [i \in Pos |->
                     IF <<r, i>> \in S THEN NoNode ELSE d.node[r][i]]],
    !.ttl       = [r \in Runs |-> [i \in Pos |->
                     IF <<r, i>> \in S THEN -1 ELSE d.ttl[r][i]]],
    !.executing = [r \in Runs |-> [i \in Pos |-> <<r, i>> \notin S /\ d.executing[r][i]]],
    !.settled   = [r \in Runs |-> [i \in Pos |-> <<r, i>> \notin S /\ d.settled[r][i]]],
    !.outcome   = [r \in Runs |-> [i \in Pos |-> [l \in Leases |->
                     IF <<r, i>> \in S /\ d.status[r][i] = "running" /\ d.attempt[r][i] = l
                       THEN how ELSE d.outcome[r][i][l]]]]]

(* MUTANT of CancelRuns: a run that has ended is cancelled too.             *)
CancelEndedRuns(d, R) ==
  LET S == {s \in R \X Pos : d.status[s[1]][s[2]] \in OpenStage}
  IN  [Released(d, S, Everywhere("cancelled"), "cancelled") EXCEPT
        !.run = [r \in Runs |-> IF r \in R THEN "cancelled" ELSE d.run[r]]]

(* MUTANT of CancelRuns: stages that wait for their turn are left alone.    *)
CancelStartedStages(d, R) ==
  LET hit == {r \in R : d.run[r] \in OpenRun}
      S   == {s \in hit \X Pos : d.status[s[1]][s[2]] \in OpenStage \ {"pending"}}
  IN  [Released(d, S, Everywhere("cancelled"), "cancelled") EXCEPT
        !.run = [r \in Runs |-> IF r \in hit THEN "cancelled" ELSE d.run[r]]]

(* cancelRun, for every run of R: an open run and all its open stages.     *)
CancelRuns(d, R) ==
  LET hit == {r \in R : d.run[r] \in OpenRun}
      S   == {s \in hit \X Pos : d.status[s[1]][s[2]] \in OpenStage}
  IN  [Released(d, S, Everywhere("cancelled"), "cancelled") EXCEPT
        !.run = [r \in Runs |-> IF r \in hit THEN "cancelled" ELSE d.run[r]]]

(* enforceRunIdentities: runs whose principal lost its right are cancelled. *)
Enforce(d) == CancelRuns(d, revoked)

(* cleanupExpiredLeases.  At most one stage of a linear run is running, so  *)
(* the order in which the loop visits the expired stages does not matter.   *)
Sweep(d) ==
  LET S  == {s \in Runs \X Pos : Expired(d, s[1], s[2])}
      to == [r \in Runs |-> [i \in Pos |->
               IF Retrying(d, r, i) THEN "queued" ELSE "failed"]]
  IN  [Released(d, S, to, "expired") EXCEPT
        !.run = [r \in Runs |->
                   IF \E i \in Pos : Expired(d, r, i)
                     THEN IF \E i \in Pos : Expired(d, r, i) /\ ~Retrying(d, r, i)
                            THEN "failed" ELSE "queued"
                     ELSE d.run[r]]]

(* cleanupExpiredMcpCalls: an executing call whose lease has expired, or    *)
(* whose execution window has passed (the stages of W), becomes 'expired'.  *)
CloseCalls(d, W) ==
  [d EXCEPT !.executing = [r \in Runs |-> [i \in Pos |->
      d.executing[r][i] /\ ~(Expired(d, r, i) \/ <<r, i>> \in W)]]]

(* MUTANT of Candidate: only runs that are already running are dispatched.  *)
CandidateOfStarted(d, r, i) ==
  /\ d.status[r][i] = "queued" /\ d.run[r] = "running"
  /\ ProjectLoad(d, ProjectOf[r]) < MaxRunning[ProjectOf[r]]
  /\ \A j \in 1..(i - 1) : d.status[r][j] = "completed"

(* The candidate query of leaseNext.                                        *)
Candidate(d, r, i) ==
  /\ d.status[r][i] = "queued"
  /\ d.run[r] \in {"queued", "running"}
  /\ ProjectLoad(d, ProjectOf[r]) < MaxRunning[ProjectOf[r]]
  /\ \A j \in 1..(i - 1) : d.status[r][j] = "completed"

(* MUTANT of MayLease: credential_state is not looked at.                   *)
MayLeaseAnyNode(d, n) ==
  /\ NodeLoad(d, n) < NodeMax[n]
  /\ sched.mode = "sequential" => GlobalLoad(d) < sched.max

(* MUTANT of MayLease: the fleet is full only beyond its limit.             *)
MayLeaseOneMore(d, n) ==
  /\ n \notin wiped
  /\ NodeLoad(d, n) < NodeMax[n]
  /\ sched.mode = "sequential" => GlobalLoad(d) <= sched.max

(* The checks on the node and on the scheduler that come before the query.  *)
MayLease(d, n) ==
  /\ n \notin wiped
  /\ NodeLoad(d, n) < NodeMax[n]
  /\ sched.mode = "sequential" => GlobalLoad(d) < sched.max

(* MUTANT of Granted: the attempt is not counted.                           *)
GrantedUncounted(d, n, r, i) ==
  [d EXCEPT !.status[r][i] = "running",
            !.node[r][i]   = n,
            !.ttl[r][i]    = LeaseTtl,
            !.run[r]       = "running"]

(* leaseNext's UPDATE of the stage and of its run.  The next attempt exists *)
(* because a stage is queued again only while attempt < max_attempts.       *)
Granted(d, n, r, i) ==
  LET l == d.attempt[r][i] + 1
  IN  [d EXCEPT !.status[r][i]     = "running",
                !.node[r][i]       = n,
                !.ttl[r][i]        = LeaseTtl,
                !.attempt[r][i]    = l,
                !.outcome[r][i][l] = "open",
                !.run[r]           = "running"]

(* MUTANT of Completed: requires_approval of the completed stage is read,   *)
(* not that of the next one.                                                *)
CompletedPastGate(d, r, i, l) ==
  LET last == i = d.len[r]
  IN  [d EXCEPT !.status[r] = [j \in Pos |->
                   IF j = i THEN "completed"
                   ELSE IF j = i + 1 /\ ~last THEN "queued" ELSE @[j]],
                !.ttl[r][i]        = -1,
                !.executing[r][i]  = FALSE,
                !.settled[r][i]    = FALSE,
                !.outcome[r][i][l] = "completed",
                !.run[r] = IF last THEN "completed" ELSE "running"]

(* completeLease for a linear run: the stage, then the next one is queued   *)
(* or put before the operator, or the run is completed.  The completed row  *)
(* keeps its node_id.                                                       *)
Completed(d, r, i, l) ==
  LET last == i = d.len[r]
      gate == i + 1 = d.len[r] /\ d.gated[r]
      to   == IF gate THEN "waiting_approval" ELSE "queued"
  IN  [d EXCEPT !.status[r] = [j \in Pos |->
                   IF j = i THEN "completed"
                   ELSE IF j = i + 1 /\ ~last THEN to ELSE @[j]],
                !.ttl[r][i]        = -1,
                !.executing[r][i]  = FALSE,
                !.settled[r][i]    = FALSE,
                !.outcome[r][i][l] = "completed",
                !.run[r] = IF last THEN "completed"
                           ELSE IF gate THEN "waiting_approval" ELSE "running"]

(* failLease for a linear run.                                              *)
Failed(d, r, i, l) ==
  LET again == Retrying(d, r, i)
  IN  [d EXCEPT !.status[r][i]     = IF again THEN "queued" ELSE "failed",
                !.node[r][i]       = NoNode,
                !.ttl[r][i]        = -1,
                !.executing[r][i]  = FALSE,
                !.settled[r][i]    = FALSE,
                !.outcome[r][i][l] = "failed",
                !.run[r]           = IF again THEN "queued" ELSE "failed"]

(* decideApproval for a linear run: the gated stage is its last one.        *)
Decided(d, r, i, approve) ==
  [d EXCEPT !.status[r][i] = IF approve THEN "queued" ELSE "cancelled",
            !.run[r]       = IF approve THEN "running" ELSE "cancelled"]

(***************************************************************************)
(* Creating, cancelling and approving runs.                                *)
(***************************************************************************)
(* createRun: the queue quota of the project, then the run with its whole   *)
(* chain, bound to a principal who is allowed to run it.                    *)
CreateRun(r, n, gate) ==
  LET alone == gate /\ n = 1
      first == IF alone THEN "waiting_approval" ELSE "queued"
      open  == {q \in Runs : ProjectOf[q] = ProjectOf[r] /\ db.run[q] \in OpenRun}
  IN  /\ db.run[r] = "absent"
      /\ Cardinality(open) + 1 <= MaxQueued[ProjectOf[r]]
      /\ db' = [db EXCEPT !.run[r]    = first,
                          !.len[r]    = n,
                          !.gated[r]  = gate,
                          !.status[r] = [i \in Pos |->
                             IF i > n THEN "absent"
                             ELSE IF i = 1 THEN first ELSE "pending"]]
      /\ UNCHANGED <<revoked, wiped, sched>>

CancelRun(r) ==
  /\ db.run[r] # "absent"
  /\ db' = CancelRuns(db, {r})
  /\ UNCHANGED <<revoked, wiped, sched>>

(* Calls whose execution window may have passed.  The gateway settles every *)
(* call it sent well inside the window, so only a call that a restart of    *)
(* the coordinator cut off is still 'executing' when its window ends.       *)
Overdue(d) ==
  SUBSET {s \in Runs \X Pos : ToolCrashes /\ d.executing[s[1]][s[2]]}

(* getOverview closes the calls first and sweeps the leases second.         *)
Overviewed(W) == Sweep(CloseCalls(db, W))

Overview ==
  /\ Console
  /\ \E W \in Overdue(db) : db' = Overviewed(W)
  /\ UNCHANGED <<revoked, wiped, sched>>

(* POST /approvals/:id looks the request up in the overview and decides it. *)
DecideApproval(r, i, approve) ==
  /\ Console
  /\ db.status[r][i] = "waiting_approval"
  /\ \E W \in Overdue(db) : db' = Decided(Overviewed(W), r, i, approve)
  /\ UNCHANGED <<revoked, wiped, sched>>

(***************************************************************************)
(* Requests of worker nodes.  A request may be late or repeated, so it     *)
(* names any node and any lease of the stage; the store refuses it unless  *)
(* the lease is owned.                                                     *)
(***************************************************************************)
LeaseGranted(n) ==
  LET d == Sweep(Enforce(db))
  IN  /\ MayLease(d, n)
      /\ \E r \in Runs, i \in Pos : Candidate(d, r, i) /\ db' = Granted(d, n, r, i)
      /\ UNCHANGED <<revoked, wiped, sched>>

(* leaseNext answers null; the sweep is committed all the same.             *)
NothingToLease ==
  /\ db' = Sweep(Enforce(db))
  /\ UNCHANGED <<revoked, wiped, sched>>

LeaseNext(n) == LeaseGranted(n) \/ NothingToLease

RenewLease(n, r, i, l) ==
  LET d == Enforce(db)
  IN  /\ db' = IF Owns(d, n, r, i, l) THEN [d EXCEPT !.ttl[r][i] = LeaseTtl] ELSE d
      /\ UNCHANGED <<revoked, wiped, sched>>

(* MUTANT of CompleteLease: identities are not enforced.                    *)
CompleteLeaseUnchecked(n, r, i, l) ==
  /\ db' = IF Owns(db, n, r, i, l) /\ ~db.executing[r][i]
             THEN Completed(db, r, i, l) ELSE db
  /\ UNCHANGED <<revoked, wiped, sched>>

(* Refused while a tool call of the lease is executing.                     *)
CompleteLease(n, r, i, l) ==
  LET d == Enforce(db)
  IN  /\ db' = IF Owns(d, n, r, i, l) /\ ~d.executing[r][i]
                 THEN Completed(d, r, i, l) ELSE d
      /\ UNCHANGED <<revoked, wiped, sched>>

(* failLease itself does not enforce identities: the request did so when it *)
(* was authenticated, before its body was read.                             *)
FailLease(n, r, i, l) ==
  /\ Owns(db, n, r, i, l)
  /\ db' = Failed(db, r, i, l)
  /\ UNCHANGED <<revoked, wiped, sched>>

(***************************************************************************)
(* Risky tool calls made under a lease.                                    *)
(***************************************************************************)
(* The gateway resolves the tool for the lease (its deadline may be exactly *)
(* now), records the call as executing, passes the preflight of             *)
(* assertMcpToolCallExecutable and sends the request upstream.              *)
BeginToolCall(n, r, i, l) ==
  /\ Holds(db, n, r, i, l) /\ db.ttl[r][i] >= 0
  /\ r \notin revoked
  /\ ~db.executing[r][i]
  /\ db' = [db EXCEPT !.executing[r][i] = TRUE,
                      !.effect[r][i]    = IF @ = 0 THEN l ELSE @]
  /\ UNCHANGED <<revoked, wiped, sched>>

(* completeMcpToolCall or failMcpToolCall, when upstream has answered.      *)
FinishToolCall(r, i) ==
  /\ db.executing[r][i]
  /\ db' = [db EXCEPT !.executing[r][i] = FALSE, !.settled[r][i] = TRUE]
  /\ UNCHANGED <<revoked, wiped, sched>>

(* assertMcpToolCallExecutable, asked again and again while an isolated Job *)
(* runs: policy, catalogue or kill switch have changed, and the call ends    *)
(* as 'rejected', which the side-effect guard does not count.               *)
RejectToolCall(r, i) ==
  /\ db.executing[r][i]
  /\ db' = [db EXCEPT !.executing[r][i] = FALSE,
                      !.effect[r][i]    = IF db.settled[r][i] THEN @ ELSE 0]
  /\ UNCHANGED <<revoked, wiped, sched>>

(***************************************************************************)
(* Operators, the clock and the maintenance timer.                         *)
(***************************************************************************)
(* The principal bound to the run is disabled, or enabled again; the        *)
(* coordinator asks about it only while the run is open.                    *)
ChangeIdentity(r) ==
  /\ db.run[r] \in OpenRun
  /\ revoked' = IF r \in revoked THEN revoked \ {r} ELSE revoked \cup {r}
  /\ UNCHANGED <<db, wiped, sched>>

(* requestEdgeRemoteWipe: the node's leases are expired and swept.          *)
WipeEdge(n) ==
  /\ wiped' = wiped \cup {n}
  /\ db' = Sweep([db EXCEPT !.ttl = [r \in Runs |-> [i \in Pos |->
                    IF db.status[r][i] = "running" /\ db.node[r][i] = n
                      THEN -1 ELSE db.ttl[r][i]]]])
  /\ UNCHANGED <<revoked, sched>>

UpdateScheduler(m, max) ==
  /\ sched' = [mode |-> m, max |-> max]
  /\ UNCHANGED <<db, revoked, wiped>>

MaintenanceTick ==
  /\ LET d == Sweep(Enforce(db))
     IN  \E W \in Overdue(d) : db' = CloseCalls(d, W)
  /\ UNCHANGED <<revoked, wiped, sched>>

(* Time passes for all deadlines alike.  BOUND: -1 is "in the past".        *)
Tick ==
  /\ db' = [db EXCEPT !.ttl = [r \in Runs |-> [i \in Pos |->
              IF db.ttl[r][i] > -1 THEN db.ttl[r][i] - 1 ELSE -1]]]
  /\ UNCHANGED <<revoked, wiped, sched>>

Next ==
  \/ \E r \in Runs :
       \/ \E n \in Pos, gate \in BOOLEAN : CreateRun(r, n, gate)
       \/ CancelRun(r)
       \/ ChangeIdentity(r)
       \/ \E i \in Pos :
            \/ FinishToolCall(r, i)
            \/ RejectToolCall(r, i)
            \/ \E approve \in BOOLEAN : DecideApproval(r, i, approve)
            \/ \E n \in Nodes, l \in Leases :
                 \/ RenewLease(n, r, i, l)
                 \/ CompleteLease(n, r, i, l)
                 \/ FailLease(n, r, i, l)
                 \/ BeginToolCall(n, r, i, l)
  \/ \E n \in Nodes : LeaseNext(n)
  \/ \E n \in EdgeNodes : WipeEdge(n)
  \/ \E m \in Modes, max \in GlobalCaps : UpdateScheduler(m, max)
  \/ Overview
  \/ MaintenanceTick
  \/ Tick

Spec == Init /\ [][Next]_vars

(***************************************************************************)
(* Time passes, the maintenance timer of the coordinator fires every       *)
(* second, polling workers are granted a lease when there is one to grant, *)
(* and a worker that keeps a lease alive reports on it: execute_lease ends *)
(* in a complete or a fail request.  Grants need strong fairness only      *)
(* because an administrator might disable and enable a principal again and *)
(* again, just between two polls.                                          *)
(***************************************************************************)
Report(r, i) ==
  \E n \in Nodes, l \in Leases :
    Owns(db, n, r, i, l) /\ (CompleteLease(n, r, i, l) \/ FailLease(n, r, i, l))

Fairness ==
  /\ WF_vars(Tick)
  /\ WF_vars(MaintenanceTick)
  /\ SF_vars(\E n \in Nodes : LeaseGranted(n))
  /\ \A r \in Runs, i \in Pos : WF_vars(Report(r, i))

FairSpec == Spec /\ Fairness

(***************************************************************************)
(*                              Properties                                 *)
(***************************************************************************)
(* Every column has its type.                                               *)
TypeOK ==
  /\ db \in Database
  /\ revoked \subseteq Runs
  /\ wiped \subseteq EdgeNodes
  /\ sched \in [mode : Modes, max : GlobalCaps]

(* The shape of run r whose stages before k are completed.                  *)
Frontier(d, r, k) ==
  LET here == d.status[r][k]
  IN  /\ \A j \in 1..(k - 1) : d.status[r][j] = "completed"
      /\ \A j \in Pos : j > d.len[r] => d.status[r][j] = "absent"
      /\ \A j \in (k + 1)..d.len[r] :
           d.status[r][j] = IF d.run[r] = "cancelled" THEN "cancelled" ELSE "pending"
      /\ CASE d.run[r] = "queued"    -> here = "queued"
           [] d.run[r] = "running"   -> here \in {"queued", "running"}
           [] d.run[r] = "completed" -> here = "completed" /\ k = d.len[r]
           [] d.run[r] = "waiting_approval" ->
                here = "waiting_approval" /\ k = d.len[r] /\ d.gated[r]
           [] OTHER -> here = d.run[r]

Chain(d, r) ==
  IF d.run[r] = "absent"
    THEN d.len[r] = 0 /\ ~d.gated[r] /\ \A i \in Pos : d.status[r][i] = "absent"
    ELSE \E k \in 1..d.len[r] : Frontier(d, r, k)

(* The chain of a run advances through one stage at a time: the columns     *)
(* runs.status and stages.status, which every handler updates separately,   *)
(* always describe the same frontier stage, everything before it completed  *)
(* and everything after it not yet started.                                 *)
ChainOrder == \A r \in Runs : Chain(db, r)

Ledger(d, r, i) ==
  LET a  == d.attempt[r][i]
      o  == d.outcome[r][i]
      st == d.status[r][i]
  IN  /\ \A l \in Leases : l > a => o[l] = "none"
      /\ \A l \in Leases : l < a => o[l] \in {"failed", "expired"}
      /\ st = "running"   => a > 0 /\ o[a] = "open" /\ d.node[r][i] \in Nodes
      /\ st = "completed" => a > 0 /\ o[a] = "completed"
      /\ st = "queued"    => a < MaxAttempts /\ (a > 0 => o[a] \in {"failed", "expired"})
      /\ st \in {"failed", "cancelled"} =>
           (a > 0 => o[a] \in {"failed", "expired", "cancelled"})
      /\ st \in {"absent", "pending", "waiting_approval"} => a = 0
      /\ st # "running" => ~d.executing[r][i] /\ ~d.settled[r][i] /\ d.ttl[r][i] = -1

(* The ledger of the leases of a stage: they are drawn one after another,   *)
(* every one but the last ended in a failure or an expiry that left an      *)
(* attempt to use, only the last can be open, exactly while the stage is    *)
(* running at a node, and a stage is completed by its last lease or not at  *)
(* all.                                                                     *)
LeaseLedger == \A r \in Runs, i \in Pos : Ledger(db, r, i)

(* What a lease came to is final: a late, repeated or foreign complete,     *)
(* fail or renew request, a sweep or a cancellation never changes the       *)
(* outcome of a lease that has ended, nor reopens it.                       *)
LeaseSettledOnce ==
  [][\A r \in Runs, i \in Pos, l \in Leases :
       db.outcome[r][i][l] \notin {"none", "open"} =>
         db'.outcome[r][i][l] = db.outcome[r][i][l]]_vars

(* The last stage of a run that asked for approval is put in the queue by   *)
(* an operator's decision only, or by the loss of a lease it was given      *)
(* after that decision.                                                     *)
ApprovalGate ==
  [][\A r \in Runs :
       db'.gated[r] /\ db'.status[r][db'.len[r]] = "queued" =>
         db.status[r][db'.len[r]] \in {"queued", "running", "waiting_approval"}]_vars

(* No step adds to the load of a node, of a project or, in sequential mode, *)
(* of the whole fleet beyond its limit, although the sweep that precedes    *)
(* the count in leaseNext frees slots in the same transaction and the       *)
(* operator may lower the limit below the present load.                     *)
CapsRespected ==
  [][/\ \A n \in Nodes :
          NodeLoad(db', n) > NodeLoad(db, n) => NodeLoad(db', n) <= NodeMax[n]
     /\ \A p \in Projects :
          ProjectLoad(db', p) > ProjectLoad(db, p) => ProjectLoad(db', p) <= MaxRunning[p]
     /\ sched.mode = "sequential" /\ GlobalLoad(db') > GlobalLoad(db) =>
          GlobalLoad(db') <= sched.max]_vars

(* A run whose principal has lost its right makes no progress: whatever     *)
(* request arrives first, none of its stages is started or completed.       *)
RevokedStandsStill ==
  [][\A r \in revoked, i \in Pos :
       db'.status[r][i] \in {"running", "completed"} =>
         db'.status[r][i] = db.status[r][i] /\ db'.attempt[r][i] = db.attempt[r][i]]_vars

(* A wiped edge node holds no running stage, and is never given one again.  *)
WipedHoldsNothing ==
  \A n \in wiped, r \in Runs, i \in Pos :
    db.status[r][i] = "running" => db.node[r][i] # n

(* Once a risky tool call was sent upstream under a lease, and unless the   *)
(* coordinator itself rejected it while it ran, the stage is not leased      *)
(* again: its work may have had an effect that must not be repeated.  For a  *)
(* rejected call docs/mcp-gateway.md:104 asks the same; McpCalls shows that  *)
(* the code does not do it.                                                *)
RiskyCallNotRetried ==
  \A r \in Runs, i \in Pos :
    db.effect[r][i] # 0 =>
      db.attempt[r][i] = db.effect[r][i] /\ db.status[r][i] # "queued"

(* StageLease carries out what RunLifecycle promises.                       *)
PhaseOf(s) == IF s \in OpenRun THEN "open" ELSE s

Lifecycle == INSTANCE RunLifecycle WITH
  phase <- [r \in Runs |-> PhaseOf(db.run[r])],
  len   <- db.len,
  done  <- [r \in Runs |-> Cardinality({i \in Pos : db.status[r][i] = "completed"})]

ImplementsLifecycle == Lifecycle!Spec

(* A run that waits for nobody but the fleet ends or reaches its approval,  *)
(* whatever leases are lost and whatever the operator does to the limits.   *)
RunsAdvance ==
  \A r \in Runs :
    db.run[r] \in {"queued", "running"} ~> db.run[r] \notin {"queued", "running"}
=============================================================================
