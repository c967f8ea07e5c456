# Agat: models and proofs of the coordinator

Agat runs chains and graphs of agents on a fleet of worker nodes. A
TypeScript coordinator (`apps/coordinator`) keeps all state in one SQL
database (SQLite, or PostgreSQL for several replicas); workers
(`workers/agat_worker.py`) poll it over HTTP, lease one stage at a time, and
report the result. Temporal workflows (`apps/temporal-worker`) keep processes
moving, an S3 bucket holds the artifacts and a SIEM receives the audit. This
directory holds TLA+ models of these protocols, the TLC instances that check
them and TLAPS proofs about them.

## 1. Inventory

Paths are relative to `src/`; `db` stands for
`apps/coordinator/src/database.ts`, the class `AgatStore`, which holds nearly
all of the state and most of the logic.

| Component | State | Operations | Interacts with | What is hard | What makes it correct | Module |
|---|---|---|---|---|---|---|
| Stage dispatch (`db` 11240-13282, 15191-15335) | `runs.status`, `stages.{status,node_id,lease_id,lease_expires_at,attempt}` | `createRun`, `cancelRun`, `leaseNext`, `renewLease`, `completeLease`, `failLease`, `decideApproval`, `maintenanceTick` | workers over HTTP, MCP gateway, identities, process engine | late and repeated requests, expiry at the deadline, retries, a sweep inside every poll | one frontier stage per run; a lease settles once; limits; no retry after a risky call; every run ends | `StageLease`, `RunLifecycle` |
| MCP gateway (`mcp.ts`, `mcp-policy.ts`, `db` 5107-6024) | `mcp_tool_calls`, approvals, policy, kill switch, catalogue | call, approve, reject, cancel, execute, complete, fail, expire; policy, server and tool administration | lease of the calling stage, operators, upstream servers, sandbox Jobs | awaits around the upstream request, policy or catalogue changed in between, restart in the middle | a call is sent once, only with its approvals, never against a closed gate, and is closed in the end | `McpCalls`, `CallLedger`, `McpCallsProofs` |
| Process engine (`db` 15721-16895) | `process_instances`, `process_tokens`, joins, signal waits, subprocess links, compensations | advance, fork, join, signal, subprocess, wait, approve, compensate, revoke | stage dispatch runs its stages; parent and child call each other recursively | a failure in the middle of a fork or of a sweep, an error thrown half-way, late signals, compensation order, revocation | an instance that ended stays ended; every token has work; compensations run once, in reverse | `ProcessEngine`, `Saga`, `ProcessEngineProofs` |
| Durable runtime (`apps/temporal-worker`, `process-runtime.ts`, `db` 10636-10868, 11155-11216, 15097-15189) | workflows, start receipts, cancellation intent | start, tick, notify, cancel, reconcile at startup | Temporal, coordinator HTTP API | lost or late requests and replies, a wake-up during a tick, changes nobody is told of, a crash after the commit | one instance per key, none after a cancellation, no workflow sleeps through a notification, everything ends | `DurableRuntime` |
| Replicas over PostgreSQL (`postgres-*.ts`) | row locks, READ COMMITTED snapshots | every handler, split at its statements | two coordinators, one database | statements of two handlers interleave | one lease at a time, queue quota, terminal states | `Replicas` |
| SIEM outbox (`siem-export.ts`, `db` 14624-14944) | outbox, dead letters | claim, complete, replay, resolve, retain, migrate | SIEM collector | lock lapses while a request is under way, crashes | every event is delivered, or dead with a letter | `SiemOutbox` |
| Artifacts (`artifact-object-*.ts`, `db` 14281-14607, 16973-17117) | rows, objects, holds, delete outbox | store, protect, delete, migrate, reconcile | object store | no transaction spans row and object | a row that is ready or held has its bytes, a deleted one has none | `ArtifactStore` |
| Individual identities (`local-identities.ts`) | principals, credentials, run bindings | create, disable, rotate; `assertRunAllowed` | `enforceRunIdentities` cancels runs and ends instances | revocation between authentication and use, and while an instance compensates | a revoked principal's run makes no progress, nothing more is done for its instance | part of `StageLease`, `ProcessEngine` |
| Edge nodes (`edge-attestation.ts`, `db` 4444-4710, 11398-11924) | `nodes.credential_state`, challenges | enroll, attest, request and acknowledge wipe | dispatch | wipe against a running lease | a wiped node holds nothing | part of `StageLease` |
| Knowledge and embedding jobs (`knowledge*.ts`, `db` 9145-9383) | documents, chunks, embedding leases | lease, renew, complete, fail | share the node slots with stages | a second lease protocol with the same limits | every chunk embedded once; one dimension per collection | |
| A2A adapter (`a2a*.ts`), webhooks, region loss (`region-loss-dr.ts`), reports and evaluation, decision runtime, sandbox, telemetry, server and configuration, web and edge applications | | | | | listed in `PROJECT.json` with the reason for what is left out | |

The components meet in three ways. Through the database: every handler is one
transaction, so on a single coordinator handlers are atomic and only what lies
between two of them (an HTTP body still to be read, an upstream request, a
timer) interleaves. Through awaits: the gateway's two awaits and Temporal's
activities are where state is read before and used after. Through replicas:
over PostgreSQL the statements of two transactions interleave, and locks
decide what of the above survives. Each is modelled where it bites: handlers
atomic in `StageLease` and `ProcessEngine`, awaits in `McpCalls` and
`DurableRuntime`, statements in `Replicas`, processes without a common
transaction in `SiemOutbox` and `ArtifactStore`.

The full list of hazards, each at its line, is `hazards` in `PROJECT.json`.

## 2. Plan

| | Modules | State |
|---|---|---|
| 1 | `StageLease`, implementing `RunLifecycle` | model, three runs, proofs |
| 2 | `ProcessEngine`, implementing `Saga` | model, three runs, proofs of every invariant |
| 3 | `McpCalls`, implementing `CallLedger` | model, two runs, safety proved |
| 4 | `Replicas`, implementing `RunLifecycle` | model, two runs, proofs |
| 5 | `DurableRuntime`, `SiemOutbox`, `ArtifactStore`, checked together in `MCOutbound`; `siem_purged` | model, two runs, proofs of all three and of their composition |
| 6 | `ProcessEngineSteps`, `ProcessEngineProofs`: the methods as calls on a stack; types, tokens and stages, effects and the saga, queues, forks, families | proved |
| 7 | `EmbeddingJobs` (the second lease protocol), MCP approvals on two replicas, A2A push deliveries | open |

Abstract specifications: `RunLifecycle` (a run's stages in order, each once,
ends are final), `Saga` (effects pile up and stand, or are undone latest first, or are abandoned),
`CallLedger` (a call is sent at most once, a closed call stays closed, every call
is closed).

## 3. Stage dispatch: `StageLease`, `RunLifecycle`, `MCStageLease`

### State

| TLA+ | Code |
|---|---|
| `db.run`, `db.len`, `db.gated` | `runs.status`; the number of `stages` rows of the run; `requires_approval` of the last one |
| `db.status`, `db.node`, `db.attempt` | columns of `stages` |
| `db.ttl` | `lease_expires_at` minus now; -1 is "in the past", and also NULL |
| `db.executing`, `db.settled` | whether the current lease has a call with risk other than `read` in status `executing`, and one in `completed` or `failed` |
| `db.outcome`, `db.effect` | history variables: how each lease ended, and the lease of the first risky call that the coordinator has not itself rejected while it ran |
| `revoked` | runs for which `assertRunAllowed` throws |
| `wiped` | nodes with `credential_state` other than `active` |
| `sched` | `settings.scheduler_mode` and `global_max_concurrency` |

A lease id is a fresh UUID; the attempt number that comes with it names it. A
request names a node, a stage and a lease freely, so late, repeated and foreign
requests are all in the model.

### Actions

SQLite calls are synchronous and a store method has no `await`, so on one
coordinator every store call is atomic, and every HTTP handler is a sequence of
atomic calls separated by awaits (reading the body). Each action of `Next` is
one such call with everything it does: `LeaseNext` enforces identities, sweeps
expired leases and then grants or answers null. Functions on the database value
(`Sweep`, `CancelRuns`, `Granted`, `Completed`, ...) translate the methods, and
an action composes them in the order of the code: `MaintenanceTick` is
`CloseCalls` after `Sweep` after `Enforce`, while `Overviewed` is `Sweep` after
`CloseCalls`. That difference is real, see the finding below.
`FailLease` is guarded by ownership because a refused request changes nothing
in `failLease`; the identity check of its authentication is a step of its own.

### Abstracted

Priority, model routing, capability match and freshness of a node only choose
among candidates or answer null; the model takes either freely. Outputs,
artifacts, events, metrics, telemetry and text are left out. Embedding jobs
occupy slots of a node and of a project beside stages; with none of them
present the counts are the model's.

### Runs

| Run | Instance | Checks |
|---|---|---|
| `stage_lease_runs` | either one run of up to three stages, two attempts, console on, restarts cut calls off; or three runs of one stage, two of them in one project, two nodes (one edge) with one slot each, the mode changing | `TypeOK`, `ChainOrder`, `WipedHoldsNothing`, `RevokedStandsStill`, `ApprovalGate`, `ImplementsLifecycle`, `CapsRespected` |
| `stage_lease_retry` | one run of up to two stages, three attempts, two nodes (one edge), leases of two ticks, fairness | `LeaseLedger`, `RiskyCallNotRetried`, `LeaseSettledOnce`, `RunsAdvance` |
| `stage_lease_overview` | one run, one stage, two attempts, console on | `RiskyCallNotRetried` is violated |

* `ChainOrder`: handlers update `runs` and `stages` in separate statements;
  this says they always describe the same frontier.
* `LeaseLedger`, `LeaseSettledOnce`: whatever requests arrive, each lease has one
  end, and a retry is only ever drawn after a failure or an expiry.
* `RiskyCallNotRetried`: `docs/mcp-gateway.md:104`. It holds under three
  restrictions. Nobody reads the overview, and no restart cuts a call off
  (`Console`, `ToolCrashes`). And it speaks of calls the coordinator lets finish:
  `RejectToolCall` is `assertMcpToolCallExecutable` (`db`:5986), which is asked
  before every look at a running Job and may end a started call as `rejected`;
  the guard does not count it and the stage may be queued again. That the
  document promises more is the finding of the run `mcp_effect` (section 5).
* `RevokedStandsStill`: the gap between authentication and body is an await.
* `CapsRespected` speaks of increases only: an operator may lower a limit below
  the present load.
* `ImplementsLifecycle`: the run is a `RunLifecycle`, in which stages are carried
  out in order, each once, and an ended run never changes.

**Finding.** `getOverview` (`db`:13287-13288) calls `cleanupExpiredMcpCalls`
before `cleanupExpiredLeases`. A read of the overview between the expiry of a
lease and the next tick turns the executing risky call into `expired`, the guard
no longer sees it, and the sweep queues the stage again. The comment at
`db`:1335-1336 and `docs/mcp-gateway.md:104` say that this must not happen.

### Bounds

`MaxStages` 3 has a first, a middle and a last stage, so each case of
`completeLease` occurs with a gate and without. `MaxAttempts` 3 lets a lease be
lost, drawn again and lost again while the first owner's requests still arrive.
`LeaseTtl` 2 separates "ahead", "exactly now" and "past". Three runs over two
slots make the limits bind. The constraint `AloneOrShort` lets a behaviour of
`stage_lease_runs` follow one chain or a fleet: in the fleet nobody is revoked, no
gate is asked for, no tool is called and no stage is leased twice; in the chain
nothing is wiped and the mode stays `sequential`. The two runs of one project are
symmetric. `ttl` is capped below at -1, as only its sign is read. The system may
stop when every run has ended or none is created, so `CHECK_DEADLOCK FALSE`.

### Fairness

`RunsAdvance` uses: time passes; the maintenance timer fires (`setInterval`,
one second, `server.ts`:3214); a worker that keeps a lease alive reports on it
(`execute_lease` ends in a complete or fail request, `agat_worker.py`:2775); and
a poll succeeds if it could again and again. The last one is strong fairness,
because an administrator may disable and enable a principal between every two
polls. It assumes more than the code gives in one case: a candidate whose
payload can never be built (`db`:12524) rolls back every poll it heads, and
strong fairness excludes it. Nothing is assumed of operators, tool calls or
renewals: a lost worker simply stops, and the sweep must do the rest.

## 4. Process engine: `ProcessEngine`, `Saga`, `MCProcessEngine`

### State

`db` is one record, a value of the tables the engine reads and writes.

| TLA+ | Code |
|---|---|
| `inst`, `run`, `ending`, `error` | `process_instances.status`, `runs.status`, `terminal_status_after_compensation`, whether `error` was written |
| `moves`, `loops` | `transition_count`; the counters in `loop_counts_json` |
| `stages[i]` | the `stages` rows of the instance's run, a sequence because `position` is their place in it |
| `.row` of a stage | `status` of the stage's row in `process_signal_waits`, `process_subprocess_links` or `process_compensations`; a stage has a row in at most one of them |
| `.of` of a stage | `process_compensations.compensation_stage_id`, read from the other side |
| `.lapsed` of a stage | `lease_expires_at` has passed |
| `token[i]` | `process_tokens.status`; a token is named by the branches it came through, so that parent, fork and branch number are in its name and `process_join_arrivals` is "the token stands at `waiting_join`" |
| `blocked` | history: the instances ended by `enforceRunIdentities` (event `identity.run.blocked`) |
| `thrown` | history: an error has left a handler half-way |
| `Graph`, `ForkOf`, `ChildOf`, ... | `graph_json`, the snapshot an instance keeps; `GraphAssumption` is what `normalizeProcessGraph` makes sure of |

### Actions

A handler is one action. The methods it calls are functions of the database
value: `Advance` (`advanceProcessToken`), `Fail`, `Stop`, `Close`
(`triggerProcessFailure`, with `quiesceProcessExecution` between its first and
its last statement), `NextCompensation`, `Finalize`, `CompleteParent`,
`Subprocess`, `Link`, `Sync`. In the code they call each other recursively: a
token that reaches the end ends a child, which moves its parent, whose join may
end it in turn, all inside one `completeLease`. Here a method returns the
database it leaves and the calls it makes then (`Do`); `Step` makes the next
call of the stack, and `Carry`, the body of every handler, makes them all. So
the state between two calls of one handler can be spoken of, and the proofs do.

| Action | Code |
|---|---|
| `Start`, `Cancel` | `startProcess`, `cancelProcessInstance` |
| `Lease`, `CompleteLease`, `RejectOutput`, `FailLease` | `leaseNext`, the two ends of `completeLease`, `failLease`, for stages of processes |
| `Lapse`, `Sweep` | the deadline of a lease; `cleanupExpiredLeases` |
| `DueWait`, `ExpireSignal` | `completeDueWaitStages`, `expireProcessSignals` |
| `DueWaitThrown` | `completeDueWaitStages` from the timer or the overview, when the start of a child throws: `CarryThrown` stops at that call and what was written by then stands |
| `EnforceRunIdentities` | the process branch of `enforceRunIdentities`: `LetGo` drops the compensations that wait, the instance is quiesced and ends as `cancelled` |
| `Signal`, `Approve`, `Reject` | `deliverProcessSignalLocked`, `decideApproval` |

`Sweep` reads the expired rows once and then treats each, because the code
does not look at a row again. The loops over due waits and expired signals do
look again (`AND status = 'queued'`, and a failure of a stopped instance does
nothing), so one row for each step is the same.
`leaseNext` runs the same three loops before it grants: they are steps of their
own here, and `Lease` waits until the sweep has left no lapsed lease. Likewise
`enforceRunIdentities`, which `maintenanceTick` and every worker's request call
first (`db`:1332, 12226, 12797, 12882), is a step that may be taken at any time,
for one run; a running compensation it leaves to `finalizeProcessTerminal`, which
closes the stage.

### Abstracted

Every handler meets a world `w`, chosen freely: which conditions hold for the
last output, and which steps turn out to be impossible (a credential that no
longer opens, an agent that is gone, a report that is refused, a subprocess without
input, a child that is not found or whose input breaks its contract). These fail
the instance. The other errors a child's start may meet (a missing version
`db`:10757, the queue quota `db`:10774) are thrown on by `queueProcessSubprocess`
(`db`:16577): in a request they roll the transaction back and nothing has
happened, in the timer they are `DueWaitThrown`. Deadlines
of waits and signals may pass at any time. Who owns a lease, and late requests
on it, are the subject of `StageLease`; here a request on a lease that is not
running does nothing. A step whose output a safe replay reuses, an artifact and
a transform are steps of kind `internal`. Correlation of signals is left out: a
signal may reach any wait.

### Runs

| Run | Instance | Checks |
|---|---|---|
| `process_graphs` | either three branches (an agent with an output contract, a compensated call and a timer, an inner fork of a gated agent and a signal), then a loop of at most two compensated calls that may turn out impossible; or a parent that books, then forks into a gated agent and a pause followed by a subprocess whose start may fail or throw, and after the join may have an agent that may be impossible and its approval, and a child that pays, waits for a signal with a deadline and may fail in its steps; powers may be revoked at any time | `TypeOK`, `StoppedForGood`, `TokensAtWork`, `JoinsWillWake`, `QueuedIsFound`, `EndedIsQuiet`, `SagaSettled`, `FamilyTied`, `JoinNeedsAll`, `ImplementsSaga`, `InstancesEnd` |
| `process_refused` | two calls side by side, the first of which may turn out impossible | `StoppedForGood` is violated |
| `process_thrown` | a pause, then a subprocess whose start may fail or throw | `ChildAwaited` is violated |

* `TokensAtWork`, `JoinsWillWake`, `JoinNeedsAll`: no branch is lost, none is
  carried out twice, and a join neither waits for ever nor goes on early.
* `QueuedIsFound`: the queries of `leaseNext` and `completeDueWaitStages` filter
  on `runs.status`, which every branch overwrites; nothing queued is hidden.
* `StoppedForGood`, `EndedIsQuiet`, `FamilyTied`: `docs/process-builder-1.2.md:14`,
  a stopped instance only compensates, an ended one does nothing, and parent and
  child end together.
* `SagaSettled`: exactly the confirmed calls are compensated, once each. An
  instance whose powers were revoked is `cancelled` with what was done standing;
  no call of it is compensated twice, and none waits for it.
* `ImplementsSaga`: seen from outside, an instance is a `Saga`: effects pile up
  while it is open, stand if it completes, and are undone one at a time from the
  stage queued last to the one queued first if not. `Abandon` is the one way
  past this: with its powers revoked the instance ends at once (`abandoned`).
* `QueuedIsFound` and `FamilyTied` are claimed until an error has left a handler
  half-way (`thrown`): then a parent waits for a child it does not have, and the
  statement that sums the instance up was not made. `InstancesEnd` excepts the
  same case. The other properties hold after it too.

That a revocation leaves effects standing is what the comment at `db`:1357 asks
for ("Revocation cannot authorize new compensation side effects").
`docs/process-builder-1.2.md:163` speaks of failure, reject and cancel, and says
that the registered actions are carried out then; the status such an instance
shows is `cancelled` all the same.

### Findings

`process_thrown`. `queueProcessSubprocess` inserts the waiting stage, then starts
the child, and throws on every error but a `BusinessInputValidationError`
(`db`:16576-16577). Requests run in a transaction; `completeDueWaitStages` does
not when `maintenanceTick` or `getOverview` calls it. A child that follows a
pause and finds the project's queue full, or its pinned version deleted, leaves
a completed wait, a stage at `waiting_external`, no link and no child. No later
tick looks at either again, and the parent waits until somebody cancels it.
`docs/process-builder-1.2.md:24` says that the step starts the child and waits
for its end.

`process_refused`. The loop over the branches of a fork (`db`:15924) does not
look at the instance again. If the first branch fails it, the second branch
activates its token, queues its stage and sets run and instance to `queued`. A
way to get there: `deleteCredential` (`db`:4890) looks for credentials used by
steps, not by their compensations, and `queueProcessHttp` fails the instance
when the latter is gone. `cleanupExpiredLeases` has the same shape: it reads the
expired leases once; the first, out of attempts, fails the instance and closes
the other stage; the second, with an attempt left, is then set to `queued` by
its id (`db`:15216), and the run and the instance with it.

Because of this the passing run has no step that may be impossible as an earlier
branch of a fork, and lets one lease lapse at a time (`LapseTogether = FALSE`).
Everything else it allows. `Orderly` states the two conditions, the theorems
assume them, and `CalmSteps` has TLC check that the graphs of the passing run
meet the first and that of `process_refused` does not.

A third condition the code does not ask for has no run either.
`normalizeProcessGraph` accepts a loop inside a branch of a fork whose repeat
branch leads back before the fork (`process-engine.ts`:520-545 checks that every
branch reaches the join, that none can end before it and that the numbers of
branches and arrivals agree). In `f -> {lp, a}`, `lp -> {repeat f, exit j}`,
`a -> j`, the token of the first branch forks again, its branches meet at the
join, and it goes on past the join to the end, while its sibling waits there for
ever: `JoinsWillWake` needs branches that stay between their fork and its join,
as those of the runs do.

One more difference has no run: compensations are taken by `sequence`
(`db`:16804), which is `stages.position`, the order of queueing, while
`docs/process-builder-1.2.md:163` speaks of a stack of confirmed calls. With
parallel branches the two orders differ; `ImplementsSaga` states the code's.

### Bounds

A behaviour starts one of the two graphs, not both (`OneOfBoth`): they share no
state. `process_thrown` has the smallest graph in which the timer starts a child. `MaxAttempts` 2: a stage fails, is retried and is given up.
`MaxIterations` 2: a loop is left by its condition and by its limit. `MaxMoves`
stands for the limit of 1000 transitions; 18 is one less than the longest
behaviour of the trip, which is failed on leaving its loop; its three calls are
then compensated. `MaxCalls` 24: no handler of
the two graphs makes more calls. A subprocess step starts its child once (the
child's id is that of the step; a second start is cut off). One parent and one child have
every kind of call between instances; a deeper nesting repeats them. An instance
may stop for good, so `CHECK_DEADLOCK FALSE`.

### Fairness

`InstancesEnd` assumes that the system does not stop while a worker can poll or
report, a lease can lapse, or the timer has something to do (`System`). Each
such step uses up an attempt, a wait or a transition, so weak fairness of their
disjunction is enough. Nobody is obliged to signal, approve or cancel:
`WaitsOutside` says when an instance may wait, and a signal with a deadline is
not such a case. Nor is anybody obliged to revoke, and no start to throw:
`EnforceRunIdentities` and `DueWaitThrown` are not part of `System`.

## 5. MCP gateway: `McpCalls`, `CallLedger`, `MCMcpCalls`

### State and actions

| TLA+ | Code |
|---|---|
| `stage` | the row of the stage whose worker calls; `lease` is its attempt, which names the lease |
| `call` | `mcp_tool_calls` with `mcp_tool_call_approvals`, by `(lease_id, client_call_id)`; `window` is `expires_at` minus now |
| `gate` | the rule of the policy in force that matches the tool, the tool's override, the kill switch, the server's `enabled`, `trust_annotations` and target, and the target its catalogue was listed from |
| `listing`, `flight` | a `syncServer` and an `executeCall` in progress: memory, lost in a crash |
| `wire` | history: how often a call went upstream, and what the policy asked for at that moment |

`executeCall` is cut at its awaits. `Request` or `Approve` start it: the call is
decided and the connection captured. `Preflight` is `assertAllowed` right
before the request. `Answer` and `Break` are its end. The tool of a sandbox
profile is a Job; `Poll` is the check `sandbox.ts`:437 makes before every look
at it. All administration may happen in between, so may a crash, the sweep of
the lease and a second lease of the same stage.

Abstracted: arguments, results and credentials; one server with one tool; the
rule language of a policy document (the rule that matches is a value); local
identities (see `StageLease`).

### Runs

| Run | Instance | Checks |
|---|---|---|
| `mcp_calls` | an HTTP endpoint whose tool reads and a sandbox profile whose tool writes; two operators; rules "allow" and "critical"; two attempts; two changes or listings | `TypeOK`, `FourEyes`, `NothingWaitsUnderDeny`, `ImplementsLedger` |
| `mcp_effect` | the sandbox profile alone | `EffectNotRepeated` is violated |

* `FourEyes`: what goes upstream has, at that moment, the approvals the policy of
  that moment asks for, each by another operator.
* `NothingWaitsUnderDeny`: switching the kill switch off revives nothing.
* `ImplementsLedger`: a call is sent at most once, whatever repeats or races;
  once closed it stays closed; and each is closed in the end, which is
  liveness, and needs the clock and the maintenance timer.

**Finding.** A change of policy, kill switch or profile between two polls of a
running Job makes the call `rejected` (`db`:6012), although it was started.
`leaseHasUncertainMcpSideEffects` (`db`:15272) counts `executing`, `completed`
and `failed`, so the stage is queued again: `docs/mcp-gateway.md:104` says it
must not be. Apart from a run: two operators approving through two replicas may
each read one approval short of the quorum and leave the call waiting (`db`:5761
takes no lock on the call; the safe side), and a `syncServer` that began before
the endpoint was changed stores the old endpoint's catalogue (`db`:5523).

### Bounds and fairness

Two attempts let a late answer of the first lease meet the calls of the second.
`ApprovalTtl` and `Window` 0 let a deadline pass at the next tick: with
`LeaseTtl` 2 it may pass before and after the lease's. Two changes are a
decision under one policy, a preflight under a second and a poll under a third.
Fair are the clock and the maintenance timer, nothing else: a worker, an
operator or an upstream owes no answer. Fair time alone would not do, as the
worker may renew its lease for ever; the window of the call closes it then.

## 6. Replicas: `Replicas`, `MCReplicas`

### State and actions

`run` and `stage` are the committed rows, `tx` is what each coordinator has
read and locked in its open transaction. A transaction is cut where a statement
reads something that another transaction may change before it is used:
`CreateLock` and `CreateRun` (the quota is counted under the lock of the
project's row); `LeaseSweep`, `LeaseSelect` and `LeaseGrant` (the candidates come
from the snapshot of the statement, are locked with SKIP LOCKED, and a changed
row is looked at again, the counts of the query are not); `CancelRead` and
`CancelWrite`; `DecideRead` and `DecideWrite`. `completeLease`, `failLease` and
the sweep of the maintenance tick lock all they go on to read in their first
statement and are one step. `Abort` is a rollback with everything undone.

Abstracted: one project; nodes, tool calls and identities (see `StageLease`);
processes. Locks are those the statements take; PostgreSQL's own deadlock
detection is a cause of `Abort`.

### Runs

| Run | Instance | Checks |
|---|---|---|
| `replicas` | two replicas, three runs (one with two stages and an approval), two attempts, quota of two open runs, one running stage, one rollback; operators do not race | `TypeOK`, `QueueQuota`, `OneLeaseAtATime`, `ImplementsLifecycle`, `RunsAdvance` |
| `replicas_operators` | two replicas, two runs, operators race | `EndedForGood` is violated |

* `OneLeaseAtATime`: a lease that is held and not late stands; no replica with an
  older reading replaces or ends it.
* `QueueQuota`: the last place is given once (`docs/fleet-ha-1.7.md:114`).
* `RunsAdvance`: neither SKIP LOCKED nor a rollback nor a silent worker leaves a
  run behind.
* `replicas` checks for deadlock: some request is always answered.

**Finding.** `cancelRun` (`db`:11262) and `decideApproval` (`db`:13201) read
without a row lock and then update by id. If a worker's completion commits in
between, a completed run becomes cancelled. `docs/architecture.md:211-213` draws
ends as final, for stages; for runs it is the test that `cancelRun` makes before
it writes (`db`:11253), and that no longer holds when it does. In `replicas`, `OperatorsRace` is FALSE:
operators' two statements follow each other.

Apart from a run: the number of running stages is counted in the snapshot of the
candidates' query (`db`:12320), and a project's row that was only locked is not
read again, so two replicas may both take the last running slot if one commits
between the other's snapshot and its lock. `docs/fleet-ha-1.7.md:199` promises
that a quota is not exceeded with two replicas. That is why `replicas` has no
property on `max_running_tasks`.

### Bounds and fairness

Two replicas are enough for every pair of statements to interleave; three runs
against a quota of two make one be refused or wait; the long chain has a first
stage, a gate and a last one; two attempts let a late lease be given to the other
replica and lapse there again. One rollback is placed anywhere. Fair are the
statements of a transaction that has begun, the polls of workers (each replica
is polled) and that the holder of a lease reports or is late. With one rollback
in all, a candidate whose payload fails to build at every poll is not examined.

## 7. Outbound protocols: `DurableRuntime`, `SiemOutbox`, `ArtifactStore`, `MCOutbound`

Three protocols in which the coordinator's transaction ends at the border of
the database. They share no state, so `MCOutbound` instantiates the three
modules and a behaviour follows one of them, chosen at the start: one run asks
each of the three questions at the price of their sum.

### `DurableRuntime`

| TLA+ | Code |
|---|---|
| `inst` | `process_instances`: a fork of branches, each an optional worker stage and a timer; `cur` is `current_node_id`; `born` counts the instances a key has created |
| `rcpt` | `process_scheduled_start_receipts`: response made, cancellation recorded, or both |
| `wf`, `par` | where `agatProcessWorkflow` and `agatScheduledProcessWorkflow` stand; `wake` says that `revision` differs from the one observed |
| `reqs` | scheduled-start requests under way |
| `note` | the news of an instance since its last tick: none, a notification under way or lost, a change of which nobody is told |
| `coord` | whether the coordinator is up, the instances it has committed and not yet started a workflow for, and those whose start Temporal seemed to refuse |

A request that may time out is sent (`SendStart`), may be lost, arrives once
(`ArriveStart`), and its reply may be lost (the second disjunct of `Tick`,
`CancelCall`, `ArriveStart`, `CancelScheduled`): `MaxFaults` counts crashes,
losses and refusals. `Crash` falls between the commit of an instance and
`Accept`; `Restart` is the loop over `listActiveDurableProcesses`
(`server.ts`:3176).

A tick is two steps. `Tick` is what the coordinator does and answers; `Hear` is
the workflow taking the reply up (`told` in between). A notification, a change,
a crash or a cancellation of the workflow may fall between them. The revision
was read before (`workflows.ts`:157), which is why `Hear` leaves `wake` alone.

Not every change is told. `Notify` is a handler that ends in
`notifyProcessRuntime`, or the same change made by the timer, by another worker's
poll or by the overview (`db`:15248; `Silent`). `Revoke` (`enforceRunIdentities`)
is always silent. When `workflow.start` fails, the request cancels the instance
and notifies nobody (`server.ts`:2185-2187): `Refuse` and then `TakeBack`, and
since the error may be a lost reply, the workflow may have ticked and gone to
sleep in between.

* `ClosedIsSettled`: no workflow closes and leaves an instance that still moves.
* `CancellationStands`: once the cancellation of a scheduled start is recorded, no
  start still under way brings the process to life.
* `SleepsOnNews`: no workflow sleeps through a notification. One that sleeps and
  is not to be woken has the timer the database asks for now, or a notification
  is on its way or lost, or the last change was silent; these the poll finds.
* `InstancesEnd`: every instance ends, and so does every workflow.

Not a property: that the timer is exact. `durableProcessState` (`db`:15160)
looks at the wait of `current_node_id` only; with parallel branches another wait
may come due earlier and is found by the poll, after up to an hour.
`docs/durable-runtime.md:36` says that the workflow sleeps exactly until the
deadline.

### `SiemOutbox`

`row` and `letter` are `audit_export_outbox` and `audit_export_dead_letters` by
event; `batch` is what `pumpSiem` of each coordinator has in hand; `sink` is what
the SIEM has stored. Backoff, lock and retention are flags that time may flip;
`Lapse` of a lock whose exporter is alive is a stall and counts as a fault.

* `LettersMatch`: outbox and letters tell one story through lost locks, crashes,
  replays and retention, and what is called delivered is stored.
* `EventsSettle`: what waits is delivered or given up.

**Finding** (`siem_purged`). `migrateFleetHa` (`db`:3041) gives every event
without an outbox row a new one, at each start over SQLite and in each schema
job over PostgreSQL: also the events whose rows retention has deleted. They are
exported again. `docs/siem-retention-dlq.md:5` describes a finite lifecycle.

### `ArtifactStore`

`row`, `cmd` and `object` are `artifacts`, `artifact_storage_outbox` and the bucket;
`saving`, `job` and `admin` are what is between two steps: a put whose row is
not committed, a claimed deletion, an administrator's command. `LockModes` has
buckets with and without Object Lock.

* `RowsTellTheTruth`: what is ready or on hold has its bytes, what waits for its
  deletion has a command somebody will carry out, what is called deleted is
  gone.
* `DeletionsSettle`: every staged deletion is carried out or given up.

Two divergences seen while modelling have no run. `reconcileArtifactObjects`
quarantines by the state it has read before probing the bucket, and its UPDATE
(`db`:14468) excludes `deleted` only: a row staged and deleted meanwhile becomes
`missing` and stays so (`docs/s3-artifact-store-lifecycle.md:157` spares
`delete_pending`). And a coordinator whose claim has lapsed marks the row
`delete_failed` after its last attempt whether or not it still holds the command
(`db`:14596). `RowsTellTheTruth` therefore says nothing of rows that are
`missing` or `delete_failed`. Migration and reconciliation are one process here:
run side by side, an object just put and not yet referenced is an orphan if the
put found an old copy; the docs ask that they be coordinated.

### Run, bounds and fairness

| Run | Instance | Checks |
|---|---|---|
| `outbound` | one instance started by a request or by a schedule, two branches, one of which begins with a worker's stage, four faults; two events, two exporters, two attempts, one replay, one fault; one artifact, two coordinators, two attempts, three faults | `TypeOK`, `ClosedIsSettled`, `CancellationStands`, `SleepsOnNews`, `LettersMatch`, `RowsTellTheTruth`, `InstancesEnd`, `EventsSettle`, `DeletionsSettle` |
| `siem_purged` | two events, one exporter, one fault | `PurgedForGood` is violated |

Four faults allow a lost start, a lost reply, a lost notification and a crash in
one behaviour; two requests of the same key may be under way (`MaxSends`). Two
events and a batch of two separate "the whole batch" from "the rows still
held"; two coordinators are a lapsed claim and its successor. Artifacts do not
interact, so one is enough. Each system may stop when all is settled, so
`CHECK_DEADLOCK FALSE`.

Fair are: the coordinator is started again; activities are retried without
limit (the default of Temporal, which the code keeps); timers fire
(`setInterval` in `server.ts`, `condition` and `sleep` of workflows); a request
to the SIEM or to S3 ends (`AbortSignal.timeout`, the SDK's timeouts); backoffs
and the locks of crashed holders lapse; workers carry out stages and
compensations or fail at them. Not fair: recording events, anything an
administrator or an operator does, retention, faults.

## 8. Proofs

`StageLeaseProofs` proves, for all values of the
constants that satisfy the named assumptions of `StageLease` (any number of
runs, stages, attempts, nodes and projects):

| Theorem | States |
|---|---|
| `Typed` | `Spec => []TypeOK` |
| `ChainsAdvanceInOrder` | `Spec => []ChainOrder` |
| `LedgerBalanced` | `Spec => []LeaseLedger` |
| `WipedNodesHoldNothing` | `Spec => []WipedHoldsNothing` |
| `LeasesSettleOnce` | `Spec => LeaseSettledOnce` |
| `RevokedRunsStandStill` | `Spec => RevokedStandsStill` |
| `GateHolds` | `Spec => ApprovalGate` |
| `LimitsHold` | `Spec => CapsRespected` |
| `DispatchKeepsThePromise` | `Spec => ImplementsLifecycle` |
| `RiskyCallsAreNotRepeated` | `~Console`, `~ToolCrashes` imply `Spec => []RiskyCallNotRetried` (of calls that were not rejected while they ran) |

The inductive invariant `IInv` joins `TypeOK`, the chain of every run and the
ledger of every stage. None of them is inductive alone: that the type of
`attempt` is kept by a grant needs the ledger (a queued stage has an attempt
left), that a sweep expires at most one stage of a run needs the chain, and that
a completion settles an open lease needs the ledger again. The lemmas come in
three layers: what each function on the database does to each column; that it
keeps `Good`; and that it settles no lease twice and starts no stage
(`Follows`), which composes, so that an action that chains three functions is
proved by chaining three lemmas.

The action properties and the refinement rest on a normal form of steps. Every
step creates a run, or leaves a database that `Recedes` from the one before
(stages are queued again or given up, nothing is started or completed), or recedes
first and then grants or completes one lease or decides one approval (`Step`, lemma
`NextStep`). What is claimed of every step is then proved of four kinds of step.
`LimitsHold` assumes no finite set of runs: that finitely many are running is an
invariant of its own (`FinitelyManyRun`), because a step starts one at most. For
the refinement a step keeps what was promised for a run, submits it, or carries
it from `1..k-1` completed stages to `1..k`.

`RiskyCallNotRetried` holds under the two hypotheses only, those of the run
`stage_lease_retry`: the run `stage_lease_overview` shows the violation with
`Console`. `Sent` strengthens it: the stage's lease is still the one that sent the
call, and while it runs the call is known as executing or settled, so whatever
takes the lease back fails the stage. `RejectToolCall` takes a call out of what
the property speaks of, unless one before it in the same lease has finished.

`ReplicasProofs` proves, under `LimitsAssumption` and provided that operators do
not race (`~OperatorsRace`; the run `replicas_operators` shows that it is needed),
for any number of replicas, runs, stages and attempts:

| Theorem | States |
|---|---|
| `Typed` | `Spec => []TypeOK` |
| `QueueQuotaKept` | `Spec => []QueueQuota` |
| `LeasesStandAcrossReplicas` | `Spec => OneLeaseAtATime` |
| `EndedStaysEnded` | `Spec => EndedForGood` |
| `ReplicasKeepThePromise` | `Spec => ImplementsLifecycle` |

The inductive invariant has two halves. `Good` speaks of committed rows: every
active stage has an open run, nothing has begun behind a stage that is not
completed (so a run has one active stage, and a sweep finds one stage of it), and
a queued stage has an attempt left. `Sweeping`, `Creating` and `Deciding` speak of
the transactions under way: what a sweep has taken is late, locked and nobody
else's until the commit; the room counted under the project's lock is still
there; what an operator has read still stands. `RowsStep` and `ReadStep` say once
what a step must respect so that the readings of the others stay true, and each
action is shown to respect it. `IInv` was first checked by TLC on the instance of
the run `replicas`. The refinement needs no more than `Good`: since nothing has begun
behind the stage that is completed and nothing is left before it, the completed
stages of its run are those up to it, and their number is its position.

`McpCallsProofs` proves, under the named assumptions of `McpCalls`, for any number
of attempts, calls, operators, targets, rules and changes of policy:

| Theorem | States |
|---|---|
| `Typed` | `Spec => []TypeOK` |
| `FourEyesKept` | `Spec => []FourEyes` |
| `NothingWaits` | `Spec => []NothingWaitsUnderDeny` |
| `LedgerKept` | `Spec => Ledger!Init /\ [][Ledger!Next]_(Ledger!vars)` |

`FourEyes` is not inductive: a call that waits with something already sent could
lose an approver to `Reject`, one about to be sent could be sent again. `Sound`
adds that a call not yet started has sent nothing and one between decision and
effect has not sent before, and `LeaseLeft` that a queued stage has an attempt
left, which the type of the lease needs. Nearly every action is quiet
(`QuietStep`): it leaves a call as it is, starts it or closes it, and sends
nothing; a quiet step closes a set of calls of the ledger. `RequestStep` and
`PreflightStep` are the two that do more. `LedgerKept` is the safety half of the
refinement `ImplementsLedger`.

`DurableRuntimeProofs` and `ArtifactStoreProofs` prove, under the
`ConstantsAssumption` of each module, for any number of instances, keys, branches,
artifacts, coordinators, attempts and faults:

| Module | Theorem | States |
|---|---|---|
| `DurableRuntimeProofs` | `Typed` | `Spec => []TypeOK` |
| | `RuntimeAgrees` | `Spec => [](ClosedIsSettled /\ CancellationStands /\ SleepsOnNews)` |
| `ArtifactStoreProofs` | `Typed` | `Spec => []TypeOK` |
| | `RowsAndObjectsAgree` | `Spec => []RowsTellTheTruth` |

Both invariants tie every participant to the row it speaks of. In
`DurableRuntime`, `InstanceTied` says where a workflow may stand for each state of
its instance, and `ScheduleTied` what receipt, parent and child know of each other;
the three properties follow at once, none is inductive without the others. A
workflow that has been told and has not yet heard is tied like one that sleeps:
the reply it holds is the database's, or there has been news since. In
`ArtifactStore`, `RowTied` gives for each state of a row the command, the bytes and
the holders of a claim that go with it, and `AdminTied` what an administrator's
process still remembers of an artifact when it writes.

`OutboundProofs` carries these results over to `MCOutbound`, whose behaviours
follow one of the three protocols, and proves the third of them, the export of
audit events, in place, for any number of coordinators, events, attempts, replays
and faults:

| Theorem | States |
|---|---|
| `Typed` | `Spec => []TypeOK` |
| `WorkflowsCloseLast` | `Spec => []ClosedIsSettled` |
| `CancelledStartsStayDead` | `Spec => []CancellationStands` |
| `SleepersAreUpToDate` | `Spec => []SleepsOnNews` |
| `OutboxAndLettersAgree` | `Spec => []LettersMatch` |
| `RowsAndObjectsAgree` | `Spec => []RowsTellTheTruth` |

`LettersMatch` is not inductive: nothing in it forbids an open letter of an
event still to be recorded, or an exporter that takes for stored what the sink
does not have. `SiemInv` adds `KnownEvents` (only recorded events have rows or are
in anyone's hand) and `StoredIsInSink`. The steps that change no more than a row
under way (backoff, lapse, crash, region) share one lemma, `SiemQuietHolds`; the
one that matters is `SiemFailedHolds`: row and letter of an event are settled by
the same condition, that this exporter still holds the row.

`ProcessEngineSteps` and `ProcessEngineProofs` prove, under the named assumptions
of `ProcessEngine`, for any graph that `normalizeProcessGraph` accepts, any finite
set of instances and any bounds:

| Module | Theorem | States |
|---|---|---|
| `ProcessEngineSteps` | `EngineTyped` | `Spec => []TypeOK` |
| `ProcessEngineProofs` | `EngineStops` | `Orderly` implies `Spec => [](~thrown => StoppedForGood)` |
| | `EngineTokens` | `Orderly` implies `Spec => [](~thrown => TokensAtWork)` |
| | `EngineQuiet` | `Orderly` implies `Spec => [](~thrown => EndedIsQuiet)` |
| | `EngineSaga` | `Orderly` implies `Spec => [](~thrown => SagaSettled)` |
| | `EngineImplementsSaga` | `Orderly` implies `Spec /\ []~thrown => ImplementsSaga` |
| | `EngineFinds` | `Orderly` implies `Spec => []QueuedIsFound` |
| | `EngineJoins` | `Orderly` and `Nested(I)` for some `I` imply `Spec => [](~thrown => JoinsWillWake)` |
| | `EngineFamilies` | `Orderly` implies `Spec => []FamilyTied` |

(`QueuedIsFound` and `FamilyTied` have the condition `~thrown` in themselves.)
The condition is not one on the constants: it says of a behaviour how far the
claim reaches, and `process_thrown` shows a behaviour that goes beyond it. That
the other invariants hold of the rest, too, is checked by `process_graphs` and
not proved. Only `EngineTyped` has no condition at all.

A handler makes calls that make calls, as many as the graph asks for. `CarryRule`
turns an invariant of the single call into one of the handler: what holds of the
database and the stack of calls before the first call, and is kept by every call,
holds when the stack is empty. `ProcessEngineSteps` says what each call and the
beginning of each handler does (`CallCase`, `Begins`, `PlainStep`): a normal form
in which the later proofs go through a dozen cases instead of the text of the
methods, and in which `Touches` says what a call leaves alone.

Between two calls of one handler neither property is true: an instance that is
being stopped has no tokens and still has stages, a branch that is still to be
entered has a token and no stage. `Sound` says what is true then, of the database
and the stack together. `AllFit` ties an instance's status to its error, tokens,
stages, waits and links. `AllAtWork` says that the active tokens of an open
instance are those of its open stages and those that a call of the stack will
move, each once. `InOrder` says what may stand behind what on the stack: before a
call that needs its instance open come only calls that cannot close it. This is
where `Orderly` is needed, and nowhere else: for a fork it says that the branches
before the last are entered over calm steps, for the sweep that it gives back one
stage. `LinksOnce` and `Guarded` see to it that the cascade through a family of
instances stops an instance once and never comes back to the one it left. TLC
found the whole of `Sound` to hold after every call of every handler of the
passing run before any of it was proved. A revocation of an open instance is
another handler that begins with a call that stops it, on a database with
nothing left to compensate; of a compensating one it ends in the call to the
parent.

The books of the saga need a second invariant over the stack, `AllEven`: every
row of `process_compensations` fits the stage it is for and the status of the
instance (`EffectFits`), every queued compensation is the only one of its call
(`UndoneOnce`), and a compensating instance has exactly one queued, the newest,
unless the call that queues the next is on the stack (`Unwinds`). `SagaPath`
follows one instance from the beginning of a handler to any call of it and says
that what has happened so far is nothing or one step of `Saga`; with `HasEffects`,
that the handler found something to undo, the last call gives `SagaStep`. For a
revocation `Dropped` says that the instance had its rows let go before the first
call, and no call of the handler gains it a new one.

`QueuedIsFound` is about one status that all branches of an instance overwrite.
Between two calls it is wrong whenever a branch that waits was entered after one
that is queued; `Findable` says what repairs it: a call to `syncProcessStatus`
stands behind every call that moves a token of the instance (`SyncsLast`), or the
status is right (`Shown`) and at most one token is to be moved, with nothing
queued (`Lonely`).

`JoinsWillWake` is false for some graphs the code accepts, so `EngineJoins` is
about graphs whose forks are well nested: `Nested(inside)` names for every fork
the steps between it and its join, and says that a branch leaves them only at
the join, that no end is among them (checked, `canReachEndBeforeNode`) and that no
branch comes back to its own fork (not checked: the loop of
`process-engine.ts`:520 may repeat from a step before the fork; the hazard of that
line). TLC evaluates `NestedSteps`, an `inside` for all graphs of the runs.
`Along` says that a token's step is inside every fork its way names, and that the
way names each fork once; so what reaches an end is the root token, and what
waits at a join comes from the join's own fork. `Woken` says that every forked
token has all the branches of one fork under way and one of them not yet at the
join; `AllWoken` says so of every open instance that no call of the stack is
about to close. With `WayCalls`, that the calls of the stack move their tokens
along the same ways, they make `JoinsInv`.

`FamilyTied` speaks of two instances, and between two calls of a handler neither
half is true of the database alone: a child has been started whose link is not
yet made, a child has ended whose parent has not yet heard, a parent is stopped
child by child. `Tied(d, S)` reads the database together with the set `S` of the
calls still to be made: a link whose child has ended has a call to the parent in
`S` (`Told`), a stage that waits has a running link, or the call that makes it,
or its instance is about to be stopped (`Linked`), and an open child has such a
stage or is about to be stopped itself (`Parented`). `Owes` says what the calls a
call leaves must take over from it. That a call which starts a child is never
passed by the one that stops its parent comes from `InOrder` (`NoLinkAfter`); that
one call to the parent settles the only link of the child, from `LinksOnce`.

Only model-checked: all liveness (`RunsAdvance`, `InstancesEnd`, `EventsSettle`,
`DeletionsSettle`, the liveness in `ImplementsLedger`), which is out of the
prover's reach; and of `ProcessEngine` the action property `JoinNeedsAll`, which
compares the tokens before a handler with those after all of its calls: it needs
an invariant of the calls that says of every fork which one of its branches this
handler moves, itself or through a child, and that invariant is not stated yet.
Every other invariant and action property that a passing run checks is proved,
those of the process engine up to an error that leaves a handler half-way.

## 9. Not modelled

The components with status `not_modelled` or `partly` in `PROJECT.json`, each
with its reason. In particular:

* Stage dispatch: retention and deletion of runs, artifact promotion, business
  reports refused on completion, model routing, embedding jobs in the counts.
* Process engine: live and safe replay beyond "the step is internal", start at a
  chosen node, deletion of instances, processes on several replicas. The steps of
  `maintenanceTick` follow each other in one call; here they are steps taken in
  any order, which allows more. Errors other than those of a child's start that
  would leave the timer half-way (the database fails) are left out.
* Durable runtime: errors Temporal is told not to retry (`activities.ts`:115, a
  4xx of the coordinator ends the workflow), histories of older workers,
  administration of schedules, `expireProcessSignals` for instances of Temporal
  (the poll finds what it changed).
* Artifacts: reading, rendering and export, the file-system and PostgreSQL
  stores, the bucket's own lifecycle rules, the relocation of rows and commands
  when a lost region is activated (`region-loss-dr.ts`:759).
* Embedding jobs, A2A, enrollment and attestation of edge nodes, webhooks: plan.

Most of the repository's lines are none of these protocols: the web console and
native applications, document rendering and charts, parsing and validation of
requests and configuration, schema migrations, type declarations, read-only
listings, evaluation and reports. They hold no state that several actors change,
so a model of them would be a transcription; the models cover a small share of
all lines and most of those where handlers, timers and replicas meet.
