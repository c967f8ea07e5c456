---------------------------- MODULE ProcessEngine ----------------------------
(***************************************************************************)
(* The process engine of the Agat coordinator: instances of published      *)
(* graphs carried out by execution tokens, with parallel forks and joins,  *)
(* conditions and bounded loops, waits, external signals, operator         *)
(* approvals, embedded subprocesses and compensation of HTTP calls.        *)
(*                                                                         *)
(* One coordinator process: every handler runs its store calls to the end, *)
(* so a handler is one action, and the chain of calls it sets off -- a     *)
(* token that runs through internal steps, a join that wakes the parent    *)
(* token, a child that ends and moves its parent, a failure that closes a  *)
(* whole family of instances -- is a chain of functions on the database    *)
(* value `db`, one for each method of AgatStore.                           *)
(*                                                                         *)
(* Data abstracted: what a condition finds in the last output and which    *)
(* steps cannot be carried out (a credential that no longer opens, a       *)
(* report that fails its validation, a subprocess without input) are free  *)
(* choices of each handler, the record `w`; deadlines of waits and signals *)
(* may pass at any time; leases have an owner and a number in StageLease,  *)
(* here a running stage is just live or lapsed; a step whose output is     *)
(* reused by a safe replay is a step of kind "internal".                   *)
(***************************************************************************)
EXTENDS Integers, Sequences, FiniteSets, SequencesExt, TLC

CONSTANTS
  Instances,      (* Instances that may be started, children included.       *)
  Graph,          (* node -> [kind, to], the snapshots in graph_json; each   *)
                  (* node belongs to one instance.                           *)
  NodesOf,        (* The nodes of each instance's graph.                     *)
  StartOf,        (* The start node of each instance's graph.                *)
  ForkOf,         (* The fork each join is paired with (config.forkId).      *)
  ChildOf,        (* The instance a subprocess node starts.                  *)
  Compensated,    (* HTTP nodes with a compensation request.                 *)
  Timed,          (* Signal nodes with signalTimeoutSeconds > 0.             *)
  Contracted,     (* Agent nodes with an output contract.                    *)
  Fragile,        (* Nodes that may turn out impossible to carry out.        *)
  MaxAttempts,    (* stages.max_attempts.                                    *)
  MaxIterations,  (* config.maxIterations of the loops.                      *)
  MaxMoves,       (* BOUND: stands for the limit of 1000 transitions.        *)
  MaxCalls,       (* BOUND: the calls one handler may set off.               *)
  LapseTogether   (* Several leases may have expired when the sweep runs.    *)

GNodes  == DOMAIN Graph
Kind(n) == Graph[n].kind
To(n)   == Graph[n].to

(* The steps that leave a stage behind, "gated" being an agent step that    *)
(* needs an approval first.                                                 *)
StageKinds == {"agent", "gated", "http", "wait", "approval", "signal", "subprocess", "internal"}
NodeKinds  == StageKinds \cup {"start", "condition", "loop", "fork", "join", "end"}

Choosers == {n \in GNodes : Kind(n) \in {"condition", "loop"}}

(* What normalizeProcessGraph guarantees of a published graph.              *)
ASSUME GraphAssumption ==
  /\ \A n \in GNodes :
       /\ Kind(n) \in NodeKinds
       /\ To(n) \in Seq(GNodes)
       /\ Len(To(n)) \in (CASE Kind(n) = "end"  -> {0}
                            [] Kind(n) = "fork" -> 2..16
                            [] n \in Choosers   -> {2}
                            [] OTHER            -> {1})
       /\ Kind(n) = "fork" => \E j \in DOMAIN ForkOf : ForkOf[j] = n
  /\ DOMAIN ForkOf = {n \in GNodes : Kind(n) = "join"}
  /\ \A j \in DOMAIN ForkOf : ForkOf[j] \in GNodes /\ Kind(ForkOf[j]) = "fork"
  /\ \A i \in Instances : StartOf[i] \in NodesOf[i] /\ NodesOf[i] \subseteq GNodes
  /\ \A i \in Instances : \A n \in NodesOf[i] : \A b \in DOMAIN To(n) : To(n)[b] \in NodesOf[i]
  /\ Compensated \subseteq {n \in GNodes : Kind(n) = "http"}
  /\ Timed \subseteq {n \in GNodes : Kind(n) = "signal"}
  /\ Contracted \subseteq {n \in GNodes : Kind(n) \in {"agent", "gated"}}
  /\ Fragile \subseteq {n \in GNodes : Kind(n) \in {"agent", "gated", "http", "internal", "subprocess"}}

Children == {ChildOf[n] : n \in DOMAIN ChildOf}

(* The instances that c starts, those that they start, and so on, with c.   *)
Family(c) ==
  {j \in Instances : \A S \in SUBSET Instances :
     /\ c \in S
     /\ \A i \in S : \A n \in NodesOf[i] \cap DOMAIN ChildOf : ChildOf[n] \in S
     => j \in S}

(* An instance is named by the step that starts it: startProcessLocked      *)
(* gives it a new id.                                                       *)
ASSUME FamilyAssumption ==
  /\ DOMAIN ChildOf = {n \in GNodes : Kind(n) = "subprocess"}
  /\ \A n \in DOMAIN ChildOf : ChildOf[n] \in Instances
  /\ \A m, n \in DOMAIN ChildOf : ChildOf[m] = ChildOf[n] => m = n
  /\ \A i, j \in Instances : NodesOf[i] \cap NodesOf[j] # {} => i = j
  /\ \A i \in Instances : \A n \in NodesOf[i] \cap DOMAIN ChildOf : i \notin Family(ChildOf[n])

ASSUME InstancesAssumption == IsFiniteSet(Instances)

ASSUME LimitsAssumption ==
  /\ MaxAttempts \in Nat \ {0} /\ MaxIterations \in Nat /\ MaxMoves \in Nat \ {0}
  /\ MaxCalls \in Nat
  /\ LapseTogether \in BOOLEAN

OpenInst  == {"queued", "running", "waiting_approval", "waiting_external"}
Ended     == {"completed", "failed", "cancelled"}
OpenStage == {"queued", "running", "waiting_approval", "waiting_external"}
LiveToken == {"active", "forked", "waiting_join"}
NoToken   == <<"none">>      (* process_token_id of a compensation stage.     *)
Root      == <<>>            (* The token an instance starts with.            *)

VARIABLES
  db,        (* process_instances, runs, stages, process_tokens, and the rows *)
             (* of process_signal_waits, process_subprocess_links and         *)
             (* process_compensations, each kept with the stage it is for.    *)
  blocked,   (* HISTORY: the instances whose powers were revoked (the events  *)
             (* identity.run.blocked).                                        *)
  thrown     (* HISTORY: an error has left a handler half-way.                *)

vars == <<db, blocked, thrown>>

(* A token is named by its way through the forks: the branch b of fork n,   *)
(* taken by token t, is Append(t, <<n, b>>).  The stages of an instance are *)
(* a sequence, stages.position being the place in it.  `lapsed` is set when *)
(* the deadline of a running stage has passed; `row` is the state of the    *)
(* side table's row; `of` is the stage that a compensation undoes; `ending` *)
(* is terminal_status_after_compensation; `error`: is error NOT NULL.       *)
NewStage(n, t, kind, status) ==
  [node |-> n, token |-> t, kind |-> kind, status |-> status, attempt |-> 0,
   lapsed |-> FALSE, row |-> IF kind = "signal" THEN "waiting" ELSE "none", of |-> 0]

Init ==
  /\ blocked = {} /\ thrown = FALSE
  /\ db =
       [inst   |-> [i \in Instances |-> "absent"],
        run    |-> [i \in Instances |-> "absent"],
        ending |-> [i \in Instances |-> "none"],
        error  |-> [i \in Instances |-> FALSE],
        moves  |-> [i \in Instances |-> 0],
        loops  |-> [n \in Choosers |-> 0],
        stages |-> [i \in Instances |-> <<>>],
        token  |-> [i \in Instances |-> <<>>]]

(* The outcomes a handler may meet: the conditions that hold, the nodes that *)
(* cannot be carried out, and the children that are not started (no such    *)
(* process, or an input against the contract; DueWaitThrown has the         *)
(* others); chosen for the nodes of the instances in S and of the children  *)
(* they may start.                                                          *)
Worlds(S) ==
  LET own     == UNION {NodesOf[i] : i \in S}
      nodes   == own \cup IF own \cap DOMAIN ChildOf = {} THEN {}
                         ELSE UNION {NodesOf[c] : c \in Children}
      fragile == Fragile \cap nodes
  IN  [holds : SUBSET (Choosers \cap nodes), broken : SUBSET fragile,
       refused : SUBSET (fragile \cap DOMAIN ChildOf)]

Present == {i \in Instances : db.inst[i] # "absent"}

Slots(d, i) == DOMAIN d.stages[i]
InStatus(d, i, S) == {k \in Slots(d, i) : d.stages[i][k].status \in S}
Live(d, i)  == {t \in DOMAIN d.token[i] : d.token[i][t] \in LiveToken}

(* The two statements that set runs.status and process_instances.status.    *)
Stand(d, i, s) == [d EXCEPT !.inst[i] = s, !.run[i] = s]

SetStage(d, i, k, s) == [d EXCEPT !.stages[i][k] = [@ EXCEPT !.status = s, !.lapsed = FALSE]]
SetRow(d, i, k, s)   == [d EXCEPT !.stages[i][k].row = s]
Insert(d, i, stage)  == [d EXCEPT !.stages[i] = Append(@, stage)]

CloseStages(d, i, s) ==
  [d EXCEPT !.stages[i] = [k \in DOMAIN @ |->
     IF @[k].status \in OpenStage THEN [@[k] EXCEPT !.status = s, !.lapsed = FALSE]
     ELSE @[k]]]

(* MUTANT of Sync: approvals come before the queue.                         *)
SyncApprovalFirst(d, i) ==
  LET Some(s) == InStatus(d, i, {s}) # {}
      status  == IF Some("running") THEN "running"
                 ELSE IF Some("waiting_approval") THEN "waiting_approval"
                 ELSE IF Some("queued") THEN "queued"
                 ELSE IF Some("waiting_external") THEN "waiting_external"
                 ELSE IF Live(d, i) # {} THEN "running" ELSE d.inst[i]
  IN  IF d.inst[i] \in Ended \cup {"compensating"} THEN d ELSE Stand(d, i, status)

(* MUTANT of Sync: a compensating instance is summed up like an open one.   *)
SyncCompensating(d, i) ==
  LET Some(s) == InStatus(d, i, {s}) # {}
  IN  IF d.inst[i] \in Ended THEN d
      ELSE IF Some("running") THEN Stand(d, i, "running")
      ELSE IF Some("queued") THEN Stand(d, i, "queued") ELSE d

(* syncProcessAggregateStatus: the instance stands at the most urgent       *)
(* status among its open stages.                                            *)
Sync(d, i) ==
  LET Some(s) == InStatus(d, i, {s}) # {}
      status  == IF Some("running") THEN "running"
                 ELSE IF Some("queued") THEN "queued"
                 ELSE IF Some("waiting_approval") THEN "waiting_approval"
                 ELSE IF Some("waiting_external") THEN "waiting_external"
                 ELSE IF Live(d, i) # {} THEN "running" ELSE d.inst[i]
  IN  IF d.inst[i] \in Ended \cup {"compensating"} THEN d ELSE Stand(d, i, status)

(***************************************************************************)
(* The methods that call each other.  A method takes the database d and    *)
(* returns Do(e, calls): the database e it leaves, and the calls it makes   *)
(* then, in their order.  `todo` is the program's stack of calls, the next  *)
(* one first.  w is the world the handler meets.                           *)
(***************************************************************************)
Do(d, calls) == [db |-> d, todo |-> calls]
Done(d)      == Do(d, <<>>)

ToAdvance(i, t, n) == [method |-> "advance", i |-> i, t |-> t, n |-> n]
ToFail(i, s)       == [method |-> "fail", i |-> i, s |-> s]
ToStop(i, s)       == [method |-> "stop", i |-> i, s |-> s]
ToCompensate(i)    == [method |-> "compensate", i |-> i]
ToParent(c)        == [method |-> "parent", i |-> c]
ToLink(i, k)       == [method |-> "link", i |-> i, k |-> k]
ToSync(i)          == [method |-> "sync", i |-> i]
ToGiveBack(i, k, again) == [method |-> "giveback", i |-> i, k |-> k, again |-> again]

(* finalizeProcessTerminal.                                                 *)
Finalize(d, i, s) ==
  Do([Stand(CloseStages(d, i, s), i, s) EXCEPT !.error[i] = TRUE], <<ToParent(i)>>)

Armed(d, i) == {k \in Slots(d, i) : d.stages[i][k].row = "armed"}

(* The compensation of stage k of i joins the queue.                        *)
Undo(d, i, k) ==
  LET undo == [NewStage(d.stages[i][k].node, NoToken, "compensation", "queued") EXCEPT !.of = k]
  IN  Done(SetRow(Insert(d, i, undo), i, k, "queued"))

(* MUTANT of NextCompensation: the earliest one first.                      *)
EarliestCompensation(d, i) ==
  IF Armed(d, i) = {}
    THEN Finalize(d, i, IF d.ending[i] = "cancelled" THEN "cancelled" ELSE "failed")
  ELSE Undo(d, i, CHOOSE k \in Armed(d, i) : \A j \in Armed(d, i) : j >= k)

(* queueNextCompensation: the armed one of the latest stage, or the end.    *)
NextCompensation(d, i) ==
  IF Armed(d, i) = {}
    THEN Finalize(d, i, IF d.ending[i] = "cancelled" THEN "cancelled" ELSE "failed")
  ELSE Undo(d, i, CHOOSE k \in Armed(d, i) : \A j \in Armed(d, i) : j <= k)

(* The stages of i whose subprocess link is running.                        *)
RunningLinks(d, i) ==
  {k \in Slots(d, i) : d.stages[i][k].kind = "subprocess" /\ d.stages[i][k].row = "running"}

(* MUTANT of Quiesce: signal waits stay as they are.                        *)
QuiesceTokensOnly(d, i) ==
  [d EXCEPT
     !.token[i] = [t \in DOMAIN @ |-> IF @[t] \in LiveToken THEN "cancelled" ELSE @[t]]]

(* quiesceProcessExecution up to its loop: waits and tokens are closed.     *)
Quiesce(d, i) ==
  [d EXCEPT
     !.stages[i] = [k \in DOMAIN @ |->
        IF @[k].row = "waiting" THEN [@[k] EXCEPT !.row = "cancelled"] ELSE @[k]],
     !.token[i] = [t \in DOMAIN @ |-> IF @[t] \in LiveToken THEN "cancelled" ELSE @[t]]]

(* triggerProcessFailure: the execution is quiesced, which begins with the   *)
(* waits and the tokens and goes on with the children (Stop).               *)
Fail(d, i, s) ==
  IF d.inst[i] \notin OpenInst THEN Done(d) ELSE Do(Quiesce(d, i), <<ToStop(i, s)>>)

(* MUTANT of Detach: the child is detached and goes on.                     *)
DetachAlone(d, i, s) ==
  LET k == CHOOSE k \in RunningLinks(d, i) : \A j \in RunningLinks(d, i) : k <= j
  IN  Do(SetRow(d, i, k, "cancelled"), <<ToStop(i, s)>>)

(* quiesceProcessExecution, the loop: a running child is detached, then     *)
(* cancelled.                                                               *)
Detach(d, i, s) ==
  LET k == CHOOSE k \in RunningLinks(d, i) : \A j \in RunningLinks(d, i) : k <= j
  IN  Do(SetRow(d, i, k, "cancelled"),
         <<ToFail(ChildOf[d.stages[i][k].node], "cancelled"), ToStop(i, s)>>)

(* triggerProcessFailure, once the execution is quiesced.                   *)
Close(d, i, s) ==
  IF Armed(d, i) = {} THEN Finalize(d, i, s)
  ELSE Do([Stand(CloseStages(d, i, "cancelled"), i, "compensating")
             EXCEPT !.ending[i] = s, !.error[i] = TRUE],
          <<ToCompensate(i)>>)

Stop(d, i, s) == IF RunningLinks(d, i) = {} THEN Close(d, i, s) ELSE Detach(d, i, s)

(* The stages that wait for the instance c, with a link that still runs.    *)
LinksTo(d, c) ==
  {l \in UNION {{i} \X Slots(d, i) : i \in Instances} :
     LET st == d.stages[l[1]][l[2]]
     IN  st.kind = "subprocess" /\ st.row = "running" /\ ChildOf[st.node] = c}

(* MUTANT of CompleteParent: the parent is not told of a cancelled child.   *)
CompleteParentUnlessCancelled(d, c) ==
  LET l  == CHOOSE l \in LinksTo(d, c) : TRUE
      p  == l[1]
      k  == l[2]
      st == d.stages[p][k]
      ended == SetRow(d, p, k, d.inst[c])
  IN  IF LinksTo(d, c) = {} \/ d.inst[c] \notin {"completed", "failed"} THEN Done(d)
      ELSE IF d.inst[p] \notin OpenInst THEN Done(SetRow(d, p, k, "cancelled"))
      ELSE IF d.inst[c] = "completed"
        THEN Do(SetStage(ended, p, k, "completed"),
                <<ToAdvance(p, st.token, To(st.node)[1]), ToSync(p)>>)
      ELSE Do(SetStage(ended, p, k, "failed"), <<ToFail(p, "failed")>>)

(* completeParentSubprocess: the link of an ended child, if it still runs.  *)
CompleteParent(d, c) ==
  LET l  == CHOOSE l \in LinksTo(d, c) : TRUE
      p  == l[1]
      k  == l[2]
      st == d.stages[p][k]
      ended == SetRow(d, p, k, d.inst[c])
  IN  IF LinksTo(d, c) = {} \/ d.inst[c] \notin Ended THEN Done(d)
      ELSE IF d.inst[p] \notin OpenInst THEN Done(SetRow(d, p, k, "cancelled"))
      ELSE IF d.inst[c] = "completed"
        THEN Do(SetStage(ended, p, k, "completed"),
                <<ToAdvance(p, st.token, To(st.node)[1]), ToSync(p)>>)
      ELSE Do(SetStage(ended, p, k, "failed"), <<ToFail(p, "failed")>>)

(* startProcessLocked.                                                      *)
StartProcess(d, i) ==
  Do([Stand(d, i, "queued") EXCEPT !.token[i] = [t \in {Root} |-> "active"]],
     <<ToAdvance(i, Root, StartOf[i])>>)

(* queueProcessSubprocess: the waiting stage, then the child, then the      *)
(* link (Link), which a child that ended at once is told about only now.    *)
(* BOUND: a subprocess step starts its child once; a second start never     *)
(* returns.                                                                 *)
Subprocess(d, i, t, n, w) ==
  LET stage == NewStage(n, t, "subprocess", "waiting_external")
      here  == Stand(Insert(d, i, stage), i, "waiting_external")
      child == StartProcess(here, ChildOf[n])
  IN  IF n \in w.broken THEN Do(d, <<ToFail(i, "failed")>>)
      ELSE IF n \in w.refused THEN Do(here, <<ToFail(i, "failed")>>)
      ELSE IF d.inst[ChildOf[n]] # "absent" THEN Do(d, <<ToAdvance(i, t, n)>>)
      ELSE Do(child.db, child.todo \o <<ToLink(i, Len(here.stages[i]))>>)

Link(d, i, k) ==
  Do(SetRow(d, i, k, "running"), <<ToParent(ChildOf[d.stages[i][k].node])>>)

(* MUTANT of QueueStage: the compensation is armed before the call is made. *)
QueueStageArmed(d, i, t, n) ==
  LET kind   == IF Kind(n) = "gated" THEN "agent" ELSE Kind(n)
      status == CASE Kind(n) \in {"gated", "approval"} -> "waiting_approval"
                  [] Kind(n) = "signal" -> "waiting_external"
                  [] OTHER -> "queued"
      stage  == NewStage(n, t, kind, status)
  IN  Stand(Insert(d, i, IF n \in Compensated THEN [stage EXCEPT !.row = "armed"] ELSE stage),
            i, status)

(* queueProcessAgent, -Http, -Wait, -Approval and -Signal: the stage and    *)
(* the status that goes with it.                                            *)
QueueStage(d, i, t, n) ==
  LET kind   == IF Kind(n) = "gated" THEN "agent" ELSE Kind(n)
      status == CASE Kind(n) \in {"gated", "approval"} -> "waiting_approval"
                  [] Kind(n) = "signal" -> "waiting_external"
                  [] OTHER -> "queued"
  IN  Stand(Insert(d, i, NewStage(n, t, kind, status)), i, status)

Branch(t, n, b) == Append(t, <<n, b>>)
Branches(t, n)  == {Branch(t, n, b) : b \in DOMAIN To(n)}

(* The tokens in B get the status s, and p the status r.                    *)
Mark(f, B, s, p, r) ==
  [c \in B \cup {p} \cup DOMAIN f |-> IF c \in B THEN s ELSE IF c = p THEN r ELSE f[c]]

(* parallel_fork: every branch is advanced in turn, whatever became of the  *)
(* instance under the branches before it.                                   *)
Fork(d, i, t, n) ==
  Do([d EXCEPT !.token[i] = Mark(@, Branches(t, n), "active", t, "forked")],
     [b \in DOMAIN To(n) |-> ToAdvance(i, Branch(t, n, b), To(n)[b])] \o <<ToSync(i)>>)

(* MUTANT of Join: one branch may still be missing.                         *)
JoinButOne(d, i, t, n) ==
  LET parent  == Front(t)
      wake    == Branches(parent, ForkOf[n])
      here    == [d EXCEPT !.token[i][t] = "waiting_join"]
      arrived == {c \in wake \cap DOMAIN here.token[i] : here.token[i][c] = "waiting_join"}
      merged  == [here EXCEPT !.token[i] = Mark(@, wake, "merged", parent, "active")]
  IN  IF Cardinality(arrived) + 1 < Cardinality(wake) THEN Done(Sync(here, i))
      ELSE Do(merged, <<ToAdvance(i, parent, To(n)[1])>>)

(* MUTANT of Join: only the last branch is merged.                          *)
JoinLastOnly(d, i, t, n) ==
  LET parent  == Front(t)
      wake    == Branches(parent, ForkOf[n])
      here    == [d EXCEPT !.token[i][t] = "waiting_join"]
      arrived == {c \in wake \cap DOMAIN here.token[i] : here.token[i][c] = "waiting_join"}
      merged  == [here EXCEPT !.token[i] = Mark(@, {t}, "merged", parent, "active")]
  IN  IF arrived # wake THEN Done(Sync(here, i))
      ELSE Do(merged, <<ToAdvance(i, parent, To(n)[1])>>)

(* parallel_join: the last branch to arrive wakes the parent token.         *)
Join(d, i, t, n) ==
  LET parent  == Front(t)
      wake    == Branches(parent, ForkOf[n])
      here    == [d EXCEPT !.token[i][t] = "waiting_join"]
      arrived == {c \in wake \cap DOMAIN here.token[i] : here.token[i][c] = "waiting_join"}
      merged  == [here EXCEPT !.token[i] = Mark(@, wake, "merged", parent, "active")]
  IN  IF t = Root \/ Last(t)[1] # ForkOf[n] THEN Do(d, <<ToFail(i, "failed")>>)
      ELSE IF arrived # wake THEN Done(Sync(here, i))
      ELSE Do(merged, <<ToAdvance(i, parent, To(n)[1])>>)

(* end: the token is used up; the last one to end completes the instance.   *)
End(d, i, t) ==
  LET done   == [d EXCEPT !.token[i][t] = "completed"]
      ended  == [Stand(done, i, "completed") EXCEPT !.stages[i] = [k \in DOMAIN @ |->
                   IF @[k].row = "armed" THEN [@[k] EXCEPT !.row = "skipped"] ELSE @[k]]]
  IN  IF Live(done, i) # {} THEN Done(Sync(done, i)) ELSE Do(ended, <<ToParent(i)>>)

(* A condition or a loop: the branch that is taken.                         *)
Choose(d, i, t, n, w) ==
  LET repeat == n \in w.holds /\ d.loops[n] < MaxIterations
  IN  IF Kind(n) = "condition"
        THEN Do(d, <<ToAdvance(i, t, To(n)[IF n \in w.holds THEN 1 ELSE 2])>>)
      ELSE IF repeat THEN Do([d EXCEPT !.loops[n] = @ + 1], <<ToAdvance(i, t, To(n)[1])>>)
      ELSE Do(d, <<ToAdvance(i, t, To(n)[2])>>)

(* A transform, an artifact, or a step whose output is reused.              *)
Internal(d, i, t, n) ==
  Do(Insert(d, i, NewStage(n, t, "internal", "completed")), <<ToAdvance(i, t, To(n)[1])>>)

(* advanceProcessToken: token t enters node n.                              *)
Advance(d, i, t, n, w) ==
  LET e == [d EXCEPT !.moves[i] = @ + 1, !.token[i][t] = "active"]
  IN  IF d.moves[i] = MaxMoves THEN Do(d, <<ToFail(i, "failed")>>)
      ELSE CASE Kind(n) = "start"      -> Do(e, <<ToAdvance(i, t, To(n)[1])>>)
             [] Kind(n) = "subprocess" -> Subprocess(e, i, t, n, w)
             [] Kind(n) = "fork"       -> Fork(e, i, t, n)
             [] Kind(n) = "join"       -> Join(e, i, t, n)
             [] Kind(n) = "end"        -> End(e, i, t)
             [] n \in Choosers         -> Choose(e, i, t, n, w)
             [] OTHER ->
                  IF n \in w.broken THEN Do(e, <<ToFail(i, "failed")>>)
                  ELSE IF Kind(n) = "internal" THEN Internal(e, i, t, n)
                  ELSE Done(QueueStage(e, i, t, n))

(* A leased stage that was not carried out: the body shared by failLease    *)
(* and the loop of cleanupExpiredLeases.                                    *)
GiveBack(d, i, k, again) ==
  LET st   == d.stages[i][k]
      back == SetStage(d, i, k, IF again THEN "queued" ELSE "failed")
  IN  IF again
        THEN Done(Stand(back, i, IF st.kind = "compensation" THEN "compensating" ELSE "queued"))
      ELSE IF st.kind = "compensation"
        THEN Do(SetRow(Stand(back, i, "compensating"), i, st.of, "failed"), <<ToCompensate(i)>>)
      ELSE Do(back, <<ToFail(i, "failed")>>)

(* MUTANT of Retries: attempt <= max_attempts.                              *)
RetriesOnceMore(st) ==
  {st.attempt <= MaxAttempts} \cup (IF st.kind = "agent" THEN {FALSE} ELSE {})

(* A retry needs an attempt that is left; an agent's is refused as well     *)
(* once a risky tool call was sent (see StageLease).                        *)
Retries(st) ==
  {st.attempt < MaxAttempts} \cup (IF st.kind = "agent" THEN {FALSE} ELSE {})

(* The next call is made.                                                   *)
Call(d, c, w) ==
  CASE c.method = "advance"    -> Advance(d, c.i, c.t, c.n, w)
    [] c.method = "fail"       -> Fail(d, c.i, c.s)
    [] c.method = "stop"       -> Stop(d, c.i, c.s)
    [] c.method = "compensate" -> NextCompensation(d, c.i)
    [] c.method = "parent"     -> CompleteParent(d, c.i)
    [] c.method = "link"       -> Link(d, c.i, c.k)
    [] c.method = "sync"       -> Done(Sync(d, c.i))
    [] c.method = "giveback"   -> GiveBack(d, c.i, c.k, c.again)

Step(m, w) ==
  LET r == Call(m.db, Head(m.todo), w)
  IN  IF m.todo = <<>> THEN m ELSE Do(r.db, r.todo \o Tail(m.todo))

(* A handler changes the database to d and makes the calls: db' is what they *)
(* and the calls they make in turn leave of it.                             *)
Carry(d, calls, w) ==
  LET after[n \in 0..MaxCalls] ==
        IF n = 0 THEN {Do(d, calls)} ELSE {Step(m, w) : m \in after[n - 1]}
  IN  \E m \in after[MaxCalls] : m.todo = <<>> /\ db' = m.db

(* The token of a completed stage goes on, and the status is made up anew.  *)
GoOn(d, i, k, w) ==
  LET st == d.stages[i][k]
  IN  Carry(d, <<ToAdvance(i, st.token, To(st.node)[1]), ToSync(i)>>, w)

(* The next call enters a subprocess step whose child is refused.           *)
Refuses(m, w) ==
  /\ m.todo # <<>>
  /\ LET c == Head(m.todo)
     IN  c.method = "advance" /\ c.n \in w.refused \ w.broken /\ m.db.moves[c.i] < MaxMoves

(* The same handler, when the refusal is an error that queueProcessSubprocess *)
(* throws on: it leaves what is done by then, the stage that waits for the  *)
(* child included, and the calls still to come are never made.              *)
CarryThrown(d, calls, w) ==
  LET after[n \in 0..MaxCalls] ==
        IF n = 0 THEN {Do(d, calls)} ELSE {Step(m, w) : m \in after[n - 1]}
  IN  \E n \in 0..MaxCalls : \E m \in after[n] : Refuses(m, w) /\ db' = Step(m, w).db

(***************************************************************************)
(* Handlers.                                                               *)
(***************************************************************************)
(* startProcess, for an instance that is not a subprocess.                  *)
Start(i, w) ==
  /\ i \notin Children /\ db.inst[i] = "absent"
  /\ Carry(StartProcess(db, i).db, StartProcess(db, i).todo, w)

(* cancelProcessInstance: a compensating instance goes on compensating.     *)
Cancel(i, w) ==
  /\ db.inst[i] \in OpenInst
  /\ Carry(db, <<ToFail(i, "cancelled")>>, w)

(* The rows that cleanupExpiredLeases would read.                           *)
LapsedStages == {s \in UNION {{i} \X Slots(db, i) : i \in Instances} :
                   db.stages[s[1]][s[2]].lapsed}

(* leaseNext takes a stage a worker can carry out, once its sweep has left  *)
(* no lease expired.  The sweep and the two loops before it are steps of    *)
(* their own, Maintain: there they may run at any time, as here.            *)
Lease(i, k) ==
  LET st == db.stages[i][k]
      d  == [SetStage(db, i, k, "running") EXCEPT !.stages[i][k].attempt = @ + 1]
  IN  /\ LapsedStages = {}
      /\ st.status = "queued" /\ st.kind \in {"agent", "http", "compensation"}
      /\ db.run[i] \in {"queued", "running", "compensating"}
      /\ db' = Stand(d, i, IF st.kind = "compensation" THEN "compensating" ELSE "running")

(* The row of a lease that may still be reported on.                        *)
Leased(i, k) == db.stages[i][k].status = "running" /\ ~db.stages[i][k].lapsed

(* completeLease.                                                           *)
CompleteLease(i, k, w) ==
  LET st   == db.stages[i][k]
      done == SetStage(db, i, k, "completed")
      arms == SetRow(done, i, k, "armed")
  IN  /\ Leased(i, k)
      /\ IF st.kind = "compensation"
           THEN Carry(SetRow(done, i, st.of, "completed"), <<ToCompensate(i)>>, w)
         ELSE GoOn(IF st.node \in Compensated THEN arms ELSE done, i, k, w)

(* completeLease when the output breaks the contract of the step.           *)
RejectOutput(i, k, w) ==
  /\ Leased(i, k) /\ db.stages[i][k].node \in Contracted
  /\ Carry(SetStage(db, i, k, "failed"), <<ToFail(i, "failed")>>, w)

FailLease(i, k, w) ==
  /\ Leased(i, k)
  /\ \E again \in Retries(db.stages[i][k]) : Carry(db, <<ToGiveBack(i, k, again)>>, w)

(* The deadline of a lease passes.                                          *)
Lapse(i, k) ==
  /\ Leased(i, k)
  /\ \A j \in Instances : \A m \in Slots(db, j) : db.stages[j][m].lapsed => LapseTogether
  /\ db' = [db EXCEPT !.stages[i][k].lapsed = TRUE]

(* cleanupExpiredLeases: the rows are read once, in no particular order,    *)
(* then each is given back, whatever the rows before it have set off.       *)
Sweep(w) ==
  /\ LapsedStages # {}
  /\ \E order \in SetToSeqs(LapsedStages) :
       \E again \in [DOMAIN order -> BOOLEAN] :
         /\ \A x \in DOMAIN order : again[x] \in Retries(db.stages[order[x][1]][order[x][2]])
         /\ Carry(db, [x \in DOMAIN order |-> ToGiveBack(order[x][1], order[x][2], again[x])], w)

(* completeDueWaitStages, one due stage at a time.                          *)
DueWait(i, k, w) ==
  LET st == db.stages[i][k]
  IN  /\ st.kind = "wait" /\ st.status = "queued" /\ db.run[i] \in {"queued", "running"}
      /\ GoOn([SetStage(db, i, k, "completed") EXCEPT !.run[i] = "running"], i, k, w)

(* completeDueWaitStages again, when the start of a child throws: the       *)
(* project's queue is full, or the pinned version is gone.  The timer runs  *)
(* it outside a transaction, so that the statements made so far stand.      *)
(* Every other handler that starts children has a transaction, which is     *)
(* rolled back: nothing happens.                                            *)
DueWaitThrown(i, k, w) ==
  LET st   == db.stages[i][k]
      done == [SetStage(db, i, k, "completed") EXCEPT !.run[i] = "running"]
  IN  /\ st.kind = "wait" /\ st.status = "queued" /\ db.run[i] \in {"queued", "running"}
      /\ CarryThrown(done, <<ToAdvance(i, st.token, To(st.node)[1]), ToSync(i)>>, w)
      /\ thrown' = TRUE /\ blocked' = blocked

(* deliverProcessSignalLocked.                                              *)
Signal(i, k, w) ==
  LET st == db.stages[i][k]
  IN  /\ st.row = "waiting" /\ st.status = "waiting_external" /\ db.inst[i] \in OpenInst
      /\ GoOn(SetRow(SetStage(db, i, k, "completed"), i, k, "delivered"), i, k, w)

(* expireProcessSignals, one expired wait at a time.                        *)
ExpireSignal(i, k, w) ==
  LET late == SetRow(db, i, k, "expired")
  IN  /\ db.stages[i][k].row = "waiting" /\ db.stages[i][k].node \in Timed
      /\ Carry(IF db.stages[i][k].status = "waiting_external"
                  THEN SetStage(late, i, k, "failed") ELSE late, <<ToFail(i, "failed")>>, w)

(* MUTANT of Approve: the token goes on although its step is still to do.   *)
ApproveAndGoOn(i, k, w) ==
  /\ db.stages[i][k].status = "waiting_approval"
  /\ GoOn(SetStage(db, i, k, IF db.stages[i][k].kind = "approval"
                               THEN "completed" ELSE "queued"), i, k, w)

(* decideApproval.                                                          *)
Approve(i, k, w) ==
  /\ db.stages[i][k].status = "waiting_approval"
  /\ IF db.stages[i][k].kind = "approval"
       THEN GoOn([SetStage(db, i, k, "completed") EXCEPT !.run[i] = "running"], i, k, w)
     ELSE db' = Sync([SetStage(db, i, k, "queued") EXCEPT !.run[i] = "running",
                                                          !.inst[i] = "queued"], i)

Reject(i, k, w) ==
  /\ db.stages[i][k].status = "waiting_approval"
  /\ Carry(SetStage(db, i, k, "cancelled"), <<ToFail(i, "cancelled")>>, w)

Maintain(w) ==
  \/ Sweep(w)
  \/ \E i \in Instances : \E k \in Slots(db, i) : DueWait(i, k, w) \/ ExpireSignal(i, k, w)

(* enforceRunIdentities, for one run: the compensations that wait are let go *)
(* of, since a revoked power authorizes no new call, ...                    *)
LetGo(d, i) ==
  [d EXCEPT !.stages[i] = [k \in DOMAIN @ |->
     IF @[k].row \in {"armed", "queued"} THEN [@[k] EXCEPT !.row = "cancelled"] ELSE @[k]]]

(* ... and the instance is quiesced and ends as cancelled.  Nothing is armed *)
(* by then, so that an open instance closes as it does on a cancellation;   *)
(* of a compensating one nothing is left to quiesce.  maintenanceTick and   *)
(* the lease calls look at every run that has not ended; here each may be   *)
(* met at any time.                                                         *)
EnforceRunIdentities(i, w) ==
  LET free == LetGo(db, i)
      last == Finalize(free, i, "cancelled")
  IN  /\ \/ db.inst[i] \in OpenInst /\ Carry(free, <<ToFail(i, "cancelled")>>, w)
         \/ db.inst[i] = "compensating" /\ Carry(last.db, last.todo, w)
      /\ blocked' = blocked \cup {i} /\ thrown' = thrown

Report(i, k, w) == CompleteLease(i, k, w) \/ RejectOutput(i, k, w) \/ FailLease(i, k, w)

Handle ==
  \/ \E i \in Instances :
       \/ \E w \in Worlds({i}) : Start(i, w)
       \/ \E w \in Worlds(Present) : Cancel(i, w)
       \/ \E k \in Slots(db, i) :
            \/ Lease(i, k)
            \/ Lapse(i, k)
            \/ \E w \in Worlds(Present) :
                 \/ Report(i, k, w)
                 \/ Signal(i, k, w)
                 \/ Approve(i, k, w)
                 \/ Reject(i, k, w)
  \/ \E w \in Worlds(Present) : Maintain(w)

Next ==
  \/ Handle /\ UNCHANGED <<blocked, thrown>>
  \/ \E w \in Worlds(Present) : \E i \in Instances :
       \/ EnforceRunIdentities(i, w)
       \/ \E k \in Slots(db, i) : DueWaitThrown(i, k, w)

Spec == Init /\ [][Next]_vars

(***************************************************************************)
(* What goes on without an operator and without an external call: workers  *)
(* poll, a lease is reported on or lapses, and the maintenance timer        *)
(* sweeps leases, ends waits and lets signals expire.  Every such step uses *)
(* up an attempt or a transition, so it is enough that the system does not  *)
(* stop while one of them can be taken.                                     *)
(***************************************************************************)
System ==
  /\ UNCHANGED <<blocked, thrown>>
  /\ \/ \E i \in Instances : \E k \in Slots(db, i) :
          Lease(i, k) \/ Lapse(i, k) \/ \E w \in Worlds(Present) : Report(i, k, w)
     \/ \E w \in Worlds(Present) : Maintain(w)

Fairness == WF_vars(System)

FairSpec == Spec /\ Fairness

(***************************************************************************)
(*                              Properties                                 *)
(***************************************************************************)
InstStatus  == OpenInst \cup Ended \cup {"absent", "compensating"}
TokenStatus == LiveToken \cup {"merged", "completed", "cancelled"}
Token       == Seq(GNodes \X (1..16))

StageType ==
  [node    : GNodes,
   token   : Token \cup {NoToken},
   kind    : (StageKinds \ {"gated"}) \cup {"compensation"},
   status  : OpenStage \cup Ended,
   attempt : 0..MaxAttempts,
   lapsed  : BOOLEAN,
   row     : {"none", "waiting", "delivered", "expired", "running", "armed", "queued",
              "skipped"} \cup Ended,
   of      : Nat]

(* Every column has its type; no stage is leased more often than it may be, *)
(* and only running stages lapse.                                           *)
TypeOK ==
  /\ blocked \subseteq Instances /\ thrown \in BOOLEAN
  /\ db.inst \in [Instances -> InstStatus]
  /\ db.run \in [Instances -> InstStatus]
  /\ db.ending \in [Instances -> {"none", "failed", "cancelled"}]
  /\ db.error \in [Instances -> BOOLEAN]
  /\ db.moves \in [Instances -> 0..MaxMoves]
  /\ db.loops \in [Choosers -> 0..MaxIterations]
  /\ \A i \in Instances :
       /\ db.stages[i] \in Seq(StageType)
       /\ \A k \in Slots(db, i) : db.stages[i][k].lapsed => db.stages[i][k].status = "running"
       /\ \A t \in DOMAIN db.token[i] : t \in Token /\ db.token[i][t] \in TokenStatus

(* Nothing of an instance that has ended is left behind: no open stage, no  *)
(* live token, no signal wait, subprocess link or compensation that could   *)
(* still be acted on, and its run ended the same way                        *)
(* (docs/process-builder-1.2.md:14).                                        *)
EndedIsQuiet ==
  \A i \in Instances : db.inst[i] \in Ended =>
    /\ db.run[i] = db.inst[i]
    /\ InStatus(db, i, OpenStage) = {}
    /\ Live(db, i) = {}
    /\ \A k \in Slots(db, i) :
         db.stages[i][k].row \notin {"waiting", "running", "armed", "queued"}

(* An instance that was once stopped, its error recorded, is never open     *)
(* again, not even by the rest of the handler that stopped it.              *)
StoppedForGood ==
  \A i \in Instances : db.error[i] =>
    db.inst[i] \in {"compensating", "failed", "cancelled"}

(* Every active token of an open instance stands at exactly one open stage, *)
(* and every open stage has its active token: no branch is lost, and none   *)
(* is carried out twice.                                                    *)
TokensAtWork ==
  \A i \in Instances : db.inst[i] \in OpenInst =>
    /\ {t \in Live(db, i) : db.token[i][t] = "active"}
         = {db.stages[i][k].token : k \in InStatus(db, i, OpenStage)}
    /\ \A k, m \in InStatus(db, i, OpenStage) :
         db.stages[i][k].token = db.stages[i][m].token => k = m

(* A forked token has all its branches under way, at least one of them not  *)
(* yet at the join, and a live branch has a forked parent: no join waits    *)
(* for a branch that will never come.                                       *)
JoinsWillWake ==
  \A i \in Instances : db.inst[i] \in OpenInst => \A t \in Live(db, i) :
    /\ t # Root => db.token[i][Front(t)] = "forked"
    /\ db.token[i][t] = "forked" =>
         \E n \in Range(ForkOf) :
           LET branches == {Append(t, <<n, b>>) : b \in DOMAIN To(n)}
           IN  /\ branches \subseteq Live(db, i)
               /\ \E c \in branches : db.token[i][c] # "waiting_join"

(* A forked token goes on only by the arrival of the last of its branches.  *)
JoinNeedsAll ==
  [][\A i \in Instances : \A t \in DOMAIN db.token[i] :
       db.token[i][t] = "forked" /\ db'.token[i][t] \in {"active", "completed"} =>
         LET branches == {c \in Live(db, i) : c # Root /\ Front(c) = t}
         IN  /\ \A c \in branches : db'.token[i][c] = "merged"
             /\ Cardinality({c \in branches : db.token[i][c] # "waiting_join"}) = 1]_vars

(* runs.status and process_instances.status agree, and whatever is queued   *)
(* can be found by the queries of leaseNext and completeDueWaitStages: a    *)
(* stage of an open instance while it stands at queued or running, a        *)
(* compensation while it is compensating.  An error that leaves a handler   *)
(* half-way skips the statement that sums the instance up.                  *)
QueuedIsFound == ~thrown =>
  \A i \in Instances :
    /\ db.run[i] = db.inst[i]
    /\ \A k \in InStatus(db, i, {"queued"}) :
         IF db.stages[i][k].kind = "compensation" THEN db.run[i] = "compensating"
         ELSE db.run[i] \in {"queued", "running"}

Compensations(i) == {k \in Slots(db, i) : db.stages[i][k].kind = "compensation"}

(* When an instance has failed or was cancelled, every confirmed HTTP call  *)
(* that has a compensation was compensated, or its compensation was given   *)
(* up after its last attempt, exactly once; when it is completed, none was; *)
(* and a call that was never confirmed is not compensated.  An instance     *)
(* whose powers were revoked ends as cancelled, its compensations those     *)
(* that were carried out before: of none there were two, and none is left   *)
(* to carry out.                                                            *)
SagaSettled ==
  \A i \in Instances : db.inst[i] \in Ended => \A k \in Slots(db, i) :
    LET st   == db.stages[i][k]
        undo == {m \in Compensations(i) : db.stages[i][m].of = k}
    IN  IF i \in blocked
          THEN /\ db.inst[i] = "cancelled"
               /\ Cardinality(undo) <= 1
               /\ st.row \notin {"armed", "queued"}
        ELSE IF st.kind = "http" /\ st.node \in Compensated /\ st.status = "completed"
          THEN IF db.inst[i] = "completed" THEN undo = {} /\ st.row = "skipped"
               ELSE Cardinality(undo) = 1 /\ st.row \in {"completed", "failed"}
        ELSE undo = {}

(* A subprocess step starts its child and waits for the end of it           *)
(* (docs/process-builder-1.2.md:24): a stage that waits has a link.  An     *)
(* error that leaves the start of the child half-way breaks it              *)
(* (run process_thrown).                                                    *)
ChildAwaited ==
  \A p \in Instances : \A k \in Slots(db, p) :
    db.stages[p][k].kind = "subprocess" /\ db.stages[p][k].status = "waiting_external" =>
      db.stages[p][k].row = "running"

(* A running link joins a stage of an open parent that waits for it and a   *)
(* child that has not ended; and an open child always has such a parent: no *)
(* child outlives its parent, and no parent waits for a child that is gone. *)
(* So it is as long as no error leaves the start of a child half-way.       *)
FamilyTied == ~thrown =>
  /\ \A p \in Instances : \A k \in Slots(db, p) :
       LET st == db.stages[p][k]
       IN  st.kind = "subprocess" =>
             /\ st.row = "running" <=> st.status = "waiting_external"
             /\ st.row = "running" =>
                  db.inst[p] \in OpenInst /\ db.inst[ChildOf[st.node]] \in OpenInst \cup {"compensating"}
  /\ \A c \in Children : db.inst[c] \in OpenInst =>
       \E p \in Instances : \E k \in InStatus(db, p, OpenStage) :
         db.stages[p][k].kind = "subprocess" /\ ChildOf[db.stages[p][k].node] = c

(* ProcessEngine carries out what Saga promises.                            *)
PhaseOf(s) == IF s \in OpenInst THEN "open" ELSE s

SagaOf == INSTANCE Saga WITH
  phase   <- [i \in Instances |-> PhaseOf(db.inst[i])],
  goal    <- db.ending,
  effects <- [i \in Instances |->
                {k \in Slots(db, i) : db.stages[i][k].row \in {"armed", "queued"}}],
  abandoned <- blocked

ImplementsSaga == SagaOf!Spec

(* Every instance comes to its end, unless it, its parent or its child      *)
(* waits for somebody outside: an operator's decision, or a signal without  *)
(* a deadline; or the start of a child has thrown.                          *)
WaitsOutside ==
  \E i \in Instances : \E k \in InStatus(db, i, {"waiting_approval", "waiting_external"}) :
    db.stages[i][k].status = "waiting_approval" \/ db.stages[i][k].node \notin Timed \cup DOMAIN ChildOf

InstancesEnd ==
  \A i \in Instances : db.inst[i] \in OpenInst \cup {"compensating"} ~> (db.inst[i] \in Ended \/ WaitsOutside \/ thrown)
(***************************************************************************)
(*                  What the theorems ask of the graphs                    *)
(***************************************************************************)
(* Steps that leave a stage behind, and steps that a token passes.          *)
Queues(n) == Kind(n) \in StageKinds \ {"subprocess", "internal"}
Passes(n) == Kind(n) \in {"start", "condition", "loop", "internal", "fork"}

(* Every branch of a fork but the last one gets as far as a stage, or to    *)
(* another fork, over the steps in C: none of them can turn out impossible. *)
(* normalizeProcessGraph does not see to it: a branch that begins with a    *)
(* call whose credential no longer opens stops the instance before the     *)
(* next branch is entered (run process_refused).                           *)
CalmBy(C) ==
  /\ C \subseteq GNodes \ Fragile
  /\ \A n \in C : Queues(n) \/ (Passes(n) /\ \A b \in DOMAIN To(n) : To(n)[b] \in C)
  /\ \A f \in GNodes : Kind(f) = "fork" => \A b \in DOMAIN To(f) : b < Len(To(f)) => To(f)[b] \in C

(* Some set of steps is calm, and leases lapse one at a time.               *)
Orderly == (\E C \in SUBSET GNodes : CalmBy(C)) /\ ~LapseTogether

(* inside[f] holds the steps from the branches of fork f to its join.  That *)
(* no branch ends before the join is what normalizeProcessGraph checks with *)
(* canReachEndBeforeNode; that no branch comes back to its own fork it does *)
(* not: a loop in a branch may repeat from a step before the fork.          *)
Nested(inside) ==
  /\ inside \in [GNodes -> SUBSET GNodes]
  /\ \A f \in GNodes :
       /\ Kind(f) = "fork" => \A b \in DOMAIN To(f) : To(f)[b] \in inside[f]
       /\ \A n \in inside[f] :
            /\ n # f /\ Kind(n) # "end"
            /\ ~(Kind(n) = "join" /\ ForkOf[n] = f) => \A b \in DOMAIN To(n) : To(n)[b] \in inside[f]
=============================================================================
