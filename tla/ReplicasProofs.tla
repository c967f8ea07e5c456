--------------------------- MODULE ReplicasProofs ---------------------------
(***************************************************************************)
(* The theorems of Replicas, for any number of replicas, runs, stages and  *)
(* attempts, provided that operators do not race (OperatorsRace = FALSE).  *)
(*                                                                         *)
(* The invariant has a part about the committed rows (Good), which each    *)
(* statement that writes must keep, and a part about what the transactions *)
(* under way have read and locked (Sweeping, Creating, Deciding), which no *)
(* statement of another replica may make untrue.  The refinement of        *)
(* RunLifecycle follows from Good, run by run.                             *)
(***************************************************************************)
EXTENDS Replicas, FiniteSetTheorems, TLAPS

RunRow   == [status : OpenRun \cup EndedRun \cup {"absent", "refused"}, len : 0..MaxStages]
StageRow == [status : OpenStage \cup EndedRun \cup {"absent"},
             attempt : 0..MaxAttempts, late : BOOLEAN]
Active   == {"queued", "running", "waiting_approval"}

(* A stage agrees with its run, and has an attempt left while it waits.     *)
Row(ru, st, s) ==
  /\ st[s].status \in {"absent", "pending", "waiting_approval"} => st[s].attempt = 0
  /\ st[s].status = "queued" => st[s].attempt < MaxAttempts
  /\ st[s].status \in Active => ru[s[1]].status \in OpenRun
  /\ ru[s[1]].status \in {"absent", "refused"} => st[s].status = "absent"

(* Behind a stage that is not completed nothing has begun.                  *)
InOrder(st) ==
  \A s, q \in Stages :
    s[1] = q[1] /\ s[2] < q[2] /\ st[s].status # "completed" =>
      st[q].status \in {"absent", "pending", "cancelled"} /\ st[q].attempt = 0

Good(ru, st) ==
  /\ ru \in [Runs -> RunRow] /\ st \in [Stages -> StageRow]
  /\ \A s \in Stages : Row(ru, st, s)
  /\ InOrder(st)

(* No run is opened, and none that has ended changes.                       *)
Onward(ru, rv) ==
  \A r \in Runs :
    /\ rv[r].status \in OpenRun => ru[r].status \in OpenRun
    /\ ru[r].status \in EndedRun => rv[r].status = ru[r].status

OpenRuns(ru) == {r \in Runs : ru[r].status \in OpenRun}
Quota == IsFiniteSet(OpenRuns(run)) /\ Cardinality(OpenRuns(run)) <= MaxQueued

(* What a sweep has taken is late until it commits, and is nobody else's.   *)
Sweeping ==
  /\ \A c \in Coordinators : tx[c].swept \subseteq {s \in Stages : Late(s)}
  /\ \A c, d \in Coordinators : c # d => tx[c].swept \cap tx[d].swept = {}
  /\ \A c \in Coordinators : tx[c].op \notin {"swept", "selected"} => tx[c].swept = {}

(* Room that has been counted under the lock is there until the commit.     *)
Creating ==
  \A c \in Coordinators : tx[c].op = "create" =>
    /\ tx[c].room => Room
    /\ \A d \in Coordinators : tx[d].op = "create" => d = c

(* What an operator has read still stands when it writes.                   *)
Deciding ==
  \A c \in Coordinators : tx[c].op \in Operator =>
    /\ tx[c].of \in Stages /\ run[tx[c].of[1]].status \in OpenRun
    /\ tx[c].op # "cancel" => stage[tx[c].of].status = "waiting_approval"
    /\ \A d \in Coordinators : tx[d].op \in Operator => d = c

IInv == TypeOK /\ Good(run, stage) /\ Quota /\ Sweeping /\ Creating /\ Deciding

(***************************************************************************)
(* The rows.                                                               *)
(***************************************************************************)
LEMMA StageParts ==
  ASSUME NEW s \in Stages
  PROVE  s = <<s[1], s[2]>> /\ s[1] \in Runs /\ s[2] \in 1..MaxStages /\ s[2] \in Nat
BY LimitsAssumption DEF Stages

(* At most one stage of a run is queued, running or waiting.                *)
LEMMA OneActive ==
  ASSUME NEW ru, NEW st, Good(ru, st), NEW s \in Stages, NEW q \in Stages, s[1] = q[1],
         st[s].status \in Active, st[q].status \in Active
  PROVE  s = q
<1>1. ~(s[2] < q[2]) /\ ~(q[2] < s[2])
  BY DEF Good, InOrder, Active
<1>2. QED
  BY <1>1, StageParts

(* Active stages, and the rows of their runs, may change if each of them    *)
(* still agrees with its run and none is completed.                        *)
LEMMA ActivesChange ==
  ASSUME NEW ru, NEW st, Good(ru, st), NEW S \in SUBSET Stages,
         NEW rv \in [Runs -> RunRow], NEW sv \in [Stages -> StageRow],
         \A s \in S : st[s].status \in Active,
         \A q \in Stages \ S : sv[q] = st[q],
         \A r \in Runs : (\A s \in S : s[1] # r) => rv[r] = ru[r],
         \A s \in S : Row(rv, sv, s) /\ sv[s].status \notin {"absent", "completed"}
  PROVE  Good(rv, sv)
<1>1. ASSUME NEW q \in Stages
      PROVE  Row(rv, sv, q)
  <2>1. CASE q \in S
    BY <2>1
  <2>2. CASE q \notin S /\ \E s \in S : s[1] = q[1]
    <3>1. PICK s \in S : s[1] = q[1]
      BY <2>2
    <3>2. st[q].status \notin Active
      BY <2>2, <3>1, OneActive
    <3>3. rv[q[1]].status \notin {"absent", "refused"}
      BY <3>1 DEF Row
    <3>4. QED
      BY <2>2, <3>2, <3>3 DEF Good, Row
  <2>3. CASE \A s \in S : s[1] # q[1]
    <3>1. q \notin S /\ rv[q[1]] = ru[q[1]]
      BY <2>3, StageParts
    <3>2. QED
      BY <3>1 DEF Good, Row
  <2>4. QED
    BY <2>1, <2>2, <2>3
<1>2. ASSUME NEW s \in Stages, NEW q \in Stages, s[1] = q[1], s[2] < q[2],
             sv[s].status # "completed"
      PROVE  sv[q].status \in {"absent", "pending", "cancelled"} /\ sv[q].attempt = 0
  <2>1. st[s].status # "completed"
    BY <1>2 DEF Active
  <2>2. st[q].status \in {"absent", "pending", "cancelled"} /\ st[q].attempt = 0
    BY <1>2, <2>1 DEF Good, InOrder
  <2>3. q \notin S
    BY <2>2 DEF Active
  <2>4. QED
    BY <2>2, <2>3
<1>3. QED
  BY <1>1, <1>2 DEF Good, InOrder

LEMMA OneChanges ==
  ASSUME NEW ru, NEW st, Good(ru, st), NEW s \in Stages, st[s].status \in Active,
         NEW rv \in [Runs -> RunRow], NEW sv \in [Stages -> StageRow],
         \A q \in Stages : q # s => sv[q] = st[q],
         \A r \in Runs : r # s[1] => rv[r] = ru[r],
         Row(rv, sv, s), sv[s].status \notin {"absent", "completed"}
  PROVE  Good(rv, sv)
<1> DEFINE S == {s}
<1>1. /\ S \in SUBSET Stages
      /\ \A q \in S : st[q].status \in Active
      /\ \A q \in Stages \ S : sv[q] = st[q]
      /\ \A r \in Runs : (\A q \in S : q[1] # r) => rv[r] = ru[r]
      /\ \A q \in S : Row(rv, sv, q) /\ sv[q].status \notin {"absent", "completed"}
  OBVIOUS
<1> HIDE DEF S
<1>2. QED
  BY <1>1, ActivesChange

LEMMA OnwardTwice ==
  ASSUME NEW ru, NEW rv, NEW rw, Onward(ru, rv), Onward(rv, rw)
  PROVE  Onward(ru, rw)
BY DEF Onward, OpenRun, EndedRun

(* What becomes of a stage whose lease is taken back.                       *)
LEMMA GivenBackRow ==
  ASSUME NEW row \in StageRow
  PROVE  /\ GivenBack(row) \in StageRow /\ GivenBack(row).attempt = row.attempt
         /\ \/ GivenBack(row).status = "queued" /\ row.attempt < MaxAttempts
            \/ GivenBack(row).status = "failed"
BY DEF GivenBack, StageRow, OpenStage, EndedRun

LEMMA RunRewritten ==
  ASSUME NEW row \in RunRow, NEW status \in OpenRun \cup EndedRun
  PROVE  /\ [row EXCEPT !.status = status] \in RunRow
         /\ [row EXCEPT !.status = status].status = status
BY DEF RunRow

(* The rows after running stages have been taken back.                      *)
LEMMA BackHolds ==
  ASSUME Good(run, stage), NEW S \in SUBSET Stages,
         \A s \in S : stage[s].status = "running"
  PROVE  /\ Good(RunsBack(S), StagesBack(S))
         /\ Onward(run, RunsBack(S))
         /\ \A s \in S : StagesBack(S)[s].status \in {"queued", "failed"}
         /\ \A s \in Stages \ S : StagesBack(S)[s] = stage[s]
<1> DEFINE rv == RunsBack(S)
           sv == StagesBack(S)
<1>1. \A s \in Stages : stage[s] \in StageRow
  BY DEF Good
<1>2. /\ \A s \in S : sv[s] = GivenBack(stage[s])
      /\ \A s \in Stages \ S : sv[s] = stage[s]
      /\ sv = [s \in Stages |-> sv[s]]
  BY DEF StagesBack
<1>3. ASSUME NEW s \in S
      PROVE  rv[s[1]] = [run[s[1]] EXCEPT !.status = sv[s].status]
  <2>1. s[1] \in Runs /\ s \in Stages
    BY StageParts
  <2> DEFINE t == CHOOSE t \in S : t[1] = s[1]
  <2>2. t \in S /\ t[1] = s[1]
    OBVIOUS
  <2>3. t = s
    BY <2>1, <2>2, OneActive DEF Active
  <2>4. rv[s[1]] = [run[s[1]] EXCEPT !.status = GivenBack(stage[t]).status]
    BY <2>1 DEF RunsBack
  <2>5. QED
    BY <1>2, <2>3, <2>4
<1>4. \A r \in Runs : (\A s \in S : s[1] # r) => rv[r] = run[r]
  BY DEF RunsBack
<1>5. ASSUME NEW s \in S
      PROVE  /\ sv[s] \in StageRow /\ sv[s].status \in {"queued", "failed"}
             /\ sv[s].status = "queued" => sv[s].attempt < MaxAttempts
  BY <1>1, <1>2, GivenBackRow
<1>6. sv \in [Stages -> StageRow]
  BY <1>1, <1>2, <1>5
<1>7. ASSUME NEW s \in S
      PROVE  rv[s[1]] \in RunRow /\ rv[s[1]].status = sv[s].status
  <2>1. run[s[1]] \in RunRow
    BY StageParts DEF Good
  <2>2. sv[s].status \in OpenRun \cup EndedRun
    BY <1>5 DEF OpenRun, EndedRun
  <2>3. /\ [run[s[1]] EXCEPT !.status = sv[s].status] \in RunRow
        /\ [run[s[1]] EXCEPT !.status = sv[s].status].status = sv[s].status
    BY <2>1, <2>2, RunRewritten
  <2>4. QED
    BY <1>3, <2>3, Zenon
<1>8. rv \in [Runs -> RunRow]
  <2>1. rv = [r \in Runs |-> rv[r]]
    BY DEF RunsBack
  <2>2. \A r \in Runs : rv[r] \in RunRow
    BY <1>4, <1>7 DEF Good
  <2>3. QED
    BY <2>1, <2>2
<1> HIDE DEF rv, sv
<1>9. \A s \in S : Row(rv, sv, s)
  BY <1>5, <1>7 DEF Row, OpenRun, Active
<1>10. Good(rv, sv)
  <2>1. /\ \A s \in S : stage[s].status \in Active
        /\ \A s \in S : Row(rv, sv, s) /\ sv[s].status \notin {"absent", "completed"}
    BY <1>5, <1>9 DEF Active
  <2>2. QED
    BY <1>2, <1>4, <1>6, <1>8, <2>1, ActivesChange
<1>11. Onward(run, rv)
  <2>1. \A s \in S : run[s[1]].status \in OpenRun
    BY DEF Good, Row, Active
  <2>2. ASSUME NEW r \in Runs
        PROVE  /\ rv[r].status \in OpenRun => run[r].status \in OpenRun
               /\ run[r].status \in EndedRun => rv[r].status = run[r].status
    BY <1>4, <2>1 DEF OpenRun, EndedRun
  <2>3. QED
    BY <2>2 DEF Onward
<1>12. QED
  BY <1>2, <1>5, <1>10, <1>11 DEF rv, sv

(* A queued stage that is given out.                                        *)
LEMMA GrantHolds ==
  ASSUME NEW ru, NEW st, Good(ru, st), NEW s \in Stages, st[s].status = "queued"
  PROVE  LET sv == [st EXCEPT ![s] =
                      [status |-> "running", attempt |-> @.attempt + 1, late |-> FALSE]]
             rv == [ru EXCEPT ![s[1]].status = "running"]
         IN  Good(rv, sv) /\ Onward(ru, rv)
<1> DEFINE sv == [st EXCEPT ![s] =
                    [status |-> "running", attempt |-> @.attempt + 1, late |-> FALSE]]
           rv == [ru EXCEPT ![s[1]].status = "running"]
<1>1. s[1] \in Runs
  BY StageParts
<1>2. st[s] \in StageRow /\ st[s].attempt < MaxAttempts /\ ru[s[1]].status \in OpenRun
  BY DEF Good, Row, Active
<1>3. [status |-> "running", attempt |-> st[s].attempt + 1, late |-> FALSE] \in StageRow
  BY <1>2, LimitsAssumption DEF StageRow, OpenStage
<1>4. sv \in [Stages -> StageRow] /\ sv[s].status = "running"
      /\ \A q \in Stages \ {s} : sv[q] = st[q]
  BY <1>3 DEF Good
<1>5. [ru[s[1]] EXCEPT !.status = "running"] \in RunRow
      /\ [ru[s[1]] EXCEPT !.status = "running"].status = "running"
  BY <1>1 DEF Good, RunRow, OpenRun
<1>6. rv \in [Runs -> RunRow] /\ rv[s[1]].status = "running"
      /\ \A r \in Runs : r # s[1] => rv[r] = ru[r]
  BY <1>1, <1>5 DEF Good
<1> HIDE DEF sv, rv
<1>7. Row(rv, sv, s)
  BY <1>4, <1>6 DEF Row, OpenRun, Active
<1>8. Good(rv, sv)
  BY <1>4, <1>6, <1>7, OneChanges DEF Active
<1>9. Onward(ru, rv)
  BY <1>2, <1>6 DEF Onward, OpenRun, EndedRun
<1>10. QED
  BY <1>8, <1>9 DEF sv, rv

(***************************************************************************)
(* The transactions under way.                                             *)
(***************************************************************************)
TxRow == [op    : {"none", "create", "swept", "selected"} \cup Operator,
          of    : Stages \cup {NoStage},
          room  : BOOLEAN,
          swept : SUBSET Stages,
          pool  : SUBSET Stages]

LEMMA IdleRow ==
  Idle \in TxRow /\ Idle.op = "none" /\ Idle.swept = {}
BY DEF Idle, TxRow, NoStage

(* If no run is opened, the quota holds and counted room remains.           *)
LEMMA QuotaKept ==
  ASSUME Quota, Onward(run, run')
  PROVE  Quota' /\ (Room => Room')
<1>1. OpenRuns(run') \in SUBSET OpenRuns(run)
  BY DEF Onward, OpenRuns
<1>2. IsFiniteSet(OpenRuns(run')) /\ Cardinality(OpenRuns(run')) <= Cardinality(OpenRuns(run))
  BY <1>1, FS_Subset DEF Quota
<1>3. Cardinality(OpenRuns(run')) \in Nat /\ Cardinality(OpenRuns(run)) \in Nat /\ MaxQueued \in Nat
  BY <1>2, FS_CardinalityType, LimitsAssumption DEF Quota
<1>4. Quota'
  BY <1>2, <1>3 DEF Quota
<1>5. /\ Room <=> Cardinality(OpenRuns(run)) + 1 <= MaxQueued
      /\ Room' <=> Cardinality(OpenRuns(run')) + 1 <= MaxQueued
  BY DEF Room, OpenRuns
<1>6. QED
  BY <1>2, <1>3, <1>4, <1>5

(* A step that writes rows keeps the invariant if it opens no run, leaves   *)
(* alone what others have swept, and no operator is in between.             *)
LEMMA RowsStep ==
  ASSUME IInv, Good(run', stage'), Onward(run, run'),
         tx' \in [Coordinators -> TxRow], aborts' \in 0..MaxAborts,
         \A d \in Coordinators :
           \/ tx'[d] = tx[d] /\ \A s \in tx[d].swept : stage'[s] = stage[s]
           \/ tx'[d] = Idle,
         \A d \in Coordinators : tx'[d].op \notin Operator
  PROVE  IInv'
<1>1. TypeOK'
  BY DEF TypeOK, Good, RunRow, StageRow, TxRow
<1>2. Quota' /\ (Room => Room')
  BY QuotaKept DEF IInv
<1>3. Sweeping'
  BY IdleRow DEF IInv, Sweeping, Late
<1>4. Creating'
  BY <1>2, IdleRow DEF IInv, Creating
<1>5. Deciding'
  BY DEF Deciding
<1>6. QED
  BY <1>1, <1>2, <1>3, <1>4, <1>5 DEF IInv

(* A step that only reads and locks keeps the invariant if what it has read *)
(* is so, and it takes no lock that another holds.                         *)
LEMMA ReadStep ==
  ASSUME IInv, NEW c \in Coordinators, NEW t \in TxRow,
         tx' = [tx EXCEPT ![c] = t], run' = run, stage' = stage, aborts' \in 0..MaxAborts,
         \A s \in t.swept : Late(s) /\ StageFree(c, s),
         t.op \notin {"swept", "selected"} => t.swept = {},
         t.op = "create" => (t.room => Room) /\ \A d \in Others(c) : tx[d].op # "create",
         t.op \in Operator =>
           /\ t.of \in Stages /\ run[t.of[1]].status \in OpenRun
           /\ t.op # "cancel" => stage[t.of].status = "waiting_approval"
           /\ \A d \in Coordinators : tx[d].op \notin Operator
  PROVE  IInv'
<1>1. tx' \in [Coordinators -> TxRow] /\ tx'[c] = t
      /\ \A d \in Coordinators : d # c => tx'[d] = tx[d]
  BY DEF IInv, TypeOK, TxRow
<1>2. TypeOK' /\ Good(run, stage)' /\ Quota'
  BY <1>1 DEF IInv, TypeOK, TxRow, Quota
<1>3. t.swept \subseteq {s \in Stages : Late(s)}
  BY DEF TxRow
<1>4. Sweeping'
  BY <1>1, <1>3 DEF IInv, Sweeping, StageFree, Others, Late
<1>5. Creating'
  BY <1>1 DEF IInv, Creating, Others, Room
<1>6. Deciding'
  BY <1>1 DEF IInv, Deciding
<1>7. QED
  BY <1>2, <1>4, <1>5, <1>6 DEF IInv

(***************************************************************************)
(* The actions that read and lock.                                         *)
(***************************************************************************)
LEMMA NoOperator ==
  ASSUME ~OperatorsRace, Calm
  PROVE  \A d \in Coordinators : tx[d].op \notin Operator
BY DEF Calm

LEMMA CreateLockHolds ==
  ASSUME ~OperatorsRace, IInv, NEW c \in Coordinators, CreateLock(c)
  PROVE  IInv'
<1> DEFINE t == [Idle EXCEPT !.op = "create", !.room = Room]
<1>1. Room \in BOOLEAN
  BY DEF Room
<1>2. t \in TxRow /\ t.op = "create" /\ (t.room => Room) /\ t.swept = {}
  BY <1>1 DEF Idle, TxRow, NoStage
<1>3. tx' = [tx EXCEPT ![c] = t] /\ run' = run /\ stage' = stage /\ aborts' = aborts
      /\ \A d \in Others(c) : tx[d].op # "create"
  BY DEF CreateLock, Begin, ProjectFree
<1> HIDE DEF t
<1>4. aborts' \in 0..MaxAborts
  BY <1>3 DEF IInv, TypeOK
<1>5. QED
  BY <1>2, <1>3, <1>4, ReadStep DEF Operator

LEMMA LeaseSweepHolds ==
  ASSUME ~OperatorsRace, IInv, NEW c \in Coordinators, LeaseSweep(c)
  PROVE  IInv'
<1> DEFINE t == [Idle EXCEPT !.op = "swept", !.swept = Sweepable(c)]
<1>1. Sweepable(c) \in SUBSET Stages /\ \A s \in Sweepable(c) : Late(s) /\ StageFree(c, s)
  BY DEF Sweepable
<1>2. t \in TxRow /\ t.op = "swept" /\ t.swept = Sweepable(c)
  BY <1>1 DEF Idle, TxRow, NoStage
<1>3. tx' = [tx EXCEPT ![c] = t] /\ run' = run /\ stage' = stage /\ aborts' = aborts
  BY DEF LeaseSweep, Begin
<1> HIDE DEF t
<1>4. aborts' \in 0..MaxAborts
  BY <1>3 DEF IInv, TypeOK
<1>5. QED
  BY <1>1, <1>2, <1>3, <1>4, ReadStep DEF Operator

(* What a coordinator has swept is late, and no other has it.               *)
LEMMA OwnSweep ==
  ASSUME IInv, NEW c \in Coordinators
  PROVE  /\ tx[c].swept \in SUBSET Stages
         /\ \A s \in tx[c].swept : Late(s) /\ StageFree(c, s)
         /\ \A d \in Others(c) : \A s \in tx[d].swept : s \notin tx[c].swept /\ Late(s)
BY DEF IInv, Sweeping, StageFree, Others

LEMMA LeaseSelectHolds ==
  ASSUME ~OperatorsRace, IInv, NEW c \in Coordinators, LeaseSelect(c)
  PROVE  IInv'
<1> DEFINE t == [tx[c] EXCEPT !.op = "selected", !.pool = Candidates(c)]
<1>1. tx[c] \in TxRow /\ tx \in [Coordinators -> TxRow] /\ Candidates(c) \in SUBSET Stages
  BY DEF IInv, TypeOK, TxRow, Candidates
<1>2. t \in TxRow /\ t.op = "selected" /\ t.swept = tx[c].swept
  BY <1>1 DEF TxRow
<1>3. tx' = [tx EXCEPT ![c] = t] /\ run' = run /\ stage' = stage /\ aborts' = aborts
  BY <1>1 DEF LeaseSelect
<1>4. \A s \in t.swept : Late(s) /\ StageFree(c, s)
  BY <1>2, OwnSweep
<1> HIDE DEF t
<1>5. aborts' \in 0..MaxAborts
  BY <1>3 DEF IInv, TypeOK
<1>6. QED
  BY <1>2, <1>3, <1>4, <1>5, ReadStep DEF Operator

LEMMA CancelReadHolds ==
  ASSUME ~OperatorsRace, IInv, NEW c \in Coordinators, NEW r \in Runs, CancelRead(c, r)
  PROVE  IInv'
<1> DEFINE t == [Idle EXCEPT !.op = "cancel", !.of = <<r, 1>>]
<1>1. <<r, 1>> \in Stages
  BY LimitsAssumption DEF Stages
<1>2. t \in TxRow /\ t.op = "cancel" /\ t.of = <<r, 1>> /\ t.swept = {}
  BY <1>1 DEF Idle, TxRow, NoStage, Operator
<1>3. tx' = [tx EXCEPT ![c] = t] /\ run' = run /\ stage' = stage /\ aborts' = aborts
      /\ run[r].status \in OpenRun /\ Calm
  BY DEF CancelRead, Begin
<1> HIDE DEF t
<1>4. aborts' \in 0..MaxAborts
  BY <1>3 DEF IInv, TypeOK
<1>5. t.of \in Stages /\ run[t.of[1]].status \in OpenRun
  BY <1>1, <1>2, <1>3
<1>6. QED
  BY <1>2, <1>3, <1>4, <1>5, NoOperator, ReadStep DEF Operator

LEMMA DecideReadHolds ==
  ASSUME ~OperatorsRace, IInv, NEW c \in Coordinators, NEW s \in Stages,
         NEW verdict \in {"approve", "reject"}, DecideRead(c, s, verdict)
  PROVE  IInv'
<1> DEFINE t == [Idle EXCEPT !.op = verdict, !.of = s]
<1>1. t \in TxRow /\ t.op = verdict /\ t.of = s /\ t.swept = {}
  BY DEF Idle, TxRow, NoStage, Operator
<1>2. tx' = [tx EXCEPT ![c] = t] /\ run' = run /\ stage' = stage /\ aborts' = aborts
      /\ stage[s].status = "waiting_approval" /\ Calm
  BY DEF DecideRead, Begin
<1> HIDE DEF t
<1>3. aborts' \in 0..MaxAborts
  BY <1>2 DEF IInv, TypeOK
<1>4. run[s[1]].status \in OpenRun
  BY <1>2 DEF IInv, Good, Row, Active
<1>5. QED
  BY <1>1, <1>2, <1>3, <1>4, NoOperator, ReadStep DEF Operator

LEMMA AbortHolds ==
  ASSUME ~OperatorsRace, IInv, NEW c \in Coordinators, Abort(c)
  PROVE  IInv'
<1>1. tx' = [tx EXCEPT ![c] = Idle] /\ run' = run /\ stage' = stage
  BY DEF Abort, Commit, rows
<1>2. aborts' \in 0..MaxAborts
  BY LimitsAssumption DEF Abort, IInv, TypeOK
<1>3. QED
  BY <1>1, <1>2, IdleRow, ReadStep DEF Operator

(***************************************************************************)
(* The actions that write.                                                 *)
(***************************************************************************)
(* No lease that is held and not late is touched.                           *)
Stands == \A s \in Stages : Held(s) => stage'[s] = stage[s]

StandsBut(s) == \A q \in Stages : q # s /\ Held(q) => stage'[q] = stage[q]

LEMMA MaintenanceSweepHolds ==
  ASSUME ~OperatorsRace, IInv, NEW c \in Coordinators, MaintenanceSweep(c)
  PROVE  IInv' /\ Onward(run, run') /\ Stands
<1> DEFINE S == Sweepable(c)
<1>1. /\ stage' = StagesBack(S) /\ run' = RunsBack(S) /\ tx' = tx /\ aborts' = aborts
      /\ tx[c].op = "none" /\ Calm
  BY DEF MaintenanceSweep
<1>2. S \in SUBSET Stages /\ \A s \in S : Late(s) /\ StageFree(c, s)
  BY DEF Sweepable
<1> HIDE DEF S
<1>3. /\ Good(run', stage') /\ Onward(run, run')
      /\ \A s \in Stages \ S : stage'[s] = stage[s]
  BY <1>1, <1>2, BackHolds DEF Late, IInv
<1>4. \A d \in Coordinators : \A s \in tx[d].swept : s \in Stages \ S
  BY <1>1, <1>2 DEF IInv, Sweeping, StageFree, Others
<1>5. tx' \in [Coordinators -> TxRow] /\ aborts' \in 0..MaxAborts
  BY <1>1 DEF IInv, TypeOK, TxRow
<1>6. IInv'
  BY <1>1, <1>3, <1>4, <1>5, NoOperator, RowsStep
<1>7. Stands
  BY <1>2, <1>3 DEF Stands, Held, Late
<1>8. QED
  BY <1>3, <1>6, <1>7

(* What a coordinator that commits its sweep leaves of the others' rows.    *)
LEMMA OwnBack ==
  ASSUME IInv, NEW c \in Coordinators
  PROVE  /\ Good(SeenRun(c), Seen(c)) /\ Onward(run, SeenRun(c))
         /\ \A s \in Stages : s \notin tx[c].swept => Seen(c)[s] = stage[s]
         /\ \A s \in tx[c].swept : Seen(c)[s].status \in {"queued", "failed"}
  BY OwnSweep, BackHolds DEF Seen, SeenRun, Late, IInv

LEMMA CommitRow ==
  ASSUME IInv, NEW c \in Coordinators, Commit(c)
  PROVE  /\ tx' \in [Coordinators -> TxRow] /\ tx'[c] = Idle
         /\ \A d \in Coordinators : d # c => tx'[d] = tx[d]
  BY IdleRow DEF IInv, TypeOK, TxRow, Commit

LEMMA LeaseNothingHolds ==
  ASSUME ~OperatorsRace, IInv, NEW c \in Coordinators, LeaseNothing(c)
  PROVE  IInv' /\ Onward(run, run') /\ Stands
<1>1. stage' = Seen(c) /\ run' = SeenRun(c) /\ Commit(c) /\ aborts' = aborts /\ Calm
  BY DEF LeaseNothing
<1>2. Good(run', stage') /\ Onward(run, run')
  BY <1>1, OwnBack
<1>3. \A d \in Coordinators : d # c => \A s \in tx[d].swept : stage'[s] = stage[s]
  BY <1>1, OwnBack, OwnSweep DEF Others, Late, IInv, Sweeping
<1>4. aborts' \in 0..MaxAborts
  BY <1>1 DEF IInv, TypeOK
<1>5. \A d \in Coordinators : tx'[d].op \notin Operator
  BY <1>1, CommitRow, NoOperator, IdleRow DEF Operator
<1>6. IInv'
  BY <1>1, <1>2, <1>3, <1>4, <1>5, CommitRow, RowsStep
<1>7. Stands
  BY <1>1, OwnBack, OwnSweep DEF Stands, Held, Late
<1>8. QED
  BY <1>2, <1>6, <1>7

(* The stage given out is queued, so nobody holds it, and no other replica  *)
(* has swept it.                                                           *)
LEMMA LeaseGrantHolds ==
  ASSUME ~OperatorsRace, IInv, NEW c \in Coordinators, LeaseGrant(c)
  PROVE  IInv' /\ Onward(run, run') /\ Stands
<1>1. PICK s \in Grantable(c) :
        /\ stage' = [Seen(c) EXCEPT ![s] =
                      [status |-> "running", attempt |-> @.attempt + 1, late |-> FALSE]]
        /\ run' = [SeenRun(c) EXCEPT ![s[1]].status = "running"]
  BY DEF LeaseGrant
<1>2. Commit(c) /\ aborts' = aborts /\ Calm
  BY DEF LeaseGrant
<1>3. s \in Stages /\ StageFree(c, s) /\ Seen(c)[s].status = "queued"
  BY DEF Grantable, IInv, TypeOK
<1>4. Good(run', stage') /\ Onward(SeenRun(c), run')
  BY <1>1, <1>3, OwnBack, GrantHolds
<1>5. Onward(run, run')
  BY <1>4, OwnBack, OnwardTwice
<1>6. \A q \in Stages : q # s => stage'[q] = Seen(c)[q]
  BY <1>1, <1>3, OwnBack DEF Good
<1>7. \A d \in Coordinators : d # c => \A q \in tx[d].swept : stage'[q] = stage[q]
  <2> SUFFICES ASSUME NEW d \in Coordinators, d # c, NEW q \in tx[d].swept
               PROVE  stage'[q] = stage[q]
    OBVIOUS
  <2>1. q \in Stages /\ q # s /\ q \notin tx[c].swept
    BY <1>3, OwnSweep DEF StageFree, Others, IInv, Sweeping
  <2>2. QED
    BY <1>6, <2>1, OwnBack
<1>8. aborts' \in 0..MaxAborts
  BY <1>2 DEF IInv, TypeOK
<1>9. \A d \in Coordinators : tx'[d].op \notin Operator
  BY <1>2, CommitRow, NoOperator, IdleRow DEF Operator
<1>10. IInv'
  BY <1>2, <1>4, <1>5, <1>7, <1>8, <1>9, CommitRow, RowsStep
<1>11. Stands
  <2> SUFFICES ASSUME NEW q \in Stages, Held(q)
               PROVE  stage'[q] = stage[q]
    BY DEF Stands
  <2>1. q \notin tx[c].swept
    BY OwnSweep DEF Held, Late
  <2>2. q # s
    BY <1>3, <2>1, OwnBack DEF Held
  <2>3. QED
    BY <1>6, <2>1, <2>2, OwnBack
<1>12. QED
  BY <1>5, <1>10, <1>11

(* A held stage is in nobody's sweep: a report needs no more than its lock. *)
LEMMA ReportStep ==
  ASSUME ~OperatorsRace, IInv, Calm, tx' = tx, aborts' = aborts,
         Good(run', stage'), Onward(run, run'),
         \A s \in Stages : Late(s) => stage'[s] = stage[s]
  PROVE  IInv'
<1>1. tx' \in [Coordinators -> TxRow] /\ aborts' \in 0..MaxAborts
  BY DEF IInv, TypeOK, TxRow
<1>2. \A d \in Coordinators : \A s \in tx[d].swept : stage'[s] = stage[s]
  BY DEF IInv, Sweeping
<1>3. QED
  BY <1>1, <1>2, NoOperator, RowsStep

LEMMA FailHolds ==
  ASSUME ~OperatorsRace, IInv, NEW s \in Stages, Fail(s)
  PROVE  IInv' /\ Onward(run, run') /\ StandsBut(s)
<1> DEFINE S == {s}
<1>1. /\ stage' = StagesBack(S) /\ run' = RunsBack(S) /\ tx' = tx /\ aborts' = aborts
      /\ Held(s) /\ Calm
  BY DEF Fail
<1>2. S \in SUBSET Stages /\ \A q \in S : stage[q].status = "running" /\ ~Late(q)
  BY <1>1 DEF Held, Late
<1> HIDE DEF S
<1>3. /\ Good(run', stage') /\ Onward(run, run')
      /\ \A q \in Stages \ S : stage'[q] = stage[q]
  BY <1>1, <1>2, BackHolds DEF IInv
<1>4. \A q \in Stages : Late(q) => stage'[q] = stage[q]
  BY <1>2, <1>3
<1>5. StandsBut(s)
  BY <1>3 DEF S, StandsBut
<1>6. QED
  BY <1>1, <1>3, <1>4, <1>5, ReportStep

LEMMA LapseHolds ==
  ASSUME ~OperatorsRace, IInv, NEW s \in Stages, Lapse(s)
  PROVE  IInv' /\ Onward(run, run') /\ StandsBut(s)
<1>1. /\ stage' = [stage EXCEPT ![s].late = TRUE] /\ run' = run /\ tx' = tx /\ aborts' = aborts
      /\ Held(s) /\ Calm
  BY DEF Lapse
<1>2. Good(run, stage)
  BY DEF IInv
<1>3. LET row == [stage[s] EXCEPT !.late = TRUE]
      IN  row \in StageRow /\ row.status = stage[s].status /\ row.attempt = stage[s].attempt
  BY <1>2 DEF Good, StageRow
<1>4. /\ stage' \in [Stages -> StageRow]
      /\ stage'[s].status = "running" /\ stage'[s].attempt = stage[s].attempt
      /\ \A q \in Stages : q # s => stage'[q] = stage[q]
  BY <1>1, <1>2, <1>3 DEF Good, Held
<1>5. Row(run', stage', s)
  BY <1>1, <1>2, <1>4 DEF Good, Row, Active, Held
<1>6. Good(run', stage')
  <2>1. /\ run' \in [Runs -> RunRow] /\ \A r \in Runs : r # s[1] => run'[r] = run[r]
        /\ stage[s].status \in Active /\ stage'[s].status \notin {"absent", "completed"}
    BY <1>1, <1>2, <1>4 DEF Good, Held, Active
  <2>2. QED
    BY <1>2, <1>4, <1>5, <2>1, OneChanges
<1>7. Onward(run, run')
  BY <1>1 DEF Onward
<1>8. \A q \in Stages : Late(q) => stage'[q] = stage[q]
  BY <1>1, <1>4 DEF Held, Late
<1>9. StandsBut(s)
  BY <1>4 DEF StandsBut
<1>10. QED
  BY <1>1, <1>6, <1>7, <1>8, <1>9, ReportStep

(* The stage completed was the only active one of its run, and what follows *)
(* it had not begun.                                                       *)
LEMMA CompleteHolds ==
  ASSUME ~OperatorsRace, IInv, NEW s \in Stages, Complete(s)
  PROVE  IInv' /\ Onward(run, run') /\ StandsBut(s)
<1> DEFINE r    == s[1]
           next == <<s[1], s[2] + 1>>
           last == s[2] = run[s[1]].len
           to   == IF s[1] \in Gated /\ s[2] + 1 = run[s[1]].len THEN "waiting_approval" ELSE "queued"
           end  == IF last THEN "completed" ELSE IF to = "queued" THEN "running" ELSE to
<1>1. /\ stage' = [q \in Stages |->
           IF q = s THEN [stage[q] EXCEPT !.status = "completed"]
           ELSE IF q = next /\ ~last THEN [stage[q] EXCEPT !.status = to]
           ELSE stage[q]]
      /\ run' = [run EXCEPT ![r].status = end]
      /\ tx' = tx /\ aborts' = aborts /\ Held(s) /\ Calm
  BY DEF Complete
<1>2. Good(run, stage)
  BY DEF IInv
<1>3. /\ r \in Runs /\ s = <<r, s[2]>> /\ s[2] \in Nat
      /\ next[1] = r /\ next[2] = s[2] + 1 /\ next # s
  BY StageParts
<1>4. run[r].status \in OpenRun /\ run[r] \in RunRow
  BY <1>1, <1>2, <1>3 DEF Good, Row, Active, Held
<1>5. to \in {"queued", "waiting_approval"}
      /\ end \in {"completed", "running", "waiting_approval"} /\ (~last => end \in OpenRun)
  BY DEF OpenRun
<1>6. \A q \in Stages : q[1] = r /\ s[2] < q[2] =>
        stage[q].status \in {"absent", "pending", "cancelled"} /\ stage[q].attempt = 0
  BY <1>1, <1>2 DEF Good, InOrder, Held
<1>7. \A q \in Stages : q[1] = r /\ q[2] < s[2] => stage[q].status = "completed"
  BY <1>1, <1>2 DEF Good, InOrder, Held
<1>8. \A q \in Stages : q[1] = r /\ q # s => stage[q].status \notin Active
  BY <1>1, <1>2, OneActive DEF Held, Active
<1> HIDE DEF end, to, last, next
<1>9. /\ stage'[s].status = "completed" /\ stage'[s] \in StageRow
      /\ \A q \in Stages : q # s =>
           \/ stage'[q] = stage[q]
           \/ /\ q = next /\ ~last /\ stage'[q] \in StageRow
              /\ stage'[q].status = to /\ stage'[q].attempt = stage[q].attempt
  <2>1. \A q \in Stages : stage[q] \in StageRow
    BY <1>2 DEF Good
  <2>2. ASSUME NEW row \in StageRow, NEW st \in {"completed", "queued", "waiting_approval"}
        PROVE  LET w == [row EXCEPT !.status = st]
               IN  w \in StageRow /\ w.status = st /\ w.attempt = row.attempt
    BY DEF StageRow, OpenStage, EndedRun
  <2>3. stage'[s].status = "completed" /\ stage'[s] \in StageRow
    BY <1>1, <2>1, <2>2
  <2>4. ASSUME NEW q \in Stages, q = next, q # s, ~last
        PROVE  /\ stage'[q] \in StageRow
               /\ stage'[q].status = to /\ stage'[q].attempt = stage[q].attempt
    <3>1. stage'[q] = [stage[q] EXCEPT !.status = to]
      BY <1>1, <2>4
    <3>2. stage[q] \in StageRow /\ to \in {"completed", "queued", "waiting_approval"}
      BY <1>5, <2>1
    <3>3. LET w == [stage[q] EXCEPT !.status = to]
          IN  w \in StageRow /\ w.status = to /\ w.attempt = stage[q].attempt
      BY <2>2, <3>2, Zenon
    <3>4. QED
      BY <3>1, <3>3, Zenon
  <2>5. QED
    BY <1>1, <2>3, <2>4
<1>10. stage' \in [Stages -> StageRow]
  BY <1>1, <1>2, <1>9 DEF Good
<1>11. /\ run' \in [Runs -> RunRow] /\ run'[r].status = end
       /\ \A p \in Runs : p # r => run'[p] = run[p]
  <2>1. [run[r] EXCEPT !.status = end] \in RunRow /\ [run[r] EXCEPT !.status = end].status = end
    BY <1>4, <1>5 DEF RunRow, OpenRun, EndedRun
  <2>2. QED
    BY <1>1, <1>2, <1>3, <2>1 DEF Good
<1>12. ASSUME NEW q \in Stages
       PROVE  Row(run', stage', q)
  <2>1. CASE q[1] # r
    <3>1. q # s /\ q # next /\ q[1] \in Runs
      BY <1>3, <2>1, StageParts
    <3>2. QED
      BY <1>2, <1>9, <1>11, <2>1, <3>1 DEF Good, Row
  <2>2. CASE q[1] = r /\ q # s /\ stage'[q] = stage[q]
    BY <1>2, <1>5, <1>8, <1>11, <2>2 DEF Good, Row, OpenRun
  <2>3. CASE q = s
    BY <1>5, <1>9, <1>11, <2>3 DEF Row, Active, OpenRun
  <2>4. CASE q = next /\ ~last /\ stage'[q].status = to /\ stage'[q].attempt = stage[q].attempt
    <3>1. stage[q].attempt = 0
      BY <1>3, <1>6, <2>4
    <3>2. QED
      BY <1>3, <1>5, <1>11, <2>4, <3>1, LimitsAssumption DEF Row, Active, OpenRun
  <2>5. QED
    BY <1>9, <2>1, <2>2, <2>3, <2>4
<1>13. ASSUME NEW x \in Stages, NEW y \in Stages, x[1] = y[1], x[2] < y[2],
              stage'[x].status # "completed"
       PROVE  stage'[y].status \in {"absent", "pending", "cancelled"} /\ stage'[y].attempt = 0
  <2>1. x # s
    BY <1>9, <1>13
  <2>2. CASE x[1] # r
    <3>1. stage'[x] = stage[x] /\ stage'[y] = stage[y]
      BY <1>3, <1>9, <1>13, <2>2
    <3>2. QED
      BY <1>2, <1>13, <3>1 DEF Good, InOrder
  <2>3. CASE x[1] = r /\ s[2] < x[2]
    <3>1. y # s /\ y # next /\ y[1] = r /\ s[2] < y[2]
      BY <1>3, <1>13, <2>3, StageParts
    <3>2. QED
      BY <1>6, <1>9, <3>1
  <2>4. CASE x[1] = r /\ x[2] < s[2]
    <3>1. x # next /\ stage[x].status = "completed"
      BY <1>3, <1>7, <2>4, StageParts
    <3>2. QED
      BY <1>9, <1>13, <2>1, <3>1
  <2>5. QED
    BY <1>3, <2>1, <2>2, <2>3, <2>4, StageParts
<1>14. Good(run', stage')
  BY <1>10, <1>11, <1>12, <1>13 DEF Good, InOrder
<1>15. Onward(run, run')
  BY <1>4, <1>11 DEF Onward, OpenRun, EndedRun
<1>16. \A q \in Stages : Late(q) => stage'[q] = stage[q]
  <2>1. ~Late(s) /\ \A q \in Stages : q = next => ~Late(q)
    BY <1>1, <1>3, <1>6 DEF Held, Late
  <2>2. QED
    BY <1>9, <2>1
<1>17. StandsBut(s)
  BY <1>3, <1>6, <1>9 DEF StandsBut, Held
<1>18. QED
  BY <1>1, <1>14, <1>15, <1>16, <1>17, ReportStep

(* An operator's writes: nobody else's sweep holds the run, and afterwards  *)
(* no operator is at work.                                                 *)
LEMMA OperatorStep ==
  ASSUME ~OperatorsRace, IInv, NEW c \in Coordinators, tx[c].op \in Operator,
         Commit(c), aborts' = aborts, RunFree(c, tx[c].of[1]),
         Good(run', stage'), Onward(run, run'),
         \A s \in Stages : s[1] # tx[c].of[1] => stage'[s] = stage[s]
  PROVE  IInv'
<1>1. aborts' \in 0..MaxAborts
  BY DEF IInv, TypeOK
<1>2. \A d \in Coordinators : d # c => \A s \in tx[d].swept : stage'[s] = stage[s]
  BY DEF RunFree, Others, IInv, Sweeping
<1>3. \A d \in Coordinators : tx'[d].op \notin Operator
  BY CommitRow, IdleRow DEF IInv, Deciding, Operator
<1>4. QED
  BY <1>1, <1>2, <1>3, CommitRow, RowsStep

LEMMA CancelWriteHolds ==
  ASSUME ~OperatorsRace, IInv, NEW c \in Coordinators, CancelWrite(c)
  PROVE  IInv' /\ Onward(run, run')
<1> DEFINE r == tx[c].of[1]
<1>1. /\ tx[c].op = "cancel" /\ RunFree(c, r) /\ Commit(c) /\ aborts' = aborts
      /\ stage' = [s \in Stages |->
           IF s[1] = r /\ stage[s].status \in OpenStage
             THEN [stage[s] EXCEPT !.status = "cancelled", !.late = FALSE] ELSE stage[s]]
      /\ run' = [run EXCEPT ![r].status = "cancelled"]
  BY DEF CancelWrite
<1>2. tx[c].op \in Operator /\ tx[c].of \in Stages /\ run[r].status \in OpenRun
  BY <1>1 DEF Operator, IInv, Deciding
<1>3. Good(run, stage) /\ r \in Runs
  BY <1>2, StageParts DEF IInv
<1>4. ASSUME NEW row \in StageRow
      PROVE  LET w == [row EXCEPT !.status = "cancelled", !.late = FALSE]
             IN  w \in StageRow /\ w.status = "cancelled" /\ w.attempt = row.attempt
  BY DEF StageRow, EndedRun
<1>5. ASSUME NEW s \in Stages
      PROVE  /\ stage'[s] \in StageRow /\ stage'[s].attempt = stage[s].attempt
             /\ s[1] # r => stage'[s] = stage[s]
             /\ s[1] = r => stage'[s].status = IF stage[s].status \in OpenStage THEN "cancelled"
                                              ELSE stage[s].status
  <2>1. stage[s] \in StageRow
    BY <1>3 DEF Good
  <2>2. CASE s[1] = r /\ stage[s].status \in OpenStage
    <3> DEFINE w == [stage[s] EXCEPT !.status = "cancelled", !.late = FALSE]
    <3>1. w \in StageRow /\ w.status = "cancelled" /\ w.attempt = stage[s].attempt
      BY <1>4, <2>1
    <3>2. stage'[s] = w
      BY <1>1, <2>2
    <3> HIDE DEF w
    <3>3. QED
      BY <2>2, <3>1, <3>2
  <2>3. CASE ~(s[1] = r /\ stage[s].status \in OpenStage)
    BY <1>1, <2>1, <2>3
  <2>4. QED
    BY <2>2, <2>3
<1>6. stage' \in [Stages -> StageRow]
  BY <1>1, <1>5
<1>7. /\ run' \in [Runs -> RunRow] /\ run'[r].status = "cancelled"
      /\ \A p \in Runs : p # r => run'[p] = run[p]
  <2>1. LET w == [run[r] EXCEPT !.status = "cancelled"] IN w \in RunRow /\ w.status = "cancelled"
    BY <1>3 DEF Good, RunRow, EndedRun
  <2>2. QED
    BY <1>1, <1>3, <2>1 DEF Good
<1>8. ASSUME NEW s \in Stages
      PROVE  Row(run', stage', s)
  <2>1. CASE s[1] = r
    BY <1>3, <1>5, <1>7, <2>1 DEF Good, Row, OpenStage, Active
  <2>2. CASE s[1] # r
    BY <1>3, <1>5, <1>7, <2>2, StageParts DEF Good, Row
  <2>3. QED
    BY <2>1, <2>2
<1>9. ASSUME NEW s \in Stages, NEW q \in Stages, s[1] = q[1], s[2] < q[2],
             stage'[s].status # "completed"
      PROVE  stage'[q].status \in {"absent", "pending", "cancelled"} /\ stage'[q].attempt = 0
  <2>1. stage[s].status # "completed"
    BY <1>5, <1>9 DEF OpenStage
  <2>2. QED
    BY <1>3, <1>5, <1>9, <2>1 DEF Good, InOrder, OpenStage
<1>10. Good(run', stage')
  BY <1>6, <1>7, <1>8, <1>9 DEF Good, InOrder
<1>11. Onward(run, run')
  BY <1>2, <1>7 DEF Onward, OpenRun, EndedRun
<1>12. QED
  BY <1>1, <1>2, <1>5, <1>10, <1>11, OperatorStep

(* The stage decided upon still waits, so nobody holds it.                  *)
LEMMA DecideWriteHolds ==
  ASSUME ~OperatorsRace, IInv, NEW c \in Coordinators, DecideWrite(c)
  PROVE  IInv' /\ Onward(run, run') /\ Stands
<1> DEFINE s  == tx[c].of
           ok == tx[c].op = "approve"
           to == IF ok THEN "queued" ELSE "cancelled"
           end == IF ok THEN "running" ELSE "cancelled"
<1>1. /\ tx[c].op \in {"approve", "reject"} /\ RunFree(c, s[1]) /\ Commit(c) /\ aborts' = aborts
      /\ stage' = [stage EXCEPT ![s].status = to] /\ run' = [run EXCEPT ![s[1]].status = end]
  BY DEF DecideWrite
<1>2. tx[c].op \in Operator /\ s \in Stages /\ run[s[1]].status \in OpenRun
      /\ stage[s].status = "waiting_approval"
  BY <1>1 DEF Operator, IInv, Deciding
<1>3. Good(run, stage) /\ s[1] \in Runs
  BY <1>2, StageParts DEF IInv
<1>4. to \in {"queued", "cancelled"} /\ end \in {"running", "cancelled"}
      /\ (to = "queued" => end = "running")
  OBVIOUS
<1> HIDE DEF to, end, ok
<1>5. LET w == [stage[s] EXCEPT !.status = to]
      IN  w \in StageRow /\ w.status = to /\ w.attempt = stage[s].attempt
  BY <1>2, <1>3, <1>4 DEF Good, StageRow, OpenStage, EndedRun
<1>6. /\ stage' \in [Stages -> StageRow] /\ stage'[s].status = to
      /\ stage'[s].attempt = stage[s].attempt
      /\ \A q \in Stages : q # s => stage'[q] = stage[q]
  BY <1>1, <1>2, <1>3, <1>5 DEF Good
<1>7. LET w == [run[s[1]] EXCEPT !.status = end] IN w \in RunRow /\ w.status = end
  BY <1>3, <1>4 DEF Good, RunRow, OpenRun, EndedRun
<1>8. /\ run' \in [Runs -> RunRow] /\ run'[s[1]].status = end
      /\ \A r \in Runs : r # s[1] => run'[r] = run[r]
  BY <1>1, <1>3, <1>7 DEF Good
<1>9. stage[s].attempt = 0
  BY <1>2, <1>3 DEF Good, Row
<1>10. Row(run', stage', s)
  BY <1>4, <1>6, <1>8, <1>9, LimitsAssumption DEF Row, OpenRun, Active
<1>11. Good(run', stage')
  <2>1. stage[s].status \in Active /\ stage'[s].status \notin {"absent", "completed"}
    BY <1>2, <1>4, <1>6 DEF Active
  <2>2. QED
    BY <1>2, <1>3, <1>6, <1>8, <1>10, <2>1, OneChanges
<1>12. Onward(run, run')
  BY <1>2, <1>4, <1>8 DEF Onward, OpenRun, EndedRun
<1>13. IInv'
  BY <1>1, <1>2, <1>6, <1>11, <1>12, OperatorStep
<1>14. Stands
  BY <1>2, <1>6 DEF Stands, Held
<1>15. QED
  BY <1>12, <1>13, <1>14

(* The run that takes the last place: it is the only one being created, and  *)
(* the room counted under the lock is still there.                         *)
LEMMA CreateRunHolds ==
  ASSUME ~OperatorsRace, IInv, NEW c \in Coordinators, NEW r \in Runs, CreateRun(c, r)
  PROVE  /\ IInv' /\ Stands
         /\ \A p \in Runs : run[p].status \in EndedRun => run'[p] = run[p]
<1> DEFINE n     == ChainOf[r]
           first == IF r \in Gated /\ n = 1 THEN "waiting_approval" ELSE "queued"
           room  == tx[c].room
<1>1. /\ tx[c].op = "create" /\ Calm /\ run[r].status = "absent" /\ Commit(c) /\ aborts' = aborts
      /\ run' = [run EXCEPT ![r] = IF room THEN [status |-> first, len |-> n]
                                   ELSE [@ EXCEPT !.status = "refused"]]
      /\ stage' = [s \in Stages |->
           IF s[1] # r \/ s[2] > n \/ ~room THEN stage[s]
           ELSE [stage[s] EXCEPT !.status = IF s[2] = 1 THEN first ELSE "pending"]]
  BY DEF CreateRun
<1>2. Good(run, stage)
  BY DEF IInv
<1>3. n \in 1..MaxStages /\ first \in {"queued", "waiting_approval"} /\ first \in OpenRun
  BY LimitsAssumption DEF OpenRun
<1>4. \A s \in Stages : s[1] = r => stage[s].status = "absent" /\ stage[s].attempt = 0
  BY <1>1, <1>2 DEF Good, Row
<1> HIDE DEF n, first, room
<1>5. ASSUME NEW s \in Stages
      PROVE  /\ stage'[s] \in StageRow
             /\ s[1] # r \/ ~room => stage'[s] = stage[s]
             /\ s[1] = r => /\ stage'[s].attempt = 0
                            /\ \/ stage'[s].status \in {"absent", "pending"}
                               \/ stage'[s].status = first /\ s[2] = 1 /\ room
  <2>1. stage[s] \in StageRow
    BY <1>2 DEF Good
  <2>2. CASE s[1] # r \/ s[2] > n \/ ~room
    BY <1>1, <1>4, <2>1, <2>2
  <2>3. CASE ~(s[1] # r \/ s[2] > n \/ ~room)
    <3> DEFINE to == IF s[2] = 1 THEN first ELSE "pending"
               w  == [stage[s] EXCEPT !.status = to]
    <3>1. stage'[s] = w
      BY <1>1, <2>3
    <3>2. to \in OpenStage /\ (to = "pending" \/ (to = first /\ s[2] = 1))
      BY <1>3 DEF OpenStage
    <3> HIDE DEF to
    <3>3. w \in StageRow /\ w.status = to /\ w.attempt = stage[s].attempt
      BY <2>1, <3>2 DEF StageRow
    <3> HIDE DEF w
    <3>4. QED
      BY <1>4, <2>3, <3>1, <3>2, <3>3
  <2>4. QED
    BY <2>2, <2>3
<1>6. stage' \in [Stages -> StageRow]
  BY <1>1, <1>5
<1>7. /\ run' \in [Runs -> RunRow]
      /\ run'[r].status = IF room THEN first ELSE "refused"
      /\ \A p \in Runs : p # r => run'[p] = run[p]
  <2>1. [status |-> first, len |-> n] \in RunRow
    BY <1>3 DEF RunRow
  <2>2. LET w == [run[r] EXCEPT !.status = "refused"] IN w \in RunRow /\ w.status = "refused"
    BY <1>2 DEF Good, RunRow
  <2>3. QED
    BY <1>1, <1>2, <2>1, <2>2 DEF Good
<1>8. ASSUME NEW s \in Stages
      PROVE  Row(run', stage', s)
  <2>1. CASE s[1] # r
    BY <1>2, <1>5, <1>7, <2>1, StageParts DEF Good, Row
  <2>2. CASE s[1] = r /\ room
    BY <1>3, <1>5, <1>7, <2>2, LimitsAssumption DEF Row, Active, OpenRun
  <2>3. CASE s[1] = r /\ ~room
    BY <1>4, <1>5, <1>7, <2>3 DEF Row, Active
  <2>4. QED
    BY <2>1, <2>2, <2>3
<1>9. ASSUME NEW s \in Stages, NEW q \in Stages, s[1] = q[1], s[2] < q[2],
             stage'[s].status # "completed"
      PROVE  stage'[q].status \in {"absent", "pending", "cancelled"} /\ stage'[q].attempt = 0
  <2>1. CASE s[1] # r
    BY <1>2, <1>5, <1>9, <2>1 DEF Good, InOrder
  <2>2. CASE s[1] = r
    <3>1. q[2] # 1
      BY <1>9, StageParts
    <3>2. QED
      BY <1>5, <1>9, <2>2, <3>1
  <2>3. QED
    BY <2>1, <2>2
<1>10. Good(run', stage')
  BY <1>6, <1>7, <1>8, <1>9 DEF Good, InOrder
<1>11. TypeOK'
  <2>1. tx' \in [Coordinators -> TxRow] /\ aborts' \in 0..MaxAborts
    BY <1>1, CommitRow DEF IInv, TypeOK
  <2>2. QED
    BY <1>10, <2>1 DEF Good, TypeOK, RunRow, StageRow, TxRow
<1>12. Quota'
  <2>1. IsFiniteSet(OpenRuns(run)) /\ Cardinality(OpenRuns(run)) \in Nat
        /\ Cardinality(OpenRuns(run)) <= MaxQueued
    BY FS_CardinalityType DEF IInv, Quota
  <2>2. CASE room
    <3>1. Room
      BY <1>1, <2>2 DEF room, IInv, Creating
    <3>2. Cardinality(OpenRuns(run)) + 1 <= MaxQueued
      BY <3>1 DEF Room, OpenRuns
    <3>3. OpenRuns(run') = OpenRuns(run) \cup {r} /\ r \notin OpenRuns(run)
      BY <1>1, <1>3, <1>7, <2>2 DEF OpenRuns, OpenRun
    <3>4. IsFiniteSet(OpenRuns(run')) /\ Cardinality(OpenRuns(run')) = Cardinality(OpenRuns(run)) + 1
      BY <2>1, <3>3, FS_AddElement
    <3>5. QED
      BY <3>2, <3>4 DEF Quota
  <2>3. CASE ~room
    <3>1. OpenRuns(run') = OpenRuns(run)
      BY <1>1, <1>7, <2>3 DEF OpenRuns, OpenRun
    <3>2. QED
      BY <2>1, <3>1 DEF Quota
  <2>4. QED
    BY <2>2, <2>3
<1>13. \A s \in Stages : Held(s) \/ Late(s) => stage'[s] = stage[s]
  BY <1>4, <1>5 DEF Held, Late
<1>14. Sweeping'
  <2>1. \A d \in Coordinators : tx'[d] = tx[d] \/ tx'[d] = Idle
    BY <1>1, CommitRow
  <2>2. ASSUME NEW d \in Coordinators
        PROVE  tx'[d].swept \subseteq {s \in Stages : Late(s)'}
    <3>1. tx'[d].swept \subseteq tx[d].swept
      BY <2>1, IdleRow
    <3>2. \A s \in tx[d].swept : s \in Stages /\ Late(s)
      BY DEF IInv, Sweeping
    <3>3. QED
      BY <1>13, <3>1, <3>2 DEF Late
  <2>3. QED
    BY <2>1, <2>2, IdleRow DEF IInv, Sweeping
<1>15. Creating'
  <2>1. \A d \in Coordinators : tx'[d].op # "create"
    BY <1>1, CommitRow, IdleRow DEF IInv, Creating
  <2>2. QED
    BY <2>1 DEF Creating
<1>16. Deciding'
  <2>1. \A d \in Coordinators : tx'[d].op \notin Operator
    BY <1>1, CommitRow, IdleRow, NoOperator DEF Operator
  <2>2. QED
    BY <2>1 DEF Deciding
<1>17. IInv'
  BY <1>10, <1>11, <1>12, <1>14, <1>15, <1>16 DEF IInv
<1>18. Stands /\ \A p \in Runs : run[p].status \in EndedRun => run'[p] = run[p]
  BY <1>1, <1>7, <1>13 DEF Stands, EndedRun
<1>19. QED
  BY <1>17, <1>18

(***************************************************************************)
(* The theorems.                                                           *)
(***************************************************************************)
Settled == \A r \in Runs : run[r].status \in EndedRun => run'[r].status = run[r].status

Reported == \/ Stands
            \/ \E s \in Stages : (Complete(s) \/ Fail(s) \/ Lapse(s)) /\ StandsBut(s)
            \/ \E c \in Coordinators : CancelWrite(c)

Allowed ==
  \A s \in Stages :
    Held(s) /\ stage'[s] # stage[s] =>
      Complete(s) \/ Fail(s) \/ Lapse(s) \/ \E c \in Coordinators : CancelWrite(c)

LEMMA InitHolds == ASSUME Init PROVE IInv
<1>1. Idle \in TxRow /\ Idle.op = "none" /\ Idle.swept = {}
  BY IdleRow
<1>2. OpenRuns(run) = {}
  BY DEF Init, OpenRuns, OpenRun
<1>3. Quota
  BY <1>2, FS_EmptySet, LimitsAssumption DEF Quota
<1>4. TypeOK /\ Good(run, stage)
  BY <1>1, LimitsAssumption DEF Init, TypeOK, Good, InOrder, Row, RunRow, StageRow, TxRow, Active,
     OpenRun, Stages
<1>5. Sweeping /\ Creating /\ Deciding
  <2>1. \A c \in Coordinators : tx[c] = Idle
    BY DEF Init
  <2>2. Sweeping
    BY <1>1, <2>1 DEF Sweeping
  <2>3. Creating /\ Deciding
    BY <1>1, <2>1 DEF Creating, Deciding, Operator
  <2>4. QED
    BY <2>2, <2>3
<1>6. QED
  BY <1>3, <1>4, <1>5 DEF IInv

(* The three conclusions of each step, put together.                        *)
LEMMA StepHolds ==
  ASSUME ~OperatorsRace, IInv, [Next]_vars
  PROVE  IInv' /\ Settled /\ Reported
<1>1. ASSUME NEW c \in Coordinators,
             \/ CreateLock(c) \/ LeaseSweep(c) \/ LeaseSelect(c) \/ Abort(c)
             \/ \E r \in Runs : CancelRead(c, r)
             \/ \E s \in Stages, verdict \in {"approve", "reject"} : DecideRead(c, s, verdict)
      PROVE  IInv' /\ Settled /\ Reported
  <2>1. IInv'
    BY <1>1, CreateLockHolds, LeaseSweepHolds, LeaseSelectHolds, AbortHolds, CancelReadHolds,
       DecideReadHolds
  <2>2. run' = run /\ stage' = stage
    BY <1>1 DEF CreateLock, LeaseSweep, LeaseSelect, Abort, CancelRead, DecideRead, rows
  <2>3. QED
    BY <2>1, <2>2 DEF Settled, Reported, Stands
<1>2. ASSUME NEW c \in Coordinators, CreateOf(c)
      PROVE  IInv' /\ Settled /\ Reported
  BY <1>2, CreateRunHolds DEF CreateOf, Settled, Reported
<1>3. ASSUME NEW c \in Coordinators,
             LeaseGrant(c) \/ LeaseNothing(c) \/ MaintenanceSweep(c) \/ DecideWrite(c)
      PROVE  IInv' /\ Settled /\ Reported
  BY <1>3, LeaseGrantHolds, LeaseNothingHolds, MaintenanceSweepHolds, DecideWriteHolds
     DEF Onward, Settled, Reported
<1>4. ASSUME NEW c \in Coordinators, CancelWrite(c)
      PROVE  IInv' /\ Settled /\ Reported
  BY <1>4, CancelWriteHolds DEF Onward, Settled, Reported
<1>5. ASSUME NEW s \in Stages, Complete(s) \/ Fail(s) \/ Lapse(s)
      PROVE  IInv' /\ Settled /\ Reported
  BY <1>5, CompleteHolds, FailHolds, LapseHolds DEF Onward, Settled, Reported
<1>6. CASE UNCHANGED vars
  <2>1. run' = run /\ stage' = stage /\ tx' = tx /\ aborts' = aborts
    BY <1>6 DEF vars
  <2>2. IInv'
    <3>1. TypeOK' /\ Good(run, stage)' /\ Quota'
      BY <2>1 DEF IInv, TypeOK, Quota
    <3>2. Sweeping'
      BY <2>1 DEF IInv, Sweeping, Late
    <3>3. Creating' /\ Deciding'
      BY <2>1 DEF IInv, Creating, Room, Deciding
    <3>4. QED
      BY <3>1, <3>2, <3>3 DEF IInv
  <2>3. QED
    BY <2>1, <2>2 DEF Settled, Reported, Stands
<1>7. QED
  BY <1>1, <1>2, <1>3, <1>4, <1>5, <1>6 DEF Next

LEMMA Invariance == ASSUME ~OperatorsRace PROVE Spec => []IInv
<1>1. Init => IInv
  BY InitHolds
<1>2. IInv /\ [Next]_vars => IInv'
  BY StepHolds
<1>3. QED
  BY <1>1, <1>2, PTL DEF Spec

(* The rows and transactions keep their types; in particular no stage is     *)
(* given out more often than max_attempts says, though replicas sweep and   *)
(* grant in turns.                                                         *)
THEOREM Typed == ASSUME ~OperatorsRace PROVE Spec => []TypeOK
<1>1. IInv => TypeOK
  BY DEF IInv
<1>2. QED
  BY <1>1, Invariance, PTL

(* assertProjectQueueCapacity: however many replicas count at once, a        *)
(* project never has more open runs than max_queued_tasks.                  *)
THEOREM QueueQuotaKept == ASSUME ~OperatorsRace PROVE Spec => []QueueQuota
<1>1. IInv => QueueQuota
  BY DEF IInv, Quota, QueueQuota, OpenRuns
<1>2. QED
  BY <1>1, Invariance, PTL

(* leaseNext, cleanupExpiredLeases: no replica replaces or ends a lease that *)
(* is held and not late; only its worker's report, its deadline or an       *)
(* operator's cancellation does.                                           *)
THEOREM LeasesStandAcrossReplicas == ASSUME ~OperatorsRace PROVE Spec => OneLeaseAtATime
<1>1. IInv /\ [Next]_vars => [Allowed]_stage
  BY StepHolds DEF Reported, Stands, StandsBut, Allowed
<1>2. Spec => [][Allowed]_stage
  BY <1>1, Invariance, PTL DEF Spec
<1>3. QED
  BY <1>2 DEF OneLeaseAtATime, Allowed

(* completeLease, failLease and the sweeps of other replicas leave a run     *)
(* alone that is completed, failed or cancelled.                           *)
THEOREM EndedStaysEnded == ASSUME ~OperatorsRace PROVE Spec => EndedForGood
<1>1. IInv /\ [Next]_vars => [Settled]_run
  BY StepHolds
<1>2. Spec => [][Settled]_run
  BY <1>1, Invariance, PTL DEF Spec
<1>3. QED
  BY <1>2 DEF EndedForGood, Settled

(***************************************************************************)
(* Replicas implements RunLifecycle: run by run, the statements that write *)
(* submit the run, complete one more stage of it, abort it, or leave what  *)
(* was promised for it alone.                                              *)
(***************************************************************************)
Finished(st, r) == {s \in Stages : s[1] = r /\ st[s].status = "completed"}

(* The run is as far as it was; it is open as it was, or it was aborted, or *)
(* it was refused before it began.                                         *)
Kept(ru, st, rv, sv, r) ==
  /\ rv[r].len = ru[r].len /\ Finished(sv, r) = Finished(st, r)
  /\ \/ rv[r].status = ru[r].status
     \/ ru[r].status \in OpenRun /\ rv[r].status \in OpenRun \cup {"failed", "cancelled"}
     \/ ru[r].status = "absent" /\ rv[r].status = "refused"

Submitted(r) ==
  /\ run[r].status = "absent" /\ run'[r].status \in OpenRun
  /\ run'[r].len \in 1..MaxStages /\ Finished(stage', r) = {}

(* Its stages before position k were completed, and now stage k is.         *)
UpTo(r, k) == {r} \X (1..k)

Advanced(r, k) ==
  /\ run[r].status \in OpenRun /\ run'[r].len = run[r].len
  /\ Finished(stage, r) = UpTo(r, k - 1) /\ Finished(stage', r) = UpTo(r, k)
  /\ IF k = run[r].len THEN run'[r].status = "completed" ELSE run'[r].status \in OpenRun

(* Keeping composes.                                                        *)
LEMMA KeptTwice ==
  ASSUME NEW r \in Runs, NEW ru, NEW st, NEW rv, NEW sv, NEW rw, NEW sw,
         Kept(ru, st, rv, sv, r), Kept(rv, sv, rw, sw, r)
  PROVE  Kept(ru, st, rw, sw, r)
BY DEF Kept, OpenRun

(* There are k stages up to position k.                                     *)
LEMMA UpToHasAsMany ==
  ASSUME NEW r, NEW k \in Nat
  PROVE  Cardinality(UpTo(r, k)) = k
<1>1. IsFiniteSet({r}) /\ Cardinality({r}) = 1
  BY FS_Singleton
<1>2. IsFiniteSet(1..k) /\ Cardinality(1..k) = k
  BY FS_Interval
<1>3. Cardinality({r} \X (1..k)) = Cardinality({r}) * Cardinality(1..k)
  BY <1>1, <1>2, FS_Product
<1>4. QED
  BY <1>1, <1>2, <1>3 DEF UpTo

(* A stage that changes without having been or becoming completed leaves    *)
(* what its run has finished alone.                                        *)
LEMMA SameFinished ==
  ASSUME NEW st, NEW sv, NEW r,
         \A s \in Stages : s[1] = r =>
           \/ sv[s] = st[s]
           \/ sv[s].status # "completed" /\ st[s].status # "completed"
  PROVE  Finished(sv, r) = Finished(st, r)
BY DEF Finished

(* Leases taken back.                                                       *)
LEMMA BackKeeps ==
  ASSUME Good(run, stage), NEW S \in SUBSET Stages,
         \A s \in S : stage[s].status = "running", NEW r \in Runs
  PROVE  Kept(run, stage, RunsBack(S), StagesBack(S), r)
<1> DEFINE rv == RunsBack(S)
           sv == StagesBack(S)
<1>1. /\ \A s \in S : sv[s].status \in {"queued", "failed"}
      /\ \A s \in Stages \ S : sv[s] = stage[s]
  BY BackHolds
<1>2. Finished(sv, r) = Finished(stage, r)
  <2>1. \A s \in Stages : s[1] = r =>
          \/ sv[s] = stage[s]
          \/ sv[s].status # "completed" /\ stage[s].status # "completed"
    BY <1>1
  <2> HIDE DEF sv
  <2>2. QED
    BY <2>1, SameFinished
<1>3. CASE \A s \in S : s[1] # r
  <2>1. rv[r] = run[r]
    BY <1>3 DEF RunsBack
  <2>2. QED
    BY <1>2, <2>1 DEF Kept
<1>4. CASE \E s \in S : s[1] = r
  <2> DEFINE t  == CHOOSE t \in S : t[1] = r
             to == GivenBack(stage[t]).status
  <2>1. t \in S /\ t[1] = r /\ rv[r] = [run[r] EXCEPT !.status = to]
    BY <1>4 DEF RunsBack
  <2>2. stage[t] \in StageRow /\ run[r] \in RunRow /\ run[r].status \in OpenRun
    BY <2>1 DEF Good, Row, Active
  <2>3. to \in {"queued", "failed"}
    BY <2>2, GivenBackRow
  <2> HIDE DEF to, t
  <2>4. rv[r].status = to /\ rv[r].len = run[r].len
    BY <2>1, <2>2 DEF RunRow
  <2>5. QED
    BY <1>2, <2>2, <2>3, <2>4 DEF Kept, OpenRun
<1>5. QED
  BY <1>3, <1>4

(* One stage that neither was nor becomes completed, and the status of its  *)
(* run with it.                                                            *)
LEMMA OneKeeps ==
  ASSUME NEW ru, NEW st, Good(ru, st), NEW s \in Stages, NEW sv, NEW to,
         ru[s[1]].status \in OpenRun, to \in OpenRun \cup {"failed", "cancelled"},
         \A q \in Stages : q # s => sv[q] = st[q],
         st[s].status # "completed", sv[s].status # "completed", NEW r \in Runs
  PROVE  Kept(ru, st, [ru EXCEPT ![s[1]].status = to], sv, r)
<1> DEFINE rv == [ru EXCEPT ![s[1]].status = to]
<1>1. Finished(sv, r) = Finished(st, r)
  BY SameFinished
<1>2. ru \in [Runs -> RunRow] /\ s[1] \in Runs
  BY StageParts DEF Good
<1>3. CASE r = s[1]
  <2>1. ru[r] \in RunRow /\ rv[r] = [ru[r] EXCEPT !.status = to]
    BY <1>2, <1>3
  <2>2. rv[r].status = to /\ rv[r].len = ru[r].len
    BY <2>1 DEF RunRow
  <2> HIDE DEF rv
  <2>3. Kept(ru, st, rv, sv, r)
    BY <1>1, <1>3, <2>2 DEF Kept
  <2>4. QED
    BY <2>3 DEF rv
<1>4. CASE r # s[1]
  <2>1. rv[r] = ru[r]
    BY <1>2, <1>4
  <2>2. QED
    BY <1>1, <2>1 DEF Kept
<1>5. QED
  BY <1>3, <1>4

LEMMA LeaseKeeps ==
  ASSUME IInv, NEW c \in Coordinators, NEW r \in Runs,
         LeaseGrant(c) \/ LeaseNothing(c) \/ MaintenanceSweep(c)
  PROVE  Kept(run, stage, run', stage', r)
<1>1. Kept(run, stage, SeenRun(c), Seen(c), r)
  BY OwnSweep, BackKeeps DEF IInv, Seen, SeenRun, Late
<1>2. CASE LeaseNothing(c)
  BY <1>1, <1>2 DEF LeaseNothing
<1>3. CASE MaintenanceSweep(c)
  <2>1. Sweepable(c) \in SUBSET Stages /\ \A s \in Sweepable(c) : stage[s].status = "running"
    BY DEF Sweepable, Late
  <2>2. stage' = StagesBack(Sweepable(c)) /\ run' = RunsBack(Sweepable(c))
    BY <1>3 DEF MaintenanceSweep
  <2>3. QED
    BY <2>1, <2>2, BackKeeps DEF IInv
<1>4. CASE LeaseGrant(c)
  <2> DEFINE ru == SeenRun(c)
             st == Seen(c)
  <2>1. PICK s \in Grantable(c) :
          /\ stage' = [st EXCEPT ![s] =
                        [status |-> "running", attempt |-> @.attempt + 1, late |-> FALSE]]
          /\ run' = [ru EXCEPT ![s[1]].status = "running"]
    BY <1>4 DEF LeaseGrant
  <2>2. s \in Stages /\ st[s].status = "queued"
    BY DEF Grantable, IInv, TypeOK
  <2>3. Good(ru, st)
    BY OwnBack
  <2> HIDE DEF ru, st
  <2>4. ru[s[1]].status \in OpenRun
    BY <2>2, <2>3 DEF Good, Row, Active
  <2>5. stage'[s].status = "running" /\ \A q \in Stages : q # s => stage'[q] = st[q]
    BY <2>1, <2>2, <2>3 DEF Good
  <2>6. Kept(ru, st, run', stage', r)
    <3> DEFINE to == "running"
    <3>1. to \in OpenRun \cup {"failed", "cancelled"} /\ run' = [ru EXCEPT ![s[1]].status = to]
      BY <2>1 DEF OpenRun
    <3> HIDE DEF to
    <3>2. QED
      BY <2>2, <2>3, <2>4, <2>5, <3>1, OneKeeps
  <2>7. QED
    BY <1>1, <2>6, KeptTwice DEF ru, st
<1>5. QED
  BY <1>2, <1>3, <1>4

LEMMA ReportKeeps ==
  ASSUME IInv, NEW s \in Stages, NEW r \in Runs, Fail(s) \/ Lapse(s)
  PROVE  Kept(run, stage, run', stage', r)
<1>1. CASE Fail(s)
  <2>1. {s} \in SUBSET Stages /\ \A q \in {s} : stage[q].status = "running"
    BY <1>1 DEF Fail, Held
  <2>2. stage' = StagesBack({s}) /\ run' = RunsBack({s})
    BY <1>1 DEF Fail
  <2>3. QED
    BY <2>1, <2>2, BackKeeps DEF IInv
<1>2. CASE Lapse(s)
  <2>1. /\ stage' = [stage EXCEPT ![s].late = TRUE] /\ run' = run
        /\ stage[s].status = "running" /\ stage[s] \in StageRow /\ stage \in [Stages -> StageRow]
    BY <1>2 DEF Lapse, Held, IInv, Good
  <2>2. stage'[s].status = "running" /\ \A q \in Stages : q # s => stage'[q] = stage[q]
    BY <2>1 DEF StageRow
  <2>3. Finished(stage', r) = Finished(stage, r)
    BY <2>1, <2>2, SameFinished
  <2>4. QED
    BY <2>1, <2>3 DEF Kept
<1>3. QED
  BY <1>1, <1>2

LEMMA OperatorKeeps ==
  ASSUME IInv, NEW c \in Coordinators, NEW r \in Runs, CancelWrite(c) \/ DecideWrite(c)
  PROVE  Kept(run, stage, run', stage', r)
<1> DEFINE s == tx[c].of
<1>1. tx[c].op \in Operator /\ s \in Stages /\ s[1] \in Runs /\ run[s[1]].status \in OpenRun
      /\ (tx[c].op # "cancel" => stage[s].status = "waiting_approval")
  BY StageParts DEF CancelWrite, DecideWrite, Operator, IInv, Deciding
<1>2. Good(run, stage)
  BY DEF IInv
<1>3. CASE CancelWrite(c)
  <2>1. /\ stage' = [q \in Stages |->
             IF q[1] = s[1] /\ stage[q].status \in OpenStage
               THEN [stage[q] EXCEPT !.status = "cancelled", !.late = FALSE] ELSE stage[q]]
        /\ run' = [run EXCEPT ![s[1]].status = "cancelled"]
    BY <1>3 DEF CancelWrite
  <2>2. ASSUME NEW q \in Stages, q[1] = r
        PROVE  \/ stage'[q] = stage[q]
               \/ stage'[q].status # "completed" /\ stage[q].status # "completed"
    <3> DEFINE w == [stage[q] EXCEPT !.status = "cancelled", !.late = FALSE]
    <3>1. stage[q] \in StageRow
      BY <1>2 DEF Good
    <3>2. w.status = "cancelled"
      BY <3>1 DEF StageRow
    <3>3. stage'[q] = stage[q] \/ (stage'[q] = w /\ stage[q].status \in OpenStage)
      BY <2>1
    <3> HIDE DEF w
    <3>4. QED
      BY <3>2, <3>3 DEF OpenStage
  <2>3. Finished(stage', r) = Finished(stage, r)
    BY <2>2, SameFinished
  <2>4. CASE r # s[1]
    <3>1. run'[r] = run[r]
      BY <1>2, <2>1, <2>4 DEF Good
    <3>2. QED
      BY <2>3, <3>1 DEF Kept
  <2>5. CASE r = s[1]
    <3>1. run[r] \in RunRow /\ run'[r] = [run[r] EXCEPT !.status = "cancelled"]
      BY <1>2, <2>1, <2>5 DEF Good
    <3>2. run'[r].status = "cancelled" /\ run'[r].len = run[r].len
      BY <3>1 DEF RunRow
    <3>3. QED
      BY <1>1, <2>3, <2>5, <3>2 DEF Kept
  <2>6. QED
    BY <2>4, <2>5
<1>4. CASE DecideWrite(c)
  <2> DEFINE ok  == tx[c].op = "approve"
             to  == IF ok THEN "queued" ELSE "cancelled"
             end == IF ok THEN "running" ELSE "cancelled"
  <2>1. /\ stage' = [stage EXCEPT ![s].status = to] /\ run' = [run EXCEPT ![s[1]].status = end]
        /\ stage[s].status = "waiting_approval"
    BY <1>1, <1>4 DEF DecideWrite
  <2>2. to \in {"queued", "cancelled"} /\ end \in OpenRun \cup {"failed", "cancelled"}
    BY DEF OpenRun
  <2> HIDE DEF ok, to, end
  <2>3. stage[s] \in StageRow /\ stage \in [Stages -> StageRow]
    BY <1>1, <1>2 DEF Good
  <2>4. stage'[s].status = to /\ \A q \in Stages : q # s => stage'[q] = stage[q]
    BY <1>1, <2>1, <2>3 DEF StageRow
  <2> HIDE DEF s
  <2>5. QED
    BY <1>1, <1>2, <2>1, <2>2, <2>4, OneKeeps
<1>5. QED
  BY <1>3, <1>4

(* A run that is created has all its stages ahead of it.                    *)
LEMMA CreateSubmits ==
  ASSUME IInv, NEW c \in Coordinators, NEW q \in Runs, CreateRun(c, q), NEW r \in Runs
  PROVE  Kept(run, stage, run', stage', r) \/ Submitted(r)
<1> DEFINE n     == ChainOf[q]
           first == IF q \in Gated /\ n = 1 THEN "waiting_approval" ELSE "queued"
           room  == tx[c].room
<1>1. /\ run[q].status = "absent"
      /\ run' = [run EXCEPT ![q] = IF room THEN [status |-> first, len |-> n]
                                   ELSE [@ EXCEPT !.status = "refused"]]
      /\ stage' = [s \in Stages |->
           IF s[1] # q \/ s[2] > n \/ ~room THEN stage[s]
           ELSE [stage[s] EXCEPT !.status = IF s[2] = 1 THEN first ELSE "pending"]]
  BY DEF CreateRun
<1>2. n \in 1..MaxStages /\ first \in OpenRun /\ first # "completed"
  BY LimitsAssumption DEF OpenRun
<1>3. Good(run, stage)
  BY DEF IInv
<1> HIDE DEF n, first, room
<1>4. ASSUME NEW s \in Stages
      PROVE  /\ s[1] # q => stage'[s] = stage[s]
             /\ s[1] = q => stage[s].status = "absent" /\ stage'[s].status # "completed"
  <2>1. stage[s] \in StageRow /\ (s[1] = q => stage[s].status = "absent")
    BY <1>1, <1>3 DEF Good, Row
  <2>2. CASE s[1] # q \/ s[2] > n \/ ~room
    BY <1>1, <2>1, <2>2
  <2>3. CASE ~(s[1] # q \/ s[2] > n \/ ~room)
    <3> DEFINE to == IF s[2] = 1 THEN first ELSE "pending"
               w  == [stage[s] EXCEPT !.status = to]
    <3>1. stage'[s] = w /\ to # "completed"
      BY <1>1, <1>2, <2>3
    <3> HIDE DEF to
    <3>2. w.status = to
      BY <2>1 DEF StageRow
    <3> HIDE DEF w
    <3>3. QED
      BY <2>1, <2>3, <3>1, <3>2
  <2>4. QED
    BY <2>2, <2>3
<1>5. Finished(stage', r) = Finished(stage, r)
  BY <1>4, SameFinished
<1>6. CASE r # q
  <2>1. run'[r] = run[r]
    BY <1>1, <1>3, <1>6 DEF Good
  <2>2. QED
    BY <1>5, <2>1 DEF Kept
<1>7. CASE r = q /\ room
  <2>1. run'[r] = [status |-> first, len |-> n]
    BY <1>1, <1>3, <1>7 DEF Good
  <2>2. Finished(stage', r) = {}
    BY <1>4, <1>7 DEF Finished
  <2>3. QED
    BY <1>1, <1>2, <1>7, <2>1, <2>2 DEF Submitted
<1>8. CASE r = q /\ ~room
  <2>1. run[r] \in RunRow /\ run'[r] = [run[r] EXCEPT !.status = "refused"]
    BY <1>1, <1>3, <1>8 DEF Good
  <2>2. run'[r].status = "refused" /\ run'[r].len = run[r].len
    BY <2>1 DEF RunRow
  <2>3. QED
    BY <1>1, <1>5, <1>8, <2>2 DEF Kept
<1>9. QED
  BY <1>6, <1>7, <1>8

(* Since nothing behind the completed stage has begun and nothing before it *)
(* is left, the run has finished the stages up to it, and no other.        *)
LEMMA CompleteAdvances ==
  ASSUME IInv, NEW s \in Stages, Complete(s), NEW r \in Runs
  PROVE  \/ Kept(run, stage, run', stage', r)
         \/ r = s[1] /\ Advanced(r, s[2])
<1> DEFINE next == <<s[1], s[2] + 1>>
           last == s[2] = run[s[1]].len
           to   == IF s[1] \in Gated /\ s[2] + 1 = run[s[1]].len THEN "waiting_approval" ELSE "queued"
           end  == IF last THEN "completed" ELSE IF to = "queued" THEN "running" ELSE to
<1>1. /\ stage' = [q \in Stages |->
           IF q = s THEN [stage[q] EXCEPT !.status = "completed"]
           ELSE IF q = next /\ ~last THEN [stage[q] EXCEPT !.status = to]
           ELSE stage[q]]
      /\ run' = [run EXCEPT ![s[1]].status = end]
      /\ stage[s].status = "running"
  BY DEF Complete, Held
<1>2. Good(run, stage)
  BY DEF IInv
<1>3. s[1] \in Runs /\ s = <<s[1], s[2]>> /\ s[2] \in 1..MaxStages
      /\ next[1] = s[1] /\ next[2] = s[2] + 1 /\ next # s
  BY StageParts
<1>4. to # "completed" /\ (IF last THEN end = "completed" ELSE end \in OpenRun)
  BY DEF OpenRun
<1>5. run[s[1]] \in RunRow /\ run[s[1]].status \in OpenRun
  BY <1>1, <1>2, <1>3 DEF Good, Row, Active
<1> HIDE DEF next, to, end
<1>6. ASSUME NEW q \in Stages
      PROVE  /\ q = s => stage'[q].status = "completed"
             /\ q # s => stage'[q] = stage[q] \/ (q = next /\ stage'[q].status = to)
  <2>1. stage[q] \in StageRow
    BY <1>2 DEF Good
  <2>2. [stage[q] EXCEPT !.status = to].status = to
        /\ [stage[q] EXCEPT !.status = "completed"].status = "completed"
    BY <2>1 DEF StageRow
  <2>3. stage'[q] = IF q = s THEN [stage[q] EXCEPT !.status = "completed"]
                    ELSE IF q = next /\ ~last THEN [stage[q] EXCEPT !.status = to]
                    ELSE stage[q]
    BY <1>1
  <2>4. QED
    BY <2>2, <2>3, Zenon
<1>7. CASE r # s[1]
  <2>1. \A q \in Stages : q[1] = r => stage'[q] = stage[q]
    BY <1>3, <1>6, <1>7
  <2>2. Finished(stage', r) = Finished(stage, r)
    BY <2>1, SameFinished
  <2>3. run'[r] = run[r]
    BY <1>1, <1>2, <1>7 DEF Good
  <2>4. QED
    BY <2>2, <2>3 DEF Kept
<1>8. CASE r = s[1]
  <2>1. ASSUME NEW q \in Stages, q[1] = r
        PROVE  stage[q].status = "completed" <=> q[2] < s[2]
    <3>1. CASE q[2] < s[2]
      BY <1>1, <1>2, <1>8, <2>1, <3>1 DEF Good, InOrder
    <3>2. CASE s[2] < q[2]
      <4>1. stage[q].status \in {"absent", "pending", "cancelled"}
        BY <1>1, <1>2, <1>8, <2>1, <3>2 DEF Good, InOrder
      <4>2. ~(q[2] < s[2])
        BY <3>2, StageParts
      <4>3. QED
        BY <4>1, <4>2
    <3>3. CASE q[2] = s[2]
      <4>1. q = s /\ ~(q[2] < s[2])
        BY <1>8, <2>1, <3>3, StageParts
      <4>2. QED
        BY <1>1, <4>1
    <3>4. QED
      BY <3>1, <3>2, <3>3, StageParts
  <2>2. ASSUME NEW q \in Stages, q[1] = r
        PROVE  stage'[q].status = "completed" <=> q[2] <= s[2]
    <3>1. CASE q = s
      BY <1>3, <1>6, <3>1
    <3>2. CASE q # s /\ q = next
      <4>1. ~(q[2] < s[2]) /\ ~(q[2] <= s[2])
        BY <1>3, <3>2
      <4>2. stage'[q].status # "completed"
        BY <1>4, <1>6, <2>1, <2>2, <3>2, <4>1
      <4>3. QED
        BY <4>1, <4>2
    <3>3. CASE q # s /\ q # next
      <4>1. stage'[q] = stage[q]
        BY <1>6, <3>3
      <4>2. q[2] # s[2]
        BY <1>8, <2>2, <3>3, StageParts
      <4>3. q[2] < s[2] <=> q[2] <= s[2]
        BY <4>2, StageParts
      <4>4. QED
        BY <2>1, <2>2, <4>1, <4>3
    <3>4. QED
      BY <3>1, <3>2, <3>3
  <2>3. ASSUME NEW k \in 0..MaxStages
        PROVE  UpTo(r, k) = {q \in Stages : q[1] = r /\ q[2] <= k}
    <3>1. UpTo(r, k) \subseteq {q \in Stages : q[1] = r /\ q[2] <= k}
      BY LimitsAssumption DEF UpTo, Stages
    <3>2. ASSUME NEW q \in Stages, q[1] = r, q[2] <= k
          PROVE  q \in UpTo(r, k)
      <4>1. q = <<r, q[2]>> /\ q[2] \in 1..k
        BY <3>2, StageParts, LimitsAssumption
      <4>2. QED
        BY <4>1 DEF UpTo
    <3>3. QED
      BY <3>1, <3>2
  <2>4. Finished(stage, r) = UpTo(r, s[2] - 1)
    <3>1. s[2] - 1 \in 0..MaxStages
      BY <1>3, LimitsAssumption
    <3>2. \A q \in Stages : q[2] < s[2] <=> q[2] <= s[2] - 1
      BY StageParts
    <3>3. QED
      BY <2>1, <2>3, <3>1, <3>2 DEF Finished
  <2>5. Finished(stage', r) = UpTo(r, s[2])
    <3>1. s[2] \in 0..MaxStages
      BY <1>3, LimitsAssumption
    <3>2. QED
      BY <2>2, <2>3, <3>1 DEF Finished
  <2>6. run'[r].len = run[r].len /\ run'[r].status = end
    <3>1. run'[r] = [run[r] EXCEPT !.status = end]
      BY <1>1, <1>2, <1>3, <1>8 DEF Good
    <3>2. QED
      BY <1>5, <1>8, <3>1 DEF RunRow
  <2>7. QED
    BY <1>4, <1>5, <1>8, <2>4, <2>5, <2>6 DEF Advanced
<1>9. QED
  BY <1>7, <1>8

(* What a step of any replica does to the promise made for run r.           *)
LEMMA RunStep ==
  ASSUME IInv, [Next]_vars, NEW r \in Runs
  PROVE  \/ Kept(run, stage, run', stage', r) \/ Submitted(r)
         \/ \E k \in 1..MaxStages : Advanced(r, k)
<1>1. CASE run' = run /\ stage' = stage
  BY <1>1 DEF Kept
<1>2. ASSUME NEW c \in Coordinators,
             \/ CreateLock(c) \/ LeaseSweep(c) \/ LeaseSelect(c) \/ Abort(c)
             \/ \E p \in Runs : CancelRead(c, p)
             \/ \E s \in Stages, verdict \in {"approve", "reject"} : DecideRead(c, s, verdict)
      PROVE  run' = run /\ stage' = stage
  BY <1>2 DEF CreateLock, LeaseSweep, LeaseSelect, Abort, CancelRead, DecideRead, rows
<1>3. ASSUME NEW c \in Coordinators, CreateOf(c)
      PROVE  Kept(run, stage, run', stage', r) \/ Submitted(r)
  BY <1>3, CreateSubmits DEF CreateOf
<1>4. ASSUME NEW c \in Coordinators,
             \/ LeaseGrant(c) \/ LeaseNothing(c) \/ MaintenanceSweep(c)
             \/ CancelWrite(c) \/ DecideWrite(c)
      PROVE  Kept(run, stage, run', stage', r)
  BY <1>4, LeaseKeeps, OperatorKeeps
<1>5. ASSUME NEW s \in Stages, Fail(s) \/ Lapse(s)
      PROVE  Kept(run, stage, run', stage', r)
  BY <1>5, ReportKeeps
<1>6. ASSUME NEW s \in Stages, Complete(s)
      PROVE  \/ Kept(run, stage, run', stage', r)
             \/ \E k \in 1..MaxStages : Advanced(r, k)
  BY <1>6, CompleteAdvances, StageParts
<1>7. QED
  BY <1>1, <1>2, <1>3, <1>4, <1>5, <1>6 DEF Next, vars

PhaseOf(status) == IF status \in {"absent", "refused"} THEN "absent"
                   ELSE IF status \in OpenRun THEN "open" ELSE status

(* However many coordinators share the database, what RunLifecycle promises *)
(* to who submitted a run holds of the committed rows: the stages are       *)
(* completed in order and each once, the run with the last, and once ended  *)
(* it never changes.                                                       *)
THEOREM ReplicasKeepThePromise == ASSUME ~OperatorsRace PROVE Spec => ImplementsLifecycle
<1>1. Init => Promise!Init
  <2> SUFFICES ASSUME Init
               PROVE  Promise!Init
    OBVIOUS
  <2>1. \A r \in Runs : run[r].status = "absent" /\ run[r].len = 0
    BY DEF Init
  <2>2. \A r \in Runs : {s \in Stages : s[1] = r /\ stage[s].status = "completed"} = {}
    BY DEF Init
  <2>3. \A r \in Runs :
          Cardinality({s \in Stages : s[1] = r /\ stage[s].status = "completed"}) = 0
    BY <2>2, FS_EmptySet
  <2>4. QED
    BY <2>1, <2>3 DEF Promise!Init
<1>2. ASSUME IInv, [Next]_vars
      PROVE  Promise!Next
  <2> SUFFICES ASSUME NEW r \in Runs
               PROVE  \/ Promise!Submit(r) \/ Promise!Advance(r)
                      \/ Promise!Abort(r) \/ Promise!Stay(r)
    BY DEF Promise!Next
  <2> DEFINE phase == [q \in Runs |-> PhaseOf(run[q].status)]
             done  == [q \in Runs |-> Cardinality(Finished(stage, q))]
  <2>1. /\ phase[r] = PhaseOf(run[r].status) /\ phase'[r] = PhaseOf(run'[r].status)
        /\ done[r] = Cardinality(Finished(stage, r))
        /\ done'[r] = Cardinality(Finished(stage', r))
    BY DEF Finished
  <2>2. ASSUME Kept(run, stage, run', stage', r)
        PROVE  Promise!Abort(r) \/ Promise!Stay(r)
    <3>1. \/ PhaseOf(run'[r].status) = PhaseOf(run[r].status)
          \/ PhaseOf(run[r].status) = "open" /\ PhaseOf(run'[r].status) \in {"failed", "cancelled"}
      BY <2>2 DEF Kept, PhaseOf, OpenRun
    <3>2. done'[r] = done[r] /\ run'[r].len = run[r].len
      BY <2>1, <2>2 DEF Kept
    <3>3. QED
      BY <2>1, <3>1, <3>2 DEF Promise!Abort, Promise!Stay, Finished, PhaseOf
  <2>3. ASSUME Submitted(r)
        PROVE  Promise!Submit(r)
    <3>1. PhaseOf(run[r].status) = "absent" /\ PhaseOf(run'[r].status) = "open"
      BY <2>3 DEF Submitted, PhaseOf, OpenRun
    <3>2. done'[r] = 0
      BY <2>1, <2>3, FS_EmptySet DEF Submitted
    <3>3. run'[r].len \in 1..MaxStages
      BY <2>3 DEF Submitted
    <3>4. QED
      BY <2>1, <3>1, <3>2, <3>3 DEF Promise!Submit, Finished, PhaseOf
  <2>4. ASSUME NEW k \in 1..MaxStages, Advanced(r, k)
        PROVE  Promise!Advance(r)
    <3>1. done[r] = k - 1 /\ done'[r] = k
      <4>1. k - 1 \in Nat /\ k \in Nat
        BY LimitsAssumption
      <4>2. Cardinality(UpTo(r, k - 1)) = k - 1 /\ Cardinality(UpTo(r, k)) = k
        BY <4>1, UpToHasAsMany
      <4>3. QED
        BY <2>1, <2>4, <4>2 DEF Advanced
    <3>2. done'[r] = done[r] + 1 /\ done[r] + 1 = k
      BY <3>1, LimitsAssumption
    <3>3. /\ PhaseOf(run[r].status) = "open"
          /\ PhaseOf(run'[r].status) = IF k = run[r].len THEN "completed" ELSE "open"
          /\ run'[r].len = run[r].len
      BY <2>4 DEF Advanced, PhaseOf, OpenRun
    <3>4. QED
      BY <2>1, <3>2, <3>3 DEF Promise!Advance, Finished, PhaseOf
  <2>5. QED
    BY <1>2, <2>2, <2>3, <2>4, RunStep
<1>3. IInv /\ [Next]_vars => [Promise!Next]_(Promise!vars)
  BY <1>2
<1>4. QED
  BY <1>1, <1>3, Invariance, PTL DEF Spec, ImplementsLifecycle, Promise!Spec
=============================================================================
