------------------------- MODULE DurableRuntimeProofs -------------------------
(***************************************************************************)
(* The theorems of DurableRuntime, for any processes, schedules, branches, *)
(* requests in flight and faults.                                          *)
(***************************************************************************)
EXTENDS DurableRuntime, TLAPS

Statuses == {"absent", "active", "compensating"} \cup Ended
Rows  == [status : Statuses, wait : [Branches -> {"work", "ahead", "due", "done"}],
          cur : Branches \cup {"join"}, armed : BOOLEAN, born : 0..1]
Flows == [st : {"none", "tick", "told", "cancelCall", "cleanTick", "closed"} \cup Asleep,
          wake : BOOLEAN, timer : Branches \cup {"poll", "end"}, stray : BOOLEAN]
Hands == [up : BOOLEAN, starting : SUBSET Direct, failed : SUBSET Direct]

(* What a cancelled workflow does, and never anything else again.          *)
Cleaning == {"cancelCall", "cleanSleep", "cleanTick"}

(* Unless there is news, the reply a workflow was told last, or sleeps by,   *)
(* is the one it would be told now.                                        *)
NewsOf(i) ==
  wf[i].st \in {"told", "sleep"} /\ ~wf[i].wake /\ note[i] = "none" =>
    wf[i].timer = ReplyOf(inst[i])

(* News or not, nobody is told of an end that is none, nor sleeps on one.   *)
EndsOf(w, row) ==
  /\ w.st = "told" /\ w.timer = "end" => row.status \in Ended
  /\ w.st = "sleep" => w.timer # "end"

(* An instance, its workflow and the start that is in hand.                *)
InstanceTied(i) ==
  /\ inst[i].status = "absent" <=> inst[i].born = 0
  /\ inst[i].status = "absent" => wf[i].st = "none"
  /\ wf[i].st = "closed" => inst[i].status \in Ended
  /\ wf[i].stray => wf[i].st \in Cleaning \cup {"closed"}
  /\ i \in coord.starting => coord.up /\ wf[i].st = "none" /\ inst[i].status # "absent"
  /\ i \in coord.failed => inst[i].status # "absent"
  /\ EndsOf(wf[i], inst[i])
  /\ NewsOf(i)

(* An occurrence of a schedule: its receipt, its instance, its parent and   *)
(* its child.                                                              *)
ScheduleTied(k) ==
  /\ rcpt[k] \in {"none", "fenced"} <=> inst[k].status = "absent"
  /\ rcpt[k] = "madeCancelled" => inst[k].status # "active"
  /\ par[k] \in {"none", "start"} => rcpt[k] \in {"none", "made"}
  /\ par[k] \in {"child", "run"} => rcpt[k] = "made"
  /\ rcpt[k] = "none" => par[k] \in {"none", "start", "cancelCall"}
  /\ par[k] \in {"none", "start", "child"} => wf[k].st = "none"
  /\ par[k] \in Cleaning => wf[k].st \notin {"tick", "told", "sleep"}
  /\ par[k] = "closed" => inst[k].status \in Ended \cup {"absent"}

Tied == (\A i \in Instances : InstanceTied(i)) /\ (\A k \in Scheduled : ScheduleTied(k))
IInv == TypeOK /\ Tied

(* What is tied says what the three properties say, and more.              *)
LEMMA TiedIsEnough == ASSUME Tied PROVE ClosedIsSettled /\ CancellationStands /\ SleepsOnNews
<1>1. \A k \in Scheduled : k \in Instances
  BY DEF Instances
<1>2. ClosedIsSettled
  BY DEF Tied, InstanceTied, ScheduleTied, ClosedIsSettled
<1>3. CancellationStands
  BY DEF Tied, ScheduleTied, CancellationStands, Ended
<1>4. SleepsOnNews
  BY DEF Tied, InstanceTied, NewsOf, EndsOf, ReplyOf, SleepsOnNews
<1>5. QED
  BY <1>2, <1>3, <1>4

(***************************************************************************)
(* The operators.                                                          *)
(***************************************************************************)
(* A tick completes an active instance or leaves its status alone.         *)
LEMMA TickedRow ==
  ASSUME NEW r \in Rows
  PROVE  /\ Ticked(r) \in Rows /\ Ticked(r).born = r.born
         /\ \/ Ticked(r).status = r.status
            \/ r.status = "active" /\ Ticked(r).status = "completed"
<1> DEFINE due == {b \in Branches : r.wait[b] = "due"}
           now == [b \in Branches |-> IF b \in due THEN "done" ELSE r.wait[b]]
           over == IF \A b \in Branches : now[b] = "done" THEN "completed" ELSE r.status
           q == [r EXCEPT !.wait = now, !.cur = "join", !.status = over]
<1>1. now \in [Branches -> {"work", "ahead", "due", "done"}]
  BY DEF Rows
<1>2. over \in Statuses /\ (over = r.status \/ over = "completed")
  BY DEF Rows, Statuses, Ended
<1>3. Ticked(r) = IF r.status # "active" \/ due = {} THEN r ELSE q
  BY DEF Ticked
<1> HIDE DEF due, now, over
<1>4. q \in Rows /\ q.born = r.born /\ q.status = over
  BY <1>1, <1>2 DEF Rows
<1>5. QED
  BY <1>2, <1>3, <1>4

(* A cancellation stops an active instance, or has it compensated first.   *)
LEMMA CancelledRow ==
  ASSUME NEW r \in Rows
  PROVE  /\ Cancelled(r) \in Rows /\ Cancelled(r).born = r.born
         /\ Cancelled(r).status # "active"
         /\ \/ Cancelled(r).status = r.status
            \/ r.status = "active" /\ Cancelled(r).status \in {"compensating", "stopped"}
<1> DEFINE none == [b \in Branches |-> "done"]
           next == IF r.armed THEN "compensating" ELSE "stopped"
           q == [r EXCEPT !.status = next, !.wait = none, !.cur = "join"]
<1>1. none \in [Branches -> {"work", "ahead", "due", "done"}]
  OBVIOUS
<1>2. next \in Statuses /\ next \in {"compensating", "stopped"}
  BY DEF Statuses, Ended
<1>3. Cancelled(r) = IF r.status # "active" THEN r ELSE q
  BY DEF Cancelled
<1> HIDE DEF none, next
<1>4. q \in Rows /\ q.born = r.born /\ q.status = next
  BY <1>1, <1>2 DEF Rows
<1>5. QED
  BY <1>2, <1>3, <1>4

(* The first start gives an instance its one life.                         *)
LEMMA BornRow ==
  ASSUME NEW r \in Rows, r.born = 0
  PROVE  Born(r) \in Rows /\ Born(r).born = 1 /\ Born(r).status = "active"
<1>1. \A n \in 0..1 : LET q == [r EXCEPT !.status = "active", !.born = n]
                      IN  q \in Rows /\ q.born = n /\ q.status = "active"
  BY DEF Rows, Statuses
<1>2. r.born + 1 = 1 /\ Born(r) = [r EXCEPT !.status = "active", !.born = r.born + 1]
  BY DEF Born
<1>3. QED
  BY <1>1, <1>2

(* workflow.start begins a workflow that was never there, and no other.     *)
LEMMA BegunFlow ==
  ASSUME NEW w \in Flows
  PROVE  /\ Begun(w) \in Flows
         /\ \/ Begun(w) = w /\ w.st # "none"
            \/ w.st = "none" /\ Begun(w).st = "tick" /\ Begun(w).stray = w.stray
BY DEF Begun, Flows

(* A workflow sets a timer of one of its branches, or polls.               *)
LEMMA TimerType ==
  ASSUME NEW r \in Rows PROVE TimerOf(r) \in Branches \cup {"poll"}
BY DEF TimerOf, Rows

(* A finished cleanup leaves an instance that has ended.                   *)
LEMMA CleanedStep ==
  ASSUME NEW r PROVE Cleaned(r) \in {"closed", "cleanSleep"} /\ (Cleaned(r) = "closed" => r.status \in Ended)
BY DEF Cleaned

LEMMA FaultCounted == ASSUME ConstantsAssumption, TypeOK, Fault PROVE faults' \in 0..MaxFaults
BY DEF ConstantsAssumption, TypeOK, Fault

(***************************************************************************)
(* One step, about one instance.                                           *)
(***************************************************************************)
Parents == {"none", "start", "child", "run", "cancelCall", "cleanSleep", "cleanTick", "closed"}
Notes   == {"none", "sent", "lost", "silent"}

(* The types of the variables, each set under a name.                      *)
LEMMA Types ==
  TypeOK <=> /\ inst \in [Instances -> Rows] /\ wf \in [Instances -> Flows]
             /\ rcpt \in [Scheduled -> {"none", "made", "madeCancelled", "fenced"}]
             /\ par \in [Scheduled -> Parents] /\ reqs \in [Scheduled -> 0..MaxSends]
             /\ note \in [Instances -> Notes]
             /\ coord \in Hands /\ faults \in 0..MaxFaults
BY DEF TypeOK, Rows, Statuses, Flows, Hands, Parents, Notes

(* Everything about other instances stays as it was.                       *)
Only(i) ==
  /\ \A j \in Instances : j # i => inst'[j] = inst[j] /\ wf'[j] = wf[j] /\ note'[j] = note[j]
  /\ \A k \in Scheduled : k # i => rcpt'[k] = rcpt[k] /\ par'[k] = par[k]
  /\ coord'.up = coord.up /\ \A j \in coord'.starting : j # i => j \in coord.starting
  /\ \A j \in coord'.failed : j # i => j \in coord.failed

LEMMA OneInstance ==
  ASSUME IInv, NEW i \in Instances, Only(i), TypeOK',
         InstanceTied(i)', i \in Scheduled => ScheduleTied(i)'
  PROVE  IInv'
<1>1. ASSUME NEW j \in Instances, j # i PROVE InstanceTied(j)'
  <2>1. InstanceTied(j)
    BY DEF IInv, Tied
  <2>2. inst'[j] = inst[j] /\ wf'[j] = wf[j] /\ note'[j] = note[j]
        /\ coord'.up = coord.up /\ (j \in coord'.starting => j \in coord.starting)
        /\ (j \in coord'.failed => j \in coord.failed)
    BY <1>1 DEF Only
  <2>3. NewsOf(j)'
    BY <2>1, <2>2 DEF InstanceTied, NewsOf, ReplyOf, TimerOf
  <2>4. QED
    BY <2>1, <2>2, <2>3 DEF InstanceTied, EndsOf
<1>2. ASSUME NEW k \in Scheduled, k # i PROVE ScheduleTied(k)'
  <2>1. ScheduleTied(k) /\ k \in Instances
    BY DEF IInv, Tied, Instances
  <2>2. inst'[k] = inst[k] /\ wf'[k] = wf[k] /\ rcpt'[k] = rcpt[k] /\ par'[k] = par[k]
    BY <1>2, <2>1 DEF Only
  <2>3. QED
    BY <2>1, <2>2 DEF ScheduleTied
<1>3. QED
  BY <1>1, <1>2 DEF IInv, Tied

(* What the invariant gives an action on one instance.                     *)
LEMMA Given ==
  ASSUME IInv, NEW i \in Instances
  PROVE  /\ inst[i] \in Rows /\ wf[i] \in Flows /\ note[i] \in Notes
         /\ InstanceTied(i)
         /\ i \in Scheduled => /\ ScheduleTied(i) /\ par[i] \in Parents
                               /\ rcpt[i] \in {"none", "made", "madeCancelled", "fenced"}
BY Types DEF IInv, Tied

(* A step that changes the row, the flow and the notification of one        *)
(* instance, and neither receipts nor parents.                             *)
LEMMA RowStep ==
  ASSUME ConstantsAssumption, IInv, NEW i \in Instances,
         NEW q \in Rows, inst' = [inst EXCEPT ![i] = q],
         NEW w \in Flows, wf' = [wf EXCEPT ![i] = w],
         NEW n \in Notes, note' = [note EXCEPT ![i] = n],
         UNCHANGED <<rcpt, par, reqs, coord>>, faults' \in 0..MaxFaults,
         q.born = inst[i].born,
         \/ q.status = inst[i].status
         \/ inst[i].status = "active" /\ q.status \in {"completed", "compensating", "stopped"}
         \/ inst[i].status = "compensating" /\ q.status = "stopped",
         \/ w.st = wf[i].st /\ w.timer = wf[i].timer
         \/ /\ wf[i].st \notin Cleaning \cup {"none", "closed"} /\ w.st \in {"tick", "told", "sleep"}
            /\ EndsOf(w, q)
         \/ wf[i].st # "none" /\ w.st \in Cleaning \cup {"closed"},
         w.st = "closed" => q.status \in Ended,
         w.stray => w.st \in Cleaning \cup {"closed"},
         w.st \in {"told", "sleep"} /\ ~w.wake /\ n = "none" => w.timer = ReplyOf(q)
  PROVE  IInv'
<1>1. /\ inst \in [Instances -> Rows] /\ wf \in [Instances -> Flows] /\ note \in [Instances -> Notes]
      /\ TypeOK
  BY Types DEF IInv
<1>2. /\ inst' \in [Instances -> Rows] /\ wf' \in [Instances -> Flows] /\ note' \in [Instances -> Notes]
      /\ inst'[i] = q /\ wf'[i] = w /\ note'[i] = n
  BY <1>1
<1>3. Only(i)
  BY <1>1 DEF Only
<1>4. TypeOK'
  BY <1>1, <1>2, Types DEF TypeOK, Rows, Statuses, Flows, Hands, Parents, Notes
<1>5. InstanceTied(i) /\ (i \in Scheduled => ScheduleTied(i))
  BY Given
<1>6. InstanceTied(i)'
  <2>1. NewsOf(i)'
    BY <1>2 DEF NewsOf, ReplyOf, TimerOf
  <2>2. EndsOf(w, q)
    BY <1>5 DEF InstanceTied, EndsOf, Ended, Cleaning
  <2>3. EndsOf(wf[i], inst[i])'
    BY <1>2, <2>2 DEF EndsOf
  <2>4. QED
    BY <1>2, <1>5, <2>1, <2>3 DEF InstanceTied, Ended, Cleaning
<1>7. ASSUME i \in Scheduled PROVE ScheduleTied(i)'
  <2>1. ScheduleTied(i) /\ rcpt'[i] = rcpt[i] /\ par'[i] = par[i]
    BY <1>5, <1>7
  <2>2. q.status = "absent" <=> inst[i].status = "absent"
    BY <1>5 DEF InstanceTied, Ended
  <2>3. (rcpt'[i] \in {"none", "fenced"} <=> inst'[i].status = "absent")
        /\ (rcpt'[i] = "madeCancelled" => inst'[i].status # "active")
        /\ (par'[i] = "closed" => inst'[i].status \in Ended \cup {"absent"})
    BY <1>2, <2>1, <2>2 DEF ScheduleTied, Ended
  <2>4. w.st = "none" <=> wf[i].st = "none"
    BY DEF Cleaning
  <2>5. par'[i] \in Cleaning => wf'[i].st \notin {"tick", "told", "sleep"}
    BY <1>1, <1>2, <2>1 DEF ScheduleTied, Cleaning, Flows, Asleep
  <2>6. QED
    BY <1>2, <2>1, <2>3, <2>4, <2>5 DEF ScheduleTied
<1>8. QED
  BY <1>3, <1>4, <1>6, <1>7, OneInstance

(***************************************************************************)
(* The engine's steps.                                                     *)
(***************************************************************************)
(* Whoever changes an instance leaves news, whether it is told or not.      *)
LEMMA NewsMade ==
  ASSUME IInv, NEW i \in Instances, Notify(i) \/ Silent(i)
  PROVE  \E n \in Notes : n # "none" /\ note' = [note EXCEPT ![i] = n]
<1>1. note[i] \in Notes
  BY Given
<1>2. CASE note' = [note EXCEPT ![i] = "sent"]
  BY <1>2 DEF Notes
<1>3. CASE Silent(i)
  <2>1. note' = [note EXCEPT ![i] = IF note[i] = "none" THEN "silent" ELSE note[i]]
    BY <1>3 DEF Silent
  <2>2. QED
    BY <1>1, <2>1 DEF Notes
<1>4. QED
  BY <1>2, <1>3 DEF Notify

LEMMA ReportHolds ==
  ASSUME ConstantsAssumption, IInv, NEW i \in Instances, NEW b \in Branches, Report(i, b)
  PROVE  IInv'
<1>1. PICK armed \in {inst[i].armed, TRUE} :
        inst' = [inst EXCEPT ![i].wait[b] = "ahead", ![i].cur = b, ![i].armed = armed]
  BY DEF Report
<1> DEFINE wait == [inst[i].wait EXCEPT ![b] = "ahead"]
           q == [inst[i] EXCEPT !.wait = wait, !.cur = b, !.armed = armed]
<1>2. inst[i] \in Rows /\ wf[i] \in Flows /\ TypeOK /\ InstanceTied(i)
  BY Given DEF IInv
<1>3. wait \in [Branches -> {"work", "ahead", "due", "done"}] /\ armed \in BOOLEAN
  BY <1>1, <1>2 DEF Rows
<1>4. inst' = [inst EXCEPT ![i] = q]
  <2>1. inst \in [Instances -> Rows]
    BY <1>2, Types
  <2>2. inst'[i] = q /\ \A j \in Instances : j # i => inst'[j] = inst[j]
    BY <1>1, <2>1
  <2>3. inst' = [j \in Instances |-> inst'[j]]
    BY <1>1, <2>1
  <2>4. QED
    BY <2>1, <2>2, <2>3
<1> HIDE DEF wait
<1>5. q \in Rows /\ q.born = inst[i].born /\ q.status = inst[i].status
  BY <1>2, <1>3 DEF Rows
<1> HIDE DEF q
<1>6. PICK n \in Notes : n # "none" /\ note' = [note EXCEPT ![i] = n]
  BY NewsMade DEF Report
<1>6a. /\ wf' = [wf EXCEPT ![i] = wf[i]]
      /\ UNCHANGED <<rcpt, par, reqs, coord>> /\ faults' \in 0..MaxFaults
  BY <1>2, Types DEF Report
<1>7. inst[i].status = "active"
  BY DEF Report
<1>8. QED
  BY <1>2, <1>4, <1>5, <1>6, <1>6a, <1>7, RowStep DEF InstanceTied, Ended

LEMMA StopHolds ==
  ASSUME ConstantsAssumption, IInv, NEW i \in Instances, Stop(i)
  PROVE  IInv'
<1> DEFINE q == Cancelled(inst[i])
<1>1. inst[i] \in Rows /\ wf[i] \in Flows /\ TypeOK /\ InstanceTied(i)
  BY Given DEF IInv
<1>2. q \in Rows /\ q.born = inst[i].born /\ q.status \in {"compensating", "stopped"}
      /\ inst[i].status = "active"
  BY <1>1, CancelledRow DEF Stop
<1>3. inst' = [inst EXCEPT ![i] = q]
  BY DEF Stop
<1> HIDE DEF q
<1>4. PICK n \in Notes : n # "none" /\ note' = [note EXCEPT ![i] = n]
  BY NewsMade DEF Stop
<1>4a. /\ wf' = [wf EXCEPT ![i] = wf[i]]
      /\ UNCHANGED <<rcpt, par, reqs, coord>> /\ faults' \in 0..MaxFaults
  BY <1>1, Types DEF Stop
<1>5. QED
  BY <1>1, <1>2, <1>3, <1>4, <1>4a, RowStep DEF InstanceTied, Ended

LEMMA CompensateHolds ==
  ASSUME ConstantsAssumption, IInv, NEW i \in Instances, Compensate(i)
  PROVE  IInv'
<1> DEFINE q == [inst[i] EXCEPT !.status = "stopped"]
<1>1. inst[i] \in Rows /\ wf[i] \in Flows /\ TypeOK /\ InstanceTied(i)
  BY Given DEF IInv
<1>2. q \in Rows /\ q.born = inst[i].born /\ q.status = "stopped" /\ inst[i].status = "compensating"
  BY <1>1 DEF Compensate, Rows, Statuses, Ended
<1>3. inst' = [inst EXCEPT ![i] = q]
  BY DEF Compensate
<1> HIDE DEF q
<1>4. PICK n \in Notes : n # "none" /\ note' = [note EXCEPT ![i] = n]
  BY NewsMade DEF Compensate
<1>4a. /\ wf' = [wf EXCEPT ![i] = wf[i]]
      /\ UNCHANGED <<rcpt, par, reqs, coord>> /\ faults' \in 0..MaxFaults
  BY <1>1, Types DEF Compensate
<1>5. QED
  BY <1>1, <1>2, <1>3, <1>4, <1>4a, RowStep DEF InstanceTied, Ended

LEMMA RevokeHolds ==
  ASSUME ConstantsAssumption, IInv, NEW i \in Instances, Revoke(i)
  PROVE  IInv'
<1> DEFINE none == [b \in Branches |-> "done"]
           q == [inst[i] EXCEPT !.status = "stopped", !.cur = "join", !.wait = none]
<1>1. inst[i] \in Rows /\ wf[i] \in Flows /\ TypeOK /\ InstanceTied(i)
  BY Given DEF IInv
<1>2. none \in [Branches -> {"work", "ahead", "due", "done"}]
  OBVIOUS
<1>3. inst' = [inst EXCEPT ![i] = q] /\ inst[i].status \in {"active", "compensating"}
  <2>1. inst' = [inst EXCEPT ![i].status = "stopped", ![i].cur = "join", ![i].wait = none]
        /\ inst[i].status \in {"active", "compensating"} /\ inst \in [Instances -> Rows]
    BY <1>1, Types DEF Revoke
  <2>2. QED
    BY <2>1
<1> HIDE DEF none
<1>4. q \in Rows /\ q.born = inst[i].born /\ q.status = "stopped"
  BY <1>1, <1>2 DEF Rows, Statuses, Ended
<1> HIDE DEF q
<1>5. PICK n \in Notes : n # "none" /\ note' = [note EXCEPT ![i] = n]
  BY NewsMade DEF Revoke
<1>6. /\ wf' = [wf EXCEPT ![i] = wf[i]]
      /\ UNCHANGED <<rcpt, par, reqs, coord>> /\ faults' \in 0..MaxFaults
  BY <1>1, Types DEF Revoke
<1>7. QED
  BY <1>1, <1>3, <1>4, <1>5, <1>6, RowStep DEF InstanceTied, Ended

(* A deadline that passes does not change the timer that is asked for.     *)
LEMMA PassHolds ==
  ASSUME ConstantsAssumption, IInv, NEW i \in Instances, NEW b \in Branches, Pass(i, b)
  PROVE  IInv'
<1> DEFINE wait == [inst[i].wait EXCEPT ![b] = "due"]
           q == [inst[i] EXCEPT !.wait = wait]
<1>1. inst[i] \in Rows /\ wf[i] \in Flows /\ note[i] \in Notes /\ TypeOK /\ InstanceTied(i)
  BY Given DEF IInv
<1>2. q \in Rows /\ q.born = inst[i].born /\ q.status = inst[i].status /\ q.cur = inst[i].cur
      /\ q.wait = wait
  BY <1>1 DEF Rows
<1>3. inst' = [inst EXCEPT ![i] = q] /\ inst[i].wait[b] = "ahead" /\ inst[i].status = "active"
  BY DEF Pass
<1>4. TimerOf(q) = TimerOf(inst[i])
  BY <1>1, <1>2, <1>3 DEF TimerOf, Rows
<1> HIDE DEF q
<1>5. /\ wf' = [wf EXCEPT ![i] = wf[i]] /\ note' = [note EXCEPT ![i] = note[i]]
      /\ UNCHANGED <<rcpt, par, reqs, coord>> /\ faults' \in 0..MaxFaults
  BY <1>1, Types DEF Pass, net
<1>6. wf[i].st \in {"told", "sleep"} /\ ~wf[i].wake /\ note[i] = "none" => wf[i].timer = ReplyOf(q)
  BY <1>1, <1>2, <1>4 DEF InstanceTied, NewsOf, ReplyOf
<1>7. QED
  BY <1>1, <1>2, <1>3, <1>5, <1>6, RowStep DEF InstanceTied, Ended

(***************************************************************************)
(* The workflow of an instance.                                            *)
(***************************************************************************)
(* What a workflow can be told.                                            *)
LEMMA ReplyType ==
  ASSUME ConstantsAssumption, NEW r \in Rows
  PROVE  ReplyOf(r) \in Branches \cup {"poll", "end"} /\ (ReplyOf(r) = "end" <=> r.status \in Ended)
<1>1. TimerOf(r) \in Branches \cup {"poll"}
  BY TimerType
<1>2. "end" \notin Branches
  BY DEF ConstantsAssumption
<1>3. QED
  BY <1>1, <1>2 DEF ReplyOf

LEMMA TickHolds ==
  ASSUME ConstantsAssumption, IInv, NEW i \in Instances, Tick(i)
  PROVE  IInv'
<1> DEFINE q == Ticked(inst[i])
           t == ReplyOf(q)
           a == [wf[i] EXCEPT !.st = "told", !.timer = t]
           n == IF note[i] \in {"lost", "silent"} THEN "none" ELSE note[i]
<1>1. inst[i] \in Rows /\ wf[i] \in Flows /\ note[i] \in Notes /\ TypeOK /\ InstanceTied(i)
  BY Given DEF IInv
<1>2. /\ q \in Rows /\ q.born = inst[i].born
      /\ q.status = inst[i].status \/ (inst[i].status = "active" /\ q.status = "completed")
  BY <1>1, TickedRow
<1>3. inst' = [inst EXCEPT ![i] = q] /\ wf[i].st = "tick" /\ UNCHANGED <<rcpt, par, reqs, coord>>
  BY DEF Tick
<1>4. t \in Branches \cup {"poll", "end"} /\ (t = "end" <=> q.status \in Ended)
  BY <1>2, ReplyType
<1>5. n \in Notes /\ ~wf[i].stray
  BY <1>1, <1>3 DEF Notes, InstanceTied, Cleaning
<1>6. \/ wf' = [wf EXCEPT ![i] = a] /\ note' = [note EXCEPT ![i] = n] /\ faults' = faults
      \/ Fault /\ UNCHANGED <<wf, note>>
  <2>1. \/ /\ wf' = [wf EXCEPT ![i].st = "told", ![i].timer = t]
           /\ note' = [note EXCEPT ![i] = n] /\ faults' = faults
        \/ Fault /\ UNCHANGED <<wf, note>>
    BY DEF Tick
  <2>2. QED
    BY <1>1, <2>1, Types
<1>7. t = ReplyOf(q)
  OBVIOUS
<1> HIDE DEF q, t, n
<1>8. a \in Flows /\ a.st = "told" /\ a.timer = t /\ a.stray = wf[i].stray
  BY <1>1, <1>4 DEF Flows
<1> HIDE DEF a
<1>9. CASE wf' = [wf EXCEPT ![i] = a] /\ note' = [note EXCEPT ![i] = n] /\ faults' = faults
  <2>1. faults' \in 0..MaxFaults
    BY <1>1, <1>9, Types
  <2>2. wf[i].st \notin Cleaning \cup {"none", "closed"} /\ EndsOf(a, q)
    BY <1>3, <1>4, <1>8 DEF Cleaning, EndsOf
  <2>3. QED
    BY <1>2, <1>3, <1>5, <1>7, <1>8, <1>9, <2>1, <2>2, RowStep
<1>10. CASE Fault /\ UNCHANGED <<wf, note>>
  <2>1. /\ faults' \in 0..MaxFaults
        /\ wf' = [wf EXCEPT ![i] = wf[i]] /\ note' = [note EXCEPT ![i] = note[i]]
    BY <1>1, <1>10, FaultCounted, Types
  <2>2. QED
    BY <1>1, <1>2, <1>3, <1>5, <2>1, RowStep
<1>11. QED
  BY <1>6, <1>9, <1>10

(* What comes between the reply and its receipt is news to the sleeper.    *)
LEMMA HearHolds ==
  ASSUME ConstantsAssumption, IInv, NEW i \in Instances, Hear(i)
  PROVE  IInv'
<1> DEFINE w == Heard(wf[i])
<1>1. inst[i] \in Rows /\ wf[i] \in Flows /\ note[i] \in Notes /\ TypeOK /\ InstanceTied(i)
  BY Given DEF IInv
<1>2. wf[i].st = "told" /\ wf' = [wf EXCEPT ![i] = w]
  BY DEF Hear
<1>3. /\ w \in Flows /\ w.stray = wf[i].stray /\ w.timer = wf[i].timer /\ w.wake = wf[i].wake
      /\ wf[i].timer = "end" => w.st = "closed"
      /\ wf[i].timer # "end" => w.st = "sleep"
  BY <1>1 DEF Heard, Flows, Asleep
<1> HIDE DEF w
<1>4. /\ w.st = "closed" => inst[i].status \in Ended
      /\ w.st \in {"sleep", "closed"} /\ ~w.stray /\ EndsOf(w, inst[i])
      /\ w.st \in {"told", "sleep"} /\ ~w.wake /\ note[i] = "none" => w.timer = ReplyOf(inst[i])
      /\ wf[i].st \notin Cleaning \cup {"none", "closed"}
  BY <1>1, <1>2, <1>3 DEF InstanceTied, NewsOf, EndsOf, Cleaning
<1>5. /\ inst' = [inst EXCEPT ![i] = inst[i]] /\ note' = [note EXCEPT ![i] = note[i]]
      /\ UNCHANGED <<rcpt, par, reqs, coord>> /\ faults' \in 0..MaxFaults
  BY <1>1, Types DEF Hear, db, net
<1>6. QED
  BY <1>1, <1>2, <1>3, <1>4, <1>5, RowStep

LEMMA WakeHolds ==
  ASSUME ConstantsAssumption, IInv, NEW i \in Instances, Wake(i)
  PROVE  IInv'
<1>1. inst[i] \in Rows /\ wf[i] \in Flows /\ note[i] \in Notes /\ TypeOK /\ InstanceTied(i)
  BY Given DEF IInv
<1>2. wf[i].st = "sleep" /\ wf' = [wf EXCEPT ![i].st = "tick", ![i].wake = FALSE]
  BY DEF Wake
<1> DEFINE w == [wf[i] EXCEPT !.st = "tick", !.wake = FALSE]
<1>3. w \in Flows /\ w.st = "tick" /\ w.stray = wf[i].stray
  BY <1>1 DEF Flows
<1>4. wf' = [wf EXCEPT ![i] = w]
  BY <1>1, <1>2, Types
<1>5. ~wf[i].stray
  BY <1>1, <1>2 DEF InstanceTied, Cleaning
<1> HIDE DEF w
<1>6. /\ inst' = [inst EXCEPT ![i] = inst[i]] /\ note' = [note EXCEPT ![i] = note[i]]
      /\ UNCHANGED <<rcpt, par, reqs, coord>> /\ faults' \in 0..MaxFaults
  BY <1>1, Types DEF Wake, db, net
<1>7. EndsOf(w, inst[i])
  BY <1>3 DEF EndsOf
<1>8. QED
  BY <1>1, <1>2, <1>3, <1>4, <1>5, <1>6, <1>7, RowStep DEF Cleaning

LEMMA ContinueAsNewHolds ==
  ASSUME ConstantsAssumption, IInv, NEW i \in Instances, ContinueAsNew(i)
  PROVE  IInv'
<1>1. inst[i] \in Rows /\ wf[i] \in Flows /\ note[i] \in Notes /\ TypeOK /\ InstanceTied(i)
  BY Given DEF IInv
<1>2. wf[i].st = "told" /\ wf' = [wf EXCEPT ![i].st = "tick", ![i].wake = FALSE]
  BY DEF ContinueAsNew
<1> DEFINE w == [wf[i] EXCEPT !.st = "tick", !.wake = FALSE]
<1>3. w \in Flows /\ w.st = "tick" /\ w.stray = wf[i].stray
  BY <1>1 DEF Flows
<1>4. wf' = [wf EXCEPT ![i] = w]
  BY <1>1, <1>2, Types
<1>5. ~wf[i].stray
  BY <1>1, <1>2 DEF InstanceTied, Cleaning
<1> HIDE DEF w
<1>6. /\ inst' = [inst EXCEPT ![i] = inst[i]] /\ note' = [note EXCEPT ![i] = note[i]]
      /\ UNCHANGED <<rcpt, par, reqs, coord>> /\ faults' \in 0..MaxFaults
  BY <1>1, Types DEF ContinueAsNew, db, net
<1>7. EndsOf(w, inst[i])
  BY <1>3 DEF EndsOf
<1>8. QED
  BY <1>1, <1>2, <1>3, <1>4, <1>5, <1>6, <1>7, RowStep DEF Cleaning

LEMMA CancelWorkflowHolds ==
  ASSUME ConstantsAssumption, IInv, NEW i \in Instances, CancelWorkflow(i)
  PROVE  IInv'
<1>1. inst[i] \in Rows /\ wf[i] \in Flows /\ note[i] \in Notes /\ TypeOK /\ InstanceTied(i)
  BY Given DEF IInv
<1> DEFINE s == wf[i].stray \/ wf[i].st = "tick"
           w == [wf[i] EXCEPT !.st = "cancelCall", !.stray = s]
<1>2. s \in BOOLEAN
  BY <1>1 DEF Flows
<1>3. wf[i].st \in {"tick", "told", "sleep"} /\ wf' = [wf EXCEPT ![i] = w]
  <2>1. wf[i].st \in {"tick", "told", "sleep"}
        /\ wf' = [wf EXCEPT ![i].st = "cancelCall", ![i].stray = @ \/ wf[i].st = "tick"]
    BY DEF CancelWorkflow
  <2>2. QED
    BY <1>1, <2>1, Types
<1> HIDE DEF s
<1>4. w \in Flows /\ w.st = "cancelCall"
  BY <1>1, <1>2 DEF Flows
<1> HIDE DEF w
<1>5. /\ inst' = [inst EXCEPT ![i] = inst[i]] /\ note' = [note EXCEPT ![i] = note[i]]
      /\ UNCHANGED <<rcpt, par, reqs, coord>> /\ faults' \in 0..MaxFaults
  BY <1>1, Types DEF CancelWorkflow, db, net
<1>6. QED
  BY <1>1, <1>3, <1>4, <1>5, RowStep DEF Cleaning

(* The tick of a workflow that has been cancelled comes in all the same.    *)
LEMMA StrayTickHolds ==
  ASSUME ConstantsAssumption, IInv, NEW i \in Instances, StrayTick(i)
  PROVE  IInv'
<1> DEFINE q == Ticked(inst[i])
           w == [wf[i] EXCEPT !.stray = FALSE]
<1>1. inst[i] \in Rows /\ wf[i] \in Flows /\ note[i] \in Notes /\ TypeOK /\ InstanceTied(i)
  BY Given DEF IInv
<1>2. /\ q \in Rows /\ q.born = inst[i].born
      /\ q.status = inst[i].status \/ (inst[i].status = "active" /\ q.status = "completed")
  BY <1>1, TickedRow
<1>3. /\ inst' = [inst EXCEPT ![i] = q] /\ wf[i].stray /\ wf' = [wf EXCEPT ![i] = w]
      /\ UNCHANGED <<rcpt, par, reqs, coord, note, faults>>
  BY DEF StrayTick, net
<1>4. w \in Flows /\ w.st = wf[i].st /\ w.timer = wf[i].timer /\ ~w.stray
  BY <1>1 DEF Flows
<1>5. wf[i].st \notin {"told", "sleep"} /\ (wf[i].st = "closed" => inst[i].status \in Ended)
  BY <1>1, <1>3 DEF InstanceTied, Cleaning
<1>6. note' = [note EXCEPT ![i] = note[i]] /\ faults' \in 0..MaxFaults
  BY <1>1, <1>3, Types
<1> HIDE DEF q, w
<1>7. QED
  BY <1>1, <1>2, <1>3, <1>4, <1>5, <1>6, RowStep DEF Ended

LEMMA CancelCallHolds ==
  ASSUME ConstantsAssumption, IInv, NEW i \in Instances, CancelCall(i)
  PROVE  IInv'
<1> DEFINE q == Cancelled(inst[i])
           c == Cleaned(q)
           w == [wf[i] EXCEPT !.st = c, !.wake = FALSE]
<1>1. inst[i] \in Rows /\ wf[i] \in Flows /\ note[i] \in Notes /\ TypeOK /\ InstanceTied(i)
  BY Given DEF IInv
<1>2. /\ q \in Rows /\ q.born = inst[i].born
      /\ \/ q.status = inst[i].status
         \/ inst[i].status = "active" /\ q.status \in {"compensating", "stopped"}
  BY <1>1, CancelledRow
<1>3. /\ inst' = [inst EXCEPT ![i] = q] /\ wf[i].st = "cancelCall"
      /\ UNCHANGED <<rcpt, par, reqs, note, coord>>
  BY DEF CancelCall, net
<1>4. \/ wf' = [wf EXCEPT ![i] = w] /\ faults' = faults
      \/ Fault /\ wf' = wf
  <2>1. \/ wf' = [wf EXCEPT ![i].st = c, ![i].wake = FALSE] /\ faults' = faults
        \/ Fault /\ wf' = wf
    BY DEF CancelCall
  <2>2. QED
    BY <1>1, <2>1, Types
<1>5. c \in {"closed", "cleanSleep"} /\ (c = "closed" => q.status \in Ended)
  BY CleanedStep
<1> HIDE DEF q, c
<1>6. w \in Flows /\ w.st = c
  BY <1>1, <1>5 DEF Flows, Asleep
<1> HIDE DEF w
<1>7. note' = [note EXCEPT ![i] = note[i]] /\ faults' \in 0..MaxFaults
  BY <1>1, <1>3, <1>4, FaultCounted, Types
<1>8. CASE wf' = [wf EXCEPT ![i] = w]
  <2>1. /\ wf[i].st # "none" /\ w.st \in Cleaning \cup {"closed"} /\ w.st \notin {"told", "sleep"}
        /\ (w.st = "closed" => q.status \in Ended)
    BY <1>3, <1>5, <1>6 DEF Cleaning
  <2>2. QED
    BY <1>1, <1>2, <1>3, <1>6, <1>7, <1>8, <2>1, RowStep
<1>9. CASE wf' = wf
  <2>1. wf' = [wf EXCEPT ![i] = wf[i]]
    BY <1>1, <1>9, Types
  <2>2. wf[i].st \in Cleaning \cup {"closed"} /\ wf[i].st \notin {"told", "sleep"} /\ wf[i].st # "closed"
    BY <1>3 DEF Cleaning
  <2>3. QED
    BY <1>1, <1>2, <1>3, <1>7, <2>1, <2>2, RowStep
<1>10. QED
  BY <1>4, <1>8, <1>9

LEMMA CleanWakeHolds ==
  ASSUME ConstantsAssumption, IInv, NEW i \in Instances, CleanWake(i)
  PROVE  IInv'
<1> DEFINE w == [wf[i] EXCEPT !.st = "cleanTick"]
<1>1. inst[i] \in Rows /\ wf[i] \in Flows /\ note[i] \in Notes /\ TypeOK /\ InstanceTied(i)
  BY Given DEF IInv
<1>2. wf[i].st = "cleanSleep" /\ wf' = [wf EXCEPT ![i] = w]
  BY DEF CleanWake
<1>3. w \in Flows /\ w.st = "cleanTick"
  BY <1>1 DEF Flows
<1> HIDE DEF w
<1>4. /\ inst' = [inst EXCEPT ![i] = inst[i]] /\ note' = [note EXCEPT ![i] = note[i]]
      /\ UNCHANGED <<rcpt, par, reqs, coord>> /\ faults' \in 0..MaxFaults
  BY <1>1, Types DEF CleanWake, db, net
<1>5. QED
  BY <1>1, <1>2, <1>3, <1>4, RowStep DEF Cleaning

LEMMA CleanTickHolds ==
  ASSUME ConstantsAssumption, IInv, NEW i \in Instances, CleanTick(i)
  PROVE  IInv'
<1> DEFINE q == Ticked(inst[i])
           c == Cleaned(q)
           w == [wf[i] EXCEPT !.st = c, !.wake = FALSE]
<1>1. inst[i] \in Rows /\ wf[i] \in Flows /\ note[i] \in Notes /\ TypeOK /\ InstanceTied(i)
  BY Given DEF IInv
<1>2. /\ q \in Rows /\ q.born = inst[i].born
      /\ q.status = inst[i].status \/ (inst[i].status = "active" /\ q.status = "completed")
  BY <1>1, TickedRow
<1>3. /\ inst' = [inst EXCEPT ![i] = q] /\ wf[i].st = "cleanTick"
      /\ UNCHANGED <<rcpt, par, reqs, note, coord, faults>>
  BY DEF CleanTick, net
<1>4. wf' = [wf EXCEPT ![i] = w]
  <2>1. wf' = [wf EXCEPT ![i].st = c, ![i].wake = FALSE]
    BY DEF CleanTick
  <2>2. QED
    BY <1>1, <2>1, Types
<1>5. c \in {"closed", "cleanSleep"} /\ (c = "closed" => q.status \in Ended)
  BY CleanedStep
<1> HIDE DEF q, c
<1>6. w \in Flows /\ w.st = c
  BY <1>1, <1>5 DEF Flows, Asleep
<1> HIDE DEF w
<1>7. note' = [note EXCEPT ![i] = note[i]] /\ faults' \in 0..MaxFaults
  BY <1>1, <1>3, Types
<1>8. /\ wf[i].st # "none" /\ w.st \in Cleaning \cup {"closed"} /\ w.st \notin {"told", "sleep"}
      /\ (w.st = "closed" => q.status \in Ended)
  BY <1>3, <1>5, <1>6 DEF Cleaning
<1>9. QED
  BY <1>1, <1>2, <1>3, <1>4, <1>6, <1>7, <1>8, RowStep

(* A notification wakes the workflow before it is forgotten.               *)
LEMMA DeliverHolds ==
  ASSUME ConstantsAssumption, IInv, NEW i \in Instances, Deliver(i)
  PROVE  IInv'
<1> DEFINE k == wf[i].wake \/ wf[i].st \notin {"none", "closed"}
           w == [wf[i] EXCEPT !.wake = k]
<1>1. inst[i] \in Rows /\ wf[i] \in Flows /\ note[i] \in Notes /\ TypeOK /\ InstanceTied(i)
  BY Given DEF IInv
<1>2. k \in BOOLEAN
  BY <1>1 DEF Flows
<1>3. wf' = [wf EXCEPT ![i] = w]
  <2>1. wf' = [wf EXCEPT ![i].wake = @ \/ wf[i].st \notin {"none", "closed"}]
    BY DEF Deliver
  <2>2. QED
    BY <1>1, <2>1, Types
<1>4. wf[i].st \in {"told", "sleep"} => k
  OBVIOUS
<1> HIDE DEF k
<1>5. w \in Flows /\ w.st = wf[i].st /\ w.timer = wf[i].timer /\ w.stray = wf[i].stray /\ w.wake = k
  BY <1>1, <1>2 DEF Flows
<1> HIDE DEF w
<1>6. /\ inst' = [inst EXCEPT ![i] = inst[i]] /\ note' = [note EXCEPT ![i] = "none"]
      /\ "none" \in Notes
      /\ UNCHANGED <<rcpt, par, reqs, coord>> /\ faults' \in 0..MaxFaults
  BY <1>1, Types DEF Deliver, db, Notes
<1>7. QED
  BY <1>1, <1>3, <1>4, <1>5, <1>6, RowStep DEF InstanceTied

LEMMA LoseNoteHolds ==
  ASSUME ConstantsAssumption, IInv, NEW i \in Instances, LoseNote(i)
  PROVE  IInv'
<1>1. inst[i] \in Rows /\ wf[i] \in Flows /\ note[i] \in Notes /\ TypeOK /\ InstanceTied(i)
  BY Given DEF IInv
<1>2. /\ inst' = [inst EXCEPT ![i] = inst[i]] /\ wf' = [wf EXCEPT ![i] = wf[i]]
      /\ note' = [note EXCEPT ![i] = "lost"] /\ "lost" \in Notes
      /\ UNCHANGED <<rcpt, par, reqs, coord>> /\ faults' \in 0..MaxFaults
  BY <1>1, Types, FaultCounted DEF LoseNote, db, Notes
<1>3. QED
  BY <1>1, <1>2, RowStep DEF InstanceTied

(***************************************************************************)
(* The coordinator: starts by a request, crashes and restarts.             *)
(***************************************************************************)
LEMMA StartDirectHolds ==
  ASSUME ConstantsAssumption, IInv, NEW i \in Direct, StartDirect(i)
  PROVE  IInv'
<1>1. i \in Instances /\ i \notin Scheduled
  BY DEF Instances, ConstantsAssumption
<1>2. inst[i] \in Rows /\ wf[i] \in Flows /\ TypeOK /\ InstanceTied(i)
  BY <1>1, Given DEF IInv
<1>3. /\ coord.up /\ inst[i].status = "absent" /\ inst' = [inst EXCEPT ![i] = Born(inst[i])]
      /\ coord' = [coord EXCEPT !.starting = @ \cup {i}]
      /\ UNCHANGED <<rcpt, wf, par, reqs, note, faults>>
  BY DEF StartDirect, net
<1> DEFINE q == Born(inst[i])
<1>4. q \in Rows /\ q.born = 1 /\ q.status = "active" /\ wf[i].st = "none" /\ ~wf[i].stray
  BY <1>2, <1>3, BornRow DEF InstanceTied, Cleaning
<1> HIDE DEF q
<1>5. inst' \in [Instances -> Rows] /\ inst'[i] = q
      /\ coord' \in Hands /\ coord'.up = coord.up
      /\ coord'.starting = coord.starting \cup {i} /\ coord'.failed = coord.failed
  BY <1>1, <1>2, <1>3, <1>4, Types DEF q, Hands
<1>6. TypeOK'
  BY <1>2, <1>3, <1>5, Types DEF TypeOK, Rows, Statuses, Flows, Hands, Parents, Notes
<1>7. Only(i)
  BY <1>2, <1>3, <1>5, Types DEF Only
<1>8. InstanceTied(i)'
  BY <1>2, <1>3, <1>4, <1>5 DEF InstanceTied, NewsOf, EndsOf
<1>9. QED
  BY <1>1, <1>6, <1>7, <1>8, OneInstance

(* A workflow begins for an instance that has none, and does not sleep.    *)
LEMMA AcceptHolds ==
  ASSUME ConstantsAssumption, IInv, NEW i \in Direct, Accept(i)
  PROVE  IInv'
<1>1. i \in Instances /\ i \notin Scheduled
  BY DEF Instances, ConstantsAssumption
<1>2. inst[i] \in Rows /\ wf[i] \in Flows /\ TypeOK /\ InstanceTied(i)
  BY <1>1, Given DEF IInv
<1> DEFINE w == Begun(wf[i])
<1>3. /\ i \in coord.starting /\ wf' = [wf EXCEPT ![i] = w]
      /\ coord' = [coord EXCEPT !.starting = @ \ {i}]
      /\ UNCHANGED <<inst, rcpt, par, reqs, note, faults>>
  BY DEF Accept, db, net
<1>4. w \in Flows /\ w.st = "tick" /\ ~w.stray /\ inst[i].status # "absent"
  BY <1>2, <1>3, BegunFlow DEF InstanceTied, Cleaning
<1> HIDE DEF w
<1>5. wf' \in [Instances -> Flows] /\ wf'[i] = w
      /\ coord' \in Hands /\ coord'.up = coord.up
      /\ coord'.starting = coord.starting \ {i} /\ coord'.failed = coord.failed
  BY <1>1, <1>2, <1>3, <1>4, Types DEF Hands
<1>6. TypeOK'
  BY <1>2, <1>3, <1>5, Types DEF TypeOK, Rows, Statuses, Flows, Hands, Parents, Notes
<1>7. Only(i)
  BY <1>2, <1>3, <1>5, Types DEF Only
<1>8. InstanceTied(i)'
  BY <1>2, <1>3, <1>4, <1>5 DEF InstanceTied, NewsOf, EndsOf
<1>9. QED
  BY <1>1, <1>6, <1>7, <1>8, OneInstance

LEMMA RefuseHolds ==
  ASSUME ConstantsAssumption, IInv, NEW i \in Direct, Refuse(i)
  PROVE  IInv'
<1>1. i \in Instances /\ i \notin Scheduled
  BY DEF Instances, ConstantsAssumption
<1>2. inst[i] \in Rows /\ wf[i] \in Flows /\ TypeOK /\ InstanceTied(i)
  BY <1>1, Given DEF IInv
<1>3. /\ i \in coord.starting /\ coord.up /\ Fault
      /\ coord' = [coord EXCEPT !.starting = @ \ {i}, !.failed = @ \cup {i}]
      /\ UNCHANGED <<inst, rcpt, par, reqs, note>>
  BY DEF Refuse, db, net
<1>4. PICK w \in {wf[i], Begun(wf[i])} : wf' = [wf EXCEPT ![i] = w]
  BY DEF Refuse
<1>5. w \in Flows /\ w.st \in {"none", "tick"} /\ ~w.stray /\ inst[i].status # "absent"
  BY <1>2, <1>3, <1>4, BegunFlow DEF InstanceTied, Cleaning
<1>6. wf' \in [Instances -> Flows] /\ wf'[i] = w
      /\ coord' \in Hands /\ coord'.up = coord.up
      /\ coord'.starting = coord.starting \ {i} /\ coord'.failed = coord.failed \cup {i}
      /\ faults' \in 0..MaxFaults
  BY <1>1, <1>2, <1>3, <1>4, <1>5, Types, FaultCounted DEF Hands
<1>7. TypeOK'
  BY <1>2, <1>3, <1>6, Types DEF TypeOK, Rows, Statuses, Flows, Hands, Parents, Notes
<1>8. Only(i)
  BY <1>2, <1>3, <1>4, <1>6, Types DEF Only
<1>9. InstanceTied(i)'
  BY <1>2, <1>3, <1>5, <1>6 DEF InstanceTied, NewsOf, EndsOf
<1>10. QED
  BY <1>1, <1>7, <1>8, <1>9, OneInstance

(* The workflow may be under way by now, and is not told.                  *)
LEMMA TakeBackHolds ==
  ASSUME ConstantsAssumption, IInv, NEW i \in Direct, TakeBack(i)
  PROVE  IInv'
<1>1. i \in Instances /\ i \notin Scheduled
  BY DEF Instances, ConstantsAssumption
<1>2. inst[i] \in Rows /\ wf[i] \in Flows /\ TypeOK /\ InstanceTied(i)
  BY <1>1, Given DEF IInv
<1> DEFINE q == Cancelled(inst[i])
<1>3. /\ i \in coord.failed /\ coord.up /\ inst' = [inst EXCEPT ![i] = q]
      /\ coord' = [coord EXCEPT !.failed = @ \ {i}]
      /\ UNCHANGED <<rcpt, wf, par, reqs, faults>>
  BY DEF TakeBack
<1>4. PICK n \in Notes : n # "none" /\ note' = [note EXCEPT ![i] = n]
  BY <1>1, NewsMade DEF TakeBack
<1>5. /\ q \in Rows /\ q.born = inst[i].born
      /\ \/ q.status = inst[i].status
         \/ inst[i].status = "active" /\ q.status \in {"compensating", "stopped"}
  BY <1>2, CancelledRow
<1> HIDE DEF q
<1>6. /\ inst' \in [Instances -> Rows] /\ inst'[i] = q
      /\ note' \in [Instances -> Notes] /\ note'[i] = n
      /\ coord' \in Hands /\ coord'.up = coord.up
      /\ coord'.starting = coord.starting /\ coord'.failed = coord.failed \ {i}
  BY <1>1, <1>2, <1>3, <1>4, <1>5, Types DEF Hands
<1>7. TypeOK'
  BY <1>2, <1>3, <1>6, Types DEF TypeOK, Rows, Statuses, Flows, Hands, Parents, Notes
<1>8. Only(i)
  BY <1>2, <1>3, <1>4, <1>6, Types DEF Only
<1>9. InstanceTied(i)'
  BY <1>2, <1>3, <1>4, <1>5, <1>6 DEF InstanceTied, NewsOf, EndsOf, Ended
<1>10. QED
  BY <1>1, <1>7, <1>8, <1>9, OneInstance

(* A crash forgets the starts in hand, and loses what was being sent.      *)
LEMMA CrashHolds ==
  ASSUME ConstantsAssumption, IInv, Crash
  PROVE  IInv'
<1>1. TypeOK /\ Tied
  BY DEF IInv
<1>2. /\ UNCHANGED <<inst, rcpt, wf, par, reqs>> /\ Fault
      /\ coord'.up = FALSE /\ coord'.starting = {} /\ coord'.failed = {}
      /\ coord' \in Hands
      /\ \A i \in Instances : note'[i] \in Notes /\ (note'[i] = "none" => note[i] = "none")
      /\ note' \in [Instances -> Notes]
  BY <1>1, Types DEF Crash, db, Notes, Hands
<1>3. TypeOK'
  BY <1>1, <1>2, FaultCounted, Types DEF TypeOK, Rows, Statuses, Flows, Hands, Parents, Notes
<1>4. ASSUME NEW i \in Instances PROVE InstanceTied(i)'
  <2>1. InstanceTied(i)
    BY <1>1 DEF Tied
  <2>2. NewsOf(i)'
    BY <1>2, <2>1 DEF InstanceTied, NewsOf, ReplyOf, TimerOf
  <2>3. QED
    BY <1>2, <2>1, <2>2 DEF InstanceTied, EndsOf
<1>5. ASSUME NEW k \in Scheduled PROVE ScheduleTied(k)'
  BY <1>1, <1>2 DEF Tied, ScheduleTied
<1>6. QED
  BY <1>3, <1>4, <1>5 DEF IInv, Tied

(* Reconciling begins workflows of requests only: a schedule's parent still *)
(* finds the place of its child free.                                      *)
LEMMA RestartHolds ==
  ASSUME ConstantsAssumption, IInv, Restart
  PROVE  IInv'
<1>1. TypeOK /\ Tied /\ \A i \in Instances : wf[i] \in Flows
  BY Types DEF IInv
<1>2. /\ UNCHANGED <<inst, rcpt, par, reqs, note, faults>> /\ ~coord.up
      /\ coord'.up = TRUE /\ coord'.starting = coord.starting /\ coord'.failed = coord.failed
      /\ coord' \in Hands
      /\ wf' = [i \in Instances |-> IF i \in Reconciled THEN Begun(wf[i]) ELSE wf[i]]
  BY <1>1, Types DEF Restart, db, net, Hands
<1>3. ASSUME NEW i \in Instances
      PROVE  /\ wf'[i] \in Flows
             /\ \/ wf'[i] = wf[i]
                \/ /\ i \in Direct /\ inst[i].status # "absent" /\ wf[i].st = "none"
                   /\ wf'[i].st = "tick" /\ wf'[i].stray = wf[i].stray
  BY <1>1, <1>2, BegunFlow DEF Reconciled
<1>4. wf' \in [Instances -> Flows]
  <2>1. wf' = [i \in Instances |-> wf'[i]]
    BY <1>2
  <2>2. QED
    BY <1>3, <2>1
<1>5. TypeOK'
  BY <1>1, <1>2, <1>4, Types DEF TypeOK, Rows, Statuses, Flows, Hands, Parents, Notes
<1>6. ASSUME NEW i \in Instances PROVE InstanceTied(i)'
  <2>1. InstanceTied(i)
    BY <1>1 DEF Tied
  <2>2. NewsOf(i)'
    BY <1>2, <1>3, <2>1 DEF InstanceTied, NewsOf, ReplyOf, TimerOf
  <2>3. i \notin coord'.starting
    BY <1>2, <2>1 DEF InstanceTied
  <2>4. QED
    BY <1>2, <1>3, <2>1, <2>2, <2>3 DEF InstanceTied, EndsOf, Cleaning
<1>7. ASSUME NEW k \in Scheduled PROVE ScheduleTied(k)'
  <2>1. ScheduleTied(k) /\ k \in Instances /\ k \notin Direct
    BY <1>1 DEF Tied, Instances, ConstantsAssumption
  <2>2. wf'[k] = wf[k]
    BY <1>3, <2>1
  <2>3. QED
    BY <1>2, <2>1, <2>2 DEF ScheduleTied
<1>8. QED
  BY <1>5, <1>6, <1>7 DEF IInv, Tied

(***************************************************************************)
(* Schedules: the parent workflow, its request and its receipt.            *)
(***************************************************************************)
(* A step about one occurrence: it is enough to look at that one.          *)
LEMMA ScheduleStep ==
  ASSUME ConstantsAssumption, IInv, NEW k \in Scheduled,
         NEW q \in Rows, inst' = [inst EXCEPT ![k] = q],
         NEW w \in Flows, wf' = [wf EXCEPT ![k] = w],
         NEW r \in {"none", "made", "madeCancelled", "fenced"}, rcpt' = [rcpt EXCEPT ![k] = r],
         NEW p \in Parents, par' = [par EXCEPT ![k] = p],
         reqs' \in [Scheduled -> 0..MaxSends], UNCHANGED <<note, coord>>, faults' \in 0..MaxFaults
  PROVE  /\ inst'[k] = q /\ wf'[k] = w /\ rcpt'[k] = r /\ par'[k] = p /\ note'[k] = note[k]
         /\ k \in Instances /\ k \notin coord'.starting
         /\ InstanceTied(k)' /\ ScheduleTied(k)' => IInv'
<1>1. /\ k \in Instances /\ k \notin coord'.starting /\ TypeOK
      /\ inst \in [Instances -> Rows] /\ wf \in [Instances -> Flows] /\ par \in [Scheduled -> Parents]
      /\ rcpt \in [Scheduled -> {"none", "made", "madeCancelled", "fenced"}]
      /\ note \in [Instances -> Notes]
  BY Types DEF IInv, Instances, ConstantsAssumption, Hands
<1>2. inst'[k] = q /\ wf'[k] = w /\ rcpt'[k] = r /\ par'[k] = p
      /\ inst' \in [Instances -> Rows] /\ wf' \in [Instances -> Flows] /\ par' \in [Scheduled -> Parents]
      /\ rcpt' \in [Scheduled -> {"none", "made", "madeCancelled", "fenced"}]
  BY <1>1
<1>3. TypeOK'
  BY <1>1, <1>2, Types DEF TypeOK, Rows, Statuses, Flows, Hands, Parents, Notes
<1>4. Only(k)
  BY <1>1 DEF Only
<1>5. QED
  BY <1>1, <1>2, <1>3, <1>4, OneInstance

(* What such a step starts from.                                           *)
LEMMA ScheduleGiven ==
  ASSUME ConstantsAssumption, IInv, NEW k \in Scheduled
  PROVE  /\ k \in Instances /\ TypeOK /\ InstanceTied(k) /\ ScheduleTied(k)
         /\ inst[k] \in Rows /\ wf[k] \in Flows /\ par[k] \in Parents
         /\ rcpt[k] \in {"none", "made", "madeCancelled", "fenced"}
         /\ inst = [inst EXCEPT ![k] = inst[k]] /\ wf = [wf EXCEPT ![k] = wf[k]]
         /\ rcpt = [rcpt EXCEPT ![k] = rcpt[k]] /\ par = [par EXCEPT ![k] = par[k]]
         /\ reqs \in [Scheduled -> 0..MaxSends] /\ faults \in 0..MaxFaults
<1>1. k \in Instances /\ TypeOK
  BY DEF Instances, IInv
<1>2. QED
  BY <1>1, Given, Types

(* The parent moves on, or a request does; instance, child and receipt stay. *)
LEMMA ParentStepHolds ==
  ASSUME ConstantsAssumption, IInv, NEW k \in Scheduled,
         UNCHANGED <<inst, rcpt, wf, note, coord>>,
         NEW p \in Parents, par' = [par EXCEPT ![k] = p],
         reqs' \in [Scheduled -> 0..MaxSends], faults' \in 0..MaxFaults,
         \/ p = par[k]
         \/ par[k] = "none" /\ p = "start"
         \/ par[k] = "cleanSleep" /\ p = "cleanTick"
         \/ par[k] = "run" /\ wf[k].st = "closed" /\ p = "closed"
  PROVE  IInv'
<1>1. k \in Instances /\ k \notin coord.starting /\ TypeOK /\ InstanceTied(k) /\ ScheduleTied(k)
      /\ par \in [Scheduled -> Parents]
  BY ScheduleGiven, Types DEF ConstantsAssumption, Hands
<1>2. par'[k] = p /\ par' \in [Scheduled -> Parents] /\ Only(k)
  BY <1>1 DEF Only
<1>3. TypeOK'
  BY <1>1, <1>2, Types DEF TypeOK, Rows, Statuses, Flows, Hands, Parents, Notes
<1>4. InstanceTied(k)'
  BY <1>1 DEF InstanceTied, NewsOf, EndsOf, ReplyOf, TimerOf
<1>5. ScheduleTied(k)'
  BY <1>1, <1>2 DEF ScheduleTied, InstanceTied, Cleaning
<1>6. QED
  BY <1>1, <1>2, <1>3, <1>4, <1>5, OneInstance

LEMMA ParentHolds ==
  ASSUME ConstantsAssumption, IInv, NEW k \in Scheduled,
         Trigger(k) \/ SendStart(k) \/ LoseStart(k) \/ ParentWake(k) \/ ParentEnds(k)
  PROVE  IInv'
<1>1. /\ TypeOK /\ par[k] \in Parents /\ par = [par EXCEPT ![k] = par[k]]
      /\ reqs \in [Scheduled -> 0..MaxSends] /\ faults \in 0..MaxFaults
  BY ScheduleGiven
<1>2. CASE Trigger(k)
  BY <1>1, <1>2, ParentStepHolds DEF Trigger, db, net, Parents
<1>3. CASE SendStart(k)
  <2>1. reqs' \in [Scheduled -> 0..MaxSends]
    BY <1>1, <1>3 DEF SendStart, ConstantsAssumption
  <2>2. QED
    BY <1>1, <1>3, <2>1, ParentStepHolds DEF SendStart, db
<1>4. CASE LoseStart(k)
  <2>1. reqs' \in [Scheduled -> 0..MaxSends] /\ faults' \in 0..MaxFaults
    BY <1>1, <1>4, FaultCounted DEF LoseStart, ConstantsAssumption
  <2>2. QED
    BY <1>1, <1>4, <2>1, ParentStepHolds DEF LoseStart, db
<1>5. CASE ParentWake(k)
  BY <1>1, <1>5, ParentStepHolds DEF ParentWake, db, net, Parents
<1>6. CASE ParentEnds(k)
  BY <1>1, <1>6, ParentStepHolds DEF ParentEnds, db, net, Parents
<1>7. QED
  BY <1>2, <1>3, <1>4, <1>5, <1>6

(* A start request arrives, be it the first or not: what it creates, the    *)
(* receipt records in the same transaction.                                *)
LEMMA ArriveStartHolds ==
  ASSUME ConstantsAssumption, IInv, NEW k \in Scheduled, ArriveStart(k)
  PROVE  IInv'
<1>1. /\ k \in Instances /\ TypeOK /\ InstanceTied(k) /\ ScheduleTied(k)
      /\ inst[k] \in Rows /\ wf[k] \in Flows /\ par[k] \in Parents
      /\ rcpt[k] \in {"none", "made", "madeCancelled", "fenced"}
      /\ inst = [inst EXCEPT ![k] = inst[k]] /\ wf = [wf EXCEPT ![k] = wf[k]]
      /\ rcpt = [rcpt EXCEPT ![k] = rcpt[k]] /\ par = [par EXCEPT ![k] = par[k]]
      /\ reqs \in [Scheduled -> 0..MaxSends] /\ faults \in 0..MaxFaults
      /\ rcpt \in [Scheduled -> {"none", "made", "madeCancelled", "fenced"}]
  BY ScheduleGiven, Types
<1> DEFINE q == IF rcpt[k] = "none" THEN Born(inst[k]) ELSE inst[k]
           r == IF rcpt[k] = "none" THEN "made" ELSE rcpt[k]
           o == IF par[k] # "start" THEN par[k] ELSE IF r = "made" THEN "child" ELSE "closed"
<1>2. inst' = [inst EXCEPT ![k] = q] /\ rcpt' = [rcpt EXCEPT ![k] = r]
  BY <1>1 DEF ArriveStart, Receive, db
<1>3. rcpt'[k] = r /\ r \in {"made", "madeCancelled", "fenced"}
  BY <1>1, <1>2
<1>4. /\ reqs' = [reqs EXCEPT ![k] = @ - 1] /\ reqs[k] > 0 /\ UNCHANGED <<wf, note, coord>>
      /\ \/ par' = [par EXCEPT ![k] = o] /\ faults' = faults
         \/ Fault /\ par' = par
  BY <1>3 DEF ArriveStart
<1>5. reqs' \in [Scheduled -> 0..MaxSends] /\ faults' \in 0..MaxFaults
  BY <1>1, <1>4, FaultCounted DEF ConstantsAssumption
<1>6. o \in Parents /\ (par[k] # "start" => o = par[k]) /\ (par[k] = "start" => o = "child")
  BY <1>1 DEF Parents, ScheduleTied
<1>7. PICK p \in Parents : /\ par' = [par EXCEPT ![k] = p]
                           /\ p = par[k] \/ (par[k] = "start" /\ p = "child")
  BY <1>1, <1>4, <1>6
<1>8. /\ q \in Rows /\ q.status # "absent" <=> r # "fenced"
      /\ (rcpt[k] = "none" => q.status = "active" /\ q.born = 1) /\ (rcpt[k] # "none" => q = inst[k])
  BY <1>1, BornRow DEF ScheduleTied, InstanceTied
<1> HIDE DEF q, o
<1>9. /\ inst'[k] = q /\ wf'[k] = wf[k] /\ par'[k] = p /\ note'[k] = note[k]
      /\ k \notin coord'.starting
      /\ InstanceTied(k)' /\ ScheduleTied(k)' => IInv'
  <2> DEFINE w == wf[k]
  <2>1. /\ q \in Rows /\ inst' = [inst EXCEPT ![k] = q] /\ w \in Flows /\ wf' = [wf EXCEPT ![k] = w]
        /\ r \in {"none", "made", "madeCancelled", "fenced"} /\ rcpt' = [rcpt EXCEPT ![k] = r]
        /\ UNCHANGED <<note, coord>>
    BY <1>1, <1>2, <1>3, <1>4, <1>8
  <2> HIDE DEF w, r
  <2>2. /\ inst'[k] = q /\ wf'[k] = w /\ par'[k] = p /\ note'[k] = note[k]
        /\ k \notin coord'.starting
        /\ InstanceTied(k)' /\ ScheduleTied(k)' => IInv'
    BY <1>5, <1>7, <2>1, ScheduleStep, ZenonT(40)
  <2>3. QED
    BY <2>2 DEF w
<1>10. InstanceTied(k)'
  <2>1. CASE rcpt[k] = "none"
    BY <1>1, <1>8, <1>9, <2>1 DEF InstanceTied, ScheduleTied, NewsOf, EndsOf
  <2>2. CASE rcpt[k] # "none"
    <3>1. q = inst[k] /\ inst'[k] = inst[k] /\ wf'[k] = wf[k] /\ note'[k] = note[k]
      BY <1>8, <1>9, <2>2
    <3>2. InstanceTied(k)
      BY <1>1
    <3>3. QED
      BY <1>4, <1>9, <3>1, <3>2 DEF InstanceTied, NewsOf, EndsOf, ReplyOf, TimerOf
  <2>3. QED
    BY <2>1, <2>2
<1>11. ScheduleTied(k)'
  BY <1>1, <1>3, <1>7, <1>8, <1>9 DEF ScheduleTied, Cleaning
<1>12. QED
  BY <1>9, <1>10, <1>11

(* The child begins, for nobody else has begun it.                         *)
LEMMA StartChildHolds ==
  ASSUME ConstantsAssumption, IInv, NEW k \in Scheduled, StartChild(k)
  PROVE  IInv'
<1>1. /\ k \in Instances /\ TypeOK /\ InstanceTied(k) /\ ScheduleTied(k)
      /\ wf[k] \in Flows /\ par \in [Scheduled -> Parents] /\ wf \in [Instances -> Flows]
  BY ScheduleGiven, Types
<1> DEFINE w == Begun(wf[k])
<1>2. /\ par[k] = "child" /\ wf[k].st = "none" /\ wf' = [wf EXCEPT ![k] = w]
      /\ par' = [par EXCEPT ![k] = "run"] /\ UNCHANGED <<inst, rcpt, reqs, note, coord, faults>>
  BY <1>1 DEF StartChild, ScheduleTied, db, net
<1>3. w \in Flows /\ w.st = "tick" /\ w.stray = wf[k].stray
  BY <1>1, <1>2, BegunFlow
<1> HIDE DEF w
<1>4. /\ wf'[k] = w /\ wf' \in [Instances -> Flows] /\ par'[k] = "run" /\ par' \in [Scheduled -> Parents]
      /\ Only(k)
  BY <1>1, <1>2, <1>3 DEF Only, Parents
<1>5. TypeOK'
  BY <1>1, <1>2, <1>4, Types DEF TypeOK, Rows, Statuses, Flows, Hands, Parents, Notes
<1>6. inst[k].status # "absent" /\ rcpt[k] = "made" /\ k \notin coord.starting
  BY <1>1, <1>2, Types DEF ScheduleTied, ConstantsAssumption, Hands
<1>7. InstanceTied(k)'
  BY <1>1, <1>2, <1>3, <1>4, <1>6 DEF InstanceTied, NewsOf, EndsOf, Cleaning
<1>8. ScheduleTied(k)'
  BY <1>1, <1>2, <1>3, <1>4, <1>6 DEF ScheduleTied, Cleaning
<1>9. QED
  BY <1>1, <1>4, <1>5, <1>7, <1>8, OneInstance

LEMMA CancelParentHolds ==
  ASSUME ConstantsAssumption, IInv, NEW k \in Scheduled, CancelParent(k)
  PROVE  IInv'
<1>1. /\ k \in Instances /\ TypeOK /\ InstanceTied(k) /\ ScheduleTied(k)
      /\ wf[k] \in Flows /\ par \in [Scheduled -> Parents] /\ wf \in [Instances -> Flows]
      /\ inst[k] \in Rows
  BY ScheduleGiven, Types
<1> DEFINE w == [wf[k] EXCEPT !.st = "cancelCall"]
<1>2. w \in Flows /\ w.st = "cancelCall" /\ w.stray = wf[k].stray
  BY <1>1 DEF Flows
<1>3. /\ par[k] \in {"start", "child"} /\ wf[k].st = "none" /\ par' = [par EXCEPT ![k] = "cancelCall"]
      /\ UNCHANGED <<inst, rcpt, reqs, note, coord, faults>>
      /\ wf' = wf \/ (par[k] = "child" /\ wf' = [wf EXCEPT ![k] = w])
  BY <1>1 DEF CancelParent, ScheduleTied, db, net
<1> HIDE DEF w
<1>4. /\ wf'[k] = wf[k] \/ (par[k] = "child" /\ wf'[k] = w)
      /\ wf' \in [Instances -> Flows] /\ par'[k] = "cancelCall" /\ par' \in [Scheduled -> Parents]
      /\ Only(k)
  BY <1>1, <1>2, <1>3 DEF Only, Parents
<1>5. TypeOK'
  BY <1>1, <1>3, <1>4, Types DEF TypeOK, Rows, Statuses, Flows, Hands, Parents, Notes
<1>6. k \notin coord.starting /\ ~wf[k].stray
  BY <1>1, <1>3, Types DEF InstanceTied, Cleaning, ConstantsAssumption, Hands
<1>7. par[k] = "child" => inst[k].status # "absent"
  BY <1>1 DEF ScheduleTied
<1>8. InstanceTied(k)'
  BY <1>1, <1>2, <1>3, <1>4, <1>6, <1>7 DEF InstanceTied, NewsOf, EndsOf
<1>9. ScheduleTied(k)'
  BY <1>1, <1>2, <1>3, <1>4 DEF ScheduleTied, Cleaning
<1>10. QED
  BY <1>1, <1>4, <1>5, <1>8, <1>9, OneInstance

(* The parent's cancellation is recorded whether or not there is a receipt, *)
(* and finds no child that could sleep.                                    *)
LEMMA CancelScheduledHolds ==
  ASSUME ConstantsAssumption, IInv, NEW k \in Scheduled, CancelScheduled(k)
  PROVE  IInv'
<1> DEFINE q == Cancelled(inst[k])
           r == IF rcpt[k] \in {"none", "fenced"} THEN "fenced" ELSE "madeCancelled"
           o == IF inst[k].status = "absent" THEN "closed" ELSE Cleaned(q)
<1>1. /\ k \in Instances /\ TypeOK /\ InstanceTied(k) /\ ScheduleTied(k)
      /\ inst[k] \in Rows /\ wf[k] \in Flows /\ par[k] \in Parents
      /\ inst \in [Instances -> Rows] /\ par \in [Scheduled -> Parents]
      /\ rcpt \in [Scheduled -> {"none", "made", "madeCancelled", "fenced"}]
      /\ wf \in [Instances -> Flows] /\ k \notin coord.starting
  BY ScheduleGiven, Types DEF ConstantsAssumption, Hands
<1>2. /\ par[k] = "cancelCall" /\ inst' = [inst EXCEPT ![k] = q] /\ rcpt' = [rcpt EXCEPT ![k] = r]
      /\ UNCHANGED <<wf, reqs, note, coord>>
      /\ \/ par' = [par EXCEPT ![k] = o] /\ faults' = faults
         \/ Fault /\ par' = par
  BY <1>1 DEF CancelScheduled, Fence, net
<1>3. /\ q \in Rows /\ q.born = inst[k].born /\ q.status # "active"
      /\ \/ q.status = inst[k].status
         \/ inst[k].status = "active" /\ q.status \in {"compensating", "stopped"}
  BY <1>1, CancelledRow
<1>4. /\ o \in {"closed", "cleanSleep"}
      /\ o = "closed" => q.status \in Ended \cup {"absent"}
  BY <1>3, CleanedStep DEF Ended
<1> HIDE DEF q, o
<1>5. /\ inst'[k] = q /\ rcpt'[k] = r /\ par'[k] \in {"cancelCall", "closed", "cleanSleep"}
      /\ par'[k] = "closed" => q.status \in Ended \cup {"absent"}
      /\ inst' \in [Instances -> Rows] /\ par' \in [Scheduled -> Parents]
      /\ rcpt' \in [Scheduled -> {"none", "made", "madeCancelled", "fenced"}]
      /\ faults' \in 0..MaxFaults /\ Only(k)
  BY <1>1, <1>2, <1>3, <1>4, FaultCounted, Types DEF Only, Parents
<1>6. TypeOK'
  BY <1>1, <1>2, <1>5, Types DEF TypeOK, Rows, Statuses, Flows, Hands, Parents, Notes
<1>7. wf[k].st \notin {"tick", "told", "sleep"}
  BY <1>1, <1>2 DEF ScheduleTied, Cleaning
<1>8. q.status = "absent" <=> inst[k].status = "absent"
  BY <1>3
<1>9. InstanceTied(k)'
  <2>1. NewsOf(k)'
    BY <1>2, <1>7 DEF NewsOf
  <2>2. QED
    BY <1>1, <1>2, <1>3, <1>5, <1>7, <1>8, <2>1 DEF InstanceTied, EndsOf, Ended
<1>10. ScheduleTied(k)'
  BY <1>1, <1>2, <1>3, <1>5, <1>7, <1>8 DEF ScheduleTied, Cleaning, Ended
<1>11. QED
  BY <1>1, <1>5, <1>6, <1>9, <1>10, OneInstance

LEMMA ParentTickHolds ==
  ASSUME ConstantsAssumption, IInv, NEW k \in Scheduled, ParentTick(k)
  PROVE  IInv'
<1> DEFINE q == Ticked(inst[k])
           o == Cleaned(q)
<1>1. /\ k \in Instances /\ TypeOK /\ InstanceTied(k) /\ ScheduleTied(k)
      /\ inst[k] \in Rows /\ wf[k] \in Flows
      /\ inst \in [Instances -> Rows] /\ par \in [Scheduled -> Parents]
      /\ k \notin coord.starting
  BY ScheduleGiven, Types DEF ConstantsAssumption, Hands
<1>2. /\ par[k] = "cleanTick" /\ inst' = [inst EXCEPT ![k] = q] /\ par' = [par EXCEPT ![k] = o]
      /\ UNCHANGED <<rcpt, wf, reqs, note, coord, faults>>
  BY DEF ParentTick, net
<1>3. /\ q \in Rows /\ q.born = inst[k].born
      /\ q.status = inst[k].status \/ (inst[k].status = "active" /\ q.status = "completed")
  BY <1>1, TickedRow
<1>4. o \in {"closed", "cleanSleep"} /\ (o = "closed" => q.status \in Ended)
  BY CleanedStep
<1> HIDE DEF q, o
<1>5. /\ inst'[k] = q /\ par'[k] = o /\ inst' \in [Instances -> Rows] /\ par' \in [Scheduled -> Parents]
      /\ Only(k)
  BY <1>1, <1>2, <1>3, <1>4 DEF Only, Parents
<1>6. TypeOK'
  BY <1>1, <1>2, <1>5, Types DEF TypeOK, Rows, Statuses, Flows, Hands, Parents, Notes
<1>7. wf[k].st \notin {"tick", "told", "sleep"} /\ rcpt[k] # "none"
  BY <1>1, <1>2 DEF ScheduleTied, Cleaning
<1>8. InstanceTied(k)'
  <2>1. NewsOf(k)'
    BY <1>2, <1>7 DEF NewsOf
  <2>2. QED
    BY <1>1, <1>2, <1>3, <1>5, <1>7, <2>1 DEF InstanceTied, EndsOf, Ended
<1>9. ScheduleTied(k)'
  BY <1>1, <1>2, <1>3, <1>4, <1>5, <1>7 DEF ScheduleTied, Cleaning, Ended
<1>10. QED
  BY <1>1, <1>5, <1>6, <1>8, <1>9, OneInstance

(***************************************************************************)
(* The theorems.                                                           *)
(***************************************************************************)
LEMMA InitHolds == ASSUME ConstantsAssumption, Init PROVE IInv
<1>1. PICK c \in Branches :
        inst = [i \in Instances |->
                 [status |-> "absent", cur |-> c, armed |-> FALSE, born |-> 0,
                  wait |-> [b \in Branches |-> IF b \in Working THEN "work" ELSE "ahead"]]]
  BY DEF Init
<1>2. \A i \in Instances : inst[i] \in Rows /\ inst[i].status = "absent" /\ inst[i].born = 0
  BY <1>1 DEF Rows, Statuses
<1>3. inst \in [Instances -> Rows]
  BY <1>1, <1>2
<1>4. TypeOK
  BY <1>3 DEF Init, ConstantsAssumption, TypeOK, Rows, Statuses
<1>5. \A i \in Instances : InstanceTied(i)
  BY <1>2 DEF Init, InstanceTied, NewsOf, EndsOf
<1>6. \A k \in Scheduled : ScheduleTied(k)
  BY <1>2 DEF Init, ScheduleTied, Cleaning, Instances
<1>7. QED
  BY <1>4, <1>5, <1>6 DEF IInv, Tied

(* The invariant is inductive: each step keeps it, whatever came before.   *)
LEMMA StepHolds == ASSUME ConstantsAssumption, IInv, [Next]_vars PROVE IInv'
<1>1. ASSUME NEW i \in Instances,
             \/ Tick(i) \/ Hear(i) \/ Wake(i) \/ ContinueAsNew(i)
             \/ CancelWorkflow(i) \/ StrayTick(i) \/ CancelCall(i) \/ CleanWake(i) \/ CleanTick(i)
      PROVE  IInv'
  BY <1>1, TickHolds, HearHolds, WakeHolds, ContinueAsNewHolds, CancelWorkflowHolds, StrayTickHolds,
     CancelCallHolds, CleanWakeHolds, CleanTickHolds
<1>2. ASSUME NEW i \in Instances,
             \/ Deliver(i) \/ LoseNote(i) \/ Stop(i) \/ Compensate(i) \/ Revoke(i)
             \/ \E b \in Branches : Report(i, b) \/ Pass(i, b)
      PROVE  IInv'
  BY <1>2, DeliverHolds, LoseNoteHolds, StopHolds, CompensateHolds, RevokeHolds, ReportHolds, PassHolds
<1>3. ASSUME NEW i \in Direct, StartDirect(i) \/ Accept(i) \/ Refuse(i) \/ TakeBack(i)
      PROVE  IInv'
  BY <1>3, StartDirectHolds, AcceptHolds, RefuseHolds, TakeBackHolds
<1>4. ASSUME NEW k \in Scheduled,
             \/ Trigger(k) \/ SendStart(k) \/ LoseStart(k) \/ ArriveStart(k) \/ StartChild(k)
             \/ CancelParent(k) \/ CancelScheduled(k) \/ ParentWake(k) \/ ParentTick(k) \/ ParentEnds(k)
      PROVE  IInv'
  BY <1>4, ParentHolds, ArriveStartHolds, StartChildHolds, CancelParentHolds, CancelScheduledHolds,
     ParentTickHolds
<1>5. CASE Crash \/ Restart
  BY <1>5, CrashHolds, RestartHolds
<1>6. CASE UNCHANGED vars
  BY <1>6 DEF vars, IInv, TypeOK, Tied, InstanceTied, ScheduleTied, NewsOf, EndsOf, ReplyOf, TimerOf
<1>7. QED
  BY <1>1, <1>2, <1>3, <1>4, <1>5, <1>6 DEF Next

LEMMA Invariance == ASSUME ConstantsAssumption PROVE Spec => []IInv
<1>1. ConstantsAssumption /\ Init => IInv
  BY InitHolds
<1>2. ConstantsAssumption /\ IInv /\ [Next]_vars => IInv'
  BY StepHolds
<1>3. QED
  BY <1>1, <1>2, PTL DEF Spec

(* Every variable keeps its type; in particular an idempotency key creates  *)
(* one instance at most, however often its scheduled-start arrives.        *)
THEOREM Typed == ASSUME ConstantsAssumption PROVE Spec => []TypeOK
<1>1. IInv => TypeOK
  BY DEF IInv
<1>2. QED
  BY <1>1, Invariance, PTL

(* A workflow that has closed leaves an instance that has ended, a recorded *)
(* cancellation stands against every start that is still under way, and a   *)
(* workflow that sleeps on a deadline the database no longer asks for has    *)
(* a wake-up or a notification before it, unless that was lost or the        *)
(* coordinator has told nobody.                                            *)
THEOREM RuntimeAgrees ==
  ASSUME ConstantsAssumption
  PROVE  Spec => [](ClosedIsSettled /\ CancellationStands /\ SleepsOnNews)
<1>1. IInv => ClosedIsSettled /\ CancellationStands /\ SleepsOnNews
  BY TiedIsEnough DEF IInv
<1>2. QED
  BY <1>1, Invariance, PTL
===============================================================================
