-------------------------- MODULE StageLeaseProofs --------------------------
(***************************************************************************)
(* The theorems of StageLease, for every value of its constants.           *)
(*                                                                         *)
(* First, what each function on the database that StageLease is built from *)
(* does to a row (the Columns lemmas), that it keeps the types (Typed), and *)
(* that it keeps the invariant of the database, Good, when it is applied   *)
(* where the handlers apply it (Good lemmas).  Then the inductive          *)
(* invariant IInv, one lemma per action, and what follows; then, from a    *)
(* normal form of all steps (Step), the action properties, the refinement  *)
(* of RunLifecycle and the guard on risky calls.                           *)
(***************************************************************************)
EXTENDS StageLease, FiniteSetTheorems, TLAPS

(* The state invariant of the database, row by row.                         *)
Good(d) ==
  /\ d \in Database
  /\ \A r \in Runs : Chain(d, r)
  /\ \A r \in Runs, i \in Pos : Ledger(d, r, i)

(* Rows that are copied keep their part of the invariant.                   *)
LEMMA LedgerCopy ==
  ASSUME NEW d, NEW e, NEW r \in Runs, NEW i \in Pos, Ledger(d, r, i),
         e.status[r][i] = d.status[r][i], e.node[r][i] = d.node[r][i],
         e.ttl[r][i] = d.ttl[r][i], e.attempt[r][i] = d.attempt[r][i],
         e.executing[r][i] = d.executing[r][i], e.settled[r][i] = d.settled[r][i],
         e.outcome[r][i] = d.outcome[r][i]
  PROVE  Ledger(e, r, i)
BY DEF Ledger

(* A stage that is not running has no deadline and no calls.                *)
LEMMA LedgerIdle ==
  ASSUME NEW d, NEW r \in Runs, NEW i \in Pos, Ledger(d, r, i),
         d.status[r][i] # "running"
  PROVE  ~d.executing[r][i] /\ ~d.settled[r][i] /\ d.ttl[r][i] = -1
BY DEF Ledger

(* What the ledger says of the last lease of a stage, which its status      *)
(* decides, and of a stage that is not running.                             *)
Last(d, r, i) ==
  LET a  == d.attempt[r][i]
      o  == d.outcome[r][i]
      st == d.status[r][i]
  IN  /\ st = "running"   => a > 0 /\ o[a] = "open" /\ d.node[r][i] \in Nodes
      /\ st = "completed" => a > 0 /\ o[a] = "completed"
      /\ st = "queued"    => a < MaxAttempts /\ (a > 0 => o[a] \in {"failed", "expired"})
      /\ st \in {"failed", "cancelled"} =>
           (a > 0 => o[a] \in {"failed", "expired", "cancelled"})
      /\ st \in {"absent", "pending", "waiting_approval"} => a = 0
      /\ st # "running" => ~d.executing[r][i] /\ ~d.settled[r][i] /\ d.ttl[r][i] = -1

(* A change of the last lease of a stage only keeps the ledger when it      *)
(* keeps what the ledger says of that lease.                                *)
LEMMA LedgerLast ==
  ASSUME NEW d, NEW e, NEW r \in Runs, NEW i \in Pos, Ledger(d, r, i),
         e.attempt[r][i] = d.attempt[r][i],
         \A l \in Leases : l # d.attempt[r][i] =>
           e.outcome[r][i][l] = d.outcome[r][i][l],
         d.attempt[r][i] \in 0..MaxAttempts,
         Last(e, r, i)
  PROVE  Ledger(e, r, i)
<1> DEFINE a == d.attempt[r][i]
           o == d.outcome[r][i]
           w == e.outcome[r][i]
<1>1. /\ \A l \in Leases : l > a => o[l] = "none"
      /\ \A l \in Leases : l < a => o[l] \in {"failed", "expired"}
  BY DEF Ledger
<1>2. \A l \in Leases : l # a => w[l] = o[l]
  OBVIOUS
<1>3. a \in Int
  OBVIOUS
<1> HIDE DEF a, o, w
<1>4. /\ \A l \in Leases : l > a => w[l] = "none"
      /\ \A l \in Leases : l < a => w[l] \in {"failed", "expired"}
  BY <1>1, <1>2, <1>3, AttemptsAssumption DEF Leases
<1>5. QED
  BY <1>4 DEF Ledger, Last, a, o, w

(* A run whose row and stages are copied keeps its shape.                   *)
LEMMA ChainCopy ==
  ASSUME NEW d, NEW e, NEW r \in Runs, Chain(d, r), d.len[r] \in 0..MaxStages,
         e.run[r] = d.run[r], e.len[r] = d.len[r], e.gated[r] = d.gated[r],
         \A i \in Pos : e.status[r][i] = d.status[r][i]
  PROVE  Chain(e, r)
<1>1. ASSUME NEW k \in 1..d.len[r], Frontier(d, r, k)
      PROVE  Frontier(e, r, k)
  BY <1>1, StagesAssumption DEF Frontier, Pos
<1>2. QED
  BY <1>1 DEF Chain

(* A stage that is queued, running or waiting is the frontier of its run,   *)
(* and the only such stage of the run.                                      *)
LEMMA FrontierAt ==
  ASSUME NEW d, Good(d), NEW r \in Runs, NEW i \in Pos,
         d.status[r][i] \in {"queued", "running", "waiting_approval"}
  PROVE  /\ d.run[r] \in OpenRun
         /\ d.len[r] \in Pos
         /\ i \in 1..d.len[r]
         /\ Frontier(d, r, i)
         /\ \A j \in Pos : d.status[r][j] \in {"queued", "running", "waiting_approval"} => j = i
<1>1. d.run[r] # "absent"
  BY DEF Good, Chain
<1>2. d.len[r] \in 0..MaxStages /\ d.run[r] \in RunStatus
  BY DEF Good, Database
<1>3. PICK k \in 1..d.len[r] : Frontier(d, r, k)
  BY <1>1 DEF Good, Chain
<1>4. \A j \in Pos : d.status[r][j] \in {"queued", "running", "waiting_approval"} => j = k
  <2> SUFFICES ASSUME NEW j \in Pos, j # k
               PROVE  d.status[r][j] \in {"completed", "absent", "cancelled", "pending"}
    OBVIOUS
  <2>1. CASE j < k
    BY <2>1, <1>3, StagesAssumption DEF Frontier, Pos
  <2>2. CASE j > d.len[r]
    BY <2>2, <1>3 DEF Frontier
  <2>3. CASE j > k /\ j <= d.len[r]
    BY <2>3, <1>3, <1>2, StagesAssumption DEF Frontier, Pos
  <2>4. QED
    BY <2>1, <2>2, <2>3, <1>2, StagesAssumption DEF Pos
<1>5. i = k
  BY <1>4
<1>6. d.run[r] \in OpenRun
  BY <1>3, <1>5, <1>2, <1>1 DEF Frontier, OpenRun, RunStatus
<1>7. QED
  BY <1>2, <1>3, <1>4, <1>5, <1>6, StagesAssumption DEF Pos

(* cleanupExpiredLeases writes values of the columns' types.                *)
LEMMA SweepTyped ==
  ASSUME NEW d \in Database
  PROVE  Sweep(d) \in Database
<1> DEFINE e == Sweep(d)
<1>1. e.run \in [Runs -> RunStatus]
  BY DEF Database, Sweep, Released, RunStatus, OpenRun
<1>2. e.status \in PerStage(StageStatus)
  BY DEF Database, PerStage, Sweep, Released, StageStatus, OpenStage
<1>3. e.node \in PerStage(Nodes \cup {NoNode})
  BY DEF Database, PerStage, Sweep, Released
<1>4. e.ttl \in PerStage(-1..LeaseTtl)
  BY TtlAssumption DEF Database, PerStage, Sweep, Released
<1>5. e.executing \in PerStage(BOOLEAN)
  BY DEF Database, PerStage, Sweep, Released
<1>6. e.settled \in PerStage(BOOLEAN)
  BY DEF Database, PerStage, Sweep, Released
<1>7. e.outcome \in PerStage([Leases -> Outcome])
  BY DEF Database, PerStage, Sweep, Released, Outcome
<1>8. QED
  BY <1>1, <1>2, <1>3, <1>4, <1>5, <1>6, <1>7 DEF Database, Sweep, Released

(* cleanupExpiredLeases, column by column: only the rows of expired leases  *)
(* change, and each of them becomes queued or failed.                       *)
LEMMA SweepColumns ==
  ASSUME NEW d \in Database
  PROVE  LET e == Sweep(d)
         IN  /\ e.len = d.len /\ e.gated = d.gated /\ e.attempt = d.attempt
             /\ \A r \in Runs : ~(\E i \in Pos : Expired(d, r, i)) => e.run[r] = d.run[r]
             /\ \A r \in Runs, i \in Pos :
                  /\ e.status[r][i] =
                       IF Expired(d, r, i)
                         THEN IF Retrying(d, r, i) THEN "queued" ELSE "failed"
                         ELSE d.status[r][i]
                  /\ e.node[r][i] = IF Expired(d, r, i) THEN NoNode ELSE d.node[r][i]
                  /\ e.ttl[r][i] = IF Expired(d, r, i) THEN -1 ELSE d.ttl[r][i]
                  /\ e.executing[r][i] = (~Expired(d, r, i) /\ d.executing[r][i])
                  /\ e.settled[r][i] = (~Expired(d, r, i) /\ d.settled[r][i])
                  /\ \A l \in Leases : e.outcome[r][i][l] =
                       IF Expired(d, r, i) /\ d.attempt[r][i] = l
                         THEN "expired" ELSE d.outcome[r][i][l]
BY DEF Database, PerStage, Sweep, Released, Expired

(* The sweep keeps the invariant: the expired stage of a run is its frontier,*)
(* and stays so whether it is queued again or fails the run.                *)
LEMMA SweepGood ==
  ASSUME NEW d, Good(d)
  PROVE  Good(Sweep(d))
<1> DEFINE e == Sweep(d)
<1>0. d \in Database
  BY DEF Good
<1>1. e \in Database
  BY <1>0, SweepTyped
<1>2. ASSUME NEW r \in Runs, NEW i \in Pos
      PROVE  Ledger(e, r, i)
  <2>1. /\ Ledger(d, r, i) /\ d.attempt[r][i] \in 0..MaxAttempts
        /\ d.executing[r][i] \in BOOLEAN /\ d.settled[r][i] \in BOOLEAN
    BY <1>0 DEF Good, Database, PerStage
  <2>2. e.attempt[r][i] = d.attempt[r][i]
    BY <1>0, SweepColumns
  <2>3. CASE Expired(d, r, i)
    <3>1. d.status[r][i] = "running"
      BY <2>3 DEF Expired
    <3>2. /\ e.status[r][i] = IF Retrying(d, r, i) THEN "queued" ELSE "failed"
          /\ e.ttl[r][i] = -1 /\ ~e.executing[r][i] /\ ~e.settled[r][i]
          /\ \A l \in Leases : e.outcome[r][i][l] =
               IF l = d.attempt[r][i] THEN "expired" ELSE d.outcome[r][i][l]
      <4>1. /\ e.status[r][i] = IF Retrying(d, r, i) THEN "queued" ELSE "failed"
            /\ e.ttl[r][i] = -1
        BY <1>0, <2>3, SweepColumns
      <4>2. ~e.executing[r][i] /\ ~e.settled[r][i]
        BY <1>0, <2>3, SweepColumns
      <4>3. \A l \in Leases : e.outcome[r][i][l] =
              IF l = d.attempt[r][i] THEN "expired" ELSE d.outcome[r][i][l]
        BY <1>0, <2>3, SweepColumns
      <4>4. QED
        BY <4>1, <4>2, <4>3
    <3> HIDE DEF e
    <3>3. d.attempt[r][i] > 0 /\ d.attempt[r][i] \in Leases
      BY <2>1, <3>1, AttemptsAssumption DEF Ledger, Leases
    <3>4. Retrying(d, r, i) => d.attempt[r][i] < MaxAttempts
      BY DEF Retrying
    <3>5. e.outcome[r][i][d.attempt[r][i]] = "expired"
      BY <3>2, <3>3
    <3>6. Last(e, r, i)
      BY <2>2, <3>2, <3>3, <3>4, <3>5 DEF Last
    <3>7. QED
      BY <2>1, <2>2, <3>2, <3>6, LedgerLast
  <2>4. CASE ~Expired(d, r, i)
    <3>1. /\ e.status[r][i] = d.status[r][i]
          /\ e.node[r][i] = d.node[r][i]
          /\ e.ttl[r][i] = d.ttl[r][i]
          /\ e.executing[r][i] = d.executing[r][i]
          /\ e.settled[r][i] = d.settled[r][i]
          /\ \A l \in Leases : e.outcome[r][i][l] = d.outcome[r][i][l]
      BY <1>0, <2>1, <2>4, SweepColumns
    <3> HIDE DEF e
    <3>2. Last(d, r, i)
      BY <2>1 DEF Ledger, Last
    <3>3. d.attempt[r][i] > 0 =>
            e.outcome[r][i][d.attempt[r][i]] = d.outcome[r][i][d.attempt[r][i]]
      BY <2>1, <3>1, AttemptsAssumption DEF Leases
    <3>4. Last(e, r, i)
      BY <2>2, <3>1, <3>2, <3>3 DEF Last
    <3>5. QED
      BY <2>1, <2>2, <3>1, <3>4, LedgerLast
  <2>5. QED
    BY <2>3, <2>4
<1>3. ASSUME NEW r \in Runs
      PROVE  Chain(e, r)
  <2>1. Chain(d, r) /\ d.len[r] \in 0..MaxStages
    BY <1>0 DEF Good, Database
  <2>2. e.len[r] = d.len[r] /\ e.gated[r] = d.gated[r]
    BY <1>0, SweepColumns
  <2>3. CASE \E i \in Pos : Expired(d, r, i)
    <3>1. PICK i \in Pos : Expired(d, r, i)
      BY <2>3
    <3>2. /\ i \in 1..d.len[r] /\ Frontier(d, r, i)
          /\ \A j \in Pos : Expired(d, r, j) => j = i
      BY <3>1, FrontierAt DEF Expired
    <3>3. d.run[r] = "running"
      BY <3>1, <3>2, <1>0 DEF Frontier, Expired, Database, RunStatus, OpenRun
    <3>4. e.run[r] = IF Retrying(d, r, i) THEN "queued" ELSE "failed"
      BY <1>0, <3>1, <3>2 DEF Database, Sweep, Released
    <3>5. \A j \in Pos : e.status[r][j] = IF j # i THEN d.status[r][j]
                           ELSE IF Retrying(d, r, i) THEN "queued" ELSE "failed"
      BY <1>0, <3>1, <3>2, SweepColumns
    <3> HIDE DEF e
    <3>6. Frontier(e, r, i)
      BY <3>2, <3>3, <3>4, <3>5, <2>1, <2>2, StagesAssumption DEF Frontier, Pos
    <3>7. QED
      BY <3>6, <3>2, <3>4, <2>2 DEF Chain
  <2>4. CASE ~ \E i \in Pos : Expired(d, r, i)
    <3>1. e.run[r] = d.run[r] /\ \A j \in Pos : e.status[r][j] = d.status[r][j]
      BY <1>0, <2>4, SweepColumns
    <3> HIDE DEF e
    <3>2. QED
      BY <2>1, <2>2, <3>1, StagesAssumption DEF Chain, Frontier, Pos
  <2>5. QED
    BY <2>3, <2>4
<1>4. QED
  BY <1>1, <1>2, <1>3 DEF Good

(* cancelRun writes values of the columns' types.                           *)
LEMMA CancelTyped ==
  ASSUME NEW d \in Database, NEW R
  PROVE  CancelRuns(d, R) \in Database
<1> DEFINE e == CancelRuns(d, R)
<1>1. e.run \in [Runs -> RunStatus]
  BY DEF Database, CancelRuns, Released, Everywhere, RunStatus, OpenRun
<1>2. e.status \in PerStage(StageStatus)
  BY DEF Database, PerStage, CancelRuns, Released, Everywhere, StageStatus, OpenStage
<1>3. e.node \in PerStage(Nodes \cup {NoNode})
  BY DEF Database, PerStage, CancelRuns, Released, Everywhere
<1>4. e.ttl \in PerStage(-1..LeaseTtl)
  BY TtlAssumption DEF Database, PerStage, CancelRuns, Released, Everywhere
<1>5. e.executing \in PerStage(BOOLEAN)
  BY DEF Database, PerStage, CancelRuns, Released, Everywhere
<1>6. e.settled \in PerStage(BOOLEAN)
  BY DEF Database, PerStage, CancelRuns, Released, Everywhere
<1>7. e.outcome \in PerStage([Leases -> Outcome])
  BY DEF Database, PerStage, CancelRuns, Released, Everywhere, Outcome
<1>8. QED
  BY <1>1, <1>2, <1>3, <1>4, <1>5, <1>6, <1>7 DEF Database, CancelRuns, Released, Everywhere

(* cancelRun, column by column: only open stages of open runs change.       *)
LEMMA CancelColumns ==
  ASSUME NEW d \in Database, NEW R
  PROVE  LET e == CancelRuns(d, R)
             hit(r, i) == r \in R /\ d.run[r] \in OpenRun /\ d.status[r][i] \in OpenStage
         IN  /\ e.len = d.len /\ e.gated = d.gated /\ e.attempt = d.attempt
             /\ \A r \in Runs : e.run[r] =
                  IF r \in R /\ d.run[r] \in OpenRun THEN "cancelled" ELSE d.run[r]
             /\ \A r \in Runs, i \in Pos :
                  /\ e.status[r][i] = IF hit(r, i) THEN "cancelled" ELSE d.status[r][i]
                  /\ e.node[r][i] = IF hit(r, i) THEN NoNode ELSE d.node[r][i]
                  /\ e.ttl[r][i] = IF hit(r, i) THEN -1 ELSE d.ttl[r][i]
                  /\ e.executing[r][i] = (~hit(r, i) /\ d.executing[r][i])
                  /\ e.settled[r][i] = (~hit(r, i) /\ d.settled[r][i])
                  /\ \A l \in Leases : e.outcome[r][i][l] =
                       IF hit(r, i) /\ d.status[r][i] = "running" /\ d.attempt[r][i] = l
                         THEN "cancelled" ELSE d.outcome[r][i][l]
BY DEF Database, PerStage, CancelRuns, Released, Everywhere

(* Cancelling runs keeps the invariant: what follows the frontier is        *)
(* cancelled with it.                                                       *)
LEMMA CancelGood ==
  ASSUME NEW d, Good(d), NEW R
  PROVE  Good(CancelRuns(d, R))
<1> DEFINE e == CancelRuns(d, R)
           hit(r, i) == r \in R /\ d.run[r] \in OpenRun /\ d.status[r][i] \in OpenStage
<1>0. d \in Database
  BY DEF Good
<1>1. e \in Database
  BY <1>0, CancelTyped
<1>2. ASSUME NEW r \in Runs, NEW i \in Pos
      PROVE  Ledger(e, r, i)
  <2>1. /\ Ledger(d, r, i) /\ d.attempt[r][i] \in 0..MaxAttempts
        /\ d.executing[r][i] \in BOOLEAN /\ d.settled[r][i] \in BOOLEAN
    BY <1>0 DEF Good, Database, PerStage
  <2>2. /\ e.attempt[r][i] = d.attempt[r][i]
        /\ e.status[r][i] = IF hit(r, i) THEN "cancelled" ELSE d.status[r][i]
        /\ e.node[r][i] = IF hit(r, i) THEN NoNode ELSE d.node[r][i]
        /\ e.ttl[r][i] = IF hit(r, i) THEN -1 ELSE d.ttl[r][i]
        /\ e.executing[r][i] = (~hit(r, i) /\ d.executing[r][i])
        /\ e.settled[r][i] = (~hit(r, i) /\ d.settled[r][i])
        /\ \A l \in Leases : e.outcome[r][i][l] =
             IF hit(r, i) /\ d.status[r][i] = "running" /\ d.attempt[r][i] = l
               THEN "cancelled" ELSE d.outcome[r][i][l]
    BY <1>0, CancelColumns
  <2> HIDE DEF e
  <2>3. CASE hit(r, i)
    <3>1. d.status[r][i] \in OpenStage /\ e.status[r][i] = "cancelled"
      BY <2>2, <2>3
    <3>2. e.ttl[r][i] = -1 /\ ~e.executing[r][i] /\ ~e.settled[r][i]
      BY <2>2, <2>3
    <3>3. \A l \in Leases : e.outcome[r][i][l] =
            IF d.status[r][i] = "running" /\ d.attempt[r][i] = l
              THEN "cancelled" ELSE d.outcome[r][i][l]
      BY <2>2, <2>3
    <3> HIDE DEF hit
    <3>4. CASE d.status[r][i] = "running"
      <4>1. d.attempt[r][i] \in Leases
        BY <2>1, <3>4, AttemptsAssumption DEF Ledger, Leases
      <4>2. e.outcome[r][i][d.attempt[r][i]] = "cancelled"
        BY <4>1, <3>3, <3>4
      <4>3. Last(e, r, i)
        BY <2>2, <3>1, <3>2, <4>2 DEF Last
      <4>4. QED
        BY <2>1, <2>2, <3>3, <4>3, LedgerLast
    <3>5. CASE d.status[r][i] # "running"
      <4>1. d.attempt[r][i] > 0 => d.outcome[r][i][d.attempt[r][i]] \in {"failed", "expired"}
        BY <2>1, <3>1, <3>5 DEF Ledger, OpenStage
      <4>2. d.attempt[r][i] > 0 =>
              e.outcome[r][i][d.attempt[r][i]] = d.outcome[r][i][d.attempt[r][i]]
        BY <2>1, <3>3, <3>5, AttemptsAssumption DEF Leases
      <4>3. Last(e, r, i)
        BY <2>2, <3>1, <3>2, <4>1, <4>2 DEF Last
      <4>4. QED
        BY <2>1, <2>2, <3>3, <3>5, <4>3, LedgerLast
    <3>6. QED
      BY <3>4, <3>5
  <2>4. CASE ~hit(r, i)
    <3>1. /\ e.status[r][i] = d.status[r][i]
          /\ e.node[r][i] = d.node[r][i]
          /\ e.ttl[r][i] = d.ttl[r][i]
          /\ e.executing[r][i] = d.executing[r][i]
          /\ e.settled[r][i] = d.settled[r][i]
          /\ \A l \in Leases : e.outcome[r][i][l] = d.outcome[r][i][l]
      BY <2>1, <2>2, <2>4
    <3>2. Last(d, r, i)
      BY <2>1 DEF Ledger, Last
    <3>3. d.attempt[r][i] > 0 =>
            e.outcome[r][i][d.attempt[r][i]] = d.outcome[r][i][d.attempt[r][i]]
      BY <2>1, <3>1, AttemptsAssumption DEF Leases
    <3>4. Last(e, r, i)
      BY <2>2, <3>1, <3>2, <3>3 DEF Last
    <3>5. QED
      BY <2>1, <2>2, <3>1, <3>4, LedgerLast
  <2>5. QED
    BY <2>3, <2>4
<1>3. ASSUME NEW r \in Runs
      PROVE  Chain(e, r)
  <2>1. Chain(d, r) /\ d.len[r] \in 0..MaxStages /\ d.run[r] \in RunStatus
    BY <1>0 DEF Good, Database
  <2>2. /\ e.len[r] = d.len[r] /\ e.gated[r] = d.gated[r]
        /\ e.run[r] = IF r \in R /\ d.run[r] \in OpenRun THEN "cancelled" ELSE d.run[r]
        /\ \A i \in Pos : e.status[r][i] = IF hit(r, i) THEN "cancelled" ELSE d.status[r][i]
    BY <1>0, CancelColumns
  <2> HIDE DEF e
  <2>3. CASE r \in R /\ d.run[r] \in OpenRun
    <3>1. PICK k \in 1..d.len[r] : Frontier(d, r, k)
      BY <2>1, <2>3 DEF Chain, OpenRun
    <3>2. Frontier(e, r, k)
      BY <3>1, <2>1, <2>2, <2>3, StagesAssumption DEF Frontier, Pos, OpenRun, OpenStage
    <3>3. QED
      BY <3>2, <2>2, <2>3 DEF Chain
  <2>4. CASE ~(r \in R /\ d.run[r] \in OpenRun)
    BY <2>1, <2>2, <2>4, StagesAssumption DEF Chain, Frontier, Pos
  <2>5. QED
    BY <2>3, <2>4
<1>4. QED
  BY <1>1, <1>2, <1>3 DEF Good

(* Nothing in the invariant depends on the deadlines and the tool calls of  *)
(* a running stage.                                                         *)
LEMMA TouchedGood ==
  ASSUME NEW d, Good(d), NEW e \in Database,
         /\ e.run = d.run /\ e.len = d.len /\ e.gated = d.gated
         /\ e.status = d.status /\ e.node = d.node
         /\ e.attempt = d.attempt /\ e.outcome = d.outcome,
         \A r \in Runs, i \in Pos : d.status[r][i] # "running" =>
           ~e.executing[r][i] /\ ~e.settled[r][i] /\ e.ttl[r][i] = -1
  PROVE  Good(e)
<1>1. ASSUME NEW r \in Runs, NEW i \in Pos
      PROVE  Ledger(e, r, i)
  <2>1. Ledger(d, r, i)
    BY DEF Good
  <2>2. d.status[r][i] # "running" =>
          ~e.executing[r][i] /\ ~e.settled[r][i] /\ e.ttl[r][i] = -1
    OBVIOUS
  <2>3. QED
    BY <2>1, <2>2 DEF Ledger
<1>2. ASSUME NEW r \in Runs
      PROVE  Chain(e, r)
  BY DEF Good, Chain, Frontier
<1>3. QED
  BY <1>1, <1>2 DEF Good

(* cleanupExpiredMcpCalls keeps the invariant.                              *)
LEMMA CloseGood ==
  ASSUME NEW d, Good(d), NEW W
  PROVE  Good(CloseCalls(d, W))
<1> DEFINE e == CloseCalls(d, W)
<1>1. d \in Database /\ \A r \in Runs, i \in Pos : Ledger(d, r, i)
  BY DEF Good
<1>2. e.executing \in PerStage(BOOLEAN)
  BY <1>1 DEF CloseCalls, Database, PerStage
<1>3. e \in Database
  BY <1>1, <1>2 DEF CloseCalls, Database
<1>4. \A r \in Runs, i \in Pos : d.status[r][i] # "running" =>
           ~e.executing[r][i] /\ ~e.settled[r][i] /\ e.ttl[r][i] = -1
  BY <1>1 DEF CloseCalls, Database, PerStage, Ledger
<1>5. QED
  BY <1>1, <1>3, <1>4, TouchedGood DEF CloseCalls, Database

(* Writing one cell of a column leaves the other cells alone.               *)
LEMMA CellElsewhere ==
  ASSUME NEW S, NEW old \in [Runs -> [Pos -> S]], NEW v, NEW new,
         NEW r \in Runs, NEW i \in Pos, new = [old EXCEPT ![r][i] = v],
         NEW q \in Runs, NEW j \in Pos, q # r \/ j # i
  PROVE  new[q][j] = old[q][j]
<1>1. new[q] = IF q = r THEN [old[r] EXCEPT ![i] = v] ELSE old[q]
  OBVIOUS
<1>2. old[q] \in [Pos -> S] /\ old[r] \in [Pos -> S]
  OBVIOUS
<1>3. q = r => [old[r] EXCEPT ![i] = v][j] = old[r][j]
  BY <1>2
<1>4. QED
  BY <1>1, <1>3

(* So does writing one lease of a column of leases.                         *)
LEMMA LeaseElsewhere ==
  ASSUME NEW S, NEW old \in [Runs -> [Pos -> [Leases -> S]]], NEW v, NEW l, NEW new,
         NEW r \in Runs, NEW i \in Pos, new = [old EXCEPT ![r][i][l] = v],
         NEW q \in Runs, NEW j \in Pos, q # r \/ j # i
  PROVE  new[q][j] = old[q][j]
<1>1. new = [old EXCEPT ![r][i] = [old[r][i] EXCEPT ![l] = v]]
  OBVIOUS
<1>2. QED
  BY <1>1, CellElsewhere

(* A lease of the table of outcomes is given an outcome.                    *)
LEMMA OutcomeTyped ==
  ASSUME NEW old \in [Runs -> [Pos -> [Leases -> Outcome]]],
         NEW r \in Runs, NEW i \in Pos, NEW l, NEW v \in Outcome,
         NEW new, new = [old EXCEPT ![r][i][l] = v]
  PROVE  new \in [Runs -> [Pos -> [Leases -> Outcome]]]
<1> DEFINE lease == [old[r][i] EXCEPT ![l] = v]
           stage == [old[r] EXCEPT ![i] = lease]
<1>1. lease \in [Leases -> Outcome]
  OBVIOUS
<1>2. stage \in [Pos -> [Leases -> Outcome]]
  BY <1>1
<1>3. new = [old EXCEPT ![r] = stage]
  OBVIOUS
<1> HIDE DEF stage
<1>4. QED
  BY <1>2, <1>3

(* A grant writes values of the columns' types, while attempts are left.    *)
LEMMA GrantedTyped ==
  ASSUME NEW d \in Database, NEW n \in Nodes, NEW r \in Runs, NEW i \in Pos,
         d.attempt[r][i] < MaxAttempts
  PROVE  Granted(d, n, r, i) \in Database
<1> DEFINE e == Granted(d, n, r, i)
<1>0. d.attempt[r][i] \in 0..MaxAttempts /\ d.attempt[r][i] + 1 \in 0..MaxAttempts
  BY AttemptsAssumption DEF Database, PerStage
<1>1. e.run \in [Runs -> RunStatus]
  BY DEF Database, Granted, RunStatus, OpenRun
<1>2. e.status \in PerStage(StageStatus)
  BY DEF Database, PerStage, Granted, StageStatus, OpenStage
<1>3. e.node \in PerStage(Nodes \cup {NoNode})
  BY DEF Database, PerStage, Granted
<1>4. e.ttl \in PerStage(-1..LeaseTtl)
  BY TtlAssumption DEF Database, PerStage, Granted
<1>5. e.attempt \in PerStage(0..MaxAttempts)
  BY <1>0 DEF Database, PerStage, Granted
<1>6. e.outcome \in PerStage([Leases -> Outcome])
  <2>0. PICK l : l = d.attempt[r][i] + 1
    OBVIOUS
  <2>1. e.outcome = [d.outcome EXCEPT ![r][i][l] = "open"]
    BY <2>0 DEF Granted, Database
  <2>2. "open" \in Outcome /\ "completed" \in Outcome /\ "failed" \in Outcome
    BY DEF Outcome
  <2>3. d.outcome \in [Runs -> [Pos -> [Leases -> Outcome]]]
    BY DEF Database, PerStage
  <2> HIDE DEF e
  <2>4. e.outcome \in [Runs -> [Pos -> [Leases -> Outcome]]]
    <3>1. \A new : new = [d.outcome EXCEPT ![r][i][l] = "open"] =>
                      new \in [Runs -> [Pos -> [Leases -> Outcome]]]
      BY <2>2, <2>3, OutcomeTyped
    <3>2. QED
      BY <3>1, <2>1
  <2>5. QED
    BY <2>4 DEF PerStage
<1>7. QED
  BY <1>1, <1>2, <1>3, <1>4, <1>5, <1>6 DEF Database, Granted

(* A grant, column by column: one stage of one run changes.                 *)
LEMMA GrantedColumns ==
  ASSUME NEW d \in Database, NEW n \in Nodes, NEW r \in Runs, NEW i \in Pos
  PROVE  LET e == Granted(d, n, r, i)
             a == d.attempt[r][i]
         IN  /\ e.len = d.len /\ e.gated = d.gated
             /\ e.executing = d.executing /\ e.settled = d.settled
             /\ e.run[r] = "running"
             /\ \A q \in Runs : q # r => e.run[q] = d.run[q]
             /\ e.status[r][i] = "running" /\ e.node[r][i] = n /\ e.attempt[r][i] = a + 1
             /\ \A m \in Leases : e.outcome[r][i][m] =
                  IF m = a + 1 THEN "open" ELSE d.outcome[r][i][m]
             /\ \A q \in Runs, j \in Pos : q # r \/ j # i =>
                  /\ e.status[q][j] = d.status[q][j] /\ e.node[q][j] = d.node[q][j]
                  /\ e.ttl[q][j] = d.ttl[q][j] /\ e.attempt[q][j] = d.attempt[q][j]
                  /\ e.outcome[q][j] = d.outcome[q][j]
<1> DEFINE e == Granted(d, n, r, i)
<1>1. /\ e.len = d.len /\ e.gated = d.gated
      /\ e.executing = d.executing /\ e.settled = d.settled
  BY DEF Database, Granted
<1>2. e.run[r] = "running" /\ \A q \in Runs : q # r => e.run[q] = d.run[q]
  BY DEF Database, Granted
<1>3. /\ e.status[r][i] = "running" /\ e.node[r][i] = n
      /\ e.attempt[r][i] = d.attempt[r][i] + 1
  BY DEF Database, PerStage, Granted
<1>4. \A m \in Leases : e.outcome[r][i][m] =
        IF m = d.attempt[r][i] + 1 THEN "open" ELSE d.outcome[r][i][m]
  BY DEF Database, PerStage, Granted
<1>5. ASSUME NEW q \in Runs, NEW j \in Pos, q # r \/ j # i
      PROVE  /\ e.status[q][j] = d.status[q][j] /\ e.node[q][j] = d.node[q][j]
             /\ e.ttl[q][j] = d.ttl[q][j] /\ e.attempt[q][j] = d.attempt[q][j]
             /\ e.outcome[q][j] = d.outcome[q][j]
  BY <1>5 DEF Database, PerStage, Granted
<1>6. QED
  BY <1>1, <1>2, <1>3, <1>4, <1>5

(* Granting a lease on a candidate keeps the invariant: the candidate is the*)
(* frontier of its run and has an attempt left to count.                    *)
LEMMA GrantedGood ==
  ASSUME NEW d, Good(d), NEW n \in Nodes, NEW r \in Runs, NEW i \in Pos, Candidate(d, r, i)
  PROVE  Good(Granted(d, n, r, i))
<1> DEFINE e == Granted(d, n, r, i)
           a == d.attempt[r][i]
<1>1. /\ d \in Database /\ \A q \in Runs : Chain(d, q)
      /\ \A q \in Runs, j \in Pos : Ledger(d, q, j)
  BY DEF Good
<1>2. d.status[r][i] = "queued" /\ d.run[r] \in {"queued", "running"}
  BY DEF Candidate
<1>3. a \in 0..MaxAttempts /\ a < MaxAttempts /\ a + 1 \in Leases
  <2>1. a \in 0..MaxAttempts
    BY <1>1 DEF Database, PerStage
  <2>2. a < MaxAttempts
    BY <1>1, <1>2 DEF Ledger
  <2> HIDE DEF a
  <2>3. QED
    BY <2>1, <2>2, AttemptsAssumption DEF Leases
<1>4. e \in Database
  BY <1>1, <1>3, GrantedTyped
<1>5. ASSUME NEW q \in Runs, NEW j \in Pos
      PROVE  Ledger(e, q, j)
  <2>1. CASE q = r /\ j = i
    <3>1. /\ e.status[r][i] = "running" /\ e.node[r][i] = n /\ e.attempt[r][i] = a + 1
          /\ \A m \in Leases : e.outcome[r][i][m] =
               IF m = a + 1 THEN "open" ELSE d.outcome[r][i][m]
      BY <1>1, GrantedColumns
    <3>2. Ledger(d, r, i)
      BY <1>1
    <3> HIDE DEF e
    <3>3. /\ \A m \in Leases : m > a => d.outcome[r][i][m] = "none"
          /\ \A m \in Leases : m < a => d.outcome[r][i][m] \in {"failed", "expired"}
          /\ a > 0 => d.outcome[r][i][a] \in {"failed", "expired"}
      BY <3>2, <1>2 DEF Ledger
    <3> HIDE DEF a
    <3>4. \A m \in Leases : m > a + 1 => e.outcome[r][i][m] = "none"
      BY <3>1, <3>3, <1>3, AttemptsAssumption DEF Leases
    <3>5. \A m \in Leases : m < a + 1 => e.outcome[r][i][m] \in {"failed", "expired"}
      BY <3>1, <3>3, <1>3, AttemptsAssumption DEF Leases
    <3>6. e.outcome[r][i][a + 1] = "open" /\ a + 1 > 0
      BY <3>1, <1>3
    <3>7. QED
      BY <3>1, <3>4, <3>5, <3>6, <2>1 DEF Ledger
  <2>2. CASE q # r \/ j # i
    <3>1. /\ e.executing[q][j] = d.executing[q][j] /\ e.settled[q][j] = d.settled[q][j]
          /\ e.status[q][j] = d.status[q][j] /\ e.node[q][j] = d.node[q][j]
          /\ e.ttl[q][j] = d.ttl[q][j] /\ e.attempt[q][j] = d.attempt[q][j]
          /\ e.outcome[q][j] = d.outcome[q][j]
      BY <1>1, <2>2, GrantedColumns
    <3> HIDE DEF e
    <3>2. QED
      BY <1>1, <3>1, LedgerCopy
  <2>3. QED
    BY <2>1, <2>2
<1>6. ASSUME NEW q \in Runs
      PROVE  Chain(e, q)
  <2>0. e.len = d.len /\ e.gated = d.gated
    BY <1>1, GrantedColumns
  <2>1. CASE q = r
    <3>1. i \in 1..d.len[r] /\ Frontier(d, r, i) /\ d.len[r] \in Pos
      BY <1>2, FrontierAt
    <3>2. /\ e.run[r] = "running"
          /\ \A j \in Pos : e.status[r][j] = IF j = i THEN "running" ELSE d.status[r][j]
      BY <1>1, GrantedColumns
    <3> HIDE DEF e
    <3>3. Frontier(e, r, i)
      BY <3>1, <3>2, <2>0, <1>2, StagesAssumption DEF Frontier, Pos
    <3>4. QED
      BY <3>1, <3>2, <3>3, <2>0, <2>1 DEF Chain
  <2>2. CASE q # r
    <3>1. e.run[q] = d.run[q] /\ \A j \in Pos : e.status[q][j] = d.status[q][j]
      BY <1>1, <2>2, GrantedColumns
    <3>2. d.len[q] \in 0..MaxStages
      BY <1>1 DEF Database
    <3> HIDE DEF e
    <3>3. QED
      BY <1>1, <2>0, <3>1, <3>2, ChainCopy
  <2>3. QED
    BY <2>1, <2>2
<1>7. QED
  BY <1>4, <1>5, <1>6 DEF Good

(* completeLease writes values of the columns' types.                       *)
LEMMA CompletedTyped ==
  ASSUME NEW d \in Database, NEW r \in Runs, NEW i \in Pos, NEW l \in Leases
  PROVE  Completed(d, r, i, l) \in Database
<1> DEFINE e == Completed(d, r, i, l)
<1>1. e.run \in [Runs -> RunStatus]
  BY DEF Database, Completed, RunStatus, OpenRun
<1>2. e.status \in PerStage(StageStatus)
  BY DEF Database, PerStage, Completed, StageStatus, OpenStage
<1>3. e.ttl \in PerStage(-1..LeaseTtl)
  BY TtlAssumption DEF Database, PerStage, Completed
<1>4. e.executing \in PerStage(BOOLEAN)
  BY DEF Database, PerStage, Completed
<1>5. e.settled \in PerStage(BOOLEAN)
  BY DEF Database, PerStage, Completed
<1>6. e.outcome \in PerStage([Leases -> Outcome])
  <2>1. e.outcome = [d.outcome EXCEPT ![r][i][l] = "completed"]
    BY DEF Completed, Database
  <2>2. "open" \in Outcome /\ "completed" \in Outcome /\ "failed" \in Outcome
    BY DEF Outcome
  <2>3. d.outcome \in [Runs -> [Pos -> [Leases -> Outcome]]]
    BY DEF Database, PerStage
  <2> HIDE DEF e
  <2>4. e.outcome \in [Runs -> [Pos -> [Leases -> Outcome]]]
    BY <2>1, <2>2, <2>3, OutcomeTyped
  <2>5. QED
    BY <2>4 DEF PerStage
<1>7. QED
  BY <1>1, <1>2, <1>3, <1>4, <1>5, <1>6 DEF Database, Completed

(* completeLease, column by column: the stage, the stage behind it and the  *)
(* run change.                                                              *)
LEMMA CompletedColumns ==
  ASSUME NEW d \in Database, NEW r \in Runs, NEW i \in Pos, NEW l \in Leases
  PROVE  LET e    == Completed(d, r, i, l)
             last == i = d.len[r]
             gate == i + 1 = d.len[r] /\ d.gated[r]
         IN  /\ e.len = d.len /\ e.gated = d.gated
             /\ e.node = d.node /\ e.attempt = d.attempt
             /\ e.run[r] = IF last THEN "completed"
                           ELSE IF gate THEN "waiting_approval" ELSE "running"
             /\ \A q \in Runs : q # r => e.run[q] = d.run[q]
             /\ \A j \in Pos : e.status[r][j] =
                  IF j = i THEN "completed"
                  ELSE IF j = i + 1 /\ ~last
                         THEN IF gate THEN "waiting_approval" ELSE "queued"
                         ELSE d.status[r][j]
             /\ \A q \in Runs : q # r => e.status[q] = d.status[q]
             /\ e.ttl[r][i] = -1 /\ ~e.executing[r][i] /\ ~e.settled[r][i]
             /\ \A m \in Leases : e.outcome[r][i][m] =
                  IF m = l THEN "completed" ELSE d.outcome[r][i][m]
             /\ \A q \in Runs, j \in Pos : q # r \/ j # i =>
                  /\ e.ttl[q][j] = d.ttl[q][j] /\ e.outcome[q][j] = d.outcome[q][j]
                  /\ e.executing[q][j] = d.executing[q][j]
                  /\ e.settled[q][j] = d.settled[q][j]
<1> DEFINE e == Completed(d, r, i, l)
           last == i = d.len[r]
           gate == i + 1 = d.len[r] /\ d.gated[r]
<1>1. /\ e.len = d.len /\ e.gated = d.gated
      /\ e.node = d.node /\ e.attempt = d.attempt
  BY DEF Database, Completed
<1>2. /\ e.run[r] = IF last THEN "completed"
                    ELSE IF gate THEN "waiting_approval" ELSE "running"
      /\ \A q \in Runs : q # r => e.run[q] = d.run[q]
  BY DEF Database, Completed
<1>3. /\ \A j \in Pos : e.status[r][j] =
           IF j = i THEN "completed"
           ELSE IF j = i + 1 /\ ~last
                  THEN IF gate THEN "waiting_approval" ELSE "queued"
                  ELSE d.status[r][j]
      /\ \A q \in Runs : q # r => e.status[q] = d.status[q]
  BY DEF Database, PerStage, Completed
<1>4. e.ttl[r][i] = -1 /\ ~e.executing[r][i] /\ ~e.settled[r][i]
  BY DEF Database, PerStage, Completed
<1>5. \A m \in Leases : e.outcome[r][i][m] =
        IF m = l THEN "completed" ELSE d.outcome[r][i][m]
  <2>1. e.outcome = [d.outcome EXCEPT ![r][i][l] = "completed"]
    BY DEF Database, Completed
  <2>2. d.outcome \in [Runs -> [Pos -> [Leases -> Outcome]]]
    BY DEF Database, PerStage
  <2> HIDE DEF e
  <2>3. QED
    BY <2>1, <2>2
<1>6. ASSUME NEW q \in Runs, NEW j \in Pos, q # r \/ j # i
      PROVE  /\ e.ttl[q][j] = d.ttl[q][j] /\ e.outcome[q][j] = d.outcome[q][j]
             /\ e.executing[q][j] = d.executing[q][j]
             /\ e.settled[q][j] = d.settled[q][j]
  <2> DEFINE Flag == BOOLEAN
             off  == FALSE
  <2>1. /\ e.ttl = [d.ttl EXCEPT ![r][i] = -1]
        /\ e.outcome = [d.outcome EXCEPT ![r][i][l] = "completed"]
        /\ e.executing = [d.executing EXCEPT ![r][i] = off]
        /\ e.settled = [d.settled EXCEPT ![r][i] = off]
    BY DEF Database, Completed
  <2>2. /\ d.ttl \in [Runs -> [Pos -> -1..LeaseTtl]]
        /\ d.outcome \in [Runs -> [Pos -> [Leases -> Outcome]]]
        /\ d.executing \in [Runs -> [Pos -> Flag]]
        /\ d.settled \in [Runs -> [Pos -> Flag]]
    BY DEF Database, PerStage
  <2> HIDE DEF e, Flag, off
  <2>3. e.ttl[q][j] = d.ttl[q][j]
    BY <1>6, <2>1, <2>2, CellElsewhere
  <2>4. e.outcome[q][j] = d.outcome[q][j]
    BY <1>6, <2>1, <2>2, LeaseElsewhere
  <2>5. e.executing[q][j] = d.executing[q][j]
    BY <1>6, <2>1, <2>2, CellElsewhere
  <2>6. e.settled[q][j] = d.settled[q][j]
    BY <1>6, <2>1, <2>2, CellElsewhere
  <2>7. QED
    BY <2>3, <2>4, <2>5, <2>6
<1>7. QED
  BY <1>1, <1>2, <1>3, <1>4, <1>5, <1>6

(* Completing the running stage keeps the invariant: the frontier moves by  *)
(* one, or the run is completed with its last stage.                        *)
LEMMA CompletedGood ==
  ASSUME NEW d, Good(d), NEW r \in Runs, NEW i \in Pos, NEW l \in Leases,
         d.status[r][i] = "running", d.attempt[r][i] = l
  PROVE  Good(Completed(d, r, i, l))
<1> DEFINE e == Completed(d, r, i, l)
           last == i = d.len[r]
           gate == i + 1 = d.len[r] /\ d.gated[r]
           to == IF gate THEN "waiting_approval" ELSE "queued"
<1>1. /\ d \in Database /\ \A q \in Runs : Chain(d, q)
      /\ \A q \in Runs, j \in Pos : Ledger(d, q, j)
  BY DEF Good
<1>2. i \in 1..d.len[r] /\ Frontier(d, r, i) /\ d.len[r] \in Pos
  BY FrontierAt
<1>3. d.run[r] = "running"
  BY <1>1, <1>2 DEF Frontier, Database, RunStatus, OpenRun
<1>4. e \in Database
  BY <1>1, CompletedTyped
<1>5. /\ e.len = d.len /\ e.gated = d.gated /\ e.attempt = d.attempt /\ e.node = d.node
      /\ \A j \in Pos : e.status[r][j] =
           IF j = i THEN "completed" ELSE IF j = i + 1 /\ ~last THEN to ELSE d.status[r][j]
      /\ e.run[r] = IF last THEN "completed" ELSE IF gate THEN "waiting_approval" ELSE "running"
  BY <1>1, CompletedColumns
<1>6. ASSUME NEW q \in Runs, NEW j \in Pos
      PROVE  Ledger(e, q, j)
  <2>0. Ledger(d, q, j)
    BY <1>1
  <2>1. CASE q = r /\ j = i
    <3>1. /\ e.ttl[r][i] = -1 /\ ~e.executing[r][i] /\ ~e.settled[r][i]
          /\ \A m \in Leases : e.outcome[r][i][m] =
               IF m = l THEN "completed" ELSE d.outcome[r][i][m]
      BY <1>1, CompletedColumns
    <3>2. e.status[r][i] = "completed" /\ e.attempt[r][i] = l
      BY <1>5
    <3>3. e.outcome[r][i][l] = "completed" /\ l > 0 /\ d.attempt[r][i] \in 0..MaxAttempts
      BY <3>1, AttemptsAssumption DEF Leases
    <3> HIDE DEF e
    <3>4. Last(e, r, i)
      BY <3>1, <3>2, <3>3 DEF Last
    <3>5. QED
      BY <3>1, <3>2, <3>3, <3>4, <2>0, <2>1, LedgerLast
  <2>2. CASE q # r \/ j # i
    <3>1. /\ e.ttl[q][j] = d.ttl[q][j] /\ e.outcome[q][j] = d.outcome[q][j]
          /\ e.executing[q][j] = d.executing[q][j]
          /\ e.settled[q][j] = d.settled[q][j]
      BY <1>1, <2>2, CompletedColumns
    <3>2. CASE q = r /\ j = i + 1 /\ ~last
      <4>1. d.status[r][j] = "pending"
        BY <1>2, <1>3, <3>2, StagesAssumption DEF Frontier, Pos
      <4>2. e.status[r][j] \in {"queued", "waiting_approval"}
        BY <1>5, <3>2 DEF Pos
      <4> HIDE DEF e
      <4>3. /\ d.attempt[q][j] = 0 /\ e.attempt[q][j] = 0
            /\ ~d.executing[q][j] /\ ~d.settled[q][j] /\ d.ttl[q][j] = -1
            /\ MaxAttempts > 0
        <5>1. ~d.executing[q][j] /\ ~d.settled[q][j] /\ d.ttl[q][j] = -1
          BY <4>1, <3>2, <2>0, LedgerIdle
        <5>2. d.attempt[q][j] = 0
          BY <4>1, <3>2, <2>0 DEF Ledger
        <5>3. QED
          BY <5>1, <5>2, <1>5, AttemptsAssumption
      <4>4. Last(e, q, j)
        BY <4>2, <4>3, <3>1, <3>2 DEF Last
      <4>5. e.outcome[q][j] = d.outcome[q][j] /\ d.attempt[q][j] \in 0..MaxAttempts
        BY <3>1, <4>3, AttemptsAssumption
      <4>6. QED
        BY <4>3, <4>4, <4>5, <2>0, LedgerLast
    <3>3. CASE q # r \/ j # i + 1 \/ last
      <4>1. e.status[q][j] = d.status[q][j]
        BY <1>1, <1>5, <2>2, <3>3, CompletedColumns
      <4> HIDE DEF e
      <4>2. QED
        BY <4>1, <3>1, <2>0, <1>5, LedgerCopy
    <3>4. QED
      BY <3>2, <3>3
  <2>3. QED
    BY <2>1, <2>2
<1>7. ASSUME NEW q \in Runs
      PROVE  Chain(e, q)
  <2>1. CASE q = r
    <3> HIDE DEF e
    <3>1. CASE last
      <4>1. Frontier(e, r, i)
        BY <3>1, <1>2, <1>3, <1>5, StagesAssumption DEF Frontier, Pos
      <4>2. QED
        BY <4>1, <3>1, <2>1, <1>2, <1>5 DEF Chain
    <3>2. CASE ~last
      <4>1. i + 1 \in 1..d.len[r] /\ i + 1 \in Pos
        BY <3>2, <1>2, StagesAssumption DEF Pos
      <4>2. Frontier(e, r, i + 1)
        BY <4>1, <3>2, <1>2, <1>3, <1>5, StagesAssumption DEF Frontier, Pos
      <4>3. QED
        BY <4>1, <4>2, <3>2, <2>1, <1>2, <1>5 DEF Chain
    <3>3. QED
      BY <3>1, <3>2
  <2>2. CASE q # r
    <3>1. e.run[q] = d.run[q] /\ \A j \in Pos : e.status[q][j] = d.status[q][j]
      BY <1>1, <2>2, CompletedColumns
    <3>2. d.len[q] \in 0..MaxStages
      BY <1>1 DEF Database
    <3> HIDE DEF e
    <3>3. QED
      BY <1>1, <1>5, <3>1, <3>2, ChainCopy
  <2>3. QED
    BY <2>1, <2>2
<1>8. QED
  BY <1>4, <1>6, <1>7 DEF Good

(* failLease writes values of the columns' types.                           *)
LEMMA FailedTyped ==
  ASSUME NEW d \in Database, NEW r \in Runs, NEW i \in Pos, NEW l \in Leases
  PROVE  Failed(d, r, i, l) \in Database
<1> DEFINE to        == IF Retrying(d, r, i) THEN "queued" ELSE "failed"
           run       == [d.run EXCEPT ![r] = to]
           status    == [d.status EXCEPT ![r][i] = to]
           node      == [d.node EXCEPT ![r][i] = NoNode]
           ttl       == [d.ttl EXCEPT ![r][i] = -1]
           executing == [d.executing EXCEPT ![r][i] = FALSE]
           settled   == [d.settled EXCEPT ![r][i] = FALSE]
           outcome   == [d.outcome EXCEPT ![r][i][l] = "failed"]
<1>1. Failed(d, r, i, l) =
        [d EXCEPT !.status = status, !.node = node, !.ttl = ttl, !.executing = executing,
                  !.settled = settled, !.outcome = outcome, !.run = run]
  BY DEF Failed
<1>2. run \in [Runs -> RunStatus]
  BY DEF Database, RunStatus, OpenRun
<1>3. status \in PerStage(StageStatus)
  BY DEF Database, PerStage, StageStatus, OpenStage
<1>4. node \in PerStage(Nodes \cup {NoNode})
  BY DEF Database, PerStage
<1>5. ttl \in PerStage(-1..LeaseTtl)
  BY TtlAssumption DEF Database, PerStage
<1>6. executing \in PerStage(BOOLEAN) /\ settled \in PerStage(BOOLEAN)
  BY DEF Database, PerStage
<1>7. outcome \in PerStage([Leases -> Outcome])
  <2>1. "failed" \in Outcome
    BY DEF Outcome
  <2>2. d.outcome \in [Runs -> [Pos -> [Leases -> Outcome]]]
    BY DEF Database, PerStage
  <2>3. outcome \in [Runs -> [Pos -> [Leases -> Outcome]]]
    BY <2>1, <2>2, OutcomeTyped
  <2>4. QED
    BY <2>3 DEF PerStage
<1> HIDE DEF run, status, node, ttl, executing, settled, outcome
<1>8. [d EXCEPT !.status = status, !.node = node, !.ttl = ttl, !.executing = executing,
                !.settled = settled, !.outcome = outcome, !.run = run] \in Database
  BY <1>2, <1>3, <1>4, <1>5, <1>6, <1>7, Zenon DEF Database
<1>9. QED
  BY <1>1, <1>8, Zenon

(* failLease, column by column: one stage and its run change.               *)
LEMMA FailedColumns ==
  ASSUME NEW d \in Database, NEW r \in Runs, NEW i \in Pos, NEW l \in Leases
  PROVE  LET e     == Failed(d, r, i, l)
             again == Retrying(d, r, i)
         IN  /\ e.len = d.len /\ e.gated = d.gated /\ e.attempt = d.attempt
             /\ e.run[r] = IF again THEN "queued" ELSE "failed"
             /\ \A q \in Runs : q # r => e.run[q] = d.run[q]
             /\ e.status[r][i] = IF again THEN "queued" ELSE "failed"
             /\ e.ttl[r][i] = -1 /\ ~e.executing[r][i] /\ ~e.settled[r][i]
             /\ \A m \in Leases : e.outcome[r][i][m] =
                  IF m = l THEN "failed" ELSE d.outcome[r][i][m]
             /\ \A q \in Runs, j \in Pos : q # r \/ j # i =>
                  /\ e.status[q][j] = d.status[q][j] /\ e.node[q][j] = d.node[q][j]
                  /\ e.ttl[q][j] = d.ttl[q][j] /\ e.outcome[q][j] = d.outcome[q][j]
                  /\ e.executing[q][j] = d.executing[q][j]
                  /\ e.settled[q][j] = d.settled[q][j]
<1> DEFINE e == Failed(d, r, i, l)
           again == Retrying(d, r, i)
<1> HIDE DEF again
<1>1. e.len = d.len /\ e.gated = d.gated /\ e.attempt = d.attempt
  BY DEF Database, Failed
<1>2. /\ e.run[r] = IF again THEN "queued" ELSE "failed"
      /\ \A q \in Runs : q # r => e.run[q] = d.run[q]
  BY DEF Database, Failed, again
<1>3. /\ e.status[r][i] = IF again THEN "queued" ELSE "failed"
      /\ e.ttl[r][i] = -1
  BY DEF Database, PerStage, Failed, again
<1>4. ~e.executing[r][i] /\ ~e.settled[r][i]
  BY DEF Database, PerStage, Failed
<1>5. \A m \in Leases : e.outcome[r][i][m] =
        IF m = l THEN "failed" ELSE d.outcome[r][i][m]
  <2>1. e.outcome = [d.outcome EXCEPT ![r][i][l] = "failed"]
    BY DEF Database, Failed
  <2>2. d.outcome \in [Runs -> [Pos -> [Leases -> Outcome]]]
    BY DEF Database, PerStage
  <2> HIDE DEF e
  <2>3. QED
    BY <2>1, <2>2
<1>6. ASSUME NEW q \in Runs, NEW j \in Pos, q # r \/ j # i
      PROVE  /\ e.status[q][j] = d.status[q][j] /\ e.node[q][j] = d.node[q][j]
             /\ e.ttl[q][j] = d.ttl[q][j] /\ e.outcome[q][j] = d.outcome[q][j]
             /\ e.executing[q][j] = d.executing[q][j]
             /\ e.settled[q][j] = d.settled[q][j]
  <2> DEFINE to   == IF again THEN "queued" ELSE "failed"
             Flag == BOOLEAN
             off  == FALSE
  <2>1. /\ e.status = [d.status EXCEPT ![r][i] = to]
        /\ e.node = [d.node EXCEPT ![r][i] = NoNode]
        /\ e.ttl = [d.ttl EXCEPT ![r][i] = -1]
        /\ e.outcome = [d.outcome EXCEPT ![r][i][l] = "failed"]
        /\ e.executing = [d.executing EXCEPT ![r][i] = off]
        /\ e.settled = [d.settled EXCEPT ![r][i] = off]
    BY DEF Database, Failed, again
  <2>2. /\ d.status \in [Runs -> [Pos -> StageStatus]]
        /\ d.node \in [Runs -> [Pos -> Nodes \cup {NoNode}]]
        /\ d.ttl \in [Runs -> [Pos -> -1..LeaseTtl]]
        /\ d.outcome \in [Runs -> [Pos -> [Leases -> Outcome]]]
        /\ d.executing \in [Runs -> [Pos -> Flag]]
        /\ d.settled \in [Runs -> [Pos -> Flag]]
    BY DEF Database, PerStage
  <2> HIDE DEF e, to, Flag, off
  <2>3. e.status[q][j] = d.status[q][j]
    BY <1>6, <2>1, <2>2, CellElsewhere
  <2>4. e.node[q][j] = d.node[q][j]
    BY <1>6, <2>1, <2>2, CellElsewhere
  <2>5. e.ttl[q][j] = d.ttl[q][j]
    BY <1>6, <2>1, <2>2, CellElsewhere
  <2>6. e.outcome[q][j] = d.outcome[q][j]
    BY <1>6, <2>1, <2>2, LeaseElsewhere
  <2>7. e.executing[q][j] = d.executing[q][j]
    BY <1>6, <2>1, <2>2, CellElsewhere
  <2>8. e.settled[q][j] = d.settled[q][j]
    BY <1>6, <2>1, <2>2, CellElsewhere
  <2>9. QED
    BY <2>3, <2>4, <2>5, <2>6, <2>7, <2>8
<1>7. QED
  BY <1>1, <1>2, <1>3, <1>4, <1>5, <1>6 DEF again

(* Failing the running stage keeps the invariant.                           *)
LEMMA FailedGood ==
  ASSUME NEW d, Good(d), NEW r \in Runs, NEW i \in Pos, NEW l \in Leases,
         d.status[r][i] = "running", d.attempt[r][i] = l
  PROVE  Good(Failed(d, r, i, l))
<1> DEFINE e == Failed(d, r, i, l)
           again == Retrying(d, r, i)
<1>1. /\ d \in Database /\ \A q \in Runs : Chain(d, q)
      /\ \A q \in Runs, j \in Pos : Ledger(d, q, j)
  BY DEF Good
<1>2. i \in 1..d.len[r] /\ Frontier(d, r, i) /\ d.len[r] \in Pos
  BY FrontierAt
<1>3. d.run[r] = "running"
  BY <1>1, <1>2 DEF Frontier, Database, RunStatus, OpenRun
<1>4. e \in Database
  BY <1>1, FailedTyped
<1>5. /\ e.len = d.len /\ e.gated = d.gated /\ e.attempt = d.attempt
      /\ e.run[r] = IF again THEN "queued" ELSE "failed"
      /\ e.status[r][i] = IF again THEN "queued" ELSE "failed"
      /\ e.ttl[r][i] = -1 /\ ~e.executing[r][i] /\ ~e.settled[r][i]
      /\ \A m \in Leases : e.outcome[r][i][m] =
           IF m = l THEN "failed" ELSE d.outcome[r][i][m]
  BY <1>1, FailedColumns
<1>6. ASSUME NEW q \in Runs, NEW j \in Pos
      PROVE  Ledger(e, q, j)
  <2>0. Ledger(d, q, j)
    BY <1>1
  <2>1. CASE q = r /\ j = i
    <3>1. l > 0 /\ e.attempt[r][i] = l /\ d.attempt[r][i] \in 0..MaxAttempts
      BY <1>5, AttemptsAssumption DEF Leases
    <3>2. again => l < MaxAttempts
      BY DEF Retrying
    <3> HIDE DEF e, again
    <3>3. Last(e, r, i)
      BY <1>5, <3>1, <3>2 DEF Last
    <3>4. QED
      BY <1>5, <3>1, <3>3, <2>0, <2>1, LedgerLast
  <2>2. CASE q # r \/ j # i
    <3>1. /\ e.status[q][j] = d.status[q][j] /\ e.node[q][j] = d.node[q][j]
          /\ e.ttl[q][j] = d.ttl[q][j] /\ e.outcome[q][j] = d.outcome[q][j]
          /\ e.executing[q][j] = d.executing[q][j]
          /\ e.settled[q][j] = d.settled[q][j]
      BY <1>1, <2>2, FailedColumns
    <3> HIDE DEF e
    <3>2. QED
      BY <3>1, <2>0, <1>5, LedgerCopy
  <2>3. QED
    BY <2>1, <2>2
<1>7. ASSUME NEW q \in Runs
      PROVE  Chain(e, q)
  <2>1. CASE q = r
    <3>1. \A j \in Pos : j # i => e.status[r][j] = d.status[r][j]
      BY <1>1, FailedColumns
    <3> HIDE DEF e, again
    <3>2. Frontier(e, r, i)
      BY <3>1, <1>2, <1>3, <1>5, StagesAssumption DEF Frontier, Pos
    <3>3. QED
      BY <3>2, <2>1, <1>2, <1>5 DEF Chain
  <2>2. CASE q # r
    <3>1. e.run[q] = d.run[q] /\ \A j \in Pos : e.status[q][j] = d.status[q][j]
      BY <1>1, <2>2, FailedColumns
    <3>2. d.len[q] \in 0..MaxStages
      BY <1>1 DEF Database
    <3> HIDE DEF e
    <3>3. QED
      BY <1>1, <1>5, <3>1, <3>2, ChainCopy
  <2>3. QED
    BY <2>1, <2>2
<1>8. QED
  BY <1>4, <1>6, <1>7 DEF Good

(* Deciding on the gated stage, which is the last of its run, keeps the     *)
(* invariant.                                                               *)
LEMMA DecidedGood ==
  ASSUME NEW d, Good(d), NEW r \in Runs, NEW i \in Pos, NEW approve \in BOOLEAN,
         d.status[r][i] = "waiting_approval"
  PROVE  Good(Decided(d, r, i, approve))
<1> DEFINE e == Decided(d, r, i, approve)
<1>1. /\ d \in Database /\ \A q \in Runs : Chain(d, q)
      /\ \A q \in Runs, j \in Pos : Ledger(d, q, j)
  BY DEF Good
<1>2. i \in 1..d.len[r] /\ Frontier(d, r, i) /\ d.len[r] \in Pos
  BY FrontierAt
<1>3. d.run[r] = "waiting_approval" /\ i = d.len[r]
  BY <1>1, <1>2 DEF Frontier, Database, RunStatus, OpenRun
<1>4. e \in Database
  <2>1. e.run \in [Runs -> RunStatus]
    BY <1>1 DEF Database, Decided, RunStatus, OpenRun
  <2>2. e.status \in PerStage(StageStatus)
    BY <1>1 DEF Database, PerStage, Decided, StageStatus, OpenStage
  <2>3. QED
    BY <1>1, <2>1, <2>2 DEF Database, Decided
<1>5. /\ e.len = d.len /\ e.gated = d.gated /\ e.attempt = d.attempt
      /\ e.node = d.node /\ e.ttl = d.ttl /\ e.outcome = d.outcome
      /\ e.executing = d.executing /\ e.settled = d.settled
  BY <1>1 DEF Database, Decided
<1>6. /\ e.run[r] = IF approve THEN "running" ELSE "cancelled"
      /\ e.status[r][i] = IF approve THEN "queued" ELSE "cancelled"
      /\ \A q \in Runs : q # r => e.run[q] = d.run[q]
      /\ \A q \in Runs, j \in Pos : q # r \/ j # i => e.status[q][j] = d.status[q][j]
  BY <1>1 DEF Database, PerStage, Decided
<1> HIDE DEF e
<1>7. ASSUME NEW q \in Runs, NEW j \in Pos
      PROVE  Ledger(e, q, j)
  <2>0. Ledger(d, q, j)
    BY <1>1
  <2>1. CASE q = r /\ j = i
    <3>1. /\ d.attempt[r][i] = 0 /\ e.attempt[r][i] = 0 /\ MaxAttempts > 0
          /\ e.outcome[r][i] = d.outcome[r][i] /\ d.attempt[r][i] \in 0..MaxAttempts
      BY <2>0, <2>1, <1>5, AttemptsAssumption DEF Ledger
    <3>2. ~e.executing[r][i] /\ ~e.settled[r][i] /\ e.ttl[r][i] = -1
      BY <2>0, <2>1, <1>5, LedgerIdle
    <3>3. e.status[r][i] \in {"queued", "cancelled"}
      BY <1>6
    <3>4. Last(e, r, i)
      BY <3>1, <3>2, <3>3 DEF Last
    <3>5. QED
      BY <3>1, <3>4, <2>0, <2>1, LedgerLast
  <2>2. CASE q # r \/ j # i
    BY <2>0, <2>2, <1>5, <1>6, LedgerCopy
  <2>3. QED
    BY <2>1, <2>2
<1>8. ASSUME NEW q \in Runs
      PROVE  Chain(e, q)
  <2>1. CASE q = r
    <3>1. Frontier(e, r, i)
      BY <1>2, <1>3, <1>5, <1>6, StagesAssumption DEF Frontier, Pos
    <3>2. QED
      BY <3>1, <2>1, <1>2, <1>5, <1>6 DEF Chain
  <2>2. CASE q # r
    <3>1. d.len[q] \in 0..MaxStages
      BY <1>1 DEF Database
    <3>2. QED
      BY <1>1, <1>5, <1>6, <2>2, <3>1, ChainCopy
  <2>3. QED
    BY <2>1, <2>2
<1>9. QED
  BY <1>4, <1>7, <1>8 DEF Good, e

(* No lease that has ended in d is changed in e.                            *)
Settles(d, e) ==
  \A r \in Runs, i \in Pos, l \in Leases :
    d.outcome[r][i][l] \notin {"none", "open"} => e.outcome[r][i][l] = d.outcome[r][i][l]

(* Every stage running in e runs in d already, at the same node.            *)
Holders(d, e) ==
  \A r \in Runs, i \in Pos :
    e.status[r][i] = "running" =>
      d.status[r][i] = "running" /\ e.node[r][i] = d.node[r][i]

(* A lease that ended is not running, so the sweep does not reach it.       *)
LEMMA SweepRelates ==
  ASSUME NEW d, Good(d)
  PROVE  Settles(d, Sweep(d)) /\ Holders(d, Sweep(d))
<1> DEFINE e == Sweep(d)
<1>1. d \in Database /\ \A r \in Runs, i \in Pos : Ledger(d, r, i)
  BY DEF Good
<1>2. ASSUME NEW r \in Runs, NEW i \in Pos, NEW l \in Leases,
             d.outcome[r][i][l] \notin {"none", "open"}
      PROVE  e.outcome[r][i][l] = d.outcome[r][i][l]
  <2>1. ~(Expired(d, r, i) /\ d.attempt[r][i] = l)
    BY <1>1, <1>2 DEF Ledger, Expired
  <2>2. QED
    BY <1>1, <2>1, SweepColumns
<1>3. ASSUME NEW r \in Runs, NEW i \in Pos, e.status[r][i] = "running"
      PROVE  d.status[r][i] = "running" /\ e.node[r][i] = d.node[r][i]
  <2>1. ~Expired(d, r, i)
    BY <1>1, <1>3, SweepColumns
  <2>2. QED
    BY <1>1, <1>3, <2>1, SweepColumns
<1>4. QED
  BY <1>2, <1>3 DEF Settles, Holders

(* A cancellation changes only the open lease of a running stage.           *)
LEMMA CancelRelates ==
  ASSUME NEW d, Good(d), NEW R
  PROVE  Settles(d, CancelRuns(d, R)) /\ Holders(d, CancelRuns(d, R))
<1> DEFINE e == CancelRuns(d, R)
           hit(r, i) == r \in R /\ d.run[r] \in OpenRun /\ d.status[r][i] \in OpenStage
<1>1. d \in Database /\ \A r \in Runs, i \in Pos : Ledger(d, r, i)
  BY DEF Good
<1>2. ASSUME NEW r \in Runs, NEW i \in Pos, NEW l \in Leases,
             d.outcome[r][i][l] \notin {"none", "open"}
      PROVE  e.outcome[r][i][l] = d.outcome[r][i][l]
  <2>1. ~(d.status[r][i] = "running" /\ d.attempt[r][i] = l)
    BY <1>1, <1>2 DEF Ledger
  <2>2. e.outcome[r][i][l] =
          IF hit(r, i) /\ d.status[r][i] = "running" /\ d.attempt[r][i] = l
            THEN "cancelled" ELSE d.outcome[r][i][l]
    BY <1>1, CancelColumns
  <2>3. QED
    BY <2>1, <2>2
<1>3. ASSUME NEW r \in Runs, NEW i \in Pos, e.status[r][i] = "running"
      PROVE  d.status[r][i] = "running" /\ e.node[r][i] = d.node[r][i]
  <2>1. /\ e.status[r][i] = IF hit(r, i) THEN "cancelled" ELSE d.status[r][i]
        /\ e.node[r][i] = IF hit(r, i) THEN NoNode ELSE d.node[r][i]
    BY <1>1, CancelColumns
  <2>2. QED
    BY <1>3, <2>1
<1>4. QED
  BY <1>2, <1>3 DEF Settles, Holders

(* Closing calls changes no lease and no stage.                             *)
LEMMA CloseRelates ==
  ASSUME NEW d, Good(d), NEW W
  PROVE  Settles(d, CloseCalls(d, W)) /\ Holders(d, CloseCalls(d, W))
BY DEF Good, Settles, Holders, CloseCalls, Database

(* A grant opens the lease after the last one, and starts one stage.        *)
LEMMA GrantedRelates ==
  ASSUME NEW d, Good(d), NEW n \in Nodes, NEW r \in Runs, NEW i \in Pos
  PROVE  /\ Settles(d, Granted(d, n, r, i))
         /\ \A q \in Runs, j \in Pos :
              Granted(d, n, r, i).status[q][j] = "running" =>
                \/ Granted(d, n, r, i).node[q][j] = n
                \/ /\ d.status[q][j] = "running"
                   /\ Granted(d, n, r, i).node[q][j] = d.node[q][j]
<1> DEFINE e == Granted(d, n, r, i)
<1>1. /\ d \in Database /\ \A q \in Runs, j \in Pos : Ledger(d, q, j)
      /\ d.attempt[r][i] \in 0..MaxAttempts
  BY DEF Good, Database, PerStage
<1>2. ASSUME NEW q \in Runs, NEW j \in Pos, NEW l \in Leases,
             d.outcome[q][j][l] \notin {"none", "open"}
      PROVE  e.outcome[q][j][l] = d.outcome[q][j][l]
  <2>1. CASE q = r /\ j = i
    <3>1. l # d.attempt[r][i] + 1
      <4>1. l > d.attempt[r][i] => d.outcome[r][i][l] = "none"
        BY <1>1 DEF Ledger
      <4>2. QED
        BY <1>1, <1>2, <2>1, <4>1
    <3>2. QED
      BY <1>1, <2>1, <3>1, GrantedColumns
  <2>2. CASE q # r \/ j # i
    BY <1>1, <2>2, GrantedColumns
  <2>3. QED
    BY <2>1, <2>2
<1>3. ASSUME NEW q \in Runs, NEW j \in Pos, e.status[q][j] = "running"
      PROVE  \/ e.node[q][j] = n
             \/ d.status[q][j] = "running" /\ e.node[q][j] = d.node[q][j]
  BY <1>1, <1>3, GrantedColumns
<1>4. QED
  BY <1>2, <1>3 DEF Settles

(* A completion settles the one open lease of its stage.                    *)
LEMMA CompletedRelates ==
  ASSUME NEW d, Good(d), NEW r \in Runs, NEW i \in Pos, NEW l \in Leases,
         d.status[r][i] = "running", d.attempt[r][i] = l
  PROVE  Settles(d, Completed(d, r, i, l)) /\ Holders(d, Completed(d, r, i, l))
<1> DEFINE e == Completed(d, r, i, l)
<1>1. d \in Database /\ Ledger(d, r, i)
  BY DEF Good
<1>2. d.outcome[r][i][l] = "open"
  BY <1>1 DEF Ledger
<1>3. ASSUME NEW q \in Runs, NEW j \in Pos, NEW m \in Leases,
             d.outcome[q][j][m] \notin {"none", "open"}
      PROVE  e.outcome[q][j][m] = d.outcome[q][j][m]
  <2>1. CASE q = r /\ j = i
    BY <1>1, <1>2, <1>3, <2>1, CompletedColumns
  <2>2. CASE q # r \/ j # i
    BY <1>1, <2>2, CompletedColumns
  <2>3. QED
    BY <2>1, <2>2
<1>4. ASSUME NEW q \in Runs, NEW j \in Pos, e.status[q][j] = "running"
      PROVE  d.status[q][j] = "running" /\ e.node[q][j] = d.node[q][j]
  <2>1. e.node = d.node
    BY <1>1, CompletedColumns
  <2>2. CASE q = r
    BY <1>1, <1>4, <2>1, <2>2, CompletedColumns
  <2>3. CASE q # r
    BY <1>1, <1>4, <2>1, <2>3, CompletedColumns
  <2>4. QED
    BY <2>2, <2>3
<1>5. QED
  BY <1>3, <1>4 DEF Settles, Holders

(* A failure settles the one open lease of its stage.                       *)
LEMMA FailedRelates ==
  ASSUME NEW d, Good(d), NEW r \in Runs, NEW i \in Pos, NEW l \in Leases,
         d.status[r][i] = "running", d.attempt[r][i] = l
  PROVE  Settles(d, Failed(d, r, i, l)) /\ Holders(d, Failed(d, r, i, l))
<1> DEFINE e == Failed(d, r, i, l)
<1>1. d \in Database /\ Ledger(d, r, i)
  BY DEF Good
<1>2. d.outcome[r][i][l] = "open"
  BY <1>1 DEF Ledger
<1>3. ASSUME NEW q \in Runs, NEW j \in Pos, NEW m \in Leases,
             d.outcome[q][j][m] \notin {"none", "open"}
      PROVE  e.outcome[q][j][m] = d.outcome[q][j][m]
  <2>1. CASE q = r /\ j = i
    BY <1>1, <1>2, <1>3, <2>1, FailedColumns
  <2>2. CASE q # r \/ j # i
    BY <1>1, <2>2, FailedColumns
  <2>3. QED
    BY <2>1, <2>2
<1>4. ASSUME NEW q \in Runs, NEW j \in Pos, e.status[q][j] = "running"
      PROVE  d.status[q][j] = "running" /\ e.node[q][j] = d.node[q][j]
  <2>1. q # r \/ j # i
    BY <1>1, <1>4, FailedColumns
  <2>2. QED
    BY <1>1, <1>4, <2>1, FailedColumns
<1>5. QED
  BY <1>3, <1>4 DEF Settles, Holders

(* A decision touches no lease and starts no stage.                         *)
LEMMA DecidedRelates ==
  ASSUME NEW d, Good(d), NEW r \in Runs, NEW i \in Pos, NEW approve
  PROVE  Settles(d, Decided(d, r, i, approve)) /\ Holders(d, Decided(d, r, i, approve))
<1> DEFINE e == Decided(d, r, i, approve)
<1>1. d \in Database
  BY DEF Good
<1>2. e.outcome = d.outcome /\ e.node = d.node
  BY <1>1 DEF Decided, Database
<1>3. ASSUME NEW q \in Runs, NEW j \in Pos, e.status[q][j] = "running"
      PROVE  d.status[q][j] = "running"
  BY <1>1, <1>3 DEF Decided, Database, PerStage
<1>4. QED
  BY <1>2, <1>3 DEF Settles, Holders

(* Both relations compose.                                                  *)
LEMMA RelatesChain ==
  ASSUME NEW c, NEW d, NEW e,
         Settles(c, d), Holders(c, d), Settles(d, e), Holders(d, e)
  PROVE  Settles(c, e) /\ Holders(c, e)
BY DEF Settles, Holders

(* What every step but a grant does to the database: it keeps Good, settles *)
(* no lease twice and starts no stage.                                      *)
Follows(d, e) == Good(e) /\ Settles(d, e) /\ Holders(d, e)

(* Following composes.                                                      *)
LEMMA FollowsChain ==
  ASSUME NEW c, NEW d, NEW e, Follows(c, d), Follows(d, e)
  PROVE  Follows(c, e)
BY RelatesChain DEF Follows

(* Each of the four ways a handler changes a database it has just read      *)
(* leaves a database that follows it.                                       *)
LEMMA Passes ==
  ASSUME NEW d, Good(d)
  PROVE  /\ Follows(d, Sweep(d))
         /\ \A R : Follows(d, CancelRuns(d, R))
         /\ Follows(d, Enforce(d))
         /\ \A W : Follows(d, CloseCalls(d, W))
<1>1. Follows(d, Sweep(d))
  BY SweepGood, SweepRelates DEF Follows
<1>2. ASSUME NEW R
      PROVE  Follows(d, CancelRuns(d, R))
  BY CancelGood, CancelRelates DEF Follows
<1>3. ASSUME NEW W
      PROVE  Follows(d, CloseCalls(d, W))
  BY CloseGood, CloseRelates DEF Follows
<1>4. QED
  BY <1>1, <1>2, <1>3 DEF Enforce

(* Renewing a lease, sending a call, settling it and letting time pass      *)
(* touch nothing but ttl, executing, settled and effect.                    *)
LEMMA TouchedFollows ==
  ASSUME NEW d, Good(d), NEW e \in Database,
         /\ e.run = d.run /\ e.len = d.len /\ e.gated = d.gated
         /\ e.status = d.status /\ e.node = d.node
         /\ e.attempt = d.attempt /\ e.outcome = d.outcome,
         \A r \in Runs, i \in Pos : d.status[r][i] # "running" =>
           ~e.executing[r][i] /\ ~e.settled[r][i] /\ e.ttl[r][i] = -1
  PROVE  Follows(d, e)
<1>1. Good(e)
  BY TouchedGood
<1>2. Settles(d, e) /\ Holders(d, e)
  BY DEF Settles, Holders
<1>3. QED
  BY <1>1, <1>2 DEF Follows

(* createRun: the new run is its own frontier, at its first stage.          *)
LEMMA CreateFollows ==
  ASSUME Good(db), NEW r \in Runs, NEW n \in Pos, NEW gate \in BOOLEAN,
         CreateRun(r, n, gate)
  PROVE  Follows(db, db')
<1> DEFINE first == IF gate /\ n = 1 THEN "waiting_approval" ELSE "queued"
<1>1. /\ db \in Database /\ \A q \in Runs : Chain(db, q)
      /\ \A q \in Runs, j \in Pos : Ledger(db, q, j)
  BY DEF Good
<1>2. /\ db.run[r] = "absent"
      /\ db' = [db EXCEPT !.run[r]    = first,
                          !.len[r]    = n,
                          !.gated[r]  = gate,
                          !.status[r] = [i \in Pos |->
                             IF i > n THEN "absent"
                             ELSE IF i = 1 THEN first ELSE "pending"]]
  BY DEF CreateRun
<1>3. \A j \in Pos : db.status[r][j] = "absent"
  BY <1>1, <1>2 DEF Chain
<1>4. n \in 0..MaxStages /\ 1 \in 1..n /\ 1 \in Pos
  BY StagesAssumption DEF Pos
<1>5. /\ db'.node = db.node /\ db'.ttl = db.ttl /\ db'.attempt = db.attempt
      /\ db'.executing = db.executing /\ db'.settled = db.settled
      /\ db'.outcome = db.outcome /\ db'.effect = db.effect
      /\ db'.run[r] = first /\ db'.len[r] = n /\ db'.gated[r] = gate
      /\ \A q \in Runs : q # r => /\ db'.run[q] = db.run[q] /\ db'.len[q] = db.len[q]
                                  /\ db'.gated[q] = db.gated[q]
                                  /\ db'.status[q] = db.status[q]
      /\ \A j \in Pos : db'.status[r][j] =
           IF j > n THEN "absent" ELSE IF j = 1 THEN first ELSE "pending"
  BY <1>1, <1>2 DEF Database, PerStage
<1>6. db' \in Database
  <2>1. db'.run \in [Runs -> RunStatus]
    BY <1>1, <1>2 DEF Database, RunStatus, OpenRun
  <2>2. db'.len \in [Runs -> 0..MaxStages] /\ db'.gated \in [Runs -> BOOLEAN]
    BY <1>1, <1>2, <1>4 DEF Database
  <2>3. db'.status \in PerStage(StageStatus)
    BY <1>1, <1>2 DEF Database, PerStage, StageStatus, OpenStage
  <2>4. QED
    BY <1>1, <1>2, <2>1, <2>2, <2>3 DEF Database
<1>7. ASSUME NEW q \in Runs, NEW j \in Pos
      PROVE  Ledger(db', q, j)
  <2>1. CASE q = r
    <3>1. /\ Ledger(db, r, j)
          /\ db.status[r][j] = "absent"
          /\ db'.status[r][j] \in {"absent", "pending", "queued", "waiting_approval"}
      BY <1>1, <1>3, <1>5
    <3>2. db.attempt[r][j] = 0 /\ MaxAttempts > 0
      BY <3>1, AttemptsAssumption DEF Ledger
    <3>3. db'.outcome[r][j] = db.outcome[r][j] /\ db'.attempt[r][j] = db.attempt[r][j]
      BY <1>5
    <3>4. ~db'.executing[r][j] /\ ~db'.settled[r][j] /\ db'.ttl[r][j] = -1
      BY <3>1, <1>5, LedgerIdle
    <3>5. Last(db', r, j)
      BY <3>1, <3>2, <3>3, <3>4 DEF Last
    <3>6. db.attempt[r][j] \in 0..MaxAttempts
      BY <3>2, AttemptsAssumption
    <3>7. QED
      BY <2>1, <3>1, <3>3, <3>5, <3>6, LedgerLast
  <2>2. CASE q # r
    BY <1>1, <1>5, <2>2, LedgerCopy
  <2>3. QED
    BY <2>1, <2>2
<1>8. ASSUME NEW q \in Runs
      PROVE  Chain(db', q)
  <2>1. CASE q = r
    <3>1. Frontier(db', r, 1)
      <4>1. db'.status[r][1] = first /\ db'.run[r] = first /\ db'.len[r] = n
        BY <1>4, <1>5
      <4>2. first = "waiting_approval" => 1 = n /\ db'.gated[r]
        BY <1>5
      <4>3. \A j \in 2..n : j \in Pos /\ db'.status[r][j] = "pending"
        BY <1>5, StagesAssumption DEF Pos
      <4>4. \A j \in Pos : j > n => db'.status[r][j] = "absent"
        BY <1>5
      <4>5. first \in {"queued", "waiting_approval"}
        OBVIOUS
      <4>6. QED
        BY <4>1, <4>2, <4>3, <4>4, <4>5 DEF Frontier
    <3>2. db'.run[r] # "absent"
      BY <1>5
    <3>3. QED
      BY <1>4, <1>5, <2>1, <3>1, <3>2 DEF Chain
  <2>2. CASE q # r
    <3>1. db.len[q] \in 0..MaxStages
      BY <1>1 DEF Database
    <3>2. QED
      BY <1>1, <1>5, <2>2, <3>1, ChainCopy
  <2>3. QED
    BY <2>1, <2>2
<1>9. Settles(db, db') /\ Holders(db, db')
  <2>1. Settles(db, db')
    BY <1>5 DEF Settles
  <2>2. ASSUME NEW q \in Runs, NEW j \in Pos, db'.status[q][j] = "running"
        PROVE  db.status[q][j] = "running"
    BY <1>5, <2>2
  <2>3. QED
    BY <1>5, <2>1, <2>2 DEF Holders
<1>10. QED
  BY <1>6, <1>7, <1>8, <1>9 DEF Follows, Good

(***************************************************************************)
(* One lemma per action.                                                   *)
(***************************************************************************)
(* getOverview: the calls are closed, then the leases are swept; a stage    *)
(* that waits for its approval is left waiting.                             *)
LEMMA OverviewFollows ==
  ASSUME Good(db), NEW W
  PROVE  /\ Follows(db, Overviewed(W))
         /\ \A r \in Runs, i \in Pos :
              db.status[r][i] = "waiting_approval" =>
                Overviewed(W).status[r][i] = "waiting_approval"
<1> DEFINE d == CloseCalls(db, W)
<1>1. Follows(db, d)
  BY Passes
<1>2. Good(d) /\ d \in Database
  BY <1>1 DEF Follows, Good
<1>3. d.status = db.status
  BY DEF CloseCalls, Good, Database
<1> HIDE DEF d
<1>4. Follows(d, Sweep(d))
  BY <1>2, Passes
<1>5. ASSUME NEW r \in Runs, NEW i \in Pos, db.status[r][i] = "waiting_approval"
      PROVE  Sweep(d).status[r][i] = "waiting_approval"
  <2>1. ~Expired(d, r, i)
    BY <1>3, <1>5 DEF Expired
  <2>2. QED
    BY <1>2, <1>3, <1>5, <2>1, SweepColumns
<1>6. Follows(db, Sweep(d))
  BY <1>1, <1>4, FollowsChain
<1>7. QED
  BY <1>5, <1>6 DEF Overviewed, d

(* decideApproval settles no lease and starts no stage.                     *)
LEMMA DecideFollows ==
  ASSUME Good(db), NEW r \in Runs, NEW i \in Pos, NEW approve \in BOOLEAN,
         DecideApproval(r, i, approve)
  PROVE  Follows(db, db')
<1>1. PICK W \in Overdue(db) : db' = Decided(Overviewed(W), r, i, approve)
  BY DEF DecideApproval
<1> DEFINE d == Overviewed(W)
<1>2. Follows(db, d) /\ d.status[r][i] = "waiting_approval"
  BY OverviewFollows DEF DecideApproval
<1> HIDE DEF d
<1>3. Good(d)
  BY <1>2 DEF Follows
<1>4. Follows(d, Decided(d, r, i, approve))
  BY <1>2, <1>3, DecidedGood, DecidedRelates DEF Follows
<1>5. QED
  BY <1>1, <1>2, <1>4, FollowsChain DEF d

(* renewLease, whoever asks for whatever lease.                             *)
LEMMA RenewFollows ==
  ASSUME Good(db), NEW n \in Nodes, NEW r \in Runs, NEW i \in Pos, NEW l \in Leases,
         RenewLease(n, r, i, l)
  PROVE  Follows(db, db')
<1> DEFINE d == Enforce(db)
<1>1. Follows(db, d)
  BY Passes
<1>2. db' = IF Owns(d, n, r, i, l) THEN [d EXCEPT !.ttl[r][i] = LeaseTtl] ELSE d
  BY DEF RenewLease
<1> HIDE DEF d
<1>3. Good(d) /\ d \in Database /\ \A q \in Runs, j \in Pos : Ledger(d, q, j)
  BY <1>1 DEF Follows, Good
<1>4. CASE Owns(d, n, r, i, l)
  <2> DEFINE e == [d EXCEPT !.ttl[r][i] = LeaseTtl]
  <2>1. d.status[r][i] = "running"
    BY <1>4 DEF Owns, Holds
  <2>2. e.ttl \in PerStage(-1..LeaseTtl)
    BY <1>3, TtlAssumption DEF Database, PerStage
  <2>3. e \in Database
    BY <1>3, <2>2 DEF Database
  <2>4. \A q \in Runs, j \in Pos : q # r \/ j # i => e.ttl[q][j] = d.ttl[q][j]
    BY <1>3 DEF Database, PerStage
  <2>5. /\ e.run = d.run /\ e.len = d.len /\ e.gated = d.gated
        /\ e.status = d.status /\ e.node = d.node
        /\ e.attempt = d.attempt /\ e.outcome = d.outcome
        /\ e.executing = d.executing /\ e.settled = d.settled
    BY <1>3 DEF Database
  <2> HIDE DEF e
  <2>6. \A q \in Runs, j \in Pos : d.status[q][j] # "running" =>
          ~e.executing[q][j] /\ ~e.settled[q][j] /\ e.ttl[q][j] = -1
    <3> SUFFICES ASSUME NEW q \in Runs, NEW j \in Pos, d.status[q][j] # "running"
                 PROVE  ~e.executing[q][j] /\ ~e.settled[q][j] /\ e.ttl[q][j] = -1
      OBVIOUS
    <3>1. q # r \/ j # i
      BY <2>1
    <3>2. ~d.executing[q][j] /\ ~d.settled[q][j] /\ d.ttl[q][j] = -1
      BY <1>3, LedgerIdle
    <3>3. QED
      BY <2>4, <2>5, <3>1, <3>2
  <2>7. Follows(d, e)
    BY <1>3, <2>3, <2>5, <2>6, TouchedFollows
  <2>8. QED
    BY <1>1, <1>2, <1>4, <2>7, FollowsChain DEF e
<1>5. CASE ~Owns(d, n, r, i, l)
  BY <1>1, <1>2, <1>5
<1>6. QED
  BY <1>4, <1>5

(* completeLease: whoever asks for whatever lease, only the open lease of a *)
(* running stage is settled.                                                *)
LEMMA CompleteFollows ==
  ASSUME Good(db), NEW n \in Nodes, NEW r \in Runs, NEW i \in Pos, NEW l \in Leases,
         CompleteLease(n, r, i, l)
  PROVE  Follows(db, db')
<1> DEFINE d == Enforce(db)
<1>1. Follows(db, d)
  BY Passes
<1>2. db' = IF Owns(d, n, r, i, l) /\ ~d.executing[r][i]
              THEN Completed(d, r, i, l) ELSE d
  BY DEF CompleteLease
<1> HIDE DEF d
<1>3. Good(d)
  BY <1>1 DEF Follows
<1>4. CASE Owns(d, n, r, i, l) /\ ~d.executing[r][i]
  <2>1. d.status[r][i] = "running" /\ d.attempt[r][i] = l
    BY <1>4 DEF Owns, Holds
  <2>2. Follows(d, Completed(d, r, i, l))
    BY <1>3, <2>1, CompletedGood, CompletedRelates DEF Follows
  <2>3. QED
    BY <1>1, <1>2, <1>4, <2>2, FollowsChain
<1>5. CASE ~(Owns(d, n, r, i, l) /\ ~d.executing[r][i])
  BY <1>1, <1>2, <1>5
<1>6. QED
  BY <1>4, <1>5

(* failLease.                                                               *)
LEMMA FailFollows ==
  ASSUME Good(db), NEW n \in Nodes, NEW r \in Runs, NEW i \in Pos, NEW l \in Leases,
         FailLease(n, r, i, l)
  PROVE  Follows(db, db')
<1>1. db.status[r][i] = "running" /\ db.attempt[r][i] = l
  BY DEF FailLease, Owns, Holds
<1>2. QED
  BY <1>1, FailedGood, FailedRelates DEF Follows, FailLease

(* The steps of a tool call touch two columns of a running stage.           *)
LEMMA ToolFollows ==
  ASSUME Good(db), NEW r \in Runs, NEW i \in Pos,
         \/ \E n \in Nodes, l \in Leases : BeginToolCall(n, r, i, l)
         \/ FinishToolCall(r, i) \/ RejectToolCall(r, i)
  PROVE  Follows(db, db')
<1>1. db \in Database /\ \A q \in Runs, j \in Pos : Ledger(db, q, j)
  BY DEF Good
<1>2. db.status[r][i] = "running"
  BY <1>1 DEF BeginToolCall, FinishToolCall, RejectToolCall, Holds, Ledger
<1>3. /\ db'.executing \in PerStage(BOOLEAN)
      /\ db'.settled \in PerStage(BOOLEAN)
      /\ db'.effect \in PerStage(0..MaxAttempts)
      /\ \A q \in Runs, j \in Pos : q # r \/ j # i =>
           db'.executing[q][j] = db.executing[q][j] /\ db'.settled[q][j] = db.settled[q][j]
      /\ db' = [db EXCEPT !.executing = db'.executing, !.settled = db'.settled,
                          !.effect = db'.effect]
  <2>1. CASE \E n \in Nodes, l \in Leases : BeginToolCall(n, r, i, l)
    <3>1. PICK l \in Leases :
            db' = [db EXCEPT !.executing[r][i] = TRUE,
                             !.effect[r][i]    = IF @ = 0 THEN l ELSE @]
      BY <2>1 DEF BeginToolCall
    <3>2. l \in 0..MaxAttempts
      BY AttemptsAssumption DEF Leases
    <3>3. db'.executing \in PerStage(BOOLEAN)
      BY <1>1, <3>1 DEF Database, PerStage
    <3>4. db'.effect \in PerStage(0..MaxAttempts)
      BY <1>1, <3>1, <3>2 DEF Database, PerStage
    <3>5. db'.settled = db.settled /\ db.settled \in PerStage(BOOLEAN)
      BY <1>1, <3>1 DEF Database
    <3>6. \A q \in Runs, j \in Pos : q # r \/ j # i =>
            db'.executing[q][j] = db.executing[q][j]
      BY <1>1, <3>1 DEF Database, PerStage
    <3>7. db' = [db EXCEPT !.executing = db'.executing, !.settled = db'.settled,
                           !.effect = db'.effect]
      BY <1>1, <3>1 DEF Database
    <3>8. QED
      BY <3>3, <3>4, <3>5, <3>6, <3>7
  <2>2. CASE FinishToolCall(r, i)
    <3>1. db' = [db EXCEPT !.executing[r][i] = FALSE, !.settled[r][i] = TRUE]
      BY <2>2 DEF FinishToolCall
    <3>2. db'.executing \in PerStage(BOOLEAN)
      BY <1>1, <3>1 DEF Database, PerStage
    <3>3. db'.settled \in PerStage(BOOLEAN)
      BY <1>1, <3>1 DEF Database, PerStage
    <3>4. db'.effect = db.effect /\ db.effect \in PerStage(0..MaxAttempts)
      BY <1>1, <3>1 DEF Database
    <3>5. \A q \in Runs, j \in Pos : q # r \/ j # i =>
            db'.executing[q][j] = db.executing[q][j] /\ db'.settled[q][j] = db.settled[q][j]
      BY <1>1, <3>1 DEF Database, PerStage
    <3>6. db' = [db EXCEPT !.executing = db'.executing, !.settled = db'.settled,
                           !.effect = db'.effect]
      BY <1>1, <3>1 DEF Database
    <3>7. QED
      BY <3>2, <3>3, <3>4, <3>5, <3>6
  <2>3. CASE RejectToolCall(r, i)
    <3>1. db' = [db EXCEPT !.executing[r][i] = FALSE,
                           !.effect[r][i]    = IF db.settled[r][i] THEN @ ELSE 0]
      BY <2>3 DEF RejectToolCall
    <3>2. db'.executing \in PerStage(BOOLEAN)
      BY <1>1, <3>1 DEF Database, PerStage
    <3>3. db'.settled = db.settled /\ db.settled \in PerStage(BOOLEAN)
      BY <1>1, <3>1 DEF Database
    <3>4. db'.effect \in PerStage(0..MaxAttempts)
      BY <1>1, <3>1, AttemptsAssumption DEF Database, PerStage
    <3>5. \A q \in Runs, j \in Pos : q # r \/ j # i =>
            db'.executing[q][j] = db.executing[q][j] /\ db'.settled[q][j] = db.settled[q][j]
      BY <1>1, <3>1 DEF Database, PerStage
    <3>6. db' = [db EXCEPT !.executing = db'.executing, !.settled = db'.settled,
                           !.effect = db'.effect]
      BY <1>1, <3>1 DEF Database
    <3>7. QED
      BY <3>2, <3>3, <3>4, <3>5, <3>6
  <2>4. QED
    BY <2>1, <2>2, <2>3
<1>4. db' \in Database
  BY <1>1, <1>3 DEF Database
<1>5. /\ db'.run = db.run /\ db'.len = db.len /\ db'.gated = db.gated
      /\ db'.status = db.status /\ db'.node = db.node
      /\ db'.attempt = db.attempt /\ db'.outcome = db.outcome /\ db'.ttl = db.ttl
  BY <1>1, <1>3 DEF Database
<1>6. \A q \in Runs, j \in Pos : db.status[q][j] # "running" =>
        ~db'.executing[q][j] /\ ~db'.settled[q][j] /\ db'.ttl[q][j] = -1
  <2> SUFFICES ASSUME NEW q \in Runs, NEW j \in Pos, db.status[q][j] # "running"
               PROVE  ~db'.executing[q][j] /\ ~db'.settled[q][j] /\ db'.ttl[q][j] = -1
    OBVIOUS
  <2>1. q # r \/ j # i
    BY <1>2
  <2>2. ~db.executing[q][j] /\ ~db.settled[q][j] /\ db.ttl[q][j] = -1
    BY <1>1, LedgerIdle
  <2>3. QED
    BY <1>3, <1>5, <2>1, <2>2
<1>7. QED
  BY <1>4, <1>5, <1>6, TouchedFollows

(* Time passes for the leases of running stages only.                       *)
LEMMA TickFollows ==
  ASSUME Good(db), Tick
  PROVE  Follows(db, db')
<1>1. db \in Database /\ \A q \in Runs, j \in Pos : Ledger(db, q, j)
  BY DEF Good
<1>2. db' = [db EXCEPT !.ttl = [r \in Runs |-> [i \in Pos |->
               IF db.ttl[r][i] > -1 THEN db.ttl[r][i] - 1 ELSE -1]]]
  BY DEF Tick
<1>3. \A q \in Runs, j \in Pos :
        /\ db.ttl[q][j] \in -1..LeaseTtl
        /\ db'.ttl[q][j] = IF db.ttl[q][j] > -1 THEN db.ttl[q][j] - 1 ELSE -1
  BY <1>1, <1>2 DEF Database, PerStage
<1>4. db'.ttl \in PerStage(-1..LeaseTtl)
  <2>1. \A q \in Runs, j \in Pos :
          (IF db.ttl[q][j] > -1 THEN db.ttl[q][j] - 1 ELSE -1) \in -1..LeaseTtl
    BY <1>3, TtlAssumption
  <2>2. db'.ttl = [r \in Runs |-> [i \in Pos |->
               IF db.ttl[r][i] > -1 THEN db.ttl[r][i] - 1 ELSE -1]]
    BY <1>1, <1>2 DEF Database
  <2>3. QED
    BY <2>1, <2>2 DEF PerStage
<1>5. db' \in Database
  BY <1>1, <1>2, <1>4 DEF Database
<1>6. /\ db'.run = db.run /\ db'.len = db.len /\ db'.gated = db.gated
      /\ db'.status = db.status /\ db'.node = db.node
      /\ db'.attempt = db.attempt /\ db'.outcome = db.outcome
      /\ db'.executing = db.executing /\ db'.settled = db.settled
  BY <1>1, <1>2 DEF Database
<1>7. \A q \in Runs, j \in Pos : db.status[q][j] # "running" =>
        ~db'.executing[q][j] /\ ~db'.settled[q][j] /\ db'.ttl[q][j] = -1
  <2> SUFFICES ASSUME NEW q \in Runs, NEW j \in Pos, db.status[q][j] # "running"
               PROVE  ~db'.executing[q][j] /\ ~db'.settled[q][j] /\ db'.ttl[q][j] = -1
    OBVIOUS
  <2>1. ~db.executing[q][j] /\ ~db.settled[q][j] /\ db.ttl[q][j] = -1
    BY <1>1, LedgerIdle
  <2>2. QED
    BY <1>3, <1>6, <2>1
<1>8. QED
  BY <1>5, <1>6, <1>7, TouchedFollows

(* A wipe expires the leases of the node, and the sweep then takes them all *)
(* away: nothing is left running there.                                     *)
LEMMA WipeFollows ==
  ASSUME Good(db), NEW n \in EdgeNodes, WipeEdge(n)
  PROVE  /\ Follows(db, db')
         /\ \A r \in Runs, i \in Pos : db'.status[r][i] = "running" => db'.node[r][i] # n
<1> DEFINE late(r, i) == db.status[r][i] = "running" /\ db.node[r][i] = n
           d == [db EXCEPT !.ttl = [r \in Runs |-> [i \in Pos |->
                   IF late(r, i) THEN -1 ELSE db.ttl[r][i]]]]
<1>1. db \in Database /\ \A q \in Runs, j \in Pos : Ledger(db, q, j)
  BY DEF Good
<1>2. db' = Sweep(d)
  BY DEF WipeEdge
<1>3. \A q \in Runs, j \in Pos : d.ttl[q][j] = IF late(q, j) THEN -1 ELSE db.ttl[q][j]
  BY <1>1 DEF Database, PerStage
<1>4. d.ttl \in PerStage(-1..LeaseTtl)
  BY <1>1, TtlAssumption DEF Database, PerStage
<1>5. d \in Database
  BY <1>1, <1>4 DEF Database
<1>6. /\ d.run = db.run /\ d.len = db.len /\ d.gated = db.gated
      /\ d.status = db.status /\ d.node = db.node
      /\ d.attempt = db.attempt /\ d.outcome = db.outcome
      /\ d.executing = db.executing /\ d.settled = db.settled
  BY <1>1 DEF Database
<1> HIDE DEF d
<1>7. \A q \in Runs, j \in Pos : db.status[q][j] # "running" =>
        ~d.executing[q][j] /\ ~d.settled[q][j] /\ d.ttl[q][j] = -1
  <2> SUFFICES ASSUME NEW q \in Runs, NEW j \in Pos, db.status[q][j] # "running"
               PROVE  ~d.executing[q][j] /\ ~d.settled[q][j] /\ d.ttl[q][j] = -1
    OBVIOUS
  <2>1. ~db.executing[q][j] /\ ~db.settled[q][j] /\ db.ttl[q][j] = -1
    BY <1>1, LedgerIdle
  <2>2. QED
    BY <1>3, <1>6, <2>1
<1>8. Follows(db, d)
  BY <1>5, <1>6, <1>7, TouchedFollows
<1>9. Follows(d, Sweep(d))
  BY <1>8, Passes DEF Follows
<1>10. ASSUME NEW r \in Runs, NEW i \in Pos, db'.status[r][i] = "running"
       PROVE  db'.node[r][i] # n
  <2>1. ~Expired(d, r, i) /\ db'.status[r][i] = d.status[r][i] /\ db'.node[r][i] = d.node[r][i]
    BY <1>2, <1>5, <1>10, SweepColumns
  <2>2. ~late(r, i)
    BY <1>3, <1>6, <2>1 DEF Expired
  <2>3. QED
    BY <1>6, <1>10, <2>1, <2>2
<1>11. QED
  BY <1>2, <1>8, <1>9, <1>10, FollowsChain

(* leaseNext starts one stage, at the node that asked, which is not wiped.  *)
LEMMA GrantFollows ==
  ASSUME Good(db), NEW n \in Nodes, LeaseGranted(n)
  PROVE  /\ Good(db') /\ Settles(db, db')
         /\ n \notin wiped
         /\ \A r \in Runs, i \in Pos : db'.status[r][i] = "running" =>
              \/ db'.node[r][i] = n
              \/ db.status[r][i] = "running" /\ db'.node[r][i] = db.node[r][i]
<1> DEFINE d == Sweep(Enforce(db))
<1>1. Follows(db, d)
  <2>1. Follows(db, Enforce(db))
    BY Passes
  <2>2. Follows(Enforce(db), Sweep(Enforce(db)))
    BY <2>1, Passes DEF Follows
  <2>3. QED
    BY <2>1, <2>2, FollowsChain
<1>2. /\ MayLease(d, n)
      /\ \E r \in Runs, i \in Pos : Candidate(d, r, i) /\ db' = Granted(d, n, r, i)
  BY DEF LeaseGranted
<1> HIDE DEF d
<1>3. PICK r \in Runs, i \in Pos : Candidate(d, r, i) /\ db' = Granted(d, n, r, i)
  BY <1>2
<1>4. Good(d) /\ Settles(db, d) /\ Holders(db, d)
  BY <1>1 DEF Follows
<1>5. Good(db')
  BY <1>3, <1>4, GrantedGood
<1>6. /\ Settles(d, db')
      /\ \A q \in Runs, j \in Pos : db'.status[q][j] = "running" =>
           \/ db'.node[q][j] = n
           \/ d.status[q][j] = "running" /\ db'.node[q][j] = d.node[q][j]
  BY <1>3, <1>4, GrantedRelates
<1>7. Settles(db, db')
  BY <1>4, <1>6 DEF Settles
<1>8. n \notin wiped
  BY <1>2 DEF MayLease
<1>9. QED
  BY <1>4, <1>5, <1>6, <1>7, <1>8 DEF Holders

(* The timer's pass, and a poll that finds nothing to lease.                *)
LEMMA PassFollows ==
  ASSUME Good(db), MaintenanceTick \/ NothingToLease
  PROVE  Follows(db, db')
<1> DEFINE c == Enforce(db)
           d == Sweep(c)
<1>1. Follows(db, c)
  BY Passes
<1>2. Follows(c, d)
  BY <1>1, Passes DEF Follows
<1>3. Follows(db, d)
  BY <1>1, <1>2, FollowsChain
<1>4. \A W : Follows(db, CloseCalls(d, W))
  <2>1. Good(d)
    BY <1>3 DEF Follows
  <2>2. \A W : Follows(d, CloseCalls(d, W))
    BY <2>1, Passes
  <2>3. QED
    BY <1>3, <2>2, FollowsChain
<1>5. db' = d \/ \E W : db' = CloseCalls(d, W)
  BY DEF MaintenanceTick, NothingToLease
<1>6. QED
  BY <1>3, <1>4, <1>5

(***************************************************************************)
(* The inductive invariant.  ChainOrder alone is not inductive: that a     *)
(* completion finds a stage still waiting behind it, or that a sweep finds *)
(* one expired stage and not two, follows from Frontier, and that a grant  *)
(* has an attempt to count follows from Ledger.                            *)
(***************************************************************************)
IInv == Good(db) /\ TypeOK /\ WipedHoldsNothing

(* The empty database satisfies the invariant.                              *)
LEMMA InitIInv == Init => IInv
<1> SUFFICES ASSUME Init
             PROVE  IInv
  OBVIOUS
<1>1. db \in Database
  BY TtlAssumption, AttemptsAssumption, StagesAssumption
     DEF Init, Database, PerStage, Everywhere, RunStatus, StageStatus, Outcome
<1>2. \A r \in Runs : Chain(db, r)
  BY DEF Init, Chain, Everywhere
<1>3. \A r \in Runs, i \in Pos : Ledger(db, r, i)
  BY AttemptsAssumption DEF Init, Ledger, Everywhere, Leases
<1>4. TypeOK
  BY <1>1, SchedulerAssumption DEF Init, TypeOK
<1>5. WipedHoldsNothing
  BY DEF Init, WipedHoldsNothing
<1>6. QED
  BY <1>1, <1>2, <1>3, <1>4, <1>5 DEF IInv, Good

(* A step that follows the database, or leaves it, keeps the invariant when *)
(* it changes nothing else in a way that matters.                           *)
LEMMA FollowsIInv ==
  ASSUME IInv, Follows(db, db') \/ db' = db,
         revoked' \subseteq Runs, wiped' = wiped,
         sched' \in [mode : Modes, max : GlobalCaps]
  PROVE  IInv' /\ Settles(db, db')
<1>1. Good(db') /\ Settles(db, db') /\ Holders(db, db')
  BY DEF IInv, Follows, Settles, Holders
<1>2. TypeOK'
  BY <1>1 DEF IInv, TypeOK, Good
<1>3. WipedHoldsNothing'
  BY <1>1 DEF IInv, WipedHoldsNothing, Holders
<1>4. QED
  BY <1>1, <1>2, <1>3 DEF IInv

(* Every step keeps the invariant and settles no lease twice.               *)
LEMMA NextIInv ==
  ASSUME IInv, [Next]_vars
  PROVE  IInv' /\ Settles(db, db')
<1>1. Good(db) /\ TypeOK
  BY DEF IInv
<1>2. revoked \subseteq Runs /\ wiped \subseteq EdgeNodes /\ EdgeNodes \subseteq Nodes
      /\ sched \in [mode : Modes, max : GlobalCaps]
  BY <1>1, NodesAssumption DEF TypeOK
<1>3. CASE UNCHANGED vars
  BY <1>2, <1>3, FollowsIInv DEF vars
<1>4. ASSUME NEW r \in Runs, NEW n \in Pos, NEW gate \in BOOLEAN, CreateRun(r, n, gate)
      PROVE  IInv' /\ Settles(db, db')
  <2>1. UNCHANGED <<revoked, wiped, sched>>
    BY <1>4 DEF CreateRun
  <2>2. QED
    BY <1>1, <1>2, <1>4, <2>1, CreateFollows, FollowsIInv
<1>5. ASSUME NEW r \in Runs, CancelRun(r)
      PROVE  IInv' /\ Settles(db, db')
  <2>1. db' = CancelRuns(db, {r}) /\ UNCHANGED <<revoked, wiped, sched>>
    BY <1>5 DEF CancelRun
  <2>2. Follows(db, db')
    BY <1>1, <2>1, Passes
  <2>3. QED
    BY <1>2, <2>1, <2>2, FollowsIInv
<1>6. ASSUME NEW r \in Runs, ChangeIdentity(r)
      PROVE  IInv' /\ Settles(db, db')
  <2>1. db' = db /\ wiped' = wiped /\ sched' = sched /\ revoked' \subseteq Runs
    BY <1>2, <1>6 DEF ChangeIdentity
  <2>2. QED
    BY <1>2, <2>1, FollowsIInv
<1>7. ASSUME NEW r \in Runs, NEW i \in Pos,
             \/ \E n \in Nodes, l \in Leases : BeginToolCall(n, r, i, l)
             \/ FinishToolCall(r, i) \/ RejectToolCall(r, i)
      PROVE  IInv' /\ Settles(db, db')
  <2>1. UNCHANGED <<revoked, wiped, sched>>
    BY <1>7 DEF BeginToolCall, FinishToolCall, RejectToolCall
  <2>2. Follows(db, db')
    BY <1>1, <1>7, ToolFollows
  <2>3. QED
    BY <1>2, <2>1, <2>2, FollowsIInv
<1>8. ASSUME NEW r \in Runs, NEW i \in Pos, NEW approve \in BOOLEAN,
             DecideApproval(r, i, approve)
      PROVE  IInv' /\ Settles(db, db')
  <2>1. UNCHANGED <<revoked, wiped, sched>>
    BY <1>8 DEF DecideApproval
  <2>2. QED
    BY <1>1, <1>2, <1>8, <2>1, DecideFollows, FollowsIInv
<1>9. ASSUME NEW r \in Runs, NEW i \in Pos, NEW n \in Nodes, NEW l \in Leases,
             RenewLease(n, r, i, l) \/ CompleteLease(n, r, i, l) \/ FailLease(n, r, i, l)
      PROVE  IInv' /\ Settles(db, db')
  <2>1. UNCHANGED <<revoked, wiped, sched>>
    BY <1>9 DEF RenewLease, CompleteLease, FailLease
  <2>2. Follows(db, db')
    BY <1>1, <1>9, RenewFollows, CompleteFollows, FailFollows
  <2>3. QED
    BY <1>2, <2>1, <2>2, FollowsIInv
<1>10. ASSUME NEW n \in Nodes, LeaseGranted(n)
       PROVE  IInv' /\ Settles(db, db')
  <2>1. UNCHANGED <<revoked, wiped, sched>>
    BY <1>10 DEF LeaseGranted
  <2>2. /\ Good(db') /\ Settles(db, db')
        /\ n \notin wiped
        /\ \A r \in Runs, i \in Pos : db'.status[r][i] = "running" =>
             \/ db'.node[r][i] = n
             \/ db.status[r][i] = "running" /\ db'.node[r][i] = db.node[r][i]
    BY <1>1, <1>10, GrantFollows
  <2>3. WipedHoldsNothing'
    BY <2>1, <2>2 DEF IInv, WipedHoldsNothing
  <2>4. TypeOK'
    BY <1>2, <2>1, <2>2 DEF TypeOK, Good
  <2>5. QED
    BY <2>2, <2>3, <2>4 DEF IInv
<1>11. ASSUME NothingToLease \/ MaintenanceTick
       PROVE  IInv' /\ Settles(db, db')
  <2>1. UNCHANGED <<revoked, wiped, sched>>
    BY <1>11 DEF NothingToLease, MaintenanceTick
  <2>2. QED
    BY <1>1, <1>2, <1>11, <2>1, PassFollows, FollowsIInv
<1>12. ASSUME NEW n \in EdgeNodes, WipeEdge(n)
       PROVE  IInv' /\ Settles(db, db')
  <2>1. wiped' = wiped \cup {n} /\ UNCHANGED <<revoked, sched>>
    BY <1>12 DEF WipeEdge
  <2>2. /\ Good(db') /\ Settles(db, db') /\ Holders(db, db')
        /\ \A r \in Runs, i \in Pos : db'.status[r][i] = "running" => db'.node[r][i] # n
    BY <1>1, <1>12, WipeFollows DEF Follows
  <2>3. WipedHoldsNothing'
    BY <2>1, <2>2 DEF IInv, WipedHoldsNothing, Holders
  <2>4. TypeOK'
    BY <1>2, <2>1, <2>2 DEF TypeOK, Good
  <2>5. QED
    BY <2>2, <2>3, <2>4 DEF IInv
<1>13. ASSUME NEW m \in Modes, NEW max \in GlobalCaps, UpdateScheduler(m, max)
       PROVE  IInv' /\ Settles(db, db')
  <2>1. db' = db /\ revoked' = revoked /\ wiped' = wiped
        /\ sched' \in [mode : Modes, max : GlobalCaps]
    BY <1>13 DEF UpdateScheduler
  <2>2. QED
    BY <1>2, <2>1, FollowsIInv
<1>14. CASE Overview
  <2>1. UNCHANGED <<revoked, wiped, sched>>
    BY <1>14 DEF Overview
  <2>2. Follows(db, db')
    BY <1>1, <1>14, OverviewFollows DEF Overview
  <2>3. QED
    BY <1>2, <2>1, <2>2, FollowsIInv
<1>15. CASE Tick
  <2>1. UNCHANGED <<revoked, wiped, sched>>
    BY <1>15 DEF Tick
  <2>2. QED
    BY <1>1, <1>2, <1>15, <2>1, TickFollows, FollowsIInv
<1>16. CASE Next
  BY <1>4, <1>5, <1>6, <1>7, <1>8, <1>9, <1>10, <1>11, <1>12, <1>13, <1>14, <1>15, <1>16
     DEF Next, LeaseNext
<1>17. QED
  BY <1>3, <1>16

(***************************************************************************)
(* The theorems, for any number of runs, stages, nodes and attempts.       *)
(* IInv holds in every reachable state.                                     *)
LEMMA Invariance == Spec => []IInv
<1>1. IInv /\ [Next]_vars => IInv'
  BY NextIInv
<1>2. QED
  BY <1>1, InitIInv, PTL DEF Spec

(* Every column has its type in every reachable state.                      *)
THEOREM Typed == Spec => []TypeOK
<1>1. IInv => TypeOK
  BY DEF IInv
<1>2. QED
  BY <1>1, Invariance, PTL

(* A run and its stages always agree on one frontier stage.                 *)
THEOREM ChainsAdvanceInOrder == Spec => []ChainOrder
<1>1. IInv => ChainOrder
  BY DEF IInv, Good, ChainOrder
<1>2. QED
  BY <1>1, Invariance, PTL

(* The leases of a stage are drawn one after another, at most one is open,  *)
(* and a stage is completed by its last lease or not at all.                *)
THEOREM LedgerBalanced == Spec => []LeaseLedger
<1>1. IInv => LeaseLedger
  BY DEF IInv, Good, LeaseLedger
<1>2. QED
  BY <1>1, Invariance, PTL

(* A wiped edge node never holds a running stage.                           *)
THEOREM WipedNodesHoldNothing == Spec => []WipedHoldsNothing
<1>1. IInv => WipedHoldsNothing
  BY DEF IInv
<1>2. QED
  BY <1>1, Invariance, PTL

(* No request, sweep or cancellation changes how a lease ended.             *)
THEOREM LeasesSettleOnce == Spec => LeaseSettledOnce
<1> DEFINE Settled == \A r \in Runs, i \in Pos, l \in Leases :
             db.outcome[r][i][l] \notin {"none", "open"} =>
               db'.outcome[r][i][l] = db.outcome[r][i][l]
<1>1. IInv /\ [Next]_vars => [Settled]_vars
  BY NextIInv DEF Settles
<1>2. QED
  BY <1>1, Invariance, PTL DEF Spec, LeaseSettledOnce

(***************************************************************************)
(* What a step may do to the statuses of runs and stages.  Most steps only *)
(* recede; the others are named by Step, and every action property below   *)
(* is proved on the disjuncts of Step instead of on those of Next.         *)
(***************************************************************************)
(* From d to e a stage is left as it is, is queued again after its lease,   *)
(* or is given up; a run is left as it is, or was open.                     *)
Recedes(d, e) ==
  /\ e.len = d.len /\ e.gated = d.gated /\ e.attempt = d.attempt
  /\ \A r \in Runs :
       \/ e.run[r] = d.run[r]
       \/ d.run[r] \in OpenRun /\ e.run[r] \in OpenRun \cup {"failed", "cancelled"}
  /\ \A r \in Runs, i \in Pos :
       \/ e.status[r][i] = d.status[r][i]
       \/ d.status[r][i] = "running" /\ e.status[r][i] = "queued"
       \/ d.status[r][i] \in OpenStage /\ e.status[r][i] \in {"failed", "cancelled"}
  /\ \A r \in Runs, i \in Pos :
       e.status[r][i] = "running" => e.node[r][i] = d.node[r][i]

(* Receding composes.                                                       *)
LEMMA RecedesChain ==
  ASSUME NEW c, NEW d, NEW e, Recedes(c, d), Recedes(d, e)
  PROVE  Recedes(c, e)
<1>1. ASSUME NEW r \in Runs
      PROVE  \/ e.run[r] = c.run[r]
             \/ c.run[r] \in OpenRun /\ e.run[r] \in OpenRun \cup {"failed", "cancelled"}
  BY DEF Recedes, OpenRun
<1>2. ASSUME NEW r \in Runs, NEW i \in Pos
      PROVE  \/ e.status[r][i] = c.status[r][i]
             \/ c.status[r][i] = "running" /\ e.status[r][i] = "queued"
             \/ c.status[r][i] \in OpenStage /\ e.status[r][i] \in {"failed", "cancelled"}
  BY DEF Recedes, OpenStage
<1>3. ASSUME NEW r \in Runs, NEW i \in Pos, e.status[r][i] = "running"
      PROVE  e.node[r][i] = c.node[r][i]
  <2>1. d.status[r][i] = "running"
    BY <1>3 DEF Recedes, OpenStage
  <2>2. QED
    BY <1>3, <2>1 DEF Recedes
<1>4. QED
  BY <1>1, <1>2, <1>3 DEF Recedes

(* A step that touches neither runs nor statuses recedes.                   *)
LEMMA TouchedRecedes ==
  ASSUME NEW d, NEW e,
         e.run = d.run, e.len = d.len, e.gated = d.gated,
         e.status = d.status, e.node = d.node, e.attempt = d.attempt
  PROVE  Recedes(d, e)
BY DEF Recedes

(* The sweep, the cancellation of runs and the closing of calls recede.     *)
LEMMA PassesRecede ==
  ASSUME NEW d, Good(d)
  PROVE  /\ Recedes(d, Sweep(d))
         /\ \A R : Recedes(d, CancelRuns(d, R))
         /\ Recedes(d, Enforce(d))
         /\ \A W : Recedes(d, CloseCalls(d, W))
<1>0. d \in Database
  BY DEF Good
<1>1. Recedes(d, Sweep(d))
  <2> DEFINE e == Sweep(d)
  <2>1. e.len = d.len /\ e.gated = d.gated /\ e.attempt = d.attempt
    BY <1>0, SweepColumns
  <2>2. ASSUME NEW r \in Runs
        PROVE  \/ e.run[r] = d.run[r]
               \/ d.run[r] \in OpenRun /\ e.run[r] \in OpenRun \cup {"failed", "cancelled"}
    <3>1. CASE \E i \in Pos : Expired(d, r, i)
      <4>1. d.run[r] \in OpenRun
        BY <3>1, FrontierAt DEF Expired
      <4>2. e.run[r] \in {"failed", "queued"}
        BY <1>0, <3>1 DEF Database, Sweep, Released
      <4>3. QED
        BY <4>1, <4>2 DEF OpenRun
    <3>2. CASE ~ \E i \in Pos : Expired(d, r, i)
      BY <1>0, <3>2, SweepColumns
    <3>3. QED
      BY <3>1, <3>2
  <2>3. ASSUME NEW r \in Runs, NEW i \in Pos
        PROVE  /\ \/ e.status[r][i] = d.status[r][i]
                  \/ d.status[r][i] = "running" /\ e.status[r][i] = "queued"
                  \/ d.status[r][i] \in OpenStage /\ e.status[r][i] \in {"failed", "cancelled"}
               /\ e.status[r][i] = "running" => e.node[r][i] = d.node[r][i]
    <3>1. /\ e.status[r][i] =
               IF Expired(d, r, i)
                 THEN IF Retrying(d, r, i) THEN "queued" ELSE "failed"
                 ELSE d.status[r][i]
          /\ e.node[r][i] = IF Expired(d, r, i) THEN NoNode ELSE d.node[r][i]
      BY <1>0, SweepColumns
    <3> HIDE DEF e
    <3>2. QED
      BY <3>1 DEF Expired, OpenStage
  <2> HIDE DEF e
  <2>4. Recedes(d, e)
    BY <2>1, <2>2, <2>3 DEF Recedes
  <2>5. QED
    BY <2>4 DEF e
<1>2. ASSUME NEW R
      PROVE  Recedes(d, CancelRuns(d, R))
  <2> DEFINE e == CancelRuns(d, R)
             hit(r, i) == r \in R /\ d.run[r] \in OpenRun /\ d.status[r][i] \in OpenStage
  <2>1. /\ e.len = d.len /\ e.gated = d.gated /\ e.attempt = d.attempt
        /\ \A r \in Runs : e.run[r] =
             IF r \in R /\ d.run[r] \in OpenRun THEN "cancelled" ELSE d.run[r]
        /\ \A r \in Runs, i \in Pos :
             /\ e.status[r][i] = IF hit(r, i) THEN "cancelled" ELSE d.status[r][i]
             /\ e.node[r][i] = IF hit(r, i) THEN NoNode ELSE d.node[r][i]
    BY <1>0, CancelColumns
  <2> HIDE DEF e
  <2>2. Recedes(d, e)
    BY <2>1 DEF Recedes
  <2>3. QED
    BY <2>2 DEF e
<1>3. ASSUME NEW W
      PROVE  Recedes(d, CloseCalls(d, W))
  BY <1>0 DEF CloseCalls, Database, Recedes
<1>4. QED
  BY <1>1, <1>2, <1>3 DEF Enforce

(* The loss or failure of a lease recedes.                                  *)
LEMMA FailedRecedes ==
  ASSUME NEW d, Good(d), NEW r \in Runs, NEW i \in Pos, NEW l \in Leases,
         d.status[r][i] = "running"
  PROVE  Recedes(d, Failed(d, r, i, l))
<1> DEFINE e == Failed(d, r, i, l)
           again == Retrying(d, r, i)
<1>1. d \in Database /\ d.run[r] \in OpenRun
  BY FrontierAt DEF Good
<1>2. /\ e.len = d.len /\ e.gated = d.gated /\ e.attempt = d.attempt
      /\ e.run[r] = IF again THEN "queued" ELSE "failed"
      /\ \A q \in Runs : q # r => e.run[q] = d.run[q]
      /\ e.status[r][i] = IF again THEN "queued" ELSE "failed"
      /\ \A q \in Runs, j \in Pos : q # r \/ j # i =>
           e.status[q][j] = d.status[q][j] /\ e.node[q][j] = d.node[q][j]
  BY <1>1, FailedColumns
<1> HIDE DEF e, again
<1>3. Recedes(d, e)
  BY <1>1, <1>2 DEF Recedes, OpenRun, OpenStage
<1>4. QED
  BY <1>3 DEF e

(* No run whose principal has lost its right is open in d.                  *)
Enforced(d) == \A r \in revoked : d.run[r] \notin OpenRun

(* A request that enforces identities leaves none of those runs open, and   *)
(* the sweep does not open them again.                                      *)
LEMMA EnforceEnforces ==
  ASSUME NEW d, Good(d), revoked \subseteq Runs
  PROVE  Enforced(Enforce(d)) /\ Enforced(Sweep(Enforce(d)))
<1>1. d \in Database
  BY DEF Good
<1>2. Enforced(Enforce(d))
  <2>1. \A r \in Runs : Enforce(d).run[r] =
          IF r \in revoked /\ d.run[r] \in OpenRun THEN "cancelled" ELSE d.run[r]
    BY <1>1, CancelColumns DEF Enforce
  <2>2. QED
    BY <2>1 DEF Enforced, OpenRun
<1>3. Good(Enforce(d))
  BY CancelGood DEF Enforce
<1>4. Recedes(Enforce(d), Sweep(Enforce(d)))
  BY <1>3, PassesRecede
<1>5. QED
  BY <1>2, <1>4 DEF Enforced, Recedes

(* The ways a step goes forward: after a database that recedes from the     *)
(* present one, a lease is granted or completed or an approval is decided.  *)
LeaseStep(d) ==
  \E r \in Runs, i \in Pos :
    \/ \E n \in Nodes :
         MayLease(d, n) /\ Candidate(d, r, i) /\ db' = Granted(d, n, r, i)
    \/ \E l \in Leases :
         /\ d.status[r][i] = "running" /\ d.attempt[r][i] = l
         /\ db' = Completed(d, r, i, l)

DecisionStep(d) ==
  \E r \in Runs, i \in Pos, approve \in BOOLEAN :
    d.status[r][i] = "waiting_approval" /\ db' = Decided(d, r, i, approve)

Step ==
  \/ Recedes(db, db')
  \/ \E r \in Runs, n \in Pos, gate \in BOOLEAN : CreateRun(r, n, gate)
  \/ \E d \in Database :
       /\ Recedes(db, d) /\ Good(d)
       /\ (Enforced(d) /\ LeaseStep(d)) \/ DecisionStep(d)

(* Every step is one of those.                                              *)
LEMMA NextStep ==
  ASSUME IInv, [Next]_vars
  PROVE  Step
<1>1. /\ Good(db) /\ db \in Database /\ revoked \subseteq Runs
  BY DEF IInv, Good, TypeOK
<1>2. CASE UNCHANGED vars
  <2>1. db' = db
    BY <1>2 DEF vars
  <2>2. QED
    BY <2>1, TouchedRecedes DEF Step
<1>3. ASSUME NEW r \in Runs, NEW n \in Pos, NEW gate \in BOOLEAN, CreateRun(r, n, gate)
      PROVE  Step
  BY <1>3 DEF Step
<1>4. ASSUME NEW r \in Runs, CancelRun(r) \/ ChangeIdentity(r)
      PROVE  Step
  <2>1. db' = CancelRuns(db, {r}) \/ db' = db
    BY <1>4 DEF CancelRun, ChangeIdentity
  <2>2. Recedes(db, db')
    BY <1>1, <2>1, PassesRecede, TouchedRecedes
  <2>3. QED
    BY <2>2 DEF Step
<1>5. ASSUME NEW r \in Runs, NEW i \in Pos,
             \/ \E n \in Nodes, l \in Leases : BeginToolCall(n, r, i, l)
             \/ FinishToolCall(r, i) \/ RejectToolCall(r, i)
      PROVE  Step
  <2>1. /\ db'.run = db.run /\ db'.len = db.len /\ db'.gated = db.gated
        /\ db'.status = db.status /\ db'.node = db.node /\ db'.attempt = db.attempt
    BY <1>1, <1>5 DEF Database, BeginToolCall, FinishToolCall, RejectToolCall
  <2>2. QED
    BY <2>1, TouchedRecedes DEF Step
<1>6. ASSUME NEW W, NEW d, d = Overviewed(W)
      PROVE  Recedes(db, d) /\ Good(d)
  <2>1. Recedes(db, CloseCalls(db, W)) /\ Good(CloseCalls(db, W))
    BY <1>1, PassesRecede, CloseGood
  <2>2. Recedes(CloseCalls(db, W), Sweep(CloseCalls(db, W)))
    BY <2>1, PassesRecede
  <2>3. QED
    BY <1>6, <2>1, <2>2, SweepGood, RecedesChain DEF Overviewed
<1>7. ASSUME NEW r \in Runs, NEW i \in Pos, NEW approve \in BOOLEAN,
             DecideApproval(r, i, approve)
      PROVE  Step
  <2>1. PICK W \in Overdue(db) : db' = Decided(Overviewed(W), r, i, approve)
    BY <1>7 DEF DecideApproval
  <2> DEFINE d == Overviewed(W)
  <2>2. d.status[r][i] = "waiting_approval"
    BY <1>1, <1>7, OverviewFollows DEF DecideApproval
  <2>3. db' = Decided(d, r, i, approve)
    BY <2>1
  <2>4. Recedes(db, d) /\ Good(d)
    BY <1>6
  <2> HIDE DEF d
  <2>5. DecisionStep(d)
    BY <2>2, <2>3 DEF DecisionStep
  <2>6. d \in Database
    BY <2>4 DEF Good
  <2>7. QED
    BY <2>4, <2>5, <2>6 DEF Step
<1>8. ASSUME NEW r \in Runs, NEW i \in Pos, NEW n \in Nodes, NEW l \in Leases,
             RenewLease(n, r, i, l)
      PROVE  Step
  <2> DEFINE d == Enforce(db)
  <2>1. Recedes(db, d) /\ Good(d)
    BY <1>1, PassesRecede, CancelGood DEF Enforce
  <2>2. db' = d \/ db' = [d EXCEPT !.ttl[r][i] = LeaseTtl]
    BY <1>8 DEF RenewLease
  <2> HIDE DEF d
  <2>3. Recedes(d, db')
    BY <2>1, <2>2, TouchedRecedes DEF Good, Database
  <2>4. QED
    BY <2>1, <2>3, RecedesChain DEF Step
<1>9. ASSUME NEW r \in Runs, NEW i \in Pos, NEW n \in Nodes, NEW l \in Leases,
             CompleteLease(n, r, i, l)
      PROVE  Step
  <2> DEFINE d == Enforce(db)
  <2>1. Recedes(db, d) /\ Good(d) /\ d \in Database /\ Enforced(d)
    BY <1>1, PassesRecede, EnforceEnforces, CancelGood DEF Enforce, Good
  <2>2. db' = IF Owns(d, n, r, i, l) /\ ~d.executing[r][i]
                THEN Completed(d, r, i, l) ELSE d
    BY <1>9 DEF CompleteLease
  <2> HIDE DEF d
  <2>3. CASE Owns(d, n, r, i, l) /\ ~d.executing[r][i]
    <3>1. LeaseStep(d)
      BY <2>2, <2>3 DEF LeaseStep, Owns, Holds
    <3>2. QED
      BY <2>1, <3>1 DEF Step
  <2>4. CASE ~(Owns(d, n, r, i, l) /\ ~d.executing[r][i])
    BY <2>1, <2>2, <2>4 DEF Step
  <2>5. QED
    BY <2>3, <2>4
<1>10. ASSUME NEW r \in Runs, NEW i \in Pos, NEW n \in Nodes, NEW l \in Leases,
              FailLease(n, r, i, l)
       PROVE  Step
  <2>1. db.status[r][i] = "running" /\ db' = Failed(db, r, i, l)
    BY <1>10 DEF FailLease, Owns, Holds
  <2>2. QED
    BY <1>1, <2>1, FailedRecedes DEF Step
<1>11. /\ Recedes(db, Sweep(Enforce(db))) /\ Good(Sweep(Enforce(db)))
       /\ Enforced(Sweep(Enforce(db)))
  <2>1. Recedes(db, Enforce(db)) /\ Good(Enforce(db))
    BY <1>1, PassesRecede, CancelGood DEF Enforce
  <2>2. Recedes(Enforce(db), Sweep(Enforce(db))) /\ Good(Sweep(Enforce(db)))
    BY <2>1, PassesRecede, SweepGood
  <2>3. QED
    BY <1>1, <2>1, <2>2, RecedesChain, EnforceEnforces
<1>12. ASSUME NEW n \in Nodes, LeaseGranted(n)
       PROVE  Step
  <2> DEFINE d == Sweep(Enforce(db))
  <2>1. /\ MayLease(d, n)
        /\ \E r \in Runs, i \in Pos : Candidate(d, r, i) /\ db' = Granted(d, n, r, i)
    BY <1>12 DEF LeaseGranted
  <2>2. d \in Database /\ Recedes(db, d) /\ Good(d) /\ Enforced(d)
    BY <1>11 DEF Good
  <2> HIDE DEF d
  <2>3. LeaseStep(d)
    BY <2>1 DEF LeaseStep
  <2>4. QED
    BY <2>2, <2>3 DEF Step
<1>13. ASSUME NothingToLease \/ MaintenanceTick
       PROVE  Step
  <2> DEFINE d == Sweep(Enforce(db))
  <2>1. db' = d \/ \E W : db' = CloseCalls(d, W)
    BY <1>13 DEF NothingToLease, MaintenanceTick
  <2>2. \A W : Recedes(d, CloseCalls(d, W))
    BY <1>11, PassesRecede
  <2>3. Recedes(db, d)
    BY <1>11
  <2> HIDE DEF d
  <2>4. QED
    BY <2>1, <2>2, <2>3, RecedesChain DEF Step
<1>14. ASSUME NEW n \in EdgeNodes, WipeEdge(n)
       PROVE  Step
  <2> DEFINE d == [db EXCEPT !.ttl = [r \in Runs |-> [i \in Pos |->
                     IF db.status[r][i] = "running" /\ db.node[r][i] = n
                       THEN -1 ELSE db.ttl[r][i]]]]
  <2>1. db' = Sweep(d)
    BY <1>14 DEF WipeEdge
  <2>2. /\ d.run = db.run /\ d.len = db.len /\ d.gated = db.gated
        /\ d.status = db.status /\ d.node = db.node /\ d.attempt = db.attempt
        /\ d.outcome = db.outcome
        /\ d.executing = db.executing /\ d.settled = db.settled
        /\ d.ttl = [r \in Runs |-> [i \in Pos |->
             IF db.status[r][i] = "running" /\ db.node[r][i] = n
               THEN -1 ELSE db.ttl[r][i]]]
    BY <1>1 DEF Database
  <2>3. d.ttl \in PerStage(-1..LeaseTtl)
    BY <1>1, <2>2, TtlAssumption DEF Database, PerStage
  <2>4. d \in Database
    BY <1>1, <2>3 DEF Database
  <2> HIDE DEF d
  <2>5. Good(d)
    <3>1. \A r \in Runs, i \in Pos : db.status[r][i] # "running" =>
            ~d.executing[r][i] /\ ~d.settled[r][i] /\ d.ttl[r][i] = -1
      <4> SUFFICES ASSUME NEW r \in Runs, NEW i \in Pos, db.status[r][i] # "running"
                   PROVE  ~d.executing[r][i] /\ ~d.settled[r][i] /\ d.ttl[r][i] = -1
        OBVIOUS
      <4>1. ~db.executing[r][i] /\ ~db.settled[r][i] /\ db.ttl[r][i] = -1
        BY <1>1, LedgerIdle DEF Good
      <4>2. QED
        BY <2>2, <4>1
    <3>2. QED
      BY <1>1, <2>2, <2>4, <3>1, TouchedGood
  <2>6. Recedes(db, d) /\ Recedes(d, db')
    BY <2>1, <2>2, <2>5, TouchedRecedes, PassesRecede
  <2>7. QED
    BY <2>6, RecedesChain DEF Step
<1>15. ASSUME NEW m \in Modes, NEW max \in GlobalCaps, UpdateScheduler(m, max)
       PROVE  Step
  BY <1>15, TouchedRecedes DEF UpdateScheduler, Step
<1>16. CASE Overview
  BY <1>6, <1>16 DEF Overview, Step
<1>17. CASE Tick
  <2>1. /\ db'.run = db.run /\ db'.len = db.len /\ db'.gated = db.gated
        /\ db'.status = db.status /\ db'.node = db.node /\ db'.attempt = db.attempt
    BY <1>1, <1>17 DEF Database, Tick
  <2>2. QED
    BY <2>1, TouchedRecedes DEF Step
<1>18. CASE Next
  BY <1>3, <1>4, <1>5, <1>7, <1>8, <1>9, <1>10, <1>12, <1>13, <1>14, <1>15, <1>16, <1>17, <1>18
     DEF Next, LeaseNext
<1>19. QED
  BY <1>2, <1>18

(* Whatever request arrives, none of the stages of a run whose principal    *)
(* has lost its right is started or completed: leaseNext and completeLease  *)
(* enforce identities before they look at the stage.                        *)
THEOREM RevokedRunsStandStill == Spec => RevokedStandsStill
<1> DEFINE Still == \A r \in revoked, i \in Pos :
             db'.status[r][i] \in {"running", "completed"} =>
               db'.status[r][i] = db.status[r][i] /\ db'.attempt[r][i] = db.attempt[r][i]
<1>1. ASSUME IInv, [Next]_vars
      PROVE  Still
  <2>1. Step /\ revoked \subseteq Runs /\ db \in Database
    BY <1>1, NextStep DEF IInv, TypeOK
  <2> SUFFICES ASSUME NEW q \in Runs, q \in revoked, NEW j \in Pos,
                      db'.status[q][j] \in {"running", "completed"}
               PROVE  db'.status[q][j] = db.status[q][j] /\ db'.attempt[q][j] = db.attempt[q][j]
    BY <2>1
  <2>2. ASSUME NEW d, Recedes(db, d), d.status[q][j] \in {"running", "completed"}
        PROVE  d.status[q][j] = db.status[q][j] /\ d.attempt[q][j] = db.attempt[q][j]
    BY <2>2 DEF Recedes
  <2>3. CASE Recedes(db, db')
    BY <2>2, <2>3
  <2>4. ASSUME NEW r \in Runs, NEW n \in Pos, NEW gate \in BOOLEAN, CreateRun(r, n, gate)
        PROVE  db'.status[q][j] = db.status[q][j] /\ db'.attempt[q][j] = db.attempt[q][j]
    BY <2>1, <2>4 DEF CreateRun, Database, PerStage
  <2>5. ASSUME NEW d, Recedes(db, d), Good(d), Enforced(d), LeaseStep(d)
        PROVE  db'.status[q][j] = db.status[q][j] /\ db'.attempt[q][j] = db.attempt[q][j]
    <3>0. d \in Database /\ d.run[q] \notin OpenRun
      BY <2>5 DEF Good, Enforced
    <3>1. ASSUME NEW r \in Runs, NEW i \in Pos, NEW n \in Nodes,
                 Candidate(d, r, i), db' = Granted(d, n, r, i)
          PROVE  db'.status[q][j] = d.status[q][j] /\ db'.attempt[q][j] = d.attempt[q][j]
      <4>1. q # r
        BY <3>0, <3>1 DEF Candidate, OpenRun
      <4>2. QED
        BY <3>0, <3>1, <4>1, GrantedColumns
    <3>2. ASSUME NEW r \in Runs, NEW i \in Pos, NEW l \in Leases,
                 d.status[r][i] = "running", db' = Completed(d, r, i, l)
          PROVE  db'.status[q][j] = d.status[q][j] /\ db'.attempt[q][j] = d.attempt[q][j]
      <4>1. q # r
        BY <2>5, <3>0, <3>2, FrontierAt
      <4>2. QED
        BY <3>0, <3>2, <4>1, CompletedColumns
    <3>3. db'.status[q][j] = d.status[q][j] /\ db'.attempt[q][j] = d.attempt[q][j]
      BY <2>5, <3>1, <3>2 DEF LeaseStep
    <3>4. QED
      BY <2>2, <2>5, <3>3
  <2>6. ASSUME NEW d, Recedes(db, d), Good(d), DecisionStep(d)
        PROVE  db'.status[q][j] = db.status[q][j] /\ db'.attempt[q][j] = db.attempt[q][j]
    <3>1. db'.status[q][j] = d.status[q][j] /\ db'.attempt[q][j] = d.attempt[q][j]
      BY <2>6 DEF DecisionStep, Decided, Good, Database, PerStage
    <3>2. QED
      BY <2>2, <2>6, <3>1
  <2>7. QED
    BY <2>1, <2>3, <2>4, <2>5, <2>6 DEF Step
<1>2. IInv /\ [Next]_vars => [Still]_vars
  BY <1>1
<1>3. QED
  BY <1>2, Invariance, PTL DEF Spec, RevokedStandsStill

(* The gated last stage of a run reaches the queue from the operator's desk *)
(* or from a lease it lost, never straight from the completion before it.   *)
THEOREM GateHolds == Spec => ApprovalGate
<1> DEFINE Gated == \A r \in Runs :
             db'.gated[r] /\ db'.status[r][db'.len[r]] = "queued" =>
               db.status[r][db'.len[r]] \in {"queued", "running", "waiting_approval"}
<1>1. ASSUME IInv, [Next]_vars
      PROVE  Gated
  <2>1. Step /\ Good(db) /\ db \in Database
    BY <1>1, NextStep DEF IInv, Good
  <2>2. Good(db') /\ db' \in Database
    BY <1>1, NextIInv DEF IInv, Good
  <2> SUFFICES ASSUME NEW q \in Runs, db'.gated[q], db'.status[q][db'.len[q]] = "queued"
               PROVE  db.status[q][db'.len[q]] \in {"queued", "running", "waiting_approval"}
    OBVIOUS
  <2> DEFINE k == db'.len[q]
  <2>3. k \in Pos
    <3>1. k \in 0..MaxStages
      BY <2>2 DEF Database
    <3>2. db'.run[q] # "absent"
      BY <2>2 DEF Good, Chain
    <3>3. \E j \in 1..k : TRUE
      BY <3>2, <2>2 DEF Good, Chain
    <3>4. QED
      BY <3>1, <3>3, StagesAssumption DEF Pos
  <2> HIDE DEF k
  <2>4. ASSUME NEW d, Recedes(db, d),
               d.status[q][k] \in {"queued", "running", "waiting_approval"}
        PROVE  db.status[q][k] \in {"queued", "running", "waiting_approval"}
    BY <2>3, <2>4 DEF Recedes
  <2>5. CASE Recedes(db, db')
    BY <2>4, <2>5 DEF k
  <2>6. ASSUME NEW r \in Runs, NEW n \in Pos, NEW gate \in BOOLEAN, CreateRun(r, n, gate)
        PROVE  db.status[q][k] \in {"queued", "running", "waiting_approval"}
    <3>1. q # r
      <4>1. ASSUME q = r
            PROVE  FALSE
        <5>1. /\ k = n /\ db'.gated[q] = gate
              /\ db'.status[q][k] = IF k > n THEN "absent"
                                    ELSE IF k = 1
                                      THEN IF gate /\ n = 1 THEN "waiting_approval" ELSE "queued"
                                      ELSE "pending"
          BY <2>1, <2>3, <2>6, <4>1 DEF CreateRun, Database, PerStage, k
        <5>2. QED
          BY <5>1 DEF k
      <4>2. QED
        BY <4>1
    <3>2. db'.status[q] = db.status[q]
      BY <2>1, <2>6, <3>1 DEF CreateRun, Database, PerStage
    <3>3. QED
      BY <3>2 DEF k
  <2>7. ASSUME NEW d, Recedes(db, d), Good(d), LeaseStep(d)
        PROVE  db.status[q][k] \in {"queued", "running", "waiting_approval"}
    <3>0. d \in Database
      BY <2>7 DEF Good
    <3>1. ASSUME NEW r \in Runs, NEW i \in Pos, NEW n \in Nodes, db' = Granted(d, n, r, i)
          PROVE  d.status[q][k] = "queued"
      <4>1. ~(q = r /\ k = i)
        BY <3>0, <3>1, GrantedColumns DEF k
      <4>2. QED
        BY <2>3, <3>0, <3>1, <4>1, GrantedColumns DEF k
    <3>2. ASSUME NEW r \in Runs, NEW i \in Pos, NEW l \in Leases,
                 db' = Completed(d, r, i, l)
          PROVE  d.status[q][k] = "queued"
      <4>1. CASE q = r
        <5>1. /\ k = d.len[r] /\ d.gated[r]
              /\ db'.status[r][k] =
                   IF k = i THEN "completed"
                   ELSE IF k = i + 1 /\ ~(i = d.len[r])
                          THEN IF i + 1 = d.len[r] /\ d.gated[r]
                                 THEN "waiting_approval" ELSE "queued"
                          ELSE d.status[r][k]
          BY <2>3, <3>0, <3>2, <4>1, CompletedColumns DEF k
        <5>2. QED
          BY <5>1, <4>1 DEF k
      <4>2. CASE q # r
        BY <2>3, <3>0, <3>2, <4>2, CompletedColumns DEF k
      <4>3. QED
        BY <4>1, <4>2
    <3>3. d.status[q][k] = "queued"
      BY <2>7, <3>1, <3>2 DEF LeaseStep
    <3>4. QED
      BY <2>4, <2>7, <3>3
  <2>8. ASSUME NEW d, Recedes(db, d), Good(d), DecisionStep(d)
        PROVE  db.status[q][k] \in {"queued", "running", "waiting_approval"}
    <3>1. d.status[q][k] \in {"queued", "waiting_approval"}
      BY <2>3, <2>8 DEF DecisionStep, Decided, Good, Database, PerStage, k
    <3>2. QED
      BY <2>4, <2>8, <3>1
  <2>9. QED
    BY <2>1, <2>5, <2>6, <2>7, <2>8 DEF Step, k
<1>2. IInv /\ [Next]_vars => [Gated]_vars
  BY <1>1
<1>3. QED
  BY <1>2, Invariance, PTL DEF Spec, ApprovalGate

(***************************************************************************)
(* The limits of the scheduler count stages, so their proofs need a finite *)
(* set to count: however many runs may ever be created, only finitely many *)
(* stages run at a time.                                                   *)
(***************************************************************************)
(* Every stage that runs in e runs in d, at the same node.                  *)
Fewer(d, e) ==
  /\ Running(e) \subseteq Running(d)
  /\ \A s \in Running(e) : e.node[s[1]][s[2]] = d.node[s[1]][s[2]]

(* Fewer running stages are no more load for anybody.                       *)
LEMMA FewerLoads ==
  ASSUME NEW d, NEW e, IsFiniteSet(Running(d)), Fewer(d, e)
  PROVE  /\ IsFiniteSet(Running(e))
         /\ GlobalLoad(d) \in Nat /\ GlobalLoad(e) \in Nat /\ GlobalLoad(e) <= GlobalLoad(d)
         /\ \A n : NodeLoad(d, n) \in Nat /\ NodeLoad(e, n) \in Nat /\ NodeLoad(e, n) <= NodeLoad(d, n)
         /\ \A p : /\ ProjectLoad(d, p) \in Nat /\ ProjectLoad(e, p) \in Nat
                   /\ ProjectLoad(e, p) <= ProjectLoad(d, p)
<1>1. ASSUME NEW A \in SUBSET Running(d), NEW B \in SUBSET A
      PROVE  /\ IsFiniteSet(B)
             /\ Cardinality(A) \in Nat /\ Cardinality(B) \in Nat
             /\ Cardinality(B) <= Cardinality(A)
  <2>1. IsFiniteSet(A)
    BY FS_Subset
  <2>2. IsFiniteSet(B) /\ Cardinality(B) <= Cardinality(A)
    BY <2>1, FS_Subset
  <2>3. QED
    BY <2>1, <2>2, FS_CardinalityType
<1>2. Running(e) \in SUBSET Running(d)
  BY DEF Fewer
<1>3. /\ IsFiniteSet(Running(e))
      /\ GlobalLoad(d) \in Nat /\ GlobalLoad(e) \in Nat /\ GlobalLoad(e) <= GlobalLoad(d)
  BY <1>1, <1>2 DEF GlobalLoad
<1>4. ASSUME NEW n
      PROVE  NodeLoad(d, n) \in Nat /\ NodeLoad(e, n) \in Nat /\ NodeLoad(e, n) <= NodeLoad(d, n)
  <2> DEFINE A == {s \in Running(d) : d.node[s[1]][s[2]] = n}
             B == {s \in Running(e) : e.node[s[1]][s[2]] = n}
  <2>1. A \in SUBSET Running(d) /\ B \in SUBSET A
    BY DEF Fewer
  <2>2. QED
    BY <1>1, <2>1 DEF NodeLoad
<1>5. ASSUME NEW p
      PROVE  /\ ProjectLoad(d, p) \in Nat /\ ProjectLoad(e, p) \in Nat
             /\ ProjectLoad(e, p) <= ProjectLoad(d, p)
  <2> DEFINE A == {s \in Running(d) : ProjectOf[s[1]] = p}
             B == {s \in Running(e) : ProjectOf[s[1]] = p}
  <2>1. A \in SUBSET Running(d) /\ B \in SUBSET A
    BY DEF Fewer
  <2>2. QED
    BY <1>1, <2>1 DEF ProjectLoad
<1>6. QED
  BY <1>3, <1>4, <1>5

(* A grant is one more stage for the fleet, for its node and for its        *)
(* project, and no more load for the others.                                *)
LEMMA GrantedLoads ==
  ASSUME NEW d \in Database, IsFiniteSet(Running(d)),
         NEW n \in Nodes, NEW r \in Runs, NEW i \in Pos
  PROVE  LET e == Granted(d, n, r, i)
         IN  /\ IsFiniteSet(Running(e))
             /\ GlobalLoad(d) \in Nat /\ GlobalLoad(e) \in Nat
             /\ GlobalLoad(e) <= GlobalLoad(d) + 1
             /\ \A m : /\ NodeLoad(d, m) \in Nat /\ NodeLoad(e, m) \in Nat
                       /\ NodeLoad(e, m) <= NodeLoad(d, m) + (IF m = n THEN 1 ELSE 0)
             /\ \A p : /\ ProjectLoad(d, p) \in Nat /\ ProjectLoad(e, p) \in Nat
                       /\ ProjectLoad(e, p) <=
                            ProjectLoad(d, p) + (IF p = ProjectOf[r] THEN 1 ELSE 0)
<1> DEFINE e == Granted(d, n, r, i)
           x == <<r, i>>
<1>1. /\ e.node[r][i] = n
      /\ \A q \in Runs, j \in Pos : q # r \/ j # i =>
           e.status[q][j] = d.status[q][j] /\ e.node[q][j] = d.node[q][j]
  BY GrantedColumns
<1> HIDE DEF e
<1>2. \A s \in Running(e) : s = x \/ (s \in Running(d) /\ e.node[s[1]][s[2]] = d.node[s[1]][s[2]])
  BY <1>1 DEF Running
<1>3. ASSUME NEW A \in SUBSET Running(d), NEW B, B \subseteq A
      PROVE  /\ IsFiniteSet(B)
             /\ Cardinality(A) \in Nat /\ Cardinality(B) \in Nat
             /\ Cardinality(B) <= Cardinality(A)
  <2>1. IsFiniteSet(A)
    BY FS_Subset
  <2>2. IsFiniteSet(B) /\ Cardinality(B) <= Cardinality(A)
    BY <1>3, <2>1, FS_Subset
  <2>3. QED
    BY <2>1, <2>2, FS_CardinalityType
<1>4. ASSUME NEW A \in SUBSET Running(d), NEW B, B \subseteq A \cup {x}
      PROVE  /\ IsFiniteSet(B)
             /\ Cardinality(A) \in Nat /\ Cardinality(B) \in Nat
             /\ Cardinality(B) <= Cardinality(A) + 1
  <2>1. IsFiniteSet(A) /\ Cardinality(A) \in Nat
    BY FS_Subset, FS_CardinalityType
  <2>2. /\ IsFiniteSet(A \cup {x})
        /\ Cardinality(A \cup {x}) = IF x \in A THEN Cardinality(A) ELSE Cardinality(A) + 1
    BY <2>1, FS_AddElement
  <2>3. IsFiniteSet(B) /\ Cardinality(B) <= Cardinality(A \cup {x}) /\ Cardinality(B) \in Nat
    BY <1>4, <2>2, FS_Subset, FS_CardinalityType
  <2>4. QED
    BY <2>1, <2>2, <2>3
<1>5. /\ IsFiniteSet(Running(e))
      /\ GlobalLoad(d) \in Nat /\ GlobalLoad(e) \in Nat
      /\ GlobalLoad(e) <= GlobalLoad(d) + 1
  <2>1. Running(e) \subseteq Running(d) \cup {x}
    BY <1>2
  <2>2. QED
    BY <1>4, <2>1 DEF GlobalLoad
<1>6. ASSUME NEW m
      PROVE  /\ NodeLoad(d, m) \in Nat /\ NodeLoad(e, m) \in Nat
             /\ NodeLoad(e, m) <= NodeLoad(d, m) + (IF m = n THEN 1 ELSE 0)
  <2> DEFINE A == {s \in Running(d) : d.node[s[1]][s[2]] = m}
             B == {s \in Running(e) : e.node[s[1]][s[2]] = m}
  <2>1. A \in SUBSET Running(d) /\ B \subseteq A \cup {x}
    BY <1>2
  <2>2. ASSUME m # n
        PROVE  B \subseteq A
    BY <1>1, <1>2, <2>2
  <2>3. NodeLoad(d, m) = Cardinality(A) /\ NodeLoad(e, m) = Cardinality(B)
    BY DEF NodeLoad
  <2> HIDE DEF A, B
  <2>4. CASE m = n
    BY <1>4, <2>1, <2>3, <2>4
  <2>5. CASE m # n
    <3>1. Cardinality(A) \in Nat /\ Cardinality(B) \in Nat /\ Cardinality(B) <= Cardinality(A)
      BY <1>3, <2>1, <2>2, <2>5
    <3>2. QED
      BY <2>3, <2>5, <3>1
  <2>6. QED
    BY <2>4, <2>5
<1>7. ASSUME NEW p
      PROVE  /\ ProjectLoad(d, p) \in Nat /\ ProjectLoad(e, p) \in Nat
             /\ ProjectLoad(e, p) <= ProjectLoad(d, p) + (IF p = ProjectOf[r] THEN 1 ELSE 0)
  <2> DEFINE A == {s \in Running(d) : ProjectOf[s[1]] = p}
             B == {s \in Running(e) : ProjectOf[s[1]] = p}
  <2>1. A \in SUBSET Running(d) /\ B \subseteq A \cup {x}
    BY <1>2
  <2>2. ASSUME p # ProjectOf[r]
        PROVE  B \subseteq A
    BY <1>2, <2>2
  <2>3. ProjectLoad(d, p) = Cardinality(A) /\ ProjectLoad(e, p) = Cardinality(B)
    BY DEF ProjectLoad
  <2> HIDE DEF A, B
  <2>4. CASE p = ProjectOf[r]
    BY <1>4, <2>1, <2>3, <2>4
  <2>5. CASE p # ProjectOf[r]
    <3>1. Cardinality(A) \in Nat /\ Cardinality(B) \in Nat /\ Cardinality(B) <= Cardinality(A)
      BY <1>3, <2>1, <2>2, <2>5
    <3>2. QED
      BY <2>3, <2>5, <3>1
  <2>6. QED
    BY <2>4, <2>5
<1>8. QED
  BY <1>5, <1>6, <1>7 DEF e

(* A step starts no stage, or it grants one lease, after a sweep that left  *)
(* fewer stages running.                                                    *)
LEMMA LoadStep ==
  ASSUME IInv, [Next]_vars
  PROVE  \/ Fewer(db, db')
         \/ \E d \in Database, n \in Nodes, r \in Runs, i \in Pos :
              /\ Fewer(db, d) /\ MayLease(d, n) /\ Candidate(d, r, i)
              /\ db' = Granted(d, n, r, i)
<1>1. Step /\ db \in Database
  BY NextStep DEF IInv, TypeOK
<1>2. ASSUME NEW c, NEW d, Recedes(c, d)
      PROVE  Fewer(c, d)
  BY <1>2 DEF Recedes, Fewer, Running, OpenStage
<1>3. ASSUME NEW r \in Runs, NEW n \in Pos, NEW gate \in BOOLEAN, CreateRun(r, n, gate)
      PROVE  Fewer(db, db')
  <2>1. /\ db'.node = db.node
        /\ \A q \in Runs : q # r => db'.status[q] = db.status[q]
        /\ \A j \in Pos : db'.status[r][j] # "running"
    BY <1>1, <1>3 DEF CreateRun, Database, PerStage
  <2>2. QED
    BY <2>1 DEF Fewer, Running
<1>4. ASSUME NEW d, Good(d), Recedes(db, d), NEW r \in Runs, NEW i \in Pos, NEW l \in Leases,
             d.status[r][i] = "running", d.attempt[r][i] = l, db' = Completed(d, r, i, l)
      PROVE  Fewer(db, db')
  <2>1. Holders(d, db')
    BY <1>4, CompletedRelates
  <2>2. Fewer(d, db')
    BY <2>1 DEF Holders, Fewer, Running
  <2>3. QED
    BY <1>2, <1>4, <2>2 DEF Fewer
<1>5. ASSUME NEW d, Good(d), Recedes(db, d), DecisionStep(d)
      PROVE  Fewer(db, db')
  <2>1. Holders(d, db')
    BY <1>5, DecidedRelates DEF DecisionStep
  <2>2. Fewer(d, db')
    BY <2>1 DEF Holders, Fewer, Running
  <2>3. QED
    BY <1>2, <1>5, <2>2 DEF Fewer
<1>6. QED
  BY <1>1, <1>2, <1>3, <1>4, <1>5 DEF Step, LeaseStep

(* Only finitely many stages run at a time.                                 *)
LEMMA FinitelyManyRun == Spec => []IsFiniteSet(Running(db))
<1>1. Init => IsFiniteSet(Running(db))
  <2>1. Init => Running(db) = {}
    BY DEF Init, Running, Everywhere
  <2>2. QED
    BY <2>1, FS_EmptySet
<1>2. IInv /\ IsFiniteSet(Running(db)) /\ [Next]_vars => IsFiniteSet(Running(db))'
  <2> SUFFICES ASSUME IInv, IsFiniteSet(Running(db)), [Next]_vars
               PROVE  IsFiniteSet(Running(db'))
    BY DEF Running
  <2>1. CASE Fewer(db, db')
    BY <2>1, FewerLoads
  <2>2. ASSUME NEW d \in Database, NEW n \in Nodes, NEW r \in Runs, NEW i \in Pos,
               Fewer(db, d), db' = Granted(d, n, r, i)
        PROVE  IsFiniteSet(Running(db'))
    <3>1. IsFiniteSet(Running(d))
      BY <2>2, FewerLoads
    <3>2. QED
      BY <2>2, <3>1, GrantedLoads
  <2>3. QED
    BY <2>1, <2>2, LoadStep
<1>3. QED
  BY <1>1, <1>2, Invariance, PTL DEF Spec

(* No step adds to the load of a node, of a project or, in sequential mode, *)
(* of the fleet beyond its limit: the counts that leaseNext compares are    *)
(* taken after the sweep and before the one grant that raises them.         *)
THEOREM LimitsHold == Spec => CapsRespected
<1> DEFINE Capped ==
      /\ \A n \in Nodes :
           NodeLoad(db', n) > NodeLoad(db, n) => NodeLoad(db', n) <= NodeMax[n]
      /\ \A p \in Projects :
           ProjectLoad(db', p) > ProjectLoad(db, p) => ProjectLoad(db', p) <= MaxRunning[p]
      /\ sched.mode = "sequential" /\ GlobalLoad(db') > GlobalLoad(db) =>
           GlobalLoad(db') <= sched.max
<1>1. ASSUME IInv, IsFiniteSet(Running(db)), [Next]_vars
      PROVE  Capped
  <2>1. CASE Fewer(db, db')
    <3>1. /\ GlobalLoad(db') <= GlobalLoad(db)
          /\ GlobalLoad(db') \in Nat /\ GlobalLoad(db) \in Nat
          /\ \A n : /\ NodeLoad(db', n) <= NodeLoad(db, n)
                    /\ NodeLoad(db', n) \in Nat /\ NodeLoad(db, n) \in Nat
          /\ \A p : /\ ProjectLoad(db', p) <= ProjectLoad(db, p)
                    /\ ProjectLoad(db', p) \in Nat /\ ProjectLoad(db, p) \in Nat
      BY <1>1, <2>1, FewerLoads
    <3>2. QED
      BY <3>1
  <2>2. ASSUME NEW d \in Database, NEW n \in Nodes, NEW r \in Runs, NEW i \in Pos,
               Fewer(db, d), MayLease(d, n), Candidate(d, r, i), db' = Granted(d, n, r, i)
        PROVE  Capped
    <3>1. /\ IsFiniteSet(Running(d))
          /\ GlobalLoad(d) <= GlobalLoad(db) /\ GlobalLoad(db) \in Nat
          /\ \A m : NodeLoad(d, m) <= NodeLoad(db, m) /\ NodeLoad(db, m) \in Nat
          /\ \A p : ProjectLoad(d, p) <= ProjectLoad(db, p) /\ ProjectLoad(db, p) \in Nat
      BY <1>1, <2>2, FewerLoads
    <3>2. /\ GlobalLoad(d) \in Nat /\ GlobalLoad(db') \in Nat
          /\ GlobalLoad(db') <= GlobalLoad(d) + 1
          /\ \A m : /\ NodeLoad(d, m) \in Nat /\ NodeLoad(db', m) \in Nat
                    /\ NodeLoad(db', m) <= NodeLoad(d, m) + (IF m = n THEN 1 ELSE 0)
          /\ \A p : /\ ProjectLoad(d, p) \in Nat /\ ProjectLoad(db', p) \in Nat
                    /\ ProjectLoad(db', p) <=
                         ProjectLoad(d, p) + (IF p = ProjectOf[r] THEN 1 ELSE 0)
      BY <2>2, <3>1, GrantedLoads
    <3>3. /\ NodeLoad(d, n) < NodeMax[n] /\ NodeMax[n] \in Nat
          /\ ProjectLoad(d, ProjectOf[r]) < MaxRunning[ProjectOf[r]]
          /\ MaxRunning[ProjectOf[r]] \in Nat
      BY <2>2, ProjectsAssumption DEF MayLease, Candidate
    <3>4. /\ sched.mode = "sequential" => GlobalLoad(d) < sched.max
          /\ sched.max \in Nat
      <4>1. sched.mode = "sequential" => GlobalLoad(d) < sched.max
        BY <2>2 DEF MayLease
      <4>2. sched.max \in GlobalCaps
        BY <1>1 DEF IInv, TypeOK
      <4>3. ASSUME NEW max \in GlobalCaps
            PROVE  max \in Nat
        BY SchedulerAssumption
      <4>4. sched.max \in Nat
        BY <4>2, <4>3
      <4>5. QED
        BY <4>1, <4>4
    <3>5. ASSUME NEW m \in Nodes, NodeLoad(db', m) > NodeLoad(db, m)
          PROVE  NodeLoad(db', m) <= NodeMax[m]
      <4>1. m = n
        BY <3>1, <3>2, <3>5
      <4>2. QED
        BY <3>2, <3>3, <4>1
    <3>6. ASSUME NEW p \in Projects, ProjectLoad(db', p) > ProjectLoad(db, p)
          PROVE  ProjectLoad(db', p) <= MaxRunning[p]
      <4>1. p = ProjectOf[r]
        BY <3>1, <3>2, <3>6
      <4>2. QED
        BY <3>2, <3>3, <4>1
    <3>7. ASSUME sched.mode = "sequential"
          PROVE  GlobalLoad(db') <= sched.max
      BY <3>2, <3>4, <3>7
    <3>8. QED
      BY <3>5, <3>6, <3>7
  <2>3. QED
    BY <1>1, <2>1, <2>2, LoadStep
<1>2. IInv /\ IsFiniteSet(Running(db)) /\ [Next]_vars => [Capped]_vars
  BY <1>1
<1>3. QED
  BY <1>2, Invariance, FinitelyManyRun, PTL DEF Spec, CapsRespected

(***************************************************************************)
(* StageLease implements RunLifecycle: run by run, a step submits the run, *)
(* carries it one stage further, aborts it or leaves its promise alone.    *)
(***************************************************************************)
Finished(d, r) == {i \in Pos : d.status[r][i] = "completed"}

(* The run is as far as it was, and it is open as it was or was aborted.    *)
Kept(d, e, r) ==
  /\ e.len[r] = d.len[r] /\ Finished(e, r) = Finished(d, r)
  /\ \/ e.run[r] = d.run[r]
     \/ d.run[r] \in OpenRun /\ e.run[r] \in OpenRun \cup {"failed", "cancelled"}

Submitted(r) ==
  /\ db.run[r] = "absent" /\ db'.run[r] \in OpenRun
  /\ db'.len[r] \in Pos /\ Finished(db', r) = {}

(* Its stages before k were completed, and now stage k is.                  *)
Advanced(r, k) ==
  /\ db.run[r] \in OpenRun
  /\ Finished(db, r) = 1..(k - 1) /\ Finished(db', r) = 1..k
  /\ db'.len[r] = db.len[r]
  /\ IF k = db.len[r] THEN db'.run[r] = "completed" ELSE db'.run[r] \in OpenRun

(* Keeping composes, and whatever recedes keeps.                            *)
LEMMA KeptChain ==
  ASSUME NEW r \in Runs, NEW c, NEW d, NEW e, Kept(c, d, r), Kept(d, e, r)
  PROVE  Kept(c, e, r)
BY DEF Kept, OpenRun

LEMMA RecedesKeeps ==
  ASSUME NEW d, NEW e, Recedes(d, e), NEW r \in Runs
  PROVE  Kept(d, e, r)
<1>1. \A i \in Pos : e.status[r][i] = "completed" <=> d.status[r][i] = "completed"
  BY DEF Recedes, OpenStage
<1>2. QED
  BY <1>1 DEF Recedes, Kept, Finished

(* A grant and a decision complete nothing.                                 *)
LEMMA GrantedKeeps ==
  ASSUME NEW d \in Database, NEW n \in Nodes, NEW r \in Runs, NEW i \in Pos,
         Candidate(d, r, i), NEW q \in Runs
  PROVE  Kept(d, Granted(d, n, r, i), q)
<1> DEFINE e == Granted(d, n, r, i)
<1>1. /\ e.len = d.len
      /\ e.run[r] = "running" /\ \A p \in Runs : p # r => e.run[p] = d.run[p]
      /\ e.status[r][i] = "running"
      /\ \A p \in Runs, j \in Pos : p # r \/ j # i => e.status[p][j] = d.status[p][j]
  BY GrantedColumns
<1>2. d.status[r][i] = "queued" /\ d.run[r] \in OpenRun
  BY DEF Candidate, OpenRun
<1> HIDE DEF e
<1>3. \A j \in Pos : e.status[q][j] = "completed" <=> d.status[q][j] = "completed"
  BY <1>1, <1>2
<1>4. Kept(d, e, q)
  BY <1>1, <1>2, <1>3 DEF Kept, Finished, OpenRun
<1>5. QED
  BY <1>4 DEF e

LEMMA DecidedKeeps ==
  ASSUME NEW d, Good(d), NEW r \in Runs, NEW i \in Pos, NEW approve \in BOOLEAN,
         d.status[r][i] = "waiting_approval", NEW q \in Runs
  PROVE  Kept(d, Decided(d, r, i, approve), q)
<1> DEFINE e == Decided(d, r, i, approve)
<1>1. d \in Database /\ d.run[r] \in OpenRun
  BY FrontierAt DEF Good
<1>2. /\ e.len = d.len
      /\ e.run[r] \in {"running", "cancelled"}
      /\ \A p \in Runs : p # r => e.run[p] = d.run[p]
      /\ e.status[r][i] \in {"queued", "cancelled"}
      /\ \A p \in Runs, j \in Pos : p # r \/ j # i => e.status[p][j] = d.status[p][j]
  BY <1>1 DEF Decided, Database, PerStage
<1> HIDE DEF e
<1>3. \A j \in Pos : e.status[q][j] = "completed" <=> d.status[q][j] = "completed"
  BY <1>2
<1>4. Kept(d, e, q)
  BY <1>1, <1>2, <1>3 DEF Kept, Finished, OpenRun
<1>5. QED
  BY <1>4 DEF e

(* The completed stages of a run whose stage i runs are those before i.     *)
LEMMA FinishedBefore ==
  ASSUME NEW d, Good(d), NEW r \in Runs, NEW i \in Pos, d.status[r][i] = "running"
  PROVE  Finished(d, r) = 1..(i - 1)
<1>1. /\ Frontier(d, r, i) /\ i \in 1..d.len[r] /\ d.len[r] \in Pos /\ d.run[r] \in OpenRun
  BY FrontierAt
<1>2. ASSUME NEW j \in Pos
      PROVE  d.status[r][j] = "completed" <=> j \in 1..(i - 1)
  <2>1. CASE j < i
    BY <1>1, <2>1, StagesAssumption DEF Frontier, Pos
  <2>2. CASE j = i
    BY <2>2, StagesAssumption DEF Pos
  <2>3. CASE j > i
    <3>1. d.status[r][j] \in {"absent", "cancelled", "pending"}
      BY <1>1, <2>3, StagesAssumption DEF Frontier, Pos
    <3>2. QED
      BY <2>3, <3>1, StagesAssumption DEF Pos
  <2>4. QED
    BY <2>1, <2>2, <2>3, StagesAssumption DEF Pos
<1>3. 1..(i - 1) \subseteq Pos
  BY StagesAssumption DEF Pos
<1>4. QED
  BY <1>2, <1>3 DEF Finished

(* A completion carries its run one stage further and keeps the others.     *)
LEMMA CompletedAdvances ==
  ASSUME NEW d, Good(d), NEW r \in Runs, NEW i \in Pos, NEW l \in Leases,
         Recedes(db, d), d.status[r][i] = "running", db' = Completed(d, r, i, l),
         NEW q \in Runs
  PROVE  Kept(db, db', q) \/ Advanced(q, i)
<1>1. d \in Database /\ d.run[r] \in OpenRun /\ Finished(d, r) = 1..(i - 1)
  BY FrontierAt, FinishedBefore DEF Good
<1>2. Kept(db, d, q)
  BY RecedesKeeps
<1>3. CASE q # r
  <2>1. db'.run[q] = d.run[q] /\ db'.len = d.len /\ db'.status[q] = d.status[q]
    BY <1>1, <1>3, CompletedColumns
  <2>2. Kept(d, db', q)
    BY <2>1 DEF Kept, Finished
  <2>3. QED
    BY <1>2, <2>2, KeptChain
<1>4. CASE q = r
  <2> DEFINE last == i = d.len[r]
             gate == i + 1 = d.len[r] /\ d.gated[r]
  <2>1. /\ db'.len = d.len
        /\ db'.run[r] = IF last THEN "completed"
                        ELSE IF gate THEN "waiting_approval" ELSE "running"
        /\ \A j \in Pos : db'.status[r][j] =
             IF j = i THEN "completed"
             ELSE IF j = i + 1 /\ ~last
                    THEN IF gate THEN "waiting_approval" ELSE "queued"
                    ELSE d.status[r][j]
    BY <1>1, CompletedColumns
  <2> HIDE DEF last, gate
  <2>2. \A j \in Pos : d.status[r][j] = "completed" <=> j \in 1..(i - 1)
    BY <1>1 DEF Finished
  <2>3. \A j \in Pos : db'.status[r][j] = "completed" <=> j \in 1..i
    <3> SUFFICES ASSUME NEW j \in Pos
                 PROVE  db'.status[r][j] = "completed" <=> j \in 1..i
      OBVIOUS
    <3>1. CASE j = i
      BY <2>1, <3>1, StagesAssumption DEF Pos
    <3>2. CASE j = i + 1
      <4>1. ~(j \in 1..(i - 1)) /\ ~(j \in 1..i)
        BY <3>2, StagesAssumption DEF Pos
      <4>2. QED
        BY <2>1, <2>2, <3>2, <4>1, StagesAssumption DEF Pos
    <3>3. CASE j # i /\ j # i + 1
      <4>1. db'.status[r][j] = d.status[r][j]
        BY <2>1, <3>3
      <4>2. j \in 1..(i - 1) <=> j \in 1..i
        BY <3>3, StagesAssumption DEF Pos
      <4>3. QED
        BY <2>2, <4>1, <4>2
    <3>4. QED
      BY <3>1, <3>2, <3>3
  <2>4. 1..i \subseteq Pos
    BY StagesAssumption DEF Pos
  <2>5. Finished(db', r) = 1..i
    BY <2>3, <2>4 DEF Finished
  <2>6. /\ db.run[r] \in OpenRun /\ db.len[r] = d.len[r]
        /\ Finished(db, r) = 1..(i - 1)
    BY <1>1, <1>2, <1>4 DEF Kept, OpenRun
  <2>7. IF i = db.len[r] THEN db'.run[r] = "completed" ELSE db'.run[r] \in OpenRun
    BY <2>1, <2>6 DEF last, OpenRun
  <2>8. QED
    BY <1>4, <2>1, <2>5, <2>6, <2>7 DEF Advanced
<1>5. QED
  BY <1>3, <1>4

(* What a step does to the promise made for run q.                          *)
LEMMA RunStep ==
  ASSUME IInv, [Next]_vars, NEW q \in Runs
  PROVE  Kept(db, db', q) \/ Submitted(q) \/ \E k \in Pos : Advanced(q, k)
<1>1. Step /\ db \in Database
  BY NextStep DEF IInv, TypeOK
<1>2. CASE Recedes(db, db')
  BY <1>2, RecedesKeeps
<1>3. ASSUME NEW r \in Runs, NEW n \in Pos, NEW gate \in BOOLEAN, CreateRun(r, n, gate)
      PROVE  Kept(db, db', q) \/ Submitted(q)
  <2>1. /\ db.run[r] = "absent"
        /\ db'.run[r] \in {"waiting_approval", "queued"} /\ db'.len[r] = n
        /\ \A j \in Pos : db'.status[r][j] # "completed"
        /\ \A p \in Runs : p # r => /\ db'.run[p] = db.run[p] /\ db'.len[p] = db.len[p]
                                    /\ db'.status[p] = db.status[p]
    BY <1>1, <1>3 DEF CreateRun, Database, PerStage
  <2>2. CASE q = r
    BY <2>1, <2>2 DEF Submitted, Finished, OpenRun
  <2>3. CASE q # r
    BY <2>1, <2>3 DEF Kept, Finished
  <2>4. QED
    BY <2>2, <2>3
<1>4. ASSUME NEW d, Recedes(db, d), Good(d), LeaseStep(d)
      PROVE  Kept(db, db', q) \/ \E k \in Pos : Advanced(q, k)
  <2>1. d \in Database /\ Kept(db, d, q)
    BY <1>4, RecedesKeeps DEF Good
  <2>2. ASSUME NEW r \in Runs, NEW i \in Pos, NEW n \in Nodes,
               Candidate(d, r, i), db' = Granted(d, n, r, i)
        PROVE  Kept(db, db', q)
    BY <2>1, <2>2, GrantedKeeps, KeptChain
  <2>3. ASSUME NEW r \in Runs, NEW i \in Pos, NEW l \in Leases,
               d.status[r][i] = "running", db' = Completed(d, r, i, l)
        PROVE  Kept(db, db', q) \/ \E k \in Pos : Advanced(q, k)
    BY <1>4, <2>3, CompletedAdvances
  <2>4. QED
    BY <1>4, <2>2, <2>3 DEF LeaseStep
<1>5. ASSUME NEW d, Recedes(db, d), Good(d), DecisionStep(d)
      PROVE  Kept(db, db', q)
  <2>1. Kept(db, d, q)
    BY <1>5, RecedesKeeps
  <2>2. Kept(d, db', q)
    BY <1>5, DecidedKeeps DEF DecisionStep
  <2>3. QED
    BY <2>1, <2>2, KeptChain
<1>6. QED
  BY <1>1, <1>2, <1>3, <1>4, <1>5 DEF Step

(* The dispatch of stages carries out what RunLifecycle promises to who     *)
(* submitted a run: its stages are completed in order and each once, it is  *)
(* completed exactly with the last, and once ended it never changes.        *)
THEOREM DispatchKeepsThePromise == Spec => ImplementsLifecycle
<1>1. Init => Lifecycle!Init
  <2> SUFFICES ASSUME Init
               PROVE  Lifecycle!Init
    OBVIOUS
  <2>1. \A r \in Runs : PhaseOf(db.run[r]) = "absent"
    BY DEF Init, PhaseOf, OpenRun
  <2>2. \A r \in Runs : {i \in Pos : db.status[r][i] = "completed"} = {}
    BY DEF Init, Everywhere
  <2>3. \A r \in Runs : Cardinality({i \in Pos : db.status[r][i] = "completed"}) = 0
    BY <2>2, FS_EmptySet
  <2>4. db.len = [r \in Runs |-> 0]
    BY DEF Init
  <2>5. QED
    BY <2>1, <2>3, <2>4 DEF Lifecycle!Init
<1>2. ASSUME IInv, [Next]_vars
      PROVE  Lifecycle!Next
  <2> SUFFICES ASSUME NEW r \in Runs
               PROVE  \/ Lifecycle!Submit(r) \/ Lifecycle!Advance(r)
                      \/ Lifecycle!Abort(r) \/ Lifecycle!Stay(r)
    BY DEF Lifecycle!Next
  <2> DEFINE phase == [q \in Runs |-> PhaseOf(db.run[q])]
             done == [q \in Runs |-> Cardinality(Finished(db, q))]
  <2>1. /\ phase[r] = PhaseOf(db.run[r]) /\ phase'[r] = PhaseOf(db'.run[r])
        /\ done[r] = Cardinality(Finished(db, r))
        /\ done'[r] = Cardinality(Finished(db', r))
    BY DEF Finished
  <2>2. ASSUME Kept(db, db', r)
        PROVE  Lifecycle!Abort(r) \/ Lifecycle!Stay(r)
    <3>1. \/ PhaseOf(db'.run[r]) = PhaseOf(db.run[r])
          \/ PhaseOf(db.run[r]) = "open" /\ PhaseOf(db'.run[r]) \in {"failed", "cancelled"}
      BY <2>2 DEF Kept, PhaseOf, OpenRun
    <3>2. done'[r] = done[r] /\ db'.len[r] = db.len[r]
      BY <2>1, <2>2 DEF Kept
    <3>3. QED
      BY <2>1, <3>1, <3>2 DEF Lifecycle!Abort, Lifecycle!Stay, Finished
  <2>3. ASSUME Submitted(r)
        PROVE  Lifecycle!Submit(r)
    <3>1. PhaseOf(db.run[r]) = "absent" /\ PhaseOf(db'.run[r]) = "open"
      BY <2>3 DEF Submitted, PhaseOf, OpenRun
    <3>2. done'[r] = 0
      BY <2>1, <2>3, FS_EmptySet DEF Submitted
    <3>3. db'.len[r] \in 1..MaxStages
      BY <2>3 DEF Submitted, Pos
    <3>4. QED
      BY <2>1, <3>1, <3>2, <3>3 DEF Lifecycle!Submit, Finished
  <2>4. ASSUME NEW k \in Pos, Advanced(r, k)
        PROVE  Lifecycle!Advance(r)
    <3>1. done[r] = k - 1 /\ done'[r] = k
      <4>1. k - 1 \in Int /\ k \in Int /\ 1 \in Int /\ k >= 1
        BY StagesAssumption DEF Pos
      <4>2. Cardinality(1..(k - 1)) = k - 1 /\ Cardinality(1..k) = k
        BY <4>1, FS_Interval
      <4>3. QED
        BY <2>1, <2>4, <4>2 DEF Advanced
    <3>2. done'[r] = done[r] + 1 /\ done[r] + 1 = k
      BY <3>1, StagesAssumption DEF Pos
    <3>3. /\ PhaseOf(db.run[r]) = "open"
          /\ PhaseOf(db'.run[r]) = IF k = db.len[r] THEN "completed" ELSE "open"
          /\ db'.len[r] = db.len[r]
      BY <2>4 DEF Advanced, PhaseOf, OpenRun
    <3>4. QED
      BY <2>1, <3>2, <3>3 DEF Lifecycle!Advance, Finished
  <2>5. QED
    BY <1>2, <2>2, <2>3, <2>4, RunStep
<1>3. IInv /\ [Next]_vars => [Lifecycle!Next]_(Lifecycle!vars)
  BY <1>2
<1>4. QED
  BY <1>1, <1>3, Invariance, PTL DEF Spec, ImplementsLifecycle, Lifecycle!Spec

(***************************************************************************)
(* A stage that sent a risky call which was not rejected is not leased      *)
(* again.  This holds only where the sweep always judges a lease before its *)
(* calls are closed: the overview closes them first, and a call that a      *)
(* restart cut off is closed while its lease still runs.  Both are switched *)
(* off by the hypotheses of the theorem, and with the overview the property *)
(* is violated.                                                            *)
(***************************************************************************)
(* Not inductive without the last conjunct: what keeps the sweep from       *)
(* queueing the stage is that a call of its lease is known to be sent.      *)
Sent(d) ==
  \A r \in Runs, i \in Pos :
    d.effect[r][i] # 0 =>
      /\ d.attempt[r][i] = d.effect[r][i] /\ d.status[r][i] # "queued"
      /\ d.status[r][i] = "running" => d.executing[r][i] \/ d.settled[r][i]

(* The sweep does not queue a stage with a call of the lease that expired.  *)
LEMMA SweepSent ==
  ASSUME NEW d \in Database, Sent(d)
  PROVE  Sent(Sweep(d))
<1> DEFINE e == Sweep(d)
<1>1. e.effect = d.effect /\ e.attempt = d.attempt
  BY SweepColumns DEF Sweep, Released, Database
<1>2. \A r \in Runs, i \in Pos :
        /\ e.status[r][i] =
             IF Expired(d, r, i)
               THEN IF Retrying(d, r, i) THEN "queued" ELSE "failed"
               ELSE d.status[r][i]
        /\ e.executing[r][i] = (~Expired(d, r, i) /\ d.executing[r][i])
        /\ e.settled[r][i] = (~Expired(d, r, i) /\ d.settled[r][i])
  BY SweepColumns
<1> HIDE DEF e
<1>3. ASSUME NEW r \in Runs, NEW i \in Pos, e.effect[r][i] # 0
      PROVE  /\ e.attempt[r][i] = e.effect[r][i] /\ e.status[r][i] # "queued"
             /\ e.status[r][i] = "running" => e.executing[r][i] \/ e.settled[r][i]
  <2>1. /\ d.attempt[r][i] = d.effect[r][i] /\ d.status[r][i] # "queued"
        /\ d.status[r][i] = "running" => d.executing[r][i] \/ d.settled[r][i]
    BY <1>1, <1>3 DEF Sent
  <2>2. CASE Expired(d, r, i)
    <3>1. ~Retrying(d, r, i)
      BY <2>1, <2>2 DEF Expired, Retrying
    <3>2. QED
      BY <1>1, <1>2, <2>1, <2>2, <3>1
  <2>3. CASE ~Expired(d, r, i)
    BY <1>1, <1>2, <2>1, <2>3
  <2>4. QED
    BY <2>2, <2>3
<1>4. QED
  BY <1>3 DEF Sent, e

(* A cancelled stage is not queued.                                         *)
LEMMA CancelSent ==
  ASSUME NEW d \in Database, Sent(d), NEW R
  PROVE  Sent(CancelRuns(d, R))
<1> DEFINE e == CancelRuns(d, R)
           hit(r, i) == r \in R /\ d.run[r] \in OpenRun /\ d.status[r][i] \in OpenStage
<1>1. e.effect = d.effect /\ e.attempt = d.attempt
  BY CancelColumns DEF CancelRuns, Released, Database
<1>2. \A r \in Runs, i \in Pos :
        /\ e.status[r][i] = IF hit(r, i) THEN "cancelled" ELSE d.status[r][i]
        /\ e.executing[r][i] = (~hit(r, i) /\ d.executing[r][i])
        /\ e.settled[r][i] = (~hit(r, i) /\ d.settled[r][i])
  BY CancelColumns
<1> HIDE DEF e, hit
<1>3. ASSUME NEW r \in Runs, NEW i \in Pos, e.effect[r][i] # 0
      PROVE  /\ e.attempt[r][i] = e.effect[r][i] /\ e.status[r][i] # "queued"
             /\ e.status[r][i] = "running" => e.executing[r][i] \/ e.settled[r][i]
  <2>1. /\ d.attempt[r][i] = d.effect[r][i] /\ d.status[r][i] # "queued"
        /\ d.status[r][i] = "running" => d.executing[r][i] \/ d.settled[r][i]
    BY <1>1, <1>3 DEF Sent
  <2>2. CASE hit(r, i)
    BY <1>1, <1>2, <2>1, <2>2
  <2>3. CASE ~hit(r, i)
    BY <1>1, <1>2, <2>1, <2>3
  <2>4. QED
    BY <2>2, <2>3
<1>4. QED
  BY <1>3 DEF Sent, e

(* After a sweep there is no expired lease whose calls could be closed.     *)
LEMMA SweptHasNoneExpired ==
  ASSUME NEW d \in Database, NEW r \in Runs, NEW i \in Pos
  PROVE  ~Expired(Sweep(d), r, i)
<1> DEFINE e == Sweep(d)
<1>1. /\ e.status[r][i] =
           IF Expired(d, r, i)
             THEN IF Retrying(d, r, i) THEN "queued" ELSE "failed"
             ELSE d.status[r][i]
      /\ e.ttl[r][i] = IF Expired(d, r, i) THEN -1 ELSE d.ttl[r][i]
  BY SweepColumns
<1> HIDE DEF e
<1>2. ~Expired(e, r, i)
  BY <1>1 DEF Expired
<1>3. QED
  BY <1>2 DEF e

(* A candidate has sent nothing, and the other stages are left alone.       *)
LEMMA GrantedSent ==
  ASSUME NEW d \in Database, Sent(d), NEW n \in Nodes, NEW r \in Runs, NEW i \in Pos,
         Candidate(d, r, i)
  PROVE  Sent(Granted(d, n, r, i))
<1> DEFINE e == Granted(d, n, r, i)
<1>1. /\ e.effect = d.effect /\ e.executing = d.executing /\ e.settled = d.settled
      /\ \A q \in Runs, j \in Pos : q # r \/ j # i =>
           e.status[q][j] = d.status[q][j] /\ e.attempt[q][j] = d.attempt[q][j]
  <2>1. e.effect = d.effect
    BY DEF Granted, Database
  <2>2. QED
    BY <2>1, GrantedColumns
<1>2. d.effect[r][i] = 0
  BY DEF Candidate, Sent
<1> HIDE DEF e
<1>3. Sent(e)
  BY <1>1, <1>2 DEF Sent
<1>4. QED
  BY <1>3 DEF e

(* A stage that waits behind a completed one has sent nothing.              *)
LEMMA CompletedSent ==
  ASSUME NEW d, Good(d), Sent(d), NEW r \in Runs, NEW i \in Pos, NEW l \in Leases,
         d.status[r][i] = "running"
  PROVE  Sent(Completed(d, r, i, l))
<1> DEFINE e == Completed(d, r, i, l)
           last == i = d.len[r]
           gate == i + 1 = d.len[r] /\ d.gated[r]
<1>0. d \in Database
  BY DEF Good
<1>1. e.effect = d.effect
  BY <1>0 DEF Completed, Database
<1>2. /\ e.attempt = d.attempt
      /\ \A j \in Pos : e.status[r][j] =
           IF j = i THEN "completed"
           ELSE IF j = i + 1 /\ ~last
                  THEN IF gate THEN "waiting_approval" ELSE "queued"
                  ELSE d.status[r][j]
      /\ \A q \in Runs : q # r => e.status[q] = d.status[q]
      /\ \A q \in Runs, j \in Pos : q # r \/ j # i =>
           e.executing[q][j] = d.executing[q][j] /\ e.settled[q][j] = d.settled[q][j]
  BY <1>0, CompletedColumns
<1>3. ASSUME NEW j \in Pos, j = i + 1, ~last
      PROVE  d.effect[r][j] = 0
  <2>1. Frontier(d, r, i) /\ i \in 1..d.len[r] /\ d.len[r] \in Pos /\ d.run[r] \in OpenRun
    BY FrontierAt
  <2>2. j \in (i + 1)..d.len[r]
    BY <1>3, <2>1, StagesAssumption DEF Pos
  <2>3. d.status[r][j] = "pending"
    BY <2>1, <2>2 DEF Frontier, OpenRun
  <2>4. d.attempt[r][j] = 0
    BY <1>3, <2>3 DEF Good, Ledger
  <2>5. QED
    BY <2>4 DEF Sent
<1> HIDE DEF e, last, gate
<1>4. ASSUME NEW q \in Runs, NEW j \in Pos, e.effect[q][j] # 0
      PROVE  /\ e.attempt[q][j] = e.effect[q][j] /\ e.status[q][j] # "queued"
             /\ e.status[q][j] = "running" => e.executing[q][j] \/ e.settled[q][j]
  <2>1. /\ d.attempt[q][j] = d.effect[q][j] /\ d.status[q][j] # "queued"
        /\ d.status[q][j] = "running" => d.executing[q][j] \/ d.settled[q][j]
    BY <1>1, <1>2, <1>4 DEF Sent
  <2>2. CASE q = r /\ j = i
    BY <1>1, <1>2, <2>1, <2>2
  <2>3. CASE q # r
    BY <1>1, <1>2, <2>1, <2>3
  <2>4. CASE q = r /\ j # i
    BY <1>1, <1>2, <1>3, <1>4, <2>1, <2>4
  <2>5. QED
    BY <2>2, <2>3, <2>4
<1>5. QED
  BY <1>4 DEF Sent, e

(* failLease asks the same question as the sweep.                           *)
LEMMA FailedSent ==
  ASSUME NEW d \in Database, Sent(d), NEW r \in Runs, NEW i \in Pos, NEW l \in Leases,
         d.status[r][i] = "running"
  PROVE  Sent(Failed(d, r, i, l))
<1> DEFINE e == Failed(d, r, i, l)
           again == Retrying(d, r, i)
<1>0. e.effect = d.effect
  BY DEF Failed, Database
<1>1. /\ e.attempt = d.attempt
      /\ e.status[r][i] = IF again THEN "queued" ELSE "failed"
      /\ \A q \in Runs, j \in Pos : q # r \/ j # i =>
           /\ e.status[q][j] = d.status[q][j]
           /\ e.executing[q][j] = d.executing[q][j]
           /\ e.settled[q][j] = d.settled[q][j]
  BY FailedColumns
<1>2. d.effect[r][i] # 0 => ~again
  BY DEF Sent, Retrying
<1> HIDE DEF e, again
<1>3. ASSUME NEW q \in Runs, NEW j \in Pos, e.effect[q][j] # 0
      PROVE  /\ e.attempt[q][j] = e.effect[q][j] /\ e.status[q][j] # "queued"
             /\ e.status[q][j] = "running" => e.executing[q][j] \/ e.settled[q][j]
  <2>1. CASE q = r /\ j = i
    BY <1>0, <1>1, <1>2, <1>3, <2>1 DEF Sent
  <2>2. CASE q # r \/ j # i
    BY <1>0, <1>1, <1>3, <2>2 DEF Sent
  <2>3. QED
    BY <2>1, <2>2
<1>4. QED
  BY <1>3 DEF Sent, e

(* Every step but those of the console and of a restart keeps it.           *)
LEMMA NextSent ==
  ASSUME ~Console, ~ToolCrashes, IInv, Sent(db), [Next]_vars
  PROVE  Sent(db')
<1>1. /\ Good(db) /\ db \in Database
  BY DEF IInv, Good, TypeOK
<1>2. CASE db' = db
  BY <1>2
<1>3. ASSUME NEW r \in Runs, NEW n \in Pos, NEW gate \in BOOLEAN, CreateRun(r, n, gate)
      PROVE  Sent(db')
  <2>1. /\ db'.effect = db.effect /\ db'.attempt = db.attempt
        /\ db'.executing = db.executing /\ db'.settled = db.settled
        /\ \A q \in Runs : q # r => db'.status[q] = db.status[q]
    BY <1>1, <1>3 DEF CreateRun, Database
  <2>2. ASSUME NEW j \in Pos
        PROVE  db.effect[r][j] = 0
    <3>1. db.status[r][j] = "absent"
      BY <1>1, <1>3 DEF CreateRun, Good, Chain
    <3>2. db.attempt[r][j] = 0
      BY <1>1, <3>1 DEF Good, Ledger
    <3>3. QED
      BY <3>2 DEF Sent
  <2>3. QED
    BY <2>1, <2>2 DEF Sent
<1>4. ASSUME NEW r \in Runs, CancelRun(r)
      PROVE  Sent(db')
  BY <1>1, <1>4, CancelSent DEF CancelRun
<1>5. ASSUME NEW r \in Runs, NEW i \in Pos, NEW n \in Nodes, NEW l \in Leases,
             BeginToolCall(n, r, i, l)
      PROVE  Sent(db')
  <2>1. /\ db.status[r][i] = "running" /\ db.attempt[r][i] = l
        /\ db' = [db EXCEPT !.executing[r][i] = TRUE,
                            !.effect[r][i]    = IF @ = 0 THEN l ELSE @]
    BY <1>5 DEF BeginToolCall, Holds
  <2>2. /\ db'.status = db.status /\ db'.attempt = db.attempt /\ db'.settled = db.settled
    BY <1>1, <2>1 DEF Database
  <2>3. /\ db'.executing[r][i]
        /\ db'.effect[r][i] = IF db.effect[r][i] = 0 THEN l ELSE db.effect[r][i]
    BY <1>1, <2>1 DEF Database, PerStage
  <2>4. \A q \in Runs, j \in Pos : q # r \/ j # i => db'.executing[q][j] = db.executing[q][j]
    BY <1>1, <2>1 DEF Database, PerStage
  <2>5. \A q \in Runs, j \in Pos : q # r \/ j # i => db'.effect[q][j] = db.effect[q][j]
    BY <1>1, <2>1 DEF Database, PerStage
  <2>6. ASSUME NEW q \in Runs, NEW j \in Pos, db'.effect[q][j] # 0
        PROVE  /\ db'.attempt[q][j] = db'.effect[q][j] /\ db'.status[q][j] # "queued"
               /\ db'.status[q][j] = "running" => db'.executing[q][j] \/ db'.settled[q][j]
    <3>1. CASE q = r /\ j = i
      BY <2>1, <2>2, <2>3, <3>1 DEF Sent
    <3>2. CASE q # r \/ j # i
      BY <2>2, <2>4, <2>5, <2>6, <3>2 DEF Sent
    <3>3. QED
      BY <3>1, <3>2
  <2>7. QED
    BY <2>6 DEF Sent
<1>6. ASSUME NEW r \in Runs, NEW i \in Pos, FinishToolCall(r, i)
      PROVE  Sent(db')
  <2>1. db' = [db EXCEPT !.executing[r][i] = FALSE, !.settled[r][i] = TRUE]
    BY <1>6 DEF FinishToolCall
  <2>2. db'.status = db.status /\ db'.attempt = db.attempt /\ db'.effect = db.effect
    BY <1>1, <2>1 DEF Database
  <2>3. db'.settled[r][i]
    BY <1>1, <2>1 DEF Database, PerStage
  <2>4. \A q \in Runs, j \in Pos : q # r \/ j # i => db'.executing[q][j] = db.executing[q][j]
    BY <1>1, <2>1 DEF Database, PerStage
  <2>5. \A q \in Runs, j \in Pos : q # r \/ j # i => db'.settled[q][j] = db.settled[q][j]
    BY <1>1, <2>1 DEF Database, PerStage
  <2>6. QED
    BY <2>2, <2>3, <2>4, <2>5 DEF Sent
<1>6a. ASSUME NEW r \in Runs, NEW i \in Pos, RejectToolCall(r, i)
       PROVE  Sent(db')
  <2>1. db' = [db EXCEPT !.executing[r][i] = FALSE,
                         !.effect[r][i]    = IF db.settled[r][i] THEN @ ELSE 0]
    BY <1>6a DEF RejectToolCall
  <2>2. db'.status = db.status /\ db'.attempt = db.attempt /\ db'.settled = db.settled
    BY <1>1, <2>1 DEF Database
  <2>3. db'.effect[r][i] # 0 => db.settled[r][i] /\ db'.effect[r][i] = db.effect[r][i]
    BY <1>1, <2>1 DEF Database, PerStage
  <2>4. \A q \in Runs, j \in Pos : q # r \/ j # i => db'.executing[q][j] = db.executing[q][j]
    BY <1>1, <2>1 DEF Database, PerStage
  <2>5. \A q \in Runs, j \in Pos : q # r \/ j # i => db'.effect[q][j] = db.effect[q][j]
    BY <1>1, <2>1 DEF Database, PerStage
  <2>6. ASSUME NEW q \in Runs, NEW j \in Pos, db'.effect[q][j] # 0
        PROVE  /\ db'.attempt[q][j] = db'.effect[q][j] /\ db'.status[q][j] # "queued"
               /\ db'.status[q][j] = "running" => db'.executing[q][j] \/ db'.settled[q][j]
    <3>1. CASE q = r /\ j = i
      BY <2>2, <2>3, <2>6, <3>1 DEF Sent
    <3>2. CASE q # r \/ j # i
      BY <2>2, <2>4, <2>5, <2>6, <3>2 DEF Sent
    <3>3. QED
      BY <3>1, <3>2
  <2>7. QED
    BY <2>6 DEF Sent
<1>7. ASSUME NEW d \in Database, Sent(d), NEW e, e.status = d.status, e.attempt = d.attempt,
             e.effect = d.effect, e.executing = d.executing, e.settled = d.settled
      PROVE  Sent(e)
  BY <1>7 DEF Sent
<1>8. Enforce(db) \in Database /\ Good(Enforce(db)) /\ Sent(Enforce(db))
  BY <1>1, CancelSent, CancelGood DEF Enforce, Good
<1>9. /\ Sweep(Enforce(db)) \in Database /\ Sent(Sweep(Enforce(db)))
  BY <1>8, SweepSent, SweepTyped
<1>10. ASSUME NEW r \in Runs, NEW i \in Pos, NEW n \in Nodes, NEW l \in Leases,
              RenewLease(n, r, i, l)
       PROVE  Sent(db')
  <2> DEFINE d == Enforce(db)
             e == [d EXCEPT !.ttl[r][i] = LeaseTtl]
  <2>1. db' = d \/ db' = e
    BY <1>10 DEF RenewLease
  <2>2. d \in Database /\ Sent(d)
    BY <1>8
  <2> HIDE DEF d
  <2>3. /\ e.status = d.status /\ e.attempt = d.attempt /\ e.effect = d.effect
        /\ e.executing = d.executing /\ e.settled = d.settled
    BY <2>2 DEF Database
  <2> HIDE DEF e
  <2>4. Sent(e)
    BY <1>7, <2>2, <2>3
  <2>5. QED
    BY <2>1, <2>2, <2>4
<1>11. ASSUME NEW r \in Runs, NEW i \in Pos, NEW n \in Nodes, NEW l \in Leases,
              CompleteLease(n, r, i, l)
       PROVE  Sent(db')
  BY <1>8, <1>11, CompletedSent DEF CompleteLease, Owns, Holds
<1>12. ASSUME NEW r \in Runs, NEW i \in Pos, NEW n \in Nodes, NEW l \in Leases,
              FailLease(n, r, i, l)
       PROVE  Sent(db')
  BY <1>1, <1>12, FailedSent DEF FailLease, Owns, Holds
<1>13. ASSUME NEW n \in Nodes, LeaseGranted(n)
       PROVE  Sent(db')
  BY <1>9, <1>13, GrantedSent DEF LeaseGranted
<1>14. CASE NothingToLease
  BY <1>9, <1>14 DEF NothingToLease
<1>15. CASE MaintenanceTick
  <2> DEFINE d == Sweep(Enforce(db))
  <2>1. PICK W \in Overdue(d) : db' = CloseCalls(d, W)
    BY <1>15 DEF MaintenanceTick
  <2>2. W = {}
    BY <2>1 DEF Overdue
  <2>3. d \in Database /\ Sent(d) /\ \A r \in Runs, i \in Pos : ~Expired(d, r, i)
    BY <1>8, <1>9, SweptHasNoneExpired
  <2> HIDE DEF d
  <2>4. /\ db'.status = d.status /\ db'.attempt = d.attempt /\ db'.effect = d.effect
        /\ db'.settled = d.settled
    BY <2>1, <2>3 DEF CloseCalls, Database
  <2>5. ASSUME NEW r \in Runs, NEW i \in Pos
        PROVE  db'.executing[r][i] = d.executing[r][i]
    <3>1. db'.executing[r][i] = (d.executing[r][i] /\ ~(Expired(d, r, i) \/ <<r, i>> \in W))
      BY <2>1, <2>3 DEF CloseCalls, Database
    <3>2. d.executing[r][i] \in BOOLEAN
      BY <2>3 DEF Database, PerStage
    <3>3. QED
      BY <2>2, <2>3, <3>1, <3>2
  <2>6. QED
    BY <2>3, <2>4, <2>5 DEF Sent
<1>16. ASSUME NEW n \in EdgeNodes, WipeEdge(n)
       PROVE  Sent(db')
  <2> DEFINE ttl == [r \in Runs |-> [i \in Pos |->
                       IF db.status[r][i] = "running" /\ db.node[r][i] = n
                         THEN -1 ELSE db.ttl[r][i]]]
             d == [db EXCEPT !.ttl = ttl]
  <2>1. db' = Sweep(d)
    BY <1>16 DEF WipeEdge
  <2>2. ttl \in PerStage(-1..LeaseTtl)
    BY <1>1, TtlAssumption DEF Database, PerStage
  <2> HIDE DEF ttl
  <2>3. d \in Database
    BY <1>1, <2>2 DEF Database
  <2>4. /\ d.status = db.status /\ d.attempt = db.attempt /\ d.effect = db.effect
        /\ d.executing = db.executing /\ d.settled = db.settled
    BY <1>1 DEF Database
  <2> HIDE DEF d
  <2>5. Sent(d)
    BY <1>1, <1>7, <2>4
  <2>6. QED
    BY <2>1, <2>3, <2>5, SweepSent
<1>17. CASE Tick
  <2>1. /\ db'.status = db.status /\ db'.attempt = db.attempt /\ db'.effect = db.effect
        /\ db'.executing = db.executing /\ db'.settled = db.settled
    BY <1>1, <1>17 DEF Tick, Database
  <2>2. QED
    BY <1>1, <1>7, <2>1
<1>18. CASE Next
  <2>1. CASE \E r \in Runs : ChangeIdentity(r)
    BY <1>2, <2>1 DEF ChangeIdentity
  <2>2. CASE \E m \in Modes, max \in GlobalCaps : UpdateScheduler(m, max)
    BY <1>2, <2>2 DEF UpdateScheduler
  <2>3. ~Overview /\ \A r \in Runs, i \in Pos, approve \in BOOLEAN : ~DecideApproval(r, i, approve)
    BY DEF Overview, DecideApproval
  <2>4. QED
    BY <1>3, <1>4, <1>5, <1>6, <1>6a, <1>10, <1>11, <1>12, <1>13, <1>14, <1>15, <1>16, <1>17, <1>18,
       <2>1, <2>2, <2>3 DEF Next, LeaseNext
<1>19. QED
  BY <1>2, <1>18 DEF vars

(* Once a risky call was sent under a lease and has not been rejected while  *)
(* it ran, the stage is not leased again, as long as no console reads the    *)
(* overview and no restart cuts a call off: then every lease is judged while *)
(* its calls are still on record.                                          *)
THEOREM RiskyCallsAreNotRepeated ==
  ASSUME ~Console, ~ToolCrashes
  PROVE  Spec => []RiskyCallNotRetried
<1>1. Init => Sent(db)
  BY DEF Init, Sent, Everywhere
<1>2. IInv /\ Sent(db) /\ [Next]_vars => Sent(db)'
  <2> SUFFICES ASSUME IInv, Sent(db), [Next]_vars
               PROVE  Sent(db')
    BY DEF Sent
  <2>1. QED
    BY NextSent
<1>3. Sent(db) => RiskyCallNotRetried
  BY DEF Sent, RiskyCallNotRetried
<1>4. QED
  BY <1>1, <1>2, <1>3, Invariance, PTL DEF Spec
=============================================================================
