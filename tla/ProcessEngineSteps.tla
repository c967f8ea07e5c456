-------------------- MODULE ProcessEngineSteps --------------------
(***************************************************************************)
(* What a handler of ProcessEngine does to the database: it is a finite    *)
(* chain of calls, each one of the cases below, and every case keeps the   *)
(* types.  For any graph, any instances and any bounds.  Then the order in *)
(* which the calls of a handler come, and what it keeps of stages and tokens.*)
(***************************************************************************)
EXTENDS ProcessEngine, FiniteSetTheorems, WellFoundedInduction, TLAPS

(***************************************************************************)
(* A handler is a finite chain of calls.                                   *)
(***************************************************************************)

(* Every non-empty set of numbers has a least element.                      *)
LEMMA Least ==
  ASSUME NEW S, S \subseteq Nat, S # {}
  PROVE  \E k \in S : \A j \in S : k <= j
<1>1. PICK m \in S : \A k \in S : <<k, m>> \notin OpToRel(<, Nat)
  BY WFMin, NatLessThanWellFounded, Zenon
<1>2. \A k \in S : ~(k < m)
  <2>1. TAKE k \in S
  <2>2. <<k, m>> \notin OpToRel(<, Nat)  BY <1>1
  <2>3. k \in Nat /\ m \in Nat  OBVIOUS
  <2>4. QED  BY <2>2, <2>3, Zenon DEF OpToRel
<1>3. \A k \in S : m <= k
  BY <1>2, SMT
<1>4. QED  BY <1>3, Zenon

(* The recursion on the number of calls defines a function.                 *)
IsAfter(f, d, calls, w, N) ==
  f = [n \in 0..N |-> IF n = 0 THEN {Do(d, calls)} ELSE {Step(m, w) : m \in f[n - 1]}]

LEMMA AfterExists ==
  ASSUME NEW d, NEW calls, NEW w, NEW N \in Nat
  PROVE  \E f : IsAfter(f, d, calls, w, N)
<1> DEFINE Def(f, K) == f = [n \in 0..K |-> IF n = 0 THEN {Do(d, calls)}
                                            ELSE {Step(m, w) : m \in f[n - 1]}]
           Bad == {K \in Nat : ~ \E f : Def(f, K)}
<1>1. Bad = {}
  <2>1. SUFFICES ASSUME Bad # {} PROVE FALSE
    OBVIOUS
  <2>2. PICK K \in Bad : \A j \in Bad : K <= j
    <3>1. Bad \subseteq Nat  OBVIOUS
    <3>2. QED  BY <2>1, <3>1, Least, Zenon
  <2>3. CASE K = 0
    <3>1. Def([n \in 0..0 |-> {Do(d, calls)}], 0)
      OBVIOUS
    <3> HIDE DEF Def
    <3>2. QED  BY <3>1, <2>2, <2>3
  <2>4. CASE K # 0
    <3>1. K \in Nat /\ K - 1 \in Nat  BY <2>2, <2>4
    <3>2. K - 1 \notin Bad  
      <4> HIDE DEF Bad
      <4> QED BY <2>2, <3>1
    <3>3. PICK g : Def(g, K - 1)
      <4> HIDE DEF Def
      <4>1. QED  BY <3>1, <3>2
    <3> DEFINE f == [n \in 0..K |-> IF n = 0 THEN {Do(d, calls)}
                                    ELSE {Step(m, w) : m \in g[n - 1]}]
    <3>4. \A n \in 0..K-1 : f[n] = g[n]
      BY <3>1, <3>3
    <3>5. \A n \in 0..K : n # 0 => f[n - 1] = g[n - 1]
      <4>1. \A n \in 0..K : n # 0 => n - 1 \in 0..K-1
        BY <3>1
      <4> HIDE DEF f
      <4>2. QED  BY <3>4, <4>1
    <3>6. f = [n \in 0..K |-> IF n = 0 THEN {Do(d, calls)}
                              ELSE {Step(m, w) : m \in f[n - 1]}]
      <4>1. \A n \in 0..K : (IF n = 0 THEN {Do(d, calls)} ELSE {Step(m, w) : m \in g[n - 1]})
                          = (IF n = 0 THEN {Do(d, calls)} ELSE {Step(m, w) : m \in f[n - 1]})
        BY <3>5
      <4>2. QED  BY <4>1
    <3> HIDE DEF f
    <3>7. Def(f, K)  BY <3>6
    <3> HIDE DEF Def
    <3>8. QED  BY <3>7, <2>2
  <2>5. QED  BY <2>3, <2>4
<1>2. \E f : Def(f, N)
  <2> HIDE DEF Def
  <2>1. QED  BY <1>1
<1>3. QED  BY <1>2 DEF IsAfter

(* What holds before a handler's first call and is kept by every call holds *)
(* after each of them, ...                                                  *)
LEMMA AfterIn ==
  ASSUME NEW d, NEW calls, NEW w, NEW Good,
         Do(d, calls) \in Good,
         \A m \in Good : Step(m, w) \in Good,
         NEW after, IsAfter(after, d, calls, w, MaxCalls)
  PROVE  \A n \in 0..MaxCalls : after[n] \subseteq Good
<1>0. MaxCalls \in Nat  BY LimitsAssumption
<1>1. after = [n \in 0..MaxCalls |-> IF n = 0 THEN {Do(d, calls)}
                                     ELSE {Step(m, w) : m \in after[n - 1]}]
  BY DEF IsAfter
<1> DEFINE Bad == {n \in 0..MaxCalls : ~(after[n] \subseteq Good)}
<1>2. SUFFICES ASSUME Bad # {} PROVE FALSE
  OBVIOUS
<1>3. PICK K \in Bad : \A j \in Bad : K <= j
  <2>1. Bad \subseteq Nat  BY <1>0
  <2>2. QED  BY <1>2, <2>1, Least, Zenon
<1>4. K # 0
  <2>1. after[0] = {Do(d, calls)}  BY <1>0, <1>1
  <2>2. QED  BY <2>1
<1>5. K \in 0..MaxCalls /\ K - 1 \in 0..MaxCalls  BY <1>0, <1>3, <1>4
<1>6. K - 1 \notin Bad
  <2> HIDE DEF Bad
  <2>1. QED  BY <1>3, <1>5, <1>0
<1>7. after[K - 1] \subseteq Good  BY <1>5, <1>6
<1>8. after[K] = {Step(m, w) : m \in after[K - 1]}  BY <1>1, <1>4, <1>5
<1>9. after[K] \subseteq Good  BY <1>7, <1>8
<1>10. QED  BY <1>3, <1>9

(* ... when the handler is done, ...                                        *)
LEMMA CarryRule ==
  ASSUME NEW d, NEW calls, NEW w, NEW Good,
         Do(d, calls) \in Good,
         \A m \in Good : Step(m, w) \in Good,
         Carry(d, calls, w)
  PROVE  \E m \in Good : m.todo = <<>> /\ db' = m.db
<1> DEFINE after == CHOOSE f : f = [n \in 0..MaxCalls |-> IF n = 0 THEN {Do(d, calls)}
                                    ELSE {Step(m, w) : m \in f[n - 1]}]
<1>0. MaxCalls \in Nat  BY LimitsAssumption
<1>1. IsAfter(after, d, calls, w, MaxCalls)
  <2>1. \E f : IsAfter(f, d, calls, w, MaxCalls)
    BY <1>0, AfterExists
  <2>2. QED  BY <2>1, Zenon DEF IsAfter
<1>2. \E m \in after[MaxCalls] : m.todo = <<>> /\ db' = m.db
  BY Zenon DEF Carry
<1> HIDE DEF after
<1>3. MaxCalls \in 0..MaxCalls  BY <1>0
<1>4. after[MaxCalls] \subseteq Good  BY <1>1, <1>3, AfterIn
<1>5. QED  BY <1>2, <1>4, Zenon

(* ... and when it is left half-way.                                        *)
LEMMA ThrownRule ==
  ASSUME NEW d, NEW calls, NEW w, NEW Good,
         Do(d, calls) \in Good,
         \A m \in Good : Step(m, w) \in Good,
         CarryThrown(d, calls, w)
  PROVE  \E m \in Good : db' = m.db
<1> DEFINE after == CHOOSE f : f = [n \in 0..MaxCalls |-> IF n = 0 THEN {Do(d, calls)}
                                    ELSE {Step(m, w) : m \in f[n - 1]}]
<1>1. IsAfter(after, d, calls, w, MaxCalls)
  <2>1. \E f : IsAfter(f, d, calls, w, MaxCalls)
    BY LimitsAssumption, AfterExists
  <2>2. QED  BY <2>1, Zenon DEF IsAfter
<1>2. \E n \in 0..MaxCalls : \E m \in after[n] : db' = Step(m, w).db
  BY Zenon DEF CarryThrown
<1> HIDE DEF after
<1>3. PICK n \in 0..MaxCalls : \E m \in after[n] : db' = Step(m, w).db  BY <1>2
<1>4. after[n] \subseteq Good  BY <1>1, AfterIn
<1>5. QED  BY <1>3, <1>4, Zenon

(***************************************************************************)
(* The types of the database and of the calls.                             *)
(***************************************************************************)
(* The kind of a stage comes from its node.                                 *)
OfKind(n, kind) == kind \in {"compensation", Kind(n)} \/ (kind = "agent" /\ Kind(n) = "gated")

StageOK(st) ==
  /\ st.lapsed => st.status = "running"
  /\ st.status \in OpenStage \ {"running"} => st.attempt < MaxAttempts
  /\ Len(To(st.node)) = 1
  /\ st.kind = "compensation" => st.status \notin {"waiting_approval", "waiting_external"}
  /\ st.kind # "compensation" => st.token \in Token
  /\ st.row = "waiting" => st.kind = "signal"
  /\ st.kind = "subprocess" => st.node \in DOMAIN ChildOf
  /\ OfKind(st.node, st.kind)

StageSet == {st \in StageType : StageOK(st)}

TokenMap == UNION {[D -> TokenStatus] : D \in SUBSET Token}

Db == [inst   : [Instances -> InstStatus],
       run    : [Instances -> InstStatus],
       ending : [Instances -> {"none", "failed", "cancelled"}],
       error  : [Instances -> BOOLEAN],
       moves  : [Instances -> 0..MaxMoves],
       loops  : [Choosers -> 0..MaxIterations],
       stages : [Instances -> Seq(StageSet)],
       token  : [Instances -> TokenMap]]

AdvanceCalls == [method : {"advance"}, i : Instances, t : Token, n : GNodes]
EndingCalls  == [method : {"fail", "stop"}, i : Instances, s : {"failed", "cancelled"}]
PlainCalls   == [method : {"compensate", "parent", "sync"}, i : Instances]
LinkCalls    == [method : {"link"}, i : Instances, k : Nat]
GiveCalls    == [method : {"giveback"}, i : Instances, k : Nat, again : BOOLEAN]

Calls == AdvanceCalls \cup EndingCalls \cup PlainCalls \cup LinkCalls \cup GiveCalls

LEMMA StandIs ==
  ASSUME NEW d \in Db, NEW i \in Instances, NEW s \in InstStatus
  PROVE  LET e == Stand(d, i, s)
         IN  /\ e \in Db
             /\ e.inst = [d.inst EXCEPT ![i] = s] /\ e.run = [d.run EXCEPT ![i] = s]
             /\ e.ending = d.ending /\ e.error = d.error /\ e.moves = d.moves
             /\ e.loops = d.loops /\ e.stages = d.stages /\ e.token = d.token
BY DEF Stand, Db

(* The stages of one instance are replaced.                                 *)
Replace(d, i, q) == [d EXCEPT !.stages = [d.stages EXCEPT ![i] = q]]

(* Only the stages of i differ.                                             *)
StagesOnly(d, e, i) ==
  /\ e.inst = d.inst /\ e.run = d.run /\ e.ending = d.ending /\ e.error = d.error
  /\ e.moves = d.moves /\ e.loops = d.loops /\ e.token = d.token
  /\ \A j \in Instances : j # i => e.stages[j] = d.stages[j]

LEMMA ReplaceIs ==
  ASSUME NEW d \in Db, NEW i \in Instances, NEW q \in Seq(StageSet)
  PROVE  /\ Replace(d, i, q) \in Db /\ StagesOnly(d, Replace(d, i, q), i)
         /\ Replace(d, i, q).stages[i] = q
<1>1. d.stages \in [Instances -> Seq(StageSet)]  BY DEF Db
<1> DEFINE ss == [d.stages EXCEPT ![i] = q]
<1>2. ss \in [Instances -> Seq(StageSet)]  BY <1>1
<1>3. ss[i] = q /\ \A j \in Instances : j # i => ss[j] = d.stages[j]  BY <1>1
<1>4. Replace(d, i, q) = [d EXCEPT !.stages = ss]  BY DEF Replace
<1> HIDE DEF ss
<1>5. QED  BY <1>2, <1>3, <1>4 DEF Db, StagesOnly

(* One stage is replaced.                                                   *)
LEMMA PutIs ==
  ASSUME NEW d \in Db, NEW i \in Instances, NEW k \in Slots(d, i), NEW st \in StageSet
  PROVE  LET e == Replace(d, i, [d.stages[i] EXCEPT ![k] = st])
         IN  /\ e \in Db /\ StagesOnly(d, e, i)
             /\ Slots(e, i) = Slots(d, i) /\ Len(e.stages[i]) = Len(d.stages[i])
             /\ \A m \in Slots(d, i) : m # k => e.stages[i][m] = d.stages[i][m]
             /\ e.stages[i][k] = st
<1> DEFINE q == [d.stages[i] EXCEPT ![k] = st]
<1>1. d.stages[i] \in Seq(StageSet) /\ k \in DOMAIN d.stages[i]  BY DEF Db, Slots
<1>2. q \in Seq(StageSet) /\ DOMAIN q = DOMAIN d.stages[i] /\ Len(q) = Len(d.stages[i])  BY <1>1
<1>3. \A m \in DOMAIN d.stages[i] : q[m] = IF m = k THEN st ELSE d.stages[i][m]  BY <1>1
<1> DEFINE e == Replace(d, i, q)
<1>4. e \in Db /\ StagesOnly(d, e, i) /\ e.stages[i] = q
  <2> HIDE DEF q
  <2>1. QED  BY <1>2, ReplaceIs
<1>5. Slots(e, i) = Slots(d, i) /\ Len(e.stages[i]) = Len(d.stages[i])
  BY <1>2, <1>4 DEF Slots
<1>6. \A m \in Slots(d, i) : e.stages[i][m] = IF m = k THEN st ELSE d.stages[i][m]
  BY <1>3, <1>4 DEF Slots
<1> HIDE DEF e
<1>7. QED  BY <1>4, <1>5, <1>6 DEF e

(* The statuses a stage can be given.                                       *)
CanBe(st, s) ==
  /\ s \in OpenStage \ {"running"} => st.attempt < MaxAttempts
  /\ st.kind = "compensation" => s \notin {"waiting_approval", "waiting_external"}

(* A stage's columns but status and lapsed, and but row.                    *)
LEMMA SetStageIs ==
  ASSUME NEW d \in Db, NEW i \in Instances, NEW k \in Slots(d, i), NEW s \in OpenStage \cup Ended,
         CanBe(d.stages[i][k], s)
  PROVE  LET e == SetStage(d, i, k, s)
         IN  /\ e \in Db /\ StagesOnly(d, e, i)
             /\ Slots(e, i) = Slots(d, i) /\ Len(e.stages[i]) = Len(d.stages[i])
             /\ \A m \in Slots(d, i) : m # k => e.stages[i][m] = d.stages[i][m]
             /\ e.stages[i][k].node = d.stages[i][k].node /\ e.stages[i][k].token = d.stages[i][k].token
             /\ e.stages[i][k].kind = d.stages[i][k].kind /\ e.stages[i][k].row = d.stages[i][k].row
             /\ e.stages[i][k].of = d.stages[i][k].of /\ e.stages[i][k].attempt = d.stages[i][k].attempt
             /\ e.stages[i][k].status = s /\ e.stages[i][k].lapsed = FALSE
<1> DEFINE st == [d.stages[i][k] EXCEPT !.status = s, !.lapsed = FALSE]
<1>1. d.stages[i] \in Seq(StageSet) /\ k \in DOMAIN d.stages[i]  BY DEF Db, Slots
<1>2. d.stages[i][k] \in StageSet  BY <1>1
<1>3. d.stages[i][k] \in StageType /\ StageOK(d.stages[i][k])  BY <1>2 DEF StageSet
<1>4. /\ st.node = d.stages[i][k].node /\ st.token = d.stages[i][k].token
      /\ st.kind = d.stages[i][k].kind /\ st.attempt = d.stages[i][k].attempt
      /\ st.row = d.stages[i][k].row /\ st.of = d.stages[i][k].of
      /\ st.status = s /\ st.lapsed = FALSE
  BY <1>3 DEF StageType
<1>5. st \in StageType  BY <1>3 DEF StageType
<1>6. SetStage(d, i, k, s) = Replace(d, i, [d.stages[i] EXCEPT ![k] = st])
  BY DEF SetStage, Db, Replace
<1> HIDE DEF st
<1>7. st \in StageSet  BY <1>3, <1>4, <1>5 DEF StageOK, StageSet, CanBe
<1>8. QED  BY <1>4, <1>6, <1>7, PutIs

RowValues == {"none", "waiting", "delivered", "expired", "running", "armed", "queued", "skipped"}
                \cup Ended

LEMMA SetRowIs ==
  ASSUME NEW d \in Db, NEW i \in Instances, NEW k \in Slots(d, i), NEW s \in RowValues \ {"waiting"}
  PROVE  LET e == SetRow(d, i, k, s)
         IN  /\ e \in Db /\ StagesOnly(d, e, i)
             /\ Slots(e, i) = Slots(d, i) /\ Len(e.stages[i]) = Len(d.stages[i])
             /\ \A m \in Slots(d, i) : m # k => e.stages[i][m] = d.stages[i][m]
             /\ e.stages[i][k].node = d.stages[i][k].node /\ e.stages[i][k].token = d.stages[i][k].token
             /\ e.stages[i][k].kind = d.stages[i][k].kind /\ e.stages[i][k].row = s
             /\ e.stages[i][k].of = d.stages[i][k].of /\ e.stages[i][k].attempt = d.stages[i][k].attempt
             /\ e.stages[i][k].status = d.stages[i][k].status
             /\ e.stages[i][k].lapsed = d.stages[i][k].lapsed
<1> DEFINE st == [d.stages[i][k] EXCEPT !.row = s]
<1>1. d.stages[i] \in Seq(StageSet) /\ k \in DOMAIN d.stages[i]  BY DEF Db, Slots
<1>2. d.stages[i][k] \in StageSet  BY <1>1
<1>3. d.stages[i][k] \in StageType /\ StageOK(d.stages[i][k])  BY <1>2 DEF StageSet
<1>4. /\ st.node = d.stages[i][k].node /\ st.token = d.stages[i][k].token
      /\ st.kind = d.stages[i][k].kind /\ st.attempt = d.stages[i][k].attempt
      /\ st.row = s /\ st.of = d.stages[i][k].of
      /\ st.status = d.stages[i][k].status /\ st.lapsed = d.stages[i][k].lapsed
  BY <1>3 DEF StageType
<1>5. st \in StageType  BY <1>3 DEF StageType, RowValues
<1>6. SetRow(d, i, k, s) = Replace(d, i, [d.stages[i] EXCEPT ![k] = st])
  BY DEF SetRow, Db, Replace
<1> HIDE DEF st
<1>7. st \in StageSet  BY <1>3, <1>4, <1>5 DEF StageOK, StageSet
<1>8. QED  BY <1>4, <1>6, <1>7, PutIs

(* A row of a stage that does not exist is not set.                         *)
LEMMA SetNoRow ==
  ASSUME NEW d \in Db, NEW i \in Instances, NEW k, k \notin Slots(d, i), NEW s
  PROVE  SetRow(d, i, k, s) = d
<1>1. d.stages[i] \in Seq(StageSet) /\ k \notin DOMAIN d.stages[i]  BY DEF Db, Slots
<1>2. [d.stages[i] EXCEPT ![k] = [d.stages[i][k] EXCEPT !.row = s]] = d.stages[i]  BY <1>1
<1>3. SetRow(d, i, k, s) = Replace(d, i, [d.stages[i] EXCEPT ![k] = [d.stages[i][k] EXCEPT !.row = s]])
  BY DEF SetRow, Db, Replace
<1>4. SetRow(d, i, k, s) = Replace(d, i, d.stages[i])  BY <1>2, <1>3
<1>5. Replace(d, i, d.stages[i]) = d  BY DEF Replace, Db
<1>6. QED  BY <1>4, <1>5

LEMMA InsertIs ==
  ASSUME NEW d \in Db, NEW i \in Instances, NEW st \in StageSet
  PROVE  LET e == Insert(d, i, st)
         IN  /\ e \in Db /\ StagesOnly(d, e, i)
             /\ Len(d.stages[i]) \in Nat /\ Slots(d, i) = 1..Len(d.stages[i])
             /\ Slots(e, i) = Slots(d, i) \cup {Len(d.stages[i]) + 1}
             /\ Len(e.stages[i]) = Len(d.stages[i]) + 1
             /\ \A m \in Slots(d, i) : e.stages[i][m] = d.stages[i][m]
             /\ e.stages[i][Len(d.stages[i]) + 1] = st
<1> DEFINE q == Append(d.stages[i], st)
<1>1. d.stages[i] \in Seq(StageSet)  BY DEF Db
<1>2. q \in Seq(StageSet) /\ Len(q) = Len(d.stages[i]) + 1
      /\ DOMAIN q = DOMAIN d.stages[i] \cup {Len(d.stages[i]) + 1}
      /\ DOMAIN d.stages[i] = 1..Len(d.stages[i]) /\ Len(d.stages[i]) \in Nat
  BY <1>1
<1>3. (\A m \in DOMAIN d.stages[i] : q[m] = d.stages[i][m]) /\ q[Len(d.stages[i]) + 1] = st  BY <1>1
<1> DEFINE e == Insert(d, i, st)
<1>4. e = Replace(d, i, q)  BY DEF Insert, Db, Replace
<1>5. e \in Db /\ StagesOnly(d, e, i) /\ e.stages[i] = q
  <2> HIDE DEF q, e
  <2>1. QED  BY <1>2, <1>4, ReplaceIs
<1>6. Slots(e, i) = Slots(d, i) \cup {Len(d.stages[i]) + 1} /\ Len(e.stages[i]) = Len(d.stages[i]) + 1
  <2> HIDE DEF q, e
  <2>1. QED  BY <1>2, <1>5 DEF Slots
<1>7. (\A m \in Slots(d, i) : e.stages[i][m] = d.stages[i][m]) /\ e.stages[i][Len(d.stages[i]) + 1] = st
  <2> HIDE DEF q, e
  <2>1. QED  BY <1>3, <1>5 DEF Slots
<1>8. Len(d.stages[i]) \in Nat /\ Slots(d, i) = 1..Len(d.stages[i])  BY <1>1 DEF Slots
<1> HIDE DEF e
<1>9. QED  BY <1>5, <1>6, <1>7, <1>8 DEF e

(* The tokens of one instance are replaced.                                 *)
Retoken(d, i, f) == [d EXCEPT !.token = [d.token EXCEPT ![i] = f]]

TokensOnly(d, e, i) ==
  /\ e.inst = d.inst /\ e.run = d.run /\ e.ending = d.ending /\ e.error = d.error
  /\ e.moves = d.moves /\ e.loops = d.loops /\ e.stages = d.stages
  /\ \A j \in Instances : j # i => e.token[j] = d.token[j]

LEMMA RetokenIs ==
  ASSUME NEW d \in Db, NEW i \in Instances, NEW f \in TokenMap
  PROVE  /\ Retoken(d, i, f) \in Db /\ TokensOnly(d, Retoken(d, i, f), i)
         /\ Retoken(d, i, f).token[i] = f
<1>1. d.token \in [Instances -> TokenMap]  BY DEF Db
<1> DEFINE ss == [d.token EXCEPT ![i] = f]
<1>2. ss \in [Instances -> TokenMap]
  <2> HIDE DEF TokenMap
  <2>1. QED  BY <1>1
<1>3. ss[i] = f /\ \A j \in Instances : j # i => ss[j] = d.token[j]  BY <1>1
<1>4. Retoken(d, i, f) = [d EXCEPT !.token = ss]  BY DEF Retoken
<1> HIDE DEF ss
<1>5. QED  BY <1>2, <1>3, <1>4 DEF Db, TokensOnly

LEMMA TokenMapIs ==
  ASSUME NEW f \in TokenMap
  PROVE  /\ DOMAIN f \subseteq Token /\ f = [t \in DOMAIN f |-> f[t]]
         /\ \A t \in DOMAIN f : f[t] \in TokenStatus
BY DEF TokenMap

LEMMA TokenMapOf ==
  ASSUME NEW D \in SUBSET Token, NEW f \in [D -> TokenStatus]
  PROVE  f \in TokenMap
BY DEF TokenMap

(* One token's status is set.                                               *)
LEMMA TokenPutIs ==
  ASSUME NEW d \in Db, NEW i \in Instances, NEW t \in DOMAIN d.token[i], NEW s \in TokenStatus
  PROVE  LET e == [d EXCEPT !.token[i][t] = s]
         IN  /\ e \in Db /\ TokensOnly(d, e, i)
             /\ DOMAIN e.token[i] = DOMAIN d.token[i]
             /\ \A u \in DOMAIN d.token[i] : e.token[i][u] = IF u = t THEN s ELSE d.token[i][u]
<1> DEFINE e == [d EXCEPT !.token[i][t] = s]
           f == [d.token[i] EXCEPT ![t] = s]
<1>1. d.token[i] \in TokenMap  BY DEF Db
<1>2. f \in TokenMap
  <2>1. f \in [DOMAIN d.token[i] -> TokenStatus]  BY <1>1, TokenMapIs
  <2>2. DOMAIN d.token[i] \in SUBSET Token  BY <1>1, TokenMapIs
  <2> HIDE DEF f
  <2>3. QED  BY <2>1, <2>2, TokenMapOf
<1>3. DOMAIN f = DOMAIN d.token[i]
      /\ \A u \in DOMAIN d.token[i] : f[u] = IF u = t THEN s ELSE d.token[i][u]
  BY <1>1, TokenMapIs
<1>4. e = Retoken(d, i, f)  BY DEF Retoken, Db
<1>5. e \in Db /\ TokensOnly(d, e, i) /\ e.token[i] = f
  <2> HIDE DEF f, e
  <2>1. QED  BY <1>2, <1>4, RetokenIs
<1> HIDE DEF f, e
<1>6. QED  BY <1>3, <1>5 DEF e

(* A token that does not exist is not set.                                  *)
LEMMA TokenNotPut ==
  ASSUME NEW d \in Db, NEW i \in Instances, NEW t, t \notin DOMAIN d.token[i], NEW s
  PROVE  [d EXCEPT !.token[i][t] = s] = d
<1>1. d.token[i] \in TokenMap  BY DEF Db
<1>2. [d.token[i] EXCEPT ![t] = s] = d.token[i]  BY <1>1, TokenMapIs
<1>3. [d EXCEPT !.token[i][t] = s] = Retoken(d, i, [d.token[i] EXCEPT ![t] = s])
  BY DEF Retoken, Db
<1>4. Retoken(d, i, d.token[i]) = d  BY DEF Retoken, Db
<1>5. QED  BY <1>2, <1>3, <1>4

(* Of instance j, everything is the same.                                   *)
Same(d, e, j) ==
  /\ e.inst[j] = d.inst[j] /\ e.run[j] = d.run[j] /\ e.ending[j] = d.ending[j]
  /\ e.error[j] = d.error[j] /\ e.stages[j] = d.stages[j] /\ e.token[j] = d.token[j]

Others(d, e, i) == \A j \in Instances \ {i} : Same(d, e, j)

(* closeProcessStages.                                                      *)
LEMMA CloseStagesIs ==
  ASSUME NEW d \in Db, NEW i \in Instances, NEW s, s \in {"failed", "cancelled"}
  PROVE  LET e == CloseStages(d, i, s)
         IN  /\ e \in Db /\ StagesOnly(d, e, i)
             /\ Slots(e, i) = Slots(d, i) /\ Len(e.stages[i]) = Len(d.stages[i])
             /\ \A m \in Slots(d, i) :
                  /\ e.stages[i][m].node = d.stages[i][m].node /\ e.stages[i][m].token = d.stages[i][m].token
                  /\ e.stages[i][m].kind = d.stages[i][m].kind /\ e.stages[i][m].row = d.stages[i][m].row
                  /\ e.stages[i][m].of = d.stages[i][m].of
                  /\ e.stages[i][m].attempt = d.stages[i][m].attempt
                  /\ e.stages[i][m].status =
                       IF d.stages[i][m].status \in OpenStage THEN s ELSE d.stages[i][m].status
                  /\ e.stages[i][m].lapsed => d.stages[i][m].lapsed
<1> DEFINE old == d.stages[i]
           Shut(k) == IF old[k].status \in OpenStage
                        THEN [old[k] EXCEPT !.status = s, !.lapsed = FALSE] ELSE old[k]
           q == [k \in DOMAIN old |-> Shut(k)]
           e == CloseStages(d, i, s)
<1>1. old \in Seq(StageSet)  BY DEF Db
<1>2. ASSUME NEW k \in DOMAIN old
      PROVE  /\ Shut(k) \in StageSet
             /\ Shut(k).node = old[k].node /\ Shut(k).token = old[k].token /\ Shut(k).kind = old[k].kind
             /\ Shut(k).row = old[k].row /\ Shut(k).of = old[k].of /\ Shut(k).attempt = old[k].attempt
             /\ Shut(k).status = (IF old[k].status \in OpenStage THEN s ELSE old[k].status)
             /\ Shut(k).lapsed => old[k].lapsed
  <2>1. old[k] \in StageSet  BY <1>1
  <2>2. old[k] \in StageType /\ StageOK(old[k])  BY <2>1 DEF StageSet
  <2>3. CASE old[k].status \in OpenStage
    <3> DEFINE st == [old[k] EXCEPT !.status = s, !.lapsed = FALSE]
    <3>1. /\ st.node = old[k].node /\ st.token = old[k].token /\ st.kind = old[k].kind
          /\ st.row = old[k].row /\ st.of = old[k].of /\ st.attempt = old[k].attempt
          /\ st.status = s /\ st.lapsed = FALSE
      BY <2>2 DEF StageType
    <3>2. st \in StageType  BY <2>2 DEF StageType, Ended
    <3>3. Shut(k) = st  BY <2>3
    <3> HIDE DEF st
    <3>4. st \in StageSet  BY <2>2, <3>1, <3>2 DEF StageOK, StageSet, OpenStage
    <3> HIDE DEF Shut
    <3>5. QED  BY <2>3, <3>1, <3>3, <3>4
  <2>4. CASE old[k].status \notin OpenStage  BY <2>1, <2>4
  <2>5. QED  BY <2>3, <2>4
<1>3. e = Replace(d, i, q)  BY DEF CloseStages, Db, Replace
<1> HIDE DEF Shut
<1>4. q \in Seq(StageSet) /\ DOMAIN q = DOMAIN old /\ Len(q) = Len(old)  BY <1>1, <1>2
<1>5. \A k \in DOMAIN old : q[k] = Shut(k)  OBVIOUS
<1>6. e \in Db /\ StagesOnly(d, e, i) /\ e.stages[i] = q
  <2> HIDE DEF q, e
  <2>1. QED  BY <1>3, <1>4, ReplaceIs
<1> HIDE DEF q, e
<1>7. Slots(e, i) = Slots(d, i) /\ Slots(d, i) = DOMAIN old  BY <1>4, <1>6 DEF Slots
<1> HIDE DEF old
<1>8. \A m \in Slots(d, i) : e.stages[i][m] = Shut(m)  BY <1>5, <1>6, <1>7
<1>9. QED  BY <1>2, <1>4, <1>6, <1>7, <1>8 DEF e, old

(* quiesceProcessExecution, the first part.                                 *)
LEMMA QuiesceIs ==
  ASSUME NEW d \in Db, NEW i \in Instances
  PROVE  LET e == Quiesce(d, i)
         IN  /\ e \in Db /\ Others(d, e, i) /\ e.moves = d.moves
             /\ e.inst = d.inst /\ e.run = d.run /\ e.ending = d.ending /\ e.error = d.error
             /\ Slots(e, i) = Slots(d, i)
             /\ \A m \in Slots(d, i) :
                  /\ e.stages[i][m].node = d.stages[i][m].node /\ e.stages[i][m].token = d.stages[i][m].token
                  /\ e.stages[i][m].kind = d.stages[i][m].kind /\ e.stages[i][m].status = d.stages[i][m].status
                  /\ e.stages[i][m].of = d.stages[i][m].of
                  /\ e.stages[i][m].attempt = d.stages[i][m].attempt
                  /\ e.stages[i][m].row =
                       IF d.stages[i][m].row = "waiting" THEN "cancelled" ELSE d.stages[i][m].row
                  /\ e.stages[i][m].lapsed = d.stages[i][m].lapsed
             /\ Live(e, i) = {}
<1> DEFINE old == d.stages[i]
           Shut(k) == IF old[k].row = "waiting" THEN [old[k] EXCEPT !.row = "cancelled"] ELSE old[k]
           q == [k \in DOMAIN old |-> Shut(k)]
           f == [t \in DOMAIN d.token[i] |->
                   IF d.token[i][t] \in LiveToken THEN "cancelled" ELSE d.token[i][t]]
           g == Replace(d, i, q)
           e == Quiesce(d, i)
<1>1. old \in Seq(StageSet)  BY DEF Db
<1>2. ASSUME NEW k \in DOMAIN old
      PROVE  /\ Shut(k) \in StageSet
             /\ Shut(k).node = old[k].node /\ Shut(k).token = old[k].token /\ Shut(k).kind = old[k].kind
             /\ Shut(k).status = old[k].status /\ Shut(k).of = old[k].of /\ Shut(k).attempt = old[k].attempt
             /\ Shut(k).row = (IF old[k].row = "waiting" THEN "cancelled" ELSE old[k].row)
             /\ Shut(k).lapsed = old[k].lapsed
  <2>1. old[k] \in StageSet  BY <1>1
  <2>2. old[k] \in StageType /\ StageOK(old[k])  BY <2>1 DEF StageSet
  <2>3. CASE old[k].row = "waiting"
    <3> DEFINE st == [old[k] EXCEPT !.row = "cancelled"]
    <3>1. /\ st.node = old[k].node /\ st.token = old[k].token /\ st.kind = old[k].kind
          /\ st.row = "cancelled" /\ st.of = old[k].of /\ st.attempt = old[k].attempt
          /\ st.status = old[k].status /\ st.lapsed = old[k].lapsed
      BY <2>2 DEF StageType
    <3>2. st \in StageType  BY <2>2 DEF StageType, Ended
    <3>3. Shut(k) = st  BY <2>3
    <3> HIDE DEF st
    <3>4. st \in StageSet  BY <2>2, <3>1, <3>2 DEF StageOK, StageSet
    <3> HIDE DEF Shut
    <3>5. QED  BY <2>3, <3>1, <3>3, <3>4
  <2>4. CASE old[k].row # "waiting"  BY <2>1, <2>4
  <2>5. QED  BY <2>3, <2>4
<1>3. e = Retoken(g, i, f)  BY DEF Quiesce, Db, Replace, Retoken
<1> HIDE DEF Shut
<1>4. q \in Seq(StageSet) /\ DOMAIN q = DOMAIN old /\ Len(q) = Len(old)  BY <1>1, <1>2
<1>5. \A k \in DOMAIN old : q[k] = Shut(k)  OBVIOUS
<1>6. g \in Db /\ StagesOnly(d, g, i) /\ g.stages[i] = q
  <2> HIDE DEF q
  <2>1. QED  BY <1>4, ReplaceIs
<1>7. f \in TokenMap
  <2>1. d.token[i] \in TokenMap  BY DEF Db
  <2>2. f \in [DOMAIN d.token[i] -> TokenStatus]
    BY <2>1, TokenMapIs DEF TokenStatus
  <2>3. DOMAIN d.token[i] \in SUBSET Token  BY <2>1, TokenMapIs
  <2> HIDE DEF f
  <2>4. QED  BY <2>2, <2>3, TokenMapOf
<1>8. \A t \in DOMAIN f : f[t] \notin LiveToken  BY DEF LiveToken
<1> HIDE DEF q, e, f, g
<1>9. e \in Db /\ TokensOnly(g, e, i) /\ e.token[i] = f  BY <1>3, <1>6, <1>7, RetokenIs
<1>10. Live(e, i) = {}  BY <1>8, <1>9 DEF Live
<1>11. e.stages[i] = q  BY <1>6, <1>9 DEF TokensOnly
<1>12. Slots(e, i) = Slots(d, i) /\ Slots(d, i) = DOMAIN old  BY <1>4, <1>11 DEF Slots
<1>13. Others(d, e, i)
  <2>1. SUFFICES ASSUME NEW j \in Instances \ {i} PROVE Same(d, e, j)  BY DEF Others
  <2>2. QED  BY <1>6, <1>9 DEF TokensOnly, StagesOnly, Same
<1>14. /\ e.moves = d.moves /\ e.inst = d.inst /\ e.run = d.run
       /\ e.ending = d.ending /\ e.error = d.error
  BY <1>6, <1>9 DEF TokensOnly, StagesOnly
<1> HIDE DEF old
<1>15. \A m \in Slots(d, i) : e.stages[i][m] = Shut(m)  BY <1>5, <1>11, <1>12
<1>16. QED  BY <1>2, <1>9, <1>10, <1>12, <1>13, <1>14, <1>15 DEF e, old

(* Only the columns of process_instances and runs differ, and those of i.   *)
HeadOnly(d, e, i) ==
  /\ e.stages = d.stages /\ e.token = d.token /\ e.moves = d.moves /\ e.loops = d.loops
  /\ \A j \in Instances \ {i} :
       /\ e.inst[j] = d.inst[j] /\ e.run[j] = d.run[j]
       /\ e.ending[j] = d.ending[j] /\ e.error[j] = d.error[j]

LEMMA StandHead ==
  ASSUME NEW d \in Db, NEW i \in Instances, NEW s \in InstStatus
  PROVE  LET e == Stand(d, i, s)
         IN  /\ e \in Db /\ HeadOnly(d, e, i)
             /\ e.inst[i] = s /\ e.run[i] = s /\ e.ending = d.ending /\ e.error = d.error
<1> DEFINE e == Stand(d, i, s)
<1>1. d.inst \in [Instances -> InstStatus] /\ d.run \in [Instances -> InstStatus]  BY DEF Db
<1>2. /\ e \in Db
      /\ e.inst = [d.inst EXCEPT ![i] = s] /\ e.run = [d.run EXCEPT ![i] = s]
      /\ e.ending = d.ending /\ e.error = d.error /\ e.moves = d.moves
      /\ e.loops = d.loops /\ e.stages = d.stages /\ e.token = d.token
  BY StandIs
<1> HIDE DEF e
<1>3. QED  BY <1>1, <1>2 DEF HeadOnly, e

LEMMA RunHead ==
  ASSUME NEW d \in Db, NEW i \in Instances, NEW s \in InstStatus
  PROVE  LET e == [d EXCEPT !.run[i] = s]
         IN  /\ e \in Db /\ HeadOnly(d, e, i)
             /\ e.inst = d.inst /\ e.run[i] = s /\ e.ending = d.ending /\ e.error = d.error
<1>1. d.run \in [Instances -> InstStatus]  BY DEF Db
<1> DEFINE r == [d.run EXCEPT ![i] = s]
<1>2. r \in [Instances -> InstStatus] /\ r[i] = s /\ \A j \in Instances \ {i} : r[j] = d.run[j]
  BY <1>1
<1>3. [d EXCEPT !.run[i] = s] = [d EXCEPT !.run = r]  BY DEF Db
<1> HIDE DEF r
<1>4. QED  BY <1>2, <1>3 DEF HeadOnly, Db

LEMMA ErrorHead ==
  ASSUME NEW d \in Db, NEW i \in Instances
  PROVE  LET e == [d EXCEPT !.error[i] = TRUE]
         IN  /\ e \in Db /\ HeadOnly(d, e, i)
             /\ e.inst = d.inst /\ e.run = d.run /\ e.ending = d.ending /\ e.error[i] = TRUE
<1>1. d.error \in [Instances -> BOOLEAN]  BY DEF Db
<1> DEFINE r == [d.error EXCEPT ![i] = TRUE]
<1>2. r \in [Instances -> BOOLEAN] /\ r[i] = TRUE /\ \A j \in Instances \ {i} : r[j] = d.error[j]
  BY <1>1
<1>3. [d EXCEPT !.error[i] = TRUE] = [d EXCEPT !.error = r]  BY DEF Db
<1> HIDE DEF r
<1>4. QED  BY <1>2, <1>3 DEF HeadOnly, Db

SetEnding(d, i, s) == [d EXCEPT !.ending[i] = s]

LEMMA EndingHead ==
  ASSUME NEW d \in Db, NEW i \in Instances, NEW s \in {"failed", "cancelled"}
  PROVE  LET e == SetEnding(d, i, s)
         IN  /\ e \in Db /\ HeadOnly(d, e, i)
             /\ e.inst = d.inst /\ e.run = d.run /\ e.error = d.error /\ e.ending[i] = s
<1>1. d.ending \in [Instances -> {"none", "failed", "cancelled"}]  BY DEF Db
<1> DEFINE r == [d.ending EXCEPT ![i] = s]
<1>2. r \in [Instances -> {"none", "failed", "cancelled"}]
      /\ r[i] = s /\ \A j \in Instances \ {i} : r[j] = d.ending[j]
  BY <1>1
<1>3. SetEnding(d, i, s) = [d EXCEPT !.ending = r]  BY DEF Db, SetEnding
<1> HIDE DEF r
<1>4. QED  BY <1>2, <1>3 DEF HeadOnly, Db

(* The columns of a stage that never change.                                *)
Kept(d, e, i, m) ==
  /\ e.stages[i][m].node = d.stages[i][m].node /\ e.stages[i][m].token = d.stages[i][m].token
  /\ e.stages[i][m].kind = d.stages[i][m].kind /\ e.stages[i][m].of = d.stages[i][m].of

(* finalizeProcessTerminal.                                                 *)
FinishFacts(d, e, i, at, closed) ==
  /\ e \in Db /\ Others(d, e, i) /\ e.moves = d.moves
  /\ e.inst[i] = at /\ e.run[i] = at /\ e.error[i] = TRUE
  /\ e.token[i] = d.token[i] /\ Slots(e, i) = Slots(d, i)
  /\ \A m \in Slots(d, i) :
       /\ Kept(d, e, i, m) /\ e.stages[i][m].row = d.stages[i][m].row
       /\ e.stages[i][m].attempt = d.stages[i][m].attempt
       /\ e.stages[i][m].status =
            IF d.stages[i][m].status \in OpenStage THEN closed ELSE d.stages[i][m].status
       /\ e.stages[i][m].lapsed => d.stages[i][m].lapsed

LEMMA FinalizeIs ==
  ASSUME NEW d \in Db, NEW i \in Instances, NEW s \in {"failed", "cancelled"}
  PROVE  \E e : /\ Finalize(d, i, s) = Do(e, <<ToParent(i)>>)
               /\ FinishFacts(d, e, i, s, s) /\ e.ending[i] = d.ending[i]
<1> DEFINE a == CloseStages(d, i, s)
           b == Stand(a, i, s)
           e == [b EXCEPT !.error[i] = TRUE]
<1>1. a \in Db /\ StagesOnly(d, a, i) /\ Slots(a, i) = Slots(d, i)
  BY CloseStagesIs
<1>2. \A m \in Slots(d, i) :
        /\ Kept(d, a, i, m) /\ a.stages[i][m].row = d.stages[i][m].row
        /\ a.stages[i][m].attempt = d.stages[i][m].attempt
        /\ a.stages[i][m].status =
             IF d.stages[i][m].status \in OpenStage THEN s ELSE d.stages[i][m].status
        /\ a.stages[i][m].lapsed => d.stages[i][m].lapsed
  <2>1. \A m \in Slots(d, i) :
          /\ a.stages[i][m].node = d.stages[i][m].node /\ a.stages[i][m].token = d.stages[i][m].token
          /\ a.stages[i][m].kind = d.stages[i][m].kind /\ a.stages[i][m].row = d.stages[i][m].row
          /\ a.stages[i][m].of = d.stages[i][m].of
          /\ a.stages[i][m].attempt = d.stages[i][m].attempt
          /\ a.stages[i][m].status =
               IF d.stages[i][m].status \in OpenStage THEN s ELSE d.stages[i][m].status
          /\ a.stages[i][m].lapsed => d.stages[i][m].lapsed
    BY CloseStagesIs
  <2> HIDE DEF a
  <2>2. QED  BY <2>1 DEF Kept
<1>3. Finalize(d, i, s) = Do(e, <<ToParent(i)>>) /\ Finalize(d, i, s).db = e  BY DEF Finalize, Do
<1> HIDE DEF a
<1>4. b \in Db /\ HeadOnly(a, b, i)
      /\ b.inst[i] = s /\ b.run[i] = s /\ b.ending = a.ending /\ b.error = a.error
  <2>1. s \in InstStatus  BY DEF InstStatus, Ended
  <2>2. QED  BY <1>1, <2>1, StandHead
<1> HIDE DEF b
<1>5. e \in Db /\ HeadOnly(b, e, i)
      /\ e.inst = b.inst /\ e.run = b.run /\ e.ending = b.ending /\ e.error[i] = TRUE
  BY <1>4, ErrorHead
<1> HIDE DEF e
<1>6. e.stages = a.stages /\ e.token = d.token /\ e.moves = d.moves /\ e.ending[i] = d.ending[i]
      /\ e.inst[i] = s /\ e.run[i] = s
  BY <1>1, <1>4, <1>5 DEF HeadOnly, StagesOnly
<1>7. Others(d, e, i)
  BY <1>1, <1>4, <1>5 DEF HeadOnly, StagesOnly, Others, Same
<1>8. Slots(e, i) = Slots(d, i)  BY <1>1, <1>6 DEF Slots
<1>9. \A m \in Slots(d, i) :
        /\ Kept(d, e, i, m) /\ e.stages[i][m].row = d.stages[i][m].row
        /\ e.stages[i][m].attempt = d.stages[i][m].attempt
        /\ e.stages[i][m].status =
             IF d.stages[i][m].status \in OpenStage THEN s ELSE d.stages[i][m].status
        /\ e.stages[i][m].lapsed => d.stages[i][m].lapsed
  BY <1>2, <1>6 DEF Kept
<1>10. FinishFacts(d, e, i, s, s)  BY <1>5, <1>6, <1>7, <1>8, <1>9 DEF FinishFacts
<1>11. QED  BY <1>3, <1>6, <1>10

(* triggerProcessFailure, when there is something to compensate.            *)
CompensatingDb(d, i, s) ==
  [Stand(CloseStages(d, i, "cancelled"), i, "compensating") EXCEPT !.ending[i] = s, !.error[i] = TRUE]

LEMMA CompensatingIs ==
  ASSUME NEW d \in Db, NEW i \in Instances, NEW s \in {"failed", "cancelled"}
  PROVE  /\ FinishFacts(d, CompensatingDb(d, i, s), i, "compensating", "cancelled")
         /\ CompensatingDb(d, i, s).ending[i] = s
<1> DEFINE a == CloseStages(d, i, "cancelled")
           b == Stand(a, i, "compensating")
           c == SetEnding(b, i, s)
           e == [c EXCEPT !.error[i] = TRUE]
<1>1. a \in Db /\ StagesOnly(d, a, i) /\ Slots(a, i) = Slots(d, i)
  BY CloseStagesIs
<1>2. \A m \in Slots(d, i) :
        /\ Kept(d, a, i, m) /\ a.stages[i][m].row = d.stages[i][m].row
        /\ a.stages[i][m].attempt = d.stages[i][m].attempt
        /\ a.stages[i][m].status =
             IF d.stages[i][m].status \in OpenStage THEN "cancelled" ELSE d.stages[i][m].status
        /\ a.stages[i][m].lapsed => d.stages[i][m].lapsed
  <2>1. \A m \in Slots(d, i) :
          /\ a.stages[i][m].node = d.stages[i][m].node /\ a.stages[i][m].token = d.stages[i][m].token
          /\ a.stages[i][m].kind = d.stages[i][m].kind /\ a.stages[i][m].row = d.stages[i][m].row
          /\ a.stages[i][m].of = d.stages[i][m].of
          /\ a.stages[i][m].attempt = d.stages[i][m].attempt
          /\ a.stages[i][m].status =
               IF d.stages[i][m].status \in OpenStage THEN "cancelled" ELSE d.stages[i][m].status
          /\ a.stages[i][m].lapsed => d.stages[i][m].lapsed
    BY CloseStagesIs
  <2> HIDE DEF a
  <2>2. QED  BY <2>1 DEF Kept
<1>3. CompensatingDb(d, i, s) = e  BY DEF CompensatingDb, SetEnding
<1> HIDE DEF a
<1>4. b \in Db /\ HeadOnly(a, b, i)
      /\ b.inst[i] = "compensating" /\ b.run[i] = "compensating"
      /\ b.ending = a.ending /\ b.error = a.error
  <2>1. "compensating" \in InstStatus  BY DEF InstStatus
  <2>2. QED  BY <1>1, <2>1, StandHead
<1> HIDE DEF b
<1>5. c \in Db /\ HeadOnly(b, c, i)
      /\ c.inst = b.inst /\ c.run = b.run /\ c.error = b.error /\ c.ending[i] = s
  BY <1>4, EndingHead
<1> HIDE DEF c
<1>6. e \in Db /\ HeadOnly(c, e, i)
      /\ e.inst = c.inst /\ e.run = c.run /\ e.ending = c.ending /\ e.error[i] = TRUE
  BY <1>5, ErrorHead
<1> HIDE DEF e
<1>7. e.stages = a.stages /\ e.token = d.token /\ e.moves = d.moves /\ e.ending[i] = s
      /\ e.inst[i] = "compensating" /\ e.run[i] = "compensating"
  BY <1>1, <1>4, <1>5, <1>6 DEF HeadOnly, StagesOnly
<1>8. Others(d, e, i)
  BY <1>1, <1>4, <1>5, <1>6 DEF HeadOnly, StagesOnly, Others, Same
<1>9. Slots(e, i) = Slots(d, i)  BY <1>1, <1>7 DEF Slots
<1>10. \A m \in Slots(d, i) :
        /\ Kept(d, e, i, m) /\ e.stages[i][m].row = d.stages[i][m].row
        /\ e.stages[i][m].attempt = d.stages[i][m].attempt
        /\ e.stages[i][m].status =
             IF d.stages[i][m].status \in OpenStage THEN "cancelled" ELSE d.stages[i][m].status
        /\ e.stages[i][m].lapsed => d.stages[i][m].lapsed
  BY <1>2, <1>7 DEF Kept
<1>11. FinishFacts(d, e, i, "compensating", "cancelled")  BY <1>6, <1>7, <1>8, <1>9, <1>10 DEF FinishFacts
<1>12. QED  BY <1>3, <1>7, <1>11

(* What a new stage looks like.                                             *)
LEMMA NewStageFields ==
  ASSUME NEW n, NEW t, NEW kind, NEW status
  PROVE  LET st == NewStage(n, t, kind, status)
         IN  /\ st.node = n /\ st.token = t /\ st.kind = kind /\ st.status = status /\ st.attempt = 0
             /\ st.lapsed = FALSE /\ st.of = 0
             /\ st.row = IF kind = "signal" THEN "waiting" ELSE "none"
BY DEF NewStage

LEMMA NewStageIs ==
  ASSUME NEW n \in GNodes, Len(To(n)) = 1, NEW t \in Token \cup {NoToken},
         NEW kind \in (StageKinds \ {"gated"}) \cup {"compensation"},
         NEW status \in (OpenStage \cup Ended) \ {"running"},
         kind = "compensation" => status \notin {"waiting_approval", "waiting_external"},
         kind # "compensation" => t \in Token,
         kind = "subprocess" => n \in DOMAIN ChildOf, OfKind(n, kind)
  PROVE  NewStage(n, t, kind, status) \in StageSet
<1> DEFINE st == NewStage(n, t, kind, status)
           row == IF kind = "signal" THEN "waiting" ELSE "none"
<1>1. /\ st.node = n /\ st.token = t /\ st.kind = kind /\ st.status = status /\ st.attempt = 0
      /\ st.lapsed = FALSE /\ st.of = 0 /\ st.row = row
  BY DEF NewStage
<1>2. st = [node |-> n, token |-> t, kind |-> kind, status |-> status, attempt |-> 0,
            lapsed |-> FALSE, row |-> row, of |-> 0]
  BY DEF NewStage
<1>3. row \in {"none", "waiting"} /\ (row = "waiting" => kind = "signal")  OBVIOUS
<1>4. MaxAttempts \in Nat \ {0}  BY LimitsAssumption
<1> HIDE DEF row
<1>5. st \in StageType
  <2> HIDE DEF st
  <2>1. QED  BY <1>2, <1>3, <1>4 DEF StageType, Ended
<1> HIDE DEF st
<1>6. StageOK(st)  BY <1>1, <1>3, <1>4 DEF StageOK
<1>7. st \in StageSet  BY <1>5, <1>6 DEF StageSet
<1>8. QED  BY <1>7 DEF st

(***************************************************************************)
(* Tokens.                                                                 *)
(***************************************************************************)
LEMMA BranchIs ==
  ASSUME NEW t \in Token, NEW n \in GNodes, NEW b \in 1..16
  PROVE  /\ Branch(t, n, b) \in Token /\ Branch(t, n, b) # Root /\ Branch(t, n, b) # t
         /\ Front(Branch(t, n, b)) = t /\ Last(Branch(t, n, b)) = <<n, b>>
         /\ Len(Branch(t, n, b)) = Len(t) + 1 /\ DOMAIN Branch(t, n, b) = DOMAIN t \cup {Len(t) + 1}
         /\ \A m \in DOMAIN t : Branch(t, n, b)[m] = t[m]
         /\ Branch(t, n, b)[Len(t) + 1] = <<n, b>>
<1> DEFINE x == <<n, b>>  c == Append(t, x)  E == GNodes \X (1..16)
<1>1. x \in E /\ t \in Seq(E)  BY DEF Token
<1> HIDE DEF x, E
<1>2. c \in Seq(E) /\ Len(c) = Len(t) + 1 /\ Len(t) \in Nat /\ c[Len(t) + 1] = x
      /\ (\A m \in 1..Len(t) : c[m] = t[m]) /\ DOMAIN c = DOMAIN t \cup {Len(t) + 1}
      /\ DOMAIN t = 1..Len(t)
  BY <1>1
<1>3. SubSeq(c, 1, Len(c) - 1) = t  BY <1>1, <1>2
<1> HIDE DEF c
<1>4. c # <<>> /\ c # t
  <2>1. c # t  BY <1>2
  <2>2. c # <<>>  BY <1>2
  <2>3. QED  BY <2>1, <2>2
<1>5. QED  BY <1>2, <1>3, <1>4 DEF Branch, Front, Last, Token, Root, c, x, E

LEMMA FrontIs ==
  ASSUME NEW t \in Token, t # Root
  PROVE  /\ Front(t) \in Token /\ Last(t) \in GNodes \X (1..16)
         /\ t = Branch(Front(t), Last(t)[1], Last(t)[2]) /\ Front(t) # t
         /\ DOMAIN t = DOMAIN Front(t) \cup {Len(t)} /\ Len(t) \in Nat \ {0} /\ Len(t) \notin DOMAIN Front(t)
         /\ \A m \in DOMAIN Front(t) : Front(t)[m] = t[m]
         /\ Last(t) = t[Len(t)]
<1> DEFINE E == GNodes \X (1..16)
<1>1. t \in Seq(E) /\ t # <<>>  BY DEF Token, Root
<1> HIDE DEF E
<1>2. Len(t) \in Nat \ {0} /\ t[Len(t)] \in E /\ DOMAIN t = 1..Len(t)  BY <1>1
<1> DEFINE f == SubSeq(t, 1, Len(t) - 1)
<1>3. f \in Seq(E) /\ Len(f) = Len(t) - 1 /\ DOMAIN f = 1..(Len(t) - 1)
      /\ \A m \in 1..(Len(t) - 1) : f[m] = t[m]
  BY <1>1, <1>2
<1>4. t = Append(f, t[Len(t)])  BY <1>1, <1>2, <1>3
<1>5. Len(f) # Len(t)
  <2>1. Len(f) = Len(t) - 1  BY <1>3
  <2>2. Len(t) \in Nat  BY <1>2
  <2> HIDE DEF f
  <2>3. QED  BY <2>1, <2>2
<1>6. t[Len(t)] = <<t[Len(t)][1], t[Len(t)][2]>>  BY <1>2 DEF E
<1>7. DOMAIN t = DOMAIN f \cup {Len(t)} /\ Len(t) \notin DOMAIN f  BY <1>2, <1>3
<1> HIDE DEF f
<1>8. f # t  BY <1>5
<1>9. QED  BY <1>2, <1>3, <1>4, <1>6, <1>7, <1>8 DEF Branch, Front, Last, Token, f, E

(* The branches of a fork are tokens of their own.                          *)
LEMMA BranchesAre ==
  ASSUME NEW t \in Token, NEW n \in GNodes, Kind(n) = "fork"
  PROVE  /\ DOMAIN To(n) = 1..Len(To(n)) /\ Len(To(n)) \in 2..16
         /\ \A b \in DOMAIN To(n) : b \in 1..16 /\ To(n)[b] \in GNodes
         /\ Branches(t, n) \subseteq Token /\ t \notin Branches(t, n) /\ Root \notin Branches(t, n)
         /\ \A c \in Branches(t, n) : Front(c) = t /\ Last(c)[1] = n /\ Last(c)[2] \in DOMAIN To(n)
         /\ \A c \in Token : c # Root /\ Front(c) = t /\ Last(c)[1] = n /\ Last(c)[2] \in DOMAIN To(n)
                               => c \in Branches(t, n)
         /\ \A a, b \in DOMAIN To(n) : Branch(t, n, a) = Branch(t, n, b) => a = b
         /\ Branches(t, n) # {}
<1>1. To(n) \in Seq(GNodes) /\ Len(To(n)) \in 2..16  BY GraphAssumption
<1>2. DOMAIN To(n) = 1..Len(To(n)) /\ \A b \in DOMAIN To(n) : b \in 1..16 /\ To(n)[b] \in GNodes
  BY <1>1
<1>3. \A b \in DOMAIN To(n) :
        /\ Branch(t, n, b) \in Token /\ Branch(t, n, b) # Root /\ Branch(t, n, b) # t
        /\ Front(Branch(t, n, b)) = t /\ Last(Branch(t, n, b)) = <<n, b>>
  BY <1>2, BranchIs
<1>4. /\ Branches(t, n) \subseteq Token /\ t \notin Branches(t, n) /\ Root \notin Branches(t, n)
      /\ \A c \in Branches(t, n) : Front(c) = t /\ Last(c)[1] = n /\ Last(c)[2] \in DOMAIN To(n)
  BY <1>3 DEF Branches
<1>5. ASSUME NEW c \in Token, c # Root, Front(c) = t, Last(c)[1] = n, Last(c)[2] \in DOMAIN To(n)
      PROVE  c \in Branches(t, n)
  <2>1. c = Branch(t, n, Last(c)[2])  BY <1>5, FrontIs
  <2>2. QED  BY <1>5, <2>1 DEF Branches
<1>6. ASSUME NEW a \in DOMAIN To(n), NEW b \in DOMAIN To(n), Branch(t, n, a) = Branch(t, n, b)
      PROVE  a = b
  <2>1. <<n, a>> = <<n, b>>  BY <1>3, <1>6
  <2>2. QED  BY <2>1
<1>7. Branches(t, n) # {}
  <2>1. 1 \in DOMAIN To(n)  BY <1>1, <1>2
  <2>2. QED  BY <2>1 DEF Branches
<1>8. QED  BY <1>1, <1>2, <1>4, <1>5, <1>6, <1>7, Zenon

(* One token's status is set, if there is such a token.                     *)
SetToken(d, i, t, s) == [d EXCEPT !.token[i][t] = s]

LEMMA SetTokenIs ==
  ASSUME NEW d \in Db, NEW i \in Instances, NEW t, NEW s \in TokenStatus
  PROVE  LET e == SetToken(d, i, t, s)
         IN  /\ e \in Db /\ TokensOnly(d, e, i)
             /\ DOMAIN e.token[i] = DOMAIN d.token[i]
             /\ \A u \in DOMAIN d.token[i] : e.token[i][u] = IF u = t THEN s ELSE d.token[i][u]
<1>1. CASE t \in DOMAIN d.token[i]  BY <1>1, TokenPutIs DEF SetToken
<1>2. CASE t \notin DOMAIN d.token[i]
  <2>1. SetToken(d, i, t, s) = d  BY <1>2, TokenNotPut DEF SetToken
  <2>2. QED  BY <1>2, <2>1 DEF TokensOnly
<1>3. QED  BY <1>1, <1>2

IsMark(f, g, B, s, p, r) ==
  /\ g \in TokenMap /\ DOMAIN g = B \cup {p} \cup DOMAIN f
  /\ \A c \in B : g[c] = s
  /\ g[p] = r
  /\ \A c \in DOMAIN f : c \notin B /\ c # p => g[c] = f[c]

LEMMA MarkIs ==
  ASSUME NEW f \in TokenMap, NEW B \in SUBSET Token, NEW p \in Token, p \notin B,
         NEW s \in TokenStatus, NEW r \in TokenStatus
  PROVE  IsMark(f, Mark(f, B, s, p, r), B, s, p, r)
<1> DEFINE g == Mark(f, B, s, p, r)
           D == B \cup {p} \cup DOMAIN f
<1>1. g = [c \in D |-> IF c \in B THEN s ELSE IF c = p THEN r ELSE f[c]]
  BY DEF Mark
<1>2. DOMAIN f \subseteq Token /\ \A c \in DOMAIN f : f[c] \in TokenStatus  BY TokenMapIs
<1>3. D \in SUBSET Token  BY <1>2
<1>4. g \in [D -> TokenStatus]  BY <1>1, <1>2
<1> HIDE DEF D
<1>5. g \in TokenMap
  <2> HIDE DEF g
  <2>1. QED  BY <1>3, <1>4, TokenMapOf
<1>6. DOMAIN g = D  BY <1>1
<1>7. (\A c \in B : g[c] = s) /\ g[p] = r /\ \A c \in DOMAIN f : c \notin B /\ c # p => g[c] = f[c]
  BY <1>1 DEF D
<1> HIDE DEF g
<1>8. QED  BY <1>5, <1>6, <1>7 DEF D, g, IsMark

(***************************************************************************)
(* What the methods do to the database.                                    *)
(***************************************************************************)

(* What no call takes back.                                                 *)
GrowsAt(d, e, i) ==
  /\ d.moves[i] <= e.moves[i]
  /\ d.inst[i] # "absent" => e.inst[i] # "absent"
  /\ Slots(d, i) \subseteq Slots(e, i)
  /\ \A m \in Slots(d, i) : Kept(d, e, i, m) /\ e.stages[i][m].attempt = d.stages[i][m].attempt

Grows(d, e) == \A i \in Instances : GrowsAt(d, e, i)

LEMMA GrowsBy ==
  ASSUME NEW d \in Db, NEW e \in Db, NEW i \in Instances, Others(d, e, i), GrowsAt(d, e, i),
         \A j \in Instances : j # i => e.moves[j] = d.moves[j]
  PROVE  Grows(d, e)
<1> SUFFICES ASSUME NEW j \in Instances PROVE GrowsAt(d, e, j)  BY DEF Grows
<1>1. CASE j = i  BY <1>1
<1>2. CASE j # i
  <2>1. Same(d, e, j) /\ e.moves[j] = d.moves[j]  BY <1>2 DEF Others
  <2>2. d.moves[j] \in Nat  BY DEF Db
  <2>3. QED  BY <2>1, <2>2 DEF GrowsAt, Same, Slots, Kept
<1>3. QED  BY <1>1, <1>2

(* Of instance i only the named columns of the stages differ, and its head. *)
LEMMA GrowsSlots ==
  ASSUME NEW d \in Db, NEW e \in Db, NEW i \in Instances, Others(d, e, i), e.moves = d.moves,
         d.inst[i] # "absent" => e.inst[i] # "absent",
         Slots(d, i) \subseteq Slots(e, i),
         \A m \in Slots(d, i) : Kept(d, e, i, m) /\ e.stages[i][m].attempt = d.stages[i][m].attempt
  PROVE  Grows(d, e)
<1>1. d.moves[i] \in Nat  BY DEF Db
<1>2. GrowsAt(d, e, i)  BY <1>1 DEF GrowsAt
<1>3. QED  BY <1>2, GrowsBy

(* startProcessLocked, up to its first call.                                *)
StartedDb(d, i) == [Stand(d, i, "queued") EXCEPT !.token[i] = [t \in {Root} |-> "active"]]

LEMMA StartedIs ==
  ASSUME NEW d \in Db, NEW i \in Instances
  PROVE  LET e == StartedDb(d, i)
         IN  /\ StartProcess(d, i) = Do(e, <<ToAdvance(i, Root, StartOf[i])>>)
             /\ e \in Db /\ Others(d, e, i) /\ e.moves = d.moves /\ e.loops = d.loops
             /\ e.inst[i] = "queued" /\ e.run[i] = "queued"
             /\ e.error[i] = d.error[i] /\ e.ending[i] = d.ending[i] /\ e.stages = d.stages
             /\ DOMAIN e.token[i] = {Root} /\ e.token[i][Root] = "active"
<1> DEFINE b == Stand(d, i, "queued")
           f == [t \in {Root} |-> "active"]
           e == StartedDb(d, i)
<1>1. b \in Db /\ HeadOnly(d, b, i)
      /\ b.inst[i] = "queued" /\ b.run[i] = "queued" /\ b.ending = d.ending /\ b.error = d.error
  <2>1. "queued" \in InstStatus  BY DEF InstStatus, OpenInst
  <2>2. QED  BY <2>1, StandHead
<1>2. e = Retoken(b, i, f)
  <2> HIDE DEF f
  <2>1. QED  BY <1>1 DEF StartedDb, Retoken, Db, f
<1>3. f \in TokenMap
  <2>1. f \in [{Root} -> TokenStatus]  BY DEF TokenStatus, LiveToken
  <2>2. {Root} \in SUBSET Token  BY DEF Token, Root
  <2>3. QED  BY <2>1, <2>2, TokenMapOf
<1>4. DOMAIN f = {Root} /\ f[Root] = "active"  OBVIOUS
<1>5. StartProcess(d, i) = Do(e, <<ToAdvance(i, Root, StartOf[i])>>)
  BY DEF StartProcess, StartedDb
<1> HIDE DEF b, f, e
<1>6. e \in Db /\ TokensOnly(b, e, i) /\ e.token[i] = f  BY <1>1, <1>2, <1>3, RetokenIs
<1>7. Others(d, e, i)  BY <1>1, <1>6 DEF Others, Same, TokensOnly, HeadOnly
<1>8. QED  BY <1>1, <1>4, <1>5, <1>6, <1>7 DEF e, TokensOnly, HeadOnly

(* advanceProcessToken, its first statements.                               *)
Entered(d, i, t) == [d EXCEPT !.moves[i] = @ + 1, !.token[i][t] = "active"]

LEMMA EnteredIs ==
  ASSUME NEW d \in Db, NEW i \in Instances, NEW t, d.moves[i] # MaxMoves
  PROVE  LET e == Entered(d, i, t)
         IN  /\ e \in Db /\ e.inst = d.inst /\ e.run = d.run /\ e.ending = d.ending
             /\ e.error = d.error /\ e.stages = d.stages /\ e.loops = d.loops
             /\ \A j \in Instances : j # i => e.token[j] = d.token[j] /\ e.moves[j] = d.moves[j]
             /\ e.moves[i] = d.moves[i] + 1
             /\ DOMAIN e.token[i] = DOMAIN d.token[i]
             /\ \A u \in DOMAIN d.token[i] : e.token[i][u] = IF u = t THEN "active" ELSE d.token[i][u]
<1> DEFINE mm == [d.moves EXCEPT ![i] = @ + 1]
           b == [d EXCEPT !.moves = mm]
           e == SetToken(b, i, t, "active")
<1>1. d.moves \in [Instances -> 0..MaxMoves] /\ MaxMoves \in Nat  BY LimitsAssumption DEF Db
<1>2. mm \in [Instances -> 0..MaxMoves] /\ mm[i] = d.moves[i] + 1
      /\ \A j \in Instances : j # i => mm[j] = d.moves[j]
  BY <1>1
<1>3. Entered(d, i, t) = e  BY DEF Entered, Db, SetToken
<1> HIDE DEF mm
<1>4. b \in Db /\ b.inst = d.inst /\ b.run = d.run /\ b.ending = d.ending
      /\ b.error = d.error /\ b.stages = d.stages /\ b.loops = d.loops /\ b.token = d.token
      /\ b.moves = mm
  BY <1>2 DEF Db
<1> HIDE DEF b
<1>5. "active" \in TokenStatus  BY DEF TokenStatus, LiveToken
<1>6. /\ e \in Db /\ TokensOnly(b, e, i)
      /\ DOMAIN e.token[i] = DOMAIN b.token[i]
      /\ \A u \in DOMAIN b.token[i] : e.token[i][u] = IF u = t THEN "active" ELSE b.token[i][u]
  BY <1>4, <1>5, SetTokenIs
<1> HIDE DEF e
<1>7. QED  BY <1>2, <1>3, <1>4, <1>6 DEF TokensOnly

(* syncProcessAggregateStatus.                                              *)
LEMMA SyncIs ==
  ASSUME NEW d \in Db, NEW i \in Instances
  PROVE  LET e == Sync(d, i)
         IN  /\ e \in Db /\ HeadOnly(d, e, i) /\ e.ending = d.ending /\ e.error = d.error
             /\ d.inst[i] \in Ended \cup {"compensating"} => e = d
             /\ d.inst[i] \notin Ended \cup {"compensating"} => e.run[i] = e.inst[i]
             /\ d.inst[i] \in OpenInst =>
                  /\ e.inst[i] \in OpenInst
                  /\ e.inst[i] \in {"queued", "running"} \/ InStatus(d, i, {"queued", "running"}) = {}
             /\ d.inst[i] # "absent" => e.inst[i] # "absent"
<1> DEFINE e == Sync(d, i)
<1>1. CASE d.inst[i] \in Ended \cup {"compensating"}
  <2>1. e = d  BY <1>1 DEF Sync
  <2>2. d.inst[i] \notin OpenInst  BY <1>1 DEF OpenInst, Ended
  <2>3. QED  BY <1>1, <2>1, <2>2 DEF HeadOnly
<1>2. CASE d.inst[i] \notin Ended \cup {"compensating"}
  <2> DEFINE Some(s) == InStatus(d, i, {s}) # {}
             status  == IF Some("running") THEN "running"
                        ELSE IF Some("queued") THEN "queued"
                        ELSE IF Some("waiting_approval") THEN "waiting_approval"
                        ELSE IF Some("waiting_external") THEN "waiting_external"
                        ELSE IF Live(d, i) # {} THEN "running" ELSE d.inst[i]
  <2>1. e = Stand(d, i, status)  BY <1>2 DEF Sync
  <2>2. d.inst[i] \in InstStatus  BY DEF Db
  <2>3. status \in OpenInst \/ status = d.inst[i]  BY DEF OpenInst
  <2>4. status \in {"queued", "running"} \/ (~Some("running") /\ ~Some("queued"))  OBVIOUS
  <2> HIDE DEF status
  <2>5. status \in InstStatus  BY <2>2, <2>3 DEF InstStatus
  <2>6. ~Some("running") /\ ~Some("queued") => InStatus(d, i, {"queued", "running"}) = {}
    BY DEF InStatus
  <2>7. e \in Db /\ HeadOnly(d, e, i)
        /\ e.inst[i] = status /\ e.run[i] = status /\ e.ending = d.ending /\ e.error = d.error
    <3> HIDE DEF e
    <3>1. QED  BY <2>1, <2>5, StandHead
  <2> HIDE DEF e, Some
  <2>8. QED  BY <1>2, <2>3, <2>4, <2>6, <2>7 DEF e, OpenInst
<1>3. QED  BY <1>1, <1>2

LEMMA NewUndoIs ==
  ASSUME NEW n \in GNodes, Len(To(n)) = 1
  PROVE  NewStage(n, NoToken, "compensation", "queued") \in StageSet
<1>1. "queued" \in (OpenStage \cup Ended) \ {"running"} /\ NoToken \in Token \cup {NoToken}
      /\ "compensation" \in (StageKinds \ {"gated"}) \cup {"compensation"}
  BY DEF OpenStage
<1>2. OfKind(n, "compensation")  BY DEF OfKind
<1>3. QED  BY <1>1, <1>2, NewStageIs

(* queueNextCompensation, when there is one.                                *)
UndoFacts(d, e, i, k, L) ==
  /\ e \in Db /\ StagesOnly(d, e, i) /\ Grows(d, e)
  /\ L \notin Slots(d, i) /\ Slots(e, i) = Slots(d, i) \cup {L}
  /\ \A m \in Slots(d, i) :
       /\ Kept(d, e, i, m) /\ e.stages[i][m].status = d.stages[i][m].status
       /\ e.stages[i][m].lapsed = d.stages[i][m].lapsed
       /\ e.stages[i][m].row = IF m = k THEN "queued" ELSE d.stages[i][m].row
  /\ e.stages[i][L].kind = "compensation" /\ e.stages[i][L].status = "queued"
  /\ e.stages[i][L].row = "none" /\ e.stages[i][L].of = k
  /\ e.stages[i][L].node = d.stages[i][k].node /\ e.stages[i][L].lapsed = FALSE

LEMMA UndoIs ==
  ASSUME NEW d \in Db, NEW i \in Instances, NEW k \in Slots(d, i)
  PROVE  \E e : Undo(d, i, k) = Do(e, <<>>) /\ UndoFacts(d, e, i, k, Len(d.stages[i]) + 1)
<1> DEFINE L    == Len(d.stages[i]) + 1
           new  == NewStage(d.stages[i][k].node, NoToken, "compensation", "queued")
           undo == [new EXCEPT !.of = k]
           b    == Insert(d, i, undo)
           e    == SetRow(b, i, k, "queued")
<1>1. d.stages[i][k] \in StageSet  BY DEF Db, Slots
<1>2. d.stages[i][k].node \in GNodes /\ Len(To(d.stages[i][k].node)) = 1
  BY <1>1 DEF StageSet, StageType, StageOK
<1>3. /\ new \in StageSet
      /\ new.node = d.stages[i][k].node /\ new.token = NoToken /\ new.kind = "compensation"
      /\ new.status = "queued" /\ new.attempt = 0 /\ new.lapsed = FALSE /\ new.of = 0 /\ new.row = "none"
  <2>1. new \in StageSet  BY <1>2, NewUndoIs
  <2>2. QED  BY <2>1 DEF NewStage
<1> HIDE DEF new
<1>4. new \in StageType /\ StageOK(new)  BY <1>3 DEF StageSet
<1>5. k \in Nat
  <2>1. d.stages[i] \in Seq(StageSet)  BY DEF Db
  <2>2. QED  BY <2>1 DEF Slots
<1>6. /\ undo.node = new.node /\ undo.token = new.token /\ undo.kind = new.kind
      /\ undo.status = new.status /\ undo.attempt = new.attempt /\ undo.lapsed = new.lapsed
      /\ undo.of = k /\ undo.row = new.row
  BY <1>4 DEF StageType
<1>7. undo \in StageType  BY <1>4, <1>5 DEF StageType
<1> HIDE DEF undo
<1>8. undo \in StageSet  BY <1>4, <1>6, <1>7 DEF StageSet, StageOK
<1>9. /\ b \in Db /\ StagesOnly(d, b, i)
      /\ Len(d.stages[i]) \in Nat /\ Slots(d, i) = 1..Len(d.stages[i])
      /\ Slots(b, i) = Slots(d, i) \cup {L}
      /\ \A m \in Slots(d, i) : b.stages[i][m] = d.stages[i][m]
      /\ b.stages[i][L] = undo
  BY <1>8, InsertIs
<1>10. L \notin Slots(d, i) /\ \A m \in Slots(d, i) : m < L  BY <1>9
<1>11. Undo(d, i, k) = Do(e, <<>>) /\ Undo(d, i, k).db = e
  BY DEF Undo, Done, Do, undo, new
<1> HIDE DEF b
<1>12. /\ e \in Db /\ StagesOnly(b, e, i) /\ Slots(e, i) = Slots(b, i)
       /\ \A m \in Slots(b, i) : m # k => e.stages[i][m] = b.stages[i][m]
       /\ e.stages[i][k].node = b.stages[i][k].node /\ e.stages[i][k].token = b.stages[i][k].token
       /\ e.stages[i][k].kind = b.stages[i][k].kind /\ e.stages[i][k].row = "queued"
       /\ e.stages[i][k].of = b.stages[i][k].of /\ e.stages[i][k].attempt = b.stages[i][k].attempt
       /\ e.stages[i][k].status = b.stages[i][k].status
       /\ e.stages[i][k].lapsed = b.stages[i][k].lapsed
  <2>1. k \in Slots(b, i)  BY <1>9
  <2>2. "queued" \in RowValues \ {"waiting"}  BY DEF RowValues
  <2>3. b \in Db  BY <1>9
  <2>4. QED  BY <2>1, <2>2, <2>3, SetRowIs
<1> HIDE DEF e, L
<1>13. StagesOnly(d, e, i)  BY <1>9, <1>12 DEF StagesOnly
<1>14. Slots(e, i) = Slots(d, i) \cup {L}  BY <1>9, <1>12
<1>15. \A m \in Slots(d, i) :
         /\ Kept(d, e, i, m) /\ e.stages[i][m].status = d.stages[i][m].status
         /\ e.stages[i][m].lapsed = d.stages[i][m].lapsed
         /\ e.stages[i][m].attempt = d.stages[i][m].attempt
         /\ e.stages[i][m].row = IF m = k THEN "queued" ELSE d.stages[i][m].row
  BY <1>9, <1>12 DEF Kept
<1>16. e.stages[i][L] = undo  BY <1>9, <1>10, <1>12
<1>17. Grows(d, e)
  <2>1. Others(d, e, i) /\ e.moves = d.moves /\ e.inst = d.inst  BY <1>13 DEF Others, Same, StagesOnly
  <2>2. QED  BY <1>12, <1>14, <1>15, <2>1, GrowsSlots
<1>18. UndoFacts(d, e, i, k, L)
  BY <1>3, <1>6, <1>10, <1>12, <1>13, <1>14, <1>15, <1>16, <1>17 DEF UndoFacts
<1>19. L = Len(d.stages[i]) + 1  BY DEF L
<1>20. QED  BY <1>11, <1>18, <1>19

(* A new stage joins the stages of i and i stands at its status.            *)
InsertedDb(d, i, st, s) == Stand(Insert(d, i, st), i, s)

LEMMA InsertedIs ==
  ASSUME NEW d \in Db, NEW i \in Instances, NEW st \in StageSet, NEW s \in OpenInst
  PROVE  LET e == InsertedDb(d, i, st, s)  L == Len(d.stages[i]) + 1
         IN  /\ e \in Db /\ Others(d, e, i) /\ e.moves = d.moves /\ e.loops = d.loops /\ Grows(d, e)
             /\ e.inst[i] = s /\ e.run[i] = s
             /\ e.error[i] = d.error[i] /\ e.ending[i] = d.ending[i] /\ e.token = d.token
             /\ L \notin Slots(d, i) /\ Slots(e, i) = Slots(d, i) \cup {L} /\ L = Len(e.stages[i])
             /\ \A m \in Slots(d, i) : e.stages[i][m] = d.stages[i][m]
             /\ e.stages[i][L] = st
<1> DEFINE L == Len(d.stages[i]) + 1
           b == Insert(d, i, st)
           e == InsertedDb(d, i, st, s)
<1>1. /\ b \in Db /\ StagesOnly(d, b, i)
      /\ Len(d.stages[i]) \in Nat /\ Slots(d, i) = 1..Len(d.stages[i])
      /\ Slots(b, i) = Slots(d, i) \cup {L} /\ Len(b.stages[i]) = L
      /\ \A m \in Slots(d, i) : b.stages[i][m] = d.stages[i][m]
      /\ b.stages[i][L] = st
  BY InsertIs
<1>2. L \notin Slots(d, i)  BY <1>1
<1>3. e = Stand(b, i, s)  BY DEF InsertedDb
<1> HIDE DEF b, e, L
<1>4. s \in InstStatus  BY DEF InstStatus
<1>5. /\ e \in Db /\ HeadOnly(b, e, i) /\ e.inst[i] = s /\ e.run[i] = s
      /\ e.ending = b.ending /\ e.error = b.error
  BY <1>1, <1>3, <1>4, StandHead
<1>6. e.stages = b.stages /\ e.token = d.token /\ e.moves = d.moves /\ e.loops = d.loops
  BY <1>1, <1>5 DEF HeadOnly, StagesOnly
<1>7. Others(d, e, i)  BY <1>1, <1>5 DEF Others, Same, HeadOnly, StagesOnly
<1>8. Slots(e, i) = Slots(d, i) \cup {L}  BY <1>1, <1>6 DEF Slots
<1>9. s # "absent"  BY DEF OpenInst
<1>10. Grows(d, e)
  <2>1. \A m \in Slots(d, i) : Kept(d, e, i, m) /\ e.stages[i][m].attempt = d.stages[i][m].attempt
    BY <1>1, <1>6 DEF Kept
  <2>2. QED  BY <1>5, <1>6, <1>7, <1>8, <1>9, <2>1, GrowsSlots
<1>11. e.error[i] = d.error[i] /\ e.ending[i] = d.ending[i]  BY <1>1, <1>5 DEF StagesOnly
<1>12. QED  BY <1>1, <1>2, <1>5, <1>6, <1>7, <1>8, <1>10, <1>11 DEF e, L

(* queueProcessAgent, -Http, -Wait, -Approval and -Signal.                  *)
QueueKinds == {"agent", "gated", "http", "wait", "approval", "signal"}

QueuesAs(d, i, t, n, st, s) ==
  /\ QueueStage(d, i, t, n) = InsertedDb(d, i, st, s)
  /\ st.node = n /\ st.token = t /\ st.status = s /\ st.attempt = 0 /\ st.lapsed = FALSE
  /\ s \in {"queued", "waiting_approval", "waiting_external"}
  /\ st.kind \in {"agent", "http", "wait", "approval", "signal"}
  /\ st.kind = (IF Kind(n) = "gated" THEN "agent" ELSE Kind(n))
  /\ st.row = (IF st.kind = "signal" THEN "waiting" ELSE "none")
  /\ st.kind = "signal" => s = "waiting_external"

LEMMA QueueStageIs ==
  ASSUME NEW d \in Db, NEW i \in Instances, NEW t \in Token, NEW n \in GNodes, Kind(n) \in QueueKinds
  PROVE  \E st \in StageSet, s \in OpenInst : QueuesAs(d, i, t, n, st, s)
<1> DEFINE kind   == IF Kind(n) = "gated" THEN "agent" ELSE Kind(n)
           status == CASE Kind(n) \in {"gated", "approval"} -> "waiting_approval"
                       [] Kind(n) = "signal" -> "waiting_external"
                       [] OTHER -> "queued"
           st     == NewStage(n, t, kind, status)
<1>1. QueueStage(d, i, t, n) = InsertedDb(d, i, st, status)
  BY DEF QueueStage, InsertedDb
<1>2. kind \in {"agent", "http", "wait", "approval", "signal"}  BY DEF QueueKinds
<1>3. status \in {"queued", "waiting_approval", "waiting_external"}
      /\ (kind = "signal" => status = "waiting_external")
  BY DEF QueueKinds
<1>4. Len(To(n)) = 1
  <2>1. Kind(n) \notin {"end", "fork"} /\ n \notin Choosers  BY DEF QueueKinds, Choosers
  <2>2. Len(To(n)) \in {1}  BY <2>1, GraphAssumption
  <2>3. QED  BY <2>2
<1>9. OfKind(n, kind)  BY DEF OfKind
<1>10. kind = IF Kind(n) = "gated" THEN "agent" ELSE Kind(n)  OBVIOUS
<1> HIDE DEF kind, status
<1>5. st \in StageSet
  <2>1. kind \in (StageKinds \ {"gated"}) \cup {"compensation"}  BY <1>2 DEF StageKinds
  <2>2. status \in (OpenStage \cup Ended) \ {"running"}  BY <1>3 DEF OpenStage
  <2>3. kind # "compensation" /\ kind # "subprocess"  BY <1>2
  <2>4. t \in Token \cup {NoToken}  OBVIOUS
  <2>5. QED  BY <1>4, <1>9, <2>1, <2>2, <2>3, <2>4, NewStageIs
<1>6. status \in OpenInst  BY <1>3 DEF OpenInst
<1>7. /\ st.node = n /\ st.token = t /\ st.kind = kind /\ st.status = status /\ st.attempt = 0
      /\ st.lapsed = FALSE /\ st.row = IF kind = "signal" THEN "waiting" ELSE "none"
  BY DEF NewStage
<1> HIDE DEF st
<1>8. QED  BY <1>1, <1>2, <1>3, <1>5, <1>6, <1>7, <1>10 DEF QueuesAs

(* A stage ends.                                                            *)
StageEnds(d, e, i, k, s) ==
  /\ e \in Db /\ StagesOnly(d, e, i)
  /\ Slots(e, i) = Slots(d, i)
  /\ \A m \in Slots(d, i) : m # k => e.stages[i][m] = d.stages[i][m]
  /\ Kept(d, e, i, k) /\ e.stages[i][k].row = d.stages[i][k].row
  /\ e.stages[i][k].attempt = d.stages[i][k].attempt
  /\ e.stages[i][k].status = s /\ e.stages[i][k].lapsed = FALSE

LEMMA EndStageIs ==
  ASSUME NEW d \in Db, NEW i \in Instances, NEW k \in Slots(d, i), NEW s \in Ended
  PROVE  StageEnds(d, SetStage(d, i, k, s), i, k, s)
<1>1. s \in OpenStage \cup Ended  OBVIOUS
<1>2. s \notin OpenStage  BY DEF OpenStage, Ended
<1>3. s \notin {"waiting_approval", "waiting_external"}  BY DEF Ended
<1>4. CanBe(d.stages[i][k], s)  BY <1>2, <1>3 DEF CanBe
<1> DEFINE e == SetStage(d, i, k, s)
<1>5. /\ e \in Db /\ StagesOnly(d, e, i)
      /\ Slots(e, i) = Slots(d, i) /\ Len(e.stages[i]) = Len(d.stages[i])
      /\ \A m \in Slots(d, i) : m # k => e.stages[i][m] = d.stages[i][m]
      /\ e.stages[i][k].node = d.stages[i][k].node /\ e.stages[i][k].token = d.stages[i][k].token
      /\ e.stages[i][k].kind = d.stages[i][k].kind /\ e.stages[i][k].row = d.stages[i][k].row
      /\ e.stages[i][k].of = d.stages[i][k].of /\ e.stages[i][k].attempt = d.stages[i][k].attempt
      /\ e.stages[i][k].status = s /\ e.stages[i][k].lapsed = FALSE
  BY <1>1, <1>4, SetStageIs, Zenon
<1> HIDE DEF e
<1>6. QED  BY <1>5 DEF Kept, StageEnds, e

(* A stage's row and its status are set: a link and the stage that waits.   *)
LEMMA SettledIs ==
  ASSUME NEW d \in Db, NEW i \in Instances, NEW k \in Slots(d, i), NEW r \in RowValues \ {"waiting"},
         NEW s \in {"completed", "failed"}
  PROVE  LET e == SetStage(SetRow(d, i, k, r), i, k, s)
         IN  /\ e \in Db /\ StagesOnly(d, e, i) /\ Grows(d, e)
             /\ Slots(e, i) = Slots(d, i)
             /\ \A m \in Slots(d, i) : m # k => e.stages[i][m] = d.stages[i][m]
             /\ Kept(d, e, i, k) /\ e.stages[i][k].row = r
             /\ e.stages[i][k].status = s /\ e.stages[i][k].lapsed = FALSE
<1> DEFINE b == SetRow(d, i, k, r)
           e == SetStage(b, i, k, s)
<1>1. /\ b \in Db /\ StagesOnly(d, b, i) /\ Slots(b, i) = Slots(d, i)
      /\ \A m \in Slots(d, i) : m # k => b.stages[i][m] = d.stages[i][m]
      /\ b.stages[i][k].node = d.stages[i][k].node /\ b.stages[i][k].token = d.stages[i][k].token
      /\ b.stages[i][k].kind = d.stages[i][k].kind /\ b.stages[i][k].row = r
      /\ b.stages[i][k].of = d.stages[i][k].of /\ b.stages[i][k].attempt = d.stages[i][k].attempt
  BY SetRowIs
<1> HIDE DEF b
<1>2. StageEnds(b, e, i, k, s)
  <2>1. k \in Slots(b, i)  BY <1>1
  <2>2. b \in Db  BY <1>1
  <2>3. s \in Ended  BY DEF Ended
  <2>4. QED  BY <2>1, <2>2, <2>3, EndStageIs
<1> HIDE DEF e
<1>3. StagesOnly(d, e, i) /\ Slots(e, i) = Slots(d, i)  BY <1>1, <1>2 DEF StagesOnly, StageEnds
<1>4. \A m \in Slots(d, i) : m # k => e.stages[i][m] = d.stages[i][m]  BY <1>1, <1>2 DEF StageEnds
<1>5. Kept(d, e, i, k) /\ e.stages[i][k].row = r  BY <1>1, <1>2 DEF Kept, StageEnds
<1>6. Grows(d, e)
  <2>1. Others(d, e, i) /\ e.moves = d.moves /\ e.inst = d.inst  BY <1>3 DEF Others, Same, StagesOnly
  <2>2. \A m \in Slots(d, i) : Kept(d, e, i, m) /\ e.stages[i][m].attempt = d.stages[i][m].attempt
    BY <1>1, <1>2, <1>4, <1>5 DEF Kept, StageEnds
  <2>3. QED  BY <1>2, <1>3, <2>1, <2>2, GrowsSlots DEF StageEnds
<1>7. QED  BY <1>2, <1>3, <1>4, <1>5, <1>6 DEF b, e, StageEnds

(***************************************************************************)
(* What each call does, case by case.  `u` are the calls it makes.         *)
(***************************************************************************)
NoNewLapse(d, e) ==
  \A i \in Instances : \A k \in Slots(e, i) :
    e.stages[i][k].lapsed => k \in Slots(d, i) /\ d.stages[i][k].lapsed

(* The instances but those of I are as they were.                           *)
Touches(d, e, I) ==
  /\ e \in Db /\ Grows(d, e) /\ NoNewLapse(d, e) /\ e.moves = d.moves
  /\ \A j \in Instances \ I : Same(d, e, j)

LEMMA NoLapseAt ==
  ASSUME NEW d, NEW e, NEW i \in Instances, Others(d, e, i),
         \A k \in Slots(e, i) : e.stages[i][k].lapsed => k \in Slots(d, i) /\ d.stages[i][k].lapsed
  PROVE  NoNewLapse(d, e)
<1>1. SUFFICES ASSUME NEW j \in Instances, NEW k \in Slots(e, j), e.stages[j][k].lapsed
               PROVE  k \in Slots(d, j) /\ d.stages[j][k].lapsed
  BY DEF NoNewLapse
<1>2. CASE j = i  BY <1>1, <1>2
<1>3. CASE j # i
  <2>1. Same(d, e, j)  BY <1>3 DEF Others
  <2>2. QED  BY <1>1, <2>1 DEF Same, Slots
<1>4. QED  BY <1>2, <1>3

LEMMA GrowsSelf ==
  ASSUME NEW d \in Db, NEW e \in Db, e.moves = d.moves, \A j \in Instances : Same(d, e, j)
  PROVE  Touches(d, e, {}) /\ \A i \in Instances : Touches(d, e, {i})
<1>1. Grows(d, e)
  <2>1. SUFFICES ASSUME NEW j \in Instances PROVE GrowsAt(d, e, j)  BY DEF Grows
  <2>2. Same(d, e, j) /\ d.moves[j] \in Nat  BY DEF Db
  <2>3. QED  BY <2>2 DEF GrowsAt, Same, Slots, Kept
<1>2. NoNewLapse(d, e)  BY DEF NoNewLapse, Same, Slots
<1>3. QED  BY <1>1, <1>2 DEF Touches

(* Nothing of an instance changes.                                          *)
Still(d, e) == Touches(d, e, {})

LEMMA StillIs ==
  ASSUME NEW d \in Db
  PROVE  Still(d, d)
BY GrowsSelf DEF Still, Same

NextSlot(d, i) == Len(d.stages[i]) + 1

(* A stage is added to those of i.                                          *)
Added(d, e, i, st) ==
  /\ Touches(d, e, {i})
  /\ e.error[i] = d.error[i] /\ e.ending[i] = d.ending[i] /\ e.token[i] = d.token[i]
  /\ NextSlot(d, i) \notin Slots(d, i) /\ Slots(e, i) = Slots(d, i) \cup {NextSlot(d, i)}
  /\ \A m \in Slots(d, i) : e.stages[i][m] = d.stages[i][m] /\ m < NextSlot(d, i)
  /\ e.stages[i][NextSlot(d, i)] = st

StandsAt(e, i, s) == e.inst[i] = s /\ e.run[i] = s

LEMMA AddIs ==
  ASSUME NEW d \in Db, NEW i \in Instances, NEW st \in StageSet, st.lapsed = FALSE
  PROVE  /\ Added(d, Insert(d, i, st), i, st)
         /\ Insert(d, i, st).inst = d.inst /\ Insert(d, i, st).run = d.run
<1> DEFINE L == Len(d.stages[i]) + 1
           e == Insert(d, i, st)
<1>1. /\ e \in Db /\ StagesOnly(d, e, i)
      /\ Len(d.stages[i]) \in Nat /\ Slots(d, i) = 1..Len(d.stages[i])
      /\ Slots(e, i) = Slots(d, i) \cup {L} /\ Len(e.stages[i]) = L
      /\ \A m \in Slots(d, i) : e.stages[i][m] = d.stages[i][m]
      /\ e.stages[i][L] = st
  BY InsertIs
<1>2. L \notin Slots(d, i) /\ \A m \in Slots(d, i) : m < L  BY <1>1
<1>3. L = NextSlot(d, i)  BY DEF NextSlot
<1> HIDE DEF e, L
<1>4. Others(d, e, i) /\ e.moves = d.moves /\ e.inst = d.inst  BY <1>1 DEF Others, Same, StagesOnly
<1>5. Grows(d, e)
  <2>1. \A m \in Slots(d, i) : Kept(d, e, i, m) /\ e.stages[i][m].attempt = d.stages[i][m].attempt
    BY <1>1 DEF Kept
  <2>2. QED  BY <1>1, <1>4, <2>1, GrowsSlots
<1>6. NoNewLapse(d, e)
  <2>1. \A k \in Slots(e, i) : e.stages[i][k].lapsed => k \in Slots(d, i) /\ d.stages[i][k].lapsed
    BY <1>1
  <2>2. QED  BY <1>4, <2>1, NoLapseAt
<1>7. Touches(d, e, {i})  BY <1>1, <1>4, <1>5, <1>6 DEF Touches, Others
<1>8. QED  BY <1>1, <1>2, <1>3, <1>7 DEF Added, StagesOnly, e

LEMMA AddStandIs ==
  ASSUME NEW d \in Db, NEW i \in Instances, NEW st \in StageSet, st.lapsed = FALSE, NEW s \in OpenInst
  PROVE  /\ Added(d, InsertedDb(d, i, st, s), i, st)
         /\ StandsAt(InsertedDb(d, i, st, s), i, s)
         /\ Len(InsertedDb(d, i, st, s).stages[i]) = NextSlot(d, i)
<1> DEFINE e == InsertedDb(d, i, st, s)
           L == Len(d.stages[i]) + 1
           b == Insert(d, i, st)
<1>1. Added(d, b, i, st) /\ b.inst = d.inst /\ b.run = d.run  BY AddIs
<1>2. b \in Db /\ Len(b.stages[i]) = L  BY InsertIs
<1>3. e = Stand(b, i, s)  BY DEF InsertedDb
<1>4. L = NextSlot(d, i)  BY DEF NextSlot
<1> HIDE DEF b, e, L
<1>5. s \in InstStatus /\ s # "absent"  BY DEF InstStatus, OpenInst
<1>6. /\ e \in Db /\ HeadOnly(b, e, i) /\ e.inst[i] = s /\ e.run[i] = s
      /\ e.ending = b.ending /\ e.error = b.error
  BY <1>2, <1>3, <1>5, StandHead
<1>7. Others(d, e, i) /\ e.moves = d.moves /\ e.stages = b.stages /\ e.token = b.token
  BY <1>1, <1>6 DEF Others, Same, HeadOnly, Added, Touches
<1>8. Slots(e, i) = Slots(b, i)  BY <1>7 DEF Slots
<1>9. Grows(d, e)
  <2>1. \A m \in Slots(d, i) : Kept(d, e, i, m) /\ e.stages[i][m].attempt = d.stages[i][m].attempt
    BY <1>1, <1>7 DEF Kept, Added
  <2>2. Slots(d, i) \subseteq Slots(e, i)  BY <1>1, <1>8 DEF Added
  <2>3. QED  BY <1>5, <1>6, <1>7, <2>1, <2>2, GrowsSlots
<1>10. NoNewLapse(d, e)
  <2>1. \A k \in Slots(e, i) : e.stages[i][k].lapsed => k \in Slots(d, i) /\ d.stages[i][k].lapsed
    BY <1>1, <1>7, <1>8 DEF Added
  <2>2. QED  BY <1>7, <2>1, NoLapseAt
<1>11. Touches(d, e, {i})  BY <1>6, <1>7, <1>9, <1>10 DEF Touches, Others
<1>12. Added(d, e, i, st)  BY <1>1, <1>6, <1>7, <1>8, <1>11 DEF Added
<1>13. QED  BY <1>2, <1>4, <1>6, <1>7, <1>12 DEF StandsAt, e

(* Of i only the tokens change.                                             *)
Retokens(d, e, i) ==
  /\ Touches(d, e, {i})
  /\ e.inst[i] = d.inst[i] /\ e.run[i] = d.run[i] /\ e.error[i] = d.error[i]
  /\ e.ending[i] = d.ending[i] /\ e.stages[i] = d.stages[i]

LEMMA RetokensIs ==
  ASSUME NEW d \in Db, NEW e \in Db, NEW i \in Instances, TokensOnly(d, e, i)
  PROVE  Retokens(d, e, i)
<1>1. Others(d, e, i) /\ e.moves = d.moves /\ e.inst = d.inst /\ e.stages = d.stages
  BY DEF Others, Same, TokensOnly
<1>2. Slots(e, i) = Slots(d, i)  BY <1>1 DEF Slots
<1>3. Grows(d, e)
  <2>1. \A m \in Slots(d, i) : Kept(d, e, i, m) /\ e.stages[i][m].attempt = d.stages[i][m].attempt
    BY <1>1 DEF Kept
  <2>2. QED  BY <1>1, <1>2, <2>1, GrowsSlots
<1>4. NoNewLapse(d, e)  BY <1>1 DEF NoNewLapse, Slots
<1>5. Touches(d, e, {i})  BY <1>1, <1>3, <1>4 DEF Touches, Others
<1>6. QED  BY <1>5 DEF Retokens, TokensOnly

(* One token's status is set, if there is such a token.                     *)
TokenSet(d, e, i, t, s) ==
  /\ Retokens(d, e, i)
  /\ DOMAIN e.token[i] = DOMAIN d.token[i]
  /\ \A u \in DOMAIN d.token[i] : e.token[i][u] = IF u = t THEN s ELSE d.token[i][u]

LEMMA TokenSetIs ==
  ASSUME NEW d \in Db, NEW i \in Instances, NEW t, NEW s \in TokenStatus
  PROVE  TokenSet(d, SetToken(d, i, t, s), i, t, s)
<1> DEFINE e == SetToken(d, i, t, s)
<1>1. /\ e \in Db /\ TokensOnly(d, e, i)
      /\ DOMAIN e.token[i] = DOMAIN d.token[i]
      /\ \A u \in DOMAIN d.token[i] : e.token[i][u] = IF u = t THEN s ELSE d.token[i][u]
  BY SetTokenIs
<1> HIDE DEF e
<1>2. Retokens(d, e, i)  BY <1>1, RetokensIs
<1>3. TokenSet(d, e, i, t, s)  BY <1>1, <1>2 DEF TokenSet
<1>4. QED  BY <1>3 DEF e

(* The tokens in B get the status s, and p the status r.                    *)
Marked(d, e, i, B, s, p, r) ==
  /\ Retokens(d, e, i)
  /\ DOMAIN e.token[i] = B \cup {p} \cup DOMAIN d.token[i]
  /\ \A c \in B : e.token[i][c] = s
  /\ e.token[i][p] = r
  /\ \A c \in DOMAIN d.token[i] : c \notin B /\ c # p => e.token[i][c] = d.token[i][c]

MarkDb(d, i, B, s, p, r) == [d EXCEPT !.token[i] = Mark(@, B, s, p, r)]

LEMMA MarkedIs ==
  ASSUME NEW d \in Db, NEW i \in Instances, NEW B \in SUBSET Token, NEW p \in Token, p \notin B,
         NEW s \in TokenStatus, NEW r \in TokenStatus
  PROVE  Marked(d, MarkDb(d, i, B, s, p, r), i, B, s, p, r)
<1> DEFINE f == Mark(d.token[i], B, s, p, r)
           e == MarkDb(d, i, B, s, p, r)
<1>1. d.token[i] \in TokenMap  BY DEF Db
<1>2. IsMark(d.token[i], f, B, s, p, r)
  BY <1>1, MarkIs
<1> HIDE DEF f
<1>3. e = Retoken(d, i, f)  BY DEF MarkDb, Retoken, Db, f
<1>4. e \in Db /\ TokensOnly(d, e, i) /\ e.token[i] = f
  <2> HIDE DEF e
  <2>1. QED  BY <1>2, <1>3, RetokenIs DEF IsMark
<1> HIDE DEF e
<1>5. Retokens(d, e, i)  BY <1>4, RetokensIs
<1>6. Marked(d, e, i, B, s, p, r)  BY <1>2, <1>4, <1>5 DEF Marked, IsMark
<1>7. QED  BY <1>6 DEF e

(* syncProcessAggregateStatus.                                              *)
Synced(d, e, i) ==
  /\ Touches(d, e, {i})
  /\ e.stages[i] = d.stages[i] /\ e.token[i] = d.token[i]
  /\ e.error[i] = d.error[i] /\ e.ending[i] = d.ending[i]
  /\ d.inst[i] \in Ended \cup {"compensating"} => Same(d, e, i)
  /\ d.inst[i] \notin Ended \cup {"compensating"} => e.run[i] = e.inst[i]
  /\ d.inst[i] \in OpenInst =>
       /\ e.inst[i] \in OpenInst
       /\ e.inst[i] \in {"queued", "running"} \/ InStatus(d, i, {"queued", "running"}) = {}
  /\ InStatus(d, i, OpenStage) = {} /\ Live(d, i) = {} => e.inst[i] = d.inst[i]

LEMMA SyncIdle ==
  ASSUME NEW d \in Db, NEW i \in Instances, InStatus(d, i, OpenStage) = {}, Live(d, i) = {}
  PROVE  Sync(d, i).inst[i] = d.inst[i]
<1>1. CASE d.inst[i] \in Ended \cup {"compensating"}  BY <1>1 DEF Sync
<1>2. CASE d.inst[i] \notin Ended \cup {"compensating"}
  <2>1. \A s \in OpenStage : InStatus(d, i, {s}) = {}  BY DEF InStatus
  <2>2. /\ InStatus(d, i, {"running"}) = {} /\ InStatus(d, i, {"queued"}) = {}
        /\ InStatus(d, i, {"waiting_approval"}) = {} /\ InStatus(d, i, {"waiting_external"}) = {}
    BY <2>1 DEF OpenStage
  <2>3. Sync(d, i) = Stand(d, i, d.inst[i])  BY <1>2, <2>2 DEF Sync
  <2>4. d.inst[i] \in InstStatus  BY DEF Db
  <2>5. QED  BY <2>3, <2>4, StandHead
<1>3. QED  BY <1>1, <1>2

LEMMA SyncedIs ==
  ASSUME NEW d \in Db, NEW i \in Instances
  PROVE  Synced(d, Sync(d, i), i)
<1> DEFINE e == Sync(d, i)
<1>1. /\ e \in Db /\ HeadOnly(d, e, i) /\ e.ending = d.ending /\ e.error = d.error
      /\ d.inst[i] \in Ended \cup {"compensating"} => e = d
      /\ d.inst[i] \notin Ended \cup {"compensating"} => e.run[i] = e.inst[i]
      /\ d.inst[i] \in OpenInst =>
           /\ e.inst[i] \in OpenInst
           /\ e.inst[i] \in {"queued", "running"} \/ InStatus(d, i, {"queued", "running"}) = {}
      /\ d.inst[i] # "absent" => e.inst[i] # "absent"
  BY SyncIs
<1>2. InStatus(d, i, OpenStage) = {} /\ Live(d, i) = {} => e.inst[i] = d.inst[i]  BY SyncIdle
<1> HIDE DEF e
<1>3. Others(d, e, i) /\ e.moves = d.moves /\ e.stages = d.stages
  BY <1>1 DEF Others, Same, HeadOnly
<1>4. Grows(d, e)
  <2>1. \A m \in Slots(d, i) : Kept(d, e, i, m) /\ e.stages[i][m].attempt = d.stages[i][m].attempt
    BY <1>3 DEF Kept
  <2>2. Slots(e, i) = Slots(d, i)  BY <1>3 DEF Slots
  <2>3. QED  BY <1>1, <1>3, <2>1, <2>2, GrowsSlots
<1>5. NoNewLapse(d, e)  BY <1>3 DEF NoNewLapse, Slots
<1>6. Touches(d, e, {i})  BY <1>1, <1>3, <1>4, <1>5 DEF Touches, Others
<1>7. Synced(d, e, i)  BY <1>1, <1>2, <1>6 DEF Synced, HeadOnly, Same
<1>8. QED  BY <1>7 DEF e

(* Of i only rows, statuses, leases and the head change.                    *)
SameStage(d, e, i, m) ==
  /\ Kept(d, e, i, m) /\ e.stages[i][m].status = d.stages[i][m].status
  /\ e.stages[i][m].row = d.stages[i][m].row

LEMMA TouchesAt ==
  ASSUME NEW d \in Db, NEW e \in Db, NEW i \in Instances, Others(d, e, i), e.moves = d.moves,
         d.inst[i] # "absent" => e.inst[i] # "absent",
         Slots(e, i) = Slots(d, i),
         \A m \in Slots(d, i) :
           /\ Kept(d, e, i, m) /\ e.stages[i][m].attempt = d.stages[i][m].attempt
           /\ e.stages[i][m].lapsed => d.stages[i][m].lapsed
  PROVE  Touches(d, e, {i})
<1>1. Grows(d, e)  BY GrowsSlots
<1>2. NoNewLapse(d, e)  BY NoLapseAt
<1>3. QED  BY <1>1, <1>2 DEF Touches, Others

(***************************************************************************)
(* advanceProcessToken, case by case.                                      *)
(***************************************************************************)
PassCase(d, e, i, t, n, u) ==
  /\ Still(d, e)
  /\ Kind(n) \in {"start", "condition", "loop", "subprocess"}
  /\ \E m \in GNodes :
       /\ u = <<ToAdvance(i, t, m)>>
       /\ m = n \/ \E b \in DOMAIN To(n) : m = To(n)[b]

FailCase(d, e, i, n, u) ==
  Still(d, e) /\ u = <<ToFail(i, "failed")>> /\ (n \in Fragile \/ Kind(n) = "join")

QueueCase(d, e, i, t, n, u) ==
  /\ u = <<>> /\ Kind(n) \in QueueKinds
  /\ \E st \in StageSet, s \in {"queued", "waiting_approval", "waiting_external"} :
       /\ Added(d, e, i, st) /\ StandsAt(e, i, s)
       /\ st.node = n /\ st.token = t /\ st.status = s /\ st.lapsed = FALSE
       /\ st.kind \in {"agent", "http", "wait", "approval", "signal"}
       /\ st.kind = (IF Kind(n) = "gated" THEN "agent" ELSE Kind(n))
       /\ st.row = (IF st.kind = "signal" THEN "waiting" ELSE "none")
       /\ st.kind = "signal" => s = "waiting_external"

LEMMA QueueIs ==
  ASSUME NEW d \in Db, NEW i \in Instances, NEW t \in Token, NEW n \in GNodes, Kind(n) \in QueueKinds
  PROVE  \E e : Done(QueueStage(d, i, t, n)) = Do(e, <<>>) /\ QueueCase(d, e, i, t, n, <<>>)
<1>1. PICK st \in StageSet, s \in OpenInst : QueuesAs(d, i, t, n, st, s)
  BY QueueStageIs
<1> DEFINE e == InsertedDb(d, i, st, s)
<1>2. Added(d, e, i, st) /\ StandsAt(e, i, s)
  <2>1. st.lapsed = FALSE  BY <1>1 DEF QueuesAs
  <2>2. QED  BY <2>1, AddStandIs
<1>3. Done(QueueStage(d, i, t, n)) = Do(e, <<>>)  BY <1>1 DEF Done, QueuesAs
<1> HIDE DEF e
<1>4. QueueCase(d, e, i, t, n, <<>>)  BY <1>1, <1>2 DEF QueueCase, QueuesAs
<1>5. QED  BY <1>3, <1>4

LEMMA OneWay ==
  ASSUME NEW n \in GNodes, Kind(n) \in StageKinds \cup {"start", "join"}
  PROVE  Len(To(n)) = 1 /\ To(n) \in Seq(GNodes) /\ 1 \in DOMAIN To(n) /\ To(n)[1] \in GNodes
<1>1. Kind(n) \notin {"end", "fork"} /\ n \notin Choosers  BY DEF StageKinds, Choosers
<1>2. Len(To(n)) \in {1} /\ To(n) \in Seq(GNodes)  BY <1>1, GraphAssumption
<1>3. QED  BY <1>2

RunCase(d, e, i, t, n, u) ==
  /\ u = <<ToAdvance(i, t, To(n)[1])>> /\ Kind(n) = "internal"
  /\ e.inst = d.inst /\ e.run = d.run
  /\ \E st \in StageSet :
       /\ Added(d, e, i, st)
       /\ st.node = n /\ st.token = t /\ st.status = "completed" /\ st.lapsed = FALSE
       /\ st.kind = "internal" /\ st.row = "none"

LEMMA InternalIs ==
  ASSUME NEW d \in Db, NEW i \in Instances, NEW t \in Token, NEW n \in GNodes, Kind(n) = "internal"
  PROVE  \E e, u : Internal(d, i, t, n) = Do(e, u) /\ RunCase(d, e, i, t, n, u)
<1> DEFINE st == NewStage(n, t, "internal", "completed")
           e == Insert(d, i, st)
           u == <<ToAdvance(i, t, To(n)[1])>>
<1>1. st \in StageSet
  <2>1. Len(To(n)) = 1  BY OneWay DEF StageKinds
  <2>2. "internal" \in (StageKinds \ {"gated"}) \cup {"compensation"}
        /\ "completed" \in (OpenStage \cup Ended) \ {"running"} /\ t \in Token \cup {NoToken}
    BY DEF StageKinds, Ended
  <2>3. OfKind(n, "internal")  BY DEF OfKind
  <2>4. QED  BY <2>1, <2>2, <2>3, NewStageIs
<1>2. /\ st.node = n /\ st.token = t /\ st.status = "completed" /\ st.lapsed = FALSE
      /\ st.kind = "internal" /\ st.row = "none"
  BY DEF NewStage
<1>3. Internal(d, i, t, n) = Do(e, u)  BY DEF Internal
<1> HIDE DEF st
<1>4. Added(d, e, i, st) /\ e.inst = d.inst /\ e.run = d.run  BY <1>1, <1>2, AddIs
<1> HIDE DEF e
<1>5. RunCase(d, e, i, t, n, u)  BY <1>1, <1>2, <1>4 DEF RunCase
<1>6. QED  BY <1>3, <1>5

(* The stage of a subprocess that waits for its child.                      *)
Waiting(st, n, t) ==
  /\ st \in StageSet /\ st.node = n /\ st.token = t /\ st.status = "waiting_external"
  /\ st.lapsed = FALSE /\ st.kind = "subprocess" /\ st.row = "none"

RefuseCase(d, e, i, t, n, u) ==
  /\ u = <<ToFail(i, "failed")>> /\ n \in Fragile /\ Kind(n) = "subprocess"
  /\ StandsAt(e, i, "waiting_external")
  /\ \E st \in StageSet : Added(d, e, i, st) /\ Waiting(st, n, t)

(* A process starts.                                                        *)
Started(d, e, c) ==
  /\ Touches(d, e, {c})
  /\ StandsAt(e, c, "queued") /\ e.stages[c] = d.stages[c]
  /\ e.error[c] = d.error[c] /\ e.ending[c] = d.ending[c]
  /\ DOMAIN e.token[c] = {Root} /\ e.token[c][Root] = "active"

LEMMA StartsIs ==
  ASSUME NEW d \in Db, NEW c \in Instances
  PROVE  /\ StartProcess(d, c) = Do(StartedDb(d, c), <<ToAdvance(c, Root, StartOf[c])>>)
         /\ Started(d, StartedDb(d, c), c)
<1> DEFINE e == StartedDb(d, c)
<1>1. /\ StartProcess(d, c) = Do(e, <<ToAdvance(c, Root, StartOf[c])>>)
      /\ e \in Db /\ Others(d, e, c) /\ e.moves = d.moves /\ e.loops = d.loops
      /\ e.inst[c] = "queued" /\ e.run[c] = "queued"
      /\ e.error[c] = d.error[c] /\ e.ending[c] = d.ending[c] /\ e.stages = d.stages
      /\ DOMAIN e.token[c] = {Root} /\ e.token[c][Root] = "active"
  BY StartedIs
<1> HIDE DEF e
<1>2. Touches(d, e, {c})
  <2>1. \A m \in Slots(d, c) :
          /\ Kept(d, e, c, m) /\ e.stages[c][m].attempt = d.stages[c][m].attempt
          /\ e.stages[c][m].lapsed => d.stages[c][m].lapsed
    BY <1>1 DEF Kept
  <2>2. Slots(e, c) = Slots(d, c)  BY <1>1 DEF Slots
  <2>3. e.inst[c] # "absent"  BY <1>1
  <2>4. QED  BY <1>1, <2>1, <2>2, <2>3, TouchesAt
<1>3. Started(d, e, c)  BY <1>1, <1>2 DEF Started, StandsAt
<1>4. QED  BY <1>1, <1>3 DEF e

(* One sequence after the other.                                            *)
IsConcat(z, x, y) ==
  /\ DOMAIN x = 1..Len(x) /\ DOMAIN y = 1..Len(y) /\ DOMAIN z = 1..(Len(x) + Len(y))
  /\ Len(x) \in Nat /\ Len(y) \in Nat /\ Len(z) = Len(x) + Len(y)
  /\ \A k \in DOMAIN x : k \in DOMAIN z /\ z[k] = x[k]
  /\ \A k \in DOMAIN y : Len(x) + k \in DOMAIN z /\ z[Len(x) + k] = y[k]
  /\ \A k \in DOMAIN z : k \in DOMAIN x \/ \E l \in DOMAIN y : k = Len(x) + l

LEMMA ConcatIs ==
  ASSUME NEW S, NEW x \in Seq(S), NEW y \in Seq(S)
  PROVE  x \o y \in Seq(S) /\ IsConcat(x \o y, x, y)
<1> DEFINE z == x \o y
<1>1. z \in Seq(S) /\ Len(z) = Len(x) + Len(y)  OBVIOUS
<1>2. \A k \in 1..Len(x) : z[k] = x[k]  OBVIOUS
<1>3. \A k \in 1..Len(y) : z[Len(x) + k] = y[k]  OBVIOUS
<1> HIDE DEF z
<1>4. /\ DOMAIN x = 1..Len(x) /\ DOMAIN y = 1..Len(y) /\ DOMAIN z = 1..(Len(x) + Len(y))
      /\ Len(x) \in Nat /\ Len(y) \in Nat
  BY <1>1
<1> DEFINE m == Len(x)  n == Len(y)
<1>5. /\ \A k \in 1..m : k \in 1..(m + n)
      /\ \A k \in 1..n : m + k \in 1..(m + n)
      /\ \A k \in 1..(m + n) : k \in 1..m \/ \E l \in 1..n : k = m + l
  <2>1. m \in Nat /\ n \in Nat  BY <1>4
  <2> HIDE DEF m, n
  <2>2. /\ \A k \in 1..m : k \in 1..(m + n)
        /\ \A k \in 1..n : m + k \in 1..(m + n)
    BY <2>1
  <2>3. ASSUME NEW k \in 1..(m + n), k \notin 1..m PROVE \E l \in 1..n : k = m + l
    <3>1. k - m \in 1..n /\ k = m + (k - m)  BY <2>1, <2>3
    <3>2. QED  BY <3>1
  <2>4. QED  BY <2>2, <2>3
<1>6. QED  BY <1>1, <1>2, <1>3, <1>4, <1>5 DEF IsConcat, z

LEMMA Two ==
  ASSUME NEW a, NEW b
  PROVE  <<a>> \o <<b>> = <<a, b>>
<1> DEFINE S == {a, b}  x == <<a>>  y == <<b>>  z == x \o y
<1>1. /\ x \in Seq(S) /\ y \in Seq(S) /\ Len(x) = 1 /\ Len(y) = 1 /\ x[1] = a /\ y[1] = b
  OBVIOUS
<1> HIDE DEF S, x, y
<1>2. z \in Seq(S) /\ IsConcat(z, x, y)  BY <1>1, ConcatIs
<1> HIDE DEF z
<1>3. Len(z) = 2 /\ z[1] = a /\ z[2] = b
  <2>1. 1 \in DOMAIN x /\ 1 \in DOMAIN y /\ Len(x) + 1 = 2 /\ Len(x) + Len(y) = 2
    BY <1>1, <1>2 DEF IsConcat
  <2>2. Len(z) = 2 /\ z[1] = x[1]  BY <1>2, <2>1 DEF IsConcat
  <2>3. z[Len(x) + 1] = y[1]  BY <1>2, <2>1 DEF IsConcat
  <2>4. QED  BY <1>1, <2>1, <2>2, <2>3
<1>4. z = <<a, b>>  BY <1>2, <1>3
<1>5. QED  BY <1>4 DEF z, x, y

BeginCase(d, e, i, t, n, u) ==
  /\ Kind(n) = "subprocess" /\ d.inst[ChildOf[n]] = "absent"
  /\ u = <<ToAdvance(ChildOf[n], Root, StartOf[ChildOf[n]]), ToLink(i, NextSlot(d, i))>>
  /\ \E b \in Db, st \in StageSet :
       /\ Added(d, b, i, st) /\ Waiting(st, n, t) /\ StandsAt(b, i, "waiting_external")
       /\ Started(b, e, ChildOf[n])

LEMMA SubprocessIs ==
  ASSUME NEW d \in Db, NEW i \in Instances, NEW t \in Token, NEW n \in GNodes, Kind(n) = "subprocess",
         NEW w, w.broken \subseteq Fragile, w.refused \subseteq Fragile
  PROVE  \E e, u :
           /\ Subprocess(d, i, t, n, w) = Do(e, u)
           /\ \/ PassCase(d, e, i, t, n, u) \/ FailCase(d, e, i, n, u)
              \/ RefuseCase(d, e, i, t, n, u) \/ BeginCase(d, e, i, t, n, u)
<1> DEFINE st == NewStage(n, t, "subprocess", "waiting_external")
           here == InsertedDb(d, i, st, "waiting_external")
           c == ChildOf[n]
<1>1. n \in DOMAIN ChildOf /\ c \in Instances  BY FamilyAssumption
<1>2. Waiting(st, n, t)
  <2>1. Len(To(n)) = 1  BY OneWay DEF StageKinds
  <2>2. "subprocess" \in (StageKinds \ {"gated"}) \cup {"compensation"}
        /\ "waiting_external" \in (OpenStage \cup Ended) \ {"running"} /\ t \in Token \cup {NoToken}
    BY DEF StageKinds, OpenStage
  <2>5. OfKind(n, "subprocess")  BY DEF OfKind
  <2>3. st \in StageSet  BY <1>1, <2>1, <2>2, <2>5, NewStageIs
  <2>4. QED  BY <2>3 DEF Waiting, NewStage
<1>3. Stand(Insert(d, i, st), i, "waiting_external") = here  BY DEF InsertedDb
<1> HIDE DEF st
<1>4. st \in StageSet /\ st.lapsed = FALSE  BY <1>2 DEF Waiting
<1>5. "waiting_external" \in OpenInst  BY DEF OpenInst
<1>6. Added(d, here, i, st) /\ StandsAt(here, i, "waiting_external") /\ Len(here.stages[i]) = NextSlot(d, i)
  BY <1>4, <1>5, AddStandIs
<1>7. here \in Db  BY <1>6 DEF Added, Touches
<1>8. CASE n \in w.broken
  <2>1. Subprocess(d, i, t, n, w) = Do(d, <<ToFail(i, "failed")>>)  BY <1>8 DEF Subprocess
  <2>2. FailCase(d, d, i, n, <<ToFail(i, "failed")>>)  BY <1>8, StillIs DEF FailCase
  <2>3. QED  BY <2>1, <2>2
<1>9. CASE n \notin w.broken /\ n \in w.refused
  <2>1. Subprocess(d, i, t, n, w) = Do(here, <<ToFail(i, "failed")>>)
    BY <1>9, <1>3 DEF Subprocess, st
  <2> HIDE DEF here
  <2>2. RefuseCase(d, here, i, t, n, <<ToFail(i, "failed")>>)  BY <1>2, <1>4, <1>6, <1>9 DEF RefuseCase
  <2>3. QED  BY <2>1, <2>2
<1>10. CASE n \notin w.broken /\ n \notin w.refused /\ d.inst[c] # "absent"
  <2>1. Subprocess(d, i, t, n, w) = Do(d, <<ToAdvance(i, t, n)>>)  BY <1>10 DEF Subprocess
  <2>2. PassCase(d, d, i, t, n, <<ToAdvance(i, t, n)>>)  BY StillIs DEF PassCase
  <2>3. QED  BY <2>1, <2>2
<1>11. CASE n \notin w.broken /\ n \notin w.refused /\ d.inst[c] = "absent"
  <2> DEFINE e == StartedDb(here, c)
             u == <<ToAdvance(c, Root, StartOf[c]), ToLink(i, NextSlot(d, i))>>
  <2>1. Subprocess(d, i, t, n, w)
          = Do(StartProcess(here, c).db, StartProcess(here, c).todo \o <<ToLink(i, Len(here.stages[i]))>>)
    BY <1>11, <1>3 DEF Subprocess, st
  <2>2. StartProcess(here, c) = Do(e, <<ToAdvance(c, Root, StartOf[c])>>) /\ Started(here, e, c)
    BY <1>1, <1>7, StartsIs
  <2> HIDE DEF here, e
  <2>3. Subprocess(d, i, t, n, w)
          = Do(e, <<ToAdvance(c, Root, StartOf[c])>> \o <<ToLink(i, NextSlot(d, i))>>)
    BY <1>6, <2>1, <2>2 DEF Do
  <2>4. <<ToAdvance(c, Root, StartOf[c])>> \o <<ToLink(i, NextSlot(d, i))>> = u  BY Two
  <2>5. BeginCase(d, e, i, t, n, u)  BY <1>2, <1>4, <1>6, <1>7, <1>11, <2>2 DEF BeginCase
  <2>6. QED  BY <2>3, <2>4, <2>5
<1>12. QED  BY <1>8, <1>9, <1>10, <1>11

ForkCase(d, e, i, t, n, u) ==
  /\ Kind(n) = "fork" /\ u \in Seq(Calls)
  /\ Marked(d, e, i, Branches(t, n), "active", t, "forked")
  /\ \E x \in Seq(Calls) :
       /\ IsConcat(u, x, <<ToSync(i)>>) /\ DOMAIN x = DOMAIN To(n)
       /\ \A b \in DOMAIN To(n) : x[b] = ToAdvance(i, Branch(t, n, b), To(n)[b])

(* The calls have their types.                                              *)
LEMMA CallsAre ==
  ASSUME NEW i \in Instances
  PROVE  /\ \A t \in Token, n \in GNodes : ToAdvance(i, t, n) \in Calls
         /\ \A s \in {"failed", "cancelled"} : ToFail(i, s) \in Calls /\ ToStop(i, s) \in Calls
         /\ ToCompensate(i) \in Calls /\ ToParent(i) \in Calls /\ ToSync(i) \in Calls
         /\ \A k \in Nat : ToLink(i, k) \in Calls
         /\ \A k \in Nat, again \in BOOLEAN : ToGiveBack(i, k, again) \in Calls
<1>1. \A t \in Token, n \in GNodes : ToAdvance(i, t, n) \in AdvanceCalls
  BY DEF ToAdvance, AdvanceCalls
<1>2. \A s \in {"failed", "cancelled"} : ToFail(i, s) \in EndingCalls /\ ToStop(i, s) \in EndingCalls
  BY DEF ToFail, ToStop, EndingCalls
<1>3. ToCompensate(i) \in PlainCalls /\ ToParent(i) \in PlainCalls /\ ToSync(i) \in PlainCalls
  BY DEF ToCompensate, ToParent, ToSync, PlainCalls
<1>4. \A k \in Nat : ToLink(i, k) \in LinkCalls  BY DEF ToLink, LinkCalls
<1>5. \A k \in Nat, again \in BOOLEAN : ToGiveBack(i, k, again) \in GiveCalls
  BY DEF ToGiveBack, GiveCalls
<1>6. QED  BY <1>1, <1>2, <1>3, <1>4, <1>5 DEF Calls

LEMMA ForkIs ==
  ASSUME NEW d \in Db, NEW i \in Instances, NEW t \in Token, NEW n \in GNodes, Kind(n) = "fork"
  PROVE  \E e, u : Fork(d, i, t, n) = Do(e, u) /\ ForkCase(d, e, i, t, n, u)
<1> DEFINE e == MarkDb(d, i, Branches(t, n), "active", t, "forked")
           x == [b \in DOMAIN To(n) |-> ToAdvance(i, Branch(t, n, b), To(n)[b])]
           y == <<ToSync(i)>>
           u == x \o y
<1>1. /\ DOMAIN To(n) = 1..Len(To(n)) /\ Len(To(n)) \in 2..16
      /\ \A b \in DOMAIN To(n) : b \in 1..16 /\ To(n)[b] \in GNodes
      /\ Branches(t, n) \subseteq Token /\ t \notin Branches(t, n)
  BY BranchesAre
<1>2. Marked(d, e, i, Branches(t, n), "active", t, "forked")
  <2>1. "active" \in TokenStatus /\ "forked" \in TokenStatus  BY DEF TokenStatus, LiveToken
  <2>2. Branches(t, n) \in SUBSET Token  BY <1>1
  <2>3. QED  BY <1>1, <2>1, <2>2, MarkedIs
<1>3. \A b \in DOMAIN To(n) : ToAdvance(i, Branch(t, n, b), To(n)[b]) \in Calls
  <2>1. \A b \in DOMAIN To(n) : Branch(t, n, b) \in Token  BY <1>1, BranchIs
  <2>2. QED  BY <1>1, <2>1, CallsAre
<1>4. x \in Seq(Calls) /\ DOMAIN x = DOMAIN To(n)
  <2>1. x \in [1..Len(To(n)) -> Calls] /\ Len(To(n)) \in Nat  BY <1>1, <1>3
  <2>2. QED  BY <1>1, <2>1
<1>5. y \in Seq(Calls)  BY CallsAre
<1>6. \A b \in DOMAIN To(n) : x[b] = ToAdvance(i, Branch(t, n, b), To(n)[b])  OBVIOUS
<1>7. Fork(d, i, t, n) = Do(e, u)  BY DEF Fork, MarkDb
<1> HIDE DEF x, e, y
<1>8. u \in Seq(Calls) /\ IsConcat(u, x, y)  BY <1>4, <1>5, ConcatIs
<1> HIDE DEF u
<1>9. ForkCase(d, e, i, t, n, u)  BY <1>2, <1>4, <1>6, <1>8 DEF ForkCase, y
<1>10. QED  BY <1>7, <1>9

WaitCase(d, e, i, t, n, u) ==
  /\ Kind(n) = "join" /\ u = <<>> /\ t # Root /\ Last(t)[1] = ForkOf[n]
  /\ \E b \in Db :
       /\ TokenSet(d, b, i, t, "waiting_join") /\ Synced(b, e, i)
       /\ \E c \in Branches(Front(t), ForkOf[n]) :
            c \notin DOMAIN b.token[i] \/ b.token[i][c] # "waiting_join"

MergeCase(d, e, i, t, n, u) ==
  /\ Kind(n) = "join" /\ u = <<ToAdvance(i, Front(t), To(n)[1])>>
  /\ t # Root /\ Last(t)[1] = ForkOf[n]
  /\ \E b \in Db :
       /\ TokenSet(d, b, i, t, "waiting_join")
       /\ \A c \in Branches(Front(t), ForkOf[n]) :
            c \in DOMAIN b.token[i] /\ b.token[i][c] = "waiting_join"
       /\ Marked(b, e, i, Branches(Front(t), ForkOf[n]), "merged", Front(t), "active")

LEMMA JoinIs ==
  ASSUME NEW d \in Db, NEW i \in Instances, NEW t \in Token, NEW n \in GNodes, Kind(n) = "join"
  PROVE  \E e, u :
           /\ Join(d, i, t, n) = Do(e, u)
           /\ FailCase(d, e, i, n, u) \/ WaitCase(d, e, i, t, n, u) \/ MergeCase(d, e, i, t, n, u)
<1> DEFINE parent == Front(t)
           wake == Branches(parent, ForkOf[n])
           here == SetToken(d, i, t, "waiting_join")
           arrived == {c \in wake \cap DOMAIN here.token[i] : here.token[i][c] = "waiting_join"}
<1>1. CASE t = Root \/ Last(t)[1] # ForkOf[n]
  <2>1. Join(d, i, t, n) = Do(d, <<ToFail(i, "failed")>>)  BY <1>1 DEF Join
  <2>2. FailCase(d, d, i, n, <<ToFail(i, "failed")>>)  BY StillIs DEF FailCase
  <2>3. QED  BY <2>1, <2>2
<1>2. CASE t # Root /\ Last(t)[1] = ForkOf[n]
  <2>1. "waiting_join" \in TokenStatus /\ "merged" \in TokenStatus /\ "active" \in TokenStatus
    BY DEF TokenStatus, LiveToken
  <2>2. TokenSet(d, here, i, t, "waiting_join")  BY <2>1, TokenSetIs
  <2>3. here \in Db  BY <2>2 DEF TokenSet, Retokens, Touches
  <2>4. parent \in Token  BY <1>2, FrontIs
  <2>5. ForkOf[n] \in GNodes /\ Kind(ForkOf[n]) = "fork"  BY GraphAssumption
  <2>6. wake \in SUBSET Token /\ parent \notin wake  BY <2>4, <2>5, BranchesAre
  <2>7. CASE arrived # wake
    <3> DEFINE e == Sync(here, i)
    <3>1. Join(d, i, t, n) = Do(e, <<>>)  BY <1>2, <2>7 DEF Join, SetToken, Done
    <3>2. Synced(here, e, i)  BY <2>3, SyncedIs
    <3> HIDE DEF e, here
    <3>3. \E c \in wake : c \notin DOMAIN here.token[i] \/ here.token[i][c] # "waiting_join"
      BY <2>7
    <3>4. WaitCase(d, e, i, t, n, <<>>)  BY <1>2, <2>2, <2>3, <3>2, <3>3 DEF WaitCase
    <3>5. QED  BY <3>1, <3>4
  <2>8. CASE arrived = wake
    <3> DEFINE e == MarkDb(here, i, wake, "merged", parent, "active")
               u == <<ToAdvance(i, parent, To(n)[1])>>
    <3>1. Join(d, i, t, n) = Do(e, u)  BY <1>2, <2>8 DEF Join, SetToken, MarkDb
    <3>2. Marked(here, e, i, wake, "merged", parent, "active")
      BY <2>1, <2>3, <2>4, <2>6, MarkedIs
    <3> HIDE DEF e, here
    <3>3. \A c \in wake : c \in DOMAIN here.token[i] /\ here.token[i][c] = "waiting_join"
      BY <2>8
    <3>4. MergeCase(d, e, i, t, n, u)  BY <1>2, <2>2, <2>3, <3>2, <3>3 DEF MergeCase
    <3>5. QED  BY <3>1, <3>4
  <2>9. QED  BY <2>7, <2>8
<1>3. QED  BY <1>1, <1>2

(* The last token of i has ended.                                           *)
Completes(d, e, i) ==
  /\ Touches(d, e, {i})
  /\ StandsAt(e, i, "completed") /\ e.error[i] = d.error[i] /\ e.ending[i] = d.ending[i]
  /\ e.token[i] = d.token[i] /\ Slots(e, i) = Slots(d, i)
  /\ \A m \in Slots(d, i) :
       /\ Kept(d, e, i, m) /\ e.stages[i][m].status = d.stages[i][m].status
       /\ e.stages[i][m].row = IF d.stages[i][m].row = "armed" THEN "skipped" ELSE d.stages[i][m].row

EndedDb(d, i) ==
  [Stand(d, i, "completed") EXCEPT !.stages[i] = [k \in DOMAIN @ |->
     IF @[k].row = "armed" THEN [@[k] EXCEPT !.row = "skipped"] ELSE @[k]]]

LEMMA CompletesIs ==
  ASSUME NEW d \in Db, NEW i \in Instances
  PROVE  Completes(d, EndedDb(d, i), i)
<1> DEFINE old == d.stages[i]
           Shut(k) == IF old[k].row = "armed" THEN [old[k] EXCEPT !.row = "skipped"] ELSE old[k]
           q == [k \in DOMAIN old |-> Shut(k)]
           b == Stand(d, i, "completed")
           e == EndedDb(d, i)
<1>1. old \in Seq(StageSet)  BY DEF Db
<1>2. ASSUME NEW k \in DOMAIN old
      PROVE  /\ Shut(k) \in StageSet
             /\ Shut(k).node = old[k].node /\ Shut(k).token = old[k].token /\ Shut(k).kind = old[k].kind
             /\ Shut(k).status = old[k].status /\ Shut(k).of = old[k].of /\ Shut(k).attempt = old[k].attempt
             /\ Shut(k).row = (IF old[k].row = "armed" THEN "skipped" ELSE old[k].row)
             /\ Shut(k).lapsed = old[k].lapsed
  <2>1. old[k] \in StageSet  BY <1>1
  <2>2. old[k] \in StageType /\ StageOK(old[k])  BY <2>1 DEF StageSet
  <2>3. CASE old[k].row = "armed"
    <3> DEFINE st == [old[k] EXCEPT !.row = "skipped"]
    <3>1. /\ st.node = old[k].node /\ st.token = old[k].token /\ st.kind = old[k].kind
          /\ st.row = "skipped" /\ st.of = old[k].of /\ st.attempt = old[k].attempt
          /\ st.status = old[k].status /\ st.lapsed = old[k].lapsed
      BY <2>2 DEF StageType
    <3>2. st \in StageType  BY <2>2 DEF StageType, Ended
    <3>3. Shut(k) = st  BY <2>3
    <3> HIDE DEF st
    <3>4. st \in StageSet  BY <2>2, <3>1, <3>2 DEF StageOK, StageSet
    <3> HIDE DEF Shut
    <3>5. QED  BY <2>3, <3>1, <3>3, <3>4
  <2>4. CASE old[k].row # "armed"  BY <2>1, <2>4
  <2>5. QED  BY <2>3, <2>4
<1>3. b.stages = d.stages  BY DEF Stand, Db
<1>4. b \in Db /\ HeadOnly(d, b, i)
      /\ b.inst[i] = "completed" /\ b.run[i] = "completed" /\ b.ending = d.ending /\ b.error = d.error
  <2>1. "completed" \in InstStatus  BY DEF InstStatus, Ended
  <2>2. QED  BY <2>1, StandHead
<1>5. e = Replace(b, i, q)
  <2>1. b.stages \in [Instances -> Seq(StageSet)]  BY <1>4 DEF Db
  <2> HIDE DEF b
  <2>2. EndedDb(d, i) = [b EXCEPT !.stages[i] = [k \in DOMAIN @ |->
            IF @[k].row = "armed" THEN [@[k] EXCEPT !.row = "skipped"] ELSE @[k]]]
    BY DEF EndedDb, b
  <2>3. QED  BY <1>3, <1>4, <2>1, <2>2 DEF Db, Replace
<1> HIDE DEF Shut
<1>6. q \in Seq(StageSet) /\ DOMAIN q = DOMAIN old /\ Len(q) = Len(old)  BY <1>1, <1>2
<1>7. \A k \in DOMAIN old : q[k] = Shut(k)  OBVIOUS
<1> HIDE DEF q, e, b
<1>8. e \in Db /\ StagesOnly(b, e, i) /\ e.stages[i] = q  BY <1>4, <1>5, <1>6, ReplaceIs
<1>9. Slots(e, i) = Slots(d, i) /\ Slots(d, i) = DOMAIN old  BY <1>6, <1>8 DEF Slots
<1>10. Others(d, e, i) /\ e.moves = d.moves
  BY <1>4, <1>8 DEF Others, Same, StagesOnly, HeadOnly
<1> HIDE DEF old
<1>11. \A m \in Slots(d, i) :
         /\ Kept(d, e, i, m) /\ e.stages[i][m].status = d.stages[i][m].status
         /\ e.stages[i][m].row = (IF d.stages[i][m].row = "armed" THEN "skipped" ELSE d.stages[i][m].row)
         /\ e.stages[i][m].attempt = d.stages[i][m].attempt /\ e.stages[i][m].lapsed = d.stages[i][m].lapsed
  <2>1. \A m \in Slots(d, i) : e.stages[i][m] = Shut(m)  BY <1>7, <1>8, <1>9
  <2>2. QED  BY <1>2, <1>9, <2>1 DEF old, Kept
<1>12. e.inst[i] = "completed" /\ e.run[i] = "completed" /\ e.error = d.error /\ e.ending = d.ending
       /\ e.token = d.token
  BY <1>4, <1>8 DEF StagesOnly, HeadOnly
<1>13. Touches(d, e, {i})
  <2>1. e.inst[i] # "absent"  BY <1>12
  <2>2. QED  BY <1>8, <1>9, <1>10, <1>11, <2>1, TouchesAt
<1>14. Completes(d, e, i)  BY <1>9, <1>11, <1>12, <1>13 DEF Completes, StandsAt
<1>15. QED  BY <1>14 DEF e

LeaveCase(d, e, i, t, n, u) ==
  /\ Kind(n) = "end" /\ u = <<>>
  /\ \E b \in Db : TokenSet(d, b, i, t, "completed") /\ Live(b, i) # {} /\ Synced(b, e, i)

CompleteCase(d, e, i, t, n, u) ==
  /\ Kind(n) = "end" /\ u = <<ToParent(i)>>
  /\ \E b \in Db : TokenSet(d, b, i, t, "completed") /\ Live(b, i) = {} /\ Completes(b, e, i)

LEMMA EndIs ==
  ASSUME NEW d \in Db, NEW i \in Instances, NEW t \in Token, NEW n \in GNodes, Kind(n) = "end"
  PROVE  \E e, u :
           /\ End(d, i, t) = Do(e, u)
           /\ LeaveCase(d, e, i, t, n, u) \/ CompleteCase(d, e, i, t, n, u)
<1> DEFINE done == SetToken(d, i, t, "completed")
<1>1. TokenSet(d, done, i, t, "completed")
  <2>1. "completed" \in TokenStatus  BY DEF TokenStatus
  <2>2. QED  BY <2>1, TokenSetIs
<1>2. done \in Db  BY <1>1 DEF TokenSet, Retokens, Touches
<1>3. CASE Live(done, i) # {}
  <2>1. End(d, i, t) = Do(Sync(done, i), <<>>)  BY <1>3 DEF End, SetToken, Done
  <2>2. Synced(done, Sync(done, i), i)  BY <1>2, SyncedIs
  <2> HIDE DEF done
  <2>3. LeaveCase(d, Sync(done, i), i, t, n, <<>>)  BY <1>1, <1>2, <1>3, <2>2 DEF LeaveCase
  <2>4. QED  BY <2>1, <2>3
<1>4. CASE Live(done, i) = {}
  <2>1. End(d, i, t) = Do(EndedDb(done, i), <<ToParent(i)>>)
    BY <1>4 DEF End, SetToken, EndedDb
  <2>2. Completes(done, EndedDb(done, i), i)  BY <1>2, CompletesIs
  <2> HIDE DEF done
  <2>3. CompleteCase(d, EndedDb(done, i), i, t, n, <<ToParent(i)>>)
    BY <1>1, <1>2, <1>4, <2>2 DEF CompleteCase
  <2>4. QED  BY <2>1, <2>3
<1>5. QED  BY <1>3, <1>4

LoopDb(d, n) == [d EXCEPT !.loops[n] = @ + 1]

LEMMA LoopIs ==
  ASSUME NEW d \in Db, NEW n \in Choosers, d.loops[n] < MaxIterations
  PROVE  Still(d, LoopDb(d, n))
<1> DEFINE ll == [d.loops EXCEPT ![n] = @ + 1]
           e == LoopDb(d, n)
<1>1. d.loops \in [Choosers -> 0..MaxIterations] /\ MaxIterations \in Nat  BY LimitsAssumption DEF Db
<1>2. ll \in [Choosers -> 0..MaxIterations]  BY <1>1
<1>3. e = [d EXCEPT !.loops = ll]  BY DEF LoopDb, Db
<1> HIDE DEF ll, e
<1>4. e \in Db /\ e.moves = d.moves /\ \A j \in Instances : Same(d, e, j)
  BY <1>2, <1>3 DEF Db, Same
<1>5. Still(d, e)  BY <1>4, GrowsSelf DEF Still
<1>6. QED  BY <1>5 DEF e

LEMMA ChooseIs ==
  ASSUME NEW d \in Db, NEW i \in Instances, NEW t \in Token, NEW n \in Choosers, NEW w
  PROVE  \E e, u : Choose(d, i, t, n, w) = Do(e, u) /\ PassCase(d, e, i, t, n, u)
<1>1. n \in GNodes /\ Kind(n) \in {"condition", "loop"}  BY DEF Choosers
<1>2. 1 \in DOMAIN To(n) /\ 2 \in DOMAIN To(n) /\ \A b \in DOMAIN To(n) : To(n)[b] \in GNodes
  <2>1. Kind(n) \notin {"end", "fork"}  BY <1>1
  <2>2. To(n) \in Seq(GNodes)  BY <1>1, GraphAssumption
  <2>3. Len(To(n)) \in (CASE Kind(n) = "end"  -> {0}
                          [] Kind(n) = "fork" -> 2..16
                          [] n \in Choosers   -> {2}
                          [] OTHER            -> {1})
    BY <1>1, GraphAssumption
  <2>4. Len(To(n)) = 2  BY <2>1, <2>3
  <2> DEFINE q == To(n)
  <2>5. q \in Seq(GNodes) /\ Len(q) = 2  BY <2>2, <2>4
  <2> HIDE DEF q
  <2>6. 1 \in DOMAIN q /\ 2 \in DOMAIN q /\ \A b \in DOMAIN q : q[b] \in GNodes  BY <2>5
  <2>7. QED  BY <2>6 DEF q
<1> DEFINE C(e, b) == /\ Choose(d, i, t, n, w) = Do(e, <<ToAdvance(i, t, To(n)[b])>>)
                      /\ Still(d, e) /\ b \in DOMAIN To(n)
<1>3. ASSUME NEW e, NEW b, C(e, b) PROVE PassCase(d, e, i, t, n, <<ToAdvance(i, t, To(n)[b])>>)
  BY <1>1, <1>2, <1>3 DEF PassCase
<1>4. \E e, b : C(e, b)
  <2>1. CASE Kind(n) = "condition"
    <3>1. CASE n \in w.holds
      <4>1. C(d, 1)  BY <1>2, <2>1, <3>1, StillIs DEF Choose
      <4> HIDE DEF C
      <4>2. QED  BY <4>1
    <3>2. CASE n \notin w.holds
      <4>1. C(d, 2)  BY <1>2, <2>1, <3>2, StillIs DEF Choose
      <4> HIDE DEF C
      <4>2. QED  BY <4>1
    <3>3. QED  BY <3>1, <3>2
  <2>2. CASE Kind(n) # "condition" /\ n \in w.holds /\ d.loops[n] < MaxIterations
    <3>1. Choose(d, i, t, n, w) = Do(LoopDb(d, n), <<ToAdvance(i, t, To(n)[1])>>)
      BY <2>2 DEF Choose, LoopDb
    <3>2. Still(d, LoopDb(d, n))  BY <2>2, LoopIs
    <3>3. C(LoopDb(d, n), 1)  BY <1>2, <3>1, <3>2
    <3> HIDE DEF C
    <3>4. QED  BY <3>3
  <2>3. CASE Kind(n) # "condition" /\ ~(n \in w.holds /\ d.loops[n] < MaxIterations)
    <3>1. Choose(d, i, t, n, w) = Do(d, <<ToAdvance(i, t, To(n)[2])>>)
      BY <2>3 DEF Choose
    <3>2. C(d, 2)  BY <1>2, <3>1, StillIs
    <3> HIDE DEF C
    <3>3. QED  BY <3>2
  <2>4. QED  BY <2>1, <2>2, <2>3
<1>5. QED  BY <1>3, <1>4

(* A step that enters node n, once its first statements have run.           *)
EnterCase(d, e, i, t, n, u) ==
  \/ PassCase(d, e, i, t, n, u)  \/ FailCase(d, e, i, n, u)
  \/ QueueCase(d, e, i, t, n, u) \/ RunCase(d, e, i, t, n, u)
  \/ RefuseCase(d, e, i, t, n, u) \/ BeginCase(d, e, i, t, n, u)
  \/ ForkCase(d, e, i, t, n, u)
  \/ WaitCase(d, e, i, t, n, u)  \/ MergeCase(d, e, i, t, n, u)
  \/ LeaveCase(d, e, i, t, n, u) \/ CompleteCase(d, e, i, t, n, u)

Enters(d, r, i, t, n) == \E e, u : r = Do(e, u) /\ EnterCase(d, e, i, t, n, u)

LEMMA StartStepIs ==
  ASSUME NEW d \in Db, NEW i \in Instances, NEW t \in Token, NEW n \in GNodes, Kind(n) = "start"
  PROVE  PassCase(d, d, i, t, n, <<ToAdvance(i, t, To(n)[1])>>)
<1>1. 1 \in DOMAIN To(n) /\ To(n)[1] \in GNodes  BY OneWay
<1>2. Still(d, d)  BY StillIs
<1>3. QED  BY <1>1, <1>2 DEF PassCase

LEMMA EnterIs ==
  ASSUME NEW d \in Db, NEW i \in Instances, NEW t \in Token, NEW n \in GNodes,
         NEW w, w.broken \subseteq Fragile, w.refused \subseteq Fragile, d.moves[i] # MaxMoves
  PROVE  Enters(Entered(d, i, t), Advance(d, i, t, n, w), i, t, n)
<1> DEFINE b == Entered(d, i, t)
           r == Advance(d, i, t, n, w)
<1>1. b \in Db
  <2>1. DEFINE e0 == Entered(d, i, t)
  <2>2. e0 \in Db  BY EnteredIs
  <2>3. QED  BY <2>2
<1>2. r = CASE Kind(n) = "start"      -> Do(b, <<ToAdvance(i, t, To(n)[1])>>)
            [] Kind(n) = "subprocess" -> Subprocess(b, i, t, n, w)
            [] Kind(n) = "fork"       -> Fork(b, i, t, n)
            [] Kind(n) = "join"       -> Join(b, i, t, n)
            [] Kind(n) = "end"        -> End(b, i, t)
            [] n \in Choosers         -> Choose(b, i, t, n, w)
            [] OTHER ->
                 IF n \in w.broken THEN Do(b, <<ToFail(i, "failed")>>)
                 ELSE IF Kind(n) = "internal" THEN Internal(b, i, t, n)
                 ELSE Done(QueueStage(b, i, t, n))
  BY DEF Advance, Entered
<1> HIDE DEF b, r
<1>3. Kind(n) \in NodeKinds /\ (n \in Choosers <=> Kind(n) \in {"condition", "loop"})
  BY GraphAssumption DEF Choosers
<1>4. ASSUME Kind(n) = "start" PROVE Enters(b, r, i, t, n)
  <2>1. r = Do(b, <<ToAdvance(i, t, To(n)[1])>>)  BY <1>2, <1>3, <1>4
  <2>2. PassCase(b, b, i, t, n, <<ToAdvance(i, t, To(n)[1])>>)  BY <1>1, <1>4, StartStepIs
  <2>3. QED  BY <2>1, <2>2 DEF EnterCase, Enters
<1>5. ASSUME Kind(n) = "subprocess" PROVE Enters(b, r, i, t, n)
  <2>1. r = Subprocess(b, i, t, n, w)  BY <1>2, <1>3, <1>5
  <2>2. QED  BY <1>1, <1>5, <2>1, SubprocessIs DEF EnterCase, Enters
<1>6. ASSUME Kind(n) = "fork" PROVE Enters(b, r, i, t, n)
  <2>1. r = Fork(b, i, t, n)  BY <1>2, <1>3, <1>6
  <2>2. QED  BY <1>1, <1>6, <2>1, ForkIs DEF EnterCase, Enters
<1>7. ASSUME Kind(n) = "join" PROVE Enters(b, r, i, t, n)
  <2>1. r = Join(b, i, t, n)  BY <1>2, <1>3, <1>7
  <2>2. QED  BY <1>1, <1>7, <2>1, JoinIs DEF EnterCase, Enters
<1>8. ASSUME Kind(n) = "end" PROVE Enters(b, r, i, t, n)
  <2>1. r = End(b, i, t)  BY <1>2, <1>3, <1>8
  <2>2. QED  BY <1>1, <1>8, <2>1, EndIs DEF EnterCase, Enters
<1>9. ASSUME n \in Choosers PROVE Enters(b, r, i, t, n)
  <2>1. r = Choose(b, i, t, n, w)  BY <1>2, <1>3, <1>9
  <2>2. QED  BY <1>1, <1>9, <2>1, ChooseIs DEF EnterCase, Enters
<1>10. ASSUME Kind(n) \in QueueKinds \cup {"internal"} PROVE Enters(b, r, i, t, n)
  <2>1. Kind(n) \notin {"start", "subprocess", "fork", "join", "end"} /\ n \notin Choosers
    BY <1>3, <1>10 DEF QueueKinds
  <2>2. r = IF n \in w.broken THEN Do(b, <<ToFail(i, "failed")>>)
            ELSE IF Kind(n) = "internal" THEN Internal(b, i, t, n)
            ELSE Done(QueueStage(b, i, t, n))
    BY <1>2, <2>1
  <2>3. CASE n \in w.broken
    <3>1. r = Do(b, <<ToFail(i, "failed")>>)  BY <2>2, <2>3
    <3>2. FailCase(b, b, i, n, <<ToFail(i, "failed")>>)  BY <1>1, <2>3, StillIs DEF FailCase
    <3>3. QED  BY <3>1, <3>2 DEF EnterCase, Enters
  <2>4. CASE n \notin w.broken /\ Kind(n) = "internal"
    <3>1. r = Internal(b, i, t, n)  BY <2>2, <2>4
    <3>2. QED  BY <1>1, <2>4, <3>1, InternalIs DEF EnterCase, Enters
  <2>5. CASE n \notin w.broken /\ Kind(n) # "internal"
    <3>1. r = Done(QueueStage(b, i, t, n))  BY <2>2, <2>5
    <3>2. Kind(n) \in QueueKinds  BY <1>10, <2>5
    <3>3. PICK e : Done(QueueStage(b, i, t, n)) = Do(e, <<>>) /\ QueueCase(b, e, i, t, n, <<>>)
      BY <1>1, <3>2, QueueIs
    <3>4. QED  BY <3>1, <3>3 DEF EnterCase, Enters
  <2>6. QED  BY <2>3, <2>4, <2>5
<1>11. Kind(n) \in {"start", "subprocess", "fork", "join", "end", "internal"} \cup QueueKinds \/ n \in Choosers
  BY <1>3 DEF NodeKinds, StageKinds, QueueKinds
<1>12. Enters(b, r, i, t, n)  BY <1>4, <1>5, <1>6, <1>7, <1>8, <1>9, <1>10, <1>11
<1>13. QED  BY <1>12 DEF b, r

(***************************************************************************)
(* The other methods, case by case.                                        *)
(***************************************************************************)
(* Of i only its stages change, and no stage is added.                      *)
Restages(d, e, i) ==
  /\ Touches(d, e, {i})
  /\ e.inst[i] = d.inst[i] /\ e.run[i] = d.run[i] /\ e.error[i] = d.error[i]
  /\ e.ending[i] = d.ending[i] /\ e.token[i] = d.token[i]
  /\ Slots(e, i) = Slots(d, i)

(* One stage gets a new status, or a new row.                               *)
StatusSet(d, e, i, k, s) ==
  /\ Restages(d, e, i)
  /\ \A m \in Slots(d, i) : m # k => e.stages[i][m] = d.stages[i][m]
  /\ Kept(d, e, i, k) /\ e.stages[i][k].row = d.stages[i][k].row
  /\ e.stages[i][k].status = s /\ e.stages[i][k].lapsed = FALSE

RowSet(d, e, i, k, s) ==
  /\ Restages(d, e, i)
  /\ \A m \in Slots(d, i) : m # k => e.stages[i][m] = d.stages[i][m]
  /\ Kept(d, e, i, k) /\ e.stages[i][k].status = d.stages[i][k].status
  /\ e.stages[i][k].row = s

LEMMA RestagesIs ==
  ASSUME NEW d \in Db, NEW e \in Db, NEW i \in Instances, StagesOnly(d, e, i), Slots(e, i) = Slots(d, i),
         \A m \in Slots(d, i) :
           /\ Kept(d, e, i, m) /\ e.stages[i][m].attempt = d.stages[i][m].attempt
           /\ e.stages[i][m].lapsed => d.stages[i][m].lapsed
  PROVE  Restages(d, e, i)
<1>1. Others(d, e, i) /\ e.moves = d.moves /\ e.inst = d.inst  BY DEF Others, Same, StagesOnly
<1>2. Touches(d, e, {i})  BY <1>1, TouchesAt
<1>3. QED  BY <1>2 DEF Restages, StagesOnly

LEMMA StatusSetIs ==
  ASSUME NEW d \in Db, NEW i \in Instances, NEW k \in Slots(d, i), NEW s \in OpenStage \cup Ended,
         CanBe(d.stages[i][k], s)
  PROVE  StatusSet(d, SetStage(d, i, k, s), i, k, s)
<1> DEFINE e == SetStage(d, i, k, s)
<1>1. /\ e \in Db /\ StagesOnly(d, e, i)
      /\ Slots(e, i) = Slots(d, i) /\ Len(e.stages[i]) = Len(d.stages[i])
      /\ \A m \in Slots(d, i) : m # k => e.stages[i][m] = d.stages[i][m]
      /\ e.stages[i][k].node = d.stages[i][k].node /\ e.stages[i][k].token = d.stages[i][k].token
      /\ e.stages[i][k].kind = d.stages[i][k].kind /\ e.stages[i][k].row = d.stages[i][k].row
      /\ e.stages[i][k].of = d.stages[i][k].of /\ e.stages[i][k].attempt = d.stages[i][k].attempt
      /\ e.stages[i][k].status = s /\ e.stages[i][k].lapsed = FALSE
  BY SetStageIs, Zenon
<1> HIDE DEF e
<1>2. \A m \in Slots(d, i) :
        /\ Kept(d, e, i, m) /\ e.stages[i][m].attempt = d.stages[i][m].attempt
        /\ e.stages[i][m].lapsed => d.stages[i][m].lapsed
  BY <1>1 DEF Kept
<1>3. Restages(d, e, i)  BY <1>1, <1>2, RestagesIs
<1>4. StatusSet(d, e, i, k, s)  BY <1>1, <1>3 DEF StatusSet, Kept
<1>5. QED  BY <1>4 DEF e

LEMMA StageEndIs ==
  ASSUME NEW d \in Db, NEW i \in Instances, NEW k \in Slots(d, i), NEW s \in Ended
  PROVE  StatusSet(d, SetStage(d, i, k, s), i, k, s)
<1>1. s \in OpenStage \cup Ended  OBVIOUS
<1>2. s \notin OpenStage  BY DEF OpenStage, Ended
<1>3. s \notin {"waiting_approval", "waiting_external"}  BY DEF Ended
<1>4. CanBe(d.stages[i][k], s)  BY <1>2, <1>3 DEF CanBe
<1>5. QED  BY <1>1, <1>4, StatusSetIs

LEMMA RowSetIs ==
  ASSUME NEW d \in Db, NEW i \in Instances, NEW k \in Slots(d, i), NEW s \in RowValues \ {"waiting"}
  PROVE  RowSet(d, SetRow(d, i, k, s), i, k, s)
<1> DEFINE e == SetRow(d, i, k, s)
<1>1. /\ e \in Db /\ StagesOnly(d, e, i)
      /\ Slots(e, i) = Slots(d, i) /\ Len(e.stages[i]) = Len(d.stages[i])
      /\ \A m \in Slots(d, i) : m # k => e.stages[i][m] = d.stages[i][m]
      /\ e.stages[i][k].node = d.stages[i][k].node /\ e.stages[i][k].token = d.stages[i][k].token
      /\ e.stages[i][k].kind = d.stages[i][k].kind /\ e.stages[i][k].row = s
      /\ e.stages[i][k].of = d.stages[i][k].of /\ e.stages[i][k].attempt = d.stages[i][k].attempt
      /\ e.stages[i][k].status = d.stages[i][k].status
      /\ e.stages[i][k].lapsed = d.stages[i][k].lapsed
  BY SetRowIs
<1> HIDE DEF e
<1>2. \A m \in Slots(d, i) :
        /\ Kept(d, e, i, m) /\ e.stages[i][m].attempt = d.stages[i][m].attempt
        /\ e.stages[i][m].lapsed => d.stages[i][m].lapsed
  BY <1>1 DEF Kept
<1>3. Restages(d, e, i)  BY <1>1, <1>2, RestagesIs
<1>4. RowSet(d, e, i, k, s)  BY <1>1, <1>3 DEF RowSet, Kept
<1>5. QED  BY <1>4 DEF e

(* A row and then the status of a stage are set.                            *)
Settled(d, e, i, k, r, s) ==
  /\ Restages(d, e, i)
  /\ \A m \in Slots(d, i) : m # k => e.stages[i][m] = d.stages[i][m]
  /\ Kept(d, e, i, k) /\ e.stages[i][k].row = r
  /\ e.stages[i][k].status = s /\ e.stages[i][k].lapsed = FALSE

LEMMA TouchesTwice ==
  ASSUME NEW d \in Db, NEW b \in Db, NEW e \in Db, NEW I, NEW J, Touches(d, b, I), Touches(b, e, J)
  PROVE  Touches(d, e, I \cup J)
<1>1. Grows(d, e)
  <2>1. SUFFICES ASSUME NEW j \in Instances PROVE GrowsAt(d, e, j)  BY DEF Grows
  <2>2. GrowsAt(d, b, j) /\ GrowsAt(b, e, j)  BY DEF Touches, Grows
  <2>3. e.moves[j] = d.moves[j] /\ d.moves[j] \in Nat  BY DEF Touches, Db
  <2>4. QED  BY <2>2, <2>3 DEF GrowsAt, Kept
<1>2. NoNewLapse(d, e)
  <2>1. NoNewLapse(d, b) /\ NoNewLapse(b, e)  BY DEF Touches
  <2>2. QED  BY <2>1 DEF NoNewLapse
<1>3. \A j \in Instances \ (I \cup J) : Same(d, e, j)  BY DEF Touches, Same
<1>4. e.moves = d.moves  BY DEF Touches
<1>5. QED  BY <1>1, <1>2, <1>3, <1>4 DEF Touches

LEMMA TouchesBoth ==
  ASSUME NEW d \in Db, NEW b \in Db, NEW e \in Db, NEW i, Touches(d, b, {i}), Touches(b, e, {i})
  PROVE  Touches(d, e, {i})
<1>1. Touches(d, e, {i} \cup {i})  BY TouchesTwice
<1>2. {i} \cup {i} = {i}  OBVIOUS
<1>3. QED  BY <1>1, <1>2

LEMMA SettledThen ==
  ASSUME NEW d \in Db, NEW i \in Instances, NEW k \in Slots(d, i), NEW r \in RowValues \ {"waiting"},
         NEW s \in Ended
  PROVE  Settled(d, SetStage(SetRow(d, i, k, r), i, k, s), i, k, r, s)
<1> DEFINE b == SetRow(d, i, k, r)
           e == SetStage(b, i, k, s)
<1>1. RowSet(d, b, i, k, r)  BY RowSetIs
<1>2. b \in Db /\ k \in Slots(b, i)  BY <1>1 DEF RowSet, Restages, Touches
<1> HIDE DEF b
<1>3. StatusSet(b, e, i, k, s)  BY <1>2, StageEndIs
<1> HIDE DEF e
<1>4. e \in Db  BY <1>3 DEF StatusSet, Restages, Touches
<1>5. Touches(d, e, {i})  BY <1>1, <1>2, <1>3, <1>4, TouchesBoth DEF RowSet, StatusSet, Restages
<1>6. Settled(d, e, i, k, r, s)  BY <1>1, <1>3, <1>5 DEF Settled, RowSet, StatusSet, Restages, Kept
<1>7. QED  BY <1>6 DEF b, e

(* enforceRunIdentities, the first part: the compensations that wait are    *)
(* let go of.                                                               *)
Freed(st) == IF st.row \in {"armed", "queued"} THEN "cancelled" ELSE st.row
LetGoes(d, e, i) ==
  /\ Restages(d, e, i)
  /\ \A m \in Slots(d, i) :
       /\ Kept(d, e, i, m) /\ e.stages[i][m].status = d.stages[i][m].status
       /\ e.stages[i][m].row = Freed(d.stages[i][m])

LEMMA LetGoIs ==
  ASSUME NEW d \in Db, NEW i \in Instances
  PROVE  LetGoes(d, LetGo(d, i), i)
<1> DEFINE old == d.stages[i]
           Free(k) == IF old[k].row \in {"armed", "queued"} THEN [old[k] EXCEPT !.row = "cancelled"] ELSE old[k]
           q == [k \in DOMAIN old |-> Free(k)]
           e == LetGo(d, i)
<1>1. old \in Seq(StageSet)  BY DEF Db
<1>2. ASSUME NEW k \in DOMAIN old
      PROVE  /\ Free(k) \in StageSet
             /\ Free(k).node = old[k].node /\ Free(k).token = old[k].token /\ Free(k).kind = old[k].kind
             /\ Free(k).status = old[k].status /\ Free(k).of = old[k].of /\ Free(k).attempt = old[k].attempt
             /\ Free(k).row = Freed(old[k]) /\ Free(k).lapsed = old[k].lapsed
  <2>1. old[k] \in StageSet  BY <1>1
  <2>2. old[k] \in StageType /\ StageOK(old[k])  BY <2>1 DEF StageSet
  <2>3. CASE old[k].row \in {"armed", "queued"}
    <3> DEFINE st == [old[k] EXCEPT !.row = "cancelled"]
    <3>1. /\ st.node = old[k].node /\ st.token = old[k].token /\ st.kind = old[k].kind
          /\ st.row = "cancelled" /\ st.of = old[k].of /\ st.attempt = old[k].attempt
          /\ st.status = old[k].status /\ st.lapsed = old[k].lapsed
      BY <2>2 DEF StageType
    <3>2. st \in StageType  BY <2>2 DEF StageType, Ended
    <3>3. Free(k) = st  BY <2>3
    <3> HIDE DEF st
    <3>4. st \in StageSet  BY <2>2, <3>1, <3>2 DEF StageOK, StageSet
    <3> HIDE DEF Free
    <3>5. QED  BY <2>3, <3>1, <3>3, <3>4 DEF Freed
  <2>4. CASE old[k].row \notin {"armed", "queued"}  BY <2>1, <2>4 DEF Freed
  <2>5. QED  BY <2>3, <2>4
<1>3. e = Replace(d, i, q)  BY DEF LetGo, Db, Replace
<1> HIDE DEF Free
<1>4. q \in Seq(StageSet) /\ DOMAIN q = DOMAIN old  BY <1>1, <1>2
<1>5. \A k \in DOMAIN old : q[k] = Free(k)  OBVIOUS
<1> HIDE DEF q, e
<1>6. e \in Db /\ StagesOnly(d, e, i) /\ e.stages[i] = q  BY <1>3, <1>4, ReplaceIs
<1>7. Slots(e, i) = Slots(d, i) /\ Slots(d, i) = DOMAIN old  BY <1>4, <1>6 DEF Slots
<1> HIDE DEF old
<1>8. \A m \in Slots(d, i) : e.stages[i][m] = Free(m)  BY <1>5, <1>6, <1>7
<1>9. \A m \in Slots(d, i) :
        /\ Kept(d, e, i, m) /\ e.stages[i][m].attempt = d.stages[i][m].attempt
        /\ e.stages[i][m].status = d.stages[i][m].status
        /\ e.stages[i][m].row = Freed(d.stages[i][m]) /\ e.stages[i][m].lapsed = d.stages[i][m].lapsed
  BY <1>2, <1>7, <1>8 DEF Kept, old
<1>10. Restages(d, e, i)  BY <1>6, <1>7, <1>9, RestagesIs
<1>11. QED  BY <1>9, <1>10 DEF LetGoes, e

LEMMA Most ==
  ASSUME NEW S, NEW N \in Nat, S \subseteq 1..N, S # {}
  PROVE  \E k \in S : \A j \in S : j <= k
<1> DEFINE T == {N - k : k \in S}
<1>1. T \subseteq Nat /\ T # {}
  <2>1. \A k \in S : N - k \in Nat  OBVIOUS
  <2>2. QED  BY <2>1
<1>2. PICK x \in T : \A y \in T : x <= y
  <2> HIDE DEF T
  <2>1. QED  BY <1>1, Least
<1>3. PICK k \in S : x = N - k  BY <1>2
<1>4. \A j \in S : N - k <= N - j
  <2>1. \A j \in S : N - j \in T  OBVIOUS
  <2> HIDE DEF T
  <2>2. QED  BY <1>2, <1>3, <2>1
<1>5. \A j \in S : j <= k  BY <1>4
<1>6. QED  BY <1>5

LEMMA SlotsAre ==
  ASSUME NEW d \in Db, NEW i \in Instances
  PROVE  /\ Len(d.stages[i]) \in Nat /\ Slots(d, i) = 1..Len(d.stages[i])
         /\ \A k \in Slots(d, i) : d.stages[i][k] \in StageSet
<1>1. d.stages[i] \in Seq(StageSet)  BY DEF Db
<1>2. QED  BY <1>1 DEF Slots

(* quiesceProcessExecution, the first part.                                 *)
Quiesced(d, e, i) ==
  /\ Touches(d, e, {i})
  /\ e.inst[i] = d.inst[i] /\ e.run[i] = d.run[i] /\ e.error[i] = d.error[i]
  /\ e.ending[i] = d.ending[i]
  /\ Slots(e, i) = Slots(d, i) /\ Live(e, i) = {}
  /\ \A m \in Slots(d, i) :
       /\ Kept(d, e, i, m) /\ e.stages[i][m].status = d.stages[i][m].status
       /\ e.stages[i][m].row = IF d.stages[i][m].row = "waiting" THEN "cancelled" ELSE d.stages[i][m].row

QuiesceFacts(d, e, i) ==
  /\ e \in Db /\ Others(d, e, i) /\ e.moves = d.moves
  /\ e.inst = d.inst /\ e.run = d.run /\ e.ending = d.ending /\ e.error = d.error
  /\ Slots(e, i) = Slots(d, i)
  /\ \A m \in Slots(d, i) :
       /\ Kept(d, e, i, m) /\ e.stages[i][m].status = d.stages[i][m].status
       /\ e.stages[i][m].attempt = d.stages[i][m].attempt
       /\ e.stages[i][m].row = IF d.stages[i][m].row = "waiting" THEN "cancelled" ELSE d.stages[i][m].row
       /\ e.stages[i][m].lapsed = d.stages[i][m].lapsed
  /\ Live(e, i) = {}

LEMMA QuiescedIs ==
  ASSUME NEW d \in Db, NEW i \in Instances
  PROVE  Quiesced(d, Quiesce(d, i), i)
<1> DEFINE e == Quiesce(d, i)
<1>1. QuiesceFacts(d, e, i)  BY QuiesceIs DEF QuiesceFacts, Kept
<1> HIDE DEF e
<1>2. Touches(d, e, {i})
  <2>1. \A m \in Slots(d, i) :
          /\ Kept(d, e, i, m) /\ e.stages[i][m].attempt = d.stages[i][m].attempt
          /\ e.stages[i][m].lapsed => d.stages[i][m].lapsed
    BY <1>1 DEF QuiesceFacts
  <2>2. QED  BY <1>1, <2>1, TouchesAt DEF QuiesceFacts
<1>3. Quiesced(d, e, i)  BY <1>1, <1>2 DEF Quiesced, QuiesceFacts
<1>4. QED  BY <1>3 DEF e

(* The stages of i are closed and i stands at s from now on.                *)
Finishes(d, e, i, at, closed) ==
  /\ Touches(d, e, {i})
  /\ StandsAt(e, i, at) /\ e.error[i] = TRUE
  /\ e.token[i] = d.token[i] /\ Slots(e, i) = Slots(d, i)
  /\ \A m \in Slots(d, i) :
       /\ Kept(d, e, i, m) /\ e.stages[i][m].row = d.stages[i][m].row
       /\ e.stages[i][m].status =
            IF d.stages[i][m].status \in OpenStage THEN closed ELSE d.stages[i][m].status

LEMMA FinishesIs ==
  ASSUME NEW d \in Db, NEW e, NEW i \in Instances, NEW at, at # "absent", NEW closed,
         FinishFacts(d, e, i, at, closed)
  PROVE  Finishes(d, e, i, at, closed)
<1>1. Touches(d, e, {i})
  <2>1. \A m \in Slots(d, i) :
          /\ Kept(d, e, i, m) /\ e.stages[i][m].attempt = d.stages[i][m].attempt
          /\ e.stages[i][m].lapsed => d.stages[i][m].lapsed
    BY DEF FinishFacts
  <2>2. e.inst[i] # "absent" /\ e \in Db  BY DEF FinishFacts
  <2>3. QED  BY <2>1, <2>2, TouchesAt DEF FinishFacts
<1>2. QED  BY <1>1 DEF Finishes, FinishFacts, StandsAt

FinalCase(d, e, i, s, u) ==
  Finishes(d, e, i, s, s) /\ e.ending[i] = d.ending[i] /\ u = <<ToParent(i)>>

LEMMA FinalIs ==
  ASSUME NEW d \in Db, NEW i \in Instances, NEW s \in {"failed", "cancelled"}
  PROVE  \E e, u : Finalize(d, i, s) = Do(e, u) /\ FinalCase(d, e, i, s, u)
<1>1. PICK e : /\ Finalize(d, i, s) = Do(e, <<ToParent(i)>>)
               /\ FinishFacts(d, e, i, s, s) /\ e.ending[i] = d.ending[i]
  BY FinalizeIs
<1>2. Finishes(d, e, i, s, s)  BY <1>1, FinishesIs
<1>3. FinalCase(d, e, i, s, <<ToParent(i)>>)  BY <1>1, <1>2 DEF FinalCase
<1>4. QED  BY <1>1, <1>3

CompensateCase(d, e, i, s, u) ==
  /\ Armed(d, i) # {} /\ Finishes(d, e, i, "compensating", "cancelled") /\ e.ending[i] = s
  /\ u = <<ToCompensate(i)>>

DetachCase(d, e, i, s, u) ==
  \E k \in RunningLinks(d, i) :
    /\ RowSet(d, e, i, k, "cancelled")
    /\ u = <<ToFail(ChildOf[d.stages[i][k].node], "cancelled"), ToStop(i, s)>>

StopCase(d, e, i, s, u) ==
  \/ DetachCase(d, e, i, s, u)
  \/ RunningLinks(d, i) = {} /\ CompensateCase(d, e, i, s, u)
  \/ RunningLinks(d, i) = {} /\ Armed(d, i) = {} /\ FinalCase(d, e, i, s, u)

LEMMA StopIs ==
  ASSUME NEW d \in Db, NEW i \in Instances, NEW s \in {"failed", "cancelled"}
  PROVE  \E e, u : Stop(d, i, s) = Do(e, u) /\ StopCase(d, e, i, s, u)
<1>1. CASE RunningLinks(d, i) # {}
  <2> DEFINE k == CHOOSE k \in RunningLinks(d, i) : \A j \in RunningLinks(d, i) : k <= j
             e == SetRow(d, i, k, "cancelled")
             u == <<ToFail(ChildOf[d.stages[i][k].node], "cancelled"), ToStop(i, s)>>
  <2>1. k \in RunningLinks(d, i)
    <3>1. RunningLinks(d, i) \subseteq Nat  BY SlotsAre DEF RunningLinks
    <3>2. \E x \in RunningLinks(d, i) : \A j \in RunningLinks(d, i) : x <= j  BY <1>1, <3>1, Least
    <3>3. QED  BY <3>2, Zenon
  <2>2. Stop(d, i, s) = Do(e, u)  BY <1>1 DEF Stop, Detach
  <2> HIDE DEF k
  <2>3. k \in Slots(d, i)  BY <2>1 DEF RunningLinks
  <2>4. "cancelled" \in RowValues \ {"waiting"}  BY DEF RowValues, Ended
  <2>5. RowSet(d, e, i, k, "cancelled")  BY <2>3, <2>4, RowSetIs
  <2> HIDE DEF e
  <2>6. StopCase(d, e, i, s, u)  BY <2>1, <2>5 DEF StopCase, DetachCase
  <2>7. QED  BY <2>2, <2>6
<1>2. CASE RunningLinks(d, i) = {} /\ Armed(d, i) = {}
  <2>1. Stop(d, i, s) = Finalize(d, i, s)  BY <1>2 DEF Stop, Close
  <2>2. QED  BY <1>2, <2>1, FinalIs DEF StopCase
<1>3. CASE RunningLinks(d, i) = {} /\ Armed(d, i) # {}
  <2> DEFINE e == CompensatingDb(d, i, s)
  <2>1. Stop(d, i, s) = Do(e, <<ToCompensate(i)>>)  BY <1>3 DEF Stop, Close, CompensatingDb
  <2>2. FinishFacts(d, e, i, "compensating", "cancelled") /\ e.ending[i] = s
    BY CompensatingIs
  <2> HIDE DEF e
  <2>3. Finishes(d, e, i, "compensating", "cancelled")  BY <2>2, FinishesIs
  <2>4. StopCase(d, e, i, s, <<ToCompensate(i)>>)  BY <1>3, <2>2, <2>3 DEF StopCase, CompensateCase
  <2>5. QED  BY <2>1, <2>4
<1>4. QED  BY <1>1, <1>2, <1>3

(* queueNextCompensation.                                                   *)
Undoes(d, e, i, k) ==
  /\ Touches(d, e, {i})
  /\ e.inst[i] = d.inst[i] /\ e.run[i] = d.run[i] /\ e.error[i] = d.error[i]
  /\ e.ending[i] = d.ending[i] /\ e.token[i] = d.token[i]
  /\ NextSlot(d, i) \notin Slots(d, i) /\ Slots(e, i) = Slots(d, i) \cup {NextSlot(d, i)}
  /\ \A m \in Slots(d, i) :
       /\ Kept(d, e, i, m) /\ e.stages[i][m].status = d.stages[i][m].status
       /\ e.stages[i][m].row = IF m = k THEN "queued" ELSE d.stages[i][m].row
  /\ LET st == e.stages[i][NextSlot(d, i)]
     IN  /\ st.kind = "compensation" /\ st.status = "queued" /\ st.row = "none" /\ st.of = k
         /\ st.node = d.stages[i][k].node

UndoCase(d, e, i, u) ==
  /\ u = <<>>
  /\ \E k \in Armed(d, i) : (\A j \in Armed(d, i) : j <= k) /\ Undoes(d, e, i, k)

LEMMA UndoesIs ==
  ASSUME NEW d \in Db, NEW i \in Instances, NEW k \in Slots(d, i)
  PROVE  \E e : Undo(d, i, k) = Do(e, <<>>) /\ Undoes(d, e, i, k)
<1> DEFINE L == Len(d.stages[i]) + 1
<1>1. PICK e : Undo(d, i, k) = Do(e, <<>>) /\ UndoFacts(d, e, i, k, L)
  BY UndoIs
<1>2. L = NextSlot(d, i)  BY DEF NextSlot
<1> HIDE DEF L
<1>3. NoNewLapse(d, e)
  <2>1. Others(d, e, i)  BY <1>1 DEF UndoFacts, Others, Same, StagesOnly
  <2>2. \A m \in Slots(e, i) : e.stages[i][m].lapsed => m \in Slots(d, i) /\ d.stages[i][m].lapsed
    BY <1>1 DEF UndoFacts
  <2>3. QED  BY <2>1, <2>2, NoLapseAt
<1>4. Touches(d, e, {i})  BY <1>1, <1>3 DEF Touches, UndoFacts, StagesOnly, Same
<1>5. Undoes(d, e, i, k)  BY <1>1, <1>2, <1>4 DEF Undoes, UndoFacts, StagesOnly
<1>6. QED  BY <1>1, <1>5

NextCase(d, e, i, u) ==
  \/ UndoCase(d, e, i, u)
  \/ /\ Armed(d, i) = {}
     /\ FinalCase(d, e, i, IF d.ending[i] = "cancelled" THEN "cancelled" ELSE "failed", u)

LEMMA NextIs ==
  ASSUME NEW d \in Db, NEW i \in Instances
  PROVE  \E e, u : NextCompensation(d, i) = Do(e, u) /\ NextCase(d, e, i, u)
<1>1. CASE Armed(d, i) = {}
  <2> DEFINE s == IF d.ending[i] = "cancelled" THEN "cancelled" ELSE "failed"
  <2>1. NextCompensation(d, i) = Finalize(d, i, s)  BY <1>1 DEF NextCompensation
  <2>2. s \in {"failed", "cancelled"}  OBVIOUS
  <2>3. PICK e, u : Finalize(d, i, s) = Do(e, u) /\ FinalCase(d, e, i, s, u)
    <3> HIDE DEF s
    <3>1. QED  BY <2>2, FinalIs
  <2>4. NextCase(d, e, i, u)  BY <1>1, <2>3 DEF NextCase
  <2>5. QED  BY <2>1, <2>3, <2>4
<1>2. CASE Armed(d, i) # {}
  <2> DEFINE k == CHOOSE k \in Armed(d, i) : \A j \in Armed(d, i) : j <= k
  <2>1. k \in Armed(d, i) /\ \A j \in Armed(d, i) : j <= k
    <3>1. Armed(d, i) \subseteq 1..Len(d.stages[i]) /\ Len(d.stages[i]) \in Nat  BY SlotsAre DEF Armed
    <3>2. \E x \in Armed(d, i) : \A j \in Armed(d, i) : j <= x  BY <1>2, <3>1, Most
    <3>3. QED  BY <3>2, Zenon
  <2>2. NextCompensation(d, i) = Undo(d, i, k)  BY <1>2 DEF NextCompensation
  <2> HIDE DEF k
  <2>3. k \in Slots(d, i)  BY <2>1 DEF Armed
  <2>4. PICK e : Undo(d, i, k) = Do(e, <<>>) /\ Undoes(d, e, i, k)  BY <2>3, UndoesIs
  <2>5. NextCase(d, e, i, <<>>)  BY <2>1, <2>4 DEF NextCase, UndoCase
  <2>6. QED  BY <2>2, <2>4, <2>5
<1>3. QED  BY <1>1, <1>2

Child(d, i, k) == ChildOf[d.stages[i][k].node]
Unlinked(d, c) == \A p \in Instances : \A k \in RunningLinks(d, p) : Child(d, p, k) # c

(* triggerProcessFailure.                                                   *)
FailsCase(d, e, i, s, u) ==
  \/ d.inst[i] \notin OpenInst /\ Still(d, e) /\ u = <<>>
  \/ d.inst[i] \in OpenInst /\ Quiesced(d, e, i) /\ u = <<ToStop(i, s)>>

LEMMA FailsIs ==
  ASSUME NEW d \in Db, NEW i \in Instances, NEW s
  PROVE  \E e, u : Fail(d, i, s) = Do(e, u) /\ FailsCase(d, e, i, s, u)
<1>1. CASE d.inst[i] \notin OpenInst
  <2>1. Fail(d, i, s) = Do(d, <<>>)  BY <1>1 DEF Fail, Done
  <2>2. FailsCase(d, d, i, s, <<>>)  BY <1>1, StillIs DEF FailsCase
  <2>3. QED  BY <2>1, <2>2
<1>2. CASE d.inst[i] \in OpenInst
  <2>1. Fail(d, i, s) = Do(Quiesce(d, i), <<ToStop(i, s)>>)  BY <1>2 DEF Fail
  <2>2. FailsCase(d, Quiesce(d, i), i, s, <<ToStop(i, s)>>)  BY <1>2, QuiescedIs DEF FailsCase
  <2>3. QED  BY <2>1, <2>2
<1>3. QED  BY <1>1, <1>2

(* completeParentSubprocess.                                                *)
UnlinkCase(d, e, p, k, u) ==
  d.inst[p] \notin OpenInst /\ RowSet(d, e, p, k, "cancelled") /\ u = <<>>
ResumeCase(d, e, c, p, k, u) ==
  /\ d.inst[p] \in OpenInst /\ d.inst[c] = "completed"
  /\ Settled(d, e, p, k, "completed", "completed")
  /\ u = <<ToAdvance(p, d.stages[p][k].token, To(d.stages[p][k].node)[1]), ToSync(p)>>
ToppleCase(d, e, c, p, k, u) ==
  /\ d.inst[p] \in OpenInst /\ d.inst[c] \in {"failed", "cancelled"}
  /\ Settled(d, e, p, k, d.inst[c], "failed")
  /\ u = <<ToFail(p, "failed")>>

ParentCase(d, e, c, u) ==
  \/ (Unlinked(d, c) \/ d.inst[c] \notin Ended) /\ Still(d, e) /\ u = <<>>
  \/ /\ d.inst[c] \in Ended
     /\ \E p \in Instances : \E k \in RunningLinks(d, p) :
          /\ Child(d, p, k) = c
          /\ UnlinkCase(d, e, p, k, u) \/ ResumeCase(d, e, c, p, k, u) \/ ToppleCase(d, e, c, p, k, u)

LEMMA LinksToIs ==
  ASSUME NEW d, NEW c
  PROVE  /\ \A l \in LinksTo(d, c) : l[1] \in Instances /\ l[2] \in RunningLinks(d, l[1]) /\ Child(d, l[1], l[2]) = c
         /\ LinksTo(d, c) = {} => Unlinked(d, c)
<1>1. ASSUME NEW l \in LinksTo(d, c)
      PROVE  l[1] \in Instances /\ l[2] \in RunningLinks(d, l[1]) /\ Child(d, l[1], l[2]) = c
  BY <1>1 DEF LinksTo, RunningLinks, Child
<1>2. ASSUME LinksTo(d, c) = {} PROVE Unlinked(d, c)
  <2>1. SUFFICES ASSUME NEW p \in Instances, NEW k \in RunningLinks(d, p), Child(d, p, k) = c PROVE FALSE
    BY DEF Unlinked
  <2>2. <<p, k>> \in {p} \X Slots(d, p)  BY DEF RunningLinks
  <2>3. <<p, k>> \in UNION {{i} \X Slots(d, i) : i \in Instances}  BY <2>2
  <2>4. <<p, k>> \in LinksTo(d, c)  BY <2>1, <2>3 DEF LinksTo, RunningLinks, Child
  <2>5. QED  BY <1>2, <2>4
<1>3. QED  BY <1>1, <1>2

LEMMA CompleteParentIs ==
  ASSUME NEW d \in Db, NEW c \in Instances
  PROVE  \E e, u : CompleteParent(d, c) = Do(e, u) /\ ParentCase(d, e, c, u)
<1> DEFINE l == CHOOSE l \in LinksTo(d, c) : TRUE
           p == l[1]
           k == l[2]
           st == d.stages[p][k]
           go == <<ToAdvance(p, st.token, To(st.node)[1]), ToSync(p)>>
<1>1. CASE LinksTo(d, c) = {} \/ d.inst[c] \notin Ended
  <2>1. CompleteParent(d, c) = Do(d, <<>>)  BY <1>1 DEF CompleteParent, Done
  <2>2. ParentCase(d, d, c, <<>>)  BY <1>1, StillIs, LinksToIs DEF ParentCase
  <2>3. QED  BY <2>1, <2>2
<1>2. CASE LinksTo(d, c) # {} /\ d.inst[c] \in Ended
  <2>1. l \in LinksTo(d, c)  BY <1>2
  <2>2. p \in Instances /\ k \in RunningLinks(d, p) /\ Child(d, p, k) = c
    <3> HIDE DEF l
    <3>1. QED  BY <2>1, LinksToIs
  <2>3. k \in Slots(d, p)  BY <2>2 DEF RunningLinks
  <2>4. CASE d.inst[p] \notin OpenInst
    <3>1. CompleteParent(d, c) = Do(SetRow(d, p, k, "cancelled"), <<>>)
      BY <1>2, <2>4 DEF CompleteParent, Done
    <3> HIDE DEF l
    <3>2. "cancelled" \in RowValues \ {"waiting"}  BY DEF RowValues, Ended
    <3>3. RowSet(d, SetRow(d, p, k, "cancelled"), p, k, "cancelled")  BY <2>2, <2>3, <3>2, RowSetIs
    <3>4. ParentCase(d, SetRow(d, p, k, "cancelled"), c, <<>>)
      BY <1>2, <2>2, <2>4, <3>3 DEF ParentCase, UnlinkCase
    <3>5. QED  BY <3>1, <3>4
  <2>5. CASE d.inst[p] \in OpenInst /\ d.inst[c] = "completed"
    <3> DEFINE e == SetStage(SetRow(d, p, k, "completed"), p, k, "completed")
    <3>1. CompleteParent(d, c) = Do(e, go)  BY <1>2, <2>5 DEF CompleteParent
    <3> HIDE DEF l
    <3>2. "completed" \in RowValues \ {"waiting"} /\ "completed" \in Ended  BY DEF RowValues, Ended
    <3>3. Settled(d, e, p, k, "completed", "completed")  BY <2>2, <2>3, <3>2, SettledThen
    <3> HIDE DEF e
    <3>4. ResumeCase(d, e, c, p, k, go)  BY <2>5, <3>3 DEF ResumeCase
    <3>5. ParentCase(d, e, c, go)  BY <1>2, <2>2, <3>4 DEF ParentCase
    <3>6. QED  BY <3>1, <3>5
  <2>6. CASE d.inst[p] \in OpenInst /\ d.inst[c] # "completed"
    <3> DEFINE r == d.inst[c]
               e == SetStage(SetRow(d, p, k, r), p, k, "failed")
    <3>1. CompleteParent(d, c) = Do(e, <<ToFail(p, "failed")>>)  BY <1>2, <2>6 DEF CompleteParent
    <3> HIDE DEF l
    <3>2. r \in {"failed", "cancelled"}  BY <1>2, <2>6 DEF Ended
    <3>3. r \in RowValues \ {"waiting"} /\ "failed" \in Ended  BY <3>2 DEF RowValues, Ended
    <3>4. Settled(d, e, p, k, r, "failed")
      <4> HIDE DEF r
      <4>1. QED  BY <2>2, <2>3, <3>3, SettledThen
    <3> HIDE DEF e
    <3>5. ToppleCase(d, e, c, p, k, <<ToFail(p, "failed")>>)  BY <2>6, <3>2, <3>4 DEF ToppleCase
    <3>6. ParentCase(d, e, c, <<ToFail(p, "failed")>>)  BY <1>2, <2>2, <3>5 DEF ParentCase
    <3>7. QED  BY <3>1, <3>6
  <2>7. QED  BY <2>4, <2>5, <2>6
<1>3. QED  BY <1>1, <1>2

LinkCase(d, e, i, k, u) == RowSet(d, e, i, k, "running") /\ u = <<ToParent(Child(d, i, k))>>

LEMMA LinkIs ==
  ASSUME NEW d \in Db, NEW i \in Instances, NEW k \in Slots(d, i)
  PROVE  \E e, u : Link(d, i, k) = Do(e, u) /\ LinkCase(d, e, i, k, u)
<1>1. Link(d, i, k) = Do(SetRow(d, i, k, "running"), <<ToParent(Child(d, i, k))>>)  BY DEF Link, Child
<1>2. "running" \in RowValues \ {"waiting"}  BY DEF RowValues
<1>3. LinkCase(d, SetRow(d, i, k, "running"), i, k, <<ToParent(Child(d, i, k))>>)
  BY <1>2, RowSetIs DEF LinkCase
<1>4. QED  BY <1>1, <1>3

(* Of i one stage gets a new status, and i stands at a new one.             *)
Restood(d, e, i, k, s, at) ==
  /\ Touches(d, e, {i})
  /\ StandsAt(e, i, at) /\ e.error[i] = d.error[i] /\ e.ending[i] = d.ending[i]
  /\ e.token[i] = d.token[i] /\ Slots(e, i) = Slots(d, i)
  /\ \A m \in Slots(d, i) : m # k => e.stages[i][m] = d.stages[i][m]
  /\ Kept(d, e, i, k) /\ e.stages[i][k].row = d.stages[i][k].row
  /\ e.stages[i][k].status = s /\ e.stages[i][k].lapsed = FALSE

LEMMA HeadTouches ==
  ASSUME NEW d \in Db, NEW e \in Db, NEW i \in Instances, HeadOnly(d, e, i),
         d.inst[i] # "absent" => e.inst[i] # "absent"
  PROVE  Touches(d, e, {i})
<1>1. Others(d, e, i) /\ e.moves = d.moves  BY DEF HeadOnly, Others, Same
<1>2. Slots(e, i) = Slots(d, i)  BY DEF HeadOnly, Slots
<1>3. \A m \in Slots(d, i) :
        /\ Kept(d, e, i, m) /\ e.stages[i][m].attempt = d.stages[i][m].attempt
        /\ e.stages[i][m].lapsed => d.stages[i][m].lapsed
  BY DEF HeadOnly, Kept
<1>4. QED  BY <1>1, <1>2, <1>3, TouchesAt

LEMMA StandTouches ==
  ASSUME NEW d \in Db, NEW i \in Instances, NEW s \in InstStatus \ {"absent"}
  PROVE  /\ Touches(d, Stand(d, i, s), {i}) /\ HeadOnly(d, Stand(d, i, s), i)
         /\ StandsAt(Stand(d, i, s), i, s)
         /\ Stand(d, i, s).ending = d.ending /\ Stand(d, i, s).error = d.error
<1> DEFINE e == Stand(d, i, s)
<1>1. s \in InstStatus  OBVIOUS
<1>2. /\ e \in Db /\ HeadOnly(d, e, i)
      /\ e.inst[i] = s /\ e.run[i] = s /\ e.ending = d.ending /\ e.error = d.error
  BY <1>1, StandHead
<1> HIDE DEF e
<1>3. Touches(d, e, {i})  BY <1>2, HeadTouches
<1>4. QED  BY <1>2, <1>3 DEF StandsAt, e

LEMMA RestoodIs ==
  ASSUME NEW d \in Db, NEW i \in Instances, NEW k \in Slots(d, i), NEW s \in OpenStage \cup Ended,
         CanBe(d.stages[i][k], s), NEW at \in InstStatus \ {"absent"}
  PROVE  Restood(d, Stand(SetStage(d, i, k, s), i, at), i, k, s, at)
<1> DEFINE b == SetStage(d, i, k, s)
           e == Stand(b, i, at)
<1>1. StatusSet(d, b, i, k, s)  BY StatusSetIs
<1> HIDE DEF b
<1>2. b \in Db  BY <1>1 DEF StatusSet, Restages, Touches
<1>3. /\ Touches(b, e, {i}) /\ HeadOnly(b, e, i) /\ StandsAt(e, i, at)
      /\ e.ending = b.ending /\ e.error = b.error
  BY <1>2, StandTouches
<1> HIDE DEF e
<1>4. Touches(d, b, {i}) /\ e \in Db  BY <1>1, <1>3 DEF StatusSet, Restages, Touches
<1>5. Touches(d, e, {i})  BY <1>2, <1>3, <1>4, TouchesBoth
<1>6. Restood(d, e, i, k, s, at)
  BY <1>1, <1>3, <1>5 DEF Restood, StatusSet, Restages, HeadOnly, Kept, Slots
<1>7. QED  BY <1>6 DEF e, b

(* failLease and the loop of cleanupExpiredLeases.                          *)
AgainCase(d, e, i, k, u) ==
  /\ u = <<>>
  /\ Restood(d, e, i, k, "queued", IF d.stages[i][k].kind = "compensation" THEN "compensating" ELSE "queued")
GiveUpCase(d, e, i, k, u) ==
  /\ d.stages[i][k].kind = "compensation" /\ u = <<ToCompensate(i)>>
  /\ \E b \in Db :
       /\ Restood(d, b, i, k, "failed", "compensating")
       /\ IF d.stages[i][k].of \in Slots(d, i) THEN RowSet(b, e, i, d.stages[i][k].of, "failed") ELSE e = b
FailBackCase(d, e, i, k, u) ==
  /\ d.stages[i][k].kind # "compensation" /\ u = <<ToFail(i, "failed")>>
  /\ StatusSet(d, e, i, k, "failed")
GiveBackCase(d, e, i, k, u) ==
  AgainCase(d, e, i, k, u) \/ GiveUpCase(d, e, i, k, u) \/ FailBackCase(d, e, i, k, u)

HasAttempt(st) == st.attempt < MaxAttempts

LEMMA GiveBackIs ==
  ASSUME NEW d \in Db, NEW i \in Instances, NEW k \in Slots(d, i), NEW again \in BOOLEAN,
         again => HasAttempt(d.stages[i][k])
  PROVE  \E e, u : GiveBack(d, i, k, again) = Do(e, u) /\ GiveBackCase(d, e, i, k, u)
<1> DEFINE at == IF d.stages[i][k].kind = "compensation" THEN "compensating" ELSE "queued"
<1>1. CASE again
  <2> DEFINE e == Stand(SetStage(d, i, k, "queued"), i, at)
  <2>1. GiveBack(d, i, k, again) = Do(e, <<>>)  BY <1>1 DEF GiveBack, Done
  <2>2. CanBe(d.stages[i][k], "queued")  BY <1>1 DEF CanBe, HasAttempt
  <2>3. "queued" \in OpenStage \cup Ended /\ at \in InstStatus \ {"absent"}  BY DEF OpenStage, InstStatus, OpenInst
  <2>4. Restood(d, e, i, k, "queued", at)
    <3> HIDE DEF at
    <3>1. QED  BY <2>2, <2>3, RestoodIs
  <2>5. GiveBackCase(d, e, i, k, <<>>)
    <3> HIDE DEF e
    <3>1. QED  BY <2>4 DEF GiveBackCase, AgainCase
  <2>6. QED  BY <2>1, <2>5
<1>2. ASSUME ~again PROVE CanBe(d.stages[i][k], "failed") /\ "failed" \in OpenStage \cup Ended
  BY DEF CanBe, OpenStage, Ended
<1>3. CASE ~again /\ d.stages[i][k].kind = "compensation"
  <2> DEFINE b == Stand(SetStage(d, i, k, "failed"), i, "compensating")
             e == SetRow(b, i, d.stages[i][k].of, "failed")
  <2>1. GiveBack(d, i, k, again) = Do(e, <<ToCompensate(i)>>)  BY <1>3 DEF GiveBack
  <2>2. "compensating" \in InstStatus \ {"absent"}  BY DEF InstStatus
  <2>3. Restood(d, b, i, k, "failed", "compensating")  BY <1>2, <1>3, <2>2, RestoodIs
  <2> HIDE DEF b
  <2>4. b \in Db /\ Slots(b, i) = Slots(d, i)  BY <2>3 DEF Restood, Touches
  <2>5. "failed" \in RowValues \ {"waiting"}  BY DEF RowValues, Ended
  <2>6. ASSUME d.stages[i][k].of \in Slots(d, i) PROVE RowSet(b, e, i, d.stages[i][k].of, "failed")
    BY <2>4, <2>5, <2>6, RowSetIs
  <2>7. ASSUME d.stages[i][k].of \notin Slots(d, i) PROVE e = b
    BY <2>4, <2>7, SetNoRow
  <2> HIDE DEF e
  <2>8. GiveUpCase(d, e, i, k, <<ToCompensate(i)>>)  BY <1>3, <2>3, <2>4, <2>6, <2>7 DEF GiveUpCase
  <2>9. QED  BY <2>1, <2>8 DEF GiveBackCase
<1>4. CASE ~again /\ d.stages[i][k].kind # "compensation"
  <2> DEFINE e == SetStage(d, i, k, "failed")
  <2>1. GiveBack(d, i, k, again) = Do(e, <<ToFail(i, "failed")>>)  BY <1>4 DEF GiveBack
  <2>2. StatusSet(d, e, i, k, "failed")  BY <1>2, <1>4, StatusSetIs
  <2> HIDE DEF e
  <2>3. FailBackCase(d, e, i, k, <<ToFail(i, "failed")>>)  BY <1>4, <2>2 DEF FailBackCase
  <2>4. QED  BY <2>1, <2>3 DEF GiveBackCase
<1>5. QED  BY <1>1, <1>3, <1>4

(***************************************************************************)
(* Every call leaves a database, and calls that can be made on it.         *)
(***************************************************************************)
CallOK(d, c) ==
  /\ c \in Calls
  /\ c.method = "link" => c.k \in Slots(d, c.i) /\ d.stages[c.i][c.k].kind = "subprocess"
  /\ c.method = "giveback" => c.k \in Slots(d, c.i) /\ (c.again => HasAttempt(d.stages[c.i][c.k]))

AllOK(d, s) == s \in Seq(Calls) /\ \A x \in DOMAIN s : CallOK(d, s[x])

Tame(w) == w.broken \subseteq Fragile /\ w.refused \subseteq Fragile

SpentCase(d, e, c, u) ==
  c.method = "advance" /\ d.moves[c.i] = MaxMoves /\ Still(d, e) /\ u = <<ToFail(c.i, "failed")>>
StepCase(d, e, c, u) ==
  /\ c.method = "advance" /\ d.moves[c.i] # MaxMoves
  /\ EnterCase(Entered(d, c.i, c.t), e, c.i, c.t, c.n, u)

CallCase(d, e, c, u) ==
  \/ SpentCase(d, e, c, u)
  \/ StepCase(d, e, c, u)
  \/ c.method = "fail" /\ FailsCase(d, e, c.i, c.s, u)
  \/ c.method = "stop" /\ StopCase(d, e, c.i, c.s, u)
  \/ c.method = "compensate" /\ NextCase(d, e, c.i, u)
  \/ c.method = "parent" /\ ParentCase(d, e, c.i, u)
  \/ c.method = "link" /\ LinkCase(d, e, c.i, c.k, u)
  \/ c.method = "sync" /\ Synced(d, e, c.i) /\ u = <<>>
  \/ c.method = "giveback" /\ GiveBackCase(d, e, c.i, c.k, u)

LEMMA CallFields ==
  ASSUME NEW c \in Calls
  PROVE  /\ c.i \in Instances
         /\ c.method \in {"advance", "fail", "stop", "compensate", "parent", "link", "sync", "giveback"}
         /\ c.method = "advance" => c.t \in Token /\ c.n \in GNodes
         /\ c.method \in {"fail", "stop"} => c.s \in {"failed", "cancelled"}
         /\ c.method \in {"link", "giveback"} => c.k \in Nat
         /\ c.method = "giveback" => c.again \in BOOLEAN
BY DEF Calls, AdvanceCalls, EndingCalls, PlainCalls, LinkCalls, GiveCalls

LEMMA CallIs ==
  ASSUME NEW d \in Db, NEW c, CallOK(d, c), NEW w, Tame(w)
  PROVE  \E e, u : Call(d, c, w) = Do(e, u) /\ CallCase(d, e, c, u)
<1>1. c \in Calls  BY DEF CallOK
<1>2. c.i \in Instances  BY <1>1, CallFields
<1>3. CASE c.method = "advance" /\ d.moves[c.i] = MaxMoves
  <2>1. Call(d, c, w) = Advance(d, c.i, c.t, c.n, w)  BY <1>3 DEF Call
  <2>2. Advance(d, c.i, c.t, c.n, w) = Do(d, <<ToFail(c.i, "failed")>>)  BY <1>3 DEF Advance
  <2>3. CallCase(d, d, c, <<ToFail(c.i, "failed")>>)  BY <1>3, StillIs DEF CallCase, SpentCase
  <2>4. QED  BY <2>1, <2>2, <2>3
<1>4. CASE c.method = "advance" /\ d.moves[c.i] # MaxMoves
  <2>1. Call(d, c, w) = Advance(d, c.i, c.t, c.n, w)  BY <1>4 DEF Call
  <2>2. c.t \in Token /\ c.n \in GNodes  BY <1>1, <1>4, CallFields
  <2>3. w.broken \subseteq Fragile /\ w.refused \subseteq Fragile  BY DEF Tame
  <2>4. Enters(Entered(d, c.i, c.t), Advance(d, c.i, c.t, c.n, w), c.i, c.t, c.n)
    BY <1>2, <1>4, <2>2, <2>3, EnterIs
  <2>5. PICK e, u : /\ Advance(d, c.i, c.t, c.n, w) = Do(e, u)
                    /\ EnterCase(Entered(d, c.i, c.t), e, c.i, c.t, c.n, u)
    BY <2>4 DEF Enters
  <2>6. CallCase(d, e, c, u)  BY <1>4, <2>5 DEF CallCase, StepCase
  <2>7. QED  BY <2>1, <2>5, <2>6
<1>5. CASE c.method = "fail"
  <2>1. Call(d, c, w) = Fail(d, c.i, c.s)  BY <1>5 DEF Call
  <2>2. PICK e, u : Fail(d, c.i, c.s) = Do(e, u) /\ FailsCase(d, e, c.i, c.s, u)  BY <1>2, FailsIs
  <2>3. QED  BY <1>5, <2>1, <2>2 DEF CallCase
<1>6. CASE c.method = "stop"
  <2>1. Call(d, c, w) = Stop(d, c.i, c.s)  BY <1>6 DEF Call
  <2>2. c.s \in {"failed", "cancelled"}  BY <1>1, <1>6, CallFields
  <2>3. PICK e, u : Stop(d, c.i, c.s) = Do(e, u) /\ StopCase(d, e, c.i, c.s, u)  BY <1>2, <2>2, StopIs
  <2>4. QED  BY <1>6, <2>1, <2>3 DEF CallCase
<1>7. CASE c.method = "compensate"
  <2>1. Call(d, c, w) = NextCompensation(d, c.i)  BY <1>7 DEF Call
  <2>2. PICK e, u : NextCompensation(d, c.i) = Do(e, u) /\ NextCase(d, e, c.i, u)  BY <1>2, NextIs
  <2>3. QED  BY <1>7, <2>1, <2>2 DEF CallCase
<1>8. CASE c.method = "parent"
  <2>1. Call(d, c, w) = CompleteParent(d, c.i)  BY <1>8 DEF Call
  <2>2. PICK e, u : CompleteParent(d, c.i) = Do(e, u) /\ ParentCase(d, e, c.i, u)  BY <1>2, CompleteParentIs
  <2>3. QED  BY <1>8, <2>1, <2>2 DEF CallCase
<1>9. CASE c.method = "link"
  <2>1. Call(d, c, w) = Link(d, c.i, c.k)  BY <1>9 DEF Call
  <2>2. c.k \in Slots(d, c.i)  BY <1>9 DEF CallOK
  <2>3. PICK e, u : Link(d, c.i, c.k) = Do(e, u) /\ LinkCase(d, e, c.i, c.k, u)  BY <1>2, <2>2, LinkIs
  <2>4. QED  BY <1>9, <2>1, <2>3 DEF CallCase
<1>10. CASE c.method = "sync"
  <2>1. Call(d, c, w) = Do(Sync(d, c.i), <<>>)  BY <1>10 DEF Call, Done
  <2>2. Synced(d, Sync(d, c.i), c.i)  BY <1>2, SyncedIs
  <2>3. QED  BY <1>10, <2>1, <2>2 DEF CallCase
<1>11. CASE c.method = "giveback"
  <2>1. Call(d, c, w) = GiveBack(d, c.i, c.k, c.again)  BY <1>11 DEF Call
  <2>2. c.again \in BOOLEAN  BY <1>1, <1>11, CallFields
  <2>3. c.k \in Slots(d, c.i) /\ (c.again => HasAttempt(d.stages[c.i][c.k]))  BY <1>11 DEF CallOK
  <2>4. PICK e, u : GiveBack(d, c.i, c.k, c.again) = Do(e, u) /\ GiveBackCase(d, e, c.i, c.k, u)
    BY <1>2, <2>2, <2>3, GiveBackIs
  <2>5. QED  BY <1>11, <2>1, <2>4 DEF CallCase
<1>12. QED  BY <1>1, <1>3, <1>4, <1>5, <1>6, <1>7, <1>8, <1>9, <1>10, <1>11, CallFields

(* What a call gives.                                                       *)
Gives(d, e, u) == e \in Db /\ Grows(d, e) /\ NoNewLapse(d, e) /\ AllOK(e, u)

LEMMA NoCalls ==
  ASSUME NEW e
  PROVE  AllOK(e, <<>>)
BY DEF AllOK

LEMMA OneCall ==
  ASSUME NEW e, NEW c, CallOK(e, c)
  PROVE  AllOK(e, <<c>>)
<1>1. c \in Calls  BY DEF CallOK
<1>2. <<c>> \in Seq(Calls)  BY <1>1
<1>3. \A x \in DOMAIN <<c>> : <<c>>[x] = c  OBVIOUS
<1>4. QED  BY <1>2, <1>3 DEF AllOK

LEMMA TwoCalls ==
  ASSUME NEW e, NEW b, NEW c, CallOK(e, b), CallOK(e, c)
  PROVE  AllOK(e, <<b, c>>)
<1>1. b \in Calls /\ c \in Calls  BY DEF CallOK
<1>2. <<b, c>> \in Seq(Calls)  BY <1>1
<1>3. \A x \in DOMAIN <<b, c>> : <<b, c>>[x] \in {b, c}  OBVIOUS
<1>4. QED  BY <1>2, <1>3 DEF AllOK

LEMMA PlainOK ==
  ASSUME NEW e, NEW i \in Instances
  PROVE  /\ \A t \in Token, n \in GNodes : CallOK(e, ToAdvance(i, t, n))
         /\ \A s \in {"failed", "cancelled"} : CallOK(e, ToFail(i, s)) /\ CallOK(e, ToStop(i, s))
         /\ CallOK(e, ToCompensate(i)) /\ CallOK(e, ToParent(i)) /\ CallOK(e, ToSync(i))
<1>1. /\ \A t \in Token, n \in GNodes : ToAdvance(i, t, n) \in Calls
      /\ \A s \in {"failed", "cancelled"} : ToFail(i, s) \in Calls /\ ToStop(i, s) \in Calls
      /\ ToCompensate(i) \in Calls /\ ToParent(i) \in Calls /\ ToSync(i) \in Calls
  BY CallsAre
<1>2. /\ \A t, n : ToAdvance(i, t, n).method = "advance"
      /\ \A s : ToFail(i, s).method = "fail" /\ ToStop(i, s).method = "stop"
      /\ ToCompensate(i).method = "compensate" /\ ToParent(i).method = "parent" /\ ToSync(i).method = "sync"
  BY DEF ToAdvance, ToFail, ToStop, ToCompensate, ToParent, ToSync
<1>3. QED  BY <1>1, <1>2 DEF CallOK

LEMMA TouchesGives ==
  ASSUME NEW d, NEW e, NEW I, Touches(d, e, I), NEW u, AllOK(e, u)
  PROVE  Gives(d, e, u)
BY DEF Touches, Gives

LEMMA ToNodes ==
  ASSUME NEW n \in GNodes
  PROVE  To(n) \in Seq(GNodes)
BY GraphAssumption

LEMMA ToOne ==
  ASSUME NEW n \in GNodes, Len(To(n)) = 1
  PROVE  To(n)[1] \in GNodes /\ 1 \in DOMAIN To(n)
<1> DEFINE q == To(n)
<1>1. q \in Seq(GNodes) /\ Len(q) = 1  BY ToNodes
<1> HIDE DEF q
<1>2. DOMAIN q = 1..Len(q) /\ \A x \in DOMAIN q : q[x] \in GNodes  BY <1>1
<1>3. 1 \in DOMAIN q  BY <1>1, <1>2
<1>4. QED  BY <1>2, <1>3 DEF q

(* A token of a stage that is not a compensation, and where it goes on.     *)
LEMMA StageGoesOn ==
  ASSUME NEW d \in Db, NEW i \in Instances, NEW k \in Slots(d, i), d.stages[i][k].kind # "compensation"
  PROVE  /\ d.stages[i][k].token \in Token /\ d.stages[i][k].node \in GNodes
         /\ To(d.stages[i][k].node)[1] \in GNodes /\ 1 \in DOMAIN To(d.stages[i][k].node)
<1>1. d.stages[i][k] \in StageSet  BY SlotsAre
<1>2. d.stages[i][k].token \in Token /\ d.stages[i][k].node \in GNodes /\ Len(To(d.stages[i][k].node)) = 1
  BY <1>1 DEF StageSet, StageOK, StageType
<1>3. QED  BY <1>2, ToOne

LEMMA ChildIs ==
  ASSUME NEW d \in Db, NEW i \in Instances, NEW k \in Slots(d, i), d.stages[i][k].kind = "subprocess"
  PROVE  /\ d.stages[i][k].node \in DOMAIN ChildOf /\ Child(d, i, k) \in Instances
         /\ Child(d, i, k) \in Children
<1>1. d.stages[i][k] \in StageSet  BY SlotsAre
<1>2. d.stages[i][k].node \in DOMAIN ChildOf  BY <1>1 DEF StageSet, StageOK
<1>3. QED  BY <1>2, FamilyAssumption DEF Child, Children

LEMMA EnterGives ==
  ASSUME NEW d \in Db, NEW i \in Instances, NEW t \in Token, NEW n \in GNodes, NEW e, NEW u,
         EnterCase(d, e, i, t, n, u)
  PROVE  Gives(d, e, u)
<1>1. ASSUME PassCase(d, e, i, t, n, u) PROVE Gives(d, e, u)
  <2>1. PICK m \in GNodes : u = <<ToAdvance(i, t, m)>>  BY <1>1 DEF PassCase
  <2>2. AllOK(e, u)
    <3>1. CallOK(e, ToAdvance(i, t, m))  BY PlainOK
    <3>2. QED  BY <2>1, <3>1, OneCall
  <2>3. Touches(d, e, {})  BY <1>1 DEF PassCase, Still
  <2>4. QED  BY <2>2, <2>3, TouchesGives
<1>2. AllOK(e, <<ToFail(i, "failed")>>)
  <2>1. CallOK(e, ToFail(i, "failed"))  BY PlainOK
  <2>2. QED  BY <2>1, OneCall
<1>3. ASSUME FailCase(d, e, i, n, u) PROVE Gives(d, e, u)
  BY <1>2, <1>3, TouchesGives DEF FailCase, Still
<1>4. ASSUME QueueCase(d, e, i, t, n, u) PROVE Gives(d, e, u)
  <2>1. Touches(d, e, {i})  BY <1>4 DEF QueueCase, Added
  <2>2. AllOK(e, u)  BY <1>4, NoCalls DEF QueueCase
  <2>3. QED  BY <2>1, <2>2, TouchesGives
<1>5. ASSUME RunCase(d, e, i, t, n, u) PROVE Gives(d, e, u)
  <2>1. Touches(d, e, {i})  BY <1>5 DEF RunCase, Added
  <2>2. To(n)[1] \in GNodes  BY <1>5, OneWay DEF RunCase, StageKinds
  <2>3. CallOK(e, ToAdvance(i, t, To(n)[1]))  BY <2>2, PlainOK
  <2>4. AllOK(e, u)  BY <1>5, <2>3, OneCall DEF RunCase
  <2>5. QED  BY <2>1, <2>4, TouchesGives
<1>6. ASSUME RefuseCase(d, e, i, t, n, u) PROVE Gives(d, e, u)
  <2>1. Touches(d, e, {i})  BY <1>6 DEF RefuseCase, Added
  <2>2. AllOK(e, u)  BY <1>2, <1>6 DEF RefuseCase
  <2>3. QED  BY <2>1, <2>2, TouchesGives
<1>7. ASSUME BeginCase(d, e, i, t, n, u) PROVE Gives(d, e, u)
  <2> DEFINE c == ChildOf[n]
             L == NextSlot(d, i)
  <2>1. Kind(n) = "subprocess" /\ u = <<ToAdvance(c, Root, StartOf[c]), ToLink(i, L)>>
    BY <1>7 DEF BeginCase
  <2>2. PICK b \in Db, st \in StageSet : Added(d, b, i, st) /\ Waiting(st, n, t) /\ Started(b, e, c)
    BY <1>7 DEF BeginCase
  <2>3. c \in Instances /\ StartOf[c] \in GNodes
    <3>1. c \in Instances  BY <2>1, FamilyAssumption
    <3>2. QED  BY <3>1, GraphAssumption
  <2>4. Touches(d, b, {i}) /\ Touches(b, e, {c}) /\ e \in Db  BY <2>2 DEF Added, Started, Touches
  <2>5. Touches(d, e, {i} \cup {c})  BY <2>2, <2>4, TouchesTwice
  <2>6. L \in Slots(b, i) /\ b.stages[i][L].kind = "subprocess"  BY <2>2 DEF Added, Waiting
  <2>7. L \in Slots(e, i) /\ e.stages[i][L].kind = "subprocess"
    <3>1. GrowsAt(b, e, i)  BY <2>4 DEF Touches, Grows
    <3>2. QED  BY <2>6, <3>1 DEF GrowsAt, Kept
  <2>8. L \in Nat
    <3>1. Len(d.stages[i]) \in Nat  BY SlotsAre
    <3>2. QED  BY <3>1 DEF NextSlot
  <2> HIDE DEF L
  <2>9. CallOK(e, ToLink(i, L))
    <3>1. ToLink(i, L) \in Calls  BY <2>8, CallsAre
    <3>2. ToLink(i, L).i = i /\ ToLink(i, L).k = L /\ ToLink(i, L).method = "link"  BY DEF ToLink
    <3>3. QED  BY <2>7, <3>1, <3>2 DEF CallOK
  <2>10. Root \in Token  BY DEF Root, Token
  <2>11. CallOK(e, ToAdvance(c, Root, StartOf[c]))  BY <2>3, <2>10, PlainOK
  <2>12. AllOK(e, u)  BY <2>1, <2>9, <2>11, TwoCalls
  <2>13. QED  BY <2>5, <2>12, TouchesGives
<1>8. ASSUME ForkCase(d, e, i, t, n, u) PROVE Gives(d, e, u)
  <2>1. Kind(n) = "fork" /\ u \in Seq(Calls) /\ Touches(d, e, {i})
    BY <1>8 DEF ForkCase, Marked, Retokens
  <2>2. PICK x \in Seq(Calls) :
          /\ IsConcat(u, x, <<ToSync(i)>>) /\ DOMAIN x = DOMAIN To(n)
          /\ \A b \in DOMAIN To(n) : x[b] = ToAdvance(i, Branch(t, n, b), To(n)[b])
    BY <1>8 DEF ForkCase
  <2>3. ASSUME NEW y \in DOMAIN u PROVE CallOK(e, u[y])
    <3>1. CASE y \in DOMAIN x
      <4>1. u[y] = x[y]  BY <2>2, <3>1 DEF IsConcat
      <4>2. y \in 1..16 /\ To(n)[y] \in GNodes  BY <2>1, <2>2, <3>1, BranchesAre
      <4>3. Branch(t, n, y) \in Token  BY <4>2, BranchIs
      <4>4. CallOK(e, ToAdvance(i, Branch(t, n, y), To(n)[y]))  BY <4>2, <4>3, PlainOK
      <4>5. QED  BY <2>2, <3>1, <4>1, <4>4
    <3>2. CASE y \notin DOMAIN x
      <4>1. PICK l \in DOMAIN <<ToSync(i)>> : y = Len(x) + l  BY <2>2, <3>2 DEF IsConcat
      <4>2. u[Len(x) + l] = <<ToSync(i)>>[l]  BY <2>2 DEF IsConcat
      <4>3. <<ToSync(i)>>[l] = ToSync(i)  OBVIOUS
      <4>4. CallOK(e, ToSync(i))  BY PlainOK
      <4>5. QED  BY <4>1, <4>2, <4>3, <4>4
    <3>3. QED  BY <3>1, <3>2
  <2>4. AllOK(e, u)  BY <2>1, <2>3 DEF AllOK
  <2>5. QED  BY <2>1, <2>4, TouchesGives
<1>9. ASSUME WaitCase(d, e, i, t, n, u) PROVE Gives(d, e, u)
  <2>1. PICK b \in Db : TokenSet(d, b, i, t, "waiting_join") /\ Synced(b, e, i)  BY <1>9 DEF WaitCase
  <2>2. Touches(d, b, {i}) /\ Touches(b, e, {i}) /\ e \in Db
    BY <2>1 DEF TokenSet, Retokens, Synced, Touches
  <2>3. Touches(d, e, {i})  BY <2>2, TouchesBoth
  <2>4. AllOK(e, u)  BY <1>9, NoCalls DEF WaitCase
  <2>5. QED  BY <2>3, <2>4, TouchesGives
<1>10. ASSUME MergeCase(d, e, i, t, n, u) PROVE Gives(d, e, u)
  <2>1. PICK b \in Db : /\ TokenSet(d, b, i, t, "waiting_join")
                        /\ Marked(b, e, i, Branches(Front(t), ForkOf[n]), "merged", Front(t), "active")
    BY <1>10 DEF MergeCase
  <2>2. Touches(d, b, {i}) /\ Touches(b, e, {i}) /\ e \in Db
    BY <2>1 DEF TokenSet, Retokens, Marked, Touches
  <2>3. Touches(d, e, {i})  BY <2>2, TouchesBoth
  <2>4. To(n)[1] \in GNodes  BY <1>10, OneWay DEF MergeCase
  <2>5. t # Root  BY <1>10 DEF MergeCase
  <2>6. Front(t) \in Token  BY <2>5, FrontIs
  <2>7. CallOK(e, ToAdvance(i, Front(t), To(n)[1]))  BY <2>4, <2>6, PlainOK
  <2>8. AllOK(e, u)  BY <1>10, <2>7, OneCall DEF MergeCase
  <2>9. QED  BY <2>3, <2>8, TouchesGives
<1>11. ASSUME LeaveCase(d, e, i, t, n, u) PROVE Gives(d, e, u)
  <2>1. PICK b \in Db : TokenSet(d, b, i, t, "completed") /\ Synced(b, e, i)  BY <1>11 DEF LeaveCase
  <2>2. Touches(d, b, {i}) /\ Touches(b, e, {i}) /\ e \in Db
    BY <2>1 DEF TokenSet, Retokens, Synced, Touches
  <2>3. Touches(d, e, {i})  BY <2>2, TouchesBoth
  <2>4. AllOK(e, u)  BY <1>11, NoCalls DEF LeaveCase
  <2>5. QED  BY <2>3, <2>4, TouchesGives
<1>12. ASSUME CompleteCase(d, e, i, t, n, u) PROVE Gives(d, e, u)
  <2>1. PICK b \in Db : TokenSet(d, b, i, t, "completed") /\ Completes(b, e, i)  BY <1>12 DEF CompleteCase
  <2>2. Touches(d, b, {i}) /\ Touches(b, e, {i}) /\ e \in Db
    BY <2>1 DEF TokenSet, Retokens, Completes, Touches
  <2>3. Touches(d, e, {i})  BY <2>2, TouchesBoth
  <2>4. CallOK(e, ToParent(i))  BY PlainOK
  <2>5. AllOK(e, u)  BY <1>12, <2>4, OneCall DEF CompleteCase
  <2>6. QED  BY <2>3, <2>5, TouchesGives
<1>13. QED  BY <1>1, <1>3, <1>4, <1>5, <1>6, <1>7, <1>8, <1>9, <1>10, <1>11, <1>12 DEF EnterCase

LEMMA EnteredGives ==
  ASSUME NEW d \in Db, NEW i \in Instances, NEW t, d.moves[i] # MaxMoves
  PROVE  Entered(d, i, t) \in Db /\ Grows(d, Entered(d, i, t)) /\ NoNewLapse(d, Entered(d, i, t))
<1> DEFINE e == Entered(d, i, t)
<1>1. /\ e \in Db /\ e.inst = d.inst /\ e.stages = d.stages
      /\ \A j \in Instances : j # i => e.moves[j] = d.moves[j]
      /\ e.moves[i] = d.moves[i] + 1
  BY EnteredIs
<1> HIDE DEF e
<1>2. ASSUME NEW j \in Instances PROVE GrowsAt(d, e, j)
  <2>1. d.moves[j] \in Nat  BY DEF Db
  <2>2. d.moves[j] <= e.moves[j]  BY <1>1, <2>1
  <2>3. QED  BY <1>1, <2>2 DEF GrowsAt, Slots, Kept
<1>3. Grows(d, e)  BY <1>2 DEF Grows
<1>4. NoNewLapse(d, e)  BY <1>1 DEF NoNewLapse, Slots
<1>5. QED  BY <1>1, <1>3, <1>4 DEF e

LEMMA GivesThen ==
  ASSUME NEW d \in Db, NEW b \in Db, Grows(d, b), NoNewLapse(d, b), NEW e, NEW u, Gives(b, e, u)
  PROVE  Gives(d, e, u)
<1>1. e \in Db /\ Grows(b, e) /\ NoNewLapse(b, e) /\ AllOK(e, u)  BY DEF Gives
<1>2. Grows(d, e)
  <2>1. SUFFICES ASSUME NEW j \in Instances PROVE GrowsAt(d, e, j)  BY DEF Grows
  <2>2. GrowsAt(d, b, j) /\ GrowsAt(b, e, j)  BY <1>1 DEF Grows
  <2>3. e.moves[j] \in Nat /\ b.moves[j] \in Nat /\ d.moves[j] \in Nat  BY <1>1 DEF Db
  <2>4. QED  BY <2>2, <2>3 DEF GrowsAt, Kept
<1>3. NoNewLapse(d, e)  BY <1>1 DEF NoNewLapse
<1>4. QED  BY <1>1, <1>2, <1>3 DEF Gives

LEMMA FinalGives ==
  ASSUME NEW d \in Db, NEW i \in Instances, NEW e, NEW s, NEW u, FinalCase(d, e, i, s, u)
  PROVE  Gives(d, e, u)
<1>1. Touches(d, e, {i})  BY DEF FinalCase, Finishes
<1>2. CallOK(e, ToParent(i))  BY PlainOK
<1>3. AllOK(e, u)  BY <1>2, OneCall DEF FinalCase
<1>4. QED  BY <1>1, <1>3, TouchesGives

LEMMA CallGives ==
  ASSUME NEW d \in Db, NEW c, CallOK(d, c), NEW e, NEW u, CallCase(d, e, c, u)
  PROVE  Gives(d, e, u)
<1> DEFINE i == c.i
<1>1. c \in Calls  BY DEF CallOK
<1>2. i \in Instances  BY <1>1, CallFields
<1> HIDE DEF i
<1>3. AllOK(e, <<ToFail(i, "failed")>>)
  <2>1. CallOK(e, ToFail(i, "failed"))  BY <1>2, PlainOK
  <2>2. QED  BY <2>1, OneCall
<1>4. ASSUME SpentCase(d, e, c, u) PROVE Gives(d, e, u)
  BY <1>3, <1>4, TouchesGives DEF SpentCase, Still, i
<1>5. ASSUME StepCase(d, e, c, u) PROVE Gives(d, e, u)
  <2> DEFINE b == Entered(d, i, c.t)
  <2>1. c.t \in Token /\ c.n \in GNodes  BY <1>1, <1>5, CallFields DEF StepCase
  <2>2. EnterCase(b, e, i, c.t, c.n, u) /\ d.moves[i] # MaxMoves  BY <1>5 DEF StepCase, i
  <2>3. b \in Db /\ Grows(d, b) /\ NoNewLapse(d, b)  BY <1>2, <2>2, EnteredGives
  <2> HIDE DEF b
  <2>4. Gives(b, e, u)  BY <1>2, <2>1, <2>2, <2>3, EnterGives
  <2>5. QED  BY <2>3, <2>4, GivesThen
<1>6. ASSUME c.method = "fail", FailsCase(d, e, i, c.s, u) PROVE Gives(d, e, u)
  <2>1. CASE Still(d, e) /\ u = <<>>
    BY <2>1, NoCalls, TouchesGives DEF Still
  <2>2. CASE Quiesced(d, e, i) /\ u = <<ToStop(i, c.s)>>
    <3>1. Touches(d, e, {i})  BY <2>2 DEF Quiesced
    <3>2. c.s \in {"failed", "cancelled"}  BY <1>1, <1>6, CallFields
    <3>3. CallOK(e, ToStop(i, c.s))  BY <1>2, <3>2, PlainOK
    <3>4. AllOK(e, u)  BY <2>2, <3>3, OneCall
    <3>5. QED  BY <3>1, <3>4, TouchesGives
  <2>3. QED  BY <1>6, <2>1, <2>2 DEF FailsCase
<1>7. ASSUME c.method = "stop", StopCase(d, e, i, c.s, u) PROVE Gives(d, e, u)
  <2>1. ASSUME DetachCase(d, e, i, c.s, u) PROVE Gives(d, e, u)
    <3>1. PICK k \in RunningLinks(d, i) :
            /\ RowSet(d, e, i, k, "cancelled")
            /\ u = <<ToFail(Child(d, i, k), "cancelled"), ToStop(i, c.s)>>
      BY <2>1 DEF DetachCase, Child
    <3>2. Touches(d, e, {i})  BY <3>1 DEF RowSet, Restages
    <3>3. k \in Slots(d, i) /\ d.stages[i][k].kind = "subprocess"  BY DEF RunningLinks
    <3>4. Child(d, i, k) \in Instances  BY <1>2, <3>3, ChildIs
    <3>5. c.s \in {"failed", "cancelled"}  BY <1>1, <1>7, CallFields
    <3>6. CallOK(e, ToFail(Child(d, i, k), "cancelled"))  BY <3>4, PlainOK
    <3>7. CallOK(e, ToStop(i, c.s))  BY <1>2, <3>5, PlainOK
    <3>8. AllOK(e, u)  BY <3>1, <3>6, <3>7, TwoCalls
    <3>9. QED  BY <3>2, <3>8, TouchesGives
  <2>2. ASSUME CompensateCase(d, e, i, c.s, u) PROVE Gives(d, e, u)
    <3>1. Touches(d, e, {i})  BY <2>2 DEF CompensateCase, Finishes
    <3>2. CallOK(e, ToCompensate(i))  BY <1>2, PlainOK
    <3>3. AllOK(e, u)  BY <2>2, <3>2, OneCall DEF CompensateCase
    <3>4. QED  BY <3>1, <3>3, TouchesGives
  <2>3. ASSUME FinalCase(d, e, i, c.s, u) PROVE Gives(d, e, u)
    BY <1>2, <2>3, FinalGives
  <2>4. QED  BY <1>7, <2>1, <2>2, <2>3 DEF StopCase
<1>8. ASSUME NextCase(d, e, i, u) PROVE Gives(d, e, u)
  <2>1. ASSUME UndoCase(d, e, i, u) PROVE Gives(d, e, u)
    <3>1. Touches(d, e, {i})  BY <2>1 DEF UndoCase, Undoes
    <3>2. AllOK(e, u)  BY <2>1, NoCalls DEF UndoCase
    <3>3. QED  BY <3>1, <3>2, TouchesGives
  <2>2. ASSUME NEW s, FinalCase(d, e, i, s, u) PROVE Gives(d, e, u)
    BY <1>2, <2>2, FinalGives
  <2>3. QED  BY <1>8, <2>1, <2>2 DEF NextCase
<1>9. ASSUME ParentCase(d, e, i, u) PROVE Gives(d, e, u)
  <2>1. CASE Still(d, e) /\ u = <<>>
    BY <2>1, NoCalls, TouchesGives DEF Still
  <2>2. ASSUME NEW p \in Instances, NEW k \in RunningLinks(d, p),
               UnlinkCase(d, e, p, k, u) \/ ResumeCase(d, e, i, p, k, u) \/ ToppleCase(d, e, i, p, k, u)
        PROVE  Gives(d, e, u)
    <3>1. CASE UnlinkCase(d, e, p, k, u)
      <4>1. Touches(d, e, {p}) /\ u = <<>>  BY <3>1 DEF UnlinkCase, RowSet, Restages
      <4>2. QED  BY <4>1, NoCalls, TouchesGives
    <3>2. CASE ResumeCase(d, e, i, p, k, u)
      <4>1. Touches(d, e, {p})  BY <3>2 DEF ResumeCase, Settled, Restages
      <4>2. u = <<ToAdvance(p, d.stages[p][k].token, To(d.stages[p][k].node)[1]), ToSync(p)>>
        BY <3>2 DEF ResumeCase
      <4>3. k \in Slots(d, p) /\ d.stages[p][k].kind # "compensation"  BY DEF RunningLinks
      <4>4. d.stages[p][k].token \in Token /\ To(d.stages[p][k].node)[1] \in GNodes
        BY <4>3, StageGoesOn
      <4>5. CallOK(e, ToAdvance(p, d.stages[p][k].token, To(d.stages[p][k].node)[1]))
        BY <4>4, PlainOK
      <4>6. CallOK(e, ToSync(p))  BY PlainOK
      <4>7. AllOK(e, u)  BY <4>2, <4>5, <4>6, TwoCalls
      <4>8. QED  BY <4>1, <4>7, TouchesGives
    <3>3. CASE ToppleCase(d, e, i, p, k, u)
      <4>1. Touches(d, e, {p})  BY <3>3 DEF ToppleCase, Settled, Restages
      <4>2. CallOK(e, ToFail(p, "failed"))  BY PlainOK
      <4>3. AllOK(e, u)  BY <3>3, <4>2, OneCall DEF ToppleCase
      <4>4. QED  BY <4>1, <4>3, TouchesGives
    <3>4. QED  BY <2>2, <3>1, <3>2, <3>3
  <2>3. QED  BY <1>9, <2>1, <2>2 DEF ParentCase
<1>10. ASSUME c.method = "link", LinkCase(d, e, i, c.k, u) PROVE Gives(d, e, u)
  <2>1. Touches(d, e, {i})  BY <1>10 DEF LinkCase, RowSet, Restages
  <2>2. c.k \in Slots(d, i) /\ d.stages[i][c.k].kind = "subprocess"  BY <1>10 DEF CallOK, i
  <2>3. Child(d, i, c.k) \in Instances  BY <1>2, <2>2, ChildIs
  <2>4. CallOK(e, ToParent(Child(d, i, c.k)))  BY <2>3, PlainOK
  <2>5. AllOK(e, u)  BY <1>10, <2>4, OneCall DEF LinkCase
  <2>6. QED  BY <2>1, <2>5, TouchesGives
<1>11. ASSUME Synced(d, e, i), u = <<>> PROVE Gives(d, e, u)
  BY <1>11, NoCalls, TouchesGives DEF Synced
<1>12. ASSUME GiveBackCase(d, e, i, c.k, u) PROVE Gives(d, e, u)
  <2>1. ASSUME AgainCase(d, e, i, c.k, u) PROVE Gives(d, e, u)
    BY <2>1, NoCalls, TouchesGives DEF AgainCase, Restood
  <2>2. ASSUME GiveUpCase(d, e, i, c.k, u) PROVE Gives(d, e, u)
    <3>1. PICK b \in Db :
            /\ Restood(d, b, i, c.k, "failed", "compensating")
            /\ IF d.stages[i][c.k].of \in Slots(d, i) THEN RowSet(b, e, i, d.stages[i][c.k].of, "failed")
               ELSE e = b
      BY <2>2 DEF GiveUpCase
    <3>2. Touches(d, b, {i})  BY <3>1 DEF Restood
    <3>3. Touches(b, e, {i}) \/ e = b  BY <3>1 DEF RowSet, Restages
    <3>4. Touches(d, e, {i})
      <4>1. CASE e = b  BY <3>2, <4>1
      <4>2. CASE Touches(b, e, {i})
        <5>1. e \in Db  BY <4>2 DEF Touches
        <5>2. QED  BY <3>2, <4>2, <5>1, TouchesBoth
      <4>3. QED  BY <3>3, <4>1, <4>2
    <3>5. CallOK(e, ToCompensate(i))  BY <1>2, PlainOK
    <3>6. AllOK(e, u)  BY <2>2, <3>5, OneCall DEF GiveUpCase
    <3>7. QED  BY <3>4, <3>6, TouchesGives
  <2>3. ASSUME FailBackCase(d, e, i, c.k, u) PROVE Gives(d, e, u)
    <3>1. Touches(d, e, {i})  BY <2>3 DEF FailBackCase, StatusSet, Restages
    <3>2. AllOK(e, u)  BY <1>3, <2>3 DEF FailBackCase
    <3>3. QED  BY <3>1, <3>2, TouchesGives
  <2>4. QED  BY <1>12, <2>1, <2>2, <2>3 DEF GiveBackCase
<1>13. QED  BY <1>4, <1>5, <1>6, <1>7, <1>8, <1>9, <1>10, <1>11, <1>12 DEF CallCase, i

(***************************************************************************)
(* What the handlers change before they make their calls.                  *)
(***************************************************************************)
(* A stage ends; the run may be marked as running on the way.               *)
Ends(d, e, i, k, r, s) ==
  /\ Touches(d, e, {i})
  /\ e.inst[i] = d.inst[i] /\ e.run[i] \in {d.run[i], "running"} /\ e.error[i] = d.error[i]
  /\ e.ending[i] = d.ending[i] /\ e.token[i] = d.token[i] /\ Slots(e, i) = Slots(d, i)
  /\ \A m \in Slots(d, i) : m # k => e.stages[i][m] = d.stages[i][m]
  /\ Kept(d, e, i, k) /\ e.stages[i][k].row = r
  /\ e.stages[i][k].status = s /\ e.stages[i][k].lapsed = FALSE

LEMMA EndsPlain ==
  ASSUME NEW d \in Db, NEW i \in Instances, NEW k \in Slots(d, i), NEW s \in Ended
  PROVE  /\ Ends(d, SetStage(d, i, k, s), i, k, d.stages[i][k].row, s)
         /\ SetStage(d, i, k, s).run[i] = d.run[i]
<1> DEFINE e == SetStage(d, i, k, s)
<1>1. StatusSet(d, e, i, k, s)  BY StageEndIs
<1> HIDE DEF e
<1>2. Ends(d, e, i, k, d.stages[i][k].row, s)  BY <1>1 DEF StatusSet, Restages, Ends
<1>3. e.run[i] = d.run[i]  BY <1>1 DEF StatusSet, Restages
<1>4. QED  BY <1>2, <1>3 DEF e

(* The row is set after the status.                                         *)
LEMMA EndsRow ==
  ASSUME NEW d \in Db, NEW i \in Instances, NEW k \in Slots(d, i), NEW s \in Ended,
         NEW r \in RowValues \ {"waiting"}
  PROVE  Ends(d, SetRow(SetStage(d, i, k, s), i, k, r), i, k, r, s)
<1> DEFINE b == SetStage(d, i, k, s)
           e == SetRow(b, i, k, r)
<1>1. StatusSet(d, b, i, k, s)  BY StageEndIs
<1> HIDE DEF b
<1>2. b \in Db /\ k \in Slots(b, i)  BY <1>1 DEF StatusSet, Restages, Touches
<1>3. RowSet(b, e, i, k, r)  BY <1>2, RowSetIs
<1>4. e.stages[i][k].lapsed = FALSE
  <2>1. NoNewLapse(b, e) /\ Slots(e, i) = Slots(b, i)  BY <1>3 DEF RowSet, Restages, Touches
  <2>2. b.stages[i][k].lapsed = FALSE  BY <1>1 DEF StatusSet
  <2>3. e.stages[i][k].lapsed \in BOOLEAN
    <3>1. e \in Db  BY <1>3 DEF RowSet, Restages, Touches
    <3>2. e.stages[i][k] \in StageSet  BY <1>2, <2>1, <3>1, SlotsAre
    <3>3. QED  BY <3>2 DEF StageSet, StageType
  <2>4. ~e.stages[i][k].lapsed  BY <1>2, <2>1, <2>2 DEF NoNewLapse
  <2>5. QED  BY <2>3, <2>4
<1> HIDE DEF e
<1>5. e \in Db  BY <1>3 DEF RowSet, Restages, Touches
<1>6. Touches(d, e, {i})  BY <1>1, <1>2, <1>3, <1>5, TouchesBoth DEF RowSet, StatusSet, Restages
<1>7. Ends(d, e, i, k, r, s)  BY <1>1, <1>3, <1>4, <1>6 DEF Ends, RowSet, StatusSet, Restages, Kept
<1>8. QED  BY <1>7 DEF b, e

(* The run is marked as running after the status is set.                    *)
LEMMA EndsRunning ==
  ASSUME NEW d \in Db, NEW i \in Instances, NEW k \in Slots(d, i), NEW s \in Ended
  PROVE  Ends(d, [SetStage(d, i, k, s) EXCEPT !.run[i] = "running"], i, k, d.stages[i][k].row, s)
<1> DEFINE b == SetStage(d, i, k, s)
           e == [b EXCEPT !.run[i] = "running"]
<1>1. StatusSet(d, b, i, k, s)  BY StageEndIs
<1> HIDE DEF b
<1>2. b \in Db  BY <1>1 DEF StatusSet, Restages, Touches
<1>3. "running" \in InstStatus  BY DEF InstStatus, OpenInst
<1>4. /\ e \in Db /\ HeadOnly(b, e, i)
      /\ e.inst = b.inst /\ e.run[i] = "running" /\ e.ending = b.ending /\ e.error = b.error
  BY <1>2, <1>3, RunHead
<1> HIDE DEF e
<1>5. e.inst[i] = d.inst[i]  BY <1>1, <1>4 DEF StatusSet, Restages
<1>6. Touches(b, e, {i})
  <2>1. b.inst[i] # "absent" => e.inst[i] # "absent"  BY <1>4
  <2>2. QED  BY <1>2, <1>4, <2>1, HeadTouches
<1>7. Touches(d, e, {i})  BY <1>1, <1>2, <1>4, <1>6, TouchesBoth DEF StatusSet, Restages
<1>8. e.stages = b.stages /\ e.token = b.token /\ Slots(e, i) = Slots(b, i)  BY <1>4 DEF HeadOnly, Slots
<1>9. Ends(d, e, i, k, d.stages[i][k].row, s)
  BY <1>1, <1>4, <1>5, <1>7, <1>8 DEF Ends, StatusSet, Restages, Kept
<1>10. QED  BY <1>9 DEF b, e

(* A compensation ends, and with it the row of the stage it undoes.         *)
UndoEnds(d, e, i, k, s) ==
  \E b \in Db :
    /\ Ends(d, b, i, k, d.stages[i][k].row, s) /\ b.run[i] = d.run[i]
    /\ IF d.stages[i][k].of \in Slots(d, i) THEN RowSet(b, e, i, d.stages[i][k].of, s) ELSE e = b

LEMMA UndoEndsIs ==
  ASSUME NEW d \in Db, NEW i \in Instances, NEW k \in Slots(d, i), NEW s \in Ended
  PROVE  UndoEnds(d, SetRow(SetStage(d, i, k, s), i, d.stages[i][k].of, s), i, k, s)
<1> DEFINE b == SetStage(d, i, k, s)
           e == SetRow(b, i, d.stages[i][k].of, s)
<1>1. Ends(d, b, i, k, d.stages[i][k].row, s) /\ b.run[i] = d.run[i]  BY EndsPlain
<1> HIDE DEF b
<1>2. b \in Db /\ Slots(b, i) = Slots(d, i)  BY <1>1 DEF Ends, Touches
<1>3. s \in RowValues \ {"waiting"}  BY DEF RowValues, Ended
<1>4. ASSUME d.stages[i][k].of \in Slots(d, i) PROVE RowSet(b, e, i, d.stages[i][k].of, s)
  BY <1>2, <1>3, <1>4, RowSetIs
<1>5. ASSUME d.stages[i][k].of \notin Slots(d, i) PROVE e = b
  BY <1>2, <1>5, SetNoRow
<1> HIDE DEF e
<1>6. UndoEnds(d, e, i, k, s)  BY <1>1, <1>2, <1>4, <1>5 DEF UndoEnds
<1>7. QED  BY <1>6 DEF e, b

(* leaseNext: a worker takes stage k.                                       *)
LeaseCase(d, e, i, k) ==
  /\ d.stages[i][k].status = "queued" /\ d.run[i] \in {"queued", "running", "compensating"}
  /\ e \in Db /\ Others(d, e, i)
  /\ StandsAt(e, i, IF d.stages[i][k].kind = "compensation" THEN "compensating" ELSE "running")
  /\ e.error[i] = d.error[i] /\ e.ending[i] = d.ending[i] /\ e.token[i] = d.token[i]
  /\ e.moves = d.moves /\ Slots(e, i) = Slots(d, i)
  /\ \A m \in Slots(d, i) : m # k => e.stages[i][m] = d.stages[i][m]
  /\ Kept(d, e, i, k) /\ e.stages[i][k].row = d.stages[i][k].row
  /\ e.stages[i][k].status = "running" /\ e.stages[i][k].lapsed = FALSE

LeasedDb(d, i, k) == [SetStage(d, i, k, "running") EXCEPT !.stages[i][k].attempt = @ + 1]

LeasedSet(d, e, i, k) ==
  /\ e \in Db /\ Others(d, e, i)
  /\ e.error[i] = d.error[i] /\ e.ending[i] = d.ending[i] /\ e.token[i] = d.token[i]
  /\ e.moves = d.moves /\ Slots(e, i) = Slots(d, i)
  /\ \A m \in Slots(d, i) : m # k => e.stages[i][m] = d.stages[i][m]
  /\ Kept(d, e, i, k) /\ e.stages[i][k].row = d.stages[i][k].row
  /\ e.stages[i][k].status = "running" /\ e.stages[i][k].lapsed = FALSE

LEMMA LeasedIs ==
  ASSUME NEW d \in Db, NEW i \in Instances, NEW k \in Slots(d, i), d.stages[i][k].status = "queued"
  PROVE  LeasedSet(d, LeasedDb(d, i, k), i, k)
<1> DEFINE b == SetStage(d, i, k, "running")
           st == [b.stages[i][k] EXCEPT !.attempt = @ + 1]
           e == LeasedDb(d, i, k)
<1>1. "running" \in OpenStage \cup Ended /\ CanBe(d.stages[i][k], "running")
  BY DEF OpenStage, CanBe
<1>2. StatusSet(d, b, i, k, "running")  BY <1>1, StatusSetIs
<1>3. d.stages[i][k].attempt < MaxAttempts
  <2>1. d.stages[i][k] \in StageSet  BY SlotsAre
  <2>2. QED  BY <2>1 DEF StageSet, StageOK, OpenStage
<1>4. b \in Db /\ b.stages[i][k].attempt = d.stages[i][k].attempt /\ Slots(b, i) = Slots(d, i)
  BY <1>2 DEF StatusSet, Restages, Touches, Grows, GrowsAt
<1>5. LeasedDb(d, i, k) = Replace(b, i, [b.stages[i] EXCEPT ![k] = st])
  <2> HIDE DEF b
  <2>1. LeasedDb(d, i, k) = [b EXCEPT !.stages[i][k].attempt = @ + 1]  BY DEF LeasedDb, b
  <2>2. b.stages \in [Instances -> Seq(StageSet)]  BY <1>4 DEF Db
  <2>3. k \in DOMAIN b.stages[i]  BY <1>4 DEF Slots
  <2>4. QED  BY <1>4, <2>1, <2>2, <2>3 DEF Replace, Db
<1> HIDE DEF b
<1>6. b.stages[i][k] \in StageSet  BY <1>4, SlotsAre
<1>7. b.stages[i][k] \in StageType /\ StageOK(b.stages[i][k])  BY <1>6 DEF StageSet
<1>8. /\ st.node = b.stages[i][k].node /\ st.token = b.stages[i][k].token
      /\ st.kind = b.stages[i][k].kind /\ st.status = b.stages[i][k].status
      /\ st.row = b.stages[i][k].row /\ st.of = b.stages[i][k].of
      /\ st.lapsed = b.stages[i][k].lapsed
  BY <1>7 DEF StageType
<1>9. st \in StageType
  <2>1. b.stages[i][k].attempt + 1 \in 0..MaxAttempts
    <3>1. b.stages[i][k].attempt \in 0..MaxAttempts  BY <1>7 DEF StageType
    <3>2. QED  BY <1>4, <1>3, <3>1, LimitsAssumption
  <2>2. QED  BY <1>7, <2>1 DEF StageType
<1> HIDE DEF st
<1>10. st.status = "running"  BY <1>2, <1>8 DEF StatusSet
<1>11. st \in StageSet  BY <1>7, <1>8, <1>9, <1>10 DEF StageSet, StageOK
<1>12. LET f == Replace(b, i, [b.stages[i] EXCEPT ![k] = st])
       IN  /\ f \in Db /\ StagesOnly(b, f, i)
           /\ Slots(f, i) = Slots(b, i) /\ Len(f.stages[i]) = Len(b.stages[i])
           /\ \A m \in Slots(b, i) : m # k => f.stages[i][m] = b.stages[i][m]
           /\ f.stages[i][k] = st
  <2>1. k \in Slots(b, i)  BY <1>4
  <2>2. QED  BY <1>4, <1>11, <2>1, PutIs
<1>13. /\ e \in Db /\ StagesOnly(b, e, i) /\ Slots(e, i) = Slots(b, i)
       /\ \A m \in Slots(b, i) : m # k => e.stages[i][m] = b.stages[i][m]
       /\ e.stages[i][k] = st
  BY <1>5, <1>12
<1> HIDE DEF e
<1>14. Others(d, e, i) /\ e.moves = d.moves
  BY <1>2, <1>13 DEF StagesOnly, StatusSet, Restages, Touches, Others, Same
<1>15. LeasedSet(d, e, i, k)
  BY <1>2, <1>4, <1>8, <1>13, <1>14 DEF LeasedSet, StagesOnly, StatusSet, Restages, Kept
<1>16. QED  BY <1>15 DEF e

LEMMA LeaseIs ==
  ASSUME db \in Db, NEW i \in Instances, NEW k \in Slots(db, i), Lease(i, k)
  PROVE  LeaseCase(db, db', i, k)
<1> DEFINE b == LeasedDb(db, i, k)
           at == IF db.stages[i][k].kind = "compensation" THEN "compensating" ELSE "running"
           e == Stand(b, i, at)
<1>1. db.stages[i][k].status = "queued" /\ db.run[i] \in {"queued", "running", "compensating"}
      /\ db' = e
  BY DEF Lease, LeasedDb
<1>2. LeasedSet(db, b, i, k)  BY <1>1, LeasedIs
<1>3. at \in InstStatus \ {"absent"}  BY DEF InstStatus, OpenInst
<1> HIDE DEF b, at
<1>4. HeadOnly(b, e, i) /\ StandsAt(e, i, at) /\ e.ending = b.ending /\ e.error = b.error /\ e \in Db
  BY <1>2, <1>3, StandTouches DEF Touches, LeasedSet
<1> HIDE DEF e
<1>5. Others(db, e, i)  BY <1>2, <1>4 DEF LeasedSet, HeadOnly, Others, Same
<1>6. LeaseCase(db, e, i, k)
  BY <1>1, <1>2, <1>4, <1>5 DEF LeaseCase, LeasedSet, HeadOnly, Kept, Slots, at
<1>7. QED  BY <1>1, <1>6

(***************************************************************************)
(* The other handlers.                                                     *)
(***************************************************************************)
(* A running stage's lease lapses.                                          *)
LapseCase(d, e, i, k) ==
  /\ d.stages[i][k].status = "running"
  /\ LapseTogether \/ \A j \in Instances : \A m \in Slots(d, j) : ~d.stages[j][m].lapsed
  /\ e \in Db /\ Others(d, e, i)
  /\ e.inst[i] = d.inst[i] /\ e.run[i] = d.run[i]
  /\ e.error[i] = d.error[i] /\ e.ending[i] = d.ending[i] /\ e.token[i] = d.token[i]
  /\ e.moves = d.moves /\ Slots(e, i) = Slots(d, i)
  /\ \A m \in Slots(d, i) : m # k => e.stages[i][m] = d.stages[i][m]
  /\ Kept(d, e, i, k) /\ e.stages[i][k].row = d.stages[i][k].row
  /\ e.stages[i][k].status = "running"

LEMMA LapseIs ==
  ASSUME db \in Db, NEW i \in Instances, NEW k \in Slots(db, i), Lapse(i, k)
  PROVE  LapseCase(db, db', i, k)
<1> DEFINE st == [db.stages[i][k] EXCEPT !.lapsed = TRUE]
           e == Replace(db, i, [db.stages[i] EXCEPT ![k] = st])
<1>1. /\ db.stages[i][k].status = "running"
      /\ \A j \in Instances : \A m \in Slots(db, j) : db.stages[j][m].lapsed => LapseTogether
      /\ db' = [db EXCEPT !.stages[i][k].lapsed = TRUE]
  BY DEF Lapse, Leased
<1>2. db.stages[i][k] \in StageSet  BY SlotsAre
<1>3. db.stages[i][k] \in StageType /\ StageOK(db.stages[i][k])  BY <1>2 DEF StageSet
<1>4. /\ st.node = db.stages[i][k].node /\ st.token = db.stages[i][k].token
      /\ st.kind = db.stages[i][k].kind /\ st.status = db.stages[i][k].status
      /\ st.row = db.stages[i][k].row /\ st.of = db.stages[i][k].of
      /\ st.attempt = db.stages[i][k].attempt
  BY <1>3 DEF StageType
<1>5. st \in StageType  BY <1>3 DEF StageType
<1>6. db' = e
  <2>1. db.stages \in [Instances -> Seq(StageSet)]  BY DEF Db
  <2>2. k \in DOMAIN db.stages[i]  BY DEF Slots
  <2>3. QED  BY <1>1, <2>1, <2>2 DEF Replace, Db
<1> HIDE DEF st
<1>7. st \in StageSet  BY <1>1, <1>3, <1>4, <1>5 DEF StageSet, StageOK
<1>8. /\ e \in Db /\ StagesOnly(db, e, i)
      /\ Slots(e, i) = Slots(db, i)
      /\ \A m \in Slots(db, i) : m # k => e.stages[i][m] = db.stages[i][m]
      /\ e.stages[i][k] = st
  BY <1>7, PutIs
<1> HIDE DEF e
<1>9. Others(db, e, i)  BY <1>8 DEF StagesOnly, Others, Same
<1>10. LapseTogether \/ \A j \in Instances : \A m \in Slots(db, j) : ~db.stages[j][m].lapsed
  BY <1>1
<1>11. LapseCase(db, e, i, k)
  BY <1>1, <1>4, <1>8, <1>9, <1>10 DEF LapseCase, StagesOnly, Kept
<1>12. QED  BY <1>6, <1>11

(* An approved agent step joins the queue.                                  *)
ApproveCase(d, e, i, k) ==
  /\ d.stages[i][k].status = "waiting_approval"
  /\ Touches(d, e, {i})
  /\ e.inst[i] \in {"queued", "running"} /\ e.run[i] = e.inst[i]
  /\ e.error[i] = d.error[i] /\ e.ending[i] = d.ending[i] /\ e.token[i] = d.token[i]
  /\ Slots(e, i) = Slots(d, i)
  /\ \A m \in Slots(d, i) : m # k => e.stages[i][m] = d.stages[i][m]
  /\ Kept(d, e, i, k) /\ e.stages[i][k].row = d.stages[i][k].row
  /\ e.stages[i][k].status = "queued" /\ e.stages[i][k].lapsed = FALSE

SetHead(d, i, r, s) == [d EXCEPT !.run[i] = r, !.inst[i] = s]

LEMMA SetHeadIs ==
  ASSUME NEW d \in Db, NEW i \in Instances, NEW r \in InstStatus, NEW s \in InstStatus \ {"absent"}
  PROVE  /\ Touches(d, SetHead(d, i, r, s), {i}) /\ HeadOnly(d, SetHead(d, i, r, s), i)
         /\ SetHead(d, i, r, s).inst[i] = s /\ SetHead(d, i, r, s).run[i] = r
         /\ SetHead(d, i, r, s).ending = d.ending /\ SetHead(d, i, r, s).error = d.error
<1> DEFINE b == [d EXCEPT !.run[i] = r]
           q == [b.inst EXCEPT ![i] = s]
           e == SetHead(d, i, r, s)
<1>1. /\ b \in Db /\ HeadOnly(d, b, i)
      /\ b.inst = d.inst /\ b.run[i] = r /\ b.ending = d.ending /\ b.error = d.error
  BY RunHead
<1>2. e = [b EXCEPT !.inst[i] = s]  BY DEF SetHead
<1> HIDE DEF b
<1>3. b.inst \in [Instances -> InstStatus]  BY <1>1 DEF Db
<1>4. q \in [Instances -> InstStatus] /\ q[i] = s /\ \A j \in Instances \ {i} : q[j] = b.inst[j]
  BY <1>3
<1>5. e = [b EXCEPT !.inst = q]  BY <1>1, <1>2 DEF Db
<1> HIDE DEF q, e
<1>6. e \in Db /\ HeadOnly(b, e, i) /\ e.inst[i] = s /\ e.run = b.run /\ e.ending = b.ending /\ e.error = b.error
  BY <1>1, <1>4, <1>5 DEF HeadOnly, Db
<1>7. HeadOnly(d, e, i)  BY <1>1, <1>6 DEF HeadOnly
<1>8. e.inst[i] # "absent"  BY <1>6
<1>9. Touches(d, e, {i})  BY <1>6, <1>7, <1>8, HeadTouches
<1>10. QED  BY <1>1, <1>6, <1>7, <1>9 DEF e

LEMMA ApproveIs ==
  ASSUME db \in Db, NEW i \in Instances, NEW k \in Slots(db, i),
         db.stages[i][k].status = "waiting_approval",
         db' = Sync([SetStage(db, i, k, "queued") EXCEPT !.run[i] = "running", !.inst[i] = "queued"], i)
  PROVE  ApproveCase(db, db', i, k)
<1> DEFINE a == SetStage(db, i, k, "queued")
           b == SetHead(a, i, "running", "queued")
           e == Sync(b, i)
<1>1. db' = e  BY DEF SetHead
<1>2. StatusSet(db, a, i, k, "queued")
  <2>1. db.stages[i][k] \in StageSet  BY SlotsAre
  <2>2. db.stages[i][k].attempt < MaxAttempts  BY <2>1 DEF StageSet, StageOK, OpenStage
  <2>3. CanBe(db.stages[i][k], "queued")  BY <2>2 DEF CanBe
  <2>4. "queued" \in OpenStage \cup Ended  BY DEF OpenStage
  <2>5. QED  BY <2>3, <2>4, StatusSetIs
<1> HIDE DEF a
<1>3. a \in Db  BY <1>2 DEF StatusSet, Restages, Touches
<1>4. "running" \in InstStatus /\ "queued" \in InstStatus \ {"absent"}  BY DEF InstStatus, OpenInst
<1>5. /\ Touches(a, b, {i}) /\ HeadOnly(a, b, i) /\ b.inst[i] = "queued"
      /\ b.ending = a.ending /\ b.error = a.error
  BY <1>3, <1>4, SetHeadIs
<1> HIDE DEF b
<1>6. b \in Db  BY <1>5 DEF Touches
<1>7. Synced(b, e, i)  BY <1>6, SyncedIs
<1> HIDE DEF e
<1>8. b.stages = a.stages /\ b.token = a.token  BY <1>5 DEF HeadOnly
<1>9. e.stages[i] = a.stages[i] /\ e.token[i] = db.token[i] /\ e.error[i] = db.error[i]
      /\ e.ending[i] = db.ending[i]
  BY <1>2, <1>5, <1>7, <1>8 DEF Synced, StatusSet, Restages
<1>10. e.inst[i] \in {"queued", "running"} /\ e.run[i] = e.inst[i]
  <2>1. b.inst[i] \in OpenInst /\ b.inst[i] \notin Ended \cup {"compensating"}
    BY <1>5 DEF OpenInst, Ended
  <2>2. k \in InStatus(b, i, {"queued", "running"})
    BY <1>2, <1>8 DEF StatusSet, Restages, InStatus, Slots
  <2>3. QED  BY <1>7, <2>1, <2>2 DEF Synced
<1>11. Touches(db, e, {i})
  <2>1. Touches(db, a, {i}) /\ Touches(b, e, {i}) /\ e \in Db
    BY <1>2, <1>7 DEF StatusSet, Restages, Synced, Touches
  <2>2. Touches(db, b, {i})  BY <1>3, <1>5, <1>6, <2>1, TouchesBoth
  <2>3. QED  BY <1>6, <2>1, <2>2, TouchesBoth
<1>12. ApproveCase(db, e, i, k)
  BY <1>2, <1>9, <1>10, <1>11 DEF ApproveCase, StatusSet, Restages, Kept, Slots
<1>13. QED  BY <1>1, <1>12

(* The lapsed stages are finitely many.                                     *)
LEMMA LapsedFinite ==
  ASSUME db \in Db
  PROVE  IsFiniteSet(LapsedStages)
<1> DEFINE cells(i) == {i} \X Slots(db, i)
           T == {cells(i) : i \in Instances}
           f == [i \in Instances |-> cells(i)]
<1>1. IsFiniteSet(T)
  <2>1. f \in Surjection(Instances, T)  BY DEF Surjection
  <2>2. QED  BY <2>1, InstancesAssumption, FS_Surjection
<1>2. ASSUME NEW S \in T PROVE IsFiniteSet(S)
  <2>1. PICK i \in Instances : S = {i} \X Slots(db, i)  BY <1>2
  <2>2. Len(db.stages[i]) \in Nat /\ Slots(db, i) = 1..Len(db.stages[i])  BY SlotsAre
  <2>3. IsFiniteSet(Slots(db, i))
    <3> DEFINE L == Len(db.stages[i])
    <3>1. L \in Int /\ 1 \in Int  BY <2>2
    <3> HIDE DEF L
    <3>2. IsFiniteSet(1..L)  BY <3>1, FS_Interval
    <3>3. QED  BY <2>2, <3>2 DEF L
  <2>4. IsFiniteSet({i})  BY FS_Singleton
  <2>5. QED  BY <2>1, <2>3, <2>4, FS_Product
<1>3. IsFiniteSet(UNION T)  BY <1>1, <1>2, FS_UNION
<1>4. LapsedStages \in SUBSET UNION T  BY DEF LapsedStages
<1>5. QED  BY <1>3, <1>4, FS_Subset

(***************************************************************************)
(* Every step of the system is one of these: it changes the database and   *)
(* makes its calls, or it makes none.                                      *)
(***************************************************************************)
Lapsed(d, i, k) == k \in Slots(d, i) /\ d.stages[i][k].lapsed
Lone(d) ==
  \A i, j \in Instances : \A k, m : Lapsed(d, i, k) /\ Lapsed(d, j, m) => i = j /\ k = m

(* The row of a stage that is completed by somebody outside.                *)
GoRow(st, r) ==
  \/ st.status = "running" /\ r = (IF st.node \in Compensated THEN "armed" ELSE st.row)
  \/ st.status \in {"queued", "waiting_approval"} /\ st.kind \in {"wait", "approval"} /\ r = st.row
  \/ st.status = "waiting_external" /\ st.row = "waiting" /\ r = "delivered"

StartH(d, e, u) ==
  \E i \in Instances :
    /\ i \notin Children /\ d.inst[i] = "absent"
    /\ Started(d, e, i) /\ u = <<ToAdvance(i, Root, StartOf[i])>>
CancelH(d, e, u) ==
  Still(d, e) /\ \E i \in Instances : d.inst[i] \in OpenInst /\ u = <<ToFail(i, "cancelled")>>
GoH(d, e, u) ==
  \E i \in Instances : \E k \in Slots(d, i) : \E r :
    /\ GoRow(d.stages[i][k], r) /\ d.stages[i][k].kind # "compensation"
    /\ Ends(d, e, i, k, r, "completed")
    /\ u = <<ToAdvance(i, d.stages[i][k].token, To(d.stages[i][k].node)[1]), ToSync(i)>>
UndoneH(d, e, u) ==
  \E i \in Instances : \E k \in Slots(d, i) :
    /\ d.stages[i][k].kind = "compensation" /\ d.stages[i][k].status = "running"
    /\ UndoEnds(d, e, i, k, "completed") /\ u = <<ToCompensate(i)>>
BreakH(d, e, u) ==
  \E i \in Instances : \E k \in Slots(d, i) : \E r : \E s \in {"failed", "cancelled"} :
    /\ d.stages[i][k].status \in OpenStage
    /\ \/ d.stages[i][k].status = "running" /\ d.stages[i][k].node \in Contracted /\ r = d.stages[i][k].row
       \/ d.stages[i][k].status = "waiting_approval" /\ r = d.stages[i][k].row
       \/ d.stages[i][k].row = "waiting" /\ r = "expired"
    /\ Ends(d, e, i, k, r, s) /\ u = <<ToFail(i, s)>>
LateH(d, e, u) ==
  \E i \in Instances : \E k \in Slots(d, i) :
    /\ d.stages[i][k].row = "waiting" /\ d.stages[i][k].status # "waiting_external"
    /\ RowSet(d, e, i, k, "expired") /\ u = <<ToFail(i, "failed")>>
GiveH(d, e, u) ==
  Still(d, e) /\ \E i \in Instances : \E k \in Slots(d, i) : \E again \in BOOLEAN :
    /\ d.stages[i][k].status = "running" /\ (again => HasAttempt(d.stages[i][k]))
    /\ u = <<ToGiveBack(i, k, again)>>
SweepH(d, e, u) == Still(d, e) /\ AllOK(d, u) /\ (Lone(d) => GiveH(d, e, u))

(* enforceRunIdentities, for the instance i.                                *)
Revokes(d, e, u, i) ==
  \/ d.inst[i] \in OpenInst /\ LetGoes(d, e, i) /\ u = <<ToFail(i, "cancelled")>>
  \/ d.inst[i] = "compensating" /\ \E a : LetGoes(d, a, i) /\ FinalCase(a, e, i, "cancelled", u)
RevokeH(d, e, u) == \E i \in Instances : Revokes(d, e, u, i)

Handled(d, e, u) ==
  \/ StartH(d, e, u) \/ CancelH(d, e, u) \/ GoH(d, e, u) \/ UndoneH(d, e, u)
  \/ BreakH(d, e, u) \/ LateH(d, e, u) \/ GiveH(d, e, u) \/ SweepH(d, e, u)
Begins(d, e, u) == Handled(d, e, u) \/ RevokeH(d, e, u)

(* Who is stopped for good by such a beginning.                             *)
Blocks(e, u) ==
  \/ Handled(db, e, u) /\ blocked' = blocked
  \/ \E i \in Instances : Revokes(db, e, u, i) /\ blocked' = blocked \cup {i}

HandledStep == \E e, u, w : Handled(db, e, u) /\ Tame(w) /\ Carry(e, u, w)
CallsStep == \E e, u, w : Begins(db, e, u) /\ Blocks(e, u) /\ Tame(w) /\ Carry(e, u, w)
PlainCase ==
  \E i \in Instances : \E k \in Slots(db, i) :
    LeaseCase(db, db', i, k) \/ LapseCase(db, db', i, k) \/ ApproveCase(db, db', i, k)
PlainStep == PlainCase /\ blocked' = blocked

LEMMA WorldsTame ==
  ASSUME NEW S, NEW w \in Worlds(S)
  PROVE  Tame(w)
BY DEF Worlds, Tame

LEMMA GoOnIs ==
  ASSUME NEW e, NEW i, NEW k, NEW w, NEW d \in Db, GoOn(e, i, k, w),
         k \in Slots(d, i), NEW r, NEW s, Ends(d, e, i, k, r, s)
  PROVE  Carry(e, <<ToAdvance(i, d.stages[i][k].token, To(d.stages[i][k].node)[1]), ToSync(i)>>, w)
<1>1. e.stages[i][k].token = d.stages[i][k].token /\ e.stages[i][k].node = d.stages[i][k].node
  BY DEF Ends, Kept
<1>2. Carry(e, <<ToAdvance(i, e.stages[i][k].token, To(e.stages[i][k].node)[1]), ToSync(i)>>, w)
  BY DEF GoOn
<1>3. QED  BY <1>1, <1>2

LEMMA StartHIs ==
  ASSUME db \in Db, NEW i \in Instances, NEW w, Tame(w), Start(i, w)
  PROVE  HandledStep
<1>1. i \notin Children /\ db.inst[i] = "absent" /\ Carry(StartProcess(db, i).db, StartProcess(db, i).todo, w)
  BY DEF Start
<1>2. /\ StartProcess(db, i) = Do(StartedDb(db, i), <<ToAdvance(i, Root, StartOf[i])>>)
      /\ Started(db, StartedDb(db, i), i)
  BY StartsIs
<1>3. Carry(StartedDb(db, i), <<ToAdvance(i, Root, StartOf[i])>>, w)  BY <1>1, <1>2 DEF Do
<1>4. StartH(db, StartedDb(db, i), <<ToAdvance(i, Root, StartOf[i])>>)  BY <1>1, <1>2 DEF StartH
<1>5. QED  BY <1>3, <1>4 DEF HandledStep, Handled

LEMMA CancelHIs ==
  ASSUME db \in Db, NEW i \in Instances, NEW w, Tame(w), Cancel(i, w)
  PROVE  HandledStep
<1>1. db.inst[i] \in OpenInst /\ Carry(db, <<ToFail(i, "cancelled")>>, w)  BY DEF Cancel
<1>2. CancelH(db, db, <<ToFail(i, "cancelled")>>)  BY <1>1, StillIs DEF CancelH
<1>3. QED  BY <1>1, <1>2 DEF HandledStep, Handled

LEMMA GoHIs ==
  ASSUME db \in Db, NEW i \in Instances, NEW k \in Slots(db, i), NEW w, Tame(w), NEW e, NEW r,
         GoRow(db.stages[i][k], r), db.stages[i][k].kind # "compensation",
         Ends(db, e, i, k, r, "completed"), GoOn(e, i, k, w)
  PROVE  HandledStep
<1> DEFINE u == <<ToAdvance(i, db.stages[i][k].token, To(db.stages[i][k].node)[1]), ToSync(i)>>
<1>1. Carry(e, u, w)  BY GoOnIs
<1>2. GoH(db, e, u)  BY DEF GoH
<1>3. Handled(db, e, u)  BY <1>2 DEF Handled
<1> HIDE DEF u
<1>4. QED  BY <1>1, <1>3 DEF HandledStep

LEMMA CompleteLeaseIs ==
  ASSUME db \in Db, NEW i \in Instances, NEW k \in Slots(db, i), NEW w, Tame(w), CompleteLease(i, k, w)
  PROVE  HandledStep
<1> DEFINE st == db.stages[i][k]
           done == SetStage(db, i, k, "completed")
<1>1. st.status = "running"  BY DEF CompleteLease, Leased
<1>2. "completed" \in Ended /\ "armed" \in RowValues \ {"waiting"}  BY DEF Ended, RowValues
<1>3. CASE st.kind = "compensation"
  <2> DEFINE e == SetRow(done, i, st.of, "completed")
  <2>1. Carry(e, <<ToCompensate(i)>>, w)  BY <1>3 DEF CompleteLease
  <2>2. UndoEnds(db, e, i, k, "completed")  BY <1>2, UndoEndsIs
  <2> HIDE DEF e
  <2>3. UndoneH(db, e, <<ToCompensate(i)>>)  BY <1>1, <1>3, <2>2 DEF UndoneH
  <2>4. QED  BY <2>1, <2>3 DEF HandledStep, Handled
<1>4. CASE st.kind # "compensation" /\ st.node \in Compensated
  <2> DEFINE e == SetRow(done, i, k, "armed")
  <2>1. GoOn(e, i, k, w)  BY <1>4 DEF CompleteLease
  <2>2. Ends(db, e, i, k, "armed", "completed")  BY <1>2, EndsRow
  <2> HIDE DEF e
  <2>3. GoRow(st, "armed")  BY <1>1, <1>4 DEF GoRow
  <2>4. QED  BY <1>4, <2>1, <2>2, <2>3, GoHIs
<1>5. CASE st.kind # "compensation" /\ st.node \notin Compensated
  <2>1. GoOn(done, i, k, w)  BY <1>5 DEF CompleteLease
  <2>2. Ends(db, done, i, k, st.row, "completed")  BY <1>2, EndsPlain
  <2> HIDE DEF done
  <2>3. GoRow(st, st.row)  BY <1>1, <1>5 DEF GoRow
  <2>4. QED  BY <1>5, <2>1, <2>2, <2>3, GoHIs
<1>6. QED  BY <1>3, <1>4, <1>5

LEMMA BreakHIs ==
  ASSUME db \in Db, NEW i \in Instances, NEW k \in Slots(db, i), NEW w, Tame(w), NEW e, NEW r,
         NEW s \in {"failed", "cancelled"}, db.stages[i][k].status \in OpenStage,
         \/ db.stages[i][k].status = "running" /\ db.stages[i][k].node \in Contracted /\ r = db.stages[i][k].row
         \/ db.stages[i][k].status = "waiting_approval" /\ r = db.stages[i][k].row
         \/ db.stages[i][k].row = "waiting" /\ r = "expired",
         Ends(db, e, i, k, r, s), Carry(e, <<ToFail(i, s)>>, w)
  PROVE  HandledStep
<1>1. BreakH(db, e, <<ToFail(i, s)>>)  BY DEF BreakH
<1>2. QED  BY <1>1 DEF HandledStep, Handled

LEMMA RejectOutputIs ==
  ASSUME db \in Db, NEW i \in Instances, NEW k \in Slots(db, i), NEW w, Tame(w), RejectOutput(i, k, w)
  PROVE  HandledStep
<1> DEFINE e == SetStage(db, i, k, "failed")
<1>1. db.stages[i][k].status = "running" /\ db.stages[i][k].node \in Contracted /\ Carry(e, <<ToFail(i, "failed")>>, w)
  BY DEF RejectOutput, Leased
<1>2. "failed" \in Ended /\ "failed" \in {"failed", "cancelled"} /\ "running" \in OpenStage  BY DEF Ended, OpenStage
<1>3. Ends(db, e, i, k, db.stages[i][k].row, "failed")  BY <1>2, EndsPlain
<1> HIDE DEF e
<1>4. QED  BY <1>1, <1>2, <1>3, BreakHIs

LEMMA RejectIs ==
  ASSUME db \in Db, NEW i \in Instances, NEW k \in Slots(db, i), NEW w, Tame(w), Reject(i, k, w)
  PROVE  HandledStep
<1> DEFINE e == SetStage(db, i, k, "cancelled")
<1>1. db.stages[i][k].status = "waiting_approval" /\ Carry(e, <<ToFail(i, "cancelled")>>, w)
  BY DEF Reject
<1>2. "cancelled" \in Ended /\ "cancelled" \in {"failed", "cancelled"} /\ "waiting_approval" \in OpenStage
  BY DEF Ended, OpenStage
<1>3. Ends(db, e, i, k, db.stages[i][k].row, "cancelled")  BY <1>2, EndsPlain
<1> HIDE DEF e
<1>4. QED  BY <1>1, <1>2, <1>3, BreakHIs

LEMMA ExpireSignalIs ==
  ASSUME db \in Db, NEW i \in Instances, NEW k \in Slots(db, i), NEW w, Tame(w), ExpireSignal(i, k, w)
  PROVE  HandledStep
<1> DEFINE late == SetRow(db, i, k, "expired")
           u == <<ToFail(i, "failed")>>
<1>1. db.stages[i][k].row = "waiting"  BY DEF ExpireSignal
<1>2. "expired" \in RowValues \ {"waiting"} /\ "failed" \in Ended /\ "failed" \in {"failed", "cancelled"}
  BY DEF RowValues, Ended
<1>3. RowSet(db, late, i, k, "expired")  BY <1>2, RowSetIs
<1>4. late.stages[i][k].status = db.stages[i][k].status  BY <1>3 DEF RowSet
<1>5. CASE db.stages[i][k].status = "waiting_external"
  <2> DEFINE e == SetStage(late, i, k, "failed")
  <2>1. Carry(e, u, w)  BY <1>5 DEF ExpireSignal
  <2>2. Settled(db, e, i, k, "expired", "failed")  BY <1>2, SettledThen
  <2> HIDE DEF e, late
  <2>3. Ends(db, e, i, k, "expired", "failed")  BY <2>2 DEF Ends, Settled, Restages
  <2>4. "waiting_external" \in OpenStage  BY DEF OpenStage
  <2>5. QED  BY <1>1, <1>2, <1>5, <2>1, <2>3, <2>4, BreakHIs
<1>6. CASE db.stages[i][k].status # "waiting_external"
  <2>1. Carry(late, u, w)  BY <1>6 DEF ExpireSignal
  <2> HIDE DEF late
  <2>2. LateH(db, late, u)  BY <1>1, <1>3, <1>6 DEF LateH
  <2>3. QED  BY <2>1, <2>2 DEF HandledStep, Handled
<1>7. QED  BY <1>5, <1>6

LEMMA RetriesAre ==
  ASSUME NEW st, NEW again \in Retries(st)
  PROVE  again \in BOOLEAN /\ (again => HasAttempt(st))
<1>1. again = HasAttempt(st) \/ again = FALSE
  <2>1. \/ again \in {st.attempt < MaxAttempts}
        \/ again \in (IF st.kind = "agent" THEN {FALSE} ELSE {})
    BY DEF Retries
  <2>2. CASE again \in {st.attempt < MaxAttempts}  BY <2>2 DEF HasAttempt
  <2>3. CASE again \in (IF st.kind = "agent" THEN {FALSE} ELSE {})  BY <2>3
  <2>4. QED  BY <2>1, <2>2, <2>3
<1>2. HasAttempt(st) \in BOOLEAN  BY DEF HasAttempt
<1>3. QED  BY <1>1, <1>2

LEMMA FailLeaseIs ==
  ASSUME db \in Db, NEW i \in Instances, NEW k \in Slots(db, i), NEW w, Tame(w), FailLease(i, k, w)
  PROVE  HandledStep
<1>1. PICK again \in Retries(db.stages[i][k]) : Carry(db, <<ToGiveBack(i, k, again)>>, w)
  BY DEF FailLease
<1>2. db.stages[i][k].status = "running"  BY DEF FailLease, Leased
<1>3. again \in BOOLEAN /\ (again => HasAttempt(db.stages[i][k]))  BY RetriesAre
<1>4. GiveH(db, db, <<ToGiveBack(i, k, again)>>)  BY <1>2, <1>3, StillIs DEF GiveH
<1>5. QED  BY <1>1, <1>4 DEF HandledStep, Handled

LEMMA DueWaitIs ==
  ASSUME db \in Db, NEW i \in Instances, NEW k \in Slots(db, i), NEW w, Tame(w), DueWait(i, k, w)
  PROVE  HandledStep
<1> DEFINE e == [SetStage(db, i, k, "completed") EXCEPT !.run[i] = "running"]
<1>1. db.stages[i][k].kind = "wait" /\ db.stages[i][k].status = "queued" /\ GoOn(e, i, k, w)
  BY DEF DueWait
<1>2. "completed" \in Ended  BY DEF Ended
<1>3. Ends(db, e, i, k, db.stages[i][k].row, "completed")  BY <1>2, EndsRunning
<1> HIDE DEF e
<1>4. GoRow(db.stages[i][k], db.stages[i][k].row)  BY <1>1 DEF GoRow
<1>5. QED  BY <1>1, <1>3, <1>4, GoHIs

LEMMA SignalIs ==
  ASSUME db \in Db, NEW i \in Instances, NEW k \in Slots(db, i), NEW w, Tame(w), Signal(i, k, w)
  PROVE  HandledStep
<1> DEFINE e == SetRow(SetStage(db, i, k, "completed"), i, k, "delivered")
<1>1. db.stages[i][k].row = "waiting" /\ db.stages[i][k].status = "waiting_external" /\ GoOn(e, i, k, w)
  BY DEF Signal
<1>2. "completed" \in Ended /\ "delivered" \in RowValues \ {"waiting"}  BY DEF Ended, RowValues
<1>3. Ends(db, e, i, k, "delivered", "completed")  BY <1>2, EndsRow
<1> HIDE DEF e
<1>4. GoRow(db.stages[i][k], "delivered")  BY <1>1 DEF GoRow
<1>5. db.stages[i][k].kind # "compensation"
  <2>1. db.stages[i][k] \in StageSet  BY SlotsAre
  <2>2. QED  BY <1>1, <2>1 DEF StageSet, StageOK
<1>6. QED  BY <1>1, <1>3, <1>4, <1>5, GoHIs

LEMMA ApproveHIs ==
  ASSUME db \in Db, NEW i \in Instances, NEW k \in Slots(db, i), NEW w, Tame(w), Approve(i, k, w)
  PROVE  HandledStep \/ PlainCase
<1> DEFINE e == [SetStage(db, i, k, "completed") EXCEPT !.run[i] = "running"]
<1>1. db.stages[i][k].status = "waiting_approval"  BY DEF Approve
<1>2. CASE db.stages[i][k].kind = "approval"
  <2>1. GoOn(e, i, k, w)  BY <1>2 DEF Approve
  <2>2. "completed" \in Ended  BY DEF Ended
  <2>3. Ends(db, e, i, k, db.stages[i][k].row, "completed")  BY <2>2, EndsRunning
  <2> HIDE DEF e
  <2>4. GoRow(db.stages[i][k], db.stages[i][k].row)  BY <1>1, <1>2 DEF GoRow
  <2>5. HandledStep  BY <1>2, <2>1, <2>3, <2>4, GoHIs
  <2>6. QED  BY <2>5
<1>3. CASE db.stages[i][k].kind # "approval"
  <2>1. db' = Sync([SetStage(db, i, k, "queued") EXCEPT !.run[i] = "running", !.inst[i] = "queued"], i)
    BY <1>3 DEF Approve
  <2>2. ApproveCase(db, db', i, k)  BY <1>1, <2>1, ApproveIs
  <2>3. PlainCase  BY <2>2 DEF PlainCase
  <2>4. QED  BY <2>3
<1>4. QED  BY <1>2, <1>3

(* cleanupExpiredLeases.                                                    *)
LEMMA SweepIs ==
  ASSUME db \in Db, NEW w, Tame(w), Sweep(w)
  PROVE  HandledStep
<1>0. PICK order \in SetToSeqs(LapsedStages) : \E again \in [DOMAIN order -> BOOLEAN] :
         /\ \A x \in DOMAIN order : again[x] \in Retries(db.stages[order[x][1]][order[x][2]])
         /\ Carry(db, [x \in DOMAIN order |-> ToGiveBack(order[x][1], order[x][2], again[x])], w)
  BY DEF Sweep
<1>1. PICK again \in [DOMAIN order -> BOOLEAN] :
         /\ \A x \in DOMAIN order : again[x] \in Retries(db.stages[order[x][1]][order[x][2]])
         /\ Carry(db, [x \in DOMAIN order |-> ToGiveBack(order[x][1], order[x][2], again[x])], w)
  BY <1>0
<1> DEFINE u == [x \in DOMAIN order |-> ToGiveBack(order[x][1], order[x][2], again[x])]
           N == Cardinality(LapsedStages)
<1>2. N \in Nat  BY LapsedFinite, FS_CardinalityType
<1>3. order \in [1..N -> LapsedStages]  BY DEF SetToSeqs
<1> HIDE DEF N
<1>4. DOMAIN order = 1..N /\ \A x \in 1..N : order[x] \in LapsedStages  BY <1>3
<1>5. ASSUME NEW l \in LapsedStages
      PROVE  /\ l[1] \in Instances /\ l[2] \in Slots(db, l[1]) /\ Lapsed(db, l[1], l[2])
             /\ db.stages[l[1]][l[2]].status = "running" /\ l[2] \in Nat
             /\ l = <<l[1], l[2]>>
  <2>1. l[1] \in Instances /\ l[2] \in Slots(db, l[1]) /\ db.stages[l[1]][l[2]].lapsed /\ l = <<l[1], l[2]>>
    BY DEF LapsedStages
  <2>2. db.stages[l[1]][l[2]] \in StageSet /\ l[2] \in Nat  BY <2>1, SlotsAre
  <2>3. QED  BY <2>1, <2>2 DEF StageSet, StageOK, Lapsed
<1>6. ASSUME NEW x \in 1..N
      PROVE  again[x] \in BOOLEAN /\ (again[x] => HasAttempt(db.stages[order[x][1]][order[x][2]]))
  BY <1>1, <1>4, <1>6, RetriesAre
<1>7. ASSUME NEW x \in 1..N
      PROVE  CallOK(db, ToGiveBack(order[x][1], order[x][2], again[x]))
  <2> DEFINE c == ToGiveBack(order[x][1], order[x][2], again[x])
  <2>1. order[x] \in LapsedStages  BY <1>4, <1>7
  <2>2. order[x][1] \in Instances /\ order[x][2] \in Slots(db, order[x][1]) /\ order[x][2] \in Nat
    BY <1>5, <2>1
  <2>3. again[x] \in BOOLEAN /\ (again[x] => HasAttempt(db.stages[order[x][1]][order[x][2]]))
    BY <1>6, <1>7
  <2>4. c \in Calls  BY <2>2, <2>3, CallsAre
  <2>5. c.method = "giveback" /\ c.i = order[x][1] /\ c.k = order[x][2] /\ c.again = again[x]
    BY DEF ToGiveBack
  <2> HIDE DEF c
  <2>6. CallOK(db, c)  BY <2>2, <2>3, <2>4, <2>5 DEF CallOK
  <2>7. QED  BY <2>6 DEF c
<1>8. AllOK(db, u)
  <2>1. \A x \in 1..N : u[x] = ToGiveBack(order[x][1], order[x][2], again[x])  BY <1>4
  <2>2. u = [x \in 1..N |-> u[x]] /\ DOMAIN u = 1..N  BY <1>4
  <2> HIDE DEF u
  <2>3. \A x \in 1..N : CallOK(db, u[x])  BY <1>7, <2>1
  <2>4. u \in Seq(Calls)
    <3>1. \A x \in 1..N : u[x] \in Calls  BY <2>3 DEF CallOK
    <3>2. u \in [1..N -> Calls]  BY <2>2, <3>1
    <3>3. QED  BY <1>2, <3>2
  <2>5. QED  BY <2>2, <2>3, <2>4 DEF AllOK
<1>9. ASSUME Lone(db) PROVE GiveH(db, db, u)
  <2>1. PICK l \in LapsedStages : TRUE  BY DEF Sweep
  <2>2. ASSUME NEW m \in LapsedStages PROVE m = l
    <3>1. /\ l[1] \in Instances /\ m[1] \in Instances
          /\ Lapsed(db, l[1], l[2]) /\ Lapsed(db, m[1], m[2])
          /\ l = <<l[1], l[2]>> /\ m = <<m[1], m[2]>>
      BY <1>5, <2>1, <2>2
    <3>2. l[1] = m[1] /\ l[2] = m[2]  BY <1>9, <3>1 DEF Lone
    <3>3. QED  BY <3>1, <3>2
  <2>3. LapsedStages = {l}  BY <2>1, <2>2
  <2>4. N = 1
    <3>1. Cardinality({l}) = 1  BY FS_Singleton
    <3>2. QED  BY <2>3, <3>1 DEF N
  <2>5. DOMAIN order = {1}  BY <1>4, <2>4
  <2>6. 1 \in 1..N /\ order[1] = l  BY <1>4, <2>2, <2>4
  <2>7. u = <<ToGiveBack(l[1], l[2], again[1])>>
    <3> DEFINE a == ToGiveBack(l[1], l[2], again[1])
    <3>1. u = [x \in {1} |-> a]  BY <2>5, <2>6
    <3> HIDE DEF u, a
    <3>2. [x \in {1} |-> a] = <<a>>  OBVIOUS
    <3>3. QED  BY <3>1, <3>2 DEF a
  <2> HIDE DEF u
  <2>8. l[1] \in Instances /\ l[2] \in Slots(db, l[1]) /\ db.stages[l[1]][l[2]].status = "running"
    BY <1>5, <2>1
  <2>9. again[1] \in BOOLEAN /\ (again[1] => HasAttempt(db.stages[l[1]][l[2]]))  BY <1>6, <2>6
  <2>10. QED  BY <2>7, <2>8, <2>9, StillIs DEF GiveH
<1>10. SweepH(db, db, u)  BY <1>8, <1>9, StillIs DEF SweepH
<1>11. Carry(db, u, w)  BY <1>1
<1> HIDE DEF u
<1>12. QED  BY <1>10, <1>11 DEF HandledStep, Handled

LEMMA HandleSteps ==
  ASSUME db \in Db, Handle
  PROVE  HandledStep \/ PlainCase
<1>1. ASSUME NEW i \in Instances, NEW w \in Worlds({i}), Start(i, w) PROVE HandledStep
  BY <1>1, WorldsTame, StartHIs
<1>2. ASSUME NEW i \in Instances, NEW w \in Worlds(Present), Cancel(i, w) PROVE HandledStep
  BY <1>2, WorldsTame, CancelHIs
<1>3. ASSUME NEW i \in Instances, NEW k \in Slots(db, i), Lease(i, k) \/ Lapse(i, k)
      PROVE  PlainCase
  BY <1>3, LeaseIs, LapseIs DEF PlainCase
<1>4. ASSUME NEW i \in Instances, NEW k \in Slots(db, i), NEW w \in Worlds(Present),
             Report(i, k, w) \/ Signal(i, k, w) \/ Approve(i, k, w) \/ Reject(i, k, w)
      PROVE  HandledStep \/ PlainCase
  <2>1. Tame(w)  BY WorldsTame
  <2>2. CASE CompleteLease(i, k, w)  BY <2>1, <2>2, CompleteLeaseIs
  <2>3. CASE RejectOutput(i, k, w)  BY <2>1, <2>3, RejectOutputIs
  <2>4. CASE FailLease(i, k, w)  BY <2>1, <2>4, FailLeaseIs
  <2>5. CASE Signal(i, k, w)  BY <2>1, <2>5, SignalIs
  <2>6. CASE Approve(i, k, w)  BY <2>1, <2>6, ApproveHIs
  <2>7. CASE Reject(i, k, w)  BY <2>1, <2>7, RejectIs
  <2>8. QED  BY <1>4, <2>2, <2>3, <2>4, <2>5, <2>6, <2>7 DEF Report
<1>5. ASSUME NEW w \in Worlds(Present), Maintain(w) PROVE HandledStep
  <2>1. Tame(w)  BY WorldsTame
  <2>2. CASE Sweep(w)  BY <2>1, <2>2, SweepIs
  <2>3. ASSUME NEW i \in Instances, NEW k \in Slots(db, i), DueWait(i, k, w) \/ ExpireSignal(i, k, w)
        PROVE  HandledStep
    BY <2>1, <2>3, DueWaitIs, ExpireSignalIs
  <2>4. QED  BY <1>5, <2>2, <2>3 DEF Maintain
<1>6. QED  BY <1>1, <1>2, <1>3, <1>4, <1>5 DEF Handle

LEMMA EnforceIs ==
  ASSUME db \in Db, NEW i \in Instances, NEW w, Tame(w), EnforceRunIdentities(i, w)
  PROVE  CallsStep
<1> DEFINE free == LetGo(db, i)
<1>1. LetGoes(db, free, i)  BY LetGoIs
<1>2. /\ \/ db.inst[i] \in OpenInst /\ Carry(free, <<ToFail(i, "cancelled")>>, w)
         \/ db.inst[i] = "compensating"
              /\ Carry(Finalize(free, i, "cancelled").db, Finalize(free, i, "cancelled").todo, w)
      /\ blocked' = blocked \cup {i}
  BY Zenon DEF EnforceRunIdentities
<1> HIDE DEF free
<1>3. PICK e, u : Revokes(db, e, u, i) /\ Carry(e, u, w)
  <2>1. CASE db.inst[i] \in OpenInst /\ Carry(free, <<ToFail(i, "cancelled")>>, w)
    BY <1>1, <2>1 DEF Revokes
  <2>2. CASE /\ db.inst[i] = "compensating"
             /\ Carry(Finalize(free, i, "cancelled").db, Finalize(free, i, "cancelled").todo, w)
    <3>1. free \in Db  BY <1>1 DEF LetGoes, Restages, Touches
    <3>2. PICK e, u : Finalize(free, i, "cancelled") = Do(e, u) /\ FinalCase(free, e, i, "cancelled", u)
      BY <3>1, FinalIs
    <3>3. Do(e, u).db = e /\ Do(e, u).todo = u  BY DEF Do
    <3>4. Revokes(db, e, u, i)  BY <1>1, <2>2, <3>2 DEF Revokes
    <3>5. Carry(e, u, w)  BY <2>2, <3>2, <3>3
    <3>6. QED  BY <3>4, <3>5
  <2>3. QED  BY <1>2, <2>1, <2>2
<1>4. RevokeH(db, e, u) /\ Blocks(e, u)  BY <1>2, <1>3 DEF RevokeH, Blocks
<1>5. QED  BY <1>3, <1>4 DEF CallsStep, Begins

LEMMA HandledSteps ==
  ASSUME HandledStep, blocked' = blocked
  PROVE  CallsStep
BY DEF HandledStep, CallsStep, Begins, Blocks

(* So it is until the start of a child throws.                              *)
LEMMA NextSteps ==
  ASSUME db \in Db, Next, ~thrown'
  PROVE  ~thrown /\ (CallsStep \/ PlainStep)
<1>1. CASE Handle /\ UNCHANGED <<blocked, thrown>>
  <2>1. HandledStep \/ PlainCase  BY <1>1, HandleSteps
  <2>2. blocked' = blocked /\ thrown' = thrown  BY <1>1
  <2>3. QED  BY <2>1, <2>2, HandledSteps DEF PlainStep
<1>2. ASSUME NEW w \in Worlds(Present), NEW i \in Instances, EnforceRunIdentities(i, w)
      PROVE  ~thrown /\ CallsStep
  <2>1. thrown' = thrown  BY <1>2 DEF EnforceRunIdentities
  <2>2. CallsStep  BY <1>2, WorldsTame, EnforceIs
  <2>3. QED  BY <2>1, <2>2
<1>3. ASSUME NEW w \in Worlds(Present), NEW i \in Instances, NEW k \in Slots(db, i), DueWaitThrown(i, k, w)
      PROVE  FALSE
  BY <1>3 DEF DueWaitThrown
<1>4. QED  BY <1>1, <1>2, <1>3 DEF Next

(***************************************************************************)
(* Type correctness.                                                       *)
(***************************************************************************)
LEMMA GoCallsOK ==
  ASSUME NEW d \in Db, NEW e, NEW i \in Instances, NEW k \in Slots(d, i), d.stages[i][k].kind # "compensation"
  PROVE  AllOK(e, <<ToAdvance(i, d.stages[i][k].token, To(d.stages[i][k].node)[1]), ToSync(i)>>)
<1>1. d.stages[i][k].token \in Token /\ To(d.stages[i][k].node)[1] \in GNodes
  BY StageGoesOn
<1>2. CallOK(e, ToAdvance(i, d.stages[i][k].token, To(d.stages[i][k].node)[1]))
  BY <1>1, PlainOK
<1>3. CallOK(e, ToSync(i))  BY PlainOK
<1>4. QED  BY <1>2, <1>3, TwoCalls

LEMMA BeginsGives ==
  ASSUME NEW d \in Db, NEW e, NEW u, Begins(d, e, u)
  PROVE  e \in Db /\ Grows(d, e) /\ NoNewLapse(d, e) /\ AllOK(e, u)
<1>1. CASE StartH(d, e, u)
  <2>1. PICK i \in Instances : Started(d, e, i) /\ u = <<ToAdvance(i, Root, StartOf[i])>>
    BY <1>1 DEF StartH
  <2>2. StartOf[i] \in GNodes /\ Root \in Token  BY GraphAssumption DEF Root, Token
  <2>3. CallOK(e, ToAdvance(i, Root, StartOf[i]))  BY <2>2, PlainOK
  <2>4. AllOK(e, u)  BY <2>1, <2>3, OneCall
  <2>5. QED  BY <2>1, <2>4 DEF Started, Touches
<1>2. CASE CancelH(d, e, u)
  <2>1. PICK i \in Instances : u = <<ToFail(i, "cancelled")>>  BY <1>2 DEF CancelH
  <2>2. CallOK(e, ToFail(i, "cancelled"))  BY PlainOK
  <2>3. AllOK(e, u)  BY <2>1, <2>2, OneCall
  <2>4. QED  BY <1>2, <2>3 DEF CancelH, Still, Touches
<1>3. CASE GoH(d, e, u)
  <2>a. PICK i \in Instances : \E k \in Slots(d, i) : \E r :
          /\ d.stages[i][k].kind # "compensation" /\ Ends(d, e, i, k, r, "completed")
          /\ u = <<ToAdvance(i, d.stages[i][k].token, To(d.stages[i][k].node)[1]), ToSync(i)>>
    BY <1>3 DEF GoH
  <2>b. PICK k \in Slots(d, i) : \E r :
          /\ d.stages[i][k].kind # "compensation" /\ Ends(d, e, i, k, r, "completed")
          /\ u = <<ToAdvance(i, d.stages[i][k].token, To(d.stages[i][k].node)[1]), ToSync(i)>>
    BY <2>a
  <2>1. PICK r :
          /\ d.stages[i][k].kind # "compensation" /\ Ends(d, e, i, k, r, "completed")
          /\ u = <<ToAdvance(i, d.stages[i][k].token, To(d.stages[i][k].node)[1]), ToSync(i)>>
    BY <2>b
  <2>2. AllOK(e, u)  BY <2>1, GoCallsOK
  <2>3. QED  BY <2>1, <2>2 DEF Ends, Touches
<1>4. CASE UndoneH(d, e, u)
  <2>a. PICK i \in Instances : \E k \in Slots(d, i) :
          UndoEnds(d, e, i, k, "completed") /\ u = <<ToCompensate(i)>>
    BY <1>4 DEF UndoneH
  <2>1. PICK k \in Slots(d, i) :
          UndoEnds(d, e, i, k, "completed") /\ u = <<ToCompensate(i)>>
    BY <2>a
  <2>2. CallOK(e, ToCompensate(i))  BY PlainOK
  <2>3. AllOK(e, u)  BY <2>1, <2>2, OneCall
  <2>4. PICK b \in Db : Touches(d, b, {i}) /\ (Touches(b, e, {i}) \/ e = b)
    BY <2>1 DEF UndoEnds, Ends, RowSet, Restages
  <2>5. Touches(d, e, {i})
    <3>1. CASE e = b  BY <2>4, <3>1
    <3>2. CASE Touches(b, e, {i})
      <4>1. e \in Db  BY <3>2 DEF Touches
      <4>2. QED  BY <2>4, <3>2, <4>1, TouchesBoth
    <3>3. QED  BY <2>4, <3>1, <3>2
  <2>6. QED  BY <2>3, <2>5 DEF Touches
<1>5. CASE BreakH(d, e, u)
  <2>a. PICK i \in Instances : \E k \in Slots(d, i) : \E r : \E s \in {"failed", "cancelled"} :
          Ends(d, e, i, k, r, s) /\ u = <<ToFail(i, s)>>
    BY <1>5 DEF BreakH
  <2>b. PICK k \in Slots(d, i) : \E r : \E s \in {"failed", "cancelled"} :
          Ends(d, e, i, k, r, s) /\ u = <<ToFail(i, s)>>
    BY <2>a
  <2>c. PICK r : \E s \in {"failed", "cancelled"} : Ends(d, e, i, k, r, s) /\ u = <<ToFail(i, s)>>
    BY <2>b
  <2>1. PICK s \in {"failed", "cancelled"} : Ends(d, e, i, k, r, s) /\ u = <<ToFail(i, s)>>
    BY <2>c
  <2>2. CallOK(e, ToFail(i, s))  BY PlainOK
  <2>3. AllOK(e, u)  BY <2>1, <2>2, OneCall
  <2>4. QED  BY <2>1, <2>3 DEF Ends, Touches
<1>6. CASE LateH(d, e, u)
  <2>a. PICK i \in Instances :
          \E k \in Slots(d, i) : RowSet(d, e, i, k, "expired") /\ u = <<ToFail(i, "failed")>>
    BY <1>6 DEF LateH
  <2>1. PICK k \in Slots(d, i) : RowSet(d, e, i, k, "expired") /\ u = <<ToFail(i, "failed")>>
    BY <2>a
  <2>2. CallOK(e, ToFail(i, "failed"))  BY PlainOK
  <2>3. AllOK(e, u)  BY <2>1, <2>2, OneCall
  <2>4. QED  BY <2>1, <2>3 DEF RowSet, Restages, Touches
<1>7. ASSUME GiveH(d, e, u) PROVE e \in Db /\ Grows(d, e) /\ NoNewLapse(d, e) /\ AllOK(e, u)
  <2>a. PICK i \in Instances : \E k \in Slots(d, i) : \E again \in BOOLEAN :
          (again => HasAttempt(d.stages[i][k])) /\ u = <<ToGiveBack(i, k, again)>>
    BY <1>7 DEF GiveH
  <2>1. PICK k \in Slots(d, i), again \in BOOLEAN :
          (again => HasAttempt(d.stages[i][k])) /\ u = <<ToGiveBack(i, k, again)>>
    BY <2>a
  <2> DEFINE c == ToGiveBack(i, k, again)
  <2>2. e \in Db /\ Grows(d, e) /\ NoNewLapse(d, e) /\ Same(d, e, i)
    BY <1>7 DEF GiveH, Still, Touches
  <2>3. k \in Nat  BY SlotsAre
  <2>4. c \in Calls  BY <2>3, CallsAre
  <2>5. c.method = "giveback" /\ c.i = i /\ c.k = k /\ c.again = again  BY DEF ToGiveBack
  <2> HIDE DEF c
  <2>6. CallOK(e, c)  BY <2>1, <2>2, <2>4, <2>5 DEF CallOK, Same, Slots
  <2>7. AllOK(e, u)  BY <2>1, <2>6, OneCall DEF c
  <2>8. QED  BY <2>2, <2>7
<1>8. CASE SweepH(d, e, u)
  <2>1. e \in Db /\ Grows(d, e) /\ NoNewLapse(d, e) /\ \A i \in Instances : Same(d, e, i)
    BY <1>8 DEF SweepH, Still, Touches
  <2>2. AllOK(d, u)  BY <1>8 DEF SweepH
  <2>3. ASSUME NEW x \in DOMAIN u PROVE CallOK(e, u[x])
    <3>1. CallOK(d, u[x])  BY <2>2 DEF AllOK
    <3>2. u[x].i \in Instances  BY <3>1, CallFields DEF CallOK
    <3>3. QED  BY <2>1, <3>1, <3>2 DEF CallOK, Same, Slots
  <2>4. AllOK(e, u)  BY <2>2, <2>3 DEF AllOK
  <2>5. QED  BY <2>1, <2>4
<1>9. ASSUME NEW i \in Instances, Revokes(d, e, u, i)
      PROVE  e \in Db /\ Grows(d, e) /\ NoNewLapse(d, e) /\ AllOK(e, u)
  <2>1. CASE LetGoes(d, e, i) /\ u = <<ToFail(i, "cancelled")>>
    <3>1. CallOK(e, ToFail(i, "cancelled"))  BY PlainOK
    <3>2. AllOK(e, u)  BY <2>1, <3>1, OneCall
    <3>3. QED  BY <2>1, <3>2 DEF LetGoes, Restages, Touches
  <2>2. ASSUME NEW a, LetGoes(d, a, i), FinalCase(a, e, i, "cancelled", u)
        PROVE  e \in Db /\ Grows(d, e) /\ NoNewLapse(d, e) /\ AllOK(e, u)
    <3>1. Touches(d, a, {i}) /\ Touches(a, e, {i}) /\ u = <<ToParent(i)>>
      BY <2>2 DEF LetGoes, Restages, FinalCase, Finishes
    <3>2. a \in Db /\ e \in Db  BY <3>1 DEF Touches
    <3>3. Touches(d, e, {i})  BY <3>1, <3>2, TouchesBoth
    <3>4. CallOK(e, ToParent(i))  BY PlainOK
    <3>5. AllOK(e, u)  BY <3>1, <3>4, OneCall
    <3>6. QED  BY <3>3, <3>5 DEF Touches
  <2>3. QED  BY <1>9, <2>1, <2>2 DEF Revokes
<1>10. QED  BY <1>1, <1>2, <1>3, <1>4, <1>5, <1>6, <1>7, <1>8, <1>9 DEF Begins, Handled, RevokeH

(* What has been called may still be called.                                *)
LEMMA CallStays ==
  ASSUME NEW d, NEW e, Grows(d, e), NEW c, CallOK(d, c)
  PROVE  CallOK(e, c)
<1>1. c \in Calls  BY DEF CallOK
<1>2. c.i \in Instances  BY <1>1, CallFields
<1>3. GrowsAt(d, e, c.i)  BY <1>2 DEF Grows
<1>4. \A k \in Slots(d, c.i) :
        /\ k \in Slots(e, c.i) /\ e.stages[c.i][k].kind = d.stages[c.i][k].kind
        /\ e.stages[c.i][k].attempt = d.stages[c.i][k].attempt
  BY <1>3 DEF GrowsAt, Kept
<1>5. \A k \in Slots(d, c.i) : HasAttempt(d.stages[c.i][k]) => HasAttempt(e.stages[c.i][k])
  BY <1>4 DEF HasAttempt
<1>6. QED  BY <1>1, <1>4, <1>5 DEF CallOK

LEMMA RestIs ==
  ASSUME NEW S, NEW s \in Seq(S), s # <<>>
  PROVE  /\ Head(s) \in S /\ Head(s) = s[1] /\ 1 \in DOMAIN s
         /\ Tail(s) \in Seq(S) /\ Len(Tail(s)) = Len(s) - 1
         /\ DOMAIN s = 1..Len(s) /\ Len(s) \in Nat \ {0}
         /\ DOMAIN Tail(s) = 1..(Len(s) - 1)
         /\ \A x \in DOMAIN Tail(s) : x + 1 \in DOMAIN s /\ Tail(s)[x] = s[x + 1]
         /\ \A x \in DOMAIN s : x # 1 => x - 1 \in DOMAIN Tail(s) /\ Tail(s)[x - 1] = s[x]
<1>1. Len(s) \in Nat \ {0} /\ DOMAIN s = 1..Len(s)  OBVIOUS
<1>2. Tail(s) \in Seq(S) /\ Len(Tail(s)) = Len(s) - 1 /\ \A x \in 1..(Len(s) - 1) : Tail(s)[x] = s[x + 1]
  OBVIOUS
<1>3. DOMAIN Tail(s) = 1..(Len(s) - 1)  BY <1>2
<1>4. Head(s) = s[1] /\ 1 \in DOMAIN s /\ s[1] \in S  BY <1>1
<1>5. \A x \in DOMAIN s : x # 1 => x - 1 \in 1..(Len(s) - 1) /\ (x - 1) + 1 = x  BY <1>1
<1>6. QED  BY <1>1, <1>2, <1>3, <1>4, <1>5

(* The calls that are left with the new ones before them.                   *)
LEMMA AllThen ==
  ASSUME NEW e, NEW u, NEW R, AllOK(e, u), AllOK(e, R)
  PROVE  AllOK(e, u \o R) /\ IsConcat(u \o R, u, R)
<1>1. u \in Seq(Calls) /\ R \in Seq(Calls)  BY DEF AllOK
<1>2. u \o R \in Seq(Calls) /\ IsConcat(u \o R, u, R)  BY <1>1, ConcatIs
<1> DEFINE z == u \o R
<1> HIDE DEF z
<1>3. z \in Seq(Calls) /\ IsConcat(z, u, R)  BY <1>2 DEF z
<1>4. ASSUME NEW x \in DOMAIN z PROVE CallOK(e, z[x])
  <2>1. CASE x \in DOMAIN u  BY <1>3, <2>1 DEF IsConcat, AllOK
  <2>2. CASE x \notin DOMAIN u
    <3>1. PICK l \in DOMAIN R : x = Len(u) + l  BY <1>3, <2>2 DEF IsConcat
    <3>2. z[Len(u) + l] = R[l]  BY <1>3 DEF IsConcat
    <3>3. QED  BY <3>1, <3>2 DEF AllOK
  <2>3. QED  BY <2>1, <2>2
<1>5. AllOK(e, z)  BY <1>3, <1>4 DEF AllOK
<1>6. QED  BY <1>3, <1>5 DEF z

Machines == {m \in [db : Db, todo : Seq(Calls)] : AllOK(m.db, m.todo)}

LEMMA MachineIs ==
  ASSUME NEW d \in Db, NEW s, AllOK(d, s)
  PROVE  Do(d, s) \in Machines /\ Do(d, s).db = d /\ Do(d, s).todo = s
BY DEF Machines, Do, AllOK

(* A step of the program: the next call is made.                            *)
StepsTo(m, n) ==
  \E e, u :
    /\ CallCase(m.db, e, Head(m.todo), u) /\ Gives(m.db, e, u)
    /\ CallOK(m.db, Head(m.todo)) /\ AllOK(m.db, Tail(m.todo)) /\ AllOK(e, Tail(m.todo))
    /\ n = Do(e, u \o Tail(m.todo))

LEMMA StepIs ==
  ASSUME NEW m \in Machines, NEW w, Tame(w), m.todo # <<>>
  PROVE  StepsTo(m, Step(m, w)) /\ Step(m, w) \in Machines
<1>1. m.db \in Db /\ m.todo \in Seq(Calls) /\ AllOK(m.db, m.todo)  BY DEF Machines
<1>2. CallOK(m.db, Head(m.todo))  BY <1>1, RestIs DEF AllOK
<1>3. PICK e, u : Call(m.db, Head(m.todo), w) = Do(e, u) /\ CallCase(m.db, e, Head(m.todo), u)
  BY <1>1, <1>2, CallIs
<1>4. Gives(m.db, e, u)  BY <1>1, <1>2, <1>3, CallGives
<1>5. AllOK(m.db, Tail(m.todo))
  <2>1. Tail(m.todo) \in Seq(Calls)  BY <1>1, RestIs
  <2>2. \A x \in DOMAIN Tail(m.todo) : CallOK(m.db, Tail(m.todo)[x])  BY <1>1, RestIs DEF AllOK
  <2>3. QED  BY <2>1, <2>2 DEF AllOK
<1>6. AllOK(e, Tail(m.todo))
  <2>1. Grows(m.db, e)  BY <1>4 DEF Gives
  <2>2. \A x \in DOMAIN Tail(m.todo) : CallOK(e, Tail(m.todo)[x])  BY <1>5, <2>1, CallStays DEF AllOK
  <2>3. QED  BY <1>5, <2>2 DEF AllOK
<1>7. Step(m, w) = Do(e, u \o Tail(m.todo))
  <2>1. Do(e, u).db = e /\ Do(e, u).todo = u  BY DEF Do
  <2>2. QED  BY <1>3, <2>1 DEF Step
<1>8. AllOK(e, u \o Tail(m.todo))  BY <1>4, <1>6, AllThen DEF Gives
<1>9. Step(m, w) \in Machines  BY <1>4, <1>7, <1>8, MachineIs DEF Gives
<1>10. StepsTo(m, Step(m, w))  BY <1>2, <1>3, <1>4, <1>5, <1>6, <1>7 DEF StepsTo
<1>11. QED  BY <1>9, <1>10

LEMMA StepStays ==
  ASSUME NEW m \in Machines, NEW w, m.todo = <<>>
  PROVE  Step(m, w) = m
BY DEF Step

LEMMA StepsStay ==
  ASSUME NEW w, Tame(w)
  PROVE  \A m \in Machines : Step(m, w) \in Machines
<1>1. TAKE m \in Machines
<1>2. CASE m.todo = <<>>  BY <1>2, StepStays
<1>3. CASE m.todo # <<>>  BY <1>3, StepIs
<1>4. QED  BY <1>2, <1>3

LEMMA CallsTyped ==
  ASSUME db \in Db, CallsStep
  PROVE  db' \in Db
<1>1. PICK e, u, w : Begins(db, e, u) /\ Tame(w) /\ Carry(e, u, w)  BY DEF CallsStep
<1>2. e \in Db /\ AllOK(e, u)  BY <1>1, BeginsGives
<1>3. Do(e, u) \in Machines  BY <1>2, MachineIs
<1>4. \A m \in Machines : Step(m, w) \in Machines  BY <1>1, StepsStay
<1>5. \E m \in Machines : m.todo = <<>> /\ db' = m.db  BY <1>1, <1>3, <1>4, CarryRule
<1>6. QED  BY <1>5 DEF Machines

LEMMA ThrownTyped ==
  ASSUME db \in Db, NEW i \in Instances, NEW k \in Slots(db, i), NEW w, Tame(w), DueWaitThrown(i, k, w)
  PROVE  db' \in Db
<1> DEFINE e == [SetStage(db, i, k, "completed") EXCEPT !.run[i] = "running"]
           u == <<ToAdvance(i, db.stages[i][k].token, To(db.stages[i][k].node)[1]), ToSync(i)>>
<1>1. db.stages[i][k].kind = "wait" /\ CarryThrown(e, u, w)
  BY Zenon DEF DueWaitThrown
<1>2. "completed" \in Ended  BY DEF Ended
<1>3. Ends(db, e, i, k, db.stages[i][k].row, "completed")  BY <1>2, EndsRunning
<1>4. AllOK(e, u)  BY <1>1, GoCallsOK
<1> HIDE DEF e, u
<1>5. e \in Db  BY <1>3 DEF Ends, Touches
<1>6. Do(e, u) \in Machines  BY <1>4, <1>5, MachineIs
<1>7. \A m \in Machines : Step(m, w) \in Machines  BY StepsStay
<1>8. \E m \in Machines : db' = m.db  BY <1>1, <1>6, <1>7, ThrownRule
<1>9. QED  BY <1>8 DEF Machines

LEMMA PlainTyped ==
  ASSUME PlainStep
  PROVE  db' \in Db
BY DEF PlainStep, PlainCase, LeaseCase, LapseCase, ApproveCase, Touches

LEMMA InitTyped ==
  ASSUME Init
  PROVE  db \in Db
<1>1. <<>> \in Seq(StageSet) /\ "absent" \in InstStatus  BY DEF InstStatus
<1>2. 0 \in 0..MaxMoves /\ 0 \in 0..MaxIterations  BY LimitsAssumption
<1>3. <<>> \in TokenMap
  <2>1. <<>> \in [{} -> TokenStatus] /\ {} \in SUBSET Token  OBVIOUS
  <2>2. QED  BY <2>1 DEF TokenMap
<1>4. QED  BY <1>1, <1>2, <1>3 DEF Init, Db

LEMMA NextTyped ==
  ASSUME db \in Db, Next
  PROVE  db' \in Db
<1>1. CASE Handle /\ UNCHANGED <<blocked, thrown>>
  <2>1. HandledStep \/ PlainCase  BY <1>1, HandleSteps
  <2>2. blocked' = blocked  BY <1>1
  <2>3. QED  BY <2>1, <2>2, HandledSteps, CallsTyped, PlainTyped DEF PlainStep
<1>2. ASSUME NEW w \in Worlds(Present), NEW i \in Instances, EnforceRunIdentities(i, w)
      PROVE  db' \in Db
  BY <1>2, WorldsTame, EnforceIs, CallsTyped
<1>3. ASSUME NEW w \in Worlds(Present), NEW i \in Instances, NEW k \in Slots(db, i), DueWaitThrown(i, k, w)
      PROVE  db' \in Db
  BY <1>3, WorldsTame, ThrownTyped
<1>4. QED  BY <1>1, <1>2, <1>3 DEF Next

LEMMA NextFlags ==
  ASSUME blocked \subseteq Instances, thrown \in BOOLEAN, Next
  PROVE  blocked' \subseteq Instances /\ thrown' \in BOOLEAN
<1>1. CASE Handle /\ UNCHANGED <<blocked, thrown>>  BY <1>1
<1>2. ASSUME NEW w \in Worlds(Present), NEW i \in Instances, EnforceRunIdentities(i, w)
      PROVE  blocked' \subseteq Instances /\ thrown' \in BOOLEAN
  <2>1. blocked' = blocked \cup {i} /\ thrown' = thrown  BY <1>2, Zenon DEF EnforceRunIdentities
  <2>2. QED  BY <2>1
<1>3. ASSUME NEW w \in Worlds(Present), NEW i \in Instances, NEW k \in Slots(db, i), DueWaitThrown(i, k, w)
      PROVE  blocked' \subseteq Instances /\ thrown' \in BOOLEAN
  <2>1. thrown' = TRUE /\ blocked' = blocked  BY <1>3, Zenon DEF DueWaitThrown
  <2>2. QED  BY <2>1
<1>4. QED  BY <1>1, <1>2, <1>3 DEF Next

LEMMA TypedAll == Spec => [](db \in Db)
<1>1. Init => db \in Db  BY InitTyped
<1>2. db \in Db /\ [Next]_vars => (db \in Db)'  BY NextTyped DEF vars
<1>3. QED  BY <1>1, <1>2, PTL DEF Spec

LEMMA FlagsTyped == Spec => [](blocked \subseteq Instances /\ thrown \in BOOLEAN)
<1> DEFINE Inv == blocked \subseteq Instances /\ thrown \in BOOLEAN
<1>1. Init => Inv  BY DEF Init
<1>2. Inv /\ [Next]_vars => Inv'  BY NextFlags DEF vars
<1> HIDE DEF Inv
<1>3. Spec => []Inv  BY <1>1, <1>2, PTL DEF Spec
<1>4. QED  BY <1>3 DEF Inv

(* Type correctness: every column keeps its type, no stage is leased more   *)
(* often than it may be, and only running stages lapse.                     *)
THEOREM EngineTyped == Spec => []TypeOK
<1>1. db \in Db /\ (blocked \subseteq Instances /\ thrown \in BOOLEAN) => TypeOK
  <2>1. SUFFICES ASSUME db \in Db, blocked \subseteq Instances, thrown \in BOOLEAN PROVE TypeOK  OBVIOUS
  <2>2. \A i \in Instances :
          /\ db.stages[i] \in Seq(StageType)
          /\ \A k \in Slots(db, i) : db.stages[i][k].lapsed => db.stages[i][k].status = "running"
          /\ \A t \in DOMAIN db.token[i] : t \in Token /\ db.token[i][t] \in TokenStatus
    <3>1. TAKE i \in Instances
    <3>2. db.stages[i] \in Seq(StageSet) /\ db.token[i] \in TokenMap  BY <2>1 DEF Db
    <3>3. StageSet \subseteq StageType  BY DEF StageSet
    <3>4. db.stages[i] \in Seq(StageType)
      <4> DEFINE q == db.stages[i]
      <4>1. q \in Seq(StageSet)  BY <3>2
      <4> HIDE DEF q
      <4>2. Len(q) \in Nat /\ DOMAIN q = 1..Len(q) /\ \A k \in 1..Len(q) : q[k] \in StageType  BY <3>3, <4>1
      <4>3. q = [k \in 1..Len(q) |-> q[k]]  BY <4>1
      <4>4. q \in [1..Len(q) -> StageType]  BY <4>2, <4>3
      <4>5. q \in Seq(StageType)  BY <4>2, <4>4
      <4>6. QED  BY <4>5 DEF q
    <3>5. \A k \in Slots(db, i) : db.stages[i][k].lapsed => db.stages[i][k].status = "running"
      BY <2>1, SlotsAre DEF StageSet, StageOK
    <3>6. QED  BY <3>2, <3>4, <3>5, TokenMapIs
  <2>3. QED  BY <2>1, <2>2 DEF TypeOK, Db
<1>2. Spec => [](db \in Db)  BY TypedAll
<1>3. Spec => [](blocked \subseteq Instances /\ thrown \in BOOLEAN)  BY FlagsTyped
<1>4. QED  BY <1>1, <1>2, <1>3, PTL

(***************************************************************************)
(* Families of instances.                                                  *)
(***************************************************************************)
Kids(i) == {ChildOf[n] : n \in NodesOf[i] \cap DOMAIN ChildOf}
Closed(S) == \A i \in S : Kids(i) \subseteq S

LEMMA KidsAre ==
  ASSUME NEW i \in Instances
  PROVE  /\ Kids(i) \subseteq Children /\ Kids(i) \subseteq Instances
         /\ \A j \in Instances : Kids(i) \cap Kids(j) # {} => i = j
         /\ \A k \in Kids(i) : i \notin Family(k)
<1>1. \A n \in NodesOf[i] \cap DOMAIN ChildOf : ChildOf[n] \in Instances /\ i \notin Family(ChildOf[n])
  BY FamilyAssumption
<1>2. ASSUME NEW j \in Instances, Kids(i) \cap Kids(j) # {} PROVE i = j
  <2>1. PICK m \in NodesOf[i] \cap DOMAIN ChildOf, n \in NodesOf[j] \cap DOMAIN ChildOf : ChildOf[m] = ChildOf[n]
    BY <1>2 DEF Kids
  <2>2. m = n  BY <2>1, FamilyAssumption
  <2>3. QED  BY <2>2, FamilyAssumption
<1>3. QED  BY <1>1, <1>2 DEF Kids, Children

LEMMA FamilyIs ==
  ASSUME NEW c \in Instances
  PROVE  /\ c \in Family(c) /\ Family(c) \subseteq Instances
         /\ \A i \in Family(c) : Kids(i) \subseteq Family(c)
         /\ \A j \in Family(c) : j # c => \E i \in Family(c) : j \in Kids(i)
<1>1. \A j : j \in Family(c) <=> j \in Instances /\ \A S \in SUBSET Instances : c \in S /\ Closed(S) => j \in S
  BY DEF Family, Closed, Kids
<1>2. c \in Family(c) /\ Family(c) \subseteq Instances  BY <1>1
<1>3. ASSUME NEW i \in Family(c) PROVE Kids(i) \subseteq Family(c)
  <2>1. SUFFICES ASSUME NEW k \in Kids(i) PROVE k \in Family(c)  OBVIOUS
  <2>2. k \in Instances  BY <1>2, KidsAre
  <2>3. ASSUME NEW S \in SUBSET Instances, c \in S, Closed(S) PROVE k \in S
    <3>1. i \in S  BY <1>1, <2>3
    <3>2. QED  BY <2>3, <3>1 DEF Closed
  <2>4. QED  BY <1>1, <2>2, <2>3
<1>4. ASSUME NEW j \in Family(c), j # c PROVE \E i \in Family(c) : j \in Kids(i)
  <2>1. SUFFICES ASSUME \A i \in Family(c) : j \notin Kids(i) PROVE FALSE  OBVIOUS
  <2> DEFINE S == Family(c) \ {j}
  <2>2. c \in S /\ S \in SUBSET Instances  BY <1>2, <1>4
  <2>3. Closed(S)  BY <1>3, <2>1 DEF Closed
  <2>4. j \in S  BY <1>1, <2>2, <2>3
  <2>5. QED  BY <2>4
<1>5. QED  BY <1>2, <1>3, <1>4

(***************************************************************************)
(* Part one of the invariant of the calls: what each instance is like       *)
(* between two calls, and in what order calls may be left to make.          *)
(***************************************************************************)
Stopped == {"compensating", "failed", "cancelled"}
OpenStages(d, i) == InStatus(d, i, OpenStage)

StageFits(d, i, st) ==
  /\ st.node \in NodesOf[i]
  /\ st.status \in OpenStage =>
       IF st.kind = "compensation" THEN d.inst[i] = "compensating" ELSE d.inst[i] \in OpenInst
  /\ st.row = "waiting" => st.status = "waiting_external"
  /\ st.row = "running" =>
       /\ st.kind = "subprocess" /\ st.status = "waiting_external"
       /\ d.inst[i] \in OpenInst /\ d.inst[ChildOf[st.node]] # "absent"
HeadFits(d, i) ==
  /\ d.error[i] => d.inst[i] \in Stopped
  /\ d.inst[i] \notin OpenInst => Live(d, i) = {}
  /\ d.inst[i] = "absent" => d.stages[i] = <<>> /\ d.token[i] = <<>>
Fits(d, i) == HeadFits(d, i) /\ \A k \in Slots(d, i) : StageFits(d, i, d.stages[i][k])
AllFit(d) == \A i \in Instances : Fits(d, i)

(* A token that has transitions left.                                       *)
Going(d, c) == c.method = "advance" /\ d.moves[c.i] # MaxMoves

(* The instances that a call for i may change: itself, those it has started *)
(* and the one that waits for it.                                           *)
Near(d, i, j) ==
  j \in Instances /\ (j = i \/ j \in Kids(i) \/ \E k \in RunningLinks(d, j) : Child(d, j, k) = i)

(* A call for j changes nothing of i: j is in the family of an instance     *)
(* that i has started and that is not, or no longer, linked to i.           *)
Guarded(d, j, i) == \E k \in Kids(i) : Unlinked(d, k) /\ j \in Family(k)

High == {"fail", "compensate", "parent", "giveback"}
LinkReady(d, c) ==
  /\ c.k \in Slots(d, c.i) /\ d.inst[c.i] \in OpenInst
  /\ d.stages[c.i][c.k].kind = "subprocess" /\ d.stages[c.i][c.k].row = "none"
  /\ d.stages[c.i][c.k].status = "waiting_external"
  /\ d.inst[Child(d, c.i, c.k)] # "absent" /\ Unlinked(d, Child(d, c.i, c.k))
Stopping(d, i) ==
  d.inst[i] \in OpenInst /\ Live(d, i) = {} /\ \A k \in Slots(d, i) : d.stages[i][k].row # "waiting"
Each(d, c) ==
  /\ c.method = "advance" => c.n \in NodesOf[c.i]
  /\ Going(d, c) => d.inst[c.i] \in OpenInst
  /\ c.method = "stop" => Stopping(d, c.i)
  /\ c.method = "link" => LinkReady(d, c)
  /\ c.method = "giveback" => c.k \in Slots(d, c.i) /\ d.stages[c.i][c.k].status = "running"
  /\ c.method = "compensate" => d.inst[c.i] = "compensating"

CalmCall(C, c, i) == c.i = i /\ (c.method = "sync" \/ (c.method = "advance" /\ c.n \in C))
Before(C, d, b, c) ==
  /\ c.method \notin High
  /\ b.method # "giveback"
  /\ c.method \in {"stop", "link"} => Guarded(d, b.i, c.i)
  /\ Going(d, c) => CalmCall(C, b, c.i)
InOrder(C, d, s) ==
  /\ \A x \in DOMAIN s : Each(d, s[x])
  /\ \A x, y \in DOMAIN s : x < y => Before(C, d, s[x], s[y])

(* What a call for i must do for the calls that are left.                   *)
CalmHead(C, d, c) ==
  d.inst[c.i] \in OpenInst /\ (c.method = "sync" \/ (Going(d, c) /\ c.n \in C))
StepOK(C, d, e, i, calm, u) ==
  /\ AllFit(e)
  /\ \A j \in Instances : Same(d, e, j) \/ Near(d, i, j)
  /\ \A x \in DOMAIN u : Near(d, i, u[x].i) /\ u[x].method # "giveback"
  /\ \A p \in Instances : p # i => RunningLinks(e, p) \subseteq RunningLinks(d, p)
  /\ calm => e.inst[i] \in OpenInst /\ \A x \in DOMAIN u : CalmCall(C, u[x], i)
  /\ InOrder(C, e, u)

LEMMA LinkedIs ==
  ASSUME NEW d \in Db, AllFit(d), NEW p \in Instances, NEW k \in RunningLinks(d, p)
  PROVE  /\ Child(d, p, k) \in Kids(p) /\ Child(d, p, k) \in Instances
         /\ d.inst[p] \in OpenInst /\ k \in Slots(d, p)
<1>1. k \in Slots(d, p) /\ d.stages[p][k].row = "running" /\ d.stages[p][k].kind = "subprocess"
  BY DEF RunningLinks
<1>2. d.stages[p][k].node \in NodesOf[p] /\ d.inst[p] \in OpenInst
  BY <1>1 DEF AllFit, Fits, StageFits
<1>3. d.stages[p][k].node \in DOMAIN ChildOf /\ Child(d, p, k) \in Instances  BY <1>1, ChildIs
<1>4. QED  BY <1>1, <1>2, <1>3 DEF Kids, Child

(* Whoever is guarded against a call is guarded against all that is near.   *)
LEMMA GuardedNear ==
  ASSUME NEW d \in Db, AllFit(d), NEW i \in Instances, NEW j \in Instances, Guarded(d, j, i),
         NEW l, Near(d, j, l)
  PROVE  Guarded(d, l, i)
<1>1. PICK k \in Kids(i) : Unlinked(d, k) /\ j \in Family(k)  BY DEF Guarded
<1>2. k \in Instances  BY KidsAre
<1>3. CASE l = j  BY <1>3
<1>4. CASE l \in Kids(j)
  <2>1. l \in Family(k)  BY <1>1, <1>2, <1>4, FamilyIs
  <2>2. QED  BY <1>1, <2>1 DEF Guarded
<1>5. ASSUME NEW m \in RunningLinks(d, l), Child(d, l, m) = j PROVE Guarded(d, l, i)
  <2>1. l \in Instances  BY DEF Near
  <2>2. j # k  BY <1>1, <1>5, <2>1 DEF Unlinked
  <2>3. PICK p \in Family(k) : j \in Kids(p)  BY <1>1, <1>2, <2>2, FamilyIs
  <2>4. j \in Kids(l)  BY <1>5, <2>1, LinkedIs
  <2>5. p \in Instances  BY <1>2, FamilyIs
  <2>6. p = l  BY <2>1, <2>3, <2>4, <2>5, KidsAre
  <2>7. QED  BY <1>1, <2>3, <2>6 DEF Guarded
<1>6. QED  BY <1>3, <1>4, <1>5 DEF Near

LEMMA GuardedOther ==
  ASSUME NEW d, NEW i \in Instances, NEW j, Guarded(d, j, i)
  PROVE  j # i /\ j \in Instances
<1>1. PICK k \in Kids(i) : Unlinked(d, k) /\ j \in Family(k)  BY DEF Guarded
<1>2. k \in Instances /\ i \notin Family(k)  BY KidsAre
<1>3. QED  BY <1>1, <1>2, FamilyIs

LEMMA GuardedStays ==
  ASSUME NEW d \in Db, NEW e \in Db, Grows(d, e), AllFit(e), NEW i \in Instances, NEW l \in Instances,
         i # l, \A p \in Instances : p # l => RunningLinks(e, p) \subseteq RunningLinks(d, p)
  PROVE  /\ \A k \in Kids(i) : Unlinked(d, k) => Unlinked(e, k)
         /\ \A j : Guarded(d, j, i) => Guarded(e, j, i)
<1>1. ASSUME NEW k \in Kids(i), Unlinked(d, k), NEW p \in Instances, NEW m \in RunningLinks(e, p),
             Child(e, p, m) = k
      PROVE  FALSE
  <2>1. k \in Kids(p)  BY <1>1, LinkedIs
  <2>2. p = i  BY <1>1, <2>1, KidsAre
  <2>3. m \in RunningLinks(d, p)  BY <2>2
  <2>4. m \in Slots(d, p) /\ Kept(d, e, p, m)  BY <2>3 DEF RunningLinks, Grows, GrowsAt
  <2>5. Child(d, p, m) = k  BY <1>1, <2>4 DEF Kept, Child
  <2>6. QED  BY <1>1, <2>3, <2>5 DEF Unlinked
<1>2. \A k \in Kids(i) : Unlinked(d, k) => Unlinked(e, k)  BY <1>1 DEF Unlinked
<1>3. QED  BY <1>2 DEF Guarded

(***************************************************************************)
(* The calls that are left stay in order.                                  *)
(***************************************************************************)
LEMMA GoingLess ==
  ASSUME NEW d \in Db, NEW e \in Db, Grows(d, e), NEW c, c.i \in Instances, Going(e, c)
  PROVE  Going(d, c)
<1>1. d.moves[c.i] <= e.moves[c.i]  BY DEF Grows, GrowsAt
<1>2. d.moves[c.i] \in 0..MaxMoves /\ e.moves[c.i] \in 0..MaxMoves  BY DEF Db
<1>3. MaxMoves \in Nat  BY LimitsAssumption
<1>4. e.moves[c.i] # MaxMoves  BY DEF Going
<1>5. d.moves[c.i] # MaxMoves  BY <1>1, <1>2, <1>3, <1>4
<1>6. QED  BY <1>5 DEF Going

(* A guarded instance stays as it is.                                       *)
LEMMA GuardedSame ==
  ASSUME NEW C, NEW d \in Db, NEW e, AllFit(d), NEW i \in Instances, NEW l \in Instances, NEW calm, NEW u,
         StepOK(C, d, e, l, calm, u), Guarded(d, l, i)
  PROVE  Same(d, e, i) /\ i # l
<1>1. i # l  BY GuardedOther
<1>2. ASSUME Near(d, l, i) PROVE FALSE
  <2>1. Guarded(d, i, i)  BY <1>2, GuardedNear
  <2>2. QED  BY <2>1, GuardedOther
<1>3. QED  BY <1>1, <1>2 DEF StepOK

(* A call that is made leaves those after it as they must be.               *)
LEMMA RestEach ==
  ASSUME NEW C, NEW d \in Db, NEW e \in Db, Grows(d, e), AllFit(d), NEW c, c.i \in Instances, NEW u,
         StepOK(C, d, e, c.i, CalmHead(C, d, c), u),
         NEW r \in Calls, Each(d, r), Before(C, d, c, r)
  PROVE  Each(e, r)
<1>1. r.i \in Instances /\ AllFit(e)  BY CallFields DEF StepOK
<1>2. r.method \notin High  BY DEF Before
<1>3. r.method = "advance" => r.n \in NodesOf[r.i]  BY DEF Each
<1>4. ASSUME Going(e, r) PROVE e.inst[r.i] \in OpenInst
  <2>1. Going(d, r)  BY <1>1, <1>4, GoingLess
  <2>2. d.inst[r.i] \in OpenInst /\ CalmCall(C, c, r.i)  BY <2>1 DEF Each, Before
  <2>3. c.i = r.i /\ d.moves[c.i] # MaxMoves  BY <2>1, <2>2 DEF CalmCall, Going
  <2>4. CalmHead(C, d, c)  BY <2>2, <2>3 DEF CalmHead, CalmCall, Going
  <2>5. QED  BY <2>3, <2>4 DEF StepOK
<1>5. ASSUME r.method \in {"stop", "link"}
      PROVE  Same(d, e, r.i) /\ \A k \in Kids(r.i) : Unlinked(d, k) => Unlinked(e, k)
  <2>1. Guarded(d, c.i, r.i)  BY <1>5 DEF Before
  <2>2. Same(d, e, r.i) /\ r.i # c.i  BY <1>1, <2>1, GuardedSame
  <2>3. \A p \in Instances : p # c.i => RunningLinks(e, p) \subseteq RunningLinks(d, p)  BY DEF StepOK
  <2>4. \A k \in Kids(r.i) : Unlinked(d, k) => Unlinked(e, k)  BY <1>1, <2>2, <2>3, GuardedStays
  <2>5. QED  BY <2>2, <2>4
<1>6. ASSUME r.method = "stop" PROVE Stopping(e, r.i)
  <2>1. Stopping(d, r.i)  BY <1>6 DEF Each
  <2>2. Same(d, e, r.i)  BY <1>5, <1>6
  <2>3. QED  BY <2>1, <2>2 DEF Stopping, Same, Live, Slots
<1>7. ASSUME r.method = "link" PROVE LinkReady(e, r)
  <2>1. LinkReady(d, r)  BY <1>7 DEF Each
  <2>2. Same(d, e, r.i)  BY <1>5, <1>7
  <2>3. r.k \in Slots(d, r.i) /\ d.stages[r.i][r.k].kind = "subprocess"  BY <2>1 DEF LinkReady
  <2>4. Child(d, r.i, r.k) \in Instances /\ d.stages[r.i][r.k].node \in DOMAIN ChildOf  BY <1>1, <2>3, ChildIs
  <2>5. d.stages[r.i][r.k].node \in NodesOf[r.i]  BY <1>1, <2>3 DEF AllFit, Fits, StageFits
  <2>6. Child(d, r.i, r.k) \in Kids(r.i)  BY <2>4, <2>5 DEF Kids, Child
  <2>7. Unlinked(e, Child(d, r.i, r.k))  BY <1>5, <1>7, <2>1, <2>6 DEF LinkReady
  <2>8. e.inst[Child(d, r.i, r.k)] # "absent"  BY <2>1, <2>4 DEF LinkReady, Grows, GrowsAt
  <2>9. Child(e, r.i, r.k) = Child(d, r.i, r.k)  BY <2>2 DEF Same, Child
  <2>10. r.k \in Slots(e, r.i) /\ e.inst[r.i] \in OpenInst /\ e.stages[r.i] = d.stages[r.i]
    BY <2>1, <2>2 DEF LinkReady, Same, Slots
  <2>11. QED  BY <2>1, <2>7, <2>8, <2>9, <2>10 DEF LinkReady
<1>8. QED  BY <1>2, <1>3, <1>4, <1>6, <1>7 DEF Each, High

LEMMA RestBefore ==
  ASSUME NEW C, NEW d \in Db, NEW e \in Db, Grows(d, e), AllFit(d), NEW c, c.i \in Instances, NEW u,
         StepOK(C, d, e, c.i, CalmHead(C, d, c), u),
         NEW b, NEW r \in Calls, Before(C, d, c, r), Before(C, d, b, r)
  PROVE  Before(C, e, b, r)
<1>1. r.i \in Instances /\ AllFit(e)  BY CallFields DEF StepOK
<1>2. ASSUME r.method \in {"stop", "link"} PROVE Guarded(e, b.i, r.i)
  <2>1. Guarded(d, c.i, r.i) /\ Guarded(d, b.i, r.i)  BY <1>2 DEF Before
  <2>2. r.i # c.i  BY <1>1, <2>1, GuardedOther
  <2>3. \A p \in Instances : p # c.i => RunningLinks(e, p) \subseteq RunningLinks(d, p)  BY DEF StepOK
  <2>4. QED  BY <1>1, <2>1, <2>2, <2>3, GuardedStays
<1>3. Going(e, r) => Going(d, r)  BY <1>1, GoingLess
<1>4. QED  BY <1>2, <1>3 DEF Before

LEMMA NewBefore ==
  ASSUME NEW C, NEW d \in Db, NEW e \in Db, Grows(d, e), AllFit(d), NEW c, c.i \in Instances, NEW u,
         StepOK(C, d, e, c.i, CalmHead(C, d, c), u),
         NEW x \in DOMAIN u, NEW r \in Calls, Each(d, r), Before(C, d, c, r)
  PROVE  Before(C, e, u[x], r)
<1>1. r.i \in Instances /\ AllFit(e)  BY CallFields DEF StepOK
<1>2. ASSUME r.method \in {"stop", "link"} PROVE Guarded(e, u[x].i, r.i)
  <2>1. Guarded(d, c.i, r.i)  BY <1>2 DEF Before
  <2>2. Near(d, c.i, u[x].i)  BY DEF StepOK
  <2>3. Guarded(d, u[x].i, r.i)  BY <1>1, <2>1, <2>2, GuardedNear
  <2>4. r.i # c.i  BY <1>1, <2>1, GuardedOther
  <2>5. \A p \in Instances : p # c.i => RunningLinks(e, p) \subseteq RunningLinks(d, p)  BY DEF StepOK
  <2>6. QED  BY <1>1, <2>3, <2>4, <2>5, GuardedStays
<1>3. ASSUME Going(e, r) PROVE CalmCall(C, u[x], r.i)
  <2>1. Going(d, r)  BY <1>1, <1>3, GoingLess
  <2>2. d.inst[r.i] \in OpenInst /\ CalmCall(C, c, r.i)  BY <2>1 DEF Each, Before
  <2>3. c.i = r.i /\ d.moves[c.i] # MaxMoves  BY <2>1, <2>2 DEF CalmCall, Going
  <2>4. CalmHead(C, d, c)  BY <2>2, <2>3 DEF CalmHead, CalmCall, Going
  <2>5. QED  BY <2>3, <2>4 DEF StepOK
<1>4. u[x].method # "giveback" /\ r.method \notin High  BY DEF StepOK, Before
<1>5. QED  BY <1>2, <1>3, <1>4 DEF Before

LEMMA OrderThen ==
  ASSUME NEW C, NEW d \in Db, NEW s \in Seq(Calls), s # <<>>, InOrder(C, d, s), AllFit(d),
         NEW e \in Db, Grows(d, e), NEW u,
         StepOK(C, d, e, Head(s).i, CalmHead(C, d, Head(s)), u),
         NEW z, IsConcat(z, u, Tail(s))
  PROVE  InOrder(C, e, z)
<1> DEFINE c == Head(s)  R == Tail(s)
<1>1. /\ c = s[1] /\ 1 \in DOMAIN s /\ c \in Calls /\ R \in Seq(Calls)
      /\ \A x \in DOMAIN R : x + 1 \in DOMAIN s /\ R[x] = s[x + 1] /\ x \in Nat /\ x > 0
  <2>1. DOMAIN R = 1..(Len(s) - 1) /\ Len(s) \in Nat \ {0}  BY RestIs
  <2>2. \A x \in DOMAIN R : x \in Nat /\ x > 0  BY <2>1
  <2>3. QED  BY <2>2, RestIs
<1>2. c.i \in Instances  BY <1>1, CallFields
<1>3. \A x \in DOMAIN R : R[x] \in Calls /\ Each(d, R[x]) /\ Before(C, d, c, R[x])
  <2>1. TAKE x \in DOMAIN R
  <2>2. 1 < x + 1  BY <1>1
  <2>3. s[x + 1] \in Calls  BY <1>1
  <2>4. Each(d, s[x + 1]) /\ Before(C, d, s[1], s[x + 1])  BY <1>1, <2>2 DEF InOrder
  <2>5. QED  BY <1>1, <2>3, <2>4
<1>4. \A x, y \in DOMAIN R : x < y => Before(C, d, R[x], R[y])
  <2>1. TAKE x \in DOMAIN R, y \in DOMAIN R
  <2>2. HAVE x < y
  <2>3. x + 1 < y + 1  BY <1>1, <2>2
  <2>4. Before(C, d, s[x + 1], s[y + 1])  BY <1>1, <2>3 DEF InOrder
  <2>5. QED  BY <1>1, <2>4
<1> HIDE DEF c, R
<1>5. StepOK(C, d, e, c.i, CalmHead(C, d, c), u)  BY DEF c
<1>6. IsConcat(z, u, R)  BY DEF R
<1>7. \A x \in DOMAIN R : Each(e, R[x]) /\ \A y \in DOMAIN u : Before(C, e, u[y], R[x])
  <2>1. TAKE x \in DOMAIN R
  <2>2. Each(e, R[x])  BY <1>2, <1>3, <1>5, RestEach
  <2>3. \A y \in DOMAIN u : Before(C, e, u[y], R[x])  BY <1>2, <1>3, <1>5, NewBefore
  <2>4. QED  BY <2>2, <2>3
<1>8. \A x, y \in DOMAIN R : x < y => Before(C, e, R[x], R[y])
  <2>1. TAKE x \in DOMAIN R, y \in DOMAIN R
  <2>2. HAVE x < y
  <2>3. Before(C, d, R[x], R[y])  BY <1>4, <2>2
  <2>4. QED  BY <1>2, <1>3, <1>5, <2>3, RestBefore
<1>9. InOrder(C, e, u)  BY <1>5 DEF StepOK
<1>10. ASSUME NEW x \in DOMAIN z PROVE Each(e, z[x])
  <2>1. CASE x \in DOMAIN u  BY <1>6, <1>9, <2>1 DEF IsConcat, InOrder
  <2>2. CASE x \notin DOMAIN u
    <3>1. PICK l \in DOMAIN R : x = Len(u) + l  BY <1>6, <2>2 DEF IsConcat
    <3>2. z[x] = R[l]  BY <1>6, <3>1 DEF IsConcat
    <3>3. QED  BY <1>7, <3>2
  <2>3. QED  BY <2>1, <2>2
<1>11. ASSUME NEW x \in DOMAIN z, NEW y \in DOMAIN z, x < y PROVE Before(C, e, z[x], z[y])
  <2>1. CASE y \in DOMAIN u
    <3>1. x \in DOMAIN u
      <4>1. DOMAIN u = 1..Len(u) /\ Len(u) \in Nat /\ DOMAIN z = 1..Len(z) /\ Len(z) \in Nat
        BY <1>6 DEF IsConcat
      <4>2. QED  BY <1>11, <2>1, <4>1
    <3>2. z[x] = u[x] /\ z[y] = u[y]  BY <1>6, <2>1, <3>1 DEF IsConcat
    <3>3. Before(C, e, u[x], u[y])  BY <1>9, <1>11, <2>1, <3>1 DEF InOrder
    <3>4. QED  BY <3>2, <3>3
  <2>2. CASE y \notin DOMAIN u
    <3>1. PICK l \in DOMAIN R : y = Len(u) + l  BY <1>6, <2>2 DEF IsConcat
    <3>2. z[y] = R[l]  BY <1>6, <3>1 DEF IsConcat
    <3>3. CASE x \in DOMAIN u
      <4>1. z[x] = u[x]  BY <1>6, <3>3 DEF IsConcat
      <4>2. QED  BY <1>7, <3>2, <3>3, <4>1
    <3>4. CASE x \notin DOMAIN u
      <4>1. PICK m \in DOMAIN R : x = Len(u) + m  BY <1>6, <3>4 DEF IsConcat
      <4>2. z[x] = R[m]  BY <1>6, <4>1 DEF IsConcat
      <4>3. m < l
        <5>1. Len(u) \in Nat /\ m \in Nat /\ l \in Nat  BY <1>6 DEF IsConcat
        <5>2. QED  BY <1>11, <3>1, <4>1, <5>1
      <4>4. QED  BY <1>8, <3>2, <4>2, <4>3
    <3>5. QED  BY <3>3, <3>4
  <2>3. QED  BY <2>1, <2>2
<1>12. QED  BY <1>10, <1>11 DEF InOrder

(***************************************************************************)
(* What a call for an open instance leaves.                                *)
(***************************************************************************)
LEMMA StageFitsOn ==
  ASSUME NEW d \in Db, NEW e, Grows(d, e), NEW i \in Instances, NEW k \in Slots(d, i),
         StageFits(d, i, d.stages[i][k]),
         \/ e.inst[i] = d.inst[i]
         \/ d.inst[i] \in OpenInst /\ e.inst[i] \in OpenInst
  PROVE  StageFits(e, i, d.stages[i][k])
<1> DEFINE st == d.stages[i][k]
<1>1. StageFits(d, i, st)  OBVIOUS
<1>2. st.row = "running" => ChildOf[st.node] \in Instances
  <2>1. HAVE st.row = "running"
  <2>2. st.kind = "subprocess"  BY <1>1, <2>1 DEF StageFits
  <2>3. Child(d, i, k) \in Instances  BY <2>2, ChildIs
  <2>4. QED  BY <2>3 DEF Child
<1> HIDE DEF st
<1>3. \A j \in Instances : d.inst[j] # "absent" => e.inst[j] # "absent"  BY DEF Grows, GrowsAt
<1>4. "compensating" \notin OpenInst  BY DEF OpenInst
<1>5. StageFits(e, i, st)  BY <1>1, <1>2, <1>3, <1>4 DEF StageFits
<1>6. QED  BY <1>5 DEF st

LEMMA FitsSame ==
  ASSUME NEW d \in Db, NEW e, Grows(d, e), NEW i \in Instances, Fits(d, i), Same(d, e, i)
  PROVE  Fits(e, i)
<1>1. HeadFits(e, i)  BY DEF Fits, HeadFits, Same, Live
<1>2. \A k \in Slots(d, i) : StageFits(e, i, d.stages[i][k])  BY StageFitsOn DEF Fits, Same
<1>3. QED  BY <1>1, <1>2 DEF Fits, Same, Slots

LEMMA FitsOpen ==
  ASSUME NEW d \in Db, NEW e, Grows(d, e), NEW i \in Instances, Fits(d, i),
         d.inst[i] \in OpenInst, e.inst[i] \in OpenInst, e.error[i] = d.error[i],
         \A k \in Slots(e, i) :
           (k \in Slots(d, i) /\ e.stages[i][k] = d.stages[i][k]) \/ StageFits(e, i, e.stages[i][k])
  PROVE  Fits(e, i)
<1>1. "absent" \notin OpenInst /\ OpenInst \cap Stopped = {}  BY DEF OpenInst, Stopped
<1>2. HeadFits(e, i)  BY <1>1 DEF HeadFits, Fits
<1>3. \A k \in Slots(d, i) : StageFits(e, i, d.stages[i][k])  BY StageFitsOn DEF Fits
<1>4. QED  BY <1>2, <1>3 DEF Fits

LEMMA FitsBut ==
  ASSUME NEW d \in Db, NEW e, NEW I, AllFit(d), Touches(d, e, I), \A j \in I \cap Instances : Fits(e, j)
  PROVE  AllFit(e)
<1>1. Grows(d, e)  BY DEF Touches
<1>2. ASSUME NEW j \in Instances, j \notin I PROVE Fits(e, j)
  <2>1. Same(d, e, j)  BY <1>2 DEF Touches
  <2>2. Fits(d, j)  BY DEF AllFit
  <2>3. QED  BY <1>1, <2>1, <2>2, FitsSame
<1>3. QED  BY <1>2 DEF AllFit

CallsNear(d, i, u) == \A x \in DOMAIN u : Near(d, i, u[x].i) /\ u[x].method # "giveback"
CallsCalm(C, d, i, u) == d.inst[i] \in OpenInst /\ \A x \in DOMAIN u : CalmCall(C, u[x], i)

LEMMA StepOne ==
  ASSUME NEW C, NEW d \in Db, NEW e, NEW i \in Instances, AllFit(d), Touches(d, e, {i}), Fits(e, i),
         NEW u, CallsNear(d, i, u), InOrder(C, e, u), NEW calm, calm => CallsCalm(C, e, i, u)
  PROVE  StepOK(C, d, e, i, calm, u)
<1>1. AllFit(e)  BY FitsBut
<1>2. \A j \in Instances : j # i => Same(d, e, j)  BY DEF Touches
<1>3. \A j \in Instances : Same(d, e, j) \/ Near(d, i, j)  BY <1>2 DEF Near
<1>4. \A p \in Instances : p # i => RunningLinks(e, p) \subseteq RunningLinks(d, p)
  BY <1>2 DEF RunningLinks, Same, Slots
<1>5. \A x \in DOMAIN u : Near(d, i, u[x].i) /\ u[x].method # "giveback"  BY DEF CallsNear
<1>6. calm => e.inst[i] \in OpenInst /\ \A x \in DOMAIN u : CalmCall(C, u[x], i)  BY DEF CallsCalm
<1>7. QED  BY <1>1, <1>3, <1>4, <1>5, <1>6 DEF StepOK

LEMMA TouchesSelf ==
  ASSUME NEW d \in Db, NEW e, NEW i \in Instances, Still(d, e)
  PROVE  Touches(d, e, {i})
<1>1. e \in Db /\ e.moves = d.moves /\ \A j \in Instances : Same(d, e, j)  BY DEF Still, Touches
<1>2. QED  BY <1>1, GrowsSelf

LEMMA NoOrder ==
  ASSUME NEW C, NEW d, NEW e, NEW i
  PROVE  InOrder(C, e, <<>>) /\ CallsNear(d, i, <<>>) /\ (e.inst[i] \in OpenInst => CallsCalm(C, e, i, <<>>))
BY DEF InOrder, CallsNear, CallsCalm

LEMMA OneOrder ==
  ASSUME NEW C, NEW d, NEW e, NEW i, NEW c, Each(e, c), Near(d, i, c.i), c.method # "giveback"
  PROVE  /\ InOrder(C, e, <<c>>) /\ CallsNear(d, i, <<c>>)
         /\ e.inst[i] \in OpenInst /\ CalmCall(C, c, i) => CallsCalm(C, e, i, <<c>>)
<1>1. DOMAIN <<c>> = {1} /\ <<c>>[1] = c  OBVIOUS
<1>2. InOrder(C, e, <<c>>)
  <2>1. \A x, y \in {1} : ~(x < y)  OBVIOUS
  <2>2. QED  BY <1>1, <2>1 DEF InOrder
<1>3. QED  BY <1>1, <1>2 DEF CallsNear, CallsCalm

LEMMA TwoOrder ==
  ASSUME NEW C, NEW d, NEW e, NEW i, NEW b, NEW c, Each(e, b), Each(e, c), Before(C, e, b, c),
         Near(d, i, b.i), Near(d, i, c.i), b.method # "giveback", c.method # "giveback"
  PROVE  InOrder(C, e, <<b, c>>) /\ CallsNear(d, i, <<b, c>>)
<1>1. DOMAIN <<b, c>> = {1, 2} /\ <<b, c>>[1] = b /\ <<b, c>>[2] = c  OBVIOUS
<1>2. InOrder(C, e, <<b, c>>)
  <2>1. \A x, y \in {1, 2} : x < y => x = 1 /\ y = 2  OBVIOUS
  <2>2. \A x \in DOMAIN <<b, c>> : Each(e, <<b, c>>[x])  BY <1>1
  <2>3. \A x, y \in DOMAIN <<b, c>> : x < y => Before(C, e, <<b, c>>[x], <<b, c>>[y])  BY <1>1, <2>1
  <2>4. QED  BY <2>2, <2>3 DEF InOrder
<1>3. QED  BY <1>1, <1>2 DEF CallsNear

(* The fields of the calls.                                                 *)
LEMMA CallsGive ==
  ASSUME NEW i, NEW t, NEW n, NEW s, NEW k
  PROVE  /\ ToAdvance(i, t, n).method = "advance" /\ ToAdvance(i, t, n).i = i
         /\ ToAdvance(i, t, n).t = t /\ ToAdvance(i, t, n).n = n
         /\ ToFail(i, s).method = "fail" /\ ToFail(i, s).i = i
         /\ ToStop(i, s).method = "stop" /\ ToStop(i, s).i = i
         /\ ToCompensate(i).method = "compensate" /\ ToCompensate(i).i = i
         /\ ToParent(i).method = "parent" /\ ToParent(i).i = i
         /\ ToSync(i).method = "sync" /\ ToSync(i).i = i
         /\ ToLink(i, k).method = "link" /\ ToLink(i, k).i = i /\ ToLink(i, k).k = k
BY DEF ToAdvance, ToFail, ToStop, ToCompensate, ToParent, ToSync, ToLink

LEMMA EachAre ==
  ASSUME NEW e, NEW i \in Instances
  PROVE  /\ \A t, n : n \in NodesOf[i] /\ e.inst[i] \in OpenInst => Each(e, ToAdvance(i, t, n))
         /\ \A s : Each(e, ToFail(i, s))
         /\ Each(e, ToParent(i)) /\ Each(e, ToSync(i))
         /\ \A s : Stopping(e, i) => Each(e, ToStop(i, s))
         /\ e.inst[i] = "compensating" => Each(e, ToCompensate(i))
<1>1. \A t, n : n \in NodesOf[i] /\ e.inst[i] \in OpenInst => Each(e, ToAdvance(i, t, n))
  BY CallsGive DEF Each, Going
<1>2. \A s : Each(e, ToFail(i, s))  BY CallsGive DEF Each, Going
<1>3. Each(e, ToParent(i)) /\ Each(e, ToSync(i))
  <2>1. Each(e, ToParent(i))  BY CallsGive DEF Each, Going
  <2>2. Each(e, ToSync(i))  BY CallsGive DEF Each, Going
  <2>3. QED  BY <2>1, <2>2
<1>4. \A s : Stopping(e, i) => Each(e, ToStop(i, s))  BY CallsGive DEF Each, Going
<1>5. e.inst[i] = "compensating" => Each(e, ToCompensate(i))  BY CallsGive DEF Each, Going
<1>6. QED  BY <1>1, <1>2, <1>3, <1>4, <1>5

LEMMA NearSelf ==
  ASSUME NEW d, NEW i \in Instances
  PROVE  Near(d, i, i)
BY DEF Near

(***************************************************************************)
(* A token enters a node.                                                  *)
(***************************************************************************)
Entering(d, i, t, n) == AllFit(d) /\ d.inst[i] \in OpenInst /\ t \in Token /\ n \in NodesOf[i]

LEMMA NextNode ==
  ASSUME NEW i \in Instances, NEW n \in NodesOf[i]
  PROVE  n \in GNodes /\ \A b \in DOMAIN To(n) : To(n)[b] \in NodesOf[i]
BY GraphAssumption

LEMMA CalmKinds ==
  ASSUME NEW C, CalmBy(C), NEW n \in C
  PROVE  /\ n \in GNodes /\ n \notin Fragile /\ Kind(n) \notin {"join", "end", "subprocess"}
         /\ Kind(n) \in {"start", "condition", "loop", "internal", "fork"} =>
              \A b \in DOMAIN To(n) : To(n)[b] \in C
<1>1. n \in GNodes /\ n \notin Fragile  BY DEF CalmBy
<1>2. Queues(n) \/ (Passes(n) /\ \A b \in DOMAIN To(n) : To(n)[b] \in C)  BY DEF CalmBy
<1>3. QED  BY <1>1, <1>2 DEF Queues, Passes, StageKinds

LEMMA PassStep ==
  ASSUME NEW C, CalmBy(C), NEW d \in Db, NEW e, NEW i \in Instances, NEW t, NEW n, Entering(d, i, t, n),
         NEW u, PassCase(d, e, i, t, n, u)
  PROVE  StepOK(C, d, e, i, n \in C, u)
<1>1. Touches(d, e, {i}) /\ Same(d, e, i) /\ Grows(d, e)
  <2>1. Still(d, e)  BY DEF PassCase
  <2>2. QED  BY <2>1, TouchesSelf DEF Still, Touches
<1>2. AllFit(d) /\ Fits(e, i) /\ e.inst[i] \in OpenInst
  <2>1. AllFit(d) /\ Fits(d, i)  BY DEF Entering, AllFit
  <2>2. Fits(e, i)  BY <1>1, <2>1, FitsSame
  <2>3. QED  BY <1>1, <2>1, <2>2 DEF Entering, Same
<1>3. PICK m : u = <<ToAdvance(i, t, m)>> /\ (m = n \/ \E b \in DOMAIN To(n) : m = To(n)[b])
  BY DEF PassCase
<1>4. m \in NodesOf[i]  BY <1>3, NextNode DEF Entering
<1> DEFINE c == ToAdvance(i, t, m)
<1>5. c.method = "advance" /\ c.i = i /\ c.n = m  BY CallsGive
<1>6. Each(e, c)  BY <1>2, <1>4, EachAre
<1> HIDE DEF c
<1>7. n \in C => m \in C
  <2>1. Kind(n) \in {"start", "condition", "loop", "subprocess"}  BY DEF PassCase
  <2>2. QED  BY <1>3, <2>1, CalmKinds
<1>8. n \in C => CalmCall(C, c, i)  BY <1>5, <1>7 DEF CalmCall
<1>9. Near(d, i, c.i) /\ c.method # "giveback"  BY <1>5, NearSelf
<1>10. u = <<c>>  BY <1>3 DEF c
<1>11. InOrder(C, e, u) /\ CallsNear(d, i, u) /\ (n \in C => CallsCalm(C, e, i, u))
  BY <1>2, <1>6, <1>8, <1>9, <1>10, OneOrder
<1>12. QED  BY <1>1, <1>2, <1>11, StepOne

LEMMA FailCalls ==
  ASSUME NEW C, NEW d, NEW e, NEW i \in Instances, NEW s
  PROVE  InOrder(C, e, <<ToFail(i, s)>>) /\ CallsNear(d, i, <<ToFail(i, s)>>)
<1> DEFINE c == ToFail(i, s)
<1>1. c.method = "fail" /\ c.i = i  BY CallsGive
<1>2. Each(e, c)  BY EachAre
<1> HIDE DEF c
<1>3. Near(d, i, c.i) /\ c.method # "giveback"  BY <1>1, NearSelf
<1>4. InOrder(C, e, <<c>>) /\ CallsNear(d, i, <<c>>)  BY <1>2, <1>3, OneOrder
<1>5. QED  BY <1>4 DEF c

LEMMA FailStep ==
  ASSUME NEW C, CalmBy(C), NEW d \in Db, NEW e, NEW i \in Instances, NEW t, NEW n, Entering(d, i, t, n),
         NEW u, FailCase(d, e, i, n, u)
  PROVE  StepOK(C, d, e, i, n \in C, u)
<1>1. Touches(d, e, {i}) /\ Same(d, e, i) /\ Grows(d, e)
  <2>1. Still(d, e)  BY DEF FailCase
  <2>2. QED  BY <2>1, TouchesSelf DEF Still, Touches
<1>2. AllFit(d) /\ Fits(e, i)
  <2>1. AllFit(d) /\ Fits(d, i)  BY DEF Entering, AllFit
  <2>2. QED  BY <1>1, <2>1, FitsSame
<1>3. u = <<ToFail(i, "failed")>>  BY DEF FailCase
<1>4. InOrder(C, e, u) /\ CallsNear(d, i, u)  BY <1>3, FailCalls
<1>5. n \in C => CallsCalm(C, e, i, u)
  <2>1. n \in Fragile \/ Kind(n) = "join"  BY DEF FailCase
  <2>2. n \notin C  BY <2>1, CalmKinds
  <2>3. QED  BY <2>2
<1>6. QED  BY <1>1, <1>2, <1>4, <1>5, StepOne

(* A stage is added to an open instance.                                    *)
LEMMA AddFits ==
  ASSUME NEW d \in Db, NEW e, NEW i \in Instances, NEW t, NEW n, Entering(d, i, t, n),
         NEW st, Added(d, e, i, st), e.inst[i] \in OpenInst, st.node = n,
         st.kind # "compensation", st.row = "waiting" => st.status = "waiting_external", st.row # "running"
  PROVE  Fits(e, i)
<1>1. Grows(d, e) /\ Fits(d, i) /\ d.inst[i] \in OpenInst /\ n \in NodesOf[i]
  BY DEF Added, Touches, Entering, AllFit
<1>2. e.error[i] = d.error[i]  BY DEF Added
<1>3. StageFits(e, i, st)  BY <1>1 DEF StageFits
<1>4. \A k \in Slots(e, i) :
        (k \in Slots(d, i) /\ e.stages[i][k] = d.stages[i][k]) \/ StageFits(e, i, e.stages[i][k])
  BY <1>3 DEF Added
<1>5. QED  BY <1>1, <1>2, <1>4, FitsOpen

LEMMA QueueStep ==
  ASSUME NEW C, CalmBy(C), NEW d \in Db, NEW e, NEW i \in Instances, NEW t, NEW n, Entering(d, i, t, n),
         NEW u, QueueCase(d, e, i, t, n, u)
  PROVE  StepOK(C, d, e, i, n \in C, u)
<1>1. PICK st \in StageSet, s \in {"queued", "waiting_approval", "waiting_external"} :
       /\ Added(d, e, i, st) /\ StandsAt(e, i, s)
       /\ st.node = n /\ st.token = t /\ st.status = s /\ st.lapsed = FALSE
       /\ st.kind \in {"agent", "http", "wait", "approval", "signal"}
       /\ st.row = (IF st.kind = "signal" THEN "waiting" ELSE "none")
       /\ st.kind = "signal" => s = "waiting_external"
  BY DEF QueueCase
<1>2. e.inst[i] \in OpenInst  BY <1>1 DEF StandsAt, OpenInst
<1>3. Fits(e, i)
  <2>1. st.kind # "compensation" /\ st.row # "running" /\ (st.row = "waiting" => st.status = "waiting_external")
    BY <1>1
  <2>2. QED  BY <1>1, <1>2, <2>1, AddFits
<1>4. u = <<>>  BY DEF QueueCase
<1>5. InOrder(C, e, u) /\ CallsNear(d, i, u) /\ CallsCalm(C, e, i, u)  BY <1>2, <1>4, NoOrder
<1>6. AllFit(d) /\ Touches(d, e, {i})  BY <1>1 DEF Entering, Added
<1>7. QED  BY <1>3, <1>5, <1>6, StepOne

LEMMA RunStep ==
  ASSUME NEW C, CalmBy(C), NEW d \in Db, NEW e, NEW i \in Instances, NEW t, NEW n, Entering(d, i, t, n),
         NEW u, RunCase(d, e, i, t, n, u)
  PROVE  StepOK(C, d, e, i, n \in C, u)
<1>1. PICK st \in StageSet :
       /\ Added(d, e, i, st)
       /\ st.node = n /\ st.token = t /\ st.status = "completed" /\ st.lapsed = FALSE
       /\ st.kind = "internal" /\ st.row = "none"
  BY DEF RunCase
<1>2. e.inst[i] \in OpenInst  BY DEF RunCase, Entering
<1>3. Fits(e, i)
  <2>1. st.kind # "compensation" /\ st.row # "running" /\ (st.row = "waiting" => st.status = "waiting_external")
    BY <1>1
  <2>2. QED  BY <1>1, <1>2, <2>1, AddFits
<1>4. AllFit(d) /\ Touches(d, e, {i})  BY <1>1 DEF Entering, Added
<1> DEFINE m == To(n)[1]  c == ToAdvance(i, t, m)
<1>5. n \in GNodes /\ n \in NodesOf[i] /\ Kind(n) = "internal"  BY NextNode DEF Entering, RunCase
<1>6. 1 \in DOMAIN To(n)
  <2>1. Kind(n) \in StageKinds \cup {"start", "join"}  BY <1>5 DEF StageKinds
  <2>2. QED  BY <1>5, <2>1, OneWay
<1>7. m \in NodesOf[i]  BY <1>5, <1>6, NextNode
<1>8. n \in C => m \in C  BY <1>5, <1>6, CalmKinds
<1>9. u = <<c>>  BY DEF RunCase
<1>10. c.method = "advance" /\ c.i = i /\ c.n = m  BY CallsGive
<1> HIDE DEF m
<1>11. Each(e, c)  BY <1>2, <1>7, EachAre
<1> HIDE DEF c
<1>12. n \in C => CalmCall(C, c, i)  BY <1>8, <1>10 DEF CalmCall
<1>13. Near(d, i, c.i) /\ c.method # "giveback"  BY <1>10, NearSelf
<1>14. InOrder(C, e, u) /\ CallsNear(d, i, u) /\ (n \in C => CallsCalm(C, e, i, u))
  BY <1>2, <1>9, <1>11, <1>12, <1>13, OneOrder
<1>15. QED  BY <1>3, <1>4, <1>14, StepOne

LEMMA RefuseStep ==
  ASSUME NEW C, CalmBy(C), NEW d \in Db, NEW e, NEW i \in Instances, NEW t, NEW n, Entering(d, i, t, n),
         NEW u, RefuseCase(d, e, i, t, n, u)
  PROVE  StepOK(C, d, e, i, n \in C, u)
<1>1. PICK st \in StageSet : Added(d, e, i, st) /\ Waiting(st, n, t)  BY DEF RefuseCase
<1>2. e.inst[i] \in OpenInst  BY DEF RefuseCase, StandsAt, OpenInst
<1>3. Fits(e, i)
  <2>1. /\ st.kind # "compensation" /\ st.row # "running" /\ st.node = n
        /\ st.row = "waiting" => st.status = "waiting_external"
    BY <1>1 DEF Waiting
  <2>2. QED  BY <1>1, <1>2, <2>1, AddFits
<1>4. AllFit(d) /\ Touches(d, e, {i})  BY <1>1 DEF Entering, Added
<1>5. u = <<ToFail(i, "failed")>>  BY DEF RefuseCase
<1>6. InOrder(C, e, u) /\ CallsNear(d, i, u)  BY <1>5, FailCalls
<1>7. n \in C => CallsCalm(C, e, i, u)
  <2>1. n \in Fragile  BY DEF RefuseCase
  <2>2. n \notin C  BY <2>1, CalmKinds
  <2>3. QED  BY <2>2
<1>8. QED  BY <1>3, <1>4, <1>6, <1>7, StepOne

LEMMA BeginStep ==
  ASSUME NEW C, CalmBy(C), NEW d \in Db, NEW e, NEW i \in Instances, NEW t, NEW n, Entering(d, i, t, n),
         NEW u, BeginCase(d, e, i, t, n, u)
  PROVE  StepOK(C, d, e, i, n \in C, u)
<1> DEFINE c == ChildOf[n]  k == NextSlot(d, i)
<1>1. PICK b \in Db, st \in StageSet :
       /\ Added(d, b, i, st) /\ Waiting(st, n, t) /\ StandsAt(b, i, "waiting_external")
       /\ Started(b, e, c)
  BY DEF BeginCase
<1>2. n \in GNodes /\ n \in NodesOf[i] /\ Kind(n) = "subprocess" /\ d.inst[c] = "absent"
  BY NextNode DEF Entering, BeginCase
<1>3. n \in DOMAIN ChildOf /\ c \in Instances  BY <1>2, FamilyAssumption
<1>4. c \in Kids(i)  BY <1>2, <1>3 DEF Kids
<1>5. c \in Family(c) /\ c # i
  <2>1. c \in Family(c)  BY <1>3, FamilyIs
  <2>2. QED  BY <1>4, <2>1, KidsAre
<1>6. k \in Slots(b, i) /\ b.stages[i][k] = st  BY <1>1 DEF Added
<1> HIDE DEF c, k
<1>7. AllFit(d) /\ Touches(d, b, {i}) /\ Touches(b, e, {c}) /\ Grows(d, b) /\ Grows(b, e) /\ e \in Db
  BY <1>1 DEF Entering, Added, Started, Touches
<1>8. b.inst[i] \in OpenInst  BY <1>1 DEF StandsAt, OpenInst
<1>9. AllFit(b)
  <2>1. /\ st.kind # "compensation" /\ st.row # "running" /\ st.node = n
        /\ st.row = "waiting" => st.status = "waiting_external"
    BY <1>1 DEF Waiting
  <2>2. Fits(b, i)  BY <1>1, <1>8, <2>1, AddFits
  <2>3. QED  BY <1>7, <2>2, FitsBut
<1>10. Same(d, b, c)  BY <1>3, <1>5, <1>7 DEF Touches
<1>11. Same(b, e, i)  BY <1>5, <1>7 DEF Touches
<1>12. b.inst[c] = "absent" /\ b.stages[c] = <<>> /\ b.error[c] # TRUE
  <2>1. b.inst[c] = "absent"  BY <1>2, <1>10 DEF Same, c
  <2>2. HeadFits(b, c)  BY <1>3, <1>9 DEF AllFit, Fits
  <2>3. QED  BY <2>1, <2>2 DEF HeadFits, Stopped
<1>13. Fits(e, c)
  <2>1. e.inst[c] = "queued" /\ e.stages[c] = <<>> /\ e.error[c] # TRUE
    BY <1>1, <1>12 DEF Started, StandsAt
  <2>2. e.error[c] \in BOOLEAN  BY <1>3, <1>7 DEF Db
  <2>3. HeadFits(e, c)  BY <2>1, <2>2 DEF HeadFits, OpenInst
  <2>4. Slots(e, c) = {}  BY <2>1 DEF Slots
  <2>5. QED  BY <2>3, <2>4 DEF Fits
<1>14. AllFit(e)  BY <1>7, <1>9, <1>13, FitsBut
<1>15. \A j \in Instances : j # i /\ j # c => Same(d, e, j)
  <2>1. \A j \in Instances : j # i => Same(d, b, j)  BY <1>7 DEF Touches
  <2>2. \A j \in Instances : j # c => Same(b, e, j)  BY <1>7 DEF Touches
  <2>3. QED  BY <2>1, <2>2 DEF Same
<1>16. \A j \in Instances : Same(d, e, j) \/ Near(d, i, j)  BY <1>4, <1>15 DEF Near
<1>17. \A p \in Instances : p # i => e.stages[p] = d.stages[p]
  <2>1. e.stages[c] = d.stages[c]  BY <1>1, <1>10 DEF Started, Same
  <2>2. QED  BY <1>15, <2>1 DEF Same
<1>18. \A p \in Instances : p # i => RunningLinks(e, p) \subseteq RunningLinks(d, p)
  BY <1>17 DEF RunningLinks, Slots
<1>19. Unlinked(e, c)
  <2>1. \A p \in Instances : e.stages[p] = b.stages[p]
    <3>1. e.stages[c] = b.stages[c]  BY <1>1 DEF Started
    <3>2. \A p \in Instances : p # c => e.stages[p] = b.stages[p]  BY <1>7 DEF Touches, Same
    <3>3. QED  BY <3>1, <3>2
  <2>2. SUFFICES ASSUME NEW p \in Instances, NEW m \in RunningLinks(e, p), Child(e, p, m) = c PROVE FALSE
    BY DEF Unlinked
  <2>3. m \in Slots(b, p) /\ b.stages[p][m].row = "running" /\ ChildOf[b.stages[p][m].node] = c
    BY <2>1, <2>2 DEF RunningLinks, Slots, Child
  <2>4. b.inst[c] # "absent"  BY <1>9, <2>3 DEF AllFit, Fits, StageFits
  <2>5. QED  BY <1>12, <2>4
<1> DEFINE g == ToAdvance(c, Root, StartOf[c])  h == ToLink(i, k)
<1>20. g.method = "advance" /\ g.i = c /\ h.method = "link" /\ h.i = i /\ h.k = k  BY CallsGive
<1>21. Each(e, g)
  <2>1. StartOf[c] \in NodesOf[c]  BY <1>3, GraphAssumption
  <2>2. e.inst[c] \in OpenInst  BY <1>1 DEF Started, StandsAt, OpenInst
  <2>3. QED  BY <1>3, <2>1, <2>2, EachAre
<1> HIDE DEF g, h
<1>22. u = <<g, h>>  BY DEF BeginCase, g, h, c, k
<1>23. Each(e, h)
  <2>1. k \in Slots(e, i) /\ e.stages[i][k] = st /\ e.inst[i] \in OpenInst
    BY <1>6, <1>8, <1>11 DEF Same, Slots
  <2>2. st.kind = "subprocess" /\ st.row = "none" /\ st.status = "waiting_external" /\ st.node = n
    BY <1>1 DEF Waiting
  <2>3. Child(e, i, k) = c  BY <2>1, <2>2 DEF Child, c
  <2>4. e.inst[c] # "absent"  BY <1>1 DEF Started, StandsAt
  <2>5. LinkReady(e, h)  BY <1>19, <1>20, <2>1, <2>2, <2>3, <2>4 DEF LinkReady
  <2>6. QED  BY <1>20, <2>5 DEF Each, Going
<1>24. Before(C, e, g, h)
  <2>1. Guarded(e, c, i)  BY <1>4, <1>5, <1>19 DEF Guarded
  <2>2. QED  BY <1>20, <2>1 DEF Before, High, Going
<1>25. Near(d, i, g.i) /\ Near(d, i, h.i) /\ g.method # "giveback" /\ h.method # "giveback"
  BY <1>3, <1>4, <1>20 DEF Near
<1>26. InOrder(C, e, u) /\ CallsNear(d, i, u)  BY <1>21, <1>22, <1>23, <1>24, <1>25, TwoOrder
<1>27. n \notin C  BY <1>2, CalmKinds
<1>28. \A x \in DOMAIN u : Near(d, i, u[x].i) /\ u[x].method # "giveback"  BY <1>26 DEF CallsNear
<1>29. QED  BY <1>14, <1>16, <1>18, <1>26, <1>27, <1>28 DEF StepOK

(* The tokens of an open instance change, its stages stay.                  *)
LEMMA RetokenFits ==
  ASSUME NEW d \in Db, NEW e, NEW i \in Instances, AllFit(d), d.inst[i] \in OpenInst,
         Touches(d, e, {i}), e.inst[i] \in OpenInst, e.error[i] = d.error[i], e.stages[i] = d.stages[i]
  PROVE  Fits(e, i)
<1>1. Grows(d, e) /\ Fits(d, i)  BY DEF Touches, AllFit
<1>2. \A k \in Slots(e, i) : k \in Slots(d, i) /\ e.stages[i][k] = d.stages[i][k]  BY DEF Slots
<1>3. QED  BY <1>1, <1>2, FitsOpen

LEMMA IntervalIs ==
  ASSUME NEW M \in Nat, NEW N \in Nat, 1..M = 1..N
  PROVE  M = N
<1>1. (M > 0 => M \in 1..M) /\ (N > 0 => N \in 1..N)  OBVIOUS
<1>2. (M > 0 => M <= N) /\ (N > 0 => N <= M)  BY <1>1
<1>3. QED  BY <1>2

LEMMA ForkStep ==
  ASSUME NEW C, CalmBy(C), NEW d \in Db, NEW e, NEW i \in Instances, NEW t, NEW n, Entering(d, i, t, n),
         NEW u, ForkCase(d, e, i, t, n, u)
  PROVE  StepOK(C, d, e, i, n \in C, u)
<1>1. AllFit(d) /\ Touches(d, e, {i}) /\ Fits(e, i) /\ e.inst[i] \in OpenInst
  <2>1. Retokens(d, e, i)  BY DEF ForkCase, Marked
  <2>2. QED  BY <2>1, RetokenFits DEF Retokens, Entering
<1>2. n \in GNodes /\ n \in NodesOf[i] /\ Kind(n) = "fork"  BY NextNode DEF Entering, ForkCase
<1>3. PICK x \in Seq(Calls) :
        /\ IsConcat(u, x, <<ToSync(i)>>) /\ DOMAIN x = DOMAIN To(n)
        /\ \A b \in DOMAIN To(n) : x[b] = ToAdvance(i, Branch(t, n, b), To(n)[b])
  BY DEF ForkCase
<1>4. DOMAIN To(n) = 1..Len(To(n)) /\ Len(To(n)) \in 2..16
  <2>1. t \in Token  BY DEF Entering
  <2>2. QED  BY <1>2, <2>1, BranchesAre
<1> DEFINE N == Len(To(n))
<1>5. /\ N \in Nat /\ DOMAIN u = 1..(N + 1)
      /\ \A y \in 1..N : u[y] = ToAdvance(i, Branch(t, n, y), To(n)[y])
      /\ u[N + 1] = ToSync(i)
  <2>0. N \in Nat /\ N >= 2  BY <1>4
  <2>1. DOMAIN x = 1..Len(x) /\ Len(x) \in Nat /\ DOMAIN x = 1..N
    <3>1. DOMAIN x = 1..Len(x) /\ Len(x) \in Nat  BY <1>3 DEF IsConcat
    <3>2. DOMAIN x = 1..N  BY <1>3, <1>4
    <3>3. QED  BY <3>1, <3>2
  <2> HIDE DEF N
  <2>2. Len(x) = N  BY <2>0, <2>1, IntervalIs
  <2>3. Len(<<ToSync(i)>>) = 1 /\ 1 \in DOMAIN <<ToSync(i)>> /\ <<ToSync(i)>>[1] = ToSync(i)  OBVIOUS
  <2>4. DOMAIN u = 1..(N + 1) /\ u[N + 1] = ToSync(i)  BY <1>3, <2>2, <2>3 DEF IsConcat
  <2>5. \A y \in 1..N : u[y] = x[y]  BY <1>3, <2>1 DEF IsConcat
  <2>6. \A y \in 1..N : u[y] = ToAdvance(i, Branch(t, n, y), To(n)[y])  BY <1>3, <2>1, <2>5
  <2>7. QED  BY <2>0, <2>4, <2>6
<1> HIDE DEF N
<1>6. \A y \in 1..N : u[y].method = "advance" /\ u[y].i = i /\ u[y].n = To(n)[y]  BY <1>5, CallsGive
<1>7. u[N + 1].method = "sync" /\ u[N + 1].i = i  BY <1>5, CallsGive
<1>8. \A y \in DOMAIN u : y \in 1..N \/ y = N + 1  BY <1>5
<1>9. \A y \in 1..N : To(n)[y] \in NodesOf[i]  BY <1>2, <1>4, NextNode DEF N
<1>10. \A y \in DOMAIN u : Each(e, u[y])
  <2>1. Each(e, u[N + 1])  BY <1>5, EachAre
  <2>2. \A y \in 1..N : Each(e, u[y])  BY <1>1, <1>5, <1>9, EachAre
  <2>3. QED  BY <1>8, <2>1, <2>2
<1>11. \A y \in 1..N : y < N => To(n)[y] \in C  BY <1>2, <1>4 DEF CalmBy, N
<1>12. ASSUME NEW y \in DOMAIN u, NEW z \in DOMAIN u, y < z PROVE Before(C, e, u[y], u[z])
  <2>1. (y \in 1..N /\ y < N) \/ z = N + 1  BY <1>5, <1>12
  <2>2. y \in 1..N  BY <1>5, <1>12
  <2>3. CASE z = N + 1  BY <1>6, <1>7, <2>2, <2>3 DEF Before, High, Going
  <2>4. CASE y < N /\ z \in 1..N
    <3>1. CalmCall(C, u[y], i)  BY <1>6, <1>11, <2>2, <2>4 DEF CalmCall
    <3>2. QED  BY <1>6, <2>2, <2>4, <3>1 DEF Before, High
  <2>5. QED  BY <1>8, <2>1, <2>3, <2>4
<1>13. InOrder(C, e, u)  BY <1>10, <1>12 DEF InOrder
<1>14. CallsNear(d, i, u)  BY <1>6, <1>7, <1>8, NearSelf DEF CallsNear
<1>15. n \in C => CallsCalm(C, e, i, u)
  <2>1. HAVE n \in C
  <2>2. \A y \in 1..N : To(n)[y] \in C  BY <1>2, <1>4, <2>1, CalmKinds DEF N
  <2>3. \A y \in DOMAIN u : CalmCall(C, u[y], i)  BY <1>6, <1>7, <1>8, <2>2 DEF CalmCall
  <2>4. QED  BY <1>1, <2>3 DEF CallsCalm
<1>16. QED  BY <1>1, <1>13, <1>14, <1>15, StepOne

LEMMA WaitStep ==
  ASSUME NEW C, CalmBy(C), NEW d \in Db, NEW e, NEW i \in Instances, NEW t, NEW n, Entering(d, i, t, n),
         NEW u, WaitCase(d, e, i, t, n, u)
  PROVE  StepOK(C, d, e, i, n \in C, u)
<1>1. PICK b \in Db : TokenSet(d, b, i, t, "waiting_join") /\ Synced(b, e, i)  BY DEF WaitCase
<1>2. /\ Touches(d, b, {i}) /\ b.inst[i] = d.inst[i] /\ b.error[i] = d.error[i] /\ b.stages[i] = d.stages[i]
  BY <1>1 DEF TokenSet, Retokens
<1>3. AllFit(d) /\ d.inst[i] \in OpenInst  BY DEF Entering
<1>4. /\ Touches(b, e, {i}) /\ e.inst[i] \in OpenInst /\ e.error[i] = b.error[i] /\ e.stages[i] = b.stages[i]
  BY <1>1, <1>2, <1>3 DEF Synced
<1>5. Touches(d, e, {i})
  <2>1. e \in Db  BY <1>4 DEF Touches
  <2>2. QED  BY <1>2, <1>4, <2>1, TouchesBoth
<1>6. Fits(e, i)  BY <1>2, <1>3, <1>4, <1>5, RetokenFits
<1>7. u = <<>>  BY DEF WaitCase
<1>8. InOrder(C, e, u) /\ CallsNear(d, i, u) /\ CallsCalm(C, e, i, u)  BY <1>4, <1>7, NoOrder
<1>9. QED  BY <1>3, <1>5, <1>6, <1>8, StepOne

LEMMA LeaveStep ==
  ASSUME NEW C, CalmBy(C), NEW d \in Db, NEW e, NEW i \in Instances, NEW t, NEW n, Entering(d, i, t, n),
         NEW u, LeaveCase(d, e, i, t, n, u)
  PROVE  StepOK(C, d, e, i, n \in C, u)
<1>1. PICK b \in Db : TokenSet(d, b, i, t, "completed") /\ Synced(b, e, i)  BY DEF LeaveCase
<1>2. /\ Touches(d, b, {i}) /\ b.inst[i] = d.inst[i] /\ b.error[i] = d.error[i] /\ b.stages[i] = d.stages[i]
  BY <1>1 DEF TokenSet, Retokens
<1>3. AllFit(d) /\ d.inst[i] \in OpenInst  BY DEF Entering
<1>4. /\ Touches(b, e, {i}) /\ e.inst[i] \in OpenInst /\ e.error[i] = b.error[i] /\ e.stages[i] = b.stages[i]
  BY <1>1, <1>2, <1>3 DEF Synced
<1>5. Touches(d, e, {i})
  <2>1. e \in Db  BY <1>4 DEF Touches
  <2>2. QED  BY <1>2, <1>4, <2>1, TouchesBoth
<1>6. Fits(e, i)  BY <1>2, <1>3, <1>4, <1>5, RetokenFits
<1>7. u = <<>>  BY DEF LeaveCase
<1>8. InOrder(C, e, u) /\ CallsNear(d, i, u) /\ CallsCalm(C, e, i, u)  BY <1>4, <1>7, NoOrder
<1>9. QED  BY <1>3, <1>5, <1>6, <1>8, StepOne

LEMMA MergeStep ==
  ASSUME NEW C, CalmBy(C), NEW d \in Db, NEW e, NEW i \in Instances, NEW t, NEW n, Entering(d, i, t, n),
         NEW u, MergeCase(d, e, i, t, n, u)
  PROVE  StepOK(C, d, e, i, n \in C, u)
<1>1. PICK b \in Db :
        /\ TokenSet(d, b, i, t, "waiting_join")
        /\ Marked(b, e, i, Branches(Front(t), ForkOf[n]), "merged", Front(t), "active")
  BY DEF MergeCase
<1>2. /\ Touches(d, b, {i}) /\ b.inst[i] = d.inst[i] /\ b.error[i] = d.error[i] /\ b.stages[i] = d.stages[i]
  BY <1>1 DEF TokenSet, Retokens
<1>3. AllFit(d) /\ d.inst[i] \in OpenInst  BY DEF Entering
<1>4. /\ Touches(b, e, {i}) /\ e.inst[i] = b.inst[i] /\ e.error[i] = b.error[i] /\ e.stages[i] = b.stages[i]
  BY <1>1 DEF Marked, Retokens
<1>5. Touches(d, e, {i}) /\ e.inst[i] \in OpenInst
  <2>1. e \in Db  BY <1>4 DEF Touches
  <2>2. QED  BY <1>2, <1>3, <1>4, <2>1, TouchesBoth
<1>6. Fits(e, i)  BY <1>2, <1>3, <1>4, <1>5, RetokenFits
<1> DEFINE c == ToAdvance(i, Front(t), To(n)[1])
<1>7. u = <<c>> /\ Kind(n) = "join"  BY DEF MergeCase
<1>8. n \in GNodes /\ n \in NodesOf[i]  BY NextNode DEF Entering
<1>9. 1 \in DOMAIN To(n)  BY <1>7, <1>8, OneWay
<1>10. To(n)[1] \in NodesOf[i]  BY <1>8, <1>9, NextNode
<1>11. Each(e, c)  BY <1>5, <1>10, EachAre
<1>12. c.method = "advance" /\ c.i = i  BY CallsGive
<1> HIDE DEF c
<1>13. Near(d, i, c.i) /\ c.method # "giveback"  BY <1>12, NearSelf
<1>14. InOrder(C, e, u) /\ CallsNear(d, i, u)  BY <1>7, <1>11, <1>13, OneOrder
<1>15. n \notin C  BY <1>7, CalmKinds
<1>16. QED  BY <1>3, <1>5, <1>6, <1>14, <1>15, StepOne

(* The stages of i that are open belong to live tokens other than t.        *)
Held(d, i, t) == \A k \in OpenStages(d, i) : d.stages[i][k].token \in Live(d, i) \ {t}

LEMMA CompleteStep ==
  ASSUME NEW C, CalmBy(C), NEW d \in Db, NEW e, NEW i \in Instances, NEW t, NEW n, Entering(d, i, t, n),
         Held(d, i, t), NEW u, CompleteCase(d, e, i, t, n, u)
  PROVE  StepOK(C, d, e, i, n \in C, u)
<1>1. PICK b \in Db : TokenSet(d, b, i, t, "completed") /\ Live(b, i) = {} /\ Completes(b, e, i)
  BY DEF CompleteCase
<1>2. /\ Touches(d, b, {i}) /\ b.inst[i] = d.inst[i] /\ b.error[i] = d.error[i] /\ b.stages[i] = d.stages[i]
  BY <1>1 DEF TokenSet, Retokens
<1>3. AllFit(d) /\ d.inst[i] \in OpenInst /\ Fits(d, i)  BY DEF Entering, AllFit
<1>4. OpenStages(d, i) = {}
  <2>1. SUFFICES ASSUME NEW k \in OpenStages(d, i) PROVE FALSE  OBVIOUS
  <2> DEFINE v == d.stages[i][k].token
  <2>2. v \in DOMAIN d.token[i] /\ d.token[i][v] \in LiveToken /\ v # t  BY DEF Held, Live
  <2>3. v \in Live(b, i)  BY <1>1, <2>2 DEF TokenSet, Live
  <2>4. QED  BY <1>1, <2>3
<1>5. Touches(b, e, {i}) /\ e.inst[i] = "completed" /\ e.error[i] = d.error[i] /\ Live(e, i) = {}
  BY <1>1, <1>2 DEF Completes, StandsAt, Live
<1>6. Touches(d, e, {i})
  <2>1. e \in Db  BY <1>5 DEF Touches
  <2>2. QED  BY <1>2, <1>5, <2>1, TouchesBoth
<1>7. \A k \in Slots(e, i) :
        /\ k \in Slots(d, i) /\ e.stages[i][k].status = d.stages[i][k].status
        /\ e.stages[i][k].node = d.stages[i][k].node
        /\ e.stages[i][k].row \in {"waiting", "running"} => e.stages[i][k].row = d.stages[i][k].row
  BY <1>1, <1>2 DEF Completes, Kept, Slots
<1>8. \A k \in Slots(e, i) : StageFits(e, i, e.stages[i][k])
  <2>1. TAKE k \in Slots(e, i)
  <2>2. StageFits(d, i, d.stages[i][k])  BY <1>3, <1>7 DEF Fits
  <2>3. d.stages[i][k].status \notin OpenStage  BY <1>4, <1>7 DEF OpenStages, InStatus
  <2>4. "waiting_external" \in OpenStage  BY DEF OpenStage
  <2>5. QED  BY <1>7, <2>2, <2>3, <2>4 DEF StageFits
<1>9. HeadFits(e, i)
  <2>1. "completed" # "absent" /\ d.inst[i] \notin Stopped  BY <1>3 DEF OpenInst, Stopped
  <2>2. QED  BY <1>3, <1>5, <2>1 DEF Fits, HeadFits
<1>10. Fits(e, i)  BY <1>8, <1>9 DEF Fits
<1> DEFINE c == ToParent(i)
<1>11. u = <<c>> /\ Kind(n) = "end"  BY DEF CompleteCase
<1>12. c.method = "parent" /\ c.i = i /\ Each(e, c)  BY CallsGive, EachAre
<1> HIDE DEF c
<1>13. Near(d, i, c.i) /\ c.method # "giveback"  BY <1>12, NearSelf
<1>14. InOrder(C, e, u) /\ CallsNear(d, i, u)  BY <1>11, <1>12, <1>13, OneOrder
<1>15. n \notin C  BY <1>11, CalmKinds
<1>16. QED  BY <1>3, <1>6, <1>10, <1>14, <1>15, StepOne

LEMMA EnterStep ==
  ASSUME NEW C, CalmBy(C), NEW d \in Db, NEW e, NEW i \in Instances, NEW t, NEW n, Entering(d, i, t, n),
         Held(d, i, t), NEW u, EnterCase(d, e, i, t, n, u)
  PROVE  StepOK(C, d, e, i, n \in C, u)
BY PassStep, FailStep, QueueStep, RunStep, RefuseStep, BeginStep, ForkStep, WaitStep, MergeStep, LeaveStep,
   CompleteStep DEF EnterCase

(* The first statements of advanceProcessToken leave everything as it is    *)
(* but the count of transitions and the token.                              *)
Moved(d, b, i, t) ==
  /\ b \in Db /\ Grows(d, b) /\ b.inst = d.inst /\ b.run = d.run /\ b.ending = d.ending
  /\ b.error = d.error /\ b.stages = d.stages
  /\ \A j \in Instances : j # i => b.token[j] = d.token[j]
  /\ DOMAIN b.token[i] = DOMAIN d.token[i]
  /\ \A v \in DOMAIN d.token[i] : b.token[i][v] = IF v = t THEN "active" ELSE d.token[i][v]

LEMMA MovedIs ==
  ASSUME NEW d \in Db, NEW i \in Instances, NEW t, d.moves[i] # MaxMoves
  PROVE  Moved(d, Entered(d, i, t), i, t)
<1> DEFINE e == Entered(d, i, t)
<1>1. /\ e \in Db /\ e.inst = d.inst /\ e.run = d.run /\ e.ending = d.ending
      /\ e.error = d.error /\ e.stages = d.stages
      /\ \A j \in Instances : j # i => e.token[j] = d.token[j]
      /\ DOMAIN e.token[i] = DOMAIN d.token[i]
      /\ \A u \in DOMAIN d.token[i] : e.token[i][u] = IF u = t THEN "active" ELSE d.token[i][u]
  BY EnteredIs
<1>2. Grows(d, e)  BY EnteredGives
<1> HIDE DEF e
<1>3. QED  BY <1>1, <1>2 DEF Moved, e

LEMMA MovedFits ==
  ASSUME NEW d \in Db, AllFit(d), NEW i \in Instances, d.inst[i] \in OpenInst, NEW t, NEW b, Moved(d, b, i, t)
  PROVE  /\ AllFit(b) /\ b.inst[i] \in OpenInst
         /\ \A j \in Instances : j # i => Same(d, b, j)
         /\ \A p \in Instances : RunningLinks(b, p) = RunningLinks(d, p)
         /\ \A l, j : Near(b, l, j) => Near(d, l, j)
<1>1. ASSUME NEW j \in Instances, j # i PROVE Same(d, b, j)  BY <1>1 DEF Moved, Same
<1>2. b.inst[i] \in OpenInst /\ Grows(d, b)  BY DEF Moved
<1>3. ASSUME NEW j \in Instances PROVE Fits(b, j)
  <2>1. Fits(d, j)  BY DEF AllFit
  <2>2. CASE j # i  BY <1>1, <1>2, <2>1, <2>2, FitsSame
  <2>3. CASE j = i
    <3>1. \A k \in Slots(b, i) : k \in Slots(d, i) /\ b.stages[i][k] = d.stages[i][k]  BY DEF Moved, Slots
    <3>2. b.error[i] = d.error[i]  BY DEF Moved
    <3>3. QED  BY <1>2, <2>1, <2>3, <3>1, <3>2, FitsOpen
  <2>4. QED  BY <2>2, <2>3
<1>4. \A p \in Instances : RunningLinks(b, p) = RunningLinks(d, p)  BY DEF RunningLinks, Slots, Moved
<1>5. \A l, j : Near(b, l, j) => Near(d, l, j)  BY <1>4 DEF Near, Child, Moved
<1>6. QED  BY <1>1, <1>2, <1>3, <1>4, <1>5 DEF AllFit

LEMMA AdvanceStep ==
  ASSUME NEW C, CalmBy(C), NEW d \in Db, AllFit(d), NEW i \in Instances, d.inst[i] \in OpenInst,
         NEW t \in Token, NEW n \in NodesOf[i], Held(d, i, t), NEW b, Moved(d, b, i, t),
         NEW e, NEW u, EnterCase(b, e, i, t, n, u)
  PROVE  StepOK(C, d, e, i, n \in C, u)
<1>1. /\ b \in Db /\ AllFit(b) /\ b.inst[i] \in OpenInst
      /\ \A j \in Instances : j # i => Same(d, b, j)
      /\ \A p \in Instances : RunningLinks(b, p) = RunningLinks(d, p)
      /\ \A l, j : Near(b, l, j) => Near(d, l, j)
  BY MovedFits DEF Moved
<1>2. Entering(b, i, t, n)  BY <1>1 DEF Entering
<1>3. Held(b, i, t)
  <2>1. SUFFICES ASSUME NEW k \in OpenStages(b, i) PROVE b.stages[i][k].token \in Live(b, i) \ {t}
    BY DEF Held
  <2>2. k \in OpenStages(d, i) /\ b.stages[i][k] = d.stages[i][k]  BY DEF OpenStages, InStatus, Slots, Moved
  <2>3. b.stages[i][k].token \in Live(d, i) \ {t}  BY <2>2 DEF Held
  <2>4. QED  BY <2>3 DEF Live, Moved
<1>4. StepOK(C, b, e, i, n \in C, u)  BY <1>1, <1>2, <1>3, EnterStep
<1>5. \A j \in Instances : Same(d, e, j) \/ Near(d, i, j)
  <2>1. TAKE j \in Instances
  <2>2. Same(b, e, j) \/ Near(d, i, j)  BY <1>1, <1>4 DEF StepOK
  <2>3. Same(d, b, j) \/ Near(d, i, j)  BY <1>1, NearSelf
  <2>4. QED  BY <2>2, <2>3 DEF Same
<1>6. \A x \in DOMAIN u : Near(d, i, u[x].i) /\ u[x].method # "giveback"  BY <1>1, <1>4 DEF StepOK
<1>7. \A p \in Instances : p # i => RunningLinks(e, p) \subseteq RunningLinks(d, p)  BY <1>1, <1>4 DEF StepOK
<1>8. QED  BY <1>4, <1>5, <1>6, <1>7 DEF StepOK

LEMMA SpentStep ==
  ASSUME NEW C, NEW d \in Db, AllFit(d), NEW c, c.i \in Instances, NEW e, NEW u, SpentCase(d, e, c, u)
  PROVE  StepOK(C, d, e, c.i, CalmHead(C, d, c), u)
<1> DEFINE i == c.i
<1>0. i \in Instances  OBVIOUS
<1>1. Touches(d, e, {i}) /\ Same(d, e, i) /\ Grows(d, e)
  <2>1. Still(d, e)  BY DEF SpentCase
  <2>2. QED  BY <2>1, TouchesSelf DEF Still, Touches
<1>2. Fits(e, i)
  <2>1. Fits(d, i)  BY DEF AllFit
  <2>2. QED  BY <1>1, <2>1, FitsSame
<1>3. u = <<ToFail(i, "failed")>>  BY DEF SpentCase
<1>4. InOrder(C, e, u) /\ CallsNear(d, i, u)  BY <1>3, FailCalls
<1>5. CalmHead(C, d, c) => CallsCalm(C, e, i, u)  BY DEF CalmHead, SpentCase, Going
<1> HIDE DEF i
<1>6. StepOK(C, d, e, i, CalmHead(C, d, c), u)  BY <1>0, <1>1, <1>2, <1>4, <1>5, StepOne
<1>7. QED  BY <1>6 DEF i

(* No two stages of an instance wait for the same child.                    *)
LinksOnce(d) ==
  \A p \in Instances : \A k, m \in RunningLinks(d, p) : Child(d, p, k) = Child(d, p, m) => k = m

LEMMA FinishFits ==
  ASSUME NEW d \in Db, AllFit(d), NEW i \in Instances, NEW e, NEW at \in Stopped, NEW closed \in Ended,
         Finishes(d, e, i, at, closed), Live(d, i) = {}, RunningLinks(d, i) = {},
         \A k \in Slots(d, i) : d.stages[i][k].row # "waiting"
  PROVE  Fits(e, i)
<1>1. e.inst[i] = at /\ at # "absent" /\ Live(e, i) = {}  BY DEF Finishes, StandsAt, Stopped, Live
<1>2. HeadFits(e, i)  BY <1>1 DEF HeadFits
<1>3. Ended \cap OpenStage = {}  BY DEF Ended, OpenStage
<1>4. ASSUME NEW k \in Slots(e, i) PROVE StageFits(e, i, e.stages[i][k])
  <2>1. /\ k \in Slots(d, i) /\ e.stages[i][k].node = d.stages[i][k].node
        /\ e.stages[i][k].row = d.stages[i][k].row /\ e.stages[i][k].status \notin OpenStage
    BY <1>3 DEF Finishes, Kept
  <2>2. StageFits(d, i, d.stages[i][k])  BY <2>1 DEF AllFit, Fits
  <2>3. d.stages[i][k].row # "running"  BY <2>1, <2>2 DEF StageFits, RunningLinks
  <2>4. QED  BY <2>1, <2>2, <2>3 DEF StageFits
<1>5. QED  BY <1>2, <1>4 DEF Fits

LEMMA FinalStep ==
  ASSUME NEW C, NEW d \in Db, AllFit(d), NEW i \in Instances, NEW e, NEW u, NEW s \in {"failed", "cancelled"},
         FinalCase(d, e, i, s, u), Live(d, i) = {}, RunningLinks(d, i) = {},
         \A k \in Slots(d, i) : d.stages[i][k].row # "waiting"
  PROVE  StepOK(C, d, e, i, FALSE, u)
<1>1. Finishes(d, e, i, s, s) /\ u = <<ToParent(i)>>  BY DEF FinalCase
<1>2. s \in Stopped /\ s \in Ended  BY DEF Stopped, Ended
<1>3. Fits(e, i)  BY <1>1, <1>2, FinishFits
<1>4. Touches(d, e, {i})  BY <1>1 DEF Finishes
<1> DEFINE c == ToParent(i)
<1>5. c.method = "parent" /\ c.i = i /\ Each(e, c)  BY CallsGive, EachAre
<1>6. u = <<c>>  BY <1>1
<1> HIDE DEF c
<1>7. Near(d, i, c.i) /\ c.method # "giveback"  BY <1>5, NearSelf
<1>8. InOrder(C, e, u) /\ CallsNear(d, i, u)  BY <1>5, <1>6, <1>7, OneOrder
<1>9. QED  BY <1>3, <1>4, <1>8, StepOne

LEMMA FailsStep ==
  ASSUME NEW C, NEW d \in Db, AllFit(d), NEW i \in Instances, NEW e, NEW s, NEW u, FailsCase(d, e, i, s, u)
  PROVE  StepOK(C, d, e, i, FALSE, u)
<1>0. Fits(d, i)  BY DEF AllFit
<1>1. CASE Still(d, e) /\ u = <<>>
  <2>1. Touches(d, e, {i}) /\ Same(d, e, i) /\ Grows(d, e)  BY <1>1, TouchesSelf DEF Still, Touches
  <2>2. Fits(e, i)  BY <1>0, <2>1, FitsSame
  <2>3. InOrder(C, e, u) /\ CallsNear(d, i, u)  BY <1>1, NoOrder
  <2>4. QED  BY <2>1, <2>2, <2>3, StepOne
<1>2. CASE d.inst[i] \in OpenInst /\ Quiesced(d, e, i) /\ u = <<ToStop(i, s)>>
  <2>1. Touches(d, e, {i}) /\ e.inst[i] = d.inst[i] /\ e.error[i] = d.error[i] /\ Live(e, i) = {}
    BY <1>2 DEF Quiesced
  <2>2. ASSUME NEW k \in Slots(e, i)
        PROVE  StageFits(e, i, e.stages[i][k]) /\ e.stages[i][k].row # "waiting"
    <3>1. /\ k \in Slots(d, i) /\ Kept(d, e, i, k) /\ e.stages[i][k].status = d.stages[i][k].status
          /\ e.stages[i][k].row = IF d.stages[i][k].row = "waiting" THEN "cancelled" ELSE d.stages[i][k].row
      BY <1>2 DEF Quiesced
    <3>2. StageFits(d, i, d.stages[i][k])  BY <1>0, <3>1 DEF Fits
    <3>3. StageFits(e, i, d.stages[i][k])  BY <2>1, <3>1, <3>2, StageFitsOn DEF Touches
    <3>4. /\ e.stages[i][k].node = d.stages[i][k].node /\ e.stages[i][k].kind = d.stages[i][k].kind
          /\ e.stages[i][k].row # "waiting"
          /\ e.stages[i][k].row = "running" => d.stages[i][k].row = "running"
      BY <3>1 DEF Kept
    <3>5. QED  BY <3>1, <3>3, <3>4 DEF StageFits
  <2>3. HeadFits(e, i)  BY <1>0, <1>2, <2>1 DEF Fits, HeadFits, OpenInst
  <2>4. Fits(e, i)  BY <2>2, <2>3 DEF Fits
  <2>5. Stopping(e, i)  BY <1>2, <2>1, <2>2 DEF Stopping
  <2> DEFINE c == ToStop(i, s)
  <2>6. c.method = "stop" /\ c.i = i /\ Each(e, c)
    <3>1. c.method = "stop" /\ c.i = i  BY CallsGive
    <3>2. Each(e, c)  BY <2>5, EachAre
    <3>3. QED  BY <3>1, <3>2
  <2>7. u = <<c>>  BY <1>2
  <2> HIDE DEF c
  <2>8. Near(d, i, c.i) /\ c.method # "giveback"  BY <2>6, NearSelf
  <2>9. InOrder(C, e, u) /\ CallsNear(d, i, u)  BY <2>6, <2>7, <2>8, OneOrder
  <2>10. QED  BY <2>1, <2>4, <2>9, StepOne
<1>3. QED  BY <1>1, <1>2 DEF FailsCase

LEMMA DetachStep ==
  ASSUME NEW C, NEW d \in Db, AllFit(d), LinksOnce(d), NEW i \in Instances, NEW e, NEW s, NEW u,
         Stopping(d, i), DetachCase(d, e, i, s, u)
  PROVE  StepOK(C, d, e, i, FALSE, u)
<1>1. PICK k \in RunningLinks(d, i) :
        RowSet(d, e, i, k, "cancelled") /\ u = <<ToFail(Child(d, i, k), "cancelled"), ToStop(i, s)>>
  BY DEF DetachCase, Child
<1> DEFINE c == Child(d, i, k)
<1>2. c \in Kids(i) /\ c \in Instances /\ d.inst[i] \in OpenInst /\ k \in Slots(d, i)  BY LinkedIs
<1>3. /\ Touches(d, e, {i}) /\ e.inst[i] = d.inst[i] /\ e.error[i] = d.error[i] /\ e.token[i] = d.token[i]
      /\ Slots(e, i) = Slots(d, i)
      /\ \A m \in Slots(d, i) : m # k => e.stages[i][m] = d.stages[i][m]
      /\ Kept(d, e, i, k) /\ e.stages[i][k].status = d.stages[i][k].status
      /\ e.stages[i][k].row = "cancelled"
  BY <1>1 DEF RowSet, Restages
<1>4. Grows(d, e) /\ e \in Db /\ Fits(d, i)  BY <1>3 DEF Touches, AllFit
<1>5. StageFits(e, i, e.stages[i][k])
  <2>1. StageFits(d, i, d.stages[i][k])  BY <1>2, <1>4 DEF Fits
  <2>2. StageFits(e, i, d.stages[i][k])  BY <1>2, <1>3, <1>4, <2>1, StageFitsOn
  <2>3. /\ e.stages[i][k].node = d.stages[i][k].node /\ e.stages[i][k].kind = d.stages[i][k].kind
    BY <1>3 DEF Kept
  <2>4. QED  BY <1>3, <2>2, <2>3 DEF StageFits
<1>6. Fits(e, i)  BY <1>2, <1>3, <1>4, <1>5, FitsOpen
<1>7. AllFit(e)  BY <1>3, <1>6, FitsBut
<1>8. Stopping(e, i)
  <2>1. Live(e, i) = {}  BY <1>3 DEF Stopping, Live
  <2>2. \A m \in Slots(e, i) : e.stages[i][m].row # "waiting"  BY <1>3 DEF Stopping
  <2>3. QED  BY <1>2, <1>3, <2>1, <2>2 DEF Stopping
<1>9. Unlinked(e, c)
  <2>1. SUFFICES ASSUME NEW p \in Instances, NEW m \in RunningLinks(e, p), Child(e, p, m) = c PROVE FALSE
    BY DEF Unlinked
  <2>2. c \in Kids(p)  BY <1>4, <1>7, <2>1, LinkedIs
  <2>3. p = i  BY <1>2, <2>2, KidsAre
  <2>4. m \in Slots(d, i) /\ m # k  BY <1>3, <2>1, <2>3 DEF RunningLinks
  <2>5. m \in RunningLinks(d, i) /\ Child(d, i, m) = c
    BY <1>3, <2>1, <2>3, <2>4 DEF RunningLinks, Child
  <2>6. QED  BY <2>4, <2>5 DEF LinksOnce
<1>10. Guarded(e, c, i)  BY <1>2, <1>9, FamilyIs DEF Guarded
<1> DEFINE g == ToFail(c, "cancelled")  h == ToStop(i, s)
<1>11. g.method = "fail" /\ g.i = c /\ h.method = "stop" /\ h.i = i  BY CallsGive
<1>12. Each(e, g) /\ Each(e, h)  BY <1>2, <1>8, EachAre
<1>13. u = <<g, h>>  BY <1>1
<1> HIDE DEF c, g, h
<1>14. Before(C, e, g, h)  BY <1>10, <1>11 DEF Before, High, Going
<1>15. Near(d, i, g.i) /\ Near(d, i, h.i) /\ g.method # "giveback" /\ h.method # "giveback"
  BY <1>2, <1>11 DEF Near
<1>16. InOrder(C, e, u) /\ CallsNear(d, i, u)  BY <1>12, <1>13, <1>14, <1>15, TwoOrder
<1>17. QED  BY <1>3, <1>6, <1>16, StepOne

LEMMA StopStep ==
  ASSUME NEW C, NEW d \in Db, AllFit(d), LinksOnce(d), NEW i \in Instances, NEW e,
         NEW s \in {"failed", "cancelled"}, NEW u, Stopping(d, i), StopCase(d, e, i, s, u)
  PROVE  StepOK(C, d, e, i, FALSE, u)
<1>1. CASE DetachCase(d, e, i, s, u)  BY <1>1, DetachStep
<1>2. Live(d, i) = {} /\ \A k \in Slots(d, i) : d.stages[i][k].row # "waiting"  BY DEF Stopping
<1>3. CASE RunningLinks(d, i) = {} /\ CompensateCase(d, e, i, s, u)
  <2>1. Finishes(d, e, i, "compensating", "cancelled") /\ u = <<ToCompensate(i)>>
    BY <1>3 DEF CompensateCase
  <2>2. Fits(e, i)
    <3>1. "compensating" \in Stopped /\ "cancelled" \in Ended  BY DEF Stopped, Ended
    <3>2. QED  BY <1>2, <1>3, <2>1, <3>1, FinishFits
  <2>3. Touches(d, e, {i}) /\ e.inst[i] = "compensating"  BY <2>1 DEF Finishes, StandsAt
  <2> DEFINE c == ToCompensate(i)
  <2>4. c.method = "compensate" /\ c.i = i /\ Each(e, c)  BY <2>3, CallsGive, EachAre
  <2>5. u = <<c>>  BY <2>1
  <2> HIDE DEF c
  <2>6. Near(d, i, c.i) /\ c.method # "giveback"  BY <2>4, NearSelf
  <2>7. InOrder(C, e, u) /\ CallsNear(d, i, u)  BY <2>4, <2>5, <2>6, OneOrder
  <2>8. QED  BY <2>2, <2>3, <2>7, StepOne
<1>4. CASE RunningLinks(d, i) = {} /\ FinalCase(d, e, i, s, u)  BY <1>2, <1>4, FinalStep
<1>5. QED  BY <1>1, <1>3, <1>4 DEF StopCase

LEMMA NextStep ==
  ASSUME NEW C, NEW d \in Db, AllFit(d), NEW i \in Instances, NEW e, NEW u,
         d.inst[i] = "compensating", NextCase(d, e, i, u)
  PROVE  StepOK(C, d, e, i, FALSE, u)
<1>0. Fits(d, i) /\ d.inst[i] \notin OpenInst /\ "waiting_external" \in OpenStage  BY DEF AllFit, OpenInst, OpenStage
<1>1. Live(d, i) = {}  BY <1>0 DEF Fits, HeadFits
<1>2. ASSUME NEW k \in Slots(d, i)
      PROVE  d.stages[i][k].row # "waiting" /\ d.stages[i][k].row # "running"
  <2>1. StageFits(d, i, d.stages[i][k])  BY <1>0 DEF Fits
  <2>2. d.stages[i][k].row # "running"  BY <1>0, <2>1 DEF StageFits
  <2>3. d.stages[i][k].row = "waiting" => d.stages[i][k].kind = "signal"  BY SlotsAre DEF StageSet, StageOK
  <2>4. QED  BY <1>0, <2>1, <2>2, <2>3 DEF StageFits
<1>3. RunningLinks(d, i) = {}  BY <1>2 DEF RunningLinks
<1>4. CASE UndoCase(d, e, i, u)
  <2>1. PICK k \in Armed(d, i) : Undoes(d, e, i, k)  BY <1>4 DEF UndoCase
  <2>2. k \in Slots(d, i) /\ u = <<>>  BY <1>4 DEF Armed, UndoCase
  <2>3. /\ Touches(d, e, {i}) /\ e.inst[i] = d.inst[i] /\ e.error[i] = d.error[i] /\ e.token[i] = d.token[i]
        /\ Slots(e, i) = Slots(d, i) \cup {NextSlot(d, i)}
        /\ \A m \in Slots(d, i) :
             /\ Kept(d, e, i, m) /\ e.stages[i][m].status = d.stages[i][m].status
             /\ e.stages[i][m].row = IF m = k THEN "queued" ELSE d.stages[i][m].row
    BY <2>1 DEF Undoes
  <2>4. ASSUME NEW m \in Slots(d, i) PROVE StageFits(e, i, e.stages[i][m])
    <3>1. StageFits(d, i, d.stages[i][m])  BY <1>0 DEF Fits
    <3>2. /\ e.stages[i][m].node = d.stages[i][m].node /\ e.stages[i][m].kind = d.stages[i][m].kind
          /\ e.stages[i][m].row \notin {"waiting", "running"}
          /\ e.stages[i][m].status = d.stages[i][m].status
      BY <1>2, <2>3 DEF Kept
    <3>3. QED  BY <2>3, <3>1, <3>2 DEF StageFits
  <2>5. StageFits(e, i, e.stages[i][NextSlot(d, i)])
    <3>1. StageFits(d, i, d.stages[i][k])  BY <1>0, <2>2 DEF Fits
    <3>2. /\ e.stages[i][NextSlot(d, i)].kind = "compensation" /\ e.stages[i][NextSlot(d, i)].row = "none"
          /\ e.stages[i][NextSlot(d, i)].node = d.stages[i][k].node
      BY <2>1 DEF Undoes
    <3>3. QED  BY <2>3, <3>1, <3>2 DEF StageFits
  <2>6. HeadFits(e, i)  BY <1>0, <1>1, <2>3 DEF Fits, HeadFits, Live
  <2>7. Fits(e, i)  BY <2>3, <2>4, <2>5, <2>6 DEF Fits
  <2>8. InOrder(C, e, u) /\ CallsNear(d, i, u)  BY <2>2, NoOrder
  <2>9. QED  BY <2>3, <2>7, <2>8, StepOne
<1>5. ASSUME NEW s \in {"failed", "cancelled"}, FinalCase(d, e, i, s, u) PROVE StepOK(C, d, e, i, FALSE, u)
  BY <1>1, <1>2, <1>3, <1>5, FinalStep
<1>6. QED  BY <1>4, <1>5 DEF NextCase

LEMMA ParentStep ==
  ASSUME NEW C, NEW d \in Db, AllFit(d), NEW c \in Instances, NEW e, NEW u, ParentCase(d, e, c, u)
  PROVE  StepOK(C, d, e, c, FALSE, u)
<1>1. CASE Still(d, e) /\ u = <<>>
  <2>1. Touches(d, e, {c}) /\ Same(d, e, c) /\ Grows(d, e)  BY <1>1, TouchesSelf DEF Still, Touches
  <2>2. Fits(e, c)
    <3>1. Fits(d, c)  BY DEF AllFit
    <3>2. QED  BY <2>1, <3>1, FitsSame
  <2>3. InOrder(C, e, u) /\ CallsNear(d, c, u)  BY <1>1, NoOrder
  <2>4. QED  BY <2>1, <2>2, <2>3, StepOne
<1>2. ASSUME NEW p \in Instances, NEW k \in RunningLinks(d, p), Child(d, p, k) = c,
             UnlinkCase(d, e, p, k, u) \/ ResumeCase(d, e, c, p, k, u) \/ ToppleCase(d, e, c, p, k, u)
      PROVE  StepOK(C, d, e, c, FALSE, u)
  <2>1. d.inst[p] \in OpenInst /\ k \in Slots(d, p)  BY LinkedIs
  <2>2. Near(d, c, p)  BY <1>2 DEF Near
  <2>3. PICK r \in {"completed", "failed", "cancelled"}, s \in Ended : Settled(d, e, p, k, r, s)
    <3>1. d.inst[c] = "completed" \/ d.inst[c] \in {"failed", "cancelled"}
      BY <1>2, <2>1 DEF UnlinkCase, ResumeCase, ToppleCase
    <3>2. CASE ResumeCase(d, e, c, p, k, u)  BY <3>2 DEF ResumeCase, Ended
    <3>3. CASE ToppleCase(d, e, c, p, k, u)  BY <3>3 DEF ToppleCase, Ended
    <3>4. QED  BY <1>2, <2>1, <3>2, <3>3 DEF UnlinkCase
  <2>4. /\ Touches(d, e, {p}) /\ e.inst[p] = d.inst[p] /\ e.error[p] = d.error[p]
        /\ Slots(e, p) = Slots(d, p)
        /\ \A m \in Slots(d, p) : m # k => e.stages[p][m] = d.stages[p][m]
        /\ Kept(d, e, p, k) /\ e.stages[p][k].status = s /\ e.stages[p][k].row = r
    BY <2>3 DEF Settled, Restages
  <2>5. Grows(d, e) /\ e \in Db /\ Fits(d, p)  BY <2>4 DEF Touches, AllFit
  <2>6. StageFits(e, p, e.stages[p][k])
    <3>1. StageFits(d, p, d.stages[p][k])  BY <2>1, <2>5 DEF Fits
    <3>2. e.stages[p][k].node = d.stages[p][k].node /\ s \notin OpenStage
      BY <2>4 DEF Kept, Ended, OpenStage
    <3>3. QED  BY <2>4, <3>1, <3>2 DEF StageFits
  <2>7. Fits(e, p)  BY <2>1, <2>4, <2>5, <2>6, FitsOpen
  <2>8. AllFit(e)  BY <2>4, <2>7, FitsBut
  <2>9. \A j \in Instances : Same(d, e, j) \/ Near(d, c, j)  BY <2>2, <2>4 DEF Touches
  <2>10. \A q \in Instances : RunningLinks(e, q) \subseteq RunningLinks(d, q)
    <3>1. TAKE q \in Instances
    <3>2. CASE q = p
      <4>1. r # "running"  OBVIOUS
      <4>2. QED  BY <2>4, <3>2, <4>1 DEF RunningLinks, Kept
    <3>3. CASE q # p
      <4>1. Same(d, e, q)  BY <2>4, <3>3 DEF Touches
      <4>2. QED  BY <4>1 DEF RunningLinks, Same, Slots
    <3>4. QED  BY <3>2, <3>3
  <2>11. InOrder(C, e, u) /\ \A x \in DOMAIN u : Near(d, c, u[x].i) /\ u[x].method # "giveback"
    <3>1. CASE ToppleCase(d, e, c, p, k, u)
      <4> DEFINE g == ToFail(p, "failed")
      <4>1. u = <<g>>  BY <3>1 DEF ToppleCase
      <4>2. g.method = "fail" /\ g.i = p /\ Each(e, g)
        <5>1. g.method = "fail" /\ g.i = p  BY CallsGive
        <5>2. Each(e, g)  BY EachAre
        <5>3. QED  BY <5>1, <5>2
      <4> HIDE DEF g
      <4>3. Near(d, c, g.i) /\ g.method # "giveback"  BY <2>2, <4>2
      <4>4. InOrder(C, e, u) /\ CallsNear(d, c, u)  BY <4>1, <4>2, <4>3, OneOrder
      <4>5. QED  BY <4>4 DEF CallsNear
    <3>2. CASE ResumeCase(d, e, c, p, k, u)
      <4> DEFINE n == To(d.stages[p][k].node)[1]
                 g == ToAdvance(p, d.stages[p][k].token, n)  h == ToSync(p)
      <4>1. n \in NodesOf[p]
        <5>1. d.stages[p][k].node \in NodesOf[p]  BY <2>1, <2>5 DEF Fits, StageFits
        <5>2. d.stages[p][k].kind # "compensation"  BY DEF RunningLinks
        <5>3. 1 \in DOMAIN To(d.stages[p][k].node)  BY <2>1, <5>2, StageGoesOn
        <5>4. QED  BY <5>1, <5>3, NextNode
      <4>2. u = <<g, h>>  BY <3>2 DEF ResumeCase
      <4> HIDE DEF n
      <4>3. g.method = "advance" /\ g.i = p /\ h.method = "sync" /\ h.i = p  BY CallsGive
      <4>4. Each(e, g)  BY <2>1, <2>4, <4>1, EachAre
      <4>5. Each(e, h)  BY EachAre
      <4> HIDE DEF g, h
      <4>6. Before(C, e, g, h)  BY <4>3 DEF Before, High, Going
      <4>7. Near(d, c, g.i) /\ Near(d, c, h.i) /\ g.method # "giveback" /\ h.method # "giveback"
        BY <2>2, <4>3
      <4>8. InOrder(C, e, u) /\ CallsNear(d, c, u)  BY <4>2, <4>4, <4>5, <4>6, <4>7, TwoOrder
      <4>9. QED  BY <4>8 DEF CallsNear
    <3>3. QED  BY <1>2, <2>1, <3>1, <3>2 DEF UnlinkCase
  <2>12. QED  BY <2>8, <2>9, <2>10, <2>11 DEF StepOK
<1>3. QED  BY <1>1, <1>2 DEF ParentCase

LEMMA LinkStep ==
  ASSUME NEW C, NEW d \in Db, AllFit(d), NEW c \in Calls, c.method = "link", LinkReady(d, c),
         NEW e, NEW u, LinkCase(d, e, c.i, c.k, u)
  PROVE  StepOK(C, d, e, c.i, FALSE, u)
<1> DEFINE i == c.i  k == c.k  b == Child(d, i, k)
<1>1. /\ i \in Instances /\ k \in Slots(d, i) /\ d.inst[i] \in OpenInst
      /\ d.stages[i][k].kind = "subprocess" /\ d.stages[i][k].status = "waiting_external"
      /\ d.inst[b] # "absent"
  BY CallFields DEF LinkReady
<1>2. u = <<ToParent(b)>> /\ RowSet(d, e, i, k, "running")  BY DEF LinkCase
<1>3. /\ Touches(d, e, {i}) /\ e.inst[i] = d.inst[i] /\ e.error[i] = d.error[i]
      /\ Slots(e, i) = Slots(d, i)
      /\ \A m \in Slots(d, i) : m # k => e.stages[i][m] = d.stages[i][m]
      /\ Kept(d, e, i, k) /\ e.stages[i][k].status = d.stages[i][k].status
      /\ e.stages[i][k].row = "running"
  BY <1>2 DEF RowSet, Restages
<1> HIDE DEF i, k
<1>4. Grows(d, e) /\ Fits(d, i)  BY <1>1, <1>3 DEF Touches, AllFit
<1>5. StageFits(d, i, d.stages[i][k])  BY <1>1, <1>4 DEF Fits
<1>6. b = ChildOf[d.stages[i][k].node] /\ b \in Instances /\ d.stages[i][k].node \in DOMAIN ChildOf
  BY <1>1, ChildIs DEF Child
<1> HIDE DEF b
<1>7. b \in Kids(i)  BY <1>5, <1>6 DEF Kids, StageFits
<1>8. e.inst[b] # "absent"  BY <1>1, <1>4, <1>6 DEF Grows, GrowsAt
<1>9. StageFits(e, i, e.stages[i][k])
  <2>1. StageFits(e, i, d.stages[i][k])  BY <1>1, <1>3, <1>4, <1>5, StageFitsOn
  <2>2. e.stages[i][k].node = d.stages[i][k].node /\ e.stages[i][k].kind = d.stages[i][k].kind
    BY <1>3 DEF Kept
  <2>3. QED  BY <1>1, <1>3, <1>6, <1>8, <2>1, <2>2 DEF StageFits
<1>10. Fits(e, i)  BY <1>1, <1>3, <1>4, <1>9, FitsOpen
<1> DEFINE g == ToParent(b)
<1>11. g.method = "parent" /\ g.i = b  BY CallsGive
<1>12. Each(e, g)  BY <1>6, EachAre
<1>13. u = <<g>>  BY <1>2
<1> HIDE DEF g
<1>14. Near(d, i, g.i) /\ g.method # "giveback"  BY <1>6, <1>7, <1>11 DEF Near
<1>15. InOrder(C, e, u) /\ CallsNear(d, i, u)  BY <1>12, <1>13, <1>14, OneOrder
<1>16. StepOK(C, d, e, i, FALSE, u)  BY <1>1, <1>3, <1>10, <1>15, StepOne
<1>17. QED  BY <1>16 DEF i

LEMMA SyncStep ==
  ASSUME NEW C, NEW d \in Db, AllFit(d), NEW i \in Instances, NEW e, Synced(d, e, i)
  PROVE  StepOK(C, d, e, i, d.inst[i] \in OpenInst, <<>>)
<1>1. Touches(d, e, {i}) /\ e.stages[i] = d.stages[i] /\ e.token[i] = d.token[i] /\ e.error[i] = d.error[i]
  BY DEF Synced
<1>2. Grows(d, e) /\ Fits(d, i)  BY <1>1 DEF Touches, AllFit
<1>3. Fits(e, i) /\ (d.inst[i] \in OpenInst => e.inst[i] \in OpenInst)
  <2>1. CASE d.inst[i] \in OpenInst
    <3>1. e.inst[i] \in OpenInst  BY <2>1 DEF Synced
    <3>2. QED  BY <1>1, <2>1, <3>1, RetokenFits
  <2>2. CASE d.inst[i] \in Ended \cup {"compensating"}
    <3>1. Same(d, e, i)  BY <2>2 DEF Synced
    <3>2. d.inst[i] \notin OpenInst  BY <2>2 DEF Ended, OpenInst
    <3>3. QED  BY <1>2, <3>1, <3>2, FitsSame
  <2>3. CASE d.inst[i] = "absent"
    <3>1. d.stages[i] = <<>> /\ Live(d, i) = {} /\ "absent" \notin OpenInst
      BY <1>2, <2>3 DEF Fits, HeadFits, OpenInst
    <3>2. InStatus(d, i, OpenStage) = {}  BY <3>1 DEF InStatus, Slots
    <3>3. e.inst[i] = d.inst[i]  BY <3>1, <3>2 DEF Synced
    <3>4. HeadFits(e, i)  BY <1>1, <1>2, <3>3 DEF Fits, HeadFits, Live
    <3>5. Slots(e, i) = {}  BY <1>1, <3>1 DEF Slots
    <3>6. QED  BY <2>3, <3>1, <3>4, <3>5 DEF Fits
  <2>4. d.inst[i] \in InstStatus  BY DEF Db
  <2>5. QED  BY <2>1, <2>2, <2>3, <2>4 DEF InstStatus
<1>4. InOrder(C, e, <<>>) /\ CallsNear(d, i, <<>>) /\ (d.inst[i] \in OpenInst => CallsCalm(C, e, i, <<>>))
  BY <1>3, NoOrder
<1>5. QED  BY <1>1, <1>3, <1>4, StepOne

LEMMA GiveStep ==
  ASSUME NEW C, NEW d \in Db, AllFit(d), NEW i \in Instances, NEW k \in Slots(d, i),
         d.stages[i][k].status = "running", NEW e, NEW u, GiveBackCase(d, e, i, k, u)
  PROVE  StepOK(C, d, e, i, FALSE, u)
<1>1. Fits(d, i) /\ StageFits(d, i, d.stages[i][k]) /\ "running" \in OpenStage
  BY DEF AllFit, Fits, OpenStage
<1>2. d.stages[i][k].row \notin {"waiting", "running"}  BY <1>1 DEF StageFits
<1>3. IF d.stages[i][k].kind = "compensation" THEN d.inst[i] = "compensating" ELSE d.inst[i] \in OpenInst
  BY <1>1 DEF StageFits
<1>4. ASSUME NEW b \in Db, NEW s, NEW at, Restood(d, b, i, k, s, at),
             (at = "compensating" /\ d.inst[i] = "compensating") \/ (at \in OpenInst /\ d.inst[i] \in OpenInst),
             s \in OpenStage => d.stages[i][k].kind # "compensation" \/ at = "compensating",
             s \in OpenStage => d.stages[i][k].kind = "compensation" \/ at \in OpenInst
      PROVE  Touches(d, b, {i}) /\ Fits(b, i)
  <2>1. /\ Touches(d, b, {i}) /\ Grows(d, b) /\ b.inst[i] = at /\ b.error[i] = d.error[i]
        /\ b.token[i] = d.token[i] /\ Slots(b, i) = Slots(d, i)
        /\ \A m \in Slots(d, i) : m # k => b.stages[i][m] = d.stages[i][m]
        /\ Kept(d, b, i, k) /\ b.stages[i][k].row = d.stages[i][k].row /\ b.stages[i][k].status = s
    BY <1>4 DEF Restood, Touches, StandsAt
  <2>2. HeadFits(b, i)
    <3>1. "compensating" \notin OpenInst /\ "absent" \notin OpenInst /\ "compensating" \in Stopped
          /\ OpenInst \cap Stopped = {}
      BY DEF OpenInst, Stopped
    <3>2. QED  BY <1>1, <1>4, <2>1, <3>1 DEF Fits, HeadFits, Live
  <2>3. ASSUME NEW m \in Slots(d, i), m # k PROVE StageFits(b, i, b.stages[i][m])
    <3>1. StageFits(d, i, d.stages[i][m])  BY <1>1 DEF Fits
    <3>2. StageFits(b, i, d.stages[i][m])  BY <1>4, <2>1, <3>1, StageFitsOn
    <3>3. QED  BY <2>1, <2>3, <3>2
  <2>4. StageFits(b, i, b.stages[i][k])
    <3>1. b.stages[i][k].node = d.stages[i][k].node /\ b.stages[i][k].kind = d.stages[i][k].kind
          /\ b.stages[i][k].row \notin {"waiting", "running"}
      BY <1>2, <2>1 DEF Kept
    <3>2. s \in OpenStage =>
            IF d.stages[i][k].kind = "compensation" THEN b.inst[i] = "compensating" ELSE b.inst[i] \in OpenInst
      BY <1>4, <2>1
    <3>3. QED  BY <1>1, <2>1, <3>1, <3>2 DEF StageFits
  <2>5. QED  BY <2>1, <2>2, <2>3, <2>4 DEF Fits
<1>5. CASE AgainCase(d, e, i, k, u)
  <2> DEFINE at == IF d.stages[i][k].kind = "compensation" THEN "compensating" ELSE "queued"
  <2>1. u = <<>> /\ Restood(d, e, i, k, "queued", at)  BY <1>5 DEF AgainCase
  <2>2. (at = "compensating" /\ d.inst[i] = "compensating") \/ (at \in OpenInst /\ d.inst[i] \in OpenInst)
    BY <1>3 DEF OpenInst
  <2>3. d.stages[i][k].kind # "compensation" \/ at = "compensating"  OBVIOUS
  <2>4. d.stages[i][k].kind = "compensation" \/ at \in OpenInst  BY DEF OpenInst
  <2> HIDE DEF at
  <2>5. e \in Db  BY <2>1 DEF Restood, Touches
  <2>6. Touches(d, e, {i}) /\ Fits(e, i)  BY <1>4, <2>1, <2>2, <2>3, <2>4, <2>5
  <2>7. InOrder(C, e, u) /\ CallsNear(d, i, u)  BY <2>1, NoOrder
  <2>8. QED  BY <2>6, <2>7, StepOne
<1>6. CASE GiveUpCase(d, e, i, k, u)
  <2>1. PICK b \in Db :
          /\ Restood(d, b, i, k, "failed", "compensating")
          /\ IF d.stages[i][k].of \in Slots(d, i) THEN RowSet(b, e, i, d.stages[i][k].of, "failed") ELSE e = b
    BY <1>6 DEF GiveUpCase
  <2>2. Touches(d, b, {i}) /\ Fits(b, i)
    <3>1. d.inst[i] = "compensating"  BY <1>3, <1>6 DEF GiveUpCase
    <3>2. "failed" \notin OpenStage  BY DEF OpenStage
    <3>3. QED  BY <1>4, <2>1, <3>1, <3>2
  <2>3. Touches(d, e, {i}) /\ Fits(e, i) /\ e.inst[i] = "compensating"
    <3>1. b.inst[i] = "compensating" /\ AllFit(b)  BY <2>1, <2>2, FitsBut DEF Restood, StandsAt
    <3>2. CASE e = b  BY <2>2, <3>1, <3>2
    <3>3. CASE RowSet(b, e, i, d.stages[i][k].of, "failed")
      <4> DEFINE m == d.stages[i][k].of
      <4>1. /\ Touches(b, e, {i}) /\ Grows(b, e) /\ e \in Db /\ e.inst[i] = b.inst[i] /\ e.error[i] = b.error[i]
            /\ e.token[i] = b.token[i] /\ Slots(e, i) = Slots(b, i)
            /\ \A l \in Slots(b, i) : l # m => e.stages[i][l] = b.stages[i][l]
            /\ Kept(b, e, i, m) /\ e.stages[i][m].status = b.stages[i][m].status /\ e.stages[i][m].row = "failed"
        BY <3>3 DEF RowSet, Restages, Touches
      <4> HIDE DEF m
      <4>2. HeadFits(e, i)  BY <2>2, <3>1, <4>1 DEF Fits, HeadFits, Live
      <4>3. ASSUME NEW l \in Slots(e, i) PROVE StageFits(e, i, e.stages[i][l])
        <5>1. StageFits(b, i, b.stages[i][l])  BY <2>2, <4>1 DEF Fits
        <5>2. StageFits(e, i, b.stages[i][l])  BY <4>1, <5>1, StageFitsOn
        <5>3. CASE l # m  BY <4>1, <5>2, <5>3
        <5>4. CASE l = m  BY <4>1, <5>2, <5>4 DEF StageFits, Kept
        <5>5. QED  BY <5>3, <5>4
      <4>4. Touches(d, e, {i})  BY <2>2, <4>1, TouchesBoth
      <4>5. QED  BY <3>1, <4>1, <4>2, <4>3, <4>4 DEF Fits
    <3>4. QED  BY <2>1, <3>2, <3>3
  <2> DEFINE c == ToCompensate(i)
  <2>4. c.method = "compensate" /\ c.i = i  BY CallsGive
  <2>5. Each(e, c)  BY <2>3, EachAre
  <2>6. u = <<c>>  BY <1>6 DEF GiveUpCase
  <2> HIDE DEF c
  <2>7. Near(d, i, c.i) /\ c.method # "giveback"  BY <2>4, NearSelf
  <2>8. InOrder(C, e, u) /\ CallsNear(d, i, u)  BY <2>5, <2>6, <2>7, OneOrder
  <2>9. QED  BY <2>3, <2>8, StepOne
<1>7. CASE FailBackCase(d, e, i, k, u)
  <2>1. StatusSet(d, e, i, k, "failed") /\ u = <<ToFail(i, "failed")>>  BY <1>7 DEF FailBackCase
  <2>2. /\ Touches(d, e, {i}) /\ Grows(d, e) /\ e.inst[i] = d.inst[i] /\ e.error[i] = d.error[i]
        /\ e.token[i] = d.token[i] /\ Slots(e, i) = Slots(d, i)
        /\ \A m \in Slots(d, i) : m # k => e.stages[i][m] = d.stages[i][m]
        /\ Kept(d, e, i, k) /\ e.stages[i][k].row = d.stages[i][k].row /\ e.stages[i][k].status = "failed"
    BY <2>1 DEF StatusSet, Restages, Touches
  <2>3. HeadFits(e, i)
    <3>1. e.inst[i] # "absent"  BY <1>3, <1>7, <2>2 DEF FailBackCase, OpenInst
    <3>2. QED  BY <1>1, <2>2, <3>1 DEF Fits, HeadFits, Live
  <2>4. ASSUME NEW l \in Slots(e, i) PROVE StageFits(e, i, e.stages[i][l])
    <3>1. StageFits(d, i, d.stages[i][l])  BY <1>1, <2>2 DEF Fits
    <3>2. StageFits(e, i, d.stages[i][l])  BY <2>2, <3>1, StageFitsOn
    <3>3. CASE l # k  BY <2>2, <3>2, <3>3
    <3>4. CASE l = k
      <4>1. "failed" \notin OpenStage  BY DEF OpenStage
      <4>2. QED  BY <1>2, <2>2, <3>2, <3>4, <4>1 DEF StageFits, Kept
    <3>5. QED  BY <3>3, <3>4
  <2>5. Fits(e, i)  BY <2>3, <2>4 DEF Fits
  <2>6. InOrder(C, e, u) /\ CallsNear(d, i, u)  BY <2>1, FailCalls
  <2>7. QED  BY <2>2, <2>5, <2>6, StepOne
<1>8. QED  BY <1>5, <1>6, <1>7 DEF GiveBackCase

(***************************************************************************)
(* What one call does for the order of the calls and for the links.        *)
(***************************************************************************)
LEMMA NotCalm ==
  ASSUME NEW C, NEW d, NEW e, NEW i, NEW u, StepOK(C, d, e, i, FALSE, u), NEW calm, ~calm
  PROVE  StepOK(C, d, e, i, calm, u)
BY DEF StepOK

(* A token that still moves leaves the other stages of its instance held.   *)
HeldBy(d, c) == Going(d, c) => Held(d, c.i, c.t)

LEMMA CallStep ==
  ASSUME NEW C, CalmBy(C), NEW d \in Db, AllFit(d), LinksOnce(d), NEW c, CallOK(d, c), Each(d, c),
         HeldBy(d, c), NEW e, NEW u, CallCase(d, e, c, u)
  PROVE  StepOK(C, d, e, c.i, CalmHead(C, d, c), u)
<1>0. c \in Calls  BY DEF CallOK
<1>1. c.i \in Instances  BY <1>0, CallFields
<1>2. CASE SpentCase(d, e, c, u)  BY <1>1, <1>2, SpentStep
<1>3. CASE StepCase(d, e, c, u)
  <2>1. c.method = "advance" /\ Going(d, c)  BY <1>3 DEF StepCase, Going
  <2>2. c.t \in Token /\ c.n \in NodesOf[c.i] /\ d.inst[c.i] \in OpenInst /\ Held(d, c.i, c.t)
    BY <1>0, <2>1, CallFields DEF Each, HeldBy
  <2>3. Moved(d, Entered(d, c.i, c.t), c.i, c.t)  BY <1>1, <1>3, MovedIs DEF StepCase
  <2>4. EnterCase(Entered(d, c.i, c.t), e, c.i, c.t, c.n, u)  BY <1>3 DEF StepCase
  <2>5. StepOK(C, d, e, c.i, c.n \in C, u)  BY <1>1, <2>2, <2>3, <2>4, AdvanceStep
  <2>6. CalmHead(C, d, c) => c.n \in C  BY <2>1 DEF CalmHead
  <2>7. QED  BY <2>5, <2>6 DEF StepOK
<1>4. CASE c.method \in {"fail", "stop", "compensate", "parent", "link", "giveback"}
  <2>1. ~CalmHead(C, d, c)  BY <1>4 DEF CalmHead, Going
  <2>2. ASSUME StepOK(C, d, e, c.i, FALSE, u) PROVE StepOK(C, d, e, c.i, CalmHead(C, d, c), u)
    BY <2>1, <2>2 DEF StepOK
  <2>3. CASE c.method = "fail" /\ FailsCase(d, e, c.i, c.s, u)  BY <1>1, <2>2, <2>3, FailsStep
  <2>4. CASE c.method = "stop" /\ StopCase(d, e, c.i, c.s, u)
    <3>1. c.s \in {"failed", "cancelled"}  BY <1>0, <2>4, CallFields
    <3>2. Stopping(d, c.i)  BY <2>4 DEF Each
    <3>3. QED  BY <1>1, <2>2, <2>4, <3>1, <3>2, StopStep
  <2>5. CASE c.method = "compensate" /\ NextCase(d, e, c.i, u)
    <3>1. d.inst[c.i] = "compensating"  BY <2>5 DEF Each
    <3>2. QED  BY <1>1, <2>2, <2>5, <3>1, NextStep
  <2>6. CASE c.method = "parent" /\ ParentCase(d, e, c.i, u)  BY <1>1, <2>2, <2>6, ParentStep
  <2>7. CASE c.method = "link" /\ LinkCase(d, e, c.i, c.k, u)
    <3>1. LinkReady(d, c)  BY <2>7 DEF Each
    <3>2. QED  BY <1>0, <2>2, <2>7, <3>1, LinkStep
  <2>8. CASE c.method = "giveback" /\ GiveBackCase(d, e, c.i, c.k, u)
    <3>1. c.k \in Slots(d, c.i) /\ d.stages[c.i][c.k].status = "running"  BY <2>8 DEF Each
    <3>2. QED  BY <1>1, <2>2, <2>8, <3>1, GiveStep
  <2>9. QED  BY <1>4, <2>3, <2>4, <2>5, <2>6, <2>7, <2>8 DEF CallCase, SpentCase, StepCase
<1>5. CASE c.method = "sync" /\ Synced(d, e, c.i) /\ u = <<>>
  <2>1. StepOK(C, d, e, c.i, d.inst[c.i] \in OpenInst, <<>>)  BY <1>1, <1>5, SyncStep
  <2>2. CalmHead(C, d, c) => d.inst[c.i] \in OpenInst  BY DEF CalmHead
  <2>3. QED  BY <1>5, <2>1, <2>2 DEF StepOK
<1>6. QED  BY <1>2, <1>3, <1>4, <1>5 DEF CallCase

(* No step of a token sets a link running.                                  *)
LEMMA AddedLinks ==
  ASSUME NEW d, NEW e, NEW i, NEW st, Added(d, e, i, st), st.row # "running"
  PROVE  RunningLinks(e, i) \subseteq RunningLinks(d, i)
BY DEF Added, RunningLinks

LEMMA SameLinks ==
  ASSUME NEW d, NEW e, NEW i, e.stages[i] = d.stages[i]
  PROVE  RunningLinks(e, i) \subseteq RunningLinks(d, i)
BY DEF RunningLinks, Slots

LEMMA EnterLinks ==
  ASSUME NEW d \in Db, NEW i \in Instances, NEW t, NEW n \in NodesOf[i], NEW e, NEW u, EnterCase(d, e, i, t, n, u)
  PROVE  RunningLinks(e, i) \subseteq RunningLinks(d, i)
<1>1. CASE PassCase(d, e, i, t, n, u) \/ FailCase(d, e, i, n, u)
  <2>1. Same(d, e, i)  BY <1>1, TouchesSelf DEF PassCase, FailCase, Still, Touches
  <2>2. QED  BY <2>1, SameLinks DEF Same
<1>2. CASE QueueCase(d, e, i, t, n, u)
  <2>1. PICK st \in StageSet, s \in {"queued", "waiting_approval", "waiting_external"} :
          Added(d, e, i, st) /\ st.row = (IF st.kind = "signal" THEN "waiting" ELSE "none")
    BY <1>2 DEF QueueCase
  <2>2. st.row # "running"  BY <2>1
  <2>3. QED  BY <2>1, <2>2, AddedLinks
<1>3. CASE RunCase(d, e, i, t, n, u)
  <2>1. PICK st \in StageSet : Added(d, e, i, st) /\ st.row = "none"  BY <1>3 DEF RunCase
  <2>2. QED  BY <2>1, AddedLinks
<1>4. CASE RefuseCase(d, e, i, t, n, u)
  <2>1. PICK st \in StageSet : Added(d, e, i, st) /\ Waiting(st, n, t)  BY <1>4 DEF RefuseCase
  <2>2. QED  BY <2>1, AddedLinks DEF Waiting
<1>5. CASE BeginCase(d, e, i, t, n, u)
  <2>1. PICK b \in Db, st \in StageSet : Added(d, b, i, st) /\ Waiting(st, n, t) /\ Started(b, e, ChildOf[n])
    BY <1>5 DEF BeginCase
  <2>2. RunningLinks(b, i) \subseteq RunningLinks(d, i)  BY <2>1, AddedLinks DEF Waiting
  <2>3. e.stages[i] = b.stages[i]
    <3>1. CASE i = ChildOf[n]  BY <2>1, <3>1 DEF Started
    <3>2. CASE i # ChildOf[n]  BY <2>1, <3>2 DEF Started, Touches, Same
    <3>3. QED  BY <3>1, <3>2
  <2>4. QED  BY <2>2, <2>3, SameLinks
<1>6. CASE ForkCase(d, e, i, t, n, u)
  <2>1. e.stages[i] = d.stages[i]  BY <1>6 DEF ForkCase, Marked, Retokens
  <2>2. QED  BY <2>1, SameLinks
<1>7. CASE WaitCase(d, e, i, t, n, u) \/ MergeCase(d, e, i, t, n, u) \/ LeaveCase(d, e, i, t, n, u)
  <2>1. e.stages[i] = d.stages[i]
    <3>1. CASE WaitCase(d, e, i, t, n, u)  BY <3>1 DEF WaitCase, TokenSet, Retokens, Synced
    <3>2. CASE MergeCase(d, e, i, t, n, u)  BY <3>2 DEF MergeCase, TokenSet, Retokens, Marked
    <3>3. CASE LeaveCase(d, e, i, t, n, u)  BY <3>3 DEF LeaveCase, TokenSet, Retokens, Synced
    <3>4. QED  BY <1>7, <3>1, <3>2, <3>3
  <2>2. QED  BY <2>1, SameLinks
<1>8. CASE CompleteCase(d, e, i, t, n, u)
  <2>1. PICK b \in Db : TokenSet(d, b, i, t, "completed") /\ Completes(b, e, i)  BY <1>8 DEF CompleteCase
  <2>2. b.stages[i] = d.stages[i]  BY <2>1 DEF TokenSet, Retokens
  <2>3. \A m \in Slots(e, i) : /\ m \in Slots(b, i) /\ e.stages[i][m].kind = b.stages[i][m].kind
                               /\ e.stages[i][m].row = "running" => b.stages[i][m].row = "running"
    BY <2>1 DEF Completes, Kept
  <2>4. QED  BY <2>2, <2>3 DEF RunningLinks, Slots
<1>9. QED  BY <1>1, <1>2, <1>3, <1>4, <1>5, <1>6, <1>7, <1>8 DEF EnterCase

LEMMA CallLinks ==
  ASSUME NEW d \in Db, AllFit(d), NEW c, CallOK(d, c), Each(d, c), c.method # "link",
         NEW e, NEW u, CallCase(d, e, c, u)
  PROVE  RunningLinks(e, c.i) \subseteq RunningLinks(d, c.i)
<1> DEFINE i == c.i
<1>0. c \in Calls /\ i \in Instances  BY CallFields DEF CallOK
<1>1. ASSUME Still(d, e) PROVE RunningLinks(e, i) \subseteq RunningLinks(d, i)
  <2>1. Same(d, e, i)  BY <1>0, <1>1 DEF Still, Touches
  <2>2. QED  BY <2>1, SameLinks DEF Same
<1>2. ASSUME Slots(e, i) = Slots(d, i),
             \A m \in Slots(d, i) : /\ e.stages[i][m].kind = d.stages[i][m].kind
                                    /\ e.stages[i][m].row = "running" => d.stages[i][m].row = "running"
      PROVE  RunningLinks(e, i) \subseteq RunningLinks(d, i)
  BY <1>2 DEF RunningLinks
<1>3. ASSUME NEW at, NEW closed, Finishes(d, e, i, at, closed)
      PROVE  RunningLinks(e, i) \subseteq RunningLinks(d, i)
  BY <1>2, <1>3 DEF Finishes, Kept
<1>4. CASE SpentCase(d, e, c, u)  BY <1>1, <1>4 DEF SpentCase
<1>5. CASE StepCase(d, e, c, u)
  <2>1. c.method = "advance" /\ c.t \in Token /\ c.n \in NodesOf[i]  BY <1>0, <1>5, CallFields DEF StepCase, Each
  <2>2. Moved(d, Entered(d, i, c.t), i, c.t)  BY <1>0, <1>5, MovedIs DEF StepCase
  <2>3. EnterCase(Entered(d, i, c.t), e, i, c.t, c.n, u)  BY <1>5 DEF StepCase
  <2> HIDE DEF i
  <2>4. RunningLinks(e, i) \subseteq RunningLinks(Entered(d, i, c.t), i)
    BY <1>0, <2>1, <2>2, <2>3, EnterLinks DEF Moved
  <2>5. Entered(d, i, c.t).stages[i] = d.stages[i]  BY <2>2 DEF Moved
  <2>6. RunningLinks(Entered(d, i, c.t), i) \subseteq RunningLinks(d, i)  BY <2>5, SameLinks
  <2>7. QED  BY <2>4, <2>6 DEF i
<1>6. CASE FailsCase(d, e, i, c.s, u)
  <2>1. CASE Still(d, e)  BY <1>1, <2>1
  <2>2. CASE Quiesced(d, e, i)  BY <1>2, <2>2 DEF Quiesced, Kept
  <2>3. QED  BY <1>6, <2>1, <2>2 DEF FailsCase
<1>7. CASE StopCase(d, e, i, c.s, u)
  <2>1. CASE DetachCase(d, e, i, c.s, u)
    <3>1. PICK k \in RunningLinks(d, i) : RowSet(d, e, i, k, "cancelled")  BY <2>1 DEF DetachCase
    <3>2. QED  BY <1>2, <3>1 DEF RowSet, Restages, Kept
  <2>2. CASE CompensateCase(d, e, i, c.s, u)  BY <1>3, <2>2 DEF CompensateCase
  <2>3. CASE FinalCase(d, e, i, c.s, u)  BY <1>3, <2>3 DEF FinalCase
  <2>4. QED  BY <1>7, <2>1, <2>2, <2>3 DEF StopCase
<1>8. CASE NextCase(d, e, i, u)
  <2>1. CASE UndoCase(d, e, i, u)
    <3>1. PICK k \in Armed(d, i) : Undoes(d, e, i, k)  BY <2>1 DEF UndoCase
    <3>2. e.stages[i][NextSlot(d, i)].row = "none" /\ Slots(e, i) = Slots(d, i) \cup {NextSlot(d, i)}
      BY <3>1 DEF Undoes
    <3>3. \A m \in Slots(d, i) : /\ e.stages[i][m].kind = d.stages[i][m].kind
                                 /\ e.stages[i][m].row = "running" => d.stages[i][m].row = "running"
      BY <3>1 DEF Undoes, Kept
    <3>4. QED  BY <3>2, <3>3 DEF RunningLinks
  <2>2. ASSUME NEW s, FinalCase(d, e, i, s, u) PROVE RunningLinks(e, i) \subseteq RunningLinks(d, i)
    BY <1>3, <2>2 DEF FinalCase
  <2>3. QED  BY <1>8, <2>1, <2>2 DEF NextCase
<1>9. CASE ParentCase(d, e, i, u)
  <2>1. CASE Still(d, e)  BY <1>1, <2>1
  <2>2. ASSUME NEW p \in Instances, NEW k \in RunningLinks(d, p),
               UnlinkCase(d, e, p, k, u) \/ ResumeCase(d, e, i, p, k, u) \/ ToppleCase(d, e, i, p, k, u)
        PROVE  RunningLinks(e, i) \subseteq RunningLinks(d, i)
    <3>1. Touches(d, e, {p}) /\ Slots(e, p) = Slots(d, p)
          /\ \A m \in Slots(d, p) : /\ e.stages[p][m].kind = d.stages[p][m].kind
                                    /\ e.stages[p][m].row = "running" => d.stages[p][m].row = "running"
      <4>0. d.inst[p] \in OpenInst  BY LinkedIs
      <4>1. CASE ResumeCase(d, e, i, p, k, u)  BY <4>1 DEF ResumeCase, Settled, Restages, Kept
      <4>2. CASE ToppleCase(d, e, i, p, k, u)
        <5>1. PICK r \in {"failed", "cancelled"} : Settled(d, e, p, k, r, "failed")  BY <4>2 DEF ToppleCase
        <5>2. QED  BY <5>1 DEF Settled, Restages, Kept
      <4>3. QED  BY <2>2, <4>0, <4>1, <4>2 DEF UnlinkCase
    <3>2. CASE p = i  BY <1>2, <3>1, <3>2
    <3>3. CASE p # i
      <4>1. e.stages[i] = d.stages[i]  BY <1>0, <3>1, <3>3 DEF Touches, Same
      <4>2. QED  BY <4>1, SameLinks
    <3>4. QED  BY <3>2, <3>3
  <2>3. QED  BY <1>9, <2>1, <2>2 DEF ParentCase
<1>10. CASE Synced(d, e, i)  BY <1>10, SameLinks DEF Synced
<1>11. CASE GiveBackCase(d, e, i, c.k, u)
  <2> DEFINE k == c.k
  <2>1. CASE AgainCase(d, e, i, k, u)
    <3>1. PICK at : Restood(d, e, i, k, "queued", at)  BY <2>1 DEF AgainCase
    <3>2. QED  BY <1>2, <3>1 DEF Restood, Kept
  <2>2. CASE GiveUpCase(d, e, i, k, u)
    <3>1. PICK b \in Db :
            /\ Restood(d, b, i, k, "failed", "compensating")
            /\ RowSet(b, e, i, d.stages[i][k].of, "failed") \/ e = b
      BY <2>2 DEF GiveUpCase
    <3>2. Slots(b, i) = Slots(d, i)
          /\ \A m \in Slots(d, i) : /\ b.stages[i][m].kind = d.stages[i][m].kind
                                    /\ b.stages[i][m].row = d.stages[i][m].row
      BY <3>1 DEF Restood, Kept
    <3>3. CASE e = b  BY <1>2, <3>2, <3>3
    <3>4. CASE RowSet(b, e, i, d.stages[i][k].of, "failed")
      <4>1. Slots(e, i) = Slots(b, i)
            /\ \A m \in Slots(b, i) : /\ e.stages[i][m].kind = b.stages[i][m].kind
                                      /\ e.stages[i][m].row = "running" => b.stages[i][m].row = "running"
        BY <3>4 DEF RowSet, Restages, Kept
      <4>2. QED  BY <1>2, <3>2, <4>1
    <3>5. QED  BY <3>1, <3>3, <3>4
  <2>3. CASE FailBackCase(d, e, i, k, u)
    BY <1>2, <2>3 DEF FailBackCase, StatusSet, Restages, Kept
  <2>4. QED  BY <1>11, <2>1, <2>2, <2>3 DEF GiveBackCase
<1>12. QED  BY <1>4, <1>5, <1>6, <1>7, <1>8, <1>9, <1>10, <1>11 DEF CallCase

LEMMA LinksThen ==
  ASSUME NEW C, NEW d \in Db, AllFit(d), LinksOnce(d), NEW c, CallOK(d, c), Each(d, c),
         NEW e \in Db, Grows(d, e), NEW u, NEW calm, CallCase(d, e, c, u), StepOK(C, d, e, c.i, calm, u)
  PROVE  LinksOnce(e)
<1>0. c \in Calls /\ c.i \in Instances  BY CallFields DEF CallOK
<1>1. ASSUME NEW p \in Instances, NEW k \in RunningLinks(d, p)
      PROVE  Child(e, p, k) = Child(d, p, k)
  <2>1. k \in Slots(d, p)  BY DEF RunningLinks
  <2>2. QED  BY <2>1 DEF Grows, GrowsAt, Kept, Child
<1>2. CASE c.method # "link"
  <2>1. \A p \in Instances : RunningLinks(e, p) \subseteq RunningLinks(d, p)
    BY <1>2, CallLinks DEF StepOK
  <2>2. SUFFICES ASSUME NEW p \in Instances, NEW k \in RunningLinks(e, p), NEW m \in RunningLinks(e, p),
                        Child(e, p, k) = Child(e, p, m)
                 PROVE  k = m
    BY DEF LinksOnce
  <2>3. k \in RunningLinks(d, p) /\ m \in RunningLinks(d, p)  BY <2>1
  <2>4. Child(d, p, k) = Child(d, p, m)  BY <1>1, <2>2, <2>3
  <2>5. QED  BY <2>3, <2>4 DEF LinksOnce
<1>3. CASE c.method = "link"
  <2>1. LinkReady(d, c) /\ RowSet(d, e, c.i, c.k, "running")
    BY <1>3 DEF Each, CallCase, SpentCase, StepCase, LinkCase
  <2>2. \A p \in Instances : RunningLinks(e, p) \subseteq RunningLinks(d, p) \cup (IF p = c.i THEN {c.k} ELSE {})
    <3>1. TAKE p \in Instances
    <3>2. CASE p # c.i  BY <3>2 DEF StepOK
    <3>3. CASE p = c.i
      <4>1. \A m \in Slots(e, c.i) : m = c.k \/ (m \in Slots(d, c.i) /\ e.stages[c.i][m] = d.stages[c.i][m])
        BY <2>1 DEF RowSet, Restages
      <4>2. QED  BY <3>3, <4>1 DEF RunningLinks
    <3>4. QED  BY <3>2, <3>3
  <2>3. c.k \in Slots(d, c.i) /\ Unlinked(d, Child(d, c.i, c.k))  BY <2>1 DEF LinkReady
  <2>4. Child(e, c.i, c.k) = Child(d, c.i, c.k)  BY <1>0, <2>3 DEF Grows, GrowsAt, Kept, Child
  <2>5. SUFFICES ASSUME NEW p \in Instances, NEW k \in RunningLinks(e, p), NEW m \in RunningLinks(e, p),
                        Child(e, p, k) = Child(e, p, m)
                 PROVE  k = m
    BY DEF LinksOnce
  <2>6. CASE k \in RunningLinks(d, p) /\ m \in RunningLinks(d, p)
    <3>1. Child(d, p, k) = Child(d, p, m)  BY <1>1, <2>5, <2>6
    <3>2. QED  BY <2>6, <3>1 DEF LinksOnce
  <2>7. CASE p = c.i /\ k = c.k /\ m \in RunningLinks(d, p)
    <3>1. Child(d, p, m) = Child(d, c.i, c.k)  BY <1>1, <2>4, <2>5, <2>7
    <3>2. QED  BY <1>0, <2>3, <2>7, <3>1 DEF Unlinked
  <2>8. CASE p = c.i /\ m = c.k /\ k \in RunningLinks(d, p)
    <3>1. Child(d, p, k) = Child(d, c.i, c.k)  BY <1>1, <2>4, <2>5, <2>8
    <3>2. QED  BY <1>0, <2>3, <2>8, <3>1 DEF Unlinked
  <2>9. QED  BY <2>2, <2>5, <2>6, <2>7, <2>8
<1>4. QED  BY <1>2, <1>3

(***************************************************************************)
(* Part two of the invariant of the calls: the tokens of an instance.      *)
(***************************************************************************)
(* The tokens that wait to go on in i, and the ends that i waits for.       *)
Advances(c, i) == c.method = "advance" /\ c.i = i
Closes(c, i)   == c.method \in {"fail", "stop"} /\ c.i = i
Awaits(s, i)   == {s[x].t : x \in {y \in DOMAIN s : Advances(s[y], i)}}
Closing(s, i)  == \E x \in DOMAIN s : Closes(s[x], i)
Apart(s, i) ==
  \A x, y \in DOMAIN s : x # y /\ Advances(s[x], i) /\ Advances(s[y], i) => s[x].t # s[y].t
One(c, i) == IF Advances(c, i) THEN {c.t} ELSE {}

Active(d, i) == {t \in DOMAIN d.token[i] : d.token[i][t] = "active"}
Worked(d, i) == {d.stages[i][k].token : k \in OpenStages(d, i)}

(* A token's way leads through a fork that is still open.                   *)
Forked(d, i, t) ==
  /\ Front(t) \in DOMAIN d.token[i] /\ d.token[i][Front(t)] = "forked"
  /\ Last(t)[1] \in GNodes /\ Kind(Last(t)[1]) = "fork" /\ Last(t)[2] \in DOMAIN To(Last(t)[1])

(* The active tokens of i are at work in the open stages or are in P.       *)
TokensFit(d, i, P) ==
  /\ Active(d, i) = Worked(d, i) \cup P
  /\ Worked(d, i) \cap P = {}
  /\ \A k, m \in OpenStages(d, i) : d.stages[i][k].token = d.stages[i][m].token => k = m
  /\ \A t \in Live(d, i) : t # Root => Forked(d, i, t)
  /\ \A t, v \in Live(d, i) : t # Root /\ v # Root /\ Front(t) = Front(v) => Last(t)[1] = Last(v)[1]
Fit(d, i, P, Q) == P \cap Q = {} /\ TokensFit(d, i, P \cup Q)

AtWork(d, s, i) ==
  d.inst[i] \in OpenInst /\ ~Closing(s, i) => Apart(s, i) /\ TokensFit(d, i, Awaits(s, i))
AllAtWork(d, s) == \A i \in Instances : AtWork(d, s, i)

(* What a call must do for the tokens of i, Q being those of the calls left. *)
WorkGoal(e, u, i, Q) ==
  e.inst[i] \in OpenInst /\ ~Closing(u, i) => Apart(u, i) /\ Fit(e, i, Awaits(u, i), Q)

LEMMA HeadWork ==
  ASSUME NEW S, NEW s \in Seq(S), s # <<>>, NEW d, NEW i, AtWork(d, s, i),
         d.inst[i] \in OpenInst, ~Closes(Head(s), i), ~Closing(Tail(s), i)
  PROVE  Fit(d, i, One(Head(s), i), Awaits(Tail(s), i)) /\ Apart(Tail(s), i)
<1> DEFINE c == Head(s)  R == Tail(s)
<1>1. /\ c = s[1] /\ 1 \in DOMAIN s /\ DOMAIN s \subseteq Nat
      /\ \A x \in DOMAIN R : x + 1 \in DOMAIN s /\ R[x] = s[x + 1] /\ x \in Nat /\ x > 0
      /\ \A x \in DOMAIN s : x # 1 => x - 1 \in DOMAIN R /\ R[x - 1] = s[x]
  BY RestIs
<1> HIDE DEF c, R
<1>2. ~Closing(s, i)
  <2>1. SUFFICES ASSUME NEW x \in DOMAIN s, Closes(s[x], i) PROVE FALSE  BY DEF Closing
  <2>2. CASE x = 1  BY <1>1, <2>1, <2>2 DEF c
  <2>3. CASE x # 1
    <3>1. x - 1 \in DOMAIN R /\ Closes(R[x - 1], i)  BY <1>1, <2>1, <2>3
    <3>2. QED  BY <3>1 DEF Closing, R
  <2>4. QED  BY <2>2, <2>3
<1>3. Apart(s, i) /\ TokensFit(d, i, Awaits(s, i))  BY <1>2 DEF AtWork
<1>4. Apart(R, i)
  <2>1. SUFFICES ASSUME NEW x \in DOMAIN R, NEW y \in DOMAIN R, x # y, Advances(R[x], i), Advances(R[y], i)
                 PROVE  R[x].t # R[y].t
    BY DEF Apart
  <2>2. /\ x + 1 \in DOMAIN s /\ R[x] = s[x + 1] /\ y + 1 \in DOMAIN s /\ R[y] = s[y + 1] /\ x + 1 # y + 1
    BY <1>1, <2>1
  <2>3. \A a, b \in DOMAIN s : a # b /\ Advances(s[a], i) /\ Advances(s[b], i) => s[a].t # s[b].t
    BY <1>3 DEF Apart
  <2>4. PICK a \in DOMAIN s, b \in DOMAIN s : a # b /\ R[x] = s[a] /\ R[y] = s[b]  BY <2>2
  <2>5. QED  BY <2>1, <2>3, <2>4
<1>5. One(c, i) \cap Awaits(R, i) = {}
  <2>1. SUFFICES ASSUME Advances(c, i), NEW x \in DOMAIN R, Advances(R[x], i), R[x].t = c.t PROVE FALSE
    BY DEF One, Awaits
  <2>2. PICK a \in DOMAIN s : R[x] = s[a] /\ a # 1  BY <1>1
  <2>3. \A b \in DOMAIN s : a # b /\ Advances(s[a], i) /\ Advances(s[b], i) => s[a].t # s[b].t
    BY <1>3 DEF Apart
  <2>4. QED  BY <1>1, <2>1, <2>2, <2>3
<1>6. Awaits(s, i) = One(c, i) \cup Awaits(R, i)
  <2>1. ASSUME NEW v \in Awaits(s, i) PROVE v \in One(c, i) \cup Awaits(R, i)
    <3>1. PICK x \in DOMAIN s : Advances(s[x], i) /\ v = s[x].t  BY DEF Awaits
    <3>2. CASE x = 1  BY <1>1, <3>1, <3>2 DEF One
    <3>3. CASE x # 1
      <4>1. x - 1 \in DOMAIN R /\ R[x - 1] = s[x]  BY <1>1, <3>3
      <4>2. v \in Awaits(R, i)  BY <3>1, <4>1 DEF Awaits
      <4>3. QED  BY <4>2
    <3>4. QED  BY <3>2, <3>3
  <2>2. ASSUME NEW v \in One(c, i) PROVE v \in Awaits(s, i)
    <3>1. Advances(c, i) /\ v = c.t  BY <2>2 DEF One
    <3>2. QED  BY <1>1, <3>1 DEF Awaits
  <2>3. ASSUME NEW v \in Awaits(R, i) PROVE v \in Awaits(s, i)
    <3>1. PICK x \in DOMAIN R : Advances(R[x], i) /\ v = R[x].t  BY DEF Awaits
    <3>2. x + 1 \in DOMAIN s /\ R[x] = s[x + 1]  BY <1>1
    <3>3. QED  BY <3>1, <3>2 DEF Awaits
  <2>4. QED  BY <2>1, <2>2, <2>3
<1>7. Fit(d, i, One(c, i), Awaits(R, i))  BY <1>3, <1>5, <1>6 DEF Fit
<1>8. QED  BY <1>4, <1>7 DEF c, R

LEMMA WorkJoins ==
  ASSUME NEW z, NEW u, NEW R, IsConcat(z, u, R), NEW e, NEW i, Apart(R, i), WorkGoal(e, u, i, Awaits(R, i))
  PROVE  AtWork(e, z, i)
<1>1. /\ \A x \in DOMAIN u : x \in DOMAIN z /\ z[x] = u[x]
      /\ \A x \in DOMAIN R : Len(u) + x \in DOMAIN z /\ z[Len(u) + x] = R[x]
      /\ \A x \in DOMAIN z : x \in DOMAIN u \/ \E l \in DOMAIN R : x = Len(u) + l
  BY DEF IsConcat
<1>2. \A x \in DOMAIN z :
        (x \in DOMAIN u /\ z[x] = u[x]) \/ \E l \in DOMAIN R : x = Len(u) + l /\ z[x] = R[l]
  BY <1>1
<1>3. SUFFICES ASSUME e.inst[i] \in OpenInst, ~Closing(z, i)
               PROVE  Apart(z, i) /\ TokensFit(e, i, Awaits(z, i))
  BY DEF AtWork
<1>4. ~Closing(u, i)  BY <1>1, <1>3 DEF Closing
<1>5. Apart(u, i) /\ Awaits(u, i) \cap Awaits(R, i) = {} /\ TokensFit(e, i, Awaits(u, i) \cup Awaits(R, i))
  BY <1>3, <1>4 DEF WorkGoal, Fit
<1>6. Awaits(z, i) = Awaits(u, i) \cup Awaits(R, i)
  <2>1. ASSUME NEW v \in Awaits(z, i) PROVE v \in Awaits(u, i) \cup Awaits(R, i)
    <3>1. PICK x \in DOMAIN z : Advances(z[x], i) /\ v = z[x].t  BY DEF Awaits
    <3>2. CASE x \in DOMAIN u /\ z[x] = u[x]  BY <3>1, <3>2 DEF Awaits
    <3>3. ASSUME NEW l \in DOMAIN R, z[x] = R[l] PROVE v \in Awaits(R, i)  BY <3>1, <3>3 DEF Awaits
    <3>4. QED  BY <1>2, <3>2, <3>3
  <2>2. ASSUME NEW v \in Awaits(u, i) PROVE v \in Awaits(z, i)
    <3>1. PICK x \in DOMAIN u : Advances(u[x], i) /\ v = u[x].t  BY DEF Awaits
    <3>2. QED  BY <1>1, <3>1 DEF Awaits
  <2>3. ASSUME NEW v \in Awaits(R, i) PROVE v \in Awaits(z, i)
    <3>1. PICK x \in DOMAIN R : Advances(R[x], i) /\ v = R[x].t  BY DEF Awaits
    <3>2. Len(u) + x \in DOMAIN z /\ z[Len(u) + x] = R[x]  BY <1>1
    <3>3. QED  BY <3>1, <3>2 DEF Awaits
  <2>4. QED  BY <2>1, <2>2, <2>3
<1>7. Apart(z, i)
  <2>1. SUFFICES ASSUME NEW x \in DOMAIN z, NEW y \in DOMAIN z, x # y, Advances(z[x], i), Advances(z[y], i),
                        z[x].t = z[y].t
                 PROVE  FALSE
    BY DEF Apart
  <2>2. CASE x \in DOMAIN u /\ y \in DOMAIN u  BY <1>1, <1>5, <2>1, <2>2 DEF Apart
  <2>3. ASSUME x \in DOMAIN u, NEW l \in DOMAIN R, z[y] = R[l] PROVE FALSE
    <3>1. z[x].t \in Awaits(u, i)  BY <1>1, <2>1, <2>3 DEF Awaits
    <3>2. z[y].t \in Awaits(R, i)  BY <2>1, <2>3 DEF Awaits
    <3>3. QED  BY <1>5, <2>1, <3>1, <3>2
  <2>4. ASSUME y \in DOMAIN u, NEW l \in DOMAIN R, z[x] = R[l] PROVE FALSE
    <3>1. z[y].t \in Awaits(u, i)  BY <1>1, <2>1, <2>4 DEF Awaits
    <3>2. z[x].t \in Awaits(R, i)  BY <2>1, <2>4 DEF Awaits
    <3>3. QED  BY <1>5, <2>1, <3>1, <3>2
  <2>5. ASSUME NEW l \in DOMAIN R, z[x] = R[l], x = Len(u) + l,
               NEW m \in DOMAIN R, z[y] = R[m], y = Len(u) + m
        PROVE  FALSE
    <3>1. l # m  BY <2>1, <2>5
    <3>2. QED  BY <2>1, <2>5, <3>1 DEF Apart
  <2>6. QED  BY <1>2, <2>2, <2>3, <2>4, <2>5
<1>8. QED  BY <1>5, <1>6, <1>7

LEMMA AwaitsNone ==
  ASSUME NEW i
  PROVE  Awaits(<<>>, i) = {} /\ Apart(<<>>, i) /\ ~Closing(<<>>, i)
BY DEF Awaits, Apart, Closing

LEMMA AwaitsOne ==
  ASSUME NEW c, NEW i
  PROVE  Awaits(<<c>>, i) = One(c, i) /\ Apart(<<c>>, i) /\ (Closing(<<c>>, i) <=> Closes(c, i))
<1> DEFINE u == <<c>>
<1>1. DOMAIN u = {1} /\ u[1] = c  OBVIOUS
<1> HIDE DEF u
<1>2. Awaits(u, i) = One(c, i)  BY <1>1 DEF Awaits, One
<1>3. Apart(u, i) /\ (Closing(u, i) <=> Closes(c, i))  BY <1>1 DEF Apart, Closing
<1>4. QED  BY <1>2, <1>3 DEF u

LEMMA AwaitsTwo ==
  ASSUME NEW b, NEW c, NEW i, ~Advances(c, i)
  PROVE  /\ Awaits(<<b, c>>, i) = One(b, i) /\ Apart(<<b, c>>, i)
         /\ Closing(<<b, c>>, i) <=> Closes(b, i) \/ Closes(c, i)
<1> DEFINE u == <<b, c>>
<1>1. DOMAIN u = {1, 2} /\ u[1] = b /\ u[2] = c  OBVIOUS
<1> HIDE DEF u
<1>2. Awaits(u, i) = One(b, i)  BY <1>1 DEF Awaits, One
<1>3. Apart(u, i)  BY <1>1 DEF Apart
<1>4. Closing(u, i) <=> Closes(b, i) \/ Closes(c, i)  BY <1>1 DEF Closing
<1>5. QED  BY <1>2, <1>3, <1>4 DEF u

(* The open stages and the tokens of i stay.                                *)
Keeps(d, e, i) ==
  /\ e.token[i] = d.token[i] /\ OpenStages(e, i) = OpenStages(d, i)
  /\ \A k \in OpenStages(d, i) : e.stages[i][k].token = d.stages[i][k].token

LEMMA KeepsFit ==
  ASSUME NEW d, NEW e, NEW i, Keeps(d, e, i), NEW P, TokensFit(d, i, P)
  PROVE  TokensFit(e, i, P)
<1>1. Active(e, i) = Active(d, i) /\ Live(e, i) = Live(d, i)  BY DEF Keeps, Active, Live
<1>2. Worked(e, i) = Worked(d, i)  BY DEF Keeps, Worked
<1>3. \A t : Forked(d, i, t) => Forked(e, i, t)  BY DEF Keeps, Forked
<1>4. QED  BY <1>1, <1>2, <1>3 DEF Keeps, TokensFit

LEMMA SameKeeps ==
  ASSUME NEW d, NEW e, NEW i, e.stages[i] = d.stages[i], e.token[i] = d.token[i]
  PROVE  Keeps(d, e, i)
BY DEF Keeps, OpenStages, InStatus, Slots

(* Nothing of i moves.                                                      *)
LEMMA QuietWork ==
  ASSUME NEW d, NEW e, NEW i, NEW u, NEW Q, Keeps(d, e, i), Fit(d, i, {}, Q),
         Awaits(u, i) = {}, Apart(u, i)
  PROVE  WorkGoal(e, u, i, Q)
<1>1. TokensFit(e, i, {} \cup Q)  BY KeepsFit DEF Fit
<1>2. QED  BY <1>1 DEF WorkGoal, Fit

(* The token of a call goes on with the next one.                           *)
LEMMA PassWork ==
  ASSUME NEW d, NEW e, NEW i, NEW u, NEW Q, NEW t, NEW m, Keeps(d, e, i), Fit(d, i, {t}, Q),
         u = <<ToAdvance(i, t, m)>>
  PROVE  WorkGoal(e, u, i, Q)
<1> DEFINE c == ToAdvance(i, t, m)
<1>1. c.method = "advance" /\ c.i = i /\ c.t = t  BY CallsGive
<1>2. u = <<c>>  OBVIOUS
<1> HIDE DEF c
<1>3. One(c, i) = {t}  BY <1>1 DEF One, Advances
<1>4. Awaits(u, i) = {t} /\ Apart(u, i)  BY <1>2, <1>3, AwaitsOne
<1>5. TokensFit(e, i, {t} \cup Q)  BY KeepsFit DEF Fit
<1>6. QED  BY <1>4, <1>5 DEF WorkGoal, Fit

LEMMA FailWork ==
  ASSUME NEW e, NEW i, NEW s, NEW Q
  PROVE  WorkGoal(e, <<ToFail(i, s)>>, i, Q)
<1> DEFINE c == ToFail(i, s)
<1>1. Closes(c, i)  BY CallsGive DEF Closes
<1> HIDE DEF c
<1>2. Closing(<<c>>, i)  BY <1>1, AwaitsOne
<1>3. QED  BY <1>2 DEF WorkGoal, c

(* A stage is added for the token of the call.                              *)
LEMMA AddWork ==
  ASSUME NEW d, NEW e, NEW i, NEW u, NEW Q, NEW t, NEW st, Fit(d, i, {t}, Q),
         Added(d, e, i, st), st.status \in OpenStage, st.token = t, Awaits(u, i) = {}, Apart(u, i)
  PROVE  WorkGoal(e, u, i, Q)
<1> DEFINE k == NextSlot(d, i)
<1>1. /\ e.token[i] = d.token[i] /\ k \notin Slots(d, i) /\ Slots(e, i) = Slots(d, i) \cup {k}
      /\ \A m \in Slots(d, i) : e.stages[i][m] = d.stages[i][m]
      /\ e.stages[i][k] = st
  BY DEF Added
<1> HIDE DEF k
<1>2. OpenStages(e, i) = OpenStages(d, i) \cup {k} /\ k \notin OpenStages(d, i)
      /\ \A m \in OpenStages(d, i) : e.stages[i][m].token = d.stages[i][m].token
  BY <1>1 DEF OpenStages, InStatus
<1>3. Worked(e, i) = Worked(d, i) \cup {t}  BY <1>1, <1>2 DEF Worked
<1>4. Active(e, i) = Active(d, i) /\ Live(e, i) = Live(d, i) /\ \A v : Forked(d, i, v) => Forked(e, i, v)
  BY <1>1 DEF Active, Live, Forked
<1>5. {t} \cap Q = {} /\ TokensFit(d, i, {t} \cup Q)  BY DEF Fit
<1>6. t \notin Worked(d, i) /\ Worked(d, i) \cap Q = {} /\ Active(d, i) = Worked(d, i) \cup {t} \cup Q
  BY <1>5 DEF TokensFit
<1>7. \A m, l \in OpenStages(e, i) : e.stages[i][m].token = e.stages[i][l].token => m = l
  <2>1. \A m \in OpenStages(d, i) : d.stages[i][m].token # t  BY <1>6 DEF Worked
  <2>2. \A m, l \in OpenStages(d, i) : d.stages[i][m].token = d.stages[i][l].token => m = l
    BY <1>5 DEF TokensFit
  <2>3. QED  BY <1>1, <1>2, <2>1, <2>2
<1>8. TokensFit(e, i, Q)
  <2>1. \A v \in Live(e, i) : v # Root => Forked(e, i, v)  BY <1>4, <1>5 DEF TokensFit
  <2>2. \A v, w \in Live(e, i) : v # Root /\ w # Root /\ Front(v) = Front(w) => Last(v)[1] = Last(w)[1]
    BY <1>4, <1>5 DEF TokensFit
  <2>3. Worked(e, i) \cap Q = {} /\ Active(e, i) = Worked(e, i) \cup Q  BY <1>3, <1>4, <1>5, <1>6
  <2>4. QED  BY <1>7, <2>1, <2>2, <2>3 DEF TokensFit
<1>9. {} \cup Q = Q  OBVIOUS
<1>10. QED  BY <1>8, <1>9 DEF WorkGoal, Fit

(***************************************************************************)
(* What a step of a token does to the tokens of its instance.              *)
(***************************************************************************)
LEMMA WorkSame ==
  ASSUME NEW b, NEW e, NEW i, NEW u, NEW Q, WorkGoal(b, u, i, Q), Same(b, e, i)
  PROVE  WorkGoal(e, u, i, Q)
<1>1. e.inst[i] = b.inst[i] /\ e.stages[i] = b.stages[i] /\ e.token[i] = b.token[i]  BY DEF Same
<1>2. Keeps(b, e, i)  BY <1>1, SameKeeps
<1>3. SUFFICES ASSUME e.inst[i] \in OpenInst, ~Closing(u, i) PROVE Apart(u, i) /\ Fit(e, i, Awaits(u, i), Q)
  BY DEF WorkGoal
<1>4. Apart(u, i) /\ Fit(b, i, Awaits(u, i), Q)  BY <1>1, <1>3 DEF WorkGoal
<1>5. TokensFit(e, i, Awaits(u, i) \cup Q)  BY <1>2, <1>4, KeepsFit DEF Fit
<1>6. QED  BY <1>4, <1>5 DEF Fit

LEMMA TokensOf ==
  ASSUME NEW d \in Db, NEW i \in Instances
  PROVE  DOMAIN d.token[i] \subseteq Token /\ Live(d, i) \subseteq DOMAIN d.token[i]
<1>1. d.token[i] \in TokenMap  BY DEF Db
<1>2. QED  BY <1>1, TokenMapIs DEF Live

LEMMA QueueWork ==
  ASSUME NEW d, NEW e, NEW i, NEW t, NEW n, NEW u, NEW Q, Fit(d, i, {t}, Q), QueueCase(d, e, i, t, n, u)
  PROVE  WorkGoal(e, u, i, Q)
<1>1. PICK st \in StageSet : /\ Added(d, e, i, st) /\ st.token = t
                             /\ st.status \in {"queued", "waiting_approval", "waiting_external"}
  BY DEF QueueCase
<1>2. st.status \in OpenStage  BY <1>1 DEF OpenStage
<1>3. u = <<>>  BY DEF QueueCase
<1>4. Awaits(u, i) = {} /\ Apart(u, i)  BY <1>3, AwaitsNone
<1>5. QED  BY <1>1, <1>2, <1>4, AddWork

LEMMA RunWork ==
  ASSUME NEW d, NEW e, NEW i, NEW t, NEW n, NEW u, NEW Q, Fit(d, i, {t}, Q), RunCase(d, e, i, t, n, u)
  PROVE  WorkGoal(e, u, i, Q)
<1>1. PICK st \in StageSet : Added(d, e, i, st) /\ st.status = "completed"  BY DEF RunCase
<1> DEFINE k == NextSlot(d, i)
<1>2. /\ e.token[i] = d.token[i] /\ Slots(e, i) = Slots(d, i) \cup {k}
      /\ \A m \in Slots(d, i) : e.stages[i][m] = d.stages[i][m]
      /\ e.stages[i][k] = st
  BY <1>1 DEF Added
<1> HIDE DEF k
<1>3. st.status \notin OpenStage  BY <1>1 DEF OpenStage
<1>4. Keeps(d, e, i)  BY <1>2, <1>3 DEF Keeps, OpenStages, InStatus
<1>5. u = <<ToAdvance(i, t, To(n)[1])>>  BY DEF RunCase
<1>6. QED  BY <1>4, <1>5, PassWork

LEMMA BeginWork ==
  ASSUME NEW d \in Db, NEW e, NEW i \in Instances, NEW t, NEW n \in NodesOf[i], NEW u, NEW Q,
         Fit(d, i, {t}, Q), BeginCase(d, e, i, t, n, u)
  PROVE  WorkGoal(e, u, i, Q) /\ ChildOf[n] # i
<1> DEFINE c == ChildOf[n]
<1>1. n \in DOMAIN ChildOf  BY FamilyAssumption, GraphAssumption DEF BeginCase
<1>2. c \in Kids(i) /\ c \in Instances  BY <1>1, KidsAre DEF Kids
<1>3. c # i  BY <1>2, KidsAre, FamilyIs
<1>4. PICK b \in Db : /\ \E st \in StageSet : Added(d, b, i, st) /\ Waiting(st, n, t)
                      /\ Started(b, e, c)
  BY DEF BeginCase
<1>5. PICK st \in StageSet : Added(d, b, i, st) /\ Waiting(st, n, t)  BY <1>4
<1>6. u = <<ToAdvance(c, Root, StartOf[c]), ToLink(i, NextSlot(d, i))>>  BY DEF BeginCase
<1> DEFINE x == ToAdvance(c, Root, StartOf[c])  y == ToLink(i, NextSlot(d, i))
<1>7. x.method = "advance" /\ x.i = c /\ y.method = "link"  BY CallsGive
<1>8. u = <<x, y>>  BY <1>6
<1> HIDE DEF x, y
<1>9. One(x, i) = {} /\ ~Advances(y, i)  BY <1>3, <1>7 DEF One, Advances
<1>10. Awaits(u, i) = {} /\ Apart(u, i)  BY <1>8, <1>9, AwaitsTwo
<1>11. st.status \in OpenStage /\ st.token = t  BY <1>5 DEF Waiting, OpenStage
<1>12. WorkGoal(b, u, i, Q)  BY <1>5, <1>10, <1>11, AddWork
<1>13. Same(b, e, i)  BY <1>3, <1>4 DEF Started, Touches
<1>14. QED  BY <1>3, <1>12, <1>13, WorkSame

(* A child that has just been started has one token, and that is called.    *)
LEMMA BornTokens ==
  ASSUME NEW d, NEW e, NEW c, Started(d, e, c), d.stages[c] = <<>>
  PROVE  TokensFit(e, c, {Root})
<1>1. /\ e.stages[c] = <<>> /\ DOMAIN e.token[c] = {Root} /\ e.token[c][Root] = "active"
  BY DEF Started
<1>2. OpenStages(e, c) = {}
  <2>1. DOMAIN e.stages[c] = {}  BY <1>1
  <2>2. QED  BY <2>1 DEF OpenStages, InStatus, Slots
<1>3. Worked(e, c) = {}  BY <1>2 DEF Worked
<1>4. Active(e, c) = {Root} /\ Live(e, c) \subseteq {Root}  BY <1>1 DEF Active, Live
<1>5. QED  BY <1>2, <1>3, <1>4 DEF TokensFit

LEMMA BornWork ==
  ASSUME NEW d, NEW e, NEW c, Started(d, e, c), d.stages[c] = <<>>,
         NEW u, NEW x, NEW y, u = <<x, y>>, One(x, c) = {Root}, ~Advances(y, c)
  PROVE  WorkGoal(e, u, c, {})
<1>1. Awaits(u, c) = {Root} /\ Apart(u, c)  BY AwaitsTwo
<1>2. {Root} \cup {} = {Root}  OBVIOUS
<1>3. TokensFit(e, c, {Root} \cup {})  BY <1>2, BornTokens
<1>4. Fit(e, c, {Root}, {})  BY <1>3 DEF Fit
<1>5. QED  BY <1>1, <1>4 DEF WorkGoal

LEMMA ForkTokens ==
  ASSUME NEW d \in Db, NEW i \in Instances, NEW t \in Token, NEW n \in GNodes, Kind(n) = "fork", NEW Q,
         Fit(d, i, {t}, Q), NEW e, Marked(d, e, i, Branches(t, n), "active", t, "forked")
  PROVE  Fit(e, i, Branches(t, n), Q)
<1> DEFINE B == Branches(t, n)
<1>1. /\ B \subseteq Token /\ t \notin B /\ Root \notin B
      /\ \A c \in B : Front(c) = t /\ Last(c)[1] = n /\ Last(c)[2] \in DOMAIN To(n)
  BY BranchesAre
<1>2. /\ e.stages[i] = d.stages[i]
      /\ DOMAIN e.token[i] = B \cup {t} \cup DOMAIN d.token[i]
      /\ \A c \in B : e.token[i][c] = "active"
      /\ e.token[i][t] = "forked"
      /\ \A c \in DOMAIN d.token[i] : c \notin B /\ c # t => e.token[i][c] = d.token[i][c]
  BY DEF Marked, Retokens
<1> HIDE DEF B
<1>3. {t} \cap Q = {} /\ TokensFit(d, i, {t} \cup Q)  BY DEF Fit
<1>4. /\ Active(d, i) = Worked(d, i) \cup {t} \cup Q /\ t \notin Q /\ t \notin Worked(d, i)
      /\ Worked(d, i) \cap Q = {}
  BY <1>3 DEF TokensFit
<1>5. t \in DOMAIN d.token[i] /\ d.token[i][t] = "active" /\ t \in Live(d, i)
  BY <1>4 DEF Active, Live, LiveToken
<1>6. \A v \in Live(d, i) : v # Root => Front(v) # t  BY <1>3, <1>5 DEF TokensFit, Forked
<1>7. B \cap Live(d, i) = {}  BY <1>1, <1>6
<1>8. Active(d, i) \subseteq Live(d, i)  BY DEF Active, Live, LiveToken
<1>9. Active(e, i) = (Active(d, i) \ {t}) \cup B  BY <1>1, <1>2, <1>7, <1>8 DEF Active
<1>10. OpenStages(e, i) = OpenStages(d, i) /\ Worked(e, i) = Worked(d, i)
  BY <1>2 DEF OpenStages, InStatus, Slots, Worked
<1>11. Live(e, i) = Live(d, i) \cup B  BY <1>1, <1>2, <1>5, <1>7 DEF Live, LiveToken
<1>12. Active(e, i) = Worked(e, i) \cup (B \cup Q) /\ Worked(e, i) \cap (B \cup Q) = {} /\ B \cap Q = {}
  BY <1>4, <1>7, <1>8, <1>9, <1>10
<1>13. \A k, m \in OpenStages(e, i) : e.stages[i][k].token = e.stages[i][m].token => k = m
  BY <1>2, <1>3, <1>10 DEF TokensFit
<1>14. ASSUME NEW v \in Live(e, i), v # Root PROVE Forked(e, i, v)
  <2>1. CASE v \in B  BY <1>1, <1>2, <2>1 DEF Forked
  <2>2. CASE v \notin B
    <3>1. v \in Live(d, i)  BY <1>11, <2>2
    <3>2. Forked(d, i, v)  BY <1>3, <1>14, <3>1 DEF TokensFit
    <3>3. Front(v) # t /\ Front(v) \in Live(d, i)  BY <1>6, <1>14, <3>1, <3>2 DEF Forked, Live, LiveToken
    <3>4. Front(v) \notin B  BY <1>7, <3>3
    <3>5. QED  BY <1>2, <3>2, <3>3, <3>4 DEF Forked
  <2>3. QED  BY <2>1, <2>2
<1>15. ASSUME NEW v \in Live(e, i), NEW w \in Live(e, i), v # Root, w # Root, Front(v) = Front(w)
       PROVE  Last(v)[1] = Last(w)[1]
  <2>1. CASE v \in B /\ w \in B  BY <1>1, <2>1
  <2>2. CASE v \notin B /\ w \notin B
    <3>1. v \in Live(d, i) /\ w \in Live(d, i)  BY <1>11, <2>2
    <3>2. QED  BY <1>3, <1>15, <3>1 DEF TokensFit
  <2>3. CASE v \in B /\ w \notin B  BY <1>1, <1>6, <1>11, <1>15, <2>3
  <2>4. CASE v \notin B /\ w \in B  BY <1>1, <1>6, <1>11, <1>15, <2>4
  <2>5. QED  BY <2>1, <2>2, <2>3, <2>4
<1>16. TokensFit(e, i, B \cup Q)  BY <1>12, <1>13, <1>14, <1>15 DEF TokensFit
<1>17. QED  BY <1>12, <1>16 DEF Fit, B

LEMMA ForkWork ==
  ASSUME NEW d \in Db, NEW e, NEW i \in Instances, NEW t \in Token, NEW n \in GNodes, NEW u, NEW Q,
         Fit(d, i, {t}, Q), ForkCase(d, e, i, t, n, u)
  PROVE  WorkGoal(e, u, i, Q)
<1>1. Kind(n) = "fork" /\ Marked(d, e, i, Branches(t, n), "active", t, "forked")  BY DEF ForkCase
<1>2. Fit(e, i, Branches(t, n), Q)  BY <1>1, ForkTokens
<1>3. PICK x \in Seq(Calls) :
        /\ IsConcat(u, x, <<ToSync(i)>>) /\ DOMAIN x = DOMAIN To(n)
        /\ \A b \in DOMAIN To(n) : x[b] = ToAdvance(i, Branch(t, n, b), To(n)[b])
  BY DEF ForkCase
<1> DEFINE c == ToSync(i)  y == <<c>>
<1>4. c.method = "sync"  BY CallsGive
<1>5. DOMAIN y = {1} /\ y[1] = c  OBVIOUS
<1>6. IsConcat(u, x, y)  BY <1>3
<1> HIDE DEF c, y
<1>7. /\ \A k \in DOMAIN x : k \in DOMAIN u /\ u[k] = x[k]
      /\ \A k \in DOMAIN u : k \in DOMAIN x \/ u[k] = c
  <2>1. \A k \in DOMAIN u : k \in DOMAIN x \/ \E l \in DOMAIN y : u[k] = y[l]  BY <1>6 DEF IsConcat
  <2>2. QED  BY <1>5, <1>6, <2>1 DEF IsConcat
<1>8. \A b \in DOMAIN x : x[b].method = "advance" /\ x[b].i = i /\ x[b].t = Branch(t, n, b)
  BY <1>3, CallsGive
<1>9. \A k \in DOMAIN u : Advances(u[k], i) => k \in DOMAIN x /\ u[k] = x[k]
  BY <1>4, <1>7 DEF Advances
<1>10. Awaits(u, i) = Branches(t, n)
  <2>1. ASSUME NEW v \in Awaits(u, i) PROVE v \in Branches(t, n)
    <3>1. PICK k \in DOMAIN u : Advances(u[k], i) /\ v = u[k].t  BY DEF Awaits
    <3>2. k \in DOMAIN x /\ v = x[k].t  BY <1>9, <3>1
    <3>3. QED  BY <1>3, <1>8, <3>2 DEF Branches
  <2>2. ASSUME NEW v \in Branches(t, n) PROVE v \in Awaits(u, i)
    <3>1. PICK b \in DOMAIN To(n) : v = Branch(t, n, b)  BY DEF Branches
    <3>2. b \in DOMAIN u /\ Advances(u[b], i) /\ u[b].t = v  BY <1>3, <1>7, <1>8, <3>1 DEF Advances
    <3>3. QED  BY <3>2 DEF Awaits
  <2>3. QED  BY <2>1, <2>2
<1>11. Apart(u, i)
  <2>1. SUFFICES ASSUME NEW k \in DOMAIN u, NEW m \in DOMAIN u, k # m, Advances(u[k], i), Advances(u[m], i),
                        u[k].t = u[m].t
                 PROVE  FALSE
    BY DEF Apart
  <2>2. k \in DOMAIN To(n) /\ m \in DOMAIN To(n) /\ Branch(t, n, k) = Branch(t, n, m)
    BY <1>3, <1>8, <1>9, <2>1
  <2>3. QED  BY <1>1, <2>1, <2>2, BranchesAre
<1>12. QED  BY <1>2, <1>10, <1>11 DEF WorkGoal

(* A token of a call stops moving: it waits at a join, or has ended.        *)
LEMMA DropTokens ==
  ASSUME NEW d, NEW e, NEW i, NEW t, NEW Q, Fit(d, i, {t}, Q), NEW s \in {"waiting_join", "completed"},
         TokenSet(d, e, i, t, s)
  PROVE  Fit(e, i, {}, Q)
<1>1. /\ e.stages[i] = d.stages[i] /\ DOMAIN e.token[i] = DOMAIN d.token[i]
      /\ \A v \in DOMAIN d.token[i] : e.token[i][v] = IF v = t THEN s ELSE d.token[i][v]
  BY DEF TokenSet, Retokens
<1>2. {t} \cap Q = {} /\ TokensFit(d, i, {t} \cup Q)  BY DEF Fit
<1>3. /\ Active(d, i) = Worked(d, i) \cup {t} \cup Q /\ t \notin Q /\ t \notin Worked(d, i)
      /\ Worked(d, i) \cap Q = {}
  BY <1>2 DEF TokensFit
<1>4. t \in DOMAIN d.token[i] /\ d.token[i][t] = "active"  BY <1>3 DEF Active
<1>5. Active(e, i) = Active(d, i) \ {t}  BY <1>1, <1>4 DEF Active
<1>6. OpenStages(e, i) = OpenStages(d, i) /\ Worked(e, i) = Worked(d, i)
  BY <1>1 DEF OpenStages, InStatus, Slots, Worked
<1>7. Live(e, i) \subseteq Live(d, i)  BY <1>1, <1>4 DEF Live, LiveToken
<1>8. ASSUME NEW v, Forked(d, i, v) PROVE Forked(e, i, v)
  BY <1>1, <1>4, <1>8 DEF Forked
<1>9. Active(e, i) = Worked(e, i) \cup Q /\ Worked(e, i) \cap Q = {}  BY <1>3, <1>5, <1>6
<1>10. \A k, m \in OpenStages(e, i) : e.stages[i][k].token = e.stages[i][m].token => k = m
  BY <1>1, <1>2, <1>6 DEF TokensFit
<1>11. \A v \in Live(e, i) : v # Root => Forked(e, i, v)  BY <1>2, <1>7, <1>8 DEF TokensFit
<1>12. \A v, w \in Live(e, i) : v # Root /\ w # Root /\ Front(v) = Front(w) => Last(v)[1] = Last(w)[1]
  BY <1>2, <1>7 DEF TokensFit
<1>13. TokensFit(e, i, Q)  BY <1>9, <1>10, <1>11, <1>12 DEF TokensFit
<1>14. {} \cup Q = Q  OBVIOUS
<1>15. QED  BY <1>13, <1>14 DEF Fit

LEMMA DropWork ==
  ASSUME NEW d, NEW b, NEW e, NEW i, NEW t, NEW Q, Fit(d, i, {t}, Q), NEW s \in {"waiting_join", "completed"},
         TokenSet(d, b, i, t, s), Synced(b, e, i)
  PROVE  WorkGoal(e, <<>>, i, Q)
<1>1. Fit(b, i, {}, Q)  BY DropTokens
<1>2. Keeps(b, e, i)  BY SameKeeps DEF Synced
<1>3. QED  BY <1>1, <1>2, AwaitsNone, QuietWork

LEMMA MergeTokens ==
  ASSUME NEW d \in Db, NEW i \in Instances, NEW t \in Token, NEW f \in GNodes, Kind(f) = "fork", NEW Q,
         Fit(d, i, {t}, Q), t # Root, Last(t)[1] = f,
         NEW b, TokenSet(d, b, i, t, "waiting_join"),
         \A c \in Branches(Front(t), f) : c \in DOMAIN b.token[i] /\ b.token[i][c] = "waiting_join",
         NEW e, Marked(b, e, i, Branches(Front(t), f), "merged", Front(t), "active")
  PROVE  Fit(e, i, {Front(t)}, Q)
<1> DEFINE p == Front(t)  W == Branches(p, f)
<1>1. p \in Token /\ p # t  BY FrontIs
<1>2. /\ W \subseteq Token /\ p \notin W /\ Root \notin W
      /\ \A c \in Token : c # Root /\ Front(c) = p /\ Last(c)[1] = f /\ Last(c)[2] \in DOMAIN To(f) => c \in W
  BY <1>1, BranchesAre
<1>3. /\ b.stages[i] = d.stages[i] /\ DOMAIN b.token[i] = DOMAIN d.token[i]
      /\ \A v \in DOMAIN d.token[i] : b.token[i][v] = IF v = t THEN "waiting_join" ELSE d.token[i][v]
  BY DEF TokenSet, Retokens
<1>4. /\ e.stages[i] = b.stages[i]
      /\ DOMAIN e.token[i] = W \cup {p} \cup DOMAIN b.token[i]
      /\ \A c \in W : e.token[i][c] = "merged"
      /\ e.token[i][p] = "active"
      /\ \A c \in DOMAIN b.token[i] : c \notin W /\ c # p => e.token[i][c] = b.token[i][c]
  BY DEF Marked, Retokens
<1>5. \A c \in W : c \in DOMAIN d.token[i] /\ (c = t \/ d.token[i][c] = "waiting_join")
  BY <1>3
<1>6. p = Front(t)  OBVIOUS
<1> HIDE DEF p, W
<1>7. {t} \cap Q = {} /\ TokensFit(d, i, {t} \cup Q)  BY DEF Fit
<1>8. /\ Active(d, i) = Worked(d, i) \cup {t} \cup Q /\ t \notin Q /\ t \notin Worked(d, i)
      /\ Worked(d, i) \cap Q = {}
  BY <1>7 DEF TokensFit
<1>9. t \in DOMAIN d.token[i] /\ d.token[i][t] = "active" /\ t \in Live(d, i)
  BY <1>8 DEF Active, Live, LiveToken
<1>10. Forked(d, i, t)  BY <1>7, <1>9 DEF TokensFit
<1>11. p \in DOMAIN d.token[i] /\ d.token[i][p] = "forked" /\ p \in Live(d, i) /\ Last(t)[2] \in DOMAIN To(f)
  BY <1>6, <1>10 DEF Forked, Live, LiveToken
<1>12. t \in W  BY <1>2, <1>6, <1>11
<1>13. DOMAIN e.token[i] = DOMAIN d.token[i]  BY <1>3, <1>4, <1>5, <1>11
<1>14. \A c \in DOMAIN d.token[i] :
         e.token[i][c] = IF c \in W THEN "merged" ELSE IF c = p THEN "active" ELSE d.token[i][c]
  BY <1>2, <1>3, <1>4, <1>12
<1>15. Active(e, i) = (Active(d, i) \ {t}) \cup {p}
  <2>1. ASSUME NEW v \in Active(e, i) PROVE v \in (Active(d, i) \ {t}) \cup {p}
    BY <1>12, <1>13, <1>14, <2>1 DEF Active
  <2>2. ASSUME NEW v \in Active(d, i), v # t PROVE v \in Active(e, i)
    BY <1>5, <1>11, <1>13, <1>14, <2>2 DEF Active
  <2>3. p \in Active(e, i)  BY <1>2, <1>11, <1>13, <1>14 DEF Active
  <2>4. QED  BY <2>1, <2>2, <2>3
<1>16. p \notin Active(d, i)  BY <1>11 DEF Active
<1>17. OpenStages(e, i) = OpenStages(d, i) /\ Worked(e, i) = Worked(d, i)
  BY <1>3, <1>4 DEF OpenStages, InStatus, Slots, Worked
<1>18. Live(e, i) = Live(d, i) \ W
  BY <1>2, <1>5, <1>9, <1>11, <1>13, <1>14 DEF Live, LiveToken
<1>19. Active(e, i) = Worked(e, i) \cup ({p} \cup Q) /\ Worked(e, i) \cap ({p} \cup Q) = {} /\ {p} \cap Q = {}
  BY <1>8, <1>15, <1>16, <1>17
<1>20. \A k, m \in OpenStages(e, i) : e.stages[i][k].token = e.stages[i][m].token => k = m
  BY <1>3, <1>4, <1>7, <1>17 DEF TokensFit
<1>21. ASSUME NEW v \in Live(e, i), v # Root PROVE Forked(e, i, v)
  <2>1. v \in Live(d, i) /\ v \notin W /\ v \in Token  BY <1>18, TokensOf
  <2>2. Forked(d, i, v)  BY <1>7, <1>21, <2>1 DEF TokensFit
  <2>3. Front(v) # p
    <3>1. SUFFICES ASSUME Front(v) = p PROVE FALSE  OBVIOUS
    <3>2. Last(v)[1] = f  BY <1>6, <1>7, <1>9, <1>21, <2>1, <3>1 DEF TokensFit
    <3>3. v \in W  BY <1>2, <1>21, <2>1, <2>2, <3>1, <3>2 DEF Forked
    <3>4. QED  BY <2>1, <3>3
  <2>4. Front(v) \notin W  BY <1>5, <1>9, <2>2 DEF Forked
  <2>5. QED  BY <1>13, <1>14, <2>2, <2>3, <2>4 DEF Forked
<1>22. \A v, w \in Live(e, i) : v # Root /\ w # Root /\ Front(v) = Front(w) => Last(v)[1] = Last(w)[1]
  BY <1>7, <1>18 DEF TokensFit
<1>23. TokensFit(e, i, {p} \cup Q)  BY <1>19, <1>20, <1>21, <1>22 DEF TokensFit
<1>24. QED  BY <1>19, <1>23 DEF Fit, p

LEMMA MergeWork ==
  ASSUME NEW d \in Db, NEW e, NEW i \in Instances, NEW t \in Token, NEW n \in GNodes, NEW u, NEW Q,
         Fit(d, i, {t}, Q), MergeCase(d, e, i, t, n, u)
  PROVE  WorkGoal(e, u, i, Q)
<1> DEFINE f == ForkOf[n]
<1>1. f \in GNodes /\ Kind(f) = "fork"  BY GraphAssumption DEF MergeCase
<1> HIDE DEF f
<1>2. /\ u = <<ToAdvance(i, Front(t), To(n)[1])>> /\ t # Root /\ Last(t)[1] = f
      /\ \E b \in Db :
           /\ TokenSet(d, b, i, t, "waiting_join")
           /\ \A c \in Branches(Front(t), f) : c \in DOMAIN b.token[i] /\ b.token[i][c] = "waiting_join"
           /\ Marked(b, e, i, Branches(Front(t), f), "merged", Front(t), "active")
  BY DEF MergeCase, f
<1>3. PICK b \in Db :
        /\ TokenSet(d, b, i, t, "waiting_join")
        /\ \A c \in Branches(Front(t), f) : c \in DOMAIN b.token[i] /\ b.token[i][c] = "waiting_join"
        /\ Marked(b, e, i, Branches(Front(t), f), "merged", Front(t), "active")
  BY <1>2
<1>4. Fit(e, i, {Front(t)}, Q)  BY <1>1, <1>2, <1>3, MergeTokens
<1>5. Keeps(e, e, i)  BY SameKeeps
<1>6. QED  BY <1>2, <1>4, <1>5, PassWork

(* Whatever step the token takes.                                           *)
LEMMA EnterWork ==
  ASSUME NEW d \in Db, NEW e, NEW i \in Instances, NEW t \in Token, NEW n \in NodesOf[i], NEW u, NEW Q,
         Fit(d, i, {t}, Q), EnterCase(d, e, i, t, n, u)
  PROVE  WorkGoal(e, u, i, Q)
<1>1. n \in GNodes  BY NextNode
<1>2. ASSUME PassCase(d, e, i, t, n, u) PROVE WorkGoal(e, u, i, Q)
  <2>1. PICK m \in GNodes : u = <<ToAdvance(i, t, m)>>  BY <1>2 DEF PassCase
  <2>2. Same(d, e, i)  BY <1>2 DEF PassCase, Still, Touches
  <2>3. Keeps(d, e, i)  BY <2>2, SameKeeps DEF Same
  <2>4. QED  BY <2>1, <2>3, PassWork
<1>3. ASSUME FailCase(d, e, i, n, u) PROVE WorkGoal(e, u, i, Q)  BY <1>3, FailWork DEF FailCase
<1>4. ASSUME QueueCase(d, e, i, t, n, u) PROVE WorkGoal(e, u, i, Q)  BY <1>4, QueueWork
<1>5. ASSUME RunCase(d, e, i, t, n, u) PROVE WorkGoal(e, u, i, Q)  BY <1>5, RunWork
<1>6. ASSUME RefuseCase(d, e, i, t, n, u) PROVE WorkGoal(e, u, i, Q)  BY <1>6, FailWork DEF RefuseCase
<1>7. ASSUME BeginCase(d, e, i, t, n, u) PROVE WorkGoal(e, u, i, Q)  BY <1>7, BeginWork
<1>8. ASSUME ForkCase(d, e, i, t, n, u) PROVE WorkGoal(e, u, i, Q)  BY <1>1, <1>8, ForkWork
<1>9. ASSUME WaitCase(d, e, i, t, n, u) PROVE WorkGoal(e, u, i, Q)
  <2>1. PICK b \in Db : TokenSet(d, b, i, t, "waiting_join") /\ Synced(b, e, i)  BY <1>9 DEF WaitCase
  <2>2. WorkGoal(e, <<>>, i, Q)  BY <2>1, DropWork
  <2>3. QED  BY <1>9, <2>2 DEF WaitCase
<1>10. ASSUME MergeCase(d, e, i, t, n, u) PROVE WorkGoal(e, u, i, Q)  BY <1>1, <1>10, MergeWork
<1>11. ASSUME LeaveCase(d, e, i, t, n, u) PROVE WorkGoal(e, u, i, Q)
  <2>1. PICK b \in Db : TokenSet(d, b, i, t, "completed") /\ Synced(b, e, i)  BY <1>11 DEF LeaveCase
  <2>2. WorkGoal(e, <<>>, i, Q)  BY <2>1, DropWork
  <2>3. QED  BY <1>11, <2>2 DEF LeaveCase
<1>12. ASSUME CompleteCase(d, e, i, t, n, u) PROVE WorkGoal(e, u, i, Q)
  <2>1. e.inst[i] = "completed"  BY <1>12 DEF CompleteCase, Completes, StandsAt
  <2>2. QED  BY <2>1 DEF WorkGoal, OpenInst
<1>13. QED
  BY <1>2, <1>3, <1>4, <1>5, <1>6, <1>7, <1>8, <1>9, <1>10, <1>11, <1>12 DEF EnterCase

LEMMA Elsewhere ==
  ASSUME NEW u, NEW j, \A x \in DOMAIN u : ~Advances(u[x], j)
  PROVE  Awaits(u, j) = {} /\ Apart(u, j)
BY DEF Awaits, Apart

(* Nothing happens to j, and none of its tokens is called.                  *)
Spared(d, e, u, j) == Same(d, e, j) /\ Awaits(u, j) = {} /\ Apart(u, j)

LEMMA SparedWork ==
  ASSUME NEW d, NEW e, NEW u, NEW j, Spared(d, e, u, j), NEW Q, Fit(d, j, {}, Q)
  PROVE  WorkGoal(e, u, j, Q)
<1>1. Keeps(d, e, j)  BY SameKeeps DEF Same, Spared
<1>2. QED  BY <1>1, QuietWork DEF Spared

LEMMA SparedOne ==
  ASSUME NEW d, NEW e, NEW j, Same(d, e, j), NEW c, ~Advances(c, j)
  PROVE  Spared(d, e, <<c>>, j)
<1>1. Awaits(<<c>>, j) = {} /\ Apart(<<c>>, j)  BY AwaitsOne DEF One
<1>2. QED  BY <1>1 DEF Spared

LEMMA SparedNone ==
  ASSUME NEW d, NEW e, NEW j, Same(d, e, j)
  PROVE  Spared(d, e, <<>>, j)
BY AwaitsNone DEF Spared

LEMMA SparedTwo ==
  ASSUME NEW d, NEW e, NEW j, Same(d, e, j), NEW b, NEW c, ~Advances(b, j), ~Advances(c, j)
  PROVE  Spared(d, e, <<b, c>>, j)
<1>1. Awaits(<<b, c>>, j) = {} /\ Apart(<<b, c>>, j)  BY AwaitsTwo DEF One
<1>2. QED  BY <1>1 DEF Spared

(* A token's step spares every other instance, but a child it starts.       *)
LEMMA EnterSpares ==
  ASSUME NEW d \in Db, NEW e, NEW i \in Instances, NEW t \in Token, NEW n \in NodesOf[i], NEW u,
         EnterCase(d, e, i, t, n, u), NEW j \in Instances, j # i,
         ~(j = ChildOf[n] /\ BeginCase(d, e, i, t, n, u))
  PROVE  Spared(d, e, u, j)
<1>1. \A m : ~Advances(ToAdvance(i, t, m), j)  BY CallsGive DEF Advances
<1>2. \A s : ~Advances(ToFail(i, s), j)  BY CallsGive DEF Advances
<1>3. ~Advances(ToParent(i), j) /\ \A k : ~Advances(ToLink(i, k), j)  BY CallsGive DEF Advances
<1>4. \A b : Touches(d, b, {i}) => Same(d, b, j)  BY DEF Touches
<1>5. ASSUME PassCase(d, e, i, t, n, u) PROVE Spared(d, e, u, j)
  <2>1. Same(d, e, j)  BY <1>5 DEF PassCase, Still, Touches
  <2>2. PICK m \in GNodes : u = <<ToAdvance(i, t, m)>>  BY <1>5 DEF PassCase
  <2>3. QED  BY <1>1, <2>1, <2>2, SparedOne
<1>6. ASSUME FailCase(d, e, i, n, u) PROVE Spared(d, e, u, j)
  <2>1. Same(d, e, j)  BY <1>6 DEF FailCase, Still, Touches
  <2>2. QED  BY <1>2, <1>6, <2>1, SparedOne DEF FailCase
<1>7. ASSUME QueueCase(d, e, i, t, n, u) PROVE Spared(d, e, u, j)
  <2>1. Same(d, e, j)  BY <1>4, <1>7 DEF QueueCase, Added
  <2>2. QED  BY <1>7, <2>1, SparedNone DEF QueueCase
<1>8. ASSUME RunCase(d, e, i, t, n, u) PROVE Spared(d, e, u, j)
  <2>1. Same(d, e, j)  BY <1>4, <1>8 DEF RunCase, Added
  <2>2. QED  BY <1>1, <1>8, <2>1, SparedOne DEF RunCase
<1>9. ASSUME RefuseCase(d, e, i, t, n, u) PROVE Spared(d, e, u, j)
  <2>1. Same(d, e, j)  BY <1>4, <1>9 DEF RefuseCase, Added
  <2>2. QED  BY <1>2, <1>9, <2>1, SparedOne DEF RefuseCase
<1>10. ASSUME BeginCase(d, e, i, t, n, u) PROVE Spared(d, e, u, j)
  <2>1. j # ChildOf[n]  BY <1>10
  <2>2. PICK b \in Db : Touches(d, b, {i}) /\ Started(b, e, ChildOf[n])
    <3>1. PICK b \in Db : (\E st \in StageSet : Added(d, b, i, st)) /\ Started(b, e, ChildOf[n])
      BY <1>10 DEF BeginCase
    <3>2. QED  BY <3>1 DEF Added
  <2>3. Same(d, b, j) /\ Same(b, e, j)  BY <1>4, <2>1, <2>2 DEF Started, Touches
  <2>4. Same(d, e, j)  BY <2>3 DEF Same
  <2> DEFINE x == ToAdvance(ChildOf[n], Root, StartOf[ChildOf[n]])  y == ToLink(i, NextSlot(d, i))
  <2>5. ~Advances(x, j) /\ ~Advances(y, j)  BY <1>3, <2>1, CallsGive DEF Advances
  <2>6. u = <<x, y>>  BY <1>10 DEF BeginCase
  <2> HIDE DEF x, y
  <2>7. QED  BY <2>4, <2>5, <2>6, SparedTwo
<1>11. ASSUME ForkCase(d, e, i, t, n, u) PROVE Spared(d, e, u, j)
  <2>1. Same(d, e, j)  BY <1>4, <1>11 DEF ForkCase, Marked, Retokens
  <2>2. PICK x \in Seq(Calls) :
          /\ IsConcat(u, x, <<ToSync(i)>>) /\ DOMAIN x = DOMAIN To(n)
          /\ \A b \in DOMAIN To(n) : x[b] = ToAdvance(i, Branch(t, n, b), To(n)[b])
    BY <1>11 DEF ForkCase
  <2> DEFINE c == ToSync(i)  y == <<c>>
  <2>3. c.i = i  BY CallsGive
  <2>4. DOMAIN y = {1} /\ y[1] = c  OBVIOUS
  <2>5. IsConcat(u, x, y)  BY <2>2
  <2> HIDE DEF c, y
  <2>6. \A k \in DOMAIN u : (k \in DOMAIN x /\ u[k] = x[k]) \/ \E l \in DOMAIN y : u[k] = y[l]
    BY <2>5 DEF IsConcat
  <2>7. \A b \in DOMAIN x : x[b].i = i  BY <2>2, CallsGive
  <2>8. \A k \in DOMAIN u : ~Advances(u[k], j)  BY <2>3, <2>4, <2>6, <2>7 DEF Advances
  <2>9. QED  BY <2>1, <2>8, Elsewhere DEF Spared
<1>12. ASSUME NEW s, NEW b, TokenSet(d, b, i, t, s), Synced(b, e, i) PROVE Same(d, e, j)
  BY <1>12 DEF TokenSet, Retokens, Synced, Touches, Same
<1>13. ASSUME WaitCase(d, e, i, t, n, u) PROVE Spared(d, e, u, j)
  <2>1. Same(d, e, j)  BY <1>12, <1>13 DEF WaitCase
  <2>2. QED  BY <1>13, <2>1, SparedNone DEF WaitCase
<1>14. ASSUME MergeCase(d, e, i, t, n, u) PROVE Spared(d, e, u, j)
  <2>1. PICK b \in Db : TokenSet(d, b, i, t, "waiting_join")
                        /\ Marked(b, e, i, Branches(Front(t), ForkOf[n]), "merged", Front(t), "active")
    BY <1>14 DEF MergeCase
  <2>2. Same(d, e, j)  BY <2>1 DEF TokenSet, Marked, Retokens, Touches, Same
  <2>3. ~Advances(ToAdvance(i, Front(t), To(n)[1]), j)  BY CallsGive DEF Advances
  <2>4. QED  BY <1>14, <2>2, <2>3, SparedOne DEF MergeCase
<1>15. ASSUME LeaveCase(d, e, i, t, n, u) PROVE Spared(d, e, u, j)
  <2>1. Same(d, e, j)  BY <1>12, <1>15 DEF LeaveCase
  <2>2. QED  BY <1>15, <2>1, SparedNone DEF LeaveCase
<1>16. ASSUME CompleteCase(d, e, i, t, n, u) PROVE Spared(d, e, u, j)
  <2>1. PICK b \in Db : TokenSet(d, b, i, t, "completed") /\ Completes(b, e, i)  BY <1>16 DEF CompleteCase
  <2>2. Same(d, e, j)  BY <2>1 DEF TokenSet, Retokens, Completes, Touches, Same
  <2>3. QED  BY <1>3, <1>16, <2>2, SparedOne DEF CompleteCase
<1>17. QED
  BY <1>5, <1>6, <1>7, <1>8, <1>9, <1>10, <1>11, <1>13, <1>14, <1>15, <1>16 DEF EnterCase

(* A stage of i is completed, and its token goes on.                        *)
LEMMA StageGoes ==
  ASSUME NEW d, NEW e, NEW i, NEW Q, Fit(d, i, {}, Q), NEW k \in OpenStages(d, i),
         e.token[i] = d.token[i], Slots(e, i) = Slots(d, i),
         \A m \in Slots(d, i) : m # k => e.stages[i][m] = d.stages[i][m],
         e.stages[i][k].status \notin OpenStage,
         NEW n, NEW u, u = <<ToAdvance(i, d.stages[i][k].token, n), ToSync(i)>>
  PROVE  WorkGoal(e, u, i, Q)
<1> DEFINE t == d.stages[i][k].token
<1>1. k \in Slots(d, i) /\ t \in Worked(d, i)  BY DEF OpenStages, InStatus, Worked
<1>2. OpenStages(e, i) = OpenStages(d, i) \ {k}  BY <1>1 DEF OpenStages, InStatus
<1>3. {} \cup Q = Q  OBVIOUS
<1>4. TokensFit(d, i, Q)  BY <1>3 DEF Fit
<1>5. \A m, l \in OpenStages(d, i) : d.stages[i][m].token = d.stages[i][l].token => m = l
  BY <1>4 DEF TokensFit
<1>6. OpenStages(d, i) \subseteq Slots(d, i)  BY DEF OpenStages, InStatus
<1>7. \A m \in OpenStages(e, i) : e.stages[i][m].token = d.stages[i][m].token /\ m \in OpenStages(d, i) /\ m # k
  BY <1>2, <1>6
<1>8. Worked(e, i) = Worked(d, i) \ {t}
  <2>1. ASSUME NEW v \in Worked(e, i) PROVE v \in Worked(d, i) /\ v # t
    <3>1. PICK m \in OpenStages(e, i) : v = e.stages[i][m].token  BY <2>1 DEF Worked
    <3>2. v = d.stages[i][m].token /\ m \in OpenStages(d, i) /\ m # k  BY <1>7, <3>1
    <3>3. v # t  BY <1>5, <3>2
    <3>4. QED  BY <3>2, <3>3 DEF Worked
  <2>2. ASSUME NEW v \in Worked(d, i), v # t PROVE v \in Worked(e, i)
    <3>1. PICK m \in OpenStages(d, i) : v = d.stages[i][m].token  BY <2>2 DEF Worked
    <3>2. m # k  BY <2>2, <3>1
    <3>3. m \in OpenStages(e, i) /\ v = e.stages[i][m].token  BY <1>2, <1>7, <3>1, <3>2
    <3>4. QED  BY <3>3 DEF Worked
  <2>3. QED  BY <2>1, <2>2
<1>9. Active(e, i) = Active(d, i) /\ Live(e, i) = Live(d, i) /\ \A v : Forked(d, i, v) => Forked(e, i, v)
  BY DEF Active, Live, Forked
<1>10. Active(d, i) = Worked(d, i) \cup Q /\ Worked(d, i) \cap Q = {}  BY <1>4 DEF TokensFit
<1> HIDE DEF t
<1>11. /\ Active(e, i) = Worked(e, i) \cup ({t} \cup Q) /\ Worked(e, i) \cap ({t} \cup Q) = {}
       /\ {t} \cap Q = {}
  BY <1>1, <1>8, <1>9, <1>10
<1>12. \A m, l \in OpenStages(e, i) : e.stages[i][m].token = e.stages[i][l].token => m = l
  BY <1>5, <1>7
<1>13. \A v \in Live(e, i) : v # Root => Forked(e, i, v)  BY <1>4, <1>9 DEF TokensFit
<1>14. \A v, w \in Live(e, i) : v # Root /\ w # Root /\ Front(v) = Front(w) => Last(v)[1] = Last(w)[1]
  BY <1>4, <1>9 DEF TokensFit
<1>15. TokensFit(e, i, {t} \cup Q)  BY <1>11, <1>12, <1>13, <1>14 DEF TokensFit
<1>16. Fit(e, i, {t}, Q)  BY <1>11, <1>15 DEF Fit
<1> DEFINE x == ToAdvance(i, t, n)  y == ToSync(i)
<1>17. x.method = "advance" /\ x.i = i /\ x.t = t /\ y.method = "sync"  BY CallsGive
<1>18. u = <<x, y>>  BY DEF t
<1> HIDE DEF x, y
<1>19. One(x, i) = {t} /\ ~Advances(y, i)  BY <1>17 DEF One, Advances
<1>20. Awaits(u, i) = {t} /\ Apart(u, i)  BY <1>18, <1>19, AwaitsTwo
<1>21. QED  BY <1>16, <1>20 DEF WorkGoal

(* The first statements of advanceProcessToken change nothing of a token    *)
(* that is active.                                                          *)
LEMMA MovedWork ==
  ASSUME NEW d \in Db, NEW i \in Instances, NEW t, NEW Q, Fit(d, i, {t}, Q), NEW b, Moved(d, b, i, t)
  PROVE  Fit(b, i, {t}, Q)
<1>1. {t} \cap Q = {} /\ TokensFit(d, i, {t} \cup Q)  BY DEF Fit
<1>2. t \in Active(d, i)  BY <1>1 DEF TokensFit
<1>3. d.token[i][t] = "active"  BY <1>2 DEF Active
<1>4. d.token[i] \in TokenMap /\ b.token[i] \in TokenMap  BY DEF Db, Moved
<1>5. DOMAIN b.token[i] = DOMAIN d.token[i] /\ \A v \in DOMAIN d.token[i] : b.token[i][v] = d.token[i][v]
  BY <1>3 DEF Moved
<1>6. b.token[i] = [v \in DOMAIN b.token[i] |-> b.token[i][v]] /\ d.token[i] = [v \in DOMAIN d.token[i] |-> d.token[i][v]]
  BY <1>4, TokenMapIs
<1>7. b.token[i] = d.token[i]  BY <1>5, <1>6
<1>8. b.stages[i] = d.stages[i]  BY DEF Moved
<1>9. Keeps(d, b, i)  BY <1>7, <1>8, SameKeeps
<1>10. TokensFit(b, i, {t} \cup Q)  BY <1>1, <1>9, KeepsFit
<1>11. QED  BY <1>1, <1>10 DEF Fit

(***************************************************************************)
(* What one call does for the tokens of an instance j.                     *)
(***************************************************************************)
LEMMA StepWork ==
  ASSUME NEW d \in Db, NEW c, CallOK(d, c), Each(d, c), NEW e, NEW u, StepCase(d, e, c, u),
         NEW j \in Instances, d.inst[j] \in OpenInst, NEW Q, Fit(d, j, One(c, j), Q)
  PROVE  WorkGoal(e, u, j, Q)
<1> DEFINE i == c.i  t == c.t  n == c.n  b == Entered(d, i, t)
<1>1. /\ c.method = "advance" /\ d.moves[i] # MaxMoves /\ EnterCase(b, e, i, t, n, u)
      /\ i \in Instances /\ t \in Token /\ n \in NodesOf[i]
  BY CallFields DEF StepCase, CallOK, Each
<1>2. Moved(d, b, i, t) /\ b \in Db  BY <1>1, MovedIs DEF Moved
<1> HIDE DEF b, i, t, n
<1>3. CASE j = i
  <2>1. One(c, j) = {t}  BY <1>1, <1>3 DEF One, Advances, i, t
  <2>2. Fit(d, i, {t}, Q)  BY <1>3, <2>1
  <2>3. Fit(b, i, {t}, Q)  BY <1>1, <1>2, <2>2, MovedWork
  <2>4. WorkGoal(e, u, i, Q)  BY <1>1, <1>2, <2>3, EnterWork
  <2>5. QED  BY <1>3, <2>4
<1>4. CASE j # i
  <2>1. One(c, j) = {}  BY <1>4 DEF One, Advances, i
  <2>2. ~(j = ChildOf[n] /\ BeginCase(b, e, i, t, n, u))
    <3>1. b.inst[j] \in OpenInst  BY <1>2 DEF Moved
    <3>2. b.inst[j] # "absent"  BY <3>1 DEF OpenInst
    <3>3. QED  BY <3>2 DEF BeginCase
  <2>3. Spared(b, e, u, j)  BY <1>1, <1>2, <1>4, <2>2, EnterSpares
  <2>4. Same(b, e, j) /\ Awaits(u, j) = {} /\ Apart(u, j)  BY <2>3 DEF Spared
  <2>5. b.stages[j] = d.stages[j] /\ b.token[j] = d.token[j]  BY <1>2, <1>4 DEF Moved
  <2>6. Keeps(d, e, j)  BY <2>4, <2>5, SameKeeps DEF Same
  <2>7. QED  BY <2>1, <2>4, <2>6, QuietWork
<1>5. QED  BY <1>3, <1>4

LEMMA ParentWork ==
  ASSUME NEW d \in Db, AllFit(d), NEW c \in Instances, NEW e, NEW u, ParentCase(d, e, c, u),
         NEW j \in Instances, d.inst[j] \in OpenInst, NEW Q, Fit(d, j, {}, Q)
  PROVE  WorkGoal(e, u, j, Q)
<1>1. CASE Still(d, e) /\ u = <<>>
  <2>1. Same(d, e, j)  BY <1>1 DEF Still, Touches
  <2>2. QED  BY <1>1, <2>1, SparedNone, SparedWork
<1>2. ASSUME NEW p \in Instances, NEW k \in RunningLinks(d, p),
             UnlinkCase(d, e, p, k, u) \/ ResumeCase(d, e, c, p, k, u) \/ ToppleCase(d, e, c, p, k, u)
      PROVE  WorkGoal(e, u, j, Q)
  <2>1. Touches(d, e, {p})  BY <1>2 DEF UnlinkCase, ResumeCase, ToppleCase, RowSet, Settled, Restages
  <2>2. j # p => Same(d, e, j)  BY <2>1 DEF Touches
  <2>3. ASSUME UnlinkCase(d, e, p, k, u) PROVE WorkGoal(e, u, j, Q)
    <3>1. j # p /\ u = <<>>  BY <2>3 DEF UnlinkCase
    <3>2. QED  BY <2>2, <3>1, SparedNone, SparedWork
  <2>4. ASSUME ResumeCase(d, e, c, p, k, u) PROVE WorkGoal(e, u, j, Q)
    <3>1. u = <<ToAdvance(p, d.stages[p][k].token, To(d.stages[p][k].node)[1]), ToSync(p)>>
          /\ Settled(d, e, p, k, "completed", "completed")
      BY <2>4 DEF ResumeCase
    <3>2. CASE j = p
      <4>1. k \in OpenStages(d, p)
        BY <1>2 DEF RunningLinks, OpenStages, InStatus, AllFit, Fits, StageFits, OpenStage
      <4>2. /\ e.token[p] = d.token[p] /\ Slots(e, p) = Slots(d, p)
            /\ \A m \in Slots(d, p) : m # k => e.stages[p][m] = d.stages[p][m]
            /\ e.stages[p][k].status \notin OpenStage
        BY <3>1 DEF Settled, Restages, OpenStage
      <4>3. QED  BY <3>1, <3>2, <4>1, <4>2, StageGoes
    <3>3. CASE j # p
      <4>1. /\ ~Advances(ToAdvance(p, d.stages[p][k].token, To(d.stages[p][k].node)[1]), j)
            /\ ~Advances(ToSync(p), j)
        BY <3>3, CallsGive DEF Advances
      <4>2. Spared(d, e, u, j)  BY <2>2, <3>1, <3>3, <4>1, SparedTwo
      <4>3. QED  BY <4>2, SparedWork
    <3>4. QED  BY <3>2, <3>3
  <2>5. ASSUME ToppleCase(d, e, c, p, k, u) PROVE WorkGoal(e, u, j, Q)
    <3>1. u = <<ToFail(p, "failed")>>  BY <2>5 DEF ToppleCase
    <3>2. CASE j = p  BY <3>1, <3>2, FailWork
    <3>3. CASE j # p
      <4>1. ~Advances(ToFail(p, "failed"), j)  BY CallsGive DEF Advances
      <4>2. QED  BY <2>2, <3>1, <3>3, <4>1, SparedOne, SparedWork
    <3>4. QED  BY <3>2, <3>3
  <2>6. QED  BY <1>2, <2>3, <2>4, <2>5
<1>3. QED  BY <1>1, <1>2 DEF ParentCase

LEMMA StopWork ==
  ASSUME NEW d \in Db, NEW i \in Instances, NEW s \in {"failed", "cancelled"}, NEW e, NEW u, StopCase(d, e, i, s, u),
         NEW j \in Instances, NEW Q, j = i \/ Fit(d, j, {}, Q)
  PROVE  WorkGoal(e, u, j, Q)
<1>1. ASSUME DetachCase(d, e, i, s, u) PROVE WorkGoal(e, u, j, Q)
  <2>1. PICK k \in RunningLinks(d, i) :
          /\ RowSet(d, e, i, k, "cancelled")
          /\ u = <<ToFail(ChildOf[d.stages[i][k].node], "cancelled"), ToStop(i, s)>>
    BY <1>1 DEF DetachCase
  <2> DEFINE x == ToFail(ChildOf[d.stages[i][k].node], "cancelled")  y == ToStop(i, s)
  <2>2. x.method = "fail" /\ y.method = "stop" /\ y.i = i  BY CallsGive
  <2>3. u = <<x, y>>  BY <2>1
  <2> HIDE DEF x, y
  <2>4. ~Advances(x, j) /\ ~Advances(y, j) /\ Closes(y, i)  BY <2>2 DEF Advances, Closes
  <2>5. CASE j = i
    <3>1. Closing(u, j)  BY <2>3, <2>4, <2>5, AwaitsTwo
    <3>2. QED  BY <3>1 DEF WorkGoal
  <2>6. CASE j # i
    <3>1. Same(d, e, j)  BY <2>1, <2>6 DEF RowSet, Restages, Touches
    <3>2. QED  BY <2>3, <2>4, <2>6, <3>1, SparedTwo, SparedWork
  <2>7. QED  BY <2>5, <2>6
<1>2. ASSUME NEW at, NEW closed, Finishes(d, e, i, at, closed), at \notin OpenInst,
             NEW c, ~Advances(c, j), u = <<c>>
      PROVE  WorkGoal(e, u, j, Q)
  <2>1. CASE j = i
    <3>1. e.inst[j] \notin OpenInst  BY <1>2, <2>1 DEF Finishes, StandsAt
    <3>2. QED  BY <3>1 DEF WorkGoal
  <2>2. CASE j # i
    <3>1. Same(d, e, j)  BY <1>2, <2>2 DEF Finishes, Touches
    <3>2. QED  BY <1>2, <2>2, <3>1, SparedOne, SparedWork
  <2>3. QED  BY <2>1, <2>2
<1>3. ASSUME CompensateCase(d, e, i, s, u) PROVE WorkGoal(e, u, j, Q)
  <2>1. ~Advances(ToCompensate(i), j)  BY CallsGive DEF Advances
  <2>2. "compensating" \notin OpenInst  BY DEF OpenInst
  <2>3. QED  BY <1>2, <1>3, <2>1, <2>2 DEF CompensateCase
<1>4. ASSUME FinalCase(d, e, i, s, u) PROVE WorkGoal(e, u, j, Q)
  <2>1. ~Advances(ToParent(i), j)  BY CallsGive DEF Advances
  <2>2. s \notin OpenInst  BY DEF OpenInst
  <2>3. QED  BY <1>2, <1>4, <2>1, <2>2 DEF FinalCase
<1>5. QED  BY <1>1, <1>3, <1>4 DEF StopCase

LEMMA NextWork ==
  ASSUME NEW d, NEW i \in Instances, NEW e, NEW u, NextCase(d, e, i, u),
         NEW j \in Instances, j # i, NEW Q, Fit(d, j, {}, Q)
  PROVE  WorkGoal(e, u, j, Q)
<1>1. ASSUME UndoCase(d, e, i, u) PROVE WorkGoal(e, u, j, Q)
  <2>1. u = <<>> /\ Same(d, e, j)  BY <1>1 DEF UndoCase, Undoes, Touches
  <2>2. QED  BY <2>1, SparedNone, SparedWork
<1>2. ASSUME NEW s, FinalCase(d, e, i, s, u) PROVE WorkGoal(e, u, j, Q)
  <2>1. Same(d, e, j) /\ u = <<ToParent(i)>>  BY <1>2 DEF FinalCase, Finishes, Touches
  <2>2. ~Advances(ToParent(i), j)  BY CallsGive DEF Advances
  <2>3. QED  BY <2>1, <2>2, SparedOne, SparedWork
<1>3. QED  BY <1>1, <1>2 DEF NextCase

LEMMA GiveWork ==
  ASSUME NEW d \in Db, AllFit(d), NEW i \in Instances, NEW k \in Slots(d, i), d.stages[i][k].status = "running",
         NEW e, NEW u, GiveBackCase(d, e, i, k, u),
         NEW j \in Instances, d.inst[j] \in OpenInst, NEW Q, Fit(d, j, {}, Q)
  PROVE  WorkGoal(e, u, j, Q)
<1>1. d.stages[i][k].kind = "compensation" => d.inst[i] = "compensating"
  BY DEF AllFit, Fits, StageFits, OpenStage
<1>2. ASSUME AgainCase(d, e, i, k, u) PROVE WorkGoal(e, u, j, Q)
  <2>1. u = <<>> /\ \E at : Restood(d, e, i, k, "queued", at)  BY <1>2 DEF AgainCase
  <2>2. PICK at : Restood(d, e, i, k, "queued", at)  BY <2>1
  <2>3. CASE j = i
    <3>1. /\ e.token[i] = d.token[i] /\ Slots(e, i) = Slots(d, i)
          /\ \A m \in Slots(d, i) : m # k => e.stages[i][m] = d.stages[i][m]
          /\ e.stages[i][k].token = d.stages[i][k].token /\ e.stages[i][k].status = "queued"
      BY <2>2 DEF Restood, Kept
    <3>2. OpenStages(e, i) = OpenStages(d, i)  BY <3>1 DEF OpenStages, InStatus, OpenStage
    <3>3. Keeps(d, e, i)  BY <3>1, <3>2 DEF Keeps, OpenStages, InStatus
    <3>4. QED  BY <2>1, <2>3, <3>3, AwaitsNone, QuietWork
  <2>4. CASE j # i
    <3>1. Same(d, e, j)  BY <2>2, <2>4 DEF Restood, Touches
    <3>2. QED  BY <2>1, <3>1, SparedNone, SparedWork
  <2>5. QED  BY <2>3, <2>4
<1>3. ASSUME GiveUpCase(d, e, i, k, u) PROVE WorkGoal(e, u, j, Q)
  <2>1. u = <<ToCompensate(i)>> /\ d.inst[i] = "compensating"  BY <1>1, <1>3 DEF GiveUpCase
  <2>2. j # i  BY <2>1 DEF OpenInst
  <2>3. PICK b \in Db :
          /\ Restood(d, b, i, k, "failed", "compensating")
          /\ IF d.stages[i][k].of \in Slots(d, i) THEN RowSet(b, e, i, d.stages[i][k].of, "failed") ELSE e = b
    BY <1>3 DEF GiveUpCase
  <2>4. Same(d, b, j) /\ (Same(b, e, j) \/ e = b)  BY <2>2, <2>3 DEF Restood, RowSet, Restages, Touches
  <2>5. Same(d, e, j)  BY <2>4 DEF Same
  <2>6. ~Advances(ToCompensate(i), j)  BY CallsGive DEF Advances
  <2>7. QED  BY <2>1, <2>5, <2>6, SparedOne, SparedWork
<1>4. ASSUME FailBackCase(d, e, i, k, u) PROVE WorkGoal(e, u, j, Q)
  <2>1. u = <<ToFail(i, "failed")>>  BY <1>4 DEF FailBackCase
  <2>2. CASE j = i  BY <2>1, <2>2, FailWork
  <2>3. CASE j # i
    <3>1. Same(d, e, j)  BY <1>4, <2>3 DEF FailBackCase, StatusSet, Restages, Touches
    <3>2. ~Advances(ToFail(i, "failed"), j)  BY CallsGive DEF Advances
    <3>3. QED  BY <2>1, <3>1, <3>2, SparedOne, SparedWork
  <2>4. QED  BY <2>2, <2>3
<1>5. QED  BY <1>2, <1>3, <1>4 DEF GiveBackCase

LEMMA CallWork ==
  ASSUME NEW d \in Db, AllFit(d), NEW c, CallOK(d, c), Each(d, c), NEW e, NEW u, CallCase(d, e, c, u),
         NEW j \in Instances, d.inst[j] \in OpenInst, NEW Q, Closes(c, j) \/ Fit(d, j, One(c, j), Q)
  PROVE  WorkGoal(e, u, j, Q)
<1> DEFINE i == c.i
<1>1. /\ i \in Instances
      /\ c.method \in {"fail", "stop"} => c.s \in {"failed", "cancelled"}
  BY CallFields DEF CallOK
<1>2. ASSUME c.method \notin {"advance", "fail", "stop"} PROVE Fit(d, j, {}, Q)
  <2>1. One(c, j) = {} /\ ~Closes(c, j)  BY <1>2 DEF One, Advances, Closes
  <2>2. QED  BY <2>1
<1>3. ASSUME c.method \in {"fail", "stop"} PROVE j = i \/ Fit(d, j, {}, Q)
  <2>1. One(c, j) = {} /\ (Closes(c, j) => j = i)  BY <1>3 DEF One, Advances, Closes
  <2>2. QED  BY <2>1
<1>4. ASSUME c.method = "advance" PROVE Fit(d, j, One(c, j), Q)  BY <1>4 DEF Closes
<1>5. i = c.i  OBVIOUS
<1> HIDE DEF i
<1>6. ASSUME SpentCase(d, e, c, u) PROVE WorkGoal(e, u, j, Q)
  <2>1. c.method = "advance" /\ Still(d, e) /\ u = <<ToFail(i, "failed")>>  BY <1>5, <1>6 DEF SpentCase
  <2>2. CASE j = i  BY <2>1, <2>2, FailWork
  <2>3. CASE j # i
    <3>1. One(c, j) = {}  BY <1>5, <2>3 DEF One, Advances
    <3>2. Same(d, e, j) /\ ~Advances(ToFail(i, "failed"), j)  BY <2>1, CallsGive DEF Still, Touches, Advances
    <3>3. QED  BY <1>4, <2>1, <3>1, <3>2, SparedOne, SparedWork
  <2>4. QED  BY <2>2, <2>3
<1>7. ASSUME StepCase(d, e, c, u) PROVE WorkGoal(e, u, j, Q)
  <2>1. c.method = "advance"  BY <1>7 DEF StepCase
  <2>2. QED  BY <1>4, <1>7, <2>1, StepWork
<1>8. ASSUME c.method = "fail", FailsCase(d, e, i, c.s, u) PROVE WorkGoal(e, u, j, Q)
  <2>1. CASE j = i
    <3>1. u = <<ToStop(i, c.s)>>  BY <1>8, <2>1 DEF FailsCase
    <3>2. Closes(ToStop(i, c.s), j)  BY <2>1, CallsGive DEF Closes
    <3>3. Closing(u, j)  BY <3>1, <3>2, AwaitsOne
    <3>4. QED  BY <3>3 DEF WorkGoal
  <2>2. CASE j # i
    <3>1. Fit(d, j, {}, Q)  BY <1>3, <1>8, <2>2
    <3>2. Same(d, e, j) /\ (u = <<>> \/ u = <<ToStop(i, c.s)>>)
      BY <1>8, <2>2 DEF FailsCase, Still, Quiesced, Touches
    <3>3. ~Advances(ToStop(i, c.s), j)  BY CallsGive DEF Advances
    <3>4. QED  BY <3>1, <3>2, <3>3, SparedNone, SparedOne, SparedWork
  <2>3. QED  BY <2>1, <2>2
<1>9. ASSUME c.method = "stop", StopCase(d, e, i, c.s, u) PROVE WorkGoal(e, u, j, Q)
  BY <1>1, <1>3, <1>9, StopWork
<1>10. ASSUME c.method = "compensate", NextCase(d, e, i, u) PROVE WorkGoal(e, u, j, Q)
  <2>1. d.inst[i] = "compensating"  BY <1>5, <1>10 DEF Each
  <2>2. j # i  BY <2>1 DEF OpenInst
  <2>3. QED  BY <1>1, <1>2, <1>10, <2>2, NextWork
<1>11. ASSUME c.method = "parent", ParentCase(d, e, i, u) PROVE WorkGoal(e, u, j, Q)
  BY <1>1, <1>2, <1>11, ParentWork
<1>12. ASSUME c.method = "link", LinkCase(d, e, i, c.k, u) PROVE WorkGoal(e, u, j, Q)
  <2>1. RowSet(d, e, i, c.k, "running") /\ u = <<ToParent(Child(d, i, c.k))>>  BY <1>12 DEF LinkCase
  <2>2. ~Advances(ToParent(Child(d, i, c.k)), j)  BY CallsGive DEF Advances
  <2>3. Awaits(u, j) = {} /\ Apart(u, j)  BY <2>1, <2>2, AwaitsOne DEF One
  <2>4. Keeps(d, e, j)
    <3>1. CASE j = i
      <4>1. /\ e.token[i] = d.token[i] /\ Slots(e, i) = Slots(d, i)
            /\ \A m \in Slots(d, i) : e.stages[i][m].status = d.stages[i][m].status
                                      /\ e.stages[i][m].token = d.stages[i][m].token
        BY <2>1 DEF RowSet, Restages, Kept
      <4>2. QED  BY <3>1, <4>1 DEF Keeps, OpenStages, InStatus
    <3>2. CASE j # i
      <4>1. Same(d, e, j)  BY <2>1, <3>2 DEF RowSet, Restages, Touches
      <4>2. QED  BY <4>1, SameKeeps DEF Same
    <3>3. QED  BY <3>1, <3>2
  <2>5. QED  BY <1>2, <1>12, <2>3, <2>4, QuietWork
<1>13. ASSUME c.method = "sync", Synced(d, e, i), u = <<>> PROVE WorkGoal(e, u, j, Q)
  <2>1. e.stages[j] = d.stages[j] /\ e.token[j] = d.token[j]  BY <1>13 DEF Synced, Touches, Same
  <2>2. QED  BY <1>2, <1>13, <2>1, SameKeeps, AwaitsNone, QuietWork
<1>14. ASSUME c.method = "giveback", GiveBackCase(d, e, i, c.k, u) PROVE WorkGoal(e, u, j, Q)
  <2>1. c.k \in Slots(d, i) /\ d.stages[i][c.k].status = "running"  BY <1>5, <1>14 DEF Each
  <2>2. QED  BY <1>1, <1>2, <1>14, <2>1, GiveWork
<1>15. QED
  BY <1>6, <1>7, <1>8, <1>9, <1>10, <1>11, <1>12, <1>13, <1>14 DEF CallCase, i

(***************************************************************************)
(* An instance that was never started has no transitions.                  *)
(***************************************************************************)
Unmoved(d) == \A i \in Instances : d.inst[i] = "absent" => d.moves[i] = 0

LEMMA EnterMoves ==
  ASSUME NEW d, NEW e, NEW i, NEW t, NEW n, NEW u, EnterCase(d, e, i, t, n, u)
  PROVE  e.moves = d.moves
<1>1. PassCase(d, e, i, t, n, u) => e.moves = d.moves  BY DEF PassCase, Still, Touches
<1>2. FailCase(d, e, i, n, u) => e.moves = d.moves  BY DEF FailCase, Still, Touches
<1>3. QueueCase(d, e, i, t, n, u) => e.moves = d.moves  BY DEF QueueCase, Added, Touches
<1>4. RunCase(d, e, i, t, n, u) => e.moves = d.moves  BY DEF RunCase, Added, Touches
<1>5. RefuseCase(d, e, i, t, n, u) => e.moves = d.moves  BY DEF RefuseCase, Added, Touches
<1>6. BeginCase(d, e, i, t, n, u) => e.moves = d.moves  BY DEF BeginCase, Added, Started, Touches
<1>7. ForkCase(d, e, i, t, n, u) => e.moves = d.moves  BY DEF ForkCase, Marked, Retokens, Touches
<1>8. WaitCase(d, e, i, t, n, u) => e.moves = d.moves  BY DEF WaitCase, TokenSet, Retokens, Synced, Touches
<1>9. MergeCase(d, e, i, t, n, u) => e.moves = d.moves  BY DEF MergeCase, TokenSet, Marked, Retokens, Touches
<1>10. LeaveCase(d, e, i, t, n, u) => e.moves = d.moves  BY DEF LeaveCase, TokenSet, Retokens, Synced, Touches
<1>11. CompleteCase(d, e, i, t, n, u) => e.moves = d.moves
  BY DEF CompleteCase, TokenSet, Retokens, Completes, Touches
<1>12. QED
  BY <1>1, <1>2, <1>3, <1>4, <1>5, <1>6, <1>7, <1>8, <1>9, <1>10, <1>11 DEF EnterCase

LEMMA CallMoves ==
  ASSUME NEW d \in Db, NEW c, CallOK(d, c), Each(d, c), NEW e, NEW u, CallCase(d, e, c, u),
         NEW j \in Instances, d.inst[j] \notin OpenInst
  PROVE  e.moves[j] = d.moves[j]
<1> DEFINE i == c.i
<1>1. SpentCase(d, e, c, u) => e.moves = d.moves  BY DEF SpentCase, Still, Touches
<1>2. ASSUME StepCase(d, e, c, u) PROVE e.moves[j] = d.moves[j]
  <2>1. /\ c.method = "advance" /\ d.moves[i] # MaxMoves /\ EnterCase(Entered(d, i, c.t), e, i, c.t, c.n, u)
        /\ i \in Instances
    BY <1>2, CallFields DEF StepCase, CallOK
  <2>2. d.inst[i] \in OpenInst  BY <2>1 DEF Each, Going
  <2>3. e.moves = Entered(d, i, c.t).moves  BY <2>1, EnterMoves
  <2>4. Entered(d, i, c.t).moves[j] = d.moves[j]  BY <2>1, <2>2, EnteredIs
  <2>5. QED  BY <2>3, <2>4
<1>3. \A s : FailsCase(d, e, i, s, u) => e.moves = d.moves  BY DEF FailsCase, Still, Quiesced, Touches
<1>4. \A s : FinalCase(d, e, i, s, u) => e.moves = d.moves  BY DEF FinalCase, Finishes, Touches
<1>5. \A s : StopCase(d, e, i, s, u) => e.moves = d.moves
  BY <1>4 DEF StopCase, DetachCase, CompensateCase, RowSet, Restages, Finishes, Touches
<1>6. NextCase(d, e, i, u) => e.moves = d.moves  BY <1>4 DEF NextCase, UndoCase, Undoes, Touches
<1>7. ASSUME ParentCase(d, e, i, u) PROVE e.moves = d.moves
  <2>1. \A p, k : UnlinkCase(d, e, p, k, u) => e.moves = d.moves  BY DEF UnlinkCase, RowSet, Restages, Touches
  <2>2. \A p, k, r, v : Settled(d, e, p, k, r, v) => e.moves = d.moves  BY DEF Settled, Restages, Touches
  <2>3. \A p, k : ResumeCase(d, e, i, p, k, u) \/ ToppleCase(d, e, i, p, k, u) => e.moves = d.moves
    BY <2>2 DEF ResumeCase, ToppleCase
  <2>4. Still(d, e) => e.moves = d.moves  BY DEF Still, Touches
  <2>5. QED  BY <1>7, <2>1, <2>3, <2>4 DEF ParentCase
<1>8. \A k : LinkCase(d, e, i, k, u) => e.moves = d.moves  BY DEF LinkCase, RowSet, Restages, Touches
<1>9. Synced(d, e, i) => e.moves = d.moves  BY DEF Synced, Touches
<1>10. ASSUME NEW k, GiveBackCase(d, e, i, k, u) PROVE e.moves = d.moves
  <2>1. AgainCase(d, e, i, k, u) => e.moves = d.moves  BY DEF AgainCase, Restood, Touches
  <2>2. FailBackCase(d, e, i, k, u) => e.moves = d.moves  BY DEF FailBackCase, StatusSet, Restages, Touches
  <2>3. ASSUME GiveUpCase(d, e, i, k, u) PROVE e.moves = d.moves
    <3>1. PICK b \in Db : /\ Restood(d, b, i, k, "failed", "compensating")
                          /\ e = b \/ \E l : RowSet(b, e, i, l, "failed")
      BY <2>3 DEF GiveUpCase
    <3>2. b.moves = d.moves  BY <3>1 DEF Restood, Touches
    <3>3. QED  BY <3>1, <3>2 DEF RowSet, Restages, Touches
  <2>4. QED  BY <1>10, <2>1, <2>2, <2>3 DEF GiveBackCase
<1>11. QED  BY <1>1, <1>2, <1>3, <1>5, <1>6, <1>7, <1>8, <1>9, <1>10 DEF CallCase

LEMMA UnmovedThen ==
  ASSUME NEW d \in Db, Unmoved(d), NEW c, CallOK(d, c), Each(d, c), NEW e, Grows(d, e), NEW u,
         CallCase(d, e, c, u)
  PROVE  Unmoved(e)
<1> SUFFICES ASSUME NEW j \in Instances, e.inst[j] = "absent" PROVE e.moves[j] = 0  BY DEF Unmoved
<1>1. d.inst[j] = "absent"  BY DEF Grows, GrowsAt
<1>2. e.moves[j] = d.moves[j]  BY <1>1, CallMoves DEF OpenInst
<1>3. QED  BY <1>1, <1>2 DEF Unmoved

(* An instance that a call opens was started by it, and its first token is  *)
(* called.                                                                  *)
LEMMA CallBorn ==
  ASSUME NEW d \in Db, AllFit(d), NEW c, CallOK(d, c), Each(d, c), NEW e, NEW u, CallCase(d, e, c, u),
         NEW j \in Instances, d.inst[j] \notin OpenInst, e.inst[j] \in OpenInst
  PROVE  d.inst[j] = "absent" /\ WorkGoal(e, u, j, {})
<1> DEFINE i == c.i
<1>1. /\ i \in Instances
      /\ c.method = "advance" => c.t \in Token /\ c.n \in GNodes
  BY CallFields DEF CallOK
<1>2. e.inst[j] # d.inst[j]  OBVIOUS
<1>3. ~Same(d, e, j)  BY <1>2 DEF Same
<1>4. ~SpentCase(d, e, c, u)  BY <1>3 DEF SpentCase, Still, Touches
<1>5. ASSUME StepCase(d, e, c, u) PROVE d.inst[j] = "absent" /\ WorkGoal(e, u, j, {})
  <2> DEFINE b == Entered(d, i, c.t)  t == c.t  n == c.n
  <2>1. /\ c.method = "advance" /\ d.moves[i] # MaxMoves /\ EnterCase(b, e, i, t, n, u)
        /\ t \in Token /\ n \in NodesOf[i]
    BY <1>1, <1>5 DEF StepCase, Each
  <2>2. d.inst[i] \in OpenInst  BY <2>1 DEF Each, Going
  <2>3. j # i  BY <2>2
  <2>4. Moved(d, b, i, t) /\ b \in Db  BY <1>1, <2>1, MovedIs DEF Moved
  <2> HIDE DEF b, t, n, i
  <2>5. b.inst[j] = d.inst[j] /\ b.stages[j] = d.stages[j]  BY <2>4 DEF Moved
  <2>6. j = ChildOf[n] /\ BeginCase(b, e, i, t, n, u)
    <3>1. SUFFICES ASSUME ~(j = ChildOf[n] /\ BeginCase(b, e, i, t, n, u)) PROVE FALSE  OBVIOUS
    <3>2. Spared(b, e, u, j)  BY <1>1, <2>1, <2>3, <2>4, <3>1, EnterSpares
    <3>3. e.inst[j] = b.inst[j]  BY <3>2 DEF Spared, Same
    <3>4. QED  BY <1>2, <2>5, <3>3
  <2>7. d.inst[j] = "absent"  BY <2>5, <2>6 DEF BeginCase
  <2>8. d.stages[j] = <<>>  BY <2>7 DEF AllFit, Fits, HeadFits
  <2>9. PICK a \in Db : /\ \E st \in StageSet : Added(b, a, i, st)
                        /\ Started(a, e, j)
    BY <2>6 DEF BeginCase
  <2>10. a.stages[j] = <<>>  BY <2>3, <2>5, <2>8, <2>9 DEF Added, Touches, Same
  <2> DEFINE x == ToAdvance(j, Root, StartOf[j])  y == ToLink(i, NextSlot(b, i))
  <2>11. u = <<x, y>>  BY <2>6 DEF BeginCase
  <2>12. x.method = "advance" /\ x.i = j /\ x.t = Root /\ y.method = "link"  BY CallsGive
  <2> HIDE DEF x, y
  <2>13. One(x, j) = {Root} /\ ~Advances(y, j)  BY <2>12 DEF One, Advances
  <2>14. QED  BY <2>7, <2>9, <2>10, <2>11, <2>13, BornWork
<1>6. \A s : ~FailsCase(d, e, i, s, u)  BY <1>2, <1>3 DEF FailsCase, Still, Quiesced, Touches
<1>7. ASSUME c.method = "stop" PROVE \A s : ~StopCase(d, e, i, s, u)
  <2>1. d.inst[i] \in OpenInst  BY <1>7 DEF Each, Stopping
  <2>2. j # i  BY <2>1
  <2>3. \A s : StopCase(d, e, i, s, u) => Touches(d, e, {i})
    BY DEF StopCase, DetachCase, CompensateCase, FinalCase, RowSet, Restages, Finishes
  <2>4. QED  BY <1>3, <2>2, <2>3 DEF Touches
<1>8. ASSUME c.method = "compensate" PROVE ~NextCase(d, e, i, u)
  <2>1. SUFFICES ASSUME NextCase(d, e, i, u) PROVE FALSE  OBVIOUS
  <2>2. Touches(d, e, {i})  BY <2>1 DEF NextCase, UndoCase, Undoes, FinalCase, Finishes
  <2>3. j = i  BY <1>3, <2>2 DEF Touches
  <2>4. e.inst[i] = d.inst[i] \/ e.inst[i] \in {"failed", "cancelled"}
    BY <2>1 DEF NextCase, UndoCase, Undoes, FinalCase, Finishes, StandsAt
  <2>5. QED  BY <1>2, <2>3, <2>4 DEF OpenInst
<1>9. ~ParentCase(d, e, i, u)
  <2>1. SUFFICES ASSUME ParentCase(d, e, i, u) PROVE FALSE  OBVIOUS
  <2>2. ~Still(d, e)  BY <1>3 DEF Still, Touches
  <2>3. PICK p \in Instances : Restages(d, e, p)
    BY <2>1, <2>2 DEF ParentCase, UnlinkCase, ResumeCase, ToppleCase, RowSet, Settled
  <2>4. QED  BY <1>2, <1>3, <2>3 DEF Restages, Touches
<1>10. \A k : ~LinkCase(d, e, i, k, u)  BY <1>2, <1>3 DEF LinkCase, RowSet, Restages, Touches
<1>11. ~Synced(d, e, i)
  <2>1. SUFFICES ASSUME Synced(d, e, i) PROVE FALSE  OBVIOUS
  <2>2. j = i  BY <1>3, <2>1 DEF Synced, Touches
  <2>3. d.inst[i] \notin Ended \cup {"compensating"}  BY <1>3, <2>1, <2>2 DEF Synced
  <2>4. d.inst[i] = "absent"
    <3>1. d.inst[i] \in InstStatus  BY <1>1 DEF Db
    <3>2. QED  BY <2>2, <2>3, <3>1 DEF InstStatus
  <2>5. d.stages[i] = <<>> /\ Live(d, i) = {}  BY <1>1, <2>2, <2>4 DEF AllFit, Fits, HeadFits
  <2>6. InStatus(d, i, OpenStage) = {}
    <3>1. DOMAIN d.stages[i] = {}  BY <2>5
    <3>2. QED  BY <3>1 DEF InStatus, Slots
  <2>7. QED  BY <1>2, <2>1, <2>2, <2>5, <2>6 DEF Synced
<1>12. ASSUME c.method = "giveback" PROVE ~GiveBackCase(d, e, i, c.k, u)
  <2>1. SUFFICES ASSUME GiveBackCase(d, e, i, c.k, u) PROVE FALSE  OBVIOUS
  <2> DEFINE k == c.k
  <2>2. k \in Slots(d, i) /\ d.stages[i][k].status = "running"  BY <1>12 DEF Each
  <2> HIDE DEF k
  <2>3. IF d.stages[i][k].kind = "compensation" THEN d.inst[i] = "compensating" ELSE d.inst[i] \in OpenInst
    BY <1>1, <2>2 DEF AllFit, Fits, StageFits, OpenStage
  <2>4. ~FailBackCase(d, e, i, k, u)  BY <1>2, <1>3 DEF FailBackCase, StatusSet, Restages, Touches
  <2>5. ~AgainCase(d, e, i, k, u)
    <3>1. SUFFICES ASSUME AgainCase(d, e, i, k, u) PROVE FALSE  OBVIOUS
    <3>2. j = i  BY <1>3, <3>1 DEF AgainCase, Restood, Touches
    <3>3. e.inst[i] = IF d.stages[i][k].kind = "compensation" THEN "compensating" ELSE "queued"
      BY <3>1 DEF AgainCase, Restood, StandsAt
    <3>4. QED  BY <2>3, <3>2, <3>3 DEF OpenInst
  <2>6. ~GiveUpCase(d, e, i, k, u)
    <3>1. SUFFICES ASSUME GiveUpCase(d, e, i, k, u) PROVE FALSE  OBVIOUS
    <3>2. PICK b \in Db : /\ Restood(d, b, i, k, "failed", "compensating")
                          /\ e = b \/ \E l : RowSet(b, e, i, l, "failed")
      BY <3>1 DEF GiveUpCase
    <3>3. (e = b \/ Same(b, e, j) \/ j = i) /\ e.inst[i] = b.inst[i] /\ b.inst[i] = "compensating"
      BY <3>2 DEF RowSet, Restages, Touches, Restood, StandsAt
    <3>4. j # i  BY <3>3 DEF OpenInst
    <3>5. Same(d, b, j)  BY <3>2, <3>4 DEF Restood, Touches
    <3>6. QED  BY <1>3, <3>3, <3>4, <3>5 DEF Same
  <2>7. QED  BY <2>1, <2>4, <2>5, <2>6 DEF GiveBackCase, k
<1>13. QED
  BY <1>4, <1>5, <1>6, <1>7, <1>8, <1>9, <1>10, <1>11, <1>12 DEF CallCase, i

LEMMA CloseGoes ==
  ASSUME NEW d, NEW c, CallOK(d, c), NEW e, NEW u, CallCase(d, e, c, u),
         NEW j, Closes(c, j), d.inst[j] \in OpenInst
  PROVE  e.inst[j] \notin OpenInst \/ Closing(u, j)
<1>1. c.i = j /\ c.method \in {"fail", "stop"} /\ c.s \in {"failed", "cancelled"}
  BY CallFields DEF CallOK, Closes
<1>2. Closes(ToStop(j, c.s), j)  BY CallsGive DEF Closes
<1>3. ASSUME FailsCase(d, e, j, c.s, u) PROVE Closing(u, j)
  <2>1. u = <<ToStop(j, c.s)>>  BY <1>3 DEF FailsCase
  <2>2. QED  BY <1>2, <2>1, AwaitsOne
<1>4. ASSUME StopCase(d, e, j, c.s, u) PROVE e.inst[j] \notin OpenInst \/ Closing(u, j)
  <2>1. ASSUME DetachCase(d, e, j, c.s, u) PROVE Closing(u, j)
    <3>1. PICK k \in RunningLinks(d, j) :
            u = <<ToFail(ChildOf[d.stages[j][k].node], "cancelled"), ToStop(j, c.s)>>
      BY <2>1 DEF DetachCase
    <3>2. ~Advances(ToStop(j, c.s), j)  BY CallsGive DEF Advances
    <3>3. QED  BY <1>2, <3>1, <3>2, AwaitsTwo
  <2>2. QED
    BY <1>1, <1>4, <2>1 DEF StopCase, CompensateCase, FinalCase, Finishes, StandsAt, OpenInst
<1>5. QED  BY <1>1, <1>3, <1>4 DEF CallCase, SpentCase, StepCase

LEMMA HeadOf ==
  ASSUME NEW s \in Seq(Calls), s # <<>>
  PROVE  /\ 1 \in DOMAIN s /\ s[1] = Head(s) /\ Head(s) \in Calls
         /\ \A x \in DOMAIN Tail(s) : x + 1 \in DOMAIN s /\ Tail(s)[x] = s[x + 1] /\ 1 < x + 1
         /\ \A x \in DOMAIN s : x # 1 => 1 < x
<1>1. \A x \in DOMAIN s : x \in Nat \ {0}  BY RestIs
<1>2. \A x \in DOMAIN Tail(s) : x \in Nat \ {0}  BY RestIs
<1>3. QED  BY <1>1, <1>2, RestIs

(* The token of the next call is not at work in an open stage.              *)
LEMMA HeldNow ==
  ASSUME NEW C, NEW d \in Db, NEW s \in Seq(Calls), s # <<>>, InOrder(C, d, s), AllAtWork(d, s)
  PROVE  HeldBy(d, Head(s))
<1> DEFINE c == Head(s)  i == c.i
<1>1. 1 \in DOMAIN s /\ s[1] = c /\ c \in Calls /\ \A x \in DOMAIN s : x # 1 => 1 < x  BY HeadOf
<1>2. i \in Instances  BY <1>1, CallFields
<1> HIDE DEF c
<1>3. SUFFICES ASSUME Going(d, c) PROVE Held(d, i, c.t)  BY DEF HeldBy, c
<1>4. c.method = "advance" /\ d.inst[i] \in OpenInst  BY <1>1, <1>3 DEF Going, InOrder, Each
<1>5. ~Closing(s, i)
  <2>1. SUFFICES ASSUME NEW x \in DOMAIN s, Closes(s[x], i) PROVE FALSE  BY DEF Closing
  <2>2. x # 1  BY <1>1, <1>4, <2>1 DEF Closes
  <2>3. Before(C, d, c, s[x])  BY <1>1, <2>2 DEF InOrder
  <2>4. Guarded(d, i, i)  BY <2>1, <2>3 DEF Before, Closes, High
  <2>5. QED  BY <1>2, <2>4, GuardedOther
<1>6. TokensFit(d, i, Awaits(s, i))  BY <1>2, <1>4, <1>5 DEF AllAtWork, AtWork
<1>7. c.t \in Awaits(s, i)  BY <1>1, <1>4 DEF Awaits, Advances
<1>8. QED
  <2>1. Active(d, i) \subseteq Live(d, i)  BY DEF Active, Live, LiveToken
  <2>2. SUFFICES ASSUME NEW k \in OpenStages(d, i) PROVE d.stages[i][k].token \in Live(d, i) \ {c.t}
    BY DEF Held
  <2>3. d.stages[i][k].token \in Worked(d, i)  BY DEF Worked
  <2>4. QED  BY <1>6, <1>7, <2>1, <2>3 DEF TokensFit

LEMMA WorkThen ==
  ASSUME NEW C, NEW d \in Db, AllFit(d), Unmoved(d), NEW s \in Seq(Calls), s # <<>>, InOrder(C, d, s),
         AllAtWork(d, s), CallOK(d, Head(s)), NEW e, NEW u, CallCase(d, e, Head(s), u),
         NEW z, IsConcat(z, u, Tail(s))
  PROVE  AllAtWork(e, z)
<1> DEFINE c == Head(s)  R == Tail(s)
<1> SUFFICES ASSUME NEW j \in Instances PROVE AtWork(e, z, j)  BY DEF AllAtWork
<1>1. /\ 1 \in DOMAIN s /\ s[1] = c /\ c \in Calls
      /\ \A x \in DOMAIN R : x + 1 \in DOMAIN s /\ R[x] = s[x + 1]
  BY HeadOf
<1>2. Each(d, c) /\ CallOK(d, c) /\ CallCase(d, e, c, u) /\ IsConcat(z, u, R)  BY <1>1 DEF InOrder
<1>3. AtWork(d, s, j)  BY DEF AllAtWork
<1>4. ASSUME Closing(R, j) PROVE AtWork(e, z, j)
  <2>1. \A x \in DOMAIN R : Len(u) + x \in DOMAIN z /\ z[Len(u) + x] = R[x]  BY <1>2 DEF IsConcat
  <2>2. Closing(z, j)  BY <1>4, <2>1 DEF Closing
  <2>3. QED  BY <2>2 DEF AtWork
<1>5. ASSUME e.inst[j] \notin OpenInst PROVE AtWork(e, z, j)  BY <1>5 DEF AtWork
<1>6. ASSUME Closing(u, j) PROVE AtWork(e, z, j)
  <2>1. \A x \in DOMAIN u : x \in DOMAIN z /\ z[x] = u[x]  BY <1>2 DEF IsConcat
  <2>2. Closing(z, j)  BY <1>6, <2>1 DEF Closing
  <2>3. QED  BY <2>2 DEF AtWork
<1>7. ASSUME d.inst[j] \in OpenInst, ~Closes(c, j), ~Closing(R, j) PROVE AtWork(e, z, j)
  <2>1. Fit(d, j, One(c, j), Awaits(R, j)) /\ Apart(R, j)  BY <1>3, <1>7, HeadWork
  <2>2. WorkGoal(e, u, j, Awaits(R, j))  BY <1>2, <1>7, <2>1, CallWork
  <2>3. QED  BY <1>2, <2>1, <2>2, WorkJoins
<1>8. ASSUME d.inst[j] \notin OpenInst, e.inst[j] \in OpenInst PROVE AtWork(e, z, j)
  <2>1. d.inst[j] = "absent" /\ WorkGoal(e, u, j, {})  BY <1>2, <1>8, CallBorn
  <2>2. d.moves[j] # MaxMoves  BY <2>1, LimitsAssumption DEF Unmoved
  <2>3. \A x \in DOMAIN R : ~Advances(R[x], j)
    <3>1. SUFFICES ASSUME NEW x \in DOMAIN R, Advances(R[x], j) PROVE FALSE  OBVIOUS
    <3>2. Each(d, R[x])  BY <1>1 DEF InOrder
    <3>3. Going(d, R[x]) /\ R[x].i = j  BY <2>2, <3>1 DEF Advances, Going
    <3>4. QED  BY <1>8, <3>2, <3>3 DEF Each
  <2>4. Awaits(R, j) = {} /\ Apart(R, j)  BY <2>3, Elsewhere
  <2>5. QED  BY <1>2, <2>1, <2>4, WorkJoins
<1>9. ASSUME d.inst[j] \in OpenInst, Closes(c, j) PROVE AtWork(e, z, j)
  <2>1. e.inst[j] \notin OpenInst \/ Closing(u, j)  BY <1>2, <1>9, CloseGoes
  <2>2. QED  BY <1>5, <1>6, <2>1
<1>10. QED  BY <1>4, <1>5, <1>7, <1>8, <1>9

(***************************************************************************)
(* The invariant of the calls.                                             *)
(***************************************************************************)
Sound(C, d, s) == AllFit(d) /\ LinksOnce(d) /\ Unmoved(d) /\ InOrder(C, d, s) /\ AllAtWork(d, s)

LEMMA SoundThen ==
  ASSUME NEW C, CalmBy(C), NEW m \in Machines, m.todo # <<>>, Sound(C, m.db, m.todo),
         NEW n, StepsTo(m, n)
  PROVE  Sound(C, n.db, n.todo)
<1> DEFINE d == m.db  s == m.todo  c == Head(s)
<1>1. d \in Db /\ s \in Seq(Calls) /\ s # <<>>  BY DEF Machines
<1>2. PICK e, u : /\ CallCase(d, e, c, u) /\ Gives(d, e, u) /\ CallOK(d, c)
                  /\ AllOK(e, Tail(s)) /\ n = Do(e, u \o Tail(s))
  BY DEF StepsTo
<1> DEFINE z == u \o Tail(s)
<1>3. n.db = e /\ n.todo = z  BY <1>2 DEF Do
<1>4. e \in Db /\ Grows(d, e) /\ AllOK(e, u)  BY <1>2 DEF Gives
<1>5. IsConcat(z, u, Tail(s))  BY <1>2, <1>4, AllThen
<1>6. AllFit(d) /\ LinksOnce(d) /\ Unmoved(d) /\ InOrder(C, d, s) /\ AllAtWork(d, s)  BY DEF Sound
<1> HIDE DEF d, s, z
<1>7. Each(d, c)  BY <1>1, <1>6, HeadOf DEF InOrder
<1>8. HeldBy(d, c)  BY <1>1, <1>6, HeldNow
<1>9. StepOK(C, d, e, c.i, CalmHead(C, d, c), u)  BY <1>1, <1>2, <1>6, <1>7, <1>8, CallStep
<1>10. InOrder(C, e, z)  BY <1>1, <1>4, <1>5, <1>6, <1>9, OrderThen
<1>11. LinksOnce(e)  BY <1>1, <1>2, <1>4, <1>6, <1>7, <1>9, LinksThen
<1>12. AllFit(e)  BY <1>9 DEF StepOK
<1>13. Unmoved(e)  BY <1>1, <1>2, <1>4, <1>6, <1>7, UnmovedThen
<1>14. AllAtWork(e, z)  BY <1>1, <1>2, <1>5, <1>6, WorkThen
<1>15. QED  BY <1>3, <1>10, <1>11, <1>12, <1>13, <1>14 DEF Sound
===============================================================================
