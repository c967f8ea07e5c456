-------------------- MODULE ProcessEngineProofs --------------------
(***************************************************************************)
(* The invariants of ProcessEngine, for any graph whose calm steps cover   *)
(* every passage and for leases that lapse one at a time: what is over     *)
(* stands still, every active token has one stage that works on it,        *)
(* every confirmed effect has a row that says what became of it, what is   *)
(* queued is found, no fork waits for branches that never come, and no     *)
(* process outlives the one that called it.                                *)
(***************************************************************************)
EXTENDS ProcessEngineSteps

(***************************************************************************)
(* What a handler finds, and what it leaves for its calls.                 *)
(***************************************************************************)
(* The invariant between two handlers.                                      *)
Settle(d) ==
  /\ d \in Db /\ AllFit(d) /\ LinksOnce(d) /\ Unmoved(d) /\ AllAtWork(d, <<>>)

LEMMA GoalAtWork ==
  ASSUME NEW e, NEW u, NEW j, WorkGoal(e, u, j, {})
  PROVE  AtWork(e, u, j)
<1>1. ASSUME e.inst[j] \in OpenInst, ~Closing(u, j) PROVE Apart(u, j) /\ TokensFit(e, j, Awaits(u, j))
  <2>1. Apart(u, j) /\ Fit(e, j, Awaits(u, j), {})  BY <1>1 DEF WorkGoal
  <2>2. Awaits(u, j) \cup {} = Awaits(u, j)  OBVIOUS
  <2>3. QED  BY <2>1, <2>2 DEF Fit
<1>2. QED  BY <1>1 DEF AtWork

LEMMA OpenFit ==
  ASSUME NEW d, AllAtWork(d, <<>>), NEW j \in Instances, d.inst[j] \in OpenInst
  PROVE  Fit(d, j, {}, {})
<1>1. AtWork(d, <<>>, j)  BY DEF AllAtWork
<1>2. TokensFit(d, j, {})  BY <1>1, AwaitsNone DEF AtWork
<1>3. {} \cap {} = {} /\ {} \cup {} = {}  OBVIOUS
<1>4. QED  BY <1>2, <1>3 DEF Fit

(* An instance that a handler leaves alone.                                 *)
LEMMA SparedAtWork ==
  ASSUME NEW d, AllAtWork(d, <<>>), NEW e, NEW u, NEW j \in Instances, Spared(d, e, u, j)
  PROVE  AtWork(e, u, j)
<1>1. CASE e.inst[j] \in OpenInst
  <2>1. d.inst[j] \in OpenInst  BY <1>1 DEF Spared, Same
  <2>2. WorkGoal(e, u, j, {})  BY <2>1, OpenFit, SparedWork
  <2>3. QED  BY <2>2, GoalAtWork
<1>2. CASE e.inst[j] \notin OpenInst  BY <1>2 DEF AtWork
<1>3. QED  BY <1>1, <1>2

(* The links and the transitions that a handler leaves.                     *)
LEMMA TouchesUnmoved ==
  ASSUME NEW d, NEW e, Unmoved(d), e.moves = d.moves,
         \A j \in Instances : e.inst[j] = "absent" => d.inst[j] = "absent"
  PROVE  Unmoved(e)
BY DEF Unmoved

LEMMA LinksLess ==
  ASSUME NEW d, NEW e, LinksOnce(d),
         \A p \in Instances : \A k \in RunningLinks(e, p) :
           k \in RunningLinks(d, p) /\ Child(e, p, k) = Child(d, p, k)
  PROVE  LinksOnce(e)
BY DEF LinksOnce

LEMMA SameLinksOnce ==
  ASSUME NEW d, NEW e, NEW I, LinksOnce(d), \A j \in Instances \ I : Same(d, e, j),
         \A p \in Instances \cap I : \A k \in RunningLinks(e, p) :
           k \in RunningLinks(d, p) /\ Child(e, p, k) = Child(d, p, k)
  PROVE  LinksOnce(e)
<1>1. \A p \in Instances \ I : \A k \in RunningLinks(e, p) :
        k \in RunningLinks(d, p) /\ Child(e, p, k) = Child(d, p, k)
  BY DEF Same, RunningLinks, Child, Slots
<1>2. QED  BY <1>1, LinksLess

LEMMA SoundAt ==
  ASSUME NEW C, NEW d, Settle(d), NEW i \in Instances, NEW e, Touches(d, e, {i}), Fits(e, i),
         \A k \in RunningLinks(e, i) : k \in RunningLinks(d, i) /\ Child(e, i, k) = Child(d, i, k),
         NEW u, AtWork(e, u, i), InOrder(C, e, u), \A x \in DOMAIN u : u[x].i = i
  PROVE  Sound(C, e, u)
<1>1. AllFit(e)  BY FitsBut DEF Settle
<1>2. LinksOnce(e)
  <2>1. LinksOnce(d) /\ \A j \in Instances \ {i} : Same(d, e, j)  BY DEF Settle, Touches
  <2>2. \A p \in Instances \cap {i} : \A k \in RunningLinks(e, p) :
          k \in RunningLinks(d, p) /\ Child(e, p, k) = Child(d, p, k)
    OBVIOUS
  <2>3. QED  BY <2>1, <2>2, SameLinksOnce
<1>3. Unmoved(e)  BY TouchesUnmoved DEF Settle, Touches, Grows, GrowsAt
<1>4. ASSUME NEW j \in Instances PROVE AtWork(e, u, j)
  <2>1. CASE j = i  BY <2>1
  <2>2. CASE j # i
    <3>1. Same(d, e, j)  BY <2>2 DEF Touches
    <3>2. \A x \in DOMAIN u : ~Advances(u[x], j)  BY <2>2 DEF Advances
    <3>3. Spared(d, e, u, j)  BY <3>1, <3>2, Elsewhere DEF Spared
    <3>4. QED  BY <3>3, SparedAtWork DEF Settle
  <2>3. QED  BY <2>1, <2>2
<1>5. QED  BY <1>1, <1>2, <1>3, <1>4 DEF Sound, AllAtWork

LEMMA StageFitsStays ==
  ASSUME NEW d \in Db, NEW e, \A j \in Instances : d.inst[j] # "absent" => e.inst[j] # "absent",
         NEW i \in Instances, NEW k \in Slots(d, i), StageFits(d, i, d.stages[i][k]),
         \/ e.inst[i] = d.inst[i]
         \/ d.inst[i] \in OpenInst /\ e.inst[i] \in OpenInst
  PROVE  StageFits(e, i, d.stages[i][k])
<1> DEFINE st == d.stages[i][k]
<1>1. StageFits(d, i, st)  OBVIOUS
<1>2. st.row = "running" => ChildOf[st.node] \in Instances
  <2>1. HAVE st.row = "running"
  <2>2. st.kind = "subprocess"  BY <1>1, <2>1 DEF StageFits
  <2>3. Child(d, i, k) \in Instances  BY <2>2, ChildIs
  <2>4. QED  BY <2>3 DEF Child
<1> HIDE DEF st
<1>3. "compensating" \notin OpenInst  BY DEF OpenInst
<1>4. StageFits(e, i, st)  BY <1>1, <1>2, <1>3 DEF StageFits
<1>5. QED  BY <1>4 DEF st

(* Stage k of i is changed, and nothing else.                               *)
LEMMA FitsPut ==
  ASSUME NEW d \in Db, NEW e, \A j \in Instances : d.inst[j] # "absent" => e.inst[j] # "absent",
         NEW i \in Instances, Fits(d, i),
         \/ e.inst[i] = d.inst[i]
         \/ d.inst[i] \in OpenInst /\ e.inst[i] \in OpenInst,
         e.error[i] = d.error[i], e.token[i] = d.token[i], Slots(e, i) = Slots(d, i),
         NEW k \in Slots(d, i), \A m \in Slots(d, i) : m # k => e.stages[i][m] = d.stages[i][m],
         StageFits(e, i, e.stages[i][k])
  PROVE  Fits(e, i)
<1>1. HeadFits(e, i)
  <2>1. "absent" \notin OpenInst /\ OpenInst \cap Stopped = {}  BY DEF OpenInst, Stopped
  <2>2. e.inst[i] = "absent" => d.inst[i] = "absent"  OBVIOUS
  <2>3. d.inst[i] # "absent"
    <3>1. SUFFICES ASSUME d.inst[i] = "absent" PROVE FALSE  OBVIOUS
    <3>2. d.stages[i] = <<>>  BY <3>1 DEF Fits, HeadFits
    <3>3. QED  BY <3>2 DEF Slots
  <2>4. QED  BY <2>1, <2>2, <2>3 DEF Fits, HeadFits, Live
<1>2. ASSUME NEW m \in Slots(d, i), m # k PROVE StageFits(e, i, e.stages[i][m])
  <2>1. StageFits(d, i, d.stages[i][m])  BY DEF Fits
  <2>2. StageFits(e, i, d.stages[i][m])  BY <2>1, StageFitsStays
  <2>3. QED  BY <1>2, <2>2
<1>3. QED  BY <1>1, <1>2 DEF Fits

(* A stage ends, whose row asks nothing of anybody.                         *)
LEMMA EndsSound ==
  ASSUME NEW C, NEW d, Settle(d), NEW i \in Instances, NEW k \in Slots(d, i), NEW e, NEW r, NEW s \in Ended,
         Ends(d, e, i, k, r, s), r \notin {"waiting", "running"},
         NEW u, AtWork(e, u, i), InOrder(C, e, u), \A x \in DOMAIN u : u[x].i = i
  PROVE  Sound(C, e, u) /\ Fits(e, i)
<1>1. /\ Touches(d, e, {i}) /\ e.inst[i] = d.inst[i] /\ e.error[i] = d.error[i]
      /\ e.token[i] = d.token[i] /\ Slots(e, i) = Slots(d, i)
      /\ \A m \in Slots(d, i) : m # k => e.stages[i][m] = d.stages[i][m]
      /\ Kept(d, e, i, k) /\ e.stages[i][k].row = r /\ e.stages[i][k].status = s
  BY DEF Ends
<1>2. d \in Db /\ Fits(d, i) /\ StageFits(d, i, d.stages[i][k])  BY DEF Settle, AllFit, Fits
<1>3. \A j \in Instances : d.inst[j] # "absent" => e.inst[j] # "absent"
  BY <1>1 DEF Touches, Grows, GrowsAt
<1>4. StageFits(e, i, e.stages[i][k])
  <2>1. s \notin OpenStage  BY DEF Ended, OpenStage
  <2>2. QED  BY <1>1, <1>2, <2>1 DEF StageFits, Kept
<1>5. Fits(e, i)  BY <1>1, <1>2, <1>3, <1>4, FitsPut
<1>6. \A m \in RunningLinks(e, i) : m \in RunningLinks(d, i) /\ Child(e, i, m) = Child(d, i, m)
  BY <1>1 DEF RunningLinks, Child
<1>7. QED  BY <1>1, <1>5, <1>6, SoundAt

(***************************************************************************)
(* What each handler leaves for its calls is sound.                        *)
(***************************************************************************)
LEMMA StartSound ==
  ASSUME NEW C, NEW d, Settle(d), NEW e, NEW u, StartH(d, e, u)
  PROVE  Sound(C, e, u)
<1>1. PICK i \in Instances : /\ d.inst[i] = "absent" /\ Started(d, e, i)
                             /\ u = <<ToAdvance(i, Root, StartOf[i])>>
  BY DEF StartH
<1>2. d \in Db /\ HeadFits(d, i)  BY DEF Settle, AllFit, Fits
<1>3. /\ Touches(d, e, {i}) /\ e.inst[i] = "queued" /\ e.stages[i] = <<>> /\ e.error[i] = d.error[i]
      /\ d.stages[i] = <<>>
  BY <1>1, <1>2 DEF Started, StandsAt, HeadFits
<1>4. Slots(e, i) = {}  BY <1>3 DEF Slots
<1>5. "absent" \notin Stopped /\ "queued" \in OpenInst  BY DEF Stopped, OpenInst
<1>6. Fits(e, i)  BY <1>1, <1>2, <1>3, <1>4, <1>5 DEF Fits, HeadFits, OpenInst
<1>7. RunningLinks(e, i) = {}  BY <1>4 DEF RunningLinks
<1> DEFINE c == ToAdvance(i, Root, StartOf[i])
<1>8. c.method = "advance" /\ c.i = i /\ c.t = Root  BY CallsGive
<1>9. Each(e, c)  BY <1>3, <1>5, EachAre, GraphAssumption
<1>10. u = <<c>>  BY <1>1
<1> HIDE DEF c
<1>11. InOrder(C, e, u)  BY <1>8, <1>9, <1>10, NearSelf, OneOrder
<1>12. Awaits(u, i) = {Root} /\ Apart(u, i)  BY <1>8, <1>10, AwaitsOne DEF One, Advances
<1>13. AtWork(e, u, i)  BY <1>1, <1>3, <1>12, BornTokens DEF AtWork
<1>14. \A x \in DOMAIN u : u[x].i = i  BY <1>8, <1>10
<1>15. QED  BY <1>3, <1>6, <1>7, <1>11, <1>13, <1>14, SoundAt

(* A handler that only makes a call.                                        *)
LEMMA StillSound ==
  ASSUME NEW C, NEW d, Settle(d), NEW e, Still(d, e), NEW i \in Instances, NEW c, c.i = i,
         AtWork(e, <<c>>, i), InOrder(C, e, <<c>>)
  PROVE  Sound(C, e, <<c>>)
<1>1. d \in Db /\ Fits(d, i)  BY DEF Settle, AllFit
<1>2. Touches(d, e, {i}) /\ Same(d, e, i) /\ Grows(d, e)  BY <1>1, TouchesSelf DEF Still, Touches
<1>3. Fits(e, i)  BY <1>1, <1>2, FitsSame
<1>4. \A k \in RunningLinks(e, i) : k \in RunningLinks(d, i) /\ Child(e, i, k) = Child(d, i, k)
  BY <1>2 DEF Same, RunningLinks, Child, Slots
<1>5. \A x \in DOMAIN <<c>> : <<c>>[x].i = i  OBVIOUS
<1>6. QED  BY <1>2, <1>3, <1>4, <1>5, SoundAt

LEMMA CancelSound ==
  ASSUME NEW C, NEW d, Settle(d), NEW e, NEW u, CancelH(d, e, u)
  PROVE  Sound(C, e, u)
<1>1. PICK i \in Instances : Still(d, e) /\ u = <<ToFail(i, "cancelled")>>  BY DEF CancelH
<1>2. WorkGoal(e, <<ToFail(i, "cancelled")>>, i, {})  BY FailWork
<1>3. InOrder(C, e, <<ToFail(i, "cancelled")>>)  BY FailCalls
<1>4. ToFail(i, "cancelled").i = i  BY CallsGive
<1>5. QED  BY <1>1, <1>2, <1>3, <1>4, GoalAtWork, StillSound

LEMMA GiveSound ==
  ASSUME NEW C, NEW d, Settle(d), NEW e, NEW u, GiveH(d, e, u)
  PROVE  Sound(C, e, u)
<1>1. PICK i \in Instances : \E k \in Slots(d, i), again \in BOOLEAN :
        Still(d, e) /\ d.stages[i][k].status = "running" /\ u = <<ToGiveBack(i, k, again)>>
  BY DEF GiveH
<1>2. PICK k \in Slots(d, i), again \in BOOLEAN :
        Still(d, e) /\ d.stages[i][k].status = "running" /\ u = <<ToGiveBack(i, k, again)>>
  BY <1>1
<1> DEFINE c == ToGiveBack(i, k, again)
<1>3. c.method = "giveback" /\ c.i = i /\ c.k = k  BY DEF ToGiveBack
<1>4. u = <<c>>  BY <1>2
<1> HIDE DEF c
<1>5. Same(d, e, i)  BY <1>2 DEF Still, Touches
<1>6. k \in Slots(e, i) /\ e.stages[i][k].status = "running"  BY <1>2, <1>5 DEF Same, Slots
<1>7. Each(e, c)  BY <1>3, <1>6 DEF Each, Going
<1>8. InOrder(C, e, u)  BY <1>4, <1>7 DEF InOrder
<1>9. ~Advances(c, i)  BY <1>3 DEF Advances
<1>10. AtWork(e, u, i)  BY <1>4, <1>5, <1>9, SparedOne, SparedAtWork DEF Settle
<1>11. QED  BY <1>2, <1>3, <1>4, <1>8, <1>10, StillSound

LEMMA GoSound ==
  ASSUME NEW C, NEW d, Settle(d), NEW e, NEW u, GoH(d, e, u)
  PROVE  Sound(C, e, u)
<1>1. PICK i \in Instances : \E k \in Slots(d, i) : \E r :
        /\ GoRow(d.stages[i][k], r) /\ d.stages[i][k].kind # "compensation"
        /\ Ends(d, e, i, k, r, "completed")
        /\ u = <<ToAdvance(i, d.stages[i][k].token, To(d.stages[i][k].node)[1]), ToSync(i)>>
  BY DEF GoH
<1>1a. PICK k \in Slots(d, i) : \E r :
        /\ GoRow(d.stages[i][k], r) /\ d.stages[i][k].kind # "compensation"
        /\ Ends(d, e, i, k, r, "completed")
        /\ u = <<ToAdvance(i, d.stages[i][k].token, To(d.stages[i][k].node)[1]), ToSync(i)>>
  BY <1>1
<1>2. PICK r :
        /\ GoRow(d.stages[i][k], r) /\ d.stages[i][k].kind # "compensation"
        /\ Ends(d, e, i, k, r, "completed")
        /\ u = <<ToAdvance(i, d.stages[i][k].token, To(d.stages[i][k].node)[1]), ToSync(i)>>
  BY <1>1a
<1>3. d \in Db /\ StageFits(d, i, d.stages[i][k])  BY DEF Settle, AllFit, Fits
<1>4. d.stages[i][k].status \in OpenStage  BY <1>2 DEF GoRow, OpenStage
<1>5. d.inst[i] \in OpenInst /\ d.stages[i][k].node \in NodesOf[i]  BY <1>2, <1>3, <1>4 DEF StageFits
<1>6. r \notin {"waiting", "running"}  BY <1>2, <1>3 DEF GoRow, StageFits
<1> DEFINE n == To(d.stages[i][k].node)[1]  t == d.stages[i][k].token
           b == ToAdvance(i, t, n)  c == ToSync(i)
<1>7. n \in NodesOf[i]  BY <1>2, <1>3, <1>5, StageGoesOn, NextNode
<1>8. WorkGoal(e, u, i, {})
  <2>1. k \in OpenStages(d, i)  BY <1>4 DEF OpenStages, InStatus
  <2>2. Fit(d, i, {}, {})  BY <1>5, OpenFit DEF Settle
  <2>3. /\ e.token[i] = d.token[i] /\ Slots(e, i) = Slots(d, i)
        /\ \A m \in Slots(d, i) : m # k => e.stages[i][m] = d.stages[i][m]
        /\ e.stages[i][k].status \notin OpenStage
    BY <1>2 DEF Ends, OpenStage
  <2>4. QED  BY <1>2, <2>1, <2>2, <2>3, StageGoes
<1>9. e.inst[i] \in OpenInst  BY <1>2, <1>5 DEF Ends
<1>10. b.method = "advance" /\ b.i = i /\ c.method = "sync" /\ c.i = i  BY CallsGive
<1>11. Each(e, b) /\ Each(e, c)  BY <1>7, <1>9, EachAre
<1>12. u = <<b, c>>  BY <1>2
<1> HIDE DEF b, c
<1>13. Before(C, e, b, c)  BY <1>10 DEF Before, High, Going
<1>14. InOrder(C, e, u)  BY <1>10, <1>11, <1>12, <1>13, NearSelf, TwoOrder
<1>15. \A x \in DOMAIN u : u[x].i = i  BY <1>10, <1>12
<1>16. "completed" \in Ended  BY DEF Ended
<1>17. QED  BY <1>2, <1>6, <1>8, <1>14, <1>15, <1>16, GoalAtWork, EndsSound

LEMMA BreakSound ==
  ASSUME NEW C, NEW d, Settle(d), NEW e, NEW u, BreakH(d, e, u)
  PROVE  Sound(C, e, u)
<1>1. PICK i \in Instances : \E k \in Slots(d, i) : \E r : \E s \in {"failed", "cancelled"} :
        /\ \/ d.stages[i][k].status \in {"running", "waiting_approval"} /\ r = d.stages[i][k].row
           \/ r = "expired"
        /\ Ends(d, e, i, k, r, s) /\ u = <<ToFail(i, s)>>
  BY DEF BreakH
<1>1a. PICK k \in Slots(d, i) : \E r : \E s \in {"failed", "cancelled"} :
        /\ \/ d.stages[i][k].status \in {"running", "waiting_approval"} /\ r = d.stages[i][k].row
           \/ r = "expired"
        /\ Ends(d, e, i, k, r, s) /\ u = <<ToFail(i, s)>>
  BY <1>1
<1>2. PICK r : \E s \in {"failed", "cancelled"} :
        /\ \/ d.stages[i][k].status \in {"running", "waiting_approval"} /\ r = d.stages[i][k].row
           \/ r = "expired"
        /\ Ends(d, e, i, k, r, s) /\ u = <<ToFail(i, s)>>
  BY <1>1a
<1>3. PICK s \in {"failed", "cancelled"} : Ends(d, e, i, k, r, s) /\ u = <<ToFail(i, s)>>  BY <1>2
<1>4. StageFits(d, i, d.stages[i][k])  BY DEF Settle, AllFit, Fits
<1>5. r \notin {"waiting", "running"}  BY <1>2, <1>4 DEF StageFits
<1>6. AtWork(e, u, i)  BY <1>3, FailWork, GoalAtWork
<1>7. InOrder(C, e, u)  BY <1>3, FailCalls
<1>8. \A x \in DOMAIN u : u[x].i = i  BY <1>3, CallsGive
<1>9. s \in Ended  BY DEF Ended
<1>10. QED  BY <1>3, <1>5, <1>6, <1>7, <1>8, <1>9, EndsSound

LEMMA UndoneSound ==
  ASSUME NEW C, NEW d, Settle(d), NEW e, NEW u, UndoneH(d, e, u)
  PROVE  Sound(C, e, u)
<1>1. PICK i \in Instances : \E k \in Slots(d, i) :
        /\ d.stages[i][k].kind = "compensation" /\ d.stages[i][k].status = "running"
        /\ UndoEnds(d, e, i, k, "completed") /\ u = <<ToCompensate(i)>>
  BY DEF UndoneH
<1>2. PICK k \in Slots(d, i) :
        /\ d.stages[i][k].kind = "compensation" /\ d.stages[i][k].status = "running"
        /\ UndoEnds(d, e, i, k, "completed") /\ u = <<ToCompensate(i)>>
  BY <1>1
<1> DEFINE m == d.stages[i][k].of  r == d.stages[i][k].row
<1>3. PICK b \in Db : /\ Ends(d, b, i, k, r, "completed")
                      /\ IF m \in Slots(d, i) THEN RowSet(b, e, i, m, "completed") ELSE e = b
  BY <1>2 DEF UndoEnds
<1>4. d \in Db /\ StageFits(d, i, d.stages[i][k])  BY DEF Settle, AllFit, Fits
<1>5. d.inst[i] = "compensating" /\ r \notin {"waiting", "running"}
  BY <1>2, <1>4 DEF StageFits, OpenStage
<1>6. "completed" \in Ended /\ "compensating" \notin OpenInst  BY DEF Ended, OpenInst
<1>7. b.inst[i] = "compensating"  BY <1>3, <1>5 DEF Ends
<1>8. Sound(C, b, <<>>) /\ Fits(b, i)
  <2>1. AtWork(b, <<>>, i)  BY <1>6, <1>7 DEF AtWork
  <2>2. InOrder(C, b, <<>>)  BY NoOrder
  <2>3. \A x \in DOMAIN <<>> : <<>>[x].i = i  OBVIOUS
  <2>4. QED  BY <1>3, <1>5, <1>6, <2>1, <2>2, <2>3, EndsSound
<1>9. Settle(b)  BY <1>3, <1>8 DEF Settle, Sound
<1> DEFINE c == ToCompensate(i)
<1>10. c.method = "compensate" /\ c.i = i  BY CallsGive
<1>11. u = <<c>>  BY <1>2
<1>12. ASSUME NEW x, x.inst[i] = "compensating" PROVE AtWork(x, u, i) /\ InOrder(C, x, u)
  <2>1. Each(x, c)  BY <1>12, EachAre
  <2> HIDE DEF c
  <2>2. InOrder(C, x, u)  BY <1>10, <1>11, <2>1, NearSelf, OneOrder
  <2>3. QED  BY <1>6, <1>12, <2>2 DEF AtWork
<1> HIDE DEF c, m
<1>13. CASE m \notin Slots(d, i)
  <2>1. e = b  BY <1>3, <1>13
  <2>2. Still(b, e)  BY <2>1, StillIs
  <2>3. QED  BY <1>7, <1>9, <1>10, <1>11, <1>12, <2>1, <2>2, StillSound
<1>14. CASE m \in Slots(d, i)
  <2>1. RowSet(b, e, i, m, "completed") /\ m \in Slots(b, i)  BY <1>3, <1>14 DEF Ends
  <2>2. /\ Touches(b, e, {i}) /\ e.inst[i] = b.inst[i] /\ e.error[i] = b.error[i]
        /\ e.token[i] = b.token[i] /\ Slots(e, i) = Slots(b, i)
        /\ \A l \in Slots(b, i) : l # m => e.stages[i][l] = b.stages[i][l]
        /\ Kept(b, e, i, m) /\ e.stages[i][m].status = b.stages[i][m].status
        /\ e.stages[i][m].row = "completed"
    BY <2>1 DEF RowSet, Restages
  <2>3. \A j \in Instances : b.inst[j] # "absent" => e.inst[j] # "absent"
    BY <2>2 DEF Touches, Grows, GrowsAt
  <2>4. StageFits(e, i, e.stages[i][m])
    <3>1. StageFits(b, i, b.stages[i][m])  BY <1>8, <2>1 DEF Fits
    <3>2. QED  BY <2>2, <3>1 DEF StageFits, Kept
  <2>5. Fits(e, i)  BY <1>8, <2>1, <2>2, <2>3, <2>4, FitsPut
  <2>6. \A l \in RunningLinks(e, i) : l \in RunningLinks(b, i) /\ Child(e, i, l) = Child(b, i, l)
    BY <2>2 DEF RunningLinks, Child
  <2>7. \A x \in DOMAIN u : u[x].i = i  BY <1>10, <1>11
  <2>8. e.inst[i] = "compensating"  BY <1>7, <2>2
  <2>9. QED  BY <1>9, <1>12, <2>2, <2>5, <2>6, <2>7, <2>8, SoundAt
<1>15. QED  BY <1>13, <1>14

(* Nobody waits for an instance that is not open.                           *)
LEMMA ShutRows ==
  ASSUME NEW d \in Db, NEW i \in Instances, Fits(d, i), d.inst[i] \notin OpenInst
  PROVE  Live(d, i) = {} /\ RunningLinks(d, i) = {} /\ \A k \in Slots(d, i) : d.stages[i][k].row # "waiting"
<1>1. Live(d, i) = {}  BY DEF Fits, HeadFits
<1>2. ASSUME NEW k \in Slots(d, i)
      PROVE  d.stages[i][k].row # "waiting" /\ d.stages[i][k].row # "running"
  <2>1. StageFits(d, i, d.stages[i][k]) /\ "waiting_external" \in OpenStage  BY DEF Fits, OpenStage
  <2>2. d.stages[i][k].row # "running"  BY <2>1 DEF StageFits
  <2>3. d.stages[i][k].row = "waiting" => d.stages[i][k].kind = "signal"  BY SlotsAre DEF StageSet, StageOK
  <2>4. QED  BY <2>1, <2>2, <2>3 DEF StageFits
<1>3. QED  BY <1>1, <1>2 DEF RunningLinks

(* The compensations that wait are let go of.                               *)
LEMMA LetGoFits ==
  ASSUME NEW d, Settle(d), NEW i \in Instances, NEW e, LetGoes(d, e, i)
  PROVE  /\ Touches(d, e, {i}) /\ Fits(e, i) /\ e.inst[i] = d.inst[i]
         /\ \A k \in RunningLinks(e, i) : k \in RunningLinks(d, i) /\ Child(e, i, k) = Child(d, i, k)
<1>1. /\ Touches(d, e, {i}) /\ e.inst[i] = d.inst[i] /\ e.error[i] = d.error[i]
      /\ e.token[i] = d.token[i] /\ Slots(e, i) = Slots(d, i)
      /\ \A m \in Slots(d, i) :
           /\ Kept(d, e, i, m) /\ e.stages[i][m].status = d.stages[i][m].status
           /\ e.stages[i][m].row = Freed(d.stages[i][m])
  BY DEF LetGoes, Restages
<1>2. d \in Db /\ Fits(d, i) /\ Grows(d, e)  BY <1>1 DEF Settle, AllFit, Touches
<1>3. \A st : Freed(st) \in {"waiting", "running"} => st.row = Freed(st)  BY DEF Freed
<1>4. ASSUME NEW m \in Slots(d, i) PROVE StageFits(e, i, e.stages[i][m])
  <2>1. StageFits(d, i, d.stages[i][m])  BY <1>2 DEF Fits
  <2>2. StageFits(e, i, d.stages[i][m])  BY <1>1, <1>2, <2>1, StageFitsOn
  <2>3. /\ e.stages[i][m].node = d.stages[i][m].node /\ e.stages[i][m].kind = d.stages[i][m].kind
        /\ e.stages[i][m].status = d.stages[i][m].status
        /\ (e.stages[i][m].row = "running" => d.stages[i][m].row = "running")
        /\ (e.stages[i][m].row = "waiting" => d.stages[i][m].row = "waiting")
    BY <1>1, <1>3 DEF Kept
  <2> DEFINE x == d.stages[i][m]
             y == e.stages[i][m]
  <2>4. /\ StageFits(e, i, x) /\ y.node = x.node /\ y.kind = x.kind /\ y.status = x.status
        /\ (y.row = "running" => x.row = "running") /\ (y.row = "waiting" => x.row = "waiting")
    BY <2>2, <2>3
  <2> HIDE DEF x
  <2>5. StageFits(e, i, y)
    <3> HIDE DEF y
    <3>1. QED  BY <2>4 DEF StageFits
  <2>6. QED  BY <2>5
<1>5. HeadFits(e, i)
  <2>1. e.inst[i] = "absent" => e.stages[i] = <<>>
    <3>1. HAVE e.inst[i] = "absent"
    <3>2. d.stages[i] = <<>>  BY <1>1, <1>2, <3>1 DEF Fits, HeadFits
    <3>3. e \in Db /\ Slots(e, i) = {}  BY <1>1, <3>2 DEF Slots, Touches
    <3>4. e.stages[i] \in Seq(StageSet)  BY <3>3 DEF Db
    <3> DEFINE q == e.stages[i]
    <3>5. q \in Seq(StageSet) /\ DOMAIN q = {}  BY <3>3, <3>4 DEF Slots
    <3> HIDE DEF q
    <3>6. Len(q) \in Nat /\ DOMAIN q = 1..Len(q)  BY <3>5
    <3>7. Len(q) = 0
      <4>1. Len(q) # 0 => 1 \in 1..Len(q)  BY <3>6
      <4>2. QED  BY <3>5, <3>6, <4>1
    <3>8. q = <<>>  BY <3>5, <3>7
    <3>9. QED  BY <3>8 DEF q
  <2>2. QED  BY <1>1, <1>2, <2>1 DEF Fits, HeadFits, Live
<1>6. \A k \in RunningLinks(e, i) : k \in RunningLinks(d, i) /\ Child(e, i, k) = Child(d, i, k)
  BY <1>1, <1>3 DEF RunningLinks, Child, Kept
<1>7. Fits(e, i)
  <2>1. \A k \in Slots(e, i) : StageFits(e, i, e.stages[i][k])  BY <1>1, <1>4
  <2>2. QED  BY <1>5, <2>1 DEF Fits
<1>8. QED  BY <1>1, <1>6, <1>7

LEMMA RevokeSound ==
  ASSUME NEW C, NEW d, Settle(d), NEW e, NEW u, NEW i \in Instances, Revokes(d, e, u, i)
  PROVE  Sound(C, e, u)
<1>1. CASE LetGoes(d, e, i) /\ u = <<ToFail(i, "cancelled")>>
  <2>1. AtWork(e, u, i)  BY <1>1, FailWork, GoalAtWork
  <2>2. InOrder(C, e, u)  BY <1>1, FailCalls
  <2>3. \A x \in DOMAIN u : u[x].i = i
    <3>1. ToFail(i, "cancelled").i = i  BY CallsGive
    <3>2. QED  BY <1>1, <3>1
  <2>4. /\ Touches(d, e, {i}) /\ Fits(e, i)
        /\ \A k \in RunningLinks(e, i) : k \in RunningLinks(d, i) /\ Child(e, i, k) = Child(d, i, k)
    BY <1>1, LetGoFits
  <2>5. QED  BY <2>1, <2>2, <2>3, <2>4, SoundAt
<1>2. ASSUME NEW a, LetGoes(d, a, i), FinalCase(a, e, i, "cancelled", u), d.inst[i] = "compensating"
      PROVE  Sound(C, e, u)
  <2>1. /\ Touches(d, a, {i}) /\ Fits(a, i) /\ a.inst[i] = "compensating" /\ a \in Db
        /\ \A k \in RunningLinks(a, i) : k \in RunningLinks(d, i) /\ Child(a, i, k) = Child(d, i, k)
    BY <1>2, LetGoFits DEF Touches
  <2>2. "compensating" \notin OpenInst /\ "cancelled" \notin OpenInst  BY DEF OpenInst
  <2>3. Settle(a)
    <3>1. AtWork(a, <<>>, i)  BY <2>1, <2>2 DEF AtWork
    <3>2. InOrder(C, a, <<>>)  BY NoOrder
    <3>3. \A x \in DOMAIN <<>> : <<>>[x].i = i  OBVIOUS
    <3>4. Sound(C, a, <<>>)  BY <2>1, <3>1, <3>2, <3>3, SoundAt
    <3>5. QED  BY <2>1, <3>4 DEF Settle, Sound
  <2>4. Live(a, i) = {} /\ RunningLinks(a, i) = {} /\ \A k \in Slots(a, i) : a.stages[i][k].row # "waiting"
    BY <2>1, <2>2, ShutRows
  <2>5. Finishes(a, e, i, "cancelled", "cancelled") /\ u = <<ToParent(i)>>  BY <1>2 DEF FinalCase
  <2>6. "cancelled" \in Stopped /\ "cancelled" \in Ended /\ AllFit(a)  BY <2>3 DEF Stopped, Ended, Settle
  <2>7. Fits(e, i)  BY <2>1, <2>4, <2>5, <2>6, FinishFits
  <2>8. Touches(a, e, {i}) /\ e.inst[i] = "cancelled"  BY <2>5 DEF Finishes, StandsAt
  <2>9. RunningLinks(e, i) = {}  BY <2>4, <2>5 DEF Finishes, Kept, RunningLinks
  <2>10. AtWork(e, u, i)  BY <2>2, <2>8 DEF AtWork
  <2> DEFINE c == ToParent(i)
  <2>11. c.method = "parent" /\ c.i = i /\ Each(e, c)  BY CallsGive, EachAre
  <2>12. u = <<c>>  BY <2>5
  <2> HIDE DEF c
  <2>13. Near(a, i, c.i) /\ c.method # "giveback"  BY <2>11, NearSelf
  <2>14. InOrder(C, e, u)  BY <2>11, <2>12, <2>13, OneOrder
  <2>15. \A x \in DOMAIN u : u[x].i = i  BY <2>11, <2>12
  <2>16. QED  BY <2>3, <2>7, <2>8, <2>9, <2>10, <2>14, <2>15, SoundAt
<1>3. QED  BY <1>1, <1>2 DEF Revokes

RevokedAs(d, e, u, i) ==
  \/ e.inst[i] = d.inst[i] /\ u = <<ToFail(i, "cancelled")>>
  \/ e.inst[i] = "cancelled" /\ u = <<ToParent(i)>>

LEMMA RevokesAre ==
  ASSUME NEW d \in Db, NEW e, NEW u, NEW i \in Instances, Revokes(d, e, u, i)
  PROVE  /\ Touches(d, e, {i}) /\ e.token[i] = d.token[i] /\ Slots(e, i) = Slots(d, i)
         /\ RevokedAs(d, e, u, i)
<1>1. CASE d.inst[i] \in OpenInst /\ LetGoes(d, e, i) /\ u = <<ToFail(i, "cancelled")>>
  BY <1>1 DEF LetGoes, Restages, RevokedAs
<1>2. ASSUME NEW a, d.inst[i] = "compensating", LetGoes(d, a, i), FinalCase(a, e, i, "cancelled", u)
      PROVE  /\ Touches(d, e, {i}) /\ e.token[i] = d.token[i] /\ Slots(e, i) = Slots(d, i)
             /\ e.inst[i] = "cancelled" /\ u = <<ToParent(i)>>
  <2>1. Touches(d, a, {i}) /\ a.token[i] = d.token[i] /\ Slots(a, i) = Slots(d, i)
    BY <1>2 DEF LetGoes, Restages
  <2>2. /\ Touches(a, e, {i}) /\ e.token[i] = a.token[i] /\ Slots(e, i) = Slots(a, i)
        /\ e.inst[i] = "cancelled" /\ u = <<ToParent(i)>>
    BY <1>2 DEF FinalCase, Finishes, StandsAt
  <2>3. a \in Db /\ e \in Db  BY <2>1, <2>2 DEF Touches
  <2>4. Touches(d, e, {i})  BY <2>1, <2>2, <2>3, TouchesBoth
  <2>5. QED  BY <2>1, <2>2, <2>4
<1>3. QED  BY <1>1, <1>2 DEF Revokes, RevokedAs

LEMMA BeginsSound ==
  ASSUME NEW C, NEW d, Settle(d), Lone(d), NEW e, NEW u, Begins(d, e, u)
  PROVE  Sound(C, e, u)
<1>1. ASSUME LateH(d, e, u) PROVE FALSE
  <2>1. PICK i \in Instances : \E k \in Slots(d, i) :
          d.stages[i][k].row = "waiting" /\ d.stages[i][k].status # "waiting_external"
    BY <1>1 DEF LateH
  <2>2. QED  BY <2>1 DEF Settle, AllFit, Fits, StageFits
<1>2. ASSUME SweepH(d, e, u) PROVE GiveH(d, e, u)  BY <1>2 DEF SweepH
<1>3. QED
  BY <1>1, <1>2, StartSound, CancelSound, GoSound, UndoneSound, BreakSound, GiveSound, RevokeSound
  DEF Begins, Handled, RevokeH

(***************************************************************************)
(* A handler that makes no call, and the handlers with all their calls.    *)
(***************************************************************************)
LEMMA PlainSound ==
  ASSUME NEW d, Settle(d), NEW i \in Instances, NEW k \in Slots(d, i), NEW e \in Db, Others(d, e, i),
         e.moves = d.moves,
         \/ e.inst[i] = d.inst[i]
         \/ d.inst[i] \in OpenInst /\ e.inst[i] \in OpenInst,
         e.error[i] = d.error[i], e.token[i] = d.token[i], Slots(e, i) = Slots(d, i),
         \A m \in Slots(d, i) : m # k => e.stages[i][m] = d.stages[i][m],
         Kept(d, e, i, k), e.stages[i][k].row = d.stages[i][k].row,
         d.stages[i][k].status \in OpenStage \ {"waiting_external"}, e.stages[i][k].status \in OpenStage
  PROVE  Settle(e)
<1>1. d \in Db /\ AllFit(d) /\ Fits(d, i) /\ StageFits(d, i, d.stages[i][k])  BY DEF Settle, AllFit, Fits
<1>2. \A j \in Instances : j # i => Same(d, e, j)  BY DEF Others
<1>3. \A j \in Instances : e.inst[j] = "absent" <=> d.inst[j] = "absent"
  <2>1. "absent" \notin OpenInst  BY DEF OpenInst
  <2>2. QED  BY <1>2, <2>1 DEF Same
<1>4. d.stages[i][k].row \notin {"waiting", "running"}  BY <1>1 DEF StageFits
<1>5. StageFits(e, i, e.stages[i][k])
  <2>1. "compensating" \notin OpenInst  BY DEF OpenInst
  <2>2. QED  BY <1>1, <1>4, <2>1 DEF StageFits, Kept
<1>6. Fits(e, i)  BY <1>1, <1>3, <1>5, FitsPut
<1>7. ASSUME NEW j \in Instances, j # i PROVE Fits(e, j)
  <2>1. Same(d, e, j) /\ Fits(d, j)  BY <1>1, <1>2, <1>7 DEF AllFit
  <2>2. HeadFits(e, j)  BY <2>1 DEF Fits, HeadFits, Same, Live
  <2>3. \A m \in Slots(d, j) : StageFits(e, j, d.stages[j][m])
    BY <1>1, <1>3, <2>1, StageFitsStays DEF Fits, Same
  <2>4. QED  BY <2>1, <2>2, <2>3 DEF Fits, Same, Slots
<1>8. LinksOnce(e)
  <2>1. LinksOnce(d) /\ \A j \in Instances \ {i} : Same(d, e, j)  BY <1>2 DEF Settle
  <2>2. \A p \in Instances \cap {i} : \A m \in RunningLinks(e, p) :
          m \in RunningLinks(d, p) /\ Child(e, p, m) = Child(d, p, m)
    BY DEF RunningLinks, Child, Kept
  <2>3. QED  BY <2>1, <2>2, SameLinksOnce
<1>9. Unmoved(e)  BY <1>3, TouchesUnmoved DEF Settle
<1>10. ASSUME NEW j \in Instances PROVE AtWork(e, <<>>, j)
  <2>1. AtWork(d, <<>>, j)  BY DEF Settle, AllAtWork
  <2>2. CASE j = i
    <3>1. OpenStages(e, i) = OpenStages(d, i)  BY DEF OpenStages, InStatus
    <3>2. Keeps(d, e, i)  BY <3>1 DEF Keeps, OpenStages, InStatus, Kept
    <3>3. e.inst[i] \in OpenInst => d.inst[i] \in OpenInst  OBVIOUS
    <3>4. QED  BY <2>1, <2>2, <3>2, <3>3, KeepsFit DEF AtWork
  <2>3. CASE j # i
    <3>1. Same(d, e, j)  BY <1>2, <2>3
    <3>2. QED  BY <3>1, SparedNone, SparedAtWork DEF Settle
  <2>4. QED  BY <2>2, <2>3
<1>11. QED  BY <1>6, <1>7, <1>8, <1>9, <1>10 DEF Settle, AllFit, AllAtWork

(* Only the last lease may have lapsed.                                     *)
LEMMA LoneThen ==
  ASSUME NEW d, NEW e, Lone(d), NoNewLapse(d, e)
  PROVE  Lone(e)
BY DEF Lone, Lapsed, NoNewLapse

LEMMA LoneLapse ==
  ASSUME NEW d, NEW e, NEW i \in Instances, NEW k, Others(d, e, i), Slots(e, i) = Slots(d, i),
         \A m \in Slots(d, i) : m # k => e.stages[i][m] = d.stages[i][m],
         \A j \in Instances : \A m \in Slots(d, j) : ~d.stages[j][m].lapsed
  PROVE  Lone(e)
<1>1. \A j \in Instances : \A m : Lapsed(e, j, m) => j = i /\ m = k
  BY DEF Lapsed, Others, Same, Slots
<1>2. QED  BY <1>1 DEF Lone

LEMMA LeaseSound ==
  ASSUME NEW d, Settle(d), Lone(d), NEW i \in Instances, NEW k \in Slots(d, i), NEW e, LeaseCase(d, e, i, k)
  PROVE  Settle(e) /\ Lone(e)
<1>1. /\ d.stages[i][k].status = "queued" /\ e \in Db /\ Others(d, e, i) /\ e.moves = d.moves
      /\ e.inst[i] = (IF d.stages[i][k].kind = "compensation" THEN "compensating" ELSE "running")
      /\ e.error[i] = d.error[i] /\ e.token[i] = d.token[i] /\ Slots(e, i) = Slots(d, i)
      /\ \A m \in Slots(d, i) : m # k => e.stages[i][m] = d.stages[i][m]
      /\ Kept(d, e, i, k) /\ e.stages[i][k].row = d.stages[i][k].row
      /\ e.stages[i][k].status = "running" /\ e.stages[i][k].lapsed = FALSE
  BY DEF LeaseCase, StandsAt
<1>2. StageFits(d, i, d.stages[i][k])  BY DEF Settle, AllFit, Fits
<1>3. \/ e.inst[i] = d.inst[i]
      \/ d.inst[i] \in OpenInst /\ e.inst[i] \in OpenInst
  BY <1>1, <1>2 DEF StageFits, OpenStage, OpenInst
<1>4. "queued" \in OpenStage \ {"waiting_external"} /\ "running" \in OpenStage  BY DEF OpenStage
<1>5. Settle(e)  BY <1>1, <1>3, <1>4, PlainSound
<1>6. \A m \in Slots(e, i) : e.stages[i][m].lapsed => m \in Slots(d, i) /\ d.stages[i][m].lapsed  BY <1>1
<1>7. NoNewLapse(d, e)  BY <1>1, <1>6, NoLapseAt
<1>8. QED  BY <1>5, <1>7, LoneThen

LEMMA LapseSound ==
  ASSUME ~LapseTogether, NEW d, Settle(d), NEW i \in Instances, NEW k \in Slots(d, i), NEW e, LapseCase(d, e, i, k)
  PROVE  Settle(e) /\ Lone(e)
<1>1. /\ d.stages[i][k].status = "running" /\ e \in Db /\ Others(d, e, i) /\ e.moves = d.moves
      /\ e.inst[i] = d.inst[i]
      /\ e.error[i] = d.error[i] /\ e.token[i] = d.token[i] /\ Slots(e, i) = Slots(d, i)
      /\ \A m \in Slots(d, i) : m # k => e.stages[i][m] = d.stages[i][m]
      /\ Kept(d, e, i, k) /\ e.stages[i][k].row = d.stages[i][k].row /\ e.stages[i][k].status = "running"
      /\ \A j \in Instances : \A m \in Slots(d, j) : ~d.stages[j][m].lapsed
  BY DEF LapseCase
<1>2. "running" \in OpenStage \ {"waiting_external"}  BY DEF OpenStage
<1>3. Settle(e)  BY <1>1, <1>2, PlainSound
<1>4. QED  BY <1>1, <1>3, LoneLapse

LEMMA ApproveSound ==
  ASSUME NEW d, Settle(d), Lone(d), NEW i \in Instances, NEW k \in Slots(d, i), NEW e, ApproveCase(d, e, i, k)
  PROVE  Settle(e) /\ Lone(e)
<1>1. /\ d.stages[i][k].status = "waiting_approval" /\ Touches(d, e, {i})
      /\ e.inst[i] \in {"queued", "running"}
      /\ e.error[i] = d.error[i] /\ e.token[i] = d.token[i] /\ Slots(e, i) = Slots(d, i)
      /\ \A m \in Slots(d, i) : m # k => e.stages[i][m] = d.stages[i][m]
      /\ Kept(d, e, i, k) /\ e.stages[i][k].row = d.stages[i][k].row /\ e.stages[i][k].status = "queued"
  BY DEF ApproveCase
<1>2. d \in Db /\ StageFits(d, i, d.stages[i][k])  BY DEF Settle, AllFit, Fits
<1>3. d.stages[i][k].kind # "compensation"
  <2>1. d.stages[i][k] \in StageSet  BY <1>2, SlotsAre
  <2>2. QED  BY <1>1, <2>1 DEF StageSet, StageOK
<1>4. d.inst[i] \in OpenInst /\ e.inst[i] \in OpenInst  BY <1>1, <1>2, <1>3 DEF StageFits, OpenStage, OpenInst
<1>5. e \in Db /\ Others(d, e, i) /\ e.moves = d.moves /\ NoNewLapse(d, e)  BY <1>1 DEF Touches, Others
<1>6. "waiting_approval" \in OpenStage \ {"waiting_external"} /\ "queued" \in OpenStage  BY DEF OpenStage
<1>7. Settle(e)  BY <1>1, <1>4, <1>5, <1>6, PlainSound
<1>8. QED  BY <1>5, <1>7, LoneThen

(***************************************************************************)
(* The invariant of the handlers.                                          *)
(***************************************************************************)
Settled0(d) == Settle(d) /\ Lone(d)

LEMMA CallsSettle ==
  ASSUME NEW C, CalmBy(C), Settled0(db), CallsStep
  PROVE  Settled0(db')
<1>1. PICK e, u, w : Begins(db, e, u) /\ Tame(w) /\ Carry(e, u, w)  BY DEF CallsStep
<1>2. db \in Db /\ Settle(db) /\ Lone(db)  BY DEF Settled0, Settle
<1>3. e \in Db /\ NoNewLapse(db, e) /\ AllOK(e, u)  BY <1>1, <1>2, BeginsGives
<1>4. Sound(C, e, u)  BY <1>1, <1>2, BeginsSound
<1>5. Lone(e)  BY <1>2, <1>3, LoneThen
<1> DEFINE Good == {m \in Machines : Sound(C, m.db, m.todo) /\ Lone(m.db)}
<1>6. Do(e, u) \in Good  BY <1>3, <1>4, <1>5, MachineIs
<1>7. ASSUME NEW m \in Good PROVE Step(m, w) \in Good
  <2>1. m \in Machines /\ Sound(C, m.db, m.todo) /\ Lone(m.db)  OBVIOUS
  <2>2. CASE m.todo = <<>>
    <3>1. Step(m, w) = m  BY <2>1, <2>2, StepStays
    <3>2. QED  BY <3>1
  <2>3. CASE m.todo # <<>>
    <3>1. StepsTo(m, Step(m, w)) /\ Step(m, w) \in Machines  BY <1>1, <2>1, <2>3, StepIs
    <3>2. Sound(C, Step(m, w).db, Step(m, w).todo)  BY <2>1, <2>3, <3>1, SoundThen
    <3>3. NoNewLapse(m.db, Step(m, w).db)  BY <3>1 DEF StepsTo, Gives, Do
    <3>4. Lone(Step(m, w).db)  BY <2>1, <3>3, LoneThen
    <3>5. QED  BY <3>1, <3>2, <3>4
  <2>4. QED  BY <2>2, <2>3
<1> HIDE DEF Good
<1>8. PICK m \in Good : m.todo = <<>> /\ db' = m.db  BY <1>1, <1>6, <1>7, CarryRule
<1>9. m \in Machines /\ Sound(C, m.db, m.todo) /\ Lone(m.db)  BY DEF Good
<1>10. m.db \in Db  BY <1>9 DEF Machines
<1>11. QED  BY <1>8, <1>9, <1>10 DEF Settled0, Settle, Sound

LEMMA SettleStays ==
  ASSUME NEW C, CalmBy(C), ~LapseTogether, Settled0(db), [Next]_vars, ~thrown'
  PROVE  Settled0(db')
<1>1. db \in Db /\ Settle(db) /\ Lone(db)  BY DEF Settled0, Settle
<1>2. CASE Next
  <2>1. CASE CallsStep  BY <2>1, CallsSettle
  <2>2. CASE PlainStep
    <3>1. PICK i \in Instances : \E k \in Slots(db, i) :
            LeaseCase(db, db', i, k) \/ LapseCase(db, db', i, k) \/ ApproveCase(db, db', i, k)
      BY <2>2 DEF PlainStep, PlainCase
    <3>2. Settle(db') /\ Lone(db')  BY <1>1, <3>1, LeaseSound, LapseSound, ApproveSound
    <3>3. QED  BY <3>2 DEF Settled0
  <2>3. QED  BY <1>1, <1>2, <2>1, <2>2, NextSteps
<1>3. CASE UNCHANGED vars  BY <1>3 DEF vars
<1>4. QED  BY <1>2, <1>3

LEMMA SettleInit ==
  ASSUME Init
  PROVE  Settled0(db)
<1>1. db \in Db  BY InitTyped
<1>2. \A i \in Instances :
        /\ db.inst[i] = "absent" /\ db.error[i] = FALSE /\ db.moves[i] = 0
        /\ db.stages[i] = <<>> /\ db.token[i] = <<>>
  BY DEF Init
<1>3. \A i \in Instances : Slots(db, i) = {} /\ Live(db, i) = {}  BY <1>2 DEF Slots, Live
<1>4. AllFit(db)  BY <1>2, <1>3 DEF AllFit, Fits, HeadFits
<1>5. LinksOnce(db)  BY <1>3 DEF LinksOnce, RunningLinks
<1>6. Unmoved(db)  BY <1>2 DEF Unmoved
<1>7. "absent" \notin OpenInst  BY DEF OpenInst
<1>8. AllAtWork(db, <<>>)  BY <1>2, <1>7 DEF AllAtWork, AtWork
<1>9. Lone(db)  BY <1>3 DEF Lone, Lapsed
<1>10. QED  BY <1>1, <1>4, <1>5, <1>6, <1>8, <1>9 DEF Settled0, Settle

LEMMA SettledStops ==
  ASSUME Settled0(db)
  PROVE  StoppedForGood
BY DEF Settled0, Settle, AllFit, Fits, HeadFits, Stopped, StoppedForGood

LEMMA SettledAtWork ==
  ASSUME Settled0(db)
  PROVE  TokensAtWork
<1> SUFFICES ASSUME NEW i \in Instances, db.inst[i] \in OpenInst
             PROVE  /\ {t \in Live(db, i) : db.token[i][t] = "active"}
                         = {db.stages[i][k].token : k \in InStatus(db, i, OpenStage)}
                    /\ \A k, m \in InStatus(db, i, OpenStage) :
                         db.stages[i][k].token = db.stages[i][m].token => k = m
  BY DEF TokensAtWork
<1>1. AllAtWork(db, <<>>)  BY DEF Settled0, Settle
<1>2. Fit(db, i, {}, {})  BY <1>1, OpenFit
<1>3. TokensFit(db, i, {})
  <2>1. {} \cup {} = {}  OBVIOUS
  <2>2. QED  BY <1>2, <2>1 DEF Fit
<1>4. Active(db, i) = Worked(db, i) /\ \A k, m \in OpenStages(db, i) :
        db.stages[i][k].token = db.stages[i][m].token => k = m
  BY <1>3 DEF TokensFit
<1>5. Active(db, i) = {t \in Live(db, i) : db.token[i][t] = "active"}  BY DEF Active, Live, LiveToken
<1>6. QED  BY <1>4, <1>5 DEF Worked, OpenStages

(* Nothing has thrown that has not thrown before.                           *)
LEMMA ThrownStays ==
  ASSUME db \in Db, [Next]_vars, ~thrown'
  PROVE  ~thrown
BY NextSteps DEF vars

(* The inductive invariant.                                                 *)
EngineInv == thrown \/ Settled0(db)

LEMMA SettledAll ==
  ASSUME Orderly
  PROVE  Spec => []EngineInv
<1>1. Init => EngineInv  BY SettleInit DEF EngineInv
<1>2. db \in Db /\ EngineInv /\ [Next]_vars => EngineInv'
  BY SettleStays, ThrownStays DEF Orderly, EngineInv
<1>3. QED  BY <1>1, <1>2, TypedAll, PTL DEF Spec

(* What was stopped stays stopped, whatever the graph, as long as it is     *)
(* orderly and no error has left a handler half-way: neither the rest of    *)
(* the handler that stopped an instance (triggerProcessFailure, then the    *)
(* calls that were still to come) nor any later report, signal, approval or *)
(* child opens it again.                                                    *)
THEOREM EngineStops ==
  ASSUME Orderly
  PROVE  Spec => [](~thrown => StoppedForGood)
<1>1. EngineInv => (~thrown => StoppedForGood)  BY SettledStops DEF EngineInv
<1>2. QED  BY <1>1, SettledAll, PTL

(* No branch is lost and none is carried out twice: between two handlers    *)
(* every active token of an open instance stands at exactly one open stage, *)
(* and every open stage has its active token, across forks, joins, loops,   *)
(* subprocesses, retries, failures and revocations.                         *)
THEOREM EngineTokens ==
  ASSUME Orderly
  PROVE  Spec => [](~thrown => TokensAtWork)
<1>1. EngineInv => (~thrown => TokensAtWork)  BY SettledAtWork DEF EngineInv
<1>2. QED  BY <1>1, SettledAll, PTL

(***************************************************************************)
(* Part three: what becomes of the confirmed effects.  Every HTTP call     *)
(* that has a compensation keeps a row that says where it stands, and      *)
(* every compensation is for one such row.                                 *)
(***************************************************************************)
EffectRows == {"armed", "queued", "skipped"}
UndoRows   == {"queued", "completed", "failed"}
HttpFits(st, at) ==
  /\ st.row \in {"none", "armed", "queued", "skipped", "completed", "failed", "cancelled"}
  /\ st.row # "none" <=> (st.node \in Compensated /\ st.status = "completed")
  /\ st.row = "armed" => at \in OpenInst \cup {"compensating"}
  /\ st.row = "queued" => at = "compensating"
  /\ st.row = "skipped" => at = "completed"
  /\ st.row \in {"completed", "failed"} => at \in Stopped
UndoFits(d, i, st) ==
  /\ st.row = "none" /\ st.node \in Compensated
  /\ st.of \in Slots(d, i) /\ d.stages[i][st.of].kind = "http"
  /\ \/ d.stages[i][st.of].row \in UndoRows
     \/ d.stages[i][st.of].row = "cancelled" /\ d.inst[i] = "cancelled"
  /\ d.stages[i][st.of].row = "queued" <=> st.status \in OpenStage
EffectFits(d, i, st) ==
  /\ st.kind = "http" => HttpFits(st, d.inst[i])
  /\ st.kind = "compensation" => UndoFits(d, i, st)
  /\ st.kind \notin {"http", "compensation"} => st.row \notin EffectRows /\ st.node \notin Compensated
Undoings(d, i) == {m \in Slots(d, i) : d.stages[i][m].kind = "compensation"}
Queued(d, i)   == {k \in Slots(d, i) : d.stages[i][k].row = "queued"}
(* Every row that has been queued has its compensation, and only one.       *)
UndoneOnce(d, i) ==
  /\ \A k \in Slots(d, i) : d.stages[i][k].kind = "http" /\ d.stages[i][k].row \in UndoRows =>
       \E m \in Undoings(d, i) : d.stages[i][m].of = k
  /\ \A m, l \in Undoings(d, i) : d.stages[i][m].of = d.stages[i][l].of => m = l
(* While i compensates one row is queued, the latest of those left, unless  *)
(* the next one is about to be: `un`.                                       *)
Unwinds(d, i, un) ==
  /\ d.ending[i] \in {"failed", "cancelled"}
  /\ Queued(d, i) = {} <=> un
  /\ \A k \in Queued(d, i), j \in Queued(d, i) \cup Armed(d, i) : j <= k
EffectsFit(d, i, un) ==
  /\ \A k \in Slots(d, i) : EffectFits(d, i, d.stages[i][k])
  /\ UndoneOnce(d, i)
  /\ d.inst[i] = "compensating" => Unwinds(d, i, un)
  /\ d.inst[i] \notin OpenInst => d.run[i] = d.inst[i]

(* A stage as far as its effect goes.                                       *)
SameEffect(d, e, i, k) ==
  /\ Kept(d, e, i, k)
  /\ d.stages[i][k].kind \in {"http", "compensation"} => e.stages[i][k].row = d.stages[i][k].row
  /\ d.stages[i][k].kind = "http" =>
       (e.stages[i][k].status = "completed" <=> d.stages[i][k].status = "completed")
  /\ d.stages[i][k].kind = "compensation" =>
       (e.stages[i][k].status \in OpenStage <=> d.stages[i][k].status \in OpenStage)
  /\ e.stages[i][k].row \in EffectRows => d.stages[i][k].row \in EffectRows
NoEffect(st) ==
  /\ st.kind # "compensation" /\ st.row \notin EffectRows
  /\ st.node \in Compensated => st.kind = "http"
  /\ st.kind = "http" => st.row = "none" /\ st.status # "completed"
HeadLike(d, e, i) ==
  /\ \/ e.inst[i] = d.inst[i] /\ (e.run[i] = d.run[i] \/ e.run[i] = e.inst[i] \/ d.inst[i] \in OpenInst)
     \/ d.inst[i] \in OpenInst /\ e.inst[i] \in OpenInst
  /\ e.ending[i] = d.ending[i]
(* The effects of i are as they were.                                       *)
SameEffects(d, e, i) ==
  /\ Slots(d, i) \subseteq Slots(e, i)
  /\ \A k \in Slots(d, i) : SameEffect(d, e, i, k)
  /\ \A k \in Slots(e, i) \ Slots(d, i) : NoEffect(e.stages[i][k])
  /\ HeadLike(d, e, i)

LEMMA SameFits ==
  ASSUME NEW d, NEW e, NEW i, SameEffects(d, e, i), NEW k \in Slots(d, i),
         \A m \in Slots(d, i) : EffectFits(d, i, d.stages[i][m])
  PROVE  EffectFits(e, i, e.stages[i][k])
<1> DEFINE st == d.stages[i][k]  nt == e.stages[i][k]
<1>1. SameEffect(d, e, i, k) /\ HeadLike(d, e, i) /\ Slots(d, i) \subseteq Slots(e, i)  BY DEF SameEffects
<1>2. EffectFits(d, i, st)  OBVIOUS
<1>3. st.kind = nt.kind /\ st.node = nt.node /\ st.of = nt.of  BY <1>1 DEF SameEffect, Kept
<1>4. ASSUME st.kind = "http" PROVE HttpFits(nt, e.inst[i])
  <2>1. HttpFits(st, d.inst[i])  BY <1>2, <1>4 DEF EffectFits
  <2>2. nt.row = st.row /\ (nt.status = "completed" <=> st.status = "completed")  BY <1>1, <1>4 DEF SameEffect
  <2>3. e.inst[i] = d.inst[i] \/ (d.inst[i] \in OpenInst /\ e.inst[i] \in OpenInst)  BY <1>1 DEF HeadLike
  <2>4. OpenInst \cap Stopped = {} /\ "compensating" \notin OpenInst /\ "completed" \notin OpenInst
    BY DEF OpenInst, Stopped
  <2> HIDE DEF st, nt
  <2>5. CASE e.inst[i] = d.inst[i]  BY <1>3, <2>1, <2>2, <2>5 DEF HttpFits
  <2>6. CASE d.inst[i] \in OpenInst /\ e.inst[i] \in OpenInst
    BY <1>3, <2>1, <2>2, <2>4, <2>6 DEF HttpFits
  <2>7. QED  BY <2>3, <2>5, <2>6
<1>5. ASSUME st.kind = "compensation" PROVE UndoFits(e, i, nt)
  <2>1. UndoFits(d, i, st)  BY <1>2, <1>5 DEF EffectFits
  <2>2. nt.row = st.row /\ (nt.status \in OpenStage <=> st.status \in OpenStage)  BY <1>1, <1>5 DEF SameEffect
  <2>3. st.of \in Slots(d, i) /\ d.stages[i][st.of].kind = "http"  BY <2>1 DEF UndoFits
  <2>4. SameEffect(d, e, i, st.of)  BY <2>3 DEF SameEffects
  <2>5. e.stages[i][st.of].kind = "http" /\ e.stages[i][st.of].row = d.stages[i][st.of].row
    BY <2>3, <2>4 DEF SameEffect, Kept
  <2>6. d.inst[i] = "cancelled" => e.inst[i] = "cancelled"
    <3>1. "cancelled" \notin OpenInst  BY DEF OpenInst
    <3>2. QED  BY <1>1, <3>1 DEF HeadLike
  <2> HIDE DEF st, nt
  <2>7. QED  BY <1>1, <1>3, <2>1, <2>2, <2>3, <2>5, <2>6 DEF UndoFits
<1>6. ASSUME st.kind \notin {"http", "compensation"} PROVE nt.row \notin EffectRows /\ nt.node \notin Compensated
  BY <1>1, <1>2, <1>3, <1>6 DEF EffectFits, SameEffect
<1>7. QED  BY <1>3, <1>4, <1>5, <1>6 DEF EffectFits

LEMMA NoEffectFits ==
  ASSUME NEW d, NEW i, NEW st, NoEffect(st)
  PROVE  EffectFits(d, i, st)
<1>1. ASSUME st.kind = "http" PROVE HttpFits(st, d.inst[i])  BY <1>1 DEF NoEffect, HttpFits
<1>2. ASSUME st.kind # "http" PROVE st.node \notin Compensated  BY <1>2 DEF NoEffect
<1>3. QED  BY <1>1, <1>2 DEF EffectFits, NoEffect

LEMMA SameUndone ==
  ASSUME NEW d, NEW e, NEW i, SameEffects(d, e, i), UndoneOnce(d, i)
  PROVE  UndoneOnce(e, i) /\ Undoings(e, i) = Undoings(d, i)
<1>1. \A k \in Slots(d, i) : SameEffect(d, e, i, k) /\ k \in Slots(e, i)  BY DEF SameEffects
<1>2. \A k \in Slots(e, i) \ Slots(d, i) : NoEffect(e.stages[i][k])  BY DEF SameEffects
<1>3. Undoings(e, i) = Undoings(d, i)
  <2>1. \A k \in Slots(d, i) : e.stages[i][k].kind = d.stages[i][k].kind  BY <1>1 DEF SameEffect, Kept
  <2>2. \A k \in Slots(e, i) \ Slots(d, i) : e.stages[i][k].kind # "compensation"  BY <1>2 DEF NoEffect
  <2>3. QED  BY <1>1, <2>1, <2>2 DEF Undoings
<1>4. \A m \in Undoings(d, i) : m \in Slots(d, i) /\ e.stages[i][m].of = d.stages[i][m].of
  BY <1>1 DEF SameEffect, Kept, Undoings
<1>5. ASSUME NEW k \in Slots(e, i), e.stages[i][k].kind = "http", e.stages[i][k].row \in UndoRows
      PROVE  \E m \in Undoings(e, i) : e.stages[i][m].of = k
  <2>1. k \in Slots(d, i)
    <3>1. ASSUME k \notin Slots(d, i) PROVE FALSE
      <4>1. e.stages[i][k].row = "none"  BY <1>2, <1>5, <3>1 DEF NoEffect
      <4>2. QED  BY <1>5, <4>1 DEF UndoRows
    <3>2. QED  BY <3>1
  <2>2. SameEffect(d, e, i, k)  BY <1>1, <2>1
  <2>3. d.stages[i][k].kind = "http" /\ d.stages[i][k].row \in UndoRows
    BY <1>5, <2>2 DEF SameEffect, Kept
  <2>4. PICK m \in Undoings(d, i) : d.stages[i][m].of = k  BY <2>1, <2>3 DEF UndoneOnce
  <2>5. QED  BY <1>3, <1>4, <2>4
<1>6. \A m, l \in Undoings(e, i) : e.stages[i][m].of = e.stages[i][l].of => m = l
  BY <1>3, <1>4 DEF UndoneOnce
<1>7. QED  BY <1>3, <1>5, <1>6 DEF UndoneOnce

(* The rows that are armed or queued are those of HTTP calls.               *)
LEMMA RowsOf ==
  ASSUME NEW d, NEW i, \A k \in Slots(d, i) : EffectFits(d, i, d.stages[i][k])
  PROVE  \A k \in Slots(d, i) : d.stages[i][k].row \in EffectRows => d.stages[i][k].kind = "http"
<1> SUFFICES ASSUME NEW k \in Slots(d, i), d.stages[i][k].row \in EffectRows, d.stages[i][k].kind # "http"
             PROVE  FALSE
  OBVIOUS
<1>1. EffectFits(d, i, d.stages[i][k])  OBVIOUS
<1>2. "none" \notin EffectRows  BY DEF EffectRows
<1>3. QED  BY <1>1, <1>2 DEF EffectFits, UndoFits

LEMMA SameRows ==
  ASSUME NEW d, NEW e, NEW i, SameEffects(d, e, i), \A k \in Slots(d, i) : EffectFits(d, i, d.stages[i][k])
  PROVE  Queued(e, i) = Queued(d, i) /\ Armed(e, i) = Armed(d, i)
<1>1. \A k \in Slots(d, i) : d.stages[i][k].row \in EffectRows => d.stages[i][k].kind = "http"  BY RowsOf
<1>2. "queued" \in EffectRows /\ "armed" \in EffectRows  BY DEF EffectRows
<1>3. \A k \in Slots(d, i) : k \in Slots(e, i) /\ SameEffect(d, e, i, k)  BY DEF SameEffects
<1>4. \A k \in Slots(d, i) : d.stages[i][k].row \in EffectRows \/ e.stages[i][k].row \in EffectRows
        => e.stages[i][k].row = d.stages[i][k].row
  BY <1>1, <1>3 DEF SameEffect
<1>5. \A k \in Slots(e, i) \ Slots(d, i) : e.stages[i][k].row \notin EffectRows  BY DEF SameEffects, NoEffect
<1>6. QED  BY <1>2, <1>3, <1>4, <1>5 DEF Queued, Armed

LEMMA FrameEffects ==
  ASSUME NEW d, NEW e, NEW i, SameEffects(d, e, i), NEW un, EffectsFit(d, i, un)
  PROVE  EffectsFit(e, i, un)
<1>1. \A k \in Slots(d, i) : EffectFits(d, i, d.stages[i][k])  BY DEF EffectsFit
<1>2. \A k \in Slots(e, i) : EffectFits(e, i, e.stages[i][k])
  <2>1. \A k \in Slots(d, i) : EffectFits(e, i, e.stages[i][k])  BY <1>1, SameFits
  <2>2. \A k \in Slots(e, i) \ Slots(d, i) : EffectFits(e, i, e.stages[i][k])
    BY NoEffectFits DEF SameEffects
  <2>3. QED  BY <2>1, <2>2
<1>3. UndoneOnce(e, i)  BY SameUndone DEF EffectsFit
<1>4. ASSUME e.inst[i] = "compensating" PROVE Unwinds(e, i, un)
  <2>1. "compensating" \notin OpenInst  BY DEF OpenInst
  <2>2. d.inst[i] = "compensating" /\ e.ending[i] = d.ending[i]  BY <1>4, <2>1 DEF SameEffects, HeadLike
  <2>3. Unwinds(d, i, un)  BY <2>2 DEF EffectsFit
  <2>4. Queued(e, i) = Queued(d, i) /\ Armed(e, i) = Armed(d, i)  BY <1>1, SameRows
  <2>5. QED  BY <2>2, <2>3, <2>4 DEF Unwinds
<1>5. ASSUME e.inst[i] \notin OpenInst PROVE e.run[i] = e.inst[i]
  BY <1>5 DEF SameEffects, HeadLike, EffectsFit
<1>6. QED  BY <1>2, <1>3, <1>4, <1>5 DEF EffectsFit

(***************************************************************************)
(* Steps that leave the effects of an instance as they were.               *)
(***************************************************************************)
LEMMA SameSame ==
  ASSUME NEW d, NEW e, NEW i, Slots(e, i) = Slots(d, i), e.stages[i] = d.stages[i], HeadLike(d, e, i)
  PROVE  SameEffects(d, e, i)
BY DEF SameEffects, SameEffect, Kept

LEMMA SameKeepsEffects ==
  ASSUME NEW d, NEW e, NEW i, Same(d, e, i)
  PROVE  SameEffects(d, e, i)
<1>1. e.stages[i] = d.stages[i] /\ Slots(e, i) = Slots(d, i)  BY DEF Same, Slots
<1>2. HeadLike(d, e, i)  BY DEF Same, HeadLike
<1>3. QED  BY <1>1, <1>2, SameSame

(* One stage is changed.                                                    *)
LEMMA PutEffects ==
  ASSUME NEW d, NEW e, NEW i, NEW k \in Slots(d, i), Slots(e, i) = Slots(d, i),
         \A m \in Slots(d, i) : m # k => e.stages[i][m] = d.stages[i][m],
         SameEffect(d, e, i, k), HeadLike(d, e, i)
  PROVE  SameEffects(d, e, i)
<1>1. \A m \in Slots(d, i) : m # k => SameEffect(d, e, i, m)  BY DEF SameEffect, Kept
<1>2. QED  BY <1>1 DEF SameEffects

LEMMA AddEffects ==
  ASSUME NEW d, NEW e, NEW i, NEW st, Added(d, e, i, st), NoEffect(st), d.inst[i] \in OpenInst, e.inst[i] \in OpenInst
  PROVE  SameEffects(d, e, i)
<1>1. /\ Slots(e, i) = Slots(d, i) \cup {NextSlot(d, i)} /\ e.ending[i] = d.ending[i]
      /\ \A m \in Slots(d, i) : e.stages[i][m] = d.stages[i][m]
      /\ e.stages[i][NextSlot(d, i)] = st
  BY DEF Added
<1>2. HeadLike(d, e, i)  BY <1>1 DEF HeadLike
<1>3. \A m \in Slots(d, i) : SameEffect(d, e, i, m)  BY <1>1 DEF SameEffect, Kept
<1>4. \A m \in Slots(e, i) \ Slots(d, i) : NoEffect(e.stages[i][m])  BY <1>1
<1>5. QED  BY <1>1, <1>2, <1>3, <1>4 DEF SameEffects

LEMMA RetokenEffects ==
  ASSUME NEW d, NEW e, NEW i, Retokens(d, e, i)
  PROVE  SameEffects(d, e, i)
<1>1. e.stages[i] = d.stages[i] /\ Slots(e, i) = Slots(d, i)  BY DEF Retokens, Slots
<1>2. HeadLike(d, e, i)  BY DEF Retokens, HeadLike
<1>3. QED  BY <1>1, <1>2, SameSame

LEMMA SyncEffects ==
  ASSUME NEW d \in Db, NEW e, NEW i \in Instances, Fits(d, i), Synced(d, e, i)
  PROVE  SameEffects(d, e, i)
<1>1. /\ e.stages[i] = d.stages[i] /\ Slots(e, i) = Slots(d, i) /\ e.ending[i] = d.ending[i]
      /\ e.token[i] = d.token[i]
  BY DEF Synced, Slots
<1>2. d.inst[i] \in InstStatus  BY DEF Db
<1>3. CASE d.inst[i] \in Ended \cup {"compensating"}
  <2>1. Same(d, e, i)  BY <1>3 DEF Synced
  <2>2. QED  BY <2>1, SameKeepsEffects
<1>4. CASE d.inst[i] \in OpenInst
  <2>1. e.inst[i] \in OpenInst  BY <1>4 DEF Synced
  <2>2. HeadLike(d, e, i)  BY <1>1, <1>4, <2>1 DEF HeadLike
  <2>3. QED  BY <1>1, <2>2, SameSame
<1>5. CASE d.inst[i] = "absent"
  <2>1. d.stages[i] = <<>> /\ d.token[i] = <<>>  BY <1>5 DEF Fits, HeadFits
  <2>2. InStatus(d, i, OpenStage) = {} /\ Live(d, i) = {}  BY <2>1 DEF InStatus, Slots, Live
  <2>3. e.inst[i] = d.inst[i]  BY <2>2 DEF Synced
  <2>4. d.inst[i] \notin Ended \cup {"compensating"}  BY <1>5 DEF Ended
  <2>5. e.run[i] = e.inst[i]  BY <2>4 DEF Synced
  <2>6. HeadLike(d, e, i)  BY <1>1, <2>3, <2>5 DEF HeadLike
  <2>7. QED  BY <1>1, <2>6, SameSame
<1>6. QED  BY <1>2, <1>3, <1>4, <1>5 DEF InstStatus

LEMMA SameEffectsTwice ==
  ASSUME NEW d, NEW b, NEW e, NEW i, SameEffects(d, b, i), SameEffects(b, e, i), NEW un, EffectsFit(d, i, un)
  PROVE  EffectsFit(e, i, un)
<1>1. EffectsFit(b, i, un)  BY FrameEffects
<1>2. QED  BY <1>1, FrameEffects

(* The stages that a row `waiting` or `running` belongs to.                 *)
LEMMA WaitingRow ==
  ASSUME NEW d \in Db, NEW i \in Instances, NEW k \in Slots(d, i), d.stages[i][k].row = "waiting"
  PROVE  d.stages[i][k].kind = "signal"
<1>1. d.stages[i][k] \in StageSet  BY SlotsAre
<1>2. QED  BY <1>1 DEF StageSet, StageOK

LEMMA QuiesceEffects ==
  ASSUME NEW d \in Db, NEW e, NEW i \in Instances, Quiesced(d, e, i)
  PROVE  SameEffects(d, e, i)
<1>1. Slots(e, i) = Slots(d, i)  BY DEF Quiesced
<1>2. HeadLike(d, e, i)  BY DEF Quiesced, HeadLike
<1>3. ASSUME NEW m \in Slots(d, i) PROVE SameEffect(d, e, i, m)
  <2>1. /\ Kept(d, e, i, m) /\ e.stages[i][m].status = d.stages[i][m].status
        /\ e.stages[i][m].row = IF d.stages[i][m].row = "waiting" THEN "cancelled" ELSE d.stages[i][m].row
    BY <1>3 DEF Quiesced
  <2>2. d.stages[i][m].row = "waiting" => d.stages[i][m].kind = "signal"  BY WaitingRow
  <2>3. QED  BY <2>1, <2>2 DEF SameEffect, EffectRows
<1>4. QED  BY <1>1, <1>2, <1>3 DEF SameEffects

(* The row of a stage that makes no call, and perhaps its status, is set.   *)
LEMMA RowEffects ==
  ASSUME NEW d, NEW e, NEW i, NEW k \in Slots(d, i), Slots(e, i) = Slots(d, i),
         \A m \in Slots(d, i) : m # k => e.stages[i][m] = d.stages[i][m],
         Kept(d, e, i, k), d.stages[i][k].kind \notin {"http", "compensation"},
         e.stages[i][k].row \notin EffectRows, HeadLike(d, e, i)
  PROVE  SameEffects(d, e, i)
<1>1. SameEffect(d, e, i, k)  BY DEF SameEffect
<1>2. QED  BY <1>1, PutEffects

LEMMA RowSetEffects ==
  ASSUME NEW d, NEW e, NEW i, NEW k \in Slots(d, i), NEW s, RowSet(d, e, i, k, s),
         d.stages[i][k].kind \notin {"http", "compensation"}, s \notin EffectRows
  PROVE  SameEffects(d, e, i)
<1>1. /\ Slots(e, i) = Slots(d, i) /\ e.inst[i] = d.inst[i] /\ e.run[i] = d.run[i] /\ e.ending[i] = d.ending[i]
      /\ \A m \in Slots(d, i) : m # k => e.stages[i][m] = d.stages[i][m]
      /\ Kept(d, e, i, k) /\ e.stages[i][k].row = s
  BY DEF RowSet, Restages
<1>2. HeadLike(d, e, i)  BY <1>1 DEF HeadLike
<1>3. QED  BY <1>1, <1>2, RowEffects

LEMMA SettledEffects ==
  ASSUME NEW d, NEW e, NEW i, NEW k \in Slots(d, i), NEW r, NEW s, Settled(d, e, i, k, r, s),
         d.stages[i][k].kind \notin {"http", "compensation"}, r \notin EffectRows
  PROVE  SameEffects(d, e, i)
<1>1. /\ Slots(e, i) = Slots(d, i) /\ e.inst[i] = d.inst[i] /\ e.run[i] = d.run[i] /\ e.ending[i] = d.ending[i]
      /\ \A m \in Slots(d, i) : m # k => e.stages[i][m] = d.stages[i][m]
      /\ Kept(d, e, i, k) /\ e.stages[i][k].row = r
  BY DEF Settled, Restages
<1>2. HeadLike(d, e, i)  BY <1>1 DEF HeadLike
<1>3. QED  BY <1>1, <1>2, RowEffects

(***************************************************************************)
(* The effects of an open instance.                                        *)
(***************************************************************************)
OpenRow(st) ==
  /\ st.kind # "compensation"
  /\ st.kind = "http" =>
       /\ st.row \in {"none", "armed", "cancelled"}
       /\ st.row # "none" <=> (st.node \in Compensated /\ st.status = "completed")
  /\ st.kind # "http" => st.row \notin EffectRows /\ st.node \notin Compensated
OpenRows(d, i) == \A k \in Slots(d, i) : OpenRow(d.stages[i][k])

LEMMA OpenNot ==
  "compensating" \notin OpenInst /\ "completed" \notin OpenInst /\ OpenInst \cap Stopped = {}
BY DEF OpenInst, Stopped

LEMMA OpenEffects ==
  ASSUME NEW d, NEW i, NEW un, EffectsFit(d, i, un), d.inst[i] \in OpenInst
  PROVE  OpenRows(d, i)
<1> DEFINE at == d.inst[i]
<1>1. at # "compensating" /\ at # "completed" /\ at \notin Stopped  BY OpenNot
<1>2. ASSUME NEW k \in Slots(d, i), d.stages[i][k].kind = "http"
      PROVE  HttpFits(d.stages[i][k], at) /\ d.stages[i][k].row \in {"none", "armed", "cancelled"}
  <2>1. HttpFits(d.stages[i][k], at)  BY <1>2 DEF EffectsFit, EffectFits
  <2> HIDE DEF at
  <2>2. QED  BY <1>1, <2>1 DEF HttpFits
<1>3. ASSUME NEW k \in Slots(d, i), d.stages[i][k].kind = "compensation" PROVE FALSE
  <2>1. UndoFits(d, i, d.stages[i][k])  BY <1>3 DEF EffectsFit, EffectFits
  <2> DEFINE l == d.stages[i][k].of
  <2>2. /\ l \in Slots(d, i) /\ d.stages[i][l].kind = "http"
        /\ d.stages[i][l].row \in UndoRows \/ at = "cancelled"
    BY <2>1 DEF UndoFits
  <2>3. d.stages[i][l].row \in {"none", "armed", "cancelled"}  BY <1>2, <2>2
  <2>4. at # "cancelled"  BY DEF OpenInst
  <2>5. QED  BY <2>2, <2>3, <2>4 DEF UndoRows
<1>4. ASSUME NEW k \in Slots(d, i) PROVE OpenRow(d.stages[i][k])
  <2>1. EffectFits(d, i, d.stages[i][k])  BY DEF EffectsFit
  <2>2. d.stages[i][k].kind # "compensation"  BY <1>3
  <2>3. ASSUME d.stages[i][k].kind = "http"
        PROVE  HttpFits(d.stages[i][k], at) /\ d.stages[i][k].row \in {"none", "armed", "cancelled"}
    BY <1>2, <2>3
  <2>4. ASSUME d.stages[i][k].kind # "http"
        PROVE  d.stages[i][k].row \notin EffectRows /\ d.stages[i][k].node \notin Compensated
    BY <2>1, <2>2, <2>4 DEF EffectFits
  <2>5. QED  BY <2>2, <2>3, <2>4 DEF OpenRow, HttpFits
<1>5. QED  BY <1>4 DEF OpenRows

LEMMA OpenRowFits ==
  ASSUME NEW d, NEW i, NEW st, OpenRow(st), d.inst[i] \in OpenInst
  PROVE  EffectFits(d, i, st)
<1>1. ASSUME st.kind = "http" PROVE HttpFits(st, d.inst[i])  BY <1>1 DEF OpenRow, HttpFits
<1>2. QED  BY <1>1 DEF EffectFits, OpenRow

LEMMA OpenFitsBack ==
  ASSUME NEW d, NEW i, NEW un, OpenRows(d, i), d.inst[i] \in OpenInst
  PROVE  EffectsFit(d, i, un)
<1>1. \A k \in Slots(d, i) : OpenRow(d.stages[i][k])  BY DEF OpenRows
<1>2. \A k \in Slots(d, i) : EffectFits(d, i, d.stages[i][k])  BY <1>1, OpenRowFits
<1>3. Undoings(d, i) = {}  BY <1>1 DEF Undoings, OpenRow
<1>4. \A k \in Slots(d, i) : d.stages[i][k].kind = "http" => d.stages[i][k].row \notin UndoRows
  BY <1>1 DEF OpenRow, UndoRows
<1>5. UndoneOnce(d, i)  BY <1>3, <1>4 DEF UndoneOnce
<1>6. d.inst[i] # "compensating"  BY OpenNot
<1>7. QED  BY <1>2, <1>5, <1>6 DEF EffectsFit

(* An instance that has just been started.                                  *)
LEMMA BornEffects ==
  ASSUME NEW e, NEW i, NEW un, e.stages[i] = <<>>, e.inst[i] \in OpenInst
  PROVE  EffectsFit(e, i, un)
<1>1. OpenRows(e, i)  BY DEF OpenRows, Slots
<1>2. QED  BY <1>1, OpenFitsBack

(***************************************************************************)
(* Steps that end an instance, or undo one of its effects.                 *)
(***************************************************************************)
LEMMA CompleteEffects ==
  ASSUME NEW d, NEW e, NEW i, NEW un, NEW vn, EffectsFit(d, i, un), d.inst[i] \in OpenInst, Completes(d, e, i)
  PROVE  EffectsFit(e, i, vn)
<1>1. OpenRows(d, i)  BY OpenEffects
<1>2. /\ StandsAt(e, i, "completed") /\ Slots(e, i) = Slots(d, i)
      /\ \A m \in Slots(d, i) :
           /\ Kept(d, e, i, m) /\ e.stages[i][m].status = d.stages[i][m].status
           /\ e.stages[i][m].row = IF d.stages[i][m].row = "armed" THEN "skipped" ELSE d.stages[i][m].row
  BY DEF Completes
<1>3. e.inst[i] = "completed" /\ e.run[i] = "completed"  BY <1>2 DEF StandsAt
<1>4. ASSUME NEW k \in Slots(e, i)
      PROVE  /\ EffectFits(e, i, e.stages[i][k]) /\ e.stages[i][k].kind # "compensation"
             /\ e.stages[i][k].kind = "http" => e.stages[i][k].row \notin UndoRows
  <2> DEFINE st == d.stages[i][k]  nt == e.stages[i][k]
  <2>1. OpenRow(st)  BY <1>1, <1>2 DEF OpenRows
  <2>2. /\ nt.kind = st.kind /\ nt.node = st.node /\ nt.status = st.status
        /\ nt.row = IF st.row = "armed" THEN "skipped" ELSE st.row
    BY <1>2 DEF Kept
  <2> HIDE DEF st, nt
  <2>3. ASSUME nt.kind = "http" PROVE nt.row \in {"none", "skipped", "cancelled"} /\ HttpFits(nt, "completed")
    BY <2>1, <2>2, <2>3 DEF OpenRow, HttpFits
  <2>4. nt.kind # "compensation"  BY <2>1, <2>2 DEF OpenRow
  <2>5. ASSUME nt.kind # "http" PROVE nt.row \notin EffectRows /\ nt.node \notin Compensated
    BY <2>1, <2>2, <2>5 DEF OpenRow, EffectRows
  <2>6. EffectFits(e, i, nt)  BY <1>3, <2>3, <2>4, <2>5 DEF EffectFits
  <2>7. nt.kind = "http" => nt.row \notin UndoRows  BY <2>3 DEF UndoRows
  <2>8. QED  BY <2>4, <2>6, <2>7 DEF nt
<1>5. Undoings(e, i) = {}  BY <1>4 DEF Undoings
<1>6. UndoneOnce(e, i)  BY <1>4, <1>5 DEF UndoneOnce
<1>7. QED  BY <1>3, <1>4, <1>6 DEF EffectsFit

(* An open instance is stopped.                                             *)
LEMMA StopEffects ==
  ASSUME NEW d, NEW e, NEW i, NEW un, EffectsFit(d, i, un), d.inst[i] \in OpenInst,
         NEW at, NEW closed, closed # "completed", Finishes(d, e, i, at, closed),
         \/ at = "compensating" /\ e.ending[i] \in {"failed", "cancelled"}
         \/ at \in {"failed", "cancelled"} /\ Armed(d, i) = {}
  PROVE  EffectsFit(e, i, TRUE)
<1>1. OpenRows(d, i)  BY OpenEffects
<1>2. /\ StandsAt(e, i, at) /\ Slots(e, i) = Slots(d, i)
      /\ \A m \in Slots(d, i) :
           /\ Kept(d, e, i, m) /\ e.stages[i][m].row = d.stages[i][m].row
           /\ e.stages[i][m].status =
                IF d.stages[i][m].status \in OpenStage THEN closed ELSE d.stages[i][m].status
  BY DEF Finishes
<1>3. e.inst[i] = at /\ e.run[i] = at  BY <1>2 DEF StandsAt
<1>4. "completed" \notin OpenStage  BY DEF OpenStage
<1>5. ASSUME NEW k \in Slots(e, i)
      PROVE  /\ EffectFits(e, i, e.stages[i][k]) /\ e.stages[i][k].kind # "compensation"
             /\ e.stages[i][k].kind = "http" => e.stages[i][k].row \notin UndoRows
             /\ e.stages[i][k].row # "queued"
  <2> DEFINE st == d.stages[i][k]  nt == e.stages[i][k]
  <2>1. OpenRow(st)  BY <1>1, <1>2 DEF OpenRows
  <2>2. /\ nt.kind = st.kind /\ nt.node = st.node /\ nt.row = st.row
        /\ (nt.status = "completed" <=> st.status = "completed")
    BY <1>2, <1>4 DEF Kept
  <2>3. st.row = "armed" => at = "compensating"  BY <1>2 DEF Armed
  <2> HIDE DEF st, nt
  <2>4. ASSUME nt.kind = "http" PROVE nt.row \in {"none", "armed", "cancelled"} /\ HttpFits(nt, at)
    BY <2>1, <2>2, <2>3, <2>4 DEF OpenRow, HttpFits
  <2>5. nt.kind # "compensation"  BY <2>1, <2>2 DEF OpenRow
  <2>6. ASSUME nt.kind # "http" PROVE nt.row \notin EffectRows /\ nt.node \notin Compensated
    BY <2>1, <2>2, <2>6 DEF OpenRow
  <2>7. EffectFits(e, i, nt)  BY <1>3, <2>4, <2>5, <2>6 DEF EffectFits
  <2>8. nt.row # "queued"  BY <2>4, <2>6 DEF EffectRows
  <2>9. nt.kind = "http" => nt.row \notin UndoRows  BY <2>4 DEF UndoRows
  <2>10. QED  BY <2>5, <2>7, <2>8, <2>9 DEF nt
<1>6. Undoings(e, i) = {}  BY <1>5 DEF Undoings
<1>7. UndoneOnce(e, i)  BY <1>5, <1>6 DEF UndoneOnce
<1>8. Queued(e, i) = {}  BY <1>5 DEF Queued
<1>9. ASSUME e.inst[i] = "compensating" PROVE Unwinds(e, i, TRUE)
  BY <1>3, <1>8, <1>9 DEF Unwinds
<1>10. QED  BY <1>3, <1>5, <1>7, <1>9 DEF EffectsFit

(* The rows of an instance that has nothing left to compensate.             *)
LEMMA NoneOpen ==
  ASSUME NEW d, NEW i, NEW un, EffectsFit(d, i, un), Queued(d, i) = {}
  PROVE  \A k \in Undoings(d, i) : d.stages[i][k].status \notin OpenStage
<1> SUFFICES ASSUME NEW k \in Undoings(d, i), d.stages[i][k].status \in OpenStage
             PROVE  FALSE
  OBVIOUS
<1> DEFINE l == d.stages[i][k].of
<1>1. UndoFits(d, i, d.stages[i][k])  BY DEF EffectsFit, EffectFits, Undoings
<1>2. l \in Slots(d, i) /\ d.stages[i][l].row = "queued"  BY <1>1 DEF UndoFits
<1>3. QED  BY <1>2 DEF Queued

(* The last compensation has ended.                                         *)
LEMMA EndEffects ==
  ASSUME NEW d, NEW e, NEW i, NEW un, NEW vn, EffectsFit(d, i, un), d.inst[i] = "compensating",
         Queued(d, i) = {}, Armed(d, i) = {},
         NEW at \in {"failed", "cancelled"}, Finishes(d, e, i, at, at)
  PROVE  EffectsFit(e, i, vn)
<1>1. /\ StandsAt(e, i, at) /\ Slots(e, i) = Slots(d, i)
      /\ \A m \in Slots(d, i) :
           /\ Kept(d, e, i, m) /\ e.stages[i][m].row = d.stages[i][m].row
           /\ e.stages[i][m].status =
                IF d.stages[i][m].status \in OpenStage THEN at ELSE d.stages[i][m].status
  BY DEF Finishes
<1>2. e.inst[i] = at /\ e.run[i] = at  BY <1>1 DEF StandsAt
<1>3. at # "completed" /\ at \notin OpenStage /\ "completed" \notin OpenStage  BY DEF OpenStage
<1>4. at \in Stopped /\ at # "compensating"  BY DEF Stopped
<1>5. ASSUME NEW k \in Slots(d, i), d.stages[i][k].kind = "http"
      PROVE  HttpFits(e.stages[i][k], at)
  <2> DEFINE st == d.stages[i][k]  nt == e.stages[i][k]
  <2>1. HttpFits(st, "compensating")  BY <1>5 DEF EffectsFit, EffectFits
  <2>2. /\ nt.kind = st.kind /\ nt.node = st.node /\ nt.row = st.row
        /\ (nt.status = "completed" <=> st.status = "completed")
    BY <1>1, <1>3 DEF Kept
  <2>3. st.row \notin {"armed", "queued"}  BY <1>5 DEF Armed, Queued
  <2> HIDE DEF st, nt
  <2>4. HttpFits(nt, at)  BY <1>4, <2>1, <2>2, <2>3 DEF HttpFits
  <2>5. QED  BY <2>4 DEF nt
<1>6. Undoings(e, i) = Undoings(d, i)  BY <1>1 DEF Undoings, Kept
<1>7. ASSUME NEW k \in Undoings(d, i)
      PROVE  UndoFits(e, i, e.stages[i][k]) /\ e.stages[i][k].of = d.stages[i][k].of
  <2> DEFINE st == d.stages[i][k]  nt == e.stages[i][k]
  <2>1. UndoFits(d, i, st) /\ k \in Slots(d, i)  BY <1>7 DEF EffectsFit, EffectFits, Undoings
  <2>2. st.status \notin OpenStage  BY NoneOpen
  <2>3. nt.row = st.row /\ nt.node = st.node /\ nt.of = st.of /\ nt.status = st.status
    BY <1>1, <2>1, <2>2 DEF Kept
  <2>4. st.of \in Slots(d, i)  BY <2>1 DEF UndoFits
  <2>5. /\ e.stages[i][st.of].kind = d.stages[i][st.of].kind
        /\ e.stages[i][st.of].row = d.stages[i][st.of].row
    BY <1>1, <2>4 DEF Kept
  <2>6. d.stages[i][st.of].row \in UndoRows  BY <2>1 DEF UndoFits
  <2> HIDE DEF st, nt
  <2>7. UndoFits(e, i, nt)  BY <1>1, <2>1, <2>3, <2>5, <2>6 DEF UndoFits
  <2>8. QED  BY <2>3, <2>7 DEF nt, st
<1>8. ASSUME NEW k \in Slots(e, i) PROVE EffectFits(e, i, e.stages[i][k])
  <2>1. EffectFits(d, i, d.stages[i][k]) /\ Kept(d, e, i, k) /\ e.stages[i][k].row = d.stages[i][k].row
    BY <1>1 DEF EffectsFit
  <2>2. ASSUME e.stages[i][k].kind = "http" PROVE HttpFits(e.stages[i][k], e.inst[i])
    BY <1>1, <1>2, <1>5, <2>1, <2>2 DEF Kept
  <2>3. ASSUME e.stages[i][k].kind = "compensation" PROVE UndoFits(e, i, e.stages[i][k])
    BY <1>1, <1>7, <2>1, <2>3 DEF Undoings, Kept
  <2>4. QED  BY <2>1, <2>2, <2>3 DEF EffectFits, Kept
<1>9. UndoneOnce(e, i)
  <2>1. ASSUME NEW k \in Slots(e, i), e.stages[i][k].kind = "http", e.stages[i][k].row \in UndoRows
        PROVE  \E m \in Undoings(e, i) : e.stages[i][m].of = k
    <3>1. d.stages[i][k].kind = "http" /\ d.stages[i][k].row \in UndoRows /\ k \in Slots(d, i)
      BY <1>1, <2>1 DEF Kept
    <3>2. PICK m \in Undoings(d, i) : d.stages[i][m].of = k  BY <3>1 DEF EffectsFit, UndoneOnce
    <3>3. QED  BY <1>6, <1>7, <3>2
  <2>2. \A m, l \in Undoings(e, i) : e.stages[i][m].of = e.stages[i][l].of => m = l
    BY <1>6, <1>7 DEF EffectsFit, UndoneOnce
  <2>3. QED  BY <2>1, <2>2 DEF UndoneOnce
<1>10. QED  BY <1>2, <1>4, <1>8, <1>9 DEF EffectsFit

(* The next compensation joins the queue.                                   *)
LEMMA UndoEffects ==
  ASSUME NEW d \in Db, NEW e, NEW i \in Instances, EffectsFit(d, i, TRUE), d.inst[i] = "compensating",
         NEW k \in Armed(d, i), \A j \in Armed(d, i) : j <= k, Undoes(d, e, i, k)
  PROVE  EffectsFit(e, i, FALSE)
<1> DEFINE L == NextSlot(d, i)
<1>1. /\ e.inst[i] = d.inst[i] /\ e.run[i] = d.run[i] /\ e.ending[i] = d.ending[i]
      /\ L \notin Slots(d, i) /\ Slots(e, i) = Slots(d, i) \cup {L}
      /\ \A m \in Slots(d, i) :
           /\ Kept(d, e, i, m) /\ e.stages[i][m].status = d.stages[i][m].status
           /\ e.stages[i][m].row = IF m = k THEN "queued" ELSE d.stages[i][m].row
      /\ e.stages[i][L].kind = "compensation" /\ e.stages[i][L].status = "queued"
      /\ e.stages[i][L].row = "none" /\ e.stages[i][L].of = k
      /\ e.stages[i][L].node = d.stages[i][k].node
  BY DEF Undoes
<1>2. k \in Slots(d, i) /\ d.stages[i][k].row = "armed"  BY DEF Armed
<1>3. d.stages[i][k].kind = "http"
  <2>1. "armed" \in EffectRows  BY DEF EffectRows
  <2>2. \A m \in Slots(d, i) : EffectFits(d, i, d.stages[i][m])  BY DEF EffectsFit
  <2>3. QED  BY <1>2, <2>1, <2>2, RowsOf
<1>4. HttpFits(d.stages[i][k], "compensating")  BY <1>2, <1>3 DEF EffectsFit, EffectFits
<1>5. d.stages[i][k].node \in Compensated  BY <1>2, <1>4 DEF HttpFits
<1>6. Queued(d, i) = {} /\ d.run[i] = "compensating"
  BY OpenNot DEF EffectsFit, Unwinds
<1>7. Undoings(e, i) = Undoings(d, i) \cup {L}  BY <1>1 DEF Undoings, Kept
<1>8. ASSUME NEW m \in Undoings(d, i)
      PROVE  /\ UndoFits(e, i, e.stages[i][m]) /\ e.stages[i][m].of = d.stages[i][m].of
             /\ e.stages[i][m].of # k
  <2> DEFINE st == d.stages[i][m]  nt == e.stages[i][m]
  <2>1. UndoFits(d, i, st) /\ m \in Slots(d, i) /\ st.kind = "compensation"
    BY <1>8 DEF EffectsFit, EffectFits, Undoings
  <2>2. m # k  BY <1>3, <2>1
  <2>3. nt.row = st.row /\ nt.node = st.node /\ nt.of = st.of /\ nt.status = st.status
    BY <1>1, <2>1, <2>2 DEF Kept
  <2>4. st.of \in Slots(d, i) /\ d.stages[i][st.of].row \in UndoRows  BY <2>1 DEF UndoFits
  <2>5. st.of # k  BY <1>2, <2>4 DEF UndoRows
  <2>6. /\ e.stages[i][st.of].kind = d.stages[i][st.of].kind
        /\ e.stages[i][st.of].row = d.stages[i][st.of].row
        /\ st.of \in Slots(e, i)
    BY <1>1, <2>4, <2>5 DEF Kept
  <2> HIDE DEF st, nt
  <2>7. UndoFits(e, i, nt)  BY <2>1, <2>3, <2>4, <2>6 DEF UndoFits
  <2>8. QED  BY <2>3, <2>5, <2>7 DEF nt, st
<1>9. ASSUME NEW m \in Slots(d, i), d.stages[i][m].kind = "http" PROVE HttpFits(e.stages[i][m], "compensating")
  <2> DEFINE st == d.stages[i][m]  nt == e.stages[i][m]
  <2>1. HttpFits(st, "compensating")  BY <1>9 DEF EffectsFit, EffectFits
  <2>2. nt.node = st.node /\ nt.status = st.status /\ nt.row = IF m = k THEN "queued" ELSE st.row
    BY <1>1 DEF Kept
  <2>3. m = k => st.row = "armed"  BY <1>2
  <2> HIDE DEF st, nt
  <2>4. HttpFits(nt, "compensating")  BY <2>1, <2>2, <2>3 DEF HttpFits
  <2>5. QED  BY <2>4 DEF nt
<1>10. ASSUME NEW m \in Slots(e, i) PROVE EffectFits(e, i, e.stages[i][m])
  <2>1. CASE m = L
    <3>1. e.stages[i][k].kind = "http" /\ e.stages[i][k].row = "queued" /\ k \in Slots(e, i)
      BY <1>1, <1>2, <1>3 DEF Kept
    <3>2. "queued" \in UndoRows /\ "queued" \in OpenStage  BY DEF UndoRows, OpenStage
    <3>3. UndoFits(e, i, e.stages[i][m])  BY <1>1, <1>5, <2>1, <3>1, <3>2 DEF UndoFits
    <3>4. QED  BY <1>1, <2>1, <3>3 DEF EffectFits
  <2>2. CASE m \in Slots(d, i)
    <3>1. EffectFits(d, i, d.stages[i][m]) /\ Kept(d, e, i, m)  BY <1>1, <2>2 DEF EffectsFit
    <3>2. ASSUME e.stages[i][m].kind = "http" PROVE HttpFits(e.stages[i][m], e.inst[i])
      BY <1>1, <1>9, <2>2, <3>1, <3>2 DEF Kept
    <3>3. ASSUME e.stages[i][m].kind = "compensation" PROVE UndoFits(e, i, e.stages[i][m])
      BY <1>8, <2>2, <3>1, <3>3 DEF Undoings, Kept
    <3>4. ASSUME e.stages[i][m].kind \notin {"http", "compensation"}
          PROVE  e.stages[i][m].row \notin EffectRows /\ e.stages[i][m].node \notin Compensated
      <4>1. d.stages[i][m].kind \notin {"http", "compensation"}  BY <3>1, <3>4 DEF Kept
      <4>2. m # k  BY <1>3, <4>1
      <4>3. e.stages[i][m].row = d.stages[i][m].row  BY <1>1, <2>2, <4>2
      <4>4. QED  BY <3>1, <4>1, <4>3 DEF EffectFits, Kept
    <3>5. QED  BY <3>2, <3>3, <3>4 DEF EffectFits
  <2>3. QED  BY <1>1, <2>1, <2>2
<1>11. UndoneOnce(e, i)
  <2>1. ASSUME NEW l \in Slots(e, i), e.stages[i][l].kind = "http", e.stages[i][l].row \in UndoRows
        PROVE  \E m \in Undoings(e, i) : e.stages[i][m].of = l
    <3>1. l \in Slots(d, i) /\ d.stages[i][l].kind = "http"  BY <1>1, <2>1 DEF Kept
    <3>2. CASE l = k  BY <1>1, <1>7, <3>2
    <3>3. CASE l # k
      <4>1. d.stages[i][l].row \in UndoRows  BY <1>1, <2>1, <3>1, <3>3
      <4>2. PICK m \in Undoings(d, i) : d.stages[i][m].of = l  BY <3>1, <4>1 DEF EffectsFit, UndoneOnce
      <4>3. QED  BY <1>7, <1>8, <4>2
    <3>4. QED  BY <3>2, <3>3
  <2>2. ASSUME NEW m \in Undoings(e, i), NEW l \in Undoings(e, i), e.stages[i][m].of = e.stages[i][l].of
        PROVE  m = l
    <3>1. CASE m = L /\ l = L  BY <3>1
    <3>2. CASE m \in Undoings(d, i) /\ l \in Undoings(d, i)
      BY <1>8, <2>2, <3>2 DEF EffectsFit, UndoneOnce
    <3>3. CASE m = L /\ l \in Undoings(d, i)  BY <1>1, <1>8, <2>2, <3>3
    <3>4. CASE l = L /\ m \in Undoings(d, i)  BY <1>1, <1>8, <2>2, <3>4
    <3>5. QED  BY <1>7, <3>1, <3>2, <3>3, <3>4
  <2>3. QED  BY <2>1, <2>2 DEF UndoneOnce
<1>12. Queued(e, i) = {k}
  <2>1. \A m \in Slots(d, i) : m # k => e.stages[i][m].row # "queued"  BY <1>1, <1>6 DEF Queued
  <2>2. e.stages[i][k].row = "queued" /\ e.stages[i][L].row # "queued" /\ k \in Slots(e, i)  BY <1>1, <1>2
  <2>3. QED  BY <1>1, <2>1, <2>2 DEF Queued
<1>13. Armed(e, i) \subseteq Armed(d, i)
  <2>1. \A m \in Slots(d, i) : e.stages[i][m].row = "armed" => d.stages[i][m].row = "armed"  BY <1>1
  <2>2. e.stages[i][L].row # "armed"  BY <1>1
  <2>3. QED  BY <1>1, <2>1, <2>2 DEF Armed
<1>14. Unwinds(e, i, FALSE)
  <2>1. k <= k  BY <1>2, SlotsAre
  <2>2. d.ending[i] \in {"failed", "cancelled"}  BY DEF EffectsFit, Unwinds
  <2>3. QED  BY <1>1, <1>12, <1>13, <2>1, <2>2 DEF Unwinds
<1>15. e.run[i] = e.inst[i]  BY <1>1, <1>6
<1>16. QED  BY <1>10, <1>11, <1>14, <1>15 DEF EffectsFit

(* A compensation ends, one way or the other.                               *)
UndoDone(d, e, i, k, s) ==
  /\ e.inst[i] = "compensating" /\ e.run[i] = "compensating" /\ e.ending[i] = d.ending[i]
  /\ Slots(e, i) = Slots(d, i)
  /\ \A m \in Slots(d, i) :
       /\ Kept(d, e, i, m)
       /\ e.stages[i][m].row = IF m = d.stages[i][k].of THEN s ELSE d.stages[i][m].row
       /\ e.stages[i][m].status = IF m = k THEN s ELSE d.stages[i][m].status

LEMMA OnlyQueued ==
  ASSUME NEW d \in Db, NEW i \in Instances, NEW un, EffectsFit(d, i, un), d.inst[i] = "compensating",
         NEW l \in Queued(d, i)
  PROVE  Queued(d, i) = {l}
<1>1. \A k \in Queued(d, i) : k \in Nat  BY SlotsAre DEF Queued
<1>2. \A k, j \in Queued(d, i) : j <= k  BY DEF EffectsFit, Unwinds
<1>3. \A k \in Queued(d, i) : k <= l /\ l <= k  BY <1>2
<1>4. \A k \in Queued(d, i) : k = l  BY <1>1, <1>3
<1>5. QED  BY <1>4

LEMMA UndoneEffects ==
  ASSUME NEW d \in Db, NEW e, NEW i \in Instances, NEW un, EffectsFit(d, i, un), d.inst[i] = "compensating",
         NEW k \in Undoings(d, i), d.stages[i][k].status \in OpenStage,
         NEW s \in {"completed", "failed"}, UndoDone(d, e, i, k, s)
  PROVE  EffectsFit(e, i, TRUE)
<1> DEFINE l == d.stages[i][k].of
<1>1. /\ e.inst[i] = "compensating" /\ e.run[i] = "compensating" /\ e.ending[i] = d.ending[i]
      /\ Slots(e, i) = Slots(d, i)
      /\ \A m \in Slots(d, i) :
           /\ Kept(d, e, i, m)
           /\ e.stages[i][m].row = IF m = l THEN s ELSE d.stages[i][m].row
           /\ e.stages[i][m].status = IF m = k THEN s ELSE d.stages[i][m].status
  BY DEF UndoDone
<1>2. k \in Slots(d, i) /\ d.stages[i][k].kind = "compensation"  BY DEF Undoings
<1>3. UndoFits(d, i, d.stages[i][k])  BY <1>2 DEF EffectsFit, EffectFits
<1>4. l \in Slots(d, i) /\ d.stages[i][l].kind = "http" /\ d.stages[i][l].row = "queued"  BY <1>3 DEF UndoFits
<1>5. Queued(d, i) = {l}
  <2>1. l \in Queued(d, i)  BY <1>4 DEF Queued
  <2>2. QED  BY <2>1, OnlyQueued
<1>6. s \notin OpenStage /\ s \in UndoRows /\ s # "queued"  BY DEF OpenStage, UndoRows
<1>7. Queued(e, i) = {}
  <2>1. \A m \in Slots(d, i) : m # l => d.stages[i][m].row # "queued"  BY <1>5 DEF Queued
  <2>2. QED  BY <1>1, <1>6, <2>1 DEF Queued
<1>8. Undoings(e, i) = Undoings(d, i)  BY <1>1 DEF Undoings, Kept
<1>9. ASSUME NEW m \in Undoings(d, i)
      PROVE  UndoFits(e, i, e.stages[i][m]) /\ e.stages[i][m].of = d.stages[i][m].of
  <2> DEFINE st == d.stages[i][m]  nt == e.stages[i][m]
  <2>1. UndoFits(d, i, st) /\ m \in Slots(d, i) /\ st.kind = "compensation"
    BY <1>9 DEF EffectsFit, EffectFits, Undoings
  <2>2. m # l  BY <1>4, <2>1
  <2>3. nt.row = st.row /\ nt.node = st.node /\ nt.of = st.of
    BY <1>1, <2>1, <2>2 DEF Kept
  <2>4. st.of \in Slots(d, i) /\ d.stages[i][st.of].kind = "http" /\ d.stages[i][st.of].row \in UndoRows
    BY <2>1 DEF UndoFits
  <2>5. e.stages[i][st.of].kind = "http" /\ st.of \in Slots(e, i)  BY <1>1, <2>4 DEF Kept
  <2>6. CASE m = k
    <3>1. st.of = l /\ nt.status = s  BY <1>1, <2>1, <2>6
    <3>2. e.stages[i][st.of].row = s  BY <1>1, <1>4, <3>1
    <3> HIDE DEF st, nt
    <3>3. UndoFits(e, i, nt)  BY <1>6, <2>1, <2>3, <2>5, <3>1, <3>2 DEF UndoFits
    <3>4. QED  BY <2>3, <3>3 DEF nt, st
  <2>7. CASE m # k
    <3>1. st.of # l  BY <2>1, <2>7 DEF EffectsFit, UndoneOnce
    <3>2. e.stages[i][st.of].row = d.stages[i][st.of].row /\ nt.status = st.status
      BY <1>1, <2>1, <2>4, <2>7, <3>1
    <3> HIDE DEF st, nt
    <3>3. UndoFits(e, i, nt)  BY <2>1, <2>3, <2>4, <2>5, <3>2 DEF UndoFits
    <3>4. QED  BY <2>3, <3>3 DEF nt, st
  <2>8. QED  BY <2>6, <2>7
<1>10. ASSUME NEW m \in Slots(d, i), d.stages[i][m].kind = "http" PROVE HttpFits(e.stages[i][m], "compensating")
  <2> DEFINE st == d.stages[i][m]  nt == e.stages[i][m]
  <2>1. HttpFits(st, "compensating")  BY <1>10 DEF EffectsFit, EffectFits
  <2>2. m # k  BY <1>2, <1>10
  <2>3. nt.node = st.node /\ nt.status = st.status /\ nt.row = IF m = l THEN s ELSE st.row
    BY <1>1, <2>2 DEF Kept
  <2>4. m = l => st.row = "queued"  BY <1>4
  <2>5. "compensating" \in Stopped  BY DEF Stopped
  <2> HIDE DEF st, nt, l
  <2>6. HttpFits(nt, "compensating")  BY <2>1, <2>3, <2>4, <2>5 DEF HttpFits
  <2>7. QED  BY <2>6 DEF nt
<1>11. ASSUME NEW m \in Slots(e, i) PROVE EffectFits(e, i, e.stages[i][m])
  <2>1. EffectFits(d, i, d.stages[i][m]) /\ Kept(d, e, i, m)  BY <1>1 DEF EffectsFit
  <2>2. ASSUME e.stages[i][m].kind = "http" PROVE HttpFits(e.stages[i][m], e.inst[i])
    BY <1>1, <1>10, <2>1, <2>2 DEF Kept
  <2>3. ASSUME e.stages[i][m].kind = "compensation" PROVE UndoFits(e, i, e.stages[i][m])
    BY <1>1, <1>9, <2>1, <2>3 DEF Undoings, Kept
  <2>4. ASSUME e.stages[i][m].kind \notin {"http", "compensation"}
        PROVE  e.stages[i][m].row \notin EffectRows /\ e.stages[i][m].node \notin Compensated
    <3>1. d.stages[i][m].kind \notin {"http", "compensation"}  BY <2>1, <2>4 DEF Kept
    <3>2. m # l  BY <1>4, <3>1
    <3>3. e.stages[i][m].row = d.stages[i][m].row  BY <1>1, <3>2
    <3>4. QED  BY <2>1, <3>1, <3>3 DEF EffectFits, Kept
  <2>5. QED  BY <2>2, <2>3, <2>4 DEF EffectFits
<1>12. UndoneOnce(e, i)
  <2>1. ASSUME NEW j \in Slots(e, i), e.stages[i][j].kind = "http", e.stages[i][j].row \in UndoRows
        PROVE  \E m \in Undoings(e, i) : e.stages[i][m].of = j
    <3>1. j \in Slots(d, i) /\ d.stages[i][j].kind = "http"  BY <1>1, <2>1 DEF Kept
    <3>2. d.stages[i][j].row \in UndoRows
      <4>1. "queued" \in UndoRows  BY DEF UndoRows
      <4>2. QED  BY <1>1, <1>4, <2>1, <3>1, <4>1
    <3>3. PICK m \in Undoings(d, i) : d.stages[i][m].of = j  BY <3>1, <3>2 DEF EffectsFit, UndoneOnce
    <3>4. QED  BY <1>8, <1>9, <3>3
  <2>2. \A m, j \in Undoings(e, i) : e.stages[i][m].of = e.stages[i][j].of => m = j
    BY <1>8, <1>9 DEF EffectsFit, UndoneOnce
  <2>3. QED  BY <2>1, <2>2 DEF UndoneOnce
<1>13. Unwinds(e, i, TRUE)
  <2>1. d.ending[i] \in {"failed", "cancelled"}  BY DEF EffectsFit, Unwinds
  <2>2. QED  BY <1>1, <1>7, <2>1 DEF Unwinds
<1>14. QED  BY <1>1, <1>11, <1>12, <1>13 DEF EffectsFit

(***************************************************************************)
(* What one call does for the effects of an instance j.                    *)
(***************************************************************************)
Undoing(u, j) == \E x \in DOMAIN u : u[x].method = "compensate" /\ u[x].i = j

(* What happens to the effects that still have to be undone or kept, and to *)
(* where the instance stands; the names are those of the actions of Saga.   *)
Phase(d, i)   == PhaseOf(d.inst[i])
Effects(d, i) == {k \in Slots(d, i) : d.stages[i][k].row \in {"armed", "queued"}}
(* The effects that stand because nobody may undo them any more; only a     *)
(* revocation changes them.                                                 *)
Lost(d, i) == {k \in Slots(d, i) : d.stages[i][k].kind = "http" /\ d.stages[i][k].row = "cancelled"}
SagaLasts(d, e, i) ==
  /\ Phase(e, i) = Phase(d, i) /\ Effects(e, i) = Effects(d, i) /\ e.ending[i] = d.ending[i]
  /\ Lost(e, i) = Lost(d, i)
SagaOpens(d, e, i) ==
  /\ Phase(d, i) = "absent" /\ Phase(e, i) = "open"
  /\ Effects(d, i) = {} /\ Effects(e, i) = {} /\ e.ending[i] = d.ending[i]
  /\ Lost(e, i) = Lost(d, i)
SagaCompletes(d, e, i) ==
  /\ Phase(d, i) = "open" /\ Phase(e, i) = "completed"
  /\ Effects(e, i) = {} /\ e.ending[i] = d.ending[i]
  /\ Lost(e, i) = Lost(d, i)
SagaTurns(d, e, i) ==
  /\ Phase(d, i) = "open" /\ Phase(e, i) = "compensating"
  /\ Effects(e, i) = Effects(d, i) /\ Effects(e, i) # {} /\ e.ending[i] \in {"failed", "cancelled"}
  /\ Lost(e, i) = Lost(d, i)
SagaFails(d, e, i) ==
  /\ Phase(d, i) = "open" /\ Phase(e, i) \in {"failed", "cancelled"}
  /\ Effects(d, i) = {} /\ Effects(e, i) = {} /\ e.ending[i] = d.ending[i]
  /\ Lost(e, i) = Lost(d, i)
SagaUndoes(d, e, i) ==
  /\ Phase(d, i) = "compensating" /\ Phase(e, i) = "compensating" /\ e.ending[i] = d.ending[i]
  /\ \E k \in Effects(d, i) : (\A j \in Effects(d, i) : j <= k) /\ Effects(e, i) = Effects(d, i) \ {k}
  /\ Lost(e, i) = Lost(d, i)
SagaEnds(d, e, i) ==
  /\ Phase(d, i) = "compensating" /\ Phase(e, i) = d.ending[i] /\ d.ending[i] \in {"failed", "cancelled"}
  /\ Effects(d, i) = {} /\ Effects(e, i) = {} /\ e.ending[i] = d.ending[i]
  /\ Lost(e, i) = Lost(d, i)
(* m is the method that is called: only one of them gives up an effect.     *)
SagaMove(d, e, m, i) ==
  \/ SagaLasts(d, e, i) \/ SagaOpens(d, e, i) \/ SagaCompletes(d, e, i) \/ SagaTurns(d, e, i)
  \/ SagaFails(d, e, i) \/ SagaEnds(d, e, i) \/ (m = "giveback" /\ SagaUndoes(d, e, i))

EffectsGoal(d, e, m, u, j) == EffectsFit(e, j, Undoing(u, j)) /\ SagaMove(d, e, m, j)

LEMMA PhaseAre ==
  ASSUME NEW d, NEW i
  PROVE  /\ d.inst[i] \in OpenInst => Phase(d, i) = "open"
         /\ d.inst[i] \notin OpenInst => Phase(d, i) = d.inst[i]
BY DEF Phase, PhaseOf

LEMMA EffectsAre ==
  ASSUME NEW d, NEW i
  PROVE  Effects(d, i) = Armed(d, i) \cup Queued(d, i)
BY DEF Effects, Armed, Queued

LEMMA SameLost ==
  ASSUME NEW d, NEW e, NEW i, SameEffects(d, e, i)
  PROVE  Lost(e, i) = Lost(d, i)
<1>1. \A k \in Slots(d, i) :
        /\ k \in Slots(e, i) /\ e.stages[i][k].kind = d.stages[i][k].kind
        /\ d.stages[i][k].kind = "http" => e.stages[i][k].row = d.stages[i][k].row
  BY DEF SameEffects, SameEffect, Kept
<1>2. \A k \in Slots(e, i) \ Slots(d, i) : e.stages[i][k].kind = "http" => e.stages[i][k].row = "none"
  BY DEF SameEffects, NoEffect
<1>3. QED  BY <1>1, <1>2 DEF Lost

LEMMA LastsSame ==
  ASSUME NEW d, NEW e, NEW i, SameEffects(d, e, i), NEW un, EffectsFit(d, i, un)
  PROVE  SagaLasts(d, e, i)
<1>1. Queued(e, i) = Queued(d, i) /\ Armed(e, i) = Armed(d, i)  BY SameRows DEF EffectsFit
<1>2. Effects(e, i) = Effects(d, i)  BY <1>1, EffectsAre
<1>3. HeadLike(d, e, i)  BY DEF SameEffects
<1>4. Phase(e, i) = Phase(d, i)  BY <1>3 DEF HeadLike, Phase, PhaseOf
<1>5. QED  BY <1>2, <1>3, <1>4, SameLost DEF SagaLasts, HeadLike

(* The effects of i are even, and as they were.                             *)
EvenOn(d, e, i) == EffectsFit(e, i, FALSE) /\ SagaLasts(d, e, i)

LEMMA EvenFrame ==
  ASSUME NEW d, NEW e, NEW i, EffectsFit(d, i, FALSE), SameEffects(d, e, i)
  PROVE  EvenOn(d, e, i)
<1>1. EffectsFit(e, i, FALSE)  BY FrameEffects
<1>2. SagaLasts(d, e, i)  BY LastsSame
<1>3. QED  BY <1>1, <1>2 DEF EvenOn

LEMMA EvenTwice ==
  ASSUME NEW d, NEW b, NEW e, NEW i, EvenOn(d, b, i), SameEffects(b, e, i)
  PROVE  EvenOn(d, e, i)
<1>1. EffectsFit(b, i, FALSE)  BY DEF EvenOn
<1>2. EvenOn(b, e, i)  BY <1>1, EvenFrame
<1>3. QED  BY <1>2 DEF EvenOn, SagaLasts

LEMMA UndoingAre ==
  ASSUME NEW j, NEW b, NEW c
  PROVE  /\ Undoing(<<>>, j) = FALSE
         /\ Undoing(<<c>>, j) <=> c.method = "compensate" /\ c.i = j
         /\ b.method # "compensate" /\ c.method # "compensate" => Undoing(<<b, c>>, j) = FALSE
<1>1. Undoing(<<>>, j) = FALSE  BY DEF Undoing
<1>2. Undoing(<<c>>, j) <=> c.method = "compensate" /\ c.i = j
  <2>1. DOMAIN <<c>> = {1} /\ <<c>>[1] = c  OBVIOUS
  <2>2. QED  BY <2>1 DEF Undoing
<1>3. ASSUME b.method # "compensate", c.method # "compensate" PROVE Undoing(<<b, c>>, j) = FALSE
  <2>1. DOMAIN <<b, c>> = {1, 2} /\ <<b, c>>[1] = b /\ <<b, c>>[2] = c  OBVIOUS
  <2>2. QED  BY <1>3, <2>1 DEF Undoing
<1>4. QED  BY <1>1, <1>2, <1>3

NoUndo(u) == \A x \in DOMAIN u : u[x].method # "compensate"

LEMMA QuietGoal ==
  ASSUME NEW d, NEW e, NEW m, NEW u, NEW j, EffectsFit(e, j, FALSE), SagaMove(d, e, m, j), NoUndo(u)
  PROVE  EffectsGoal(d, e, m, u, j)
<1>1. Undoing(u, j) = FALSE  BY DEF Undoing, NoUndo
<1>2. QED  BY <1>1 DEF EffectsGoal

LEMMA FrameGoal ==
  ASSUME NEW d, NEW e, NEW m, NEW u, NEW j, EffectsFit(d, j, FALSE), SameEffects(d, e, j), NoUndo(u)
  PROVE  EffectsGoal(d, e, m, u, j)
<1>1. EffectsFit(e, j, FALSE)  BY FrameEffects
<1>2. SagaMove(d, e, m, j)  BY LastsSame DEF SagaMove
<1>3. QED  BY <1>1, <1>2, QuietGoal

LEMMA NoUndoAre ==
  ASSUME NEW b, NEW c
  PROVE  /\ NoUndo(<<>>) /\ (b.method # "compensate" => NoUndo(<<b>>))
         /\ b.method # "compensate" /\ c.method # "compensate" => NoUndo(<<b, c>>)
<1>1. NoUndo(<<>>)  BY DEF NoUndo
<1>2. ASSUME b.method # "compensate" PROVE NoUndo(<<b>>)
  <2>1. DOMAIN <<b>> = {1} /\ <<b>>[1] = b  OBVIOUS
  <2>2. QED  BY <1>2, <2>1 DEF NoUndo
<1>3. ASSUME b.method # "compensate", c.method # "compensate" PROVE NoUndo(<<b, c>>)
  <2>1. DOMAIN <<b, c>> = {1, 2} /\ <<b, c>>[1] = b /\ <<b, c>>[2] = c  OBVIOUS
  <2>2. QED  BY <1>3, <2>1 DEF NoUndo
<1>4. QED  BY <1>1, <1>2, <1>3

(* A step of a token asks for no compensation.                              *)
LEMMA EnterNoUndo ==
  ASSUME NEW d, NEW e, NEW i, NEW t, NEW n, NEW u, EnterCase(d, e, i, t, n, u)
  PROVE  NoUndo(u)
<1> DEFINE Plain(c) == c.method # "compensate"
<1>1. \A m : Plain(ToAdvance(i, t, m)) /\ Plain(ToAdvance(i, Front(t), m))  BY CallsGive
<1>2. \A s, k : Plain(ToFail(i, s)) /\ Plain(ToLink(i, k)) /\ Plain(ToSync(i)) /\ Plain(ToParent(i))
  BY CallsGive
<1>3. \A l, v, m : Plain(ToAdvance(l, v, m))  BY CallsGive
<1> HIDE DEF Plain
<1>4. \A b : Plain(b) => NoUndo(<<b>>)  BY NoUndoAre DEF Plain
<1>5. \A b, c : Plain(b) /\ Plain(c) => NoUndo(<<b, c>>)  BY NoUndoAre DEF Plain
<1>6. NoUndo(<<>>)  BY NoUndoAre
<1>7. CASE PassCase(d, e, i, t, n, u)
  <2>1. PICK m \in GNodes : u = <<ToAdvance(i, t, m)>>  BY <1>7 DEF PassCase
  <2>2. QED  BY <1>1, <1>4, <2>1
<1>8. CASE FailCase(d, e, i, n, u)  BY <1>2, <1>4, <1>8 DEF FailCase
<1>9. CASE QueueCase(d, e, i, t, n, u)  BY <1>6, <1>9 DEF QueueCase
<1>10. CASE RunCase(d, e, i, t, n, u)  BY <1>1, <1>4, <1>10 DEF RunCase
<1>11. CASE RefuseCase(d, e, i, t, n, u)  BY <1>2, <1>4, <1>11 DEF RefuseCase
<1>12. CASE BeginCase(d, e, i, t, n, u)
  <2>1. u = <<ToAdvance(ChildOf[n], Root, StartOf[ChildOf[n]]), ToLink(i, NextSlot(d, i))>>
    BY <1>12 DEF BeginCase
  <2>2. QED  BY <1>2, <1>3, <1>5, <2>1
<1>13. CASE ForkCase(d, e, i, t, n, u)
  <2>1. PICK x \in Seq(Calls) :
          /\ IsConcat(u, x, <<ToSync(i)>>) /\ DOMAIN x = DOMAIN To(n)
          /\ \A b \in DOMAIN To(n) : x[b] = ToAdvance(i, Branch(t, n, b), To(n)[b])
    BY <1>13 DEF ForkCase
  <2>2. \A y \in DOMAIN x : Plain(x[y])  BY <1>3, <2>1
  <2> DEFINE z == <<ToSync(i)>>
  <2>3. \A y \in DOMAIN z : Plain(z[y])
    <3>1. DOMAIN z = {1} /\ z[1] = ToSync(i)  OBVIOUS
    <3>2. QED  BY <1>2, <3>1
  <2> HIDE DEF z
  <2>4. IsConcat(u, x, z)  BY <2>1 DEF z
  <2>5. \A y \in DOMAIN u : Plain(u[y])  BY <2>2, <2>3, <2>4 DEF IsConcat
  <2>6. QED  BY <2>5 DEF NoUndo, Plain
<1>14. CASE WaitCase(d, e, i, t, n, u)  BY <1>6, <1>14 DEF WaitCase
<1>15. CASE MergeCase(d, e, i, t, n, u)  BY <1>1, <1>4, <1>15 DEF MergeCase
<1>16. CASE LeaveCase(d, e, i, t, n, u)  BY <1>6, <1>16 DEF LeaveCase
<1>17. CASE CompleteCase(d, e, i, t, n, u)  BY <1>2, <1>4, <1>17 DEF CompleteCase
<1>18. QED
  BY <1>7, <1>8, <1>9, <1>10, <1>11, <1>12, <1>13, <1>14, <1>15, <1>16, <1>17 DEF EnterCase

LEMMA NotCompensated ==
  ASSUME NEW n, Kind(n) # "http"
  PROVE  n \notin Compensated
BY GraphAssumption

LEMMA CompleteMove ==
  ASSUME NEW d, NEW e, NEW i, NEW un, EffectsFit(d, i, un), d.inst[i] \in OpenInst, Completes(d, e, i)
  PROVE  SagaCompletes(d, e, i)
<1>1. OpenRows(d, i)  BY OpenEffects
<1>2. /\ StandsAt(e, i, "completed") /\ Slots(e, i) = Slots(d, i) /\ e.ending[i] = d.ending[i]
      /\ \A m \in Slots(d, i) :
           /\ e.stages[i][m].kind = d.stages[i][m].kind
           /\ e.stages[i][m].row = IF d.stages[i][m].row = "armed" THEN "skipped" ELSE d.stages[i][m].row
  BY DEF Completes, Kept
<1>3. \A m \in Slots(e, i) : e.stages[i][m].row \notin {"armed", "queued"}
  BY <1>1, <1>2 DEF OpenRows, OpenRow, EffectRows
<1>4. Effects(e, i) = {}  BY <1>3 DEF Effects
<1>5. Phase(d, i) = "open" /\ Phase(e, i) = "completed"  BY <1>2, OpenNot DEF Phase, PhaseOf, StandsAt
<1>6. Lost(e, i) = Lost(d, i)
  <2>1. \A m \in Slots(d, i) : e.stages[i][m].row = "cancelled" <=> d.stages[i][m].row = "cancelled"  BY <1>2
  <2>2. QED  BY <1>2, <2>1 DEF Lost
<1>7. QED  BY <1>2, <1>4, <1>5, <1>6 DEF SagaCompletes

(* The effects of the instance whose token steps.                           *)
LEMMA EnterEffects ==
  ASSUME NEW d \in Db, AllFit(d), NEW e, NEW i \in Instances, NEW t, NEW n \in NodesOf[i], NEW u,
         d.inst[i] \in OpenInst, EffectsFit(d, i, FALSE), EnterCase(d, e, i, t, n, u)
  PROVE  EvenOn(d, e, i) \/ (EffectsFit(e, i, FALSE) /\ SagaCompletes(d, e, i))
<1>1. CASE PassCase(d, e, i, t, n, u)
  <2>1. Same(d, e, i)  BY <1>1 DEF PassCase, Still, Touches
  <2>2. QED  BY <2>1, SameKeepsEffects, EvenFrame
<1>2. CASE FailCase(d, e, i, n, u)
  <2>1. Same(d, e, i)  BY <1>2 DEF FailCase, Still, Touches
  <2>2. QED  BY <2>1, SameKeepsEffects, EvenFrame
<1>3. CASE QueueCase(d, e, i, t, n, u)
  <2>1. PICK st \in StageSet : \E s \in {"queued", "waiting_approval", "waiting_external"} :
           /\ Added(d, e, i, st) /\ StandsAt(e, i, s) /\ st.node = n /\ st.status = s
           /\ st.kind \in {"agent", "http", "wait", "approval", "signal"}
           /\ st.kind = (IF Kind(n) = "gated" THEN "agent" ELSE Kind(n))
           /\ st.row = (IF st.kind = "signal" THEN "waiting" ELSE "none")
    BY <1>3 DEF QueueCase
  <2>2. e.inst[i] \in OpenInst  BY <2>1 DEF StandsAt, OpenInst
  <2>3. NoEffect(st)
    <3>1. st.node \in Compensated => st.kind = "http"  BY <2>1, NotCompensated
    <3>2. st.row \notin EffectRows /\ (st.kind = "http" => st.row = "none")  BY <2>1 DEF EffectRows
    <3>3. st.status # "completed" /\ st.kind # "compensation"  BY <2>1
    <3>4. QED  BY <3>1, <3>2, <3>3 DEF NoEffect
  <2>4. QED  BY <2>1, <2>2, <2>3, AddEffects, EvenFrame
<1>4. CASE RunCase(d, e, i, t, n, u)
  <2>1. PICK st \in StageSet : Added(d, e, i, st) /\ st.node = n /\ st.kind = "internal" /\ st.row = "none"
    BY <1>4 DEF RunCase
  <2>2. e.inst[i] \in OpenInst  BY <1>4 DEF RunCase
  <2>3. n \notin Compensated  BY <1>4, NotCompensated DEF RunCase
  <2>4. NoEffect(st)  BY <2>1, <2>3 DEF NoEffect, EffectRows
  <2>5. QED  BY <2>1, <2>2, <2>4, AddEffects, EvenFrame
<1>5. ASSUME NEW st, Waiting(st, n, t), Kind(n) = "subprocess" PROVE NoEffect(st)
  <2>1. n \notin Compensated  BY <1>5, NotCompensated
  <2>2. QED  BY <1>5, <2>1 DEF Waiting, NoEffect, EffectRows
<1>6. CASE RefuseCase(d, e, i, t, n, u)
  <2>1. PICK st \in StageSet : Added(d, e, i, st) /\ Waiting(st, n, t)  BY <1>6 DEF RefuseCase
  <2>2. e.inst[i] \in OpenInst  BY <1>6 DEF RefuseCase, StandsAt, OpenInst
  <2>3. NoEffect(st)  BY <1>5, <1>6, <2>1 DEF RefuseCase
  <2>4. QED  BY <2>1, <2>2, <2>3, AddEffects, EvenFrame
<1>7. CASE BeginCase(d, e, i, t, n, u)
  <2>1. PICK b \in Db : \E st \in StageSet :
           /\ Added(d, b, i, st) /\ Waiting(st, n, t) /\ StandsAt(b, i, "waiting_external")
           /\ Started(b, e, ChildOf[n])
    BY <1>7 DEF BeginCase
  <2>2. PICK st \in StageSet :
           Added(d, b, i, st) /\ Waiting(st, n, t) /\ StandsAt(b, i, "waiting_external")
    BY <2>1
  <2>3. b.inst[i] \in OpenInst  BY <2>2 DEF StandsAt, OpenInst
  <2>4. NoEffect(st)  BY <1>5, <1>7, <2>2 DEF BeginCase
  <2>5. EvenOn(d, b, i)  BY <2>2, <2>3, <2>4, AddEffects, EvenFrame
  <2>6. ChildOf[n] # i  BY <1>7 DEF BeginCase, OpenInst
  <2>7. Same(b, e, i)  BY <2>1, <2>6 DEF Started, Touches
  <2>8. QED  BY <2>5, <2>7, SameKeepsEffects, EvenTwice
<1>8. CASE ForkCase(d, e, i, t, n, u)
  <2>1. Retokens(d, e, i)  BY <1>8 DEF ForkCase, Marked
  <2>2. QED  BY <2>1, RetokenEffects, EvenFrame
<1>9. ASSUME NEW b \in Db, NEW s, TokenSet(d, b, i, t, s) PROVE EvenOn(d, b, i) /\ b.inst[i] = d.inst[i]
  <2>1. Retokens(d, b, i)  BY <1>9 DEF TokenSet
  <2>2. QED  BY <2>1, RetokenEffects, EvenFrame DEF Retokens
<1>10. ASSUME NEW b \in Db, b.inst[i] = d.inst[i], EvenOn(d, b, i), Synced(b, e, i)
       PROVE  EvenOn(d, e, i)
  <2>1. /\ e.stages[i] = b.stages[i] /\ Slots(e, i) = Slots(b, i) /\ e.ending[i] = b.ending[i]
        /\ e.inst[i] \in OpenInst
    BY <1>10 DEF Synced, Slots
  <2>2. HeadLike(b, e, i)  BY <1>10, <2>1 DEF HeadLike
  <2>3. QED  BY <1>10, <2>1, <2>2, SameSame, EvenTwice
<1>11. CASE WaitCase(d, e, i, t, n, u)
  <2>1. PICK b \in Db : TokenSet(d, b, i, t, "waiting_join") /\ Synced(b, e, i)  BY <1>11 DEF WaitCase
  <2>2. QED  BY <1>9, <1>10, <2>1
<1>12. CASE MergeCase(d, e, i, t, n, u)
  <2>1. PICK b \in Db : TokenSet(d, b, i, t, "waiting_join")
                        /\ Marked(b, e, i, Branches(Front(t), ForkOf[n]), "merged", Front(t), "active")
    BY <1>12 DEF MergeCase
  <2>2. Retokens(b, e, i)  BY <2>1 DEF Marked
  <2>3. QED  BY <1>9, <2>1, <2>2, RetokenEffects, EvenTwice
<1>13. CASE LeaveCase(d, e, i, t, n, u)
  <2>1. PICK b \in Db : TokenSet(d, b, i, t, "completed") /\ Synced(b, e, i)  BY <1>13 DEF LeaveCase
  <2>2. QED  BY <1>9, <1>10, <2>1
<1>14. CASE CompleteCase(d, e, i, t, n, u)
  <2>1. PICK b \in Db : TokenSet(d, b, i, t, "completed") /\ Completes(b, e, i)  BY <1>14 DEF CompleteCase
  <2>2. b.inst[i] \in OpenInst /\ EffectsFit(b, i, FALSE) /\ SagaLasts(d, b, i)  BY <1>9, <2>1 DEF EvenOn
  <2>3. EffectsFit(e, i, FALSE) /\ SagaCompletes(b, e, i)  BY <2>1, <2>2, CompleteEffects, CompleteMove
  <2>4. SagaCompletes(d, e, i)  BY <2>2, <2>3 DEF SagaLasts, SagaCompletes
  <2>5. QED  BY <2>3, <2>4
<1>15. QED
  BY <1>1, <1>2, <1>3, <1>4, <1>6, <1>7, <1>8, <1>11, <1>12, <1>13, <1>14 DEF EnterCase

LEMMA MovedEffects ==
  ASSUME NEW d, NEW b, NEW i, NEW t, Moved(d, b, i, t), NEW j
  PROVE  SameEffects(d, b, j)
<1>1. Slots(b, j) = Slots(d, j) /\ b.stages[j] = d.stages[j]  BY DEF Moved, Slots
<1>2. HeadLike(d, b, j)  BY DEF Moved, HeadLike
<1>3. QED  BY <1>1, <1>2, SameSame

LEMMA AnyUn ==
  ASSUME NEW d, NEW i, NEW un, NEW vn, EffectsFit(d, i, un), d.inst[i] # "compensating"
  PROVE  EffectsFit(d, i, vn)
BY DEF EffectsFit

LEMMA UndoingOne ==
  ASSUME NEW i, NEW j
  PROVE  Undoing(<<ToCompensate(i)>>, j) <=> j = i
<1> DEFINE c == ToCompensate(i)
<1>1. c.method = "compensate" /\ c.i = i  BY CallsGive
<1> HIDE DEF c
<1>2. Undoing(<<c>>, j) <=> j = i  BY <1>1, UndoingAre
<1>3. QED  BY <1>2 DEF c

(* An instance that a call leaves alone.                                    *)
LEMMA SameGoal ==
  ASSUME NEW d, NEW e, NEW m, NEW u, NEW j, EffectsFit(d, j, FALSE), Same(d, e, j), Undoing(u, j) = FALSE
  PROVE  EffectsGoal(d, e, m, u, j)
<1>1. EvenOn(d, e, j)  BY SameKeepsEffects, EvenFrame
<1>2. QED  BY <1>1 DEF EffectsGoal, EvenOn, SagaMove

LEMMA EvenGoal ==
  ASSUME NEW d, NEW e, NEW m, NEW u, NEW j, EvenOn(d, e, j), NoUndo(u)
  PROVE  EffectsGoal(d, e, m, u, j)
<1>1. EffectsFit(e, j, FALSE) /\ SagaMove(d, e, m, j)  BY DEF EvenOn, SagaMove
<1>2. QED  BY <1>1, QuietGoal

(* Nothing but the status of stages changes.                                *)
LEMMA FinishRows ==
  ASSUME NEW d, NEW e, NEW i, NEW at, NEW closed, Finishes(d, e, i, at, closed)
  PROVE  Effects(e, i) = Effects(d, i) /\ Lost(e, i) = Lost(d, i) /\ e.inst[i] = at
BY DEF Finishes, Effects, Lost, StandsAt, Kept

LEMMA OpenEffectsAre ==
  ASSUME NEW d, NEW i, NEW un, EffectsFit(d, i, un), d.inst[i] \in OpenInst
  PROVE  Effects(d, i) = Armed(d, i)
<1>1. OpenRows(d, i)  BY OpenEffects
<1>2. \A k \in Slots(d, i) : d.stages[i][k].row # "queued"  BY <1>1 DEF OpenRows, OpenRow, EffectRows
<1>3. QED  BY <1>2 DEF Effects, Armed

LEMMA StepEffects ==
  ASSUME NEW d \in Db, AllFit(d), NEW c, CallOK(d, c), Each(d, c), NEW e, NEW u, StepCase(d, e, c, u),
         NEW j \in Instances, EffectsFit(d, j, FALSE)
  PROVE  EffectsGoal(d, e, c.method, u, j)
<1> DEFINE i == c.i  t == c.t  n == c.n  b == Entered(d, c.i, c.t)
<1>1. c.method = "advance" /\ d.moves[i] # MaxMoves /\ EnterCase(b, e, i, t, n, u)  BY DEF StepCase
<1>2. i \in Instances /\ t \in Token /\ n \in GNodes  BY <1>1, CallFields DEF CallOK
<1>3. n \in NodesOf[i] /\ d.inst[i] \in OpenInst  BY <1>1 DEF Each, Going
<1>4. Moved(d, b, i, t)  BY <1>1, <1>2, MovedIs
<1> HIDE DEF b, i, t, n
<1>5. b \in Db  BY <1>4 DEF Moved
<1>6. /\ AllFit(b) /\ b.inst[i] \in OpenInst /\ \A l \in Instances : l # i => Same(d, b, l)
  BY <1>2, <1>3, <1>4, MovedFits
<1>7. EvenOn(d, b, j) /\ EffectsFit(b, j, FALSE) /\ SagaLasts(d, b, j)
  BY <1>4, MovedEffects, EvenFrame DEF EvenOn
<1>8. NoUndo(u)  BY <1>1, EnterNoUndo
<1>9. CASE j = i
  <2>1. EvenOn(b, e, j) \/ (EffectsFit(e, j, FALSE) /\ SagaCompletes(b, e, j))
    BY <1>1, <1>2, <1>3, <1>5, <1>6, <1>7, <1>9, EnterEffects
  <2>2. CASE EvenOn(b, e, j)
    <3>1. EvenOn(d, e, j)  BY <1>7, <2>2 DEF EvenOn, SagaLasts
    <3>2. QED  BY <1>8, <3>1, EvenGoal
  <2>3. CASE EffectsFit(e, j, FALSE) /\ SagaCompletes(b, e, j)
    <3>1. SagaCompletes(d, e, j)  BY <1>7, <2>3 DEF SagaLasts, SagaCompletes
    <3>2. SagaMove(d, e, c.method, j)  BY <3>1 DEF SagaMove
    <3>3. QED  BY <1>8, <2>3, <3>2, QuietGoal
  <2>4. QED  BY <2>1, <2>2, <2>3
<1>10. CASE j # i /\ ~(j = ChildOf[n] /\ BeginCase(b, e, i, t, n, u))
  <2>1. Spared(b, e, u, j)  BY <1>1, <1>2, <1>3, <1>5, <1>10, EnterSpares
  <2>2. Same(b, e, j)  BY <2>1 DEF Spared
  <2>3. EvenOn(d, e, j)  BY <1>7, <2>2, SameKeepsEffects, EvenTwice
  <2>4. QED  BY <1>8, <2>3, EvenGoal
<1>11. CASE j # i /\ j = ChildOf[n] /\ BeginCase(b, e, i, t, n, u)
  <2>1. PICK a \in Db : \E st \in StageSet : Added(b, a, i, st) /\ Started(a, e, ChildOf[n])
    BY <1>11 DEF BeginCase
  <2>2. b.inst[j] = "absent"  BY <1>11 DEF BeginCase
  <2>3. b.stages[j] = <<>>  BY <1>6, <2>2 DEF AllFit, Fits, HeadFits
  <2>4. Same(b, a, j)  BY <1>11, <2>1 DEF Added, Touches
  <2>5. /\ e.stages[j] = <<>> /\ e.inst[j] = "queued" /\ "queued" \in OpenInst
        /\ e.ending[j] = b.ending[j]
    BY <1>11, <2>1, <2>3, <2>4 DEF Started, StandsAt, Same, OpenInst
  <2>6. EffectsFit(e, j, FALSE)  BY <2>5, BornEffects
  <2>7. Effects(b, j) = {} /\ Effects(e, j) = {} /\ Lost(e, j) = Lost(b, j)
    BY <2>3, <2>5 DEF Effects, Lost, Slots
  <2>8. Phase(b, j) = "absent" /\ Phase(e, j) = "open"
    <3>1. "absent" \notin OpenInst  BY DEF OpenInst
    <3>2. QED  BY <2>2, <2>5, <3>1 DEF Phase, PhaseOf
  <2>9. SagaOpens(d, e, j)  BY <1>7, <2>5, <2>7, <2>8 DEF SagaLasts, SagaOpens
  <2>10. SagaMove(d, e, c.method, j)  BY <2>9 DEF SagaMove
  <2>11. QED  BY <1>8, <2>6, <2>10, QuietGoal
<1>12. QED  BY <1>9, <1>10, <1>11

LEMMA StopCallEffects ==
  ASSUME NEW d \in Db, NEW i \in Instances, d.inst[i] \in OpenInst, NEW s \in {"failed", "cancelled"},
         NEW e, NEW u, StopCase(d, e, i, s, u), NEW j \in Instances, EffectsFit(d, j, FALSE)
  PROVE  EffectsGoal(d, e, "stop", u, j)
<1>1. CASE DetachCase(d, e, i, s, u)
  <2>1. PICK k \in RunningLinks(d, i) :
           /\ RowSet(d, e, i, k, "cancelled")
           /\ u = <<ToFail(ChildOf[d.stages[i][k].node], "cancelled"), ToStop(i, s)>>
    BY <1>1 DEF DetachCase
  <2>2. \A l, r : ToFail(l, r).method # "compensate" /\ ToStop(l, r).method # "compensate"  BY CallsGive
  <2>3. NoUndo(u)  BY <2>1, <2>2, NoUndoAre
  <2>4. SameEffects(d, e, j)
    <3>1. CASE j = i
      <4>1. k \in Slots(d, i) /\ d.stages[i][k].kind = "subprocess"  BY DEF RunningLinks
      <4>2. "cancelled" \notin EffectRows  BY DEF EffectRows
      <4>3. QED  BY <2>1, <3>1, <4>1, <4>2, RowSetEffects
    <3>2. CASE j # i
      <4>1. Same(d, e, j)  BY <2>1, <3>2 DEF RowSet, Restages, Touches
      <4>2. QED  BY <4>1, SameKeepsEffects
    <3>3. QED  BY <3>1, <3>2
  <2>5. QED  BY <2>3, <2>4, FrameGoal
<1>2. CASE RunningLinks(d, i) = {} /\ CompensateCase(d, e, i, s, u)
  <2>1. Finishes(d, e, i, "compensating", "cancelled") /\ e.ending[i] = s /\ u = <<ToCompensate(i)>>
    BY <1>2 DEF CompensateCase
  <2>2. Undoing(u, j) <=> j = i  BY <2>1, UndoingOne
  <2>3. CASE j = i
    <3>1. EffectsFit(e, j, TRUE)  BY <2>1, <2>3, StopEffects
    <3>2. Undoing(u, j) = TRUE  BY <2>2, <2>3 DEF Undoing
    <3>3. Effects(e, j) = Effects(d, j) /\ Lost(e, j) = Lost(d, j) /\ e.inst[j] = "compensating"
      BY <2>1, <2>3, FinishRows
    <3>4. Effects(d, j) # {}  BY <1>2, <2>3, OpenEffectsAre DEF CompensateCase
    <3>5. Phase(d, j) = "open" /\ Phase(e, j) = "compensating"  BY <2>3, <3>3, OpenNot, PhaseAre
    <3>6. SagaTurns(d, e, j)  BY <2>1, <2>3, <3>3, <3>4, <3>5 DEF SagaTurns
    <3>7. QED  BY <3>1, <3>2, <3>6 DEF EffectsGoal, SagaMove
  <2>4. CASE j # i
    <3>1. Same(d, e, j)  BY <2>1, <2>4 DEF Finishes, Touches
    <3>2. Undoing(u, j) = FALSE  BY <2>2, <2>4 DEF Undoing
    <3>3. QED  BY <3>1, <3>2, SameGoal
  <2>5. QED  BY <2>3, <2>4
<1>3. CASE Armed(d, i) = {} /\ FinalCase(d, e, i, s, u)
  <2>1. Finishes(d, e, i, s, s) /\ u = <<ToParent(i)>>  BY <1>3 DEF FinalCase
  <2>2. NoUndo(u)
    <3>1. ToParent(i).method # "compensate"  BY CallsGive
    <3>2. QED  BY <2>1, <3>1, NoUndoAre
  <2>3. CASE j = i
    <3>1. EffectsFit(e, j, TRUE)  BY <1>3, <2>1, <2>3, StopEffects
    <3>2. e.inst[j] # "compensating"  BY <2>1, <2>3 DEF Finishes, StandsAt
    <3>3. EffectsFit(e, j, FALSE)  BY <3>1, <3>2, AnyUn
    <3>4. Effects(e, j) = Effects(d, j) /\ Lost(e, j) = Lost(d, j) /\ e.inst[j] = s  BY <2>1, <2>3, FinishRows
    <3>5. Effects(d, j) = {}  BY <1>3, <2>3, OpenEffectsAre
    <3>6. s \notin OpenInst  BY OpenNot DEF Stopped
    <3>7. Phase(d, j) = "open" /\ Phase(e, j) = s  BY <2>3, <3>4, <3>6, PhaseAre
    <3>8. SagaFails(d, e, j)  BY <1>3, <2>3, <3>4, <3>5, <3>7 DEF SagaFails, FinalCase
    <3>9. SagaMove(d, e, "stop", j)  BY <3>8 DEF SagaMove
    <3>10. QED  BY <2>2, <3>3, <3>9, QuietGoal
  <2>4. CASE j # i
    <3>1. Same(d, e, j)  BY <2>1, <2>4 DEF Finishes, Touches
    <3>2. SameEffects(d, e, j)  BY <3>1, SameKeepsEffects
    <3>3. QED  BY <2>2, <3>2, FrameGoal
  <2>5. QED  BY <2>3, <2>4
<1>4. QED  BY <1>1, <1>2, <1>3 DEF StopCase

LEMMA NextCallEffects ==
  ASSUME NEW d \in Db, NEW i \in Instances, d.inst[i] = "compensating",
         NEW e, NEW u, NextCase(d, e, i, u), NEW j \in Instances,
         EffectsFit(d, j, j = i)
  PROVE  EffectsGoal(d, e, "compensate", u, j)
<1>1. CASE UndoCase(d, e, i, u)
  <2>1. u = <<>> /\ NoUndo(u)  BY <1>1, NoUndoAre DEF UndoCase
  <2>2. PICK k \in Armed(d, i) : (\A l \in Armed(d, i) : l <= k) /\ Undoes(d, e, i, k)  BY <1>1 DEF UndoCase
  <2>3. CASE j = i
    <3>1. (j = i) = TRUE  BY <2>3
    <3>2. EffectsFit(d, i, TRUE)  BY <2>3, <3>1
    <3>3. EffectsFit(e, i, FALSE)  BY <2>2, <3>2, UndoEffects
    <3>4. Effects(e, i) = Effects(d, i) /\ Lost(e, i) = Lost(d, i)
      <4>1. /\ Slots(e, i) = Slots(d, i) \cup {NextSlot(d, i)} /\ NextSlot(d, i) \notin Slots(d, i)
            /\ \A m \in Slots(d, i) :
                 /\ e.stages[i][m].kind = d.stages[i][m].kind
                 /\ e.stages[i][m].row = IF m = k THEN "queued" ELSE d.stages[i][m].row
            /\ e.stages[i][NextSlot(d, i)].row = "none"
        BY <2>2 DEF Undoes, Kept
      <4>2. d.stages[i][k].row = "armed" /\ k \in Slots(d, i)  BY DEF Armed
      <4>3. Effects(e, i) = Effects(d, i)  BY <4>1, <4>2 DEF Effects
      <4>4. Lost(e, i) = Lost(d, i)  BY <4>1, <4>2 DEF Lost
      <4>5. QED  BY <4>3, <4>4
    <3>5. e.inst[i] = d.inst[i] /\ e.ending[i] = d.ending[i]  BY <2>2 DEF Undoes
    <3>6. SagaLasts(d, e, i)  BY <3>4, <3>5 DEF SagaLasts, Phase
    <3>7. SagaMove(d, e, "compensate", i)  BY <3>6 DEF SagaMove
    <3>8. QED  BY <2>1, <2>3, <3>3, <3>7, QuietGoal
  <2>4. CASE j # i
    <3>1. EffectsFit(d, j, FALSE)
      <4>1. (j = i) = FALSE  BY <2>4
      <4>2. QED  BY <4>1
    <3>2. Same(d, e, j)  BY <2>2, <2>4 DEF Undoes, Touches
    <3>3. QED  BY <2>1, <3>1, <3>2, SameKeepsEffects, FrameGoal
  <2>5. QED  BY <2>3, <2>4
<1> DEFINE s == IF d.ending[i] = "cancelled" THEN "cancelled" ELSE "failed"
<1> HIDE DEF s
<1>0. s \in {"failed", "cancelled"} /\ (d.ending[i] \in {"failed", "cancelled"} => s = d.ending[i])  BY DEF s
<1>2. ASSUME Armed(d, i) = {}, FinalCase(d, e, i, s, u)
      PROVE  EffectsGoal(d, e, "compensate", u, j)
  <2>1. Finishes(d, e, i, s, s) /\ u = <<ToParent(i)>>  BY <1>2 DEF FinalCase
  <2>2. NoUndo(u)
    <3>1. ToParent(i).method # "compensate"  BY CallsGive
    <3>2. QED  BY <2>1, <3>1, NoUndoAre
  <2>3. CASE j = i
    <3>1. (j = i) = TRUE  BY <2>3
    <3>2. EffectsFit(d, i, TRUE)  BY <2>3, <3>1
    <3>3. Queued(d, i) = {}  BY <3>2 DEF EffectsFit, Unwinds
    <3>4. EffectsFit(e, i, FALSE)  BY <1>0, <1>2, <2>1, <3>2, <3>3, EndEffects
    <3>5. Effects(e, i) = Effects(d, i) /\ Lost(e, i) = Lost(d, i) /\ e.inst[i] = s  BY <2>1, FinishRows
    <3>6. Effects(d, i) = {}  BY <1>2, <3>3, EffectsAre
    <3>7. d.ending[i] = s  BY <1>0, <3>2 DEF EffectsFit, Unwinds
    <3>8. Phase(d, i) = "compensating" /\ Phase(e, i) = s
      <4>1. s \notin OpenInst  BY <1>0, OpenNot DEF Stopped
      <4>2. QED  BY <3>5, <4>1, OpenNot, PhaseAre
    <3>9. SagaEnds(d, e, i)  BY <1>0, <1>2, <3>5, <3>6, <3>7, <3>8 DEF SagaEnds, FinalCase
    <3>10. SagaMove(d, e, "compensate", i)  BY <3>9 DEF SagaMove
    <3>11. QED  BY <2>2, <2>3, <3>4, <3>10, QuietGoal
  <2>4. CASE j # i
    <3>1. EffectsFit(d, j, FALSE)
      <4>1. (j = i) = FALSE  BY <2>4
      <4>2. QED  BY <4>1
    <3>2. Same(d, e, j)  BY <2>1, <2>4 DEF Finishes, Touches
    <3>3. QED  BY <2>2, <3>1, <3>2, SameKeepsEffects, FrameGoal
  <2>5. QED  BY <2>3, <2>4
<1>3. QED  BY <1>1, <1>2 DEF NextCase, s

LEMMA ParentEffects ==
  ASSUME NEW d \in Db, NEW c \in Instances, NEW e, NEW u, ParentCase(d, e, c, u),
         NEW j \in Instances, EffectsFit(d, j, FALSE)
  PROVE  EffectsGoal(d, e, "parent", u, j)
<1>1. CASE Still(d, e) /\ u = <<>>
  <2>1. Same(d, e, j)  BY <1>1 DEF Still, Touches
  <2>2. NoUndo(u)  BY <1>1, NoUndoAre
  <2>3. QED  BY <2>1, <2>2, SameKeepsEffects, FrameGoal
<1>2. ASSUME NEW p \in Instances, NEW k \in RunningLinks(d, p),
             UnlinkCase(d, e, p, k, u) \/ ResumeCase(d, e, c, p, k, u) \/ ToppleCase(d, e, c, p, k, u)
      PROVE  EffectsGoal(d, e, "parent", u, j)
  <2>1. k \in Slots(d, p) /\ d.stages[p][k].kind \notin {"http", "compensation"}  BY DEF RunningLinks
  <2>2. "cancelled" \notin EffectRows /\ "failed" \notin EffectRows /\ "completed" \notin EffectRows
    BY DEF EffectRows
  <2>3. SameEffects(d, e, p) /\ Touches(d, e, {p}) /\ NoUndo(u)
    <3>1. CASE UnlinkCase(d, e, p, k, u)
      <4>1. RowSet(d, e, p, k, "cancelled") /\ u = <<>>  BY <3>1 DEF UnlinkCase
      <4>2. NoUndo(u)  BY <4>1, NoUndoAre
      <4>3. QED  BY <2>1, <2>2, <4>1, <4>2, RowSetEffects DEF RowSet, Restages
    <3>2. CASE ResumeCase(d, e, c, p, k, u)
      <4>1. /\ Settled(d, e, p, k, "completed", "completed")
            /\ u = <<ToAdvance(p, d.stages[p][k].token, To(d.stages[p][k].node)[1]), ToSync(p)>>
        BY <3>2 DEF ResumeCase
      <4>2. \A v, n : ToAdvance(p, v, n).method # "compensate" /\ ToSync(p).method # "compensate"
        BY CallsGive
      <4>3. NoUndo(u)  BY <4>1, <4>2, NoUndoAre
      <4>4. QED  BY <2>1, <2>2, <4>1, <4>3, SettledEffects DEF Settled, Restages
    <3>3. CASE ToppleCase(d, e, c, p, k, u)
      <4>1. /\ Settled(d, e, p, k, d.inst[c], "failed") /\ u = <<ToFail(p, "failed")>>
            /\ d.inst[c] \in {"failed", "cancelled"}
        BY <3>3 DEF ToppleCase
      <4>2. ToFail(p, "failed").method # "compensate"  BY CallsGive
      <4>3. NoUndo(u)  BY <4>1, <4>2, NoUndoAre
      <4>4. d.inst[c] \notin EffectRows  BY <2>2, <4>1
      <4>5. QED  BY <2>1, <4>1, <4>3, <4>4, SettledEffects DEF Settled, Restages
    <3>4. QED  BY <1>2, <3>1, <3>2, <3>3
  <2>4. SameEffects(d, e, j)
    <3>1. CASE j = p  BY <2>3, <3>1
    <3>2. CASE j # p
      <4>1. Same(d, e, j)  BY <2>3, <3>2 DEF Touches
      <4>2. QED  BY <4>1, SameKeepsEffects
    <3>3. QED  BY <3>1, <3>2
  <2>5. QED  BY <2>3, <2>4, FrameGoal
<1>3. QED  BY <1>1, <1>2 DEF ParentCase

(* A compensation is for a row of its instance, which is compensating.      *)
LEMMA UndoingFits ==
  ASSUME NEW d \in Db, AllFit(d), NEW i \in Instances, NEW k \in Slots(d, i),
         d.stages[i][k].kind = "compensation", d.stages[i][k].status \in OpenStage,
         NEW un, EffectsFit(d, i, un)
  PROVE  /\ k \in Undoings(d, i) /\ d.inst[i] = "compensating" /\ d.run[i] = "compensating"
         /\ d.stages[i][k].of \in Slots(d, i) /\ d.stages[i][k].of # k
<1>1. EffectFits(d, i, d.stages[i][k])  BY DEF EffectsFit
<1>2. UndoFits(d, i, d.stages[i][k])  BY <1>1 DEF EffectFits
<1>3. d.stages[i][k].of \in Slots(d, i) /\ d.stages[i][d.stages[i][k].of].kind = "http"  BY <1>2 DEF UndoFits
<1>4. d.stages[i][k].of # k  BY <1>3
<1>5. StageFits(d, i, d.stages[i][k])  BY DEF AllFit, Fits
<1>6. d.inst[i] = "compensating"  BY <1>5 DEF StageFits
<1>7. d.run[i] = d.inst[i]  BY <1>6, OpenNot DEF EffectsFit
<1>8. QED  BY <1>3, <1>4, <1>6, <1>7 DEF Undoings

LEMMA UndoneMove ==
  ASSUME NEW d \in Db, NEW e, NEW i \in Instances, NEW un, EffectsFit(d, i, un), d.inst[i] = "compensating",
         NEW k \in Undoings(d, i), d.stages[i][k].status \in OpenStage,
         NEW s \in {"completed", "failed"}, UndoDone(d, e, i, k, s)
  PROVE  SagaUndoes(d, e, i)
<1> DEFINE l == d.stages[i][k].of
<1>1. UndoFits(d, i, d.stages[i][k])  BY DEF EffectsFit, EffectFits, Undoings
<1>2. l \in Slots(d, i) /\ d.stages[i][l].row = "queued"  BY <1>1 DEF UndoFits
<1> HIDE DEF l
<1>3. l \in Effects(d, i)  BY <1>2 DEF Effects
<1>4. \A j \in Effects(d, i) : j <= l
  <2>1. Unwinds(d, i, un)  BY DEF EffectsFit
  <2>2. l \in Queued(d, i)  BY <1>2 DEF Queued
  <2>3. QED  BY <2>1, <2>2, EffectsAre DEF Unwinds
<1>5. /\ e.inst[i] = "compensating" /\ e.ending[i] = d.ending[i] /\ Slots(e, i) = Slots(d, i)
      /\ \A m \in Slots(d, i) :
           /\ e.stages[i][m].kind = d.stages[i][m].kind
           /\ e.stages[i][m].row = IF m = l THEN s ELSE d.stages[i][m].row
  BY DEF UndoDone, Kept, l
<1>6. Effects(e, i) = Effects(d, i) \ {l} /\ Lost(e, i) = Lost(d, i)
  <2>1. Effects(e, i) = Effects(d, i) \ {l}  BY <1>2, <1>5 DEF Effects
  <2>2. Lost(e, i) = Lost(d, i)  BY <1>2, <1>5 DEF Lost
  <2>3. QED  BY <2>1, <2>2
<1>7. Phase(d, i) = "compensating" /\ Phase(e, i) = "compensating"  BY <1>5, OpenNot, PhaseAre
<1>8. QED  BY <1>3, <1>4, <1>5, <1>6, <1>7 DEF SagaUndoes

LEMMA GiveEffects ==
  ASSUME NEW d \in Db, AllFit(d), NEW i \in Instances, NEW k \in Slots(d, i), d.stages[i][k].status = "running",
         NEW e, NEW u, GiveBackCase(d, e, i, k, u), NEW j \in Instances, EffectsFit(d, j, FALSE)
  PROVE  EffectsGoal(d, e, "giveback", u, j)
<1>0. "running" \in OpenStage /\ "queued" \in OpenStage  BY DEF OpenStage
<1>1. CASE AgainCase(d, e, i, k, u)
  <2> DEFINE at == IF d.stages[i][k].kind = "compensation" THEN "compensating" ELSE "queued"
  <2>1. Restood(d, e, i, k, "queued", at) /\ u = <<>>  BY <1>1 DEF AgainCase
  <2>2. CASE j = i
    <3>1. StageFits(d, i, d.stages[i][k])  BY DEF AllFit, Fits
    <3>2. HeadLike(d, e, i)
      <4>1. e.inst[i] = at /\ e.run[i] = at /\ e.ending[i] = d.ending[i]  BY <2>1 DEF Restood, StandsAt
      <4>2. \/ at = "compensating" /\ d.inst[i] = "compensating"
            \/ at \in OpenInst /\ d.inst[i] \in OpenInst
        BY <1>0, <3>1 DEF StageFits, OpenInst
      <4>3. QED  BY <4>1, <4>2 DEF HeadLike
    <3>3. SameEffect(d, e, i, k)
      <4>1. Kept(d, e, i, k) /\ e.stages[i][k].row = d.stages[i][k].row /\ e.stages[i][k].status = "queued"
        BY <2>1 DEF Restood
      <4>2. QED  BY <1>0, <4>1 DEF SameEffect
    <3>4. Slots(e, i) = Slots(d, i) /\ \A m \in Slots(d, i) : m # k => e.stages[i][m] = d.stages[i][m]
      BY <2>1 DEF Restood
    <3>5. SameEffects(d, e, i)  BY <3>2, <3>3, <3>4, PutEffects
    <3>6. QED  BY <2>1, <2>2, <3>5, NoUndoAre, FrameGoal
  <2>3. CASE j # i
    <3>1. Same(d, e, j)  BY <2>1, <2>3 DEF Restood, Touches
    <3>2. QED  BY <2>1, <3>1, SameKeepsEffects, NoUndoAre, FrameGoal
  <2>4. QED  BY <2>2, <2>3
<1>2. CASE GiveUpCase(d, e, i, k, u)
  <2> DEFINE l == d.stages[i][k].of
  <2>1. d.stages[i][k].kind = "compensation" /\ u = <<ToCompensate(i)>>  BY <1>2 DEF GiveUpCase
  <2>2. PICK b \in Db :
          /\ Restood(d, b, i, k, "failed", "compensating")
          /\ IF l \in Slots(d, i) THEN RowSet(b, e, i, l, "failed") ELSE e = b
    BY <1>2 DEF GiveUpCase
  <2>3. Undoing(u, j) <=> j = i  BY <2>1, UndoingOne
  <2>4. CASE j = i
    <3>1. /\ k \in Undoings(d, i) /\ d.inst[i] = "compensating"
          /\ l \in Slots(d, i) /\ l # k
      BY <1>0, <2>1, <2>4, UndoingFits
    <3>2. RowSet(b, e, i, l, "failed")  BY <2>2, <3>1
    <3>3. /\ StandsAt(b, i, "compensating") /\ b.ending[i] = d.ending[i] /\ Slots(b, i) = Slots(d, i)
          /\ \A m \in Slots(d, i) : m # k => b.stages[i][m] = d.stages[i][m]
          /\ Kept(d, b, i, k) /\ b.stages[i][k].row = d.stages[i][k].row /\ b.stages[i][k].status = "failed"
      BY <2>2 DEF Restood
    <3>4. /\ e.inst[i] = b.inst[i] /\ e.run[i] = b.run[i] /\ e.ending[i] = b.ending[i]
          /\ Slots(e, i) = Slots(b, i)
          /\ \A m \in Slots(b, i) : m # l => e.stages[i][m] = b.stages[i][m]
          /\ Kept(b, e, i, l) /\ e.stages[i][l].status = b.stages[i][l].status /\ e.stages[i][l].row = "failed"
      BY <3>2 DEF RowSet, Restages
    <3>5. UndoDone(d, e, i, k, "failed")
      <4> HIDE DEF l
      <4>1. ASSUME NEW m \in Slots(d, i)
            PROVE  /\ Kept(d, e, i, m)
                   /\ e.stages[i][m].row = IF m = l THEN "failed" ELSE d.stages[i][m].row
                   /\ e.stages[i][m].status = IF m = k THEN "failed" ELSE d.stages[i][m].status
        <5>1. CASE m = l  BY <3>1, <3>3, <3>4, <5>1 DEF Kept
        <5>2. CASE m = k  BY <3>1, <3>3, <3>4, <5>2 DEF Kept
        <5>3. CASE m # l /\ m # k  BY <3>1, <3>3, <3>4, <5>3 DEF Kept
        <5>4. QED  BY <5>1, <5>2, <5>3
      <4>2. QED  BY <3>3, <3>4, <4>1 DEF UndoDone, StandsAt, l
    <3>6. d.stages[i][k].status \in OpenStage  BY <1>0
    <3>7. EffectsFit(d, i, FALSE)  BY <2>4
    <3>8. EffectsFit(e, i, TRUE)  BY <3>1, <3>5, <3>6, <3>7, UndoneEffects
    <3>9. Undoing(u, j) = TRUE  BY <2>3, <2>4 DEF Undoing
    <3>10. SagaUndoes(d, e, i)  BY <3>1, <3>5, <3>6, <3>7, UndoneMove
    <3>11. QED  BY <2>4, <3>8, <3>9, <3>10 DEF EffectsGoal, SagaMove
  <2>5. CASE j # i
    <3>1. Same(d, b, j)  BY <2>2, <2>5 DEF Restood, Touches
    <3>2. Same(b, e, j)  BY <2>2, <2>5 DEF RowSet, Restages, Touches, Same
    <3>3. Same(d, e, j)  BY <3>1, <3>2 DEF Same
    <3>4. Undoing(u, j) = FALSE  BY <2>3, <2>5 DEF Undoing
    <3>5. QED  BY <3>3, <3>4, SameGoal
  <2>6. QED  BY <2>4, <2>5
<1>3. CASE FailBackCase(d, e, i, k, u)
  <2>1. d.stages[i][k].kind # "compensation" /\ u = <<ToFail(i, "failed")>> /\ StatusSet(d, e, i, k, "failed")
    BY <1>3 DEF FailBackCase
  <2>2. NoUndo(u)
    <3>1. ToFail(i, "failed").method # "compensate"  BY CallsGive
    <3>2. QED  BY <2>1, <3>1, NoUndoAre
  <2>3. CASE j = i
    <3>1. HeadLike(d, e, i)  BY <2>1 DEF HeadLike, StatusSet, Restages
    <3>2. SameEffect(d, e, i, k)
      <4>1. Kept(d, e, i, k) /\ e.stages[i][k].row = d.stages[i][k].row /\ e.stages[i][k].status = "failed"
        BY <2>1 DEF StatusSet
      <4>2. QED  BY <2>1, <4>1 DEF SameEffect
    <3>3. Slots(e, i) = Slots(d, i) /\ \A m \in Slots(d, i) : m # k => e.stages[i][m] = d.stages[i][m]
      BY <2>1 DEF StatusSet, Restages
    <3>4. SameEffects(d, e, i)  BY <3>1, <3>2, <3>3, PutEffects
    <3>5. QED  BY <2>2, <2>3, <3>4, FrameGoal
  <2>4. CASE j # i
    <3>1. Same(d, e, j)  BY <2>1, <2>4 DEF StatusSet, Restages, Touches
    <3>2. QED  BY <2>2, <3>1, SameKeepsEffects, FrameGoal
  <2>5. QED  BY <2>3, <2>4
<1>4. QED  BY <1>1, <1>2, <1>3 DEF GiveBackCase

LEMMA FailsEffects ==
  ASSUME NEW d \in Db, NEW i \in Instances, NEW s, NEW e, NEW u, FailsCase(d, e, i, s, u),
         NEW j \in Instances, EffectsFit(d, j, FALSE)
  PROVE  EffectsGoal(d, e, "fail", u, j)
<1>1. CASE Still(d, e) /\ u = <<>>
  <2>1. Same(d, e, j)  BY <1>1 DEF Still, Touches
  <2>2. QED  BY <1>1, <2>1, SameKeepsEffects, NoUndoAre, FrameGoal
<1>2. CASE Quiesced(d, e, i) /\ u = <<ToStop(i, s)>>
  <2>1. NoUndo(u)
    <3>1. ToStop(i, s).method # "compensate"  BY CallsGive
    <3>2. QED  BY <1>2, <3>1, NoUndoAre
  <2>2. CASE j = i  BY <1>2, <2>1, <2>2, QuiesceEffects, FrameGoal
  <2>3. CASE j # i
    <3>1. Same(d, e, j)  BY <1>2, <2>3 DEF Quiesced, Touches
    <3>2. QED  BY <2>1, <3>1, SameKeepsEffects, FrameGoal
  <2>4. QED  BY <2>2, <2>3
<1>3. QED  BY <1>1, <1>2 DEF FailsCase

LEMMA LinkEffects ==
  ASSUME NEW d \in Db, NEW i \in Instances, NEW k \in Slots(d, i), d.stages[i][k].kind = "subprocess",
         NEW e, NEW u, LinkCase(d, e, i, k, u), NEW j \in Instances, EffectsFit(d, j, FALSE)
  PROVE  EffectsGoal(d, e, "link", u, j)
<1>1. RowSet(d, e, i, k, "running") /\ u = <<ToParent(Child(d, i, k))>>  BY DEF LinkCase
<1>2. NoUndo(u)
  <2>1. ToParent(Child(d, i, k)).method # "compensate"  BY CallsGive
  <2>2. QED  BY <1>1, <2>1, NoUndoAre
<1>3. CASE j = i
  <2>1. "running" \notin EffectRows  BY DEF EffectRows
  <2>2. SameEffects(d, e, i)  BY <1>1, <2>1, RowSetEffects
  <2>3. QED  BY <1>2, <1>3, <2>2, FrameGoal
<1>4. CASE j # i
  <2>1. Same(d, e, j)  BY <1>1, <1>4 DEF RowSet, Restages, Touches
  <2>2. QED  BY <1>2, <2>1, SameKeepsEffects, FrameGoal
<1>5. QED  BY <1>3, <1>4

LEMMA SyncCallEffects ==
  ASSUME NEW d \in Db, AllFit(d), NEW i \in Instances, NEW e, Synced(d, e, i),
         NEW j \in Instances, EffectsFit(d, j, FALSE)
  PROVE  EffectsGoal(d, e, "sync", <<>>, j)
<1>1. CASE j = i
  <2>1. Fits(d, i)  BY DEF AllFit
  <2>2. SameEffects(d, e, i)  BY <2>1, SyncEffects
  <2>3. QED  BY <1>1, <2>2, NoUndoAre, FrameGoal
<1>2. CASE j # i
  <2>1. Same(d, e, j)  BY <1>2 DEF Synced, Touches
  <2>2. QED  BY <2>1, SameKeepsEffects, NoUndoAre, FrameGoal
<1>3. QED  BY <1>1, <1>2

(* Whatever call is made.                                                   *)
LEMMA CallEffects ==
  ASSUME NEW d \in Db, AllFit(d), NEW c, CallOK(d, c), Each(d, c), NEW e, NEW u, CallCase(d, e, c, u),
         NEW j \in Instances, EffectsFit(d, j, c.method = "compensate" /\ c.i = j)
  PROVE  EffectsGoal(d, e, c.method, u, j)
<1> DEFINE i == c.i
<1>1. c \in Calls  BY DEF CallOK
<1>2. i \in Instances  BY <1>1, CallFields
<1>3. ASSUME c.method # "compensate" PROVE EffectsFit(d, j, FALSE)
  <2>1. (c.method = "compensate" /\ c.i = j) = FALSE  BY <1>3
  <2>2. QED  BY <2>1
<1>4. ASSUME SpentCase(d, e, c, u) PROVE EffectsGoal(d, e, c.method, u, j)
  <2>1. c.method = "advance" /\ Still(d, e) /\ u = <<ToFail(i, "failed")>>  BY <1>4 DEF SpentCase
  <2>2. Same(d, e, j)  BY <2>1 DEF Still, Touches
  <2>3. ToFail(i, "failed").method # "compensate"  BY CallsGive
  <2>4. c.method # "compensate"  BY <2>1
  <2>5. QED  BY <1>3, <2>1, <2>2, <2>3, <2>4, SameKeepsEffects, NoUndoAre, FrameGoal
<1>5. ASSUME StepCase(d, e, c, u) PROVE EffectsGoal(d, e, c.method, u, j)
  <2>1. c.method # "compensate"  BY <1>5 DEF StepCase
  <2>2. QED  BY <1>3, <1>5, <2>1, StepEffects
<1>6. ASSUME c.method = "fail", FailsCase(d, e, i, c.s, u) PROVE EffectsGoal(d, e, c.method, u, j)
  <2>1. c.method # "compensate"  BY <1>6
  <2>2. QED  BY <1>2, <1>3, <1>6, <2>1, FailsEffects
<1>7. ASSUME c.method = "stop", StopCase(d, e, i, c.s, u) PROVE EffectsGoal(d, e, c.method, u, j)
  <2>1. c.method # "compensate" /\ c.s \in {"failed", "cancelled"}  BY <1>1, <1>7, CallFields
  <2>2. d.inst[i] \in OpenInst  BY <1>7 DEF Each, Stopping
  <2>3. QED  BY <1>2, <1>3, <1>7, <2>1, <2>2, StopCallEffects
<1>8. ASSUME c.method = "compensate", NextCase(d, e, i, u) PROVE EffectsGoal(d, e, c.method, u, j)
  <2>1. d.inst[i] = "compensating"  BY <1>8 DEF Each
  <2>2. (c.method = "compensate" /\ c.i = j) = (j = i)  BY <1>8
  <2>3. EffectsFit(d, j, j = i)  BY <2>2
  <2>4. QED  BY <1>2, <1>8, <2>1, <2>3, NextCallEffects
<1>9. ASSUME c.method = "parent", ParentCase(d, e, i, u) PROVE EffectsGoal(d, e, c.method, u, j)
  <2>1. c.method # "compensate"  BY <1>9
  <2>2. QED  BY <1>2, <1>3, <1>9, <2>1, ParentEffects
<1>10. ASSUME c.method = "link", LinkCase(d, e, i, c.k, u) PROVE EffectsGoal(d, e, c.method, u, j)
  <2>1. c.method # "compensate"  BY <1>10
  <2>2. c.k \in Slots(d, i) /\ d.stages[i][c.k].kind = "subprocess"  BY <1>10 DEF Each, LinkReady
  <2>3. QED  BY <1>2, <1>3, <1>10, <2>1, <2>2, LinkEffects
<1>11. ASSUME c.method = "sync", Synced(d, e, i), u = <<>> PROVE EffectsGoal(d, e, c.method, u, j)
  <2>1. c.method # "compensate"  BY <1>11
  <2>2. QED  BY <1>2, <1>3, <1>11, <2>1, SyncCallEffects
<1>12. ASSUME c.method = "giveback", GiveBackCase(d, e, i, c.k, u) PROVE EffectsGoal(d, e, c.method, u, j)
  <2>1. c.method # "compensate"  BY <1>12
  <2>2. c.k \in Slots(d, i) /\ d.stages[i][c.k].status = "running"  BY <1>12 DEF Each
  <2>3. QED  BY <1>2, <1>3, <1>12, <2>1, <2>2, GiveEffects
<1>13. QED  BY <1>4, <1>5, <1>6, <1>7, <1>8, <1>9, <1>10, <1>11, <1>12 DEF CallCase

(***************************************************************************)
(* The effects of all instances, through the calls of a handler.           *)
(***************************************************************************)
AllEven(d, s) == \A j \in Instances : EffectsFit(d, j, Undoing(s, j))

LEMMA OnlyFirst ==
  ASSUME NEW C, NEW d, NEW s \in Seq(Calls), s # <<>>, InOrder(C, d, s), NEW j
  PROVE  Undoing(s, j) = (Head(s).method = "compensate" /\ Head(s).i = j)
<1>1. /\ 1 \in DOMAIN s /\ s[1] = Head(s)
      /\ \A x \in DOMAIN s : x # 1 => 1 < x
  BY HeadOf
<1>2. \A x \in DOMAIN s : x # 1 => s[x].method # "compensate"
  <2>1. TAKE x \in DOMAIN s
  <2>2. HAVE x # 1
  <2>3. Before(C, d, s[1], s[x])  BY <1>1, <2>2 DEF InOrder
  <2>4. QED  BY <2>3 DEF Before, High
<1>3. QED  BY <1>1, <1>2 DEF Undoing

LEMMA UndoingThen ==
  ASSUME NEW C, NEW d, NEW s \in Seq(Calls), s # <<>>, InOrder(C, d, s), NEW u,
         NEW z, IsConcat(z, u, Tail(s)), NEW j
  PROVE  Undoing(z, j) = Undoing(u, j)
<1> DEFINE R == Tail(s)
<1>1. \A x \in DOMAIN R : R[x].method # "compensate"
  <2>1. TAKE x \in DOMAIN R
  <2>2. 1 \in DOMAIN s /\ x + 1 \in DOMAIN s /\ R[x] = s[x + 1] /\ 1 < x + 1  BY HeadOf
  <2>3. Before(C, d, s[1], s[x + 1])  BY <2>2 DEF InOrder
  <2>4. QED  BY <2>2, <2>3 DEF Before, High
<1>2. IsConcat(z, u, R)  OBVIOUS
<1> HIDE DEF R
<1>3. /\ \A x \in DOMAIN u : x \in DOMAIN z /\ z[x] = u[x]
      /\ \A x \in DOMAIN z : x \in DOMAIN u \/ \E l \in DOMAIN R : x = Len(u) + l
      /\ \A l \in DOMAIN R : z[Len(u) + l] = R[l]
  BY <1>2 DEF IsConcat
<1>4. \A x \in DOMAIN z : z[x].method = "compensate" => x \in DOMAIN u  BY <1>1, <1>3
<1>5. QED  BY <1>3, <1>4 DEF Undoing

LEMMA EvenThen ==
  ASSUME NEW C, NEW d \in Db, AllFit(d), NEW s \in Seq(Calls), s # <<>>, InOrder(C, d, s), AllEven(d, s),
         CallOK(d, Head(s)), NEW e, NEW u, CallCase(d, e, Head(s), u),
         NEW z, IsConcat(z, u, Tail(s))
  PROVE  AllEven(e, z) /\ \A j \in Instances : SagaMove(d, e, Head(s).method, j)
<1> SUFFICES ASSUME NEW j \in Instances PROVE EffectsFit(e, j, Undoing(z, j)) /\ SagaMove(d, e, Head(s).method, j)
  BY DEF AllEven
<1> DEFINE c == Head(s)
<1>1. Each(d, c)  BY HeadOf DEF InOrder
<1>2. EffectsFit(d, j, Undoing(s, j))  BY DEF AllEven
<1>3. Undoing(s, j) = (c.method = "compensate" /\ c.i = j)  BY OnlyFirst
<1>4. EffectsFit(d, j, c.method = "compensate" /\ c.i = j)  BY <1>2, <1>3
<1>5. CallOK(d, c) /\ CallCase(d, e, c, u)  OBVIOUS
<1> HIDE DEF c
<1>6. EffectsGoal(d, e, c.method, u, j)  BY <1>1, <1>4, <1>5, CallEffects
<1>7. Undoing(z, j) = Undoing(u, j)  BY UndoingThen
<1>8. QED  BY <1>6, <1>7 DEF EffectsGoal, c

(***************************************************************************)
(* What the handlers do, before their calls, with the effects.             *)
(***************************************************************************)
Calm(d) == Settle(d) /\ AllEven(d, <<>>)

LEMMA CalmAt ==
  ASSUME NEW d, Calm(d), NEW j \in Instances
  PROVE  EffectsFit(d, j, FALSE)
<1>1. Undoing(<<>>, j) = FALSE  BY UndoingAre
<1>2. EffectsFit(d, j, Undoing(<<>>, j))  BY DEF Calm, AllEven
<1>3. QED  BY <1>1, <1>2

(* One stage is completed, and may have an effect.                          *)
SagaGains(d, e, i) ==
  /\ Phase(d, i) = "open" /\ Phase(e, i) = "open" /\ e.ending[i] = d.ending[i]
  /\ Effects(d, i) \subseteq Effects(e, i) /\ \E k : Effects(e, i) \subseteq Effects(d, i) \cup {k}
  /\ Lost(e, i) = Lost(d, i)
SagaBegin(d, e, i) == SagaLasts(d, e, i) \/ SagaOpens(d, e, i) \/ SagaGains(d, e, i) \/ SagaUndoes(d, e, i)
BeginsWell(d, e, u) == AllEven(e, u) /\ \A j \in Instances : SagaBegin(d, e, j)

(* A handler that touches i only, and asks for no compensation.             *)
LEMMA EvenAt ==
  ASSUME NEW d, Calm(d), NEW i \in Instances, NEW e, \A j \in Instances \ {i} : Same(d, e, j),
         EffectsFit(e, i, FALSE), SagaBegin(d, e, i), NEW u, NoUndo(u)
  PROVE  BeginsWell(d, e, u)
<1> SUFFICES ASSUME NEW j \in Instances PROVE EffectsFit(e, j, Undoing(u, j)) /\ SagaBegin(d, e, j)
  BY DEF BeginsWell, AllEven
<1>1. Undoing(u, j) = FALSE  BY DEF Undoing, NoUndo
<1>2. CASE j = i  BY <1>1, <1>2
<1>3. CASE j # i
  <2>1. Same(d, e, j) /\ EffectsFit(d, j, FALSE)  BY <1>3, CalmAt
  <2>2. EvenOn(d, e, j)  BY <2>1, SameKeepsEffects, EvenFrame
  <2>3. QED  BY <1>1, <2>2 DEF EvenOn, SagaBegin
<1>4. QED  BY <1>2, <1>3

LEMMA StillEven ==
  ASSUME NEW d, Calm(d), NEW e, Still(d, e), NEW u, NoUndo(u)
  PROVE  BeginsWell(d, e, u)
<1> SUFFICES ASSUME NEW j \in Instances PROVE EffectsFit(e, j, Undoing(u, j)) /\ SagaBegin(d, e, j)
  BY DEF BeginsWell, AllEven
<1>1. Undoing(u, j) = FALSE  BY DEF Undoing, NoUndo
<1>2. Same(d, e, j) /\ EffectsFit(d, j, FALSE)  BY CalmAt DEF Still, Touches
<1>3. EvenOn(d, e, j)  BY <1>2, SameKeepsEffects, EvenFrame
<1>4. QED  BY <1>1, <1>3 DEF EvenOn, SagaBegin

LEMMA StartEven ==
  ASSUME NEW d, Calm(d), NEW e, NEW u, StartH(d, e, u)
  PROVE  BeginsWell(d, e, u)
<1>1. PICK i \in Instances : /\ d.inst[i] = "absent" /\ Started(d, e, i)
                             /\ u = <<ToAdvance(i, Root, StartOf[i])>>
  BY DEF StartH
<1>2. HeadFits(d, i)  BY DEF Calm, Settle, AllFit, Fits
<1>3. Touches(d, e, {i}) /\ e.inst[i] = "queued" /\ e.stages[i] = <<>>
  BY <1>1, <1>2 DEF Started, StandsAt, HeadFits
<1>4. "queued" \in OpenInst  BY DEF OpenInst
<1>5. EffectsFit(e, i, FALSE)  BY <1>3, <1>4, BornEffects
<1>6. ToAdvance(i, Root, StartOf[i]).method # "compensate"  BY CallsGive
<1>7. NoUndo(u)  BY <1>1, <1>6, NoUndoAre
<1>8. SagaBegin(d, e, i)
  <2>1. Phase(d, i) = "absent" /\ Phase(e, i) = "open"
    <3>1. "absent" \notin OpenInst  BY DEF OpenInst
    <3>2. QED  BY <1>1, <1>3, <1>4, <3>1 DEF Phase, PhaseOf
  <2>2. d.stages[i] = <<>> /\ e.ending[i] = d.ending[i]  BY <1>1, <1>2 DEF HeadFits, Started
  <2>3. Effects(d, i) = {} /\ Effects(e, i) = {} /\ Lost(e, i) = Lost(d, i)  BY <1>3, <2>2 DEF Effects, Lost, Slots
  <2>4. SagaOpens(d, e, i)  BY <2>1, <2>2, <2>3 DEF SagaOpens
  <2>5. QED  BY <2>4 DEF SagaBegin
<1>9. QED  BY <1>3, <1>5, <1>7, <1>8, EvenAt DEF Touches

LEMMA CancelEven ==
  ASSUME NEW d, Calm(d), NEW e, NEW u, CancelH(d, e, u)
  PROVE  BeginsWell(d, e, u)
<1>1. PICK i \in Instances : Still(d, e) /\ u = <<ToFail(i, "cancelled")>>  BY DEF CancelH
<1>2. ToFail(i, "cancelled").method # "compensate"  BY CallsGive
<1>3. NoUndo(u)  BY <1>1, <1>2, NoUndoAre
<1>4. QED  BY <1>1, <1>3, StillEven

LEMMA GiveEven ==
  ASSUME NEW d, Calm(d), NEW e, NEW u, GiveH(d, e, u)
  PROVE  BeginsWell(d, e, u)
<1>1. PICK i \in Instances : \E k \in Slots(d, i) : \E again \in BOOLEAN :
        Still(d, e) /\ u = <<ToGiveBack(i, k, again)>>
  BY DEF GiveH
<1>2. PICK k \in Slots(d, i) : \E again \in BOOLEAN : Still(d, e) /\ u = <<ToGiveBack(i, k, again)>>
  BY <1>1
<1>3. PICK again \in BOOLEAN : Still(d, e) /\ u = <<ToGiveBack(i, k, again)>>  BY <1>2
<1>4. ToGiveBack(i, k, again).method # "compensate"  BY DEF ToGiveBack
<1>5. NoUndo(u)  BY <1>3, <1>4, NoUndoAre
<1>6. QED  BY <1>3, <1>5, StillEven

LEMMA GoEven ==
  ASSUME NEW d, Calm(d), NEW e, NEW u, GoH(d, e, u)
  PROVE  BeginsWell(d, e, u)
<1>1. PICK i \in Instances : \E k \in Slots(d, i) : \E r :
        /\ GoRow(d.stages[i][k], r) /\ d.stages[i][k].kind # "compensation"
        /\ Ends(d, e, i, k, r, "completed")
        /\ u = <<ToAdvance(i, d.stages[i][k].token, To(d.stages[i][k].node)[1]), ToSync(i)>>
  BY DEF GoH
<1>2. PICK k \in Slots(d, i) : \E r :
        /\ GoRow(d.stages[i][k], r) /\ d.stages[i][k].kind # "compensation"
        /\ Ends(d, e, i, k, r, "completed")
        /\ u = <<ToAdvance(i, d.stages[i][k].token, To(d.stages[i][k].node)[1]), ToSync(i)>>
  BY <1>1
<1>3. PICK r :
        /\ GoRow(d.stages[i][k], r) /\ d.stages[i][k].kind # "compensation"
        /\ Ends(d, e, i, k, r, "completed")
        /\ u = <<ToAdvance(i, d.stages[i][k].token, To(d.stages[i][k].node)[1]), ToSync(i)>>
  BY <1>2
<1>4. d \in Db /\ StageFits(d, i, d.stages[i][k])  BY DEF Calm, Settle, AllFit, Fits
<1>5. d.inst[i] \in OpenInst  BY <1>3, <1>4 DEF StageFits, GoRow, OpenStage
<1>6. OpenRows(d, i)  BY <1>5, CalmAt, OpenEffects
<1>7. /\ e.inst[i] = d.inst[i] /\ Slots(e, i) = Slots(d, i)
      /\ \A m \in Slots(d, i) : m # k => e.stages[i][m] = d.stages[i][m]
      /\ Kept(d, e, i, k) /\ e.stages[i][k].row = r /\ e.stages[i][k].status = "completed"
  BY <1>3 DEF Ends
<1>8. OpenRow(e.stages[i][k])
  <2> DEFINE st == d.stages[i][k]  nt == e.stages[i][k]
  <2>1. nt.kind = st.kind /\ nt.node = st.node /\ nt.row = r /\ nt.status = "completed"  BY <1>7 DEF Kept
  <2>2. OpenRow(st) /\ GoRow(st, r)  BY <1>3, <1>6 DEF OpenRows
  <2>3. st.row = "waiting" => st.kind = "signal"  BY <1>4, WaitingRow
  <2> HIDE DEF st, nt
  <2>4. ASSUME st.status = "running", r = (IF st.node \in Compensated THEN "armed" ELSE st.row) PROVE OpenRow(nt)
    BY <2>1, <2>2, <2>4 DEF OpenRow, EffectRows
  <2>5. ASSUME st.kind \in {"wait", "approval"}, r = st.row PROVE OpenRow(nt)
    BY <2>1, <2>2, <2>5 DEF OpenRow, EffectRows
  <2>6. ASSUME st.row = "waiting", r = "delivered" PROVE OpenRow(nt)
    BY <2>1, <2>2, <2>3, <2>6 DEF OpenRow, EffectRows
  <2>7. OpenRow(nt)  BY <2>2, <2>4, <2>5, <2>6 DEF GoRow
  <2>8. QED  BY <2>7 DEF nt
<1>9. OpenRows(e, i)  BY <1>6, <1>7, <1>8 DEF OpenRows
<1>10. EffectsFit(e, i, FALSE)  BY <1>5, <1>7, <1>9, OpenFitsBack
<1>11. \A v, n : ToAdvance(i, v, n).method # "compensate" /\ ToSync(i).method # "compensate"  BY CallsGive
<1>12. NoUndo(u)  BY <1>3, <1>11, NoUndoAre
<1>13. SagaBegin(d, e, i)
  <2>1. d.stages[i][k].row \notin {"armed", "queued"}
    <3> DEFINE st == d.stages[i][k]
    <3>1. OpenRow(st) /\ GoRow(st, r)  BY <1>3, <1>6 DEF OpenRows
    <3> HIDE DEF st
    <3>2. st.row \notin {"armed", "queued"}  BY <3>1 DEF OpenRow, GoRow, EffectRows
    <3>3. QED  BY <3>2 DEF st
  <2>2. Effects(d, i) \subseteq Effects(e, i) /\ Effects(e, i) \subseteq Effects(d, i) \cup {k}
    BY <1>7, <2>1 DEF Effects
  <2>3. e.ending[i] = d.ending[i]  BY <1>3 DEF Ends
  <2>4. Phase(d, i) = "open" /\ Phase(e, i) = "open"  BY <1>5, <1>7, PhaseAre
  <2>5. Lost(e, i) = Lost(d, i)
    <3> DEFINE st == d.stages[i][k]
    <3>1. OpenRow(st) /\ GoRow(st, r)  BY <1>3, <1>6 DEF OpenRows
    <3>2. e.stages[i][k].kind = st.kind /\ e.stages[i][k].row = r  BY <1>7 DEF Kept
    <3> HIDE DEF st
    <3>3. st.kind = "http" => st.row # "cancelled" /\ r # "cancelled"  BY <3>1 DEF OpenRow, GoRow
    <3>4. QED  BY <1>7, <3>2, <3>3 DEF Lost, st
  <2>6. SagaGains(d, e, i)  BY <2>2, <2>3, <2>4, <2>5 DEF SagaGains
  <2>7. QED  BY <2>6 DEF SagaBegin
<1>14. QED  BY <1>3, <1>10, <1>12, <1>13, EvenAt DEF Ends, Touches

(* Of i one stage is changed, whose effect is as it was.                    *)
LEMMA PutEven ==
  ASSUME NEW d, Calm(d), NEW i \in Instances, NEW k \in Slots(d, i), NEW e, NEW u, NoUndo(u),
         \A j \in Instances \ {i} : Same(d, e, j), Slots(e, i) = Slots(d, i),
         \A m \in Slots(d, i) : m # k => e.stages[i][m] = d.stages[i][m],
         SameEffect(d, e, i, k), HeadLike(d, e, i)
  PROVE  BeginsWell(d, e, u)
<1>1. EffectsFit(d, i, FALSE)  BY CalmAt
<1>2. SameEffects(d, e, i)  BY PutEffects
<1>3. EvenOn(d, e, i)  BY <1>1, <1>2, EvenFrame
<1>4. QED  BY <1>3, EvenAt DEF EvenOn, SagaBegin

(* A stage of a node without a compensation is no compensation.             *)
LEMMA NoUndoStage ==
  ASSUME NEW d, Calm(d), NEW i \in Instances, NEW k \in Slots(d, i),
         \/ d.stages[i][k].node \in Contracted
         \/ d.stages[i][k].status = "waiting_approval"
         \/ d.stages[i][k].row = "waiting"
  PROVE  d.stages[i][k].kind # "compensation"
<1> DEFINE st == d.stages[i][k]
<1>1. d \in Db /\ EffectFits(d, i, st)  BY CalmAt DEF Calm, Settle, EffectsFit
<1>2. st \in StageSet  BY <1>1, SlotsAre
<1> HIDE DEF st
<1>3. CASE st.node \in Contracted
  <2>1. st.node \notin Compensated  BY <1>3, GraphAssumption
  <2>2. QED  BY <1>1, <2>1 DEF EffectFits, UndoFits, st
<1>4. CASE st.status = "waiting_approval"
  <2>1. st.kind # "compensation"  BY <1>2, <1>4 DEF StageSet, StageOK
  <2>2. QED  BY <2>1 DEF st
<1>5. CASE st.row = "waiting"
  <2>1. st.kind # "compensation"  BY <1>1, <1>5 DEF EffectFits, UndoFits
  <2>2. QED  BY <2>1 DEF st
<1>6. QED  BY <1>3, <1>4, <1>5 DEF st

LEMMA BreakEven ==
  ASSUME NEW d, Calm(d), NEW e, NEW u, BreakH(d, e, u)
  PROVE  BeginsWell(d, e, u)
<1>1. PICK i \in Instances : \E k \in Slots(d, i) : \E r : \E s \in {"failed", "cancelled"} :
        /\ d.stages[i][k].status \in OpenStage
        /\ \/ d.stages[i][k].status = "running" /\ d.stages[i][k].node \in Contracted /\ r = d.stages[i][k].row
           \/ d.stages[i][k].status = "waiting_approval" /\ r = d.stages[i][k].row
           \/ d.stages[i][k].row = "waiting" /\ r = "expired"
        /\ Ends(d, e, i, k, r, s) /\ u = <<ToFail(i, s)>>
  BY DEF BreakH
<1>2. PICK k \in Slots(d, i) : \E r : \E s \in {"failed", "cancelled"} :
        /\ d.stages[i][k].status \in OpenStage
        /\ \/ d.stages[i][k].status = "running" /\ d.stages[i][k].node \in Contracted /\ r = d.stages[i][k].row
           \/ d.stages[i][k].status = "waiting_approval" /\ r = d.stages[i][k].row
           \/ d.stages[i][k].row = "waiting" /\ r = "expired"
        /\ Ends(d, e, i, k, r, s) /\ u = <<ToFail(i, s)>>
  BY <1>1
<1>3. PICK r : \E s \in {"failed", "cancelled"} :
        /\ d.stages[i][k].status \in OpenStage
        /\ \/ d.stages[i][k].status = "running" /\ d.stages[i][k].node \in Contracted /\ r = d.stages[i][k].row
           \/ d.stages[i][k].status = "waiting_approval" /\ r = d.stages[i][k].row
           \/ d.stages[i][k].row = "waiting" /\ r = "expired"
        /\ Ends(d, e, i, k, r, s) /\ u = <<ToFail(i, s)>>
  BY <1>2
<1>4. PICK s \in {"failed", "cancelled"} : Ends(d, e, i, k, r, s) /\ u = <<ToFail(i, s)>>  BY <1>3
<1>5. d \in Db /\ StageFits(d, i, d.stages[i][k])  BY DEF Calm, Settle, AllFit, Fits
<1>6. d.stages[i][k].kind # "compensation"  BY <1>3, NoUndoStage
<1>7. d.inst[i] \in OpenInst  BY <1>3, <1>5, <1>6 DEF StageFits
<1>8. /\ e.inst[i] = d.inst[i] /\ e.ending[i] = d.ending[i] /\ Slots(e, i) = Slots(d, i)
      /\ \A m \in Slots(d, i) : m # k => e.stages[i][m] = d.stages[i][m]
      /\ Kept(d, e, i, k) /\ e.stages[i][k].row = r /\ e.stages[i][k].status = s
      /\ \A j \in Instances \ {i} : Same(d, e, j)
  BY <1>4 DEF Ends, Touches
<1>9. HeadLike(d, e, i)  BY <1>7, <1>8 DEF HeadLike
<1>10. d.stages[i][k].row = "waiting" => d.stages[i][k].kind = "signal"  BY <1>5, WaitingRow
<1>11. SameEffect(d, e, i, k)
  <2>1. "completed" \notin OpenStage  BY DEF OpenStage
  <2>2. d.stages[i][k].status # "completed" /\ e.stages[i][k].status # "completed"  BY <1>3, <1>4, <1>8, <2>1
  <2>3. r = d.stages[i][k].row \/ (d.stages[i][k].kind = "signal" /\ r = "expired")  BY <1>3, <1>10
  <2>4. QED  BY <1>6, <1>8, <2>2, <2>3 DEF SameEffect, EffectRows
<1>12. ToFail(i, s).method # "compensate"  BY CallsGive
<1>13. NoUndo(u)  BY <1>4, <1>12, NoUndoAre
<1>14. QED  BY <1>8, <1>9, <1>11, <1>13, PutEven

LEMMA LateEven ==
  ASSUME NEW d, Calm(d), NEW e, NEW u, LateH(d, e, u)
  PROVE  BeginsWell(d, e, u)
<1>1. PICK i \in Instances : \E k \in Slots(d, i) :
        /\ d.stages[i][k].row = "waiting" /\ RowSet(d, e, i, k, "expired") /\ u = <<ToFail(i, "failed")>>
  BY DEF LateH
<1>2. PICK k \in Slots(d, i) :
        /\ d.stages[i][k].row = "waiting" /\ RowSet(d, e, i, k, "expired") /\ u = <<ToFail(i, "failed")>>
  BY <1>1
<1>3. d \in Db  BY DEF Calm, Settle
<1>4. d.stages[i][k].kind = "signal" /\ "expired" \notin EffectRows  BY <1>2, <1>3, WaitingRow DEF EffectRows
<1>5. SameEffects(d, e, i)  BY <1>2, <1>4, RowSetEffects
<1>6. EvenOn(d, e, i)  BY <1>5, CalmAt, EvenFrame
<1>7. ToFail(i, "failed").method # "compensate"  BY CallsGive
<1>8. NoUndo(u)  BY <1>2, <1>7, NoUndoAre
<1>9. \A j \in Instances \ {i} : Same(d, e, j)  BY <1>2 DEF RowSet, Restages, Touches
<1>10. QED  BY <1>6, <1>8, <1>9, EvenAt DEF EvenOn, SagaBegin

LEMMA UndoneEven ==
  ASSUME NEW d, Calm(d), NEW e, e \in Db, NEW u, UndoneH(d, e, u)
  PROVE  BeginsWell(d, e, u)
<1>1. PICK i \in Instances : \E k \in Slots(d, i) :
        /\ d.stages[i][k].kind = "compensation" /\ d.stages[i][k].status = "running"
        /\ UndoEnds(d, e, i, k, "completed") /\ u = <<ToCompensate(i)>>
  BY DEF UndoneH
<1>2. PICK k \in Slots(d, i) :
        /\ d.stages[i][k].kind = "compensation" /\ d.stages[i][k].status = "running"
        /\ UndoEnds(d, e, i, k, "completed") /\ u = <<ToCompensate(i)>>
  BY <1>1
<1> DEFINE l == d.stages[i][k].of
<1>3. PICK b \in Db :
        /\ Ends(d, b, i, k, d.stages[i][k].row, "completed") /\ b.run[i] = d.run[i]
        /\ IF l \in Slots(d, i) THEN RowSet(b, e, i, l, "completed") ELSE e = b
  BY <1>2 DEF UndoEnds
<1>4. d \in Db /\ AllFit(d) /\ EffectsFit(d, i, FALSE)  BY CalmAt DEF Calm, Settle
<1>5. d.stages[i][k].status \in OpenStage  BY <1>2 DEF OpenStage
<1>6. /\ k \in Undoings(d, i) /\ d.inst[i] = "compensating" /\ d.run[i] = "compensating"
      /\ l \in Slots(d, i) /\ l # k
  BY <1>2, <1>4, <1>5, UndoingFits
<1>7. RowSet(b, e, i, l, "completed")  BY <1>3, <1>6
<1>8. /\ b.inst[i] = d.inst[i] /\ b.run[i] = d.run[i] /\ b.ending[i] = d.ending[i] /\ Slots(b, i) = Slots(d, i)
      /\ \A m \in Slots(d, i) : m # k => b.stages[i][m] = d.stages[i][m]
      /\ Kept(d, b, i, k) /\ b.stages[i][k].row = d.stages[i][k].row /\ b.stages[i][k].status = "completed"
  BY <1>3 DEF Ends
<1>9. /\ e.inst[i] = b.inst[i] /\ e.run[i] = b.run[i] /\ e.ending[i] = b.ending[i]
      /\ Slots(e, i) = Slots(b, i)
      /\ \A m \in Slots(b, i) : m # l => e.stages[i][m] = b.stages[i][m]
      /\ Kept(b, e, i, l) /\ e.stages[i][l].status = b.stages[i][l].status /\ e.stages[i][l].row = "completed"
  BY <1>7 DEF RowSet, Restages
<1>10. UndoDone(d, e, i, k, "completed")
  <2> HIDE DEF l
  <2>1. ASSUME NEW m \in Slots(d, i)
        PROVE  /\ Kept(d, e, i, m)
               /\ e.stages[i][m].row = IF m = l THEN "completed" ELSE d.stages[i][m].row
               /\ e.stages[i][m].status = IF m = k THEN "completed" ELSE d.stages[i][m].status
    <3>1. CASE m = l  BY <1>6, <1>8, <1>9, <3>1 DEF Kept
    <3>2. CASE m = k  BY <1>6, <1>8, <1>9, <3>2 DEF Kept
    <3>3. CASE m # l /\ m # k  BY <1>6, <1>8, <1>9, <3>3 DEF Kept
    <3>4. QED  BY <3>1, <3>2, <3>3
  <2>2. QED  BY <1>6, <1>8, <1>9, <2>1 DEF UndoDone, l
<1>11. EffectsFit(e, i, TRUE)  BY <1>4, <1>5, <1>6, <1>10, UndoneEffects
<1>12. SagaUndoes(d, e, i)  BY <1>4, <1>5, <1>6, <1>10, UndoneMove
<1> SUFFICES ASSUME NEW j \in Instances PROVE EffectsFit(e, j, Undoing(u, j)) /\ SagaBegin(d, e, j)
  BY DEF BeginsWell, AllEven
<1>13. Undoing(u, j) <=> j = i  BY <1>2, UndoingOne
<1>14. CASE j = i
  <2>1. Undoing(u, j) = TRUE  BY <1>13, <1>14 DEF Undoing
  <2>2. QED  BY <1>11, <1>12, <1>14, <2>1 DEF SagaBegin
<1>15. CASE j # i
  <2>1. Same(d, b, j)  BY <1>3, <1>15 DEF Ends, Touches
  <2>2. Same(b, e, j)  BY <1>7, <1>15 DEF RowSet, Restages, Touches, Same
  <2>3. Same(d, e, j)  BY <2>1, <2>2 DEF Same
  <2>4. Undoing(u, j) = FALSE  BY <1>13, <1>15 DEF Undoing
  <2>5. EvenOn(d, e, j)  BY <2>3, CalmAt, SameKeepsEffects, EvenFrame
  <2>6. QED  BY <2>4, <2>5 DEF EvenOn, SagaBegin
<1>16. QED  BY <1>14, <1>15

LEMMA BeginsEven ==
  ASSUME NEW d, Calm(d), Lone(d), NEW e \in Db, NEW u, Handled(d, e, u)
  PROVE  BeginsWell(d, e, u)
<1>1. CASE SweepH(d, e, u)
  <2>1. GiveH(d, e, u)  BY <1>1 DEF SweepH
  <2>2. QED  BY <2>1, GiveEven
<1>2. QED  BY <1>1, StartEven, CancelEven, GoEven, UndoneEven, BreakEven, LateEven, GiveEven DEF Handled

(* A handler that makes no call.                                            *)
LEMMA PlainEven ==
  ASSUME NEW d, Calm(d), NEW i \in Instances, NEW k \in Slots(d, i), NEW e,
         LeaseCase(d, e, i, k) \/ LapseCase(d, e, i, k) \/ ApproveCase(d, e, i, k)
  PROVE  BeginsWell(d, e, <<>>)
<1>1. d \in Db /\ StageFits(d, i, d.stages[i][k])  BY DEF Calm, Settle, AllFit, Fits
<1>2. NoUndo(<<>>)  BY NoUndoAre
<1>3. /\ \A j \in Instances \ {i} : Same(d, e, j) /\ Slots(e, i) = Slots(d, i)
      /\ \A m \in Slots(d, i) : m # k => e.stages[i][m] = d.stages[i][m]
      /\ Kept(d, e, i, k) /\ e.stages[i][k].row = d.stages[i][k].row
      /\ e.ending[i] = d.ending[i] /\ Slots(e, i) = Slots(d, i)
      /\ d.stages[i][k].status \in OpenStage /\ e.stages[i][k].status \in OpenStage
  <2>1. CASE LeaseCase(d, e, i, k)  BY <2>1 DEF LeaseCase, Others, OpenStage
  <2>2. CASE LapseCase(d, e, i, k)  BY <2>2 DEF LapseCase, Others, OpenStage
  <2>3. CASE ApproveCase(d, e, i, k)  BY <2>3 DEF ApproveCase, Touches, OpenStage
  <2>4. QED  BY <2>1, <2>2, <2>3
<1>4. "completed" \notin OpenStage  BY DEF OpenStage
<1>5. SameEffect(d, e, i, k)  BY <1>3, <1>4 DEF SameEffect
<1>6. HeadLike(d, e, i)
  <2>1. CASE LeaseCase(d, e, i, k)
    <3> DEFINE at == IF d.stages[i][k].kind = "compensation" THEN "compensating" ELSE "running"
    <3>1. e.inst[i] = at /\ e.run[i] = at  BY <2>1 DEF LeaseCase, StandsAt
    <3>2. \/ at = "compensating" /\ d.inst[i] = "compensating"
          \/ at \in OpenInst /\ d.inst[i] \in OpenInst
      BY <1>1, <1>3 DEF StageFits, OpenInst
    <3>3. QED  BY <1>3, <3>1, <3>2 DEF HeadLike
  <2>2. CASE LapseCase(d, e, i, k)  BY <1>3, <2>2 DEF LapseCase, HeadLike
  <2>3. CASE ApproveCase(d, e, i, k)
    <3>1. d.stages[i][k].kind # "compensation"  BY <2>3, NoUndoStage DEF ApproveCase
    <3>2. d.inst[i] \in OpenInst  BY <1>1, <1>3, <3>1 DEF StageFits
    <3>3. e.inst[i] \in OpenInst  BY <2>3 DEF ApproveCase, OpenInst
    <3>4. QED  BY <1>3, <3>2, <3>3 DEF HeadLike
  <2>4. QED  BY <2>1, <2>2, <2>3
<1>7. QED  BY <1>2, <1>3, <1>5, <1>6, PutEven

(***************************************************************************)
(* What a handler has done for the effects of an instance, so far: b is    *)
(* the database it found, d the one it has reached.                        *)
(***************************************************************************)
SagaBorn(b, d, i) ==
  /\ Phase(b, i) = "absent" /\ Phase(d, i) \in {"open"} \cup Ended
  /\ Effects(b, i) = {} /\ Effects(d, i) = {} /\ d.ending[i] = b.ending[i]
  /\ Lost(d, i) = Lost(b, i)
SagaTurned(b, d, i) ==
  /\ Phase(b, i) = "open" /\ Phase(d, i) = "compensating"
  /\ Effects(b, i) \subseteq Effects(d, i) /\ \E k : Effects(d, i) \subseteq Effects(b, i) \cup {k}
  /\ Effects(d, i) # {} /\ d.ending[i] \in {"failed", "cancelled"}
  /\ Lost(d, i) = Lost(b, i)
SagaEnded(b, d, i) ==
  /\ Phase(b, i) = "compensating" /\ Phase(d, i) = b.ending[i] /\ b.ending[i] \in {"failed", "cancelled"}
  /\ \E k \in Effects(b, i) : (\A j \in Effects(b, i) : j <= k) /\ Effects(d, i) = Effects(b, i) \ {k}
  /\ Effects(d, i) = {} /\ d.ending[i] = b.ending[i]
  /\ Lost(d, i) = Lost(b, i)
SagaPath(b, d, i) ==
  \/ SagaLasts(b, d, i) \/ SagaBorn(b, d, i) \/ SagaGains(b, d, i) \/ SagaCompletes(b, d, i)
  \/ SagaTurned(b, d, i) \/ SagaFails(b, d, i) \/ SagaUndoes(b, d, i) \/ SagaEnded(b, d, i)

LEMMA PathBegins ==
  ASSUME NEW b, NEW d, NEW i, SagaBegin(b, d, i)
  PROVE  SagaPath(b, d, i)
<1>1. SagaOpens(b, d, i) => SagaBorn(b, d, i)  BY DEF SagaOpens, SagaBorn
<1>2. QED  BY <1>1 DEF SagaBegin, SagaPath

LEMMA PathLasts ==
  ASSUME NEW b, NEW d, NEW e, NEW i, SagaPath(b, d, i), SagaLasts(d, e, i)
  PROVE  SagaPath(b, e, i)
<1>1. /\ Phase(e, i) = Phase(d, i) /\ Effects(e, i) = Effects(d, i) /\ e.ending[i] = d.ending[i]
      /\ Lost(e, i) = Lost(d, i)
  BY DEF SagaLasts
<1>2. CASE SagaLasts(b, d, i)
  <2>1. SagaLasts(b, e, i)  BY <1>1, <1>2 DEF SagaLasts
  <2>2. QED  BY <2>1 DEF SagaPath
<1>3. CASE SagaBorn(b, d, i)
  <2>1. SagaBorn(b, e, i)  BY <1>1, <1>3 DEF SagaBorn
  <2>2. QED  BY <2>1 DEF SagaPath
<1>4. CASE SagaGains(b, d, i)
  <2>1. SagaGains(b, e, i)  BY <1>1, <1>4 DEF SagaGains
  <2>2. QED  BY <2>1 DEF SagaPath
<1>5. CASE SagaCompletes(b, d, i)
  <2>1. SagaCompletes(b, e, i)  BY <1>1, <1>5 DEF SagaCompletes
  <2>2. QED  BY <2>1 DEF SagaPath
<1>6. CASE SagaTurned(b, d, i)
  <2>1. SagaTurned(b, e, i)  BY <1>1, <1>6 DEF SagaTurned
  <2>2. QED  BY <2>1 DEF SagaPath
<1>7. CASE SagaFails(b, d, i)
  <2>1. SagaFails(b, e, i)  BY <1>1, <1>7 DEF SagaFails
  <2>2. QED  BY <2>1 DEF SagaPath
<1>8. CASE SagaUndoes(b, d, i)
  <2>1. SagaUndoes(b, e, i)  BY <1>1, <1>8 DEF SagaUndoes
  <2>2. QED  BY <2>1 DEF SagaPath
<1>9. CASE SagaEnded(b, d, i)
  <2>1. SagaEnded(b, e, i)  BY <1>1, <1>9 DEF SagaEnded
  <2>2. QED  BY <2>1 DEF SagaPath
<1>10. QED  BY <1>2, <1>3, <1>4, <1>5, <1>6, <1>7, <1>8, <1>9 DEF SagaPath

LEMMA PathOpens ==
  ASSUME NEW b, NEW d, NEW e, NEW i, SagaPath(b, d, i), SagaOpens(d, e, i)
  PROVE  SagaPath(b, e, i)
<1>1. Phase(d, i) = "absent"  BY DEF SagaOpens
<1>2. SagaLasts(b, d, i)
  <2>1. "absent" \notin Ended  BY DEF Ended
  <2>2. QED  BY <1>1, <2>1
    DEF SagaPath, SagaBorn, SagaGains, SagaCompletes, SagaTurned, SagaFails, SagaUndoes, SagaEnded
<1>3. SagaBorn(b, e, i)  BY <1>2 DEF SagaLasts, SagaOpens, SagaBorn
<1>4. QED  BY <1>3 DEF SagaPath

(* An instance that is open has been open, or is new, or has one effect more. *)
LEMMA PathOpen ==
  ASSUME NEW b, NEW d, NEW i, SagaPath(b, d, i), Phase(d, i) = "open"
  PROVE  SagaLasts(b, d, i) \/ SagaBorn(b, d, i) \/ SagaGains(b, d, i)
BY DEF SagaPath, SagaCompletes, SagaTurned, SagaFails, SagaUndoes, SagaEnded

LEMMA PathEnds ==
  ASSUME NEW b, NEW d, NEW e, NEW i, SagaPath(b, d, i),
         SagaCompletes(d, e, i) \/ SagaTurns(d, e, i) \/ SagaFails(d, e, i)
  PROVE  SagaPath(b, e, i)
<1>1. Phase(d, i) = "open"  BY DEF SagaCompletes, SagaTurns, SagaFails
<1>2. SagaLasts(b, d, i) \/ SagaBorn(b, d, i) \/ SagaGains(b, d, i)  BY <1>1, PathOpen
<1>3. \E k : Effects(d, i) \subseteq Effects(d, i) \cup {k}  OBVIOUS
<1>4. CASE SagaCompletes(d, e, i)
  <2>1. ASSUME SagaLasts(b, d, i) \/ SagaGains(b, d, i) PROVE SagaCompletes(b, e, i)
    BY <1>4, <2>1 DEF SagaLasts, SagaGains, SagaCompletes
  <2>2. ASSUME SagaBorn(b, d, i) PROVE SagaBorn(b, e, i)
    BY <1>4, <2>2 DEF SagaBorn, SagaCompletes, Ended
  <2>3. QED  BY <1>2, <2>1, <2>2 DEF SagaPath
<1>5. CASE SagaTurns(d, e, i)
  <2>1. ASSUME SagaLasts(b, d, i) PROVE SagaTurned(b, e, i)
    BY <1>3, <1>5, <2>1 DEF SagaLasts, SagaTurns, SagaTurned
  <2>2. ASSUME SagaGains(b, d, i) PROVE SagaTurned(b, e, i)
    BY <1>5, <2>2 DEF SagaGains, SagaTurns, SagaTurned
  <2>3. ~SagaBorn(b, d, i)  BY <1>5 DEF SagaBorn, SagaTurns
  <2>4. QED  BY <1>2, <2>1, <2>2, <2>3 DEF SagaPath
<1>6. CASE SagaFails(d, e, i)
  <2>1. ASSUME SagaLasts(b, d, i) PROVE SagaFails(b, e, i)
    BY <1>6, <2>1 DEF SagaLasts, SagaFails
  <2>2. ASSUME SagaGains(b, d, i) PROVE SagaFails(b, e, i)
    <3>1. Effects(b, i) = {}  BY <1>6, <2>2 DEF SagaGains, SagaFails
    <3>2. QED  BY <1>6, <2>2, <3>1 DEF SagaGains, SagaFails
  <2>3. ASSUME SagaBorn(b, d, i) PROVE SagaBorn(b, e, i)
    BY <1>6, <2>3 DEF SagaBorn, SagaFails, Ended
  <2>4. QED  BY <1>2, <2>1, <2>2, <2>3 DEF SagaPath
<1>7. QED  BY <1>4, <1>5, <1>6

(* A compensating instance has effects to undo, when a handler finds it.    *)
HasEffects(b, i) == Phase(b, i) = "compensating" => Effects(b, i) # {}

LEMMA PathSettles ==
  ASSUME NEW b, NEW d, NEW e, NEW i, HasEffects(b, i), SagaPath(b, d, i), SagaEnds(d, e, i)
  PROVE  SagaPath(b, e, i)
<1>1. Phase(d, i) = "compensating" /\ Effects(d, i) = {}  BY DEF SagaEnds
<1>2. ~SagaLasts(b, d, i)  BY <1>1 DEF SagaLasts, HasEffects
<1>3. SagaUndoes(b, d, i)
  <2>1. "compensating" \notin Ended  BY DEF Ended
  <2>2. b.ending[i] \in {"failed", "cancelled"} => b.ending[i] # "compensating"  OBVIOUS
  <2>3. QED  BY <1>1, <1>2, <2>1, <2>2
    DEF SagaPath, SagaBorn, SagaGains, SagaCompletes, SagaTurned, SagaFails, SagaEnded
<1>4. SagaEnded(b, e, i)
  <2>1. /\ Phase(b, i) = "compensating" /\ d.ending[i] = b.ending[i] /\ Lost(d, i) = Lost(b, i)
        /\ \E k \in Effects(b, i) : (\A j \in Effects(b, i) : j <= k) /\ Effects(d, i) = Effects(b, i) \ {k}
    BY <1>3 DEF SagaUndoes
  <2>2. /\ Phase(e, i) = d.ending[i] /\ d.ending[i] \in {"failed", "cancelled"}
        /\ Effects(e, i) = Effects(d, i) /\ e.ending[i] = d.ending[i] /\ Lost(e, i) = Lost(d, i)
    BY DEF SagaEnds
  <2>3. QED  BY <1>1, <2>1, <2>2 DEF SagaEnded
<1>5. QED  BY <1>4 DEF SagaPath

(* One call more.                                                           *)
LEMMA PathThen ==
  ASSUME NEW b, NEW d, NEW e, NEW m, NEW i, HasEffects(b, i), SagaPath(b, d, i),
         m = "giveback" => SagaLasts(b, d, i), SagaMove(d, e, m, i)
  PROVE  SagaPath(b, e, i)
<1>1. ASSUME m = "giveback", SagaUndoes(d, e, i) PROVE SagaPath(b, e, i)
  <2>1. SagaLasts(b, d, i)  BY <1>1
  <2>2. SagaUndoes(b, e, i)  BY <1>1, <2>1 DEF SagaLasts, SagaUndoes
  <2>3. QED  BY <2>2 DEF SagaPath
<1>2. QED  BY <1>1, PathLasts, PathOpens, PathEnds, PathSettles DEF SagaMove

(* An instance whose powers are revoked has no effect to undo any more, and *)
(* has ended as cancelled or is about to.                                   *)
Doomed(b, d, s, i) ==
  /\ Effects(d, i) = {} /\ d.ending[i] = b.ending[i]
  /\ \/ d.inst[i] = "cancelled"
     \/ d.inst[i] \in OpenInst /\ \E x \in DOMAIN s : Closes(s[x], i) /\ s[x].s = "cancelled"

LEMMA DoomedThen ==
  ASSUME NEW C, NEW d \in Db, AllFit(d), NEW s \in Seq(Calls), s # <<>>, InOrder(C, d, s),
         NEW e, NEW u, CallCase(d, e, Head(s), u), NEW calm, StepOK(C, d, e, Head(s).i, calm, u),
         NEW z, IsConcat(z, u, Tail(s)), NEW i \in Instances, SagaMove(d, e, Head(s).method, i),
         NEW b, Doomed(b, d, s, i)
  PROVE  Doomed(b, e, z, i)
<1> DEFINE c == Head(s)  R == Tail(s)
<1>1. /\ 1 \in DOMAIN s /\ s[1] = c /\ c.i \in Instances
      /\ \A x \in DOMAIN s : x # 1 => 1 < x /\ x - 1 \in DOMAIN R /\ R[x - 1] = s[x]
  <2>1. c \in Calls /\ 1 \in DOMAIN s /\ s[1] = c /\ \A x \in DOMAIN s : x # 1 => 1 < x  BY HeadOf
  <2>2. \A x \in DOMAIN s : x # 1 => x - 1 \in DOMAIN R /\ R[x - 1] = s[x]  BY RestIs
  <2> HIDE DEF c, R
  <2>3. c.i \in Instances  BY <2>1, CallFields
  <2>4. QED  BY <2>1, <2>2, <2>3
<1>2. /\ \A x \in DOMAIN u : x \in DOMAIN z /\ z[x] = u[x]
      /\ \A x \in DOMAIN R : \E y \in DOMAIN z : z[y] = R[x]
  BY DEF IsConcat
<1>3. CallCase(d, e, c, u) /\ StepOK(C, d, e, c.i, calm, u) /\ SagaMove(d, e, c.method, i)  OBVIOUS
<1> HIDE DEF c, R
<1>4. Effects(d, i) = {} /\ d.ending[i] = b.ending[i]  BY DEF Doomed
<1>5. CASE d.inst[i] = "cancelled"
  <2>1. Phase(d, i) = "cancelled"  BY <1>5 DEF Phase, PhaseOf, OpenInst
  <2>2. SagaLasts(d, e, i)
    BY <1>3, <2>1 DEF SagaMove, SagaOpens, SagaCompletes, SagaTurns, SagaFails, SagaEnds, SagaUndoes
  <2>3. Phase(e, i) = "cancelled" /\ Effects(e, i) = {} /\ e.ending[i] = b.ending[i]
    BY <1>4, <2>1, <2>2 DEF SagaLasts
  <2>4. e.inst[i] = "cancelled"  BY <2>3 DEF Phase, PhaseOf
  <2>5. QED  BY <2>3, <2>4 DEF Doomed
<1>6. ASSUME d.inst[i] \in OpenInst, NEW x \in DOMAIN s, Closes(s[x], i), s[x].s = "cancelled"
      PROVE  Doomed(b, e, z, i)
  <2>1. CASE x # 1
    <3>1. Before(C, d, c, s[x])  BY <1>1, <2>1 DEF InOrder
    <3>2. Guarded(d, c.i, i)  BY <1>6, <3>1 DEF Before, High, Closes
    <3>3. Same(d, e, i)  BY <1>1, <1>3, <3>2, GuardedSame
    <3>4. Effects(e, i) = {} /\ e.ending[i] = b.ending[i] /\ e.inst[i] \in OpenInst
      BY <1>4, <1>6, <3>3 DEF Same, Effects, Slots
    <3>5. PICK y \in DOMAIN z : z[y] = s[x]  BY <1>1, <1>2, <2>1
    <3>6. QED  BY <1>6, <3>4, <3>5 DEF Doomed
  <2>2. CASE x = 1
    <3>1. c.i = i /\ c.s = "cancelled" /\ c.method \in {"fail", "stop"}  BY <1>1, <1>6, <2>2 DEF Closes
    <3> DEFINE again == ToStop(i, "cancelled")
    <3>2. Closes(again, i) /\ again.s = "cancelled"  BY DEF ToStop, Closes
    <3>3. ASSUME e.inst[i] = d.inst[i], e.ending[i] = d.ending[i], Effects(e, i) = {},
                 \E y \in DOMAIN u : u[y] = again
          PROVE  Doomed(b, e, z, i)
      <4>1. PICK y \in DOMAIN u : u[y] = again  BY <3>3
      <4>2. y \in DOMAIN z /\ z[y] = again  BY <1>2, <4>1
      <4> HIDE DEF again
      <4>3. QED  BY <1>4, <1>6, <3>2, <3>3, <4>2 DEF Doomed
    <3>4. CASE c.method = "fail"
      <4>1. Quiesced(d, e, i) /\ u = <<again>>
        BY <1>3, <1>6, <3>1, <3>4 DEF CallCase, SpentCase, StepCase, FailsCase
      <4>2. e.inst[i] = d.inst[i] /\ e.ending[i] = d.ending[i] /\ Effects(e, i) = {}
        BY <1>4, <4>1 DEF Quiesced, Effects
      <4> HIDE DEF again
      <4>3. 1 \in DOMAIN u /\ u[1] = again  BY <4>1
      <4>4. QED  BY <3>3, <4>2, <4>3
    <3>5. CASE c.method = "stop"
      <4>1. StopCase(d, e, i, "cancelled", u)
        BY <1>3, <3>1, <3>5 DEF CallCase, SpentCase, StepCase
      <4>2. Armed(d, i) = {}  BY <1>4 DEF Effects, Armed
      <4>3. CASE DetachCase(d, e, i, "cancelled", u)
        <5>1. PICK k \in RunningLinks(d, i) :
                /\ RowSet(d, e, i, k, "cancelled")
                /\ u = <<ToFail(ChildOf[d.stages[i][k].node], "cancelled"), again>>
          BY <4>3 DEF DetachCase
        <5>2. e.inst[i] = d.inst[i] /\ e.ending[i] = d.ending[i] /\ Effects(e, i) = {}
          BY <1>4, <5>1 DEF RowSet, Restages, Effects
        <5> HIDE DEF again
        <5>3. 2 \in DOMAIN u /\ u[2] = again  BY <5>1
        <5>4. QED  BY <3>3, <5>2, <5>3
      <4>4. CASE FinalCase(d, e, i, "cancelled", u)
        <5>1. e.inst[i] = "cancelled" /\ e.ending[i] = d.ending[i] /\ Effects(e, i) = {}
          BY <1>4, <4>4 DEF FinalCase, Finishes, StandsAt, Effects
        <5>2. QED  BY <1>4, <5>1 DEF Doomed
      <4>5. QED  BY <4>1, <4>2, <4>3, <4>4 DEF StopCase, CompensateCase
    <3>6. QED  BY <3>1, <3>4, <3>5
  <2>3. QED  BY <2>1, <2>2
<1>7. QED  BY <1>5, <1>6 DEF Doomed

(* Somebody's effect is given up by a call only as the first of a handler,  *)
(* when nothing else has happened to any effect.                            *)
NoGive(s) == \A x \in DOMAIN s : s[x].method # "giveback"
SagaWay(B, b, d, s) ==
  /\ \A j \in Instances : IF j \in B THEN Doomed(b, d, s, j) ELSE SagaPath(b, d, j)
  /\ NoGive(s) \/ \A j \in Instances : SagaLasts(b, d, j)

(* One call more, of the whole handler.                                     *)
LEMMA EvenStep ==
  ASSUME NEW C, CalmBy(C), NEW b, \A j \in Instances : HasEffects(b, j), NEW B,
         NEW m \in Machines, m.todo # <<>>, Sound(C, m.db, m.todo), AllEven(m.db, m.todo),
         SagaWay(B, b, m.db, m.todo), NEW n, StepsTo(m, n)
  PROVE  AllEven(n.db, n.todo) /\ SagaWay(B, b, n.db, n.todo)
<1> DEFINE d == m.db  s == m.todo  c == Head(s)
<1>1. d \in Db /\ s \in Seq(Calls) /\ s # <<>>  BY DEF Machines
<1>2. PICK e, u : /\ CallCase(d, e, c, u) /\ Gives(d, e, u) /\ CallOK(d, c)
                  /\ AllOK(e, Tail(s)) /\ n = Do(e, u \o Tail(s))
  BY DEF StepsTo
<1> DEFINE z == u \o Tail(s)
<1>3. n.db = e /\ n.todo = z  BY <1>2 DEF Do
<1>4. AllOK(e, u)  BY <1>2 DEF Gives
<1>5. IsConcat(z, u, Tail(s))  BY <1>2, <1>4, AllThen
<1>6. AllFit(d) /\ LinksOnce(d) /\ InOrder(C, d, s) /\ AllAtWork(d, s) /\ AllEven(d, s)  BY DEF Sound
<1>7. SagaWay(B, b, d, s)  OBVIOUS
<1> HIDE DEF d, s, z
<1>8. AllEven(e, z) /\ \A j \in Instances : SagaMove(d, e, c.method, j)  BY <1>1, <1>2, <1>5, <1>6, EvenThen
<1>9. 1 \in DOMAIN s /\ s[1] = c /\ \A x \in DOMAIN s : x # 1 => 1 < x  BY <1>1, HeadOf
<1> DEFINE calm == CalmHead(C, d, c)
<1>10. StepOK(C, d, e, c.i, calm, u)
  <2>1. Each(d, c)  BY <1>6, <1>9 DEF InOrder
  <2>2. HeldBy(d, c)  BY <1>1, <1>6, HeldNow
  <2>3. QED  BY <1>1, <1>2, <1>6, <2>1, <2>2, CallStep
<1> HIDE DEF calm
<1>11. \A j \in Instances : IF j \in B THEN Doomed(b, e, z, j) ELSE SagaPath(b, e, j)
  <2>1. TAKE j \in Instances
  <2>2. c.method = "giveback" => SagaLasts(b, d, j)  BY <1>7, <1>9 DEF SagaWay, NoGive
  <2>3. SagaMove(d, e, c.method, j) /\ HasEffects(b, j)  BY <1>8
  <2>4. CASE j \in B
    <3>1. Doomed(b, d, s, j)  BY <1>7, <2>4 DEF SagaWay
    <3>2. Doomed(b, e, z, j)  BY <1>1, <1>2, <1>5, <1>6, <1>10, <2>3, <3>1, DoomedThen
    <3>3. QED  BY <2>4, <3>2
  <2>5. CASE j \notin B
    <3>1. SagaPath(b, d, j)  BY <1>7, <2>5 DEF SagaWay
    <3>2. SagaPath(b, e, j)  BY <2>2, <2>3, <3>1, PathThen
    <3>3. QED  BY <2>5, <3>2
  <2>6. QED  BY <2>4, <2>5
<1>12. NoGive(z)
  <2>4. \A x \in DOMAIN u : u[x].method # "giveback"  BY <1>10 DEF StepOK
  <2> DEFINE R == Tail(s)
  <2>5. \A x \in DOMAIN R : R[x].method # "giveback"
    <3>1. TAKE x \in DOMAIN R
    <3>2. x + 1 \in DOMAIN s /\ R[x] = s[x + 1] /\ 1 < x + 1  BY <1>1, HeadOf
    <3>3. Before(C, d, s[1], s[x + 1])  BY <1>6, <1>9, <3>2 DEF InOrder
    <3>4. QED  BY <3>2, <3>3 DEF Before, High
  <2>6. IsConcat(z, u, R)  BY <1>5
  <2> HIDE DEF R
  <2>7. /\ \A x \in DOMAIN u : x \in DOMAIN z /\ z[x] = u[x]
        /\ \A x \in DOMAIN z : x \in DOMAIN u \/ \E l \in DOMAIN R : x = Len(u) + l
        /\ \A l \in DOMAIN R : z[Len(u) + l] = R[l]
    BY <2>6 DEF IsConcat
  <2>8. QED  BY <2>4, <2>5, <2>7 DEF NoGive
<1>13. SagaWay(B, b, e, z)  BY <1>11, <1>12 DEF SagaWay
<1>14. QED  BY <1>3, <1>8, <1>13

(* How a handler begins.                                                    *)
LEMMA BeginsGive ==
  ASSUME NEW d, Lone(d), NEW e, NEW u, Handled(d, e, u)
  PROVE  NoGive(u) \/ Still(d, e)
<1>1. \A c : c.method # "giveback" => NoGive(<<c>>)
  <2>1. TAKE c
  <2>2. HAVE c.method # "giveback"
  <2>3. DOMAIN <<c>> = {1} /\ <<c>>[1] = c  OBVIOUS
  <2>4. QED  BY <2>2, <2>3 DEF NoGive
<1>2. \A a, c : a.method # "giveback" /\ c.method # "giveback" => NoGive(<<a, c>>)
  <2>1. TAKE a, c
  <2>2. HAVE a.method # "giveback" /\ c.method # "giveback"
  <2>3. DOMAIN <<a, c>> = {1, 2} /\ <<a, c>>[1] = a /\ <<a, c>>[2] = c  OBVIOUS
  <2>4. QED  BY <2>2, <2>3 DEF NoGive
<1> DEFINE Plain(c) == c.method # "giveback"
<1>3. /\ \A i, t, n, s : Plain(ToAdvance(i, t, n)) /\ Plain(ToFail(i, s))
      /\ \A i : Plain(ToCompensate(i)) /\ Plain(ToSync(i))
  BY CallsGive
<1> HIDE DEF Plain
<1>4. /\ \A c : Plain(c) => NoGive(<<c>>)
      /\ \A a, c : Plain(a) /\ Plain(c) => NoGive(<<a, c>>)
  BY <1>1, <1>2 DEF Plain
<1>5. CASE StartH(d, e, u)
  <2>1. PICK i \in Instances : u = <<ToAdvance(i, Root, StartOf[i])>>  BY <1>5 DEF StartH
  <2>2. QED  BY <1>3, <1>4, <2>1
<1>6. CASE CancelH(d, e, u)
  <2>1. PICK i \in Instances : u = <<ToFail(i, "cancelled")>>  BY <1>6 DEF CancelH
  <2>2. QED  BY <1>3, <1>4, <2>1
<1>7. CASE GoH(d, e, u)
  <2>1. PICK i \in Instances : \E k \in Slots(d, i) :
          u = <<ToAdvance(i, d.stages[i][k].token, To(d.stages[i][k].node)[1]), ToSync(i)>>
    BY <1>7 DEF GoH
  <2>2. QED  BY <1>3, <1>4, <2>1
<1>8. CASE UndoneH(d, e, u)
  <2>1. PICK i \in Instances : u = <<ToCompensate(i)>>  BY <1>8 DEF UndoneH
  <2>2. QED  BY <1>3, <1>4, <2>1
<1>9. CASE BreakH(d, e, u)
  <2>1. PICK i \in Instances : \E s \in {"failed", "cancelled"} : u = <<ToFail(i, s)>>  BY <1>9 DEF BreakH
  <2>2. QED  BY <1>3, <1>4, <2>1
<1>10. CASE LateH(d, e, u)
  <2>1. PICK i \in Instances : u = <<ToFail(i, "failed")>>  BY <1>10 DEF LateH
  <2>2. QED  BY <1>3, <1>4, <2>1
<1>11. CASE GiveH(d, e, u)  BY <1>11 DEF GiveH
<1>12. CASE SweepH(d, e, u)  BY <1>12 DEF SweepH
<1>13. QED  BY <1>5, <1>6, <1>7, <1>8, <1>9, <1>10, <1>11, <1>12 DEF Handled

LEMMA CalmHas ==
  ASSUME NEW d, Calm(d), NEW j \in Instances
  PROVE  HasEffects(d, j)
<1>1. EffectsFit(d, j, FALSE)  BY CalmAt
<1>2. SUFFICES ASSUME Phase(d, j) = "compensating" PROVE Effects(d, j) # {}  BY DEF HasEffects
<1>3. d.inst[j] = "compensating"  BY <1>2 DEF Phase, PhaseOf
<1>4. Queued(d, j) # {}  BY <1>1, <1>3 DEF EffectsFit, Unwinds
<1>5. QED  BY <1>4, EffectsAre

LEMMA WayHandled ==
  ASSUME NEW d, Calm(d), Lone(d), NEW e \in Db, NEW u, Handled(d, e, u)
  PROVE  AllEven(e, u) /\ SagaWay({}, d, e, u)
<1>1. AllEven(e, u) /\ \A j \in Instances : SagaBegin(d, e, j)  BY BeginsEven DEF BeginsWell
<1>2. \A j \in Instances : SagaPath(d, e, j)  BY <1>1, PathBegins
<1>3. ASSUME Still(d, e), NEW j \in Instances PROVE SagaLasts(d, e, j)
  <2>1. Same(d, e, j) /\ EffectsFit(d, j, FALSE)  BY <1>3, CalmAt DEF Still, Touches
  <2>2. EvenOn(d, e, j)  BY <2>1, SameKeepsEffects, EvenFrame
  <2>3. QED  BY <2>2 DEF EvenOn
<1>4. QED  BY <1>1, <1>2, <1>3, BeginsGive DEF SagaWay

(***************************************************************************)
(* An instance whose powers are revoked, before the calls.                 *)
(***************************************************************************)
LEMMA RevokeOpen ==
  ASSUME NEW d, Calm(d), NEW i \in Instances, d.inst[i] \in OpenInst, NEW e, LetGoes(d, e, i)
  PROVE  EffectsFit(e, i, FALSE) /\ Effects(e, i) = {}
<1>1. /\ e.inst[i] = d.inst[i] /\ Slots(e, i) = Slots(d, i)
      /\ \A m \in Slots(d, i) : /\ Kept(d, e, i, m) /\ e.stages[i][m].status = d.stages[i][m].status
                                /\ e.stages[i][m].row = Freed(d.stages[i][m])
  BY DEF LetGoes, Restages
<1>2. OpenRows(d, i)
  <2>1. EffectsFit(d, i, FALSE)  BY CalmAt
  <2>2. QED  BY <2>1, OpenEffects
<1>3. ASSUME NEW m \in Slots(d, i)
      PROVE  OpenRow(e.stages[i][m]) /\ e.stages[i][m].row \notin {"armed", "queued"}
  <2> DEFINE x == d.stages[i][m]  y == e.stages[i][m]
  <2>1. /\ OpenRow(x) /\ y.node = x.node /\ y.kind = x.kind /\ y.status = x.status /\ y.row = Freed(x)
    BY <1>1, <1>2 DEF Kept, OpenRows
  <2> HIDE DEF x, y
  <2>2. /\ x.row \in {"armed", "queued"} => y.row = "cancelled"
        /\ x.row \notin {"armed", "queued"} => y.row = x.row
    BY <2>1 DEF Freed
  <2>3. OpenRow(y)  BY <2>1, <2>2 DEF OpenRow, EffectRows
  <2>4. y.row \notin {"armed", "queued"}  BY <2>2
  <2>5. QED  BY <2>3, <2>4 DEF y
<1>4. OpenRows(e, i) /\ Effects(e, i) = {}  BY <1>1, <1>3 DEF OpenRows, Effects
<1>5. QED  BY <1>1, <1>4, OpenFitsBack

LEMMA RevokeShut ==
  ASSUME NEW d, Calm(d), NEW i \in Instances, d.inst[i] = "compensating", NEW a, LetGoes(d, a, i),
         NEW e, NEW u, FinalCase(a, e, i, "cancelled", u)
  PROVE  EffectsFit(e, i, FALSE) /\ Effects(e, i) = {}
<1>1. /\ e.inst[i] = "cancelled" /\ e.run[i] = "cancelled" /\ Slots(e, i) = Slots(d, i)
      /\ \A m \in Slots(d, i) :
           /\ Kept(d, e, i, m) /\ e.stages[i][m].row = Freed(d.stages[i][m])
           /\ e.stages[i][m].status =
                IF d.stages[i][m].status \in OpenStage THEN "cancelled" ELSE d.stages[i][m].status
  BY DEF LetGoes, Restages, FinalCase, Finishes, StandsAt, Kept
<1>2. /\ \A m \in Slots(d, i) : EffectFits(d, i, d.stages[i][m])
      /\ UndoneOnce(d, i)
  BY CalmAt DEF EffectsFit
<1>3. \A st : /\ st.row \in {"armed", "queued"} => Freed(st) = "cancelled"
              /\ st.row \notin {"armed", "queued"} => Freed(st) = st.row
  BY DEF Freed
<1>4. "cancelled" \notin OpenStage /\ "completed" \notin OpenStage  BY DEF OpenStage
<1>5. ASSUME NEW m \in Slots(d, i) PROVE EffectFits(e, i, e.stages[i][m])
  <2> DEFINE x == d.stages[i][m]  y == e.stages[i][m]
  <2>1. /\ EffectFits(d, i, x)
        /\ y.node = x.node /\ y.kind = x.kind /\ y.of = x.of
        /\ x.row \in {"armed", "queued"} => y.row = "cancelled"
        /\ x.row \notin {"armed", "queued"} => y.row = x.row
        /\ y.status = "completed" <=> x.status = "completed"
        /\ y.status \notin OpenStage
    BY <1>1, <1>2, <1>3, <1>4 DEF Kept
  <2> HIDE DEF x, y
  <2>2. ASSUME x.kind = "http" PROVE HttpFits(y, "cancelled")
    <3>1. HttpFits(x, "compensating") /\ "cancelled" \in Stopped  BY <2>1, <2>2 DEF EffectFits, Stopped
    <3>2. QED  BY <2>1, <3>1 DEF HttpFits
  <2>3. ASSUME x.kind = "compensation" PROVE UndoFits(e, i, y)
    <3>1. UndoFits(d, i, x)  BY <2>1, <2>3 DEF EffectFits
    <3> DEFINE v == d.stages[i][x.of]  w == e.stages[i][x.of]
    <3>2. /\ x.of \in Slots(e, i) /\ w.kind = "http" /\ v.row \in UndoRows /\ w.row = Freed(v)
      BY <1>1, <3>1 DEF UndoFits, Kept
    <3> HIDE DEF v
    <3>3. w.row \in {"cancelled", "completed", "failed"}  BY <1>3, <3>2 DEF UndoRows
    <3>4. y.row = "none" /\ y.node \in Compensated /\ y.of = x.of  BY <2>1, <3>1 DEF UndoFits
    <3> HIDE DEF w
    <3>5. /\ w.row \in UndoRows \/ (w.row = "cancelled" /\ e.inst[i] = "cancelled")
          /\ w.row = "queued" <=> y.status \in OpenStage
      BY <1>1, <2>1, <3>3 DEF UndoRows
    <3>6. QED  BY <3>2, <3>4, <3>5 DEF UndoFits, w
  <2>4. ASSUME x.kind \notin {"http", "compensation"}
        PROVE  y.row \notin EffectRows /\ y.node \notin Compensated
    BY <2>1, <2>4 DEF EffectFits, EffectRows
  <2>5. EffectFits(e, i, y)  BY <1>1, <2>1, <2>2, <2>3, <2>4 DEF EffectFits
  <2>6. QED  BY <2>5 DEF y
<1>6. UndoneOnce(e, i)
  <2>1. Undoings(e, i) = Undoings(d, i) /\ \A m \in Undoings(d, i) : e.stages[i][m].of = d.stages[i][m].of
    BY <1>1 DEF Undoings, Kept
  <2>2. ASSUME NEW k \in Slots(d, i), e.stages[i][k].kind = "http", e.stages[i][k].row \in UndoRows
        PROVE  d.stages[i][k].kind = "http" /\ d.stages[i][k].row \in UndoRows
    <3> DEFINE v == d.stages[i][k]
    <3>1. v.kind = "http" /\ Freed(v) \in UndoRows  BY <1>1, <2>2 DEF Kept
    <3> HIDE DEF v
    <3>2. v.row \in UndoRows  BY <1>3, <3>1 DEF UndoRows
    <3>3. QED  BY <3>1, <3>2 DEF v
  <2>3. QED  BY <1>1, <1>2, <2>1, <2>2 DEF UndoneOnce
<1>7. Effects(e, i) = {}  BY <1>1, <1>3 DEF Effects
<1>8. QED  BY <1>1, <1>5, <1>6, <1>7 DEF EffectsFit

Dropped(b, d, i) ==
  /\ Phase(b, i) \in {"open", "compensating"} /\ d.inst[i] = "cancelled"
  /\ Effects(d, i) = {} /\ d.ending[i] = b.ending[i]

LEMMA WayRevokes ==
  ASSUME NEW d, Calm(d), NEW i \in Instances, NEW e, NEW u, Revokes(d, e, u, i)
  PROVE  AllEven(e, u) /\ SagaWay({i}, d, e, u) /\ Phase(d, i) \in {"open", "compensating"}
<1>1. ToFail(i, "cancelled").method = "fail" /\ ToParent(i).method = "parent"  BY CallsGive
<1>2. \A c : c.method \in {"fail", "parent"} => NoGive(<<c>>) /\ NoUndo(<<c>>)
  <2>1. TAKE c
  <2>2. HAVE c.method \in {"fail", "parent"}
  <2>3. DOMAIN <<c>> = {1} /\ <<c>>[1] = c  OBVIOUS
  <2>4. QED  BY <2>2, <2>3 DEF NoGive, NoUndo
<1>3. ASSUME d.inst[i] \in OpenInst, LetGoes(d, e, i), u = <<ToFail(i, "cancelled")>>
      PROVE  /\ Touches(d, e, {i}) /\ EffectsFit(e, i, FALSE) /\ NoGive(u) /\ NoUndo(u)
             /\ Doomed(d, e, u, i) /\ Phase(d, i) = "open"
  <2>1. Touches(d, e, {i}) /\ e.inst[i] = d.inst[i] /\ e.ending[i] = d.ending[i]  BY <1>3 DEF LetGoes, Restages
  <2>2. EffectsFit(e, i, FALSE) /\ Effects(e, i) = {}  BY <1>3, RevokeOpen
  <2> DEFINE c == ToFail(i, "cancelled")
  <2>3. Closes(c, i) /\ c.s = "cancelled"  BY DEF Closes, ToFail
  <2>4. u = <<c>>  BY <1>3
  <2> HIDE DEF c
  <2>5. 1 \in DOMAIN u /\ u[1] = c  BY <2>4
  <2>6. Doomed(d, e, u, i)  BY <1>3, <2>1, <2>2, <2>3, <2>5 DEF Doomed
  <2>7. NoGive(u) /\ NoUndo(u)  BY <1>1, <1>2, <1>3
  <2>8. QED  BY <1>3, <2>1, <2>2, <2>6, <2>7, PhaseAre
<1>4. ASSUME NEW a, d.inst[i] = "compensating", LetGoes(d, a, i), FinalCase(a, e, i, "cancelled", u)
      PROVE  /\ Touches(d, e, {i}) /\ EffectsFit(e, i, FALSE) /\ NoGive(u) /\ NoUndo(u)
             /\ Doomed(d, e, u, i) /\ Phase(d, i) = "compensating"
  <2>1. Touches(d, a, {i}) /\ a.ending[i] = d.ending[i]  BY <1>4 DEF LetGoes, Restages
  <2>2. /\ Touches(a, e, {i}) /\ e.inst[i] = "cancelled" /\ e.ending[i] = a.ending[i] /\ u = <<ToParent(i)>>
    BY <1>4 DEF FinalCase, Finishes, StandsAt
  <2>3. EffectsFit(e, i, FALSE) /\ Effects(e, i) = {}  BY <1>4, RevokeShut
  <2>4. Doomed(d, e, u, i)  BY <2>1, <2>2, <2>3 DEF Doomed
  <2>5. NoGive(u) /\ NoUndo(u)  BY <1>1, <1>2, <2>2
  <2>6. Touches(d, e, {i})
    <3>1. d \in Db /\ a \in Db /\ e \in Db  BY <2>1, <2>2 DEF Calm, Settle, Touches
    <3>2. QED  BY <2>1, <2>2, <3>1, TouchesBoth
  <2>7. Phase(d, i) = "compensating"  BY <1>4, OpenNot, PhaseAre
  <2>8. QED  BY <2>3, <2>4, <2>5, <2>6, <2>7
<1>5. /\ Touches(d, e, {i}) /\ EffectsFit(e, i, FALSE) /\ NoGive(u) /\ NoUndo(u)
      /\ Doomed(d, e, u, i) /\ Phase(d, i) \in {"open", "compensating"}
  BY <1>3, <1>4 DEF Revokes
<1>6. ASSUME NEW j \in Instances, j # i PROVE EvenOn(d, e, j)
  <2>1. Same(d, e, j)  BY <1>5, <1>6 DEF Touches
  <2>2. QED  BY <2>1, CalmAt, SameKeepsEffects, EvenFrame
<1>7. AllEven(e, u)
  <2>1. SUFFICES ASSUME NEW j \in Instances PROVE EffectsFit(e, j, Undoing(u, j))  BY DEF AllEven
  <2>2. Undoing(u, j) = FALSE  BY <1>5 DEF Undoing, NoUndo
  <2>3. QED  BY <1>5, <1>6, <2>2 DEF EvenOn
<1>8. SagaWay({i}, d, e, u)  BY <1>5, <1>6 DEF SagaWay, EvenOn, SagaPath
<1>9. QED  BY <1>5, <1>7, <1>8

(* Those whose powers were revoked have ended, and of the others no effect  *)
(* is lost.                                                                 *)
Revoked == \A j \in Instances : IF j \in blocked THEN db.inst[j] = "cancelled" ELSE Lost(db, j) = {}
Balanced == Settled0(db) /\ AllEven(db, <<>>) /\ Revoked
NewlyBlocked == blocked' \ blocked

LEMMA WayBegins ==
  ASSUME Balanced, NEW e \in Db, NEW u, Begins(db, e, u), Blocks(e, u)
  PROVE  /\ AllEven(e, u) /\ SagaWay(NewlyBlocked, db, e, u) /\ blocked \subseteq blocked'
         /\ \A j \in NewlyBlocked : j \in Instances /\ Phase(db, j) \in {"open", "compensating"}
<1>1. Calm(db) /\ Lone(db)  BY DEF Balanced, Settled0, Settle, Calm
<1>2. CASE Handled(db, e, u) /\ blocked' = blocked
  <2>1. NewlyBlocked = {}  BY <1>2 DEF NewlyBlocked
  <2>2. QED  BY <1>1, <1>2, <2>1, WayHandled
<1>3. ASSUME NEW i \in Instances, Revokes(db, e, u, i), blocked' = blocked \cup {i}
      PROVE  /\ AllEven(e, u) /\ SagaWay(NewlyBlocked, db, e, u) /\ blocked \subseteq blocked'
             /\ \A j \in NewlyBlocked : j \in Instances /\ Phase(db, j) \in {"open", "compensating"}
  <2>1. /\ AllEven(e, u) /\ SagaWay({i}, db, e, u) /\ Phase(db, i) \in {"open", "compensating"}
    BY <1>1, <1>3, WayRevokes
  <2>2. db.inst[i] # "cancelled"  BY <2>1 DEF Phase, PhaseOf, OpenInst
  <2>3. i \notin blocked  BY <2>2 DEF Balanced, Revoked
  <2>4. NewlyBlocked = {i}  BY <1>3, <2>3 DEF NewlyBlocked
  <2>5. QED  BY <1>3, <2>1, <2>4
<1>4. QED  BY <1>2, <1>3 DEF Blocks

(* The handlers with all their calls.                                       *)
PathsOn ==
  /\ blocked \subseteq blocked'
  /\ \A j \in Instances : IF j \in NewlyBlocked THEN Dropped(db, db', j) ELSE SagaPath(db, db', j)

LEMMA WayEnds ==
  ASSUME NEW d, SagaWay(NewlyBlocked, db, d, <<>>), db' = d, blocked \subseteq blocked',
         \A j \in NewlyBlocked : j \in Instances /\ Phase(db, j) \in {"open", "compensating"}
  PROVE  PathsOn
<1>1. ASSUME NEW j \in NewlyBlocked PROVE Dropped(db, db', j)
  <2>1. j \in Instances /\ Doomed(db, d, <<>>, j)  BY <1>1 DEF SagaWay
  <2>2. DOMAIN <<>> = {}  OBVIOUS
  <2>3. QED  BY <1>1, <2>1, <2>2 DEF Doomed, Dropped
<1>2. \A j \in Instances : j \notin NewlyBlocked => SagaPath(db, db', j)  BY DEF SagaWay
<1>3. QED  BY <1>1, <1>2 DEF PathsOn

LEMMA CallsEven ==
  ASSUME NEW C, CalmBy(C), Balanced, CallsStep
  PROVE  AllEven(db', <<>>) /\ PathsOn
<1>1. PICK e, u, w : Begins(db, e, u) /\ Blocks(e, u) /\ Tame(w) /\ Carry(e, u, w)  BY DEF CallsStep
<1>2. db \in Db /\ Settle(db) /\ Lone(db) /\ Calm(db)  BY DEF Balanced, Settled0, Settle, Calm
<1>3. e \in Db /\ AllOK(e, u)  BY <1>1, <1>2, BeginsGives
<1>4. Sound(C, e, u)  BY <1>1, <1>2, BeginsSound
<1> DEFINE B == NewlyBlocked
<1>5. /\ AllEven(e, u) /\ SagaWay(B, db, e, u) /\ blocked \subseteq blocked'
      /\ \A j \in B : j \in Instances /\ Phase(db, j) \in {"open", "compensating"}
  BY <1>1, <1>3, WayBegins
<1>6. \A j \in Instances : HasEffects(db, j)  BY <1>2, CalmHas
<1> HIDE DEF B
<1> DEFINE Good == {m \in Machines :
              Sound(C, m.db, m.todo) /\ AllEven(m.db, m.todo) /\ SagaWay(B, db, m.db, m.todo)}
<1>7. Do(e, u) \in Good  BY <1>3, <1>4, <1>5, MachineIs
<1>8. ASSUME NEW m \in Good PROVE Step(m, w) \in Good
  <2>1. m \in Machines /\ Sound(C, m.db, m.todo) /\ AllEven(m.db, m.todo) /\ SagaWay(B, db, m.db, m.todo)
    OBVIOUS
  <2>2. CASE m.todo = <<>>
    <3>1. Step(m, w) = m  BY <2>1, <2>2, StepStays
    <3>2. QED  BY <3>1
  <2>3. CASE m.todo # <<>>
    <3> DEFINE n == Step(m, w)
    <3>1. StepsTo(m, n) /\ n \in Machines  BY <1>1, <2>1, <2>3, StepIs
    <3> HIDE DEF n
    <3>2. Sound(C, n.db, n.todo)  BY <2>1, <2>3, <3>1, SoundThen
    <3>3. AllEven(n.db, n.todo) /\ SagaWay(B, db, n.db, n.todo)  BY <1>6, <2>1, <2>3, <3>1, EvenStep
    <3>4. n \in Good  BY <3>1, <3>2, <3>3
    <3>5. QED  BY <3>4 DEF n
  <2>4. QED  BY <2>2, <2>3
<1> HIDE DEF Good
<1>9. PICK m \in Good : m.todo = <<>> /\ db' = m.db  BY <1>1, <1>7, <1>8, CarryRule
<1>10. AllEven(m.db, <<>>) /\ SagaWay(B, db, m.db, <<>>)  BY <1>9 DEF Good
<1>11. PathsOn  BY <1>5, <1>9, <1>10, WayEnds DEF B
<1>12. QED  BY <1>9, <1>10, <1>11

LEMMA EvenStays ==
  ASSUME NEW C, CalmBy(C), Balanced, [Next]_vars, ~thrown'
  PROVE  AllEven(db', <<>>) /\ PathsOn
<1>1. db \in Db /\ Calm(db)  BY DEF Balanced, Settled0, Settle, Calm
<1>2. ASSUME \A j \in Instances : SagaPath(db, db', j), blocked' = blocked PROVE PathsOn
  <2>1. NewlyBlocked = {}  BY <1>2 DEF NewlyBlocked
  <2>2. QED  BY <1>2, <2>1 DEF PathsOn
<1>3. CASE Next
  <2>1. CASE CallsStep  BY <2>1, CallsEven
  <2>2. CASE PlainStep
    <3>1. PICK i \in Instances : \E k \in Slots(db, i) :
            LeaseCase(db, db', i, k) \/ LapseCase(db, db', i, k) \/ ApproveCase(db, db', i, k)
      BY <2>2 DEF PlainStep, PlainCase
    <3>2. BeginsWell(db, db', <<>>)  BY <1>1, <3>1, PlainEven
    <3>3. \A j \in Instances : SagaPath(db, db', j)  BY <3>2, PathBegins DEF BeginsWell
    <3>4. QED  BY <1>2, <2>2, <3>2, <3>3 DEF BeginsWell, PlainStep
  <2>3. QED  BY <1>1, <1>3, <2>1, <2>2, NextSteps
<1>4. CASE UNCHANGED vars
  <2>1. db' = db /\ blocked' = blocked  BY <1>4 DEF vars
  <2>2. \A j \in Instances : SagaPath(db, db', j)  BY <2>1 DEF SagaPath, SagaLasts
  <2>3. AllEven(db, <<>>)  BY DEF Balanced
  <2>4. QED  BY <1>2, <2>1, <2>2, <2>3
<1>5. QED  BY <1>3, <1>4

LEMMA EvenInit ==
  ASSUME Init
  PROVE  AllEven(db, <<>>)
<1> SUFFICES ASSUME NEW i \in Instances PROVE EffectsFit(db, i, Undoing(<<>>, i))  BY DEF AllEven
<1>1. /\ db.inst[i] = "absent" /\ db.run[i] = "absent" /\ db.stages[i] = <<>>  BY DEF Init
<1>2. Slots(db, i) = {}  BY <1>1 DEF Slots
<1>3. QED  BY <1>1, <1>2 DEF EffectsFit, UndoneOnce, Undoings

(* What the effects of an instance that has ended look like.                *)
LEMMA EndedEffects ==
  ASSUME NEW d, Calm(d), NEW i \in Instances, d.inst[i] \in Ended
  PROVE  /\ d.run[i] = d.inst[i] /\ d.inst[i] \notin OpenInst /\ d.inst[i] # "compensating"
         /\ \A k \in Slots(d, i) : EffectFits(d, i, d.stages[i][k]) /\ StageFits(d, i, d.stages[i][k])
         /\ UndoneOnce(d, i) /\ HeadFits(d, i)
<1>1. d.inst[i] \notin OpenInst /\ d.inst[i] # "compensating"  BY DEF Ended, OpenInst
<1>2. EffectsFit(d, i, FALSE)  BY CalmAt
<1>3. HeadFits(d, i) /\ \A k \in Slots(d, i) : StageFits(d, i, d.stages[i][k])  BY DEF Calm, Settle, AllFit, Fits
<1>4. QED  BY <1>1, <1>2, <1>3 DEF EffectsFit

LEMMA EvenQuiet ==
  ASSUME Calm(db)
  PROVE  EndedIsQuiet
<1> SUFFICES ASSUME NEW i \in Instances, db.inst[i] \in Ended
             PROVE  /\ db.run[i] = db.inst[i] /\ InStatus(db, i, OpenStage) = {} /\ Live(db, i) = {}
                    /\ \A k \in Slots(db, i) :
                         db.stages[i][k].row \notin {"waiting", "running", "armed", "queued"}
  BY DEF EndedIsQuiet
<1>1. /\ db.run[i] = db.inst[i] /\ db.inst[i] \notin OpenInst /\ db.inst[i] # "compensating"
      /\ \A k \in Slots(db, i) : EffectFits(db, i, db.stages[i][k]) /\ StageFits(db, i, db.stages[i][k])
      /\ HeadFits(db, i)
  BY EndedEffects
<1>2. Live(db, i) = {}  BY <1>1 DEF HeadFits
<1>3. \A k \in Slots(db, i) : db.stages[i][k].status \notin OpenStage  BY <1>1 DEF StageFits
<1>4. InStatus(db, i, OpenStage) = {}  BY <1>3 DEF InStatus
<1>5. ASSUME NEW k \in Slots(db, i) PROVE db.stages[i][k].row \notin {"waiting", "running", "armed", "queued"}
  <2> DEFINE st == db.stages[i][k]
  <2>1. EffectFits(db, i, st) /\ StageFits(db, i, st) /\ st.status \notin OpenStage  BY <1>1, <1>3
  <2> HIDE DEF st
  <2>2. st.row \notin {"waiting", "running"}
    <3>1. "waiting_external" \in OpenStage  BY DEF OpenStage
    <3>2. QED  BY <2>1, <3>1 DEF StageFits
  <2>3. st.row \notin {"armed", "queued"}
    BY <1>1, <2>1 DEF EffectFits, HttpFits, UndoFits, EffectRows
  <2>4. st.row \notin {"waiting", "running", "armed", "queued"}  BY <2>2, <2>3
  <2>5. QED  BY <2>4 DEF st
<1>6. QED  BY <1>1, <1>2, <1>4, <1>5

LEMMA EvenSaga ==
  ASSUME Calm(db), Revoked
  PROVE  SagaSettled
<1> DEFINE Undos(i, k) == {m \in Compensations(i) : db.stages[i][m].of = k}
           Goal(i, k) ==
             IF i \in blocked
               THEN /\ db.inst[i] = "cancelled" /\ Cardinality(Undos(i, k)) <= 1
                    /\ db.stages[i][k].row \notin {"armed", "queued"}
             ELSE IF db.stages[i][k].kind = "http" /\ db.stages[i][k].node \in Compensated
                /\ db.stages[i][k].status = "completed"
               THEN IF db.inst[i] = "completed" THEN Undos(i, k) = {} /\ db.stages[i][k].row = "skipped"
                    ELSE Cardinality(Undos(i, k)) = 1 /\ db.stages[i][k].row \in {"completed", "failed"}
               ELSE Undos(i, k) = {}
<1>1. ASSUME NEW i \in Instances, db.inst[i] \in Ended, NEW k \in Slots(db, i)
      PROVE  Goal(i, k)
  <2> DEFINE st == db.stages[i][k]  U == Undos(i, k)
  <2>1. /\ db.inst[i] \notin OpenInst /\ db.inst[i] # "compensating"
        /\ \A m \in Slots(db, i) : EffectFits(db, i, db.stages[i][m])
        /\ UndoneOnce(db, i)
    BY <1>1, EndedEffects
  <2>2. Compensations(i) = Undoings(db, i)  BY DEF Compensations, Undoings
  <2>3. ASSUME NEW m \in U
        PROVE  st.kind = "http" /\ st.row \in {"completed", "failed", "cancelled"}
    <3>1. m \in Undoings(db, i) /\ db.stages[i][m].of = k /\ m \in Slots(db, i)  BY <2>2, <2>3 DEF Undoings
    <3>2. UndoFits(db, i, db.stages[i][m])  BY <2>1, <3>1 DEF EffectFits, Undoings
    <3>3. st.kind = "http" /\ st.row \in UndoRows \cup {"cancelled"}  BY <3>1, <3>2 DEF UndoFits
    <3>4. HttpFits(st, db.inst[i])  BY <2>1, <3>3 DEF EffectFits
    <3>5. QED  BY <2>1, <3>3, <3>4 DEF UndoRows, HttpFits
  <2>4. ASSUME NEW m \in U PROVE U = {m}
    <3>1. ASSUME NEW l \in U PROVE l = m
      <4>1. /\ l \in Undoings(db, i) /\ db.stages[i][l].of = k
            /\ m \in Undoings(db, i) /\ db.stages[i][m].of = k
        BY <2>2, <2>4, <3>1
      <4>2. QED  BY <2>1, <4>1 DEF UndoneOnce
    <3>2. QED  BY <2>4, <3>1
  <2>5. CASE i \in blocked
    <3>1. db.inst[i] = "cancelled"  BY <2>5 DEF Revoked
    <3>2. Cardinality(U) <= 1
      <4>1. Cardinality({}) = 0  BY FS_EmptySet
      <4>2. \A m \in U : Cardinality(U) = 1
        <5>1. TAKE m \in U
        <5>2. U = {m}  BY <2>4
        <5>3. QED  BY <5>2, FS_Singleton
      <4> HIDE DEF U
      <4>3. CASE U = {}  BY <4>1, <4>3
      <4>4. CASE U # {}  BY <4>2, <4>4
      <4>5. QED  BY <4>3, <4>4
    <3>3. st.row \notin {"armed", "queued"}
      <4>1. EffectFits(db, i, st)  BY <2>1
      <4> HIDE DEF st
      <4>2. QED  BY <2>1, <3>1, <4>1, OpenNot DEF EffectFits, HttpFits, UndoFits, EffectRows
    <3>4. QED  BY <2>5, <3>1, <3>2, <3>3
  <2>6. ASSUME i \notin blocked, st.kind = "http" PROVE st.row # "cancelled"
    <3>1. Lost(db, i) = {}  BY <2>6 DEF Revoked
    <3>2. QED  BY <2>6, <3>1 DEF Lost
  <2>7. CASE i \notin blocked /\ ~(st.kind = "http" /\ st.node \in Compensated /\ st.status = "completed")
    <3>1. U = {}
      <4>1. SUFFICES ASSUME NEW m \in U PROVE FALSE  OBVIOUS
      <4>2. st.kind = "http" /\ st.row \in {"completed", "failed", "cancelled"}  BY <2>3
      <4>3. HttpFits(st, db.inst[i])  BY <2>1, <4>2 DEF EffectFits
      <4>4. QED  BY <2>7, <4>2, <4>3 DEF HttpFits
    <3>2. QED  BY <2>7, <3>1
  <2>8. CASE i \notin blocked /\ st.kind = "http" /\ st.node \in Compensated /\ st.status = "completed"
    <3>1. HttpFits(st, db.inst[i]) /\ st.row # "cancelled"  BY <2>1, <2>6, <2>8 DEF EffectFits
    <3>2. st.row \in {"skipped", "completed", "failed"}
      BY <2>1, <2>8, <3>1 DEF HttpFits
    <3>3. CASE db.inst[i] = "completed"
      <4>1. st.row = "skipped"  BY <3>1, <3>2, <3>3 DEF HttpFits, Stopped
      <4>2. U = {}
        <5>1. SUFFICES ASSUME NEW m \in U PROVE FALSE  OBVIOUS
        <5>2. QED  BY <2>3, <4>1
      <4>3. QED  BY <2>8, <3>3, <4>1, <4>2
    <3>4. CASE db.inst[i] # "completed"
      <4>1. st.row \in {"completed", "failed"}  BY <3>1, <3>2, <3>4 DEF HttpFits
      <4>2. PICK m \in Undoings(db, i) : db.stages[i][m].of = k
        BY <2>1, <2>8, <4>1 DEF UndoneOnce, UndoRows
      <4>3. U = {m}
        <5>1. m \in U  BY <2>2, <4>2
        <5>2. QED  BY <2>4, <5>1
      <4>4. Cardinality(U) = 1  BY <4>3, FS_Singleton
      <4>5. QED  BY <2>8, <3>4, <4>1, <4>4
    <3>5. QED  BY <3>3, <3>4
  <2>9. QED  BY <2>5, <2>7, <2>8
<1>2. QED  BY <1>1 DEF SagaSettled

LEMMA PathKeeps ==
  ASSUME NEW b, NEW d, NEW i, SagaPath(b, d, i)
  PROVE  Lost(d, i) = Lost(b, i) /\ (b.inst[i] = "cancelled" => d.inst[i] = "cancelled")
<1>1. Lost(d, i) = Lost(b, i)
  BY DEF SagaPath, SagaLasts, SagaBorn, SagaGains, SagaCompletes, SagaTurned, SagaFails, SagaUndoes, SagaEnded
<1>2. ASSUME b.inst[i] = "cancelled" PROVE d.inst[i] = "cancelled"
  <2>1. Phase(b, i) = "cancelled"  BY <1>2 DEF Phase, PhaseOf, OpenInst
  <2>2. SagaLasts(b, d, i)
    BY <2>1 DEF SagaPath, SagaBorn, SagaGains, SagaCompletes, SagaTurned, SagaFails, SagaUndoes, SagaEnded
  <2>3. Phase(d, i) = "cancelled"  BY <2>1, <2>2 DEF SagaLasts
  <2>4. QED  BY <2>3 DEF Phase, PhaseOf
<1>3. QED  BY <1>1, <1>2

LEMMA RevokedStays ==
  ASSUME Revoked, PathsOn
  PROVE  Revoked'
<1>1. SUFFICES ASSUME NEW j \in Instances
               PROVE  IF j \in blocked' THEN db'.inst[j] = "cancelled" ELSE Lost(db', j) = {}
  BY DEF Revoked, Lost, Slots
<1>2. CASE j \in NewlyBlocked  BY <1>2 DEF PathsOn, Dropped, NewlyBlocked
<1>3. CASE j \notin NewlyBlocked
  <2>1. SagaPath(db, db', j) /\ (j \in blocked' <=> j \in blocked)  BY <1>3 DEF PathsOn, NewlyBlocked
  <2>2. Lost(db', j) = Lost(db, j) /\ (db.inst[j] = "cancelled" => db'.inst[j] = "cancelled")
    BY <2>1, PathKeeps
  <2>3. QED  BY <2>1, <2>2 DEF Revoked
<1>4. QED  BY <1>2, <1>3

(* The inductive invariant of the effects.                                  *)
EffectsInv == thrown \/ Balanced

LEMMA BalancedStays ==
  ASSUME Orderly, Balanced, [Next]_vars, ~thrown'
  PROVE  Balanced' /\ PathsOn
<1>1. PICK C : CalmBy(C) /\ ~LapseTogether  BY DEF Orderly
<1>2. Settled0(db) /\ AllEven(db, <<>>) /\ Revoked  BY DEF Balanced
<1>3. Settled0(db')  BY <1>1, <1>2, SettleStays
<1>4. AllEven(db', <<>>) /\ PathsOn  BY <1>1, EvenStays
<1>5. Revoked'  BY <1>2, <1>4, RevokedStays
<1>6. QED  BY <1>3, <1>4, <1>5 DEF Balanced, Settled0, AllEven

LEMMA BalancedInit ==
  ASSUME Init
  PROVE  Balanced
<1>1. Settled0(db) /\ AllEven(db, <<>>)  BY SettleInit, EvenInit
<1>2. blocked = {} /\ \A i \in Instances : db.stages[i] = <<>>  BY DEF Init
<1>3. \A i \in Instances : Lost(db, i) = {}  BY <1>2 DEF Lost, Slots
<1>4. QED  BY <1>1, <1>2, <1>3 DEF Balanced, Revoked

LEMMA EvenNext ==
  ASSUME Orderly, db \in Db, EffectsInv, [Next]_vars
  PROVE  EffectsInv'
BY BalancedStays, ThrownStays DEF EffectsInv

LEMMA EvenAll ==
  ASSUME Orderly
  PROVE  Spec => []EffectsInv
<1>1. Init => EffectsInv  BY BalancedInit DEF EffectsInv
<1>2. db \in Db /\ EffectsInv /\ [Next]_vars => EffectsInv'  BY EvenNext
<1>3. QED  BY <1>1, <1>2, TypedAll, PTL DEF Spec

(* Nothing of an instance that has ended is left behind, whatever the graph *)
(* and whatever ended it: no open stage, no live token, no signal wait, no  *)
(* link and no compensation that could still be acted on, and its run ended *)
(* the same way (completeProcessInstance, handleProcessStageTerminal,       *)
(* finalizeProcessTerminal, enforceRunIdentities).                          *)
THEOREM EngineQuiet ==
  ASSUME Orderly
  PROVE  Spec => [](~thrown => EndedIsQuiet)
<1>1. EffectsInv => (~thrown => EndedIsQuiet)  BY EvenQuiet DEF EffectsInv, Balanced, Settled0, Calm
<1>2. QED  BY <1>1, EvenAll, PTL

(* The books of the saga balance: once an instance has failed or was        *)
(* cancelled, every confirmed HTTP call that has a compensation was         *)
(* compensated exactly once, or its compensation given up after its last    *)
(* attempt; once it is completed none was; what was never confirmed is      *)
(* never compensated; and an instance whose powers were revoked, at         *)
(* whatever point, ends as cancelled with nothing compensated twice and     *)
(* nothing left to compensate (queueNextProcessCompensation,                *)
(* advanceProcess, enforceRunIdentities).                                   *)
THEOREM EngineSaga ==
  ASSUME Orderly
  PROVE  Spec => [](~thrown => SagaSettled)
<1>1. EffectsInv => (~thrown => SagaSettled)  BY EvenSaga DEF EffectsInv, Balanced, Settled0, Calm
<1>2. QED  BY <1>1, EvenAll, PTL

(***************************************************************************)
(* The engine implements the saga: what a handler has done, all in all.    *)
(***************************************************************************)
SagaActs(i) == SagaOf!Start(i) \/ SagaOf!Work(i) \/ SagaOf!Complete(i) \/ SagaOf!Stop(i) \/ SagaOf!Undo(i) \/ SagaOf!Stay(i)

LEMMA PathActs ==
  ASSUME NEW i \in Instances, SagaPath(db, db', i), HasEffects(db', i)
  PROVE  SagaActs(i)
<1> DEFINE ph == [j \in Instances |-> PhaseOf(db.inst[j])]
           ef == [j \in Instances |-> {k \in Slots(db, j) : db.stages[j][k].row \in {"armed", "queued"}}]
<1>1. ph[i] = Phase(db, i) /\ ph'[i] = Phase(db', i)  BY DEF Phase
<1>2. ef[i] = Effects(db, i) /\ ef'[i] = Effects(db', i)  BY DEF Effects
<1> HIDE DEF ph, ef
<1>3. CASE SagaLasts(db, db', i)
  <2>1. SagaOf!Stay(i)  BY <1>1, <1>2, <1>3 DEF SagaLasts, SagaOf!Stay, ph, ef
  <2>2. QED  BY <2>1 DEF SagaActs
<1>4. CASE SagaBorn(db, db', i)
  <2>1. SagaOf!Start(i)
    BY <1>1, <1>2, <1>4 DEF SagaBorn, Ended, SagaOf!Start, SagaOf!Ended, ph, ef
  <2>2. QED  BY <2>1 DEF SagaActs
<1>5. ASSUME SagaGains(db, db', i) \/ SagaTurned(db, db', i) \/ SagaFails(db, db', i)
      PROVE  SagaOf!Gains(i)
  <2>1. Effects(db, i) \subseteq Effects(db', i) /\ \E k : Effects(db', i) \subseteq Effects(db, i) \cup {k}
    BY <1>5 DEF SagaGains, SagaTurned, SagaFails
  <2>2. \A j, k \in Effects(db', i) \ Effects(db, i) : j = k  BY <2>1
  <2>3. ef[i] \subseteq ef'[i] /\ \A j, k \in ef'[i] \ ef[i] : j = k  BY <1>2, <2>1, <2>2
  <2>4. QED  BY <2>3 DEF SagaOf!Gains, ef
<1>6. CASE SagaGains(db, db', i)
  <2>1. SagaOf!Work(i)  BY <1>1, <1>5, <1>6 DEF SagaGains, SagaOf!Work, ph
  <2>2. QED  BY <2>1 DEF SagaActs
<1>7. CASE SagaCompletes(db, db', i)
  <2>1. SagaOf!Complete(i)  BY <1>1, <1>2, <1>7 DEF SagaCompletes, SagaOf!Complete, ph, ef
  <2>2. QED  BY <2>1 DEF SagaActs
<1>8. CASE SagaTurned(db, db', i)
  <2>1. SagaOf!Stop(i)  BY <1>1, <1>2, <1>5, <1>8 DEF SagaTurned, SagaOf!Stop, ph, ef
  <2>2. QED  BY <2>1 DEF SagaActs
<1>9. CASE SagaFails(db, db', i)
  <2>1. SagaOf!Stop(i)  BY <1>1, <1>2, <1>5, <1>9 DEF SagaFails, SagaOf!Stop, ph, ef
  <2>2. QED  BY <2>1 DEF SagaActs
<1>10. CASE SagaUndoes(db, db', i)
  <2>1. Effects(db', i) # {}  BY <1>10 DEF SagaUndoes, HasEffects
  <2>2. SagaOf!Undo(i)  BY <1>1, <1>2, <1>10, <2>1 DEF SagaUndoes, SagaOf!Undo, ph, ef
  <2>3. QED  BY <2>2 DEF SagaActs
<1>11. CASE SagaEnded(db, db', i)
  <2>1. SagaOf!Undo(i)  BY <1>1, <1>2, <1>11 DEF SagaEnded, SagaOf!Undo, ph, ef
  <2>2. QED  BY <2>1 DEF SagaActs
<1>12. QED
  BY <1>3, <1>4, <1>6, <1>7, <1>8, <1>9, <1>10, <1>11 DEF SagaPath

LEMMA DropActs ==
  ASSUME NEW i \in Instances, Dropped(db, db', i)
  PROVE  SagaOf!Abandon(i)
<1> DEFINE ph == [j \in Instances |-> PhaseOf(db.inst[j])]
           ef == [j \in Instances |-> {k \in Slots(db, j) : db.stages[j][k].row \in {"armed", "queued"}}]
<1>1. ph[i] = Phase(db, i) /\ ph'[i] = Phase(db', i)  BY DEF Phase
<1>2. ef'[i] = Effects(db', i)  BY DEF Effects
<1> HIDE DEF ph, ef
<1>3. Phase(db', i) = "cancelled"  BY DEF Dropped, Phase, PhaseOf, OpenInst
<1>4. QED  BY <1>1, <1>2, <1>3 DEF Dropped, SagaOf!Abandon, ph, ef

LEMMA SagaInit ==
  ASSUME Init
  PROVE  SagaOf!Init
<1>1. db.ending = [i \in Instances |-> "none"] /\ blocked = {}  BY DEF Init
<1>2. [i \in Instances |-> PhaseOf(db.inst[i])] = [i \in Instances |-> "absent"]
  <2>1. \A i \in Instances : db.inst[i] = "absent"  BY DEF Init
  <2>2. "absent" \notin OpenInst  BY DEF OpenInst
  <2>3. \A i \in Instances : PhaseOf(db.inst[i]) = "absent"  BY <2>1, <2>2 DEF PhaseOf
  <2>4. QED  BY <2>3
<1>3. [i \in Instances |-> {k \in Slots(db, i) : db.stages[i][k].row \in {"armed", "queued"}}]
        = [i \in Instances |-> {}]
  <2>1. \A i \in Instances : db.stages[i] = <<>>  BY DEF Init
  <2>2. \A i \in Instances : Slots(db, i) = {}  BY <2>1 DEF Slots
  <2>3. \A i \in Instances : {k \in Slots(db, i) : db.stages[i][k].row \in {"armed", "queued"}} = {}  BY <2>2
  <2>4. QED  BY <2>3
<1>4. QED  BY <1>1, <1>2, <1>3 DEF SagaOf!Init

LEMMA SagaStep ==
  ASSUME Orderly, Balanced, [Next]_vars, ~thrown'
  PROVE  SagaOf!Next
<1>1. Balanced' /\ PathsOn  BY BalancedStays
<1>2. Calm(db')  BY <1>1 DEF Balanced, Settled0, Settle, AllEven, Calm
<1>3. \A j \in Instances : j \in NewlyBlocked => SagaOf!Abandon(j)  BY <1>1, DropActs DEF PathsOn
<1>4. \A j \in Instances : j \notin NewlyBlocked => SagaActs(j)
  BY <1>1, <1>2, CalmHas, PathActs DEF PathsOn
<1>5. blocked \subseteq blocked'  BY <1>1 DEF PathsOn
<1>6. QED  BY <1>3, <1>4, <1>5 DEF NewlyBlocked, SagaActs, SagaOf!Next

(* The engine keeps the promise of Saga about the effects of every          *)
(* instance, whatever the graph, as long as no error leaves a handler       *)
(* half-way: confirmed effects pile up while it is open, stand when it is   *)
(* completed, and are undone one at a time, the latest first, before a      *)
(* stopped instance ends the way it was stopped; a revocation alone lets    *)
(* effects stand, and ends the instance as cancelled within one handler;    *)
(* and no handler, whatever calls it makes, does two of these at once to an *)
(* instance that it found open (completeStageOutcome, stopProcessInstance,  *)
(* queueNextProcessCompensation, finalizeProcessTerminal,                   *)
(* enforceRunIdentities).                                                   *)
THEOREM EngineImplementsSaga ==
  ASSUME Orderly
  PROVE  Spec /\ []~thrown => ImplementsSaga
<1>1. Init => SagaOf!Init  BY SagaInit
<1>2. EffectsInv /\ ~thrown /\ [Next]_vars /\ ~thrown' => [SagaOf!Next]_(SagaOf!vars)
  BY SagaStep DEF EffectsInv
<1>3. QED  BY <1>1, <1>2, EvenAll, PTL DEF Spec, ImplementsSaga, SagaOf!Spec

(***************************************************************************)
(* What is queued is found: an open instance stands where the queries for  *)
(* queued stages look, or its status is about to be summed up.             *)
(***************************************************************************)
Pending(d, i) == InStatus(d, i, {"queued"})
Shown(d, i) ==
  /\ d.run[i] = d.inst[i]
  /\ d.inst[i] \in {"queued", "running"} \/ Pending(d, i) = {}
NoAdvance(u, i) == \A x \in DOMAIN u : ~Advances(u[x], i)
Sole(u, i) == \A x, y \in DOMAIN u : Advances(u[x], i) /\ Advances(u[y], i) => x = y
Sums(u, i) == u # <<>> /\ Len(u) \in DOMAIN u /\ u[Len(u)].method = "sync" /\ u[Len(u)].i = i

(* What a call, or a handler before its calls, leaves of i.                 *)
LeftWell(e, u, i) ==
  \/ Sums(u, i)
  \/ Shown(e, i) /\ Sole(u, i) /\ (NoAdvance(u, i) \/ Pending(e, i) = {})
ShownGoal(e, u, i) == e.inst[i] \in OpenInst /\ ~Closing(u, i) => LeftWell(e, u, i)

(* The status of i and its queue are as they were.                          *)
AsFound(d, e, i) ==
  /\ e.inst[i] = d.inst[i] /\ e.run[i] = d.run[i] /\ Pending(e, i) = Pending(d, i)

LEMMA SameFound ==
  ASSUME NEW d, NEW e, NEW i, Same(d, e, i)
  PROVE  AsFound(d, e, i)
BY DEF Same, AsFound, Pending, InStatus, Slots

LEMMA FoundFrame ==
  ASSUME NEW d, NEW e, NEW i, d.inst[i] \in OpenInst => Shown(d, i), AsFound(d, e, i), NEW u, NoAdvance(u, i)
  PROVE  ShownGoal(e, u, i)
BY DEF ShownGoal, LeftWell, Shown, AsFound, NoAdvance, Sole

LEMMA NoAdvances ==
  ASSUME NEW i, NEW b, NEW c
  PROVE  /\ NoAdvance(<<>>, i) /\ (~Advances(b, i) => NoAdvance(<<b>>, i))
         /\ ~Advances(b, i) /\ ~Advances(c, i) => NoAdvance(<<b, c>>, i)
<1>1. NoAdvance(<<>>, i)  BY DEF NoAdvance
<1>2. ASSUME ~Advances(b, i) PROVE NoAdvance(<<b>>, i)
  <2>1. DOMAIN <<b>> = {1} /\ <<b>>[1] = b  OBVIOUS
  <2>2. QED  BY <1>2, <2>1 DEF NoAdvance
<1>3. ASSUME ~Advances(b, i), ~Advances(c, i) PROVE NoAdvance(<<b, c>>, i)
  <2>1. DOMAIN <<b, c>> = {1, 2} /\ <<b, c>>[1] = b /\ <<b, c>>[2] = c  OBVIOUS
  <2>2. QED  BY <1>3, <2>1 DEF NoAdvance
<1>4. QED  BY <1>1, <1>2, <1>3

LEMMA SoleOne ==
  ASSUME NEW i, NEW b
  PROVE  Sole(<<b>>, i)
<1>1. DOMAIN <<b>> = {1}  OBVIOUS
<1>2. QED  BY <1>1 DEF Sole

LEMMA ClosesOne ==
  ASSUME NEW i, NEW b, Closes(b, i)
  PROVE  Closing(<<b>>, i)
<1>1. DOMAIN <<b>> = {1} /\ <<b>>[1] = b  OBVIOUS
<1>2. QED  BY <1>1 DEF Closing

LEMMA SumsTwo ==
  ASSUME NEW i, NEW b
  PROVE  Sums(<<b, ToSync(i)>>, i)
<1> DEFINE u == <<b, ToSync(i)>>
<1>1. Len(u) = 2 /\ 2 \in DOMAIN u /\ u[2] = ToSync(i) /\ u # <<>>  OBVIOUS
<1>2. ToSync(i).method = "sync" /\ ToSync(i).i = i  BY CallsGive
<1> HIDE DEF u
<1>3. Sums(u, i)  BY <1>1, <1>2 DEF Sums
<1>4. QED  BY <1>3 DEF u

(* Which calls advance a token of j.                                        *)
LEMMA AdvancesAre ==
  ASSUME NEW i, NEW j, NEW t, NEW n, NEW s, NEW k
  PROVE  /\ Advances(ToAdvance(i, t, n), j) <=> i = j
         /\ ~Advances(ToFail(i, s), j) /\ ~Advances(ToStop(i, s), j) /\ ~Advances(ToCompensate(i), j)
         /\ ~Advances(ToParent(i), j) /\ ~Advances(ToSync(i), j) /\ ~Advances(ToLink(i, k), j)
         /\ Closes(ToFail(i, s), i) /\ Closes(ToStop(i, s), i)
BY CallsGive DEF Advances, Closes

(* One step of a token that goes on within its instance.                    *)
LEMMA GoesShown ==
  ASSUME NEW d, NEW e, NEW i, Shown(d, i), Pending(d, i) = {}, AsFound(d, e, i), NEW c
  PROVE  ShownGoal(e, <<c>>, i)
<1>1. Sole(<<c>>, i)  BY SoleOne
<1>2. Shown(e, i) /\ Pending(e, i) = {}  BY DEF Shown, AsFound
<1>3. QED  BY <1>1, <1>2 DEF ShownGoal, LeftWell

LEMMA AddedPending ==
  ASSUME NEW d, NEW e, NEW i, NEW st, Added(d, e, i, st), Pending(d, i) = {}
  PROVE  st.status # "queued" => Pending(e, i) = {}
<1>1. /\ Slots(e, i) = Slots(d, i) \cup {NextSlot(d, i)}
      /\ \A m \in Slots(d, i) : e.stages[i][m] = d.stages[i][m]
      /\ e.stages[i][NextSlot(d, i)] = st
  BY DEF Added
<1>2. \A m \in Slots(d, i) : d.stages[i][m].status # "queued"  BY DEF Pending, InStatus
<1>3. QED  BY <1>1, <1>2 DEF Pending, InStatus

LEMMA SyncedShown ==
  ASSUME NEW d, NEW e, NEW i, Synced(d, e, i), e.inst[i] \in OpenInst, d.inst[i] \in OpenInst
  PROVE  Shown(e, i)
<1>1. "absent" \notin OpenInst /\ (Ended \cup {"compensating"}) \cap OpenInst = {}  BY DEF Ended, OpenInst
<1>2. e.run[i] = e.inst[i] /\ e.stages[i] = d.stages[i]  BY <1>1 DEF Synced
<1>3. e.inst[i] \in {"queued", "running"} \/ InStatus(d, i, {"queued", "running"}) = {}  BY DEF Synced
<1>4. InStatus(d, i, {"queued", "running"}) = {} => Pending(e, i) = {}
  BY <1>2 DEF InStatus, Pending, Slots
<1>5. QED  BY <1>2, <1>3, <1>4 DEF Shown

LEMMA SyncedGoal ==
  ASSUME NEW d, NEW e, NEW i, Synced(d, e, i), d.inst[i] \in OpenInst
  PROVE  ShownGoal(e, <<>>, i)
<1>1. NoAdvance(<<>>, i) /\ Sole(<<>>, i)  BY DEF NoAdvance, Sole
<1>2. QED  BY <1>1, SyncedShown DEF ShownGoal, LeftWell

(* The instance whose token enters a node.                                  *)
LEMMA EnterShown ==
  ASSUME NEW d \in Db, NEW e, NEW i \in Instances, NEW t, NEW n \in NodesOf[i], NEW u,
         d.inst[i] \in OpenInst, Shown(d, i), Pending(d, i) = {}, EnterCase(d, e, i, t, n, u)
  PROVE  ShownGoal(e, u, i)
<1>1. CASE PassCase(d, e, i, t, n, u)
  <2>1. PICK m \in GNodes : u = <<ToAdvance(i, t, m)>>  BY <1>1 DEF PassCase
  <2>2. AsFound(d, e, i)  BY <1>1, SameFound DEF PassCase, Still, Touches
  <2>3. QED  BY <2>1, <2>2, GoesShown
<1>2. CASE FailCase(d, e, i, n, u)
  <2>1. u = <<ToFail(i, "failed")>>  BY <1>2 DEF FailCase
  <2>2. Closing(u, i)  BY <2>1, ClosesOne, AdvancesAre
  <2>3. QED  BY <2>2 DEF ShownGoal
<1>3. CASE QueueCase(d, e, i, t, n, u)
  <2>1. PICK st \in StageSet : \E s \in {"queued", "waiting_approval", "waiting_external"} :
          Added(d, e, i, st) /\ StandsAt(e, i, s) /\ st.status = s
    BY <1>3 DEF QueueCase
  <2>2. PICK s \in {"queued", "waiting_approval", "waiting_external"} :
          Added(d, e, i, st) /\ StandsAt(e, i, s) /\ st.status = s
    BY <2>1
  <2>3. s # "queued" => Pending(e, i) = {}  BY <2>2, AddedPending
  <2>4. Shown(e, i)  BY <2>2, <2>3 DEF Shown, StandsAt
  <2>5. u = <<>>  BY <1>3 DEF QueueCase
  <2>6. NoAdvance(u, i) /\ Sole(u, i)  BY <2>5 DEF NoAdvance, Sole
  <2>7. QED  BY <2>4, <2>6 DEF ShownGoal, LeftWell
<1>4. CASE RunCase(d, e, i, t, n, u)
  <2>1. PICK st \in StageSet : Added(d, e, i, st) /\ st.status = "completed"  BY <1>4 DEF RunCase
  <2>2. Pending(e, i) = {}  BY <2>1, AddedPending
  <2>3. AsFound(d, e, i)  BY <1>4, <2>2 DEF RunCase, AsFound
  <2>4. u = <<ToAdvance(i, t, To(n)[1])>>  BY <1>4 DEF RunCase
  <2>5. QED  BY <2>3, <2>4, GoesShown
<1>5. CASE RefuseCase(d, e, i, t, n, u)
  <2>1. u = <<ToFail(i, "failed")>>  BY <1>5 DEF RefuseCase
  <2>2. Closing(u, i)  BY <2>1, ClosesOne, AdvancesAre
  <2>3. QED  BY <2>2 DEF ShownGoal
<1>6. CASE BeginCase(d, e, i, t, n, u)
  <2> DEFINE c == ChildOf[n]
  <2>1. PICK b \in Db : \E st \in StageSet :
          Added(d, b, i, st) /\ Waiting(st, n, t) /\ StandsAt(b, i, "waiting_external") /\ Started(b, e, c)
    BY <1>6 DEF BeginCase
  <2>2. PICK st \in StageSet :
          Added(d, b, i, st) /\ Waiting(st, n, t) /\ StandsAt(b, i, "waiting_external") /\ Started(b, e, c)
    BY <2>1
  <2>3. d.inst[c] = "absent" /\ u = <<ToAdvance(c, Root, StartOf[c]), ToLink(i, NextSlot(d, i))>>
    BY <1>6 DEF BeginCase
  <2>4. c # i  BY <2>3 DEF OpenInst
  <2> HIDE DEF c
  <2>5. Pending(b, i) = {}  BY <2>2, AddedPending DEF Waiting
  <2>6. Same(b, e, i)  BY <2>2, <2>4 DEF Started, Touches
  <2>7. AsFound(b, e, i)  BY <2>6, SameFound
  <2>8. Shown(e, i)  BY <2>2, <2>5, <2>7 DEF Shown, AsFound, StandsAt
  <2>9. ~Advances(ToAdvance(c, Root, StartOf[c]), i) /\ ~Advances(ToLink(i, NextSlot(d, i)), i)
    BY <2>4, AdvancesAre
  <2>10. NoAdvance(u, i)  BY <2>3, <2>9, NoAdvances
  <2>11. QED  BY <2>8, <2>10 DEF ShownGoal, LeftWell, NoAdvance, Sole
<1>7. CASE ForkCase(d, e, i, t, n, u)
  <2>1. PICK x \in Seq(Calls) : IsConcat(u, x, <<ToSync(i)>>)  BY <1>7 DEF ForkCase
  <2> DEFINE y == <<ToSync(i)>>
  <2>2. Len(y) = 1 /\ 1 \in DOMAIN y /\ y[1] = ToSync(i)  OBVIOUS
  <2>3. ToSync(i).method = "sync" /\ ToSync(i).i = i  BY CallsGive
  <2>4. IsConcat(u, x, y)  BY <2>1
  <2> HIDE DEF y
  <2>5. Len(u) = Len(x) + 1 /\ Len(x) + 1 \in DOMAIN u /\ u[Len(x) + 1] = ToSync(i)
    BY <2>2, <2>4 DEF IsConcat
  <2>6. u # <<>>  BY <2>5
  <2>7. Sums(u, i)  BY <2>3, <2>5, <2>6 DEF Sums
  <2>8. QED  BY <2>7 DEF ShownGoal, LeftWell
<1>8. CASE WaitCase(d, e, i, t, n, u)
  <2>1. PICK b \in Db : TokenSet(d, b, i, t, "waiting_join") /\ Synced(b, e, i)  BY <1>8 DEF WaitCase
  <2>2. b.inst[i] \in OpenInst  BY <2>1 DEF TokenSet, Retokens
  <2>3. u = <<>>  BY <1>8 DEF WaitCase
  <2>4. QED  BY <2>1, <2>2, <2>3, SyncedGoal
<1>9. CASE MergeCase(d, e, i, t, n, u)
  <2>1. PICK b \in Db :
          /\ TokenSet(d, b, i, t, "waiting_join")
          /\ Marked(b, e, i, Branches(Front(t), ForkOf[n]), "merged", Front(t), "active")
    BY <1>9 DEF MergeCase
  <2>2. /\ b.inst[i] = d.inst[i] /\ b.run[i] = d.run[i] /\ b.stages[i] = d.stages[i]
        /\ e.inst[i] = b.inst[i] /\ e.run[i] = b.run[i] /\ e.stages[i] = b.stages[i]
    BY <2>1 DEF TokenSet, Marked, Retokens
  <2>3. AsFound(d, e, i)  BY <2>2 DEF AsFound, Pending, InStatus, Slots
  <2>4. u = <<ToAdvance(i, Front(t), To(n)[1])>>  BY <1>9 DEF MergeCase
  <2>5. QED  BY <2>3, <2>4, GoesShown
<1>10. CASE LeaveCase(d, e, i, t, n, u)
  <2>1. PICK b \in Db : TokenSet(d, b, i, t, "completed") /\ Synced(b, e, i)  BY <1>10 DEF LeaveCase
  <2>2. b.inst[i] \in OpenInst  BY <2>1 DEF TokenSet, Retokens
  <2>3. u = <<>>  BY <1>10 DEF LeaveCase
  <2>4. QED  BY <2>1, <2>2, <2>3, SyncedGoal
<1>11. CASE CompleteCase(d, e, i, t, n, u)
  <2>1. PICK b \in Db : Completes(b, e, i)  BY <1>11 DEF CompleteCase
  <2>2. e.inst[i] = "completed"  BY <2>1 DEF Completes, StandsAt
  <2>3. "completed" \notin OpenInst  BY DEF OpenInst
  <2>4. QED  BY <2>2, <2>3 DEF ShownGoal
<1>12. QED
  BY <1>1, <1>2, <1>3, <1>4, <1>5, <1>6, <1>7, <1>8, <1>9, <1>10, <1>11 DEF EnterCase

(* The other instances, when a token enters a node.                         *)
LEMMA AsideShown ==
  ASSUME NEW d \in Db, NEW e, NEW i \in Instances, NEW t, NEW n, NEW u, EnterCase(d, e, i, t, n, u),
         NEW j \in Instances \ {i}, d.inst[j] \in OpenInst => Shown(d, j),
         d.inst[j] = "absent" => d.stages[j] = <<>>
  PROVE  ShownGoal(e, u, j)
<1> DEFINE Aside(c) == ~Advances(c, j)
<1>1. /\ \A v, m, s, k : Aside(ToAdvance(i, v, m)) /\ Aside(ToFail(i, s)) /\ Aside(ToLink(i, k))
      /\ Aside(ToSync(i)) /\ Aside(ToParent(i))
  BY AdvancesAre
<1> HIDE DEF Aside
<1>2. /\ \A b : Aside(b) => NoAdvance(<<b>>, j)
      /\ \A b, c : Aside(b) /\ Aside(c) => NoAdvance(<<b, c>>, j)
      /\ NoAdvance(<<>>, j)
  BY NoAdvances DEF Aside
<1>3. ASSUME Same(d, e, j), NoAdvance(u, j) PROVE ShownGoal(e, u, j)
  <2>1. AsFound(d, e, j)  BY <1>3, SameFound
  <2>2. QED  BY <1>3, <2>1, FoundFrame
<1>4. CASE PassCase(d, e, i, t, n, u)
  <2>1. PICK m \in GNodes : u = <<ToAdvance(i, t, m)>>  BY <1>4 DEF PassCase
  <2>2. Same(d, e, j)  BY <1>4 DEF PassCase, Still, Touches
  <2>3. QED  BY <1>1, <1>2, <1>3, <2>1, <2>2
<1>5. CASE FailCase(d, e, i, n, u)
  <2>1. Same(d, e, j)  BY <1>5 DEF FailCase, Still, Touches
  <2>2. u = <<ToFail(i, "failed")>>  BY <1>5 DEF FailCase
  <2>3. QED  BY <1>1, <1>2, <1>3, <2>1, <2>2
<1>6. CASE QueueCase(d, e, i, t, n, u)
  <2>1. Same(d, e, j)  BY <1>6 DEF QueueCase, Added, Touches
  <2>2. u = <<>>  BY <1>6 DEF QueueCase
  <2>3. QED  BY <1>2, <1>3, <2>1, <2>2
<1>7. CASE RunCase(d, e, i, t, n, u)
  <2>1. Same(d, e, j)  BY <1>7 DEF RunCase, Added, Touches
  <2>2. u = <<ToAdvance(i, t, To(n)[1])>>  BY <1>7 DEF RunCase
  <2>3. QED  BY <1>1, <1>2, <1>3, <2>1, <2>2
<1>8. CASE RefuseCase(d, e, i, t, n, u)
  <2>1. Same(d, e, j)  BY <1>8 DEF RefuseCase, Added, Touches
  <2>2. u = <<ToFail(i, "failed")>>  BY <1>8 DEF RefuseCase
  <2>3. QED  BY <1>1, <1>2, <1>3, <2>1, <2>2
<1>9. CASE BeginCase(d, e, i, t, n, u)
  <2> DEFINE c == ChildOf[n]  a == ToAdvance(c, Root, StartOf[c])  l == ToLink(i, NextSlot(d, i))
  <2>1. PICK b \in Db : \E st \in StageSet : Added(d, b, i, st) /\ Started(b, e, c)  BY <1>9 DEF BeginCase
  <2>2. PICK st \in StageSet : Added(d, b, i, st) /\ Started(b, e, c)  BY <2>1
  <2>3. d.inst[c] = "absent" /\ u = <<a, l>>  BY <1>9 DEF BeginCase
  <2>4. Same(d, b, j)  BY <2>2 DEF Added, Touches
  <2>5. Aside(l)  BY <1>1
  <2>6. CASE j # c
    <3>1. Same(b, e, j)  BY <2>2, <2>6 DEF Started, Touches
    <3>2. Same(d, e, j)  BY <2>4, <3>1 DEF Same
    <3>3. Aside(a)  BY <2>6, AdvancesAre DEF Aside
    <3>4. QED  BY <1>2, <1>3, <2>3, <2>5, <3>2, <3>3
  <2>7. CASE j = c
    <3>1. d.stages[j] = <<>>  BY <2>3, <2>7
    <3>2. e.stages[j] = <<>> /\ e.inst[j] = "queued" /\ e.run[j] = "queued"
      BY <2>2, <2>4, <2>7, <3>1 DEF Started, StandsAt, Same
    <3>3. Pending(e, j) = {}  BY <3>2 DEF Pending, InStatus, Slots
    <3>4. Shown(e, j)  BY <3>2, <3>3 DEF Shown
    <3>5. Sole(u, j)
      <4>1. DOMAIN <<a, l>> = {1, 2} /\ <<a, l>>[2] = l  OBVIOUS
      <4>2. ~Advances(l, j)  BY <2>5 DEF Aside
      <4> HIDE DEF a, l
      <4>3. QED  BY <2>3, <4>1, <4>2 DEF Sole
    <3>6. QED  BY <3>3, <3>4, <3>5 DEF ShownGoal, LeftWell
  <2>8. QED  BY <2>6, <2>7
<1>10. CASE ForkCase(d, e, i, t, n, u)
  <2>1. PICK x \in Seq(Calls) :
          /\ IsConcat(u, x, <<ToSync(i)>>) /\ DOMAIN x = DOMAIN To(n)
          /\ \A b \in DOMAIN To(n) : x[b] = ToAdvance(i, Branch(t, n, b), To(n)[b])
    BY <1>10 DEF ForkCase
  <2>2. \A y \in DOMAIN x : Aside(x[y])  BY <1>1, <2>1
  <2> DEFINE z == <<ToSync(i)>>
  <2>3. \A y \in DOMAIN z : Aside(z[y])
    <3>1. DOMAIN z = {1} /\ z[1] = ToSync(i)  OBVIOUS
    <3>2. QED  BY <1>1, <3>1
  <2> HIDE DEF z
  <2>4. IsConcat(u, x, z)  BY <2>1 DEF z
  <2>5. \A y \in DOMAIN u : Aside(u[y])  BY <2>2, <2>3, <2>4 DEF IsConcat
  <2>6. NoAdvance(u, j)  BY <2>5 DEF NoAdvance, Aside
  <2>7. Same(d, e, j)  BY <1>10 DEF ForkCase, Marked, Retokens, Touches
  <2>8. QED  BY <1>3, <2>6, <2>7
<1>11. CASE WaitCase(d, e, i, t, n, u)
  <2>1. PICK b \in Db : TokenSet(d, b, i, t, "waiting_join") /\ Synced(b, e, i)  BY <1>11 DEF WaitCase
  <2>2. Same(d, b, j) /\ Same(b, e, j)  BY <2>1 DEF TokenSet, Retokens, Synced, Touches
  <2>3. Same(d, e, j)  BY <2>2 DEF Same
  <2>4. u = <<>>  BY <1>11 DEF WaitCase
  <2>5. QED  BY <1>2, <1>3, <2>3, <2>4
<1>12. CASE MergeCase(d, e, i, t, n, u)
  <2>1. PICK b \in Db :
          /\ TokenSet(d, b, i, t, "waiting_join")
          /\ Marked(b, e, i, Branches(Front(t), ForkOf[n]), "merged", Front(t), "active")
    BY <1>12 DEF MergeCase
  <2>2. Same(d, b, j) /\ Same(b, e, j)  BY <2>1 DEF TokenSet, Marked, Retokens, Touches
  <2>3. Same(d, e, j)  BY <2>2 DEF Same
  <2>4. u = <<ToAdvance(i, Front(t), To(n)[1])>>  BY <1>12 DEF MergeCase
  <2>5. QED  BY <1>1, <1>2, <1>3, <2>3, <2>4
<1>13. CASE LeaveCase(d, e, i, t, n, u)
  <2>1. PICK b \in Db : TokenSet(d, b, i, t, "completed") /\ Synced(b, e, i)  BY <1>13 DEF LeaveCase
  <2>2. Same(d, b, j) /\ Same(b, e, j)  BY <2>1 DEF TokenSet, Retokens, Synced, Touches
  <2>3. Same(d, e, j)  BY <2>2 DEF Same
  <2>4. u = <<>>  BY <1>13 DEF LeaveCase
  <2>5. QED  BY <1>2, <1>3, <2>3, <2>4
<1>14. CASE CompleteCase(d, e, i, t, n, u)
  <2>1. PICK b \in Db : TokenSet(d, b, i, t, "completed") /\ Completes(b, e, i)  BY <1>14 DEF CompleteCase
  <2>2. Same(d, b, j) /\ Same(b, e, j)  BY <2>1 DEF TokenSet, Retokens, Completes, Touches
  <2>3. Same(d, e, j)  BY <2>2 DEF Same
  <2>4. u = <<ToParent(i)>>  BY <1>14 DEF CompleteCase
  <2>5. QED  BY <1>1, <1>2, <1>3, <2>3, <2>4
<1>15. QED
  BY <1>4, <1>5, <1>6, <1>7, <1>8, <1>9, <1>10, <1>11, <1>12, <1>13, <1>14 DEF EnterCase

(* The stages of i keep their status.                                       *)
LEMMA StatusFound ==
  ASSUME NEW d, NEW e, NEW i, e.inst[i] = d.inst[i], e.run[i] = d.run[i], Slots(e, i) = Slots(d, i),
         \A m \in Slots(d, i) : e.stages[i][m].status = d.stages[i][m].status
  PROVE  AsFound(d, e, i)
BY DEF AsFound, Pending, InStatus

LEMMA RowFound ==
  ASSUME NEW d, NEW e, NEW i, NEW k, NEW r, RowSet(d, e, i, k, r), NEW j \in Instances
  PROVE  AsFound(d, e, j)
<1>1. CASE j = i
  <2>1. \A m \in Slots(d, i) : e.stages[i][m].status = d.stages[i][m].status  BY DEF RowSet
  <2>2. QED  BY <1>1, <2>1, StatusFound DEF RowSet, Restages
<1>2. CASE j # i
  <2>1. Same(d, e, j)  BY <1>2 DEF RowSet, Restages, Touches
  <2>2. QED  BY <2>1, SameFound
<1>3. QED  BY <1>1, <1>2

(* An instance that is no longer open, and the others as they were.         *)
LEMMA ShutShown ==
  ASSUME NEW d, NEW e, NEW i, e.inst[i] \notin OpenInst, \A j \in Instances \ {i} : Same(d, e, j),
         NEW u, NEW j \in Instances, NoAdvance(u, j), d.inst[j] \in OpenInst => Shown(d, j)
  PROVE  ShownGoal(e, u, j)
<1>1. CASE j = i  BY <1>1 DEF ShownGoal
<1>2. CASE j # i
  <2>1. AsFound(d, e, j)  BY <1>2, SameFound
  <2>2. QED  BY <2>1, FoundFrame
<1>3. QED  BY <1>1, <1>2

(* One call, any instance.                                                  *)
LEMMA CallShown ==
  ASSUME NEW d \in Db, AllFit(d), NEW c, CallOK(d, c), Each(d, c), c.method # "sync",
         NEW e, NEW u, CallCase(d, e, c, u), NEW j \in Instances, d.inst[j] \in OpenInst => Shown(d, j),
         Going(d, c) /\ c.i = j => Pending(d, j) = {}
  PROVE  ShownGoal(e, u, j)
<1> DEFINE i == c.i
<1>0. c \in Calls /\ i \in Instances /\ (c.method = "advance" => c.t \in Token /\ c.n \in GNodes)
      /\ (c.method \in {"fail", "stop"} => c.s \in {"failed", "cancelled"})
  BY CallFields DEF CallOK
<1> DEFINE Aside(b) == ~Advances(b, j)
<1>1. /\ \A l, k, s : Aside(ToFail(l, s)) /\ Aside(ToStop(l, s)) /\ Aside(ToCompensate(l))
      /\ \A l : Aside(ToParent(l)) /\ Aside(ToSync(l))
  BY AdvancesAre
<1> HIDE DEF Aside
<1>2. /\ \A b : Aside(b) => NoAdvance(<<b>>, j)
      /\ \A a, b : Aside(a) /\ Aside(b) => NoAdvance(<<a, b>>, j)
      /\ NoAdvance(<<>>, j)
  BY NoAdvances DEF Aside
<1>3. ASSUME AsFound(d, e, j), NoAdvance(u, j) PROVE ShownGoal(e, u, j)  BY <1>3, FoundFrame
<1>4. ASSUME Still(d, e), NoAdvance(u, j) PROVE ShownGoal(e, u, j)
  <2>1. AsFound(d, e, j)  BY <1>4, SameFound DEF Still, Touches
  <2>2. QED  BY <1>3, <1>4, <2>1
<1>5. ASSUME e.inst[i] \notin OpenInst, Touches(d, e, {i}), NoAdvance(u, j) PROVE ShownGoal(e, u, j)
  BY <1>0, <1>5, ShutShown DEF Touches
<1>6. CASE SpentCase(d, e, c, u)
  <2>1. u = <<ToFail(i, "failed")>> /\ Still(d, e)  BY <1>6 DEF SpentCase
  <2>2. QED  BY <1>1, <1>2, <1>4, <2>1
<1>7. CASE StepCase(d, e, c, u)
  <2> DEFINE b == Entered(d, i, c.t)
  <2>1. c.method = "advance" /\ d.moves[i] # MaxMoves /\ EnterCase(b, e, i, c.t, c.n, u)
    BY <1>7 DEF StepCase
  <2>2. Moved(d, b, i, c.t)  BY <1>0, <2>1, MovedIs
  <2> HIDE DEF b
  <2>3. b \in Db /\ b.inst = d.inst /\ b.run = d.run /\ b.stages = d.stages  BY <2>2 DEF Moved
  <2>4. Going(d, c) /\ c.n \in NodesOf[i] /\ d.inst[i] \in OpenInst  BY <2>1 DEF Going, Each
  <2>5. b.inst[j] = d.inst[j] /\ b.run[j] = d.run[j] /\ Pending(b, j) = Pending(d, j)
    BY <2>3 DEF Pending, InStatus, Slots
  <2>6. b.inst[j] \in OpenInst => Shown(b, j)  BY <2>5 DEF Shown
  <2>7. CASE j = i
    <3>1. b.inst[i] \in OpenInst /\ Shown(b, i) /\ Pending(b, i) = {}  BY <2>4, <2>5, <2>6, <2>7
    <3>2. ShownGoal(e, u, i)  BY <1>0, <2>1, <2>3, <2>4, <3>1, EnterShown
    <3>3. QED  BY <2>7, <3>2
  <2>8. CASE j # i
    <3>1. b.inst[j] = "absent" => b.stages[j] = <<>>  BY <2>3 DEF AllFit, Fits, HeadFits
    <3>2. QED  BY <1>0, <2>1, <2>3, <2>6, <2>8, <3>1, AsideShown
  <2>9. QED  BY <2>7, <2>8
<1>8. CASE FailsCase(d, e, i, c.s, u)
  <2>1. CASE Still(d, e) /\ u = <<>>  BY <1>2, <1>4, <2>1
  <2>2. CASE Quiesced(d, e, i) /\ u = <<ToStop(i, c.s)>>
    <3>1. AsFound(d, e, j)
      <4>1. CASE j = i  BY <2>2, <4>1, StatusFound DEF Quiesced
      <4>2. CASE j # i
        <5>1. Same(d, e, j)  BY <2>2, <4>2 DEF Quiesced, Touches
        <5>2. QED  BY <5>1, SameFound
      <4>3. QED  BY <4>1, <4>2
    <3>2. QED  BY <1>1, <1>2, <1>3, <2>2, <3>1
  <2>3. QED  BY <1>8, <2>1, <2>2 DEF FailsCase
<1>9. ASSUME NEW s, FinalCase(d, e, i, s, u), s \in {"failed", "cancelled"} PROVE ShownGoal(e, u, j)
  <2>1. e.inst[i] = s /\ Touches(d, e, {i}) /\ u = <<ToParent(i)>>
    BY <1>9 DEF FinalCase, Finishes, StandsAt
  <2>2. s \notin OpenInst  BY <1>9 DEF OpenInst
  <2>3. QED  BY <1>1, <1>2, <1>5, <2>1, <2>2
<1>10. CASE c.method = "stop" /\ StopCase(d, e, i, c.s, u)
  <2>1. CASE DetachCase(d, e, i, c.s, u)
    <3>1. PICK k \in RunningLinks(d, i) :
            /\ RowSet(d, e, i, k, "cancelled")
            /\ u = <<ToFail(ChildOf[d.stages[i][k].node], "cancelled"), ToStop(i, c.s)>>
      BY <2>1 DEF DetachCase
    <3>2. AsFound(d, e, j)  BY <3>1, RowFound
    <3>3. QED  BY <1>1, <1>2, <1>3, <3>1, <3>2
  <2>2. CASE CompensateCase(d, e, i, c.s, u)
    <3>1. e.inst[i] = "compensating" /\ Touches(d, e, {i}) /\ u = <<ToCompensate(i)>>
      BY <2>2 DEF CompensateCase, Finishes, StandsAt
    <3>2. "compensating" \notin OpenInst  BY DEF OpenInst
    <3>3. QED  BY <1>1, <1>2, <1>5, <3>1, <3>2
  <2>3. CASE FinalCase(d, e, i, c.s, u)  BY <1>0, <1>9, <1>10, <2>3
  <2>4. QED  BY <1>10, <2>1, <2>2, <2>3 DEF StopCase
<1>11. CASE c.method = "compensate" /\ NextCase(d, e, i, u)
  <2>1. CASE UndoCase(d, e, i, u)
    <3>1. e.inst[i] = d.inst[i] /\ Touches(d, e, {i}) /\ u = <<>>  BY <2>1 DEF UndoCase, Undoes
    <3>2. d.inst[i] = "compensating"  BY <1>11 DEF Each
    <3>3. "compensating" \notin OpenInst  BY DEF OpenInst
    <3>4. QED  BY <1>2, <1>5, <3>1, <3>2, <3>3
  <2>2. CASE FinalCase(d, e, i, IF d.ending[i] = "cancelled" THEN "cancelled" ELSE "failed", u)
    BY <1>9, <2>2
  <2>3. QED  BY <1>11, <2>1, <2>2 DEF NextCase
<1>12. CASE ParentCase(d, e, i, u)
  <2>1. CASE Still(d, e) /\ u = <<>>  BY <1>2, <1>4, <2>1
  <2>2. ASSUME NEW p \in Instances, NEW k \in RunningLinks(d, p),
               UnlinkCase(d, e, p, k, u) \/ ResumeCase(d, e, i, p, k, u) \/ ToppleCase(d, e, i, p, k, u)
        PROVE  ShownGoal(e, u, j)
    <3>1. CASE UnlinkCase(d, e, p, k, u)
      <4>1. AsFound(d, e, j) /\ u = <<>>  BY <3>1, RowFound DEF UnlinkCase
      <4>2. QED  BY <1>2, <1>3, <4>1
    <3>2. ASSUME j # p, Touches(d, e, {p}), NoAdvance(u, j) PROVE ShownGoal(e, u, j)
      <4>1. AsFound(d, e, j)  BY <3>2, SameFound DEF Touches
      <4>2. QED  BY <1>3, <3>2, <4>1
    <3>3. CASE ResumeCase(d, e, i, p, k, u)
      <4> DEFINE a == ToAdvance(p, d.stages[p][k].token, To(d.stages[p][k].node)[1])
      <4>1. u = <<a, ToSync(p)>> /\ Touches(d, e, {p})  BY <3>3 DEF ResumeCase, Settled, Restages
      <4>2. j # p => Aside(a) /\ Aside(ToSync(p))  BY <1>1, AdvancesAre DEF Aside
      <4> HIDE DEF a
      <4>3. CASE j = p
        <5>1. Sums(u, p)  BY <4>1, SumsTwo
        <5>2. QED  BY <4>3, <5>1 DEF ShownGoal, LeftWell
      <4>4. CASE j # p  BY <1>2, <3>2, <4>1, <4>2, <4>4
      <4>5. QED  BY <4>3, <4>4
    <3>4. CASE ToppleCase(d, e, i, p, k, u)
      <4>1. u = <<ToFail(p, "failed")>> /\ Touches(d, e, {p})  BY <3>4 DEF ToppleCase, Settled, Restages
      <4>2. CASE j = p
        <5>1. Closing(u, p)  BY <4>1, ClosesOne, AdvancesAre
        <5>2. QED  BY <4>2, <5>1 DEF ShownGoal
      <4>3. CASE j # p  BY <1>1, <1>2, <3>2, <4>1, <4>3
      <4>4. QED  BY <4>2, <4>3
    <3>5. QED  BY <2>2, <3>1, <3>3, <3>4
  <2>3. QED  BY <1>12, <2>1, <2>2 DEF ParentCase
<1>13. CASE LinkCase(d, e, i, c.k, u)
  <2>1. u = <<ToParent(Child(d, i, c.k))>> /\ AsFound(d, e, j)  BY <1>13, RowFound DEF LinkCase
  <2>2. QED  BY <1>1, <1>2, <1>3, <2>1
<1>14. CASE GiveBackCase(d, e, i, c.k, u)
  <2>1. ASSUME j # i, Touches(d, e, {i}), NoAdvance(u, j) PROVE ShownGoal(e, u, j)
    <3>1. AsFound(d, e, j)  BY <2>1, SameFound DEF Touches
    <3>2. QED  BY <1>3, <2>1, <3>1
  <2>2. CASE AgainCase(d, e, i, c.k, u)
    <3> DEFINE at == IF d.stages[i][c.k].kind = "compensation" THEN "compensating" ELSE "queued"
    <3>1. u = <<>> /\ Touches(d, e, {i}) /\ StandsAt(e, i, at)  BY <2>2 DEF AgainCase, Restood
    <3>2. CASE j = i
      <4>1. e.inst[i] \in OpenInst => Shown(e, i)
        <5>1. "compensating" \notin OpenInst  BY DEF OpenInst
        <5>2. QED  BY <3>1, <5>1 DEF StandsAt, Shown
      <4>2. NoAdvance(u, i) /\ Sole(u, i)  BY <3>1 DEF NoAdvance, Sole
      <4>3. QED  BY <3>2, <4>1, <4>2 DEF ShownGoal, LeftWell
    <3>3. CASE j # i  BY <1>2, <2>1, <3>1, <3>3
    <3>4. QED  BY <3>2, <3>3
  <2>3. CASE GiveUpCase(d, e, i, c.k, u)
    <3>1. PICK b \in Db :
            /\ Restood(d, b, i, c.k, "failed", "compensating")
            /\ IF d.stages[i][c.k].of \in Slots(d, i) THEN RowSet(b, e, i, d.stages[i][c.k].of, "failed") ELSE e = b
      BY <2>3 DEF GiveUpCase
    <3>2. u = <<ToCompensate(i)>>  BY <2>3 DEF GiveUpCase
    <3>3. e.inst[i] = b.inst[i] /\ b.inst[i] = "compensating"
      BY <3>1 DEF Restood, StandsAt, RowSet, Restages
    <3>4. "compensating" \notin OpenInst  BY DEF OpenInst
    <3>5. CASE j = i  BY <3>3, <3>4, <3>5 DEF ShownGoal
    <3>6. CASE j # i
      <4>1. Same(d, b, j)  BY <3>1, <3>6 DEF Restood, Touches
      <4>2. Same(b, e, j) \/ e = b  BY <3>1, <3>6 DEF RowSet, Restages, Touches
      <4>3. Same(d, e, j)  BY <4>1, <4>2 DEF Same
      <4>4. AsFound(d, e, j)  BY <4>3, SameFound
      <4>5. QED  BY <1>1, <1>2, <1>3, <3>2, <4>4
    <3>7. QED  BY <3>5, <3>6
  <2>4. CASE FailBackCase(d, e, i, c.k, u)
    <3>1. u = <<ToFail(i, "failed")>> /\ Touches(d, e, {i})  BY <2>4 DEF FailBackCase, StatusSet, Restages
    <3>2. CASE j = i
      <4>1. Closing(u, i)  BY <3>1, ClosesOne, AdvancesAre
      <4>2. QED  BY <3>2, <4>1 DEF ShownGoal
    <3>3. CASE j # i  BY <1>1, <1>2, <2>1, <3>1, <3>3
    <3>4. QED  BY <3>2, <3>3
  <2>5. QED  BY <1>14, <2>2, <2>3, <2>4 DEF GiveBackCase
<1>15. QED
  BY <1>6, <1>7, <1>8, <1>10, <1>11, <1>12, <1>13, <1>14 DEF CallCase

(***************************************************************************)
(* What is found between the calls of a handler.                           *)
(***************************************************************************)
GoesOn(d, c, i) == Going(d, c) /\ c.i = i
SyncsLast(d, s, i) ==
  \E y \in DOMAIN s : /\ s[y].method = "sync" /\ s[y].i = i
                      /\ \A x \in DOMAIN s : GoesOn(d, s[x], i) => x < y
Lonely(d, s, i) ==
  \A x \in DOMAIN s : GoesOn(d, s[x], i) =>
    Pending(d, i) = {} /\ \A y \in DOMAIN s : GoesOn(d, s[y], i) => y = x
Findable(d, s, i) ==
  d.inst[i] \in OpenInst /\ ~Closing(s, i) => SyncsLast(d, s, i) \/ (Shown(d, i) /\ Lonely(d, s, i))
AllFindable(d, s) == \A i \in Instances : Findable(d, s, i)

(* The calls of z are those of u, then those of R; nothing in R goes on in i. *)
LEMMA LeftFindable ==
  ASSUME NEW e, NEW u, NEW R, NEW z, IsConcat(z, u, R), NEW i, ShownGoal(e, u, i),
         \A x \in DOMAIN R : ~GoesOn(e, R[x], i)
  PROVE  Findable(e, z, i)
<1> SUFFICES ASSUME e.inst[i] \in OpenInst, ~Closing(z, i)
             PROVE  SyncsLast(e, z, i) \/ (Shown(e, i) /\ Lonely(e, z, i))
  BY DEF Findable
<1>1. /\ \A x \in DOMAIN u : x \in DOMAIN z /\ z[x] = u[x]
      /\ \A x \in DOMAIN z : x \in DOMAIN u \/ \E l \in DOMAIN R : z[x] = R[l]
      /\ DOMAIN u = 1..Len(u) /\ Len(u) \in Nat
  BY DEF IsConcat
<1>2. ~Closing(u, i)  BY <1>1 DEF Closing
<1>3. LeftWell(e, u, i)  BY <1>2 DEF ShownGoal
<1>4. \A x \in DOMAIN z : GoesOn(e, z[x], i) => x \in DOMAIN u /\ Advances(u[x], i)
  BY <1>1 DEF GoesOn, Going, Advances
<1>5. CASE Sums(u, i)
  <2> DEFINE y == Len(u)
  <2>1. y \in DOMAIN u /\ u[y].method = "sync" /\ u[y].i = i  BY <1>5 DEF Sums
  <2>2. y \in DOMAIN z /\ z[y].method = "sync" /\ z[y].i = i  BY <1>1, <2>1
  <2>3. \A x \in DOMAIN u : Advances(u[x], i) => x # y  BY <2>1 DEF Advances
  <2>4. \A x \in DOMAIN u : x # y => x < y  BY <1>1
  <2>5. \A x \in DOMAIN z : GoesOn(e, z[x], i) => x < y  BY <1>4, <2>3, <2>4
  <2>6. SyncsLast(e, z, i)  BY <2>2, <2>5 DEF SyncsLast
  <2>7. QED  BY <2>6
<1>6. CASE Shown(e, i) /\ Sole(u, i) /\ (NoAdvance(u, i) \/ Pending(e, i) = {})
  <2>1. Lonely(e, z, i)
    <3>1. SUFFICES ASSUME NEW x \in DOMAIN z, GoesOn(e, z[x], i)
                   PROVE  Pending(e, i) = {} /\ \A y \in DOMAIN z : GoesOn(e, z[y], i) => y = x
      BY DEF Lonely
    <3>2. x \in DOMAIN u /\ Advances(u[x], i)  BY <1>4, <3>1
    <3>3. Pending(e, i) = {}  BY <1>6, <3>2 DEF NoAdvance
    <3>4. \A y \in DOMAIN z : GoesOn(e, z[y], i) => y = x  BY <1>4, <1>6, <3>2 DEF Sole
    <3>5. QED  BY <3>3, <3>4
  <2>2. QED  BY <1>6, <2>1
<1>7. QED  BY <1>3, <1>5, <1>6 DEF LeftWell

(* The last call for i sums up, and is still to come.                       *)
LEMMA SumsLater ==
  ASSUME NEW d, NEW s \in Seq(Calls), s # <<>>, NEW e, NEW u, NEW z, IsConcat(z, u, Tail(s)), NEW i,
         \A x \in DOMAIN Tail(s) : GoesOn(e, Tail(s)[x], i) => GoesOn(d, Tail(s)[x], i),
         SyncsLast(d, s, i), ~(Head(s).method = "sync" /\ Head(s).i = i)
  PROVE  SyncsLast(e, z, i)
<1> DEFINE R == Tail(s)
<1>1. PICK y \in DOMAIN s : /\ s[y].method = "sync" /\ s[y].i = i
                            /\ \A x \in DOMAIN s : GoesOn(d, s[x], i) => x < y
  BY DEF SyncsLast
<1>2. s[1] = Head(s) /\ \A x \in DOMAIN s : x \in Nat \ {0}  BY HeadOf, RestIs
<1>3. y # 1  BY <1>1, <1>2
<1>4. /\ \A x \in DOMAIN R : x + 1 \in DOMAIN s /\ R[x] = s[x + 1]
      /\ DOMAIN R = 1..Len(R) /\ DOMAIN s = 1..Len(s) /\ Len(R) = Len(s) - 1
      /\ Len(s) \in Nat
  BY HeadOf
<1>5. IsConcat(z, u, R)  OBVIOUS
<1>6. \A x \in DOMAIN R : GoesOn(e, R[x], i) => GoesOn(d, R[x], i)  OBVIOUS
<1> HIDE DEF R
<1>7. y - 1 \in DOMAIN R /\ R[y - 1] = s[y]  BY <1>1, <1>2, <1>3, <1>4
<1>8. /\ \A x \in DOMAIN u : z[x] = u[x] /\ x \in 1..Len(u)
      /\ \A l \in DOMAIN R : Len(u) + l \in DOMAIN z /\ z[Len(u) + l] = R[l] /\ l \in Nat
      /\ \A x \in DOMAIN z : x \in DOMAIN u \/ \E l \in DOMAIN R : x = Len(u) + l
      /\ Len(u) \in Nat
  BY <1>5 DEF IsConcat
<1> DEFINE p == Len(u) + (y - 1)
<1>9. p \in DOMAIN z /\ z[p] = s[y]  BY <1>7, <1>8
<1>10. ASSUME NEW x \in DOMAIN z, GoesOn(e, z[x], i) PROVE x < p
  <2>1. CASE x \in DOMAIN u  BY <1>1, <1>2, <1>3, <1>8, <2>1
  <2>2. CASE \E l \in DOMAIN R : x = Len(u) + l
    <3>1. PICK l \in DOMAIN R : x = Len(u) + l  BY <2>2
    <3>2. GoesOn(d, R[l], i)  BY <1>6, <1>8, <1>10, <3>1
    <3>3. l + 1 < y  BY <1>1, <1>4, <3>2
    <3>4. l \in Nat /\ y \in Nat  BY <1>2, <1>8
    <3>5. QED  BY <1>8, <3>1, <3>3, <3>4
  <2>3. QED  BY <1>8, <2>1, <2>2
<1>11. QED  BY <1>1, <1>9, <1>10 DEF SyncsLast

(* The call that sums up i.                                                 *)
LEMMA SyncFinds ==
  ASSUME NEW C, NEW d \in Db, NEW s \in Seq(Calls), s # <<>>, NEW i \in Instances, Findable(d, s, i),
         Head(s).method = "sync", Head(s).i = i, NEW e, Synced(d, e, i), NEW z, IsConcat(z, <<>>, Tail(s)),
         \A x \in DOMAIN Tail(s) : GoesOn(e, Tail(s)[x], i) => GoesOn(d, Tail(s)[x], i),
         HeadFits(d, i)
  PROVE  Findable(e, z, i)
<1> DEFINE R == Tail(s)
<1>1. /\ s[1] = Head(s) /\ 1 \in DOMAIN s
      /\ \A x \in DOMAIN R : x + 1 \in DOMAIN s /\ R[x] = s[x + 1] /\ 1 < x + 1
      /\ \A x \in DOMAIN s : x # 1 => 1 < x
  BY HeadOf
<1>2. DOMAIN z = DOMAIN R /\ \A x \in DOMAIN R : z[x] = R[x] /\ x \in Nat
  <2>1. Len(<<>>) = 0  OBVIOUS
  <2>2. /\ DOMAIN R = 1..Len(R) /\ DOMAIN z = 1..(0 + Len(R)) /\ Len(R) \in Nat
        /\ \A k \in DOMAIN R : z[0 + k] = R[k]
    BY <2>1 DEF IsConcat
  <2>3. QED  BY <2>2
<1>3. \A x \in DOMAIN R : GoesOn(e, R[x], i) => GoesOn(d, R[x], i)  OBVIOUS
<1> HIDE DEF R
<1> SUFFICES ASSUME e.inst[i] \in OpenInst, ~Closing(z, i)
             PROVE  SyncsLast(e, z, i) \/ (Shown(e, i) /\ Lonely(e, z, i))
  BY DEF Findable
<1>4. \A x \in DOMAIN R : ~Closes(R[x], i)  BY <1>2 DEF Closing
<1>5. ~Closing(s, i)
  <2>1. SUFFICES ASSUME NEW x \in DOMAIN s, Closes(s[x], i) PROVE FALSE  BY DEF Closing
  <2>2. x # 1  BY <1>1, <2>1 DEF Closes
  <2>3. x \in Nat \ {0} /\ Len(s) \in Nat /\ DOMAIN s = 1..Len(s) /\ Len(R) = Len(s) - 1 /\ DOMAIN R = 1..Len(R)
    BY RestIs DEF R
  <2>4. x - 1 \in DOMAIN R  BY <2>2, <2>3
  <2>5. R[x - 1] = s[x]  BY <1>1, <2>3, <2>4
  <2>6. QED  BY <1>4, <2>1, <2>4, <2>5
<1>6. d.inst[i] \in OpenInst
  <2>1. CASE d.inst[i] \in Ended \cup {"compensating"}
    <3>1. e.inst[i] = d.inst[i]  BY <2>1 DEF Synced, Same
    <3>2. QED  BY <3>1
  <2>2. CASE d.inst[i] = "absent"
    <3>1. d.stages[i] = <<>> /\ d.token[i] = <<>>  BY <2>2 DEF HeadFits
    <3>2. InStatus(d, i, OpenStage) = {} /\ Live(d, i) = {}  BY <3>1 DEF InStatus, Slots, Live
    <3>3. e.inst[i] = "absent"  BY <2>2, <3>2 DEF Synced
    <3>4. QED  BY <3>3 DEF OpenInst
  <2>3. d.inst[i] \in InstStatus  BY DEF Db
  <2>4. QED  BY <2>1, <2>2, <2>3 DEF InstStatus
<1>7. Shown(e, i)  BY <1>6, SyncedShown
<1>8. SyncsLast(d, s, i) \/ (Shown(d, i) /\ Lonely(d, s, i))  BY <1>5, <1>6 DEF Findable
<1>9. \A x \in DOMAIN z : GoesOn(e, z[x], i) => x + 1 \in DOMAIN s /\ GoesOn(d, s[x + 1], i) /\ x \in Nat
  BY <1>1, <1>2, <1>3
<1>10. CASE SyncsLast(d, s, i)
  <2>1. PICK y \in DOMAIN s : /\ s[y].method = "sync" /\ s[y].i = i
                              /\ \A x \in DOMAIN s : GoesOn(d, s[x], i) => x < y
    BY <1>10 DEF SyncsLast
  <2>2. y \in Nat \ {0} /\ (y # 1 => y - 1 \in DOMAIN R /\ R[y - 1] = s[y])  BY RestIs DEF R
  <2>3. CASE y = 1
    <3>1. \A x \in DOMAIN z : ~GoesOn(e, z[x], i)
      <4>1. SUFFICES ASSUME NEW x \in DOMAIN z, GoesOn(e, z[x], i) PROVE FALSE  OBVIOUS
      <4>2. x \in Nat /\ x + 1 < 1  BY <1>9, <2>1, <2>3, <4>1
      <4>3. QED  BY <4>2
    <3>2. Lonely(e, z, i)  BY <3>1 DEF Lonely
    <3>3. QED  BY <1>7, <3>2
  <2>4. CASE y # 1
    <3> DEFINE q == y - 1
    <3>1. q \in DOMAIN z /\ z[q] = s[y]  BY <1>2, <2>2, <2>4
    <3>2. ASSUME NEW x \in DOMAIN z, GoesOn(e, z[x], i) PROVE x < q
      <4>1. x \in Nat /\ x + 1 < y  BY <1>9, <2>1, <3>2
      <4>2. QED  BY <2>2, <4>1
    <3> HIDE DEF q
    <3>3. SyncsLast(e, z, i)  BY <2>1, <3>1, <3>2 DEF SyncsLast
    <3>4. QED  BY <3>3
  <2>5. QED  BY <2>3, <2>4
<1>11. CASE Lonely(d, s, i)
  <2>1. e.stages[i] = d.stages[i]  BY DEF Synced
  <2>2. Pending(e, i) = Pending(d, i)  BY <2>1 DEF Pending, InStatus, Slots
  <2>3. SUFFICES ASSUME NEW x \in DOMAIN z, GoesOn(e, z[x], i)
                 PROVE  Pending(e, i) = {} /\ \A y \in DOMAIN z : GoesOn(e, z[y], i) => y = x
    BY <1>7 DEF Lonely
  <2>4. x + 1 \in DOMAIN s /\ GoesOn(d, s[x + 1], i) /\ x \in Nat  BY <1>9, <2>3
  <2>5. Pending(d, i) = {}  BY <1>11, <2>4 DEF Lonely
  <2>6. ASSUME NEW y \in DOMAIN z, GoesOn(e, z[y], i) PROVE y = x
    <3>1. y + 1 \in DOMAIN s /\ GoesOn(d, s[y + 1], i) /\ y \in Nat  BY <1>9, <2>6
    <3>2. y + 1 = x + 1  BY <1>11, <2>4, <3>1 DEF Lonely
    <3>3. QED  BY <2>4, <3>1, <3>2
  <2>7. QED  BY <2>2, <2>5, <2>6
<1>12. QED  BY <1>8, <1>10, <1>11

(* One call more, one instance.                                             *)
LEMMA FindCall ==
  ASSUME NEW C, NEW d \in Db, AllFit(d), NEW s \in Seq(Calls), s # <<>>, InOrder(C, d, s), AllFindable(d, s),
         CallOK(d, Head(s)), NEW e \in Db, Grows(d, e), NEW u, CallCase(d, e, Head(s), u),
         NEW z, IsConcat(z, u, Tail(s)), NEW j \in Instances
  PROVE  Findable(e, z, j)
<1> DEFINE c == Head(s)  R == Tail(s)
<1>1. /\ 1 \in DOMAIN s /\ s[1] = c /\ c \in Calls
      /\ \A x \in DOMAIN R : x + 1 \in DOMAIN s /\ R[x] = s[x + 1] /\ 1 < x + 1
      /\ \A x \in DOMAIN s : s[x] \in Calls
  BY HeadOf
<1>2. \A x \in DOMAIN s : x # 1 => x - 1 \in DOMAIN R /\ R[x - 1] = s[x]  BY RestIs
<1>3. /\ \A x \in DOMAIN u : x \in DOMAIN z /\ z[x] = u[x]
      /\ \A x \in DOMAIN R : \E y \in DOMAIN z : z[y] = R[x]
  BY DEF IsConcat
<1>4. CallCase(d, e, c, u) /\ CallOK(d, c) /\ Findable(d, s, j) /\ Fits(d, j)  BY DEF AllFindable, AllFit
<1>5. \A x \in DOMAIN s : Each(d, s[x])  BY DEF InOrder
<1>6. \A x \in DOMAIN R : Before(C, d, c, R[x])  BY <1>1 DEF InOrder
<1>7. ASSUME NEW x \in DOMAIN R, GoesOn(e, R[x], j) PROVE GoesOn(d, R[x], j)
  <2>1. R[x] \in Calls  BY <1>1
  <2>2. R[x].i \in Instances  BY <2>1, CallFields
  <2>3. Going(d, R[x])  BY <1>7, <2>2, GoingLess DEF GoesOn
  <2>4. QED  BY <1>7, <2>3 DEF GoesOn
<1>8. IsConcat(z, u, R)  OBVIOUS
<1>9. CASE c.method = "sync" /\ c.i = j
  <2>1. Synced(d, e, j) /\ u = <<>>
    BY <1>4, <1>9 DEF CallCase, SpentCase, StepCase
  <2>2. HeadFits(d, j)  BY <1>4 DEF Fits
  <2>3. QED  BY <1>4, <1>7, <1>9, <2>1, <2>2, SyncFinds
<1>10. CASE ~(c.method = "sync" /\ c.i = j)
  <2> SUFFICES ASSUME e.inst[j] \in OpenInst, ~Closing(z, j) PROVE Findable(e, z, j)
    BY DEF Findable
  <2>1. d.inst[j] \in OpenInst => ~Closing(s, j)
    <3>1. SUFFICES ASSUME d.inst[j] \in OpenInst, NEW x \in DOMAIN s, Closes(s[x], j) PROVE FALSE
      BY DEF Closing
    <3>2. CASE x = 1
      <4>1. Closes(c, j)  BY <1>1, <3>1, <3>2
      <4>2. Closing(u, j)  BY <1>4, <3>1, <4>1, CloseGoes
      <4>3. QED  BY <1>3, <4>2 DEF Closing
    <3>3. CASE x # 1
      <4>1. x - 1 \in DOMAIN R /\ R[x - 1] = s[x]  BY <1>2, <3>3
      <4>2. PICK y \in DOMAIN z : z[y] = s[x]  BY <1>3, <4>1
      <4>3. QED  BY <3>1, <4>2 DEF Closing
    <3>4. QED  BY <3>2, <3>3
  <2>2. d.inst[j] \in OpenInst => SyncsLast(d, s, j) \/ (Shown(d, j) /\ Lonely(d, s, j))
    BY <1>4, <2>1 DEF Findable
  <2>3. CASE SyncsLast(d, s, j)
    <3>1. SyncsLast(e, z, j)  BY <1>7, <1>10, <2>3, SumsLater
    <3>2. QED  BY <3>1 DEF Findable
  <2>4. CASE d.inst[j] \in OpenInst => Shown(d, j) /\ Lonely(d, s, j)
    <3>1. \A x \in DOMAIN s : GoesOn(d, s[x], j) => d.inst[j] \in OpenInst
      BY <1>5 DEF Each, GoesOn
    <3>2. Going(d, c) /\ c.i = j => Pending(d, j) = {}
      BY <1>1, <2>4, <3>1 DEF Lonely, GoesOn
    <3>3. ShownGoal(e, u, j)
      <4>1. CASE c.method = "sync"
        <5>1. Synced(d, e, c.i) /\ u = <<>>  BY <1>4, <4>1 DEF CallCase, SpentCase, StepCase
        <5>2. Same(d, e, j)  BY <1>10, <4>1, <5>1 DEF Synced, Touches
        <5>3. NoAdvance(u, j)  BY <5>1 DEF NoAdvance
        <5>4. QED  BY <2>4, <5>2, <5>3, SameFound, FoundFrame
      <4>2. CASE c.method # "sync"
        <5>1. Each(d, c)  BY <1>1, <1>5
        <5>2. QED  BY <1>4, <2>4, <3>2, <4>2, <5>1, CallShown
      <4>3. QED  BY <4>1, <4>2
    <3>4. ASSUME NEW x \in DOMAIN R, GoesOn(e, R[x], j) PROVE FALSE
      <4>1. GoesOn(d, s[x + 1], j) /\ x + 1 \in DOMAIN s /\ 1 < x + 1 /\ R[x] = s[x + 1]  BY <1>1, <1>7, <3>4
      <4>2. CalmCall(C, c, j)  BY <1>6, <4>1 DEF Before, GoesOn
      <4>3. c.i = j /\ c.method = "advance"  BY <1>10, <4>2 DEF CalmCall
      <4>4. GoesOn(d, s[1], j)  BY <1>1, <4>1, <4>3 DEF GoesOn, Going
      <4>5. Lonely(d, s, j)  BY <2>4, <3>1, <4>1
      <4>6. x + 1 = 1  BY <1>1, <4>1, <4>4, <4>5 DEF Lonely
      <4>7. QED  BY <4>1, <4>6
    <3>5. QED  BY <1>8, <3>3, <3>4, LeftFindable
  <2>5. QED  BY <2>2, <2>3, <2>4
<1>11. QED  BY <1>9, <1>10

(* One call more, of the whole handler.                                     *)
LEMMA FindStep ==
  ASSUME NEW C, NEW m \in Machines, m.todo # <<>>, Sound(C, m.db, m.todo), AllFindable(m.db, m.todo),
         NEW n, StepsTo(m, n)
  PROVE  AllFindable(n.db, n.todo)
<1> DEFINE d == m.db  s == m.todo  c == Head(s)
<1>1. d \in Db /\ s \in Seq(Calls) /\ s # <<>>  BY DEF Machines
<1>2. PICK e, u : /\ CallCase(d, e, c, u) /\ Gives(d, e, u) /\ CallOK(d, c)
                  /\ AllOK(e, Tail(s)) /\ n = Do(e, u \o Tail(s))
  BY DEF StepsTo
<1> DEFINE z == u \o Tail(s)
<1>3. n.db = e /\ n.todo = z  BY <1>2 DEF Do
<1>4. AllOK(e, u) /\ e \in Db /\ Grows(d, e)  BY <1>2 DEF Gives
<1>5. IsConcat(z, u, Tail(s))  BY <1>2, <1>4, AllThen
<1>6. AllFit(d) /\ InOrder(C, d, s) /\ AllFindable(d, s)  BY DEF Sound
<1> HIDE DEF d, s, z
<1>7. \A j \in Instances : Findable(e, z, j)  BY <1>1, <1>2, <1>4, <1>5, <1>6, FindCall
<1>8. QED  BY <1>3, <1>7 DEF AllFindable

(***************************************************************************)
(* What is found, from handler to handler.                                 *)
(***************************************************************************)
FoundAt(d) == \A i \in Instances : d.inst[i] \in OpenInst => Shown(d, i)

LEMMA BeginFound ==
  ASSUME NEW e, NEW u \in Seq(Calls), \A j \in Instances : ShownGoal(e, u, j)
  PROVE  AllFindable(e, u)
<1> DEFINE R == <<>>
<1>1. Len(R) = 0 /\ DOMAIN R = {}  OBVIOUS
<1>2. Len(u) \in Nat /\ DOMAIN u = 1..Len(u)  OBVIOUS
<1> HIDE DEF R
<1>3. IsConcat(u, u, R)  BY <1>1, <1>2 DEF IsConcat
<1>5. ASSUME NEW j \in Instances PROVE Findable(e, u, j)
  <2>1. \A x \in DOMAIN R : ~GoesOn(e, R[x], j)  BY <1>1
  <2>2. QED  BY <1>3, <2>1, LeftFindable
<1>6. QED  BY <1>5 DEF AllFindable

LEMMA FoundWhenIdle ==
  ASSUME NEW d
  PROVE  AllFindable(d, <<>>) <=> FoundAt(d)
<1> DEFINE s == <<>>
<1>1. DOMAIN s = {}  OBVIOUS
<1> HIDE DEF s
<1>2. ASSUME NEW i PROVE ~Closing(s, i) /\ ~SyncsLast(d, s, i) /\ Lonely(d, s, i)
  BY <1>1 DEF Closing, SyncsLast, Lonely
<1>3. AllFindable(d, s) <=> FoundAt(d)  BY <1>2 DEF AllFindable, Findable, FoundAt
<1>4. QED  BY <1>3 DEF s

LEMMA GiveFound ==
  ASSUME NEW d, FoundAt(d), NEW e, NEW u, GiveH(d, e, u), NEW j \in Instances
  PROVE  ShownGoal(e, u, j)
<1>1. PICK i \in Instances : \E k \in Slots(d, i) : \E again \in BOOLEAN : u = <<ToGiveBack(i, k, again)>>
  BY DEF GiveH
<1>2. PICK k \in Slots(d, i) : \E again \in BOOLEAN : u = <<ToGiveBack(i, k, again)>>  BY <1>1
<1>3. PICK again \in BOOLEAN : u = <<ToGiveBack(i, k, again)>>  BY <1>2
<1>4. ~Advances(ToGiveBack(i, k, again), j)  BY DEF Advances, ToGiveBack
<1>5. NoAdvance(u, j)  BY <1>3, <1>4, NoAdvances
<1>6. Same(d, e, j)  BY DEF GiveH, Still, Touches
<1>7. d.inst[j] \in OpenInst => Shown(d, j)  BY DEF FoundAt
<1>8. QED  BY <1>5, <1>6, <1>7, SameFound, FoundFrame

(* How a handler begins.                                                    *)
LEMMA BeginsShown ==
  ASSUME NEW d \in Db, AllFit(d), Lone(d), FoundAt(d), NEW e, NEW u, Begins(d, e, u), NEW j \in Instances
  PROVE  ShownGoal(e, u, j)
<1>1. d.inst[j] \in OpenInst => Shown(d, j)  BY DEF FoundAt
<1>2. ASSUME Same(d, e, j), NoAdvance(u, j) PROVE ShownGoal(e, u, j)
  BY <1>1, <1>2, SameFound, FoundFrame
<1>3. CASE StartH(d, e, u)
  <2>1. PICK i \in Instances :
          d.inst[i] = "absent" /\ Started(d, e, i) /\ u = <<ToAdvance(i, Root, StartOf[i])>>
    BY <1>3 DEF StartH
  <2>2. CASE j = i
    <3>1. d.stages[i] = <<>>  BY <2>1 DEF AllFit, Fits, HeadFits
    <3>2. e.inst[i] = "queued" /\ e.run[i] = "queued" /\ e.stages[i] = <<>>
      BY <2>1, <3>1 DEF Started, StandsAt
    <3>3. Slots(e, i) = {}  BY <3>2 DEF Slots
    <3>4. Pending(e, i) = {}  BY <3>3 DEF Pending, InStatus
    <3>5. Shown(e, i)  BY <3>2, <3>4 DEF Shown
    <3>6. Sole(u, i)  BY <2>1, SoleOne
    <3>7. QED  BY <2>2, <3>4, <3>5, <3>6 DEF ShownGoal, LeftWell
  <2>3. CASE j # i
    <3>1. Same(d, e, j)  BY <2>1, <2>3 DEF Started, Touches
    <3>2. ~Advances(ToAdvance(i, Root, StartOf[i]), j)  BY <2>3, AdvancesAre
    <3>3. NoAdvance(u, j)  BY <2>1, <3>2, NoAdvances
    <3>4. QED  BY <1>2, <3>1, <3>3
  <2>4. QED  BY <2>2, <2>3
<1>4. CASE CancelH(d, e, u)
  <2>1. PICK i \in Instances : u = <<ToFail(i, "cancelled")>>  BY <1>4 DEF CancelH
  <2>2. ~Advances(ToFail(i, "cancelled"), j)  BY AdvancesAre
  <2>3. NoAdvance(u, j)  BY <2>1, <2>2, NoAdvances
  <2>4. Same(d, e, j)  BY <1>4 DEF CancelH, Still, Touches
  <2>5. QED  BY <1>2, <2>3, <2>4
<1>5. CASE GoH(d, e, u)
  <2>1. PICK i \in Instances : \E k \in Slots(d, i) : \E r :
          /\ Ends(d, e, i, k, r, "completed")
          /\ u = <<ToAdvance(i, d.stages[i][k].token, To(d.stages[i][k].node)[1]), ToSync(i)>>
    BY <1>5 DEF GoH
  <2>2. PICK k \in Slots(d, i) : \E r :
          /\ Ends(d, e, i, k, r, "completed")
          /\ u = <<ToAdvance(i, d.stages[i][k].token, To(d.stages[i][k].node)[1]), ToSync(i)>>
    BY <2>1
  <2> DEFINE a == ToAdvance(i, d.stages[i][k].token, To(d.stages[i][k].node)[1])
  <2>3. u = <<a, ToSync(i)>> /\ \A l \in Instances \ {i} : Same(d, e, l)  BY <2>2 DEF Ends, Touches
  <2>4. j # i => ~Advances(a, j) /\ ~Advances(ToSync(i), j)  BY AdvancesAre
  <2> HIDE DEF a
  <2>5. CASE j = i
    <3>1. Sums(u, i)  BY <2>3, SumsTwo
    <3>2. QED  BY <2>5, <3>1 DEF ShownGoal, LeftWell
  <2>6. CASE j # i
    <3>1. NoAdvance(u, j)  BY <2>3, <2>4, <2>6, NoAdvances
    <3>2. QED  BY <1>2, <2>3, <2>6, <3>1
  <2>7. QED  BY <2>5, <2>6
<1>6. CASE UndoneH(d, e, u)
  <2>1. PICK i \in Instances : \E k \in Slots(d, i) :
          /\ d.stages[i][k].kind = "compensation" /\ d.stages[i][k].status = "running"
          /\ UndoEnds(d, e, i, k, "completed") /\ u = <<ToCompensate(i)>>
    BY <1>6 DEF UndoneH
  <2>2. PICK k \in Slots(d, i) :
          /\ d.stages[i][k].kind = "compensation" /\ d.stages[i][k].status = "running"
          /\ UndoEnds(d, e, i, k, "completed") /\ u = <<ToCompensate(i)>>
    BY <2>1
  <2>3. d.inst[i] = "compensating"
    <3>1. StageFits(d, i, d.stages[i][k])  BY DEF AllFit, Fits
    <3>2. "running" \in OpenStage  BY DEF OpenStage
    <3>3. QED  BY <2>2, <3>1, <3>2 DEF StageFits
  <2>4. PICK b \in Db :
          /\ Ends(d, b, i, k, d.stages[i][k].row, "completed")
          /\ IF d.stages[i][k].of \in Slots(d, i) THEN RowSet(b, e, i, d.stages[i][k].of, "completed") ELSE e = b
    BY <2>2 DEF UndoEnds
  <2>5. b.inst[i] = d.inst[i] /\ \A l \in Instances \ {i} : Same(d, b, l)  BY <2>4 DEF Ends, Touches
  <2>6. e.inst[i] = b.inst[i] /\ \A l \in Instances \ {i} : Same(b, e, l)
    BY <2>4 DEF RowSet, Restages, Touches, Same
  <2>7. e.inst[i] \notin OpenInst  BY <2>3, <2>5, <2>6 DEF OpenInst
  <2>8. \A l \in Instances \ {i} : Same(d, e, l)  BY <2>5, <2>6 DEF Same
  <2>9. ~Advances(ToCompensate(i), j)  BY AdvancesAre
  <2>10. NoAdvance(u, j)  BY <2>2, <2>9, NoAdvances
  <2>11. QED  BY <1>1, <2>7, <2>8, <2>10, ShutShown
<1>7. CASE BreakH(d, e, u)
  <2>1. PICK i \in Instances : \E k \in Slots(d, i) : \E r : \E s \in {"failed", "cancelled"} :
          Ends(d, e, i, k, r, s) /\ u = <<ToFail(i, s)>>
    BY <1>7 DEF BreakH
  <2>2. PICK s \in {"failed", "cancelled"} :
          (\A l \in Instances \ {i} : Same(d, e, l)) /\ u = <<ToFail(i, s)>>
    BY <2>1 DEF Ends, Touches
  <2>3. ~Advances(ToFail(i, s), j) /\ Closes(ToFail(i, s), i)  BY AdvancesAre
  <2>4. CASE j = i
    <3>1. Closing(u, i)  BY <2>2, <2>3, ClosesOne
    <3>2. QED  BY <2>4, <3>1 DEF ShownGoal
  <2>5. CASE j # i
    <3>1. NoAdvance(u, j)  BY <2>2, <2>3, NoAdvances
    <3>2. QED  BY <1>2, <2>2, <2>5, <3>1
  <2>6. QED  BY <2>4, <2>5
<1>8. CASE LateH(d, e, u)
  <2>1. PICK i \in Instances : \E k \in Slots(d, i) :
          RowSet(d, e, i, k, "expired") /\ u = <<ToFail(i, "failed")>>
    BY <1>8 DEF LateH
  <2>2. PICK k \in Slots(d, i) : RowSet(d, e, i, k, "expired") /\ u = <<ToFail(i, "failed")>>
    BY <2>1
  <2>3. AsFound(d, e, j)  BY <2>2, RowFound
  <2>4. ~Advances(ToFail(i, "failed"), j)  BY AdvancesAre
  <2>5. NoAdvance(u, j)  BY <2>2, <2>4, NoAdvances
  <2>6. QED  BY <1>1, <2>3, <2>5, FoundFrame
<1>9. CASE GiveH(d, e, u)  BY <1>9, GiveFound
<1>10. CASE SweepH(d, e, u)
  <2>1. GiveH(d, e, u)  BY <1>10 DEF SweepH
  <2>2. QED  BY <2>1, GiveFound
<1>11. CASE RevokeH(d, e, u)
  <2>1. PICK i \in Instances : Revokes(d, e, u, i)  BY <1>11 DEF RevokeH
  <2>2. \A l \in Instances \ {i} : Same(d, e, l)  BY <2>1, RevokesAre DEF Touches
  <2>3. CASE u = <<ToFail(i, "cancelled")>>
    <3>1. ~Advances(ToFail(i, "cancelled"), j) /\ Closes(ToFail(i, "cancelled"), i)  BY AdvancesAre
    <3>2. CASE j = i
      <4>1. Closing(u, i)  BY <2>3, <3>1, ClosesOne
      <4>2. QED  BY <3>2, <4>1 DEF ShownGoal
    <3>3. CASE j # i
      <4>1. NoAdvance(u, j)  BY <2>3, <3>1, NoAdvances
      <4>2. QED  BY <1>2, <2>2, <3>3, <4>1
    <3>4. QED  BY <3>2, <3>3
  <2>4. CASE e.inst[i] = "cancelled" /\ u = <<ToParent(i)>>
    <3>1. ~Advances(ToParent(i), j)  BY AdvancesAre
    <3>2. NoAdvance(u, j)  BY <2>4, <3>1, NoAdvances
    <3>3. e.inst[i] \notin OpenInst  BY <2>4 DEF OpenInst
    <3>4. QED  BY <1>1, <2>2, <3>2, <3>3, ShutShown
  <2>5. \/ u = <<ToFail(i, "cancelled")>>
        \/ e.inst[i] = "cancelled" /\ u = <<ToParent(i)>>
    BY <2>1, RevokesAre DEF RevokedAs
  <2>6. QED  BY <2>3, <2>4, <2>5
<1>12. QED  BY <1>3, <1>4, <1>5, <1>6, <1>7, <1>8, <1>9, <1>10, <1>11 DEF Begins, Handled

(* A handler that makes no call.                                            *)
LEMMA PlainFound ==
  ASSUME NEW d, AllFit(d), FoundAt(d), NEW i \in Instances, NEW k \in Slots(d, i), NEW e,
         LeaseCase(d, e, i, k) \/ LapseCase(d, e, i, k) \/ ApproveCase(d, e, i, k)
  PROVE  FoundAt(e)
<1> SUFFICES ASSUME NEW j \in Instances, e.inst[j] \in OpenInst PROVE Shown(e, j)
  BY DEF FoundAt
<1>1. d.inst[j] \in OpenInst => Shown(d, j)  BY DEF FoundAt
<1>2. ASSUME AsFound(d, e, j) PROVE Shown(e, j)  BY <1>1, <1>2 DEF AsFound, Shown
<1>3. CASE j # i
  <2>1. Same(d, e, j)
    <3>1. CASE LeaseCase(d, e, i, k)  BY <1>3, <3>1 DEF LeaseCase, Others
    <3>2. CASE LapseCase(d, e, i, k)  BY <1>3, <3>2 DEF LapseCase, Others
    <3>3. CASE ApproveCase(d, e, i, k)  BY <1>3, <3>3 DEF ApproveCase, Touches
    <3>4. QED  BY <3>1, <3>2, <3>3
  <2>2. QED  BY <1>2, <2>1, SameFound
<1>4. CASE j = i
  <2>1. CASE LeaseCase(d, e, i, k)
    <3>1. StandsAt(e, i, IF d.stages[i][k].kind = "compensation" THEN "compensating" ELSE "running")
      BY <2>1 DEF LeaseCase
    <3>2. "compensating" \notin OpenInst  BY DEF OpenInst
    <3>3. QED  BY <1>4, <3>1, <3>2 DEF StandsAt, Shown
  <2>2. CASE LapseCase(d, e, i, k)
    <3>1. /\ e.inst[i] = d.inst[i] /\ e.run[i] = d.run[i] /\ Slots(e, i) = Slots(d, i)
          /\ \A m \in Slots(d, i) : m # k => e.stages[i][m] = d.stages[i][m]
          /\ e.stages[i][k].status = "running" /\ d.stages[i][k].status = "running"
      BY <2>2 DEF LapseCase
    <3>2. AsFound(d, e, i)  BY <3>1, StatusFound
    <3>3. QED  BY <1>2, <1>4, <3>2
  <2>3. CASE ApproveCase(d, e, i, k)  BY <1>4, <2>3 DEF ApproveCase, Shown
  <2>4. QED  BY <2>1, <2>2, <2>3
<1>5. QED  BY <1>3, <1>4

(* The handlers with all their calls.                                       *)
LEMMA CallsFound ==
  ASSUME NEW C, CalmBy(C), Settled0(db), FoundAt(db), CallsStep
  PROVE  FoundAt(db')
<1>1. PICK e, u, w : Begins(db, e, u) /\ Tame(w) /\ Carry(e, u, w)  BY DEF CallsStep
<1>2. db \in Db /\ AllFit(db) /\ Settle(db) /\ Lone(db)  BY DEF Settled0, Settle
<1>3. e \in Db /\ AllOK(e, u)  BY <1>1, <1>2, BeginsGives
<1>4. Sound(C, e, u)  BY <1>1, <1>2, BeginsSound
<1>5. \A j \in Instances : ShownGoal(e, u, j)  BY <1>1, <1>2, BeginsShown
<1>6. u \in Seq(Calls)  BY <1>3, MachineIs DEF Machines
<1>7. AllFindable(e, u)  BY <1>5, <1>6, BeginFound
<1> DEFINE Good == {m \in Machines : Sound(C, m.db, m.todo) /\ AllFindable(m.db, m.todo)}
<1>8. Do(e, u) \in Good  BY <1>3, <1>4, <1>7, MachineIs
<1>9. ASSUME NEW m \in Good PROVE Step(m, w) \in Good
  <2>1. m \in Machines /\ Sound(C, m.db, m.todo) /\ AllFindable(m.db, m.todo)  OBVIOUS
  <2>2. CASE m.todo = <<>>
    <3>1. Step(m, w) = m  BY <2>1, <2>2, StepStays
    <3>2. QED  BY <3>1
  <2>3. CASE m.todo # <<>>
    <3> DEFINE n == Step(m, w)
    <3>1. StepsTo(m, n) /\ n \in Machines  BY <1>1, <2>1, <2>3, StepIs
    <3> HIDE DEF n
    <3>2. Sound(C, n.db, n.todo)  BY <2>1, <2>3, <3>1, SoundThen
    <3>3. AllFindable(n.db, n.todo)  BY <2>1, <2>3, <3>1, FindStep
    <3>4. n \in Good  BY <3>1, <3>2, <3>3
    <3>5. QED  BY <3>4 DEF n
  <2>4. QED  BY <2>2, <2>3
<1> HIDE DEF Good
<1>10. PICK m \in Good : m.todo = <<>> /\ db' = m.db  BY <1>1, <1>8, <1>9, CarryRule
<1>11. AllFindable(m.db, <<>>)  BY <1>10 DEF Good
<1>12. QED  BY <1>10, <1>11, FoundWhenIdle

LEMMA FoundStays ==
  ASSUME NEW C, CalmBy(C), Settled0(db), FoundAt(db), [Next]_vars, ~thrown'
  PROVE  FoundAt(db')
<1>1. db \in Db /\ AllFit(db)  BY DEF Settled0, Settle
<1>2. CASE Next
  <2>1. CASE CallsStep  BY <2>1, CallsFound
  <2>2. CASE PlainStep
    <3>1. PICK i \in Instances : \E k \in Slots(db, i) :
            LeaseCase(db, db', i, k) \/ LapseCase(db, db', i, k) \/ ApproveCase(db, db', i, k)
      BY <2>2 DEF PlainStep, PlainCase
    <3>2. QED  BY <1>1, <3>1, PlainFound
  <2>3. QED  BY <1>1, <1>2, <2>1, <2>2, NextSteps
<1>3. CASE UNCHANGED vars
  <2>1. db' = db  BY <1>3 DEF vars
  <2>2. QED  BY <2>1
<1>4. QED  BY <1>2, <1>3

(* The inductive invariant of what is found.                                *)
FoundInv == thrown \/ (Balanced /\ FoundAt(db))

LEMMA FoundInit ==
  ASSUME Init
  PROVE  FoundInv
<1>1. Balanced  BY BalancedInit
<1>2. \A i \in Instances : db.inst[i] = "absent"  BY DEF Init
<1>3. FoundAt(db)  BY <1>2 DEF FoundAt, OpenInst
<1>4. QED  BY <1>1, <1>3 DEF FoundInv

LEMMA FoundNext ==
  ASSUME Orderly, db \in Db, FoundInv, [Next]_vars
  PROVE  FoundInv'
<1>1. PICK C : CalmBy(C) /\ ~LapseTogether  BY DEF Orderly
<1>2. CASE thrown
  <2>1. thrown'  BY <1>2, ThrownStays
  <2>2. QED  BY <2>1 DEF FoundInv
<1>3. CASE ~thrown /\ ~thrown'
  <2>1. Balanced /\ Settled0(db) /\ FoundAt(db)  BY <1>3 DEF FoundInv, Balanced
  <2>2. Balanced'  BY <1>3, <2>1, BalancedStays
  <2>3. FoundAt(db')  BY <1>1, <1>3, <2>1, FoundStays
  <2>4. QED  BY <2>2, <2>3 DEF FoundInv, FoundAt, Shown, Pending, InStatus, Slots
<1>4. CASE thrown'  BY <1>4 DEF FoundInv
<1>5. QED  BY <1>2, <1>3, <1>4

LEMMA FoundQueued ==
  ASSUME FoundInv, ~thrown
  PROVE  QueuedIsFound
<1>1. Calm(db) /\ FoundAt(db) /\ AllFit(db)  BY DEF FoundInv, Balanced, Settled0, Calm, Settle
<1>2. SUFFICES ASSUME NEW i \in Instances
               PROVE  /\ db.run[i] = db.inst[i]
                      /\ \A k \in InStatus(db, i, {"queued"}) :
                           IF db.stages[i][k].kind = "compensation" THEN db.run[i] = "compensating"
                           ELSE db.run[i] \in {"queued", "running"}
  BY DEF QueuedIsFound
<1>3. db.inst[i] \in OpenInst => Shown(db, i)  BY <1>1 DEF FoundAt
<1>4. db.run[i] = db.inst[i]
  <2>1. EffectsFit(db, i, FALSE)  BY <1>1, CalmAt
  <2>2. QED  BY <1>3, <2>1 DEF EffectsFit, Shown
<1>5. ASSUME NEW k \in InStatus(db, i, {"queued"})
      PROVE  IF db.stages[i][k].kind = "compensation" THEN db.run[i] = "compensating"
             ELSE db.run[i] \in {"queued", "running"}
  <2>1. k \in Slots(db, i) /\ db.stages[i][k].status = "queued" /\ k \in Pending(db, i)
    BY <1>5 DEF InStatus, Pending
  <2>2. StageFits(db, i, db.stages[i][k]) /\ "queued" \in OpenStage
    BY <1>1, <2>1 DEF AllFit, Fits, OpenStage
  <2>3. QED  BY <1>3, <1>4, <2>1, <2>2 DEF StageFits, Shown
<1>6. QED  BY <1>4, <1>5

(* A queued stage is found by the query that is to lease it, and the run    *)
(* stands where its instance does: an open instance has a queued stage only *)
(* while its run is queued or running, and a queued compensation belongs to *)
(* a run that is compensating (syncProcessStatus, leaseNext).               *)
THEOREM EngineFinds ==
  ASSUME Orderly
  PROVE  Spec => []QueuedIsFound
<1>1. Init => FoundInv  BY FoundInit
<1>2. db \in Db /\ FoundInv /\ [Next]_vars => FoundInv'  BY FoundNext
<1>3. FoundInv => QueuedIsFound
  <2>1. CASE thrown  BY <2>1 DEF QueuedIsFound
  <2>2. CASE ~thrown  BY <2>2, FoundQueued
  <2>3. QED  BY <2>1, <2>2
<1>4. QED  BY <1>1, <1>2, <1>3, TypedAll, PTL DEF Spec

(***************************************************************************)
(* Part five: the forked tokens.  Each has all the branches of one fork    *)
(* under way, and one of them is not yet at the join.                      *)
(***************************************************************************)
Wakes(d, i, t, n) ==
  /\ n \in GNodes /\ Kind(n) = "fork" /\ Branches(t, n) \subseteq Live(d, i)
  /\ \E c \in Branches(t, n) : d.token[i][c] # "waiting_join"
Woken(d, i) == \A t \in Live(d, i) : d.token[i][t] = "forked" => \E n \in GNodes : Wakes(d, i, t, n)

AllWoken(d, s) == \A i \in Instances : d.inst[i] \in OpenInst /\ ~Closing(s, i) => Woken(d, i)

(* What a call must leave of the forked tokens of i.                        *)
WakeGoal(e, u, i) == e.inst[i] \in OpenInst /\ ~Closing(u, i) => Woken(e, i)

LEMMA WokenLike ==
  ASSUME NEW d, NEW e, NEW i, DOMAIN e.token[i] = DOMAIN d.token[i],
         \A v \in DOMAIN d.token[i] : e.token[i][v] = d.token[i][v], Woken(d, i)
  PROVE  Woken(e, i)
<1>1. Live(e, i) = Live(d, i) /\ Live(d, i) \subseteq DOMAIN d.token[i]  BY DEF Live
<1>2. ASSUME NEW t \in Live(e, i), e.token[i][t] = "forked" PROVE \E n \in GNodes : Wakes(e, i, t, n)
  <2>1. PICK n \in GNodes : Wakes(d, i, t, n)  BY <1>1, <1>2 DEF Woken
  <2>2. Wakes(e, i, t, n)  BY <1>1, <2>1 DEF Wakes
  <2>3. QED  BY <2>2
<1>3. QED  BY <1>2 DEF Woken

LEMMA WokenSame ==
  ASSUME NEW d, NEW e, NEW i, e.token[i] = d.token[i], Woken(d, i)
  PROVE  Woken(e, i)
BY WokenLike

(* A fork: its branches are all on their way.                               *)
LEMMA ForkWakes ==
  ASSUME NEW d \in Db, NEW i \in Instances, NEW t \in Token, NEW n \in GNodes, Kind(n) = "fork", NEW Q,
         Fit(d, i, {t}, Q), Woken(d, i), NEW e, Marked(d, e, i, Branches(t, n), "active", t, "forked")
  PROVE  Woken(e, i)
<1> DEFINE B == Branches(t, n)
<1>1. /\ B \subseteq Token /\ t \notin B /\ Root \notin B /\ B # {}
      /\ \A c \in B : Front(c) = t
  BY BranchesAre
<1>2. /\ DOMAIN e.token[i] = B \cup {t} \cup DOMAIN d.token[i]
      /\ \A c \in B : e.token[i][c] = "active"
      /\ e.token[i][t] = "forked"
      /\ \A c \in DOMAIN d.token[i] : c \notin B /\ c # t => e.token[i][c] = d.token[i][c]
  BY DEF Marked, Retokens
<1>3. Branches(t, n) = B  OBVIOUS
<1> HIDE DEF B
<1>4. TokensFit(d, i, {t} \cup Q)  BY DEF Fit
<1>5. t \in DOMAIN d.token[i] /\ d.token[i][t] = "active"  BY <1>4 DEF TokensFit, Active
<1>6. \A v \in Live(d, i) : v # Root => Front(v) # t  BY <1>4, <1>5 DEF TokensFit, Forked
<1>7. B \cap Live(d, i) = {}  BY <1>1, <1>6
<1>8. Live(e, i) = Live(d, i) \cup B  BY <1>1, <1>2, <1>5, <1>7 DEF Live, LiveToken
<1>9. \A c \in Live(d, i) : e.token[i][c] = IF c = t THEN "forked" ELSE d.token[i][c]
  BY <1>2, <1>7 DEF Live
<1>10. ASSUME NEW v \in Live(e, i), e.token[i][v] = "forked" PROVE \E m \in GNodes : Wakes(e, i, v, m)
  <2>1. CASE v = t
    <3>1. Branches(v, n) \subseteq Live(e, i)  BY <1>3, <1>8, <2>1
    <3>2. \E c \in Branches(v, n) : e.token[i][c] # "waiting_join"  BY <1>1, <1>2, <1>3, <2>1
    <3>3. Wakes(e, i, v, n)  BY <3>1, <3>2 DEF Wakes
    <3>4. QED  BY <3>3
  <2>2. CASE v # t
    <3>1. v \in Live(d, i) /\ d.token[i][v] = "forked"  BY <1>2, <1>8, <1>9, <1>10, <2>2
    <3>2. PICK m \in GNodes : Wakes(d, i, v, m)  BY <3>1 DEF Woken
    <3>3. PICK c \in Branches(v, m) : d.token[i][c] # "waiting_join"  BY <3>2 DEF Wakes
    <3>4. c \in Live(d, i)  BY <3>2, <3>3 DEF Wakes
    <3>5. e.token[i][c] # "waiting_join"  BY <1>9, <3>3, <3>4
    <3>6. Wakes(e, i, v, m)  BY <1>8, <3>2, <3>5 DEF Wakes
    <3>7. QED  BY <3>6
  <2>3. QED  BY <2>1, <2>2
<1>11. QED  BY <1>10 DEF Woken

(* A token waits at a join while a branch of its fork is not yet there.     *)
LEMMA WaitWakes ==
  ASSUME NEW d \in Db, NEW i \in Instances, NEW t \in Token, NEW f \in GNodes, NEW Q,
         Fit(d, i, {t}, Q), Woken(d, i), t # Root, Last(t)[1] = f,
         NEW b, TokenSet(d, b, i, t, "waiting_join"),
         NEW c0 \in Branches(Front(t), f), c0 \notin DOMAIN b.token[i] \/ b.token[i][c0] # "waiting_join"
  PROVE  Woken(b, i)
<1>1. /\ DOMAIN b.token[i] = DOMAIN d.token[i]
      /\ \A v \in DOMAIN d.token[i] : b.token[i][v] = IF v = t THEN "waiting_join" ELSE d.token[i][v]
  BY DEF TokenSet, Retokens
<1>2. TokensFit(d, i, {t} \cup Q)  BY DEF Fit
<1>3. t \in DOMAIN d.token[i] /\ d.token[i][t] = "active"  BY <1>2 DEF TokensFit, Active
<1>4. Live(b, i) = Live(d, i) /\ Live(d, i) \subseteq DOMAIN d.token[i] /\ Live(d, i) \subseteq Token
  BY <1>1, <1>3, TokensOf DEF Live, LiveToken
<1>5. ASSUME NEW v \in Live(b, i), b.token[i][v] = "forked" PROVE \E m \in GNodes : Wakes(b, i, v, m)
  <2>1. v # t /\ d.token[i][v] = "forked" /\ v \in Token /\ v \in Live(d, i)  BY <1>1, <1>3, <1>4, <1>5
  <2>2. PICK m \in GNodes : Wakes(d, i, v, m)  BY <2>1 DEF Woken
  <2>3. Kind(m) = "fork" /\ Branches(v, m) \subseteq Live(d, i)  BY <2>2 DEF Wakes
  <2>4. \E c \in Branches(v, m) : b.token[i][c] # "waiting_join"
    <3>1. CASE t \in Branches(v, m)
      <4>1. Front(t) = v /\ Last(t)[1] = m  BY <2>1, <2>3, <3>1, BranchesAre
      <4>2. c0 \in Branches(v, m)  BY <4>1
      <4>3. c0 \in DOMAIN b.token[i]  BY <1>1, <1>4, <2>3, <4>2
      <4>4. QED  BY <4>2, <4>3
    <3>2. CASE t \notin Branches(v, m)
      <4>1. PICK c \in Branches(v, m) : d.token[i][c] # "waiting_join"  BY <2>2 DEF Wakes
      <4>2. c \in DOMAIN d.token[i] /\ c # t  BY <1>4, <2>3, <3>2
      <4>3. QED  BY <1>1, <4>1, <4>2
    <3>3. QED  BY <3>1, <3>2
  <2>5. Wakes(b, i, v, m)  BY <1>4, <2>3, <2>4 DEF Wakes
  <2>6. QED  BY <2>5
<1>6. QED  BY <1>5 DEF Woken

(* The last branch arrives: the branches are gone and their parent goes on. *)
LEMMA MergeWakes ==
  ASSUME NEW d \in Db, NEW i \in Instances, NEW t \in Token, NEW f \in GNodes, Kind(f) = "fork",
         Woken(d, i), t # Root, NEW b, TokenSet(d, b, i, t, "waiting_join"),
         NEW e, Marked(b, e, i, Branches(Front(t), f), "merged", Front(t), "active")
  PROVE  Woken(e, i)
<1> DEFINE p == Front(t)  W == Branches(p, f)
<1>1. p \in Token /\ p # t  BY FrontIs
<1>2. W \subseteq Token /\ p \notin W /\ \A c \in W : Front(c) = p  BY <1>1, BranchesAre
<1>3. /\ DOMAIN b.token[i] = DOMAIN d.token[i]
      /\ \A v \in DOMAIN d.token[i] : b.token[i][v] = IF v = t THEN "waiting_join" ELSE d.token[i][v]
  BY DEF TokenSet, Retokens
<1>4. /\ DOMAIN e.token[i] = W \cup {p} \cup DOMAIN b.token[i]
      /\ \A c \in W : e.token[i][c] = "merged"
      /\ e.token[i][p] = "active"
      /\ \A c \in DOMAIN b.token[i] : c \notin W /\ c # p => e.token[i][c] = b.token[i][c]
  BY DEF Marked, Retokens
<1>5. p = Front(t)  OBVIOUS
<1> HIDE DEF p, W
<1>6. ASSUME NEW v \in DOMAIN d.token[i], v \notin W
      PROVE  /\ v \in DOMAIN e.token[i]
             /\ e.token[i][v] = IF v = p THEN "active" ELSE IF v = t THEN "waiting_join" ELSE d.token[i][v]
  BY <1>3, <1>4, <1>6
<1>7. Live(d, i) \subseteq DOMAIN d.token[i] /\ Live(d, i) \subseteq Token  BY TokensOf
<1>8. ASSUME NEW v \in Live(d, i), v \notin W PROVE v \in Live(e, i)
  BY <1>6, <1>7, <1>8 DEF Live, LiveToken
<1>9. ASSUME NEW v \in Live(e, i), e.token[i][v] = "forked" PROVE \E m \in GNodes : Wakes(e, i, v, m)
  <2>1. v \notin W /\ v # p /\ v \in DOMAIN d.token[i]  BY <1>3, <1>4, <1>9 DEF Live
  <2>2. d.token[i][v] = "forked"  BY <1>6, <1>9, <2>1
  <2>3. v \in Live(d, i) /\ v \in Token  BY <1>7, <2>1, <2>2 DEF Live, LiveToken
  <2>4. PICK m \in GNodes : Wakes(d, i, v, m)  BY <2>2, <2>3 DEF Woken
  <2>5. Kind(m) = "fork" /\ Branches(v, m) \subseteq Live(d, i)  BY <2>4 DEF Wakes
  <2>6. \A c \in Branches(v, m) : Front(c) = v  BY <2>3, <2>5, BranchesAre
  <2>7. \A c \in Branches(v, m) : c \notin W /\ c # t  BY <1>2, <1>5, <2>1, <2>6
  <2>8. Branches(v, m) \subseteq Live(e, i)  BY <1>8, <2>5, <2>7
  <2>9. PICK c \in Branches(v, m) : d.token[i][c] # "waiting_join"  BY <2>4 DEF Wakes
  <2>10. e.token[i][c] # "waiting_join"  BY <1>6, <1>7, <2>5, <2>7, <2>9
  <2>11. Wakes(e, i, v, m)  BY <2>5, <2>8, <2>10 DEF Wakes
  <2>12. QED  BY <2>11
<1>10. QED  BY <1>9 DEF Woken

(* The token an instance starts with ends: it is no branch of any fork.     *)
LEMMA LeaveWakes ==
  ASSUME NEW d \in Db, NEW i \in Instances, Woken(d, i), NEW b, TokenSet(d, b, i, Root, "completed")
  PROVE  Woken(b, i)
<1>1. /\ DOMAIN b.token[i] = DOMAIN d.token[i]
      /\ \A v \in DOMAIN d.token[i] : b.token[i][v] = IF v = Root THEN "completed" ELSE d.token[i][v]
  BY DEF TokenSet, Retokens
<1>2. Live(d, i) \subseteq DOMAIN d.token[i] /\ Live(d, i) \subseteq Token  BY TokensOf
<1>3. Live(b, i) = Live(d, i) \ {Root}  BY <1>1 DEF Live, LiveToken
<1>4. ASSUME NEW v \in Live(b, i), b.token[i][v] = "forked" PROVE \E m \in GNodes : Wakes(b, i, v, m)
  <2>1. v \in Live(d, i) /\ v \in Token /\ d.token[i][v] = "forked"  BY <1>1, <1>2, <1>3, <1>4
  <2>2. PICK m \in GNodes : Wakes(d, i, v, m)  BY <2>1 DEF Woken
  <2>3. Kind(m) = "fork" /\ Branches(v, m) \subseteq Live(d, i)  BY <2>2 DEF Wakes
  <2>4. Root \notin Branches(v, m)  BY <2>1, <2>3, BranchesAre
  <2>5. PICK c \in Branches(v, m) : d.token[i][c] # "waiting_join"  BY <2>2 DEF Wakes
  <2>6. c \in DOMAIN d.token[i] /\ c # Root  BY <1>2, <2>3, <2>4
  <2>7. b.token[i][c] # "waiting_join"  BY <1>1, <2>5, <2>6
  <2>8. Wakes(b, i, v, m)  BY <1>3, <2>3, <2>4, <2>7 DEF Wakes
  <2>9. QED  BY <2>8
<1>5. QED  BY <1>4 DEF Woken

(* An instance that starts has nothing forked.                              *)
LEMMA BornWakes ==
  ASSUME NEW d, NEW e, NEW c, Started(d, e, c)
  PROVE  Woken(e, c)
BY DEF Started, Woken, Live

(***************************************************************************)
(* A token's way is the way of the forks around the step it is at.         *)
(***************************************************************************)
Along(I, t, n) ==
  /\ \A x \in DOMAIN t : n \in I[t[x][1]]
  /\ \A x, y \in DOMAIN t : t[x][1] = t[y][1] => x = y

LEMMA WayIs ==
  ASSUME NEW t \in Token
  PROVE  \A x \in DOMAIN t : t[x][1] \in GNodes
BY DEF Token

LEMMA AlongOn ==
  ASSUME NEW I, Nested(I), NEW t \in Token, NEW n \in GNodes, Kind(n) # "join", Along(I, t, n),
         NEW b \in DOMAIN To(n)
  PROVE  Along(I, t, To(n)[b])
<1>1. ASSUME NEW x \in DOMAIN t PROVE To(n)[b] \in I[t[x][1]]
  <2>1. t[x][1] \in GNodes /\ n \in I[t[x][1]]  BY WayIs DEF Along
  <2>2. QED  BY <2>1 DEF Nested
<1>2. QED  BY <1>1 DEF Along

LEMMA AlongBranch ==
  ASSUME NEW I, Nested(I), NEW t \in Token, NEW n \in GNodes, Kind(n) = "fork", Along(I, t, n),
         NEW b \in DOMAIN To(n)
  PROVE  Along(I, Branch(t, n, b), To(n)[b])
<1> DEFINE v == Branch(t, n, b)  l == Len(t) + 1
<1>1. b \in 1..16  BY BranchesAre
<1>2. /\ DOMAIN v = DOMAIN t \cup {l} /\ v[l] = <<n, b>>
      /\ \A m \in DOMAIN t : v[m] = t[m]
  BY <1>1, BranchIs
<1> HIDE DEF v, l
<1>3. v[l][1] = n  BY <1>2
<1>4. \A x \in DOMAIN t : t[x][1] \in GNodes /\ n \in I[t[x][1]] /\ t[x][1] # n
  <2>1. \A x \in DOMAIN t : t[x][1] \in GNodes /\ n \in I[t[x][1]]  BY WayIs DEF Along
  <2>2. QED  BY <2>1 DEF Nested
<1>5. \A x \in DOMAIN t : To(n)[b] \in I[t[x][1]]
  <2>1. Kind(n) # "join"  OBVIOUS
  <2>2. Along(I, t, To(n)[b])  BY <2>1, AlongOn
  <2>3. QED  BY <2>2 DEF Along
<1>6. To(n)[b] \in I[n]  BY DEF Nested
<1>7. \A x \in DOMAIN v : To(n)[b] \in I[v[x][1]]  BY <1>2, <1>3, <1>5, <1>6
<1>8. ASSUME NEW x \in DOMAIN v, NEW y \in DOMAIN v, v[x][1] = v[y][1] PROVE x = y
  <2>1. CASE x \in DOMAIN t /\ y \in DOMAIN t  BY <1>2, <1>8, <2>1 DEF Along
  <2>2. CASE x \in DOMAIN t /\ y = l  BY <1>2, <1>3, <1>4, <1>8, <2>2
  <2>3. CASE x = l /\ y \in DOMAIN t  BY <1>2, <1>3, <1>4, <1>8, <2>3
  <2>4. QED  BY <1>2, <2>1, <2>2, <2>3
<1>9. QED  BY <1>7, <1>8 DEF Along, v

LEMMA AlongFront ==
  ASSUME NEW I, Nested(I), NEW t \in Token, t # Root, NEW n \in GNodes, Kind(n) = "join", Along(I, t, n),
         Last(t)[1] = ForkOf[n]
  PROVE  Along(I, Front(t), To(n)[1])
<1> DEFINE p == Front(t)
<1>1. /\ p \in Token /\ Len(t) \notin DOMAIN p /\ DOMAIN t = DOMAIN p \cup {Len(t)}
      /\ Last(t) = t[Len(t)] /\ \A m \in DOMAIN p : p[m] = t[m]
  BY FrontIs
<1> HIDE DEF p
<1>2. 1 \in DOMAIN To(n)  BY OneWay
<1>3. ASSUME NEW x \in DOMAIN p PROVE To(n)[1] \in I[p[x][1]]
  <2>1. x \in DOMAIN t /\ x # Len(t) /\ p[x] = t[x]  BY <1>1, <1>3
  <2>2. t[x][1] # ForkOf[n]  BY <1>1, <2>1 DEF Along
  <2>3. t[x][1] \in GNodes /\ n \in I[t[x][1]]  BY <2>1, WayIs DEF Along
  <2>4. To(n)[1] \in I[t[x][1]]  BY <1>2, <2>2, <2>3 DEF Nested
  <2>5. QED  BY <2>1, <2>4
<1>4. \A x, y \in DOMAIN p : p[x][1] = p[y][1] => x = y  BY <1>1 DEF Along
<1>5. QED  BY <1>3, <1>4 DEF Along, p

LEMMA AlongRoot ==
  ASSUME NEW I, NEW n
  PROVE  Along(I, Root, n)
<1>1. DOMAIN Root = {}  BY DEF Root
<1>2. QED  BY <1>1 DEF Along

LEMMA AlongEnd ==
  ASSUME NEW I, Nested(I), NEW t \in Token, NEW n \in GNodes, Kind(n) = "end", Along(I, t, n)
  PROVE  t = Root
<1>1. SUFFICES ASSUME t # Root PROVE FALSE  OBVIOUS
<1>2. Len(t) \in DOMAIN t
  <2>1. DOMAIN t = DOMAIN Front(t) \cup {Len(t)}  BY <1>1, FrontIs
  <2>2. QED  BY <2>1
<1>3. t[Len(t)][1] \in GNodes /\ n \in I[t[Len(t)][1]]  BY <1>2, WayIs DEF Along
<1>4. QED  BY <1>3 DEF Nested

(* The stages and the calls that are along their token's way.               *)
WayStage(I, st) == st.kind # "compensation" => Along(I, st.token, st.node)
AllAlong(I, d) == \A i \in Instances : \A k \in Slots(d, i) : WayStage(I, d.stages[i][k])
WayCall(I, c)  == c.method = "advance" => Along(I, c.t, c.n)
WayCalls(I, u) == \A x \in DOMAIN u : WayCall(I, u[x])
AlongGoal(I, e, u) == AllAlong(I, e) /\ WayCalls(I, u)

LEMMA WayCallsAre ==
  ASSUME NEW I, NEW b, NEW c
  PROVE  /\ WayCalls(I, <<>>) /\ (WayCall(I, b) => WayCalls(I, <<b>>))
         /\ WayCall(I, b) /\ WayCall(I, c) => WayCalls(I, <<b, c>>)
BY DEF WayCalls

LEMMA WayCallIs ==
  ASSUME NEW I, NEW i, NEW t, NEW n, NEW s, NEW k
  PROVE  /\ Along(I, t, n) => WayCall(I, ToAdvance(i, t, n))
         /\ WayCall(I, ToFail(i, s)) /\ WayCall(I, ToStop(i, s)) /\ WayCall(I, ToCompensate(i))
         /\ WayCall(I, ToParent(i)) /\ WayCall(I, ToSync(i)) /\ WayCall(I, ToLink(i, k))
BY CallsGive DEF WayCall

(* The stages that are there stay as they were in this respect.             *)
LEMMA AlongGrows ==
  ASSUME NEW I, NEW d, AllAlong(I, d), NEW e, Grows(d, e),
         \A i \in Instances : \A k \in Slots(e, i) : k \in Slots(d, i) \/ WayStage(I, e.stages[i][k])
  PROVE  AllAlong(I, e)
<1>1. SUFFICES ASSUME NEW i \in Instances, NEW k \in Slots(e, i) PROVE WayStage(I, e.stages[i][k])
  BY DEF AllAlong
<1>2. CASE k \in Slots(d, i)
  <2>1. WayStage(I, d.stages[i][k])  BY <1>2 DEF AllAlong
  <2>2. Kept(d, e, i, k)  BY <1>2 DEF Grows, GrowsAt
  <2>3. QED  BY <2>1, <2>2 DEF WayStage, Kept
<1>3. QED  BY <1>2

(* No stage is added.                                                       *)
LEMMA AlongStays ==
  ASSUME NEW I, NEW d, AllAlong(I, d), NEW e, Grows(d, e), NEW i \in Instances,
         Slots(e, i) \subseteq Slots(d, i), \A j \in Instances : j # i => e.stages[j] = d.stages[j]
  PROVE  AllAlong(I, e)
<1>1. \A j \in Instances : Slots(e, j) \subseteq Slots(d, j)  BY DEF Slots
<1>2. QED  BY <1>1, AlongGrows

LEMMA AlongAdds ==
  ASSUME NEW I, NEW d, AllAlong(I, d), NEW e, NEW i \in Instances, NEW st, Added(d, e, i, st), WayStage(I, st)
  PROVE  AllAlong(I, e)
<1>1. Grows(d, e) /\ \A j \in Instances : j # i => e.stages[j] = d.stages[j]  BY DEF Added, Touches, Same
<1>2. \A k \in Slots(e, i) : k \in Slots(d, i) \/ e.stages[i][k] = st  BY DEF Added
<1>3. ASSUME NEW j \in Instances, NEW k \in Slots(e, j) PROVE k \in Slots(d, j) \/ WayStage(I, e.stages[j][k])
  <2>1. CASE j = i  BY <1>2, <2>1
  <2>2. CASE j # i  BY <1>1, <1>3, <2>2 DEF Slots
  <2>3. QED  BY <2>1, <2>2
<1>4. QED  BY <1>1, <1>3, AlongGrows

LEMMA AlongAlike ==
  ASSUME NEW I, NEW d, AllAlong(I, d), NEW e, \A j \in Instances : e.stages[j] = d.stages[j]
  PROVE  AllAlong(I, e)
BY DEF AllAlong, Slots

LEMMA WayCallsMany ==
  ASSUME NEW I, NEW u, NEW x, NEW y, IsConcat(u, x, y), WayCalls(I, x), WayCalls(I, y)
  PROVE  WayCalls(I, u)
<1>1. SUFFICES ASSUME NEW k \in DOMAIN u PROVE WayCall(I, u[k])  BY DEF WayCalls
<1>2. CASE k \in DOMAIN x
  <2>1. u[k] = x[k]  BY <1>2 DEF IsConcat
  <2>2. QED  BY <1>2, <2>1 DEF WayCalls
<1>3. CASE \E l \in DOMAIN y : k = Len(x) + l
  <2>1. PICK l \in DOMAIN y : k = Len(x) + l  BY <1>3
  <2>2. u[k] = y[l]  BY <2>1 DEF IsConcat
  <2>3. QED  BY <2>2 DEF WayCalls
<1>4. QED  BY <1>2, <1>3 DEF IsConcat

(* A stage is added at the node that the token enters.                      *)
LEMMA HereAlong ==
  ASSUME NEW I, NEW d, AllAlong(I, d), NEW e, NEW i \in Instances, NEW st, NEW t, NEW n,
         Added(d, e, i, st), st.node = n, st.token = t, Along(I, t, n)
  PROVE  AllAlong(I, e)
<1>1. WayStage(I, st)  BY DEF WayStage
<1>2. QED  BY <1>1, AlongAdds

LEMMA ForkAlong ==
  ASSUME NEW I, Nested(I), NEW d, AllAlong(I, d), NEW e, NEW i \in Instances, NEW t \in Token, NEW n \in GNodes,
         Along(I, t, n), NEW u, ForkCase(d, e, i, t, n, u)
  PROVE  AlongGoal(I, e, u)
<1>1. \A j \in Instances : e.stages[j] = d.stages[j]
  BY DEF ForkCase, Marked, Retokens, Touches, Same
<1>2. AllAlong(I, e)  BY <1>1, AlongAlike
<1>3. PICK x \in Seq(Calls) :
        /\ IsConcat(u, x, <<ToSync(i)>>) /\ DOMAIN x = DOMAIN To(n)
        /\ \A b \in DOMAIN To(n) : x[b] = ToAdvance(i, Branch(t, n, b), To(n)[b])
  BY DEF ForkCase
<1>4. ASSUME NEW b \in DOMAIN x PROVE WayCall(I, x[b])
  <2>1. Kind(n) = "fork" /\ b \in DOMAIN To(n)  BY <1>3 DEF ForkCase
  <2>2. Along(I, Branch(t, n, b), To(n)[b])  BY <2>1, AlongBranch
  <2>3. QED  BY <1>3, <2>1, <2>2, WayCallIs
<1>5. WayCalls(I, x)  BY <1>4 DEF WayCalls
<1>6. WayCalls(I, <<ToSync(i)>>)  BY WayCallIs, WayCallsAre
<1>7. WayCalls(I, u)  BY <1>3, <1>5, <1>6, WayCallsMany
<1>8. QED  BY <1>2, <1>7 DEF AlongGoal

LEMMA MergeAlong ==
  ASSUME NEW I, Nested(I), NEW d, AllAlong(I, d), NEW e, NEW i \in Instances, NEW t \in Token, NEW n \in GNodes,
         Along(I, t, n), NEW u, MergeCase(d, e, i, t, n, u)
  PROVE  AlongGoal(I, e, u)
<1>1. PICK b \in Db : /\ TokenSet(d, b, i, t, "waiting_join")
                      /\ Marked(b, e, i, Branches(Front(t), ForkOf[n]), "merged", Front(t), "active")
  BY DEF MergeCase
<1>2. \A j \in Instances : b.stages[j] = d.stages[j]  BY <1>1 DEF TokenSet, Retokens, Touches, Same
<1>3. \A j \in Instances : e.stages[j] = b.stages[j]  BY <1>1 DEF Marked, Retokens, Touches, Same
<1>4. AllAlong(I, e)  BY <1>2, <1>3, AlongAlike
<1>5. /\ u = <<ToAdvance(i, Front(t), To(n)[1])>> /\ t # Root /\ Last(t)[1] = ForkOf[n] /\ Kind(n) = "join"
  BY DEF MergeCase
<1>6. Along(I, Front(t), To(n)[1])  BY <1>5, AlongFront
<1>7. WayCalls(I, u)  BY <1>5, <1>6, WayCallIs, WayCallsAre
<1>8. QED  BY <1>4, <1>7 DEF AlongGoal

LEMMA BeginAlong ==
  ASSUME NEW I, NEW d, AllAlong(I, d), NEW e, NEW i \in Instances, NEW t \in Token, NEW n \in GNodes,
         Along(I, t, n), NEW u, BeginCase(d, e, i, t, n, u)
  PROVE  AlongGoal(I, e, u)
<1> DEFINE c == ChildOf[n]
<1>1. PICK b \in Db : (\E st \in StageSet : Added(d, b, i, st) /\ Waiting(st, n, t)) /\ Started(b, e, c)
  BY DEF BeginCase
<1>2. PICK st \in StageSet : Added(d, b, i, st) /\ Waiting(st, n, t)  BY <1>1
<1>3. AllAlong(I, b)  BY <1>2, HereAlong DEF Waiting
<1>4. \A j \in Instances : e.stages[j] = b.stages[j]  BY <1>1 DEF Started, Touches, Same
<1>5. AllAlong(I, e)  BY <1>3, <1>4, AlongAlike
<1>6. Along(I, Root, StartOf[c])  BY AlongRoot
<1> DEFINE x == ToAdvance(c, Root, StartOf[c])  y == ToLink(i, NextSlot(d, i))
<1>7. WayCall(I, x) /\ WayCall(I, y)  BY <1>6, WayCallIs
<1>8. u = <<x, y>>  BY DEF BeginCase
<1> HIDE DEF x, y
<1>9. WayCalls(I, u)  BY <1>7, <1>8, WayCallsAre
<1>10. QED  BY <1>5, <1>9 DEF AlongGoal

(* Whatever step the token takes.                                           *)
LEMMA EnterAlong ==
  ASSUME NEW I, Nested(I), NEW d, AllAlong(I, d), NEW e, Grows(d, e), NEW i \in Instances, NEW t \in Token,
         NEW n \in GNodes, Along(I, t, n), NEW u, EnterCase(d, e, i, t, n, u)
  PROVE  AlongGoal(I, e, u)
<1>1. WayCalls(I, <<>>) /\ \A s : WayCalls(I, <<ToFail(i, s)>>)  BY WayCallIs, WayCallsAre
<1>2. ASSUME PassCase(d, e, i, t, n, u) PROVE AlongGoal(I, e, u)
  <2>1. \A j \in Instances : e.stages[j] = d.stages[j]  BY <1>2 DEF PassCase, Still, Touches, Same
  <2>2. PICK m \in GNodes : u = <<ToAdvance(i, t, m)>> /\ (m = n \/ \E b \in DOMAIN To(n) : m = To(n)[b])
    BY <1>2 DEF PassCase
  <2>3. Kind(n) # "join"  BY <1>2 DEF PassCase
  <2>4. Along(I, t, m)  BY <2>2, <2>3, AlongOn
  <2>5. AllAlong(I, e)  BY <2>1, AlongAlike
  <2>6. WayCall(I, ToAdvance(i, t, m))  BY <2>4, WayCallIs
  <2>7. WayCalls(I, u)  BY <2>2, <2>6, WayCallsAre
  <2>8. QED  BY <2>5, <2>7 DEF AlongGoal
<1>3. ASSUME FailCase(d, e, i, n, u) PROVE AlongGoal(I, e, u)
  <2>1. \A j \in Instances : e.stages[j] = d.stages[j]  BY <1>3 DEF FailCase, Still, Touches, Same
  <2>2. AllAlong(I, e)  BY <2>1, AlongAlike
  <2>3. QED  BY <1>1, <1>3, <2>2 DEF AlongGoal, FailCase
<1>4. ASSUME QueueCase(d, e, i, t, n, u) PROVE AlongGoal(I, e, u)
  <2>1. PICK st \in StageSet : Added(d, e, i, st) /\ st.node = n /\ st.token = t  BY <1>4 DEF QueueCase
  <2>2. AllAlong(I, e)  BY <2>1, HereAlong
  <2>3. QED  BY <1>1, <1>4, <2>2 DEF AlongGoal, QueueCase
<1>5. ASSUME RunCase(d, e, i, t, n, u) PROVE AlongGoal(I, e, u)
  <2>1. PICK st \in StageSet : Added(d, e, i, st) /\ st.node = n /\ st.token = t  BY <1>5 DEF RunCase
  <2>2. AllAlong(I, e)  BY <2>1, HereAlong
  <2>3. Kind(n) = "internal" /\ u = <<ToAdvance(i, t, To(n)[1])>>  BY <1>5 DEF RunCase
  <2>4. 1 \in DOMAIN To(n)  BY <2>3, OneWay DEF StageKinds
  <2>5. Along(I, t, To(n)[1])  BY <2>3, <2>4, AlongOn
  <2>6. WayCalls(I, u)  BY <2>3, <2>5, WayCallIs, WayCallsAre
  <2>7. QED  BY <2>2, <2>6 DEF AlongGoal
<1>6. ASSUME RefuseCase(d, e, i, t, n, u) PROVE AlongGoal(I, e, u)
  <2>1. PICK st \in StageSet : Added(d, e, i, st) /\ st.node = n /\ st.token = t
    BY <1>6 DEF RefuseCase, Waiting
  <2>2. AllAlong(I, e)  BY <2>1, HereAlong
  <2>3. QED  BY <1>1, <1>6, <2>2 DEF AlongGoal, RefuseCase
<1>7. ASSUME BeginCase(d, e, i, t, n, u) PROVE AlongGoal(I, e, u)  BY <1>7, BeginAlong
<1>8. ASSUME ForkCase(d, e, i, t, n, u) PROVE AlongGoal(I, e, u)  BY <1>8, ForkAlong
<1>9. ASSUME WaitCase(d, e, i, t, n, u) PROVE AlongGoal(I, e, u)
  <2>1. PICK b \in Db : TokenSet(d, b, i, t, "waiting_join") /\ Synced(b, e, i)  BY <1>9 DEF WaitCase
  <2>2. \A j \in Instances : b.stages[j] = d.stages[j]  BY <2>1 DEF TokenSet, Retokens, Touches, Same
  <2>3. \A j \in Instances : e.stages[j] = b.stages[j]  BY <2>1 DEF Synced, Touches, Same
  <2>4. AllAlong(I, e)  BY <2>2, <2>3, AlongAlike
  <2>5. QED  BY <1>1, <1>9, <2>4 DEF AlongGoal, WaitCase
<1>10. ASSUME MergeCase(d, e, i, t, n, u) PROVE AlongGoal(I, e, u)  BY <1>10, MergeAlong
<1>11. ASSUME LeaveCase(d, e, i, t, n, u) PROVE AlongGoal(I, e, u)
  <2>1. PICK b \in Db : TokenSet(d, b, i, t, "completed") /\ Synced(b, e, i)  BY <1>11 DEF LeaveCase
  <2>2. \A j \in Instances : b.stages[j] = d.stages[j]  BY <2>1 DEF TokenSet, Retokens, Touches, Same
  <2>3. \A j \in Instances : e.stages[j] = b.stages[j]  BY <2>1 DEF Synced, Touches, Same
  <2>4. AllAlong(I, e)  BY <2>2, <2>3, AlongAlike
  <2>5. QED  BY <1>1, <1>11, <2>4 DEF AlongGoal, LeaveCase
<1>12. ASSUME CompleteCase(d, e, i, t, n, u) PROVE AlongGoal(I, e, u)
  <2>1. PICK b \in Db : TokenSet(d, b, i, t, "completed") /\ Completes(b, e, i)  BY <1>12 DEF CompleteCase
  <2>2. \A j \in Instances : b.stages[j] = d.stages[j]  BY <2>1 DEF TokenSet, Retokens, Touches, Same
  <2>3. /\ Slots(e, i) = Slots(b, i) /\ \A j \in Instances : j # i => e.stages[j] = b.stages[j]
    BY <2>1 DEF Completes, Touches, Same
  <2>4. Slots(b, i) = Slots(d, i) /\ \A j \in Instances : j # i => e.stages[j] = d.stages[j]
    BY <2>2, <2>3 DEF Slots
  <2>5. AllAlong(I, e)  BY <2>3, <2>4, AlongStays
  <2>6. u = <<ToParent(i)>>  BY <1>12 DEF CompleteCase
  <2>7. WayCalls(I, u)  BY <2>6, WayCallIs, WayCallsAre
  <2>8. QED  BY <2>5, <2>7 DEF AlongGoal
<1>13. QED
  BY <1>2, <1>3, <1>4, <1>5, <1>6, <1>7, <1>8, <1>9, <1>10, <1>11, <1>12 DEF EnterCase

(***************************************************************************)
(* The forked tokens of the instance whose token takes a step.             *)
(***************************************************************************)
LEMMA WakesNow ==
  ASSUME NEW e, NEW u, NEW i, Woken(e, i)
  PROVE  WakeGoal(e, u, i)
BY DEF WakeGoal

LEMMA EnterWakes ==
  ASSUME NEW I, Nested(I), NEW d \in Db, NEW e, NEW i \in Instances, NEW t \in Token, NEW n \in NodesOf[i],
         Along(I, t, n), NEW u, NEW Q, Fit(d, i, {t}, Q), Woken(d, i), EnterCase(d, e, i, t, n, u)
  PROVE  WakeGoal(e, u, i)
<1>1. n \in GNodes  BY NextNode
<1>2. ASSUME e.token[i] = d.token[i] PROVE WakeGoal(e, u, i)  BY <1>2, WokenSame, WakesNow
<1>3. ASSUME PassCase(d, e, i, t, n, u) PROVE WakeGoal(e, u, i)
  BY <1>2, <1>3 DEF PassCase, Still, Touches, Same
<1>4. ASSUME FailCase(d, e, i, n, u) PROVE WakeGoal(e, u, i)
  BY <1>2, <1>4 DEF FailCase, Still, Touches, Same
<1>5. ASSUME QueueCase(d, e, i, t, n, u) PROVE WakeGoal(e, u, i)  BY <1>2, <1>5 DEF QueueCase, Added
<1>6. ASSUME RunCase(d, e, i, t, n, u) PROVE WakeGoal(e, u, i)  BY <1>2, <1>6 DEF RunCase, Added
<1>7. ASSUME RefuseCase(d, e, i, t, n, u) PROVE WakeGoal(e, u, i)  BY <1>2, <1>7 DEF RefuseCase, Added
<1>8. ASSUME BeginCase(d, e, i, t, n, u) PROVE WakeGoal(e, u, i)
  <2>1. ChildOf[n] # i  BY <1>8, BeginWork
  <2>2. PICK b \in Db : (\E st \in StageSet : Added(d, b, i, st)) /\ Started(b, e, ChildOf[n])
    BY <1>8 DEF BeginCase
  <2>3. b.token[i] = d.token[i]  BY <2>2 DEF Added
  <2>4. e.token[i] = b.token[i]  BY <2>1, <2>2 DEF Started, Touches, Same
  <2>5. QED  BY <1>2, <2>3, <2>4
<1>9. ASSUME ForkCase(d, e, i, t, n, u) PROVE WakeGoal(e, u, i)
  <2>1. Kind(n) = "fork" /\ Marked(d, e, i, Branches(t, n), "active", t, "forked")  BY <1>9 DEF ForkCase
  <2>2. Woken(e, i)  BY <1>1, <2>1, ForkWakes
  <2>3. QED  BY <2>2, WakesNow
<1>10. ASSUME WaitCase(d, e, i, t, n, u) PROVE WakeGoal(e, u, i)
  <2> DEFINE f == ForkOf[n]
  <2>1. f \in GNodes  BY <1>1, <1>10, GraphAssumption DEF WaitCase
  <2>2. t # Root /\ Last(t)[1] = f  BY <1>10 DEF WaitCase
  <2>3. PICK b \in Db :
          /\ TokenSet(d, b, i, t, "waiting_join") /\ Synced(b, e, i)
          /\ \E c \in Branches(Front(t), f) : c \notin DOMAIN b.token[i] \/ b.token[i][c] # "waiting_join"
    BY <1>10 DEF WaitCase
  <2>4. PICK c \in Branches(Front(t), f) : c \notin DOMAIN b.token[i] \/ b.token[i][c] # "waiting_join"
    BY <2>3
  <2> HIDE DEF f
  <2>5. Woken(b, i)  BY <2>1, <2>2, <2>3, <2>4, WaitWakes
  <2>6. e.token[i] = b.token[i]  BY <2>3 DEF Synced
  <2>7. Woken(e, i)  BY <2>5, <2>6, WokenSame
  <2>8. QED  BY <2>7, WakesNow
<1>11. ASSUME MergeCase(d, e, i, t, n, u) PROVE WakeGoal(e, u, i)
  <2> DEFINE f == ForkOf[n]
  <2>1. f \in GNodes /\ Kind(f) = "fork"  BY <1>1, <1>11, GraphAssumption DEF MergeCase
  <2>2. t # Root  BY <1>11 DEF MergeCase
  <2>3. PICK b \in Db : /\ TokenSet(d, b, i, t, "waiting_join")
                        /\ Marked(b, e, i, Branches(Front(t), f), "merged", Front(t), "active")
    BY <1>11 DEF MergeCase
  <2> HIDE DEF f
  <2>4. Woken(e, i)  BY <2>1, <2>2, <2>3, MergeWakes
  <2>5. QED  BY <2>4, WakesNow
<1>12. ASSUME LeaveCase(d, e, i, t, n, u) PROVE WakeGoal(e, u, i)
  <2>1. Kind(n) = "end"  BY <1>12 DEF LeaveCase
  <2>2. t = Root  BY <1>1, <2>1, AlongEnd
  <2>3. PICK b \in Db : TokenSet(d, b, i, t, "completed") /\ Synced(b, e, i)  BY <1>12 DEF LeaveCase
  <2>4. Woken(b, i)  BY <2>2, <2>3, LeaveWakes
  <2>5. e.token[i] = b.token[i]  BY <2>3 DEF Synced
  <2>6. Woken(e, i)  BY <2>4, <2>5, WokenSame
  <2>7. QED  BY <2>6, WakesNow
<1>13. ASSUME CompleteCase(d, e, i, t, n, u) PROVE WakeGoal(e, u, i)
  <2>1. e.inst[i] = "completed"  BY <1>13 DEF CompleteCase, Completes, StandsAt
  <2>2. QED  BY <2>1 DEF WakeGoal, OpenInst
<1>14. QED
  BY <1>3, <1>4, <1>5, <1>6, <1>7, <1>8, <1>9, <1>10, <1>11, <1>12, <1>13 DEF EnterCase

(***************************************************************************)
(* One call keeps every token along its way.                               *)
(***************************************************************************)
LEMMA TouchedAlong ==
  ASSUME NEW I, NEW d, AllAlong(I, d), NEW e, NEW i \in Instances, Touches(d, e, {i}),
         Slots(e, i) \subseteq Slots(d, i)
  PROVE  AllAlong(I, e)
BY AlongStays DEF Touches, Same

LEMMA StillAlong ==
  ASSUME NEW I, NEW d, AllAlong(I, d), NEW e, Still(d, e)
  PROVE  AllAlong(I, e)
BY AlongAlike DEF Still, Touches, Same

(* A stage that is completed: its token goes on after its node.             *)
LEMMA StageAlong ==
  ASSUME NEW I, Nested(I), NEW d \in Db, AllAlong(I, d), NEW i \in Instances, NEW k \in Slots(d, i),
         d.stages[i][k].kind # "compensation"
  PROVE  Along(I, d.stages[i][k].token, To(d.stages[i][k].node)[1])
<1> DEFINE st == d.stages[i][k]
<1>1. st.token \in Token /\ st.node \in GNodes /\ 1 \in DOMAIN To(st.node)  BY StageGoesOn
<1>2. st \in StageSet  BY SlotsAre
<1>3. st.kind # "compensation" /\ WayStage(I, st)  BY DEF AllAlong
<1> HIDE DEF st
<1>4. Kind(st.node) # "join"
  <2>1. st.kind \in StageKinds /\ OfKind(st.node, st.kind)
    BY <1>2, <1>3 DEF StageSet, StageType, StageOK
  <2>2. QED  BY <1>3, <2>1 DEF OfKind, StageKinds
<1>5. Along(I, st.token, st.node)  BY <1>3 DEF WayStage
<1>6. Along(I, st.token, To(st.node)[1])  BY <1>1, <1>4, <1>5, AlongOn
<1>7. QED  BY <1>6 DEF st

LEMMA StepAlong ==
  ASSUME NEW I, Nested(I), NEW d \in Db, AllAlong(I, d), NEW c, CallOK(d, c), WayCall(I, c),
         NEW e, NEW u, StepCase(d, e, c, u)
  PROVE  AlongGoal(I, e, u)
<1> DEFINE i == c.i  t == c.t  n == c.n  b == Entered(d, i, t)
<1>1. c.method = "advance" /\ d.moves[i] # MaxMoves /\ EnterCase(b, e, i, t, n, u)  BY DEF StepCase
<1>2. i \in Instances /\ t \in Token /\ n \in GNodes  BY <1>1, CallFields DEF CallOK
<1>3. Along(I, t, n)  BY <1>1 DEF WayCall
<1>4. Moved(d, b, i, t) /\ b \in Db  BY <1>1, <1>2, MovedIs DEF Moved
<1> HIDE DEF i, t, n, b
<1>5. b.stages = d.stages  BY <1>4 DEF Moved
<1>6. AllAlong(I, b)  BY <1>5, AlongAlike
<1>7. Grows(b, e)  BY <1>1, <1>2, <1>4, EnterGives DEF Gives
<1>8. QED  BY <1>1, <1>2, <1>3, <1>6, <1>7, EnterAlong

LEMMA FinalAlong ==
  ASSUME NEW I, NEW d, AllAlong(I, d), NEW e, NEW i \in Instances, NEW s, NEW u, FinalCase(d, e, i, s, u)
  PROVE  AlongGoal(I, e, u)
<1>1. Touches(d, e, {i}) /\ Slots(e, i) = Slots(d, i)  BY DEF FinalCase, Finishes
<1>2. AllAlong(I, e)  BY <1>1, TouchedAlong
<1>3. u = <<ToParent(i)>>  BY DEF FinalCase
<1>4. WayCalls(I, u)  BY <1>3, WayCallIs, WayCallsAre
<1>5. QED  BY <1>2, <1>4 DEF AlongGoal

LEMMA StopAlong ==
  ASSUME NEW I, NEW d, AllAlong(I, d), NEW e, NEW i \in Instances, NEW s, NEW u, StopCase(d, e, i, s, u)
  PROVE  AlongGoal(I, e, u)
<1>1. ASSUME DetachCase(d, e, i, s, u) PROVE AlongGoal(I, e, u)
  <2>1. PICK k \in RunningLinks(d, i) :
          /\ RowSet(d, e, i, k, "cancelled")
          /\ u = <<ToFail(ChildOf[d.stages[i][k].node], "cancelled"), ToStop(i, s)>>
    BY <1>1 DEF DetachCase
  <2>2. Touches(d, e, {i}) /\ Slots(e, i) = Slots(d, i)  BY <2>1 DEF RowSet, Restages
  <2>3. AllAlong(I, e)  BY <2>2, TouchedAlong
  <2>4. WayCalls(I, u)  BY <2>1, WayCallIs, WayCallsAre
  <2>5. QED  BY <2>3, <2>4 DEF AlongGoal
<1>2. ASSUME CompensateCase(d, e, i, s, u) PROVE AlongGoal(I, e, u)
  <2>1. Touches(d, e, {i}) /\ Slots(e, i) = Slots(d, i)  BY <1>2 DEF CompensateCase, Finishes
  <2>2. AllAlong(I, e)  BY <2>1, TouchedAlong
  <2>3. u = <<ToCompensate(i)>>  BY <1>2 DEF CompensateCase
  <2>4. WayCalls(I, u)  BY <2>3, WayCallIs, WayCallsAre
  <2>5. QED  BY <2>2, <2>4 DEF AlongGoal
<1>3. ASSUME FinalCase(d, e, i, s, u) PROVE AlongGoal(I, e, u)  BY <1>3, FinalAlong
<1>4. QED  BY <1>1, <1>2, <1>3 DEF StopCase

LEMMA NextAlong ==
  ASSUME NEW I, NEW d, AllAlong(I, d), NEW e, NEW i \in Instances, NEW u, NextCase(d, e, i, u)
  PROVE  AlongGoal(I, e, u)
<1>1. ASSUME UndoCase(d, e, i, u) PROVE AlongGoal(I, e, u)
  <2>1. PICK k \in Armed(d, i) : Undoes(d, e, i, k)  BY <1>1 DEF UndoCase
  <2>2. Grows(d, e) /\ \A j \in Instances : j # i => e.stages[j] = d.stages[j]
    BY <2>1 DEF Undoes, Touches, Same
  <2>3. /\ Slots(e, i) = Slots(d, i) \cup {NextSlot(d, i)}
        /\ e.stages[i][NextSlot(d, i)].kind = "compensation"
    BY <2>1 DEF Undoes
  <2>4. ASSUME NEW j \in Instances, NEW m \in Slots(e, j)
        PROVE m \in Slots(d, j) \/ WayStage(I, e.stages[j][m])
    <3>1. CASE j = i  BY <2>3, <2>4, <3>1 DEF WayStage
    <3>2. CASE j # i  BY <2>2, <2>4, <3>2 DEF Slots
    <3>3. QED  BY <3>1, <3>2
  <2>5. AllAlong(I, e)  BY <2>2, <2>4, AlongGrows
  <2>6. u = <<>>  BY <1>1 DEF UndoCase
  <2>7. WayCalls(I, u)  BY <2>6, WayCallsAre
  <2>8. QED  BY <2>5, <2>7 DEF AlongGoal
<1>2. ASSUME NEW s, FinalCase(d, e, i, s, u) PROVE AlongGoal(I, e, u)  BY <1>2, FinalAlong
<1>3. QED  BY <1>1, <1>2 DEF NextCase

LEMMA ParentAlong ==
  ASSUME NEW I, Nested(I), NEW d \in Db, AllAlong(I, d), NEW c \in Instances, NEW e, NEW u,
         ParentCase(d, e, c, u)
  PROVE  AlongGoal(I, e, u)
<1>1. CASE Still(d, e) /\ u = <<>>
  <2>1. AllAlong(I, e) /\ WayCalls(I, u)  BY <1>1, StillAlong, WayCallsAre
  <2>2. QED  BY <2>1 DEF AlongGoal
<1>2. ASSUME NEW p \in Instances, NEW k \in RunningLinks(d, p),
             UnlinkCase(d, e, p, k, u) \/ ResumeCase(d, e, c, p, k, u) \/ ToppleCase(d, e, c, p, k, u)
      PROVE  AlongGoal(I, e, u)
  <2>1. Touches(d, e, {p}) /\ Slots(e, p) = Slots(d, p)
    BY <1>2 DEF UnlinkCase, ResumeCase, ToppleCase, RowSet, Settled, Restages
  <2>2. AllAlong(I, e)  BY <2>1, TouchedAlong
  <2>3. ASSUME UnlinkCase(d, e, p, k, u) PROVE WayCalls(I, u)
    BY <2>3, WayCallsAre DEF UnlinkCase
  <2>4. ASSUME ResumeCase(d, e, c, p, k, u) PROVE WayCalls(I, u)
    <3> DEFINE st == d.stages[p][k]
    <3>1. k \in Slots(d, p) /\ st.kind # "compensation"  BY DEF RunningLinks
    <3>2. Along(I, st.token, To(st.node)[1])  BY <3>1, StageAlong
    <3>3. u = <<ToAdvance(p, st.token, To(st.node)[1]), ToSync(p)>>  BY <2>4 DEF ResumeCase
    <3> HIDE DEF st
    <3>4. QED  BY <3>2, <3>3, WayCallIs, WayCallsAre
  <2>5. ASSUME ToppleCase(d, e, c, p, k, u) PROVE WayCalls(I, u)
    BY <2>5, WayCallIs, WayCallsAre DEF ToppleCase
  <2>6. WayCalls(I, u)  BY <1>2, <2>3, <2>4, <2>5
  <2>7. QED  BY <2>2, <2>6 DEF AlongGoal
<1>3. QED  BY <1>1, <1>2 DEF ParentCase

LEMMA GiveBackAlong ==
  ASSUME NEW I, NEW d, AllAlong(I, d), NEW e, NEW i \in Instances, NEW k, NEW u, GiveBackCase(d, e, i, k, u)
  PROVE  AlongGoal(I, e, u)
<1>1. ASSUME AgainCase(d, e, i, k, u) PROVE AlongGoal(I, e, u)
  <2>1. Touches(d, e, {i}) /\ Slots(e, i) = Slots(d, i) /\ u = <<>>  BY <1>1 DEF AgainCase, Restood
  <2>2. AllAlong(I, e) /\ WayCalls(I, u)  BY <2>1, TouchedAlong, WayCallsAre
  <2>3. QED  BY <2>2 DEF AlongGoal
<1>2. ASSUME GiveUpCase(d, e, i, k, u) PROVE AlongGoal(I, e, u)
  <2>1. PICK b \in Db : /\ Restood(d, b, i, k, "failed", "compensating")
                        /\ e = b \/ RowSet(b, e, i, d.stages[i][k].of, "failed")
    BY <1>2 DEF GiveUpCase
  <2>2. Touches(d, b, {i}) /\ Slots(b, i) = Slots(d, i)  BY <2>1 DEF Restood
  <2>3. AllAlong(I, b)  BY <2>2, TouchedAlong
  <2>4. CASE e = b
    <3>1. QED  BY <1>2, <2>3, <2>4, WayCallIs, WayCallsAre DEF GiveUpCase, AlongGoal
  <2>5. CASE RowSet(b, e, i, d.stages[i][k].of, "failed")
    <3>1. Touches(b, e, {i}) /\ Slots(e, i) = Slots(b, i)  BY <2>5 DEF RowSet, Restages
    <3>2. AllAlong(I, e)  BY <2>3, <3>1, TouchedAlong
    <3>3. QED  BY <1>2, <3>2, WayCallIs, WayCallsAre DEF GiveUpCase, AlongGoal
  <2>6. QED  BY <2>1, <2>4, <2>5
<1>3. ASSUME FailBackCase(d, e, i, k, u) PROVE AlongGoal(I, e, u)
  <2>1. Touches(d, e, {i}) /\ Slots(e, i) = Slots(d, i) /\ u = <<ToFail(i, "failed")>>
    BY <1>3 DEF FailBackCase, StatusSet, Restages
  <2>2. AllAlong(I, e) /\ WayCalls(I, u)  BY <2>1, TouchedAlong, WayCallIs, WayCallsAre
  <2>3. QED  BY <2>2 DEF AlongGoal
<1>4. QED  BY <1>1, <1>2, <1>3 DEF GiveBackCase

LEMMA CallAlong ==
  ASSUME NEW I, Nested(I), NEW d \in Db, AllAlong(I, d), NEW c, CallOK(d, c), WayCall(I, c),
         NEW e, NEW u, CallCase(d, e, c, u)
  PROVE  AlongGoal(I, e, u)
<1> DEFINE i == c.i
<1>1. i \in Instances  BY CallFields DEF CallOK
<1>2. ASSUME SpentCase(d, e, c, u) PROVE AlongGoal(I, e, u)
  <2>1. Still(d, e) /\ u = <<ToFail(i, "failed")>>  BY <1>2 DEF SpentCase
  <2>2. AllAlong(I, e) /\ WayCalls(I, u)  BY <2>1, StillAlong, WayCallIs, WayCallsAre
  <2>3. QED  BY <2>2 DEF AlongGoal
<1>3. ASSUME StepCase(d, e, c, u) PROVE AlongGoal(I, e, u)  BY <1>3, StepAlong
<1>4. ASSUME FailsCase(d, e, i, c.s, u) PROVE AlongGoal(I, e, u)
  <2>1. CASE Still(d, e) /\ u = <<>>
    <3>1. AllAlong(I, e) /\ WayCalls(I, u)  BY <2>1, StillAlong, WayCallsAre
    <3>2. QED  BY <3>1 DEF AlongGoal
  <2>2. CASE Quiesced(d, e, i) /\ u = <<ToStop(i, c.s)>>
    <3>1. Touches(d, e, {i}) /\ Slots(e, i) = Slots(d, i)  BY <2>2 DEF Quiesced
    <3>2. AllAlong(I, e) /\ WayCalls(I, u)  BY <1>1, <2>2, <3>1, TouchedAlong, WayCallIs, WayCallsAre
    <3>3. QED  BY <3>2 DEF AlongGoal
  <2>3. QED  BY <1>4, <2>1, <2>2 DEF FailsCase
<1>5. ASSUME StopCase(d, e, i, c.s, u) PROVE AlongGoal(I, e, u)  BY <1>1, <1>5, StopAlong
<1>6. ASSUME NextCase(d, e, i, u) PROVE AlongGoal(I, e, u)  BY <1>1, <1>6, NextAlong
<1>7. ASSUME ParentCase(d, e, i, u) PROVE AlongGoal(I, e, u)  BY <1>1, <1>7, ParentAlong
<1>8. ASSUME LinkCase(d, e, i, c.k, u) PROVE AlongGoal(I, e, u)
  <2>1. Touches(d, e, {i}) /\ Slots(e, i) = Slots(d, i)  BY <1>8 DEF LinkCase, RowSet, Restages
  <2>2. u = <<ToParent(Child(d, i, c.k))>>  BY <1>8 DEF LinkCase
  <2>3. AllAlong(I, e) /\ WayCalls(I, u)  BY <1>1, <2>1, <2>2, TouchedAlong, WayCallIs, WayCallsAre
  <2>4. QED  BY <2>3 DEF AlongGoal
<1>9. ASSUME Synced(d, e, i), u = <<>> PROVE AlongGoal(I, e, u)
  <2>1. \A j \in Instances : e.stages[j] = d.stages[j]  BY <1>9 DEF Synced, Touches, Same
  <2>2. AllAlong(I, e) /\ WayCalls(I, u)  BY <1>9, <2>1, AlongAlike, WayCallsAre
  <2>3. QED  BY <2>2 DEF AlongGoal
<1>10. ASSUME GiveBackCase(d, e, i, c.k, u) PROVE AlongGoal(I, e, u)  BY <1>1, <1>10, GiveBackAlong
<1>11. QED  BY <1>2, <1>3, <1>4, <1>5, <1>6, <1>7, <1>8, <1>9, <1>10 DEF CallCase

(***************************************************************************)
(* One call keeps every fork on its way.                                   *)
(***************************************************************************)
LEMMA NoneWoken ==
  ASSUME NEW d, NEW i, Live(d, i) = {}
  PROVE  Woken(d, i)
BY DEF Woken

(* Only a step and an end change tokens.                                    *)
LEMMA CallTokens ==
  ASSUME NEW d, NEW c, CallOK(d, c), NEW e, NEW u, CallCase(d, e, c, u), ~StepCase(d, e, c, u),
         NEW j \in Instances, d.inst[j] \in OpenInst => ~Closes(c, j)
  PROVE  e.token[j] = d.token[j]
<1> DEFINE i == c.i
<1>1. i \in Instances  BY CallFields DEF CallOK
<1>2. ASSUME NEW p, Touches(d, e, {p}), e.token[p] = d.token[p] PROVE e.token[j] = d.token[j]
  <2>1. CASE j = p  BY <1>2, <2>1
  <2>2. CASE j # p  BY <1>2, <2>2 DEF Touches, Same
  <2>3. QED  BY <2>1, <2>2
<1>3. Still(d, e) => e.token[j] = d.token[j]  BY DEF Still, Touches, Same
<1>4. SpentCase(d, e, c, u) => e.token[j] = d.token[j]  BY <1>3 DEF SpentCase
<1>5. ASSUME c.method = "fail", FailsCase(d, e, i, c.s, u) PROVE e.token[j] = d.token[j]
  <2>1. CASE Still(d, e)  BY <1>3, <2>1
  <2>2. CASE d.inst[i] \in OpenInst /\ Quiesced(d, e, i)
    <3>1. j # i  BY <1>5, <2>2 DEF Closes
    <3>2. QED  BY <2>2, <3>1 DEF Quiesced, Touches, Same
  <2>3. QED  BY <1>5, <2>1, <2>2 DEF FailsCase
<1>6. \A s : FinalCase(d, e, i, s, u) => e.token[j] = d.token[j]
  <2>1. ASSUME NEW s, FinalCase(d, e, i, s, u) PROVE e.token[j] = d.token[j]
    <3>1. Touches(d, e, {i}) /\ e.token[i] = d.token[i]  BY <2>1 DEF FinalCase, Finishes
    <3>2. QED  BY <1>2, <3>1
  <2>2. QED  BY <2>1
<1>7. ASSUME StopCase(d, e, i, c.s, u) PROVE e.token[j] = d.token[j]
  <2>1. ASSUME DetachCase(d, e, i, c.s, u) \/ CompensateCase(d, e, i, c.s, u) PROVE e.token[j] = d.token[j]
    <3>1. Touches(d, e, {i}) /\ e.token[i] = d.token[i]
      BY <2>1 DEF DetachCase, CompensateCase, RowSet, Restages, Finishes
    <3>2. QED  BY <1>2, <3>1
  <2>2. QED  BY <1>6, <1>7, <2>1 DEF StopCase
<1>8. ASSUME NextCase(d, e, i, u) PROVE e.token[j] = d.token[j]
  <2>1. ASSUME UndoCase(d, e, i, u) PROVE e.token[j] = d.token[j]
    <3>1. Touches(d, e, {i}) /\ e.token[i] = d.token[i]  BY <2>1 DEF UndoCase, Undoes
    <3>2. QED  BY <1>2, <3>1
  <2>2. QED  BY <1>6, <1>8, <2>1 DEF NextCase
<1>9. ASSUME ParentCase(d, e, i, u) PROVE e.token[j] = d.token[j]
  <2>1. CASE Still(d, e)  BY <1>3, <2>1
  <2>2. CASE ~Still(d, e)
    <3>1. PICK p \in Instances : Restages(d, e, p)
      BY <1>9, <2>2 DEF ParentCase, UnlinkCase, ResumeCase, ToppleCase, RowSet, Settled
    <3>2. Touches(d, e, {p}) /\ e.token[p] = d.token[p]  BY <3>1 DEF Restages
    <3>3. QED  BY <1>2, <3>2
  <2>3. QED  BY <2>1, <2>2
<1>10. ASSUME LinkCase(d, e, i, c.k, u) PROVE e.token[j] = d.token[j]
  <2>1. Touches(d, e, {i}) /\ e.token[i] = d.token[i]  BY <1>10 DEF LinkCase, RowSet, Restages
  <2>2. QED  BY <1>2, <2>1
<1>11. ASSUME Synced(d, e, i) PROVE e.token[j] = d.token[j]
  <2>1. Touches(d, e, {i}) /\ e.token[i] = d.token[i]  BY <1>11 DEF Synced
  <2>2. QED  BY <1>2, <2>1
<1>12. ASSUME GiveBackCase(d, e, i, c.k, u) PROVE e.token[j] = d.token[j]
  <2>1. ASSUME AgainCase(d, e, i, c.k, u) \/ FailBackCase(d, e, i, c.k, u) PROVE e.token[j] = d.token[j]
    <3>1. Touches(d, e, {i}) /\ e.token[i] = d.token[i]
      BY <2>1 DEF AgainCase, FailBackCase, Restood, StatusSet, Restages
    <3>2. QED  BY <1>2, <3>1
  <2>2. ASSUME GiveUpCase(d, e, i, c.k, u) PROVE e.token[j] = d.token[j]
    <3>1. PICK b \in Db : /\ Restood(d, b, i, c.k, "failed", "compensating")
                          /\ e = b \/ \E l : RowSet(b, e, i, l, "failed")
      BY <2>2 DEF GiveUpCase
    <3>2. b.token[j] = d.token[j]
      <4>1. CASE j = i  BY <3>1, <4>1 DEF Restood
      <4>2. CASE j # i  BY <3>1, <4>2 DEF Restood, Touches, Same
      <4>3. QED  BY <4>1, <4>2
    <3>3. CASE e = b  BY <3>2, <3>3
    <3>4. CASE \E l : RowSet(b, e, i, l, "failed")
      <4>1. CASE j = i  BY <3>2, <3>4, <4>1 DEF RowSet, Restages
      <4>2. CASE j # i  BY <3>2, <3>4, <4>2 DEF RowSet, Restages, Touches, Same
      <4>3. QED  BY <4>1, <4>2
    <3>5. QED  BY <3>1, <3>3, <3>4
  <2>3. QED  BY <1>12, <2>1, <2>2 DEF GiveBackCase
<1>13. QED
  BY <1>4, <1>5, <1>7, <1>8, <1>9, <1>10, <1>11, <1>12 DEF CallCase

LEMMA StepWakes ==
  ASSUME NEW I, Nested(I), NEW d \in Db, NEW c, CallOK(d, c), Each(d, c), WayCall(I, c),
         NEW e, NEW u, StepCase(d, e, c, u), NEW j \in Instances, Woken(d, j),
         NEW Q, d.inst[j] \in OpenInst => Fit(d, j, One(c, j), Q)
  PROVE  WakeGoal(e, u, j)
<1> DEFINE i == c.i  t == c.t  n == c.n  b == Entered(d, i, t)
<1>1. /\ c.method = "advance" /\ d.moves[i] # MaxMoves /\ EnterCase(b, e, i, t, n, u)
      /\ i \in Instances /\ t \in Token /\ n \in NodesOf[i]
  BY CallFields DEF StepCase, CallOK, Each
<1>2. d.inst[i] \in OpenInst  BY <1>1 DEF Each, Going
<1>3. Moved(d, b, i, t) /\ b \in Db  BY <1>1, MovedIs DEF Moved
<1>4. Along(I, t, n)  BY <1>1 DEF WayCall
<1> HIDE DEF b, i, t, n
<1>5. CASE j = i
  <2>1. One(c, j) = {t}  BY <1>1, <1>5 DEF One, Advances, i, t
  <2>2. Fit(d, i, {t}, Q)  BY <1>2, <1>5, <2>1
  <2>3. Fit(b, i, {t}, Q)  BY <1>1, <1>3, <2>2, MovedWork
  <2>4. t \in Active(d, i)  BY <2>2 DEF Fit, TokensFit
  <2>5. d.token[i][t] = "active"  BY <2>4 DEF Active
  <2>6. DOMAIN b.token[i] = DOMAIN d.token[i] /\ \A v \in DOMAIN d.token[i] : b.token[i][v] = d.token[i][v]
    BY <1>3, <2>5 DEF Moved
  <2>7. Woken(b, i)  BY <1>5, <2>6, WokenLike
  <2>8. WakeGoal(e, u, i)  BY <1>1, <1>3, <1>4, <2>3, <2>7, EnterWakes
  <2>9. QED  BY <1>5, <2>8
<1>6. CASE j # i
  <2>1. b.token[j] = d.token[j]  BY <1>3, <1>6 DEF Moved
  <2>2. CASE j = ChildOf[n] /\ BeginCase(b, e, i, t, n, u)
    <3>1. PICK a \in Db : Started(a, e, j)  BY <2>2 DEF BeginCase
    <3>2. Woken(e, j)  BY <3>1, BornWakes
    <3>3. QED  BY <3>2, WakesNow
  <2>3. CASE ~(j = ChildOf[n] /\ BeginCase(b, e, i, t, n, u))
    <3>1. Spared(b, e, u, j)  BY <1>1, <1>3, <1>6, <2>3, EnterSpares
    <3>2. e.token[j] = d.token[j]  BY <2>1, <3>1 DEF Spared, Same
    <3>3. Woken(e, j)  BY <3>2, WokenSame
    <3>4. QED  BY <3>3, WakesNow
  <2>4. QED  BY <2>2, <2>3
<1>7. QED  BY <1>5, <1>6

LEMMA CallWakes ==
  ASSUME NEW I, Nested(I), NEW d \in Db, NEW c, CallOK(d, c), Each(d, c), WayCall(I, c),
         NEW e, NEW u, CallCase(d, e, c, u), NEW j \in Instances, Woken(d, j), NEW Q,
         d.inst[j] \in OpenInst => ~Closes(c, j) /\ Fit(d, j, One(c, j), Q)
  PROVE  WakeGoal(e, u, j)
<1>1. CASE StepCase(d, e, c, u)  BY <1>1, StepWakes
<1>2. CASE ~StepCase(d, e, c, u)
  <2>1. e.token[j] = d.token[j]  BY <1>2, CallTokens
  <2>2. Woken(e, j)  BY <2>1, WokenSame
  <2>3. QED  BY <2>2, WakesNow
<1>3. QED  BY <1>1, <1>2

LEMMA WakeThen ==
  ASSUME NEW I, Nested(I), NEW C, NEW d \in Db, AllFit(d), NEW s \in Seq(Calls), s # <<>>, InOrder(C, d, s),
         AllAtWork(d, s), AllWoken(d, s), WayCalls(I, s), CallOK(d, Head(s)),
         NEW e, NEW u, CallCase(d, e, Head(s), u), NEW z, IsConcat(z, u, Tail(s))
  PROVE  AllWoken(e, z)
<1> DEFINE c == Head(s)  R == Tail(s)
<1> SUFFICES ASSUME NEW j \in Instances, e.inst[j] \in OpenInst, ~Closing(z, j) PROVE Woken(e, j)
  BY DEF AllWoken
<1>1. 1 \in DOMAIN s /\ s[1] = c /\ c \in Calls  BY HeadOf
<1>2. \A x \in DOMAIN s : x # 1 => x - 1 \in DOMAIN R /\ R[x - 1] = s[x]  BY RestIs
<1>3. Each(d, c) /\ CallOK(d, c) /\ CallCase(d, e, c, u) /\ IsConcat(z, u, R)  BY <1>1 DEF InOrder
<1>4. WayCall(I, c)  BY <1>1 DEF WayCalls
<1>5. ~Closing(R, j)
  <2>1. \A x \in DOMAIN R : Len(u) + x \in DOMAIN z /\ z[Len(u) + x] = R[x]  BY <1>3 DEF IsConcat
  <2>2. QED  BY <2>1 DEF Closing
<1>6. ~Closing(u, j)
  <2>1. \A x \in DOMAIN u : x \in DOMAIN z /\ z[x] = u[x]  BY <1>3 DEF IsConcat
  <2>2. QED  BY <2>1 DEF Closing
<1>7. AtWork(d, s, j)  BY DEF AllAtWork
<1>8. CASE d.inst[j] \in OpenInst
  <2>1. ~Closes(c, j)  BY <1>3, <1>6, <1>8, CloseGoes
  <2>2. ~Closing(s, j)
    <3>1. SUFFICES ASSUME NEW x \in DOMAIN s, Closes(s[x], j) PROVE FALSE  BY DEF Closing
    <3>2. x # 1  BY <1>1, <2>1, <3>1
    <3>3. x - 1 \in DOMAIN R /\ R[x - 1] = s[x]  BY <1>2, <3>2
    <3>4. QED  BY <1>5, <3>1, <3>3 DEF Closing
  <2>3. Woken(d, j)  BY <1>8, <2>2 DEF AllWoken
  <2>4. Fit(d, j, One(c, j), Awaits(R, j))  BY <1>5, <1>7, <1>8, <2>1, HeadWork
  <2>5. WakeGoal(e, u, j)  BY <1>3, <1>4, <2>1, <2>3, <2>4, CallWakes
  <2>6. QED  BY <1>6, <2>5 DEF WakeGoal
<1>9. CASE d.inst[j] \notin OpenInst
  <2>1. HeadFits(d, j)  BY DEF AllFit, Fits
  <2>2. Live(d, j) = {}  BY <1>9, <2>1 DEF HeadFits
  <2>3. Woken(d, j)  BY <2>2, NoneWoken
  <2>4. WakeGoal(e, u, j)  BY <1>3, <1>4, <1>9, <2>3, CallWakes
  <2>5. QED  BY <1>6, <2>4 DEF WakeGoal
<1>10. QED  BY <1>8, <1>9

(***************************************************************************)
(* How a handler begins.                                                   *)
(***************************************************************************)
LEMMA GiveBackWay ==
  ASSUME NEW I, NEW i, NEW k, NEW again
  PROVE  WayCalls(I, <<ToGiveBack(i, k, again)>>)
<1> DEFINE c == ToGiveBack(i, k, again)
<1>1. c.method = "giveback"  BY DEF ToGiveBack
<1> HIDE DEF c
<1>2. WayCall(I, c)  BY <1>1 DEF WayCall
<1>3. WayCalls(I, <<c>>)  BY <1>2, WayCallsAre
<1>4. QED  BY <1>3 DEF c

LEMMA BeginsKeep ==
  ASSUME NEW d \in Db, NEW e, NEW u, Handled(d, e, u), ~StartH(d, e, u), NEW j \in Instances
  PROVE  e.token[j] = d.token[j] /\ e.inst[j] = d.inst[j]
<1> DEFINE Goal == e.token[j] = d.token[j] /\ e.inst[j] = d.inst[j]
<1>1. ASSUME Still(d, e) PROVE Goal  BY <1>1 DEF Still, Touches, Same
<1>2. ASSUME NEW b, NEW a, NEW i \in Instances, Touches(b, a, {i}), a.token[i] = b.token[i], a.inst[i] = b.inst[i]
      PROVE  a.token[j] = b.token[j] /\ a.inst[j] = b.inst[j]
  <2>1. CASE j = i  BY <1>2, <2>1
  <2>2. CASE j # i  BY <1>2, <2>2 DEF Touches, Same
  <2>3. QED  BY <2>1, <2>2
<1>3. ASSUME NEW i \in Instances, NEW k, NEW r, NEW s, Ends(d, e, i, k, r, s) PROVE Goal
  BY <1>2, <1>3 DEF Ends
<1>4. ASSUME GoH(d, e, u) PROVE Goal  BY <1>3, <1>4 DEF GoH
<1>5. ASSUME BreakH(d, e, u) PROVE Goal  BY <1>3, <1>5 DEF BreakH
<1>6. ASSUME UndoneH(d, e, u) PROVE Goal
  <2>1. PICK i \in Instances : \E k \in Slots(d, i) : UndoEnds(d, e, i, k, "completed")
    BY <1>6 DEF UndoneH
  <2>2. PICK k \in Slots(d, i) : UndoEnds(d, e, i, k, "completed")  BY <2>1
  <2>3. PICK b \in Db : /\ Ends(d, b, i, k, d.stages[i][k].row, "completed")
                        /\ e = b \/ RowSet(b, e, i, d.stages[i][k].of, "completed")
    BY <2>2 DEF UndoEnds
  <2>4. b.token[j] = d.token[j] /\ b.inst[j] = d.inst[j]  BY <1>2, <2>3 DEF Ends
  <2>5. CASE e = b  BY <2>4, <2>5
  <2>6. CASE RowSet(b, e, i, d.stages[i][k].of, "completed")
    <3>1. Touches(b, e, {i}) /\ e.token[i] = b.token[i] /\ e.inst[i] = b.inst[i]
      BY <2>6 DEF RowSet, Restages
    <3>2. e.token[j] = b.token[j] /\ e.inst[j] = b.inst[j]  BY <1>2, <3>1
    <3>3. QED  BY <2>4, <3>2
  <2>7. QED  BY <2>3, <2>5, <2>6
<1>7. ASSUME LateH(d, e, u) PROVE Goal
  <2>1. PICK i \in Instances : \E k \in Slots(d, i) : RowSet(d, e, i, k, "expired")  BY <1>7 DEF LateH
  <2>2. Touches(d, e, {i}) /\ e.token[i] = d.token[i] /\ e.inst[i] = d.inst[i]
    BY <2>1 DEF RowSet, Restages
  <2>3. QED  BY <1>2, <2>2
<1> HIDE DEF Goal
<1>8. Goal  BY <1>1, <1>4, <1>5, <1>6, <1>7 DEF Handled, CancelH, GiveH, SweepH
<1>9. QED  BY <1>8 DEF Goal

LEMMA BeginsWoken ==
  ASSUME NEW d \in Db, AllWoken(d, <<>>), NEW e, NEW u, Begins(d, e, u)
  PROVE  AllWoken(e, u)
<1> SUFFICES ASSUME NEW j \in Instances, e.inst[j] \in OpenInst PROVE Woken(e, j)
  BY DEF AllWoken
<1>1. d.inst[j] \in OpenInst => Woken(d, j)  BY AwaitsNone DEF AllWoken, Closing
<1>2. CASE StartH(d, e, u)
  <2>1. PICK i \in Instances : Started(d, e, i)  BY <1>2 DEF StartH
  <2>2. CASE j = i  BY <2>1, <2>2, BornWakes
  <2>3. CASE j # i
    <3>1. Same(d, e, j)  BY <2>1, <2>3 DEF Started, Touches
    <3>2. e.token[j] = d.token[j] /\ d.inst[j] \in OpenInst  BY <3>1 DEF Same
    <3>3. QED  BY <1>1, <3>2, WokenSame
  <2>4. QED  BY <2>2, <2>3
<1>3. CASE Handled(d, e, u) /\ ~StartH(d, e, u)
  <2>1. e.token[j] = d.token[j] /\ e.inst[j] = d.inst[j]  BY <1>3, BeginsKeep
  <2>2. QED  BY <1>1, <2>1, WokenSame
<1>4. CASE RevokeH(d, e, u)
  <2>1. PICK i \in Instances : Revokes(d, e, u, i)  BY <1>4 DEF RevokeH
  <2>2. "cancelled" \notin OpenInst  BY DEF OpenInst
  <2>3. Touches(d, e, {i}) /\ e.token[i] = d.token[i]  BY <2>1, RevokesAre
  <2>4. e.inst[i] = d.inst[i] \/ e.inst[i] = "cancelled"  BY <2>1, RevokesAre DEF RevokedAs
  <2>5. e.token[j] = d.token[j] /\ e.inst[j] = d.inst[j]
    <3>1. CASE j = i  BY <2>2, <2>3, <2>4, <3>1
    <3>2. CASE j # i  BY <2>3, <3>2 DEF Touches, Same
    <3>3. QED  BY <3>1, <3>2
  <2>6. QED  BY <1>1, <2>5, WokenSame
<1>5. QED  BY <1>2, <1>3, <1>4 DEF Begins

LEMMA BeginsAlong ==
  ASSUME NEW I, Nested(I), NEW d \in Db, Lone(d), AllAlong(I, d), NEW e, NEW u, Begins(d, e, u)
  PROVE  AlongGoal(I, e, u)
<1>1. ASSUME NEW i \in Instances, Touches(d, e, {i}), Slots(e, i) = Slots(d, i), WayCalls(I, u)
      PROVE  AlongGoal(I, e, u)
  <2>1. AllAlong(I, e)  BY <1>1, TouchedAlong
  <2>2. QED  BY <1>1, <2>1 DEF AlongGoal
<1>2. ASSUME Still(d, e), WayCalls(I, u) PROVE AlongGoal(I, e, u)
  <2>1. AllAlong(I, e)  BY <1>2, StillAlong
  <2>2. QED  BY <1>2, <2>1 DEF AlongGoal
<1>3. ASSUME StartH(d, e, u) PROVE AlongGoal(I, e, u)
  <2>1. PICK i \in Instances : Started(d, e, i) /\ u = <<ToAdvance(i, Root, StartOf[i])>>
    BY <1>3 DEF StartH
  <2>2. \A j \in Instances : e.stages[j] = d.stages[j]  BY <2>1 DEF Started, Touches, Same
  <2>3. AllAlong(I, e)  BY <2>2, AlongAlike
  <2>4. Along(I, Root, StartOf[i])  BY AlongRoot
  <2>5. WayCalls(I, u)  BY <2>1, <2>4, WayCallIs, WayCallsAre
  <2>6. QED  BY <2>3, <2>5 DEF AlongGoal
<1>4. ASSUME CancelH(d, e, u) PROVE AlongGoal(I, e, u)
  BY <1>2, <1>4, WayCallIs, WayCallsAre DEF CancelH
<1>5. ASSUME GoH(d, e, u) PROVE AlongGoal(I, e, u)
  <2>1. PICK i \in Instances : \E k \in Slots(d, i) : \E r :
          /\ d.stages[i][k].kind # "compensation" /\ Ends(d, e, i, k, r, "completed")
          /\ u = <<ToAdvance(i, d.stages[i][k].token, To(d.stages[i][k].node)[1]), ToSync(i)>>
    BY <1>5 DEF GoH
  <2>2. PICK k \in Slots(d, i) : \E r :
          /\ d.stages[i][k].kind # "compensation" /\ Ends(d, e, i, k, r, "completed")
          /\ u = <<ToAdvance(i, d.stages[i][k].token, To(d.stages[i][k].node)[1]), ToSync(i)>>
    BY <2>1
  <2> DEFINE st == d.stages[i][k]
  <2>3. Along(I, st.token, To(st.node)[1])  BY <2>2, StageAlong
  <2>4. u = <<ToAdvance(i, st.token, To(st.node)[1]), ToSync(i)>>  BY <2>2
  <2>5. Touches(d, e, {i}) /\ Slots(e, i) = Slots(d, i)  BY <2>2 DEF Ends
  <2> HIDE DEF st
  <2>6. WayCalls(I, u)  BY <2>3, <2>4, WayCallIs, WayCallsAre
  <2>7. QED  BY <1>1, <2>5, <2>6
<1>6. ASSUME UndoneH(d, e, u) PROVE AlongGoal(I, e, u)
  <2>1. PICK i \in Instances : \E k \in Slots(d, i) :
          UndoEnds(d, e, i, k, "completed") /\ u = <<ToCompensate(i)>>
    BY <1>6 DEF UndoneH
  <2>2. PICK k \in Slots(d, i) : UndoEnds(d, e, i, k, "completed") /\ u = <<ToCompensate(i)>>  BY <2>1
  <2>3. PICK b \in Db : /\ Ends(d, b, i, k, d.stages[i][k].row, "completed")
                        /\ e = b \/ RowSet(b, e, i, d.stages[i][k].of, "completed")
    BY <2>2 DEF UndoEnds
  <2>4. Touches(d, b, {i}) /\ Slots(b, i) = Slots(d, i)  BY <2>3 DEF Ends
  <2>5. AllAlong(I, b)  BY <2>4, TouchedAlong
  <2>6. AllAlong(I, e)
    <3>1. CASE e = b  BY <2>5, <3>1
    <3>2. CASE RowSet(b, e, i, d.stages[i][k].of, "completed")
      <4>1. Touches(b, e, {i}) /\ Slots(e, i) = Slots(b, i)  BY <3>2 DEF RowSet, Restages
      <4>2. QED  BY <2>5, <4>1, TouchedAlong
    <3>3. QED  BY <2>3, <3>1, <3>2
  <2>7. WayCalls(I, u)  BY <2>2, WayCallIs, WayCallsAre
  <2>8. QED  BY <2>6, <2>7 DEF AlongGoal
<1>7. ASSUME BreakH(d, e, u) PROVE AlongGoal(I, e, u)
  <2>1. PICK i \in Instances : \E s : u = <<ToFail(i, s)>> /\ \E k : \E r : Ends(d, e, i, k, r, s)
    BY <1>7 DEF BreakH
  <2>2. Touches(d, e, {i}) /\ Slots(e, i) = Slots(d, i)  BY <2>1 DEF Ends
  <2>3. WayCalls(I, u)  BY <2>1, WayCallIs, WayCallsAre
  <2>4. QED  BY <1>1, <2>2, <2>3
<1>8. ASSUME LateH(d, e, u) PROVE AlongGoal(I, e, u)
  <2>1. PICK i \in Instances : (\E k : RowSet(d, e, i, k, "expired")) /\ u = <<ToFail(i, "failed")>>
    BY <1>8 DEF LateH
  <2>2. Touches(d, e, {i}) /\ Slots(e, i) = Slots(d, i)  BY <2>1 DEF RowSet, Restages
  <2>3. WayCalls(I, u)  BY <2>1, WayCallIs, WayCallsAre
  <2>4. QED  BY <1>1, <2>2, <2>3
<1>9. ASSUME GiveH(d, e, u) PROVE AlongGoal(I, e, u)
  <2>1. Still(d, e) /\ \E i, k, again : u = <<ToGiveBack(i, k, again)>>  BY <1>9 DEF GiveH
  <2>2. WayCalls(I, u)  BY <2>1, GiveBackWay
  <2>3. QED  BY <1>2, <2>1, <2>2
<1>10. ASSUME RevokeH(d, e, u) PROVE AlongGoal(I, e, u)
  <2>1. PICK i \in Instances : Revokes(d, e, u, i)  BY <1>10 DEF RevokeH
  <2>2. /\ Touches(d, e, {i}) /\ Slots(e, i) = Slots(d, i)
        /\ u = <<ToFail(i, "cancelled")>> \/ u = <<ToParent(i)>>
    BY <2>1, RevokesAre DEF RevokedAs
  <2>3. WayCalls(I, u)  BY <2>2, WayCallIs, WayCallsAre
  <2>4. QED  BY <1>1, <2>2, <2>3
<1>11. QED  BY <1>3, <1>4, <1>5, <1>6, <1>7, <1>8, <1>9, <1>10 DEF Begins, Handled, SweepH

(***************************************************************************)
(* The forks, from call to call and from handler to handler.               *)
(***************************************************************************)
WayOn(I, d, s) == AllAlong(I, d) /\ WayCalls(I, s)

LEMMA AlongStep ==
  ASSUME NEW I, Nested(I), NEW m \in Machines, m.todo # <<>>, WayOn(I, m.db, m.todo), NEW n, StepsTo(m, n)
  PROVE  WayOn(I, n.db, n.todo)
<1> DEFINE d == m.db  s == m.todo  c == Head(s)
<1>1. d \in Db /\ s \in Seq(Calls) /\ s # <<>>  BY DEF Machines
<1>2. PICK e, u : /\ CallCase(d, e, c, u) /\ Gives(d, e, u) /\ CallOK(d, c)
                  /\ AllOK(e, Tail(s)) /\ n = Do(e, u \o Tail(s))
  BY DEF StepsTo
<1> DEFINE z == u \o Tail(s)
<1>3. n.db = e /\ n.todo = z  BY <1>2 DEF Do
<1>4. AllOK(e, u)  BY <1>2 DEF Gives
<1>5. IsConcat(z, u, Tail(s))  BY <1>2, <1>4, AllThen
<1>6. AllAlong(I, d) /\ WayCalls(I, s)  BY DEF WayOn
<1> HIDE DEF d, s, z
<1>7. /\ 1 \in DOMAIN s /\ s[1] = c
      /\ \A x \in DOMAIN Tail(s) : x + 1 \in DOMAIN s /\ Tail(s)[x] = s[x + 1]
  BY <1>1, HeadOf
<1>8. WayCall(I, c)  BY <1>6, <1>7 DEF WayCalls
<1>9. AlongGoal(I, e, u)  BY <1>1, <1>2, <1>6, <1>8, CallAlong
<1>10. WayCalls(I, Tail(s))  BY <1>6, <1>7 DEF WayCalls
<1>11. AllAlong(I, e) /\ WayCalls(I, u)  BY <1>9 DEF AlongGoal
<1>12. WayCalls(I, z)  BY <1>5, <1>10, <1>11, WayCallsMany
<1>13. QED  BY <1>3, <1>11, <1>12 DEF WayOn

LEMMA WokenStep ==
  ASSUME NEW I, Nested(I), NEW C, NEW m \in Machines, m.todo # <<>>, Sound(C, m.db, m.todo),
         WayOn(I, m.db, m.todo), AllWoken(m.db, m.todo), NEW n, StepsTo(m, n)
  PROVE  AllWoken(n.db, n.todo)
<1> DEFINE d == m.db  s == m.todo  c == Head(s)
<1>1. d \in Db /\ s \in Seq(Calls) /\ s # <<>>  BY DEF Machines
<1>2. PICK e, u : /\ CallCase(d, e, c, u) /\ Gives(d, e, u) /\ CallOK(d, c)
                  /\ AllOK(e, Tail(s)) /\ n = Do(e, u \o Tail(s))
  BY DEF StepsTo
<1> DEFINE z == u \o Tail(s)
<1>3. n.db = e /\ n.todo = z  BY <1>2 DEF Do
<1>4. AllOK(e, u)  BY <1>2 DEF Gives
<1>5. IsConcat(z, u, Tail(s))  BY <1>2, <1>4, AllThen
<1>6. AllFit(d) /\ InOrder(C, d, s) /\ AllAtWork(d, s) /\ AllWoken(d, s) /\ WayCalls(I, s)
  BY DEF Sound, WayOn
<1> HIDE DEF d, s, z
<1>7. AllWoken(e, z)  BY <1>1, <1>2, <1>5, <1>6, WakeThen
<1>8. QED  BY <1>3, <1>7

(* The handlers with all their calls.                                       *)
LEMMA CallsWoken ==
  ASSUME NEW I, Nested(I), NEW C, CalmBy(C), Settled0(db), AllAlong(I, db), AllWoken(db, <<>>), CallsStep
  PROVE  AllAlong(I, db') /\ AllWoken(db', <<>>)
<1>1. PICK e, u, w : Begins(db, e, u) /\ Tame(w) /\ Carry(e, u, w)  BY DEF CallsStep
<1>2. db \in Db /\ Settle(db) /\ Lone(db)  BY DEF Settled0, Settle
<1>3. e \in Db /\ AllOK(e, u)  BY <1>1, <1>2, BeginsGives
<1>4. Sound(C, e, u)  BY <1>1, <1>2, BeginsSound
<1>5. WayOn(I, e, u)  BY <1>1, <1>2, BeginsAlong DEF AlongGoal, WayOn
<1>6. AllWoken(e, u)  BY <1>1, <1>2, BeginsWoken
<1> DEFINE Good == {m \in Machines : /\ Sound(C, m.db, m.todo) /\ WayOn(I, m.db, m.todo)
                                     /\ AllWoken(m.db, m.todo)}
<1>7. Do(e, u) \in Good  BY <1>3, <1>4, <1>5, <1>6, MachineIs
<1>8. ASSUME NEW m \in Good PROVE Step(m, w) \in Good
  <2>1. m \in Machines /\ Sound(C, m.db, m.todo) /\ WayOn(I, m.db, m.todo) /\ AllWoken(m.db, m.todo)
    OBVIOUS
  <2>2. CASE m.todo = <<>>
    <3>1. Step(m, w) = m  BY <2>1, <2>2, StepStays
    <3>2. QED  BY <3>1
  <2>3. CASE m.todo # <<>>
    <3> DEFINE n == Step(m, w)
    <3>1. StepsTo(m, n) /\ n \in Machines  BY <1>1, <2>1, <2>3, StepIs
    <3> HIDE DEF n
    <3>2. Sound(C, n.db, n.todo)  BY <2>1, <2>3, <3>1, SoundThen
    <3>3. WayOn(I, n.db, n.todo)  BY <2>1, <2>3, <3>1, AlongStep
    <3>4. AllWoken(n.db, n.todo)  BY <2>1, <2>3, <3>1, WokenStep
    <3>5. n \in Good  BY <3>1, <3>2, <3>3, <3>4
    <3>6. QED  BY <3>5 DEF n
  <2>4. QED  BY <2>2, <2>3
<1> HIDE DEF Good
<1>9. PICK m \in Good : m.todo = <<>> /\ db' = m.db  BY <1>1, <1>7, <1>8, CarryRule
<1>10. WayOn(I, m.db, <<>>) /\ AllWoken(m.db, <<>>)  BY <1>9 DEF Good
<1>11. QED  BY <1>9, <1>10 DEF WayOn

(* A handler that makes no call.                                            *)
LEMMA PlainWoken ==
  ASSUME NEW I, NEW d, AllAlong(I, d), AllFit(d), AllWoken(d, <<>>), NEW i \in Instances, NEW k \in Slots(d, i),
         NEW e, LeaseCase(d, e, i, k) \/ LapseCase(d, e, i, k) \/ ApproveCase(d, e, i, k)
  PROVE  AllAlong(I, e) /\ AllWoken(e, <<>>)
<1>1. /\ \A j \in Instances : j # i => Same(d, e, j)
      /\ e.token[i] = d.token[i] /\ Slots(e, i) = Slots(d, i)
      /\ \A m \in Slots(d, i) : m # k => e.stages[i][m] = d.stages[i][m]
      /\ Kept(d, e, i, k)
  BY DEF LeaseCase, LapseCase, ApproveCase, Others, Touches
<1>2. ASSUME NEW j \in Instances, NEW m \in Slots(e, j) PROVE WayStage(I, e.stages[j][m])
  <2>1. m \in Slots(d, j) /\ (j # i => e.stages[j][m] = d.stages[j][m])  BY <1>1, <1>2 DEF Same, Slots
  <2>2. WayStage(I, d.stages[j][m])  BY <2>1 DEF AllAlong
  <2>3. e.stages[j][m] = d.stages[j][m] \/ (j = i /\ m = k)  BY <1>1, <2>1
  <2>4. QED  BY <1>1, <2>2, <2>3 DEF WayStage, Kept
<1>3. AllAlong(I, e)  BY <1>2 DEF AllAlong
<1>4. ASSUME NEW j \in Instances, e.inst[j] \in OpenInst PROVE Woken(e, j)
  <2>1. e.token[j] = d.token[j]  BY <1>1 DEF Same
  <2>2. CASE d.inst[j] \in OpenInst
    <3>1. Woken(d, j)  BY <2>2, AwaitsNone DEF AllWoken, Closing
    <3>2. QED  BY <2>1, <3>1, WokenSame
  <2>3. CASE d.inst[j] \notin OpenInst
    <3>1. HeadFits(d, j)  BY DEF AllFit, Fits
    <3>2. Live(d, j) = {}  BY <2>3, <3>1 DEF HeadFits
    <3>3. Woken(d, j)  BY <3>2, NoneWoken
    <3>4. QED  BY <2>1, <3>3, WokenSame
  <2>4. QED  BY <2>2, <2>3
<1>5. AllWoken(e, <<>>)  BY <1>4 DEF AllWoken
<1>6. QED  BY <1>3, <1>5

LEMMA WokenStays ==
  ASSUME NEW I, Nested(I), NEW C, CalmBy(C), Settled0(db), AllAlong(I, db), AllWoken(db, <<>>), [Next]_vars,
         ~thrown'
  PROVE  AllAlong(I, db') /\ AllWoken(db', <<>>)
<1>1. db \in Db /\ AllFit(db)  BY DEF Settled0, Settle
<1>2. CASE Next
  <2>1. CASE CallsStep  BY <2>1, CallsWoken
  <2>2. CASE PlainStep
    <3>1. PICK i \in Instances : \E k \in Slots(db, i) :
            LeaseCase(db, db', i, k) \/ LapseCase(db, db', i, k) \/ ApproveCase(db, db', i, k)
      BY <2>2 DEF PlainStep, PlainCase
    <3>2. QED  BY <1>1, <3>1, PlainWoken
  <2>3. QED  BY <1>1, <1>2, <2>1, <2>2, NextSteps
<1>3. CASE UNCHANGED vars
  <2>1. db' = db  BY <1>3 DEF vars
  <2>2. QED  BY <2>1
<1>4. QED  BY <1>2, <1>3

(* The inductive invariant of the forks.                                    *)
Joined == Settled0(db) /\ AllWoken(db, <<>>) /\ \A I : Nested(I) => AllAlong(I, db)
JoinsInv == thrown \/ Joined

LEMMA JoinsInit ==
  ASSUME Init
  PROVE  JoinsInv
<1>1. Settled0(db)  BY SettleInit
<1>2. \A i \in Instances : db.inst[i] = "absent" /\ db.stages[i] = <<>>  BY DEF Init
<1>3. AllWoken(db, <<>>)  BY <1>2 DEF AllWoken, OpenInst
<1>4. \A i \in Instances : Slots(db, i) = {}  BY <1>2 DEF Slots
<1>5. \A I : AllAlong(I, db)  BY <1>4 DEF AllAlong
<1>6. QED  BY <1>1, <1>3, <1>5 DEF JoinsInv, Joined

LEMMA JoinsNext ==
  ASSUME Orderly, db \in Db, NEW I, Nested(I), JoinsInv, [Next]_vars
  PROVE  JoinsInv'
<1>1. PICK C : CalmBy(C) /\ ~LapseTogether  BY DEF Orderly
<1>2. CASE thrown
  <2>1. thrown'  BY <1>2, ThrownStays
  <2>2. QED  BY <2>1 DEF JoinsInv
<1>3. CASE ~thrown /\ ~thrown'
  <2>1. Settled0(db) /\ AllWoken(db, <<>>) /\ \A J : Nested(J) => AllAlong(J, db)
    BY <1>3 DEF JoinsInv, Joined
  <2>2. Settled0(db')  BY <1>1, <1>3, <2>1, SettleStays
  <2>3. AllWoken(db', <<>>)  BY <1>1, <1>3, <2>1, WokenStays
  <2>4. ASSUME NEW J, Nested(J) PROVE AllAlong(J, db')  BY <1>1, <1>3, <2>1, <2>4, WokenStays
  <2>5. QED  BY <2>2, <2>3, <2>4 DEF JoinsInv, Joined
<1>4. CASE thrown'  BY <1>4 DEF JoinsInv
<1>5. QED  BY <1>2, <1>3, <1>4

LEMMA JoinsWake ==
  ASSUME Joined
  PROVE  JoinsWillWake
<1>1. AllAtWork(db, <<>>) /\ AllWoken(db, <<>>)  BY DEF Joined, Settled0, Settle
<1>2. SUFFICES ASSUME NEW i \in Instances, db.inst[i] \in OpenInst, NEW t \in Live(db, i)
               PROVE  /\ t # Root => db.token[i][Front(t)] = "forked"
                      /\ db.token[i][t] = "forked" =>
                           \E n \in Range(ForkOf) :
                             /\ Branches(t, n) \subseteq Live(db, i)
                             /\ \E c \in Branches(t, n) : db.token[i][c] # "waiting_join"
  BY DEF JoinsWillWake, Branches, Branch
<1>3. TokensFit(db, i, {})
  <2>1. Fit(db, i, {}, {})  BY <1>1, <1>2, OpenFit
  <2>2. {} \cup {} = {}  OBVIOUS
  <2>3. QED  BY <2>1, <2>2 DEF Fit
<1>4. t # Root => db.token[i][Front(t)] = "forked"  BY <1>3 DEF TokensFit, Forked
<1>5. Woken(db, i)  BY <1>1, <1>2, AwaitsNone DEF AllWoken, Closing
<1>6. ASSUME db.token[i][t] = "forked"
      PROVE  \E n \in Range(ForkOf) :
               /\ Branches(t, n) \subseteq Live(db, i)
               /\ \E c \in Branches(t, n) : db.token[i][c] # "waiting_join"
  <2>1. PICK n \in GNodes : Wakes(db, i, t, n)  BY <1>5, <1>6 DEF Woken
  <2>2. Kind(n) = "fork"  BY <2>1 DEF Wakes
  <2>3. n \in Range(ForkOf)
    <3>1. PICK j \in DOMAIN ForkOf : ForkOf[j] = n  BY <2>2, GraphAssumption
    <3>2. QED  BY <3>1 DEF Range
  <2>4. QED  BY <2>1, <2>3 DEF Wakes
<1>7. QED  BY <1>4, <1>6

(* Where the graph is nested, no fork is forgotten: while an instance is    *)
(* open, every live token comes from a fork that is still open, and each    *)
(* open fork has all its branches under way, one of them not yet at the     *)
(* join, which is to bring the parent token back (advanceProcessToken).     *)
THEOREM EngineJoins ==
  ASSUME Orderly, NEW CONSTANT I, Nested(I)
  PROVE  Spec => [](~thrown => JoinsWillWake)
<1>1. Init => JoinsInv  BY JoinsInit
<1>2. db \in Db /\ JoinsInv /\ [Next]_vars => JoinsInv'  BY JoinsNext
<1>3. JoinsInv => (~thrown => JoinsWillWake)  BY JoinsWake DEF JoinsInv
<1>4. QED  BY <1>1, <1>2, <1>3, TypedAll, PTL DEF Spec

(***************************************************************************)
(* Part six: the families.  A stage that waits for a child has a running   *)
(* link or is about to get one, an open child has such a stage, and a child *)
(* that has ended has told its parent or is about to.                      *)
(***************************************************************************)
CallsOf(s) == {s[x] : x \in DOMAIN s}
Links(S, p, k) == \E c \in S : c.method = "link" /\ c.i = p /\ c.k = k
Tells(S, j) == \E c \in S : c.method = "parent" /\ c.i = j
Stops(S, j) == \E c \in S : Closes(c, j)

Waits(d, p, k) ==
  k \in Slots(d, p) /\ d.stages[p][k].kind = "subprocess" /\ d.stages[p][k].status = "waiting_external"
Ties(d, S, p, k) == Waits(d, p, k) /\ (d.stages[p][k].row = "running" \/ Links(S, p, k))

Subordinate(d) ==
  \A p \in Instances : \A k \in Slots(d, p) :
    d.stages[p][k].kind = "subprocess" => d.stages[p][k].status \in {"waiting_external"} \cup Ended
Told(d, S) ==
  \A p \in Instances : \A k \in RunningLinks(d, p) :
    d.inst[Child(d, p, k)] \in Ended => Tells(S, Child(d, p, k))
Linked(d, S) ==
  \A p \in Instances : \A k \in Slots(d, p) : Waits(d, p, k) => Stops(S, p) \/ Ties(d, S, p, k)
Parented(d, S) ==
  \A c \in Children : d.inst[c] \in OpenInst =>
    Stops(S, c) \/ \E p \in Instances : \E k \in Slots(d, p) : Ties(d, S, p, k) /\ Child(d, p, k) = c
Tied(d, S) == Subordinate(d) /\ Told(d, S) /\ Linked(d, S) /\ Parented(d, S)

(* The calls left owe what the calls made did.                              *)
Owes(S, Z, e) ==
  /\ \A p, k : Links(S, p, k) => Links(Z, p, k)
  /\ \A j \in Instances : Tells(S, j) => Tells(Z, j) \/ Unlinked(e, j) \/ e.inst[j] \notin Ended
  /\ \A j \in Instances : Stops(S, j) /\ e.inst[j] \in OpenInst => Stops(Z, j)

(* The subprocess stages of p are as they were.                             *)
Subs(d, e, p) ==
  \A k \in Slots(e, p) : e.stages[p][k].kind = "subprocess" =>
    /\ k \in Slots(d, p) /\ e.stages[p][k].status = d.stages[p][k].status
    /\ e.stages[p][k].row = "running" <=> d.stages[p][k].row = "running"
AllSubs(d, e) == \A p \in Instances : Subs(d, e, p)
(* The stages of d are there, of the kind they were.                        *)
StagesLast(d, e) == \A p \in Instances : \A k \in Slots(d, p) : k \in Slots(e, p) /\ Kept(d, e, p, k)

LEMMA WaitsOpen ==
  ASSUME NEW e, AllFit(e), NEW p \in Instances, NEW k, Waits(e, p, k)
  PROVE  e.inst[p] \in OpenInst
<1>1. StageFits(e, p, e.stages[p][k])  BY DEF AllFit, Fits, Waits
<1>2. e.stages[p][k].status \in OpenStage /\ e.stages[p][k].kind # "compensation"
  BY DEF Waits, OpenStage
<1>3. QED  BY <1>1, <1>2 DEF StageFits

LEMMA KeptStage ==
  ASSUME NEW d, NEW e, StagesLast(d, e), NEW p \in Instances, NEW k \in Slots(d, p)
  PROVE  /\ k \in Slots(e, p) /\ e.stages[p][k].kind = d.stages[p][k].kind
         /\ Child(e, p, k) = Child(d, p, k)
BY DEF StagesLast, Kept, Child

LEMMA GrowsStages ==
  ASSUME NEW d, NEW e, Grows(d, e)
  PROVE  StagesLast(d, e)
BY DEF Grows, GrowsAt, StagesLast

LEMMA GrownStage ==
  ASSUME NEW d, NEW e, Grows(d, e), NEW p \in Instances, NEW k \in Slots(d, p)
  PROVE  /\ k \in Slots(e, p) /\ e.stages[p][k].kind = d.stages[p][k].kind
         /\ Child(e, p, k) = Child(d, p, k)
BY GrowsStages, KeptStage

LEMMA ChildOfStage ==
  ASSUME NEW d \in Db, NEW p \in Instances, NEW k \in Slots(d, p), d.stages[p][k].kind = "subprocess"
  PROVE  Child(d, p, k) \in Instances /\ Child(d, p, k) \in Children
BY ChildIs

(* Calls that leave the subprocess stages alone.                            *)
LEMMA KeptTied ==
  ASSUME NEW d \in Db, NEW e \in Db, StagesLast(d, e), AllFit(e), NEW S, NEW Z, Tied(d, S), AllSubs(d, e),
         \A j \in Instances : e.inst[j] \in Ended => d.inst[j] \in Ended \/ Tells(Z, j),
         \A j \in Children : e.inst[j] \in OpenInst => d.inst[j] \in OpenInst,
         Owes(S, Z, e)
  PROVE  Tied(e, Z)
<1>1. ASSUME NEW p \in Instances, NEW k \in Slots(e, p), e.stages[p][k].kind = "subprocess"
      PROVE  /\ k \in Slots(d, p) /\ d.stages[p][k].kind = "subprocess"
             /\ e.stages[p][k].status = d.stages[p][k].status
             /\ e.stages[p][k].row = "running" <=> d.stages[p][k].row = "running"
             /\ Child(e, p, k) = Child(d, p, k) /\ Child(d, p, k) \in Instances
  <2>1. /\ k \in Slots(d, p) /\ e.stages[p][k].status = d.stages[p][k].status
        /\ e.stages[p][k].row = "running" <=> d.stages[p][k].row = "running"
    BY <1>1 DEF AllSubs, Subs
  <2>2. d.stages[p][k].kind = "subprocess" /\ Child(e, p, k) = Child(d, p, k)  BY <1>1, <2>1, KeptStage
  <2>3. QED  BY <2>1, <2>2, ChildOfStage
<1>2. Subordinate(e)  BY <1>1 DEF Tied, Subordinate
<1>3. Told(e, Z)
  <2>1. SUFFICES ASSUME NEW p \in Instances, NEW k \in RunningLinks(e, p), e.inst[Child(e, p, k)] \in Ended
                 PROVE  Tells(Z, Child(e, p, k))
    BY DEF Told
  <2>2. k \in Slots(e, p) /\ e.stages[p][k].kind = "subprocess" /\ e.stages[p][k].row = "running"
    BY DEF RunningLinks
  <2>3. k \in RunningLinks(d, p) /\ Child(e, p, k) = Child(d, p, k) /\ Child(d, p, k) \in Instances
    BY <1>1, <2>2 DEF RunningLinks
  <2>4. CASE d.inst[Child(d, p, k)] \in Ended  BY <2>1, <2>3, <2>4 DEF Tied, Told, Owes, Unlinked
  <2>5. CASE d.inst[Child(d, p, k)] \notin Ended  BY <2>1, <2>3, <2>5
  <2>6. QED  BY <2>4, <2>5
<1>4. ASSUME NEW p \in Instances, NEW k \in Slots(d, p), Ties(d, S, p, k) PROVE Ties(e, Z, p, k)
  <2>1. k \in Slots(e, p) /\ e.stages[p][k].kind = "subprocess"  BY <1>4, KeptStage DEF Ties, Waits
  <2>2. /\ e.stages[p][k].status = d.stages[p][k].status
        /\ e.stages[p][k].row = "running" <=> d.stages[p][k].row = "running"
    BY <1>1, <2>1
  <2>3. QED  BY <1>4, <2>1, <2>2 DEF Ties, Waits, Owes
<1>5. Linked(e, Z)
  <2>1. SUFFICES ASSUME NEW p \in Instances, NEW k \in Slots(e, p), Waits(e, p, k)
                 PROVE  Stops(Z, p) \/ Ties(e, Z, p, k)
    BY DEF Linked
  <2>2. Waits(d, p, k) /\ k \in Slots(d, p)  BY <1>1, <2>1 DEF Waits
  <2>3. e.inst[p] \in OpenInst  BY <2>1, WaitsOpen
  <2>4. Stops(S, p) \/ Ties(d, S, p, k)  BY <2>2 DEF Tied, Linked
  <2>5. QED  BY <1>4, <2>2, <2>3, <2>4 DEF Owes
<1>6. Parented(e, Z)
  <2>1. SUFFICES ASSUME NEW c \in Children, e.inst[c] \in OpenInst, ~Stops(Z, c)
                 PROVE  \E p \in Instances : \E k \in Slots(e, p) : Ties(e, Z, p, k) /\ Child(e, p, k) = c
    BY DEF Parented
  <2>2. c \in Instances  BY FamilyAssumption DEF Children
  <2>3. d.inst[c] \in OpenInst /\ ~Stops(S, c)  BY <2>1, <2>2 DEF Owes
  <2>4. PICK p \in Instances : \E k \in Slots(d, p) : Ties(d, S, p, k) /\ Child(d, p, k) = c
    BY <2>3 DEF Tied, Parented
  <2>5. PICK k \in Slots(d, p) : Ties(d, S, p, k) /\ Child(d, p, k) = c  BY <2>4
  <2>6. Ties(e, Z, p, k) /\ k \in Slots(e, p) /\ Child(e, p, k) = c  BY <1>4, <2>5, KeptStage
  <2>7. QED  BY <2>6
<1>7. QED  BY <1>2, <1>3, <1>5, <1>6 DEF Tied

LEMMA QuietTied ==
  ASSUME NEW d \in Db, NEW e \in Db, Grows(d, e), AllFit(e), NEW S, NEW Z, Tied(d, S), AllSubs(d, e),
         \A j \in Instances : e.inst[j] \in Ended => d.inst[j] \in Ended \/ Tells(Z, j),
         \A j \in Children : e.inst[j] \in OpenInst => d.inst[j] \in OpenInst,
         Owes(S, Z, e)
  PROVE  Tied(e, Z)
BY GrowsStages, KeptTied

(* What leaves the subprocess stages of i alone.                            *)
LEMMA SameSubs ==
  ASSUME NEW d, NEW e, NEW p, e.stages[p] = d.stages[p]
  PROVE  Subs(d, e, p)
BY DEF Subs, Slots

LEMMA StillSubs ==
  ASSUME NEW d, NEW e, Still(d, e)
  PROVE  AllSubs(d, e)
BY SameSubs DEF Still, Touches, Same, AllSubs

LEMMA OnlySubs ==
  ASSUME NEW d, NEW e, NEW i \in Instances, \A j \in Instances \ {i} : Same(d, e, j), Subs(d, e, i)
  PROVE  AllSubs(d, e)
<1>1. ASSUME NEW p \in Instances PROVE Subs(d, e, p)
  <2>1. CASE p = i  BY <2>1
  <2>2. CASE p # i
    <3>1. e.stages[p] = d.stages[p]  BY <2>2 DEF Same
    <3>2. QED  BY <3>1, SameSubs
  <2>3. QED  BY <2>1, <2>2
<1>2. QED  BY <1>1 DEF AllSubs

LEMMA AddedSubs ==
  ASSUME NEW d, NEW e, NEW i \in Instances, NEW st, Added(d, e, i, st), st.kind # "subprocess"
  PROVE  AllSubs(d, e)
<1>1. Subs(d, e, i)  BY DEF Added, Subs
<1>2. QED  BY <1>1, OnlySubs DEF Added, Touches

(* One stage of i changes, and it is no subprocess.                         *)
LEMMA PutSubs ==
  ASSUME NEW d, NEW e, NEW i \in Instances, \A j \in Instances \ {i} : Same(d, e, j),
         Slots(e, i) = Slots(d, i), NEW k, Kept(d, e, i, k), d.stages[i][k].kind # "subprocess",
         \A m \in Slots(d, i) : m # k => e.stages[i][m] = d.stages[i][m]
  PROVE  AllSubs(d, e)
<1>1. Subs(d, e, i)  BY DEF Subs, Kept
<1>2. QED  BY <1>1, OnlySubs

LEMMA TwiceSubs ==
  ASSUME NEW d, NEW b, NEW e, Grows(b, e), AllSubs(d, b), AllSubs(b, e)
  PROVE  AllSubs(d, e)
<1> SUFFICES ASSUME NEW p \in Instances, NEW k \in Slots(e, p), e.stages[p][k].kind = "subprocess"
             PROVE  /\ k \in Slots(d, p) /\ e.stages[p][k].status = d.stages[p][k].status
                    /\ e.stages[p][k].row = "running" <=> d.stages[p][k].row = "running"
  BY DEF AllSubs, Subs
<1>1. /\ k \in Slots(b, p) /\ e.stages[p][k].status = b.stages[p][k].status
      /\ e.stages[p][k].row = "running" <=> b.stages[p][k].row = "running"
  BY DEF AllSubs, Subs
<1>2. b.stages[p][k].kind = "subprocess"  BY <1>1, GrownStage
<1>3. QED  BY <1>1, <1>2 DEF AllSubs, Subs

(***************************************************************************)
(* What the calls left owe, and the token steps.                           *)
(***************************************************************************)
LEMMA OwesKeep ==
  ASSUME NEW c, c.method \notin {"link", "parent", "fail", "stop"}, NEW U, NEW Q, NEW e
  PROVE  Owes({c} \cup Q, U \cup Q, e)
BY DEF Owes, Links, Tells, Stops, Closes

StopsOn(c, U, e) == c.method \in {"fail", "stop"} /\ (e.inst[c.i] \in OpenInst => Stops(U, c.i))

LEMMA OwesStop ==
  ASSUME NEW c, NEW U, NEW Q, NEW e, StopsOn(c, U, e)
  PROVE  Owes({c} \cup Q, U \cup Q, e)
<1>1. \A p, k : Links({c} \cup Q, p, k) => Links(U \cup Q, p, k)  BY DEF Links, StopsOn
<1>2. \A j : Tells({c} \cup Q, j) => Tells(U \cup Q, j)  BY DEF Tells, StopsOn
<1>3. ASSUME NEW j \in Instances, Stops({c} \cup Q, j), e.inst[j] \in OpenInst PROVE Stops(U \cup Q, j)
  <2>1. PICK b \in {c} \cup Q : Closes(b, j)  BY <1>3 DEF Stops
  <2>2. CASE b = c
    <3>1. Stops(U, j)  BY <1>3, <2>1, <2>2 DEF Closes, StopsOn
    <3>2. QED  BY <3>1 DEF Stops
  <2>3. CASE b # c  BY <2>1, <2>3 DEF Stops
  <2>4. QED  BY <2>2, <2>3
<1>4. QED  BY <1>1, <1>2, <1>3 DEF Owes

(* A stage that waits is added: it is linked next, or its instance stops.   *)
LEMMA GrownTied ==
  ASSUME NEW d \in Db, NEW e \in Db, Grows(d, e), AllFit(e), NEW S, NEW Z, Tied(d, S),
         NEW i \in Instances, NEW l \in Slots(e, i), l \notin Slots(d, i),
         e.stages[i][l].kind = "subprocess", e.stages[i][l].status = "waiting_external",
         e.stages[i][l].row # "running", Stops(Z, i) \/ Links(Z, i, l),
         \A p \in Instances : \A k \in Slots(e, p) : k \in Slots(d, p) \/ (p = i /\ k = l),
         \A p \in Instances : \A k \in Slots(d, p) : e.stages[p][k] = d.stages[p][k],
         \A j \in Instances : e.inst[j] \in Ended => d.inst[j] \in Ended,
         \A j \in Children : e.inst[j] \in OpenInst =>
           d.inst[j] \in OpenInst \/ (j = Child(e, i, l) /\ Links(Z, i, l)),
         Owes(S, Z, e)
  PROVE  Tied(e, Z)
<1>1. ASSUME NEW p \in Instances, NEW k \in Slots(d, p)
      PROVE  k \in Slots(e, p) /\ e.stages[p][k] = d.stages[p][k] /\ Child(e, p, k) = Child(d, p, k)
  BY GrownStage
<1>2. Subordinate(e)
  <2>1. SUFFICES ASSUME NEW p \in Instances, NEW k \in Slots(e, p), e.stages[p][k].kind = "subprocess"
                 PROVE  e.stages[p][k].status \in {"waiting_external"} \cup Ended
    BY DEF Subordinate
  <2>2. CASE k \in Slots(d, p)  BY <1>1, <2>1, <2>2 DEF Tied, Subordinate
  <2>3. QED  BY <2>2
<1>3. Told(e, Z)
  <2>1. SUFFICES ASSUME NEW p \in Instances, NEW k \in RunningLinks(e, p), e.inst[Child(e, p, k)] \in Ended
                 PROVE  Tells(Z, Child(e, p, k))
    BY DEF Told
  <2>2. k \in Slots(e, p) /\ e.stages[p][k].kind = "subprocess" /\ e.stages[p][k].row = "running"
    BY DEF RunningLinks
  <2>3. k \in Slots(d, p)  BY <2>2
  <2>4. k \in RunningLinks(d, p) /\ Child(e, p, k) = Child(d, p, k)  BY <1>1, <2>2, <2>3 DEF RunningLinks
  <2>5. Child(d, p, k) \in Instances  BY <1>1, <2>2, <2>3, ChildOfStage
  <2>6. d.inst[Child(d, p, k)] \in Ended  BY <2>1, <2>4, <2>5
  <2>7. QED  BY <2>1, <2>4, <2>5, <2>6 DEF Tied, Told, Owes, Unlinked
<1>4. ASSUME NEW p \in Instances, NEW k \in Slots(d, p), Ties(d, S, p, k) PROVE Ties(e, Z, p, k)
  BY <1>1, <1>4 DEF Ties, Waits, Owes
<1>5. Linked(e, Z)
  <2>1. SUFFICES ASSUME NEW p \in Instances, NEW k \in Slots(e, p), Waits(e, p, k)
                 PROVE  Stops(Z, p) \/ Ties(e, Z, p, k)
    BY DEF Linked
  <2>2. CASE k \in Slots(d, p)
    <3>1. Waits(d, p, k)  BY <1>1, <2>1, <2>2 DEF Waits
    <3>2. e.inst[p] \in OpenInst  BY <2>1, WaitsOpen
    <3>3. Stops(S, p) \/ Ties(d, S, p, k)  BY <2>2, <3>1 DEF Tied, Linked
    <3>4. QED  BY <1>4, <2>2, <3>2, <3>3 DEF Owes
  <2>3. CASE p = i /\ k = l  BY <2>1, <2>3 DEF Ties
  <2>4. QED  BY <2>2, <2>3
<1>6. Parented(e, Z)
  <2>1. SUFFICES ASSUME NEW c \in Children, e.inst[c] \in OpenInst, ~Stops(Z, c)
                 PROVE  \E p \in Instances : \E k \in Slots(e, p) : Ties(e, Z, p, k) /\ Child(e, p, k) = c
    BY DEF Parented
  <2>2. c \in Instances  BY FamilyAssumption DEF Children
  <2>3. CASE d.inst[c] \in OpenInst
    <3>1. ~Stops(S, c)  BY <2>1, <2>2 DEF Owes
    <3>2. PICK p \in Instances : \E k \in Slots(d, p) : Ties(d, S, p, k) /\ Child(d, p, k) = c
      BY <2>3, <3>1 DEF Tied, Parented
    <3>3. PICK k \in Slots(d, p) : Ties(d, S, p, k) /\ Child(d, p, k) = c  BY <3>2
    <3>4. Ties(e, Z, p, k) /\ k \in Slots(e, p) /\ Child(e, p, k) = c  BY <1>1, <1>4, <3>3
    <3>5. QED  BY <3>4
  <2>4. CASE c = Child(e, i, l) /\ Links(Z, i, l)
    <3>1. Ties(e, Z, i, l)  BY <2>4 DEF Ties, Waits
    <3>2. QED  BY <2>4, <3>1
  <2>5. QED  BY <2>1, <2>3, <2>4
<1>7. QED  BY <1>2, <1>3, <1>5, <1>6 DEF Tied

LEMMA RefuseTied ==
  ASSUME NEW d \in Db, NEW e \in Db, Grows(d, e), AllFit(e), NEW S, NEW Q, Tied(d, S),
         NEW i \in Instances, d.inst[i] \in OpenInst, NEW t, NEW n, NEW u, RefuseCase(d, e, i, t, n, u),
         Owes(S, CallsOf(u) \cup Q, e)
  PROVE  Tied(e, CallsOf(u) \cup Q)
<1> DEFINE Z == CallsOf(u) \cup Q
<1>1. Stops(Z, i)
  <2>1. u = <<ToFail(i, "failed")>>  BY DEF RefuseCase
  <2>2. 1 \in DOMAIN u /\ u[1] = ToFail(i, "failed")  BY <2>1
  <2>3. Closes(u[1], i)  BY <2>2, CallsGive DEF Closes
  <2>4. QED  BY <2>2, <2>3 DEF Stops, CallsOf
<1>2. PICK st : Added(d, e, i, st) /\ Waiting(st, n, t)  BY DEF RefuseCase
<1> DEFINE l == NextSlot(d, i)
<1>3. /\ l \in Slots(e, i) /\ l \notin Slots(d, i) /\ e.stages[i][l] = st
      /\ \A k \in Slots(e, i) : k \in Slots(d, i) \/ k = l
      /\ \A k \in Slots(d, i) : e.stages[i][k] = d.stages[i][k]
      /\ \A j \in Instances \ {i} : Same(d, e, j)
  BY <1>2 DEF Added, Touches
<1>4. st.kind = "subprocess" /\ st.status = "waiting_external" /\ st.row = "none"  BY <1>2 DEF Waiting
<1>5. e.inst[i] = "waiting_external"  BY DEF RefuseCase, StandsAt
<1> HIDE DEF l, Z
<1>6. \A p \in Instances : \A k \in Slots(e, p) : k \in Slots(d, p) \/ (p = i /\ k = l)
  BY <1>3 DEF Same, Slots
<1>7. \A p \in Instances : \A k \in Slots(d, p) : e.stages[p][k] = d.stages[p][k]
  BY <1>3 DEF Same
<1>8. \A j \in Instances : e.inst[j] \in Ended => d.inst[j] \in Ended
  BY <1>3, <1>5 DEF Same, Ended
<1>9. \A j \in Children : e.inst[j] \in OpenInst => d.inst[j] \in OpenInst
  <2>1. Children \subseteq Instances  BY FamilyAssumption DEF Children
  <2>2. QED  BY <1>3, <2>1 DEF Same
<1>10. Owes(S, Z, e)  BY DEF Z
<1>11. Tied(e, Z)  BY <1>1, <1>3, <1>4, <1>6, <1>7, <1>8, <1>9, <1>10, GrownTied
<1>12. QED  BY <1>11 DEF Z

LEMMA BeginTied ==
  ASSUME NEW d \in Db, NEW e \in Db, Grows(d, e), AllFit(d), AllFit(e), NEW S, NEW Q, Tied(d, S),
         NEW i \in Instances, d.inst[i] \in OpenInst, NEW t, NEW n \in NodesOf[i], NEW u, BeginCase(d, e, i, t, n, u),
         Owes(S, CallsOf(u) \cup Q, e)
  PROVE  Tied(e, CallsOf(u) \cup Q)
<1> DEFINE Z == CallsOf(u) \cup Q
           l == NextSlot(d, i)
           c == ChildOf[n]
<1>1. Links(Z, i, l)
  <2>1. u = <<ToAdvance(c, Root, StartOf[c]), ToLink(i, l)>>  BY DEF BeginCase
  <2>2. 2 \in DOMAIN u /\ u[2] = ToLink(i, l)  BY <2>1
  <2>3. u[2].method = "link" /\ u[2].i = i /\ u[2].k = l  BY <2>2, CallsGive
  <2>4. QED  BY <2>2, <2>3 DEF Links, CallsOf
<1>2. PICK b \in Db, st \in StageSet : /\ Added(d, b, i, st) /\ Waiting(st, n, t)
                                       /\ StandsAt(b, i, "waiting_external") /\ Started(b, e, c)
  BY DEF BeginCase
<1>3. c \in Instances /\ c # i
  <2>1. n \in GNodes /\ Kind(n) = "subprocess"  BY GraphAssumption DEF BeginCase
  <2>2. c \in Instances  BY <2>1, FamilyAssumption
  <2>3. d.inst[c] = "absent"  BY DEF BeginCase
  <2>4. QED  BY <2>2, <2>3 DEF OpenInst
<1>4. /\ l \in Slots(b, i) /\ l \notin Slots(d, i) /\ b.stages[i][l] = st
      /\ \A k \in Slots(b, i) : k \in Slots(d, i) \/ k = l
      /\ \A k \in Slots(d, i) : b.stages[i][k] = d.stages[i][k]
      /\ \A j \in Instances \ {i} : Same(d, b, j)
  BY <1>2 DEF Added, Touches
<1>5. st.kind = "subprocess" /\ st.status = "waiting_external" /\ st.row = "none" /\ st.node = n
  BY <1>2 DEF Waiting
<1>6. /\ \A j \in Instances : e.stages[j] = b.stages[j]
      /\ \A j \in Instances \ {c} : e.inst[j] = b.inst[j]
      /\ e.inst[c] = "queued" /\ b.inst[i] = "waiting_external"
  BY <1>2 DEF Started, Touches, Same, StandsAt
<1> HIDE DEF l, Z, c
<1>7. /\ l \in Slots(e, i) /\ e.stages[i][l] = st
      /\ \A p \in Instances : \A k \in Slots(e, p) : k \in Slots(d, p) \/ (p = i /\ k = l)
      /\ \A p \in Instances : \A k \in Slots(d, p) : e.stages[p][k] = d.stages[p][k]
  BY <1>4, <1>6 DEF Same, Slots
<1>8. \A j \in Instances : e.inst[j] \in Ended => d.inst[j] \in Ended
  BY <1>3, <1>4, <1>6 DEF Same, Ended
<1>9. \A j \in Children : e.inst[j] \in OpenInst => d.inst[j] \in OpenInst \/ j = c
  <2>1. Children \subseteq Instances  BY FamilyAssumption DEF Children
  <2>2. QED  BY <1>3, <1>4, <1>6, <2>1 DEF Same
<1>10. Child(e, i, l) = c  BY <1>5, <1>7 DEF Child, c
<1>11. Owes(S, Z, e)  BY DEF Z
<1>12. Tied(e, Z)  BY <1>1, <1>4, <1>5, <1>7, <1>8, <1>9, <1>10, <1>11, GrownTied
<1>13. QED  BY <1>12 DEF Z

(* Nothing that the families are made of changes.                           *)
LEMMA SameTied ==
  ASSUME NEW d, NEW e, e.inst = d.inst, e.stages = d.stages, NEW S, Tied(d, S)
  PROVE  Tied(e, S)
BY DEF Tied, Subordinate, Told, Linked, Parented, Ties, Waits, RunningLinks, Child, Slots

(* A call for i that leaves the subprocess stages alone.                    *)
LEMMA QuietFor ==
  ASSUME NEW d \in Db, NEW e \in Db, Grows(d, e), AllFit(e), NEW S, NEW Z, Tied(d, S), AllSubs(d, e),
         NEW i \in Instances, d.inst[i] \in OpenInst, \A j \in Instances \ {i} : e.inst[j] = d.inst[j],
         e.inst[i] \in Ended => Tells(Z, i), Owes(S, Z, e)
  PROVE  Tied(e, Z)
<1>1. \A j \in Instances : e.inst[j] \in Ended => d.inst[j] \in Ended \/ Tells(Z, j)  OBVIOUS
<1>2. Children \subseteq Instances  BY FamilyAssumption DEF Children
<1>3. \A j \in Children : e.inst[j] \in OpenInst => d.inst[j] \in OpenInst  BY <1>2
<1>4. QED  BY <1>1, <1>3, QuietTied

(* Nothing changes at all.                                                  *)
LEMMA StillTied ==
  ASSUME NEW d \in Db, NEW e \in Db, Grows(d, e), AllFit(e), NEW S, NEW Z, Tied(d, S), Still(d, e), Owes(S, Z, e)
  PROVE  Tied(e, Z)
<1>1. \A j \in Instances : e.inst[j] = d.inst[j]  BY DEF Still, Touches, Same
<1>2. Children \subseteq Instances  BY FamilyAssumption DEF Children
<1>3. AllSubs(d, e)  BY StillSubs
<1>4. /\ \A j \in Instances : e.inst[j] \in Ended => d.inst[j] \in Ended \/ Tells(Z, j)
      /\ \A j \in Children : e.inst[j] \in OpenInst => d.inst[j] \in OpenInst
  BY <1>1, <1>2
<1>5. QED  BY <1>3, <1>4, QuietTied

LEMMA OpenNotEnded ==
  ASSUME NEW s \in OpenInst
  PROVE  s \notin Ended
BY DEF OpenInst, Ended

(* What a step of tokens does to the stages and to the other instances.     *)
TokenStep(d, e, i) ==
  /\ AllSubs(d, e) /\ \A j \in Instances \ {i} : e.inst[j] = d.inst[j]
  /\ e.inst[i] = d.inst[i]

LEMMA RetokenStep ==
  ASSUME NEW d, NEW e, NEW i \in Instances, Retokens(d, e, i)
  PROVE  TokenStep(d, e, i)
<1>1. (\A j \in Instances \ {i} : Same(d, e, j)) /\ e.stages[i] = d.stages[i] /\ e.inst[i] = d.inst[i]
  BY DEF Retokens, Touches
<1>2. Subs(d, e, i)  BY <1>1, SameSubs
<1>3. AllSubs(d, e)  BY <1>1, <1>2, OnlySubs
<1>4. QED  BY <1>1, <1>3 DEF TokenStep, Same

LEMMA SyncedSubs ==
  ASSUME NEW d, NEW e, NEW i \in Instances, Synced(d, e, i)
  PROVE  AllSubs(d, e) /\ \A j \in Instances \ {i} : e.inst[j] = d.inst[j]
<1>1. (\A j \in Instances \ {i} : Same(d, e, j)) /\ e.stages[i] = d.stages[i]
  BY DEF Synced, Touches
<1>2. Subs(d, e, i)  BY <1>1, SameSubs
<1>3. AllSubs(d, e)  BY <1>1, <1>2, OnlySubs
<1>4. QED  BY <1>1, <1>3 DEF Same

LEMMA EnterTied ==
  ASSUME NEW d \in Db, AllFit(d), NEW e \in Db, Grows(d, e), AllFit(e), NEW i \in Instances,
         d.inst[i] \in OpenInst, NEW t, NEW n \in NodesOf[i], NEW u, EnterCase(d, e, i, t, n, u),
         NEW S, NEW Q, Tied(d, S), Owes(S, CallsOf(u) \cup Q, e)
  PROVE  Tied(e, CallsOf(u) \cup Q)
<1> DEFINE Z == CallsOf(u) \cup Q
           Goal == Tied(e, Z)
<1>0. Owes(S, Z, e)  OBVIOUS
<1> HIDE DEF Z
<1>1. ASSUME AllSubs(d, e), \A j \in Instances \ {i} : e.inst[j] = d.inst[j],
             e.inst[i] \in OpenInst \/ Tells(Z, i)
      PROVE  Goal
  <2>1. e.inst[i] \in Ended => Tells(Z, i)  BY <1>1, OpenNotEnded
  <2>2. QED  BY <1>0, <1>1, <2>1, QuietFor
<1>2. ASSUME Still(d, e) PROVE Goal  BY <1>0, <1>2, StillTied
<1>3. ASSUME NEW st, Added(d, e, i, st), st.kind # "subprocess", e.inst[i] \in OpenInst PROVE Goal
  <2>1. AllSubs(d, e)  BY <1>3, AddedSubs
  <2>2. \A j \in Instances \ {i} : e.inst[j] = d.inst[j]  BY <1>3 DEF Added, Touches, Same
  <2>3. QED  BY <1>1, <1>3, <2>1, <2>2
<1>4. ASSUME NEW b \in Db, Retokens(d, b, i), Synced(b, e, i) PROVE Goal
  <2>1. TokenStep(d, b, i)  BY <1>4, RetokenStep
  <2>2. AllSubs(b, e) /\ \A j \in Instances \ {i} : e.inst[j] = b.inst[j]  BY <1>4, SyncedSubs
  <2>3. Grows(b, e)  BY <1>4 DEF Synced, Touches
  <2>4. AllSubs(d, e)  BY <2>1, <2>2, <2>3, TwiceSubs DEF TokenStep
  <2>5. e.inst[i] \in OpenInst  BY <1>4, <2>1 DEF Synced, TokenStep
  <2>6. QED  BY <1>1, <2>1, <2>2, <2>4, <2>5 DEF TokenStep
<1>5. ASSUME NEW b \in Db, Retokens(d, b, i), Retokens(b, e, i) PROVE Goal
  <2>1. TokenStep(d, b, i) /\ TokenStep(b, e, i)  BY <1>5, RetokenStep
  <2>2. Grows(b, e)  BY <1>5 DEF Retokens, Touches
  <2>3. AllSubs(d, e)  BY <2>1, <2>2, TwiceSubs DEF TokenStep
  <2>4. QED  BY <1>1, <2>1, <2>3 DEF TokenStep
<1>6. ASSUME PassCase(d, e, i, t, n, u) PROVE Goal  BY <1>2, <1>6 DEF PassCase
<1>7. ASSUME FailCase(d, e, i, n, u) PROVE Goal  BY <1>2, <1>7 DEF FailCase
<1>8. ASSUME QueueCase(d, e, i, t, n, u) PROVE Goal
  <2>1. PICK st \in StageSet, s \in {"queued", "waiting_approval", "waiting_external"} :
          /\ Added(d, e, i, st) /\ StandsAt(e, i, s)
          /\ st.kind \in {"agent", "http", "wait", "approval", "signal"}
    BY <1>8 DEF QueueCase
  <2>2. e.inst[i] \in OpenInst  BY <2>1 DEF StandsAt, OpenInst
  <2>3. QED  BY <1>3, <2>1, <2>2
<1>9. ASSUME RunCase(d, e, i, t, n, u) PROVE Goal
  <2>1. PICK st \in StageSet : Added(d, e, i, st) /\ st.kind = "internal"  BY <1>9 DEF RunCase
  <2>2. e.inst[i] \in OpenInst  BY <1>9 DEF RunCase
  <2>3. QED  BY <1>3, <2>1, <2>2
<1>10. ASSUME RefuseCase(d, e, i, t, n, u) PROVE Goal
  <2>1. Tied(e, CallsOf(u) \cup Q)  BY <1>10, RefuseTied
  <2>2. QED  BY <2>1 DEF Z
<1>11. ASSUME BeginCase(d, e, i, t, n, u) PROVE Goal
  <2>1. Tied(e, CallsOf(u) \cup Q)  BY <1>11, BeginTied
  <2>2. QED  BY <2>1 DEF Z
<1>12. ASSUME ForkCase(d, e, i, t, n, u) PROVE Goal
  <2>1. TokenStep(d, e, i)
    <3>1. Retokens(d, e, i)  BY <1>12 DEF ForkCase, Marked
    <3>2. QED  BY <3>1, RetokenStep
  <2>2. QED  BY <1>1, <2>1 DEF TokenStep
<1>13. ASSUME WaitCase(d, e, i, t, n, u) PROVE Goal  BY <1>4, <1>13 DEF WaitCase, TokenSet
<1>14. ASSUME MergeCase(d, e, i, t, n, u) PROVE Goal  BY <1>5, <1>14 DEF MergeCase, TokenSet, Marked
<1>15. ASSUME LeaveCase(d, e, i, t, n, u) PROVE Goal  BY <1>4, <1>15 DEF LeaveCase, TokenSet
<1>16. ASSUME CompleteCase(d, e, i, t, n, u) PROVE Goal
  <2>1. PICK b \in Db : Retokens(d, b, i) /\ Completes(b, e, i)  BY <1>16 DEF CompleteCase, TokenSet
  <2>2. TokenStep(d, b, i)  BY <2>1, RetokenStep
  <2>3. /\ \A j \in Instances \ {i} : Same(b, e, j)
        /\ Slots(e, i) = Slots(b, i) /\ Grows(b, e)
        /\ \A m \in Slots(b, i) :
             /\ e.stages[i][m].status = b.stages[i][m].status
             /\ e.stages[i][m].row = IF b.stages[i][m].row = "armed" THEN "skipped" ELSE b.stages[i][m].row
    BY <2>1 DEF Completes, Touches
  <2>4. Subs(b, e, i)  BY <2>3 DEF Subs
  <2>5. AllSubs(b, e)  BY <2>3, <2>4, OnlySubs
  <2>6. AllSubs(d, e)  BY <2>2, <2>3, <2>5, TwiceSubs DEF TokenStep
  <2>7. \A j \in Instances \ {i} : e.inst[j] = d.inst[j]  BY <2>2, <2>3 DEF TokenStep, Same
  <2>8. Tells(Z, i)
    <3>1. u = <<ToParent(i)>>  BY <1>16 DEF CompleteCase
    <3>2. 1 \in DOMAIN u /\ u[1] = ToParent(i)  BY <3>1
    <3>3. u[1].method = "parent" /\ u[1].i = i  BY <3>2, CallsGive
    <3>4. u[1] \in CallsOf(u)  BY <3>2 DEF CallsOf
    <3>5. QED  BY <3>3, <3>4 DEF Tells, Z
  <2>9. QED  BY <1>1, <2>6, <2>7, <2>8
<1> HIDE DEF Goal
<1>17. Goal
  BY <1>6, <1>7, <1>8, <1>9, <1>10, <1>11, <1>12, <1>13, <1>14, <1>15, <1>16 DEF EnterCase
<1>18. QED  BY <1>17 DEF Goal, Z

(* One subprocess stage changes: that of a link that comes or goes.         *)
OwesBut(S, Z, e, i, k) ==
  /\ \A p, m : Links(S, p, m) => Links(Z, p, m) \/ (p = i /\ m = k)
  /\ \A j \in Instances : Tells(S, j) => Tells(Z, j) \/ Unlinked(e, j) \/ e.inst[j] \notin Ended
  /\ \A j \in Instances : Stops(S, j) /\ e.inst[j] \in OpenInst => Stops(Z, j)

LEMMA ShiftTied ==
  ASSUME NEW d \in Db, NEW e \in Db, Grows(d, e), AllFit(e), NEW S, NEW Z, Tied(d, S),
         NEW i \in Instances, NEW k \in Slots(d, i), d.stages[i][k].kind = "subprocess",
         Slots(e, i) = Slots(d, i), \A m \in Slots(d, i) : m # k => e.stages[i][m] = d.stages[i][m],
         \A j \in Instances \ {i} : Same(d, e, j), e.inst[i] = d.inst[i],
         e.stages[i][k].status \in {"waiting_external"} \cup Ended,
         e.stages[i][k].row = "running" => d.stages[i][k].row = "running" \/ Tells(Z, Child(d, i, k)),
         Waits(e, i, k) => Stops(Z, i) \/ Ties(e, Z, i, k),
         d.inst[Child(d, i, k)] \in OpenInst => Stops(Z, Child(d, i, k)) \/ Ties(e, Z, i, k),
         OwesBut(S, Z, e, i, k)
  PROVE  Tied(e, Z)
<1>1. ASSUME NEW p \in Instances, NEW m \in Slots(e, p), ~(p = i /\ m = k)
      PROVE  /\ m \in Slots(d, p) /\ e.stages[p][m] = d.stages[p][m] /\ Child(e, p, m) = Child(d, p, m)
  BY <1>1 DEF Same, Slots, Child
<1>2. \A j \in Instances : e.inst[j] = d.inst[j]  BY DEF Same
<1>3. k \in Slots(e, i) /\ Child(e, i, k) = Child(d, i, k) /\ e.stages[i][k].kind = "subprocess"
  BY GrownStage
<1>4. Subordinate(e)
  <2>1. SUFFICES ASSUME NEW p \in Instances, NEW m \in Slots(e, p), e.stages[p][m].kind = "subprocess"
                 PROVE  e.stages[p][m].status \in {"waiting_external"} \cup Ended
    BY DEF Subordinate
  <2>2. CASE p = i /\ m = k  BY <2>2
  <2>3. CASE ~(p = i /\ m = k)  BY <1>1, <2>1, <2>3 DEF Tied, Subordinate
  <2>4. QED  BY <2>2, <2>3
<1>5. Told(e, Z)
  <2>1. SUFFICES ASSUME NEW p \in Instances, NEW m \in RunningLinks(e, p), e.inst[Child(e, p, m)] \in Ended
                 PROVE  Tells(Z, Child(e, p, m))
    BY DEF Told
  <2>2. m \in Slots(e, p) /\ e.stages[p][m].kind = "subprocess" /\ e.stages[p][m].row = "running"
    BY DEF RunningLinks
  <2>3. CASE m \in RunningLinks(d, p) /\ Child(e, p, m) = Child(d, p, m)
    <3>1. Child(d, p, m) \in Instances  BY <2>3, ChildOfStage DEF RunningLinks
    <3>2. Tells(S, Child(d, p, m))  BY <1>2, <2>1, <2>3, <3>1 DEF Tied, Told
    <3>3. QED  BY <2>1, <2>3, <3>1, <3>2 DEF OwesBut, Unlinked
  <2>4. CASE p = i /\ m = k /\ d.stages[i][k].row # "running"  BY <1>3, <2>2, <2>4
  <2>5. CASE p = i /\ m = k /\ d.stages[i][k].row = "running"  BY <1>3, <2>3, <2>5 DEF RunningLinks
  <2>6. CASE ~(p = i /\ m = k)
    <3>1. /\ m \in Slots(d, p) /\ e.stages[p][m] = d.stages[p][m] /\ Child(e, p, m) = Child(d, p, m)
      BY <1>1, <2>2, <2>6
    <3>2. m \in RunningLinks(d, p)  BY <2>2, <3>1 DEF RunningLinks
    <3>3. QED  BY <2>3, <3>1, <3>2
  <2>7. QED  BY <2>4, <2>5, <2>6
<1>6. ASSUME NEW p \in Instances, NEW m \in Slots(d, p), Ties(d, S, p, m), ~(p = i /\ m = k)
      PROVE  Ties(e, Z, p, m)
  <2>1. m \in Slots(e, p)  BY GrownStage
  <2>2. e.stages[p][m] = d.stages[p][m]  BY <1>1, <1>6, <2>1
  <2>3. QED  BY <1>6, <2>1, <2>2 DEF Ties, Waits, OwesBut
<1>7. Linked(e, Z)
  <2>1. SUFFICES ASSUME NEW p \in Instances, NEW m \in Slots(e, p), Waits(e, p, m)
                 PROVE  Stops(Z, p) \/ Ties(e, Z, p, m)
    BY DEF Linked
  <2>2. CASE p = i /\ m = k  BY <2>1, <2>2
  <2>3. CASE ~(p = i /\ m = k)
    <3>1. m \in Slots(d, p) /\ Waits(d, p, m)  BY <1>1, <2>1, <2>3 DEF Waits
    <3>2. Stops(S, p) \/ Ties(d, S, p, m)  BY <3>1 DEF Tied, Linked
    <3>3. e.inst[p] \in OpenInst  BY <2>1, WaitsOpen
    <3>4. QED  BY <1>6, <2>3, <3>1, <3>2, <3>3 DEF OwesBut
  <2>4. QED  BY <2>2, <2>3
<1>8. Parented(e, Z)
  <2>1. SUFFICES ASSUME NEW c \in Children, e.inst[c] \in OpenInst, ~Stops(Z, c)
                 PROVE  \E p \in Instances : \E m \in Slots(e, p) : Ties(e, Z, p, m) /\ Child(e, p, m) = c
    BY DEF Parented
  <2>2. c \in Instances  BY FamilyAssumption DEF Children
  <2>3. d.inst[c] \in OpenInst /\ ~Stops(S, c)  BY <1>2, <2>1, <2>2 DEF OwesBut
  <2>4. PICK p \in Instances : \E m \in Slots(d, p) : Ties(d, S, p, m) /\ Child(d, p, m) = c
    BY <2>3 DEF Tied, Parented
  <2>5. PICK m \in Slots(d, p) : Ties(d, S, p, m) /\ Child(d, p, m) = c  BY <2>4
  <2>6. m \in Slots(e, p) /\ Child(e, p, m) = c  BY <2>5, GrownStage
  <2>7. CASE p = i /\ m = k  BY <2>1, <2>3, <2>5, <2>6, <2>7
  <2>8. CASE ~(p = i /\ m = k)  BY <1>6, <2>5, <2>6, <2>8
  <2>9. QED  BY <2>7, <2>8
<1>9. QED  BY <1>4, <1>5, <1>7, <1>8 DEF Tied

LEMMA OwesAlso ==
  ASSUME NEW S, NEW Z, NEW e, Owes(S, Z, e), NEW i, NEW k
  PROVE  OwesBut(S, Z, e, i, k)
BY DEF Owes, OwesBut

(* i ends, or begins to compensate.                                         *)
LEMMA FinishTied ==
  ASSUME NEW d \in Db, NEW e \in Db, Grows(d, e), AllFit(e), NEW S, NEW Z, Tied(d, S),
         NEW i \in Instances, NEW at \in {"compensating"} \cup Ended, NEW closed \in Ended,
         Finishes(d, e, i, at, closed), RunningLinks(d, i) = {}, \A k : ~Ties(d, S, i, k),
         at \in Ended => Tells(Z, i), Owes(S, Z, e)
  PROVE  Tied(e, Z)
<1>1. /\ \A j \in Instances \ {i} : Same(d, e, j)
      /\ e.inst[i] = at /\ Slots(e, i) = Slots(d, i)
      /\ \A m \in Slots(d, i) :
           /\ Kept(d, e, i, m) /\ e.stages[i][m].row = d.stages[i][m].row
           /\ e.stages[i][m].status =
                IF d.stages[i][m].status \in OpenStage THEN closed ELSE d.stages[i][m].status
  BY DEF Finishes, Touches, StandsAt
<1>2. e.inst[i] \notin OpenInst  BY <1>1 DEF OpenInst, Ended
<1>3. ASSUME NEW p \in Instances, NEW m \in Slots(e, p), p # i
      PROVE  m \in Slots(d, p) /\ e.stages[p][m] = d.stages[p][m] /\ Child(e, p, m) = Child(d, p, m)
  BY <1>1, <1>3 DEF Same, Slots, Child
<1>4. Subordinate(e)
  <2>1. SUFFICES ASSUME NEW p \in Instances, NEW m \in Slots(e, p), e.stages[p][m].kind = "subprocess"
                 PROVE  e.stages[p][m].status \in {"waiting_external"} \cup Ended
    BY DEF Subordinate
  <2>2. CASE p # i  BY <1>3, <2>1, <2>2 DEF Tied, Subordinate
  <2>3. CASE p = i  BY <1>1, <2>1, <2>3 DEF Tied, Subordinate, Kept
  <2>4. QED  BY <2>2, <2>3
<1>5. Told(e, Z)
  <2>1. SUFFICES ASSUME NEW p \in Instances, NEW m \in RunningLinks(e, p), e.inst[Child(e, p, m)] \in Ended
                 PROVE  Tells(Z, Child(e, p, m))
    BY DEF Told
  <2>2. m \in Slots(e, p) /\ e.stages[p][m].kind = "subprocess" /\ e.stages[p][m].row = "running"
    BY DEF RunningLinks
  <2>3. p # i  BY <1>1, <2>2 DEF RunningLinks, Kept
  <2>4. m \in RunningLinks(d, p) /\ Child(e, p, m) = Child(d, p, m)  BY <1>3, <2>2, <2>3 DEF RunningLinks
  <2>5. Child(d, p, m) \in Instances  BY <2>4, ChildOfStage DEF RunningLinks
  <2>6. CASE Child(d, p, m) = i  BY <1>1, <2>1, <2>4, <2>6
  <2>7. CASE Child(d, p, m) # i
    <3>1. d.inst[Child(d, p, m)] \in Ended  BY <1>1, <2>1, <2>4, <2>5, <2>7 DEF Same
    <3>2. Tells(S, Child(d, p, m))  BY <2>4, <3>1 DEF Tied, Told
    <3>3. QED  BY <2>1, <2>4, <2>5, <3>2 DEF Owes, Unlinked
  <2>8. QED  BY <2>6, <2>7
<1>6. ASSUME NEW p \in Instances, NEW m \in Slots(d, p), Ties(d, S, p, m)
      PROVE  Ties(e, Z, p, m)
  <2>1. p # i  BY <1>6
  <2>2. m \in Slots(e, p) /\ e.stages[p][m] = d.stages[p][m]  BY <1>1, <2>1 DEF Same, Slots
  <2>3. QED  BY <1>6, <2>2 DEF Ties, Waits, Owes
<1>7. Linked(e, Z)
  <2>1. SUFFICES ASSUME NEW p \in Instances, NEW m \in Slots(e, p), Waits(e, p, m)
                 PROVE  Stops(Z, p) \/ Ties(e, Z, p, m)
    BY DEF Linked
  <2>2. e.inst[p] \in OpenInst /\ p # i  BY <1>2, <2>1, WaitsOpen
  <2>3. m \in Slots(d, p) /\ Waits(d, p, m)  BY <1>3, <2>1, <2>2 DEF Waits
  <2>4. Stops(S, p) \/ Ties(d, S, p, m)  BY <2>3 DEF Tied, Linked
  <2>5. QED  BY <1>6, <2>2, <2>3, <2>4 DEF Owes
<1>8. Parented(e, Z)
  <2>1. SUFFICES ASSUME NEW c \in Children, e.inst[c] \in OpenInst, ~Stops(Z, c)
                 PROVE  \E p \in Instances : \E m \in Slots(e, p) : Ties(e, Z, p, m) /\ Child(e, p, m) = c
    BY DEF Parented
  <2>2. c \in Instances /\ c # i  BY <1>2, <2>1, FamilyAssumption DEF Children
  <2>3. d.inst[c] \in OpenInst /\ ~Stops(S, c)  BY <1>1, <2>1, <2>2 DEF Owes, Same
  <2>4. PICK p \in Instances : \E m \in Slots(d, p) : Ties(d, S, p, m) /\ Child(d, p, m) = c
    BY <2>3 DEF Tied, Parented
  <2>5. PICK m \in Slots(d, p) : Ties(d, S, p, m) /\ Child(d, p, m) = c  BY <2>4
  <2>6. m \in Slots(e, p) /\ Child(e, p, m) = c /\ Ties(e, Z, p, m)  BY <1>6, <2>5, GrownStage
  <2>7. QED  BY <2>6
<1>9. QED  BY <1>4, <1>5, <1>7, <1>8 DEF Tied

(***************************************************************************)
(* The families, call by call.                                             *)
(***************************************************************************)
LEMMA CallsOfAre ==
  /\ CallsOf(<<>>) = {}
  /\ \A a : CallsOf(<<a>>) = {a}
  /\ \A a, b : CallsOf(<<a, b>>) = {a, b}
<1>1. CallsOf(<<>>) = {}
  <2>1. DOMAIN <<>> = {}  OBVIOUS
  <2>2. QED  BY <2>1 DEF CallsOf
<1>2. ASSUME NEW a PROVE CallsOf(<<a>>) = {a}
  <2> DEFINE s == <<a>>
  <2>1. DOMAIN s = {1} /\ s[1] = a  OBVIOUS
  <2> HIDE DEF s
  <2>2. CallsOf(s) = {a}  BY <2>1 DEF CallsOf
  <2>3. QED  BY <2>2 DEF s
<1>3. ASSUME NEW a, NEW b PROVE CallsOf(<<a, b>>) = {a, b}
  <2> DEFINE s == <<a, b>>
  <2>1. DOMAIN s = {1, 2} /\ s[1] = a /\ s[2] = b  OBVIOUS
  <2> HIDE DEF s
  <2>2. CallsOf(s) = {a, b}  BY <2>1 DEF CallsOf
  <2>3. QED  BY <2>2 DEF s
<1>4. QED  BY <1>1, <1>2, <1>3

LEMMA TellsBy ==
  ASSUME NEW i, NEW Z, ToParent(i) \in Z
  PROVE  Tells(Z, i)
BY CallsGive DEF Tells

LEMMA StopsBy ==
  ASSUME NEW i, NEW s, NEW Z, ToFail(i, s) \in Z \/ ToStop(i, s) \in Z
  PROVE  Stops(Z, i)
BY CallsGive DEF Stops, Closes

(* Every instance stays open or not.                                        *)
LEMMA QuietSame ==
  ASSUME NEW d \in Db, NEW e \in Db, Grows(d, e), AllFit(e), NEW S, NEW Z, Tied(d, S), AllSubs(d, e),
         \A j \in Instances : e.inst[j] = d.inst[j], Owes(S, Z, e)
  PROVE  Tied(e, Z)
<1>1. Children \subseteq Instances  BY FamilyAssumption DEF Children
<1>2. /\ \A j \in Instances : e.inst[j] \in Ended => d.inst[j] \in Ended \/ Tells(Z, j)
      /\ \A j \in Children : e.inst[j] \in OpenInst => d.inst[j] \in OpenInst
  BY <1>1
<1>3. QED  BY <1>2, QuietTied

LEMMA DetachTied ==
  ASSUME NEW d \in Db, NEW e \in Db, Grows(d, e), AllFit(e), NEW i \in Instances, NEW s, NEW u,
         DetachCase(d, e, i, s, u), NEW S, NEW Q, Tied(d, S), Owes(S, CallsOf(u) \cup Q, e)
  PROVE  Tied(e, CallsOf(u) \cup Q)
<1> DEFINE Z == CallsOf(u) \cup Q
<1>1. PICK k \in RunningLinks(d, i) :
        RowSet(d, e, i, k, "cancelled") /\ u = <<ToFail(Child(d, i, k), "cancelled"), ToStop(i, s)>>
  BY DEF DetachCase, Child
<1>2. ToFail(Child(d, i, k), "cancelled") \in Z /\ ToStop(i, s) \in Z  BY <1>1, CallsOfAre
<1>3. Owes(S, Z, e)  OBVIOUS
<1> HIDE DEF Z
<1>4. Stops(Z, i) /\ Stops(Z, Child(d, i, k))  BY <1>2, StopsBy
<1>5. k \in Slots(d, i) /\ d.stages[i][k].kind = "subprocess"  BY DEF RunningLinks
<1>6. /\ Slots(e, i) = Slots(d, i) /\ e.inst[i] = d.inst[i]
      /\ \A m \in Slots(d, i) : m # k => e.stages[i][m] = d.stages[i][m]
      /\ \A j \in Instances \ {i} : Same(d, e, j)
      /\ e.stages[i][k].status = d.stages[i][k].status /\ e.stages[i][k].row = "cancelled"
  BY <1>1 DEF RowSet, Restages, Touches
<1>7. e.stages[i][k].status \in {"waiting_external"} \cup Ended  BY <1>5, <1>6 DEF Tied, Subordinate
<1>8. e.stages[i][k].row # "running"  BY <1>6
<1>9. OwesBut(S, Z, e, i, k)  BY <1>3, OwesAlso
<1>10. Tied(e, Z)  BY <1>4, <1>5, <1>6, <1>7, <1>8, <1>9, ShiftTied
<1>11. QED  BY <1>10 DEF Z

(* No call is left that will link a child to i.                             *)
Linkless(S, i) == \A k : ~Links(S, i, k)

LEMMA StopTied ==
  ASSUME NEW d \in Db, NEW e \in Db, Grows(d, e), AllFit(e), NEW i \in Instances,
         NEW s, s \in {"failed", "cancelled"}, NEW u, StopCase(d, e, i, s, u),
         NEW S, NEW Q, Linkless(S, i), Tied(d, S), Owes(S, CallsOf(u) \cup Q, e)
  PROVE  Tied(e, CallsOf(u) \cup Q)
<1>1. CASE DetachCase(d, e, i, s, u)  BY <1>1, DetachTied
<1>2. CASE RunningLinks(d, i) = {} /\ ~DetachCase(d, e, i, s, u)
  <2>1. \A k : ~Ties(d, S, i, k)  BY <1>2 DEF Ties, Waits, RunningLinks, Linkless
  <2>2. CASE CompensateCase(d, e, i, s, u)
    <3>1. Finishes(d, e, i, "compensating", "cancelled")  BY <2>2 DEF CompensateCase
    <3>2. "compensating" \notin Ended /\ "cancelled" \in Ended  BY DEF Ended
    <3>3. QED  BY <1>2, <2>1, <3>1, <3>2, FinishTied
  <2>3. CASE FinalCase(d, e, i, s, u)
    <3>1. Finishes(d, e, i, s, s) /\ u = <<ToParent(i)>>  BY <2>3 DEF FinalCase
    <3>2. s \in Ended  BY DEF Ended
    <3>3. ToParent(i) \in CallsOf(u) \cup Q  BY <3>1, CallsOfAre
    <3>4. Tells(CallsOf(u) \cup Q, i)  BY <3>3, TellsBy
    <3>5. QED  BY <1>2, <2>1, <3>1, <3>2, <3>4, FinishTied
  <2>4. QED  BY <1>2, <2>2, <2>3 DEF StopCase
<1>3. QED  BY <1>1, <1>2 DEF StopCase

LEMMA FailTied ==
  ASSUME NEW d \in Db, NEW e \in Db, Grows(d, e), AllFit(e), NEW i \in Instances, NEW s, NEW u,
         FailsCase(d, e, i, s, u), NEW S, NEW Q, Tied(d, S), Owes(S, CallsOf(u) \cup Q, e)
  PROVE  Tied(e, CallsOf(u) \cup Q)
<1>1. CASE Still(d, e)  BY <1>1, StillTied
<1>2. CASE Quiesced(d, e, i)
  <2>1. /\ \A j \in Instances \ {i} : Same(d, e, j)
        /\ e.inst[i] = d.inst[i] /\ Slots(e, i) = Slots(d, i)
        /\ \A m \in Slots(d, i) :
             /\ e.stages[i][m].status = d.stages[i][m].status
             /\ e.stages[i][m].row = IF d.stages[i][m].row = "waiting" THEN "cancelled" ELSE d.stages[i][m].row
    BY <1>2 DEF Quiesced, Touches
  <2>2. Subs(d, e, i)  BY <2>1 DEF Subs
  <2>3. AllSubs(d, e)  BY <2>1, <2>2, OnlySubs
  <2>4. \A j \in Instances : e.inst[j] = d.inst[j]  BY <2>1 DEF Same
  <2>5. QED  BY <2>3, <2>4, QuietSame
<1>3. QED  BY <1>1, <1>2 DEF FailsCase

(* The next compensation, or the end.                                       *)
LEMMA NextTied ==
  ASSUME NEW d \in Db, AllFit(d), NEW e \in Db, Grows(d, e), AllFit(e), NEW i \in Instances,
         d.inst[i] \notin OpenInst, NEW u, NextCase(d, e, i, u),
         NEW S, NEW Q, Tied(d, S), Owes(S, CallsOf(u) \cup Q, e)
  PROVE  Tied(e, CallsOf(u) \cup Q)
<1>1. CASE UndoCase(d, e, i, u)
  <2>1. PICK k \in Armed(d, i) : Undoes(d, e, i, k)  BY <1>1 DEF UndoCase
  <2> DEFINE l == NextSlot(d, i)
  <2>2. /\ \A j \in Instances \ {i} : Same(d, e, j)
        /\ e.inst[i] = d.inst[i] /\ Slots(e, i) = Slots(d, i) \cup {l}
        /\ \A m \in Slots(d, i) :
             /\ e.stages[i][m].status = d.stages[i][m].status
             /\ e.stages[i][m].row = IF m = k THEN "queued" ELSE d.stages[i][m].row
        /\ e.stages[i][l].kind = "compensation"
    BY <2>1 DEF Undoes, Touches
  <2>3. d.stages[i][k].row = "armed"  BY DEF Armed
  <2> HIDE DEF l
  <2>4. Subs(d, e, i)  BY <2>2, <2>3 DEF Subs
  <2>5. AllSubs(d, e)  BY <2>2, <2>4, OnlySubs
  <2>6. \A j \in Instances : e.inst[j] = d.inst[j]  BY <2>2 DEF Same
  <2>7. QED  BY <2>5, <2>6, QuietSame
<1>2. ASSUME NEW s \in {"failed", "cancelled"}, FinalCase(d, e, i, s, u) PROVE Tied(e, CallsOf(u) \cup Q)
  <2>1. Finishes(d, e, i, s, s) /\ u = <<ToParent(i)>>  BY <1>2 DEF FinalCase
  <2>2. s \in Ended  BY DEF Ended
  <2>3. ToParent(i) \in CallsOf(u) \cup Q  BY <2>1, CallsOfAre
  <2>4. Tells(CallsOf(u) \cup Q, i)  BY <2>3, TellsBy
  <2>5. RunningLinks(d, i) = {}  BY LinkedIs
  <2>6. \A k : ~Ties(d, S, i, k)  BY WaitsOpen DEF Ties
  <2>7. QED  BY <2>1, <2>2, <2>4, <2>5, <2>6, FinishTied
<1>3. QED  BY <1>1, <1>2 DEF NextCase

LEMMA SyncTied ==
  ASSUME NEW d \in Db, AllFit(d), NEW e \in Db, Grows(d, e), AllFit(e), NEW i \in Instances, Synced(d, e, i),
         NEW S, NEW Z, Tied(d, S), Owes(S, Z, e)
  PROVE  Tied(e, Z)
<1>1. AllSubs(d, e) /\ \A j \in Instances \ {i} : e.inst[j] = d.inst[j]  BY SyncedSubs
<1>2. CASE d.inst[i] \in OpenInst
  <2>1. e.inst[i] \in OpenInst  BY <1>2 DEF Synced
  <2>2. e.inst[i] \notin Ended  BY <2>1, OpenNotEnded
  <2>3. QED  BY <1>1, <1>2, <2>2, QuietFor
<1>3. CASE d.inst[i] \notin OpenInst
  <2>1. e.inst[i] = d.inst[i]
    <3>1. d.inst[i] \in Ended \cup {"compensating", "absent"}  BY <1>3 DEF Db, InstStatus
    <3>2. CASE d.inst[i] \in Ended \cup {"compensating"}  BY <3>2 DEF Synced, Same
    <3>3. CASE d.inst[i] = "absent"
      <4>1. d.stages[i] = <<>> /\ Live(d, i) = {}  BY <1>3, <3>3 DEF AllFit, Fits, HeadFits
      <4>2. InStatus(d, i, OpenStage) = {}  BY <4>1 DEF InStatus, Slots
      <4>3. QED  BY <4>1, <4>2 DEF Synced
    <3>4. QED  BY <3>1, <3>2, <3>3
  <2>2. \A j \in Instances : e.inst[j] = d.inst[j]  BY <1>1, <2>1
  <2>3. QED  BY <1>1, <2>2, QuietSame
<1>4. QED  BY <1>2, <1>3

(* A lease is given back: its stage is no subprocess.                       *)
LEMMA GiveTied ==
  ASSUME NEW d \in Db, AllFit(d), NEW e \in Db, Grows(d, e), AllFit(e), NEW i \in Instances,
         NEW k \in Slots(d, i), d.stages[i][k].status = "running", EffectFits(d, i, d.stages[i][k]),
         NEW u, GiveBackCase(d, e, i, k, u), NEW S, NEW Z, Tied(d, S), Owes(S, Z, e)
  PROVE  Tied(e, Z)
<1>1. d.stages[i][k].kind # "subprocess"  BY DEF Tied, Subordinate, Ended
<1>2. StageFits(d, i, d.stages[i][k]) /\ "running" \in OpenStage  BY DEF AllFit, Fits, OpenStage
<1>3. /\ d.stages[i][k].kind = "compensation" => d.inst[i] = "compensating"
      /\ d.stages[i][k].kind # "compensation" => d.inst[i] \in OpenInst
  BY <1>2 DEF StageFits
<1>4. ASSUME NEW b, NEW at, Restood(d, b, i, k, "queued", at) \/ Restood(d, b, i, k, "failed", at)
      PROVE  /\ AllSubs(d, b) /\ b.inst[i] = at /\ \A j \in Instances \ {i} : b.inst[j] = d.inst[j]
  <2>1. /\ \A j \in Instances \ {i} : Same(d, b, j)
        /\ Slots(b, i) = Slots(d, i) /\ Kept(d, b, i, k) /\ b.inst[i] = at
        /\ \A m \in Slots(d, i) : m # k => b.stages[i][m] = d.stages[i][m]
    BY <1>4 DEF Restood, Touches, StandsAt
  <2>2. AllSubs(d, b)  BY <1>1, <2>1, PutSubs
  <2>3. QED  BY <2>1, <2>2 DEF Same
<1>5. CASE AgainCase(d, e, i, k, u)
  <2> DEFINE at == IF d.stages[i][k].kind = "compensation" THEN "compensating" ELSE "queued"
  <2>1. Restood(d, e, i, k, "queued", at)  BY <1>5 DEF AgainCase
  <2>2. AllSubs(d, e) /\ e.inst[i] = at /\ \A j \in Instances \ {i} : e.inst[j] = d.inst[j]  BY <1>4, <2>1
  <2>3. CASE d.stages[i][k].kind = "compensation"
    <3>1. e.inst[i] = d.inst[i]  BY <1>3, <2>2, <2>3
    <3>2. \A j \in Instances : e.inst[j] = d.inst[j]  BY <2>2, <3>1
    <3>3. QED  BY <2>2, <3>2, QuietSame
  <2>4. CASE d.stages[i][k].kind # "compensation"
    <3>1. e.inst[i] \notin Ended  BY <2>2, <2>4 DEF Ended
    <3>2. QED  BY <1>3, <2>2, <2>4, <3>1, QuietFor
  <2>5. QED  BY <2>3, <2>4
<1>6. CASE GiveUpCase(d, e, i, k, u)
  <2>1. d.stages[i][k].kind = "compensation"  BY <1>6 DEF GiveUpCase
  <2>2. PICK b \in Db :
          /\ Restood(d, b, i, k, "failed", "compensating")
          /\ IF d.stages[i][k].of \in Slots(d, i) THEN RowSet(b, e, i, d.stages[i][k].of, "failed") ELSE e = b
    BY <1>6 DEF GiveUpCase
  <2>3. /\ AllSubs(d, b) /\ b.inst[i] = "compensating"
        /\ \A j \in Instances \ {i} : b.inst[j] = d.inst[j]
    BY <1>4, <2>2
  <2> DEFINE l == d.stages[i][k].of
  <2>4. l \in Slots(d, i) /\ d.stages[i][l].kind = "http"  BY <2>1 DEF EffectFits, UndoFits
  <2>5. RowSet(b, e, i, l, "failed")  BY <2>2, <2>4
  <2>6. Slots(b, i) = Slots(d, i) /\ b.stages[i][l].kind = "http"
    BY <2>1, <2>2, <2>4 DEF Restood, Kept
  <2> HIDE DEF l
  <2>7. /\ \A j \in Instances \ {i} : Same(b, e, j)
        /\ Slots(e, i) = Slots(b, i) /\ Kept(b, e, i, l) /\ e.inst[i] = b.inst[i]
        /\ \A m \in Slots(b, i) : m # l => e.stages[i][m] = b.stages[i][m]
        /\ Grows(b, e)
    BY <2>5 DEF RowSet, Restages, Touches
  <2>8. AllSubs(b, e)
    <3>1. b.stages[i][l].kind # "subprocess"  BY <2>6
    <3>2. QED  BY <2>7, <3>1, PutSubs
  <2>9. AllSubs(d, e)  BY <2>3, <2>7, <2>8, TwiceSubs
  <2>10. \A j \in Instances : e.inst[j] = d.inst[j]  BY <1>3, <2>1, <2>3, <2>7 DEF Same
  <2>11. QED  BY <2>9, <2>10, QuietSame
<1>7. CASE FailBackCase(d, e, i, k, u)
  <2>1. /\ \A j \in Instances \ {i} : Same(d, e, j)
        /\ Slots(e, i) = Slots(d, i) /\ Kept(d, e, i, k) /\ e.inst[i] = d.inst[i]
        /\ \A m \in Slots(d, i) : m # k => e.stages[i][m] = d.stages[i][m]
    BY <1>7 DEF FailBackCase, StatusSet, Restages, Touches
  <2>2. AllSubs(d, e)  BY <1>1, <2>1, PutSubs
  <2>3. \A j \in Instances : e.inst[j] = d.inst[j]  BY <2>1 DEF Same
  <2>4. QED  BY <2>2, <2>3, QuietSame
<1>8. QED  BY <1>5, <1>6, <1>7 DEF GiveBackCase

(* The link is made, and the child that ended meanwhile is heard.           *)
LEMMA LinkTied ==
  ASSUME NEW d \in Db, NEW e \in Db, Grows(d, e), AllFit(e), NEW i \in Instances, NEW k \in Slots(d, i),
         d.stages[i][k].kind = "subprocess", d.stages[i][k].status = "waiting_external",
         NEW u, LinkCase(d, e, i, k, u), NEW S, NEW Q, Tied(d, S), OwesBut(S, CallsOf(u) \cup Q, e, i, k)
  PROVE  Tied(e, CallsOf(u) \cup Q)
<1> DEFINE Z == CallsOf(u) \cup Q
<1>1. RowSet(d, e, i, k, "running") /\ u = <<ToParent(Child(d, i, k))>>  BY DEF LinkCase
<1>2. ToParent(Child(d, i, k)) \in Z  BY <1>1, CallsOfAre
<1>3. OwesBut(S, Z, e, i, k)  OBVIOUS
<1> HIDE DEF Z
<1>4. Tells(Z, Child(d, i, k))  BY <1>2, TellsBy
<1>5. /\ Slots(e, i) = Slots(d, i) /\ e.inst[i] = d.inst[i] /\ Kept(d, e, i, k)
      /\ \A m \in Slots(d, i) : m # k => e.stages[i][m] = d.stages[i][m]
      /\ \A j \in Instances \ {i} : Same(d, e, j)
      /\ e.stages[i][k].status = "waiting_external" /\ e.stages[i][k].row = "running"
  BY <1>1 DEF RowSet, Restages, Touches
<1>6. Ties(e, Z, i, k)  BY <1>5 DEF Ties, Waits, Kept
<1>7. Tied(e, Z)  BY <1>3, <1>4, <1>5, <1>6, ShiftTied
<1>8. QED  BY <1>7 DEF Z

(* A link of a child is its only one.                                       *)
LEMMA OneLink ==
  ASSUME NEW d \in Db, AllFit(d), LinksOnce(d), NEW p \in Instances, NEW k \in RunningLinks(d, p),
         NEW e, Slots(e, p) = Slots(d, p), \A m \in Slots(d, p) : m # k => e.stages[p][m] = d.stages[p][m],
         \A j \in Instances \ {p} : Same(d, e, j), e.stages[p][k].row # "running"
  PROVE  Unlinked(e, Child(d, p, k))
<1>1. SUFFICES ASSUME NEW q \in Instances, NEW m \in RunningLinks(e, q), Child(e, q, m) = Child(d, p, k)
               PROVE  FALSE
  BY DEF Unlinked
<1>2. ~(q = p /\ m = k)  BY <1>1 DEF RunningLinks
<1>3. m \in RunningLinks(d, q) /\ Child(e, q, m) = Child(d, q, m)
  <2>1. CASE q = p  BY <1>1, <1>2, <2>1 DEF RunningLinks, Child
  <2>2. CASE q # p
    <3>1. e.stages[q] = d.stages[q]  BY <2>2 DEF Same
    <3>2. QED  BY <1>1, <3>1 DEF RunningLinks, Child, Slots
  <2>3. QED  BY <2>1, <2>2
<1>4. Child(d, p, k) \in Kids(p) /\ Child(d, p, k) \in Kids(q)  BY <1>1, <1>3, LinkedIs
<1>5. p = q  BY <1>4, KidsAre
<1>6. m = k  BY <1>1, <1>3, <1>5 DEF LinksOnce
<1>7. QED  BY <1>2, <1>5, <1>6

(* The parent hears of its child's end.                                     *)
LEMMA ParentTied ==
  ASSUME NEW d \in Db, AllFit(d), LinksOnce(d), NEW e \in Db, Grows(d, e), AllFit(e), NEW c, NEW i \in Instances,
         c.method = "parent", c.i = i, NEW u, ParentCase(d, e, i, u),
         NEW Q, Tied(d, {c} \cup Q)
  PROVE  Tied(e, CallsOf(u) \cup Q)
<1> DEFINE S == {c} \cup Q  Z == CallsOf(u) \cup Q
<1>1. /\ \A p, k : Links(S, p, k) => Links(Z, p, k)
      /\ \A j : Tells(S, j) => Tells(Z, j) \/ j = i
      /\ \A j : Stops(S, j) => Stops(Z, j)
  BY DEF Links, Tells, Stops, Closes
<1>2. Tied(d, S)  OBVIOUS
<1> HIDE DEF S, Z
<1>3. ASSUME Unlinked(e, i) \/ e.inst[i] \notin Ended PROVE Owes(S, Z, e)  BY <1>1, <1>3 DEF Owes
<1>4. ASSUME Unlinked(d, i) \/ d.inst[i] \notin Ended, Still(d, e) PROVE Tied(e, Z)
  <2>1. \A j \in Instances : Same(d, e, j)  BY <1>4 DEF Still, Touches
  <2>2. Unlinked(d, i) => Unlinked(e, i)  BY <2>1 DEF Unlinked, RunningLinks, Child, Slots, Same
  <2>3. e.inst[i] = d.inst[i]  BY <2>1 DEF Same
  <2>4. Owes(S, Z, e)  BY <1>3, <1>4, <2>2, <2>3
  <2>5. QED  BY <1>2, <1>4, <2>4, StillTied
<1>5. ASSUME NEW p \in Instances, NEW k \in RunningLinks(d, p), Child(d, p, k) = i, d.inst[i] \in Ended,
             UnlinkCase(d, e, p, k, u) \/ ResumeCase(d, e, i, p, k, u) \/ ToppleCase(d, e, i, p, k, u)
      PROVE  Tied(e, Z)
  <2>1. d.inst[p] \in OpenInst  BY LinkedIs
  <2>2. PICK r \in Ended, s \in Ended : Settled(d, e, p, k, r, s)
    BY <1>5, <2>1 DEF UnlinkCase, ResumeCase, ToppleCase, Ended
  <2>3. k \in Slots(d, p) /\ d.stages[p][k].kind = "subprocess"  BY DEF RunningLinks
  <2>4. /\ Slots(e, p) = Slots(d, p) /\ e.inst[p] = d.inst[p]
        /\ \A m \in Slots(d, p) : m # k => e.stages[p][m] = d.stages[p][m]
        /\ \A j \in Instances \ {p} : Same(d, e, j)
        /\ e.stages[p][k].status = s /\ e.stages[p][k].row = r
    BY <2>2 DEF Settled, Restages, Touches
  <2>5. e.stages[p][k].row # "running" /\ ~Waits(e, p, k)  BY <2>4 DEF Ended, Waits
  <2>6. Unlinked(e, i)  BY <1>5, <2>4, <2>5, OneLink
  <2>7. OwesBut(S, Z, e, p, k)  BY <1>3, <2>6, OwesAlso
  <2>8. d.inst[Child(d, p, k)] \notin OpenInst  BY <1>5, OpenNotEnded
  <2>9. e.stages[p][k].status \in {"waiting_external"} \cup Ended  BY <2>4
  <2>10. QED  BY <1>2, <2>3, <2>4, <2>5, <2>7, <2>8, <2>9, ShiftTied
<1>6. Tied(e, Z)  BY <1>4, <1>5 DEF ParentCase
<1>7. QED  BY <1>6 DEF Z

(* What the call at hand leaves to those that follow.                       *)
LEMMA FailOwes ==
  ASSUME NEW d, NEW e, NEW c, c.method = "fail", NEW u, FailsCase(d, e, c.i, c.s, u), c.i \in Instances, NEW Q
  PROVE  Owes({c} \cup Q, CallsOf(u) \cup Q, e)
<1>1. e.inst[c.i] \in OpenInst => Stops(CallsOf(u), c.i)
  <2>1. CASE d.inst[c.i] \notin OpenInst /\ Still(d, e)  BY <2>1 DEF Still, Touches, Same
  <2>2. CASE u = <<ToStop(c.i, c.s)>>
    <3>1. ToStop(c.i, c.s) \in CallsOf(u)  BY <2>2, CallsOfAre
    <3>2. QED  BY <3>1, StopsBy
  <2>3. QED  BY <2>1, <2>2 DEF FailsCase
<1> DEFINE U == CallsOf(u)
<1>2. c.method \in {"fail", "stop"}  OBVIOUS
<1>3. StopsOn(c, U, e)  BY <1>1, <1>2 DEF StopsOn
<1> HIDE DEF U
<1>4. Owes({c} \cup Q, U \cup Q, e)  BY <1>3, OwesStop
<1>5. QED  BY <1>4 DEF U

LEMMA StopOwes ==
  ASSUME NEW d, NEW e, NEW c, c.method = "stop", c.s \in {"failed", "cancelled"}, NEW u,
         StopCase(d, e, c.i, c.s, u), NEW Q
  PROVE  Owes({c} \cup Q, CallsOf(u) \cup Q, e)
<1> DEFINE i == c.i  s == c.s
<1>1. e.inst[i] \in OpenInst => Stops(CallsOf(u), i)
  <2>1. CASE DetachCase(d, e, i, s, u)
    <3>1. PICK k \in RunningLinks(d, i) : u = <<ToFail(ChildOf[d.stages[i][k].node], "cancelled"), ToStop(i, s)>>
      BY <2>1 DEF DetachCase
    <3>2. ToStop(i, s) \in CallsOf(u)  BY <3>1, CallsOfAre
    <3>3. QED  BY <3>2, StopsBy
  <2>2. CASE CompensateCase(d, e, i, s, u)
    <3>1. e.inst[i] = "compensating"  BY <2>2 DEF CompensateCase, Finishes, StandsAt
    <3>2. QED  BY <3>1 DEF OpenInst
  <2>3. CASE FinalCase(d, e, i, s, u)
    <3>1. e.inst[i] = s  BY <2>3 DEF FinalCase, Finishes, StandsAt
    <3>2. QED  BY <3>1 DEF OpenInst
  <2>4. QED  BY <2>1, <2>2, <2>3 DEF StopCase
<1> DEFINE U == CallsOf(u)
<1>2. c.method \in {"fail", "stop"}  OBVIOUS
<1>3. StopsOn(c, U, e)  BY <1>1, <1>2 DEF StopsOn
<1> HIDE DEF U
<1>4. Owes({c} \cup Q, U \cup Q, e)  BY <1>3, OwesStop
<1>5. QED  BY <1>4 DEF U

LEMMA LinkOwes ==
  ASSUME NEW c, c.method = "link", NEW U, NEW Q, NEW e
  PROVE  OwesBut({c} \cup Q, U \cup Q, e, c.i, c.k)
BY DEF OwesBut, Links, Tells, Stops, Closes

LEMMA StepTied ==
  ASSUME NEW d \in Db, AllFit(d), NEW c, CallOK(d, c), Each(d, c), NEW e \in Db, AllFit(e),
         NEW u, StepCase(d, e, c, u), NEW Q, Tied(d, {c} \cup Q)
  PROVE  Tied(e, CallsOf(u) \cup Q)
<1> DEFINE i == c.i  t == c.t  n == c.n  b == Entered(d, c.i, c.t)  S == {c} \cup Q
<1>1. c.method = "advance" /\ d.moves[i] # MaxMoves /\ EnterCase(b, e, i, t, n, u)  BY DEF StepCase
<1>2. i \in Instances /\ t \in Token /\ n \in GNodes  BY <1>1, CallFields DEF CallOK
<1>3. n \in NodesOf[i] /\ d.inst[i] \in OpenInst  BY <1>1 DEF Each, Going
<1>4. Moved(d, b, i, t)  BY <1>1, <1>2, MovedIs
<1>5. b.inst = d.inst /\ b.stages = d.stages  BY <1>1, <1>2, EnteredIs
<1>6. Owes(S, CallsOf(u) \cup Q, e)
  <2>1. c.method \notin {"link", "parent", "fail", "stop"}  BY <1>1
  <2>2. QED  BY <2>1, OwesKeep
<1>7. Tied(d, S)  OBVIOUS
<1> HIDE DEF b, i, t, n, S
<1>8. b \in Db  BY <1>4 DEF Moved
<1>9. AllFit(b) /\ b.inst[i] \in OpenInst  BY <1>2, <1>3, <1>4, MovedFits
<1>10. Tied(b, S)  BY <1>5, <1>7, SameTied
<1>11. Grows(b, e)
  <2>1. Gives(b, e, u)  BY <1>1, <1>2, <1>8, EnterGives
  <2>2. QED  BY <2>1 DEF Gives
<1>12. QED  BY <1>1, <1>2, <1>3, <1>6, <1>8, <1>9, <1>10, <1>11, EnterTied

(* Whatever call is made.                                                   *)
LEMMA CallTied ==
  ASSUME NEW d \in Db, AllFit(d), LinksOnce(d), NEW c, CallOK(d, c), Each(d, c),
         NEW e \in Db, Grows(d, e), AllFit(e), NEW u, CallCase(d, e, c, u), NEW Q, Tied(d, {c} \cup Q),
         c.method = "stop" => Linkless({c} \cup Q, c.i),
         c.method = "giveback" => EffectFits(d, c.i, d.stages[c.i][c.k])
  PROVE  Tied(e, CallsOf(u) \cup Q)
<1> DEFINE i == c.i  S == {c} \cup Q  Z == CallsOf(u) \cup Q  Goal == Tied(e, Z)
<1>1. c \in Calls /\ Tied(d, S)  BY DEF CallOK
<1>2. i \in Instances  BY <1>1, CallFields
<1>3. ASSUME c.method \notin {"link", "parent", "fail", "stop"} PROVE Owes(S, Z, e)
  BY <1>3, OwesKeep
<1> HIDE DEF i, S
<1>4. ASSUME SpentCase(d, e, c, u) PROVE Goal
  <2>1. c.method = "advance" /\ Still(d, e)  BY <1>4 DEF SpentCase
  <2>2. Owes(S, Z, e)  BY <1>3, <2>1
  <2>3. QED  BY <1>1, <2>1, <2>2, StillTied
<1>5. ASSUME StepCase(d, e, c, u) PROVE Goal  BY <1>5, StepTied
<1>6. ASSUME c.method = "fail", FailsCase(d, e, i, c.s, u) PROVE Goal
  <2>1. Owes(S, Z, e)  BY <1>2, <1>6, FailOwes DEF i, S
  <2>2. QED  BY <1>1, <1>2, <1>6, <2>1, FailTied
<1>7. ASSUME c.method = "stop", StopCase(d, e, i, c.s, u) PROVE Goal
  <2>1. c.s \in {"failed", "cancelled"}  BY <1>1, <1>7, CallFields
  <2>2. Owes(S, Z, e)  BY <1>7, <2>1, StopOwes DEF i, S
  <2>3. Linkless(S, i)  BY <1>7 DEF i, S
  <2>4. StopCase(d, e, i, c.s, u)  BY <1>7
  <2>5. QED  BY <1>1, <1>2, <2>1, <2>2, <2>3, <2>4, StopTied
<1>8. ASSUME c.method = "compensate", NextCase(d, e, i, u) PROVE Goal
  <2>1. d.inst[i] \notin OpenInst  BY <1>8 DEF Each, OpenInst, i
  <2>2. Owes(S, Z, e)  BY <1>3, <1>8
  <2>3. QED  BY <1>1, <1>2, <1>8, <2>1, <2>2, NextTied
<1>9. ASSUME c.method = "parent", ParentCase(d, e, i, u) PROVE Goal
  BY <1>2, <1>9, ParentTied DEF i
<1>10. ASSUME c.method = "link", LinkCase(d, e, i, c.k, u) PROVE Goal
  <2>1. /\ c.k \in Slots(d, i) /\ d.stages[i][c.k].kind = "subprocess"
        /\ d.stages[i][c.k].status = "waiting_external"
    BY <1>10 DEF Each, LinkReady, i
  <2>2. OwesBut(S, Z, e, i, c.k)  BY <1>10, LinkOwes DEF i, S
  <2>3. QED  BY <1>1, <1>2, <1>10, <2>1, <2>2, LinkTied
<1>11. ASSUME c.method = "sync", Synced(d, e, i) PROVE Goal
  <2>1. Owes(S, Z, e)  BY <1>3, <1>11
  <2>2. QED  BY <1>1, <1>2, <1>11, <2>1, SyncTied
<1>12. ASSUME c.method = "giveback", GiveBackCase(d, e, i, c.k, u) PROVE Goal
  <2>1. c.k \in Slots(d, i) /\ d.stages[i][c.k].status = "running"  BY <1>12 DEF Each, i
  <2>2. Owes(S, Z, e)  BY <1>3, <1>12
  <2>3. EffectFits(d, i, d.stages[i][c.k])  BY <1>12 DEF i
  <2>4. QED  BY <1>1, <1>2, <1>12, <2>1, <2>2, <2>3, GiveTied
<1> HIDE DEF Goal
<1>13. Goal
  BY <1>4, <1>5, <1>6, <1>7, <1>8, <1>9, <1>10, <1>11, <1>12 DEF CallCase, i
<1>14. QED  BY <1>13 DEF Goal

LEMMA CallsOfThen ==
  ASSUME NEW z, NEW u, NEW R, IsConcat(z, u, R)
  PROVE  CallsOf(z) = CallsOf(u) \cup CallsOf(R)
<1>1. ASSUME NEW c \in CallsOf(z) PROVE c \in CallsOf(u) \cup CallsOf(R)
  <2>1. PICK x \in DOMAIN z : c = z[x]  BY <1>1 DEF CallsOf
  <2>2. CASE x \in DOMAIN u  BY <2>1, <2>2 DEF IsConcat, CallsOf
  <2>3. CASE x \notin DOMAIN u
    <3>1. PICK y \in DOMAIN R : x = Len(u) + y  BY <2>1, <2>3 DEF IsConcat
    <3>2. z[x] = R[y]  BY <3>1 DEF IsConcat
    <3>3. QED  BY <2>1, <3>1, <3>2 DEF CallsOf
  <2>4. QED  BY <2>2, <2>3
<1>2. CallsOf(u) \subseteq CallsOf(z)  BY DEF IsConcat, CallsOf
<1>3. CallsOf(R) \subseteq CallsOf(z)  BY DEF IsConcat, CallsOf
<1>4. QED  BY <1>1, <1>2, <1>3

LEMMA CallsOfHead ==
  ASSUME NEW s \in Seq(Calls), s # <<>>
  PROVE  CallsOf(s) = {Head(s)} \cup CallsOf(Tail(s))
<1>1. 1 \in DOMAIN s /\ s[1] = Head(s)  BY HeadOf
<1>2. /\ \A x \in DOMAIN s : x # 1 => x - 1 \in DOMAIN Tail(s) /\ Tail(s)[x - 1] = s[x]
      /\ \A x \in DOMAIN Tail(s) : x + 1 \in DOMAIN s /\ Tail(s)[x] = s[x + 1]
  BY RestIs
<1>3. CallsOf(s) \subseteq {Head(s)} \cup CallsOf(Tail(s))  BY <1>1, <1>2 DEF CallsOf
<1>4. {Head(s)} \cup CallsOf(Tail(s)) \subseteq CallsOf(s)  BY <1>1, <1>2 DEF CallsOf
<1>5. QED  BY <1>3, <1>4

(* Nothing is left to link to an instance that stops.                       *)
LEMMA NoLinkAfter ==
  ASSUME NEW C, NEW d, NEW s \in Seq(Calls), s # <<>>, InOrder(C, d, s), Head(s).method = "stop",
         NEW k, Links(CallsOf(s), Head(s).i, k)
  PROVE  FALSE
<1> DEFINE c == Head(s)
<1>1. 1 \in DOMAIN s /\ s[1] = c /\ c \in Calls /\ \A x \in DOMAIN s : x # 1 => 1 < x  BY HeadOf
<1>2. PICK b \in CallsOf(s) : b.method = "link" /\ b.i = c.i  BY DEF Links
<1>3. PICK x \in DOMAIN s : b = s[x]  BY DEF CallsOf
<1>4. x # 1  BY <1>1, <1>2, <1>3
<1>5. Before(C, d, c, b)  BY <1>1, <1>3, <1>4 DEF InOrder
<1>6. Guarded(d, c.i, c.i)  BY <1>2, <1>5 DEF Before
<1>7. c.i \in Instances  BY <1>1, CallFields
<1>8. QED  BY <1>6, <1>7, KidsAre DEF Guarded

(* One call more, of the whole handler.                                     *)
LEMMA TiedStep ==
  ASSUME NEW C, NEW m \in Machines, m.todo # <<>>, Sound(C, m.db, m.todo), AllEven(m.db, m.todo),
         Tied(m.db, CallsOf(m.todo)), NEW n, StepsTo(m, n), Sound(C, n.db, n.todo)
  PROVE  Tied(n.db, CallsOf(n.todo))
<1> DEFINE d == m.db  s == m.todo  c == Head(s)
<1>1. d \in Db /\ s \in Seq(Calls) /\ s # <<>>  BY DEF Machines
<1>2. PICK e, u : /\ CallCase(d, e, c, u) /\ Gives(d, e, u) /\ CallOK(d, c)
                  /\ AllOK(e, Tail(s)) /\ n = Do(e, u \o Tail(s))
  BY DEF StepsTo
<1> DEFINE z == u \o Tail(s)  Q == CallsOf(Tail(s))
<1>3. n.db = e /\ n.todo = z  BY <1>2 DEF Do
<1>4. AllOK(e, u) /\ e \in Db /\ Grows(d, e)  BY <1>2 DEF Gives
<1>5. IsConcat(z, u, Tail(s))  BY <1>2, <1>4, AllThen
<1>6. AllFit(d) /\ LinksOnce(d) /\ InOrder(C, d, s) /\ AllEven(d, s)  BY DEF Sound
<1>7. AllFit(e)  BY <1>3 DEF Sound
<1>8. CallsOf(s) = {c} \cup Q /\ CallsOf(z) = CallsOf(u) \cup Q  BY <1>1, <1>5, CallsOfHead, CallsOfThen
<1>9. Tied(d, {c} \cup Q)  BY <1>8
<1> HIDE DEF d, s, z
<1>10. 1 \in DOMAIN s /\ s[1] = c /\ c \in Calls  BY <1>1, HeadOf
<1>11. Each(d, c)  BY <1>6, <1>10 DEF InOrder
<1>12. c.method = "stop" => Linkless({c} \cup Q, c.i)  BY <1>1, <1>6, <1>8, NoLinkAfter DEF Linkless
<1>13. c.method = "giveback" => EffectFits(d, c.i, d.stages[c.i][c.k])
  <2>1. c.i \in Instances  BY <1>10, CallFields
  <2>2. EffectsFit(d, c.i, Undoing(s, c.i))  BY <1>6, <2>1 DEF AllEven
  <2>3. QED  BY <1>11, <2>2 DEF Each, EffectsFit
<1> HIDE DEF c, Q
<1>14. Tied(e, CallsOf(u) \cup Q)
  BY <1>1, <1>2, <1>4, <1>6, <1>7, <1>9, <1>11, <1>12, <1>13, CallTied DEF c
<1>15. QED  BY <1>3, <1>8, <1>14

(***************************************************************************)
(* The families, handler by handler.                                       *)
(***************************************************************************)
LEMMA NothingOwed ==
  ASSUME NEW Z, NEW e
  PROVE  Owes({}, Z, e)
BY DEF Owes, Links, Tells, Stops

(* What somebody works on, or a signal waits for, is no subprocess.         *)
LEMMA WorkedOn ==
  ASSUME NEW d \in Db, Subordinate(d), NEW i \in Instances, NEW k \in Slots(d, i),
         d.stages[i][k].status \in {"queued", "running", "waiting_approval"} \/ d.stages[i][k].row = "waiting"
  PROVE  d.stages[i][k].kind # "subprocess"
<1>1. d.stages[i][k] \in StageSet  BY DEF Db, Slots
<1>2. d.stages[i][k].row = "waiting" => d.stages[i][k].kind = "signal"  BY <1>1 DEF StageSet, StageOK
<1>3. ASSUME d.stages[i][k].status \in {"queued", "running", "waiting_approval"}
      PROVE  d.stages[i][k].status \notin {"waiting_external"} \cup Ended
  BY <1>3 DEF Ended
<1>4. QED  BY <1>2, <1>3 DEF Subordinate

LEMMA EndsSubs ==
  ASSUME NEW d \in Db, NEW e, NEW i \in Instances, NEW k, d.stages[i][k].kind # "subprocess",
         NEW r, NEW s, Ends(d, e, i, k, r, s)
  PROVE  AllSubs(d, e)
<1>1. /\ \A j \in Instances \ {i} : Same(d, e, j)
      /\ Slots(e, i) = Slots(d, i) /\ Kept(d, e, i, k)
      /\ \A m \in Slots(d, i) : m # k => e.stages[i][m] = d.stages[i][m]
  BY DEF Ends, Touches
<1>2. QED  BY <1>1, PutSubs

LEMMA UndoneSubs ==
  ASSUME NEW d \in Db, Calm(d), NEW e, NEW i \in Instances, NEW k \in Slots(d, i),
         d.stages[i][k].kind = "compensation", UndoEnds(d, e, i, k, "completed")
  PROVE  AllSubs(d, e)
<1>1. PICK b \in Db : /\ Ends(d, b, i, k, d.stages[i][k].row, "completed")
                      /\ e = b \/ RowSet(b, e, i, d.stages[i][k].of, "completed")
  BY DEF UndoEnds
<1>2. AllSubs(d, b)  BY <1>1, EndsSubs
<1>3. CASE e = b  BY <1>2, <1>3
<1>4. CASE RowSet(b, e, i, d.stages[i][k].of, "completed")
  <2> DEFINE l == d.stages[i][k].of
  <2>1. EffectsFit(d, i, FALSE)  BY CalmAt
  <2>2. l \in Slots(d, i) /\ d.stages[i][l].kind = "http"
    BY <2>1 DEF EffectsFit, EffectFits, UndoFits
  <2>3. RowSet(b, e, i, l, "completed")  BY <1>4
  <2> HIDE DEF l
  <2>4. b.stages[i][l].kind = "http"
    <3>1. CASE l = k  BY <1>1, <2>2, <3>1 DEF Ends, Kept
    <3>2. CASE l # k  BY <1>1, <2>2, <3>2 DEF Ends
    <3>3. QED  BY <3>1, <3>2
  <2>5. /\ \A j \in Instances \ {i} : Same(b, e, j)
        /\ Slots(e, i) = Slots(b, i) /\ Kept(b, e, i, l) /\ Grows(b, e)
        /\ \A m \in Slots(b, i) : m # l => e.stages[i][m] = b.stages[i][m]
    BY <2>3 DEF RowSet, Restages, Touches
  <2>6. AllSubs(b, e)
    <3>1. b.stages[i][l].kind # "subprocess"  BY <2>4
    <3>2. QED  BY <2>5, <3>1, PutSubs
  <2>7. QED  BY <1>2, <2>5, <2>6, TwiceSubs
<1>5. QED  BY <1>1, <1>3, <1>4

LEMMA RevokeSubs ==
  ASSUME NEW d, Calm(d), NEW e, NEW u, NEW i \in Instances, Revokes(d, e, u, i)
  PROVE  AllSubs(d, e)
<1>0. d \in Db /\ AllFit(d)  BY DEF Calm, Settle
<1>1. \A j \in Instances \ {i} : Same(d, e, j)  BY <1>0, RevokesAre DEF Touches
<1>2. ASSUME NEW a, LetGoes(d, a, i)
      PROVE  /\ Slots(a, i) = Slots(d, i)
             /\ \A k \in Slots(d, i) :
                  /\ a.stages[i][k].kind = d.stages[i][k].kind /\ a.stages[i][k].status = d.stages[i][k].status
                  /\ a.stages[i][k].row = "running" <=> d.stages[i][k].row = "running"
  BY <1>2 DEF LetGoes, Restages, Kept, Freed
<1>3. CASE LetGoes(d, e, i)
  <2>1. Subs(d, e, i)  BY <1>2, <1>3 DEF Subs
  <2>2. QED  BY <1>1, <2>1, OnlySubs
<1>4. ASSUME NEW a, d.inst[i] = "compensating", LetGoes(d, a, i), FinalCase(a, e, i, "cancelled", u)
      PROVE  AllSubs(d, e)
  <2>1. /\ Slots(e, i) = Slots(a, i)
        /\ \A k \in Slots(a, i) :
             /\ e.stages[i][k].kind = a.stages[i][k].kind /\ e.stages[i][k].row = a.stages[i][k].row
             /\ a.stages[i][k].status \notin OpenStage => e.stages[i][k].status = a.stages[i][k].status
    BY <1>4 DEF FinalCase, Finishes, Kept
  <2>2. "compensating" \notin OpenInst  BY DEF OpenInst
  <2>3. \A k \in Slots(d, i) : d.stages[i][k].kind = "subprocess" => d.stages[i][k].status \notin OpenStage
    BY <1>0, <1>4, <2>2 DEF AllFit, Fits, StageFits
  <2>4. Subs(d, e, i)  BY <1>2, <1>4, <2>1, <2>3 DEF Subs
  <2>5. QED  BY <1>1, <2>4, OnlySubs
<1>5. QED  BY <1>3, <1>4 DEF Revokes

(* A handler leaves the subprocess stages alone.                            *)
LEMMA BeginsSubs ==
  ASSUME NEW d \in Db, Calm(d), Lone(d), Subordinate(d), NEW e, NEW u, Begins(d, e, u)
  PROVE  AllSubs(d, e)
<1>1. ASSUME Still(d, e) PROVE AllSubs(d, e)  BY <1>1, StillSubs
<1>2. CASE StartH(d, e, u)
  <2>1. PICK i \in Instances : Started(d, e, i)  BY <1>2 DEF StartH
  <2>2. \A p \in Instances : e.stages[p] = d.stages[p]  BY <2>1 DEF Started, Touches, Same
  <2>3. QED  BY <2>2, SameSubs DEF AllSubs
<1>3. CASE GoH(d, e, u)
  <2>1. PICK i \in Instances : \E k \in Slots(d, i) : \E r :
          GoRow(d.stages[i][k], r) /\ Ends(d, e, i, k, r, "completed")
    BY <1>3 DEF GoH
  <2>2. PICK k \in Slots(d, i) : \E r : GoRow(d.stages[i][k], r) /\ Ends(d, e, i, k, r, "completed")
    BY <2>1
  <2>3. d.stages[i][k].status \in {"queued", "running", "waiting_approval"} \/ d.stages[i][k].row = "waiting"
    BY <2>2 DEF GoRow
  <2>4. d.stages[i][k].kind # "subprocess"  BY <2>3, WorkedOn
  <2>5. QED  BY <2>2, <2>4, EndsSubs
<1>4. CASE UndoneH(d, e, u)
  <2>1. PICK i \in Instances : \E k \in Slots(d, i) :
          d.stages[i][k].kind = "compensation" /\ UndoEnds(d, e, i, k, "completed")
    BY <1>4 DEF UndoneH
  <2>2. QED  BY <2>1, UndoneSubs
<1>5. CASE BreakH(d, e, u)
  <2>1. PICK i \in Instances : \E k \in Slots(d, i) : \E r, s :
          /\ d.stages[i][k].status \in {"running", "waiting_approval"} \/ d.stages[i][k].row = "waiting"
          /\ Ends(d, e, i, k, r, s)
    BY <1>5 DEF BreakH
  <2>2. PICK k \in Slots(d, i) : \E r, s :
          /\ d.stages[i][k].status \in {"running", "waiting_approval"} \/ d.stages[i][k].row = "waiting"
          /\ Ends(d, e, i, k, r, s)
    BY <2>1
  <2>3. d.stages[i][k].kind # "subprocess"  BY <2>2, WorkedOn
  <2>4. QED  BY <2>2, <2>3, EndsSubs
<1>6. CASE LateH(d, e, u)
  <2>1. PICK i \in Instances : \E k \in Slots(d, i) :
          d.stages[i][k].row = "waiting" /\ d.stages[i][k].status # "waiting_external"
    BY <1>6 DEF LateH
  <2>2. QED  BY <2>1 DEF Calm, Settle, AllFit, Fits, StageFits
<1>7. CASE RevokeH(d, e, u)  BY <1>7, RevokeSubs DEF RevokeH
<1>8. QED  BY <1>1, <1>2, <1>3, <1>4, <1>5, <1>6, <1>7 DEF Begins, Handled, CancelH, GiveH, SweepH

LEMMA BeginsTied ==
  ASSUME NEW d \in Db, Calm(d), Lone(d), Tied(d, {}), NEW e, AllFit(e), NEW u, Begins(d, e, u)
  PROVE  Tied(e, CallsOf(u))
<1> DEFINE Z == CallsOf(u)
<1>0. ASSUME NEW i, u = <<ToParent(i)>> PROVE Tells(Z, i)
  <2>1. ToParent(i) \in Z  BY <1>0, CallsOfAre
  <2>2. QED  BY <2>1, TellsBy
<1> HIDE DEF Z
<1>1. e \in Db /\ Grows(d, e)  BY BeginsGives
<1>2. AllSubs(d, e)  BY BeginsSubs DEF Tied
<1>3. Owes({}, Z, e)  BY NothingOwed
<1>4. CASE Handled(d, e, u) /\ ~StartH(d, e, u)
  <2>1. \A j \in Instances : e.inst[j] = d.inst[j]  BY <1>4, BeginsKeep
  <2>2. Tied(e, Z)  BY <1>1, <1>2, <1>3, <2>1, QuietSame
  <2>3. QED  BY <2>2 DEF Z
<1>5. CASE StartH(d, e, u)
  <2>1. PICK i \in Instances : i \notin Children /\ Started(d, e, i)  BY <1>5 DEF StartH
  <2>2. e.inst[i] = "queued" /\ \A j \in Instances : j # i => e.inst[j] = d.inst[j]
    BY <2>1 DEF Started, StandsAt, Touches, Same
  <2>3. \A j \in Instances : e.inst[j] \in Ended => d.inst[j] \in Ended \/ Tells(Z, j)  BY <2>2 DEF Ended
  <2>4. \A j \in Children : j \in Instances /\ j # i
    BY <2>1, FamilyAssumption DEF Children
  <2>5. \A j \in Children : e.inst[j] \in OpenInst => d.inst[j] \in OpenInst  BY <2>2, <2>4
  <2>6. Tied(e, Z)  BY <1>1, <1>2, <1>3, <2>3, <2>5, QuietTied
  <2>7. QED  BY <2>6 DEF Z
<1>6. CASE RevokeH(d, e, u)
  <2>1. PICK i \in Instances : Revokes(d, e, u, i)  BY <1>6 DEF RevokeH
  <2>2. \A j \in Instances : j # i => e.inst[j] = d.inst[j]  BY <2>1, RevokesAre DEF Touches, Same
  <2>3. e.inst[i] = d.inst[i] \/ (e.inst[i] = "cancelled" /\ Tells(Z, i))
    <3>1. RevokedAs(d, e, u, i)  BY <2>1, RevokesAre
    <3>2. QED  BY <1>0, <3>1 DEF RevokedAs
  <2>4. "cancelled" \notin OpenInst /\ \A j \in Children : j \in Instances
    BY FamilyAssumption DEF Children, OpenInst
  <2>5. \A j \in Instances : e.inst[j] \in Ended => d.inst[j] \in Ended \/ Tells(Z, j)  BY <2>2, <2>3
  <2>6. \A j \in Children : e.inst[j] \in OpenInst => d.inst[j] \in OpenInst  BY <2>2, <2>3, <2>4
  <2>7. Tied(e, Z)  BY <1>1, <1>2, <1>3, <2>5, <2>6, QuietTied
  <2>8. QED  BY <2>7 DEF Z
<1>7. QED  BY <1>4, <1>5, <1>6 DEF Begins

(* A handler that makes no call.                                            *)
LEMMA PlainTied ==
  ASSUME NEW d \in Db, AllFit(d), Tied(d, {}), NEW i \in Instances, NEW k \in Slots(d, i), NEW e, AllFit(e),
         LeaseCase(d, e, i, k) \/ LapseCase(d, e, i, k) \/ ApproveCase(d, e, i, k),
         e \in Db
  PROVE  Tied(e, {})
<1>1. d.stages[i][k].status \in {"queued", "running", "waiting_approval"}
  BY DEF LeaseCase, LapseCase, ApproveCase
<1>2. d.stages[i][k].kind # "subprocess"  BY <1>1, WorkedOn DEF Tied
<1>3. /\ \A j \in Instances \ {i} : Same(d, e, j)
      /\ Slots(e, i) = Slots(d, i) /\ Kept(d, e, i, k)
      /\ \A m \in Slots(d, i) : m # k => e.stages[i][m] = d.stages[i][m]
  BY DEF LeaseCase, LapseCase, ApproveCase, Others, Touches
<1>4. AllSubs(d, e)  BY <1>2, <1>3, PutSubs
<1>5. StagesLast(d, e)
  <2>1. SUFFICES ASSUME NEW p \in Instances, NEW m \in Slots(d, p)
                 PROVE  m \in Slots(e, p) /\ Kept(d, e, p, m)
    BY DEF StagesLast
  <2>2. CASE p # i  BY <1>3, <2>2 DEF Same, Slots, Kept
  <2>3. CASE p = i /\ m # k  BY <1>3, <2>3 DEF Kept
  <2>4. QED  BY <1>3, <2>2, <2>3
<1>6. \A j \in Children : j \in Instances  BY FamilyAssumption DEF Children
<1>7. Owes({}, {}, e)  BY NothingOwed
<1>8. StageFits(d, i, d.stages[i][k]) /\ d.stages[i][k].status \in OpenStage
  BY <1>1 DEF AllFit, Fits, OpenStage
<1>9. \A j \in Instances \ {i} : e.inst[j] = d.inst[j]  BY <1>3 DEF Same
<1>10. ASSUME \/ e.inst[i] = d.inst[i]
              \/ d.inst[i] \in OpenInst /\ e.inst[i] \in {"queued", "running"}
      PROVE  Tied(e, {})
  <2>1. e.inst[i] \in Ended => d.inst[i] \in Ended  BY <1>10 DEF Ended
  <2>2. e.inst[i] \in OpenInst => d.inst[i] \in OpenInst  BY <1>10
  <2>3. /\ \A j \in Instances : e.inst[j] \in Ended => d.inst[j] \in Ended \/ Tells({}, j)
        /\ \A j \in Children : e.inst[j] \in OpenInst => d.inst[j] \in OpenInst
    BY <1>6, <1>9, <2>1, <2>2
  <2>4. QED  BY <1>4, <1>5, <1>7, <2>3, KeptTied
<1>11. CASE LapseCase(d, e, i, k)  BY <1>10, <1>11 DEF LapseCase
<1>12. CASE LeaseCase(d, e, i, k)
  <2>1. e.inst[i] = IF d.stages[i][k].kind = "compensation" THEN "compensating" ELSE "running"
    BY <1>12 DEF LeaseCase, StandsAt
  <2>2. CASE d.stages[i][k].kind = "compensation"
    <3>1. d.inst[i] = "compensating"  BY <1>8, <2>2 DEF StageFits
    <3>2. QED  BY <1>10, <2>1, <2>2, <3>1
  <2>3. CASE d.stages[i][k].kind # "compensation"
    <3>1. d.inst[i] \in OpenInst  BY <1>8, <2>3 DEF StageFits
    <3>2. QED  BY <1>10, <2>1, <2>3, <3>1
  <2>4. QED  BY <2>2, <2>3
<1>13. CASE ApproveCase(d, e, i, k)
  <2>1. d.stages[i][k].kind # "compensation"
    <3>1. d.stages[i][k] \in StageSet  BY SlotsAre
    <3>2. QED  BY <1>13, <3>1 DEF StageSet, StageOK, ApproveCase
  <2>2. d.inst[i] \in OpenInst  BY <1>8, <2>1 DEF StageFits
  <2>3. QED  BY <1>10, <1>13, <2>2 DEF ApproveCase
<1>14. QED  BY <1>11, <1>12, <1>13

(* The handlers with all their calls.                                       *)
LEMMA CallsTied ==
  ASSUME NEW C, CalmBy(C), Balanced, Tied(db, {}), CallsStep
  PROVE  Tied(db', {})
<1>1. PICK e, u, w : Begins(db, e, u) /\ Blocks(e, u) /\ Tame(w) /\ Carry(e, u, w)  BY DEF CallsStep
<1>2. db \in Db /\ Settle(db) /\ Lone(db) /\ Calm(db)  BY DEF Balanced, Settled0, Settle, Calm
<1>3. e \in Db /\ AllOK(e, u)  BY <1>1, <1>2, BeginsGives
<1>4. Sound(C, e, u)  BY <1>1, <1>2, BeginsSound
<1> DEFINE B == NewlyBlocked
<1>5. AllEven(e, u) /\ SagaWay(B, db, e, u)  BY <1>1, <1>3, WayBegins
<1> HIDE DEF B
<1>6. \A j \in Instances : HasEffects(db, j)  BY <1>2, CalmHas
<1>7. Tied(e, CallsOf(u))
  <2>1. AllFit(e)  BY <1>4 DEF Sound
  <2>2. QED  BY <1>1, <1>2, <2>1, BeginsTied
<1> DEFINE Good == {m \in Machines :
              /\ Sound(C, m.db, m.todo) /\ AllEven(m.db, m.todo) /\ SagaWay(B, db, m.db, m.todo)
              /\ Tied(m.db, CallsOf(m.todo))}
<1>8. Do(e, u) \in Good  BY <1>3, <1>4, <1>5, <1>7, MachineIs
<1>9. ASSUME NEW m \in Good PROVE Step(m, w) \in Good
  <2>1. m \in Machines /\ Tied(m.db, CallsOf(m.todo))
        /\ Sound(C, m.db, m.todo) /\ AllEven(m.db, m.todo) /\ SagaWay(B, db, m.db, m.todo)
    OBVIOUS
  <2>2. CASE m.todo = <<>>
    <3>1. Step(m, w) = m  BY <2>1, <2>2, StepStays
    <3>2. QED  BY <3>1
  <2>3. CASE m.todo # <<>>
    <3> DEFINE n == Step(m, w)
    <3>1. StepsTo(m, n) /\ n \in Machines  BY <1>1, <2>1, <2>3, StepIs
    <3> HIDE DEF n
    <3>2. Sound(C, n.db, n.todo)  BY <2>1, <2>3, <3>1, SoundThen
    <3>3. AllEven(n.db, n.todo) /\ SagaWay(B, db, n.db, n.todo)  BY <1>6, <2>1, <2>3, <3>1, EvenStep
    <3>4. Tied(n.db, CallsOf(n.todo))  BY <2>1, <2>3, <3>1, <3>2, TiedStep
    <3>5. n \in Good  BY <3>1, <3>2, <3>3, <3>4
    <3>6. QED  BY <3>5 DEF n
  <2>4. QED  BY <2>2, <2>3
<1> HIDE DEF Good
<1>10. PICK m \in Good : m.todo = <<>> /\ db' = m.db  BY <1>1, <1>8, <1>9, CarryRule
<1>11. Tied(m.db, CallsOf(m.todo))  BY DEF Good
<1>12. QED  BY <1>10, <1>11, CallsOfAre

LEMMA TiedStays ==
  ASSUME NEW C, CalmBy(C), ~LapseTogether, Balanced, Tied(db, {}), [Next]_vars, ~thrown'
  PROVE  Tied(db', {})
<1>1. db \in Db /\ AllFit(db) /\ Settled0(db)  BY DEF Balanced, Settled0, Settle
<1>2. CASE Next
  <2>1. CASE CallsStep  BY <2>1, CallsTied
  <2>2. CASE PlainStep
    <3>1. PICK i \in Instances : \E k \in Slots(db, i) :
            LeaseCase(db, db', i, k) \/ LapseCase(db, db', i, k) \/ ApproveCase(db, db', i, k)
      BY <2>2 DEF PlainStep, PlainCase
    <3>2. db' \in Db /\ AllFit(db')  BY <1>1, SettleStays DEF Settled0, Settle
    <3>3. QED  BY <1>1, <3>1, <3>2, PlainTied
  <2>3. QED  BY <1>1, <1>2, <2>1, <2>2, NextSteps
<1>3. CASE UNCHANGED vars
  <2>1. db' = db  BY <1>3 DEF vars
  <2>2. QED  BY <2>1
<1>4. QED  BY <1>2, <1>3

(* The inductive invariant of the families.                                 *)
FamilyInv == thrown \/ (Balanced /\ Tied(db, {}))

LEMMA FamilyInit ==
  ASSUME Init
  PROVE  FamilyInv
<1>1. Balanced  BY BalancedInit
<1>2. \A i \in Instances : db.inst[i] = "absent" /\ db.stages[i] = <<>>  BY DEF Init
<1>3. \A i \in Instances : Slots(db, i) = {} /\ RunningLinks(db, i) = {}  BY <1>2 DEF Slots, RunningLinks
<1>4. \A c \in Children : db.inst[c] \notin OpenInst
  BY <1>2, FamilyAssumption DEF Children, OpenInst
<1>5. Tied(db, {})  BY <1>3, <1>4 DEF Tied, Subordinate, Told, Linked, Parented
<1>6. QED  BY <1>1, <1>5 DEF FamilyInv

LEMMA FamilyNext ==
  ASSUME Orderly, db \in Db, FamilyInv, [Next]_vars
  PROVE  FamilyInv'
<1>1. PICK C : CalmBy(C) /\ ~LapseTogether  BY DEF Orderly
<1>2. CASE thrown
  <2>1. thrown'  BY <1>2, ThrownStays
  <2>2. QED  BY <2>1 DEF FamilyInv
<1>3. CASE ~thrown /\ ~thrown'
  <2>1. Balanced /\ Tied(db, {})  BY <1>3 DEF FamilyInv
  <2>2. Balanced'  BY <1>3, <2>1, BalancedStays
  <2>3. Tied(db', {})  BY <1>1, <1>3, <2>1, TiedStays
  <2>4. Tied(db, {})'  BY <2>3
        DEF Tied, Subordinate, Told, Linked, Parented, Ties, Waits, RunningLinks, Child, Slots, Tells, Stops, Links
  <2>5. QED  BY <2>2, <2>4 DEF FamilyInv
<1>4. CASE thrown'  BY <1>4 DEF FamilyInv
<1>5. QED  BY <1>2, <1>3, <1>4

LEMMA FamilyShows ==
  ASSUME FamilyInv, ~thrown
  PROVE  FamilyTied
<1>1. db \in Db /\ AllFit(db) /\ Tied(db, {})  BY DEF FamilyInv, Balanced, Settled0, Settle
<1>2. \A p, k : ~Links({}, p, k)  BY DEF Links
<1>3. \A j : ~Stops({}, j) /\ ~Tells({}, j)  BY DEF Stops, Tells
<1>4. ASSUME NEW p \in Instances, NEW k \in Slots(db, p), db.stages[p][k].kind = "subprocess"
      PROVE  /\ db.stages[p][k].row = "running" <=> db.stages[p][k].status = "waiting_external"
             /\ db.stages[p][k].row = "running" =>
                  db.inst[p] \in OpenInst /\ db.inst[Child(db, p, k)] \in OpenInst \cup {"compensating"}
  <2>1. StageFits(db, p, db.stages[p][k])  BY <1>1 DEF AllFit, Fits
  <2>2. ASSUME db.stages[p][k].status = "waiting_external" PROVE db.stages[p][k].row = "running"
    <3>1. Waits(db, p, k)  BY <1>4, <2>2 DEF Waits
    <3>2. Ties(db, {}, p, k)  BY <1>1, <1>3, <3>1 DEF Tied, Linked
    <3>3. QED  BY <1>2, <3>2 DEF Ties
  <2>3. ASSUME db.stages[p][k].row = "running"
        PROVE  db.inst[Child(db, p, k)] \in OpenInst \cup {"compensating"}
    <3>1. k \in RunningLinks(db, p)  BY <1>4, <2>3 DEF RunningLinks
    <3>2. db.inst[Child(db, p, k)] \notin Ended  BY <1>1, <1>3, <3>1 DEF Tied, Told
    <3>3. db.inst[Child(db, p, k)] # "absent"  BY <2>1, <2>3 DEF StageFits, Child
    <3>4. Child(db, p, k) \in Instances  BY <1>1, <1>4, ChildOfStage
    <3>5. db.inst[Child(db, p, k)] \in InstStatus  BY <1>1, <3>4 DEF Db
    <3>6. QED  BY <3>2, <3>3, <3>5 DEF InstStatus, Ended, OpenInst
  <2>4. QED  BY <2>1, <2>2, <2>3 DEF StageFits
<1>5. ASSUME NEW c \in Children, db.inst[c] \in OpenInst
      PROVE  \E p \in Instances : \E k \in InStatus(db, p, OpenStage) :
               db.stages[p][k].kind = "subprocess" /\ Child(db, p, k) = c
  <2>1. PICK p \in Instances : \E k \in Slots(db, p) : Ties(db, {}, p, k) /\ Child(db, p, k) = c
    BY <1>1, <1>3, <1>5 DEF Tied, Parented
  <2>2. PICK k \in Slots(db, p) : Ties(db, {}, p, k) /\ Child(db, p, k) = c  BY <2>1
  <2>3. k \in InStatus(db, p, OpenStage) /\ db.stages[p][k].kind = "subprocess"
    BY <2>2 DEF Ties, Waits, InStatus, OpenStage
  <2>4. QED  BY <2>2, <2>3
<1>6. QED  BY <1>4, <1>5 DEF FamilyTied, Child

(* A process and the process it calls are tied for as long as both live: a  *)
(* link is running exactly while its stage waits for the child and the      *)
(* parent is open, its child is open or compensating, and no open child is  *)
(* without a parent's stage that waits for it, whatever ended either of     *)
(* them and in whatever order (queueProcessSubprocess,                      *)
(* completeParentSubprocess, quiesceProcessExecution).                      *)
THEOREM EngineFamilies ==
  ASSUME Orderly
  PROVE  Spec => []FamilyTied
<1>1. Init => FamilyInv  BY FamilyInit
<1>2. db \in Db /\ FamilyInv /\ [Next]_vars => FamilyInv'  BY FamilyNext
<1>3. FamilyInv => FamilyTied
  <2>1. CASE thrown  BY <2>1 DEF FamilyTied
  <2>2. CASE ~thrown  BY <2>2, FamilyShows
  <2>3. QED  BY <2>1, <2>2
<1>4. QED  BY <1>1, <1>2, <1>3, TypedAll, PTL DEF Spec
===============================================================================
