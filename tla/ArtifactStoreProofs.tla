-------------------------- MODULE ArtifactStoreProofs --------------------------
(***************************************************************************)
(* The theorems of ArtifactStore, for any artifacts, coordinators, attempts *)
(* and faults, and for a bucket that enforces protection or does not.      *)
(***************************************************************************)
EXTENDS ArtifactStore, TLAPS

States   == {"none", "postgresql", "ready", "delete_pending", "delete_failed", "deleted", "missing"}
Statuses == {"none", "pending", "delivering", "delivered", "dead"}
Rows     == [state : States, hold : BOOLEAN, due : BOOLEAN]
Commands == [status : Statuses, attempts : Nat, by : Coordinators \cup {"none"},
             ready : BOOLEAN, lapsed : BOOLEAN]
Objects  == [age : {"none", "fresh", "old"}, lock : {"none", "until", "hold"}]
Items    == [attempts : Nat, gone : BOOLEAN]
Orders   == [op : {"idle", "protect", "migrate", "scanned", "probed"},
             art : SUBSET Artifacts, hold : BOOLEAN, seen : SUBSET Artifacts]

(* Where the row of an artifact can be once its deletion has been staged:   *)
(* it does not come back.                                                  *)
Settling == {"delete_pending", "delete_failed", "deleted", "missing"}

(* A row, its command, its object and what coordinators have in hand.      *)
RowTied(a) ==
  /\ row[a].state = "ready" \/ row[a].hold => Kept(a)
  /\ row[a].state = "delete_pending" => cmd[a].status \in {"pending", "delivering"}
  /\ row[a].state = "deleted" => ~Kept(a) /\ cmd[a].status = "delivered"
  /\ cmd[a].status # "none" => row[a].state \in Settling /\ ~row[a].hold
  /\ row[a].state \in {"none", "postgresql"} => ~row[a].hold
  /\ a \in saving => row[a].state = "none" /\ object[a].age = "fresh"
  /\ \A c \in Coordinators : job[c][a].attempts > 0 =>
       cmd[a].status # "none" /\ (job[c][a].gone => ~Kept(a))

(* What the administrator's process remembers of an artifact.              *)
AdminTied(a) ==
  /\ admin.op = "migrate" /\ a \in admin.art => row[a].state = "postgresql" /\ Kept(a)
  /\ admin.op \in {"scanned", "probed"} /\ a \in admin.art =>
       row[a].state \in {"none", "postgresql"} /\ Kept(a) /\ a \notin saving
  /\ admin.op \in {"scanned", "probed"} /\ a \in admin.seen =>
       row[a].state \notin {"none", "postgresql"} /\ (admin.op = "probed" => ~Kept(a))

Tied == \A a \in Artifacts : RowTied(a) /\ AdminTied(a)
IInv == TypeOK /\ Tied

(* What is tied says what the property says, and more.                     *)
LEMMA TiedIsEnough == ASSUME Tied PROVE RowsTellTheTruth
BY DEF Tied, RowTied, RowsTellTheTruth

(* The types of the variables, each set under a name.                      *)
LEMMA Types ==
  TypeOK <=> /\ row \in [Artifacts -> Rows] /\ cmd \in [Artifacts -> Commands]
             /\ object \in [Artifacts -> Objects] /\ saving \subseteq Artifacts
             /\ job \in [Coordinators -> [Artifacts -> Items]] /\ admin \in Orders
             /\ locks \in LockModes /\ faults \in 0..MaxFaults
BY DEF TypeOK, Rows, States, Commands, Statuses, Objects, Items, Orders

LEMMA TypesNext ==
  TypeOK' <=> /\ row' \in [Artifacts -> Rows] /\ cmd' \in [Artifacts -> Commands]
              /\ object' \in [Artifacts -> Objects] /\ saving' \subseteq Artifacts
              /\ job' \in [Coordinators -> [Artifacts -> Items]] /\ admin' \in Orders
              /\ locks' \in LockModes /\ faults' \in 0..MaxFaults
BY DEF TypeOK, Rows, States, Commands, Statuses, Objects, Items, Orders

LEMMA FaultCounted == ASSUME ConstantsAssumption, TypeOK, Fault PROVE faults' \in 0..MaxFaults
BY DEF ConstantsAssumption, TypeOK, Fault

LEMMA NewType == New \in Objects /\ New.age = "fresh"
BY DEF New, Objects

(***************************************************************************)
(* A step about one artifact.                                              *)
(***************************************************************************)
(* Nothing about the others changes, and the administrator's process takes  *)
(* nothing else in hand.                                                   *)
Only(a) ==
  /\ \A b \in Artifacts : b # a =>
       /\ row'[b] = row[b] /\ cmd'[b] = cmd[b] /\ object'[b] = object[b]
       /\ b \in saving' <=> b \in saving
       /\ \A c \in Coordinators : job'[c][b] = job[c][b]
       /\ admin'.op = "migrate" /\ b \in admin'.art => admin.op = "migrate" /\ b \in admin.art
  /\ admin'.op \in {"scanned", "probed"} =>
       admin'.op = admin.op /\ admin'.art \subseteq admin.art /\ admin'.seen \subseteq admin.seen

LEMMA OneArtifact ==
  ASSUME IInv, NEW a \in Artifacts, Only(a), TypeOK', RowTied(a)', AdminTied(a)'
  PROVE  IInv'
<1>1. ASSUME NEW b \in Artifacts, b # a PROVE RowTied(b)' /\ AdminTied(b)'
  <2>1. RowTied(b) /\ AdminTied(b)
    BY DEF IInv, Tied
  <2>2. /\ row'[b] = row[b] /\ cmd'[b] = cmd[b] /\ object'[b] = object[b]
        /\ b \in saving' <=> b \in saving
        /\ \A c \in Coordinators : job'[c][b] = job[c][b]
    BY <1>1 DEF Only
  <2>3. RowTied(b)'
    BY <2>1, <2>2 DEF RowTied, Kept
  <2>4. AdminTied(b)'
    BY <1>1, <2>1, <2>2 DEF AdminTied, Kept, Only
  <2>5. QED
    BY <2>3, <2>4
<1>2. QED
  BY <1>1 DEF IInv, Tied

(* What the invariant gives an action on one artifact.                     *)
LEMMA Given ==
  ASSUME IInv, NEW a \in Artifacts
  PROVE  /\ TypeOK /\ RowTied(a) /\ AdminTied(a)
         /\ row[a] \in Rows /\ cmd[a] \in Commands /\ object[a] \in Objects
         /\ \A c \in Coordinators : job[c] \in [Artifacts -> Items] /\ job[c][a] \in Items
         /\ row \in [Artifacts -> Rows] /\ cmd \in [Artifacts -> Commands]
         /\ object \in [Artifacts -> Objects] /\ saving \subseteq Artifacts
         /\ job \in [Coordinators -> [Artifacts -> Items]] /\ admin \in Orders
         /\ locks \in LockModes /\ faults \in 0..MaxFaults
BY Types DEF IInv, Tied

LEMMA PutHolds ==
  ASSUME ConstantsAssumption, IInv, NEW a \in Artifacts, Put(a)
  PROVE  IInv'
<1>1. /\ TypeOK /\ RowTied(a) /\ AdminTied(a) /\ New \in Objects /\ New.age = "fresh"
      /\ object \in [Artifacts -> Objects] /\ saving \subseteq Artifacts
  BY Given, NewType
<1>2. /\ row[a].state = "none" /\ ~Kept(a) /\ object' = [object EXCEPT ![a] = New]
      /\ saving' = saving \cup {a} /\ UNCHANGED <<row, cmd, job, admin, faults, locks>>
  BY DEF Put
<1>3. object' \in [Artifacts -> Objects] /\ object'[a] = New /\ Only(a)
  BY <1>1, <1>2 DEF Only
<1>4. TypeOK'
  BY <1>1, <1>2, <1>3, Types, TypesNext
<1>5. RowTied(a)'
  BY <1>1, <1>2, <1>3 DEF RowTied, Kept, Settling
<1>6. AdminTied(a)'
  BY <1>1, <1>2, <1>3 DEF AdminTied, Kept
<1>7. QED
  BY <1>3, <1>4, <1>5, <1>6, OneArtifact

LEMMA CommitHolds ==
  ASSUME ConstantsAssumption, IInv, NEW a \in Artifacts, Commit(a)
  PROVE  IInv'
<1> DEFINE r == [row[a] EXCEPT !.state = "ready", !.due = FALSE]
<1>1. TypeOK /\ RowTied(a) /\ AdminTied(a) /\ row[a] \in Rows /\ row \in [Artifacts -> Rows]
      /\ saving \subseteq Artifacts
  BY Given
<1>2. /\ a \in saving /\ saving' = saving \ {a} /\ row' = [row EXCEPT ![a] = r]
      /\ UNCHANGED <<cmd, object, job, admin, faults, locks>>
  BY DEF Commit
<1>3. r \in Rows /\ r.state = "ready" /\ r.hold = row[a].hold
  BY <1>1 DEF Rows, States
<1> HIDE DEF r
<1>4. row' \in [Artifacts -> Rows] /\ row'[a] = r /\ Only(a)
  BY <1>1, <1>2, <1>3 DEF Only
<1>5. TypeOK'
  BY <1>1, <1>2, <1>4, Types, TypesNext
<1>6. RowTied(a)'
  BY <1>1, <1>2, <1>3, <1>4 DEF RowTied, Kept, Settling
<1>7. AdminTied(a)'
  BY <1>1, <1>2, <1>3, <1>4 DEF AdminTied, RowTied, Kept
<1>8. QED
  BY <1>4, <1>5, <1>6, <1>7, OneArtifact

LEMMA RollbackHolds ==
  ASSUME ConstantsAssumption, IInv, NEW a \in Artifacts, Rollback(a)
  PROVE  IInv'
<1>1. TypeOK /\ RowTied(a) /\ AdminTied(a) /\ saving \subseteq Artifacts
  BY Given
<1>2. /\ saving' = saving \ {a} /\ Fault /\ UNCHANGED <<row, cmd, object, job, admin, locks>>
  BY DEF Rollback
<1>3. Only(a)
  BY <1>1, <1>2 DEF Only
<1>4. TypeOK'
  BY <1>1, <1>2, FaultCounted, Types, TypesNext
<1>5. RowTied(a)' /\ AdminTied(a)'
  BY <1>1, <1>2 DEF RowTied, AdminTied, Kept
<1>6. QED
  BY <1>3, <1>4, <1>5, OneArtifact

(* A deletion is staged together with its command, and not for what is held. *)
LEMMA StageHolds ==
  ASSUME ConstantsAssumption, IInv, NEW a \in Artifacts, Stage(a)
  PROVE  IInv'
<1> DEFINE r == [row[a] EXCEPT !.state = "delete_pending"]
           m == [cmd[a] EXCEPT !.status = "pending"]
<1>1. /\ TypeOK /\ RowTied(a) /\ AdminTied(a) /\ row[a] \in Rows /\ cmd[a] \in Commands
      /\ row \in [Artifacts -> Rows] /\ cmd \in [Artifacts -> Commands]
  BY Given
<1>2. /\ row[a].state = "ready" /\ ~row[a].hold
      /\ row' = [row EXCEPT ![a] = r] /\ cmd' = [cmd EXCEPT ![a] = m]
      /\ UNCHANGED <<object, saving, job, admin, faults, locks>>
  BY DEF Stage, Expired
<1>3. r \in Rows /\ r.state = "delete_pending" /\ r.hold = row[a].hold
  BY <1>1 DEF Rows, States
<1>4. m \in Commands /\ m.status = "pending"
  BY <1>1 DEF Commands, Statuses
<1> HIDE DEF r, m
<1>5. /\ row' \in [Artifacts -> Rows] /\ row'[a] = r
      /\ cmd' \in [Artifacts -> Commands] /\ cmd'[a] = m /\ Only(a)
  BY <1>1, <1>2, <1>3, <1>4 DEF Only
<1>6. TypeOK'
  BY <1>1, <1>2, <1>5, Types, TypesNext
<1>7. RowTied(a)'
  BY <1>1, <1>2, <1>3, <1>4, <1>5 DEF RowTied, Kept, Settling
<1>8. AdminTied(a)'
  BY <1>1, <1>2, <1>3, <1>5 DEF AdminTied, Kept
<1>9. QED
  BY <1>5, <1>6, <1>7, <1>8, OneArtifact

(* A step that changes the command alone, and leaves its status.           *)
LEMMA CommandStep ==
  ASSUME ConstantsAssumption, IInv, NEW a \in Artifacts,
         NEW m \in Commands, m.status = cmd[a].status, cmd' = [cmd EXCEPT ![a] = m],
         UNCHANGED <<row, object, saving, job, admin, locks>>, faults' \in 0..MaxFaults
  PROVE  IInv'
<1>1. TypeOK /\ RowTied(a) /\ AdminTied(a) /\ cmd \in [Artifacts -> Commands]
  BY Given
<1>2. cmd' \in [Artifacts -> Commands] /\ cmd'[a] = m /\ Only(a)
  BY <1>1 DEF Only
<1>3. TypeOK'
  BY <1>1, <1>2, Types, TypesNext
<1>4. RowTied(a)' /\ AdminTied(a)'
  BY <1>1, <1>2 DEF RowTied, AdminTied, Kept
<1>5. QED
  BY <1>2, <1>3, <1>4, OneArtifact

LEMMA LapseHolds ==
  ASSUME ConstantsAssumption, IInv, NEW a \in Artifacts, Lapse(a)
  PROVE  IInv'
<1> DEFINE m == [cmd[a] EXCEPT !.lapsed = TRUE]
<1>1. TypeOK /\ cmd[a] \in Commands /\ faults \in 0..MaxFaults
  BY Given
<1>2. m \in Commands /\ m.status = cmd[a].status
  BY <1>1 DEF Commands
<1>3. cmd' = [cmd EXCEPT ![a] = m] /\ UNCHANGED <<row, object, saving, job, admin, locks>>
      /\ faults' \in 0..MaxFaults
  BY <1>1, FaultCounted DEF Lapse
<1>4. QED
  BY <1>2, <1>3, CommandStep

LEMMA BackoffEndsHolds ==
  ASSUME ConstantsAssumption, IInv, NEW a \in Artifacts, BackoffEnds(a)
  PROVE  IInv'
<1> DEFINE m == [cmd[a] EXCEPT !.ready = TRUE]
<1>1. cmd[a] \in Commands /\ faults \in 0..MaxFaults
  BY Given
<1>2. m \in Commands /\ m.status = cmd[a].status
  BY <1>1 DEF Commands
<1>3. cmd' = [cmd EXCEPT ![a] = m] /\ UNCHANGED <<row, object, saving, job, admin, locks>>
      /\ faults' \in 0..MaxFaults
  BY <1>1 DEF BackoffEnds
<1>4. QED
  BY <1>2, <1>3, CommandStep

LEMMA RetentionEndsHolds ==
  ASSUME ConstantsAssumption, IInv, NEW a \in Artifacts, RetentionEnds(a)
  PROVE  IInv'
<1> DEFINE r == [row[a] EXCEPT !.due = TRUE]
<1>1. TypeOK /\ RowTied(a) /\ AdminTied(a) /\ row[a] \in Rows /\ row \in [Artifacts -> Rows]
  BY Given
<1>2. r \in Rows /\ r.state = row[a].state /\ r.hold = row[a].hold
  BY <1>1 DEF Rows
<1>3. row' = [row EXCEPT ![a] = r] /\ UNCHANGED <<cmd, object, saving, job, admin, faults, locks>>
  BY DEF RetentionEnds
<1> HIDE DEF r
<1>4. row' \in [Artifacts -> Rows] /\ row'[a] = r /\ Only(a)
  BY <1>1, <1>2, <1>3 DEF Only
<1>5. TypeOK'
  BY <1>1, <1>3, <1>4, Types, TypesNext
<1>6. RowTied(a)' /\ AdminTied(a)'
  BY <1>1, <1>2, <1>3, <1>4 DEF RowTied, AdminTied, Kept
<1>7. QED
  BY <1>4, <1>5, <1>6, OneArtifact

(* A step that changes the protection of an object, or makes it older; one  *)
(* that is being saved is not old yet.                                     *)
LEMMA ObjectStep ==
  ASSUME ConstantsAssumption, IInv, NEW a \in Artifacts, NEW o \in Objects,
         object' = [object EXCEPT ![a] = o],
         \/ o.age = object[a].age
         \/ object[a].age = "fresh" /\ o.age = "old" /\ a \notin saving,
         UNCHANGED <<row, cmd, saving, job, faults, locks>>,
         admin' = admin \/ (admin' \in Orders /\ admin'.op = "protect")
  PROVE  IInv'
<1>1. /\ TypeOK /\ RowTied(a) /\ AdminTied(a) /\ object \in [Artifacts -> Objects]
      /\ admin \in Orders
  BY Given
<1>2. object' \in [Artifacts -> Objects] /\ object'[a] = o /\ Only(a) /\ admin' \in Orders
  BY <1>1 DEF Only
<1>3. TypeOK'
  BY <1>1, <1>2, Types, TypesNext
<1>4. RowTied(a)'
  BY <1>1, <1>2 DEF RowTied, Kept
<1>5. AdminTied(a)'
  BY <1>1, <1>2 DEF AdminTied, Kept
<1>6. QED
  BY <1>2, <1>3, <1>4, <1>5, OneArtifact

LEMMA LockEndsHolds ==
  ASSUME ConstantsAssumption, IInv, NEW a \in Artifacts, LockEnds(a) \/ GraceEnds(a)
  PROVE  IInv'
<1>1. object[a] \in Objects
  BY Given
<1>2. CASE LockEnds(a)
  <2> DEFINE o == [object[a] EXCEPT !.lock = "none"]
  <2>1. o \in Objects /\ o.age = object[a].age
    BY <1>1 DEF Objects
  <2>2. object' = [object EXCEPT ![a] = o] /\ UNCHANGED <<row, cmd, saving, job, admin, faults, locks>>
    BY <1>2 DEF LockEnds
  <2>3. QED
    BY <2>1, <2>2, ObjectStep
<1>3. CASE GraceEnds(a)
  <2> DEFINE o == [object[a] EXCEPT !.age = "old"]
  <2>1. o \in Objects /\ o.age = "old"
    BY <1>1 DEF Objects
  <2>2. /\ object' = [object EXCEPT ![a] = o] /\ object[a].age = "fresh" /\ a \notin saving
        /\ UNCHANGED <<row, cmd, saving, job, admin, faults, locks>>
    BY <1>3 DEF GraceEnds
  <2>3. QED
    BY <2>1, <2>2, ObjectStep
<1>4. QED
  BY <1>2, <1>3

(***************************************************************************)
(* The lifecycle of a coordinator.                                         *)
(***************************************************************************)
(* Only what is settling is in a coordinator's hand, so that no row loses   *)
(* bytes it still claims to have.                                          *)
LEMMA DeleteHolds ==
  ASSUME ConstantsAssumption, IInv, NEW a \in Artifacts, NEW c \in Coordinators, Delete(c, a)
  PROVE  IInv'
<1>1. /\ TypeOK /\ RowTied(a) /\ AdminTied(a)
      /\ object \in [Artifacts -> Objects] /\ job \in [Coordinators -> [Artifacts -> Items]]
      /\ \A d \in Coordinators : job[d] \in [Artifacts -> Items] /\ job[d][a] \in Items
  BY Given
<1> DEFINE t == [job[c][a] EXCEPT !.gone = TRUE]
           mine == [job[c] EXCEPT ![a] = t]
<1>2. /\ job[c][a].attempts > 0 /\ object' = [object EXCEPT ![a] = NoObject]
      /\ job' = [job EXCEPT ![c] = mine]
      /\ UNCHANGED <<row, cmd, saving, admin, faults, locks>>
  BY DEF Delete, Busy
<1>3. t \in Items /\ t.attempts = job[c][a].attempts
  BY <1>1 DEF Items
<1> HIDE DEF t
<1>4. mine \in [Artifacts -> Items] /\ mine[a] = t /\ \A b \in Artifacts : b # a => mine[b] = job[c][b]
  BY <1>1, <1>3
<1> HIDE DEF mine
<1>5. /\ job' \in [Coordinators -> [Artifacts -> Items]] /\ job'[c] = mine
      /\ \A d \in Coordinators : d # c => job'[d] = job[d]
  BY <1>1, <1>2, <1>4
<1>6. NoObject \in Objects /\ NoObject.age = "none"
  BY DEF NoObject, Objects
<1>7. object' \in [Artifacts -> Objects] /\ object'[a] = NoObject /\ ~Kept(a)' /\ Only(a)
  BY <1>1, <1>2, <1>4, <1>5, <1>6 DEF Only, Kept
<1>8. TypeOK'
  BY <1>1, <1>2, <1>5, <1>7, Types, TypesNext
<1>9. cmd[a].status # "none" /\ row[a].state \in Settling /\ ~row[a].hold
  BY <1>1, <1>2 DEF RowTied
<1>10. RowTied(a)'
  BY <1>1, <1>2, <1>3, <1>4, <1>5, <1>7, <1>9 DEF RowTied, Settling
<1>11. AdminTied(a)'
  BY <1>1, <1>2, <1>7, <1>9 DEF AdminTied, Settling
<1>12. QED
  BY <1>7, <1>8, <1>10, <1>11, OneArtifact

(* A settled item leaves the coordinator's hand.                           *)
LEMMA LetGo ==
  ASSUME IInv, NEW a \in Artifacts, NEW c \in Coordinators, job' = [job EXCEPT ![c][a] = NoItem]
  PROVE  /\ job' \in [Coordinators -> [Artifacts -> Items]]
         /\ \A d \in Coordinators : /\ \A b \in Artifacts : b # a => job'[d][b] = job[d][b]
                                    /\ \/ job'[d][a] = job[d][a]
                                       \/ ~(job'[d][a].attempts > 0)
<1> DEFINE mine == [job[c] EXCEPT ![a] = NoItem]
<1>1. /\ job \in [Coordinators -> [Artifacts -> Items]]
      /\ \A d \in Coordinators : job[d] \in [Artifacts -> Items] /\ job[d][a] \in Items
  BY Given
<1>2. NoItem \in Items /\ NoItem.attempts = 0
  BY DEF NoItem, Items
<1>3. /\ mine \in [Artifacts -> Items] /\ mine[a] = NoItem
      /\ \A b \in Artifacts : b # a => mine[b] = job[c][b]
  BY <1>1, <1>2
<1>4. job' = [job EXCEPT ![c] = mine]
  OBVIOUS
<1> HIDE DEF mine
<1>5. /\ job' \in [Coordinators -> [Artifacts -> Items]] /\ job'[c] = mine
      /\ \A d \in Coordinators : d # c => job'[d] = job[d]
  BY <1>1, <1>3, <1>4
<1>6. QED
  BY <1>2, <1>3, <1>5

LEMMA DeliveredHolds ==
  ASSUME ConstantsAssumption, IInv, NEW a \in Artifacts, NEW c \in Coordinators, Delivered(c, a)
  PROVE  IInv'
<1> DEFINE s == IF row[a].state = "delete_pending" THEN "deleted" ELSE row[a].state
           r == [row[a] EXCEPT !.state = s]
           m == [cmd[a] EXCEPT !.status = "delivered", !.by = "none"]
<1>1. /\ TypeOK /\ RowTied(a) /\ AdminTied(a) /\ row[a] \in Rows /\ cmd[a] \in Commands
      /\ row \in [Artifacts -> Rows] /\ cmd \in [Artifacts -> Commands]
  BY Given
<1>2. /\ job[c][a].attempts > 0 /\ job[c][a].gone /\ job' = [job EXCEPT ![c][a] = NoItem]
      /\ cmd' = [cmd EXCEPT ![a].status = "delivered", ![a].by = "none"]
      /\ row' = [row EXCEPT ![a].state = IF @ = "delete_pending" THEN "deleted" ELSE @]
      /\ UNCHANGED <<object, saving, admin, faults, locks>>
  BY DEF Delivered, Busy
<1>3. row' = [row EXCEPT ![a] = r] /\ cmd' = [cmd EXCEPT ![a] = m]
  BY <1>1, <1>2
<1>4. s \in States /\ (row[a].state # "delete_pending" => s = row[a].state)
      /\ (row[a].state = "delete_pending" => s = "deleted")
  BY <1>1 DEF Rows, States
<1> HIDE DEF s
<1>5. r \in Rows /\ r.state = s /\ r.hold = row[a].hold
  BY <1>1, <1>4 DEF Rows
<1>6. m \in Commands /\ m.status = "delivered"
  BY <1>1 DEF Commands, Statuses
<1> HIDE DEF r, m
<1>7. /\ row' \in [Artifacts -> Rows] /\ row'[a] = r
      /\ cmd' \in [Artifacts -> Commands] /\ cmd'[a] = m /\ Only(a)
  <2>1. row' \in [Artifacts -> Rows] /\ row'[a] = r /\ \A b \in Artifacts : b # a => row'[b] = row[b]
    BY <1>1, <1>3, <1>5
  <2>2. cmd' \in [Artifacts -> Commands] /\ cmd'[a] = m /\ \A b \in Artifacts : b # a => cmd'[b] = cmd[b]
    BY <1>1, <1>3, <1>6
  <2>3. \A d \in Coordinators, b \in Artifacts : b # a => job'[d][b] = job[d][b]
    BY <1>2, LetGo
  <2>4. QED
    BY <1>2, <2>1, <2>2, <2>3 DEF Only
<1>8. TypeOK'
  BY <1>1, <1>2, <1>7, LetGo, Types, TypesNext
<1>9. cmd[a].status # "none" /\ row[a].state \in Settling /\ ~row[a].hold /\ ~Kept(a)
  BY <1>1, <1>2 DEF RowTied
<1>10. RowTied(a)'
  BY <1>1, <1>2, <1>4, <1>5, <1>6, <1>7, <1>9, LetGo DEF RowTied, Kept, Settling
<1>11. AdminTied(a)'
  BY <1>1, <1>2, <1>4, <1>5, <1>7, <1>9 DEF AdminTied, Kept, Settling
<1>12. QED
  BY <1>7, <1>8, <1>10, <1>11, OneArtifact

(* A failed attempt: the holder settles the command, and whoever thinks it  *)
(* was the last attempt gives the row up.                                  *)
LEMMA FailsHolds ==
  ASSUME ConstantsAssumption, IInv, NEW a \in Artifacts, NEW c \in Coordinators, Fails(c, a)
  PROVE  IInv'
<1> DEFINE terminal == job[c][a].attempts >= MaxAttempts
           s == IF terminal /\ row[a].state = "delete_pending" THEN "delete_failed" ELSE row[a].state
           r == [row[a] EXCEPT !.state = s]
           t == IF terminal THEN "dead" ELSE "pending"
           m == [cmd[a] EXCEPT !.status = t, !.by = "none", !.lapsed = FALSE, !.ready = FALSE]
<1>1. /\ TypeOK /\ RowTied(a) /\ AdminTied(a) /\ row[a] \in Rows /\ cmd[a] \in Commands
      /\ row \in [Artifacts -> Rows] /\ cmd \in [Artifacts -> Commands] /\ faults \in 0..MaxFaults
  BY Given
<1>2. /\ job[c][a].attempts > 0 /\ job' = [job EXCEPT ![c][a] = NoItem]
      /\ faults' = faults \/ Fault
      /\ cmd' = [cmd EXCEPT ![a] = m] \/ cmd' = cmd
      /\ row' = [row EXCEPT ![a].state = IF terminal /\ @ = "delete_pending" THEN "delete_failed" ELSE @]
      /\ UNCHANGED <<object, saving, admin, locks>>
  BY DEF Fails, Busy
<1>3. row' = [row EXCEPT ![a] = r]
  BY <1>1, <1>2
<1>4. s \in States /\ (s = row[a].state \/ (row[a].state = "delete_pending" /\ s = "delete_failed"))
      /\ (terminal => s # "delete_pending")
  BY <1>1 DEF Rows, States
<1>5. t \in {"dead", "pending"} /\ (~terminal => t = "pending")
  OBVIOUS
<1> HIDE DEF terminal, s, t
<1>6. r \in Rows /\ r.state = s /\ r.hold = row[a].hold
  BY <1>1, <1>4 DEF Rows
<1>7. m \in Commands /\ m.status = t
  BY <1>1, <1>5 DEF Commands, Statuses
<1> HIDE DEF r, m
<1>8. /\ row' \in [Artifacts -> Rows] /\ row'[a] = r
      /\ cmd' \in [Artifacts -> Commands] /\ faults' \in 0..MaxFaults /\ Only(a)
  <2>1. row' \in [Artifacts -> Rows] /\ row'[a] = r /\ \A b \in Artifacts : b # a => row'[b] = row[b]
    BY <1>1, <1>3, <1>6
  <2>2. cmd' \in [Artifacts -> Commands] /\ \A b \in Artifacts : b # a => cmd'[b] = cmd[b]
    BY <1>1, <1>2, <1>7
  <2>3. faults' \in 0..MaxFaults
    BY <1>1, <1>2, FaultCounted
  <2>4. \A d \in Coordinators, b \in Artifacts : b # a => job'[d][b] = job[d][b]
    BY <1>2, LetGo
  <2>5. QED
    BY <1>2, <2>1, <2>2, <2>3, <2>4 DEF Only
<1>9. TypeOK'
  BY <1>1, <1>2, <1>8, LetGo, Types, TypesNext
<1>10. cmd[a].status # "none" /\ row[a].state \in Settling /\ ~row[a].hold
  BY <1>1, <1>2 DEF RowTied
<1>11. /\ cmd'[a] = cmd[a] \/ cmd'[a].status = t
       /\ row[a].state = "deleted" => cmd'[a].status = "delivered"
  <2>1. cmd' = [cmd EXCEPT ![a] = m] => row[a].state # "deleted"
    <3>1. cmd' = [cmd EXCEPT ![a] = m] => cmd'[a].status \in {"dead", "pending"}
      BY <1>1, <1>5, <1>7
    <3>2. Holds(c, a) => row[a].state # "deleted"
      BY <1>1 DEF Holds, RowTied
    <3>3. ~Holds(c, a) => cmd' = cmd
      BY DEF Fails
    <3>4. row[a].state = "deleted" => cmd[a].status = "delivered"
      BY <1>1 DEF RowTied
    <3>5. QED
      BY <3>1, <3>2, <3>3, <3>4
  <2>2. row[a].state = "deleted" => cmd[a].status = "delivered"
    BY <1>1 DEF RowTied
  <2>3. QED
    BY <1>1, <1>2, <1>7, <2>1, <2>2
<1>12. RowTied(a)'
  <2>1. s = "delete_pending" => cmd'[a].status \in {"pending", "delivering"}
    BY <1>1, <1>4, <1>5, <1>11 DEF RowTied
  <2>2. s = "deleted" => row[a].state = "deleted"
    BY <1>4
  <2>3. s \in Settling /\ s # "ready" /\ cmd'[a].status # "none" /\ s \notin {"none", "postgresql"}
    BY <1>4, <1>5, <1>10, <1>11 DEF Settling
  <2>4. /\ row'[a].state = s /\ ~row'[a].hold /\ Kept(a)' = Kept(a) /\ object' = object
        /\ a \notin saving
    BY <1>1, <1>2, <1>6, <1>8, <1>10 DEF RowTied, Kept, Settling
  <2>5. \A d \in Coordinators : job'[d][a].attempts > 0 =>
          cmd'[a].status # "none" /\ (job'[d][a].gone => ~Kept(a)')
    BY <1>1, <1>2, <2>3, <2>4, LetGo DEF RowTied
  <2>6. s = "deleted" => ~Kept(a)' /\ cmd'[a].status = "delivered"
    BY <1>1, <1>11, <2>2, <2>4 DEF RowTied
  <2>7. QED
    BY <1>2, <2>1, <2>3, <2>4, <2>5, <2>6 DEF RowTied
<1>13. AdminTied(a)'
  BY <1>1, <1>2, <1>4, <1>6, <1>8, <1>10 DEF AdminTied, Kept, Settling
<1>14. QED
  BY <1>8, <1>9, <1>12, <1>13, OneArtifact

LEMMA ClaimHolds ==
  ASSUME ConstantsAssumption, IInv, NEW c \in Coordinators, Claim(c)
  PROVE  IInv'
<1> DEFINE ids == {a \in Artifacts : Claimable(a)}
           mine == [a \in Artifacts |->
             IF a \in ids THEN [attempts |-> cmd[a].attempts + 1, gone |-> FALSE] ELSE NoItem]
<1>1. /\ TypeOK /\ Tied /\ \A a \in Artifacts : cmd[a] \in Commands
      /\ job \in [Coordinators -> [Artifacts -> Items]]
  BY Types DEF IInv
<1>2. /\ cmd' = [a \in Artifacts |->
           IF a \in ids
             THEN [cmd[a] EXCEPT !.status = "delivering", !.by = c, !.lapsed = FALSE, !.attempts = @ + 1]
             ELSE cmd[a]]
      /\ job' = [job EXCEPT ![c] = mine]
      /\ UNCHANGED <<row, object, saving, admin, faults, locks>>
  BY DEF Claim
<1>3. \A a \in ids : cmd[a].status \in {"pending", "delivering"}
  BY DEF Claimable
<1>4. \A a \in Artifacts : mine[a] \in Items /\ (a \notin ids => mine[a].attempts = 0) /\ ~mine[a].gone
  BY <1>1 DEF NoItem, Items, Commands
<1>5. mine \in [Artifacts -> Items]
  BY <1>4
<1> HIDE DEF ids, mine
<1>6. ASSUME NEW m \in Commands
      PROVE  LET q == [m EXCEPT !.status = "delivering", !.by = c, !.lapsed = FALSE, !.attempts = @ + 1]
             IN  q \in Commands /\ q.status = "delivering"
  <2>1. ASSUME NEW n \in Nat
        PROVE  LET q == [m EXCEPT !.status = "delivering", !.by = c, !.lapsed = FALSE, !.attempts = n]
               IN  q \in Commands /\ q.status = "delivering"
    BY DEF Commands, Statuses
  <2>2. m.attempts + 1 \in Nat
    BY DEF Commands
  <2>3. QED
    BY <2>1, <2>2
<1>7. \A a \in Artifacts : /\ cmd'[a] \in Commands
                           /\ IF a \in ids THEN cmd'[a].status = "delivering" ELSE cmd'[a] = cmd[a]
  BY <1>1, <1>2, <1>6
<1>8. cmd' \in [Artifacts -> Commands]
  <2>1. cmd' = [a \in Artifacts |-> cmd'[a]]
    BY <1>2
  <2>2. QED
    BY <1>7, <2>1
<1>9. /\ job' \in [Coordinators -> [Artifacts -> Items]] /\ job'[c] = mine
      /\ \A d \in Coordinators : d # c => job'[d] = job[d]
  BY <1>1, <1>2, <1>5
<1>10. TypeOK'
  BY <1>1, <1>2, <1>8, <1>9, Types, TypesNext
<1>11. ASSUME NEW a \in Artifacts PROVE RowTied(a)' /\ AdminTied(a)'
  <2>1. RowTied(a) /\ AdminTied(a)
    BY <1>1 DEF Tied
  <2>2. cmd'[a] = cmd[a] \/ (cmd[a].status \in {"pending", "delivering"} /\ cmd'[a].status = "delivering")
    BY <1>3, <1>7
  <2>3. \A d \in Coordinators : job'[d][a].attempts > 0 =>
          cmd'[a].status # "none" /\ (job'[d][a].gone => ~Kept(a))
    <3>1. \A d \in Coordinators : d # c => job'[d][a] = job[d][a]
      BY <1>9
    <3>2. job'[c][a].attempts > 0 => a \in ids /\ ~job'[c][a].gone
      BY <1>4, <1>9
    <3>3. a \in ids => cmd'[a].status # "none"
      BY <1>7
    <3>4. QED
      BY <2>1, <2>2, <3>1, <3>2, <3>3 DEF RowTied
  <2>4. AdminTied(a)'
    BY <1>2, <2>1 DEF AdminTied, Kept
  <2>5. RowTied(a)'
    BY <1>2, <2>1, <2>2, <2>3 DEF RowTied, Kept
  <2>6. QED
    BY <2>4, <2>5
<1>12. QED
  BY <1>10, <1>11 DEF IInv, Tied

LEMMA CrashHolds ==
  ASSUME ConstantsAssumption, IInv, NEW c \in Coordinators, Crash(c)
  PROVE  IInv'
<1>1. TypeOK /\ Tied /\ job \in [Coordinators -> [Artifacts -> Items]]
  BY Types DEF IInv
<1>2. /\ job' = [job EXCEPT ![c] = NoJob] /\ Fault /\ UNCHANGED <<row, cmd, object, saving, admin, locks>>
  BY DEF Crash
<1>3. NoJob \in [Artifacts -> Items] /\ \A a \in Artifacts : NoJob[a].attempts = 0
  BY DEF NoJob, NoItem, Items
<1>4. /\ job' \in [Coordinators -> [Artifacts -> Items]] /\ job'[c] = NoJob
      /\ \A d \in Coordinators : d # c => job'[d] = job[d]
  BY <1>1, <1>2, <1>3
<1>5. TypeOK'
  BY <1>1, <1>2, <1>4, FaultCounted, Types, TypesNext
<1>6. ASSUME NEW a \in Artifacts PROVE RowTied(a)' /\ AdminTied(a)'
  <2>1. RowTied(a) /\ AdminTied(a)
    BY <1>1 DEF Tied
  <2>2. \A d \in Coordinators : job'[d][a] = job[d][a] \/ ~(job'[d][a].attempts > 0)
    BY <1>3, <1>4
  <2>3. QED
    BY <1>2, <2>1, <2>2 DEF RowTied, AdminTied, Kept
<1>7. QED
  BY <1>5, <1>6 DEF IInv, Tied

(***************************************************************************)
(* The administrator's process.                                            *)
(***************************************************************************)
LEMMA IdleType == Idle \in Orders /\ Idle.op = "idle"
BY DEF Idle, Orders

LEMMA ProtectHolds ==
  ASSUME ConstantsAssumption, IInv, NEW a \in Artifacts, NEW hold \in BOOLEAN, Protect(a, hold)
  PROVE  IInv'
<1> DEFINE lock == IF hold THEN "hold" ELSE "until"
           o == IF locks THEN [object[a] EXCEPT !.lock = lock] ELSE object[a]
<1>1. object \in [Artifacts -> Objects] /\ object[a] \in Objects
  BY Given
<1>2. lock \in {"none", "until", "hold"}
  OBVIOUS
<1>3. object' = [object EXCEPT ![a] = o]
  BY <1>1 DEF Protect
<1> HIDE DEF lock
<1>4. o \in Objects /\ o.age = object[a].age
  BY <1>1, <1>2 DEF Objects
<1> HIDE DEF o
<1>5. admin' \in Orders /\ admin'.op = "protect" /\ UNCHANGED <<row, cmd, saving, job, faults, locks>>
  BY DEF Protect, Idle, Orders
<1>6. QED
  BY <1>3, <1>4, <1>5, ObjectStep

(* The hold is recorded for what is ready still, and has its bytes.        *)
LEMMA ProtectedHolds ==
  ASSUME ConstantsAssumption, IInv, NEW a \in Artifacts, Protected(a)
  PROVE  IInv'
<1> DEFINE h == admin.hold
           r == IF row[a].state = "ready" THEN [row[a] EXCEPT !.hold = h, !.due = FALSE] ELSE row[a]
<1>1. /\ TypeOK /\ RowTied(a) /\ AdminTied(a) /\ row[a] \in Rows /\ row \in [Artifacts -> Rows]
      /\ admin \in Orders
  BY Given
<1>2. /\ admin' = Idle /\ row' = [row EXCEPT ![a] = r]
      /\ UNCHANGED <<cmd, object, saving, job, faults, locks>>
  BY <1>1 DEF Protected
<1>3. h \in BOOLEAN
  BY <1>1 DEF Orders
<1> HIDE DEF h
<1>4. r \in Rows /\ r.state = row[a].state /\ (row[a].state = "ready" \/ r = row[a])
  BY <1>1, <1>3 DEF Rows
<1> HIDE DEF r
<1>5. row' \in [Artifacts -> Rows] /\ row'[a] = r /\ Only(a) /\ admin' \in Orders /\ admin'.op = "idle"
  BY <1>1, <1>2, <1>4, IdleType DEF Only
<1>6. TypeOK'
  BY <1>1, <1>2, <1>5, Types, TypesNext
<1>7. RowTied(a)'
  BY <1>1, <1>2, <1>4, <1>5 DEF RowTied, Kept, Settling
<1>8. AdminTied(a)'
  BY <1>5 DEF AdminTied
<1>9. QED
  BY <1>5, <1>6, <1>7, <1>8, OneArtifact

LEMMA MigrateHolds ==
  ASSUME ConstantsAssumption, IInv, NEW a \in Artifacts, Migrate(a)
  PROVE  IInv'
<1> DEFINE o == IF Kept(a) THEN object[a] ELSE New
<1>1. /\ TypeOK /\ RowTied(a) /\ AdminTied(a) /\ object \in [Artifacts -> Objects]
      /\ object[a] \in Objects /\ admin \in Orders /\ New \in Objects /\ New.age = "fresh"
  BY Given, NewType
<1>2. /\ row[a].state = "postgresql" /\ object' = [object EXCEPT ![a] = o]
      /\ admin' = [Idle EXCEPT !.op = "migrate", !.art = {a}]
      /\ UNCHANGED <<row, cmd, saving, job, faults, locks>>
  BY <1>1 DEF Migrate
<1>3. o \in Objects /\ o.age # "none"
  BY <1>1 DEF Kept
<1> HIDE DEF o
<1>4. admin' \in Orders /\ admin'.op = "migrate" /\ admin'.art = {a}
  BY <1>2 DEF Idle, Orders
<1>5. object' \in [Artifacts -> Objects] /\ object'[a] = o /\ Kept(a)' /\ Only(a)
  BY <1>1, <1>2, <1>3, <1>4 DEF Only, Kept
<1>6. TypeOK'
  BY <1>1, <1>2, <1>4, <1>5, Types, TypesNext
<1>7. RowTied(a)'
  BY <1>1, <1>2, <1>5 DEF RowTied, Settling
<1>8. AdminTied(a)'
  BY <1>2, <1>4, <1>5 DEF AdminTied
<1>9. QED
  BY <1>5, <1>6, <1>7, <1>8, OneArtifact

LEMMA MigratedToHolds ==
  ASSUME ConstantsAssumption, IInv, NEW a \in Artifacts, MigratedTo(a)
  PROVE  IInv'
<1> DEFINE r == [row[a] EXCEPT !.state = "ready"]
<1>1. /\ TypeOK /\ RowTied(a) /\ AdminTied(a) /\ row[a] \in Rows /\ row \in [Artifacts -> Rows]
  BY Given
<1>2. /\ admin.op = "migrate" /\ a \in admin.art /\ admin' = Idle /\ row' = [row EXCEPT ![a] = r]
      /\ UNCHANGED <<cmd, object, saving, job, faults, locks>>
  BY DEF MigratedTo
<1>3. r \in Rows /\ r.state = "ready" /\ r.hold = row[a].hold
  BY <1>1 DEF Rows, States
<1> HIDE DEF r
<1>4. row' \in [Artifacts -> Rows] /\ row'[a] = r /\ Only(a) /\ admin' \in Orders /\ admin'.op = "idle"
  BY <1>1, <1>2, <1>3, IdleType DEF Only
<1>5. TypeOK'
  BY <1>1, <1>2, <1>4, Types, TypesNext
<1>6. row[a].state = "postgresql" /\ Kept(a)
  BY <1>1, <1>2 DEF AdminTied
<1>7. RowTied(a)'
  BY <1>1, <1>2, <1>3, <1>4, <1>6 DEF RowTied, Kept, Settling
<1>8. AdminTied(a)'
  BY <1>4 DEF AdminTied
<1>9. QED
  BY <1>4, <1>5, <1>7, <1>8, OneArtifact

(* An orphan is deleted while nobody can put or claim it.                  *)
LEMMA DeleteOrphanHolds ==
  ASSUME ConstantsAssumption, IInv, NEW a \in Artifacts, DeleteOrphan(a)
  PROVE  IInv'
<1>1. /\ TypeOK /\ RowTied(a) /\ AdminTied(a) /\ object \in [Artifacts -> Objects] /\ admin \in Orders
  BY Given
<1>2. admin.op = "probed" /\ a \in admin.art /\ UNCHANGED <<row, cmd, saving, job, faults, locks>>
  BY DEF DeleteOrphan
<1>3. row[a].state \in {"none", "postgresql"} /\ a \notin saving
  BY <1>1, <1>2 DEF AdminTied
<1>4. CASE object[a].lock = "none" /\ Kept(a)
  <2>1. object' = [object EXCEPT ![a] = NoObject] /\ admin' = [admin EXCEPT !.art = @ \ {a}]
    BY <1>4 DEF DeleteOrphan
  <2>2. NoObject \in Objects /\ NoObject.age = "none"
    BY DEF NoObject, Objects
  <2>3. /\ admin' \in Orders /\ admin'.op = admin.op /\ admin'.art = admin.art \ {a}
        /\ admin'.seen = admin.seen
    BY <1>1, <2>1 DEF Orders
  <2>4. object' \in [Artifacts -> Objects] /\ object'[a] = NoObject /\ ~Kept(a)' /\ Only(a)
    BY <1>1, <1>2, <2>1, <2>2, <2>3 DEF Only, Kept
  <2>5. TypeOK'
    BY <1>1, <1>2, <2>3, <2>4, Types, TypesNext
  <2>6. RowTied(a)'
    BY <1>1, <1>2, <1>3, <2>4 DEF RowTied, Settling
  <2>7. AdminTied(a)'
    BY <1>1, <1>2, <1>3, <2>3, <2>4 DEF AdminTied
  <2>8. QED
    BY <2>4, <2>5, <2>6, <2>7, OneArtifact
<1>5. CASE ~(object[a].lock = "none" /\ Kept(a))
  <2>1. object' = object /\ admin' = Idle
    BY <1>5 DEF DeleteOrphan
  <2>2. Only(a) /\ TypeOK'
    BY <1>1, <1>2, <2>1, IdleType, Types, TypesNext DEF Only
  <2>3. RowTied(a)' /\ AdminTied(a)'
    BY <1>1, <1>2, <2>1, IdleType DEF RowTied, AdminTied, Kept
  <2>4. QED
    BY <2>2, <2>3, OneArtifact
<1>6. QED
  BY <1>4, <1>5

(* Looking changes nothing but what the process remembers.                 *)
LEMMA AdminStep ==
  ASSUME IInv, UNCHANGED <<row, cmd, object, saving, job, locks>>, faults' \in 0..MaxFaults,
         admin' \in Orders, \A a \in Artifacts : AdminTied(a)'
  PROVE  IInv'
<1>1. TypeOK /\ Tied
  BY DEF IInv
<1>2. TypeOK'
  BY <1>1, Types, TypesNext
<1>3. \A a \in Artifacts : RowTied(a)'
  BY <1>1 DEF Tied, RowTied, Kept
<1>4. QED
  BY <1>2, <1>3 DEF IInv, Tied

(* What is listed as an orphan is not on its way into a row.               *)
LEMMA ScanHolds == ASSUME ConstantsAssumption, IInv, Scan PROVE IInv'
<1> DEFINE orphans == {a \in Artifacts : object[a].age = "old" /\ ~InBucket(a)}
           known == {a \in Artifacts : InBucket(a) /\ row[a].state # "delete_pending"}
<1>1. /\ admin' = [Idle EXCEPT !.op = "scanned", !.art = orphans, !.seen = known]
      /\ UNCHANGED <<row, cmd, object, saving, job, locks, faults>>
  BY DEF Scan
<1>2. faults' \in 0..MaxFaults
  BY <1>1, Types DEF IInv
<1>3. /\ admin' \in Orders /\ admin'.op = "scanned" /\ admin'.art = orphans /\ admin'.seen = known
  BY <1>1 DEF Idle, Orders
<1>4. ASSUME NEW a \in Artifacts PROVE AdminTied(a)'
  <2>1. RowTied(a)
    BY DEF IInv, Tied
  <2>2. a \in orphans => row[a].state \in {"none", "postgresql"} /\ Kept(a) /\ a \notin saving
    BY <2>1 DEF RowTied, InBucket, Kept
  <2>3. a \in known => row[a].state \notin {"none", "postgresql"}
    BY DEF InBucket
  <2>4. QED
    BY <1>1, <1>3, <2>2, <2>3 DEF AdminTied, Kept
<1>5. QED
  BY <1>1, <1>2, <1>3, <1>4, AdminStep

LEMMA ProbeHolds == ASSUME ConstantsAssumption, IInv, Probe PROVE IInv'
<1> DEFINE bare == {a \in admin.seen : ~Kept(a)}
<1>1. /\ admin' = [admin EXCEPT !.op = "probed", !.seen = bare] /\ admin.op = "scanned"
      /\ UNCHANGED <<row, cmd, object, saving, job, locks, faults>>
  BY DEF Probe
<1>2. admin \in Orders /\ faults' \in 0..MaxFaults
  BY <1>1, Types DEF IInv
<1>3. bare \subseteq admin.seen /\ bare \in SUBSET Artifacts
  BY <1>2 DEF Orders
<1>4. \A a \in bare : ~Kept(a)
  OBVIOUS
<1> HIDE DEF bare
<1>5. admin' \in Orders /\ admin'.op = "probed" /\ admin'.art = admin.art /\ admin'.seen = bare
  BY <1>1, <1>2, <1>3 DEF Orders
<1>6. ASSUME NEW a \in Artifacts PROVE AdminTied(a)'
  <2>1. AdminTied(a)
    BY DEF IInv, Tied
  <2>2. QED
    BY <1>1, <1>3, <1>4, <1>5, <2>1 DEF AdminTied, Kept
<1>7. QED
  BY <1>1, <1>2, <1>5, <1>6, AdminStep

LEMMA KilledHolds == ASSUME ConstantsAssumption, IInv, Killed PROVE IInv'
<1>1. /\ admin' = Idle /\ UNCHANGED <<row, cmd, object, saving, job, locks>> /\ faults' \in 0..MaxFaults
  BY FaultCounted DEF Killed, IInv
<1>2. QED
  BY <1>1, IdleType, AdminStep DEF AdminTied

(* What is quarantined had lost its bytes when it was probed, so it was     *)
(* neither ready nor on hold, and nothing can have brought them back.      *)
LEMMA QuarantineHolds == ASSUME ConstantsAssumption, IInv, Quarantine PROVE IInv'
<1>1. /\ TypeOK /\ Tied /\ \A a \in Artifacts : row[a] \in Rows
  BY Types DEF IInv
<1>2. /\ admin.op = "probed" /\ admin' = Idle /\ UNCHANGED <<cmd, object, saving, job, faults, locks>>
      /\ row' = [a \in Artifacts |->
           IF a \in admin.seen /\ row[a].state # "deleted" THEN [row[a] EXCEPT !.state = "missing"] ELSE row[a]]
  BY DEF Quarantine
<1>3. ASSUME NEW r \in Rows
      PROVE  LET q == [r EXCEPT !.state = "missing"]
             IN  q \in Rows /\ q.state = "missing" /\ q.hold = r.hold
  BY DEF Rows, States
<1>4. \A a \in Artifacts :
        /\ row'[a] \in Rows
        /\ \/ row'[a] = row[a]
           \/ a \in admin.seen /\ row'[a].state = "missing" /\ row'[a].hold = row[a].hold
  BY <1>1, <1>2, <1>3
<1>5. row' \in [Artifacts -> Rows]
  <2>1. row' = [a \in Artifacts |-> row'[a]]
    BY <1>2
  <2>2. QED
    BY <1>4, <2>1
<1>6. TypeOK'
  BY <1>1, <1>2, <1>5, IdleType, Types, TypesNext
<1>7. ASSUME NEW a \in Artifacts PROVE RowTied(a)' /\ AdminTied(a)'
  <2>1. RowTied(a) /\ AdminTied(a)
    BY <1>1 DEF Tied
  <2>2. AdminTied(a)'
    BY <1>2, IdleType DEF AdminTied
  <2>3. CASE row'[a] = row[a]
    BY <1>2, <2>1, <2>2, <2>3 DEF RowTied, Kept
  <2>4. CASE a \in admin.seen /\ row'[a].state = "missing" /\ row'[a].hold = row[a].hold
    <3>1. row[a].state \notin {"none", "postgresql"} /\ ~Kept(a)
      BY <1>2, <2>1, <2>4 DEF AdminTied
    <3>2. QED
      BY <1>2, <2>1, <2>2, <2>4, <3>1 DEF RowTied, Kept, Settling
  <2>5. QED
    BY <1>4, <2>3, <2>4
<1>8. QED
  BY <1>6, <1>7 DEF IInv, Tied

(***************************************************************************)
(* The theorems.                                                           *)
(***************************************************************************)
LEMMA InitHolds == ASSUME ConstantsAssumption, Init PROVE IInv
<1>1. \A a \in Artifacts : row[a].state \in {"none", "postgresql"} /\ ~row[a].hold
  BY DEF Init
<1>2. row \in [Artifacts -> Rows]
  <2> DEFINE first == {[state |-> s, hold |-> FALSE, due |-> FALSE] : s \in {"none", "postgresql"}}
  <2>1. \A r \in first : r \in Rows
    <3>1. \A s \in {"none", "postgresql"} : [state |-> s, hold |-> FALSE, due |-> FALSE] \in Rows
      BY DEF Rows, States
    <3>2. QED
      BY <3>1
  <2>2. row \in [Artifacts -> first]
    BY DEF Init
  <2>3. QED
    BY <2>1, <2>2
<1>3. TypeOK
  <2>1. cmd \in [Artifacts -> Commands] /\ object \in [Artifacts -> Objects]
    BY DEF Init, Commands, Statuses, Objects, NoObject
  <2>2. job \in [Coordinators -> [Artifacts -> Items]] /\ admin \in Orders
    BY IdleType DEF Init, NoJob, NoItem, Items
  <2>3. QED
    BY <1>2, <2>1, <2>2, Types DEF Init, ConstantsAssumption
<1>4. \A a \in Artifacts : RowTied(a)
  BY <1>1 DEF Init, RowTied, NoJob, NoItem
<1>5. \A a \in Artifacts : AdminTied(a)
  BY DEF Init, AdminTied, Idle
<1>6. QED
  BY <1>3, <1>4, <1>5 DEF IInv, Tied

(* The invariant is inductive: each step keeps it, whatever came before.   *)
LEMMA StepHolds == ASSUME ConstantsAssumption, IInv, [Next]_vars PROVE IInv'
<1>1. ASSUME NEW a \in Artifacts,
             \/ Put(a) \/ Commit(a) \/ Rollback(a)
             \/ Stage(a) \/ Lapse(a) \/ BackoffEnds(a) \/ RetentionEnds(a) \/ LockEnds(a) \/ GraceEnds(a)
      PROVE  IInv'
  BY <1>1, PutHolds, CommitHolds, RollbackHolds, StageHolds, LapseHolds, BackoffEndsHolds,
     RetentionEndsHolds, LockEndsHolds
<1>2. ASSUME NEW a \in Artifacts,
             \/ \E hold \in BOOLEAN : Protect(a, hold)
             \/ Protected(a) \/ Migrate(a) \/ MigratedTo(a) \/ DeleteOrphan(a)
             \/ \E c \in Coordinators : Delete(c, a) \/ Delivered(c, a) \/ Fails(c, a)
      PROVE  IInv'
  BY <1>2, ProtectHolds, ProtectedHolds, MigrateHolds, MigratedToHolds, DeleteOrphanHolds,
     DeleteHolds, DeliveredHolds, FailsHolds
<1>3. ASSUME NEW c \in Coordinators, Claim(c) \/ Crash(c)
      PROVE  IInv'
  BY <1>3, ClaimHolds, CrashHolds
<1>4. CASE Scan \/ Probe \/ Quarantine \/ Killed
  BY <1>4, ScanHolds, ProbeHolds, QuarantineHolds, KilledHolds
<1>5. CASE UNCHANGED vars
  BY <1>5 DEF vars, IInv, TypeOK, Tied, RowTied, AdminTied, Kept
<1>6. QED
  BY <1>1, <1>2, <1>3, <1>4, <1>5 DEF Next

LEMMA Invariance == ASSUME ConstantsAssumption PROVE Spec => []IInv
<1>1. ConstantsAssumption /\ Init => IInv
  BY InitHolds
<1>2. ConstantsAssumption /\ IInv /\ [Next]_vars => IInv'
  BY StepHolds
<1>3. QED
  BY <1>1, <1>2, PTL DEF Spec

(* Every variable keeps its type, however often a claim lapses and its      *)
(* attempts are counted on.                                                *)
THEOREM Typed == ASSUME ConstantsAssumption PROVE Spec => []TypeOK
<1>1. IInv => TypeOK
  BY DEF IInv
<1>2. QED
  BY <1>1, Invariance, PTL

(* PostgreSQL and the bucket agree between any two steps of coordinators    *)
(* that stall and crash and of an administrator who protects, migrates and *)
(* reconciles meanwhile: no row that is ready or on hold loses its bytes.  *)
THEOREM RowsAndObjectsAgree == ASSUME ConstantsAssumption PROVE Spec => []RowsTellTheTruth
<1>1. IInv => RowsTellTheTruth
  BY TiedIsEnough DEF IInv
<1>2. QED
  BY <1>1, Invariance, PTL
===============================================================================
