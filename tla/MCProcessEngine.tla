--------------------------- MODULE MCProcessEngine ---------------------------
(***************************************************************************)
(* Small published graphs for ProcessEngine.                               *)
(***************************************************************************)
EXTENDS ProcessEngine

Node(kind, to) == [kind |-> kind, to |-> <<to>>]
Pick(kind, t1, t2) == [kind |-> kind, to |-> <<t1, t2>>]
EndStep == [kind |-> "end", to |-> <<>>]

(* Three branches -- an agent, a compensated call and a timer, and an inner *)
(* fork of a gated agent and a signal -- then a loop around one more        *)
(* compensated call.                                                        *)
TripGraph ==
  [trip  |-> Node("start", "part"),
   part  |-> [kind |-> "fork", to |-> <<"write", "hotel", "inner">>],
   write |-> Node("agent", "unite"),
   hotel |-> Node("http", "pause"),
   pause |-> Node("wait", "unite"),
   inner |-> Pick("fork", "ask", "reply"),
   ask   |-> Node("gated", "meet"),
   reply |-> Node("signal", "meet"),
   meet  |-> Node("join", "unite"),
   unite |-> Node("join", "again"),
   again |-> Pick("loop", "ticket", "home"),
   ticket |-> Node("http", "again"),
   home  |-> EndStep]

(* A parent that books and then, side by side, has an agent work that needs *)
(* an approval and, after a pause, runs a child; then it may tell somebody  *)
(* and have that signed.  The child pays and waits for a signal.            *)
FamilyGraph ==
  [start  |-> Node("start", "book"),
   book   |-> Node("http", "fork"),
   fork   |-> Pick("fork", "check", "rest"),
   rest   |-> Node("wait", "order"),
   check  |-> Node("gated", "join"),
   order  |-> Node("subprocess", "join"),
   join   |-> Node("join", "good"),
   good   |-> Pick("condition", "end", "tell"),
   tell   |-> Node("agent", "sign"),
   sign   |-> Node("approval", "end"),
   end    |-> EndStep,
   cstart |-> Node("start", "pay"),
   pay    |-> Node("http", "await"),
   await  |-> Node("signal", "report"),
   report |-> Node("internal", "cend"),
   cend   |-> EndStep]

BothGraphs == TripGraph @@ FamilyGraph
BothStart  == "t" :> "trip" @@ "p" :> "start" @@ "c" :> "cstart"
BothFork   == "unite" :> "part" @@ "meet" :> "inner" @@ "join" :> "fork"
BothChild  == "order" :> "c"
BothNodes  ==
  "t" :> DOMAIN TripGraph
    @@ "c" :> {"cstart", "pay", "await", "report", "cend"}
    @@ "p" :> DOMAIN FamilyGraph \ {"cstart", "pay", "await", "report", "cend"}

(* BOUND: a behaviour starts the trip or the family, not both.              *)
OneStarted == db.inst["t"] = "absent" \/ db.inst["p"] = "absent"
OneOfBoth  == Init /\ [][Next /\ OneStarted']_vars /\ Fairness

(* Two calls side by side, then a wait during which they can be undone.     *)
PairGraph ==
  [start |-> Node("start", "fork"),
   fork  |-> Pick("fork", "book", "pay"),
   book  |-> Node("http", "join"),
   pay   |-> Node("http", "join"),
   join  |-> Node("join", "pause"),
   pause |-> Node("wait", "end"),
   end   |-> EndStep]
PairStart == "p" :> "start"
PairFork  == "join" :> "fork"
PairNodes == "p" :> DOMAIN PairGraph

None == <<>>

(* A child that is started once a pause is over.                            *)
LaterGraph ==
  [start  |-> Node("start", "pause"),
   pause  |-> Node("wait", "order"),
   order  |-> Node("subprocess", "end"),
   end    |-> EndStep,
   cstart |-> Node("start", "write"),
   write  |-> Node("agent", "cend"),
   cend   |-> EndStep]
LaterStart == "p" :> "start" @@ "c" :> "cstart"
LaterChild == "order" :> "c"
LaterNodes == "p" :> {"start", "pause", "order", "end"} @@ "c" :> {"cstart", "write", "cend"}

(* All the graphs are orderly, as the theorems ask, but for the pair, whose  *)
(* first branch begins with a fragile call.                                 *)
ASSUME CalmSteps ==
  IF Instances = {"p"} THEN \A C \in SUBSET GNodes : ~CalmBy(C)
  ELSE CalmBy({"write", "hotel", "ask", "check"} \cap {To(f)[b] : <<f, b>> \in
                 {<<f, b>> \in GNodes \X (1..16) : Kind(f) = "fork" /\ b \in DOMAIN To(f)}})

(* The steps between each fork and its join: all the graphs are nested.     *)
Insides ==
  [f \in GNodes |->
     CASE f = "part"  -> {"write", "hotel", "pause", "inner", "ask", "reply", "meet", "unite"}
       [] f = "inner" -> {"ask", "reply", "meet"}
       [] f = "fork"  -> {To(f)[1], To(f)[2], "order", "join"} \cap GNodes
       [] OTHER       -> {}]
ASSUME NestedSteps == Nested(Insides)
=============================================================================
