----------------------------- MODULE CallLedger -----------------------------
(***************************************************************************)
(* What the gateway promises of every tool call, whatever operators,       *)
(* workers, policies and restarts do: it is decided at most once, it goes  *)
(* upstream at most once and only while it is open, a closed call stays    *)
(* closed, and every open call is closed in the end.                       *)
(***************************************************************************)
EXTENDS Naturals

CONSTANT Keys      (* Identities of the calls: a lease and a client's id.    *)

VARIABLES
  phase,           (* "absent", "open" or "closed".                          *)
  times            (* How often the call was sent upstream.                  *)

vars == <<phase, times>>

Init == phase = [k \in Keys |-> "absent"] /\ times = [k \in Keys |-> 0]

Create(k) ==
  /\ phase[k] = "absent"
  /\ \E p \in {"open", "closed"} : phase' = [phase EXCEPT ![k] = p]
  /\ UNCHANGED times

Send(k) ==
  /\ phase[k] = "open" /\ times[k] = 0
  /\ times' = [times EXCEPT ![k] = 1]
  /\ UNCHANGED phase

(* One decision may close several calls: the kill switch, a sweep.         *)
Close(S) ==
  /\ \A k \in S : phase[k] = "open"
  /\ phase' = [k \in Keys |-> IF k \in S THEN "closed" ELSE phase[k]]
  /\ UNCHANGED times

Next == \/ \E k \in Keys : Create(k) \/ Send(k)
        \/ \E S \in SUBSET Keys : Close(S)

EveryCallCloses == \A k \in Keys : (phase[k] = "open") ~> (phase[k] = "closed")

Spec == Init /\ [][Next]_vars /\ EveryCallCloses
=============================================================================
