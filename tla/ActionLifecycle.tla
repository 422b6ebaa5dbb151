-------------------------- MODULE ActionLifecycle --------------------------
(***************************************************************************)
(* What an action item promises to those who read it: it is planned once,  *)
(* it ends at most once, it is completed only with a reported outcome, and  *)
(* a cancelled one is not reported on.                                     *)
(***************************************************************************)
CONSTANT Actions

VARIABLES
  stage,     \* where each action stands
  reported   \* whether a human has recorded an outcome of it

vars == << stage, reported >>

Init ==
  /\ stage = [a \in Actions |-> "none"]
  /\ reported = [a \in Actions |-> FALSE]

Plan(a) ==
  /\ stage[a] = "none"
  /\ stage' = [stage EXCEPT ![a] = "open"]
  /\ UNCHANGED reported

Report(a) ==
  /\ stage[a] \in {"open", "completed"}
  /\ reported' = [reported EXCEPT ![a] = TRUE]
  /\ UNCHANGED stage

Complete(a) ==
  /\ stage[a] = "open" /\ reported[a]
  /\ stage' = [stage EXCEPT ![a] = "completed"]
  /\ UNCHANGED reported

Cancel(a) ==
  /\ stage[a] = "open"
  /\ stage' = [stage EXCEPT ![a] = "cancelled"]
  /\ UNCHANGED reported

(* The outcome and the completion of one request. *)
ReportAndComplete(a) ==
  /\ stage[a] = "open"
  /\ stage' = [stage EXCEPT ![a] = "completed"]
  /\ reported' = [reported EXCEPT ![a] = TRUE]

Next ==
  \E a \in Actions :
    Plan(a) \/ Report(a) \/ Complete(a) \/ Cancel(a) \/ ReportAndComplete(a)

Spec == Init /\ [][Next]_vars
=============================================================================
