-------------------------- MODULE ReleaseRegister --------------------------
(***************************************************************************)
(* What the release functions of modules/evaluation/service.py promise: a  *)
(* register of the model that is in use.  A model that passed its gates    *)
(* replaces it in one step, and only a model that was in use before can be *)
(* brought back.  Once there is a model in use there always is one.        *)
(***************************************************************************)
CONSTANT Evaluations  \* a release is named after the evaluation it rests on

VARIABLES
  inUse,  \* the active release, as a set
  past    \* the releases that were replaced or rolled back

vars == << inUse, past >>

Init == inUse = {} /\ past = {}

Activate(e) ==
  /\ e \notin inUse \cup past
  /\ inUse' = {e}
  /\ past' = past \cup inUse

Restore(e) ==
  /\ e \in past /\ inUse # {}
  /\ inUse' = {e}
  /\ past' = (past \ {e}) \cup inUse

Next == \E e \in Evaluations : Activate(e) \/ Restore(e)

Spec == Init /\ [][Next]_vars
=============================================================================
