--------------------------- MODULE MCSemanticJobs ---------------------------
(***************************************************************************)
(* Attempts overlap in no execution, or in the second one, when the first  *)
(* has left checkpoints, a published run or a failed one.                  *)
(***************************************************************************)
EXTENDS SemanticJobs

NoOverlap == [e \in 1 .. MaxExecutions |-> 0]
LateOverlap == <<0, 1>>
=============================================================================
