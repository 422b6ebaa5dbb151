--------------------------- MODULE BatchContract ---------------------------
(***************************************************************************)
(* What run_semantic_analysis promises its caller, whatever the provider   *)
(* does (semantic_persistence.py, docstring): a batch is published once    *)
(* and completely, or not at all, and the outcome is final.  Work is       *)
(* accounted for in pieces.  Only an answer becomes a checkpoint, and only *)
(* while the batch is open; at the latest it does so with its piece.       *)
(* Whether it becomes one earlier, the contract leaves open.               *)
(***************************************************************************)
CONSTANT Voices

VARIABLES
  phase,        \* "open", or the outcome
  answered,     \* voices with a valid answer
  accounted,    \* voices whose outcome is durable
  checkpoints   \* voices whose answer need not be bought again

vars == <<phase, answered, accounted, checkpoints>>

Outcomes == {"published", "rejected", "lost"}

TypeOK ==
  /\ phase \in {"open"} \cup Outcomes
  /\ answered \subseteq Voices
  /\ accounted \subseteq Voices
  /\ checkpoints \subseteq Voices

Init ==
  /\ phase = "open"
  /\ answered = {}
  /\ accounted = {}
  /\ checkpoints \in SUBSET Voices

(* Calls may still be answered when the batch has its outcome.             *)
Answer ==
  /\ \E v \in Voices \ answered :
       /\ answered' = answered \cup {v}
       /\ \/ UNCHANGED checkpoints
          \/ phase = "open" /\ checkpoints' = checkpoints \cup {v}
  /\ UNCHANGED <<phase, accounted>>

Advance ==
  /\ phase = "open"
  /\ \E piece \in (SUBSET (Voices \ accounted)) \ {{}} :
       /\ accounted' = accounted \cup piece
       /\ \E kept \in SUBSET answered :
            /\ checkpoints' = checkpoints \cup kept
            /\ piece \cap answered \subseteq checkpoints'
  /\ UNCHANGED <<phase, answered>>

Publish ==
  /\ phase = "open" /\ accounted = Voices
  /\ phase' = "published"
  /\ UNCHANGED <<answered, accounted, checkpoints>>

(* Refused by the code, or lost with its process.                          *)
Fail ==
  /\ phase = "open"
  /\ phase' \in {"rejected", "lost"}
  /\ UNCHANGED <<answered, accounted, checkpoints>>

Next == Answer \/ Advance \/ Publish \/ Fail

Spec == Init /\ [][Next]_vars
=============================================================================
