------------------------ MODULE MCOpportunityReview ------------------------
(***************************************************************************)
(* One opportunity with too little, just enough and plenty of evidence.    *)
(***************************************************************************)
EXTENDS OpportunityReview, TLC

CONSTANTS q1, q2, a1, a2

Symmetry == Permutations(Requests) \cup Permutations(Actions)
=============================================================================
