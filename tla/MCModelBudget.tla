--------------------------- MODULE MCModelBudget ---------------------------
(***************************************************************************)
(* Three uploads over five batches and one midnight: two small batches     *)
(* that fit a day together, a batch whose retries are cut by the job       *)
(* limit, one larger than the job limit and an empty one.  A call costs    *)
(* one and a half quanta, so the reserved money is rounded.                *)
(***************************************************************************)
EXTENDS ModelBudget

CONSTANTS small, other, cut, large, empty

MCItems ==
  [k \in Keys |-> CASE k = small -> 1 [] k = other -> 1 [] k = cut -> 2
                    [] k = large -> 4 [] k = empty -> 0]
=============================================================================
