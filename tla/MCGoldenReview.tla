--------------------------- MODULE MCGoldenReview ---------------------------
(***************************************************************************)
(* Five voices of three signal types and three clusters, so that the       *)
(* strata overlap; one voice has a second signal, of a type and a cluster  *)
(* of its own.  Three examples are asked for, one is reviewed by four      *)
(* people.                                                                 *)
(***************************************************************************)
EXTENDS GoldenReview, TLC

CONSTANTS v1, v2, v3, v4, v5

Row(type, cluster) == [type |-> type, cluster |-> cluster]
MCSignalRows ==
  [v \in Voices |->
     CASE v = v3 -> {Row("expectation", "glass")}
       [] v = v4 -> {Row("defect", "lid")}
       [] v = v5 -> {Row("defect", "glass"), Row("praise", "handle")}
       [] OTHER  -> {Row("defect", "glass")}]

Symmetry == Permutations(Requests) \cup Permutations(Reviewers) \cup Permutations(Labels)
              \cup Permutations(Builders)
=============================================================================
