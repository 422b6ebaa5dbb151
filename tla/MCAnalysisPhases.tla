-------------------------- MODULE MCAnalysisPhases --------------------------
(***************************************************************************)
(* Two executions of one run, one of them with a wrong hash, and two runs  *)
(* of one scope that meet in publication.  Two gates before it, or one,    *)
(* are enough for phases to be recorded, refused, replayed and lost.       *)
(***************************************************************************)
EXTENDS AnalysisPhases, TLC

CONSTANTS r1, r2, e1, e2, ann, bob

TwoGates == << "validate", "quality_gate" >>
OneGate == << "quality_gate" >>

OneRun == [e \in Executions |-> r1]
TwoRuns == (e1 :> r1) @@ (e2 :> r2)

AnyInput == {Facts} \cup {Facts \ {f} : f \in {"signals", "matching"}}
MostlyGood == {Facts, Facts \ {"coverage"}}

Interchangeable == Permutations(Reviewers)

TwoVersions == [r \in Runs |-> 2]
OneRevision == (r1 :> 2) @@ (r2 :> 1)
=============================================================================
