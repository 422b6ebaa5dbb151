-------------------------- MODULE AdmissionLedger --------------------------
(***************************************************************************)
(* What create_model_analysis_job (modules/analysis/semantic_jobs.py)      *)
(* promises those who upload: one ledger of admitted jobs.  A job enters   *)
(* it in a single step, once for each idempotency key and only if what the *)
(* day has reserved so far leaves room for it; the upload is told of the   *)
(* job in that step, and a later upload of the same key is told of the job *)
(* that is there.  There is no counter: the ledger itself is the account.  *)
(***************************************************************************)
EXTENDS Integers, FiniteSets

CONSTANTS
  Requests, Keys, Days,
  Calls, Cost,       \* what the job of a key reserves
  MaxCalls, MaxCost  \* the limits of a day

VARIABLES
  admitted,  \* the jobs, with what they reserve
  told       \* which upload was told of the job of which key

vars == << admitted, told >>

JobsOf(d) == {j \in admitted : j.day = d}
CallsOf(d) == Cardinality(UNION {{j} \X (1 .. j.calls) : j \in JobsOf(d)})
CostOf(d) == Cardinality(UNION {{j} \X (1 .. j.cost) : j \in JobsOf(d)})

Untold(r) == \A k \in Keys : << r, k >> \notin told

Init == admitted = {} /\ told = {}

Admit(r, k, d) ==
  /\ Untold(r)
  /\ \A j \in admitted : j.key # k
  /\ CallsOf(d) + Calls[k] <= MaxCalls
  /\ CostOf(d) + Cost[k] <= MaxCost
  /\ admitted' = admitted \cup
       {[request |-> r, key |-> k, day |-> d, calls |-> Calls[k], cost |-> Cost[k]]}
  /\ told' = told \cup {<< r, k >>}

Join(r, k) ==
  /\ Untold(r)
  /\ \E j \in admitted : j.key = k
  /\ told' = told \cup {<< r, k >>}
  /\ UNCHANGED admitted

Next ==
  \E r \in Requests, k \in Keys : Join(r, k) \/ \E d \in Days : Admit(r, k, d)

Spec == Init /\ [][Next]_vars
=============================================================================
