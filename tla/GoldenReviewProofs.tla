------------------------- MODULE GoldenReviewProofs -------------------------
(***************************************************************************)
(* Theorems about GoldenReview, for every run, sample, number of reviewers *)
(* and labels.                                                             *)
(***************************************************************************)
EXTENDS GoldenReview, SequenceTheorems, FiniteSetTheorems, WellFoundedInduction, TLAPS

Pending == {"pending_human_review", "pending_second_review"}

(* How far an example has come is told by its reviews and rulings alone:   *)
(* what the requests have loaded does not matter.                          *)
Undecided(v) == Len(reviews[v]) < 2 /\ example[v].status \in Pending /\ rulings[v] = {}

Agreed(v) ==
  /\ Len(reviews[v]) = 2 /\ reviews[v][1].label = reviews[v][2].label
  /\ example[v].status = "approved" /\ example[v].label = reviews[v][1].label
  /\ rulings[v] = {}

Disputed(v) ==
  /\ Len(reviews[v]) = 2 /\ reviews[v][1].label # reviews[v][2].label
  /\ example[v].status = "disputed" /\ rulings[v] = {}

Ruled(v) ==
  /\ Len(reviews[v]) = 2 /\ reviews[v][1].label # reviews[v][2].label
  /\ example[v].status = "approved"
  /\ \E ruling \in Review :
       /\ rulings[v] = {ruling} /\ example[v].label = ruling.label
       /\ ruling.reviewer \notin {reviews[v][1].reviewer, reviews[v][2].reviewer}

Sound(v) ==
  /\ Undecided(v) \/ Agreed(v) \/ Disputed(v) \/ Ruled(v)
  /\ Len(reviews[v]) = 2 => reviews[v][1].reviewer # reviews[v][2].reviewer
  /\ v \in evaluated => example[v].status = "approved"

IInv ==
  /\ TypeOK
  /\ \A v \in Voices : Sound(v)
  /\ \A q \in Requests : tx[q].on # None => tx[q].by \in Reviewers

USE DEF Pending

-----------------------------------------------------------------------------
LEMMA InitInvariant == Init => IInv
<1> SUFFICES ASSUME Init PROVE IInv
  OBVIOUS
<1>1. Blank \in Example
  BY DEF Blank, Example, ReviewStatus
<1>2. TypeOK
  BY <1>1 DEF Init, TypeOK, Request, Idle
<1>3. ASSUME NEW v \in Voices PROVE Sound(v)
  BY DEF Init, Sound, Undecided, Blank
<1> QED
  BY <1>2, <1>3 DEF IInv, Init, Idle

(* Where the columns, the reviews and the rulings of an example stay as    *)
(* they are, only the evaluations can matter.                              *)
LEMMA Unchanged ==
  ASSUME NEW v \in Voices, Sound(v),
         example'[v] = example[v], reviews'[v] = reviews[v], rulings'[v] = rulings[v],
         v \in evaluated' => example[v].status = "approved"
  PROVE  Sound(v)'
<1>1. Undecided(v) => Undecided(v)'
  BY DEF Undecided
<1>2. Agreed(v) => Agreed(v)'
  BY DEF Agreed
<1>3. Disputed(v) => Disputed(v)'
  BY DEF Disputed
<1>4. Ruled(v) => Ruled(v)'
  BY DEF Ruled
<1> QED
  BY <1>1, <1>2, <1>3, <1>4 DEF Sound

LEMMA OthersUnchanged ==
  ASSUME IInv, TypeOK', UNCHANGED << example, reviews, rulings >>,
         \A v \in evaluated' : v \in evaluated \/ example[v].status = "approved",
         \A q \in Requests : tx'[q] = tx[q] \/ tx'[q].on = None \/ tx'[q].by \in Reviewers
  PROVE  IInv'
<1>1. ASSUME NEW v \in Voices PROVE Sound(v)'
  <2>1. Sound(v)
    BY DEF IInv
  <2>2. v \in evaluated' => example[v].status = "approved"
    BY <2>1 DEF Sound
  <2> QED
    BY <2>1, <2>2, Unchanged
<1> QED
  BY <1>1 DEF IInv

LEMMA SubmitInvariant ==
  ASSUME IInv, NEW q \in Requests, NEW label \in Labels, SubmitReview(q, label)
  PROVE  IInv'
<1> PICK v \in Voices, r \in Reviewers : v = tx[q].on /\ r = tx[q].by
  BY DEF IInv, TypeOK, Request, SubmitReview
<1> DEFINE status == NextStatus(v, label)
           new == [reviewer |-> r, label |-> label]
           row == [status    |-> status,
                   reviewers |-> tx[q].seen.reviewers \cup {r},
                   label     |-> IF status = "approved" THEN label ELSE example[v].label]
<1>1. /\ status \in ReviewStatus
      /\ status = IF reviews[v] = << >> THEN "pending_second_review"
                  ELSE IF reviews[v][1].label = label THEN "approved" ELSE "disputed"
      /\ status = NextStatus(v, label)
  BY DEF NextStatus, ReviewStatus
<1>2. new \in Review /\ new.reviewer = r /\ new.label = label
  BY DEF Review
<1>3. /\ row \in Example /\ row.status = status
      /\ status = "approved" => row.label = label
  BY <1>1 DEF IInv, TypeOK, Example, Request
<1>4. /\ reviews' = [reviews EXCEPT ![v] = Append(reviews[v], new)]
      /\ example' = [example EXCEPT ![v] = row]
      /\ tx' = [tx EXCEPT ![q] = Idle]
      /\ UNCHANGED << sample, builder, rulings, evaluated >>
  BY DEF SubmitReview
<1>5. r \notin ReviewerIds(v) /\ Len(reviews[v]) < 2
  BY DEF SubmitReview, UniqueReviewer, ReviewMissing
<1> HIDE DEF status, new, row
<1>6. reviews[v] \in Seq(Review)
  BY DEF IInv, TypeOK
<1>7. /\ Append(reviews[v], new) \in Seq(Review)
      /\ Len(Append(reviews[v], new)) = Len(reviews[v]) + 1
      /\ \A i \in 1 .. Len(reviews[v]) : Append(reviews[v], new)[i] = reviews[v][i]
      /\ Append(reviews[v], new)[Len(reviews[v]) + 1] = new
  BY <1>2, <1>6, AppendProperties
<1>8. TypeOK'
  <2>1. example' \in [Voices -> Example] /\ reviews' \in [Voices -> Seq(Review)]
    BY <1>3, <1>4, <1>7 DEF IInv, TypeOK
  <2>2. Idle \in Request
    BY DEF Idle, Request, Blank, Example, ReviewStatus
  <2> QED
    BY <1>4, <2>1, <2>2 DEF IInv, TypeOK
<1>9. ASSUME NEW x \in Voices PROVE Sound(x)'
  <2>1. Sound(x)
    BY DEF IInv
  <2>2. CASE x # v
    <3>1. example'[x] = example[x] /\ reviews'[x] = reviews[x]
      BY <1>4, <2>2 DEF IInv, TypeOK
    <3> QED
      BY <1>4, <2>1, <3>1, Unchanged DEF Sound
  <2>3. CASE x = v
    <3>1. /\ example'[v] = row /\ reviews'[v] = Append(reviews[v], new) /\ rulings'[v] = rulings[v]
      BY <1>4 DEF IInv, TypeOK
    <3>2. Undecided(v) /\ v \notin evaluated
      BY <1>5, <2>1, <2>3 DEF Sound, Undecided, Agreed, Disputed, Ruled
    <3>3. CASE Len(reviews[v]) = 0
      <4>1. status = "pending_second_review"
        BY <1>1, <1>6, <3>3, EmptySeq
      <4>2. Len(reviews'[v]) = 1
        BY <1>7, <3>1, <3>3
      <4> QED
        BY <1>3, <1>4, <2>3, <3>1, <3>2, <4>1, <4>2 DEF Sound, Undecided
    <3>4. CASE Len(reviews[v]) = 1
      <4>1. /\ Len(reviews'[v]) = 2 /\ reviews'[v][1] = reviews[v][1] /\ reviews'[v][2] = new
        BY <1>7, <3>1, <3>4
      <4>2. status = IF reviews[v][1].label = label THEN "approved" ELSE "disputed"
        BY <1>1, <3>4
      <4>3. reviews[v][1].reviewer # r
        <5>1. 1 \in DOMAIN reviews[v]
          BY <1>6, <3>4
        <5> QED
          BY <1>5, <5>1 DEF ReviewerIds
      <4>4. CASE reviews[v][1].label = label
        BY <1>2, <1>3, <1>4, <2>3, <3>1, <3>2, <4>1, <4>2, <4>3, <4>4 DEF Sound, Undecided, Agreed
      <4>5. CASE reviews[v][1].label # label
        BY <1>2, <1>3, <1>4, <2>3, <3>1, <3>2, <4>1, <4>2, <4>3, <4>5 DEF Sound, Undecided, Disputed
      <4> QED
        BY <4>4, <4>5
    <3>5. Len(reviews[v]) \in Nat
      BY <1>6, LenProperties
    <3>6. \A n \in Nat : n < 2 => n = 0 \/ n = 1
      OBVIOUS
    <3> QED
      BY <1>5, <3>3, <3>4, <3>5, <3>6
  <2> QED
    BY <2>2, <2>3
<1>10. \A p \in Requests : tx'[p].on # None => tx'[p].by \in Reviewers
  BY <1>4 DEF IInv, TypeOK, Idle
<1> QED
  BY <1>8, <1>9, <1>10 DEF IInv

LEMMA AdjudicateInvariant ==
  ASSUME IInv, NEW v \in Voices, NEW r \in Reviewers, NEW label \in Labels, Adjudicate(v, r, label)
  PROVE  IInv'
<1> DEFINE ruling == [reviewer |-> r, label |-> label]
           row == [status |-> "approved", reviewers |-> example[v].reviewers \cup {r}, label |-> label]
<1>1. ruling \in Review /\ ruling.reviewer = r /\ ruling.label = label
  BY DEF Review
<1>2. row \in Example /\ row.status = "approved" /\ row.label = label
  BY DEF IInv, TypeOK, Example, ReviewStatus
<1>3. /\ rulings' = [rulings EXCEPT ![v] = rulings[v] \cup {ruling}]
      /\ example' = [example EXCEPT ![v] = row]
      /\ UNCHANGED << sample, builder, reviews, evaluated, tx >>
      /\ example[v].status = "disputed" /\ r \notin ReviewerIds(v)
  BY DEF Adjudicate, UniqueReviewer
<1> HIDE DEF ruling, row
<1>4. TypeOK'
  BY <1>1, <1>2, <1>3 DEF IInv, TypeOK
<1>5. ASSUME NEW x \in Voices PROVE Sound(x)'
  <2>1. Sound(x)
    BY DEF IInv
  <2>2. CASE x # v
    <3>1. example'[x] = example[x] /\ rulings'[x] = rulings[x] /\ reviews'[x] = reviews[x]
      BY <1>3, <2>2 DEF IInv, TypeOK
    <3> QED
      BY <1>3, <2>1, <3>1, Unchanged DEF Sound
  <2>3. CASE x = v
    <3>1. Disputed(v)
      BY <1>3, <2>1, <2>3 DEF Sound, Undecided, Agreed, Ruled
    <3>2. example'[v] = row /\ rulings'[v] = {ruling} /\ reviews'[v] = reviews[v]
      BY <1>3, <3>1 DEF IInv, TypeOK, Disputed
    <3>3. r \notin {reviews[v][1].reviewer, reviews[v][2].reviewer}
      <4>1. 1 \in DOMAIN reviews[v] /\ 2 \in DOMAIN reviews[v]
        BY <3>1 DEF IInv, TypeOK, Disputed
      <4> QED
        BY <1>3, <4>1 DEF ReviewerIds
    <3>4. Ruled(v)'
      BY <1>1, <1>2, <3>1, <3>2, <3>3 DEF Disputed, Ruled
    <3> QED
      BY <1>2, <2>1, <2>3, <3>2, <3>4 DEF Sound
  <2> QED
    BY <2>2, <2>3
<1> QED
  BY <1>3, <1>4, <1>5 DEF IInv

LEMMA NextInvariant == IInv /\ [Next]_vars => IInv'
<1> SUFFICES ASSUME IInv, [Next]_vars PROVE IInv'
  OBVIOUS
<1>1. ASSUME NEW b \in Builders, Draw(b) \/ InsertSample(b) PROVE IInv'
  <2>1. TypeOK' /\ UNCHANGED << example, reviews, rulings, evaluated, tx >>
    BY <1>1 DEF IInv, TypeOK, Draw, InsertSample
  <2> QED
    BY <2>1, OthersUnchanged
<1>2. ASSUME NEW q \in Requests, NEW v \in Voices, NEW r \in Reviewers, LoadExample(q, v, r)
      PROVE  IInv'
  <2> DEFINE w == [on |-> v, by |-> r, seen |-> example[v]]
  <2>1. w \in Request /\ w.by = r
    BY DEF IInv, TypeOK, Request
  <2>2. tx' = [tx EXCEPT ![q] = w] /\ UNCHANGED << sample, builder, example, reviews, rulings, evaluated >>
    BY <1>2 DEF LoadExample
  <2> HIDE DEF w
  <2>3. TypeOK' /\ \A p \in Requests : tx'[p] = tx[p] \/ tx'[p].by \in Reviewers
    BY <2>1, <2>2 DEF IInv, TypeOK
  <2> QED
    BY <2>2, <2>3, OthersUnchanged
<1>3. ASSUME NEW q \in Requests, Refuse(q) PROVE IInv'
  <2>1. Idle \in Request /\ Idle.on = None
    BY DEF Idle, Request, Blank, Example, ReviewStatus
  <2>2. /\ TypeOK' /\ UNCHANGED << sample, builder, example, reviews, rulings, evaluated >>
        /\ \A p \in Requests : tx'[p] = tx[p] \/ tx'[p].on = None
    BY <1>3, <2>1 DEF IInv, TypeOK, Refuse
  <2> QED
    BY <2>2, OthersUnchanged
<1>4. ASSUME NEW q \in Requests, NEW label \in Labels, SubmitReview(q, label) PROVE IInv'
  BY <1>4, SubmitInvariant
<1>5. ASSUME NEW v \in Voices, NEW r \in Reviewers, NEW label \in Labels, Adjudicate(v, r, label)
      PROVE  IInv'
  BY <1>5, AdjudicateInvariant
<1>6. ASSUME NEW golden \in SUBSET sample, Evaluate(golden) PROVE IInv'
  <2>1. /\ TypeOK' /\ UNCHANGED << example, reviews, rulings, tx >>
        /\ \A v \in evaluated' : v \in evaluated \/ example[v].status = "approved"
    BY <1>6 DEF IInv, TypeOK, Evaluate
  <2> QED
    BY <2>1, OthersUnchanged
<1>7. CASE UNCHANGED vars
  <2>1. TypeOK' /\ UNCHANGED << example, reviews, rulings, evaluated, tx >>
    BY <1>7 DEF vars, IInv, TypeOK
  <2> QED
    BY <2>1, OthersUnchanged
<1> QED
  BY <1>1, <1>2, <1>3, <1>4, <1>5, <1>6, <1>7 DEF Next

-----------------------------------------------------------------------------
(* The stage of an example is a function of its committed reviews and      *)
(* rulings.                                                                *)
THEOREM InductiveInvariant == Spec => []IInv
<1> QED
  BY InitInvariant, NextInvariant, PTL DEF Spec

(* Every row is one the schema allows. *)
THEOREM TypeCorrect == Spec => []TypeOK
<1>1. IInv => TypeOK
  BY DEF IInv
<1> QED
  BY <1>1, InductiveInvariant, PTL

(* Two different reviewers agreed on the label of an approved example, or  *)
(* a third person decided (service.py 242-374); evaluations rest on        *)
(* approved examples only (service.py 386-389).                            *)
THEOREM EveryApprovalEarned == Spec => []ApprovalIsEarned
<1>1. IInv => ApprovalIsEarned
  <2> SUFFICES ASSUME IInv, NEW v \in Voices
               PROVE  /\ v \in evaluated => example[v].status = "approved"
                      /\ example[v].status = "approved" => Agreed(v) \/ Ruled(v)
                      /\ example[v].status = "approved" => reviews[v][1].reviewer # reviews[v][2].reviewer
    BY DEF ApprovalIsEarned, Agreed, Ruled
  <2>1. Sound(v)
    BY DEF IInv
  <2> QED
    BY <2>1 DEF Sound, Undecided, Agreed, Disputed, Ruled
<1> QED
  BY <1>1, InductiveInvariant, PTL

(* A late review finds two reviews and is refused (service.py 281), a      *)
(* ruling finds no dispute (service.py 349): an approved label stands.     *)
THEOREM ApprovalsStand == Spec => ApprovedIsFinal
<1>1. IInv /\ [Next]_vars =>
        [\A v \in Voices : example[v].status = "approved" =>
           example'[v].status = "approved" /\ example'[v].label = example[v].label]_vars
  <2> SUFFICES ASSUME IInv, Next, NEW v \in Voices, example[v].status = "approved"
               PROVE  example'[v] = example[v]
    OBVIOUS
  <2>1. Sound(v)
    BY DEF IInv
  <2>2. ASSUME NEW q \in Requests, NEW label \in Labels, SubmitReview(q, label)
        PROVE  example'[v] = example[v]
    <3>1. tx[q].on # v
      BY <2>1, <2>2 DEF SubmitReview, ReviewMissing, Sound, Undecided, Agreed, Disputed, Ruled
    <3> QED
      BY <2>2, <3>1 DEF SubmitReview, IInv, TypeOK
  <2>3. ASSUME NEW x \in Voices, NEW r \in Reviewers, NEW label \in Labels, Adjudicate(x, r, label)
        PROVE  example'[v] = example[v]
    <3>1. x # v
      BY <2>3 DEF Adjudicate
    <3> QED
      BY <2>3, <3>1 DEF Adjudicate, IInv, TypeOK
  <2> QED
    BY <2>2, <2>3 DEF Next, Draw, InsertSample, LoadExample, Refuse, Evaluate
<1> QED
  BY <1>1, InductiveInvariant, PTL DEF Spec, ApprovedIsFinal

-----------------------------------------------------------------------------
(* A set of numbers that is not empty has a least element.                 *)
LEMMA LeastNumber ==
  ASSUME NEW S, S \subseteq Nat, S # {}
  PROVE  \E m \in S : \A k \in S : m <= k
<1>1. PICK m \in S : \A k \in S : << k, m >> \notin OpToRel(<, Nat)
  BY NatLessThanWellFounded, WFMin
<1>2. ASSUME NEW k \in S PROVE m <= k
  <2>1. k \in Nat /\ m \in Nat
    OBVIOUS
  <2>2. ~ (k < m)
    BY <1>1, <2>1 DEF OpToRel
  <2> QED
    BY <2>1, <2>2
<1> QED
  BY <1>2

(* Induction along an interval, for a claim that is stated as the set of   *)
(* the numbers it holds of.                                                *)
LEMMA IntervalInduction ==
  ASSUME NEW N \in Nat, NEW S, 0 \in S,
         \A n \in 0 .. N : n < N /\ n \in S => n + 1 \in S
  PROVE  \A n \in 0 .. N : n \in S
<1> DEFINE Missing == (0 .. N) \ S
<1> SUFFICES ASSUME Missing # {} PROVE FALSE
  OBVIOUS
<1>1. PICK m \in Missing : \A k \in Missing : m <= k
  <2>1. Missing \subseteq Nat
    OBVIOUS
  <2> HIDE DEF Missing
  <2> QED
    BY <2>1, LeastNumber
<1>2. m # 0
  OBVIOUS
<1>3. m - 1 \in 0 .. N /\ m - 1 < N /\ ~ (m <= m - 1) /\ (m - 1) + 1 = m
  BY <1>2
<1>4. m - 1 \in S
  BY <1>1, <1>3
<1> QED
  BY <1>3, <1>4

(* A function over an interval may be defined by its value at 0 and a step *)
(* from each value to the next.                                            *)
HasChain(N, T, first, step) ==
  \E f \in [0 .. N -> T] :
    f[0] = first /\ \A n \in 1 .. N : f[n] = step[<< f[n - 1], n >>]

LEMMA ChainExists ==
  ASSUME NEW N \in Nat, NEW T, NEW first \in T, NEW step \in [T \X (1 .. N) -> T]
  PROVE  HasChain(N, T, first, step)
<1> DEFINE Chain(f, m) == f[0] = first /\ \A n \in 1 .. m : f[n] = step[<< f[n - 1], n >>]
           S == {m \in 0 .. N : \E f \in [0 .. m -> T] : Chain(f, m)}
<1>1. 0 \in S
  <2> DEFINE g == [n \in 0 .. 0 |-> first]
  <2>1. g \in [0 .. 0 -> T] /\ Chain(g, 0)
    OBVIOUS
  <2> HIDE DEF g
  <2> QED
    BY <2>1
<1>2. ASSUME NEW m \in 0 .. N, m < N, m \in S PROVE m + 1 \in S
  <2>1. PICK f \in [0 .. m -> T] : Chain(f, m)
    BY <1>2
  <2> DEFINE g == [n \in 0 .. m + 1 |-> IF n = m + 1 THEN step[<< f[m], m + 1 >>] ELSE f[n]]
  <2>2. f[m] \in T /\ m + 1 \in 1 .. N
    BY <1>2
  <2>3. step[<< f[m], m + 1 >>] \in T
    BY <2>2
  <2>4. g \in [0 .. m + 1 -> T]
    BY <2>3
  <2>5. ASSUME NEW n \in 1 .. m + 1 PROVE g[n] = step[<< g[n - 1], n >>]
    <3>1. CASE n = m + 1
      <4>1. n - 1 = m /\ m \in 0 .. m + 1 /\ m # m + 1 /\ n \in 0 .. m + 1
        BY <3>1
      <4>2. g[n] = step[<< f[m], n >>] /\ g[n - 1] = f[m]
        BY <3>1, <4>1
      <4> QED
        BY <4>1, <4>2
    <3>2. CASE n # m + 1
      <4>1. n \in 1 .. m /\ n - 1 \in 0 .. m + 1 /\ n - 1 # m + 1
        BY <3>2
      <4> QED
        BY <2>1, <3>2, <4>1
    <3> QED
      BY <3>1, <3>2
  <2>6. g[0] = first
    BY <2>1
  <2> HIDE DEF g
  <2>7. Chain(g, m + 1)
    BY <2>5, <2>6
  <2> QED
    BY <2>2, <2>4, <2>7
<1>3. N \in S
  <2> HIDE DEF S
  <2> QED
    BY <1>1, <1>2, IntervalInduction
<1> QED
  BY <1>3 DEF HasChain

-----------------------------------------------------------------------------
(* The strata can be put in some order, and in it none is missing.         *)
LEMMA SortedIsComplete ==
  ASSUME NEW strata, IsFiniteSet(strata)
  PROVE  /\ Sorted(strata) \in Seq(strata)
         /\ \A stratum \in strata :
              \E n \in 1 .. Len(Sorted(strata)) : Sorted(strata)[n] = stratum
<1> DEFINE N == Cardinality(strata)
           Injective(s) == \A i, j \in DOMAIN s : i # j => s[i] # s[j]
<1>1. N \in Nat /\ \E s \in Bijection(1 .. N, strata) : TRUE
  BY FS_CardinalityType DEF ExistsBijection
<1>2. PICK s \in [1 .. N -> strata] : Injective(s)
  BY <1>1 DEF Bijection, Injection, IsInjective
<1>3. Sorted(strata) \in [1 .. N -> strata] /\ Injective(Sorted(strata))
  BY <1>2 DEF Sorted
<1>4. Sorted(strata) \in Injection(1 .. N, strata)
  BY <1>3 DEF Injection, IsInjective
<1>5. Cardinality(1 .. N) = N
  BY <1>1, FS_Interval
<1>6. Sorted(strata) \in Surjection(1 .. N, strata)
  <2> HIDE DEF N
  <2>1. N = Cardinality(strata)
    BY DEF N
  <2> QED
    BY <1>4, <1>5, <2>1, FS_Injection
<1>7. Sorted(strata) \in Seq(strata) /\ Len(Sorted(strata)) = N
  BY <1>1, <1>3
<1> QED
  BY <1>6, <1>7 DEF Surjection

LEMMA StrataAreFinite ==
  ASSUME NEW latest
  PROVE  IsFiniteSet(SignalStrata(latest)) /\ IsFiniteSet(ClusterStrata(latest))
<1>1. IsFiniteSet(Voices)
  BY VoicesAssumption
<1>2. IsFiniteSet(SignalStrata(latest))
  <2> DEFINE f == [v \in Voices |-> {w \in Voices : latest[w].type = latest[v].type}]
  <2>1. f \in [Voices -> SignalStrata(latest)]
    BY DEF SignalStrata
  <2>2. ASSUME NEW stratum \in SignalStrata(latest) PROVE \E v \in Voices : f[v] = stratum
    BY DEF SignalStrata
  <2>3. f \in Surjection(Voices, SignalStrata(latest))
    BY <2>1, <2>2 DEF Surjection
  <2> HIDE DEF f
  <2> QED
    BY <1>1, <2>3, FS_Surjection
<1>3. IsFiniteSet(ClusterStrata(latest))
  <2> DEFINE f == [v \in Voices |-> {w \in Voices : latest[w].cluster = latest[v].cluster}]
  <2>1. f \in [Voices -> ClusterStrata(latest)]
    BY DEF ClusterStrata
  <2>2. ASSUME NEW stratum \in ClusterStrata(latest) PROVE \E v \in Voices : f[v] = stratum
    BY DEF ClusterStrata
  <2>3. f \in Surjection(Voices, ClusterStrata(latest))
    BY <2>1, <2>2 DEF Surjection
  <2> HIDE DEF f
  <2> QED
    BY <1>1, <2>3, FS_Surjection
<1> QED
  BY <1>2, <1>3

LEMMA ConcatHalves ==
  ASSUME NEW S, NEW s \in Seq(S), NEW t \in Seq(S)
  PROVE  /\ s \o t \in Seq(S)
         /\ Len(s \o t) = Len(s) + Len(t)
         /\ \A n \in 1 .. Len(s) : (s \o t)[n] = s[n]
         /\ \A n \in 1 .. Len(t) : (s \o t)[Len(s) + n] = t[n]
<1>1. Len(s) \in Nat /\ Len(t) \in Nat
  OBVIOUS
<1>2. ASSUME NEW n \in 1 .. Len(t) PROVE (s \o t)[Len(s) + n] = t[n]
  <2>1. Len(s) + n \in 1 .. Len(s) + Len(t) /\ ~ (Len(s) + n <= Len(s)) /\ Len(s) + n - Len(s) = n
    BY <1>1
  <2> QED
    BY <2>1, ConcatProperties
<1>3. ASSUME NEW n \in 1 .. Len(s) PROVE (s \o t)[n] = s[n]
  <2>1. n \in 1 .. Len(s) + Len(t) /\ n <= Len(s)
    BY <1>1
  <2> QED
    BY <2>1, ConcatProperties
<1> QED
  BY <1>2, <1>3, ConcatProperties

LEMMA StrataAreComplete ==
  ASSUME NEW latest
  PROVE  /\ Strata(latest) \in Seq(SUBSET Voices)
         /\ \A stratum \in AllStrata(latest) :
              \E n \in 1 .. Len(Strata(latest)) : Strata(latest)[n] = stratum
<1> DEFINE tags == << Safety, MultiTurn >>
           signals == Sorted(SignalStrata(latest))
           clusters == Sorted(ClusterStrata(latest))
<1>1. tags \in Seq(SUBSET Voices) /\ Len(tags) = 2 /\ tags[1] = Safety /\ tags[2] = MultiTurn
  BY TagsAssumption
<1>2. /\ signals \in Seq(SignalStrata(latest))
      /\ \A stratum \in SignalStrata(latest) : \E n \in 1 .. Len(signals) : signals[n] = stratum
  BY StrataAreFinite, SortedIsComplete
<1>3. /\ clusters \in Seq(ClusterStrata(latest))
      /\ \A stratum \in ClusterStrata(latest) : \E n \in 1 .. Len(clusters) : clusters[n] = stratum
  BY StrataAreFinite, SortedIsComplete
<1>4. SignalStrata(latest) \subseteq SUBSET Voices /\ ClusterStrata(latest) \subseteq SUBSET Voices
  BY DEF SignalStrata, ClusterStrata
<1>5. Strata(latest) = (tags \o signals) \o clusters
  BY DEF Strata
<1> HIDE DEF tags, signals, clusters
<1>6. signals \in Seq(SUBSET Voices) /\ clusters \in Seq(SUBSET Voices)
  BY <1>2, <1>3, <1>4
<1> DEFINE Rows == SUBSET Voices
           both == tags \o signals
<1> HIDE DEF Rows
<1>7. /\ both \in Seq(Rows)
      /\ Len(both) = Len(tags) + Len(signals)
      /\ \A n \in 1 .. Len(tags) : both[n] = tags[n]
      /\ \A n \in 1 .. Len(signals) : both[Len(tags) + n] = signals[n]
  <2>1. tags \in Seq(Rows) /\ signals \in Seq(Rows)
    BY <1>1, <1>6 DEF Rows
  <2> QED
    BY <2>1, ConcatHalves
<1> HIDE DEF both
<1>8. /\ Strata(latest) \in Seq(Rows)
      /\ Len(Strata(latest)) = Len(both) + Len(clusters)
      /\ \A n \in 1 .. Len(both) : Strata(latest)[n] = both[n]
      /\ \A n \in 1 .. Len(clusters) : Strata(latest)[Len(both) + n] = clusters[n]
  <2>1. clusters \in Seq(Rows) /\ Strata(latest) = both \o clusters
    BY <1>5, <1>6 DEF Rows, both
  <2>0. both \in Seq(Rows) /\ clusters \in Seq(Rows)
    BY <1>7, <2>1
  <2> DEFINE all == both \o clusters
  <2>2. /\ all \in Seq(Rows)
        /\ Len(all) = Len(both) + Len(clusters)
        /\ \A n \in 1 .. Len(both) : all[n] = both[n]
        /\ \A n \in 1 .. Len(clusters) : all[Len(both) + n] = clusters[n]
    BY <2>0, ConcatHalves
  <2> HIDE DEF all
  <2>3. Strata(latest) = all
    <3>1. all = both \o clusters
      BY DEF all
    <3> QED
      BY <2>1, <3>1, Zenon
  <2> QED
    BY <2>2, <2>3
<1>9. Len(tags) = 2 /\ Len(signals) \in Nat /\ Len(clusters) \in Nat
  BY <1>1, <1>6, LenProperties
<1>10. ASSUME NEW stratum \in AllStrata(latest)
       PROVE  \E n \in 1 .. Len(Strata(latest)) : Strata(latest)[n] = stratum
  <2>1. CASE stratum \in {Safety, MultiTurn}
    <3>1. PICK n \in 1 .. Len(tags) : tags[n] = stratum
      BY <1>1, <2>1
    <3>2. n \in 1 .. Len(both) /\ n \in 1 .. Len(Strata(latest))
      BY <1>7, <1>8, <1>9
    <3> QED
      BY <1>7, <1>8, <3>1, <3>2
  <2>2. CASE stratum \in SignalStrata(latest)
    <3>1. PICK n \in 1 .. Len(signals) : signals[n] = stratum
      BY <1>2, <2>2
    <3>2. Len(tags) + n \in 1 .. Len(both) /\ Len(tags) + n \in 1 .. Len(Strata(latest))
      BY <1>7, <1>8, <1>9
    <3> QED
      BY <1>7, <1>8, <3>1, <3>2
  <2>3. CASE stratum \in ClusterStrata(latest)
    <3>1. PICK n \in 1 .. Len(clusters) : clusters[n] = stratum
      BY <1>3, <2>3
    <3>2. Len(both) + n \in 1 .. Len(Strata(latest))
      BY <1>7, <1>8, <1>9
    <3> QED
      BY <1>8, <3>1, <3>2
  <2> QED
    BY <2>1, <2>2, <2>3 DEF AllStrata
<1> QED
  BY <1>8, <1>10 DEF Rows
(* take_first takes a row whenever there is one.                           *)
LEMMA FirstOfTakes ==
  ASSUME NEW order \in Orders, NEW rows \in SUBSET Voices
  PROVE  /\ FirstOf(rows, order) \subseteq rows
         /\ rows # {} => FirstOf(rows, order) # {}
<1> DEFINE N == Cardinality(Voices)
           At == {i \in 1 .. N : order[i] \in rows}
<1>1. order \in [1 .. N -> Voices] /\ \A v \in Voices : \E i \in 1 .. N : order[i] = v
  BY DEF Orders
<1>2. FirstOf(rows, order) \subseteq rows
  BY DEF FirstOf
<1>3. ASSUME rows # {} PROVE FirstOf(rows, order) # {}
  <2>1. At \subseteq Nat /\ At # {}
    BY <1>1, <1>3
  <2>2. PICK i \in At : \A k \in At : i <= k
    <3> HIDE DEF At
    <3> QED
      BY <2>1, LeastNumber
  <2>3. i \in 1 .. N /\ i \in DOMAIN order /\ order[i] \in rows
    BY <1>1
  <2>4. N \in Nat
    BY VoicesAssumption, FS_CardinalityType
  <2>5. ASSUME NEW j \in 1 .. i - 1 PROVE order[j] \notin rows
    <3>1. j \in 1 .. N /\ ~ (i <= j)
      BY <2>3, <2>4
    <3> QED
      BY <2>2, <3>1
  <2> QED
    BY <2>3, <2>5 DEF FirstOf
<1> QED
  BY <1>2, <1>3

LEMMA TakenDefined ==
  ASSUME NEW strata \in Seq(SUBSET Voices), NEW order \in Orders
  PROVE  /\ Taken(strata, order) \in [0 .. Len(strata) -> SUBSET Voices]
         /\ Taken(strata, order)[0] = {}
         /\ \A n \in 1 .. Len(strata) :
              Taken(strata, order)[n] = Taken(strata, order)[n - 1]
                                  \cup FirstOf(strata[n] \ Taken(strata, order)[n - 1], order)
<1> DEFINE N == Len(strata)
           T == SUBSET Voices
           step == [p \in T \X (1 .. N) |-> p[1] \cup FirstOf(strata[p[2]] \ p[1], order)]
           Def(f) == [n \in 0 .. N |->
                        IF n = 0 THEN {} ELSE f[n - 1] \cup FirstOf(strata[n] \ f[n - 1], order)]
<1>1. N \in Nat /\ \A n \in 1 .. N : strata[n] \in T
  OBVIOUS
<1>2. step \in [T \X (1 .. N) -> T]
  <2>1. ASSUME NEW s \in T, NEW n \in 1 .. N
        PROVE  s \cup FirstOf(strata[n] \ s, order) \in T
    <3>1. strata[n] \ s \in SUBSET Voices
      BY <1>1
    <3> QED
      BY <3>1, FirstOfTakes
  <2> QED
    BY <2>1
<1>3. PICK f \in [0 .. N -> T] :
        f[0] = {} /\ \A n \in 1 .. N : f[n] = step[<< f[n - 1], n >>]
  <2>1. {} \in T
    OBVIOUS
  <2> HIDE DEF step, N, T, Def
  <2>2. HasChain(N, T, {}, step)
    BY <1>1, <1>2, <2>1, ChainExists
  <2> QED
    BY <2>2 DEF HasChain
<1>4. f = Def(f)
  <2>1. ASSUME NEW n \in 0 .. N, n # 0
        PROVE  f[n] = f[n - 1] \cup FirstOf(strata[n] \ f[n - 1], order)
    <3>1. n \in 1 .. N /\ n - 1 \in 0 .. N
      BY <1>1, <2>1
    <3>2. f[n - 1] \in T
      BY <3>1
    <3>3. f[n] = step[<< f[n - 1], n >>]
      BY <1>3, <3>1
    <3> QED
      BY <3>1, <3>2, <3>3
  <2> HIDE DEF step
  <2> QED
    BY <1>3, <2>1
<1>5. Taken(strata, order) = CHOOSE g : g = Def(g)
  BY DEF Taken
<1>6. Taken(strata, order) = Def(Taken(strata, order))
  <2> HIDE DEF Def
  <2> QED
    BY <1>4, <1>5
<1> DEFINE g == Taken(strata, order)
<1>7. /\ DOMAIN g = 0 .. N /\ g[0] = {}
      /\ \A n \in 0 .. N : n # 0 => g[n] = g[n - 1] \cup FirstOf(strata[n] \ g[n - 1], order)
  <2> HIDE DEF g, N
  <2>1. g = Def(g)
    BY <1>6 DEF g
  <2>2. 0 \in 0 .. N
    BY <1>1
  <2> QED
    BY <2>1, <2>2
<1>8. \A n \in 0 .. N : g[n] \in T
  <2> DEFINE S == {n \in 0 .. N : g[n] \in T}
  <2> HIDE DEF g, N
  <2>1. 0 \in S
    BY <1>1, <1>7
  <2>2. ASSUME NEW n \in 0 .. N, n < N, n \in S PROVE n + 1 \in S
    <3>1. n + 1 \in 1 .. N /\ n + 1 # 0 /\ (n + 1) - 1 = n
      BY <1>1, <2>2
    <3>2. strata[n + 1] \ g[n] \in SUBSET Voices
      BY <1>1, <3>1
    <3>3. g[n + 1] = g[n] \cup FirstOf(strata[n + 1] \ g[n], order)
      <4>1. n + 1 \in 0 .. N
        BY <1>1, <3>1
      <4>2. g[n + 1] = g[(n + 1) - 1] \cup FirstOf(strata[n + 1] \ g[(n + 1) - 1], order)
        BY <1>7, <3>1, <4>1
      <4> QED
        BY <3>1, <4>2
    <3> QED
      BY <2>2, <3>1, <3>2, <3>3, FirstOfTakes
  <2> HIDE DEF S
  <2>3. \A n \in 0 .. N : n \in S
    BY <1>1, <2>1, <2>2, IntervalInduction
  <2> QED
    BY <2>3 DEF S
<1>9. \A n \in 1 .. N : n \in 0 .. N /\ n # 0
  OBVIOUS
<1>10. g \in [0 .. N -> T]
  <2> HIDE DEF g, N, T
  <2>1. g = [n \in 0 .. N |-> g[n]]
    <3>1. g = Def(g)
      BY <1>6 DEF g
    <3> QED
      BY <3>1
  <2> QED
    BY <1>8, <2>1
<1> QED
  BY <1>7, <1>9, <1>10
(* Whatever the order, an example of every stratum that is not empty is    *)
(* among what the strata take: one that is there when the stratum is asked *)
(* for, or the one it then takes, and nothing is given back.               *)
LEMMA StratifiedCovers ==
  ASSUME NEW strata \in Seq(SUBSET Voices), NEW order \in Orders
  PROVE  /\ Stratified(strata, order) \in SUBSET Voices
         /\ \A k \in 1 .. Len(strata) :
              strata[k] # {} => strata[k] \cap Stratified(strata, order) # {}
<1> DEFINE N == Len(strata)
           g == Taken(strata, order)
<1>1. N \in Nat /\ \A n \in 1 .. N : strata[n] \in SUBSET Voices
  OBVIOUS
<1>2. /\ g \in [0 .. N -> SUBSET Voices]
      /\ \A n \in 1 .. N : g[n] = g[n - 1] \cup FirstOf(strata[n] \ g[n - 1], order)
  BY TakenDefined
<1>3. Stratified(strata, order) = g[N]
  BY DEF Stratified
<1> HIDE DEF N, g
<1>4. ASSUME NEW k \in 1 .. N, strata[k] # {} PROVE strata[k] \cap g[N] # {}
  <2>1. PICK stratum : strata[k] = stratum /\ stratum # {}
    BY <1>4
  <2> DEFINE S == {n \in 0 .. N : k <= n => stratum \cap g[n] # {}}
  <2>2. 0 \in S
    BY <1>1
  <2>3. ASSUME NEW n \in 0 .. N, n < N, n \in S PROVE n + 1 \in S
    <3>1. n + 1 \in 1 .. N /\ n + 1 \in 0 .. N /\ (n + 1) - 1 = n
      BY <1>1, <2>3
    <3>2. g[n + 1] = g[n] \cup FirstOf(strata[n + 1] \ g[n], order)
      <4>1. g[n + 1] = g[(n + 1) - 1] \cup FirstOf(strata[n + 1] \ g[(n + 1) - 1], order)
        BY <1>2, <3>1
      <4> QED
        BY <3>1, <4>1
    <3>3. CASE k = n + 1
      <4>1. strata[n + 1] = stratum /\ stratum \ g[n] \in SUBSET Voices
        BY <1>1, <2>1, <3>3
      <4>2. CASE stratum \ g[n] = {}
        BY <2>1, <3>1, <3>2, <4>2
      <4>3. CASE stratum \ g[n] # {}
        <5>1. /\ FirstOf(stratum \ g[n], order) \subseteq stratum \ g[n]
              /\ FirstOf(stratum \ g[n], order) # {}
          BY <4>1, <4>3, FirstOfTakes
        <5> QED
          BY <3>1, <3>2, <4>1, <5>1
      <4> QED
        BY <4>2, <4>3
    <3>4. CASE k <= n
      BY <2>3, <3>1, <3>2, <3>4
    <3>5. CASE ~ (k <= n + 1)
      BY <3>1, <3>5
    <3> QED
      BY <3>3, <3>4, <3>5
  <2>4. N \in S
    <3> HIDE DEF S
    <3>1. N \in Nat /\ N \in 0 .. N
      BY <1>1
    <3>2. \A n \in 0 .. N : n < N /\ n \in S => n + 1 \in S
      BY <2>3
    <3>3. \A n \in 0 .. N : n \in S
      BY <2>2, <3>1, <3>2, IntervalInduction
    <3> QED
      BY <3>1, <3>3
  <2> QED
    BY <1>1, <2>1, <2>4
<1> QED
  BY <1>1, <1>2, <1>3, <1>4 DEF N

LEMMA FillingDefined ==
  ASSUME NEW order \in Orders, NEW selected \in SUBSET Voices
  PROVE  /\ Filling(selected, order)[0] = selected
         /\ \A n \in 1 .. Cardinality(Voices) :
              Filling(selected, order)[n] =
                IF Cardinality(Filling(selected, order)[n - 1]) >= Size
                  THEN Filling(selected, order)[n - 1]
                  ELSE Filling(selected, order)[n - 1] \cup {order[n]}
<1> DEFINE N == Cardinality(Voices)
           T == SUBSET Voices
           Added(s, n) == IF Cardinality(s) >= Size THEN s ELSE s \cup {order[n]}
           step == [p \in T \X (1 .. N) |-> Added(p[1], p[2])]
           Def(f) == [n \in 0 .. N |->
                        IF n = 0 THEN selected
                        ELSE IF Cardinality(f[n - 1]) >= Size THEN f[n - 1]
                        ELSE f[n - 1] \cup {order[n]}]
<1>1. N \in Nat /\ order \in [1 .. N -> Voices]
  BY VoicesAssumption, FS_CardinalityType DEF Orders
<1>2. step \in [T \X (1 .. N) -> T]
  BY <1>1
<1>3. PICK f \in [0 .. N -> T] :
        f[0] = selected /\ \A n \in 1 .. N : f[n] = step[<< f[n - 1], n >>]
  <2> HIDE DEF step, N, Def
  <2>1. HasChain(N, T, selected, step)
    <3> HIDE DEF T
    <3>1. selected \in T
      BY DEF T
    <3> QED
      BY <1>1, <1>2, <3>1, ChainExists
  <2> QED
    BY <2>1 DEF HasChain
<1>4. f = Def(f)
  <2>1. ASSUME NEW n \in 0 .. N, n # 0
        PROVE  f[n] = Added(f[n - 1], n)
    <3>1. n \in 1 .. N /\ n - 1 \in 0 .. N
      BY <1>1, <2>1
    <3>2. f[n - 1] \in T
      BY <3>1
    <3>3. f[n] = step[<< f[n - 1], n >>]
      BY <1>3, <3>1
    <3> QED
      BY <3>1, <3>2, <3>3
  <2> HIDE DEF step
  <2> QED
    BY <1>3, <2>1
<1>5. Filling(selected, order) = CHOOSE g : g = Def(g)
  BY DEF Filling
<1>6. Filling(selected, order) = Def(Filling(selected, order))
  <2> HIDE DEF Def
  <2> QED
    BY <1>4, <1>5
<1> DEFINE g == Filling(selected, order)
<1> HIDE DEF g, N
<1>7. g = Def(g)
  BY <1>6 DEF g
<1>8. 0 \in 0 .. N /\ \A n \in 1 .. N : n \in 0 .. N /\ n # 0
  BY <1>1
<1> QED
  BY <1>7, <1>8 DEF g, N

(* The filling keeps what the strata took, and ends with the size that is  *)
(* asked for: when it runs out of rows it has taken every voice.           *)
LEMMA FilledIsLarge ==
  ASSUME NEW order \in Orders, NEW selected \in SUBSET Voices
  PROVE  /\ Filled(selected, order) \in SUBSET Voices
         /\ selected \subseteq Filled(selected, order)
         /\ Cardinality(Filled(selected, order)) >= Size
<1> DEFINE N == Cardinality(Voices)
           g == Filling(selected, order)
           Rows(n) == {order[i] : i \in 1 .. n}
           Good(s, n) == /\ s \in SUBSET Voices /\ selected \subseteq s
                         /\ Cardinality(s) >= Size \/ Rows(n) \subseteq s
           S == {n \in 0 .. N : Good(g[n], n)}
<1>1. N \in Nat /\ Size \in 1 .. N /\ order \in [1 .. N -> Voices] /\ Rows(N) = Voices
  BY VoicesAssumption, FS_CardinalityType DEF Orders
<1>2. /\ g[0] = selected
      /\ \A n \in 1 .. N : g[n] = IF Cardinality(g[n - 1]) >= Size THEN g[n - 1]
                                  ELSE g[n - 1] \cup {order[n]}
  BY FillingDefined
<1>3. Filled(selected, order) = g[N]
  BY DEF Filled
<1> HIDE DEF g, N
<1>4. 0 \in S
  BY <1>1, <1>2
<1>5. ASSUME NEW n \in 0 .. N, n < N, n \in S PROVE n + 1 \in S
  <2>1. n + 1 \in 1 .. N /\ n + 1 \in 0 .. N /\ (n + 1) - 1 = n /\ order[n + 1] \in Voices
    BY <1>1, <1>5
  <2>2. g[n + 1] = IF Cardinality(g[n]) >= Size THEN g[n] ELSE g[n] \cup {order[n + 1]}
    BY <1>2, <2>1
  <2>3. Rows(n + 1) \subseteq Rows(n) \cup {order[n + 1]}
    BY <2>1
  <2> HIDE DEF Rows
  <2>4. Good(g[n + 1], n + 1)
    BY <1>5, <2>1, <2>2, <2>3
  <2> QED
    BY <2>1, <2>4
<1>6. N \in S
  <2> HIDE DEF S
  <2> QED
    BY <1>1, <1>4, <1>5, IntervalInduction
<1>7. Good(g[N], N)
  BY <1>6
<1>8. Cardinality(g[N]) >= Size
  <2>1. CASE Rows(N) \subseteq g[N]
    <3>1. g[N] = Voices
      BY <1>1, <1>7, <2>1
    <3> QED
      BY <1>1, <3>1 DEF N
  <2> QED
    BY <1>7, <2>1
<1> QED
  BY <1>3, <1>7, <1>8

Covers(rows, latest) ==
  /\ Cardinality(rows) >= Size
  /\ \A stratum \in AllStrata(latest) : stratum # {} => stratum \cap rows # {}

(* Whatever signals the voices are candidates with, and whatever the       *)
(* shuffle, what choose_stratified_rows selects (service.py 92-128) has    *)
(* the size asked for at least and an example of every stratum that has    *)
(* one.                                                                    *)
THEOREM EverySelectionCovers ==
  ASSUME NEW latest, NEW order \in Orders
  PROVE  /\ ChooseStratifiedRows(latest, order) \in SUBSET Voices
         /\ Covers(ChooseStratifiedRows(latest, order), latest)
<1> DEFINE strata == Strata(latest)
           first == Stratified(strata, order)
           rows == Filled(first, order)
<1>1. /\ strata \in Seq(SUBSET Voices)
      /\ \A stratum \in AllStrata(latest) : \E n \in 1 .. Len(strata) : strata[n] = stratum
  BY StrataAreComplete
<1>2. ChooseStratifiedRows(latest, order) = rows
  BY DEF ChooseStratifiedRows
<1> HIDE DEF strata
<1>3. /\ first \in SUBSET Voices
      /\ \A k \in 1 .. Len(strata) : strata[k] # {} => strata[k] \cap first # {}
  BY <1>1, StratifiedCovers
<1> HIDE DEF first
<1>4. rows \in SUBSET Voices /\ first \subseteq rows /\ Cardinality(rows) >= Size
  BY <1>3, FilledIsLarge
<1> HIDE DEF rows
<1>5. ASSUME NEW stratum \in AllStrata(latest), stratum # {} PROVE stratum \cap rows # {}
  BY <1>1, <1>3, <1>4, <1>5
<1> QED
  BY <1>2, <1>4, <1>5 DEF Covers

(* A builder holds a whole selection, or none, until its inserts commit.   *)
Selections ==
  /\ sample # {} => \E latest \in LatestByVoice : Covers(sample, latest)
  /\ \A b \in Builders : builder[b] # {} =>
       \E latest \in LatestByVoice : Covers(builder[b], latest)

(* Two builders may draw at once, in different orders; the sample that is  *)
(* committed is one of the two, whole (service.py 131-216).                *)
THEOREM EverySampleCovers == Spec => []SampleCovers
<1>1. Init => Selections
  BY DEF Init, Selections
<1>2. IInv /\ Selections /\ [Next]_vars => Selections'
  <2> SUFFICES ASSUME IInv, Selections, [Next]_vars PROVE Selections'
    OBVIOUS
  <2>1. builder \in [Builders -> SUBSET Voices]
    BY DEF IInv, TypeOK
  <2>2. ASSUME NEW b \in Builders, Draw(b) PROVE Selections'
    <3>1. PICK latest \in LatestByVoice, order \in Orders :
            builder' = [builder EXCEPT ![b] = ChooseStratifiedRows(latest, order)]
      BY <2>2 DEF Draw
    <3> DEFINE rows == ChooseStratifiedRows(latest, order)
    <3>2. Covers(rows, latest) /\ UNCHANGED sample
      BY <2>2, EverySelectionCovers DEF Draw
    <3>3. builder' = [builder EXCEPT ![b] = rows]
      BY <3>1
    <3> HIDE DEF rows
    <3> QED
      BY <2>1, <3>2, <3>3 DEF Selections
  <2>3. ASSUME NEW b \in Builders, InsertSample(b) PROVE Selections'
    BY <2>1, <2>3 DEF InsertSample, Selections
  <2>4. CASE UNCHANGED << sample, builder >>
    BY <2>4 DEF Selections
  <2> QED
    BY <2>2, <2>3, <2>4
    DEF Next, vars, LoadExample, Refuse, SubmitReview, Adjudicate, Evaluate
<1>3. Selections => SampleCovers
  BY DEF Selections, SampleCovers, Covers
<1> QED
  BY <1>1, <1>2, <1>3, InductiveInvariant, PTL DEF Spec
=============================================================================
