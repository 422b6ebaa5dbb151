---------------------------- MODULE GoldenReview ----------------------------
(***************************************************************************)
(* The golden sample of modules/evaluation/service.py: drawing it,         *)
(* labelling each example twice, adjudicating a dispute, and evaluating on *)
(* it, on PostgreSQL at READ COMMITTED.                                    *)
(*                                                                         *)
(* The route of a review loads the example with session.get and holds on   *)
(* to it, so the SELECT ... FOR UPDATE of the service waits for the row    *)
(* but leaves the session with the values of the first read; the reviews   *)
(* are selected after the lock and are those of the last commit.           *)
(***************************************************************************)
EXTENDS Naturals, FiniteSets, Sequences

CONSTANTS
  Voices,        \* the voices of the run that have signals
  SignalRows,    \* of each voice: its signals in the newest taxonomy, by type and cluster
  Safety,        \* the voices tagged "safety"
  MultiTurn,     \* the voices tagged "multi_turn"
  Size,          \* examples asked for
  Builders,      \* requests that draw the sample
  Requests,      \* requests that submit a review
  Reviewers,
  Labels,
  Explored,      \* bound: the examples that are reviewed
  None

ASSUME VoicesAssumption == IsFiniteSet(Voices) /\ Size \in 1 .. Cardinality(Voices)
ASSUME RowsAssumption == \A v \in Voices : SignalRows[v] # {}
ASSUME TagsAssumption == Safety \subseteq Voices /\ MultiTurn \subseteq Voices
ASSUME ExploredAssumption == Explored \subseteq Voices
ASSUME NoneAssumption == None \notin Voices \cup Labels \cup Reviewers

VARIABLES
  sample,     \* the voices with a committed golden example
  builder,    \* what each builder has drawn, None before it has looked
  example,    \* the committed review columns of each example
  reviews,    \* the committed independent reviews of each example, in order
  rulings,    \* the committed reviews of adjudicators
  evaluated,  \* the examples that some evaluation run rests on
  tx          \* what each request has loaded

vars == << sample, builder, example, reviews, rulings, evaluated, tx >>

ReviewStatus == {"pending_human_review", "pending_second_review", "disputed", "approved"}

Example ==
  [status    : ReviewStatus,
   reviewers : SUBSET Reviewers,      \* reviewer_ids
   label     : Labels \cup {None}]    \* the expected signals, objects and ranges

Blank == [status |-> "pending_human_review", reviewers |-> {}, label |-> None]

Review == [reviewer : Reviewers, label : Labels]

Idle == [on |-> None, by |-> None, seen |-> Blank]

Request ==
  [on   : Voices \cup {None},
   by   : Reviewers \cup {None},
   seen : Example]

-----------------------------------------------------------------------------
(* latest_by_voice.  A voice is a candidate with one of its signals: the   *)
(* first row of the query, which orders the rows of a voice by taxonomy    *)
(* and leaves the signals of one taxonomy in any order.                    *)
LatestByVoice ==
  {latest \in [Voices -> UNION {SignalRows[v] : v \in Voices}] :
     \A v \in Voices : latest[v] \in SignalRows[v]}

(* choose_stratified_rows.  Each stratum in turn takes the first row of    *)
(* the shuffled order that is in it and not selected yet; what is missing  *)
(* to the size is filled up in order.  More than the size may be selected. *)
Orders == {o \in [1 .. Cardinality(Voices) -> Voices] : \A v \in Voices : \E i \in DOMAIN o : o[i] = v}

SignalStrata(latest) ==
  {{v \in Voices : latest[v].type = t} : t \in {latest[v].type : v \in Voices}}
ClusterStrata(latest) ==
  {{v \in Voices : latest[v].cluster = c} : c \in {latest[v].cluster : v \in Voices}}

Sorted(strata) ==       \* in the order of the names: some fixed one
  CHOOSE s \in [1 .. Cardinality(strata) -> strata] :
    \A i, j \in DOMAIN s : i # j => s[i] # s[j]

StrataWithoutClusters(latest) ==       \* mutant: the clusters are forgotten
  << Safety, MultiTurn >> \o Sorted(SignalStrata(latest))

Strata(latest) ==
  << Safety, MultiTurn >> \o Sorted(SignalStrata(latest)) \o Sorted(ClusterStrata(latest))

FirstOf(rows, order) ==
  {order[i] : i \in {i \in DOMAIN order : order[i] \in rows /\ \A j \in 1 .. i - 1 : order[j] \notin rows}}

Taken(strata, order) ==         \* what is selected after the first n strata
  LET taken[n \in 0 .. Len(strata)] ==
        IF n = 0 THEN {} ELSE taken[n - 1] \cup FirstOf(strata[n] \ taken[n - 1], order)
  IN  taken

Stratified(strata, order) == Taken(strata, order)[Len(strata)]

Filling(selected, order) ==   \* and after the first n rows of the filling
  LET fill[n \in 0 .. Cardinality(Voices)] ==
        IF n = 0 THEN selected
        ELSE IF Cardinality(fill[n - 1]) >= Size THEN fill[n - 1]
        ELSE fill[n - 1] \cup {order[n]}
  IN  fill

Filled(selected, order) == Filling(selected, order)[Cardinality(Voices)]

ChooseStratifiedRows(latest, order) == Filled(Stratified(Strata(latest), order), order)

-----------------------------------------------------------------------------
Init ==
  /\ sample = {}
  /\ builder = [b \in Builders |-> {}]
  /\ example = [v \in Voices |-> Blank]
  /\ reviews = [v \in Voices |-> << >>]
  /\ rulings = [v \in Voices |-> {}]
  /\ evaluated = {}
  /\ tx = [q \in Requests |-> Idle]

(* build_stratified_sample finds no examples and draws; with examples in   *)
(* the table it returns them, or refuses when their number is not the one  *)
(* asked for.                                                              *)
Draw(b) ==
  /\ builder[b] = {} /\ sample = {}
  /\ \E latest \in LatestByVoice, order \in Orders, rows \in SUBSET Voices :
       /\ rows = ChooseStratifiedRows(latest, order)
       /\ builder' = [builder EXCEPT ![b] = rows]
  /\ UNCHANGED << sample, example, reviews, rulings, evaluated, tx >>

(* The inserts and the commit.  The orders 0, 1, ... of another builder's  *)
(* examples are in the unique index: the later one is aborted.             *)
InsertSample(b) ==
  /\ builder[b] # {}
  /\ sample' = IF sample = {} THEN builder[b] ELSE sample
  /\ builder' = [builder EXCEPT ![b] = {}]
  /\ UNCHANGED << example, reviews, rulings, evaluated, tx >>

LoadExample(q, v, r) ==
  /\ tx[q].on = None /\ v \in sample \cap Explored
  /\ tx' = [tx EXCEPT ![q] = [on |-> v, by |-> r, seen |-> example[v]]]
  /\ UNCHANGED << sample, builder, example, reviews, rulings, evaluated >>

(* Also for a label that cannot be resolved to the text of the example. *)
Refuse(q) ==
  /\ tx[q].on # None
  /\ tx' = [tx EXCEPT ![q] = Idle]
  /\ UNCHANGED << sample, builder, example, reviews, rulings, evaluated >>

ReviewerIds(v) ==
  {reviews[v][i].reviewer : i \in DOMAIN reviews[v]} \cup {ruling.reviewer : ruling \in rulings[v]}

NotListed(v, r) == r \notin example[v].reviewers    \* mutant: without the unique constraint

UniqueReviewer(v, r) == r \notin ReviewerIds(v)     \* uq_golden_example_reviewer

StatusLoaded(v) == TRUE       \* mutant: left to the status that was loaded

ReviewMissing(v) == Len(reviews[v]) < 2

DisputeStatus(v, label) ==    \* mutant: the dispute is written as the status
  IF reviews[v] = << >> THEN "pending_second_review"
  ELSE IF reviews[v][1].label = label THEN "approved" ELSE "pending_adjudication"

NextStatus(v, label) ==
  IF reviews[v] = << >> THEN "pending_second_review"
  ELSE IF reviews[v][1].label = label THEN "approved" ELSE "disputed"

(* submit_golden_review: the list of reviewers and the status to start     *)
(* from are those that were loaded, the reviews are those of the last      *)
(* commit.                                                                 *)
SubmitReview(q, label) ==
  LET v == tx[q].on
      r == tx[q].by
      seen == tx[q].seen
      status == NextStatus(v, label)
  IN  /\ v # None
      /\ seen.status \in {"pending_human_review", "pending_second_review"}
      /\ UniqueReviewer(v, r)
      /\ ReviewMissing(v)
      /\ reviews' = [reviews EXCEPT ![v] = Append(@, [reviewer |-> r, label |-> label])]
      /\ example' = [example EXCEPT ![v] =
           [status    |-> status,
            reviewers |-> seen.reviewers \cup {r},
            label     |-> IF status = "approved" THEN label ELSE @.label]]
      /\ tx' = [tx EXCEPT ![q] = Idle]
      /\ UNCHANGED << sample, builder, rulings, evaluated >>

(* adjudicate_golden_example, in a session of its own.  The adjudicator is *)
(* looked up in reviewer_ids; a reviewer that is missing there is still    *)
(* refused by the unique constraint.                                       *)
Adjudicate(v, r, label) ==
  /\ v \in sample /\ example[v].status = "disputed"
  /\ r \notin example[v].reviewers
  /\ UniqueReviewer(v, r)
  /\ rulings' = [rulings EXCEPT ![v] = @ \cup {[reviewer |-> r, label |-> label]}]
  /\ example' = [example EXCEPT ![v] =
       [status |-> "approved", reviewers |-> @.reviewers \cup {r}, label |-> label]]
  /\ UNCHANGED << sample, builder, reviews, evaluated, tx >>

(* evaluate_release. *)
Evaluate(golden) ==
  /\ golden # {}
  /\ \A v \in golden : example[v].status = "approved"
  /\ evaluated' = evaluated \cup golden
  /\ UNCHANGED << sample, builder, example, reviews, rulings, tx >>

Next ==
  \/ \E b \in Builders : Draw(b) \/ InsertSample(b)
  \/ \E q \in Requests, v \in Voices, r \in Reviewers : LoadExample(q, v, r)
  \/ \E q \in Requests : Refuse(q)
  \/ \E q \in Requests, label \in Labels : SubmitReview(q, label)
  \/ \E v \in Voices, r \in Reviewers, label \in Labels : Adjudicate(v, r, label)
  \/ \E golden \in SUBSET sample : Evaluate(golden)

Spec == Init /\ [][Next]_vars

-----------------------------------------------------------------------------
TypeOK ==
  /\ sample \subseteq Voices
  /\ builder \in [Builders -> SUBSET Voices]
  /\ example \in [Voices -> Example]
  /\ reviews \in [Voices -> Seq(Review)]
  /\ rulings \in [Voices -> SUBSET Review]
  /\ evaluated \subseteq Voices
  /\ tx \in [Requests -> Request]

(* An approved example carries a label that two different reviewers agreed *)
(* on, or that a third person gave after two had disagreed, whatever the   *)
(* reviewers had loaded; and no evaluation rests on another example.       *)
ApprovalIsEarned ==
  \A v \in Voices :
    /\ v \in evaluated => example[v].status = "approved"
    /\ example[v].status = "approved" =>
         LET first == reviews[v][1]
             second == reviews[v][2]
         IN  /\ Len(reviews[v]) = 2 /\ first.reviewer # second.reviewer
             /\ IF first.label = second.label
                  THEN rulings[v] = {} /\ example[v].label = first.label
                  ELSE \E ruling \in Review :
                         /\ rulings[v] = {ruling} /\ example[v].label = ruling.label
                         /\ ruling.reviewer \notin {first.reviewer, second.reviewer}

(* A label that an evaluation may already rest on does not change: neither *)
(* a late review nor a second ruling reopens an approved example.          *)
ApprovedIsFinal ==
  [][\A v \in Voices : example[v].status = "approved" =>
        example'[v].status = "approved" /\ example'[v].label = example[v].label]_vars

(* Whichever builder wins, the sample has the size asked for at least, and *)
(* an example of safety, of long conversations, of each signal type and of *)
(* each cluster, as far as there is a candidate for it.  What voices have  *)
(* only beside other signals may have none and is not promised.            *)
AllStrata(latest) ==
  {Safety, MultiTurn} \cup SignalStrata(latest) \cup ClusterStrata(latest)
SampleCovers ==
  sample # {} =>
    /\ Cardinality(sample) >= Size
    /\ \E latest \in LatestByVoice : \A stratum \in AllStrata(latest) :
         stratum # {} => stratum \cap sample # {}
=============================================================================
