------------------------- MODULE OpportunityReview -------------------------
(***************************************************************************)
(* Opportunities, their reviews, and the action items and outcomes that    *)
(* follow (modules/opportunities/service.py), behind the routes of         *)
(* api/routes/opportunities.py, on PostgreSQL at READ COMMITTED.           *)
(*                                                                         *)
(* A route first loads its row with session.get and checks the scope of    *)
(* the caller; the service then selects the row FOR UPDATE.  That waits    *)
(* for the row and reads it anew, but the session keeps the instance it    *)
(* has as long as somebody refers to it: a route that holds on to the      *)
(* loaded object decides on the values of the first read.  Everything from *)
(* the lock to the commit is one step, for it involves that one row.       *)
(***************************************************************************)
EXTENDS Naturals

CONSTANTS
  Requests,       \* concurrent requests of the routes
  Opportunities,
  Actions,        \* the action items that are ever created
  Counts,         \* how many distinct voices may support an opportunity
  MaxOutcomes,    \* bound: outcomes recorded of one action
  None

ASSUME CountsAssumption == Counts \subseteq Nat
ASSUME MaxOutcomesAssumption == MaxOutcomes \in Nat \ {0}
ASSUME NoneAssumption == None \notin Opportunities \cup Actions

VARIABLES
  opportunity,  \* the committed opportunities with their evidence
  acceptedBy,   \* by which kinds of audit event each one became accepted
  action,       \* the committed action items with the number of outcomes
  tx            \* what each request has loaded

vars == << opportunity, acceptedBy, action, tx >>

OpportunityStatus ==
  {"draft", "pending_review", "accepted", "rejected", "validating", "planned",
   "in_progress", "completed", "archived"}

OpportunityMoves ==      \* OpportunityStatus.can_transition_to
  [draft          |-> {"pending_review"},
   pending_review |-> {"draft", "accepted", "rejected"},
   accepted       |-> {"validating", "planned", "archived"},
   rejected       |-> {"draft", "archived"},
   validating     |-> {"planned", "rejected", "archived"},
   planned        |-> {"in_progress", "archived"},
   in_progress    |-> {"completed", "archived"},
   completed      |-> {"archived"},
   archived       |-> {}]

ActionStatus == {"planned", "in_progress", "blocked", "completed", "cancelled"}

ActionMoves ==           \* ActionItemStatus.can_transition_to
  [planned     |-> {"in_progress", "completed", "cancelled"},
   in_progress |-> {"blocked", "completed", "cancelled"},
   blocked     |-> {"in_progress", "cancelled"},
   completed   |-> {},
   cancelled   |-> {}]

Kind == {"improvement", "new_product"}

OpportunityRow ==
  [status   : OpportunityStatus \cup {"absent"},
   type     : Kind,
   support  : Nat,        \* distinct voices with direction "support"
   reviewed : BOOLEAN]    \* the evidence carries the name of an approver

ActionRow ==
  [status   : ActionStatus \cup {"absent"},
   of       : Opportunities \cup {None},
   outcomes : Nat]

Operation == {"review", "add", "move", "report"}

Request ==
  [op   : Operation \cup {"none"},
   on   : Opportunities \cup Actions \cup {None},
   seen : OpportunityStatus \cup ActionStatus \cup {"absent"}]

Idle == [op |-> "none", on |-> None, seen |-> "absent"]

Threshold(o) == IF opportunity[o].type = "new_product" THEN 5 ELSE 3

Exists(o) == opportunity[o].status # "absent"
ActionExists(a) == action[a].status # "absent"

-----------------------------------------------------------------------------
Init ==
  /\ opportunity = [o \in Opportunities |->
       [status |-> "absent", type |-> "improvement", support |-> 0, reviewed |-> FALSE]]
  /\ acceptedBy = [o \in Opportunities |-> {}]
  /\ action = [a \in Actions |-> [status |-> "absent", of |-> None, outcomes |-> 0]]
  /\ tx = [q \in Requests |-> Idle]

(* create_opportunity, and the opportunities that an analysis publishes:   *)
(* always up for review, with one row of evidence per distinct voice.      *)
CreateOpportunity(o, type, count) ==
  /\ ~Exists(o)
  /\ opportunity' = [opportunity EXCEPT ![o] =
       [status |-> "pending_review", type |-> type, support |-> count, reviewed |-> FALSE]]
  /\ UNCHANGED << acceptedBy, action, tx >>

Load(q, op, x, status) ==
  /\ tx[q].op = "none" /\ status # "absent"
  /\ tx' = [tx EXCEPT ![q] = [op |-> op, on |-> x, seen |-> status]]
  /\ UNCHANGED << opportunity, acceptedBy, action >>

LoadOpportunity(q, o) ==
  \E op \in {"review", "add"} : Load(q, op, o, opportunity[o].status)

LoadAction(q, a) ==
  \E op \in {"move", "report"} : Load(q, op, a, action[a].status)

(* Nothing is written: the body is not valid, or the rules below refuse. *)
Refuse(q) ==
  /\ tx[q].op # "none"
  /\ tx' = [tx EXCEPT ![q] = Idle]
  /\ UNCHANGED << opportunity, acceptedBy, action >>

KeptStatus(q) == tx[q].seen    \* mutant: the routes keep the action they have loaded

(* The status that the service finds on the row it has locked.  The two    *)
(* routes about an opportunity refer to the object they loaded; the two    *)
(* about an action let go of it, so that it is loaded again.               *)
LockedStatus(q) ==
  IF tx[q].op \in {"review", "add"} THEN tx[q].seen ELSE action[tx[q].on].status

-----------------------------------------------------------------------------
DecisionAsStatus(decision) == decision    \* mutant: the decision is written as the status

Decided(decision) ==
  CASE decision = "approve" -> "accepted"
    [] decision = "reject" -> "rejected"
    [] decision = "request_changes" -> "draft"

AnyEvidence(o) == TRUE                    \* mutant: the evidence is not counted

Supported(o) == opportunity[o].support >= Threshold(o)

NewAction(o) == [status |-> "planned", of |-> o, outcomes |-> 0]

(* submit_opportunity_review: the decision, and with an approval that      *)
(* names an owner the first action, in one commit.                         *)
Review(q, decision) ==
  LET o == tx[q].on IN
  /\ tx[q].op = "review"
  /\ LockedStatus(q) = "pending_review"
  /\ decision = "approve" => Supported(o)
  /\ opportunity' = [opportunity EXCEPT
       ![o].status = Decided(decision),
       ![o].reviewed = @ \/ decision = "approve"]
  /\ acceptedBy' = [acceptedBy EXCEPT
       ![o] = @ \cup (IF decision = "approve" THEN {"opportunity.review"} ELSE {})]
  /\ tx' = [tx EXCEPT ![q] = Idle]
  /\ \/ UNCHANGED action
     \/ /\ decision = "approve"
        /\ \E a \in Actions :
             /\ ~ActionExists(a)
             /\ action' = [action EXCEPT ![a] = NewAction(o)]

(* transition_opportunity, in a session of its own. *)
TransitionOpportunity(o, target) ==
  /\ Exists(o)
  /\ target \in OpportunityMoves[opportunity[o].status]
  /\ opportunity' = [opportunity EXCEPT ![o].status = target]
  /\ acceptedBy' = [acceptedBy EXCEPT
       ![o] = @ \cup (IF target = "accepted" THEN {"opportunity.transition"} ELSE {})]
  /\ UNCHANGED << action, tx >>

Pursued == {"accepted", "validating", "planned", "in_progress"}

(* add_action: create_action_item. *)
CreateAction(q, a) ==
  /\ tx[q].op = "add" /\ ~ActionExists(a)
  /\ LockedStatus(q) \in Pursued
  /\ action' = [action EXCEPT ![a] = NewAction(tx[q].on)]
  /\ tx' = [tx EXCEPT ![q] = Idle]
  /\ UNCHANGED << opportunity, acceptedBy >>

Reportable(status) == status # "cancelled"

(* add_outcome: create_outcome_measurement. *)
RecordOutcome(q) ==
  LET a == tx[q].on IN
  /\ tx[q].op = "report"
  /\ Reportable(LockedStatus(q))
  /\ action[a].outcomes < MaxOutcomes
  /\ action' = [action EXCEPT ![a].outcomes = @ + 1]
  /\ tx' = [tx EXCEPT ![q] = Idle]
  /\ UNCHANGED << opportunity, acceptedBy >>

(* transition_action: transition_action_item. *)
TransitionAction(q, target) ==
  LET a == tx[q].on IN
  /\ tx[q].op = "move"
  /\ target \in ActionMoves[LockedStatus(q)]
  /\ target = "completed" => action[a].outcomes > 0
  /\ action' = [action EXCEPT ![a].status = target]
  /\ tx' = [tx EXCEPT ![q] = Idle]
  /\ UNCHANGED << opportunity, acceptedBy >>

(* complete_action_item, in a session of its own: the outcome and the      *)
(* completion in one transaction.                                          *)
CompleteAction(a) ==
  /\ ActionExists(a) /\ Reportable(action[a].status)
  /\ "completed" \in ActionMoves[action[a].status]
  /\ action[a].outcomes < MaxOutcomes
  /\ action' = [action EXCEPT ![a].status = "completed", ![a].outcomes = @ + 1]
  /\ UNCHANGED << opportunity, acceptedBy, tx >>

Next ==
  \/ \E o \in Opportunities, type \in Kind, count \in Counts : CreateOpportunity(o, type, count)
  \/ \E q \in Requests, o \in Opportunities : LoadOpportunity(q, o)
  \/ \E q \in Requests, a \in Actions : LoadAction(q, a)
  \/ \E q \in Requests : Refuse(q)
  \/ \E q \in Requests, decision \in {"approve", "reject", "request_changes"} : Review(q, decision)
  \/ \E o \in Opportunities, target \in OpportunityStatus : TransitionOpportunity(o, target)
  \/ \E q \in Requests, a \in Actions : CreateAction(q, a)
  \/ \E q \in Requests : RecordOutcome(q)
  \/ \E q \in Requests, target \in ActionStatus : TransitionAction(q, target)
  \/ \E a \in Actions : CompleteAction(a)

Spec == Init /\ [][Next]_vars

-----------------------------------------------------------------------------
(* Every row is one the schema and the enums allow. *)
TypeOK ==
  /\ opportunity \in [Opportunities -> OpportunityRow]
  /\ acceptedBy \in [Opportunities -> SUBSET {"opportunity.review", "opportunity.transition"}]
  /\ action \in [Actions -> ActionRow]
  /\ tx \in [Requests -> Request]

(* Nobody is sent to work on an opportunity that no one has accepted: also *)
(* when the decision is overwritten by a late one, or the status on which  *)
(* an action was created was a stale one, an audit event says who accepted *)
(* it, and an approval stands on enough evidence, all of it marked as      *)
(* reviewed.                                                               *)
ActionsEarned ==
  \A a \in Actions : ActionExists(a) =>
    LET o == action[a].of IN
    /\ acceptedBy[o] # {}
    /\ "opportunity.review" \in acceptedBy[o] =>
         opportunity[o].support >= Threshold(o) /\ opportunity[o].reviewed

(* An action ends once and for all, is completed only with an outcome on   *)
(* record, and a cancelled one gets no outcome any more, whichever         *)
(* requests race for its row.                                              *)
Stage(a) ==
  CASE action[a].status = "absent" -> "none"
    [] action[a].status \in {"planned", "in_progress", "blocked"} -> "open"
    [] OTHER -> action[a].status

Lifecycle == INSTANCE ActionLifecycle
  WITH stage <- [a \in Actions |-> Stage(a)],
       reported <- [a \in Actions |-> action[a].outcomes > 0]

KeepsLifecycle == Lifecycle!Spec
=============================================================================
