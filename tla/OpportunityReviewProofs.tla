---------------------- MODULE OpportunityReviewProofs ----------------------
(***************************************************************************)
(* Theorems about OpportunityReview, for every number of requests,         *)
(* opportunities, actions, voices and outcomes.                            *)
(***************************************************************************)
EXTENDS OpportunityReview, TLAPS

OpportunitySound(o) ==
  /\ acceptedBy[o] # {} => Exists(o)
  /\ opportunity[o].status \in Pursued => acceptedBy[o] # {}
  /\ "opportunity.review" \in acceptedBy[o] =>
       opportunity[o].support >= Threshold(o) /\ opportunity[o].reviewed

ActionSound(a) ==
  /\ ActionExists(a) => action[a].of \in Opportunities /\ acceptedBy[action[a].of] # {}
  /\ ~ActionExists(a) => action[a].outcomes = 0

(* What a request has loaded exists, and a stale status that would allow   *)
(* an action was once true.                                                *)
RequestSound(q) ==
  /\ tx[q].op \in {"review", "add"} =>
       /\ tx[q].on \in Opportunities /\ Exists(tx[q].on)
       /\ tx[q].seen \in Pursued => acceptedBy[tx[q].on] # {}
  /\ tx[q].op \in {"move", "report"} => tx[q].on \in Actions /\ ActionExists(tx[q].on)

IInv ==
  /\ TypeOK
  /\ \A o \in Opportunities : OpportunitySound(o)
  /\ \A a \in Actions : ActionSound(a)
  /\ \A q \in Requests : RequestSound(q)

-----------------------------------------------------------------------------
LEMMA InitInvariant == Init => IInv
<1> SUFFICES ASSUME Init PROVE IInv
  OBVIOUS
<1>1. TypeOK
  BY DEF Init, TypeOK, OpportunityRow, ActionRow, Request, Idle, Kind
<1>2. ASSUME NEW o \in Opportunities PROVE OpportunitySound(o)
  BY DEF Init, OpportunitySound, Pursued
<1>3. ASSUME NEW a \in Actions PROVE ActionSound(a)
  BY DEF Init, ActionSound, ActionExists
<1>4. ASSUME NEW q \in Requests PROVE RequestSound(q)
  BY DEF Init, RequestSound, Idle
<1> QED
  BY <1>1, <1>2, <1>3, <1>4 DEF IInv

(* Opportunities that are created or keep existing, and whose acceptances  *)
(* are only added to, leave the actions and the requests sound.            *)
LEMMA Monotone ==
  ASSUME IInv,
         \A o \in Opportunities : acceptedBy[o] \subseteq acceptedBy'[o] /\ (Exists(o) => opportunity'[o].status # "absent")
  PROVE  /\ action' = action => \A a \in Actions : ActionSound(a)'
         /\ tx' = tx /\ action' = action => \A q \in Requests : RequestSound(q)'
<1>1. ASSUME action' = action, NEW a \in Actions
      PROVE  ActionSound(a)'
  <2> SUFFICES ASSUME ActionExists(a)
               PROVE  action[a].of \in Opportunities /\ acceptedBy'[action[a].of] # {}
    BY <1>1 DEF IInv, ActionSound, ActionExists
  <2>1. action[a].of \in Opportunities /\ acceptedBy[action[a].of] # {}
    BY DEF IInv, ActionSound
  <2> QED
    BY <2>1
<1>2. ASSUME tx' = tx, action' = action, NEW q \in Requests
      PROVE  RequestSound(q)'
  <2>1. RequestSound(q)
    BY DEF IInv
  <2>2. CASE tx[q].op \in {"review", "add"}
    <3>1. tx[q].on \in Opportunities /\ opportunity'[tx[q].on].status # "absent"
      BY <2>1, <2>2 DEF RequestSound
    <3>2. tx[q].seen \in Pursued => acceptedBy'[tx[q].on] # {}
      BY <2>1, <2>2 DEF RequestSound
    <3> QED
      BY <1>2, <2>2, <3>1, <3>2 DEF RequestSound, Exists
  <2>3. CASE tx[q].op \notin {"review", "add"}
    BY <1>2, <2>1, <2>3 DEF RequestSound, ActionExists
  <2> QED
    BY <2>2, <2>3
<1> QED
  BY <1>1, <1>2

(* A request that ends, and leaves rows that only grew, disturbs nobody. *)
LEMMA RequestsEnd ==
  ASSUME IInv, NEW q \in Requests, tx' = [tx EXCEPT ![q] = Idle],
         \A o \in Opportunities : acceptedBy[o] \subseteq acceptedBy'[o] /\ (Exists(o) => opportunity'[o].status # "absent"),
         \A a \in Actions : ActionExists(a) => action'[a].status # "absent"
  PROVE  \A p \in Requests : RequestSound(p)'
<1> SUFFICES ASSUME NEW p \in Requests
             PROVE  RequestSound(p)'
  OBVIOUS
<1>1. CASE p = q
  <2>1. tx'[p] = Idle
    BY <1>1 DEF IInv, TypeOK
  <2> QED
    BY <2>1 DEF RequestSound, Idle
<1>2. CASE p # q
  <2>1. tx'[p] = tx[p] /\ RequestSound(p)
    BY <1>2 DEF IInv, TypeOK
  <2>2. CASE tx[p].op \in {"review", "add"}
    <3>1. tx[p].on \in Opportunities /\ opportunity'[tx[p].on].status # "absent"
      BY <2>1, <2>2 DEF RequestSound
    <3>2. tx[p].seen \in Pursued => acceptedBy'[tx[p].on] # {}
      BY <2>1, <2>2 DEF RequestSound
    <3> QED
      BY <2>1, <2>2, <3>1, <3>2 DEF RequestSound, Exists
  <2>3. CASE tx[p].op \notin {"review", "add"}
    <3>1. tx[p].op \in {"move", "report"} => tx[p].on \in Actions /\ action'[tx[p].on].status # "absent"
      BY <2>1 DEF RequestSound
    <3> QED
      BY <2>1, <2>3, <3>1 DEF RequestSound, ActionExists
  <2> QED
    BY <2>2, <2>3
<1> QED
  BY <1>1, <1>2

LEMMA CreateOpportunityInvariant ==
  ASSUME IInv, NEW o \in Opportunities, NEW type \in Kind, NEW count \in Counts,
         CreateOpportunity(o, type, count)
  PROVE  IInv'
<1> USE DEF CreateOpportunity
<1>1. TypeOK'
  BY CountsAssumption DEF IInv, TypeOK, OpportunityRow, OpportunityStatus
<1>2. \A p \in Opportunities : acceptedBy[p] \subseteq acceptedBy'[p] /\ (Exists(p) => opportunity'[p].status # "absent")
  BY DEF IInv, TypeOK, Exists
<1>3. ASSUME NEW p \in Opportunities PROVE OpportunitySound(p)'
  <2>1. OpportunitySound(p)
    BY DEF IInv
  <2>2. CASE p = o
    <3>1. acceptedBy'[p] = {} /\ opportunity'[p].status = "pending_review"
      BY <2>1, <2>2 DEF IInv, TypeOK, OpportunitySound
    <3> QED
      BY <3>1 DEF OpportunitySound, Pursued
  <2>3. CASE p # o
    BY <2>1, <2>3 DEF IInv, TypeOK, OpportunitySound, Exists, Threshold
  <2> QED
    BY <2>2, <2>3
<1> QED
  BY <1>1, <1>2, <1>3, Monotone DEF IInv

LEMMA LoadInvariant ==
  ASSUME IInv, NEW q \in Requests,
         (\E o \in Opportunities : LoadOpportunity(q, o)) \/ (\E a \in Actions : LoadAction(q, a))
  PROVE  IInv'
<1>1. PICK op \in Operation, x \in Opportunities \cup Actions, status \in OpportunityStatus \cup ActionStatus :
        /\ Load(q, op, x, status)
        /\ op \in {"review", "add"} => x \in Opportunities /\ status = opportunity[x].status
        /\ op \in {"move", "report"} => x \in Actions /\ status = action[x].status
  BY DEF IInv, TypeOK, LoadOpportunity, LoadAction, Load, Operation, OpportunityRow, ActionRow
<1> DEFINE w == [op |-> op, on |-> x, seen |-> status]
<1>2. w \in Request /\ w.op = op /\ w.on = x /\ w.seen = status
  BY DEF Request
<1>3. tx' = [tx EXCEPT ![q] = w] /\ UNCHANGED << opportunity, acceptedBy, action >> /\ status # "absent"
  BY <1>1 DEF Load
<1> HIDE DEF w
<1>4. TypeOK'
  BY <1>2, <1>3 DEF IInv, TypeOK
<1>5. ASSUME NEW o \in Opportunities PROVE OpportunitySound(o)'
  BY <1>3 DEF IInv, OpportunitySound, Exists, Threshold
<1>6. ASSUME NEW a \in Actions PROVE ActionSound(a)'
  BY <1>3 DEF IInv, ActionSound, ActionExists
<1>7. ASSUME NEW p \in Requests PROVE RequestSound(p)'
  <2>1. CASE p = q
    <3>1. tx'[p] = w
      BY <1>3, <2>1 DEF IInv, TypeOK
    <3>2. CASE op \in {"review", "add"}
      <4>1. x \in Opportunities /\ Exists(x) /\ OpportunitySound(x)
        BY <1>1, <1>3, <3>2 DEF IInv, Exists
      <4>2. status \in Pursued => acceptedBy[x] # {}
        BY <1>1, <3>2, <4>1 DEF OpportunitySound
      <4> QED
        BY <1>2, <1>3, <3>1, <3>2, <4>1, <4>2 DEF RequestSound, Exists
    <3>3. CASE op \in {"move", "report"}
      BY <1>1, <1>2, <1>3, <3>1, <3>3 DEF RequestSound, ActionExists
    <3> QED
      BY <3>2, <3>3 DEF Operation
  <2>2. CASE p # q
    <3>1. tx'[p] = tx[p] /\ RequestSound(p)
      BY <1>3, <2>2 DEF IInv, TypeOK
    <3> QED
      BY <1>3, <3>1 DEF RequestSound, Exists, ActionExists
  <2> QED
    BY <2>1, <2>2
<1> QED
  BY <1>4, <1>5, <1>6, <1>7 DEF IInv

LEMMA ReviewInvariant ==
  ASSUME IInv, NEW q \in Requests, NEW decision \in {"approve", "reject", "request_changes"},
         Review(q, decision)
  PROVE  IInv'
<1> PICK o \in Opportunities : o = tx[q].on
  BY DEF IInv, RequestSound, Review
<1> DEFINE row == [opportunity[o] EXCEPT !.status = Decided(decision), !.reviewed = @ \/ decision = "approve"]
           kinds == acceptedBy[o] \cup (IF decision = "approve" THEN {"opportunity.review"} ELSE {})
<1>1. /\ row \in OpportunityRow /\ row.status = Decided(decision)
      /\ row.support = opportunity[o].support /\ row.type = opportunity[o].type
      /\ row.reviewed = (opportunity[o].reviewed \/ decision = "approve")
      /\ Decided(decision) \in OpportunityStatus
      /\ Decided(decision) \in Pursued => decision = "approve"
  BY DEF IInv, TypeOK, OpportunityRow, OpportunityStatus, Decided, Pursued
<1>2. /\ opportunity' = [opportunity EXCEPT ![o] = row]
      /\ acceptedBy' = [acceptedBy EXCEPT ![o] = kinds]
      /\ tx' = [tx EXCEPT ![q] = Idle]
  BY DEF Review, IInv, TypeOK, OpportunityRow
<1>3. opportunity'[o] = row /\ acceptedBy'[o] = kinds
  BY <1>2 DEF IInv, TypeOK
<1>4. \A p \in Opportunities : p # o => opportunity'[p] = opportunity[p] /\ acceptedBy'[p] = acceptedBy[p]
  BY <1>2 DEF IInv, TypeOK
<1>5. decision = "approve" => opportunity[o].support >= Threshold(o)
  BY DEF Review, Supported
<1>6. kinds \subseteq {"opportunity.review", "opportunity.transition"}
  BY DEF IInv, TypeOK
<1>7. /\ decision = "approve" => "opportunity.review" \in kinds
      /\ "opportunity.review" \in kinds => decision = "approve" \/ "opportunity.review" \in acceptedBy[o]
      /\ acceptedBy[o] \subseteq kinds
  OBVIOUS
<1>8. \/ UNCHANGED action
      \/ /\ decision = "approve"
         /\ \E a \in Actions : ~ActionExists(a) /\ action' = [action EXCEPT ![a] = NewAction(o)]
  BY DEF Review
<1> HIDE DEF row, kinds
<1>9. TypeOK'
  <2>1. opportunity' \in [Opportunities -> OpportunityRow]
    BY <1>1, <1>2 DEF IInv, TypeOK
  <2>2. acceptedBy' \in [Opportunities -> SUBSET {"opportunity.review", "opportunity.transition"}]
    BY <1>2, <1>6 DEF IInv, TypeOK
  <2>3. action' \in [Actions -> ActionRow]
    BY <1>8 DEF IInv, TypeOK, ActionRow, NewAction, ActionStatus
  <2>4. tx' \in [Requests -> Request]
    BY <1>2 DEF IInv, TypeOK, Request, Idle
  <2> QED
    BY <2>1, <2>2, <2>3, <2>4 DEF TypeOK
<1>10. \A p \in Opportunities :
         acceptedBy[p] \subseteq acceptedBy'[p] /\ (Exists(p) => opportunity'[p].status # "absent")
  BY <1>1, <1>3, <1>4, <1>7 DEF Exists, OpportunityStatus
<1>11. ASSUME NEW p \in Opportunities PROVE OpportunitySound(p)'
  <2>1. OpportunitySound(p)
    BY DEF IInv
  <2>2. CASE p = o
    <3>1. Exists(p)'
      BY <1>1, <1>3, <2>2 DEF Exists, OpportunityStatus
    <3>2. Threshold(p)' = Threshold(p) /\ opportunity'[p].support = opportunity[p].support
      BY <1>1, <1>3, <2>2 DEF Threshold
    <3>3. opportunity'[p].status \in Pursued => acceptedBy'[p] # {}
      BY <1>1, <1>3, <1>7, <2>2
    <3>4. "opportunity.review" \in acceptedBy'[p] =>
            opportunity'[p].support >= Threshold(p) /\ opportunity'[p].reviewed
      BY <1>1, <1>3, <1>5, <1>7, <2>1, <2>2, <3>2 DEF OpportunitySound
    <3> QED
      BY <3>1, <3>2, <3>3, <3>4 DEF OpportunitySound
  <2>3. CASE p # o
    BY <1>4, <2>1, <2>3 DEF OpportunitySound, Exists, Threshold
  <2> QED
    BY <2>2, <2>3
<1>12. ASSUME NEW b \in Actions PROVE ActionSound(b)'
  <2>1. CASE UNCHANGED action
    BY <1>10, <2>1, Monotone
  <2>2. ASSUME decision = "approve", NEW a \in Actions, action' = [action EXCEPT ![a] = NewAction(o)]
        PROVE  ActionSound(b)'
    <3>1. CASE b = a
      <4>1. action'[b].of = o /\ acceptedBy'[o] # {} /\ action'[b].status = "planned"
        BY <1>3, <1>7, <2>2, <3>1 DEF IInv, TypeOK, NewAction
      <4> QED
        BY <4>1 DEF ActionSound, ActionExists
    <3>2. CASE b # a
      <4>1. action'[b] = action[b] /\ ActionSound(b)
        BY <2>2, <3>2 DEF IInv, TypeOK
      <4> QED
        BY <1>10, <4>1 DEF ActionSound, ActionExists
    <3> QED
      BY <3>1, <3>2
  <2> QED
    BY <1>8, <2>1, <2>2
<1>13. \A a \in Actions : ActionExists(a) => action'[a].status # "absent"
  BY <1>8 DEF IInv, TypeOK, ActionExists, NewAction
<1>14. \A p \in Requests : RequestSound(p)'
  BY <1>2, <1>10, <1>13, RequestsEnd
<1> QED
  BY <1>9, <1>11, <1>12, <1>14 DEF IInv

LEMMA TransitionOpportunityInvariant ==
  ASSUME IInv, NEW o \in Opportunities, NEW target \in OpportunityStatus,
         TransitionOpportunity(o, target)
  PROVE  IInv'
<1> DEFINE kinds == acceptedBy[o] \cup (IF target = "accepted" THEN {"opportunity.transition"} ELSE {})
<1>1. TypeOK'
  BY DEF IInv, TypeOK, OpportunityRow, TransitionOpportunity
<1>2. /\ opportunity'[o] = [opportunity[o] EXCEPT !.status = target] /\ acceptedBy'[o] = kinds
      /\ \A p \in Opportunities : p # o => opportunity'[p] = opportunity[p] /\ acceptedBy'[p] = acceptedBy[p]
      /\ UNCHANGED << action, tx >>
  BY DEF IInv, TypeOK, TransitionOpportunity
<1>3. /\ opportunity'[o].status = target /\ opportunity'[o].support = opportunity[o].support
      /\ opportunity'[o].type = opportunity[o].type /\ opportunity'[o].reviewed = opportunity[o].reviewed
  BY <1>2 DEF IInv, TypeOK, OpportunityRow
<1>4. target \in Pursued => target = "accepted" \/ opportunity[o].status \in Pursued
  <2>1. target \in OpportunityMoves[opportunity[o].status] /\ opportunity[o].status \in OpportunityStatus
    BY DEF TransitionOpportunity, Exists, IInv, TypeOK, OpportunityRow
  <2> QED
    BY <2>1 DEF OpportunityMoves, OpportunityStatus, Pursued
<1>5. \A p \in Opportunities :
        acceptedBy[p] \subseteq acceptedBy'[p] /\ (Exists(p) => opportunity'[p].status # "absent")
  BY <1>2, <1>3 DEF Exists, OpportunityStatus
<1>6. ASSUME NEW p \in Opportunities PROVE OpportunitySound(p)'
  <2>1. OpportunitySound(p)
    BY DEF IInv
  <2>2. CASE p = o
    <3>1. Exists(p)' /\ Threshold(p)' = Threshold(p)
      BY <1>3, <2>2 DEF Exists, OpportunityStatus, Threshold
    <3>2. opportunity'[p].status \in Pursued => acceptedBy'[p] # {}
      BY <1>2, <1>3, <1>4, <2>1, <2>2 DEF OpportunitySound
    <3>3. "opportunity.review" \in acceptedBy'[p] => "opportunity.review" \in acceptedBy[p]
      BY <1>2, <2>2
    <3> QED
      BY <1>3, <2>1, <2>2, <3>1, <3>2, <3>3 DEF OpportunitySound
  <2>3. CASE p # o
    BY <1>2, <2>1, <2>3 DEF OpportunitySound, Exists, Threshold
  <2> QED
    BY <2>2, <2>3
<1> QED
  BY <1>1, <1>2, <1>5, <1>6, Monotone DEF IInv

LEMMA CreateActionInvariant ==
  ASSUME IInv, NEW q \in Requests, NEW a \in Actions, CreateAction(q, a)
  PROVE  IInv'
<1> PICK o \in Opportunities : o = tx[q].on
  BY DEF IInv, RequestSound, CreateAction
<1>1. /\ action' = [action EXCEPT ![a] = NewAction(o)]
      /\ tx' = [tx EXCEPT ![q] = Idle] /\ UNCHANGED << opportunity, acceptedBy >>
  BY DEF CreateAction
<1>2. acceptedBy[o] # {}
  BY DEF CreateAction, LockedStatus, IInv, RequestSound
<1>3. TypeOK'
  BY <1>1 DEF IInv, TypeOK, ActionRow, NewAction, ActionStatus, Request, Idle
<1>4. ASSUME NEW p \in Opportunities PROVE OpportunitySound(p)'
  BY <1>1 DEF IInv, OpportunitySound, Exists, Threshold
<1>5. ASSUME NEW b \in Actions PROVE ActionSound(b)'
  <2>1. CASE b = a
    BY <1>1, <1>2, <2>1 DEF IInv, TypeOK, ActionSound, NewAction
  <2>2. CASE b # a
    <3>1. action'[b] = action[b] /\ ActionSound(b)
      BY <1>1, <2>2 DEF IInv, TypeOK
    <3> QED
      BY <1>1, <3>1 DEF ActionSound, ActionExists
  <2> QED
    BY <2>1, <2>2
<1>6. \A b \in Actions : ActionExists(b) => action'[b].status # "absent"
  BY <1>1 DEF IInv, TypeOK, ActionExists, NewAction
<1>7. \A p \in Opportunities :
        acceptedBy[p] \subseteq acceptedBy'[p] /\ (Exists(p) => opportunity'[p].status # "absent")
  BY <1>1 DEF Exists
<1>8. \A p \in Requests : RequestSound(p)'
  BY <1>1, <1>6, <1>7, RequestsEnd
<1> QED
  BY <1>3, <1>4, <1>5, <1>8 DEF IInv

(* An action that exists and keeps its opportunity may change otherwise. *)
LEMMA ActionChanges ==
  ASSUME IInv, NEW a \in Actions, NEW row \in ActionRow, ActionExists(a),
         action' = [action EXCEPT ![a] = row], row.of = action[a].of, row.status # "absent",
         UNCHANGED << opportunity, acceptedBy >>,
         tx' = tx \/ \E q \in Requests : tx' = [tx EXCEPT ![q] = Idle]
  PROVE  IInv'
<1>1. TypeOK'
  BY DEF IInv, TypeOK, Request, Idle
<1>2. ASSUME NEW p \in Opportunities PROVE OpportunitySound(p)'
  BY DEF IInv, OpportunitySound, Exists, Threshold
<1>3. ASSUME NEW b \in Actions PROVE ActionSound(b)'
  <2>1. ActionSound(b)
    BY DEF IInv
  <2>2. action'[b].of = action[b].of /\ (action'[b].status # "absent" => ActionExists(b))
    BY DEF IInv, TypeOK, ActionExists
  <2> QED
    BY <2>1, <2>2 DEF ActionSound, ActionExists
<1>4. \A b \in Actions : ActionExists(b) => action'[b].status # "absent"
  BY DEF IInv, TypeOK, ActionExists
<1>5. \A p \in Opportunities :
        acceptedBy[p] \subseteq acceptedBy'[p] /\ (Exists(p) => opportunity'[p].status # "absent")
  BY DEF Exists
<1>6. ASSUME NEW p \in Requests PROVE RequestSound(p)'
  <2>1. CASE tx' = tx
    BY <1>4, <2>1 DEF IInv, RequestSound, Exists, ActionExists
  <2>2. CASE \E q \in Requests : tx' = [tx EXCEPT ![q] = Idle]
    BY <1>4, <1>5, <2>2, RequestsEnd
  <2> QED
    BY <2>1, <2>2
<1> QED
  BY <1>1, <1>2, <1>3, <1>6 DEF IInv

(* The steps that only write an existing action. *)
LEMMA ActionSteps ==
  ASSUME IInv,
         \/ \E q \in Requests : RecordOutcome(q)
         \/ \E q \in Requests, target \in ActionStatus : TransitionAction(q, target)
         \/ \E a \in Actions : CompleteAction(a)
  PROVE  \E a \in Actions, row \in ActionRow :
           /\ ActionExists(a) /\ row.of = action[a].of
           /\ action' = [action EXCEPT ![a] = row]
           /\ UNCHANGED << opportunity, acceptedBy >>
           /\ tx' = tx \/ \E q \in Requests : tx' = [tx EXCEPT ![q] = Idle]
           /\ \/ row.outcomes = action[a].outcomes + 1 /\ row.status = action[a].status
                 /\ row.status # "cancelled"
              \/ /\ row.outcomes = action[a].outcomes
                 /\ row.status \in ActionMoves[action[a].status]
                 /\ row.status = "completed" => row.outcomes > 0
              \/ /\ row.outcomes = action[a].outcomes + 1 /\ row.status = "completed"
                 /\ row.status \in ActionMoves[action[a].status]
<1>1. ASSUME NEW q \in Requests, RecordOutcome(q)
      PROVE  \E a \in Actions, row \in ActionRow :
               /\ ActionExists(a) /\ row.of = action[a].of
               /\ action' = [action EXCEPT ![a] = row]
               /\ UNCHANGED << opportunity, acceptedBy >>
               /\ tx' = [tx EXCEPT ![q] = Idle]
               /\ row.outcomes = action[a].outcomes + 1 /\ row.status = action[a].status
               /\ row.status # "cancelled"
  <2> PICK a \in Actions : a = tx[q].on /\ ActionExists(a)
    BY <1>1 DEF IInv, RequestSound, RecordOutcome
  <2> DEFINE row == [action[a] EXCEPT !.outcomes = @ + 1]
  <2>1. row \in ActionRow /\ row.of = action[a].of /\ row.outcomes = action[a].outcomes + 1
        /\ row.status = action[a].status
    BY DEF IInv, TypeOK, ActionRow
  <2>2. action[a].status # "cancelled"
    BY <1>1 DEF RecordOutcome, LockedStatus, Reportable
  <2>3. action' = [action EXCEPT ![a] = row] /\ tx' = [tx EXCEPT ![q] = Idle]
        /\ UNCHANGED << opportunity, acceptedBy >>
    BY <1>1 DEF RecordOutcome, IInv, TypeOK
  <2> HIDE DEF row
  <2> QED
    BY <2>1, <2>2, <2>3
<1>2. ASSUME NEW q \in Requests, NEW target \in ActionStatus, TransitionAction(q, target)
      PROVE  \E a \in Actions, row \in ActionRow :
               /\ ActionExists(a) /\ row.of = action[a].of
               /\ action' = [action EXCEPT ![a] = row]
               /\ UNCHANGED << opportunity, acceptedBy >>
               /\ tx' = [tx EXCEPT ![q] = Idle]
               /\ row.outcomes = action[a].outcomes
               /\ row.status \in ActionMoves[action[a].status]
               /\ row.status = "completed" => row.outcomes > 0
  <2> PICK a \in Actions : a = tx[q].on /\ ActionExists(a)
    BY <1>2 DEF IInv, RequestSound, TransitionAction
  <2> DEFINE row == [action[a] EXCEPT !.status = target]
  <2>1. row \in ActionRow /\ row.of = action[a].of /\ row.outcomes = action[a].outcomes
        /\ row.status = target
    BY DEF IInv, TypeOK, ActionRow
  <2>2. target \in ActionMoves[action[a].status] /\ (target = "completed" => action[a].outcomes > 0)
    BY <1>2 DEF TransitionAction, LockedStatus
  <2>3. action' = [action EXCEPT ![a] = row] /\ tx' = [tx EXCEPT ![q] = Idle]
        /\ UNCHANGED << opportunity, acceptedBy >>
    BY <1>2 DEF TransitionAction, IInv, TypeOK
  <2> HIDE DEF row
  <2> QED
    BY <2>1, <2>2, <2>3
<1>3. ASSUME NEW a \in Actions, CompleteAction(a)
      PROVE  \E row \in ActionRow :
               /\ ActionExists(a) /\ row.of = action[a].of
               /\ action' = [action EXCEPT ![a] = row]
               /\ UNCHANGED << opportunity, acceptedBy, tx >>
               /\ row.outcomes = action[a].outcomes + 1 /\ row.status = "completed"
               /\ row.status \in ActionMoves[action[a].status]
  <2> DEFINE row == [status |-> "completed", of |-> action[a].of, outcomes |-> action[a].outcomes + 1]
  <2>1. row \in ActionRow /\ row.of = action[a].of /\ row.outcomes = action[a].outcomes + 1
        /\ row.status = "completed"
    BY DEF IInv, TypeOK, ActionRow, ActionStatus
  <2>2. ActionExists(a) /\ "completed" \in ActionMoves[action[a].status]
    BY <1>3 DEF CompleteAction
  <2>3. action' = [action EXCEPT ![a] = row] /\ UNCHANGED << opportunity, acceptedBy, tx >>
    BY <1>3 DEF CompleteAction, IInv, TypeOK, ActionRow
  <2> HIDE DEF row
  <2> QED
    BY <2>1, <2>2, <2>3
<1>4. CASE \E q \in Requests : RecordOutcome(q)
  BY <1>1, <1>4
<1>5. CASE \E q \in Requests, target \in ActionStatus : TransitionAction(q, target)
  BY <1>2, <1>5
<1>6. CASE \E a \in Actions : CompleteAction(a)
  BY <1>3, <1>6
<1> QED
  BY <1>4, <1>5, <1>6

LEMMA MovesAreStatuses ==
  ASSUME NEW status \in ActionStatus, NEW next \in ActionMoves[status]
  PROVE  next \in ActionStatus /\ next # status /\ status \in {"planned", "in_progress", "blocked"}
BY DEF ActionMoves, ActionStatus

LEMMA NextInvariant == IInv /\ [Next]_vars => IInv'
<1> SUFFICES ASSUME IInv, [Next]_vars PROVE IInv'
  OBVIOUS
<1>1. ASSUME NEW o \in Opportunities, NEW type \in Kind, NEW count \in Counts,
             CreateOpportunity(o, type, count)
      PROVE  IInv'
  BY <1>1, CreateOpportunityInvariant
<1>2. ASSUME NEW q \in Requests, NEW o \in Opportunities, LoadOpportunity(q, o) PROVE IInv'
  BY <1>2, LoadInvariant
<1>3. ASSUME NEW q \in Requests, NEW a \in Actions, LoadAction(q, a) PROVE IInv'
  BY <1>3, LoadInvariant
<1>4. ASSUME NEW q \in Requests, Refuse(q) PROVE IInv'
  <2>1. tx' = [tx EXCEPT ![q] = Idle] /\ UNCHANGED << opportunity, acceptedBy, action >>
    BY <1>4 DEF Refuse
  <2>2. TypeOK'
    BY <2>1 DEF IInv, TypeOK, Request, Idle
  <2>3. \A p \in Requests : RequestSound(p)'
    BY <2>1, RequestsEnd DEF Exists, ActionExists
  <2>4. \A o \in Opportunities : OpportunitySound(o)'
    BY <2>1 DEF IInv, OpportunitySound, Exists, Threshold
  <2>5. \A a \in Actions : ActionSound(a)'
    BY <2>1 DEF IInv, ActionSound, ActionExists
  <2> QED
    BY <2>2, <2>3, <2>4, <2>5 DEF IInv
<1>5. ASSUME NEW q \in Requests, NEW decision \in {"approve", "reject", "request_changes"},
             Review(q, decision)
      PROVE  IInv'
  BY <1>5, ReviewInvariant
<1>6. ASSUME NEW o \in Opportunities, NEW target \in OpportunityStatus, TransitionOpportunity(o, target)
      PROVE  IInv'
  BY <1>6, TransitionOpportunityInvariant
<1>7. ASSUME NEW q \in Requests, NEW a \in Actions, CreateAction(q, a) PROVE IInv'
  BY <1>7, CreateActionInvariant
<1>8. CASE \/ \E q \in Requests : RecordOutcome(q)
           \/ \E q \in Requests, target \in ActionStatus : TransitionAction(q, target)
           \/ \E a \in Actions : CompleteAction(a)
  <2>1. PICK a \in Actions, row \in ActionRow :
           /\ ActionExists(a) /\ row.of = action[a].of
           /\ action' = [action EXCEPT ![a] = row]
           /\ UNCHANGED << opportunity, acceptedBy >>
           /\ tx' = tx \/ \E q \in Requests : tx' = [tx EXCEPT ![q] = Idle]
           /\ row.status = action[a].status \/ row.status \in ActionMoves[action[a].status]
    BY <1>8, ActionSteps
  <2>2. row.status # "absent"
    BY <2>1, MovesAreStatuses DEF ActionExists, IInv, TypeOK, ActionRow, ActionStatus
  <2> QED
    BY <2>1, <2>2, ActionChanges
<1>9. CASE UNCHANGED vars
  <2>1. TypeOK'
    BY <1>9 DEF vars, IInv, TypeOK
  <2>2. \A o \in Opportunities : OpportunitySound(o)'
    BY <1>9 DEF vars, IInv, OpportunitySound, Exists, Threshold
  <2>3. \A a \in Actions : ActionSound(a)'
    BY <1>9 DEF vars, IInv, ActionSound, ActionExists
  <2>4. \A p \in Requests : RequestSound(p)'
    BY <1>9 DEF vars, IInv, RequestSound, Exists, ActionExists
  <2> QED
    BY <2>1, <2>2, <2>3, <2>4 DEF IInv
<1> QED
  BY <1>1, <1>2, <1>3, <1>4, <1>5, <1>6, <1>7, <1>8, <1>9 DEF Next

-----------------------------------------------------------------------------
(* What a request has read stays good enough for what it may do with it:   *)
(* an opportunity that was once open to actions was accepted on the record.*)
THEOREM InductiveInvariant == Spec => []IInv
<1> QED
  BY InitInvariant, NextInvariant, PTL DEF Spec

(* Every row is one the schema and the enums allow. *)
THEOREM TypeCorrect == Spec => []TypeOK
<1>1. IInv => TypeOK
  BY DEF IInv
<1> QED
  BY <1>1, InductiveInvariant, PTL

(* Whatever order the reviews, the late ones among them, and the actions   *)
(* come in (service.py 100-277), every action item belongs to an           *)
(* opportunity that somebody accepted, and that had the evidence if it was *)
(* a reviewer.                                                             *)
THEOREM EveryActionEarned == Spec => []ActionsEarned
<1>1. IInv => ActionsEarned
  BY DEF IInv, ActionsEarned, ActionSound, OpportunitySound
<1> QED
  BY <1>1, InductiveInvariant, PTL

(* Outcomes, transitions and completions (service.py 280-426) implement    *)
(* the life cycle of an action: it ends once, and is completed only with   *)
(* an outcome.                                                             *)
THEOREM ImplementsLifecycle == Spec => KeepsLifecycle
<1> DEFINE stages == [a \in Actions |-> Stage(a)]
           reports == [a \in Actions |-> action[a].outcomes > 0]
<1>1. Init => Lifecycle!Init
  <2> SUFFICES ASSUME Init PROVE stages = [a \in Actions |-> "none"] /\ reports = [a \in Actions |-> FALSE]
    BY DEF Lifecycle!Init
  <2>1. \A a \in Actions : Stage(a) = "none"
    BY DEF Init, Stage
  <2>2. \A a \in Actions : (action[a].outcomes > 0) = FALSE
    BY DEF Init
  <2> QED
    BY <2>1, <2>2
<1>2. IInv /\ [Next]_vars => [Lifecycle!Next]_(Lifecycle!vars)
  <2> SUFFICES ASSUME IInv, [Next]_vars
               PROVE  Lifecycle!Next \/ UNCHANGED << stages, reports >>
    BY DEF Lifecycle!vars
  <2>1. CASE UNCHANGED action
    BY <2>1 DEF Stage
  <2>2. ASSUME NEW a \in Actions, NEW o \in Opportunities, ~ActionExists(a),
               action' = [action EXCEPT ![a] = NewAction(o)]
        PROVE  Lifecycle!Plan(a)
    <3>1. action[a].status = "absent" /\ action[a].outcomes = 0
      BY <2>2 DEF IInv, ActionSound, ActionExists
    <3>2. /\ action'[a].status = "planned" /\ action'[a].outcomes = 0
          /\ \A b \in Actions : b # a => action'[b] = action[b]
      BY <2>2 DEF IInv, TypeOK, NewAction
    <3>3. stages[a] = "none" /\ stages' = [stages EXCEPT ![a] = "open"] /\ UNCHANGED reports
      BY <3>1, <3>2 DEF Stage
    <3> QED
      BY <3>3 DEF Lifecycle!Plan
  <2>3. ASSUME NEW a \in Actions, NEW row \in ActionRow, ActionExists(a),
               action' = [action EXCEPT ![a] = row],
               \/ row.outcomes = action[a].outcomes + 1 /\ row.status = action[a].status
                  /\ row.status # "cancelled"
               \/ /\ row.outcomes = action[a].outcomes
                  /\ row.status \in ActionMoves[action[a].status]
                  /\ row.status = "completed" => row.outcomes > 0
               \/ /\ row.outcomes = action[a].outcomes + 1 /\ row.status = "completed"
                  /\ row.status \in ActionMoves[action[a].status]
        PROVE  \/ Lifecycle!Report(a) \/ Lifecycle!Complete(a) \/ Lifecycle!Cancel(a)
               \/ Lifecycle!ReportAndComplete(a) \/ UNCHANGED << stages, reports >>
    <3>1. /\ action[a].status \in ActionStatus /\ action[a].outcomes \in Nat
          /\ \A b \in Actions : b # a => action'[b] = action[b]
          /\ action'[a] = row
      BY <2>3 DEF IInv, TypeOK, ActionRow, ActionExists
    <3>2. /\ stages' = [stages EXCEPT ![a] = stages'[a]]
          /\ reports' = [reports EXCEPT ![a] = row.outcomes > 0]
          /\ stages'[a] = CASE row.status = "absent" -> "none"
                             [] row.status \in {"planned", "in_progress", "blocked"} -> "open"
                             [] OTHER -> row.status
          /\ stages[a] = CASE action[a].status = "absent" -> "none"
                            [] action[a].status \in {"planned", "in_progress", "blocked"} -> "open"
                            [] OTHER -> action[a].status
          /\ reports[a] = (action[a].outcomes > 0)
      BY <3>1 DEF Stage
    <3> HIDE DEF stages, reports
    <3>3. CASE row.outcomes = action[a].outcomes + 1 /\ row.status = action[a].status
               /\ row.status # "cancelled"
      <4>1. stages[a] \in {"open", "completed"} /\ stages'[a] = stages[a] /\ row.outcomes > 0
        BY <3>1, <3>2, <3>3 DEF ActionStatus
      <4>2. UNCHANGED stages /\ reports' = [reports EXCEPT ![a] = TRUE]
        BY <3>2, <4>1 DEF stages
      <4> QED
        BY <4>1, <4>2 DEF Lifecycle!Report, stages, reports
    <3>4. CASE row.status \in ActionMoves[action[a].status]
      <4>1. row.status \in ActionStatus /\ row.status # action[a].status
            /\ action[a].status \in {"planned", "in_progress", "blocked"}
        BY <3>1, <3>4, MovesAreStatuses
      <4>2. stages[a] = "open" /\ stages'[a] \in {"open", "completed", "cancelled"}
            /\ (stages'[a] = "completed" <=> row.status = "completed")
        BY <3>2, <4>1 DEF ActionStatus
      <4>3. CASE row.outcomes = action[a].outcomes + 1 /\ row.status = "completed"
        <5>1. stages' = [stages EXCEPT ![a] = "completed"] /\ reports' = [reports EXCEPT ![a] = TRUE]
          <6>1. row.outcomes > 0 /\ stages'[a] = "completed"
            BY <3>1, <4>2, <4>3
          <6> QED
            BY <3>2, <6>1
        <5> QED
          BY <4>2, <5>1 DEF Lifecycle!ReportAndComplete, stages, reports
      <4>4. CASE row.outcomes = action[a].outcomes /\ (row.status = "completed" => row.outcomes > 0)
        <5>1. UNCHANGED reports
          BY <3>2, <4>4 DEF reports
        <5>2. CASE stages'[a] = "open"
          <6>1. UNCHANGED stages
            BY <3>2, <4>2, <5>2 DEF stages
          <6> QED
            BY <5>1, <6>1 DEF stages, reports
        <5>3. CASE stages'[a] = "completed"
          <6>1. reports[a] /\ stages' = [stages EXCEPT ![a] = "completed"]
            BY <3>2, <4>2, <4>4, <5>3
          <6> QED
            BY <4>2, <5>1, <6>1 DEF Lifecycle!Complete, stages, reports
        <5>4. CASE stages'[a] = "cancelled"
          BY <3>2, <4>2, <5>1, <5>4 DEF Lifecycle!Cancel, stages, reports
        <5> QED
          BY <4>2, <5>2, <5>3, <5>4
      <4> QED
        BY <2>3, <3>1, <4>1, <4>3, <4>4
    <3> QED
      BY <2>3, <3>3, <3>4
  <2>4. CASE \/ \E q \in Requests : RecordOutcome(q)
             \/ \E q \in Requests, target \in ActionStatus : TransitionAction(q, target)
             \/ \E a \in Actions : CompleteAction(a)
    BY <2>3, <2>4, ActionSteps DEF Lifecycle!Next
  <2>5. ASSUME NEW q \in Requests, NEW decision \in {"approve", "reject", "request_changes"},
               Review(q, decision)
        PROVE  Lifecycle!Next \/ UNCHANGED << stages, reports >>
    <3> PICK o \in Opportunities : o = tx[q].on
      BY <2>5 DEF IInv, RequestSound, Review
    <3>1. \/ UNCHANGED action
          \/ \E a \in Actions : ~ActionExists(a) /\ action' = [action EXCEPT ![a] = NewAction(o)]
      BY <2>5 DEF Review
    <3> QED
      BY <2>1, <2>2, <3>1 DEF Lifecycle!Next
  <2>6. ASSUME NEW q \in Requests, NEW a \in Actions, CreateAction(q, a)
        PROVE  Lifecycle!Next
    <3> PICK o \in Opportunities : o = tx[q].on
      BY <2>6 DEF IInv, RequestSound, CreateAction
    <3> QED
      BY <2>2, <2>6 DEF CreateAction, Lifecycle!Next
  <2> QED
    BY <2>1, <2>4, <2>5, <2>6 DEF Next, CreateOpportunity, LoadOpportunity, LoadAction, Load, Refuse,
       TransitionOpportunity, vars
<1> QED
  BY <1>1, <1>2, InductiveInvariant, PTL DEF Spec, KeepsLifecycle, Lifecycle!Spec
=============================================================================
