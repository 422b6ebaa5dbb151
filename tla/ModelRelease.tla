---------------------------- MODULE ModelRelease ----------------------------
(***************************************************************************)
(* Release decisions and rollbacks of modules/evaluation/service.py, each  *)
(* in a transaction of its own, against PostgreSQL at READ COMMITTED.      *)
(* There is one release per evaluation (uq_model_release_evaluation_run),  *)
(* so a release is named after its evaluation.  A step ends where the      *)
(* transaction may have to wait: for a row that another one has locked, or *)
(* for the slot of the unique index on active releases.                    *)
(***************************************************************************)
CONSTANTS
  Requests,     \* callers, each of which issues one transaction after another
  Evaluations,
  Failing,      \* the evaluations whose metrics fail a blocking gate
  None

ASSUME FailingAssumption == Failing \subseteq Evaluations
ASSUME NoneAssumption == None \notin Evaluations

VARIABLES
  evaluation,  \* status of the committed evaluation rows
  rel,         \* the committed release rows
  tx           \* the transactions

vars == << evaluation, rel, tx >>

Release == [status     : {"absent", "blocked", "active", "superseded", "rolled_back"},
            rollbackOf : Evaluations \cup {None}]

Transaction == [pc   : {"idle", "begun", "chosen", "retired", "activated"},
                op   : {"decide", "rollback"},
                on   : Evaluations \cup {None},  \* the evaluation, or the target
                seen : SUBSET Evaluations,       \* active in the snapshot of the statement
                held : SUBSET Evaluations]       \* of those, locked and retired

Idle == [pc |-> "idle", op |-> "decide", on |-> None, seen |-> {}, held |-> {}]

Active == {e \in Evaluations : rel[e].status = "active"}
History == {e \in Evaluations : rel[e].status \in {"superseded", "rolled_back"}}

Holds(q) == tx[q].pc \in {"chosen", "retired", "activated"}
EvaluationFree(e, q) == \A p \in Requests \ {q} : ~(Holds(p) /\ tx[p].op = "decide" /\ tx[p].on = e)
ReleaseFree(e, q) ==
  \A p \in Requests \ {q} : e \notin tx[p].held /\ ~(Holds(p) /\ tx[p].op = "rollback" /\ tx[p].on = e)

-----------------------------------------------------------------------------
Init ==
  /\ evaluation = [e \in Evaluations |-> "absent"]
  /\ rel = [e \in Evaluations |-> [status |-> "absent", rollbackOf |-> None]]
  /\ tx = [q \in Requests |-> Idle]

EvaluatePending(e) ==          \* mutant: the status is left to the default of its column
  /\ evaluation[e] = "absent"
  /\ evaluation' = [evaluation EXCEPT ![e] = "pending"]
  /\ UNCHANGED << rel, tx >>

(* evaluate_release, with a golden set that is approved. *)
Evaluate(e) ==
  /\ evaluation[e] = "absent"
  /\ evaluation' = [evaluation EXCEPT ![e] = "evaluated"]
  /\ UNCHANGED << rel, tx >>

Begin(q, op, e) ==
  /\ tx[q].pc = "idle"
  /\ tx' = [tx EXCEPT ![q] = [Idle EXCEPT !.pc = "begun", !.op = op, !.on = e]]
  /\ UNCHANGED << evaluation, rel >>

(* The first statement has locked its row: the evaluation of a decision,   *)
(* the target of a rollback. *)
Locked(q) ==
  /\ tx[q].pc = "begun"
  /\ IF tx[q].op = "decide" THEN EvaluationFree(tx[q].on, q) ELSE ReleaseFree(tx[q].on, q)

Undecided(e) == evaluation[e] # "absent" /\ rel[e].status = "absent"

Admissible(q) ==
  IF tx[q].op = "decide" THEN Undecided(tx[q].on) ELSE tx[q].on \in History \ Failing

Refuse(q) ==
  /\ Locked(q) /\ ~Admissible(q)
  /\ tx' = [tx EXCEPT ![q] = Idle]
  /\ UNCHANGED << evaluation, rel >>

(* A gate failed: the decision is recorded without touching any other      *)
(* release.                                                                *)
Block(q) ==
  /\ Locked(q) /\ Admissible(q) /\ tx[q].op = "decide" /\ tx[q].on \in Failing
  /\ evaluation' = [evaluation EXCEPT ![tx[q].on] = "blocked"]
  /\ rel' = [rel EXCEPT ![tx[q].on].status = "blocked"]
  /\ tx' = [tx EXCEPT ![q] = Idle]

ChooseUngated(q) ==            \* mutant: the result of the gates is not looked at
  /\ Locked(q) /\ Admissible(q)
  /\ tx' = [tx EXCEPT ![q].pc = "chosen", ![q].seen = Active]
  /\ UNCHANGED << evaluation, rel >>

(* The statement that locks the active release takes its snapshot. *)
Choose(q) ==
  /\ Locked(q) /\ Admissible(q) /\ tx[q].on \notin Failing
  /\ tx' = [tx EXCEPT ![q].pc = "chosen", ![q].seen = Active]
  /\ UNCHANGED << evaluation, rel >>

Reached(q) == tx[q].pc = "chosen" /\ \A e \in tx[q].seen : ReleaseFree(e, q)

(* What it has seen is looked at again once it is locked; what is still    *)
(* active is retired and flushed, which empties the slot of the index.     *)
Retire(q) ==
  /\ Reached(q)
  /\ tx[q].op = "rollback" => tx[q].seen \cap Active # {}
  /\ tx' = [tx EXCEPT ![q].pc = "retired", ![q].held = @ \cup (tx[q].seen \cap Active)]
  /\ UNCHANGED << evaluation, rel >>

(* A rollback finds nothing that it could roll back. *)
NothingActive(q) ==
  /\ Reached(q) /\ tx[q].op = "rollback" /\ tx[q].seen \cap Active = {}
  /\ tx' = [tx EXCEPT ![q] = Idle]
  /\ UNCHANGED << evaluation, rel >>

(* uq_model_releases_single_active: an entry waits for every transaction   *)
(* that has written or retired the entry it collides with ...              *)
SlotIgnored(q) ==              \* mutant: without the unique index
  tx[q].pc = "retired"
SlotQueued(q) ==               \* mutant: it waits for every writer
  tx[q].pc = "retired" /\ \A p \in Requests \ {q} : tx[p].pc \notin {"retired", "activated"}
SlotSettled(q) ==
  /\ tx[q].pc = "retired"
  /\ \A p \in Requests \ {q} : tx[p].pc # "activated" /\ tx[p].held = {}

Activate(q) ==
  /\ SlotSettled(q) /\ Active \subseteq tx[q].held
  /\ tx' = [tx EXCEPT ![q].pc = "activated"]
  /\ UNCHANGED << evaluation, rel >>

(* ... and fails if that one committed. *)
Collide(q) ==
  /\ SlotSettled(q) /\ ~(Active \subseteq tx[q].held)
  /\ tx' = [tx EXCEPT ![q] = Idle]
  /\ UNCHANGED << evaluation, rel >>

Retired(op) == IF op = "decide" THEN "superseded" ELSE "rolled_back"

Commit(q) ==
  /\ tx[q].pc = "activated"
  /\ LET w == tx[q]
     IN  /\ rel' = [e \in Evaluations |->
              IF e = w.on
              THEN [status |-> "active",
                    rollbackOf |-> IF w.op = "decide" THEN None ELSE CHOOSE a \in w.held : TRUE]
              ELSE IF e \in w.held THEN [rel[e] EXCEPT !.status = Retired(w.op)] ELSE rel[e]]
         /\ evaluation' = IF w.op = "decide" THEN [evaluation EXCEPT ![w.on] = "released"] ELSE evaluation
  /\ tx' = [tx EXCEPT ![q] = Idle]

(* An error or the death of the process: PostgreSQL rolls back. *)
Abort(q) ==
  /\ tx[q].pc # "idle"
  /\ tx' = [tx EXCEPT ![q] = Idle]
  /\ UNCHANGED << evaluation, rel >>

Step(q) ==
  Refuse(q) \/ Block(q) \/ Choose(q) \/ Retire(q) \/ NothingActive(q) \/ Activate(q) \/ Collide(q) \/ Commit(q)

Next ==
  \/ \E e \in Evaluations : Evaluate(e)
  \/ \E q \in Requests :
       \/ \E op \in {"decide", "rollback"}, e \in Evaluations : Begin(q, op, e)
       \/ Step(q) \/ Abort(q)

Spec == Init /\ [][Next]_vars

(* A statement that waits is queued, so it is served although others keep  *)
(* coming; nobody has to begin, and nothing has to fail.                   *)
FairSpec == Spec /\ \A q \in Requests : SF_vars(Step(q))

-----------------------------------------------------------------------------
(* The variables have their types. *)
TypeOK ==
  /\ evaluation \in [Evaluations -> {"absent", "evaluated", "blocked", "released"}]
  /\ rel \in [Evaluations -> Release]
  /\ tx \in [Requests -> Transaction]

(* However decisions, rollbacks and failures interleave, every commit      *)
(* replaces the active release as a whole: there is never a second one,    *)
(* never none again, and a rollback only brings back what was in use.      *)
Register == INSTANCE ReleaseRegister WITH inUse <- Active, past <- History
KeepsRegister == Register!Spec

(* No release that fails a gate is ever in use, and a release is in use    *)
(* only behind a decision that says so.                                    *)
OnlyPassedIsUsed ==
  \A e \in Active \cup History : e \notin Failing /\ evaluation[e] = "released"

(* As long as a restored release is in use, the one it replaced is marked  *)
(* as rolled back.                                                         *)
RollbackIsTraced ==
  \A e \in Active : rel[e].rollbackOf # None => rel[rel[e].rollbackOf].status = "rolled_back"

(* Whose commit or rollback the next statement of a transaction waits for. *)
Keeps(p, e) == e \in tx[p].held \/ (Holds(p) /\ tx[p].op = "rollback" /\ tx[p].on = e)
WaitsFor(q) ==
  {p \in Requests \ {q} :
     \/ /\ tx[q].pc = "begun" /\ tx[q].op = "decide"
        /\ Holds(p) /\ tx[p].op = "decide" /\ tx[p].on = tx[q].on
     \/ tx[q].pc = "begun" /\ tx[q].op = "rollback" /\ Keeps(p, tx[q].on)
     \/ tx[q].pc = "chosen" /\ \E e \in tx[q].seen : Keeps(p, e)
     \/ tx[q].pc = "retired" /\ (tx[p].pc = "activated" \/ tx[p].held # {})}

(* What EveryRequestEnds rests on: however many decisions and rollbacks    *)
(* are underway, no group of them waits for itself.  A rollback locks its  *)
(* target before it waits for the active release, and another may have     *)
(* seen that target active and wait for it, but never both ways round.     *)
NoCircleOfLocks ==
  \A group \in SUBSET {q \in Requests : tx[q].pc # "idle"} :
    group # {} => \E q \in group : WaitsFor(q) \cap group = {}

(* So as long as a decision or a rollback is underway, the next statement  *)
(* of one of them is not blocked.                                          *)
SomebodyGoesOn ==
  (\E q \in Requests : tx[q].pc # "idle") =>
    \E q \in Requests : Locked(q) \/ Reached(q) \/ SlotSettled(q) \/ tx[q].pc = "activated"

(* Every transaction ends: no decision and no rollback wait for each other *)
(* in a circle.                                                            *)
EveryRequestEnds == \A q \in Requests : tx[q].pc # "idle" ~> tx[q].pc = "idle"
=============================================================================
