------------------------- MODULE ModelReleaseProofs -------------------------
(***************************************************************************)
(* Theorems about ModelRelease, for every number of callers and            *)
(* evaluations.                                                            *)
(***************************************************************************)
EXTENDS ModelRelease, TLAPS

(* What a transaction relies on while it holds its locks. *)
Sound(q) ==
  LET w == tx[q]
  IN  /\ w.held \subseteq Active
      /\ w.pc \in {"idle", "begun", "chosen"} => w.held = {}
      /\ w.pc # "idle" => w.on \in Evaluations
      /\ Holds(q) => w.on \notin Failing
      /\ Holds(q) /\ w.op = "decide" => Undecided(w.on)
      /\ Holds(q) /\ w.op = "rollback" => w.on \in History
      /\ w.pc \in {"retired", "activated"} /\ w.op = "rollback" => w.held # {}
      /\ w.pc = "activated" => Active \subseteq w.held

(* What two transactions rely on: no two lock one row, and only one of     *)
(* them is in the slot of the index. *)
Apart(p, q) ==
  /\ Holds(p) /\ Holds(q) /\ tx[p].op = tx[q].op => tx[p].on # tx[q].on
  /\ tx[p].held \cap tx[q].held = {}
  /\ tx[p].pc = "activated" => tx[q].pc # "activated" /\ tx[q].held = {}

IInv ==
  /\ TypeOK
  /\ \A a, b \in Active : a = b
  /\ OnlyPassedIsUsed
  /\ RollbackIsTraced
  /\ \A q \in Requests : Sound(q)
  /\ \A p, q \in Requests : p # q => Apart(p, q)

-----------------------------------------------------------------------------
LEMMA InitInvariant == Init => IInv
<1> SUFFICES ASSUME Init PROVE IInv
  OBVIOUS
<1>1. TypeOK
  BY DEF Init, TypeOK, Release, Transaction, Idle
<1>2. Active = {} /\ History = {}
  BY DEF Init, Active, History
<1>3. \A q \in Requests : Sound(q)
  BY <1>2 DEF Init, Sound, Idle, Holds
<1>4. \A p, q \in Requests : Apart(p, q)
  BY DEF Init, Apart, Idle, Holds
<1> QED
  BY <1>1, <1>2, <1>3, <1>4 DEF IInv, OnlyPassedIsUsed, RollbackIsTraced

(* A transaction that ends without a commit disturbs nobody. *)
LEMMA EndInvariant ==
  ASSUME IInv, NEW q \in Requests, tx' = [tx EXCEPT ![q] = Idle], UNCHANGED << evaluation, rel >>
  PROVE  IInv'
<1>1. TypeOK'
  BY DEF IInv, TypeOK, Transaction, Idle
<1>2. Active' = Active /\ History' = History
  BY DEF Active, History
<1>3. /\ tx'[q] = Idle
      /\ \A p \in Requests : p # q => tx'[p] = tx[p]
  BY DEF IInv, TypeOK
<1>4. \A p \in Requests : Sound(p)'
  BY <1>2, <1>3 DEF IInv, Sound, Idle, Holds, Undecided
<1>5. \A p, r \in Requests : p # r => Apart(p, r)'
  BY <1>3 DEF IInv, Apart, Idle, Holds
<1> QED
  BY <1>1, <1>2, <1>4, <1>5 DEF IInv, OnlyPassedIsUsed, RollbackIsTraced

(* A transaction that goes on without a commit, as long as it stays sound  *)
(* and apart from the others.                                              *)
LEMMA MoveInvariant ==
  ASSUME IInv, TypeOK', NEW q \in Requests, UNCHANGED << evaluation, rel >>,
         \A p \in Requests : p # q => tx'[p] = tx[p],
         Sound(q)',
         \A p \in Requests : p # q => Apart(p, q)' /\ Apart(q, p)'
  PROVE  IInv'
<1>1. Active' = Active /\ History' = History
  BY DEF Active, History
<1>2. \A p \in Requests : Sound(p)'
  BY <1>1 DEF IInv, Sound, Holds, Undecided
<1>3. \A p, r \in Requests : p # r => Apart(p, r)'
  BY DEF IInv, Apart, Holds
<1> QED
  BY <1>1, <1>2, <1>3 DEF IInv, OnlyPassedIsUsed, RollbackIsTraced

LEMMA BeginInvariant ==
  ASSUME IInv, NEW q \in Requests, NEW op \in {"decide", "rollback"}, NEW e \in Evaluations,
         Begin(q, op, e)
  PROVE  IInv'
<1> DEFINE w == [Idle EXCEPT !.pc = "begun", !.op = op, !.on = e]
<1>1. tx' = [tx EXCEPT ![q] = w] /\ UNCHANGED << evaluation, rel >>
  BY DEF Begin
<1>2. w \in Transaction /\ w.pc = "begun" /\ w.on = e /\ w.held = {}
  BY DEF Idle, Transaction
<1> HIDE DEF w
<1>3. TypeOK'
  BY <1>1, <1>2 DEF IInv, TypeOK
<1>4. /\ tx'[q].pc = "begun" /\ tx'[q].on \in Evaluations /\ tx'[q].held = {}
      /\ \A p \in Requests : p # q => tx'[p] = tx[p]
  BY <1>1, <1>2 DEF IInv, TypeOK
<1>5. Sound(q)'
  BY <1>4 DEF Sound, Holds
<1>6. \A p \in Requests : p # q => Apart(p, q)' /\ Apart(q, p)'
  BY <1>4 DEF Apart, Holds, IInv
<1> QED
  BY <1>1, <1>3, <1>4, <1>5, <1>6, MoveInvariant

LEMMA ChooseInvariant ==
  ASSUME IInv, NEW q \in Requests, Choose(q)
  PROVE  IInv'
<1>1. /\ tx' = [tx EXCEPT ![q].pc = "chosen", ![q].seen = Active] /\ UNCHANGED << evaluation, rel >>
      /\ tx[q].pc = "begun" /\ tx[q].on \notin Failing /\ Admissible(q) /\ Locked(q)
  BY DEF Choose, Locked
<1>2. Active \subseteq Evaluations
  BY DEF Active
<1> DEFINE w == [tx[q] EXCEPT !.pc = "chosen", !.seen = Active]
<1>w. /\ w \in Transaction
      /\ w.pc = "chosen" /\ w.on = tx[q].on /\ w.op = tx[q].op /\ w.held = tx[q].held
  BY <1>2 DEF IInv, TypeOK, Transaction
<1>t. tx' = [tx EXCEPT ![q] = w]
  BY <1>1 DEF IInv, TypeOK
<1> HIDE DEF w
<1>3. TypeOK'
  BY <1>1, <1>w, <1>t DEF IInv, TypeOK
<1>4. /\ tx'[q].pc = "chosen" /\ tx'[q].on = tx[q].on /\ tx'[q].op = tx[q].op /\ tx'[q].held = tx[q].held
      /\ \A p \in Requests : p # q => tx'[p] = tx[p]
  BY <1>w, <1>t DEF IInv, TypeOK
<1>5. tx[q].held = {} /\ tx[q].on \in Evaluations
  BY <1>1 DEF IInv, Sound
<1>6. Active' = Active /\ History' = History
  BY <1>1 DEF Active, History
<1>7. Sound(q)'
  <2>1. tx'[q].op = "decide" => evaluation'[tx'[q].on] # "absent" /\ rel'[tx'[q].on].status = "absent"
    BY <1>1, <1>4 DEF Admissible, Undecided
  <2>2. tx'[q].op = "rollback" => tx'[q].on \in History'
    BY <1>1, <1>4, <1>6 DEF Admissible
  <2> QED
    BY <1>1, <1>4, <1>5, <2>1, <2>2 DEF Sound, Undecided
<1>8. \A p \in Requests : p # q => Apart(p, q)' /\ Apart(q, p)'
  <2> SUFFICES ASSUME NEW p \in Requests, p # q PROVE Apart(p, q)' /\ Apart(q, p)'
    OBVIOUS
  <2>1. Holds(p) /\ tx[p].op = tx[q].op => tx[p].on # tx[q].on
    BY <1>1 DEF Locked, EvaluationFree, ReleaseFree, IInv, TypeOK, Transaction
  <2> QED
    BY <1>4, <1>5, <2>1 DEF Apart, Holds, IInv
<1> QED
  BY <1>1, <1>3, <1>4, <1>7, <1>8, MoveInvariant

LEMMA RetireInvariant ==
  ASSUME IInv, NEW q \in Requests, Retire(q)
  PROVE  IInv'
<1> DEFINE still == tx[q].seen \cap Active
<1>1. /\ tx' = [tx EXCEPT ![q].pc = "retired", ![q].held = @ \cup still] /\ UNCHANGED << evaluation, rel >>
      /\ tx[q].pc = "chosen"
      /\ tx[q].op = "rollback" => still # {}
      /\ \A e \in tx[q].seen : ReleaseFree(e, q)
  BY DEF Retire, Reached
<1>2. Active \subseteq Evaluations
  BY DEF Active
<1>4. tx[q].held = {}
  BY <1>1 DEF IInv, Sound
<1> DEFINE w == [tx[q] EXCEPT !.pc = "retired", !.held = @ \cup still]
<1>w. /\ w \in Transaction
      /\ w.pc = "retired" /\ w.on = tx[q].on /\ w.op = tx[q].op /\ w.held = still
  BY <1>2, <1>4 DEF IInv, TypeOK, Transaction
<1>t. tx' = [tx EXCEPT ![q] = w]
  BY <1>1 DEF IInv, TypeOK
<1> HIDE DEF w
<1>3. TypeOK'
  BY <1>1, <1>w, <1>t DEF IInv, TypeOK
<1>5. /\ tx'[q].pc = "retired" /\ tx'[q].on = tx[q].on /\ tx'[q].op = tx[q].op /\ tx'[q].held = still
      /\ \A p \in Requests : p # q => tx'[p] = tx[p]
  BY <1>w, <1>t DEF IInv, TypeOK
<1>6. Active' = Active /\ History' = History
  BY <1>1 DEF Active, History
<1>7. Sound(q)'
  <2>1. tx[q].on \in Evaluations /\ tx[q].on \notin Failing
    BY <1>1 DEF IInv, Sound, Holds
  <2>2. tx'[q].op = "decide" => evaluation'[tx'[q].on] # "absent" /\ rel'[tx'[q].on].status = "absent"
    BY <1>1, <1>5 DEF IInv, Sound, Holds, Undecided
  <2>3. tx'[q].op = "rollback" => tx'[q].on \in History'
    <3>1. Holds(q)
      BY <1>1 DEF Holds
    <3>2. tx[q].op = "rollback" => tx[q].on \in History
      BY <3>1 DEF IInv, Sound
    <3> QED
      BY <1>5, <1>6, <3>2
  <2>4. tx'[q].held \subseteq Active' /\ (tx'[q].op = "rollback" => tx'[q].held # {})
    BY <1>1, <1>5, <1>6
  <2>5. tx'[q].pc = "retired" /\ tx'[q].on \in Evaluations /\ tx'[q].on \notin Failing
    BY <1>5, <2>1
  <2> HIDE DEF still
  <2> QED
    BY <2>2, <2>3, <2>4, <2>5, SMTT(60) DEF Sound, Undecided
<1>8. \A p \in Requests : p # q => Apart(p, q)' /\ Apart(q, p)'
  <2> SUFFICES ASSUME NEW p \in Requests, p # q PROVE Apart(p, q)' /\ Apart(q, p)'
    OBVIOUS
  <2>1. tx[p].held \cap still = {}
    BY <1>1 DEF ReleaseFree
  <2>2. tx[p].pc = "activated" => still = {}
    BY <2>1 DEF IInv, Sound
  <2>3. Apart(p, q) /\ Apart(q, p)
    BY DEF IInv
  <2> QED
    BY <1>1, <1>5, <2>1, <2>2, <2>3 DEF Apart, Holds
<1> QED
  BY <1>1, <1>3, <1>5, <1>7, <1>8, MoveInvariant

LEMMA ActivateInvariant ==
  ASSUME IInv, NEW q \in Requests, Activate(q)
  PROVE  IInv'
<1>1. /\ tx' = [tx EXCEPT ![q].pc = "activated"] /\ UNCHANGED << evaluation, rel >>
      /\ tx[q].pc = "retired" /\ Active \subseteq tx[q].held
      /\ \A p \in Requests : p # q => tx[p].pc # "activated" /\ tx[p].held = {}
  BY DEF Activate, SlotSettled
<1>2. TypeOK'
  BY <1>1 DEF IInv, TypeOK, Transaction
<1>3. /\ tx'[q].pc = "activated" /\ tx'[q].on = tx[q].on /\ tx'[q].op = tx[q].op /\ tx'[q].held = tx[q].held
      /\ \A p \in Requests : p # q => tx'[p] = tx[p]
  BY <1>1 DEF IInv, TypeOK, Transaction
<1>4. Active' = Active /\ History' = History
  BY <1>1 DEF Active, History
<1>5. Sound(q)'
  BY <1>1, <1>3, <1>4 DEF Sound, Holds, Undecided, IInv
<1>6. \A p \in Requests : p # q => Apart(p, q)' /\ Apart(q, p)'
  BY <1>1, <1>3 DEF Apart, Holds, IInv
<1> QED
  BY <1>1, <1>2, <1>3, <1>5, <1>6, MoveInvariant

LEMMA BlockInvariant ==
  ASSUME IInv, NEW q \in Requests, Block(q)
  PROVE  IInv' /\ Active' = Active /\ History' = History
<1> DEFINE e == tx[q].on
<1>1. /\ Locked(q) /\ Undecided(e) /\ tx[q].op = "decide" /\ e \in Evaluations /\ tx[q].pc = "begun"
      /\ evaluation' = [evaluation EXCEPT ![e] = "blocked"]
      /\ rel' = [rel EXCEPT ![e].status = "blocked"]
      /\ tx' = [tx EXCEPT ![q] = Idle]
  BY FailingAssumption DEF Block, Locked, Admissible
<1>2. e \notin Active /\ e \notin History
  BY <1>1 DEF Undecided, Active, History
<1>3. /\ rel'[e].status = "blocked"
      /\ \A f \in Evaluations : f # e => rel'[f] = rel[f] /\ evaluation'[f] = evaluation[f]
  BY <1>1 DEF IInv, TypeOK, Release
<1> HIDE DEF e
<1>4. Active' = Active /\ History' = History
  BY <1>1, <1>2, <1>3 DEF Active, History
<1>5. /\ tx'[q] = Idle
      /\ \A p \in Requests : p # q => tx'[p] = tx[p]
  BY <1>1 DEF IInv, TypeOK
<1>6. TypeOK'
  <2>1. [rel[e] EXCEPT !.status = "blocked"] \in Release
    BY <1>1 DEF IInv, TypeOK, Release
  <2>2. Idle \in Transaction
    BY DEF Idle, Transaction
  <2> QED
    BY <1>1, <2>1, <2>2 DEF IInv, TypeOK
<1>7. OnlyPassedIsUsed'
  BY <1>2, <1>3, <1>4 DEF IInv, OnlyPassedIsUsed, Active, History
<1>8. RollbackIsTraced'
  <2> SUFFICES ASSUME NEW f \in Active, rel[f].rollbackOf # None
               PROVE  rel'[rel[f].rollbackOf].status = "rolled_back"
    BY <1>2, <1>3, <1>4 DEF RollbackIsTraced, Active
  <2>1. rel[f].rollbackOf \in Evaluations /\ rel[rel[f].rollbackOf].status = "rolled_back"
    BY DEF IInv, RollbackIsTraced, TypeOK, Release, Active
  <2> QED
    BY <1>2, <1>3, <2>1 DEF History
<1>9. \A p \in Requests : Sound(p)'
  <2> SUFFICES ASSUME NEW p \in Requests PROVE Sound(p)'
    OBVIOUS
  <2>1. CASE p = q
    BY <1>5, <2>1 DEF Sound, Idle, Holds
  <2>2. CASE p # q
    <3>1. tx'[p] = tx[p] /\ Sound(p)
      BY <1>5, <2>2 DEF IInv
    <3>2. Holds(p) /\ tx[p].op = "decide" => tx[p].on # e
      BY <1>1, <2>2 DEF Locked, EvaluationFree, e
    <3>3. Holds(p) /\ tx[p].op = "decide" => Undecided(tx[p].on)'
      BY <1>3, <3>1, <3>2 DEF Sound, Undecided, Holds
    <3> QED
      BY <1>4, <3>1, <3>3 DEF Sound, Holds
  <2> QED
    BY <2>1, <2>2
<1>10. \A p, r \in Requests : p # r => Apart(p, r)'
  BY <1>5 DEF IInv, Apart, Idle, Holds
<1> QED
  BY <1>4, <1>6, <1>7, <1>8, <1>9, <1>10 DEF IInv

(* What a commit does to the register. *)
LEMMA CommitActive ==
  ASSUME IInv, NEW q \in Requests, Commit(q)
  PROVE  /\ tx[q].on \in Evaluations /\ tx[q].on \notin Active
         /\ Active = tx[q].held
         /\ Active' = {tx[q].on}
         /\ History' = (History \ {tx[q].on}) \cup Active
<1> DEFINE w == tx[q]
           e == w.on
<1>1. /\ w.pc = "activated" /\ Sound(q) /\ e \in Evaluations
      /\ Active = w.held
      /\ rel' = [f \in Evaluations |->
              IF f = e
              THEN [status |-> "active",
                    rollbackOf |-> IF w.op = "decide" THEN None ELSE CHOOSE a \in w.held : TRUE]
              ELSE IF f \in w.held THEN [rel[f] EXCEPT !.status = Retired(w.op)] ELSE rel[f]]
  BY DEF Commit, IInv, Sound
<1>2. e \notin Active
  BY <1>1 DEF Sound, Holds, IInv, TypeOK, Transaction, Undecided, Active, History
<1> HIDE DEF e
<1>3. /\ rel'[e].status = "active"
      /\ \A f \in Active : rel'[f].status \in {"superseded", "rolled_back"}
      /\ \A f \in Evaluations : f # e /\ f \notin Active => rel'[f] = rel[f]
  <2>1. \A f \in Active : f \in Evaluations /\ rel[f] \in Release
    BY DEF Active, IInv, TypeOK
  <2> QED
    BY <1>1, <1>2, <2>1 DEF Retired, Release
<1>4. Active' = {e}
  BY <1>1, <1>2, <1>3 DEF Active
<1>5. History' = (History \ {e}) \cup Active
  BY <1>1, <1>2, <1>3 DEF History, Active
<1> QED
  BY <1>1, <1>2, <1>4, <1>5 DEF e

LEMMA CommitInvariant ==
  ASSUME IInv, NEW q \in Requests, Commit(q)
  PROVE  IInv'
<1> DEFINE w == tx[q]
           e == w.on
           row == [status |-> "active",
                   rollbackOf |-> IF w.op = "decide" THEN None ELSE CHOOSE a \in w.held : TRUE]
<1>1. /\ w.pc = "activated" /\ Sound(q) /\ w \in Transaction
      /\ rel' = [f \in Evaluations |->
              IF f = e THEN row
              ELSE IF f \in w.held THEN [rel[f] EXCEPT !.status = Retired(w.op)] ELSE rel[f]]
      /\ evaluation' = IF w.op = "decide" THEN [evaluation EXCEPT ![e] = "released"] ELSE evaluation
      /\ tx' = [tx EXCEPT ![q] = Idle]
  BY DEF Commit, IInv, TypeOK
<1>2. /\ e \in Evaluations /\ e \notin Active /\ Active = w.held
      /\ Active' = {e} /\ History' = (History \ {e}) \cup Active
  BY CommitActive
<1>3. /\ w.op = "rollback" => w.held # {} /\ e \in History
      /\ w.op = "decide" => Undecided(e)
      /\ e \notin Failing
  BY <1>1 DEF Sound, Holds
<1>4. w.op \in {"decide", "rollback"} /\ w.held \subseteq Evaluations
  BY <1>1 DEF Transaction
<1>5. /\ tx'[q] = Idle
      /\ \A p \in Requests : p # q => tx'[p] = tx[p]
  BY <1>1 DEF IInv, TypeOK
<1>6. row \in Release /\ row.rollbackOf \in w.held \cup {None} /\ (w.op = "decide" => row.rollbackOf = None)
  BY <1>3, <1>4 DEF Release
<1> HIDE DEF row, e
<1>7. /\ rel'[e] = row
      /\ \A f \in w.held : rel'[f] = [rel[f] EXCEPT !.status = Retired(w.op)]
      /\ \A f \in Evaluations : f # e /\ f \notin w.held => rel'[f] = rel[f]
  BY <1>1, <1>2, <1>4
<1>8. \A f \in Evaluations : f # e => evaluation'[f] = evaluation[f]
  BY <1>1 DEF IInv, TypeOK
<1>9. TypeOK'
  <2>1. \A f \in Evaluations : [rel[f] EXCEPT !.status = Retired(w.op)] \in Release
    BY DEF Retired, IInv, TypeOK, Release
  <2>2. Idle \in Transaction
    BY DEF Idle, Transaction
  <2>3. rel' \in [Evaluations -> Release]
    BY <1>1, <1>6, <2>1 DEF IInv, TypeOK
  <2>4. evaluation' \in [Evaluations -> {"absent", "evaluated", "blocked", "released"}]
    BY <1>1 DEF IInv, TypeOK
  <2> QED
    BY <1>1, <2>2, <2>3, <2>4 DEF IInv, TypeOK
<1>10. OnlyPassedIsUsed'
  <2>1. evaluation'[e] = "released"
    <3>1. CASE w.op = "decide"
      BY <1>1, <1>2, <3>1 DEF IInv, TypeOK
    <3>2. CASE w.op = "rollback"
      BY <1>1, <1>3, <3>2 DEF IInv, OnlyPassedIsUsed
    <3> QED
      BY <1>4, <3>1, <3>2
  <2>2. \A f \in Active \cup History : f \in Evaluations
    BY DEF Active, History
  <2> QED
    BY <1>2, <1>3, <1>8, <2>1, <2>2 DEF IInv, OnlyPassedIsUsed
<1>11. RollbackIsTraced'
  <2> SUFFICES ASSUME row.rollbackOf # None
               PROVE  rel'[row.rollbackOf].status = "rolled_back"
    BY <1>2, <1>7 DEF RollbackIsTraced
  <2>1. w.op = "rollback" /\ row.rollbackOf \in w.held
    BY <1>4, <1>6
  <2>2. rel[row.rollbackOf] \in Release
    BY <1>4, <2>1 DEF IInv, TypeOK
  <2> QED
    BY <1>7, <2>1, <2>2 DEF Retired, Release
<1>12. \A p \in Requests : p # q => tx[p].held = {} /\ tx[p].pc # "activated"
  BY <1>1 DEF IInv, Apart
<1>13. \A p \in Requests : Sound(p)'
  <2> SUFFICES ASSUME NEW p \in Requests PROVE Sound(p)'
    OBVIOUS
  <2>1. CASE p = q
    BY <1>5, <2>1 DEF Sound, Idle, Holds
  <2>2. CASE p # q
    <3>1. tx'[p] = tx[p] /\ Sound(p) /\ tx[p].held = {} /\ tx[p].pc # "activated" /\ tx[p].op \in {"decide", "rollback"}
      BY <1>5, <1>12, <2>2 DEF IInv, TypeOK, Transaction
    <3>2. Holds(p) => tx[p].on # e
      <4> SUFFICES ASSUME Holds(p), tx[p].on = e PROVE FALSE
        OBVIOUS
      <4>1. tx[p].op # w.op
        BY <1>1, <2>2 DEF IInv, Apart, Holds, e
      <4>2. e \in History /\ Undecided(e)
        BY <1>3, <1>4, <3>1, <4>1 DEF Sound
      <4> QED
        BY <4>2 DEF History, Undecided
    <3>3. Holds(p) /\ tx[p].op = "decide" => tx[p].on \notin w.held /\ tx[p].on \in Evaluations
      BY <1>2, <3>1 DEF Sound, Holds, Undecided, Active
    <3>4. Holds(p) /\ tx[p].op = "decide" => evaluation'[tx[p].on] # "absent" /\ rel'[tx[p].on].status = "absent"
      BY <1>7, <1>8, <3>1, <3>2, <3>3 DEF Sound, Undecided
    <3>5. Holds(p) /\ tx[p].op = "rollback" => tx[p].on \in History'
      BY <1>2, <3>1, <3>2 DEF Sound
    <3> QED
      BY <3>1, <3>4, <3>5 DEF Sound, Holds, Undecided
  <2> QED
    BY <2>1, <2>2
<1>14. \A p, r \in Requests : p # r => Apart(p, r)'
  BY <1>5 DEF IInv, Apart, Idle, Holds
<1> QED
  BY <1>2, <1>9, <1>10, <1>11, <1>13, <1>14 DEF IInv

LEMMA EvaluateInvariant ==
  ASSUME IInv, NEW e \in Evaluations, Evaluate(e)
  PROVE  IInv'
<1>1. evaluation[e] = "absent" /\ evaluation' = [evaluation EXCEPT ![e] = "evaluated"] /\ UNCHANGED << rel, tx >>
  BY DEF Evaluate
<1>2. TypeOK'
  BY <1>1 DEF IInv, TypeOK
<1>3. Active' = Active /\ History' = History
  BY <1>1 DEF Active, History
<1>4. e \notin Active \cup History
  BY <1>1 DEF IInv, OnlyPassedIsUsed
<1>5. \A f \in Evaluations : f # e => evaluation'[f] = evaluation[f]
  BY <1>1 DEF IInv, TypeOK
<1>6. OnlyPassedIsUsed'
  BY <1>3, <1>4, <1>5 DEF IInv, OnlyPassedIsUsed, Active, History
<1>7. \A p \in Requests : Sound(p)'
  <2> SUFFICES ASSUME NEW p \in Requests PROVE Sound(p)'
    OBVIOUS
  <2>1. Sound(p) /\ tx'[p] = tx[p]
    BY <1>1 DEF IInv
  <2>2. Holds(p) => tx[p].on \in Evaluations
    BY <2>1 DEF Sound, Holds
  <2>3. Holds(p) /\ tx[p].op = "decide" => evaluation'[tx[p].on] # "absent" /\ rel'[tx[p].on].status = "absent"
    BY <1>1, <1>5, <2>1, <2>2 DEF Sound, Undecided
  <2> QED
    BY <1>3, <2>1, <2>3 DEF Sound, Holds, Undecided
<1> QED
  BY <1>1, <1>2, <1>3, <1>6, <1>7 DEF IInv, RollbackIsTraced, Apart, Holds

LEMMA NextInvariant == IInv /\ [Next]_vars => IInv'
<1> SUFFICES ASSUME IInv, [Next]_vars PROVE IInv'
  OBVIOUS
<1>1. ASSUME NEW e \in Evaluations, Evaluate(e) PROVE IInv'
  BY <1>1, EvaluateInvariant
<1>2. ASSUME NEW q \in Requests, NEW op \in {"decide", "rollback"}, NEW e \in Evaluations, Begin(q, op, e)
      PROVE  IInv'
  BY <1>2, BeginInvariant
<1>3. ASSUME NEW q \in Requests, Step(q) \/ Abort(q)
      PROVE  IInv'
  <2>1. CASE Refuse(q) \/ NothingActive(q) \/ Collide(q) \/ Abort(q)
    BY <2>1, EndInvariant DEF Refuse, NothingActive, Collide, Abort
  <2> QED
    BY <1>3, <2>1, BlockInvariant, ChooseInvariant, RetireInvariant, ActivateInvariant, CommitInvariant DEF Step
<1>4. CASE UNCHANGED vars
  BY <1>4 DEF vars, IInv, TypeOK, OnlyPassedIsUsed, RollbackIsTraced, Sound, Apart, Active, History, Holds, Undecided
<1> QED
  BY <1>1, <1>2, <1>3, <1>4 DEF Next

-----------------------------------------------------------------------------
(* The strengthening that carries everything below. *)
THEOREM InductiveInvariant == Spec => []IInv
BY InitInvariant, NextInvariant, PTL DEF Spec

(* The variables have their types. *)
THEOREM TypeCorrect == Spec => []TypeOK
<1>1. IInv => TypeOK
  BY DEF IInv
<1> QED
  BY <1>1, InductiveInvariant, PTL

(* No release that fails a gate is ever in use (service.py 438-464,        *)
(* 502-505). *)
THEOREM OnlyPassed == Spec => []OnlyPassedIsUsed
<1>1. IInv => OnlyPassedIsUsed
  BY DEF IInv
<1> QED
  BY <1>1, InductiveInvariant, PTL

(* A restored release names the one that was rolled back for it            *)
(* (service.py 514-520). *)
THEOREM RollbackTraced == Spec => []RollbackIsTraced
<1>1. IInv => RollbackIsTraced
  BY DEF IInv
<1> QED
  BY <1>1, InductiveInvariant, PTL

(* The committed release rows implement the register: decisions and        *)
(* rollbacks (service.py 418-534) replace the active release as a whole.   *)
THEOREM ImplementsRegister == Spec => KeepsRegister
<1>1. Init => Register!Init
  BY DEF Init, Register!Init, Active, History
<1>2. IInv /\ [Next]_vars => [Register!Next]_(Register!vars)
  <2> SUFFICES ASSUME IInv, [Next]_vars
               PROVE  Register!Next \/ UNCHANGED << Active, History >>
    BY DEF Register!vars
  <2>1. CASE UNCHANGED rel
    BY <2>1 DEF Active, History
  <2>2. ASSUME NEW q \in Requests, Block(q)
        PROVE  UNCHANGED << Active, History >>
    BY <2>2, BlockInvariant
  <2>3. ASSUME NEW q \in Requests, Commit(q)
        PROVE  Register!Next
    <3> DEFINE e == tx[q].on
    <3>1. /\ e \in Evaluations /\ e \notin Active /\ Active = tx[q].held
          /\ Active' = {e} /\ History' = (History \ {e}) \cup Active
      BY <2>3, CommitActive
    <3>2. Sound(q) /\ tx[q].pc = "activated" /\ tx[q].op \in {"decide", "rollback"}
      BY <2>3 DEF IInv, TypeOK, Transaction, Commit
    <3>3. CASE tx[q].op = "decide"
      <4>1. e \notin History
        BY <3>2, <3>3 DEF Sound, Holds, Undecided, History
      <4> QED
        BY <3>1, <4>1 DEF Register!Next, Register!Activate
    <3>4. CASE tx[q].op = "rollback"
      <4>1. e \in History /\ Active # {}
        BY <3>1, <3>2, <3>4 DEF Sound, Holds
      <4> QED
        BY <3>1, <4>1 DEF Register!Next, Register!Restore
    <3> QED
      BY <3>2, <3>3, <3>4
  <2> QED
    BY <2>1, <2>2, <2>3 DEF Next, Step, Evaluate, Begin, Refuse, Choose, Retire, NothingActive, Activate,
       Collide, Abort, vars
<1> QED
  BY <1>1, <1>2, InductiveInvariant, PTL DEF Spec, KeepsRegister, Register!Spec

-----------------------------------------------------------------------------
(* The core of EveryRequestEnds.  Among the transactions that wait for a   *)
(* release they have seen active, any group has one that waits for none of *)
(* the group: the one that looked last, for by then the targets of the     *)
(* others were locked and not active.                                      *)
Chosen == {q \in Requests : tx[q].pc = "chosen"}

ChosenInOrder ==
  \A group \in SUBSET Chosen :
    group # {} => \E q \in group : \A p \in group \ {q} : \A e \in tx[q].seen : ~Keeps(p, e)

LEMMA OthersKeepOrder ==
  ASSUME ChosenInOrder, NEW q \in Requests,
         \A p \in Requests : p # q => tx'[p] = tx[p],
         tx'[q].pc # "chosen"
  PROVE  ChosenInOrder'
<1>1. Chosen' \subseteq Chosen \ {q}
  BY DEF Chosen
<1>2. \A p \in Chosen' : tx'[p] = tx[p]
  BY DEF Chosen
<1> SUFFICES ASSUME NEW group \in SUBSET Chosen', group # {}
             PROVE  \E r \in group : \A p \in group \ {r} : \A e \in tx'[r].seen : ~Keeps(p, e)'
  BY DEF ChosenInOrder
<1>3. PICK r \in group : \A p \in group \ {r} : \A e \in tx[r].seen : ~Keeps(p, e)
  BY <1>1 DEF ChosenInOrder
<1>4. ASSUME NEW p \in group \ {r}, NEW e \in tx'[r].seen PROVE ~Keeps(p, e)'
  <2>1. tx'[p] = tx[p] /\ tx'[r] = tx[r]
    BY <1>2
  <2> QED
    BY <1>3, <2>1 DEF Keeps, Holds
<1> QED
  BY <1>4

LEMMA ChooseKeepsOrder ==
  ASSUME IInv, ChosenInOrder, NEW q \in Requests, Choose(q)
  PROVE  ChosenInOrder'
<1>1. /\ \A p \in Requests : p # q => tx'[p] = tx[p]
      /\ tx'[q].pc = "chosen" /\ tx'[q].seen = Active
  BY DEF IInv, TypeOK, Transaction, Choose
<1> SUFFICES ASSUME NEW group \in SUBSET Chosen', group # {}
             PROVE  \E r \in group : \A p \in group \ {r} : \A e \in tx'[r].seen : ~Keeps(p, e)'
  BY DEF ChosenInOrder
<1>2. group \subseteq Requests
  BY DEF Chosen
<1>3. CASE q \in group
  <2>1. ASSUME NEW p \in group \ {q}, NEW e \in Active PROVE ~Keeps(p, e)'
    <3>1. p \in Requests /\ tx'[p] = tx[p] /\ tx[p].pc = "chosen" /\ Sound(p)
      BY <1>1, <1>2 DEF Chosen, IInv
    <3>2. tx[p].held = {} /\ (tx[p].op = "rollback" => tx[p].on \in History)
      BY <3>1 DEF Sound, Holds
    <3>3. e \notin History
      BY <2>1 DEF Active, History
    <3> QED
      BY <3>1, <3>2, <3>3 DEF Keeps, Holds
  <2> QED
    BY <1>1, <1>3, <2>1
<1>4. CASE q \notin group
  <2>1. group \subseteq Chosen /\ \A p \in group : tx'[p] = tx[p]
    BY <1>1, <1>2, <1>4 DEF Chosen
  <2>2. PICK r \in group : \A p \in group \ {r} : \A e \in tx[r].seen : ~Keeps(p, e)
    BY <2>1 DEF ChosenInOrder
  <2>3. ASSUME NEW p \in group \ {r}, NEW e \in tx'[r].seen PROVE ~Keeps(p, e)'
    <3>1. tx'[p] = tx[p] /\ tx'[r] = tx[r]
      BY <2>1
    <3> QED
      BY <2>2, <3>1 DEF Keeps, Holds
  <2> QED
    BY <2>3
<1> QED
  BY <1>3, <1>4

LEMMA OrderStep == IInv /\ ChosenInOrder /\ [Next]_vars => ChosenInOrder'
<1> SUFFICES ASSUME IInv, ChosenInOrder, [Next]_vars PROVE ChosenInOrder'
  OBVIOUS
<1>1. ASSUME NEW q \in Requests, Choose(q) PROVE ChosenInOrder'
  BY <1>1, ChooseKeepsOrder
<1>2. ASSUME NEW q \in Requests,
             Refuse(q) \/ Block(q) \/ NothingActive(q) \/ Collide(q) \/ Commit(q) \/ Abort(q)
      PROVE  ChosenInOrder'
  <2>1. tx' = [tx EXCEPT ![q] = Idle]
    BY <1>2 DEF Refuse, Block, NothingActive, Collide, Commit, Abort
  <2>2. tx'[q].pc # "chosen" /\ \A p \in Requests : p # q => tx'[p] = tx[p]
    BY <2>1 DEF IInv, TypeOK, Idle
  <2> QED
    BY <2>2, OthersKeepOrder
<1>3. ASSUME NEW q \in Requests, Retire(q) \/ Activate(q) PROVE ChosenInOrder'
  <2>1. tx'[q].pc # "chosen" /\ \A p \in Requests : p # q => tx'[p] = tx[p]
    BY <1>3 DEF IInv, TypeOK, Transaction, Retire, Activate
  <2> QED
    BY <2>1, OthersKeepOrder
<1>4. ASSUME NEW q \in Requests, NEW op \in {"decide", "rollback"}, NEW e \in Evaluations, Begin(q, op, e)
      PROVE  ChosenInOrder'
  <2>1. tx'[q].pc # "chosen" /\ \A p \in Requests : p # q => tx'[p] = tx[p]
    BY <1>4 DEF IInv, TypeOK, Begin, Idle
  <2> QED
    BY <2>1, OthersKeepOrder
<1>5. CASE UNCHANGED tx
  <2>1. Chosen' = Chosen
    BY <1>5 DEF Chosen
  <2>2. \A p, e : Keeps(p, e)' <=> Keeps(p, e)
    BY <1>5 DEF Keeps, Holds
  <2> SUFFICES ASSUME NEW group \in SUBSET Chosen, group # {}
               PROVE  \E r \in group : \A p \in group \ {r} : \A e \in tx'[r].seen : ~Keeps(p, e)'
    BY <2>1 DEF ChosenInOrder
  <2>3. PICK r \in group : \A p \in group \ {r} : \A e \in tx[r].seen : ~Keeps(p, e)
    BY DEF ChosenInOrder
  <2> QED
    BY <1>5, <2>2, <2>3
<1> QED
  BY <1>1, <1>2, <1>3, <1>4, <1>5 DEF Next, Step, Evaluate, vars

(* Decisions and rollbacks never wait for each other in a circle, whatever *)
(* rows they lock and in whatever order they were issued (service.py       *)
(* 420-534): in every group of them somebody waits for none of the group.  *)
THEOREM ReleasesNeverCircle == Spec => []NoCircleOfLocks
<1>1. Init => ChosenInOrder
  BY DEF Init, ChosenInOrder, Chosen, Idle
<1>2. IInv /\ ChosenInOrder => NoCircleOfLocks
  <2> SUFFICES ASSUME IInv, ChosenInOrder,
                      NEW group \in SUBSET {q \in Requests : tx[q].pc # "idle"}, group # {}
               PROVE  \E q \in group : WaitsFor(q) \cap group = {}
    BY DEF NoCircleOfLocks
  <2>1. \A p \in group : /\ p \in Requests /\ tx[p].pc \in {"begun", "chosen", "retired", "activated"}
                         /\ Sound(p)
                         /\ tx[p].held # {} => tx[p].pc \in {"retired", "activated"}
    BY DEF IInv, TypeOK, Transaction, Sound
  <2>2. CASE \E q \in group : tx[q].pc = "activated"
    BY <2>2 DEF WaitsFor
  <2>3. CASE \E q \in group : tx[q].pc = "retired" /\ tx[q].held # {}
    <3>1. PICK q \in group : tx[q].pc = "retired" /\ tx[q].held # {}
      BY <2>3
    <3>2. ASSUME NEW p \in group, p # q PROVE tx[p].pc # "activated" /\ tx[p].held = {}
      <4>1. Apart(p, q) /\ tx[p].held \subseteq Active /\ tx[q].held \subseteq Active
        BY <2>1, <3>2 DEF IInv, Sound
      <4>2. tx[p].held = {}
        BY <3>1, <4>1 DEF IInv, Apart
      <4> QED
        BY <3>1, <4>1, <4>2 DEF Apart
    <3> QED
      BY <3>1, <3>2 DEF WaitsFor
  <2>4. CASE /\ \A q \in group : tx[q].pc # "activated" /\ tx[q].held = {}
             /\ \E q \in group : tx[q].pc = "retired"
    BY <2>4 DEF WaitsFor
  <2>5. CASE /\ \A q \in group : tx[q].pc \notin {"retired", "activated"}
             /\ \E q \in group : tx[q].pc = "chosen"
    <3> DEFINE chosen == group \cap Chosen
    <3>1. chosen # {} /\ chosen \subseteq Chosen
      BY <2>1, <2>5 DEF Chosen
    <3>2. PICK q \in chosen : \A p \in chosen \ {q} : \A e \in tx[q].seen : ~Keeps(p, e)
      BY <3>1 DEF ChosenInOrder
    <3>3. \A p \in group \ chosen : \A e : ~Keeps(p, e)
      BY <2>1, <2>5 DEF Keeps, Holds, Chosen
    <3>4. q \in group /\ tx[q].pc = "chosen"
      BY <3>2 DEF Chosen
    <3>5. \A p \in group \ {q} : \A e \in tx[q].seen : ~Keeps(p, e)
      BY <3>2, <3>3
    <3> QED
      BY <3>4, <3>5 DEF WaitsFor
  <2>6. CASE \A q \in group : tx[q].pc = "begun"
    BY <2>1, <2>6 DEF WaitsFor, Keeps, Holds
  <2> QED
    BY <2>1, <2>2, <2>3, <2>4, <2>5, <2>6
<1> QED
  BY <1>1, <1>2, OrderStep, InductiveInvariant, PTL DEF Spec

(* A transaction that waits for nobody can take its next step.             *)
LEMMA WaitsOrGoesOn ==
  ASSUME IInv, NEW q \in Requests, tx[q].pc # "idle", WaitsFor(q) = {}
  PROVE  Locked(q) \/ Reached(q) \/ SlotSettled(q) \/ tx[q].pc = "activated"
<1>1. tx[q].pc \in {"begun", "chosen", "retired", "activated"} /\ tx[q].op \in {"decide", "rollback"}
  BY DEF IInv, TypeOK, Transaction
<1>2. CASE tx[q].pc = "begun"
  BY <1>1, <1>2 DEF WaitsFor, Keeps, Locked, EvaluationFree, ReleaseFree
<1>3. CASE tx[q].pc = "chosen"
  BY <1>3 DEF WaitsFor, Keeps, Reached, ReleaseFree
<1>4. CASE tx[q].pc = "retired"
  BY <1>4 DEF WaitsFor, SlotSettled
<1> QED
  BY <1>1, <1>2, <1>3, <1>4

(* What EveryRequestEnds needs of the locks and of the unique index,       *)
(* beside the fairness that TLC assumes.                                   *)
THEOREM SomebodyIsServed == Spec => []SomebodyGoesOn
<1>1. IInv /\ NoCircleOfLocks => SomebodyGoesOn
  <2> SUFFICES ASSUME IInv, NoCircleOfLocks, NEW q \in Requests, tx[q].pc # "idle"
               PROVE  \E p \in Requests :
                        Locked(p) \/ Reached(p) \/ SlotSettled(p) \/ tx[p].pc = "activated"
    BY DEF SomebodyGoesOn
  <2> DEFINE underway == {p \in Requests : tx[p].pc # "idle"}
  <2>1. PICK p \in underway : WaitsFor(p) \cap underway = {}
    BY DEF NoCircleOfLocks
  <2>2. WaitsFor(p) \subseteq underway
    <3>1. \A r \in Requests : Holds(r) \/ tx[r].held # {} => tx[r].pc # "idle"
      BY DEF IInv, Sound, Holds
    <3> QED
      BY <3>1 DEF WaitsFor, Keeps
  <2>3. p \in Requests /\ tx[p].pc # "idle" /\ WaitsFor(p) = {}
    BY <2>1, <2>2
  <2> QED
    BY <2>3, WaitsOrGoesOn
<1> QED
  BY <1>1, InductiveInvariant, ReleasesNeverCircle, PTL
=============================================================================
