------------------------ MODULE AnalysisPhasesProofs ------------------------
(***************************************************************************)
(* Theorems about AnalysisPhases, for every list of phases, every number   *)
(* of runs, executions, attempts and revisions.                            *)
(***************************************************************************)
EXTENDS AnalysisPhases, TLAPS

(* What holds of an attempt at any time: the ledger it has read was in     *)
(* order, it publishes only what is earned, the reviewer it was given has  *)
(* approved, and the publication it reports has happened.                  *)
Fine(a) ==
  /\ Ordered(Of(a), a.snap.ledger)
  /\ Publish \in a.snap.ledger => Out(Of(a))
  /\ a.reviewer # NoOne => a.reviewer \in wf[a.exec].heard
  /\ InPublication(a) =>
       /\ a.phase = Publish /\ a.reviewer # NoOne
       /\ a.cand \in 1..Len(tax[Of(a)])
       /\ \A p \in Phases : Needs(p) \subseteq facts[Of(a)]
       /\ \A p \in Phases : p < Publish => p \in run[Of(a)].ledger
  /\ a.pc = "done" /\ a.phase = Publish => Out(Of(a))

(* A version that is no draft any more was published by somebody. *)
OwnedInv == \A r \in Runs : \A i \in 1..Len(tax[r]) : tax[r][i].status # "draft" => tax[r][i].under # {}

RecordedInv == \A r \in Runs : Publish \in run[r].ledger => Out(r)

HeardInv ==
  \A e \in Executions :
    /\ wf[e].approved # NoOne => wf[e].approved \in wf[e].heard
    /\ wf[e].reviewer # NoOne => wf[e].reviewer \in wf[e].heard

IInv ==
  /\ TypeOK
  /\ LedgerInOrder /\ RecordedInv /\ OwnedInv /\ HeardInv
  /\ PublicationIsEarned /\ CompletedIsPublished
  /\ \A a \in act : Fine(a)

-----------------------------------------------------------------------------
LEMMA PublishIsPhase == Publish \in Phases /\ Publish \in Nat /\ Publish >= 1
BY PhasesAssumption DEF Publish, Phases

LEMMA MovedAttempt ==
  ASSUME NEW a \in Attempt,
         NEW pc \in {"begin", "chosen", "seen", "done", "refused", "read", "reported"}
  PROVE  LET b == [a EXCEPT !.pc = pc]
         IN  /\ b \in Attempt /\ b.pc = pc
             /\ b.exec = a.exec /\ b.phase = a.phase /\ b.n = a.n /\ b.reviewer = a.reviewer
             /\ b.snap = a.snap /\ b.cand = a.cand /\ b.prev = a.prev
BY DEF Attempt

(* The same for the fields of an execution that several steps change. *)
LEMMA NextPhase ==
  ASSUME NEW w \in Execution, NEW at \in Phases
  PROVE  \E v \in Execution :
           /\ v = [w EXCEPT !.at = at, !.tries = 0, !.waits = FALSE]
           /\ v.state = w.state /\ v.heard = w.heard
           /\ v.approved = w.approved /\ v.reviewer = w.reviewer
<1> DEFINE Same(v) == v.state = w.state /\ v.heard = w.heard
                      /\ v.approved = w.approved /\ v.reviewer = w.reviewer
           u1 == [w EXCEPT !.at = at]
           u2 == [u1 EXCEPT !.tries = 0]
           u3 == [u2 EXCEPT !.waits = FALSE]
<1>1. u1 \in Execution /\ Same(u1)
  BY DEF Execution
<1>2. u3 = [w EXCEPT !.at = at, !.tries = 0, !.waits = FALSE]
  BY Zenon
<1> HIDE DEF u1
<1>3. u2 \in Execution /\ Same(u2)
  BY <1>1, BoundsAssumption DEF Execution
<1> HIDE DEF u2
<1>4. u3 \in Execution /\ Same(u3)
  BY <1>3 DEF Execution
<1> QED
  BY <1>2, <1>4

LEMMA NextTry ==
  ASSUME NEW w \in Execution, NEW tries \in 0..MaxAttempts,
         NEW reviewer \in Reviewers \cup {NoOne}
  PROVE  \E v \in Execution :
           /\ v = [w EXCEPT !.waits = TRUE, !.tries = tries, !.reviewer = reviewer]
           /\ v.state = w.state /\ v.heard = w.heard
           /\ v.approved = w.approved /\ v.reviewer = reviewer
<1> DEFINE Same(v) == v.state = w.state /\ v.heard = w.heard /\ v.approved = w.approved
           u1 == [w EXCEPT !.waits = TRUE]
           u2 == [u1 EXCEPT !.tries = tries]
           u3 == [u2 EXCEPT !.reviewer = reviewer]
<1>1. u1 \in Execution /\ Same(u1)
  BY DEF Execution
<1>2. u3 = [w EXCEPT !.waits = TRUE, !.tries = tries, !.reviewer = reviewer]
  BY Zenon
<1> HIDE DEF u1
<1>3. u2 \in Execution /\ Same(u2)
  BY <1>1 DEF Execution
<1> HIDE DEF u2
<1>4. u3 \in Execution /\ Same(u3) /\ u3.reviewer = reviewer
  BY <1>3 DEF Execution
<1> QED
  BY <1>2, <1>4

(* What nobody takes back keeps an attempt fine. *)
LEMMA StaysFine ==
  ASSUME NEW a, a \in Attempt, Fine(a), TypeOK, TypeOK', facts' = facts,
         \A r \in Runs : Len(tax[r]) <= Len(tax'[r]) /\ (Out(r) => Out(r)'),
         \A e \in Executions : wf[e].heard \subseteq wf'[e].heard,
         InPublication(a) => run[Of(a)].ledger \subseteq run'[Of(a)].ledger
  PROVE  Fine(a)'
<1>1. Of(a) \in Runs /\ a.exec \in Executions
  BY ExecutionsAssumption DEF Attempt, Of
<1>2. Len(tax[Of(a)]) \in Nat /\ Len(tax'[Of(a)]) \in Nat
  BY <1>1 DEF TypeOK
<1> QED
  BY <1>1, <1>2 DEF Fine, Ordered, InPublication, Of
(* Steps that change nothing but one attempt. *)
LEMMA AttemptStep ==
  ASSUME IInv, NEW a \in act, NEW b \in Attempt, act' = (act \ {a}) \cup {b},
         UNCHANGED << facts, run, tax, wf, lost >>, Fine(b)
  PROVE  IInv'
<1>1. TypeOK'
  BY DEF IInv, TypeOK
<1>2. \A c \in act \cup {b} : Fine(c)'
  <2> SUFFICES ASSUME NEW c \in act \cup {b} PROVE Fine(c)'
    OBVIOUS
  <2>1. Fine(c) /\ c \in Attempt
    BY DEF IInv, TypeOK
  <2>2. \A r \in Runs : Len(tax[r]) \in Nat
    BY DEF IInv, TypeOK
  <2> QED
    BY <1>1, <2>1, <2>2, StaysFine DEF IInv, Out
<1> QED
  BY <1>1, <1>2 DEF IInv, LedgerInOrder, Ordered, RecordedInv, OwnedInv, HeardInv,
                    PublicationIsEarned, CompletedIsPublished, Out

LEMMA ReplayStep ==
  ASSUME IInv, NEW a \in act, Replay(a)
  PROVE  IInv'
<1> DEFINE b == [a EXCEPT !.pc = "done"]
<1>1. a \in Attempt /\ Fine(a)
  BY DEF IInv, TypeOK
<1>2. Of(a) \in Runs
  BY <1>1, ExecutionsAssumption DEF Attempt, Of
<1>3. b \in Attempt /\ b.pc = "done" /\ b.exec = a.exec /\ b.phase = a.phase
      /\ b.reviewer = a.reviewer /\ b.snap = a.snap
  BY <1>1, MovedAttempt
<1>4. a.phase = Publish => Out(Of(a))
  BY <1>2 DEF Replay, Replayed, IInv, RecordedInv
<1>5. Fine(b)
  BY <1>1, <1>3, <1>4 DEF Fine, InPublication, Of
<1>6. act' = (act \ {a}) \cup {b} /\ UNCHANGED << facts, run, tax, wf, lost >>
  BY DEF Replay, Moved
<1> QED
  BY <1>3, <1>5, <1>6, AttemptStep

LEMMA ChooseStep ==
  ASSUME IInv, NEW a \in act, Choose(a)
  PROVE  IInv'
<1>0. PICK i \in Newest(Of(a)) : act' = (act \ {a}) \cup {[a EXCEPT !.pc = "chosen", !.cand = i]}
  BY DEF Choose
<1> DEFINE b == [a EXCEPT !.pc = "chosen", !.cand = i]
<1>1. a \in Attempt /\ Fine(a)
  BY DEF IInv, TypeOK
<1>2. Of(a) \in Runs /\ Len(tax[Of(a)]) \in Nat
  BY <1>1, ExecutionsAssumption DEF Attempt, Of, IInv, TypeOK
<1>3. i \in 1..Len(tax[Of(a)]) /\ i \in Nat
  BY <1>2 DEF Newest, Publishable
<1>4. b \in Attempt /\ b.pc = "chosen" /\ b.exec = a.exec /\ b.phase = a.phase
      /\ b.reviewer = a.reviewer /\ b.snap = a.snap /\ b.cand = i
  BY <1>1, <1>3 DEF Attempt
<1>5. a.phase = Publish /\ a.reviewer # NoOne
  BY DEF Choose, Verified, FactsHold
<1>6. ASSUME NEW p \in Phases
      PROVE  Needs(p) \subseteq facts[Of(a)] /\ (p < Publish => p \in run[Of(a)].ledger)
  <2>1. CASE p = Publish
    BY <2>1, <1>5, PublishIsPhase DEF Choose, Verified, FactsHold
  <2>2. CASE p # Publish
    <3>1. p < Publish /\ p \in Nat /\ Publish - 1 \in Phases /\ Publish > 1
      BY <2>2, PublishIsPhase DEF Phases
    <3>2. Publish - 1 \in run[Of(a)].ledger
      BY <1>5, <3>1 DEF Choose, Verified, InOrder
    <3>3. Ordered(Of(a), run[Of(a)].ledger)
      BY <1>2 DEF IInv, LedgerInOrder
    <3>4. p = Publish - 1 \/ p < Publish - 1
      BY <3>1, PublishIsPhase
    <3> QED
      BY <3>2, <3>3, <3>4 DEF Ordered
  <2> QED
    BY <2>1, <2>2
<1>7. Fine(b)
  BY <1>1, <1>3, <1>4, <1>5, <1>6 DEF Fine, InPublication, Of
<1>8. UNCHANGED << facts, run, tax, wf, lost >>
  BY DEF Choose
<1> QED
  BY <1>0, <1>4, <1>7, <1>8, AttemptStep

LEMMA LookAroundStep ==
  ASSUME IInv, NEW a \in act, LookAround(a)
  PROVE  IInv'
<1>1. a \in Attempt /\ Fine(a) /\ a.pc = "chosen"
  BY DEF IInv, TypeOK, LookAround
<1>2. \A r \in Runs : Len(tax[r]) \in Nat
  BY DEF IInv, TypeOK
<1>3. \A i : Releases(Of(a), i) \subseteq Runs \X Nat
  BY <1>2 DEF Releases
<1>4. PICK others \in SUBSET (Runs \X Nat) :
        act' = (act \ {a}) \cup {[a EXCEPT !.pc = "seen", !.prev = others]}
  BY <1>3 DEF LookAround
<1> DEFINE b == [a EXCEPT !.pc = "seen", !.prev = others]
<1>5. b \in Attempt /\ b.pc = "seen" /\ b.exec = a.exec /\ b.phase = a.phase
      /\ b.reviewer = a.reviewer /\ b.snap = a.snap /\ b.cand = a.cand
  BY <1>1 DEF Attempt
<1>6. Fine(b)
  BY <1>1, <1>5 DEF Fine, InPublication, Of
<1>7. UNCHANGED << facts, run, tax, wf, lost >>
  BY DEF LookAround
<1> QED
  BY <1>4, <1>5, <1>6, <1>7, AttemptStep

LEMMA RefuseStep ==
  ASSUME IInv, NEW a \in act, Refuse(a)
  PROVE  IInv'
<1> DEFINE b == [a EXCEPT !.pc = "refused"]
<1>1. a \in Attempt /\ Fine(a)
  BY DEF IInv, TypeOK
<1>2. b \in Attempt /\ b.pc = "refused" /\ b.exec = a.exec /\ b.phase = a.phase
      /\ b.reviewer = a.reviewer /\ b.snap = a.snap
  BY <1>1, MovedAttempt
<1>3. Fine(b)
  BY <1>1, <1>2 DEF Fine, InPublication, Of
<1>4. act' = (act \ {a}) \cup {b} /\ UNCHANGED << facts, run, tax, wf, lost >>
  BY DEF Refuse, Moved
<1> QED
  BY <1>2, <1>3, <1>4, AttemptStep

LEMMA ReadRunStep ==
  ASSUME IInv, NEW a \in act, ReadRun(a)
  PROVE  IInv'
<1> DEFINE b == [a EXCEPT !.pc = "read", !.snap = run[Of(a)]]
<1>1. a \in Attempt /\ Fine(a)
  BY DEF IInv, TypeOK
<1>2. Of(a) \in Runs /\ run[Of(a)] \in Row
  BY <1>1, ExecutionsAssumption DEF Attempt, Of, IInv, TypeOK
<1>3. b \in Attempt /\ b.pc = "read" /\ b.exec = a.exec /\ b.phase = a.phase
      /\ b.reviewer = a.reviewer /\ b.snap = run[Of(a)]
  BY <1>1, <1>2 DEF Attempt
<1>4. Ordered(Of(a), run[Of(a)].ledger) /\ (Publish \in run[Of(a)].ledger => Out(Of(a)))
  BY <1>2 DEF IInv, LedgerInOrder, RecordedInv
<1>5. Fine(b)
  BY <1>1, <1>3, <1>4 DEF Fine, InPublication, Of
<1>6. act' = (act \ {a}) \cup {b} /\ UNCHANGED << facts, run, tax, wf, lost >>
  BY DEF ReadRun
<1> QED
  BY <1>3, <1>5, <1>6, AttemptStep

(* Steps that write the row of the run. *)
LEMMA RowStep ==
  ASSUME IInv, NEW a \in act, NEW b \in Attempt, NEW row \in Row,
         act' = (act \ {a}) \cup {b}, UNCHANGED << facts, tax, wf >>,
         lost' \in [Runs -> SUBSET Phases], run' = [run EXCEPT ![Of(a)] = row],
         RunFree(Of(a)), Ordered(Of(a), row.ledger), Publish \in row.ledger => Out(Of(a)),
         Fine(b), ~InPublication(b)
  PROVE  IInv'
<1>1. a \in Attempt /\ Of(a) \in Runs
  BY ExecutionsAssumption DEF IInv, TypeOK, Attempt, Of
<1>2. TypeOK'
  BY <1>1 DEF IInv, TypeOK
<1>3. \A c \in act \cup {b} : Fine(c)'
  <2> SUFFICES ASSUME NEW c \in act \cup {b} PROVE Fine(c)'
    OBVIOUS
  <2>1. Fine(c) /\ c \in Attempt
    BY DEF IInv, TypeOK
  <2>2. \A r \in Runs : Len(tax[r]) \in Nat
    BY DEF IInv, TypeOK
  <2>3. InPublication(c) => run'[Of(c)].ledger = run[Of(c)].ledger
    <3>1. SUFFICES ASSUME InPublication(c) PROVE Of(c) # Of(a)
      BY <1>1, <2>1, ExecutionsAssumption DEF IInv, TypeOK
    <3>2. c \in act
      BY <3>1
    <3> QED
      BY <3>1, <3>2 DEF RunFree
  <2> QED
    BY <1>2, <2>1, <2>2, <2>3, StaysFine DEF IInv, Out
<1>4. \A r \in Runs : Ordered(r, run'[r].ledger) /\ (Publish \in run'[r].ledger => Out(r))
  BY <1>1 DEF IInv, TypeOK, LedgerInOrder, RecordedInv
<1> QED
  BY <1>2, <1>3, <1>4 DEF IInv, LedgerInOrder, Ordered, RecordedInv, OwnedInv, HeardInv,
                          PublicationIsEarned, CompletedIsPublished, Out

LEMMA RecordStep ==
  ASSUME IInv, NEW a \in act, Record(a)
  PROVE  IInv'
<1> DEFINE b == [a EXCEPT !.pc = "done"]
           row == Recorded(Of(a), a.phase)
<1>1. a \in Attempt /\ Fine(a) /\ a.phase \in Phases /\ a.phase # Publish
  BY DEF IInv, TypeOK, Attempt, Record
<1>2. Of(a) \in Runs /\ run[Of(a)] \in Row
  BY <1>1, ExecutionsAssumption DEF Attempt, Of, IInv, TypeOK
<1>3. b \in Attempt /\ b.pc = "done" /\ b.exec = a.exec /\ b.phase = a.phase
      /\ b.reviewer = a.reviewer /\ b.snap = a.snap
  BY <1>1, MovedAttempt
<1>4. Fine(b)
  BY <1>1, <1>3 DEF Fine, InPublication, Of
<1>5. row \in Row /\ row.ledger = run[Of(a)].ledger \cup {a.phase}
  BY <1>1, <1>2 DEF Recorded, Row
<1>6. Ordered(Of(a), run[Of(a)].ledger)
  BY <1>2 DEF IInv, LedgerInOrder
<1>7. Ordered(Of(a), row.ledger)
  <2> SUFFICES ASSUME NEW p \in row.ledger
               PROVE  Needs(p) \subseteq facts[Of(a)] /\ \A q \in Phases : q < p => q \in row.ledger
    BY DEF Ordered
  <2>1. CASE p = a.phase
    <3>1. Needs(p) \subseteq facts[Of(a)]
      BY <2>1 DEF Record, Verified, FactsHold
    <3>2. ASSUME NEW q \in Phases, q < p PROVE q \in run[Of(a)].ledger
      <4>1. a.phase \in Nat /\ q \in Nat /\ q >= 1 /\ a.phase > 1
        BY <1>1, <2>1, <3>2, PublishIsPhase DEF Phases
      <4>2. a.phase - 1 \in run[Of(a)].ledger
        BY <4>1 DEF Record, Verified, InOrder
      <4>3. q = a.phase - 1 \/ q < a.phase - 1
        BY <4>1, <3>2, <2>1
      <4> QED
        BY <4>2, <4>3, <1>6 DEF Ordered
    <3> QED
      BY <3>1, <3>2, <1>5
  <2>2. CASE p # a.phase
    BY <2>2, <1>5, <1>6 DEF Ordered
  <2> QED
    BY <2>1, <2>2
<1>8. Publish \in row.ledger => Out(Of(a))
  BY <1>1, <1>2, <1>5 DEF IInv, RecordedInv
<1>9. act' = (act \ {a}) \cup {b} /\ run' = [run EXCEPT ![Of(a)] = row] /\ UNCHANGED << facts, tax, wf, lost >>
  BY DEF Record, Moved
<1>10. RunFree(Of(a)) /\ ~InPublication(b)
  BY <1>3 DEF Record, Begins, InPublication
<1>11. lost' \in [Runs -> SUBSET Phases]
  BY DEF Record, IInv, TypeOK
<1> QED
  BY <1>11, <1>3, <1>4, <1>5, <1>7, <1>8, <1>9, <1>10, RowStep

LEMMA RecordFailureStep ==
  ASSUME IInv, NEW a \in act, RecordFailure(a)
  PROVE  IInv'
<1> DEFINE b == [a EXCEPT !.pc = "reported"]
           row == [a.snap EXCEPT !.status = "failed"]
<1>1. a \in Attempt /\ Fine(a) /\ a.snap \in Row
  BY DEF IInv, TypeOK, Attempt
<1>2. b \in Attempt /\ b.pc = "reported" /\ b.exec = a.exec /\ b.phase = a.phase
      /\ b.reviewer = a.reviewer /\ b.snap = a.snap
  BY <1>1, MovedAttempt
<1>3. Fine(b)
  BY <1>1, <1>2 DEF Fine, InPublication, Of
<1>4. row \in Row /\ row.ledger = a.snap.ledger
  BY <1>1 DEF Row
<1>5. Ordered(Of(a), row.ledger) /\ (Publish \in row.ledger => Out(Of(a)))
  BY <1>1, <1>4 DEF Fine
<1>6. act' = (act \ {a}) \cup {b} /\ run' = [run EXCEPT ![Of(a)] = row] /\ UNCHANGED << facts, tax, wf >>
  BY DEF RecordFailure, Moved
<1>7. RunFree(Of(a)) /\ ~InPublication(b)
  BY <1>2 DEF RecordFailure, InPublication
<1>8. lost' \in [Runs -> SUBSET Phases]
  BY DEF RecordFailure, IInv, TypeOK, Row
<1> QED
  BY <1>8, <1>2, <1>3, <1>4, <1>5, <1>6, <1>7, RowStep

(* Steps that change what Temporal knows. *)
LEMMA HistoryStep ==
  ASSUME IInv, UNCHANGED << facts, run, tax, lost >>, wf' \in [Executions -> Execution],
         \A e \in Executions : wf[e].heard \subseteq wf'[e].heard,
         HeardInv', CompletedIsPublished',
         \A c \in act' : c \in act \/ (c \in Attempt /\ Fine(c)')
  PROVE  IInv'
<1>1. TypeOK'
  BY DEF IInv, TypeOK
<1>2. \A c \in act' : Fine(c)'
  <2> SUFFICES ASSUME NEW c \in act' PROVE Fine(c)'
    OBVIOUS
  <2>1. CASE c \in act
    <3>1. Fine(c) /\ c \in Attempt
      BY <2>1 DEF IInv, TypeOK
    <3>2. \A r \in Runs : Len(tax[r]) \in Nat
      BY DEF IInv, TypeOK
    <3> QED
      BY <1>1, <3>1, <3>2, StaysFine DEF IInv, Out
  <2> QED
    BY <2>1
<1>3. PublicationIsEarned'
  <2> SUFFICES ASSUME NEW r \in Runs, NEW i \in 1..Len(tax[r]), NEW e \in tax[r][i].under
               PROVE  RunOf[e] = r /\ tax[r][i].by \in wf'[e].heard
                      /\ \A p \in Phases : Needs(p) \subseteq facts[r]
    BY DEF PublicationIsEarned
  <2>1. tax[r][i] \in Version
    BY DEF IInv, TypeOK
  <2>2. e \in Executions
    BY <2>1 DEF Version
  <2> QED
    BY <2>2 DEF IInv, PublicationIsEarned
<1> QED
  BY <1>1, <1>2, <1>3 DEF IInv, LedgerInOrder, Ordered, RecordedInv, OwnedInv, Out

LEMMA ExecutionStep ==
  ASSUME IInv, NEW e \in Executions, NEW w \in Execution,
         UNCHANGED << facts, run, tax, lost >>, wf' = [wf EXCEPT ![e] = w],
         wf[e].heard \subseteq w.heard,
         w.approved # NoOne => w.approved \in w.heard,
         w.reviewer # NoOne => w.reviewer \in w.heard,
         w.state = "completed" => wf[e].state = "completed" \/ Out(RunOf[e]),
         \A c \in act' : c \in act \/ (c \in Attempt /\ Fine(c)')
  PROVE  IInv'
<1>1. \A f \in Executions : wf'[f] = IF f = e THEN w ELSE wf[f]
  BY DEF IInv, TypeOK
<1>2. wf' \in [Executions -> Execution]
  BY DEF IInv, TypeOK
<1>3. HeardInv'
  BY <1>1 DEF IInv, HeardInv
<1>4. CompletedIsPublished'
  BY <1>1 DEF IInv, CompletedIsPublished, Out
<1>5. \A f \in Executions : wf[f].heard \subseteq wf'[f].heard
  BY <1>1
<1> QED
  BY <1>2, <1>3, <1>4, <1>5, HistoryStep

LEMMA StartStep ==
  ASSUME IInv, NEW e \in Executions, Start(e)
  PROVE  IInv'
<1> DEFINE w == [wf[e] EXCEPT !.state = "open"]
<1>1. w \in Execution /\ w.state = "open" /\ w.heard = wf[e].heard
      /\ w.approved = wf[e].approved /\ w.reviewer = wf[e].reviewer
  BY DEF IInv, TypeOK, Execution
<1>2. wf' = [wf EXCEPT ![e] = w]
  BY DEF Start, IInv, TypeOK, Execution
<1> QED
  BY <1>1, <1>2, ExecutionStep DEF Start, IInv, HeardInv

LEMMA ApproveStep ==
  ASSUME IInv, NEW e \in Executions, NEW reviewer \in Reviewers, Approve(e, reviewer)
  PROVE  IInv'
<1> DEFINE w == [wf[e] EXCEPT !.approved = reviewer, !.heard = @ \cup {reviewer}]
<1>1. w \in Execution /\ w.state = wf[e].state /\ w.heard = wf[e].heard \cup {reviewer}
      /\ w.approved = reviewer /\ w.reviewer = wf[e].reviewer
  BY DEF IInv, TypeOK, Execution
<1>2. wf' = [wf EXCEPT ![e] = w]
  BY DEF Approve, IInv, TypeOK, Execution
<1> QED
  BY <1>1, <1>2, ExecutionStep DEF Approve, IInv, HeardInv

LEMMA ClosedRow ==
  ASSUME TypeOK, NEW e \in Executions, NEW state \in {"completed", "failed"}
  PROVE  \E w \in Execution :
           /\ Closed(e, state) = [wf EXCEPT ![e] = w]
           /\ w.state = state /\ w.heard = wf[e].heard /\ w.approved = NoOne /\ w.reviewer = NoOne
<1> DEFINE w == [state |-> state, at |-> 1, tries |-> 0, waits |-> FALSE,
                 approved |-> NoOne, reviewer |-> NoOne, heard |-> wf[e].heard]
<1>1. w \in Execution /\ w.state = state /\ w.heard = wf[e].heard /\ w.approved = NoOne /\ w.reviewer = NoOne
  BY PublishIsPhase, BoundsAssumption DEF TypeOK, Execution, Phases
<1>2. Closed(e, state) = [wf EXCEPT ![e] = w]
  BY DEF Closed, TypeOK
<1> QED
  BY <1>1, <1>2

LEMMA ExhaustStep ==
  ASSUME IInv, NEW e \in Executions, Exhaust(e)
  PROVE  IInv'
<1>1. PICK w \in Execution :
        /\ Closed(e, "failed") = [wf EXCEPT ![e] = w]
        /\ w.state = "failed" /\ w.heard = wf[e].heard /\ w.approved = NoOne /\ w.reviewer = NoOne
  BY ClosedRow DEF IInv
<1> QED
  BY <1>1, ExecutionStep DEF Exhaust

LEMMA ScheduleStep ==
  ASSUME IInv, NEW e \in Executions, Schedule(e)
  PROVE  IInv'
<1> DEFINE reviewer == IF wf[e].at # Publish THEN NoOne
                       ELSE IF wf[e].tries = 0 THEN wf[e].approved ELSE wf[e].reviewer
           a == [exec |-> e, phase |-> wf[e].at, n |-> wf[e].tries + 1, reviewer |-> reviewer,
                 pc |-> "begin", snap |-> Fresh, cand |-> 0, prev |-> {}]
<1>1. wf[e] \in Execution /\ RunOf[e] \in Runs /\ Fresh \in Row /\ Fresh.ledger = {}
  BY ExecutionsAssumption DEF IInv, TypeOK, Fresh, Row
<1>2. /\ ~wf[e].waits /\ wf[e].tries < MaxAttempts
      /\ wf' = [wf EXCEPT ![e].waits = TRUE, ![e].tries = @ + 1, ![e].reviewer = reviewer]
      /\ act' = act \cup {a} /\ UNCHANGED << facts, run, tax, lost >>
  BY Zenon DEF Schedule
<1>3. reviewer \in Reviewers \cup {NoOne} /\ (reviewer # NoOne => reviewer \in wf[e].heard)
  BY <1>1 DEF Execution, IInv, HeardInv
<1>4. wf[e].tries + 1 \in 1..MaxAttempts
  BY <1>1, <1>2, BoundsAssumption DEF Execution
<1> HIDE DEF reviewer
<1>5. PICK w \in Execution :
        /\ w = [wf[e] EXCEPT !.waits = TRUE, !.tries = wf[e].tries + 1, !.reviewer = reviewer]
        /\ w.state = wf[e].state /\ w.heard = wf[e].heard
        /\ w.approved = wf[e].approved /\ w.reviewer = reviewer
  <2>1. wf[e].tries + 1 \in 0..MaxAttempts
    BY <1>1, <1>4 DEF Execution
  <2> QED
    BY <1>1, <1>3, <2>1, NextTry
<1>6. wf' = [wf EXCEPT ![e] = w]
  BY <1>2, <1>5 DEF IInv, TypeOK, Execution
<1>7. a \in Attempt /\ a.pc = "begin" /\ a.exec = e /\ a.reviewer = reviewer /\ a.snap = Fresh
  BY <1>1, <1>3, <1>4 DEF Attempt, Execution
<1> HIDE DEF a
<1>8. PICK c \in Attempt : c = a /\ c.pc = "begin" /\ c.exec = e
                            /\ c.reviewer = reviewer /\ c.snap = Fresh
  BY <1>7
<1>9. Ordered(RunOf[e], Fresh.ledger) /\ ~(Publish \in Fresh.ledger)
  BY <1>1 DEF Ordered
<1>10. wf'[e].heard = wf[e].heard
  BY <1>5, <1>6 DEF IInv, TypeOK
<1>11. Fine(c)'
  BY <1>2, <1>3, <1>8, <1>9, <1>10 DEF Fine, InPublication, Of, Ordered, Out
<1>12. act' = act \cup {c} /\ UNCHANGED << facts, run, tax, lost >>
  BY <1>2, <1>8
<1> QED
  BY <1>3, <1>5, <1>6, <1>11, <1>12, ExecutionStep DEF IInv, HeardInv

(* An attempt that ends without news for Temporal. *)
LEMMA DepartStep ==
  ASSUME IInv, act' \subseteq act, UNCHANGED << facts, run, tax, wf, lost >>
  PROVE  IInv'
<1>1. wf' \in [Executions -> Execution] /\ HeardInv' /\ CompletedIsPublished'
  BY DEF IInv, TypeOK, HeardInv, CompletedIsPublished, Out
<1> QED
  BY <1>1, HistoryStep

LEMMA CompleteStep ==
  ASSUME IInv, NEW a \in act, Complete(a)
  PROVE  IInv'
<1> DEFINE e == a.exec
<1>1. a \in Attempt /\ Fine(a) /\ e \in Executions /\ a.pc = "done"
  BY DEF IInv, TypeOK, Attempt, Complete
<1>2. act' \subseteq act /\ UNCHANGED << facts, run, tax, lost >>
  BY DEF Complete
<1>3. CASE ~Current(a)
  BY <1>2, <1>3, DepartStep DEF Complete
<1>4. CASE Current(a) /\ a.phase = Publish
  <2>1. PICK w \in Execution :
          /\ Closed(e, "completed") = [wf EXCEPT ![e] = w]
          /\ w.state = "completed" /\ w.heard = wf[e].heard /\ w.approved = NoOne /\ w.reviewer = NoOne
    BY <1>1, ClosedRow DEF IInv
  <2>2. wf' = [wf EXCEPT ![e] = w]
    BY <1>4, <2>1 DEF Complete
  <2>3. Out(RunOf[e])
    BY <1>1, <1>4 DEF Fine, Of
  <2> QED
    BY <1>1, <1>2, <2>1, <2>2, <2>3, ExecutionStep
<1>5. CASE Current(a) /\ a.phase # Publish
  <2>1. wf[e] \in Execution /\ wf[e].at = a.phase
    BY <1>1, <1>5 DEF IInv, TypeOK, Current
  <2>2. wf[e].at + 1 \in Phases
    BY <1>5, <2>1, PublishIsPhase DEF Execution, Phases
  <2>3. PICK w \in Execution :
          /\ w = [wf[e] EXCEPT !.at = wf[e].at + 1, !.tries = 0, !.waits = FALSE]
          /\ w.state = wf[e].state /\ w.heard = wf[e].heard
          /\ w.approved = wf[e].approved /\ w.reviewer = wf[e].reviewer
    BY <2>1, <2>2, NextPhase
  <2>4. wf' = [wf EXCEPT ![e] = w]
    BY <1>1, <1>5, <2>3 DEF Complete, IInv, TypeOK, Execution
  <2> QED
    BY <1>1, <1>2, <2>3, <2>4, ExecutionStep DEF IInv, HeardInv
<1> QED
  BY <1>3, <1>4, <1>5

LEMMA FailStep ==
  ASSUME IInv, NEW a \in act, Fail(a)
  PROVE  IInv'
<1>1. a.exec \in Executions
  BY DEF IInv, TypeOK, Attempt
<1>2. act' \subseteq act /\ UNCHANGED << facts, run, tax, lost >>
  BY DEF Fail
<1>3. CASE Current(a)
  <2>1. PICK w \in Execution :
          /\ Closed(a.exec, "failed") = [wf EXCEPT ![a.exec] = w]
          /\ w.state = "failed" /\ w.heard = wf[a.exec].heard /\ w.approved = NoOne /\ w.reviewer = NoOne
    BY <1>1, ClosedRow DEF IInv
  <2> QED
    BY <1>1, <1>2, <1>3, <2>1, ExecutionStep DEF Fail
<1>4. CASE ~Current(a)
  BY <1>2, <1>4, DepartStep DEF Fail
<1> QED
  BY <1>3, <1>4

(* Temporal stops waiting for the current attempt of an execution. *)
LEMMA StopWaiting ==
  ASSUME IInv, NEW e \in Executions, act' \subseteq act, UNCHANGED << facts, run, tax, lost >>,
         wf' = [wf EXCEPT ![e].waits = FALSE]
  PROVE  IInv'
<1> DEFINE w == [wf[e] EXCEPT !.waits = FALSE]
<1>1. w \in Execution /\ w.state = wf[e].state /\ w.heard = wf[e].heard
      /\ w.approved = wf[e].approved /\ w.reviewer = wf[e].reviewer
  BY DEF IInv, TypeOK, Execution
<1>2. wf' = [wf EXCEPT ![e] = w]
  BY DEF IInv, TypeOK, Execution
<1> QED
  BY <1>1, <1>2, ExecutionStep DEF IInv, HeardInv

LEMMA CrashStep ==
  ASSUME IInv, NEW a \in act, Crash(a)
  PROVE  IInv'
<1>1. a.exec \in Executions
  BY DEF IInv, TypeOK, Attempt
<1>2. act' \subseteq act /\ UNCHANGED << facts, run, tax, lost >>
  BY DEF Crash
<1>3. CASE Current(a)
  BY <1>1, <1>2, <1>3, StopWaiting DEF Crash
<1>4. CASE ~Current(a)
  BY <1>2, <1>4, DepartStep DEF Crash
<1> QED
  BY <1>3, <1>4

LEMMA TimeOutStep ==
  ASSUME IInv, NEW a \in act, TimeOut(a)
  PROVE  IInv'
<1>1. a.exec \in Executions
  BY DEF IInv, TypeOK, Attempt
<1> QED
  BY <1>1, StopWaiting DEF TimeOut

-----------------------------------------------------------------------------
(* Steps that change the versions of the taxonomies.  Versions are added   *)
(* or published, never taken back.                                         *)
Kept(r) ==
  /\ Len(tax[r]) <= Len(tax'[r])
  /\ \A i \in 1..Len(tax[r]) : tax[r][i].under # {} => tax'[r][i].under # {}

LEMMA KeptIsOut ==
  ASSUME TypeOK, TypeOK', NEW r \in Runs, Kept(r), Out(r)
  PROVE  Out(r)'
<1>1. Len(tax[r]) \in Nat /\ Len(tax'[r]) \in Nat
  BY DEF TypeOK
<1> QED
  BY <1>1 DEF Kept, Out

LEMMA ReviseStep ==
  ASSUME IInv, NEW r \in Runs, NEW i \in Nat, Revise(r, i)
  PROVE  IInv'
<1>0. Draft \in Version /\ Draft.under = {} /\ Draft.status = "draft"
  BY DEF Draft, Version
<1>1. tax[r] \in Seq(Version) /\ tax \in [Runs -> Seq(Version)]
  BY DEF IInv, TypeOK
<1>2. /\ Append(tax[r], Draft) \in Seq(Version)
      /\ Len(Append(tax[r], Draft)) = Len(tax[r]) + 1
      /\ Len(tax[r]) \in Nat
      /\ \A j \in 1..Len(tax[r]) : Append(tax[r], Draft)[j] = tax[r][j]
      /\ Append(tax[r], Draft)[Len(tax[r]) + 1] = Draft
  BY <1>0, <1>1
<1>3. tax' = [tax EXCEPT ![r] = Append(tax[r], Draft)] /\ UNCHANGED << facts, run, wf, act, lost >>
  BY DEF Revise
<1>4. TypeOK'
  BY <1>1, <1>2, <1>3 DEF IInv, TypeOK
<1>5. \A s \in Runs : Kept(s)
  <2> SUFFICES ASSUME NEW s \in Runs PROVE Kept(s)
    OBVIOUS
  <2>1. Len(tax[s]) \in Nat
    BY <1>1
  <2>2. CASE s = r
    BY <1>1, <1>2, <1>3, <2>2 DEF Kept
  <2>3. CASE s # r
    BY <1>1, <1>3, <2>1, <2>3 DEF Kept
  <2> QED
    BY <2>2, <2>3
<1>6. \A s \in Runs : Out(s) => Out(s)'
  BY <1>4, <1>5, KeptIsOut DEF IInv
<1>7. \A s \in Runs : \A j \in 1..Len(tax'[s]) :
        (j \in 1..Len(tax[s]) /\ tax'[s][j] = tax[s][j]) \/ tax'[s][j] = Draft
  <2> SUFFICES ASSUME NEW s \in Runs, NEW j \in 1..Len(tax'[s])
               PROVE  (j \in 1..Len(tax[s]) /\ tax'[s][j] = tax[s][j]) \/ tax'[s][j] = Draft
    OBVIOUS
  <2>1. CASE s = r
    <3>1. tax'[s] = Append(tax[r], Draft)
      BY <1>1, <1>3, <2>1
    <3>2. j \in 1..Len(tax[r]) \/ j = Len(tax[r]) + 1
      BY <1>2, <3>1
    <3> QED
      BY <1>2, <2>1, <3>1, <3>2
  <2>2. CASE s # r
    BY <1>1, <1>3, <2>2
  <2> QED
    BY <2>1, <2>2
<1>8. OwnedInv' /\ PublicationIsEarned'
  BY <1>0, <1>3, <1>7 DEF IInv, OwnedInv, PublicationIsEarned
<1>9. \A c \in act' : Fine(c)'
  <2> SUFFICES ASSUME NEW c \in act PROVE Fine(c)'
    BY <1>3
  <2>1. Fine(c) /\ c \in Attempt
    BY DEF IInv, TypeOK
  <2>2. \A s \in Runs : Len(tax[s]) <= Len(tax'[s])
    BY <1>5 DEF Kept
  <2> QED
    BY <1>3, <1>4, <1>6, <2>1, <2>2, StaysFine DEF IInv
<1>10. RecordedInv' /\ CompletedIsPublished'
  BY <1>3, <1>6, ExecutionsAssumption DEF IInv, RecordedInv, CompletedIsPublished
<1> QED
  BY <1>3, <1>4, <1>8, <1>9, <1>10 DEF IInv, LedgerInOrder, Ordered, HeardInv

(* What a publication makes of every version. *)
LEMMA CommitVersions ==
  ASSUME IInv, NEW a \in act, CommitPublication(a)
  PROVE  /\ tax' \in [Runs -> Seq(Version)]
         /\ \A r \in Runs : Len(tax'[r]) = Len(tax[r]) /\ Len(tax[r]) \in Nat
         /\ \A r \in Runs : \A i \in 1..Len(tax[r]) :
              tax'[r][i] = IF << r, i >> = << Of(a), a.cand >> THEN Released(tax[r][i], a)
                           ELSE IF << r, i >> \in a.prev THEN Superseded(tax[r][i])
                           ELSE tax[r][i]
<1>1. a \in Attempt /\ a.reviewer \in Reviewers \cup {NoOne} /\ a.exec \in Executions
  BY DEF IInv, TypeOK, Attempt
<1>2. tax \in [Runs -> Seq(Version)]
  BY DEF IInv, TypeOK
<1>3. \A v \in Version : Released(v, a) \in Version /\ Superseded(v) \in Version
  BY <1>1 DEF Released, Superseded, Version
<1> DEFINE New(r, i) == IF << r, i >> = << Of(a), a.cand >> THEN Released(tax[r][i], a)
                        ELSE IF << r, i >> \in a.prev THEN Superseded(tax[r][i])
                        ELSE tax[r][i]
<1>4. tax' = [r \in Runs |-> [i \in 1..Len(tax[r]) |-> New(r, i)]]
  BY DEF CommitPublication
<1>5. ASSUME NEW r \in Runs
      PROVE  /\ [i \in 1..Len(tax[r]) |-> New(r, i)] \in Seq(Version)
             /\ Len([i \in 1..Len(tax[r]) |-> New(r, i)]) = Len(tax[r])
             /\ Len(tax[r]) \in Nat
  <2>1. Len(tax[r]) \in Nat /\ \A i \in 1..Len(tax[r]) : tax[r][i] \in Version
    BY <1>2, <1>5
  <2>2. \A i \in 1..Len(tax[r]) : New(r, i) \in Version
    BY <1>3, <2>1
  <2> QED
    BY <2>1, <2>2
<1> HIDE DEF New
<1>6. \A r \in Runs : tax'[r] = [i \in 1..Len(tax[r]) |-> New(r, i)]
  BY <1>4
<1> QED
  BY <1>4, <1>5, <1>6 DEF New

LEMMA CommitStep ==
  ASSUME IInv, NEW a \in act, CommitPublication(a)
  PROVE  IInv'
<1> DEFINE b == [a EXCEPT !.pc = "done"]
           row == Recorded(Of(a), Publish)
<1>1. /\ a \in Attempt /\ Fine(a) /\ a.exec \in Executions /\ Of(a) \in Runs
      /\ a.phase = Publish /\ a.reviewer # NoOne /\ a.reviewer \in wf[a.exec].heard
      /\ a.cand \in 1..Len(tax[Of(a)])
      /\ \A p \in Phases : Needs(p) \subseteq facts[Of(a)]
  BY ExecutionsAssumption DEF IInv, TypeOK, Attempt, CommitPublication, Fine, InPublication, Of
<1>2. b \in Attempt /\ b.pc = "done" /\ b.exec = a.exec /\ b.phase = a.phase
      /\ b.reviewer = a.reviewer /\ b.snap = a.snap
  BY <1>1, MovedAttempt
<1>3. /\ act' = (act \ {a}) \cup {b} /\ run' = [run EXCEPT ![Of(a)] = row] /\ UNCHANGED << facts, wf, lost >>
  BY DEF CommitPublication, Moved
<1>4. row \in Row /\ row.ledger = run[Of(a)].ledger \cup {Publish}
  BY <1>1, PublishIsPhase DEF Recorded, Row, IInv, TypeOK
<1>5. TypeOK'
  BY <1>1, <1>2, <1>3, <1>4, CommitVersions DEF IInv, TypeOK
<1>0. /\ \A r \in Runs : Len(tax'[r]) = Len(tax[r]) /\ Len(tax[r]) \in Nat
      /\ \A r \in Runs : \A i \in 1..Len(tax[r]) :
           tax'[r][i] = IF << r, i >> = << Of(a), a.cand >> THEN Released(tax[r][i], a)
                        ELSE IF << r, i >> \in a.prev THEN Superseded(tax[r][i])
                        ELSE tax[r][i]
  BY CommitVersions
<1>6. \A r \in Runs : \A i \in 1..Len(tax[r]) :
        \/ tax'[r][i].under = tax[r][i].under /\ tax'[r][i].by = tax[r][i].by
             /\ (tax[r][i].status = "draft" => tax'[r][i].status = "draft")
        \/ r = Of(a) /\ tax'[r][i].under = {a.exec} /\ tax'[r][i].by = a.reviewer
  <2> SUFFICES ASSUME NEW r \in Runs, NEW i \in 1..Len(tax[r])
               PROVE  \/ tax'[r][i].under = tax[r][i].under /\ tax'[r][i].by = tax[r][i].by
                           /\ (tax[r][i].status = "draft" => tax'[r][i].status = "draft")
                      \/ r = Of(a) /\ tax'[r][i].under = {a.exec} /\ tax'[r][i].by = a.reviewer
    OBVIOUS
  <2>1. tax[r][i] \in Version
    BY DEF IInv, TypeOK
  <2>2. \/ tax'[r][i] = Released(tax[r][i], a) /\ r = Of(a)
        \/ tax'[r][i] = Superseded(tax[r][i]) \/ tax'[r][i] = tax[r][i]
    BY CommitVersions
  <2> QED
    BY <2>1, <2>2 DEF Released, Superseded, Version
<1>7. tax'[Of(a)][a.cand].under # {}
  <2>1. tax'[Of(a)][a.cand] = Released(tax[Of(a)][a.cand], a)
    BY <1>1, CommitVersions
  <2>2. tax[Of(a)][a.cand].status # "draft" => tax[Of(a)][a.cand].under # {}
    BY <1>1 DEF IInv, OwnedInv
  <2> QED
    BY <2>1, <2>2 DEF Released
<1>8. Out(Of(a))'
  BY <1>1, <1>7, CommitVersions DEF Out, Of
<1>9. \A r \in Runs : Out(r) => Out(r)'
  <2>1. \A r \in Runs : Kept(r)
    <3> SUFFICES ASSUME NEW r \in Runs PROVE Kept(r)
      OBVIOUS
    <3>1. Len(tax[r]) <= Len(tax'[r])
      BY <1>0
    <3>2. ASSUME NEW i \in 1..Len(tax[r]), tax[r][i].under # {} PROVE tax'[r][i].under # {}
      BY <1>6, <3>2
    <3> QED
      BY <3>1, <3>2 DEF Kept
  <2> QED
    BY <1>5, <2>1, KeptIsOut DEF IInv
<1>10. OwnedInv'
  <2> SUFFICES ASSUME NEW r \in Runs, NEW i \in 1..Len(tax[r]), tax'[r][i].status # "draft"
               PROVE  tax'[r][i].under # {}
    BY <1>0 DEF OwnedInv
  <2>1. tax[r][i].status # "draft" => tax[r][i].under # {}
    BY DEF IInv, OwnedInv
  <2> QED
    BY <1>6, <2>1
<1>11. PublicationIsEarned'
  <2> SUFFICES ASSUME NEW r \in Runs, NEW i \in 1..Len(tax[r]), NEW e \in tax'[r][i].under
               PROVE  RunOf[e] = r /\ tax'[r][i].by \in wf[e].heard
                      /\ \A p \in Phases : Needs(p) \subseteq facts[r]
    BY <1>3, CommitVersions DEF PublicationIsEarned
  <2>1. CASE tax'[r][i].under = tax[r][i].under /\ tax'[r][i].by = tax[r][i].by
    BY <2>1 DEF IInv, PublicationIsEarned
  <2>2. CASE r = Of(a) /\ tax'[r][i].under = {a.exec} /\ tax'[r][i].by = a.reviewer
    BY <1>1, <2>2 DEF Of
  <2> QED
    BY <1>6, <2>1, <2>2
<1>12. ASSUME NEW c \in act PROVE Fine(c)'
  <2>1. Fine(c) /\ c \in Attempt /\ Of(c) \in Runs
    BY ExecutionsAssumption DEF IInv, TypeOK, Attempt, Of
  <2>2. run[Of(c)].ledger \subseteq run'[Of(c)].ledger
    BY <1>1, <1>3, <1>4, <2>1 DEF IInv, TypeOK
  <2>3. \A r \in Runs : Len(tax[r]) <= Len(tax'[r]) /\ (Out(r) => Out(r)')
    BY <1>0, <1>9
  <2> QED
    BY <1>3, <1>5, <2>1, <2>2, <2>3, StaysFine DEF IInv
<1>13. Fine(b)'
  <2>1. Of(b)' = Of(a) /\ b.snap = a.snap /\ ~InPublication(b)
    BY <1>2 DEF Of, InPublication
  <2>2. Publish \in a.snap.ledger => Out(Of(a))
    BY <1>1 DEF Fine
  <2>3. Ordered(Of(a), a.snap.ledger)
    BY <1>1 DEF Fine
  <2> QED
    BY <1>1, <1>2, <1>3, <1>8, <2>1, <2>2, <2>3 DEF Fine, Ordered, InPublication, Of
<1>14. \A c \in act' : Fine(c)'
  BY <1>3, <1>12, <1>13
<1>15. LedgerInOrder'
  <2>1. \A r \in Runs : run'[r].ledger = IF r = Of(a) THEN run[r].ledger \cup {Publish} ELSE run[r].ledger
    BY <1>1, <1>3, <1>4 DEF IInv, TypeOK
  <2> SUFFICES ASSUME NEW r \in Runs, NEW p \in run'[r].ledger
               PROVE  Needs(p) \subseteq facts[r] /\ \A q \in Phases : q < p => q \in run'[r].ledger
    BY <1>3 DEF LedgerInOrder, Ordered
  <2>2. CASE p \in run[r].ledger
    BY <2>1, <2>2 DEF IInv, LedgerInOrder, Ordered
  <2>3. CASE r = Of(a) /\ p = Publish
    <3>1. \A q \in Phases : q < Publish => q \in run[Of(a)].ledger
      BY <1>1, <1>3 DEF Fine, CommitPublication, InPublication
    <3> QED
      BY <1>1, <2>1, <2>3, <3>1, PublishIsPhase
  <2> QED
    BY <2>1, <2>2, <2>3
<1>16. RecordedInv' /\ CompletedIsPublished'
  BY <1>1, <1>3, <1>4, <1>8, <1>9, ExecutionsAssumption DEF IInv, TypeOK, RecordedInv, CompletedIsPublished, Of
<1> QED
  BY <1>3, <1>5, <1>10, <1>11, <1>14, <1>15, <1>16 DEF IInv, HeardInv
-----------------------------------------------------------------------------
LEMMA InitInvariant == Init => IInv
<1> SUFFICES ASSUME Init PROVE IInv
  OBVIOUS
<1>1. Draft \in Version /\ Draft.status = "draft" /\ Draft.under = {}
  BY DEF Draft, Version
<1>2. \A r \in Runs : \/ tax[r] = << Draft >> /\ Len(tax[r]) = 1 /\ tax[r][1] = Draft
                      \/ tax[r] = << >> /\ Len(tax[r]) = 0
  BY DEF Init
<1>3. tax \in [Runs -> Seq(Version)]
  <2>1. << Draft >> \in Seq(Version) /\ << >> \in Seq(Version)
    BY <1>1
  <2> QED
    BY <2>1 DEF Init
<1>4. facts \in [Runs -> SUBSET Facts] /\ run \in [Runs -> Row] /\ act \subseteq Attempt
  BY InputsAssumption DEF Init, Fresh, Row
<1>5. wf \in [Executions -> Execution]
  <2>1. [state |-> "idle", at |-> 1, tries |-> 0, waits |-> FALSE,
         approved |-> NoOne, reviewer |-> NoOne, heard |-> {}] \in Execution
    BY PublishIsPhase, BoundsAssumption DEF Execution, Phases
  <2> QED
    BY <2>1 DEF Init
<1>6. \A r \in Runs : \A i \in 1..Len(tax[r]) : tax[r][i] = Draft
  BY <1>2
<1>7. OwnedInv /\ PublicationIsEarned
  BY <1>1, <1>6 DEF OwnedInv, PublicationIsEarned
<1>8. LedgerInOrder /\ RecordedInv /\ HeardInv /\ CompletedIsPublished
  BY DEF Init, Fresh, LedgerInOrder, Ordered, RecordedInv, HeardInv, CompletedIsPublished
<1> QED
  BY <1>3, <1>4, <1>5, <1>7, <1>8 DEF Init, IInv, TypeOK

LEMMA StutterStep == IInv /\ UNCHANGED vars => IInv'
BY DepartStep DEF vars

LEMMA InvariantStep == IInv /\ [Next]_vars => IInv'
<1> SUFFICES ASSUME IInv, [Next]_vars PROVE IInv'
  OBVIOUS
<1>1. ASSUME NEW e \in Executions,
             Start(e) \/ Schedule(e) \/ Exhaust(e) \/ \E reviewer \in Reviewers : Approve(e, reviewer)
      PROVE  IInv'
  BY <1>1, StartStep, ScheduleStep, ExhaustStep, ApproveStep
<1>2. ASSUME NEW a \in act, Work(a)
      PROVE  IInv'
  BY <1>2, ReplayStep, RecordStep, ChooseStep, LookAroundStep, CommitStep, RefuseStep,
     ReadRunStep, RecordFailureStep, CompleteStep, FailStep DEF Work
<1>3. ASSUME NEW a \in act, Crash(a) \/ TimeOut(a)
      PROVE  IInv'
  BY <1>3, CrashStep, TimeOutStep
<1>4. ASSUME NEW r \in Runs, NEW i \in 1..MaxVersions[r], Revise(r, i)
      PROVE  IInv'
  BY <1>4, ReviseStep, BoundsAssumption
<1>5. CASE UNCHANGED vars
  BY <1>5, StutterStep
<1> QED
  BY <1>1, <1>2, <1>3, <1>4, <1>5 DEF Next, Over

(* The inductive invariant holds in every reachable state. *)
THEOREM InductiveInvariant == Spec => []IInv
  BY InitInvariant, InvariantStep, PTL DEF Spec

(* The variables have their types. *)
THEOREM TypeCorrect == Spec => []TypeOK
<1>1. IInv => TypeOK
  BY DEF IInv
<1> QED
  BY <1>1, InductiveInvariant, PTL

(* The ledger of a run is a prefix of the phases, each of them earned,     *)
(* however attempts overlap and whatever a failure writes back             *)
(* (activities.py 57-87, 328-383).                                         *)
THEOREM LedgerIsOrdered == Spec => []LedgerInOrder
<1>1. IInv => LedgerInOrder
  BY DEF IInv
<1> QED
  BY <1>1, InductiveInvariant, PTL

(* Nothing is published without an approval of its own run, or with data   *)
(* that fails a gate (workflow.py 88-104, activities.py 275-323).          *)
THEOREM NothingUnearned == Spec => []PublicationIsEarned
<1>1. IInv => PublicationIsEarned
  BY DEF IInv
<1> QED
  BY <1>1, InductiveInvariant, PTL

(* A workflow that reports success has a publication behind it. *)
THEOREM SuccessIsPublished == Spec => []CompletedIsPublished
<1>1. IInv => CompletedIsPublished
  BY DEF IInv
<1> QED
  BY <1>1, InductiveInvariant, PTL

(* A scope that has a release keeps one: the only step that retires a      *)
(* release leaves its own candidate published.                             *)
THEOREM ReleaseIsKept == Spec => ScopeKeepsRelease
<1>1. ASSUME IInv, [Next]_vars, Live # {} PROVE Live' # {}
  <2>1. CASE \E a \in act : CommitPublication(a)
    <3>1. PICK a \in act : CommitPublication(a)
      BY <2>1
    <3>2. a \in Attempt /\ Of(a) \in Runs /\ a.cand \in 1..Len(tax[Of(a)])
      BY <1>1, <3>1, ExecutionsAssumption DEF IInv, TypeOK, Attempt, Of, CommitPublication, Fine, InPublication
    <3>3. Len(tax'[Of(a)]) = Len(tax[Of(a)])
          /\ tax'[Of(a)][a.cand] = Released(tax[Of(a)][a.cand], a)
      BY <1>1, <3>1, <3>2, CommitVersions
    <3>4. tax'[Of(a)][a.cand].status = "published"
      BY <3>3 DEF Released
    <3> QED
      BY <3>2, <3>3, <3>4 DEF Live
  <2>2. CASE \E r \in Runs : \E i \in 1..MaxVersions[r] : Revise(r, i)
    <3>1. PICK r \in Runs : tax' = [tax EXCEPT ![r] = Append(tax[r], Draft)]
      BY <2>2 DEF Revise
    <3>2. PICK s \in Runs : \E i \in 1..Len(tax[s]) : tax[s][i].status = "published"
      BY <1>1 DEF Live
    <3>5. PICK i \in 1..Len(tax[s]) : tax[s][i].status = "published"
      BY <3>2
    <3>3. tax \in [Runs -> Seq(Version)] /\ Draft \in Version
      BY <1>1 DEF IInv, TypeOK, Draft, Version
    <3>4. tax'[s][i] = tax[s][i] /\ i \in 1..Len(tax'[s])
      BY <3>1, <3>3
    <3> QED
      BY <3>4, <3>5 DEF Live
  <2>3. CASE tax' = tax
    BY <1>1, <2>3 DEF Live
  <2> QED
    BY <1>1, <2>1, <2>2, <2>3
       DEF Next, Work, vars, Start, Schedule, Exhaust, Approve, Replay, Record, Choose, LookAround,
           Refuse, ReadRun, RecordFailure, Complete, Fail, Crash, TimeOut, Over
<1>2. IInv /\ [Next]_vars => [Live # {} => Live' # {}]_vars
  BY <1>1
<1> QED
  BY <1>2, InductiveInvariant, PTL DEF Spec, ScopeKeepsRelease
-----------------------------------------------------------------------------
(* The core of ExecutionCloses.  One publication at a time is at work on a *)
(* run; its version stays a draft or published, as nobody else may touch   *)
(* it; one that has releases to replace holds a draft, and those releases  *)
(* never become drafts again.                                              *)
Status(v) == tax[v[1]][v[2]].status

Holding(a) ==
  InPublication(a) =>
    /\ Status(<< Of(a), a.cand >>) \in {"draft", "published"}
    /\ a.pc = "seen" =>
         /\ a.prev # {} => Status(<< Of(a), a.cand >>) = "draft"
         /\ \A v \in a.prev : /\ v[1] \in Runs /\ v[2] \in 1..Len(tax[v[1]])
                              /\ Status(v) # "draft"

LocksInv ==
  /\ \A a, b \in act : InPublication(a) /\ InPublication(b) /\ Of(a) = Of(b) => a = b
  /\ \A a \in act : Holding(a)

(* Steps that leave the taxonomies alone and bring no new publication. *)
LEMMA OthersKeepLocks ==
  ASSUME LocksInv, tax' = tax, \A b \in act' : b \in act \/ ~InPublication(b)
  PROVE  LocksInv'
BY DEF LocksInv, Holding, Status, InPublication, Of

LEMMA ChooseKeepsLocks ==
  ASSUME IInv, LocksInv, NEW a \in act, Choose(a)
  PROVE  LocksInv'
<1>0. PICK i \in Newest(Of(a)) : act' = (act \ {a}) \cup {[a EXCEPT !.pc = "chosen", !.cand = i]}
  BY DEF Choose
<1> DEFINE b == [a EXCEPT !.pc = "chosen", !.cand = i]
<1>1. a \in Attempt /\ RunFree(Of(a)) /\ tax' = tax
  BY DEF IInv, TypeOK, Choose, Begins
<1>2. b.pc = "chosen" /\ b.exec = a.exec /\ b.cand = i
  BY <1>1 DEF Attempt
<1>3. tax[Of(a)][i].status \in {"draft", "published"}
  BY DEF Newest, Publishable
<1>4. act' = (act \ {a}) \cup {b}
  BY <1>0
<1> HIDE DEF b
<1>5. \A c, d \in act' : InPublication(c) /\ InPublication(d) /\ Of(c) = Of(d) => c = d
  BY <1>1, <1>2, <1>4 DEF LocksInv, RunFree, Of
<1>6. \A c \in act' : Holding(c)'
  BY <1>1, <1>2, <1>3, <1>4 DEF LocksInv, Holding, Status, InPublication, Of
<1> QED
  BY <1>5, <1>6 DEF LocksInv, InPublication, Of

LEMMA LookAroundKeepsLocks ==
  ASSUME IInv, LocksInv, NEW a \in act, LookAround(a)
  PROVE  LocksInv'
<1> DEFINE others == IF tax[Of(a)][a.cand].status = "published" THEN {} ELSE Releases(Of(a), a.cand)
           b == [a EXCEPT !.pc = "seen", !.prev = others]
<1>1. a \in Attempt /\ a.pc = "chosen" /\ tax' = tax /\ act' = (act \ {a}) \cup {b}
  BY DEF IInv, TypeOK, LookAround
<1>2. b.pc = "seen" /\ b.exec = a.exec /\ b.cand = a.cand /\ b.prev = others
  BY <1>1 DEF Attempt
<1>3. others # {} => Status(<< Of(a), a.cand >>) = "draft"
  BY <1>1 DEF LocksInv, Holding, Status, InPublication
<1>4. \A v \in others : v[1] \in Runs /\ v[2] \in 1..Len(tax[v[1]]) /\ Status(v) # "draft"
  BY DEF Releases, Status
<1> HIDE DEF b, others
<1>5. \A c, d \in act' : InPublication(c) /\ InPublication(d) /\ Of(c) = Of(d) => c = d
  BY <1>1, <1>2 DEF LocksInv, InPublication, Of
<1>6. \A c \in act' : Holding(c)'
  BY <1>1, <1>2, <1>3, <1>4 DEF LocksInv, Holding, Status, InPublication, Of
<1> QED
  BY <1>5, <1>6 DEF LocksInv, InPublication, Of

LEMMA ReviseKeepsLocks ==
  ASSUME IInv, LocksInv, NEW r \in Runs, NEW i \in Nat, Revise(r, i)
  PROVE  LocksInv'
<1>1. tax \in [Runs -> Seq(Version)] /\ Draft \in Version
  BY DEF IInv, TypeOK, Draft, Version
<1>2. tax' = [tax EXCEPT ![r] = Append(tax[r], Draft)] /\ act' = act
  BY DEF Revise
<1>3. \A s \in Runs : \A j \in 1..Len(tax[s]) : j \in 1..Len(tax'[s]) /\ tax'[s][j] = tax[s][j]
  BY <1>1, <1>2
<1>4. \A a \in act : Of(a) \in Runs /\ (InPublication(a) => a.cand \in 1..Len(tax[Of(a)]))
  BY ExecutionsAssumption DEF IInv, TypeOK, Attempt, Of, Fine
<1>5. ASSUME NEW a \in act PROVE Holding(a)'
  <2>1. Holding(a)
    BY DEF LocksInv
  <2> QED
    BY <1>3, <1>4, <2>1 DEF Holding, Status, InPublication, Of
<1> QED
  BY <1>2, <1>5 DEF LocksInv, InPublication, Of

LEMMA CommitKeepsLocks ==
  ASSUME IInv, LocksInv, NEW a \in act, CommitPublication(a)
  PROVE  LocksInv'
<1> DEFINE b == [a EXCEPT !.pc = "done"]
<1>1. a \in Attempt /\ InPublication(a) /\ act' = (act \ {a}) \cup {b} /\ b.pc = "done"
  BY DEF IInv, TypeOK, Attempt, CommitPublication, Moved, InPublication
<1>2. /\ \A r \in Runs : Len(tax'[r]) = Len(tax[r]) /\ Len(tax[r]) \in Nat
      /\ \A r \in Runs : \A i \in 1..Len(tax[r]) :
           tax'[r][i] = IF << r, i >> = << Of(a), a.cand >> THEN Released(tax[r][i], a)
                        ELSE IF << r, i >> \in a.prev THEN Superseded(tax[r][i])
                        ELSE tax[r][i]
  BY CommitVersions
<1>3. \A r \in Runs : \A i \in 1..Len(tax[r]) :
        tax[r][i].status # "draft" => tax'[r][i].status # "draft"
  <2> SUFFICES ASSUME NEW r \in Runs, NEW i \in 1..Len(tax[r]), tax[r][i].status # "draft"
               PROVE  tax'[r][i].status # "draft"
    OBVIOUS
  <2>1. tax[r][i] \in Version
    BY DEF IInv, TypeOK
  <2>2. Released(tax[r][i], a).status # "draft"
    BY <2>1 DEF Released
  <2>3. Superseded(tax[r][i]).status # "draft"
    BY <2>1 DEF Superseded, Version
  <2> QED
    BY <1>2, <2>2, <2>3
<1>4. ASSUME NEW c \in act \ {a}, InPublication(c)
      PROVE  Of(c) \in Runs /\ c.cand \in 1..Len(tax[Of(c)])
             /\ tax'[Of(c)][c.cand] = tax[Of(c)][c.cand]
  <2>1. Of(c) \in Runs /\ c.cand \in 1..Len(tax[Of(c)]) /\ c.cand \in Nat
    BY <1>4, ExecutionsAssumption DEF IInv, TypeOK, Attempt, Of, Fine
  <2>2. Of(c) # Of(a)
    BY <1>1, <1>4 DEF LocksInv
  <2>3. << Of(c), c.cand >> \notin a.prev
    <3>1. ASSUME << Of(c), c.cand >> \in a.prev PROVE FALSE
      <4> DEFINE v == << Of(c), c.cand >>
      <4>1. VersionFree(v[1], v[2], {a})
        BY <3>1 DEF CommitPublication
      <4>2. v[1] = Of(c) /\ v[2] = c.cand
        OBVIOUS
      <4>3. VersionFree(Of(c), c.cand, {a})
        BY <4>1, <4>2
      <4> QED
        BY <1>4, <4>3 DEF VersionFree
    <3> QED
      BY <3>1
  <2> QED
    BY <1>2, <2>1, <2>2, <2>3
<1>5. ASSUME NEW c \in act \ {a} PROVE Holding(c)'
  <2>1. Holding(c)
    BY DEF LocksInv
  <2> SUFFICES ASSUME InPublication(c) PROVE Holding(c)'
    BY DEF Holding, InPublication
  <2>2. tax'[Of(c)][c.cand] = tax[Of(c)][c.cand]
    BY <1>4
  <2>3. c.pc = "seen" =>
          \A v \in c.prev : v[1] \in Runs /\ v[2] \in 1..Len(tax'[v[1]]) /\ tax'[v[1]][v[2]].status # "draft"
    BY <1>2, <1>3, <2>1 DEF Holding, Status
  <2> QED
    BY <2>1, <2>2, <2>3 DEF Holding, Status, InPublication, Of
<1>6. ~InPublication(b)
  BY <1>1 DEF InPublication
<1> HIDE DEF b
<1>7. Holding(b)'
  BY <1>6 DEF Holding, InPublication
<1> QED
  BY <1>1, <1>5, <1>6, <1>7 DEF LocksInv, InPublication, Of

LEMMA LocksStep == IInv /\ LocksInv /\ [Next]_vars => LocksInv'
<1> SUFFICES ASSUME IInv, LocksInv, [Next]_vars PROVE LocksInv'
  OBVIOUS
<1>1. ASSUME NEW a \in act, NEW pc \in {"done", "refused", "reported"},
             tax' = tax, act' = (act \ {a}) \cup {[a EXCEPT !.pc = pc]}
      PROVE  LocksInv'
  <2>1. a \in Attempt
    BY DEF IInv, TypeOK
  <2>2. [a EXCEPT !.pc = pc].pc = pc
    BY <2>1 DEF Attempt
  <2> QED
    BY <1>1, <2>2, OthersKeepLocks DEF InPublication
<1>2. ASSUME NEW a \in act, Work(a) PROVE LocksInv'
  <2>1. CASE Replay(a) \/ Record(a)
    BY <2>1, <1>1 DEF Replay, Record, Moved
  <2>2. CASE Refuse(a)
    BY <2>2, <1>1 DEF Refuse, Moved
  <2>3. CASE RecordFailure(a)
    BY <2>3, <1>1 DEF RecordFailure, Moved
  <2>4. CASE ReadRun(a)
    <3>1. tax' = tax /\ act' = (act \ {a}) \cup {[a EXCEPT !.pc = "read", !.snap = run[Of(a)]]}
      BY <2>4 DEF ReadRun
    <3>2. [a EXCEPT !.pc = "read", !.snap = run[Of(a)]].pc = "read"
      BY DEF IInv, TypeOK, Attempt
    <3> QED
      BY <3>1, <3>2, OthersKeepLocks DEF InPublication
  <2>5. CASE Complete(a) \/ Fail(a)
    BY <2>5, OthersKeepLocks DEF Complete, Fail
  <2> QED
    BY <1>2, <2>1, <2>2, <2>3, <2>4, <2>5, ChooseKeepsLocks, LookAroundKeepsLocks, CommitKeepsLocks
       DEF Work
<1>3. ASSUME NEW a \in act, Crash(a) \/ TimeOut(a) PROVE LocksInv'
  BY <1>3, OthersKeepLocks DEF Crash, TimeOut
<1>4. ASSUME NEW e \in Executions,
             Start(e) \/ Schedule(e) \/ Exhaust(e) \/ \E reviewer \in Reviewers : Approve(e, reviewer)
      PROVE  LocksInv'
  <2>1. CASE Schedule(e)
    <3> DEFINE w == wf[e]
               reviewer == IF w.at # Publish THEN NoOne
                           ELSE IF w.tries = 0 THEN w.approved ELSE w.reviewer
               b == [exec |-> e, phase |-> w.at, n |-> w.tries + 1, reviewer |-> reviewer,
                     pc |-> "begin", snap |-> Fresh, cand |-> 0, prev |-> {}]
    <3>1. act' = act \cup {b} /\ tax' = tax
      BY <2>1 DEF Schedule
    <3>2. b.pc = "begin"
      OBVIOUS
    <3> HIDE DEF b
    <3> QED
      BY <3>1, <3>2, OthersKeepLocks DEF InPublication
  <2>2. CASE ~Schedule(e)
    BY <1>4, <2>2, OthersKeepLocks DEF Start, Exhaust, Approve
  <2> QED
    BY <2>1, <2>2
<1>5. ASSUME NEW r \in Runs, NEW i \in 1..MaxVersions[r], Revise(r, i) PROVE LocksInv'
  <2>1. i \in Nat
    BY BoundsAssumption
  <2> QED
    BY <1>5, <2>1, ReviseKeepsLocks
<1>6. CASE UNCHANGED vars
  BY <1>6, OthersKeepLocks DEF vars
<1> QED
  BY <1>2, <1>3, <1>4, <1>5, <1>6 DEF Next, Over

(* Publications never wait for each other in a circle, although each of    *)
(* them locks its own version before it waits for the releases it replaces *)
(* (activities.py 281-304): whoever holds a release waits for nobody.      *)
THEOREM PublicationsNeverCircle == Spec => []NoCircleOfLocks
<1>1. Init => LocksInv
  BY DEF Init, LocksInv
<1>2. IInv /\ LocksInv => NoCircleOfLocks
  <2> SUFFICES ASSUME IInv, LocksInv, NEW a \in act, NEW b \in act,
                      InPublication(a), b \in WaitsFor(a), NEW c \in WaitsFor(b)
               PROVE  FALSE
    BY DEF NoCircleOfLocks, WaitsFor
  <2>1. a.pc = "seen" /\ << Of(b), b.cand >> \in a.prev /\ InPublication(b)
    BY DEF WaitsFor, InPublication
  <2>2. Status(<< Of(b), b.cand >>) # "draft"
    BY <2>1 DEF LocksInv, Holding
  <2>3. b.pc = "seen" /\ b.prev # {}
    BY <2>1 DEF WaitsFor, InPublication
  <2>4. Status(<< Of(b), b.cand >>) = "draft"
    BY <2>1, <2>3 DEF LocksInv, Holding
  <2> QED
    BY <2>2, <2>4
<1> QED
  BY <1>1, <1>2, LocksStep, InductiveInvariant, PTL DEF Spec

-----------------------------------------------------------------------------
(* The work of an execution is bounded, and Temporal waits for nobody who  *)
(* is gone: an attempt belongs to a turn that its execution has reached,   *)
(* and to it alone.                                                        *)
SameTurn(a, b) == a.exec = b.exec /\ a.phase = b.phase /\ a.n = b.n

TurnInv ==
  /\ \A a \in act : ~NotYet(a.exec, a.phase, a.n)
  /\ \A a, b \in act : SameTurn(a, b) => a = b
  /\ \A e \in Executions : wf[e].waits => wf[e].state = "open"
  /\ NobodyIsForgotten

(* What a step may make of the row w of an execution.                      *)
Opens(v, w) == w.state = "idle" /\ v.state = "open" /\ v.waits = w.waits
Closes(v, w) == w.state = "open" /\ v.state \in {"completed", "failed"} /\ ~v.waits
StopsWaiting(v, w) ==
  /\ w.state = "open" /\ v.state = "open" /\ ~v.waits
  /\ \/ v.at = w.at /\ v.tries = w.tries
     \/ v.at = w.at + 1 /\ v.tries = 0
Asks(v, w) ==
  /\ w.state = "open" /\ ~w.waits /\ v.state = "open" /\ v.waits
  /\ v.at = w.at /\ v.tries = w.tries + 1
Alike(v, w) == v.state = w.state /\ v.waits = w.waits /\ v.at = w.at /\ v.tries = w.tries

OnlyRow(e) == \A f \in Executions \ {e} : wf'[f] = wf[f]

(* No turn comes back, and only one that was to come is waited for.        *)
TurnsPass ==
  \A e \in Executions, p \in Phases, n \in 1..MaxAttempts :
    /\ NotYet(e, p, n)' => NotYet(e, p, n)
    /\ Awaited(e, p, n)' => Awaited(e, p, n) \/ NotYet(e, p, n)

LEMMA RowPasses ==
  ASSUME TypeOK, NEW e \in Executions, OnlyRow(e),
         \/ Opens(wf'[e], wf[e]) \/ Closes(wf'[e], wf[e]) \/ StopsWaiting(wf'[e], wf[e])
         \/ Asks(wf'[e], wf[e]) \/ Alike(wf'[e], wf[e])
  PROVE  TurnsPass /\ Unfinished' \subseteq Unfinished
<1>1. /\ wf[e].at \in Nat /\ wf[e].tries \in Nat /\ MaxAttempts \in Nat
      /\ Phases \subseteq Nat
  BY BoundsAssumption, PublishIsPhase DEF TypeOK, Execution, Phases
<1>2. ASSUME NEW p \in Phases, NEW n \in 1..MaxAttempts
      PROVE  /\ NotYet(e, p, n)' => NotYet(e, p, n)
             /\ Awaited(e, p, n)' => Awaited(e, p, n) \/ NotYet(e, p, n)
  <2>1. p \in Nat /\ n \in Nat /\ n >= 1
    BY <1>1
  <2> QED
    BY <1>1, <2>1 DEF NotYet, Awaited, Opens, Closes, StopsWaiting, Asks, Alike
<1>3. ASSUME NEW f \in Executions \ {e}, NEW p \in Phases, NEW n \in 1..MaxAttempts
      PROVE  /\ NotYet(f, p, n)' => NotYet(f, p, n)
             /\ Awaited(f, p, n)' => Awaited(f, p, n)
  BY DEF OnlyRow, NotYet, Awaited
<1>4. TurnsPass
  BY <1>2, <1>3 DEF TurnsPass
<1>5. Unfinished' \subseteq Unfinished
  BY DEF Unfinished, OnlyRow, Opens, Closes, StopsWaiting, Asks, Alike
<1> QED
  BY <1>4, <1>5

LEMMA LeftType == \A a : Left(a) \in 1..4
BY DEF Left

(* Nothing is added if each attempt stands where one stood before, with    *)
(* no more to do, or begins a turn that was to come.                       *)
LEMMA StepsPass ==
  ASSUME TurnsPass,
         \A b \in act' : \/ NotYet(b.exec, b.phase, b.n)
                         \/ \E a \in act : SameTurn(a, b) /\ Left(b) <= Left(a)
  PROVE  StepsAhead' \subseteq StepsAhead
<1>1. ASSUME NEW e \in Executions, NEW p \in Phases, NEW n \in 1..MaxAttempts
      PROVE  TurnSteps(e, p, n)' \subseteq TurnSteps(e, p, n)
  <2> SUFFICES ASSUME NEW k \in TurnSteps(e, p, n)' PROVE k \in TurnSteps(e, p, n)
    OBVIOUS
  <2>1. k \in 1..6
    BY DEF TurnSteps
  <2>2. CASE NotYet(e, p, n)' \/ (k = 5 /\ Awaited(e, p, n)')
    BY <2>1, <2>2 DEF TurnSteps, TurnsPass
  <2>3. ASSUME NEW b \in act', b.exec = e, b.phase = p, b.n = n, k <= Left(b)
        PROVE  k \in TurnSteps(e, p, n)
    BY <2>1, <2>3, LeftType DEF TurnSteps, SameTurn
  <2> QED
    BY <2>2, <2>3 DEF TurnSteps
<1> QED
  BY <1>1 DEF StepsAhead, Turns

(* A step that is no longer ahead. *)
LEMMA StepGone ==
  ASSUME NEW e \in Executions, NEW p \in Phases, NEW n \in 1..MaxAttempts, NEW k \in 1..6,
         k \in TurnSteps(e, p, n), ~(k \in TurnSteps(e, p, n)')
  PROVE  StepsAhead' # StepsAhead
<1> DEFINE s == << << e, p, n >>, k >>
<1>1. s \in StepsAhead
  BY DEF StepsAhead, Turns
<1>2. ~(s \in StepsAhead')
  BY DEF StepsAhead
<1> QED
  BY <1>1, <1>2

StepCounts ==
  /\ Ahead' # Ahead
  /\ StepsAhead' \subseteq StepsAhead
  /\ Unfinished' \subseteq Unfinished
  /\ Revisions' \subseteq Revisions

SameLengths == \A r \in Runs : Len(tax'[r]) = Len(tax[r])

LEMMA RevisionsStay == SameLengths => Revisions' = Revisions
BY DEF SameLengths, Revisions

(* An attempt goes on. *)
LEMMA MoveCounts ==
  ASSUME IInv, TurnInv, NEW a \in act, NEW b, SameTurn(a, b), Left(b) < Left(a),
         act' = (act \ {a}) \cup {b}, UNCHANGED wf, SameLengths
  PROVE  TurnInv' /\ StepCounts
<1>1. a.exec \in Executions /\ a.phase \in Phases /\ a.n \in 1..MaxAttempts
  BY DEF IInv, TypeOK, Attempt
<1>2. TurnsPass /\ Unfinished' = Unfinished
  BY DEF TurnsPass, NotYet, Awaited, Unfinished
<1>3. Left(a) \in 1..4 /\ Left(b) \in 1..4
  BY LeftType
<1>4. \A c \in act' : c = b \/ (c \in act /\ c # a)
  OBVIOUS
<1>5. StepsAhead' \subseteq StepsAhead
  <2>1. \A c \in act' : \E d \in act : SameTurn(d, c) /\ Left(c) <= Left(d)
    BY <1>3, <1>4, LeftType DEF SameTurn
  <2> QED
    BY <1>2, <2>1, StepsPass
<1>6. \A p, n, e : NotYet(e, p, n)' <=> NotYet(e, p, n)
  BY DEF NotYet
<1>7. StepsAhead' # StepsAhead
  <2>1. Left(a) \in TurnSteps(a.exec, a.phase, a.n)
    BY <1>3 DEF TurnSteps
  <2>2. \A c \in act' : c.exec = a.exec /\ c.phase = a.phase /\ c.n = a.n => c = b
    BY <1>4 DEF TurnInv, SameTurn
  <2>3. ~(Left(a) \in TurnSteps(a.exec, a.phase, a.n)')
    BY <1>3, <1>6, <2>2 DEF TurnSteps, TurnInv
  <2> QED
    BY <1>1, <1>3, <2>1, <2>3, StepGone
<1>8. TurnInv'
  <2>1. \A c \in act' : ~NotYet(c.exec, c.phase, c.n)'
    BY <1>4, <1>6 DEF TurnInv, SameTurn
  <2>2. \A c, d \in act' : SameTurn(c, d) => c = d
    BY <1>4 DEF TurnInv, SameTurn
  <2>3. NobodyIsForgotten'
    <3> SUFFICES ASSUME NEW e \in Executions, wf[e].state = "open", wf[e].waits
                 PROVE  \E c \in act' : c.exec = e /\ Current(c)'
      BY DEF NobodyIsForgotten
    <3>1. PICK c \in act : c.exec = e /\ Current(c)
      BY DEF TurnInv, NobodyIsForgotten
    <3>2. CASE c = a
      BY <3>1, <3>2 DEF Current, SameTurn
    <3>3. CASE c # a
      BY <3>1, <3>3 DEF Current
    <3> QED
      BY <3>2, <3>3
  <2> QED
    BY <2>1, <2>2, <2>3 DEF TurnInv, SameTurn
<1> QED
  BY <1>2, <1>5, <1>7, <1>8, RevisionsStay DEF StepCounts, Ahead

(* An attempt ends, with what Temporal makes of it. *)
LEMMA EndCounts ==
  ASSUME IInv, TurnInv, NEW a \in act, act' = act \ {a}, UNCHANGED tax, OnlyRow(a.exec),
         \/ ~Current(a) /\ wf'[a.exec] = wf[a.exec]
         \/ Closes(wf'[a.exec], wf[a.exec]) \/ StopsWaiting(wf'[a.exec], wf[a.exec])
  PROVE  TurnInv' /\ StepCounts
<1>1. a.exec \in Executions /\ a.phase \in Phases /\ a.n \in 1..MaxAttempts
  BY DEF IInv, TypeOK, Attempt
<1>2. TurnsPass /\ Unfinished' \subseteq Unfinished
  BY <1>1, RowPasses DEF IInv, Alike
<1>3. \A c \in act : /\ c.exec \in Executions /\ c.phase \in Phases /\ c.n \in 1..MaxAttempts
                     /\ ~NotYet(c.exec, c.phase, c.n)'
  BY <1>2 DEF IInv, TypeOK, Attempt, TurnInv, TurnsPass
<1>4. StepsAhead' \subseteq StepsAhead
  <2>1. \A c \in act' : \E d \in act : SameTurn(d, c) /\ Left(c) <= Left(d)
    BY LeftType DEF SameTurn
  <2> QED
    BY <1>2, <2>1, StepsPass
<1>5. StepsAhead' # StepsAhead
  <2>1. Left(a) \in 1..4
    BY LeftType
  <2>2. 1 \in TurnSteps(a.exec, a.phase, a.n)
    BY <2>1 DEF TurnSteps
  <2>3. \A c \in act' : ~(c.exec = a.exec /\ c.phase = a.phase /\ c.n = a.n)
    BY DEF TurnInv, SameTurn
  <2>4. ~(1 \in TurnSteps(a.exec, a.phase, a.n)')
    BY <1>3, <2>3 DEF TurnSteps
  <2> QED
    BY <1>1, <2>2, <2>4, StepGone
<1>6. TurnInv'
  <2>1. \A c, d \in act' : SameTurn(c, d) => c = d
    BY DEF TurnInv
  <2>2. NobodyIsForgotten'
    <3> SUFFICES ASSUME NEW e \in Executions, wf'[e].state = "open", wf'[e].waits
                 PROVE  \E c \in act' : c.exec = e /\ Current(c)'
      BY DEF NobodyIsForgotten
    <3>1. wf'[e] = wf[e] /\ (e = a.exec => ~Current(a))
      BY DEF OnlyRow, Closes, StopsWaiting
    <3>2. PICK c \in act : c.exec = e /\ Current(c)
      BY <3>1 DEF TurnInv, NobodyIsForgotten
    <3>3. c # a
      BY <3>1, <3>2
    <3> QED
      BY <3>1, <3>2, <3>3 DEF Current
  <2>3. \A e \in Executions : wf'[e].waits => wf'[e].state = "open"
    BY DEF TurnInv, OnlyRow, Closes, StopsWaiting
  <2> QED
    BY <1>3, <2>1, <2>2, <2>3 DEF TurnInv, SameTurn
<1> QED
  BY <1>2, <1>4, <1>5, <1>6, RevisionsStay DEF StepCounts, Ahead, SameLengths

Tried(w, tries, reviewer) == [w EXCEPT !.waits = TRUE, !.tries = tries, !.reviewer = reviewer]

LEMMA TriedRow ==
  ASSUME NEW w \in Execution, NEW tries \in 0..MaxAttempts,
         NEW reviewer \in Reviewers \cup {NoOne}
  PROVE  /\ Tried(w, tries, reviewer).state = w.state
         /\ Tried(w, tries, reviewer).at = w.at
         /\ Tried(w, tries, reviewer).waits = TRUE
         /\ Tried(w, tries, reviewer).tries = tries
<1> DEFINE u1 == [w EXCEPT !.waits = TRUE]
           u2 == [u1 EXCEPT !.tries = tries]
           u3 == [u2 EXCEPT !.reviewer = reviewer]
<1>1. u1 \in Execution /\ u1.state = w.state /\ u1.at = w.at /\ u1.waits = TRUE
  BY DEF Execution
<1>2. u3 = Tried(w, tries, reviewer)
  BY Zenon DEF Tried
<1> HIDE DEF u1
<1>3. /\ u2 \in Execution /\ u2.state = w.state /\ u2.at = w.at /\ u2.waits = TRUE
      /\ u2.tries = tries
  BY <1>1 DEF Execution
<1> HIDE DEF u2
<1>4. u3.state = w.state /\ u3.at = w.at /\ u3.waits = TRUE /\ u3.tries = tries
  BY <1>3 DEF Execution
<1> QED
  BY <1>2, <1>4

(* The next attempt at a phase. *)
LEMMA ScheduleCounts ==
  ASSUME IInv, TurnInv, NEW e \in Executions, Schedule(e)
  PROVE  TurnInv' /\ StepCounts
<1> DEFINE reviewer == IF wf[e].at # Publish THEN NoOne
                       ELSE IF wf[e].tries = 0 THEN wf[e].approved ELSE wf[e].reviewer
           new == [exec |-> e, phase |-> wf[e].at, n |-> wf[e].tries + 1, reviewer |-> reviewer,
                 pc |-> "begin", snap |-> Fresh, cand |-> 0, prev |-> {}]
<1>1. /\ wf[e].state = "open" /\ ~wf[e].waits /\ wf[e].tries < MaxAttempts
      /\ wf' = [wf EXCEPT ![e].waits = TRUE, ![e].tries = @ + 1, ![e].reviewer = reviewer]
      /\ act' = act \cup {new} /\ UNCHANGED tax
  BY Zenon DEF Schedule
<1>2. /\ wf[e] \in Execution /\ MaxAttempts \in Nat
      /\ reviewer \in Reviewers \cup {NoOne}
  BY BoundsAssumption DEF IInv, TypeOK, Execution
<1>3. wf[e].tries \in Nat /\ wf[e].tries + 1 \in 1..MaxAttempts /\ wf[e].at \in Phases
      /\ wf[e].at \in Nat
  BY <1>1, <1>2, PublishIsPhase DEF Execution, Phases
<1>4. Asks(wf'[e], wf[e]) /\ OnlyRow(e)
  <2> HIDE DEF reviewer
  <2> DEFINE w == Tried(wf[e], wf[e].tries + 1, reviewer)
  <2>1. wf[e].tries + 1 \in 0..MaxAttempts
    BY <1>3
  <2>2. wf' = [wf EXCEPT ![e] = w]
    BY <1>1 DEF IInv, TypeOK, Tried
  <2>3. w.state = wf[e].state /\ w.at = wf[e].at /\ w.waits = TRUE /\ w.tries = wf[e].tries + 1
    BY <1>2, <2>1, TriedRow
  <2> HIDE DEF w
  <2>4. wf'[e] = w
    BY <2>2 DEF IInv, TypeOK
  <2> QED
    BY <1>1, <2>2, <2>3, <2>4 DEF Asks, OnlyRow, IInv, TypeOK
<1>5. PICK b : /\ b.exec = e /\ b.phase = wf[e].at /\ b.n = wf[e].tries + 1 /\ b.pc = "begin"
               /\ act' = act \cup {b}
  <2>1. new.exec = e /\ new.phase = wf[e].at /\ new.n = wf[e].tries + 1 /\ new.pc = "begin"
    OBVIOUS
  <2> HIDE DEF new
  <2> QED
    BY <1>1, <2>1
<1> HIDE DEF new, reviewer
<1>6. TurnsPass /\ Unfinished' \subseteq Unfinished
  BY <1>4, RowPasses DEF IInv
<1>7. NotYet(b.exec, b.phase, b.n) /\ ~NotYet(b.exec, b.phase, b.n)'
  BY <1>1, <1>3, <1>4, <1>5 DEF NotYet, Asks
<1>8. Awaited(b.exec, b.phase, b.n)' /\ Left(b) = 4
  BY <1>4, <1>5 DEF Awaited, Asks, Left
<1>9. \A c \in act : /\ ~SameTurn(c, b) /\ c # b
                     /\ ~NotYet(c.exec, c.phase, c.n)'
  <2> SUFFICES ASSUME NEW c \in act
               PROVE  /\ ~SameTurn(c, b) /\ c # b
                      /\ ~NotYet(c.exec, c.phase, c.n)'
    OBVIOUS
  <2>1. ~NotYet(c.exec, c.phase, c.n) /\ c \in Attempt
    BY DEF TurnInv, IInv, TypeOK
  <2>2. c.exec \in Executions /\ c.phase \in Phases /\ c.n \in 1..MaxAttempts
    BY <2>1 DEF Attempt
  <2>3. ~NotYet(c.exec, c.phase, c.n)'
    BY <1>6, <2>1, <2>2 DEF TurnsPass
  <2> QED
    BY <1>7, <2>1, <2>3 DEF SameTurn
<1>10. StepsAhead' \subseteq StepsAhead
  <2>1. \A c \in act' : \/ NotYet(c.exec, c.phase, c.n)
                        \/ \E d \in act : SameTurn(d, c) /\ Left(c) <= Left(d)
    BY <1>5, <1>7, LeftType DEF SameTurn
  <2> QED
    BY <1>6, <2>1, StepsPass
<1>11. StepsAhead' # StepsAhead
  <2>1. 6 \in TurnSteps(b.exec, b.phase, b.n)
    BY <1>7 DEF TurnSteps
  <2>2. ~(6 \in TurnSteps(b.exec, b.phase, b.n)')
    <3>1. \A c : ~(6 <= Left(c))
      BY LeftType
    <3> QED
      BY <1>7, <3>1 DEF TurnSteps
  <2> QED
    BY <1>3, <1>5, <2>1, <2>2, StepGone
<1>12. TurnInv'
  <2>1. \A c \in act' : ~NotYet(c.exec, c.phase, c.n)'
    BY <1>5, <1>7, <1>9
  <2>2. \A c, d \in act' : SameTurn(c, d) => c = d
    BY <1>5, <1>9 DEF TurnInv, SameTurn
  <2>3. NobodyIsForgotten'
    <3> SUFFICES ASSUME NEW f \in Executions, wf'[f].state = "open", wf'[f].waits
                 PROVE  \E c \in act' : c.exec = f /\ Current(c)'
      BY DEF NobodyIsForgotten
    <3>1. CASE f = e
      <4>1. b \in act' /\ b.exec = f /\ Current(b)'
        BY <1>1, <1>4, <1>5, <3>1 DEF Current, Asks
      <4> QED
        BY <4>1
    <3>2. CASE f # e
      <4>1. wf'[f] = wf[f]
        BY <1>4, <3>2 DEF OnlyRow
      <4>2. PICK c \in act : c.exec = f /\ Current(c)
        BY <4>1 DEF TurnInv, NobodyIsForgotten
      <4> QED
        BY <1>5, <4>1, <4>2 DEF Current
    <3> QED
      BY <3>1, <3>2
  <2>4. \A f \in Executions : wf'[f].waits => wf'[f].state = "open"
    BY <1>4 DEF TurnInv, OnlyRow, Asks
  <2> QED
    BY <2>1, <2>2, <2>3, <2>4 DEF TurnInv, SameTurn
<1> QED
  BY <1>1, <1>6, <1>10, <1>11, <1>12, RevisionsStay DEF StepCounts, Ahead, SameLengths

(* The attempts stay as they are while the row of an execution changes, or *)
(* while a reviewer revises a taxonomy.                                    *)
LEMMA RowKeepsTurns ==
  ASSUME IInv, TurnInv, NEW e \in Executions, UNCHANGED act, OnlyRow(e),
         \/ Opens(wf'[e], wf[e]) \/ Closes(wf'[e], wf[e]) \/ StopsWaiting(wf'[e], wf[e])
         \/ Alike(wf'[e], wf[e])
  PROVE  TurnInv' /\ StepsAhead' \subseteq StepsAhead /\ Unfinished' \subseteq Unfinished
<1>1. TurnsPass /\ Unfinished' \subseteq Unfinished
  BY RowPasses DEF IInv
<1>2. StepsAhead' \subseteq StepsAhead
  <2>1. \A c \in act' : \E d \in act : SameTurn(d, c) /\ Left(c) <= Left(d)
    BY LeftType DEF SameTurn
  <2> QED
    BY <1>1, <2>1, StepsPass
<1>3. \A c \in act' : ~NotYet(c.exec, c.phase, c.n)'
  BY <1>1 DEF TurnInv, TurnsPass, IInv, TypeOK, Attempt
<1>4. \A f \in Executions : wf'[f].waits => wf'[f].state = "open"
  BY DEF TurnInv, OnlyRow, Opens, Closes, StopsWaiting, Alike
<1>5. NobodyIsForgotten'
  <2> SUFFICES ASSUME NEW f \in Executions, wf'[f].state = "open", wf'[f].waits
               PROVE  \E c \in act' : c.exec = f /\ Current(c)'
    BY DEF NobodyIsForgotten
  <2>1. Alike(wf'[f], wf[f])
    BY DEF OnlyRow, Opens, Closes, StopsWaiting, Alike, TurnInv
  <2>2. PICK c \in act : c.exec = f /\ Current(c)
    BY <2>1 DEF TurnInv, NobodyIsForgotten, Alike
  <2> QED
    BY <2>1, <2>2 DEF Current, Alike
<1> QED
  BY <1>1, <1>2, <1>3, <1>4, <1>5 DEF TurnInv, SameTurn

(* Starting and closing an execution. *)
LEMMA StateCounts ==
  ASSUME IInv, TurnInv, NEW e \in Executions, UNCHANGED << act, tax, lost >>, OnlyRow(e),
         Opens(wf'[e], wf[e]) \/ Closes(wf'[e], wf[e])
  PROVE  TurnInv' /\ StepCounts
<1>1. TurnInv' /\ StepsAhead' \subseteq StepsAhead /\ Unfinished' \subseteq Unfinished
  BY RowKeepsTurns
<1>2. Unfinished' # Unfinished
  <2>1. CASE Opens(wf'[e], wf[e])
    <3>1. << e, "start" >> \in Unfinished /\ ~(<< e, "start" >> \in Unfinished')
      BY <2>1 DEF Unfinished, Opens
    <3> QED
      BY <3>1
  <2>2. CASE Closes(wf'[e], wf[e])
    <3>1. << e, "close" >> \in Unfinished /\ ~(<< e, "close" >> \in Unfinished')
      BY <2>2 DEF Unfinished, Closes
    <3> QED
      BY <3>1
  <2> QED
    BY <2>1, <2>2
<1> QED
  BY <1>1, <1>2, RevisionsStay DEF StepCounts, Ahead, SameLengths

LEMMA TimeOutCounts ==
  ASSUME IInv, TurnInv, NEW a \in act, TimeOut(a)
  PROVE  TurnInv' /\ StepCounts
<1> DEFINE e == a.exec
<1>1. a.exec \in Executions /\ a.phase \in Phases /\ a.n \in 1..MaxAttempts
  BY DEF IInv, TypeOK, Attempt
<1>2. /\ wf' = [wf EXCEPT ![e].waits = FALSE] /\ Current(a) /\ UNCHANGED << act, tax, lost >>
  BY DEF TimeOut
<1>3. StopsWaiting(wf'[e], wf[e]) /\ OnlyRow(e)
  BY <1>1, <1>2 DEF StopsWaiting, OnlyRow, Current, IInv, TypeOK, Execution
<1>4. TurnInv' /\ StepsAhead' \subseteq StepsAhead /\ Unfinished' \subseteq Unfinished
  BY <1>1, <1>2, <1>3, RowKeepsTurns
<1>5. StepsAhead' # StepsAhead
  <2>1. 5 \in TurnSteps(a.exec, a.phase, a.n)
    BY <1>2 DEF TurnSteps, Awaited, Current
  <2>2. ~NotYet(a.exec, a.phase, a.n)' /\ ~Awaited(a.exec, a.phase, a.n)'
    BY <1>2, <1>3, <1>4 DEF TurnInv, Awaited, StopsWaiting
  <2>3. \A c : ~(5 <= Left(c))
    BY LeftType
  <2>4. ~(5 \in TurnSteps(a.exec, a.phase, a.n)')
    BY <2>2, <2>3 DEF TurnSteps
  <2> QED
    BY <1>1, <2>1, <2>4, StepGone
<1> QED
  BY <1>2, <1>4, <1>5, RevisionsStay DEF StepCounts, Ahead, SameLengths

LEMMA ReviseCounts ==
  ASSUME IInv, TurnInv, NEW r \in Runs, NEW i, Revise(r, i)
  PROVE  TurnInv' /\ StepCounts
<1>1. /\ Len(tax[r]) < MaxVersions[r] /\ tax' = [tax EXCEPT ![r] = Append(@, Draft)]
      /\ UNCHANGED << wf, act, lost >>
  BY DEF Revise
<1>2. /\ \A s \in Runs : Len(tax[s]) \in Nat /\ MaxVersions[s] \in Nat
      /\ tax[r] \in Seq(Version)
  BY BoundsAssumption DEF IInv, TypeOK
<1>3. Len(tax'[r]) = Len(tax[r]) + 1 /\ \A s \in Runs \ {r} : tax'[s] = tax[s]
  BY <1>1, <1>2 DEF IInv, TypeOK
<1>4. Revisions' \subseteq Revisions
  <2>1. \A s \in Runs, k \in Nat : k > Len(tax'[s]) => k > Len(tax[s])
    BY <1>2, <1>3
  <2> QED
    BY <1>2, <2>1 DEF Revisions
<1>5. Revisions' # Revisions
  <2> DEFINE v == << r, Len(tax[r]) + 1 >>
  <2>1. v \in Revisions
    <3>1. Len(tax[r]) + 1 \in 1..MaxVersions[r] /\ Len(tax[r]) + 1 > Len(tax[r])
      BY <1>1, <1>2
    <3> QED
      BY <3>1 DEF Revisions
  <2>2. ~(v \in Revisions')
    BY <1>2, <1>3 DEF Revisions
  <2> QED
    BY <2>1, <2>2
<1>6. TurnInv' /\ StepsAhead' = StepsAhead /\ Unfinished' = Unfinished
  BY <1>1 DEF TurnInv, NobodyIsForgotten, Current, SameTurn, NotYet, StepsAhead, TurnSteps,
              Awaited, Unfinished
<1> QED
  BY <1>4, <1>5, <1>6 DEF StepCounts, Ahead

(* What an attempt does is a move of it, and how it ends is an end.        *)
GoesOn(a) == \E b : SameTurn(a, b) /\ Left(b) < Left(a) /\ act' = (act \ {a}) \cup {b}

LEMMA WorkMoves ==
  ASSUME IInv, NEW a \in act,
         Replay(a) \/ Record(a) \/ Choose(a) \/ LookAround(a) \/ CommitPublication(a)
         \/ Refuse(a) \/ ReadRun(a) \/ RecordFailure(a)
  PROVE  /\ UNCHANGED wf /\ SameLengths
         /\ GoesOn(a)
<1>1. a \in Attempt
  BY DEF IInv, TypeOK
<1>2. UNCHANGED wf /\ SameLengths
  BY CommitVersions DEF SameLengths, Replay, Record, Choose, LookAround, CommitPublication,
                        Refuse, ReadRun, RecordFailure
<1> SUFFICES GoesOn(a)
  BY <1>2
<1>3. ASSUME NEW pc \in {"done", "refused", "reported"}, act' = Moved(a, pc),
             \/ a.pc = "begin"
             \/ a.pc = "seen" /\ pc = "done"
             \/ a.pc = "read" /\ pc = "reported"
      PROVE  GoesOn(a)
  <2> DEFINE b == [a EXCEPT !.pc = pc]
  <2>1. b.pc = pc /\ SameTurn(a, b)
    BY <1>1, MovedAttempt DEF SameTurn
  <2>2. act' = (act \ {a}) \cup {b}
    BY <1>3 DEF Moved
  <2> HIDE DEF b
  <2>3. Left(b) < Left(a)
    BY <1>3, <2>1 DEF Left
  <2> QED
    BY <2>1, <2>2, <2>3 DEF GoesOn
<1>4. CASE Replay(a) \/ Record(a)
  BY <1>3, <1>4 DEF Replay, Record, Begins
<1>5. CASE Refuse(a)
  BY <1>3, <1>5 DEF Refuse, Begins
<1>6. CASE CommitPublication(a)
  BY <1>3, <1>6 DEF CommitPublication
<1>7. CASE RecordFailure(a)
  BY <1>3, <1>7 DEF RecordFailure
<1>8. CASE Choose(a)
  <2>1. PICK i \in Newest(Of(a)) : act' = (act \ {a}) \cup {[a EXCEPT !.pc = "chosen", !.cand = i]}
    BY <1>8 DEF Choose
  <2> DEFINE b == [a EXCEPT !.pc = "chosen", !.cand = i]
  <2>2. b.pc = "chosen" /\ SameTurn(a, b) /\ a.pc = "begin"
    BY <1>1, <1>8 DEF Attempt, SameTurn, Choose, Begins
  <2>3. act' = (act \ {a}) \cup {b}
    BY <2>1
  <2> HIDE DEF b
  <2>4. Left(b) < Left(a)
    BY <2>2 DEF Left
  <2> QED
    BY <2>2, <2>3, <2>4 DEF GoesOn
<1>9. CASE LookAround(a)
  <2>1. PICK others : act' = (act \ {a}) \cup {[a EXCEPT !.pc = "seen", !.prev = others]}
    BY <1>9 DEF LookAround
  <2> DEFINE b == [a EXCEPT !.pc = "seen", !.prev = others]
  <2>2. b.pc = "seen" /\ SameTurn(a, b) /\ a.pc = "chosen"
    BY <1>1, <1>9 DEF Attempt, SameTurn, LookAround
  <2>3. act' = (act \ {a}) \cup {b}
    BY <2>1
  <2> HIDE DEF b
  <2>4. Left(b) < Left(a)
    BY <2>2 DEF Left
  <2> QED
    BY <2>2, <2>3, <2>4 DEF GoesOn
<1>10. CASE ReadRun(a)
  <2>1. PICK row : act' = (act \ {a}) \cup {[a EXCEPT !.pc = "read", !.snap = row]}
    BY <1>10 DEF ReadRun
  <2> DEFINE b == [a EXCEPT !.pc = "read", !.snap = row]
  <2>2. b.pc = "read" /\ SameTurn(a, b) /\ a.pc = "refused"
    BY <1>1, <1>10 DEF Attempt, SameTurn, ReadRun
  <2>3. act' = (act \ {a}) \cup {b}
    BY <2>1
  <2> HIDE DEF b
  <2>4. Left(b) < Left(a)
    BY <2>2 DEF Left
  <2> QED
    BY <2>2, <2>3, <2>4 DEF GoesOn
<1> QED
  BY <1>4, <1>5, <1>6, <1>7, <1>8, <1>9, <1>10

LEMMA ClosesRow ==
  ASSUME TypeOK, NEW e \in Executions, NEW state \in {"completed", "failed"},
         wf[e].state = "open", wf' = Closed(e, state)
  PROVE  OnlyRow(e) /\ Closes(wf'[e], wf[e])
BY DEF Closed, OnlyRow, Closes, TypeOK

Moves(w, at) == [w EXCEPT !.at = at, !.tries = 0, !.waits = FALSE]

LEMMA MovesRow ==
  ASSUME NEW w \in Execution, NEW at \in Phases
  PROVE  /\ Moves(w, at).state = w.state /\ Moves(w, at).at = at
         /\ Moves(w, at).tries = 0 /\ Moves(w, at).waits = FALSE
<1> DEFINE u1 == [w EXCEPT !.at = at]
           u2 == [u1 EXCEPT !.tries = 0]
           u3 == [u2 EXCEPT !.waits = FALSE]
<1>1. u1 \in Execution /\ u1.state = w.state /\ u1.at = at
  BY DEF Execution
<1>2. u3 = Moves(w, at)
  BY Zenon DEF Moves
<1> HIDE DEF u1
<1>3. u2 \in Execution /\ u2.state = w.state /\ u2.at = at /\ u2.tries = 0
  BY <1>1, BoundsAssumption DEF Execution
<1> HIDE DEF u2
<1>4. u3.state = w.state /\ u3.at = at /\ u3.tries = 0 /\ u3.waits = FALSE
  BY <1>3 DEF Execution
<1> QED
  BY <1>2, <1>4

LEMMA WorkEnds ==
  ASSUME IInv, NEW a \in act, Complete(a) \/ Fail(a) \/ Crash(a)
  PROVE  /\ act' = act \ {a} /\ UNCHANGED tax /\ OnlyRow(a.exec)
         /\ \/ ~Current(a) /\ wf'[a.exec] = wf[a.exec]
            \/ Closes(wf'[a.exec], wf[a.exec]) \/ StopsWaiting(wf'[a.exec], wf[a.exec])
<1>1. /\ a.exec \in Executions /\ wf[a.exec] \in Execution /\ act' = act \ {a} /\ UNCHANGED tax
      /\ wf \in [Executions -> Execution] /\ TypeOK
  BY DEF IInv, TypeOK, Attempt, Complete, Fail, Crash
<1>2. CASE ~Current(a)
  BY <1>1, <1>2 DEF Complete, Fail, Crash, OnlyRow
<1>3. CASE Current(a) /\ (Fail(a) \/ (Complete(a) /\ a.phase = Publish))
  <2>1. wf[a.exec].state = "open"
    BY <1>3 DEF Current
  <2>2. wf' = Closed(a.exec, "failed") \/ wf' = Closed(a.exec, "completed")
    BY <1>3 DEF Fail, Complete
  <2> QED
    BY <1>1, <2>1, <2>2, ClosesRow
<1>4. CASE Current(a) /\ Complete(a) /\ a.phase # Publish
  <2>0. wf[a.exec].state = "open" /\ wf[a.exec].at = a.phase /\ a.phase \in Phases
    BY <1>4 DEF Current, IInv, TypeOK, Attempt
  <2>1. wf[a.exec].at + 1 \in Phases
    BY <1>4, <2>0, PublishIsPhase DEF Phases
  <2>2. wf' = [wf EXCEPT ![a.exec].at = @ + 1, ![a.exec].tries = 0, ![a.exec].waits = FALSE]
    BY <1>4, Zenon DEF Complete
  <2> DEFINE w == Moves(wf[a.exec], wf[a.exec].at + 1)
  <2>3. wf' = [wf EXCEPT ![a.exec] = w]
    BY <1>1, <2>2 DEF Moves
  <2>4. w.state = wf[a.exec].state /\ w.at = wf[a.exec].at + 1 /\ w.tries = 0 /\ w.waits = FALSE
    BY <1>1, <2>1, MovesRow
  <2> HIDE DEF w
  <2>5. wf'[a.exec] = w /\ OnlyRow(a.exec)
    BY <1>1, <2>3 DEF OnlyRow
  <2> QED
    BY <1>1, <2>0, <2>4, <2>5 DEF StopsWaiting
<1>5. CASE Current(a) /\ Crash(a)
  BY <1>1, <1>5 DEF Crash, Current, OnlyRow, StopsWaiting, Execution
<1> QED
  BY <1>2, <1>3, <1>4, <1>5

LEMMA WorkCounts ==
  ASSUME IInv, TurnInv, NEW a \in act, Work(a) \/ Crash(a)
  PROVE  TurnInv' /\ StepCounts
<1>1. CASE Complete(a) \/ Fail(a) \/ Crash(a)
  BY <1>1, WorkEnds, EndCounts
<1>2. CASE ~(Complete(a) \/ Fail(a) \/ Crash(a))
  BY <1>2, WorkMoves, MoveCounts DEF Work, GoesOn
<1> QED
  BY <1>1, <1>2

LEMMA ApproveKeepsTurns ==
  ASSUME IInv, TurnInv, NEW e \in Executions, NEW reviewer \in Reviewers, Approve(e, reviewer)
  PROVE  TurnInv'
<1>1. UNCHANGED act /\ OnlyRow(e) /\ Alike(wf'[e], wf[e])
  BY DEF Approve, OnlyRow, Alike, IInv, TypeOK, Execution
<1> QED
  BY <1>1, RowKeepsTurns

LEMMA TemporalCounts ==
  ASSUME IInv, TurnInv, NEW e \in Executions, Start(e) \/ Exhaust(e)
  PROVE  TurnInv' /\ StepCounts
<1>1. CASE Start(e)
  <2>1. UNCHANGED << act, tax, lost >> /\ OnlyRow(e) /\ Opens(wf'[e], wf[e])
    BY <1>1 DEF Start, OnlyRow, Opens, IInv, TypeOK, Execution
  <2> QED
    BY <2>1, StateCounts
<1>2. CASE Exhaust(e)
  <2>1. UNCHANGED << act, tax, lost >> /\ OnlyRow(e) /\ Closes(wf'[e], wf[e])
    BY <1>2, ClosesRow DEF Exhaust, IInv
  <2> QED
    BY <2>1, StateCounts
<1> QED
  BY <1>1, <1>2

LEMMA TurnInit == Init => TurnInv
BY DEF Init, TurnInv, NobodyIsForgotten

Approval == \E e \in Executions, reviewer \in Reviewers : Approve(e, reviewer)

LEMMA TurnStep == IInv /\ TurnInv /\ [Next]_vars => TurnInv' /\ [Approval \/ StepCounts]_vars
<1> SUFFICES ASSUME IInv, TurnInv, [Next]_vars
             PROVE  TurnInv' /\ [Approval \/ StepCounts]_vars
  OBVIOUS
<1>1. ASSUME NEW e \in Executions,
             Start(e) \/ Schedule(e) \/ Exhaust(e) \/ \E reviewer \in Reviewers : Approve(e, reviewer)
      PROVE  TurnInv' /\ (Approval \/ StepCounts)
  BY <1>1, TemporalCounts, ScheduleCounts, ApproveKeepsTurns DEF Approval
<1>2. ASSUME NEW a \in act, Work(a) \/ Crash(a) \/ TimeOut(a)
      PROVE  TurnInv' /\ StepCounts
  BY <1>2, WorkCounts, TimeOutCounts
<1>3. ASSUME NEW r \in Runs, NEW i \in 1..MaxVersions[r], Revise(r, i)
      PROVE  TurnInv' /\ StepCounts
  BY <1>3, ReviseCounts
<1>4. CASE UNCHANGED vars
  BY <1>4 DEF vars, TurnInv, NobodyIsForgotten, Current, SameTurn, NotYet
<1> QED
  BY <1>1, <1>2, <1>3, <1>4 DEF Next, Over

LEMMA TurnsHold == Spec => []TurnInv
BY TurnInit, TurnStep, InductiveInvariant, PTL DEF Spec

(* An execution never waits for an attempt that is gone (workflow.py       *)
(* 35-116): as soon as one is lost or given up, the next one is due or the *)
(* execution is closed.                                                    *)
THEOREM NobodyIsWaitedForInVain == Spec => []NobodyIsForgotten
<1>1. TurnInv => NobodyIsForgotten
  BY DEF TurnInv
<1> QED
  BY <1>1, TurnsHold, PTL

(* Retries, time-outs, attempts that outlive them, restarted executions    *)
(* and failures that are recorded late do a bounded amount of work: every  *)
(* step but an approval uses up something of what each execution and each  *)
(* taxonomy has left, and nothing comes back.                              *)
THEOREM ExecutionsAreBounded == Spec => EveryStepCounts
<1>1. [Approval \/ StepCounts]_vars =>
        [\/ \E e \in Executions, reviewer \in Reviewers : Approve(e, reviewer)
         \/ /\ Ahead' # Ahead
            /\ StepsAhead' \subseteq StepsAhead
            /\ Unfinished' \subseteq Unfinished
            /\ Revisions' \subseteq Revisions]_vars
  BY DEF Approval, StepCounts
<1> QED
  BY <1>1, TurnStep, TurnsHold, InductiveInvariant, PTL DEF Spec, EveryStepCounts

-----------------------------------------------------------------------------
(* A run that reads succeeded has its whole ledger: only a publication     *)
(* makes it so, and a late failure writes status and ledger together.      *)
WholeInv == \A r \in Runs : run[r].status = "succeeded" => run[r].ledger = Phases

LEMMA WholeStep == IInv /\ WholeInv /\ [Next]_vars => WholeInv'
<1> SUFFICES ASSUME IInv, WholeInv, [Next]_vars PROVE WholeInv'
  OBVIOUS
<1>1. ASSUME NEW a \in act, NEW row, run' = [run EXCEPT ![Of(a)] = row],
             row.status = "succeeded" => row.ledger = Phases
      PROVE  WholeInv'
  BY <1>1 DEF WholeInv, IInv, TypeOK
<1>2. ASSUME NEW a \in act, Record(a) PROVE WholeInv'
  <2>1. run' = [run EXCEPT ![Of(a)] = Recorded(Of(a), a.phase)] /\ a.phase # Publish
    BY <1>2 DEF Record
  <2>2. Recorded(Of(a), a.phase).status # "succeeded"
    BY <2>1 DEF Recorded
  <2> QED
    BY <1>1, <2>1, <2>2
<1>3. ASSUME NEW a \in act, RecordFailure(a) PROVE WholeInv'
  <2>1. run' = [run EXCEPT ![Of(a)] = [a.snap EXCEPT !.status = "failed"]] /\ a.snap \in Row
    BY <1>3 DEF RecordFailure, IInv, TypeOK, Attempt
  <2>2. [a.snap EXCEPT !.status = "failed"].status # "succeeded"
    BY <2>1 DEF Row
  <2> QED
    BY <1>1, <2>1, <2>2
<1>4. ASSUME NEW a \in act, CommitPublication(a) PROVE WholeInv'
  <2>1. a \in Attempt /\ Of(a) \in Runs /\ run[Of(a)] \in Row
    BY ExecutionsAssumption DEF IInv, TypeOK, Attempt, Of
  <2>2. \A p \in Phases : p < Publish => p \in run[Of(a)].ledger
    BY <1>4 DEF IInv, Fine, InPublication, CommitPublication
  <2>3. \A p \in Phases : p = Publish \/ p < Publish
    BY PublishIsPhase DEF Phases
  <2>4. Recorded(Of(a), Publish).ledger = Phases
    BY <2>1, <2>2, <2>3, PublishIsPhase DEF Recorded, Row
  <2> QED
    BY <1>1, <1>4, <2>4 DEF CommitPublication
<1>5. CASE run' = run
  BY <1>5 DEF WholeInv
<1> QED
  BY <1>2, <1>3, <1>4, <1>5
     DEF Next, Work, vars, Start, Schedule, Exhaust, Approve, Replay, Choose, LookAround,
         Refuse, ReadRun, Complete, Fail, Crash, TimeOut, Revise, Over

(* A run that reads succeeded has all its phases and a version that is out *)
(* (activities.py 57-87, 360-372), with any number of late failures.       *)
THEOREM SucceededIsComplete == Spec => []SuccessIsWhole
<1>1. Init => WholeInv
  BY DEF Init, Fresh, WholeInv
<1>2. IInv /\ WholeInv => SuccessIsWhole
  BY PublishIsPhase DEF IInv, RecordedInv, WholeInv, SuccessIsWhole
<1> QED
  BY <1>1, <1>2, WholeStep, InductiveInvariant, PTL DEF Spec

-----------------------------------------------------------------------------
(* Whoever publishes has found no publication in the ledger, and as long   *)
(* as none was taken out of it there is none without a record of it.       *)
Single(r) ==
  \A i, j \in 1..Len(tax[r]) : tax[r][i].under # {} /\ tax[r][j].under # {} => i = j

OneInv ==
  /\ \A a \in act : InPublication(a) => Publish \notin run[Of(a)].ledger
  /\ \A r \in Runs : Publish \notin lost[r] => (Out(r) => Publish \in run[r].ledger) /\ Single(r)

LEMMA OthersKeepOne ==
  ASSUME OneInv, UNCHANGED << run, tax, lost >>, \A b \in act' : b \in act \/ ~InPublication(b)
  PROVE  OneInv'
BY DEF OneInv, Out, Single, InPublication, Of

(* Writing the row of a run on which no publication is at work. *)
LEMMA RowKeepsOne ==
  ASSUME IInv, OneInv, NEW a \in act, RunFree(Of(a)), tax' = tax,
         \A b \in act' : b \in act \/ ~InPublication(b),
         \A r \in Runs : r # Of(a) => run'[r] = run[r] /\ lost'[r] = lost[r],
         Publish \notin lost'[Of(a)] =>
           /\ Publish \notin lost[Of(a)]
           /\ Publish \in run[Of(a)].ledger => Publish \in run'[Of(a)].ledger
  PROVE  OneInv'
<1>1. \A b \in act' : InPublication(b) => Of(b) # Of(a) /\ b \in act /\ Of(b) \in Runs
  BY ExecutionsAssumption DEF RunFree, Of, IInv, TypeOK, Attempt
<1>2. \A b \in act' : InPublication(b) => Publish \notin run'[Of(b)].ledger
  BY <1>1 DEF OneInv
<1>3. \A r \in Runs : Publish \notin lost'[r] => (Out(r) => Publish \in run'[r].ledger) /\ Single(r)
  BY DEF OneInv
<1> QED
  BY <1>2, <1>3 DEF OneInv, Out, Single, InPublication, Of

LEMMA RecordKeepsOne ==
  ASSUME IInv, OneInv, NEW a \in act, Record(a)
  PROVE  OneInv'
<1>1. a \in Attempt /\ Of(a) \in Runs /\ run \in [Runs -> Row]
  BY ExecutionsAssumption DEF IInv, TypeOK, Attempt, Of
<1>2. act' = (act \ {a}) \cup {[a EXCEPT !.pc = "done"]} /\ RunFree(Of(a)) /\ UNCHANGED << tax, lost >>
  BY DEF Record, Moved, Begins
<1>3. [a EXCEPT !.pc = "done"].pc = "done"
  BY <1>1 DEF Attempt
<1>4. \A b \in act' : b \in act \/ ~InPublication(b)
  BY <1>2, <1>3 DEF InPublication
<1>5. /\ \A r \in Runs : r # Of(a) => run'[r] = run[r]
      /\ run[Of(a)].ledger \subseteq run'[Of(a)].ledger
  BY <1>1 DEF Record, Recorded
<1> QED
  BY <1>2, <1>4, <1>5, RowKeepsOne

LEMMA FailureKeepsOne ==
  ASSUME IInv, OneInv, NEW a \in act, RecordFailure(a)
  PROVE  OneInv'
<1> DEFINE row == [a.snap EXCEPT !.status = "failed"]
<1>1. a \in Attempt /\ Of(a) \in Runs /\ run \in [Runs -> Row] /\ lost \in [Runs -> SUBSET Phases]
  BY ExecutionsAssumption DEF IInv, TypeOK, Attempt, Of
<1>2. act' = (act \ {a}) \cup {[a EXCEPT !.pc = "reported"]} /\ RunFree(Of(a)) /\ tax' = tax
  BY DEF RecordFailure, Moved
<1>3. [a EXCEPT !.pc = "reported"].pc = "reported"
  BY <1>1 DEF Attempt
<1>4. \A b \in act' : b \in act \/ ~InPublication(b)
  BY <1>2, <1>3 DEF InPublication
<1>5. run' = [run EXCEPT ![Of(a)] = row] /\ row.ledger = a.snap.ledger
  BY <1>1 DEF RecordFailure, Attempt, Row
<1> HIDE DEF row
<1>6. /\ \A r \in Runs : r # Of(a) => run'[r] = run[r]
      /\ run'[Of(a)].ledger = a.snap.ledger
  BY <1>1, <1>5
<1>7. /\ \A r \in Runs : r # Of(a) => lost'[r] = lost[r]
      /\ lost'[Of(a)] = lost[Of(a)] \cup (run[Of(a)].ledger \ a.snap.ledger)
  BY <1>1 DEF RecordFailure
<1> QED
  BY <1>2, <1>4, <1>6, <1>7, RowKeepsOne

LEMMA ChooseKeepsOne ==
  ASSUME IInv, OneInv, NEW a \in act, Choose(a)
  PROVE  OneInv'
<1>0. PICK i \in Newest(Of(a)) : act' = (act \ {a}) \cup {[a EXCEPT !.pc = "chosen", !.cand = i]}
  BY DEF Choose
<1> DEFINE b == [a EXCEPT !.pc = "chosen", !.cand = i]
<1>1. b.exec = a.exec
  BY DEF IInv, TypeOK, Attempt
<1>2. Publish \notin run[Of(a)].ledger /\ UNCHANGED << run, tax, lost >>
  BY DEF Choose, Replayed
<1>3. act' = (act \ {a}) \cup {b}
  BY <1>0
<1> HIDE DEF b
<1>4. \A c \in act' : InPublication(c) => Publish \notin run[Of(c)].ledger
  BY <1>1, <1>2, <1>3 DEF OneInv, Of
<1> QED
  BY <1>2, <1>4 DEF OneInv, Out, Single, InPublication, Of

LEMMA LookAroundKeepsOne ==
  ASSUME IInv, OneInv, NEW a \in act, LookAround(a)
  PROVE  OneInv'
<1>1. PICK others : act' = (act \ {a}) \cup {[a EXCEPT !.pc = "seen", !.prev = others]}
  BY DEF LookAround
<1> DEFINE b == [a EXCEPT !.pc = "seen", !.prev = others]
<1>2. b.exec = a.exec
  BY DEF IInv, TypeOK, Attempt
<1>3. InPublication(a) /\ UNCHANGED << run, tax, lost >>
  BY DEF LookAround, InPublication
<1>4. act' = (act \ {a}) \cup {b}
  BY <1>1
<1> HIDE DEF b
<1>5. \A c \in act' : InPublication(c) => Publish \notin run[Of(c)].ledger
  BY <1>2, <1>3, <1>4 DEF OneInv, Of
<1> QED
  BY <1>3, <1>5 DEF OneInv, Out, Single, InPublication, Of

LEMMA CommitKeepsOne ==
  ASSUME IInv, LocksInv, OneInv, NEW a \in act, CommitPublication(a)
  PROVE  OneInv'
<1> DEFINE b == [a EXCEPT !.pc = "done"]
           row == Recorded(Of(a), Publish)
<1>1. /\ a \in Attempt /\ Of(a) \in Runs /\ InPublication(a) /\ run \in [Runs -> Row]
      /\ a.cand \in 1..Len(tax[Of(a)])
  BY ExecutionsAssumption DEF IInv, TypeOK, Attempt, CommitPublication, Fine, InPublication, Of
<1>2. b.pc = "done" /\ b.exec = a.exec
  BY <1>1 DEF Attempt
<1>3. act' = (act \ {a}) \cup {b} /\ ~InPublication(b) /\ lost' = lost
  BY <1>2 DEF CommitPublication, Moved, InPublication
<1>4. run' = [run EXCEPT ![Of(a)] = row] /\ row.ledger = run[Of(a)].ledger \cup {Publish}
  BY DEF CommitPublication, Recorded
<1> HIDE DEF row, b
<1>5. /\ \A r \in Runs : r # Of(a) => run'[r] = run[r]
      /\ run'[Of(a)].ledger = run[Of(a)].ledger \cup {Publish}
  BY <1>1, <1>4
<1>6. \A c \in act' : InPublication(c) => c \in act /\ Of(c) # Of(a) /\ Of(c) \in Runs
  BY <1>1, <1>3, ExecutionsAssumption DEF LocksInv, IInv, TypeOK, Attempt, Of
<1>7. \A c \in act' : InPublication(c) => Publish \notin run'[Of(c)].ledger
  BY <1>5, <1>6 DEF OneInv
<1>8. /\ \A r \in Runs : Len(tax'[r]) = Len(tax[r])
      /\ \A r \in Runs : \A i \in 1..Len(tax[r]) :
           << r, i >> # << Of(a), a.cand >> => tax'[r][i].under = tax[r][i].under
  <2>1. /\ \A r \in Runs : Len(tax'[r]) = Len(tax[r])
        /\ \A r \in Runs : \A i \in 1..Len(tax[r]) :
             tax'[r][i] = IF << r, i >> = << Of(a), a.cand >> THEN Released(tax[r][i], a)
                          ELSE IF << r, i >> \in a.prev THEN Superseded(tax[r][i])
                          ELSE tax[r][i]
    BY CommitVersions
  <2>2. ASSUME NEW r \in Runs, NEW i \in 1..Len(tax[r])
        PROVE  tax[r][i] \in Version
    BY DEF IInv, TypeOK
  <2>3. \A r \in Runs : \A i \in 1..Len(tax[r]) : Superseded(tax[r][i]).under = tax[r][i].under
    BY <2>2 DEF Superseded, Version
  <2> QED
    BY <2>1, <2>3
<1>9. ASSUME NEW r \in Runs, Publish \notin lost[r]
      PROVE  /\ (\E i \in 1..Len(tax'[r]) : tax'[r][i].under # {}) => Publish \in run'[r].ledger
             /\ \A i, j \in 1..Len(tax'[r]) :
                  tax'[r][i].under # {} /\ tax'[r][j].under # {} => i = j
  <2>1. CASE r = Of(a)
    <3>1. \A i \in 1..Len(tax[r]) : tax[r][i].under = {}
      BY <1>1, <1>9, <2>1 DEF OneInv, Out
    <3>2. \A i \in 1..Len(tax'[r]) : tax'[r][i].under # {} => i = a.cand
      BY <1>8, <2>1, <3>1
    <3> QED
      BY <1>5, <2>1, <3>2
  <2>2. CASE r # Of(a)
    <3>1. \A i \in 1..Len(tax[r]) : tax'[r][i].under = tax[r][i].under
      BY <1>8, <2>2
    <3>2. (Out(r) => Publish \in run[r].ledger) /\ Single(r)
      BY <1>9 DEF OneInv
    <3> QED
      BY <1>5, <1>8, <2>2, <3>1, <3>2 DEF Out, Single
  <2> QED
    BY <2>1, <2>2
<1> QED
  BY <1>3, <1>7, <1>9 DEF OneInv, Out, Single, InPublication, Of

LEMMA ReviseKeepsOne ==
  ASSUME IInv, OneInv, NEW r \in Runs, NEW i \in Nat, Revise(r, i)
  PROVE  OneInv'
<1>1. tax' = [tax EXCEPT ![r] = Append(tax[r], Draft)] /\ UNCHANGED << run, act, lost >>
  BY DEF Revise
<1>2. tax \in [Runs -> Seq(Version)] /\ Draft \in Version /\ Draft.under = {}
  BY DEF IInv, TypeOK, Draft, Version
<1>3. \A s \in Runs : \A j \in 1..Len(tax'[s]) : tax'[s][j].under # {} =>
        j \in 1..Len(tax[s]) /\ tax[s][j].under # {}
  <2> SUFFICES ASSUME NEW s \in Runs, NEW j \in 1..Len(tax'[s]), tax'[s][j].under # {}
               PROVE  j \in 1..Len(tax[s]) /\ tax[s][j].under # {}
    OBVIOUS
  <2>1. CASE s = r
    <3>1. tax'[s] = Append(tax[r], Draft) /\ tax[r] \in Seq(Version)
      BY <1>1, <1>2, <2>1
    <3> QED
      BY <1>2, <2>1, <3>1
  <2>2. CASE s # r
    BY <1>1, <1>2, <2>2
  <2> QED
    BY <2>1, <2>2
<1>4. ASSUME NEW s \in Runs, Publish \notin lost[s]
      PROVE  /\ (\E j \in 1..Len(tax'[s]) : tax'[s][j].under # {}) => Publish \in run[s].ledger
             /\ \A j, k \in 1..Len(tax'[s]) :
                  tax'[s][j].under # {} /\ tax'[s][k].under # {} => j = k
  BY <1>3, <1>4 DEF OneInv, Out, Single
<1> QED
  BY <1>1, <1>4 DEF OneInv, Out, Single, InPublication, Of

LEMMA OneStep == IInv /\ LocksInv /\ OneInv /\ [Next]_vars => OneInv'
<1> SUFFICES ASSUME IInv, LocksInv, OneInv, [Next]_vars PROVE OneInv'
  OBVIOUS
<1>1. ASSUME NEW a \in act, Work(a) PROVE OneInv'
  <2>1. CASE Replay(a) \/ Refuse(a)
    <3>1. PICK pc \in {"done", "refused"} :
            act' = (act \ {a}) \cup {[a EXCEPT !.pc = pc]} /\ UNCHANGED << run, tax, lost >>
      BY <2>1 DEF Replay, Refuse, Moved
    <3>2. [a EXCEPT !.pc = pc].pc = pc
      BY DEF IInv, TypeOK, Attempt
    <3> QED
      BY <3>1, <3>2, OthersKeepOne DEF InPublication
  <2>2. CASE ReadRun(a)
    <3>1. PICK row : act' = (act \ {a}) \cup {[a EXCEPT !.pc = "read", !.snap = row]}
                     /\ UNCHANGED << run, tax, lost >>
      BY <2>2 DEF ReadRun
    <3>2. [a EXCEPT !.pc = "read", !.snap = row].pc = "read"
      BY DEF IInv, TypeOK, Attempt
    <3> QED
      BY <3>1, <3>2, OthersKeepOne DEF InPublication
  <2>3. CASE Complete(a) \/ Fail(a)
    BY <2>3, OthersKeepOne DEF Complete, Fail
  <2> QED
    BY <1>1, <2>1, <2>2, <2>3, RecordKeepsOne, FailureKeepsOne, ChooseKeepsOne,
       LookAroundKeepsOne, CommitKeepsOne DEF Work
<1>2. ASSUME NEW a \in act, Crash(a) \/ TimeOut(a) PROVE OneInv'
  BY <1>2, OthersKeepOne DEF Crash, TimeOut
<1>3. ASSUME NEW e \in Executions,
             Start(e) \/ Schedule(e) \/ Exhaust(e) \/ \E reviewer \in Reviewers : Approve(e, reviewer)
      PROVE  OneInv'
  <2>1. CASE Schedule(e)
    <3>1. PICK reviewer : act' = act \cup {[exec |-> e, phase |-> wf[e].at, n |-> wf[e].tries + 1,
                                            reviewer |-> reviewer, pc |-> "begin",
                                            snap |-> Fresh, cand |-> 0, prev |-> {}]}
                         /\ UNCHANGED << run, tax, lost >>
      BY <2>1 DEF Schedule
    <3> QED
      BY <3>1, OthersKeepOne DEF InPublication
  <2> QED
    BY <1>3, <2>1, OthersKeepOne DEF Start, Exhaust, Approve
<1>4. ASSUME NEW r \in Runs, NEW i \in 1..MaxVersions[r], Revise(r, i) PROVE OneInv'
  <2>1. i \in Nat
    BY BoundsAssumption
  <2> QED
    BY <1>4, <2>1, ReviseKeepsOne
<1>5. CASE UNCHANGED vars
  BY <1>5, OthersKeepOne DEF vars
<1> QED
  BY <1>1, <1>2, <1>3, <1>4, <1>5 DEF Next, Over

LEMMA LocksHold == Spec => []LocksInv
<1>1. Init => LocksInv
  BY DEF Init, LocksInv
<1> QED
  BY <1>1, LocksStep, InductiveInvariant, PTL DEF Spec

(* However many executions of a run are open at a time and however late    *)
(* their attempts end, the run publishes one version, unless a late        *)
(* failure took the publication out of its ledger (activities.py 74-87,    *)
(* 275-323, 349-354).                                                      *)
THEOREM RunPublishesOnce == Spec => []OnePublication
<1>1. Init => OneInv
  <2> SUFFICES ASSUME Init PROVE OneInv
    OBVIOUS
  <2>1. \A r \in Runs : \A i \in 1..Len(tax[r]) : tax[r][i] = Draft
    BY DEF Init
  <2>2. \A r \in Runs : \A i \in 1..Len(tax[r]) : tax[r][i].under = {}
    BY <2>1 DEF Draft
  <2> QED
    BY <2>2 DEF Init, OneInv, Out, Single
<1>2. OneInv => OnePublication
  BY DEF OneInv, Single, OnePublication
<1> QED
  BY <1>1, <1>2, OneStep, LocksHold, InductiveInvariant, PTL DEF Spec
=============================================================================
