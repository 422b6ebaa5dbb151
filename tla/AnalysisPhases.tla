--------------------------- MODULE AnalysisPhases ---------------------------
(***************************************************************************)
(* The durable, cache-only analysis workflow: AnalysisWorkflow of          *)
(* modules/analysis/workflow.py and the activity of                        *)
(* modules/analysis/activities.py that verifies a phase against the        *)
(* database and records it in the run row.  A phase is its position in     *)
(* PHASE_ORDER.  A step ends where others can see a difference: at a       *)
(* commit, at a statement that waits for a row lock, at a report to        *)
(* Temporal.                                                               *)
(*                                                                         *)
(* The taxonomy versions of a run are a sequence in the order of           *)
(* created_at.  They only change by publication and by the revisions of    *)
(* modules/review/service.py, which copy every membership into a new draft.*)
(* All runs are of one product scope.                                      *)
(***************************************************************************)
EXTENDS Naturals, Sequences, FiniteSets

CONSTANTS
  AUTOMATED_PHASES,  \* the code has the seven that Demands names
  Runs,         \* analysis runs, all of one product scope
  Executions,   \* workflow executions somebody may start
  RunOf,        \* the run_id an execution was started with
  Right,        \* the executions started with the dataset_hash of their run
  Reviewers,
  NoOne,        \* a reviewer_id that is missing or blank
  Inputs,       \* the sets of facts the database may hold about a run
  MaxAttempts,  \* maximum_attempts of the retry policies
  MaxVersions,  \* bound on the versions of each run's taxonomy
  MaxLate       \* bound on the attempts that outlive their time-out at a time

ASSUME ExecutionsAssumption ==
  RunOf \in [Executions -> Runs] /\ Right \subseteq Executions
ASSUME ReviewersAssumption == NoOne \notin Reviewers
ASSUME BoundsAssumption ==
  MaxAttempts \in Nat \ {0} /\ MaxVersions \in [Runs -> Nat \ {0}] /\ MaxLate \in Nat

PHASE_ORDER == Append(AUTOMATED_PHASES, "publish")

Publish == Len(AUTOMATED_PHASES) + 1
Phases == 1..Publish

(***************************************************************************)
(* What _phase_facts demands of the database, as the names of facts that   *)
(* hold of the run: it has signals; all voices are clean or masked; no     *)
(* evidence is blank; the embeddings are complete or, for a legacy import, *)
(* not required; a taxonomy covers all signals; there are opportunities    *)
(* with evidence; all that evidence is of its signal's voice.              *)
(***************************************************************************)
Facts == {"signals", "privacy", "evidence", "embeddings", "coverage", "opportunities", "matching"}

ASSUME InputsAssumption == Inputs \subseteq SUBSET Facts

Demands ==
  [ validate            |-> {},
    privacy_gate        |-> {"signals", "privacy"},
    extract             |-> {"signals", "evidence"},
    embed               |-> {"signals", "embeddings"},
    cluster             |-> {"signals", "coverage"},
    draft_opportunities |-> {"signals", "opportunities"},
    quality_gate        |-> {"signals", "privacy", "evidence", "coverage", "opportunities", "matching"},
    publish             |-> {"signals"} ]

ASSUME PhasesAssumption == AUTOMATED_PHASES \in Seq(DOMAIN Demands \ {"publish"})

Needs(p) == Demands[PHASE_ORDER[p]]

VARIABLES
  facts,  \* what the database holds about a run; fixed once the run is written
  run,    \* the run row: the status and the phase_results of stage_status
  tax,    \* the taxonomy versions of a run, oldest first
  wf,     \* the executions, as Temporal's event history has them
  act,    \* the activity attempts that are alive, given up by Temporal or not
  lost    \* history: the phases of a run that a late failure took out of its ledger

vars == << facts, run, tax, wf, act, lost >>

Version == [status : {"draft", "published", "superseded"},
            by     : Reviewers \cup {NoOne},         \* published_by
            under  : SUBSET Executions]  \* history: the executions that published it

Row == [status : {"pending_review", "running", "failed", "succeeded"}, ledger : SUBSET Phases]

Execution == [state    : {"idle", "open", "completed", "failed"},
              at       : Phases,               \* the phase it is in or waits for
              tries    : 0..MaxAttempts,       \* attempts at that phase
              waits    : BOOLEAN,              \* an attempt is out
              approved : Reviewers \cup {NoOne},  \* approved_by
              reviewer : Reviewers \cup {NoOne},  \* input of the publish activity
              heard    : SUBSET Reviewers]     \* the approval signals it received

Attempt == [exec     : Executions,
            phase    : Phases,
            n        : 1..MaxAttempts,
            reviewer : Reviewers \cup {NoOne},
            pc       : {"begin", "chosen", "seen", "done", "refused", "read", "reported"},
            snap     : Row,              \* the row record_run_failure has read
            cand     : Nat,              \* the version it is about to publish
            prev     : SUBSET (Runs \X Nat)]  \* the releases it saw

Of(a) == RunOf[a.exec]

(* The transaction of a publication keeps the row of the run and the row   *)
(* of its version locked until it ends.                                    *)
InPublication(a) == a.pc \in {"chosen", "seen"}
RunLeaked(r) ==                \* mutant: a failure is recorded before the rollback
  \A b \in act : b.pc # "begin" => Of(b) # r
RunFree(r) == \A b \in act : InPublication(b) => Of(b) # r
VersionFree(r, i, but) == \A b \in act \ but : InPublication(b) => << r, i >> # << Of(b), b.cand >>

(* Temporal still waits for this attempt. *)
Current(a) ==
  LET w == wf[a.exec]
  IN  w.state = "open" /\ w.waits /\ w.at = a.phase /\ w.tries = a.n

Moved(a, pc) == (act \ {a}) \cup {[a EXCEPT !.pc = pc]}

-----------------------------------------------------------------------------
Draft == [status |-> "draft", by |-> NoOne, under |-> {}]

Fresh == [status |-> "pending_review", ledger |-> {}]

Init ==
  /\ facts \in [Runs -> Inputs]
  /\ run = [r \in Runs |-> Fresh]
  /\ tax = [r \in Runs |-> IF "signals" \in facts[r] THEN << Draft >> ELSE << >>]
  /\ wf = [e \in Executions |->
             [state |-> "idle", at |-> 1, tries |-> 0, waits |-> FALSE,
              approved |-> NoOne, reviewer |-> NoOne, heard |-> {}]]
  /\ act = {}
  /\ lost = [r \in Runs |-> {}]

(* Somebody starts a workflow for a run.  Nothing under src/ does, and     *)
(* nothing there keeps a second execution of a run from being open.        *)
Start(e) ==
  /\ wf[e].state = "idle"
  /\ wf' = [wf EXCEPT ![e].state = "open"]
  /\ UNCHANGED << facts, run, tax, act, lost >>

(* approve_taxonomy: a signal is accepted at any time, and the last one    *)
(* that names a reviewer counts.                                           *)
Approve(e, reviewer) ==
  /\ wf[e].state = "open"
  /\ reviewer # NoOne
  /\ wf' = [wf EXCEPT ![e].approved = reviewer, ![e].heard = @ \cup {reviewer}]
  /\ UNCHANGED << facts, run, tax, act, lost >>

ScheduleBeyond(e) ==             \* mutant: one attempt too many
  LET w == wf[e]
  IN  /\ w.state = "open" /\ ~w.waits /\ w.tries <= MaxAttempts
      /\ w.at = Publish => w.approved # NoOne
      /\ wf' = [wf EXCEPT ![e].waits = TRUE, ![e].tries = @ + 1, ![e].reviewer = w.approved]
      /\ act' = act \cup {[exec |-> e, phase |-> w.at, n |-> w.tries + 1, reviewer |-> w.approved,
                           pc |-> "begin", snap |-> Fresh, cand |-> 0, prev |-> {}]}
      /\ UNCHANGED << facts, run, tax, lost >>

(* execute_activity, and its retries.  The publish activity waits for an   *)
(* approval; all its attempts carry the reviewer of the first.             *)
Schedule(e) ==
  LET w == wf[e]
      reviewer == IF w.at # Publish THEN NoOne
                  ELSE IF w.tries = 0 THEN w.approved ELSE w.reviewer
  IN  /\ w.state = "open" /\ ~w.waits /\ w.tries < MaxAttempts
      /\ w.at = Publish => w.approved # NoOne
      /\ wf' = [wf EXCEPT ![e].waits = TRUE, ![e].tries = @ + 1, ![e].reviewer = reviewer]
      /\ act' = act \cup {[exec |-> e, phase |-> w.at, n |-> w.tries + 1, reviewer |-> reviewer,
                           pc |-> "begin", snap |-> Fresh, cand |-> 0, prev |-> {}]}
      /\ UNCHANGED << facts, run, tax, lost >>

(* Temporal forgets nothing of a closed execution, but only its outcome    *)
(* and its signals are of interest here.                                   *)
Closed(e, state) ==
  [wf EXCEPT ![e] = [state |-> state, at |-> 1, tries |-> 0, waits |-> FALSE,
                     approved |-> NoOne, reviewer |-> NoOne, heard |-> wf[e].heard]]

(* The last attempt was lost: ActivityError ends the execution. *)
Exhaust(e) ==
  /\ wf[e].state = "open" /\ ~wf[e].waits /\ wf[e].tries = MaxAttempts
  /\ wf' = Closed(e, "failed")
  /\ UNCHANGED << facts, run, tax, act, lost >>

-----------------------------------------------------------------------------
(* verify_and_record_analysis_phase.  The run row is locked first, so the  *)
(* checks and the commit of an automated phase are one step for everybody  *)
(* else.                                                                   *)

NeverReplayed(a) == FALSE      \* mutant: the ledger is written, never read
Replayed(a) == a.phase \in run[Of(a)].ledger
InOrder(a) == a.phase > 1 => a.phase - 1 \in run[Of(a)].ledger

Publishable(r) == {i \in 1..Len(tax[r]) : tax[r][i].status \in {"draft", "published"}}
Newest(r) == {i \in Publishable(r) : \A j \in Publishable(r) : j <= i}

SignalsHold(a) ==              \* mutant: every phase looks for signals only
  "signals" \in facts[Of(a)] /\ (a.phase = Publish => Publishable(Of(a)) # {})
FactsHold(a) ==
  /\ Needs(a.phase) \subseteq facts[Of(a)]
  /\ a.phase = Publish => a.reviewer # NoOne /\ Publishable(Of(a)) # {}

Verified(a) == a.exec \in Right /\ (Replayed(a) \/ (InOrder(a) /\ FactsHold(a)))

Begins(a) == a \in act /\ a.pc = "begin" /\ RunFree(Of(a))

(* A phase that is in the ledger is answered from it, whatever the row's   *)
(* status is by now.                                                       *)
Replay(a) ==
  /\ Begins(a) /\ Verified(a) /\ Replayed(a)
  /\ act' = Moved(a, "done")
  /\ UNCHANGED << facts, run, tax, wf, lost >>

Recorded(r, p) ==
  [status |-> IF p = Publish THEN "succeeded" ELSE "running", ledger |-> run[r].ledger \cup {p}]

Record(a) ==
  /\ Begins(a) /\ Verified(a) /\ ~Replayed(a) /\ a.phase # Publish
  /\ run' = [run EXCEPT ![Of(a)] = Recorded(Of(a), a.phase)]
  /\ act' = Moved(a, "done")
  /\ UNCHANGED << facts, tax, wf, lost >>

ChooseRecorded(a) ==           \* mutant: the ledger is committed before the publication
  /\ Begins(a) /\ Verified(a) /\ ~Replayed(a) /\ a.phase = Publish
  /\ run' = [run EXCEPT ![Of(a)] = Recorded(Of(a), Publish)]
  /\ \E i \in Newest(Of(a)) :
       act' = (act \ {a}) \cup {[a EXCEPT !.pc = "chosen", !.cand = i]}
  /\ UNCHANGED << facts, tax, wf, lost >>

(* The publish phase: the newest version that is a draft or published is   *)
(* locked.                                                                 *)
Choose(a) ==
  /\ Begins(a) /\ Verified(a) /\ ~Replayed(a) /\ a.phase = Publish
  /\ \E i \in Newest(Of(a)) :
       act' = (act \ {a}) \cup {[a EXCEPT !.pc = "chosen", !.cand = i]}
  /\ UNCHANGED << facts, run, tax, wf, lost >>

(* The other releases of the scope, as the statement that locks them sees  *)
(* them when it starts.  It is not issued for a version that is published. *)
Releases(r, i) ==
  {v \in UNION {{s} \X (1..Len(tax[s])) : s \in Runs} :
     v # << r, i >> /\ tax[v[1]][v[2]].status = "published"}

RetireEarly(a) ==              \* mutant: the old releases are retired in a transaction of their own
  /\ a \in act /\ a.pc = "chosen"
  /\ tax' = [r \in Runs |-> [i \in 1..Len(tax[r]) |->
               IF << r, i >> \in Releases(Of(a), a.cand)
               THEN [tax[r][i] EXCEPT !.status = "superseded"] ELSE tax[r][i]]]
  /\ act' = Moved(a, "seen")
  /\ UNCHANGED << facts, run, wf, lost >>
LookAround(a) ==
  /\ a \in act /\ a.pc = "chosen"
  /\ LET others == IF tax[Of(a)][a.cand].status = "published" THEN {} ELSE Releases(Of(a), a.cand)
     IN  act' = (act \ {a}) \cup {[a EXCEPT !.pc = "seen", !.prev = others]}
  /\ UNCHANGED << facts, run, tax, wf, lost >>

Superseded(v) == IF v.status = "published" THEN [v EXCEPT !.status = "superseded"] ELSE v
Released(v, a) ==
  IF v.status = "published" THEN v
  ELSE [status |-> "published", by |-> a.reviewer, under |-> {a.exec}]

(* The rows it saw are locked and looked at again, one that another        *)
(* transaction superseded drops out; then everything is committed.         *)
CommitPublication(a) ==
  /\ a \in act /\ a.pc = "seen"
  /\ \A v \in a.prev : VersionFree(v[1], v[2], {a})
  /\ tax' = [r \in Runs |-> [i \in 1..Len(tax[r]) |->
               IF << r, i >> = << Of(a), a.cand >> THEN Released(tax[r][i], a)
               ELSE IF << r, i >> \in a.prev THEN Superseded(tax[r][i])
               ELSE tax[r][i]]]
  /\ run' = [run EXCEPT ![Of(a)] = Recorded(Of(a), Publish)]
  /\ act' = Moved(a, "done")
  /\ UNCHANGED << facts, wf, lost >>

(* PhaseVerificationError: the transaction is rolled back. *)
Refuse(a) ==
  /\ Begins(a) /\ ~Verified(a)
  /\ act' = Moved(a, "refused")
  /\ UNCHANGED << facts, run, tax, wf, lost >>

(* record_run_failure reads the row without a lock in a new transaction    *)
(* and writes back the whole of stage_status.                              *)
ReadRun(a) ==
  /\ a \in act /\ a.pc = "refused"
  /\ act' = (act \ {a}) \cup {[a EXCEPT !.pc = "read", !.snap = run[Of(a)]]}
  /\ UNCHANGED << facts, run, tax, wf, lost >>

RecordFailureQuietly(a) ==     \* mutant: the status of another execution is left standing
  /\ a \in act /\ a.pc = "read" /\ RunFree(Of(a))
  /\ run' = [run EXCEPT ![Of(a)].ledger = a.snap.ledger]
  /\ lost' = [lost EXCEPT ![Of(a)] = @ \cup (run[Of(a)].ledger \ a.snap.ledger)]
  /\ act' = Moved(a, "reported")
  /\ UNCHANGED << facts, tax, wf >>
RecordFailure(a) ==
  /\ a \in act /\ a.pc = "read" /\ RunFree(Of(a))
  /\ run' = [run EXCEPT ![Of(a)] = [a.snap EXCEPT !.status = "failed"]]
  /\ lost' = [lost EXCEPT ![Of(a)] = @ \cup (run[Of(a)].ledger \ a.snap.ledger)]
  /\ act' = Moved(a, "reported")
  /\ UNCHANGED << facts, tax, wf >>

-----------------------------------------------------------------------------
(* What Temporal makes of an attempt.  Nobody listens to one that was      *)
(* given up.                                                               *)

Complete(a) ==
  /\ a \in act /\ a.pc = "done"
  /\ act' = act \ {a}
  /\ wf' = IF ~Current(a) THEN wf
           ELSE IF a.phase = Publish
           THEN Closed(a.exec, "completed")
           ELSE [wf EXCEPT ![a.exec].at = @ + 1, ![a.exec].tries = 0, ![a.exec].waits = FALSE]
  /\ UNCHANGED << facts, run, tax, lost >>

(* The ApplicationError is not retryable. *)
Fail(a) ==
  /\ a \in act /\ a.pc = "reported"
  /\ act' = act \ {a}
  /\ wf' = IF Current(a)
           THEN Closed(a.exec, "failed") ELSE wf
  /\ UNCHANGED << facts, run, tax, lost >>

(* The worker dies or any other error is raised; an open transaction is    *)
(* rolled back.  After the commit only the report is lost.                 *)
Crash(a) ==
  /\ a \in act
  /\ act' = act \ {a}
  /\ wf' = IF Current(a) THEN [wf EXCEPT ![a.exec].waits = FALSE] ELSE wf
  /\ UNCHANGED << facts, run, tax, lost >>

(* start_to_close_timeout passes while the attempt goes on; nothing        *)
(* heartbeats, so the attempt never learns of it.                          *)
TimeOut(a) ==
  /\ a \in act /\ Current(a)
  /\ Cardinality({b \in act : ~Current(b)}) < MaxLate
  /\ wf' = [wf EXCEPT ![a.exec].waits = FALSE]
  /\ UNCHANGED << facts, run, tax, act, lost >>

(* apply_taxonomy_revision and apply_taxonomy_edit lock their source and   *)
(* leave it as it is.                                                      *)
Revise(r, i) ==
  /\ i \in 1..Len(tax[r]) /\ Len(tax[r]) < MaxVersions[r]
  /\ VersionFree(r, i, {})
  /\ tax' = [tax EXCEPT ![r] = Append(@, Draft)]
  /\ UNCHANGED << facts, run, wf, act, lost >>

Over ==
  /\ \A e \in Executions : wf[e].state \in {"completed", "failed"}
  /\ act = {}
  /\ UNCHANGED vars

Work(a) ==
  \/ Replay(a) \/ Record(a) \/ Choose(a) \/ LookAround(a) \/ CommitPublication(a)
  \/ Refuse(a) \/ ReadRun(a) \/ RecordFailure(a)
  \/ Complete(a) \/ Fail(a)

Next ==
  \/ \E e \in Executions :
       Start(e) \/ Schedule(e) \/ Exhaust(e) \/ \E reviewer \in Reviewers : Approve(e, reviewer)
  \/ \E a \in act : Work(a) \/ Crash(a) \/ TimeOut(a)
  \/ \E r \in Runs : \E i \in 1..MaxVersions[r] : Revise(r, i)
  \/ Over

Spec == Init /\ [][Next]_vars

(* Temporal schedules, and an attempt that is alive goes on: every lock it *)
(* waits for is held by another one.  Nobody has to approve.               *)
Fairness ==
  /\ \A e \in Executions : WF_vars(Schedule(e)) /\ WF_vars(Exhaust(e))
  /\ WF_vars(\E a \in act : Work(a))

FairSpec == Spec /\ Fairness

-----------------------------------------------------------------------------
(* The variables have their types. *)
TypeOK ==
  /\ facts \in [Runs -> SUBSET Facts]
  /\ run \in [Runs -> Row]
  /\ tax \in [Runs -> Seq(Version)]
  /\ wf \in [Executions -> Execution]
  /\ act \subseteq Attempt
  /\ lost \in [Runs -> SUBSET Phases]

(* A phase is in the ledger only behind all earlier ones and with what it  *)
(* demands of the data, also when a failure writes an old ledger back.     *)
Ordered(r, ledger) ==
  \A p \in ledger : Needs(p) \subseteq facts[r] /\ \A q \in Phases : q < p => q \in ledger
LedgerInOrder == \A r \in Runs : Ordered(r, run[r].ledger)

(* Whatever was published, was published by an execution of its own run,   *)
(* in the name of somebody who approved in that execution, and with data   *)
(* that passes every gate.                                                 *)
PublicationIsEarned ==
  \A r \in Runs : \A i \in 1..Len(tax[r]) : \A e \in tax[r][i].under :
    /\ RunOf[e] = r
    /\ tax[r][i].by \in wf[e].heard
    /\ \A p \in Phases : Needs(p) \subseteq facts[r]

(* A run publishes one version, under its one idempotency key, however     *)
(* often its executions crash, outlive a time-out, are retried or          *)
(* restarted, and whatever is revised in between: unless a failure that    *)
(* was written back late has taken the publication out of the ledger.      *)
OnePublication ==
  \A r \in Runs : Publish \notin lost[r] =>
    \A i, j \in 1..Len(tax[r]) : tax[r][i].under # {} /\ tax[r][j].under # {} => i = j

(* A workflow that reports success has published a version of its run's    *)
(* taxonomy, or an earlier execution had: a replayed phase is not taken    *)
(* for a new one, and a lost report not for a lost publication.            *)
Out(r) == \E i \in 1..Len(tax[r]) : tax[r][i].under # {}
CompletedIsPublished == \A e \in Executions : wf[e].state = "completed" => Out(RunOf[e])

(* A run that reads succeeded has every phase in its ledger and a version  *)
(* that is out, whichever old row a late failure writes over it.           *)
SuccessIsWhole ==
  \A r \in Runs : run[r].status = "succeeded" => run[r].ledger = Phases /\ Out(r)

(* Replacing a release never leaves the scope without one, also when two   *)
(* runs publish at the same time.                                          *)
Live == {v \in UNION {{tax[r][i] : i \in 1..Len(tax[r])} : r \in Runs} : v.status = "published"}
ScopeKeepsRelease == [][Live # {} => Live' # {}]_vars

(* What ExecutionCloses rests on: only a publication holds locks, and one  *)
(* that waits for the release of another waits for one that waits for      *)
(* nobody, since it holds a release only if it has nothing to replace.     *)
WaitsFor(a) ==
  {b \in act \ {a} :
     /\ InPublication(b)
     /\ \/ a.pc \in {"begin", "read"} /\ Of(b) = Of(a)
        \/ a.pc = "seen" /\ << Of(b), b.cand >> \in a.prev}
NoCircleOfLocks ==
  \A a, b \in act : InPublication(a) /\ b \in WaitsFor(a) => WaitsFor(b) = {}

(* It rests on this, too: Temporal counts only on an attempt that is alive, *)
(* and otherwise schedules the next one or closes the execution.           *)
NobodyIsForgotten ==
  \A e \in Executions :
    wf[e].state = "open" /\ wf[e].waits => \E a \in act : a.exec = e /\ Current(a)

(* And the work is bounded.  A turn is an attempt at a phase; what is left *)
(* of it are six steps as long as its execution has not reached it, then   *)
(* whether Temporal waits for it (5) and the steps of the attempt (1 to 4).*)
(* With what is left of executions and revisions, every step but an        *)
(* approval takes something away, and no step adds anything.               *)
NotYet(e, p, n) ==
  \/ wf[e].state = "idle"
  \/ wf[e].state = "open" /\ (p > wf[e].at \/ (p = wf[e].at /\ n > wf[e].tries))
Awaited(e, p, n) ==
  wf[e].state = "open" /\ wf[e].waits /\ wf[e].at = p /\ wf[e].tries = n
Left(a) ==
  CASE a.pc = "begin" -> 4
    [] a.pc \in {"chosen", "refused"} -> 3
    [] a.pc \in {"seen", "read"} -> 2
    [] OTHER -> 1
TurnSteps(e, p, n) ==
  {k \in 1..6 : \/ NotYet(e, p, n)
                \/ k = 5 /\ Awaited(e, p, n)
                \/ \E a \in act : a.exec = e /\ a.phase = p /\ a.n = n /\ k <= Left(a)}
Turns == Executions \X Phases \X (1..MaxAttempts)
StepsAhead == {s \in Turns \X (1..6) : s[2] \in TurnSteps(s[1][1], s[1][2], s[1][3])}
Unfinished ==
  {s \in Executions \X {"start", "close"} :
     \/ wf[s[1]].state = "idle"
     \/ wf[s[1]].state = "open" /\ s[2] = "close"}
Revisions == {v \in UNION {{r} \X (1..MaxVersions[r]) : r \in Runs} : v[2] > Len(tax[v[1]])}
Ahead == << StepsAhead, Unfinished, Revisions >>
EveryStepCounts ==
  [][\/ \E e \in Executions, reviewer \in Reviewers : Approve(e, reviewer)
     \/ /\ Ahead' # Ahead
        /\ StepsAhead' \subseteq StepsAhead
        /\ Unfinished' \subseteq Unfinished
        /\ Revisions' \subseteq Revisions]_vars

(* Once an execution is approved it ends, whatever crashes or times out.   *)
ExecutionCloses ==
  \A e \in Executions :
    wf[e].state = "open" /\ wf[e].approved # NoOne ~> wf[e].state \in {"completed", "failed"}
=============================================================================
