---------------------------- MODULE SemanticJobs ----------------------------
(***************************************************************************)
(* The life of one external model analysis job, from the uploads that      *)
(* dispatch it (api/routes/sources.py), through the executions of          *)
(* SemanticBatchWorkflow (modules/analysis/workflow.py) that Temporal      *)
(* keeps, to the activity attempts of the workers (semantic_jobs.py and    *)
(* semantic_persistence.py), which share the job row, the runs and the     *)
(* per-voice checkpoints of one PostgreSQL database.                       *)
(*                                                                         *)
(* An action ends at a commit, or at the call whose effect other parties   *)
(* can see.  What a session has only flushed belongs to the attempt, and a *)
(* crash forgets it.  Sessions write a column only when its value differs  *)
(* from the one they loaded, and never read a row again (expire_on_commit  *)
(* is off), so late writes are blind.                                      *)
(*                                                                         *)
(* The run an attempt creates is named by the attempt.  What the extraction*)
(* of a chunk does inside is the subject of SemanticExtraction.            *)
(***************************************************************************)
EXTENDS Integers, FiniteSets

CONSTANTS
  NumUploads,       \* upload requests carrying this batch, product and model
  NumVoices,        \* voices of the batch, processed in the order of their ids
  BatchSize,        \* semantic_batch_size
  RetryMax,         \* semantic_retry_max_attempts
  CallLimit,        \* model_call_limit, from the money the job reserved
  MaxAttempts,      \* maximum_attempts of the execute activity
  MaxMarkAttempts,  \* maximum_attempts of the mark-failed activity
  MaxExecutions,    \* bound: executions started under the workflow id
  MaxOverlaps,      \* bound: attempts given up while they run, by the end of an execution
  None

ASSUME SizesAssumption ==
  /\ {NumVoices, BatchSize, RetryMax, CallLimit} \subseteq Nat \ {0}
  /\ {MaxAttempts, MaxMarkAttempts, MaxExecutions} \subseteq Nat \ {0}

ASSUME BoundsAssumption ==
  NumUploads \in Nat /\ MaxOverlaps \in [1 .. MaxExecutions -> Nat]

(* Uploads are numbered in the order in which they reach the database.     *)
Uploads == 1 .. NumUploads
Voices == 1 .. NumVoices
Attempts == (1 .. MaxExecutions) \X (1 .. MaxAttempts)

ASSUME NoneAssumption == None \notin Attempts

VARIABLES
  job,       \* the ModelAnalysisJob row: status and analysis_run_id
  runs,      \* the AnalysisRun rows with the signals they own
  cache,     \* voices with a SemanticVoiceCache row
  att,       \* the activity attempts: worker process and database session
  wf,        \* the latest workflow execution, as Temporal records it
  mark,      \* the mark-failed activity of that execution
  up,        \* the upload requests
  overlaps   \* how often Temporal has given up an attempt that still ran

results == <<runs, cache>>
temporal == <<wf, mark, overlaps>>
vars == <<job, att, up, results, temporal>>

Terminal == {"succeeded", "failed"}
JobStatus == Terminal \cup
  {"none", "queued", "dispatched", "dispatch_failed", "running"}
RunStatus == {"none", "running", "failed", "pending_review"}
AttemptPc == {"none", "scheduled", "begun", "extracting", "extracted",
              "publishing", "rejecting", "reusing", "report", "done", "dead"}
Alive == AttemptPc \ {"none", "scheduled", "done", "dead"}
UploadPc == {"idle", "requeue", "enqueue", "acked", "refused", "done"}

TypeOK ==
  /\ job \in [status : JobStatus, run : Attempts \cup {None}]
  /\ runs \in [Attempts -> [status : RunStatus, accounted : SUBSET Voices,
                            answered : SUBSET Voices]]
  /\ cache \subseteq Voices
  /\ att \in [Attempts -> [pc : AttemptPc, pos : 0 .. NumVoices, used : Nat,
                           loaded : SUBSET Voices, fresh : SUBSET Voices,
                           answered : SUBSET Voices,
                           run : Attempts \cup {None},
                           linked : Attempts \cup {None}]]
  /\ wf \in [exec : 0 .. MaxExecutions, attempt : 1 .. MaxAttempts,
             phase : {"closed", "execute", "mark"}]
  /\ wf.phase # "closed" => wf.exec > 0
  /\ mark \in [pc : {"idle", "write"}, tries : 0 .. MaxMarkAttempts]
  /\ up \in [Uploads -> UploadPc]
  /\ overlaps \in Nat

(* An attempt that has no process: of its past only the calls it made and  *)
(* how it ended are remembered.                                            *)
Blank(pc, used) ==
  [pc |-> pc, used |-> used, pos |-> 0, loaded |-> {}, fresh |-> {},
   answered |-> {}, run |-> None, linked |-> None]

Init ==
  /\ job = [status |-> "none", run |-> None]
  /\ runs = [a \in Attempts |->
               [status |-> "none", accounted |-> {}, answered |-> {}]]
  /\ cache = {}
  /\ att = [a \in Attempts |-> Blank("none", 0)]
  /\ wf = [exec |-> 0, attempt |-> 1, phase |-> "closed"]
  /\ mark = [pc |-> "idle", tries |-> 0]
  /\ up = [u \in Uploads |-> "idle"]
  /\ overlaps = 0

-----------------------------------------------------------------------------
(* Uploads.                                                                *)

Write(status) == job' = [job EXCEPT !.status = status]
UploadGoto(u, pc) == up' = [up EXCEPT ![u] = pc]

(* The first upload inserts the job (ModelBudget tells when it may), later *)
(* ones load it.  The status read here decides what the request does next. *)
Submit(u) ==
  /\ up[u] = "idle" /\ \A v \in Uploads : v < u => up[v] # "idle"
  /\ \/ /\ job.status = "none"
        /\ Write("queued")
        /\ UploadGoto(u, "enqueue")
     \/ /\ job.status # "none"
        /\ UploadGoto(u, CASE job.status = "dispatch_failed" -> "requeue"
                           [] job.status = "queued" -> "enqueue"
                           [] OTHER -> "done")
        /\ UNCHANGED job
  /\ UNCHANGED <<att, results, temporal>>

Requeue(u) ==
  /\ up[u] = "requeue"
  /\ Write("queued")
  /\ UploadGoto(u, "enqueue")
  /\ UNCHANGED <<att, results, temporal>>

Schedule(a) == [att EXCEPT ![a].pc = "scheduled"]

(* start_workflow.  An open execution under the id counts as success; a    *)
(* closed one does not prevent a new execution.  The acknowledgement may   *)
(* be lost, or the call may not have reached Temporal at all.              *)
Enqueue(u) ==
  /\ up[u] = "enqueue"
  /\ \/ /\ wf.phase = "closed" /\ wf.exec < MaxExecutions
        /\ wf' = [exec |-> wf.exec + 1, attempt |-> 1, phase |-> "execute"]
        /\ mark' = [pc |-> "idle", tries |-> 0]
        /\ att' = Schedule(<<wf.exec + 1, 1>>)
        /\ \E answer \in {"acked", "refused"} : UploadGoto(u, answer)
     \/ /\ wf.phase # "closed"
        /\ UploadGoto(u, "acked")
        /\ UNCHANGED <<wf, mark, att>>
     \/ /\ UploadGoto(u, "refused")
        /\ UNCHANGED <<wf, mark, att>>
  /\ UNCHANGED <<job, results, overlaps>>

(* The request writes what it believes over whatever the workers wrote.    *)
RecordDispatch(u) ==
  /\ up[u] \in {"acked", "refused"}
  /\ Write(IF up[u] = "acked" THEN "dispatched" ELSE "dispatch_failed")
  /\ UploadGoto(u, "done")
  /\ UNCHANGED <<att, results, temporal>>

UploadCrash(u) ==
  /\ up[u] \notin {"idle", "done"}
  /\ UploadGoto(u, "done")
  /\ UNCHANGED <<job, att, results, temporal>>

-----------------------------------------------------------------------------
(* Attempts of the execute activity.                                       *)

Goto(a, pc) == att' = [att EXCEPT ![a].pc = pc]
End(a, pc) == att' = [att EXCEPT ![a] = Blank(pc, @.used)]

LinkedOnce(a, r) ==        \* mutant: "analysis_run_id = analysis_run_id or .."
  IF job.run = None THEN r ELSE job.run
(* What the analysis_run_id column holds after the session of a has set it *)
(* to r and flushed.                                                       *)
LinkedTo(a, r) == IF att[a].linked = r THEN job.run ELSE r

BeginAnyway(a) ==          \* mutant: the attempt does not look at the status
  /\ att[a].pc = "scheduled"
  /\ Write("running")
  /\ att' = [att EXCEPT ![a].pc = "begun", ![a].linked = job.run]
  /\ UNCHANGED <<up, results, temporal>>
(* SELECT .. FOR UPDATE; a finished job is reported as it is.              *)
BeginAttempt(a) ==
  /\ att[a].pc = "scheduled"
  /\ \/ /\ job.status \in Terminal
        /\ Goto(a, "report")
        /\ UNCHANGED job
     \/ /\ job.status \notin Terminal
        /\ Write("running")
        /\ att' = [att EXCEPT ![a].pc = "begun", ![a].linked = job.run]
  /\ UNCHANGED <<up, results, temporal>>

Published == {r \in Attempts : runs[r].status = "pending_review"}

StartAfresh(a) ==          \* mutant: an earlier publication is not looked for
  /\ att[a].pc = "begun"
  /\ att' = [att EXCEPT ![a].pc = "extracting", ![a].run = a,
                        ![a].loaded = cache]
  /\ UNCHANGED <<job, up, results, temporal>>
StartUncached(a) ==        \* mutant: the checkpoints are written, never read
  /\ att[a].pc = "begun"
  /\ \/ \E r \in Published :
          att' = [att EXCEPT ![a].pc = "reusing", ![a].run = r]
     \/ /\ Published = {}
        /\ att' = [att EXCEPT ![a].pc = "extracting", ![a].run = a]
  /\ UNCHANGED <<job, up, results, temporal>>
(* A published run of this batch and model is reused; without one the      *)
(* attempt opens a run of its own and reads the checkpoints.               *)
StartRun(a) ==
  /\ att[a].pc = "begun"
  /\ \/ \E r \in Published :
          att' = [att EXCEPT ![a].pc = "reusing", ![a].run = r]
     \/ /\ Published = {}
        /\ att' = [att EXCEPT ![a].pc = "extracting", ![a].run = a,
                              ![a].loaded = cache]
  /\ UNCHANGED <<job, up, results, temporal>>

Chunk(a) ==
  {v \in Voices : att[a].pos < v /\ v <= att[a].pos + BatchSize}
Missing(a) == Chunk(a) \ att[a].loaded

(* Every missing voice gets an answer, or is given up after RetryMax calls *)
(* and counts as unresolved.                                               *)
ExtractChunk(a) ==
  /\ att[a].pc = "extracting"
  /\ \E solved \in SUBSET Missing(a), n \in 0 .. CallLimit - att[a].used :
       /\ n >= Cardinality(solved) + RetryMax * Cardinality(Missing(a) \ solved)
       /\ n <= RetryMax * Cardinality(Missing(a))
       /\ att' = [att EXCEPT ![a].pc = "extracted", ![a].used = @ + n,
                             ![a].fresh = solved]
  /\ UNCHANGED <<job, runs, cache, up, temporal>>

(* A provider error that is not retried, or the call limit.  Answers that  *)
(* other voices of the chunk got are lost with it, though they are billed. *)
FailChunk(a) ==
  /\ att[a].pc = "extracting"
  /\ \E sent \in SUBSET Missing(a), n \in 0 .. CallLimit - att[a].used :
       /\ Missing(a) # {}
       /\ sent # {} \/ att[a].used = CallLimit
       /\ n >= Cardinality(sent) /\ n <= RetryMax * Cardinality(sent)
       /\ att' = [att EXCEPT ![a].pc = "rejecting", ![a].used = @ + n]
  /\ UNCHANGED <<job, runs, cache, up, temporal>>

CommitSignals(a) ==        \* mutant: signals are committed with their chunk
  LET pos == IF att[a].pos + BatchSize < NumVoices
               THEN att[a].pos + BatchSize ELSE NumVoices
  IN /\ att[a].pc = "extracted"
     /\ cache' = cache \cup att[a].fresh
     /\ runs' = [runs EXCEPT ![a].status = "running",
                               ![a].accounted = 1 .. pos]
     /\ job' = [job EXCEPT !.run = LinkedTo(a, a)]
     /\ att' = [att EXCEPT
          ![a].pc = IF pos = NumVoices THEN "publishing" ELSE "extracting",
          ![a].pos = pos, ![a].fresh = {}, ![a].linked = a,
          ![a].answered =
            @ \cup att[a].fresh \cup (Chunk(a) \cap att[a].loaded)]
     /\ UNCHANGED <<up, temporal>>
(* record_progress commits the chunk: new checkpoints, run and job row.    *)
CommitChunk(a) ==
  LET pos == IF att[a].pos + BatchSize < NumVoices
               THEN att[a].pos + BatchSize ELSE NumVoices
  IN /\ att[a].pc = "extracted"
     /\ cache' = cache \cup att[a].fresh
     /\ runs' = [runs EXCEPT ![a].status = "running"]
     /\ job' = [job EXCEPT !.run = LinkedTo(a, a)]
     /\ att' = [att EXCEPT
          ![a].pc = IF pos = NumVoices THEN "publishing" ELSE "extracting",
          ![a].pos = pos, ![a].fresh = {}, ![a].linked = a,
          ![a].answered =
            @ \cup att[a].fresh \cup (Chunk(a) \cap att[a].loaded)]
     /\ UNCHANGED <<up, temporal>>

(* Signals, themes, opportunities and both final statuses in one commit.   *)
PublishBatch(a) ==
  /\ att[a].pc = "publishing"
  /\ runs' = [runs EXCEPT ![a] =
       [status |-> "pending_review", accounted |-> 1 .. att[a].pos,
        answered |-> att[a].answered]]
  /\ job' = [status |-> "succeeded", run |-> LinkedTo(a, a)]
  /\ Goto(a, "report")
  /\ UNCHANGED <<cache, up, temporal>>

(* The batch is refused: a chunk failed, or the savepoint of the           *)
(* publication was rolled back.                                            *)
RejectBatch(a) ==
  /\ att[a].pc \in {"rejecting", "publishing"}
  /\ runs' = [runs EXCEPT ![a].status = "failed"]
  /\ job' = [status |-> "failed", run |-> LinkedTo(a, a)]
  /\ Goto(a, "report")
  /\ UNCHANGED <<cache, up, temporal>>

ReuseRun(a) ==
  /\ att[a].pc = "reusing"
  /\ job' = [status |-> "succeeded", run |-> LinkedTo(a, att[a].run)]
  /\ Goto(a, "report")
  /\ UNCHANGED <<up, results, temporal>>

Current(a) == wf.phase = "execute" /\ a = <<wf.exec, wf.attempt>>

(* The activity returns.  Temporal drops the result of an attempt that it  *)
(* has given up.                                                           *)
Report(a) ==
  /\ att[a].pc = "report"
  /\ End(a, "done")
  /\ wf' = IF Current(a) THEN [wf EXCEPT !.phase = "closed"] ELSE wf
  /\ UNCHANGED <<job, up, results, mark, overlaps>>

(* The worker dies, an unforeseen exception ends the activity, or Temporal *)
(* cancels an attempt that it has given up: the open transaction is lost.  *)
Crash(a) ==
  /\ att[a].pc \in Alive \cup {"scheduled"}
  /\ End(a, "dead")
  /\ UNCHANGED <<job, up, results, temporal>>

-----------------------------------------------------------------------------
(* Temporal.                                                               *)

GiveUpLate(a) ==           \* mutant: one attempt too many
  IF wf.attempt <= MaxAttempts
    THEN /\ wf' = [wf EXCEPT !.attempt = @ + 1]
         /\ att' = Schedule(<<wf.exec, wf.attempt + 1>>)
    ELSE /\ wf' = [wf EXCEPT !.phase = "mark"]
         /\ UNCHANGED att
GiveUpNever(a) ==          \* mutant: a retry policy without a last attempt
  /\ wf' = [wf EXCEPT !.attempt = (@ % MaxAttempts) + 1]
  /\ att' = Schedule(<<wf.exec, (wf.attempt % MaxAttempts) + 1>>)
(* The next attempt, or, after the last one, the mark-failed activity.     *)
GiveUp(a) ==
  IF wf.attempt < MaxAttempts
    THEN /\ wf' = [wf EXCEPT !.attempt = @ + 1]
         /\ att' = Schedule(<<wf.exec, wf.attempt + 1>>)
    ELSE /\ wf' = [wf EXCEPT !.phase = "mark"]
         /\ UNCHANGED att

RetryDead(a) ==
  /\ Current(a)
  /\ att[a].pc = "dead"
  /\ GiveUp(a)
  /\ UNCHANGED <<job, up, results, mark, overlaps>>

(* No heartbeat for five minutes, or two hours have passed: the attempt    *)
(* may still be running, and goes on beside its successor.                 *)
TimeOut(a) ==
  /\ Current(a)
  /\ att[a].pc \in Alive
  /\ overlaps < MaxOverlaps[wf.exec]
  /\ overlaps' = overlaps + 1
  /\ GiveUp(a)
  /\ UNCHANGED <<job, up, results, mark>>

Close == wf' = [wf EXCEPT !.phase = "closed"]

(* mark_model_analysis_job_failed reads the row without a lock ...         *)
MarkRead ==
  /\ wf.phase = "mark" /\ mark.pc = "idle" /\ mark.tries < MaxMarkAttempts
  /\ \/ /\ job.status \in Terminal
        /\ Close
        /\ UNCHANGED mark
     \/ /\ job.status \notin Terminal
        /\ mark' = [mark EXCEPT !.pc = "write"]
        /\ UNCHANGED wf
  /\ UNCHANGED <<job, att, up, results, overlaps>>

(* ... and writes it.                                                      *)
MarkWrite ==
  /\ wf.phase = "mark" /\ mark.pc = "write"
  /\ Write("failed")
  /\ mark' = [mark EXCEPT !.pc = "idle"]
  /\ Close
  /\ UNCHANGED <<att, up, results, overlaps>>

(* The activity fails; after its last attempt the workflow itself fails.   *)
MarkCrash ==
  /\ wf.phase = "mark" /\ mark.tries < MaxMarkAttempts
  /\ mark' = [pc |-> "idle", tries |-> mark.tries + 1]
  /\ IF mark.tries + 1 = MaxMarkAttempts THEN Close ELSE UNCHANGED wf
  /\ UNCHANGED <<job, att, up, results, overlaps>>

-----------------------------------------------------------------------------

Request(u) ==
  Submit(u) \/ Requeue(u) \/ Enqueue(u) \/ RecordDispatch(u)

Execute(a) ==
  \/ BeginAttempt(a) \/ StartRun(a) \/ ExtractChunk(a) \/ FailChunk(a)
  \/ CommitChunk(a) \/ PublishBatch(a) \/ RejectBatch(a) \/ ReuseRun(a)
  \/ Report(a)

(* Nothing is left to do: the model stops, the services wait.              *)
Quiet ==
  /\ wf.phase = "closed"
  /\ \A u \in Uploads : up[u] = "done"
  /\ \A a \in Attempts : att[a].pc \in {"none", "done", "dead"}
  /\ UNCHANGED vars

Next ==
  \/ \E u \in Uploads : Request(u) \/ UploadCrash(u)
  \/ \E a \in Attempts : Execute(a) \/ Crash(a) \/ RetryDead(a) \/ TimeOut(a)
  \/ MarkRead \/ MarkWrite \/ MarkCrash
  \/ Quiet

Spec == Init /\ [][Next]_vars

(* Temporal keeps scheduling, and of the workers that are alive one takes  *)
(* its next step.                                                          *)
FairSpec ==
  /\ Spec
  /\ WF_vars(\E a \in Attempts : Execute(a) \/ RetryDead(a))
  /\ WF_vars(MarkRead \/ MarkWrite)

-----------------------------------------------------------------------------

(* Whatever crashes, overlaps or is retried, a run owns either no signals  *)
(* at all or the complete outcome of its batch, and it owns them exactly   *)
(* while it is offered for review.                                         *)
NoPartialPublication ==
  \A r \in Attempts :
    runs[r].accounted = IF r \in Published THEN Voices ELSE {}

Overlapped == overlaps > 0

(* While attempts follow one another, the batch is published at most once, *)
(* across crashes after the commit, retries, and whole new executions that *)
(* a lost acknowledgement caused.                                          *)
PublishedOnce == ~Overlapped => \A r, s \in Published : r = s

(* A voice with a checkpoint, whoever committed it, is not sent to the     *)
(* provider again ("only missing records are redone").                     *)
ResumeOnlyMissing ==
  [][\A a \in Attempts : ~Overlapped /\ att'[a].used > att[a].used
                           => Missing(a) \cap cache = {}]_vars

(* The published batch contains every answer that was ever paid for and    *)
(* committed, by whichever attempt.                                        *)
CheckpointsPublished ==
  ~Overlapped => \A r \in Published : cache = runs[r].answered

(* A job shown as succeeded has a publication behind it and names a run    *)
(* that was opened: the published one, unless attempts overlapped.  Then   *)
(* a blind write may leave it with the run of the attempt that did not     *)
(* publish.                                                                *)
SucceededIsPublished ==
  job.status = "succeeded" =>
    /\ Published # {}
    /\ job.run \in Attempts /\ runs[job.run].status # "none"
    /\ ~Overlapped => job.run \in Published

(* The outcome a worker wrote stands against later attempts, the           *)
(* mark-failed activity and new executions: only a request that is still   *)
(* in flight takes it back, and only an attempt beside the current one     *)
(* exchanges it for another outcome.                                       *)
OutcomeSticks ==
  [][job.status \in Terminal /\ job'.status # job.status =>
       \/ \E u \in Uploads : up[u] \in {"requeue", "acked", "refused"} /\ up'[u] # up[u]
       \/ Overlapped /\ job'.status \in Terminal]_vars

(* What ExecutionCloses rests on.  First, Temporal never waits for nothing: *)
(* the attempt it counts on is alive or to be retried, and whatever is     *)
(* left of the call limit, the next chunk is answered or refused; the      *)
(* mark-failed activity has a try left, or closes the execution with its   *)
(* last one.                                                               *)
ChunkGoesOn(a) ==
  LET left == CallLimit - att[a].used IN
    \/ \E solved \in SUBSET Missing(a), n \in 0 .. left :
         /\ n >= Cardinality(solved) + RetryMax * Cardinality(Missing(a) \ solved)
         /\ n <= RetryMax * Cardinality(Missing(a))
    \/ \E sent \in SUBSET Missing(a), n \in 0 .. left :
         /\ Missing(a) # {} /\ (sent # {} \/ left = 0)
         /\ n >= Cardinality(sent) /\ n <= RetryMax * Cardinality(sent)
ExecutionNeverHangs ==
  /\ wf.phase = "execute" =>
       LET a == <<wf.exec, wf.attempt>> IN
         /\ att[a].pc \in Alive \cup {"scheduled", "dead"}
         /\ att[a].pc = "extracting" => ChunkGoesOn(a)
  /\ wf.phase = "mark" => mark.pc = "write" \/ mark.tries < MaxMarkAttempts

(* Second, the work is bounded: of what each upload, each attempt and each *)
(* execution has ahead of it nothing ever grows, and every step takes a    *)
(* piece away, crashes, time-outs and repeated dispatches included.        *)
UploadAhead(u) ==
  CASE up[u] = "idle"    -> 4
    [] up[u] = "requeue" -> 3
    [] up[u] = "enqueue" -> 2
    [] up[u] \in {"acked", "refused"} -> 1
    [] OTHER -> 0
AttemptAhead(a) ==
  LET pc == att[a].pc
      rest == 2 * (NumVoices - att[a].pos)
  IN  CASE pc = "none"       -> 2 * NumVoices + 8
        [] pc = "scheduled"  -> 2 * NumVoices + 7
        [] pc = "begun"      -> 2 * NumVoices + 6
        [] pc = "extracting" -> rest + 5
        [] pc = "extracted"  -> rest + 4
        [] pc \in {"publishing", "rejecting", "reusing"} -> 2
        [] pc = "report"     -> 1
        [] OTHER             -> 0
ExecutionAhead(e) ==
  CASE e > wf.exec \/ (e = wf.exec /\ wf.phase = "execute") -> 2 * MaxMarkAttempts + 2
    [] e = wf.exec /\ wf.phase = "mark" ->
         2 * (MaxMarkAttempts - mark.tries) + (IF mark.pc = "idle" THEN 1 ELSE 0)
    [] OTHER -> 0
EveryStepCounts ==
  [][/\ \A u \in Uploads : UploadAhead(u)' <= UploadAhead(u)
     /\ \A a \in Attempts : AttemptAhead(a)' <= AttemptAhead(a)
     /\ \A e \in 1 .. MaxExecutions : ExecutionAhead(e)' <= ExecutionAhead(e)
     /\ \/ \E u \in Uploads : UploadAhead(u)' < UploadAhead(u)
        \/ \E a \in Attempts : AttemptAhead(a)' < AttemptAhead(a)
        \/ \E e \in 1 .. MaxExecutions : ExecutionAhead(e)' < ExecutionAhead(e)]_vars

(* Every execution of the workflow ends.                                   *)
ExecutionCloses == wf.phase # "closed" ~> wf.phase = "closed"

(* Documented (operations/ai-semantic-workflow.md:11): automatic retries   *)
(* cannot get around the reserved number of calls.                         *)
RetriesWithinReservation ==
  \A a, b \in Attempts : a # b => att[a].used + att[b].used <= CallLimit

(* Documented (dispatch.py:24): a lost acknowledgement must not create a   *)
(* second billable job.                                                    *)
OneBillableExecution ==
  \A a, b \in Attempts : att[a].used > 0 /\ att[b].used > 0 => a[1] = b[1]
=============================================================================
