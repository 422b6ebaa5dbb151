-------------------------- MODULE SemanticJobsProofs --------------------------
(***************************************************************************)
(* Theorems about SemanticJobs, for every number of uploads, voices,       *)
(* attempts, executions and overlaps.                                      *)
(*                                                                         *)
(* IInv says that the attempts Temporal has not reached yet are untouched  *)
(* (FreshInv), what an attempt's run may hold (RunInv), and, as long as no *)
(* attempt was given up alive (SeqInv), that only the current attempt      *)
(* works, that its session sees the job row as it is, and that its answers *)
(* are exactly the checkpoints behind its position.                        *)
(***************************************************************************)
EXTENDS SemanticJobs, FiniteSetTheorems, TLAPS

Working == Alive \ {"report"}
OwnRun == {"extracting", "extracted", "publishing", "rejecting"}

Later(a) == a[1] > wf.exec \/ (a[1] = wf.exec /\ a[2] > wf.attempt)

FreshInv ==
  \A a \in Attempts :
    /\ Later(a) => att[a].pc = "none"
    /\ att[a].pc \in {"none", "scheduled", "begun"} =>
         att[a].pos = 0 /\ att[a].answered = {}

RunInv ==
  /\ NoPartialPublication
  /\ \A a \in Attempts :
       /\ a \in Published => att[a].pc \in {"report", "done", "dead"}
       /\ att[a].pc = "publishing" => att[a].pos = NumVoices

Sequential(a) ==
  /\ att[a].pc \in Alive \cup {"scheduled"} => Current(a)
  /\ att[a].pc \in Working =>
       job.status \notin Terminal /\ att[a].linked = job.run
  /\ att[a].pc \in OwnRun => Published = {} /\ att[a].loaded \subseteq cache
  /\ att[a].pc \in {"extracting", "extracted"} =>
       cache \subseteq att[a].loaded \cup (1 .. att[a].pos)
  /\ att[a].pc = "extracted" => att[a].fresh \subseteq Chunk(a)
  /\ att[a].pc \in {"extracting", "extracted", "publishing"} =>
       att[a].answered = cache \cap (1 .. att[a].pos)
  /\ att[a].pc = "reusing" => att[a].run \in Published

JobInv ==
  /\ mark.pc = "write" => wf.phase = "mark" /\ job.status \notin Terminal
  /\ job.status = "succeeded" => job.run \in Published
  /\ \A r, s \in Published : r = s
  /\ \A r \in Published : cache = runs[r].answered

SeqInv == ~Overlapped => JobInv /\ \A a \in Attempts : Sequential(a)

IInv == TypeOK /\ FreshInv /\ RunInv /\ SeqInv

-----------------------------------------------------------------------------
(* What the updates of an attempt's record amount to, field by field.      *)

AttRow == [pc : AttemptPc, pos : 0 .. NumVoices, used : Nat,
           loaded : SUBSET Voices, fresh : SUBSET Voices,
           answered : SUBSET Voices,
           run : Attempts \cup {None}, linked : Attempts \cup {None}]

Others(a) == \A b \in Attempts \ {a} : att'[b] = att[b]

(* The step of attempt a changes its pc to p and nothing else of it.       *)
OnlyPc(a, p) ==
  /\ Others(a)
  /\ att'[a].pc = p /\ att'[a].pos = att[a].pos /\ att'[a].used = att[a].used
  /\ att'[a].loaded = att[a].loaded /\ att'[a].fresh = att[a].fresh
  /\ att'[a].answered = att[a].answered /\ att'[a].run = att[a].run
  /\ att'[a].linked = att[a].linked

LEMMA PcUpdate ==
  ASSUME TypeOK, NEW a \in Attempts, NEW p \in AttemptPc,
         att' = [att EXCEPT ![a].pc = p]
  PROVE  att' \in [Attempts -> AttRow] /\ OnlyPc(a, p)
  BY DEF TypeOK, AttRow, OnlyPc, Others

LEMMA RowUpdate ==
  ASSUME att \in [Attempts -> AttRow], NEW a \in Attempts, NEW row \in AttRow,
         att' = [att EXCEPT ![a] = row]
  PROVE  att' \in [Attempts -> AttRow] /\ Others(a) /\ att'[a] = row
  BY DEF Others

(* One lemma for each update of several fields.                            *)
LEMMA RowOf ==
  ASSUME TypeOK
  PROVE  /\ att \in [Attempts -> AttRow] /\ \A a \in Attempts : att[a] \in AttRow
         /\ job.run \in Attempts \cup {None}
  BY DEF TypeOK, AttRow

LEMMA EndFacts ==
  ASSUME TypeOK, NEW a \in Attempts, NEW p \in AttemptPc, End(a, p)
  PROVE  /\ att' \in [Attempts -> AttRow] /\ Others(a) /\ att'[a].pc = p
         /\ att'[a].pos = 0 /\ att'[a].answered = {}
         /\ att'[a].used = att[a].used /\ att'[a].linked = None
<1> DEFINE row == Blank(p, att[a].used)
<1>1. row \in AttRow /\ row.pc = p /\ row.pos = 0 /\ row.answered = {}
      /\ row.used = att[a].used /\ row.linked = None
  BY RowOf, SizesAssumption DEF AttRow, Blank
<1>2. att' = [att EXCEPT ![a] = row]
  BY Zenon DEF End
<1> HIDE DEF row
<1> QED
  BY <1>1, <1>2, RowOf, RowUpdate

LEMMA BeginFacts ==
  ASSUME TypeOK, NEW a \in Attempts,
         att' = [att EXCEPT ![a].pc = "begun", ![a].linked = job.run]
  PROVE  /\ att' \in [Attempts -> AttRow] /\ Others(a)
         /\ att'[a].pc = "begun" /\ att'[a].linked = job.run
         /\ att'[a].pos = att[a].pos /\ att'[a].answered = att[a].answered
         /\ att'[a].used = att[a].used
<1> DEFINE row == [att[a] EXCEPT !.pc = "begun", !.linked = job.run]
<1>1. att' = [att EXCEPT ![a] = row]
  BY Zenon
<1>2. att[a] \in AttRow /\ job.run \in Attempts \cup {None}
  BY RowOf
<1>3. row \in AttRow
  BY <1>2 DEF AttRow, AttemptPc
<1>4. row.pc = "begun" /\ row.linked = job.run /\ row.pos = att[a].pos
      /\ row.answered = att[a].answered /\ row.used = att[a].used
  BY <1>2 DEF AttRow
<1> HIDE DEF row
<1> QED
  BY <1>1, <1>3, <1>4, RowOf, RowUpdate

LEMMA ReuseFacts ==
  ASSUME TypeOK, NEW a \in Attempts, NEW r \in Attempts,
         att' = [att EXCEPT ![a].pc = "reusing", ![a].run = r]
  PROVE  /\ att' \in [Attempts -> AttRow] /\ Others(a)
         /\ att'[a].pc = "reusing" /\ att'[a].run = r
         /\ att'[a].linked = att[a].linked /\ att'[a].used = att[a].used
<1> DEFINE row == [att[a] EXCEPT !.pc = "reusing", !.run = r]
<1>1. att' = [att EXCEPT ![a] = row]
  BY Zenon
<1>2. att[a] \in AttRow
  BY RowOf
<1>3. row \in AttRow
  BY <1>2 DEF AttRow, AttemptPc
<1>4. row.pc = "reusing" /\ row.run = r /\ row.linked = att[a].linked
      /\ row.used = att[a].used
  BY <1>2 DEF AttRow
<1> HIDE DEF row
<1> QED
  BY <1>1, <1>3, <1>4, RowOf, RowUpdate

LEMMA OpenFacts ==
  ASSUME TypeOK, NEW a \in Attempts,
         att' = [att EXCEPT ![a].pc = "extracting", ![a].run = a, ![a].loaded = cache]
  PROVE  /\ att' \in [Attempts -> AttRow] /\ Others(a)
         /\ att'[a].pc = "extracting" /\ att'[a].loaded = cache
         /\ att'[a].linked = att[a].linked /\ att'[a].pos = att[a].pos
         /\ att'[a].answered = att[a].answered /\ att'[a].used = att[a].used
<1> DEFINE row == [att[a] EXCEPT !.pc = "extracting", !.run = a, !.loaded = cache]
<1>1. att' = [att EXCEPT ![a] = row]
  BY Zenon
<1>2. att[a] \in AttRow /\ cache \in SUBSET Voices
  BY RowOf DEF TypeOK
<1>3. row \in AttRow
  BY <1>2 DEF AttRow, AttemptPc
<1>4. /\ row.pc = "extracting" /\ row.loaded = cache /\ row.linked = att[a].linked
      /\ row.pos = att[a].pos /\ row.answered = att[a].answered
      /\ row.used = att[a].used
  BY <1>2 DEF AttRow
<1> HIDE DEF row
<1> QED
  BY <1>1, <1>3, <1>4, RowOf, RowUpdate

LEMMA ExtractFacts ==
  ASSUME TypeOK, NEW a \in Attempts, NEW n \in 0 .. CallLimit - att[a].used,
         NEW solved \in SUBSET Missing(a),
         att' = [att EXCEPT ![a].pc = "extracted", ![a].used = @ + n,
                            ![a].fresh = solved]
  PROVE  /\ att' \in [Attempts -> AttRow] /\ Others(a)
         /\ att'[a].pc = "extracted" /\ att'[a].fresh \subseteq Chunk(a)
         /\ att'[a].loaded = att[a].loaded /\ att'[a].linked = att[a].linked
         /\ att'[a].pos = att[a].pos /\ att'[a].answered = att[a].answered
<1> DEFINE row == [att[a] EXCEPT !.pc = "extracted", !.used = @ + n, !.fresh = solved]
<1>1. att' = [att EXCEPT ![a] = row]
  BY Zenon
<1>2. att[a] \in AttRow /\ solved \in SUBSET Voices
  BY RowOf DEF Missing, Chunk
<1>3. att[a].used + n \in Nat
  BY <1>2, SizesAssumption DEF AttRow
<1>4. row \in AttRow
  BY <1>2, <1>3 DEF AttRow, AttemptPc
<1>5. /\ row.pc = "extracted" /\ row.fresh = solved /\ row.loaded = att[a].loaded
      /\ row.linked = att[a].linked /\ row.pos = att[a].pos
      /\ row.answered = att[a].answered
  BY <1>2 DEF AttRow
<1>6. solved \subseteq Chunk(a)
  BY DEF Missing
<1> HIDE DEF row
<1> QED
  BY <1>1, <1>4, <1>5, <1>6, RowOf, RowUpdate

LEMMA FailFacts ==
  ASSUME TypeOK, NEW a \in Attempts, NEW n \in 0 .. CallLimit - att[a].used,
         att' = [att EXCEPT ![a].pc = "rejecting", ![a].used = @ + n]
  PROVE  /\ att' \in [Attempts -> AttRow] /\ Others(a)
         /\ att'[a].pc = "rejecting" /\ att'[a].loaded = att[a].loaded
         /\ att'[a].linked = att[a].linked
<1> DEFINE row == [att[a] EXCEPT !.pc = "rejecting", !.used = @ + n]
<1>1. att' = [att EXCEPT ![a] = row]
  BY Zenon
<1>2. att[a] \in AttRow
  BY RowOf
<1>3. att[a].used + n \in Nat
  BY <1>2, SizesAssumption DEF AttRow
<1>4. row \in AttRow
  BY <1>2, <1>3 DEF AttRow, AttemptPc
<1>5. row.pc = "rejecting" /\ row.loaded = att[a].loaded /\ row.linked = att[a].linked
  BY <1>2 DEF AttRow
<1> HIDE DEF row
<1> QED
  BY <1>1, <1>4, <1>5, RowOf, RowUpdate

ChunkEnd(a) == IF att[a].pos + BatchSize < NumVoices
                 THEN att[a].pos + BatchSize ELSE NumVoices

LEMMA CommitFacts ==
  ASSUME TypeOK, NEW a \in Attempts, CommitChunk(a)
  PROVE  /\ att' \in [Attempts -> AttRow] /\ Others(a)
         /\ att'[a].pc = IF ChunkEnd(a) = NumVoices THEN "publishing" ELSE "extracting"
         /\ att'[a].pos = ChunkEnd(a) /\ att'[a].linked = a
         /\ att'[a].loaded = att[a].loaded /\ att'[a].used = att[a].used
         /\ att'[a].answered =
              att[a].answered \cup att[a].fresh \cup (Chunk(a) \cap att[a].loaded)
<1> DEFINE pos == ChunkEnd(a)
           pc == IF pos = NumVoices THEN "publishing" ELSE "extracting"
           ans == att[a].answered \cup att[a].fresh \cup (Chunk(a) \cap att[a].loaded)
           row == [att[a] EXCEPT !.pc = pc, !.pos = pos, !.fresh = {}, !.linked = a,
                                 !.answered = ans]
<1>1. att' = [att EXCEPT ![a] = row]
  BY Zenon DEF CommitChunk, ChunkEnd
<1>2. att[a] \in AttRow
  BY RowOf
<1>3. pos \in 0 .. NumVoices /\ pc \in AttemptPc /\ ans \in SUBSET Voices
  BY <1>2, SizesAssumption DEF AttRow, AttemptPc, Chunk, ChunkEnd
<1> HIDE DEF pos, pc, ans
<1>4. row \in AttRow
  BY <1>2, <1>3 DEF AttRow
<1>5. /\ row.pc = pc /\ row.pos = pos /\ row.linked = a /\ row.answered = ans
      /\ row.loaded = att[a].loaded /\ row.used = att[a].used
  BY <1>2 DEF AttRow
<1> HIDE DEF row
<1> QED
  BY <1>1, <1>4, <1>5, RowOf, RowUpdate DEF ans, pos, pc

-----------------------------------------------------------------------------
(* Every step keeps the types.                                             *)

LEMMA ScheduleType ==
  ASSUME TypeOK, NEW a \in Attempts, att' = Schedule(a)
  PROVE  att' \in [Attempts -> AttRow] /\ OnlyPc(a, "scheduled")
  BY PcUpdate DEF Schedule, AttemptPc

LEMMA NextAttempt ==
  ASSUME TypeOK, NEW a \in Attempts, Current(a), wf.attempt < MaxAttempts
  PROVE  <<wf.exec, wf.attempt + 1>> \in Attempts
  BY SizesAssumption DEF TypeOK, Current, Attempts

LEMMA GiveUpType ==
  ASSUME TypeOK, NEW a \in Attempts, Current(a), GiveUp(a)
  PROVE  /\ att' \in [Attempts -> AttRow]
         /\ wf' \in [exec : 0 .. MaxExecutions, attempt : 1 .. MaxAttempts,
                     phase : {"closed", "execute", "mark"}]
         /\ wf'.phase # "closed" => wf'.exec > 0
<1>1. CASE wf.attempt < MaxAttempts
  BY <1>1, NextAttempt, ScheduleType, SizesAssumption DEF GiveUp, Current, TypeOK
<1>2. CASE ~(wf.attempt < MaxAttempts)
  BY <1>2, RowOf, SizesAssumption DEF GiveUp, Current, TypeOK
<1> QED
  BY <1>1, <1>2

LEMMA UploadType ==
  ASSUME TypeOK, NEW u \in Uploads, Request(u) \/ UploadCrash(u)
  PROVE  TypeOK'
<1>1. CASE Submit(u)
  BY <1>1 DEF TypeOK, Submit, Write, UploadGoto, JobStatus, UploadPc, Terminal,
              results, temporal
<1>2. CASE Requeue(u) \/ RecordDispatch(u) \/ UploadCrash(u)
  BY <1>2 DEF TypeOK, Requeue, RecordDispatch, UploadCrash, Write, UploadGoto,
              JobStatus, UploadPc, results, temporal
<1>3. CASE Enqueue(u)
  <2>1. up' \in [Uploads -> UploadPc]
    BY <1>3 DEF Enqueue, UploadGoto, TypeOK, UploadPc
  <2>2. CASE wf.phase = "closed" /\ wf.exec < MaxExecutions
             /\ wf' = [exec |-> wf.exec + 1, attempt |-> 1, phase |-> "execute"]
             /\ mark' = [pc |-> "idle", tries |-> 0]
             /\ att' = Schedule(<<wf.exec + 1, 1>>)
    <3>1. <<wf.exec + 1, 1>> \in Attempts
      BY <2>2, SizesAssumption DEF Attempts, TypeOK
    <3>2. att' \in [Attempts -> AttRow]
      BY <2>2, <3>1, ScheduleType
    <3>3. /\ wf' \in [exec : 0 .. MaxExecutions, attempt : 1 .. MaxAttempts,
                    phase : {"closed", "execute", "mark"}]
          /\ wf'.exec > 0
      BY <2>2, SizesAssumption DEF TypeOK
    <3>4. mark' \in [pc : {"idle", "write"}, tries : 0 .. MaxMarkAttempts]
      BY <2>2, SizesAssumption
    <3> QED
      BY <1>3, <2>1, <3>2, <3>3, <3>4 DEF Enqueue, TypeOK, AttRow, results
  <2>3. CASE UNCHANGED <<wf, mark, att>>
    BY <1>3, <2>1, <2>3 DEF Enqueue, TypeOK, results
  <2> QED
    BY <1>3, <2>2, <2>3 DEF Enqueue
<1> QED
  BY <1>1, <1>2, <1>3 DEF Request

LEMMA ExecuteType ==
  ASSUME TypeOK, NEW a \in Attempts, Execute(a) \/ Crash(a)
  PROVE  TypeOK'
<1>1. CASE BeginAttempt(a)
  <2>1. att' \in [Attempts -> AttRow]
    BY <1>1, PcUpdate, BeginFacts DEF BeginAttempt, Goto, AttemptPc
  <2> QED
    BY <1>1, <2>1 DEF BeginAttempt, Write, TypeOK, AttRow, JobStatus, results, temporal
<1>2. CASE StartRun(a)
  <2>1. att' \in [Attempts -> AttRow]
    BY <1>2, ReuseFacts, OpenFacts DEF StartRun, Published
  <2> QED
    BY <1>2, <2>1 DEF StartRun, TypeOK, AttRow, results, temporal
<1>3. CASE ExtractChunk(a) \/ FailChunk(a)
  <2>1. att' \in [Attempts -> AttRow]
    BY <1>3, ExtractFacts, FailFacts DEF ExtractChunk, FailChunk
  <2> QED
    BY <1>3, <2>1 DEF ExtractChunk, FailChunk, TypeOK, AttRow, temporal
<1>4. CASE CommitChunk(a)
  <2>1. att' \in [Attempts -> AttRow]
    BY <1>4, CommitFacts
  <2>2. cache' \subseteq Voices
    BY <1>4, RowOf DEF CommitChunk, TypeOK, AttRow
  <2>3. runs' \in [Attempts -> [status : RunStatus, accounted : SUBSET Voices,
                                answered : SUBSET Voices]]
    BY <1>4 DEF CommitChunk, TypeOK, RunStatus
  <2>4. job' \in [status : JobStatus, run : Attempts \cup {None}]
    BY <1>4 DEF CommitChunk, TypeOK, LinkedTo
  <2> QED
    BY <1>4, <2>1, <2>2, <2>3, <2>4 DEF CommitChunk, TypeOK, AttRow, temporal
<1>5. CASE PublishBatch(a)
  <2>1. att' \in [Attempts -> AttRow]
    BY <1>5, PcUpdate DEF PublishBatch, Goto, AttemptPc
  <2>2. 1 .. att[a].pos \subseteq Voices /\ att[a].answered \subseteq Voices
    BY RowOf, SizesAssumption DEF AttRow, Voices
  <2>3. runs' \in [Attempts -> [status : RunStatus, accounted : SUBSET Voices,
                                answered : SUBSET Voices]]
    BY <1>5, <2>2 DEF PublishBatch, TypeOK, RunStatus
  <2>4. job' \in [status : JobStatus, run : Attempts \cup {None}]
    BY <1>5 DEF PublishBatch, TypeOK, LinkedTo, JobStatus, Terminal
  <2> QED
    BY <1>5, <2>1, <2>3, <2>4 DEF PublishBatch, TypeOK, AttRow, temporal
<1>6. CASE RejectBatch(a)
  <2>1. att' \in [Attempts -> AttRow]
    BY <1>6, PcUpdate DEF RejectBatch, Goto, AttemptPc
  <2>2. runs' \in [Attempts -> [status : RunStatus, accounted : SUBSET Voices,
                                answered : SUBSET Voices]]
    BY <1>6 DEF RejectBatch, TypeOK, RunStatus
  <2>3. job' \in [status : JobStatus, run : Attempts \cup {None}]
    BY <1>6 DEF RejectBatch, TypeOK, LinkedTo, JobStatus, Terminal
  <2> QED
    BY <1>6, <2>1, <2>2, <2>3 DEF RejectBatch, TypeOK, AttRow, temporal
<1>7. CASE ReuseRun(a)
  <2>1. att' \in [Attempts -> AttRow]
    BY <1>7, PcUpdate DEF ReuseRun, Goto, AttemptPc
  <2>2. job' \in [status : JobStatus, run : Attempts \cup {None}]
    BY <1>7, RowOf DEF ReuseRun, TypeOK, LinkedTo, JobStatus, Terminal, AttRow
  <2> QED
    BY <1>7, <2>1, <2>2 DEF ReuseRun, TypeOK, AttRow, results, temporal
<1>8. CASE Report(a) \/ Crash(a)
  <2>1. att' \in [Attempts -> AttRow]
    BY <1>8, EndFacts DEF Report, Crash, AttemptPc
  <2> QED
    BY <1>8, <2>1 DEF Report, Crash, TypeOK, AttRow, results, temporal
<1> QED
  BY <1>1, <1>2, <1>3, <1>4, <1>5, <1>6, <1>7, <1>8 DEF Execute

LEMMA TemporalType ==
  ASSUME TypeOK,
         (\E a \in Attempts : RetryDead(a) \/ TimeOut(a))
           \/ MarkRead \/ MarkWrite \/ MarkCrash
  PROVE  TypeOK'
<1>1. ASSUME NEW a \in Attempts, RetryDead(a) \/ TimeOut(a) PROVE TypeOK'
  <2>1. overlaps' \in Nat
    BY <1>1, SizesAssumption DEF RetryDead, TimeOut, TypeOK
  <2> QED
    BY <1>1, <2>1, GiveUpType DEF RetryDead, TimeOut, TypeOK, AttRow, results
<1>2. CASE MarkRead \/ MarkWrite
  BY <1>2, SizesAssumption
     DEF MarkRead, MarkWrite, Write, Close, TypeOK, JobStatus, Terminal, results
<1>3. CASE MarkCrash
  BY <1>3, SizesAssumption DEF MarkCrash, Close, TypeOK, results
<1> QED
  BY <1>1, <1>2, <1>3

LEMMA TypeStep ==
  ASSUME TypeOK, [Next]_vars
  PROVE  TypeOK'
<1>1. CASE UNCHANGED vars
  BY <1>1 DEF vars, results, temporal, TypeOK
<1> QED
  BY <1>1, UploadType, ExecuteType, TemporalType DEF Next, Quiet

LEMMA TypeInit == Init => TypeOK
  BY SizesAssumption
     DEF Init, TypeOK, Blank, JobStatus, RunStatus, AttemptPc, UploadPc, Attempts

(* The state stays within its types.                                       *)
THEOREM TypeCorrect == Spec => []TypeOK
  BY TypeInit, TypeStep, PTL DEF Spec

-----------------------------------------------------------------------------
(* What a step of attempt a leaves to be shown.                            *)

LEMMA FreshMove ==
  ASSUME TypeOK, FreshInv, NEW a \in Attempts, att[a].pc # "none", Others(a),
         wf'.exec = wf.exec, wf'.attempt = wf.attempt,
         att'[a].pc \in {"none", "scheduled", "begun"} =>
           att'[a].pos = 0 /\ att'[a].answered = {}
  PROVE  FreshInv'
  BY DEF FreshInv, Later, Others

LEMMA RunMove ==
  ASSUME TypeOK, RunInv, NEW a \in Attempts, UNCHANGED runs, Others(a),
         a \in Published => att'[a].pc \in {"report", "done", "dead"},
         att'[a].pc = "publishing" => att'[a].pos = NumVoices
  PROVE  RunInv'
  BY DEF RunInv, NoPartialPublication, Published, Others

LEMMA IdleIsSequential ==
  ASSUME NEW b \in Attempts, att'[b].pc \in {"none", "done", "dead"}
  PROVE  Sequential(b)'
  BY DEF Sequential, Alive, Working, OwnRun, AttemptPc

LEMMA SeqMove ==
  ASSUME TypeOK, SeqInv, ~Overlapped, NEW a \in Attempts,
         att[a].pc \in Alive \cup {"scheduled"}, Others(a), Sequential(a)'
  PROVE  \A b \in Attempts : Sequential(b)'
<1>1. ASSUME NEW b \in Attempts, b # a PROVE Sequential(b)'
  <2>1. Current(a)
    BY DEF SeqInv, Sequential
  <2>2. ~Current(b)
    BY <1>1, <2>1 DEF Current
  <2>3. att[b].pc \in {"none", "done", "dead"}
    BY <2>2, RowOf DEF SeqInv, Sequential, Alive, AttRow
  <2> QED
    BY <1>1, <2>3, IdleIsSequential DEF Others
<1> QED
  BY <1>1

LEMMA NotWriting ==
  ASSUME TypeOK, SeqInv, ~Overlapped, NEW a \in Attempts,
         att[a].pc \in Alive \cup {"scheduled"}
  PROVE  wf.phase = "execute" /\ Current(a)
  BY DEF SeqInv, Sequential, Current

-----------------------------------------------------------------------------
(* One lemma for each action or kind of action.                            *)

(* A request changes the status alone, and never to a final one.           *)
LEMMA RowWriteStep ==
  ASSUME IInv, UNCHANGED <<att, results, temporal>>,
         job' = job \/ (job'.status \notin Terminal /\ job'.run = job.run)
  PROVE  FreshInv' /\ RunInv' /\ SeqInv'
<1>1. FreshInv' /\ RunInv'
  BY DEF IInv, FreshInv, Later, RunInv, NoPartialPublication, Published,
         results, temporal
<1>2. ASSUME ~Overlapped PROVE JobInv' /\ \A a \in Attempts : Sequential(a)'
  <2>1. JobInv'
    BY <1>2 DEF IInv, SeqInv, JobInv, Published, results, temporal, Terminal
  <2>2. ASSUME NEW a \in Attempts PROVE Sequential(a)'
    <3>1. Sequential(a)
      BY <1>2 DEF IInv, SeqInv
    <3>2. job'.run = job.run /\ (job'.status = job.status \/ job'.status \notin Terminal)
      OBVIOUS
    <3> QED
      BY <3>1, <3>2 DEF Sequential, Published, Current, Chunk, results, temporal
  <2> QED
    BY <2>1, <2>2
<1> QED
  BY <1>1, <1>2 DEF SeqInv, Overlapped, temporal

LEMMA UploadStep ==
  ASSUME IInv, NEW u \in Uploads,
         Submit(u) \/ Requeue(u) \/ RecordDispatch(u) \/ UploadCrash(u)
  PROVE  FreshInv' /\ RunInv' /\ SeqInv'
<1>1. UNCHANGED <<att, results, temporal>>
  BY DEF Submit, Requeue, RecordDispatch, UploadCrash
<1>2. job' = job \/ (job'.status \notin Terminal /\ job'.run = job.run)
  BY DEF Submit, Requeue, RecordDispatch, UploadCrash, Write, Terminal, IInv, TypeOK
<1> QED
  BY <1>1, <1>2, RowWriteStep

LEMMA BeginStep ==
  ASSUME IInv, NEW a \in Attempts, BeginAttempt(a)
  PROVE  FreshInv' /\ RunInv' /\ SeqInv'
<1>0. att[a].pc = "scheduled" /\ UNCHANGED <<runs, cache, wf, mark, overlaps>>
      /\ TypeOK /\ FreshInv /\ RunInv /\ SeqInv
  BY DEF BeginAttempt, results, temporal, IInv
<1>1. Others(a) /\ \/ att'[a].pc = "report" /\ job' = job
                   \/ /\ att'[a].pc = "begun" /\ att'[a].linked = job.run
                      /\ att'[a].pos = att[a].pos
                      /\ att'[a].answered = att[a].answered
                      /\ job'.status = "running" /\ job'.run = job.run
  <2>1. CASE Goto(a, "report") /\ UNCHANGED job
    BY <1>0, <2>1, PcUpdate DEF Goto, OnlyPc, AttemptPc
  <2>2. CASE Write("running")
             /\ att' = [att EXCEPT ![a].pc = "begun", ![a].linked = job.run]
    BY <1>0, <2>2, BeginFacts DEF Write, TypeOK
  <2> QED
    BY <2>1, <2>2 DEF BeginAttempt
<1>2. FreshInv'
  <2>1. att[a].pos = 0 /\ att[a].answered = {}
    BY <1>0 DEF FreshInv
  <2> QED
    BY <1>0, <1>1, <2>1, FreshMove
<1>3. RunInv'
  <2>1. a \notin Published
    BY <1>0 DEF RunInv
  <2> QED
    BY <1>0, <1>1, <2>1, RunMove
<1>4. ASSUME ~Overlapped PROVE JobInv' /\ \A b \in Attempts : Sequential(b)'
  <2>1. wf.phase = "execute" /\ Current(a)
    BY <1>0, <1>4, NotWriting
  <2>2. Sequential(a)'
    BY <1>0, <1>1, <2>1
       DEF Sequential, Current, Alive, Working, OwnRun, AttemptPc, Terminal
  <2>3. JobInv'
    BY <1>0, <1>1, <1>4, <2>1 DEF SeqInv, JobInv, Published
  <2> QED
    BY <1>0, <1>1, <1>4, <2>2, <2>3, SeqMove
<1> QED
  BY <1>0, <1>2, <1>3, <1>4 DEF SeqInv, Overlapped

LEMMA StartStep ==
  ASSUME IInv, NEW a \in Attempts, StartRun(a)
  PROVE  FreshInv' /\ RunInv' /\ SeqInv'
<1>0. att[a].pc = "begun" /\ UNCHANGED <<job, runs, cache, wf, mark, overlaps>>
      /\ TypeOK /\ FreshInv /\ RunInv /\ SeqInv
  BY DEF StartRun, results, temporal, IInv
<1>1. /\ Others(a) /\ att'[a].linked = att[a].linked
      /\ \/ att'[a].pc = "reusing" /\ att'[a].run \in Published
         \/ /\ att'[a].pc = "extracting" /\ att'[a].loaded = cache
            /\ att'[a].pos = att[a].pos /\ att'[a].answered = att[a].answered
            /\ Published = {}
  <2>1. ASSUME NEW r \in Published,
               att' = [att EXCEPT ![a].pc = "reusing", ![a].run = r]
        PROVE  /\ Others(a) /\ att'[a].linked = att[a].linked
               /\ att'[a].pc = "reusing" /\ att'[a].run \in Published
    <3>1. r \in Attempts
      BY DEF Published
    <3> QED
      BY <1>0, <2>1, <3>1, ReuseFacts
  <2>2. CASE Published = {} /\ att' = [att EXCEPT ![a].pc = "extracting",
                                                  ![a].run = a, ![a].loaded = cache]
    BY <1>0, <2>2, OpenFacts
  <2> QED
    BY <2>1, <2>2 DEF StartRun
<1>2. FreshInv'
  BY <1>0, <1>1, FreshMove
<1>3. RunInv'
  <2>1. a \notin Published
    BY <1>0 DEF RunInv
  <2> QED
    BY <1>0, <1>1, <2>1, RunMove
<1>4. ASSUME ~Overlapped PROVE JobInv' /\ \A b \in Attempts : Sequential(b)'
  <2>1. Current(a)
    BY <1>0, <1>4, NotWriting DEF Alive, AttemptPc
  <2>2. job.status \notin Terminal /\ att[a].linked = job.run
    BY <1>0, <1>4 DEF SeqInv, Sequential, Working, Alive, AttemptPc
  <2>3. att[a].pos = 0 /\ att[a].answered = {} /\ 1 .. 0 = {}
    BY <1>0 DEF FreshInv
  <2>4. Sequential(a)'
    <3>1. CASE att'[a].pc = "reusing" /\ att'[a].run \in Published
      BY <1>0, <1>1, <2>1, <2>2, <3>1
         DEF Sequential, Current, Published, OwnRun, Working, Alive
    <3>2. CASE /\ att'[a].pc = "extracting" /\ att'[a].loaded = cache
               /\ att'[a].pos = 0 /\ att'[a].answered = {} /\ Published = {}
      BY <1>0, <1>1, <2>1, <2>2, <2>3, <3>2
         DEF Sequential, Current, Published, OwnRun, Working, Alive
    <3> QED
      BY <1>1, <2>3, <3>1, <3>2
  <2>5. JobInv'
    BY <1>0, <1>4 DEF SeqInv, JobInv, Published
  <2> QED
    BY <1>0, <1>1, <1>4, <2>4, <2>5, SeqMove DEF Alive, AttemptPc
<1> QED
  BY <1>0, <1>2, <1>3, <1>4 DEF SeqInv, Overlapped

LEMMA ChunkStep ==
  ASSUME IInv, NEW a \in Attempts, ExtractChunk(a) \/ FailChunk(a)
  PROVE  FreshInv' /\ RunInv' /\ SeqInv'
<1>0. att[a].pc = "extracting" /\ UNCHANGED <<job, runs, cache, wf, mark, overlaps>>
      /\ TypeOK /\ FreshInv /\ RunInv /\ SeqInv
  BY DEF ExtractChunk, FailChunk, temporal, IInv
<1>1. /\ Others(a) /\ att'[a].linked = att[a].linked /\ att'[a].loaded = att[a].loaded
      /\ \/ att'[a].pc = "rejecting"
         \/ /\ att'[a].pc = "extracted" /\ att'[a].fresh \subseteq Chunk(a)
            /\ att'[a].pos = att[a].pos /\ att'[a].answered = att[a].answered
  <2>1. CASE FailChunk(a)
    BY <1>0, <2>1, FailFacts DEF FailChunk
  <2>2. CASE ExtractChunk(a)
    BY <1>0, <2>2, ExtractFacts DEF ExtractChunk
  <2> QED
    BY <2>1, <2>2
<1>2. FreshInv'
  BY <1>0, <1>1, FreshMove
<1>3. RunInv'
  <2>1. a \notin Published
    BY <1>0 DEF RunInv
  <2> QED
    BY <1>0, <1>1, <2>1, RunMove
<1>4. ASSUME ~Overlapped PROVE JobInv' /\ \A b \in Attempts : Sequential(b)'
  <2>1. Current(a)
    BY <1>0, <1>4, NotWriting DEF Alive, AttemptPc
  <2>2. /\ job.status \notin Terminal /\ att[a].linked = job.run
        /\ Published = {} /\ att[a].loaded \subseteq cache
        /\ cache \subseteq att[a].loaded \cup (1 .. att[a].pos)
        /\ att[a].answered = cache \cap (1 .. att[a].pos)
    BY <1>0, <1>4 DEF SeqInv, Sequential, Working, OwnRun, Alive, AttemptPc
  <2>3. Sequential(a)'
    <3>1. CASE att'[a].pc = "rejecting"
      BY <1>0, <1>1, <2>1, <2>2, <3>1
         DEF Sequential, Current, Published, OwnRun, Working, Alive
    <3>2. CASE /\ att'[a].pc = "extracted" /\ att'[a].fresh \subseteq Chunk(a)
               /\ att'[a].pos = att[a].pos /\ att'[a].answered = att[a].answered
      <4>1. Chunk(a)' = Chunk(a)
        BY <3>2 DEF Chunk
      <4> QED
        BY <1>0, <1>1, <2>1, <2>2, <3>2, <4>1
           DEF Sequential, Current, Published, OwnRun, Working, Alive
    <3> QED
      BY <1>1, <3>1, <3>2
  <2>4. JobInv'
    BY <1>0, <1>4 DEF SeqInv, JobInv, Published
  <2> QED
    BY <1>0, <1>1, <1>4, <2>3, <2>4, SeqMove DEF Alive, AttemptPc
<1> QED
  BY <1>0, <1>2, <1>3, <1>4 DEF SeqInv, Overlapped

(* Behind the chunk lie the voices before it and the chunk itself.         *)
LEMMA ChunkBounds ==
  ASSUME TypeOK, NEW a \in Attempts
  PROVE  1 .. ChunkEnd(a) = (1 .. att[a].pos) \cup Chunk(a)
<1>1. att[a].pos \in 0 .. NumVoices
  BY RowOf DEF AttRow
<1> QED
  BY <1>1, SizesAssumption DEF Chunk, ChunkEnd, Voices

LEMMA CommitStep ==
  ASSUME IInv, NEW a \in Attempts, CommitChunk(a)
  PROVE  FreshInv' /\ RunInv' /\ SeqInv'
<1> DEFINE r == [runs EXCEPT ![a].status = "running"]
<1>0. /\ att[a].pc = "extracted" /\ UNCHANGED <<wf, mark, overlaps>>
      /\ TypeOK /\ FreshInv /\ RunInv /\ SeqInv
      /\ runs' = r /\ cache' = cache \cup att[a].fresh
      /\ job'.status = job.status /\ job'.run = LinkedTo(a, a)
  BY DEF CommitChunk, temporal, IInv, TypeOK
<1>1. /\ Others(a)
      /\ att'[a].pc = IF ChunkEnd(a) = NumVoices THEN "publishing" ELSE "extracting"
      /\ att'[a].pos = ChunkEnd(a) /\ att'[a].linked = a
      /\ att'[a].loaded = att[a].loaded
      /\ att'[a].answered =
           att[a].answered \cup att[a].fresh \cup (Chunk(a) \cap att[a].loaded)
  BY <1>0, CommitFacts
<1>2. FreshInv'
  BY <1>0, <1>1, FreshMove
<1>3. Published' = Published /\ a \notin Published
  <2>1. a \notin Published
    BY <1>0 DEF RunInv
  <2>2. \A b \in Attempts : r[b].status = IF b = a THEN "running" ELSE runs[b].status
    BY <1>0 DEF TypeOK
  <2> QED
    BY <1>0, <2>1, <2>2 DEF Published
<1>4. RunInv'
  <2>1. \A b \in Attempts : runs'[b].accounted = runs[b].accounted
                            /\ runs'[b].answered = runs[b].answered
    BY <1>0 DEF TypeOK
  <2> QED
    BY <1>0, <1>1, <1>3, <2>1 DEF RunInv, NoPartialPublication, Others
<1>5. ASSUME ~Overlapped PROVE JobInv' /\ \A b \in Attempts : Sequential(b)'
  <2>1. wf.phase = "execute" /\ Current(a)
    BY <1>0, <1>5, NotWriting DEF Alive, AttemptPc
  <2>2. /\ job.status \notin Terminal /\ att[a].linked = job.run
        /\ Published = {} /\ att[a].loaded \subseteq cache
        /\ cache \subseteq att[a].loaded \cup (1 .. att[a].pos)
        /\ att[a].answered = cache \cap (1 .. att[a].pos)
        /\ att[a].fresh \subseteq Chunk(a)
    BY <1>0, <1>5 DEF SeqInv, Sequential, Working, OwnRun, Alive, AttemptPc
  <2>3. job'.run = a
    BY <1>0, <2>2 DEF LinkedTo
  <2>4. cache' \subseteq att[a].loaded \cup (1 .. ChunkEnd(a))
    BY <1>0, <2>2, ChunkBounds
  <2>5. att'[a].answered = cache' \cap (1 .. ChunkEnd(a))
    <3> DEFINE before == 1 .. att[a].pos
    <3>1. 1 .. ChunkEnd(a) = before \cup Chunk(a)
      BY <1>0, ChunkBounds
    <3>2. /\ cache' = cache \cup att[a].fresh
          /\ att[a].answered = cache \cap before
          /\ att'[a].answered =
               att[a].answered \cup att[a].fresh \cup (Chunk(a) \cap att[a].loaded)
          /\ att[a].loaded \subseteq cache /\ cache \subseteq att[a].loaded \cup before
          /\ att[a].fresh \subseteq Chunk(a)
      BY <1>0, <1>1, <2>2
    <3> HIDE DEF before
    <3> QED
      BY <3>1, <3>2
  <2>6. Sequential(a)'
    <3>1. att'[a].pc \in {"extracting", "publishing"}
      BY <1>1
    <3>2. att'[a].loaded \subseteq cache'
      BY <1>0, <1>1, <2>2
    <3> QED
      BY <1>0, <1>1, <1>3, <2>1, <2>2, <2>3, <2>4, <2>5, <3>1, <3>2
         DEF Sequential, Current
  <2>7. JobInv'
    BY <1>0, <1>3, <1>5, <2>1, <2>2 DEF SeqInv, JobInv, Terminal
  <2> QED
    BY <1>0, <1>1, <1>5, <2>6, <2>7, SeqMove DEF Alive, AttemptPc
<1> QED
  BY <1>0, <1>2, <1>4, <1>5 DEF SeqInv, Overlapped

LEMMA PublishStep ==
  ASSUME IInv, NEW a \in Attempts, PublishBatch(a)
  PROVE  FreshInv' /\ RunInv' /\ SeqInv'
<1>0. /\ att[a].pc = "publishing" /\ UNCHANGED <<cache, wf, mark, overlaps>>
      /\ TypeOK /\ FreshInv /\ RunInv /\ SeqInv
      /\ job'.status = "succeeded" /\ job'.run = LinkedTo(a, a)
      /\ runs' = [runs EXCEPT ![a] =
           [status |-> "pending_review", accounted |-> 1 .. att[a].pos,
            answered |-> att[a].answered]]
  BY DEF PublishBatch, temporal, IInv
<1>1. Others(a) /\ att'[a].pc = "report"
  BY <1>0, PcUpdate DEF PublishBatch, Goto, OnlyPc, AttemptPc
<1>2. FreshInv'
  BY <1>0, <1>1, FreshMove
<1>3. /\ runs'[a].status = "pending_review" /\ runs'[a].accounted = 1 .. att[a].pos
      /\ runs'[a].answered = att[a].answered
      /\ \A b \in Attempts : b # a => runs'[b] = runs[b]
  BY <1>0 DEF TypeOK
<1>4. Published' = Published \cup {a}
  BY <1>3 DEF Published
<1>5. RunInv'
  <2>1. 1 .. att[a].pos = Voices
    BY <1>0 DEF RunInv, Voices
  <2>2. NoPartialPublication'
    BY <1>0, <1>3, <1>4, <2>1 DEF RunInv, NoPartialPublication, Voices
  <2> QED
    BY <1>0, <1>1, <1>4, <2>2 DEF RunInv, Others
<1>6. ASSUME ~Overlapped PROVE JobInv' /\ \A b \in Attempts : Sequential(b)'
  <2>1. wf.phase = "execute" /\ Current(a)
    BY <1>0, <1>6, NotWriting DEF Alive, AttemptPc
  <2>2. /\ att[a].linked = job.run /\ Published = {}
        /\ att[a].answered = cache \cap (1 .. att[a].pos)
    BY <1>0, <1>6 DEF SeqInv, Sequential, Working, OwnRun, Alive, AttemptPc
  <2>3. job'.run = a
    BY <1>0, <2>2 DEF LinkedTo
  <2>4. att[a].answered = cache
    BY <1>0, <2>2 DEF RunInv, TypeOK, Voices
  <2>5. JobInv'
    BY <1>0, <1>3, <1>4, <1>6, <2>1, <2>2, <2>3, <2>4 DEF SeqInv, JobInv
  <2>6. Sequential(a)'
    BY <1>0, <1>1, <2>1 DEF Sequential, Current, Working, OwnRun
  <2> QED
    BY <1>0, <1>1, <1>6, <2>5, <2>6, SeqMove DEF Alive, AttemptPc
<1> QED
  BY <1>0, <1>2, <1>5, <1>6 DEF SeqInv, Overlapped

LEMMA RejectStep ==
  ASSUME IInv, NEW a \in Attempts, RejectBatch(a)
  PROVE  FreshInv' /\ RunInv' /\ SeqInv'
<1>0. /\ att[a].pc \in {"rejecting", "publishing"}
      /\ UNCHANGED <<cache, wf, mark, overlaps>>
      /\ TypeOK /\ FreshInv /\ RunInv /\ SeqInv
      /\ job'.status = "failed"
      /\ runs' = [runs EXCEPT ![a].status = "failed"]
  BY DEF RejectBatch, temporal, IInv
<1>1. Others(a) /\ att'[a].pc = "report"
  BY <1>0, PcUpdate DEF RejectBatch, Goto, OnlyPc, AttemptPc
<1>2. FreshInv'
  BY <1>0, <1>1, FreshMove
<1>3. \A b \in Attempts :
        /\ runs'[b].status = IF b = a THEN "failed" ELSE runs[b].status
        /\ runs'[b].accounted = runs[b].accounted
        /\ runs'[b].answered = runs[b].answered
  BY <1>0 DEF TypeOK
<1>4. Published' = Published
  <2>1. a \notin Published
    BY <1>0 DEF RunInv
  <2> QED
    BY <1>3, <2>1 DEF Published
<1>5. RunInv'
  BY <1>0, <1>1, <1>3, <1>4 DEF RunInv, NoPartialPublication, Others
<1>6. ASSUME ~Overlapped PROVE JobInv' /\ \A b \in Attempts : Sequential(b)'
  <2>1. wf.phase = "execute" /\ Current(a)
    BY <1>0, <1>6, NotWriting DEF Alive, AttemptPc
  <2>2. JobInv'
    BY <1>0, <1>3, <1>4, <1>6, <2>1 DEF SeqInv, JobInv, Published
  <2>3. Sequential(a)'
    BY <1>0, <1>1, <2>1 DEF Sequential, Current, Working, OwnRun
  <2> QED
    BY <1>0, <1>1, <1>6, <2>2, <2>3, SeqMove DEF Alive, AttemptPc
<1> QED
  BY <1>0, <1>2, <1>5, <1>6 DEF SeqInv, Overlapped

LEMMA ReuseStep ==
  ASSUME IInv, NEW a \in Attempts, ReuseRun(a)
  PROVE  FreshInv' /\ RunInv' /\ SeqInv'
<1>0. /\ att[a].pc = "reusing" /\ UNCHANGED <<runs, cache, wf, mark, overlaps>>
      /\ TypeOK /\ FreshInv /\ RunInv /\ SeqInv
      /\ job'.status = "succeeded" /\ job'.run = LinkedTo(a, att[a].run)
  BY DEF ReuseRun, temporal, results, IInv
<1>1. Others(a) /\ att'[a].pc = "report"
  BY <1>0, PcUpdate DEF ReuseRun, Goto, OnlyPc, AttemptPc
<1>2. FreshInv'
  BY <1>0, <1>1, FreshMove
<1>3. RunInv'
  BY <1>0, <1>1, RunMove
<1>4. ASSUME ~Overlapped PROVE JobInv' /\ \A b \in Attempts : Sequential(b)'
  <2>1. wf.phase = "execute" /\ Current(a)
    BY <1>0, <1>4, NotWriting DEF Alive, AttemptPc
  <2>2. att[a].linked = job.run /\ att[a].run \in Published
    BY <1>0, <1>4 DEF SeqInv, Sequential, Working, Alive, AttemptPc
  <2>3. job'.run = att[a].run
    BY <1>0, <2>2 DEF LinkedTo
  <2>4. JobInv'
    BY <1>0, <1>4, <2>1, <2>2, <2>3 DEF SeqInv, JobInv, Published
  <2>5. Sequential(a)'
    BY <1>0, <1>1, <2>1 DEF Sequential, Current, Working, OwnRun
  <2> QED
    BY <1>0, <1>1, <1>4, <2>4, <2>5, SeqMove DEF Alive, AttemptPc
<1> QED
  BY <1>0, <1>2, <1>3, <1>4 DEF SeqInv, Overlapped

(* The process of the attempt ends, and the execution perhaps with it.     *)
LEMMA EndStep ==
  ASSUME IInv, NEW a \in Attempts, Report(a) \/ Crash(a)
  PROVE  FreshInv' /\ RunInv' /\ SeqInv'
<1>0. /\ att[a].pc \in Alive \cup {"scheduled"}
      /\ UNCHANGED <<job, runs, cache, mark, overlaps>>
      /\ wf'.exec = wf.exec /\ wf'.attempt = wf.attempt
      /\ wf' = wf \/ wf'.phase = "closed"
      /\ TypeOK /\ FreshInv /\ RunInv /\ SeqInv
  BY DEF Report, Crash, results, temporal, IInv, TypeOK, Alive, AttemptPc
<1>1. Others(a) /\ att'[a].pc \in {"done", "dead"}
  BY <1>0, EndFacts DEF Report, Crash, AttemptPc
<1>2. FreshInv'
  BY <1>0, <1>1, FreshMove DEF Alive, AttemptPc
<1>3. RunInv'
  BY <1>0, <1>1, RunMove
<1>4. ASSUME ~Overlapped PROVE JobInv' /\ \A b \in Attempts : Sequential(b)'
  <2>1. wf.phase = "execute"
    BY <1>0, <1>4, NotWriting
  <2>2. JobInv'
    BY <1>0, <1>4, <2>1 DEF SeqInv, JobInv, Published
  <2>3. Sequential(a)'
    BY <1>1, IdleIsSequential
  <2> QED
    BY <1>0, <1>1, <1>4, <2>2, <2>3, SeqMove
<1> QED
  BY <1>0, <1>2, <1>3, <1>4 DEF SeqInv, Overlapped

(* Temporal schedules an attempt that it had not reached.                  *)
LEMMA ScheduleStep ==
  ASSUME TypeOK, FreshInv, RunInv, NEW a \in Attempts, Later(a),
         att' = Schedule(a), UNCHANGED runs,
         \A b \in Attempts : Later(b)' => Later(b) /\ b # a
  PROVE  FreshInv' /\ RunInv'
<1>1. att[a].pc = "none" /\ att[a].pos = 0 /\ att[a].answered = {}
  BY DEF FreshInv
<1>2. OnlyPc(a, "scheduled")
  BY ScheduleType
<1>3. FreshInv'
  BY <1>1, <1>2 DEF FreshInv, OnlyPc, Others
<1>4. RunInv'
  BY <1>1, <1>2, RunMove DEF OnlyPc, RunInv
<1> QED
  BY <1>3, <1>4

(* ... and it is then the only one that works.                             *)
LEMMA ScheduledAlone ==
  ASSUME TypeOK, NEW a \in Attempts, att' = Schedule(a), Current(a)',
         \A b \in Attempts \ {a} : att[b].pc \in {"none", "done", "dead"}
  PROVE  \A b \in Attempts : Sequential(b)'
<1>1. OnlyPc(a, "scheduled")
  BY ScheduleType
<1>2. Sequential(a)'
  BY <1>1 DEF OnlyPc, Sequential, Working, Alive, OwnRun
<1>3. ASSUME NEW b \in Attempts, b # a PROVE Sequential(b)'
  BY <1>1, <1>3, IdleIsSequential DEF OnlyPc, Others
<1> QED
  BY <1>2, <1>3

LEMMA NobodyWorks ==
  ASSUME TypeOK, SeqInv, ~Overlapped, NEW b \in Attempts, ~Current(b)
  PROVE  att[b].pc \in {"none", "done", "dead"}
  BY RowOf DEF SeqInv, Sequential, Alive, AttRow

LEMMA EnqueueStep ==
  ASSUME IInv, NEW u \in Uploads, Enqueue(u)
  PROVE  FreshInv' /\ RunInv' /\ SeqInv'
<1>0. TypeOK /\ FreshInv /\ RunInv /\ SeqInv /\ UNCHANGED <<job, runs, cache, overlaps>>
  BY DEF IInv, Enqueue, results
<1>1. CASE UNCHANGED <<wf, mark, att>>
  BY <1>0, <1>1, RowWriteStep DEF results, temporal
<1>2. CASE wf.phase = "closed" /\ wf.exec < MaxExecutions
           /\ wf' = [exec |-> wf.exec + 1, attempt |-> 1, phase |-> "execute"]
           /\ mark' = [pc |-> "idle", tries |-> 0]
           /\ att' = Schedule(<<wf.exec + 1, 1>>)
  <2>1. wf.exec \in Nat /\ wf.attempt \in Nat
    BY <1>0, <1>2, SizesAssumption DEF TypeOK
  <2>a. PICK a \in Attempts : a = <<wf.exec + 1, 1>>
    BY <1>2, <2>1, SizesAssumption DEF Attempts
  <2>2. \A b \in Attempts : b[1] \in Nat /\ b[2] \in Nat /\ b[2] >= 1 /\ b = <<b[1], b[2]>>
    BY SizesAssumption DEF Attempts
  <2>3. wf'.exec = wf.exec + 1 /\ wf'.attempt = 1 /\ wf'.phase = "execute"
        /\ mark'.pc = "idle"
    BY <1>2
  <2>4. Later(a) /\ Current(a)'
    BY <2>1, <2>3, <2>a DEF Later, Current
  <2>5. \A b \in Attempts : Later(b)' => Later(b) /\ b # a
    BY <2>1, <2>2, <2>3, <2>a DEF Later
  <2>6. FreshInv' /\ RunInv'
    BY <1>0, <1>2, <2>4, <2>5, <2>a, ScheduleStep
  <2>7. ASSUME ~Overlapped PROVE JobInv' /\ \A b \in Attempts : Sequential(b)'
    <3>1. \A b \in Attempts : att[b].pc \in {"none", "done", "dead"}
      BY <1>0, <1>2, <2>7, NobodyWorks DEF Current
    <3>2. JobInv'
      BY <1>0, <2>3, <2>7 DEF SeqInv, JobInv, Published
    <3> QED
      BY <1>0, <1>2, <2>4, <2>a, <3>1, <3>2, ScheduledAlone
  <2> QED
    BY <1>0, <2>6, <2>7 DEF SeqInv, Overlapped
<1> QED
  BY <1>1, <1>2 DEF Enqueue

LEMMA GiveUpStep ==
  ASSUME IInv, NEW a \in Attempts, RetryDead(a) \/ TimeOut(a)
  PROVE  FreshInv' /\ RunInv' /\ SeqInv'
<1>0. /\ TypeOK /\ FreshInv /\ RunInv /\ SeqInv /\ UNCHANGED <<job, runs, cache, mark>>
      /\ Current(a) /\ GiveUp(a)
  BY DEF IInv, RetryDead, TimeOut, results
<1>1. overlaps \in Nat /\ ((overlaps' = overlaps /\ att[a].pc = "dead") \/ overlaps' > 0)
  BY <1>0, SizesAssumption DEF RetryDead, TimeOut, TypeOK
<1>2. CASE wf.attempt < MaxAttempts
  <2>1. wf.exec \in Nat /\ wf.attempt \in Nat
    BY <1>0, <1>2, SizesAssumption DEF TypeOK
  <2>a. PICK b \in Attempts : b = <<wf.exec, wf.attempt + 1>>
    BY <1>0, <1>2, NextAttempt
  <2>2. wf'.exec = wf.exec /\ wf'.attempt = wf.attempt + 1 /\ wf'.phase = wf.phase
        /\ att' = Schedule(b)
    BY <1>0, <1>2, <2>a DEF GiveUp, TypeOK
  <2>3. \A c \in Attempts : c[1] \in Nat /\ c[2] \in Nat /\ c = <<c[1], c[2]>>
    BY DEF Attempts
  <2>4. Later(b) /\ Current(b)' /\ wf.phase = "execute"
    BY <1>0, <2>1, <2>2, <2>a DEF Later, Current
  <2>5. \A c \in Attempts : Later(c)' => Later(c) /\ c # b
    BY <2>1, <2>2, <2>3, <2>a DEF Later
  <2>6. FreshInv' /\ RunInv'
    BY <1>0, <2>2, <2>4, <2>5, ScheduleStep
  <2>7. ASSUME ~Overlapped' PROVE JobInv' /\ \A c \in Attempts : Sequential(c)'
    <3>1. overlaps' = overlaps /\ att[a].pc = "dead" /\ ~Overlapped
      BY <1>1, <2>7 DEF Overlapped
    <3>2. \A c \in Attempts : att[c].pc \in {"none", "done", "dead"}
      BY <1>0, <3>1, NobodyWorks DEF Current
    <3>3. JobInv'
      BY <1>0, <2>2, <3>1 DEF SeqInv, JobInv, Published
    <3> QED
      BY <1>0, <2>2, <2>4, <3>2, <3>3, ScheduledAlone
  <2> QED
    BY <2>6, <2>7 DEF SeqInv
<1>3. CASE ~(wf.attempt < MaxAttempts)
  <2>1. wf'.exec = wf.exec /\ wf'.attempt = wf.attempt /\ UNCHANGED att
    BY <1>0, <1>3 DEF GiveUp, TypeOK
  <2>2. FreshInv' /\ RunInv'
    BY <1>0, <2>1 DEF FreshInv, Later, RunInv, NoPartialPublication, Published
  <2>3. ASSUME ~Overlapped' PROVE JobInv' /\ \A c \in Attempts : Sequential(c)'
    <3>1. overlaps' = overlaps /\ att[a].pc = "dead" /\ ~Overlapped
      BY <1>1, <2>3 DEF Overlapped
    <3>2. \A c \in Attempts : att[c].pc \in {"none", "done", "dead"}
      BY <1>0, <3>1, NobodyWorks DEF Current
    <3>3. JobInv'
      BY <1>0, <3>1 DEF SeqInv, JobInv, Published, Current
    <3> QED
      BY <2>1, <3>2, <3>3, IdleIsSequential
  <2> QED
    BY <2>2, <2>3 DEF SeqInv
<1> QED
  BY <1>2, <1>3

LEMMA MarkStep ==
  ASSUME IInv, MarkRead \/ MarkWrite \/ MarkCrash
  PROVE  FreshInv' /\ RunInv' /\ SeqInv'
<1>0. /\ TypeOK /\ FreshInv /\ RunInv /\ SeqInv /\ wf.phase = "mark"
      /\ UNCHANGED <<att, runs, cache, overlaps>>
      /\ wf'.exec = wf.exec /\ wf'.attempt = wf.attempt
  BY DEF IInv, MarkRead, MarkWrite, MarkCrash, Close, results, TypeOK
<1>1. FreshInv' /\ RunInv'
  BY <1>0 DEF FreshInv, Later, RunInv, NoPartialPublication, Published
<1>2. ASSUME ~Overlapped PROVE JobInv' /\ \A b \in Attempts : Sequential(b)'
  <2>1. \A b \in Attempts : Sequential(b)'
    BY <1>0, <1>2, NobodyWorks, IdleIsSequential DEF Current
  <2>2. mark'.pc = "write" => wf'.phase = "mark" /\ job'.status \notin Terminal
    BY <1>0, <1>2 DEF SeqInv, JobInv, MarkRead, MarkWrite, MarkCrash, TypeOK
  <2>3. job' = job \/ job'.status = "failed"
    BY <1>0 DEF MarkRead, MarkWrite, MarkCrash, Write, TypeOK
  <2> QED
    BY <1>0, <1>2, <2>1, <2>2, <2>3 DEF SeqInv, JobInv, Published
<1> QED
  BY <1>0, <1>1, <1>2 DEF SeqInv, Overlapped

-----------------------------------------------------------------------------
(* The invariant, and what follows from it.                                *)

LEMMA InitInvariant == Init => IInv
<1> SUFFICES ASSUME Init PROVE FreshInv /\ RunInv /\ SeqInv
  BY TypeInit DEF IInv
<1>1. \A a \in Attempts : att[a] = Blank("none", 0) /\ runs[a].status = "none"
                          /\ runs[a].accounted = {}
  BY DEF Init
<1>2. \A a \in Attempts : att[a].pc = "none" /\ att[a].pos = 0 /\ att[a].answered = {}
  BY <1>1 DEF Blank
<1>3. Published = {}
  BY <1>1 DEF Published
<1>4. FreshInv /\ RunInv
  BY <1>1, <1>2, <1>3 DEF FreshInv, RunInv, NoPartialPublication
<1>5. JobInv
  BY <1>3 DEF Init, JobInv
<1>6. \A a \in Attempts : Sequential(a)
  BY <1>2 DEF Sequential, Alive, Working, OwnRun, AttemptPc
<1> QED
  BY <1>4, <1>5, <1>6 DEF SeqInv

LEMMA InvariantStep ==
  ASSUME IInv, [Next]_vars
  PROVE  IInv'
<1>1. TypeOK'
  BY TypeStep DEF IInv
<1>2. FreshInv' /\ RunInv' /\ SeqInv'
  <2>1. CASE UNCHANGED vars
    BY <2>1, RowWriteStep DEF vars
  <2>2. ASSUME NEW u \in Uploads, Request(u) \/ UploadCrash(u)
        PROVE  FreshInv' /\ RunInv' /\ SeqInv'
    BY <2>2, UploadStep, EnqueueStep DEF Request
  <2>3. ASSUME NEW a \in Attempts, Execute(a) \/ Crash(a)
        PROVE  FreshInv' /\ RunInv' /\ SeqInv'
    BY <2>3, BeginStep, StartStep, ChunkStep, CommitStep, PublishStep, RejectStep,
       ReuseStep, EndStep DEF Execute
  <2> QED
    BY <2>1, <2>2, <2>3, GiveUpStep, MarkStep DEF Next, Quiet
<1> QED
  BY <1>1, <1>2 DEF IInv

THEOREM InductiveInvariant == Spec => []IInv
  BY InitInvariant, InvariantStep, PTL DEF Spec

(* However attempts crash, overlap and are retried, a run owns nothing or  *)
(* the outcome of the whole batch (semantic_persistence.py 470-705).       *)
THEOREM PublicationIsAtomic == Spec => []NoPartialPublication
<1>1. IInv => NoPartialPublication
  BY DEF IInv, RunInv
<1> QED
  BY <1>1, InductiveInvariant, PTL

(* Attempts that follow one another publish at most one run.               *)
THEOREM BatchIsPublishedOnce == Spec => []PublishedOnce
<1>1. IInv => PublishedOnce
  BY DEF IInv, SeqInv, JobInv, PublishedOnce
<1> QED
  BY <1>1, InductiveInvariant, PTL

(* They publish every answer that was committed for the batch.             *)
THEOREM NoCheckpointIsLost == Spec => []CheckpointsPublished
<1>1. IInv => CheckpointsPublished
  BY DEF IInv, SeqInv, JobInv, CheckpointsPublished
<1> QED
  BY <1>1, InductiveInvariant, PTL

(* However attempts overlap, a run that the job names has been opened, and *)
(* a success has a publication behind it: an attempt that knows a run of   *)
(* the job knows it because the column holds one, and what an attempt      *)
(* wants to reuse stays published.                                         *)
LinkInv ==
  /\ job.run # None => runs[job.run].status # "none"
  /\ job.status = "succeeded" => Published # {} /\ job.run # None
  /\ \A a \in Attempts :
       /\ att[a].linked # None => job.run # None
       /\ att[a].pc = "reusing" => att[a].run \in Published

LEMMA LinkOfExecute ==
  ASSUME TypeOK, NEW a \in Attempts, Execute(a) \/ Crash(a)
  PROVE  /\ Others(a)
         /\ att'[a].linked \in {att[a].linked, job.run, None}
              \/ (CommitChunk(a) /\ att'[a].linked = a)
         /\ att'[a].pc = "reusing" => att'[a].run \in Published
<1>1. CASE ExtractChunk(a) \/ FailChunk(a)
  BY <1>1, ExtractFacts, FailFacts DEF ExtractChunk, FailChunk
<1>2. CASE BeginAttempt(a)
  BY <1>2, PcUpdate, BeginFacts DEF BeginAttempt, Goto, OnlyPc, AttemptPc
<1>3. CASE StartRun(a)
  <2>1. ASSUME NEW r \in Published,
               att' = [att EXCEPT ![a].pc = "reusing", ![a].run = r]
        PROVE  Others(a) /\ att'[a].linked = att[a].linked /\ att'[a].run \in Published
    <3>1. r \in Attempts
      BY DEF Published
    <3> QED
      BY <2>1, <3>1, ReuseFacts
  <2>2. CASE att' = [att EXCEPT ![a].pc = "extracting", ![a].run = a,
                                ![a].loaded = cache]
    BY <2>2, OpenFacts
  <2> QED
    BY <1>3, <2>1, <2>2 DEF StartRun
<1>4. CASE CommitChunk(a)
  BY <1>4, CommitFacts
<1>5. CASE PublishBatch(a) \/ RejectBatch(a) \/ ReuseRun(a)
  BY <1>5, PcUpdate DEF PublishBatch, RejectBatch, ReuseRun, Goto, OnlyPc, AttemptPc
<1>6. CASE Report(a) \/ Crash(a)
  BY <1>6, EndFacts DEF Report, Crash, AttemptPc
<1> QED
  BY <1>1, <1>2, <1>3, <1>4, <1>5, <1>6 DEF Execute

(* A step that leaves the runs alone.                                      *)
LEMMA LinkMove ==
  ASSUME LinkInv, UNCHANGED runs, job'.run = job.run,
         job'.status = "succeeded" => job.status = "succeeded",
         \A b \in Attempts :
           /\ att'[b].linked \in {att[b].linked, job.run, None}
           /\ att'[b].pc = "reusing" => att'[b].run \in Published
  PROVE  LinkInv'
  BY DEF LinkInv, Published

(* A step of attempt a that names run r, which is open from then on.       *)
LEMMA LinkWrite ==
  ASSUME TypeOK, LinkInv, NEW a \in Attempts, NEW r \in Attempts, Others(a),
         job'.run = LinkedTo(a, r),
         job'.status = "succeeded" => job.status = "succeeded" \/ Published' # {},
         runs'[r].status # "none",
         \A s \in Attempts : runs[s].status # "none" => runs'[s].status # "none",
         Published \subseteq Published',
         att'[a].pc = "reusing" => att'[a].run \in Published
  PROVE  LinkInv'
<1>1. job.run \in Attempts \cup {None}
  BY DEF TypeOK
<1>2. r # None
  BY NoneAssumption
<1>3. job'.run # None
  BY <1>2 DEF LinkedTo, LinkInv
<1>4. runs'[job'.run].status # "none"
  BY <1>1, <1>2 DEF LinkedTo, LinkInv
<1>5. \A b \in Attempts : att'[b].pc = "reusing" => att'[b].run \in Published'
  BY DEF LinkInv, Others
<1> QED
  BY <1>3, <1>4, <1>5 DEF LinkInv

LEMMA LinkExecute ==
  ASSUME IInv, LinkInv, NEW a \in Attempts, Execute(a) \/ Crash(a)
  PROVE  LinkInv'
<1>0. TypeOK /\ RunInv
  BY DEF IInv
<1>1. /\ Others(a)
      /\ att'[a].linked \in {att[a].linked, job.run, None}
           \/ (CommitChunk(a) /\ att'[a].linked = a)
      /\ att'[a].pc = "reusing" => att'[a].run \in Published
  BY <1>0, LinkOfExecute
<1>2. CASE /\ ~CommitChunk(a)
           /\ \/ BeginAttempt(a) \/ StartRun(a) \/ ExtractChunk(a) \/ FailChunk(a)
              \/ Report(a) \/ Crash(a)
  <2>1. UNCHANGED runs /\ job'.run = job.run
        /\ (job'.status = "succeeded" => job.status = "succeeded")
    BY <1>0, <1>2 DEF BeginAttempt, StartRun, ExtractChunk, FailChunk, Report, Crash,
                      Write, results, TypeOK
  <2> QED
    BY <1>1, <1>2, <2>1, LinkMove DEF Others, LinkInv
<1>3. CASE CommitChunk(a) \/ RejectBatch(a)
  <2>1. a \notin Published
    BY <1>0, <1>3 DEF RunInv, CommitChunk, RejectBatch
  <2>2. PICK st \in {"running", "failed"} : runs' = [runs EXCEPT ![a].status = st]
    BY <1>3 DEF CommitChunk, RejectBatch
  <2>3. \A s \in Attempts : runs'[s].status = IF s = a THEN st ELSE runs[s].status
    BY <1>0, <2>2 DEF TypeOK
  <2>4. Published' = Published
    BY <2>1, <2>3 DEF Published
  <2>5. job'.run = LinkedTo(a, a) /\ (job'.status = "succeeded" => job.status = "succeeded")
    BY <1>0, <1>3 DEF CommitChunk, RejectBatch, TypeOK
  <2> QED
    BY <1>0, <1>1, <2>3, <2>4, <2>5, LinkWrite
<1>4. CASE PublishBatch(a)
  <2>1. runs'[a].status = "pending_review"
        /\ \A s \in Attempts \ {a} : runs'[s] = runs[s]
    BY <1>0, <1>4 DEF PublishBatch, TypeOK
  <2>2. Published' = Published \cup {a}
    BY <2>1 DEF Published
  <2>3. job'.run = LinkedTo(a, a)
    BY <1>4 DEF PublishBatch
  <2> QED
    BY <1>0, <1>1, <2>1, <2>2, <2>3, LinkWrite
<1>5. CASE ReuseRun(a)
  <2>1. att[a].run \in Published /\ UNCHANGED runs
    BY <1>5 DEF ReuseRun, LinkInv, results
  <2>2. att[a].run \in Attempts /\ runs[att[a].run].status = "pending_review"
        /\ Published' = Published
    BY <2>1 DEF Published
  <2>3. job'.run = LinkedTo(a, att[a].run)
    BY <1>5 DEF ReuseRun
  <2> QED
    BY <1>0, <1>1, <2>1, <2>2, <2>3, LinkWrite
<1> QED
  BY <1>2, <1>3, <1>4, <1>5 DEF Execute

LEMMA LinkSchedule ==
  ASSUME TypeOK, LinkInv, NEW a \in Attempts, att' = Schedule(a), UNCHANGED <<job, runs>>
  PROVE  LinkInv'
<1>1. OnlyPc(a, "scheduled")
  BY ScheduleType
<1> QED
  BY <1>1, LinkMove DEF OnlyPc, Others, LinkInv

LEMMA LinkRequest ==
  ASSUME TypeOK, LinkInv, NEW u \in Uploads, Request(u) \/ UploadCrash(u)
  PROVE  LinkInv'
<1>1. CASE wf.exec < MaxExecutions /\ att' = Schedule(<<wf.exec + 1, 1>>)
           /\ UNCHANGED <<job, runs>>
  <2>1. <<wf.exec + 1, 1>> \in Attempts
    BY <1>1, SizesAssumption DEF Attempts, TypeOK
  <2> QED
    BY <1>1, <2>1, LinkSchedule
<1>2. CASE /\ UNCHANGED <<att, runs>> /\ job'.run = job.run
           /\ job'.status = "succeeded" => job.status = "succeeded"
  BY <1>2, LinkMove DEF LinkInv
<1> QED
  BY <1>1, <1>2
     DEF Request, Submit, Requeue, Enqueue, RecordDispatch, UploadCrash, Write, results, TypeOK

LEMMA LinkTemporal ==
  ASSUME TypeOK, LinkInv,
         (\E a \in Attempts : RetryDead(a) \/ TimeOut(a))
           \/ MarkRead \/ MarkWrite \/ MarkCrash
  PROVE  LinkInv'
<1>1. ASSUME NEW a \in Attempts, RetryDead(a) \/ TimeOut(a) PROVE LinkInv'
  <2>1. Current(a) /\ GiveUp(a) /\ UNCHANGED <<job, runs>>
    BY <1>1 DEF RetryDead, TimeOut, results
  <2>2. CASE wf.attempt < MaxAttempts
    BY <2>1, <2>2, NextAttempt, LinkSchedule DEF GiveUp
  <2>3. CASE ~(wf.attempt < MaxAttempts)
    BY <2>1, <2>3, LinkMove DEF GiveUp, LinkInv
  <2> QED
    BY <2>2, <2>3
<1>2. CASE MarkRead \/ MarkWrite \/ MarkCrash
  <2>1. /\ UNCHANGED <<att, runs>> /\ job'.run = job.run
        /\ job'.status = "succeeded" => job.status = "succeeded"
    BY <1>2 DEF MarkRead, MarkWrite, MarkCrash, Write, results, TypeOK
  <2> QED
    BY <2>1, LinkMove DEF LinkInv
<1> QED
  BY <1>1, <1>2

LEMMA LinkHolds == Spec => []LinkInv
<1>1. Init => LinkInv
  <2>1. Init => \A a \in Attempts : att[a] = Blank("none", 0)
    BY DEF Init
  <2> QED
    BY <2>1 DEF Init, LinkInv, Blank
<1>2. IInv /\ LinkInv /\ [Next]_vars => LinkInv'
  <2>1. CASE UNCHANGED vars
    BY <2>1 DEF vars, results, LinkInv, Published
  <2> QED
    BY <2>1, LinkExecute, LinkRequest, LinkTemporal DEF Next, Quiet, IInv
<1> QED
  BY <1>1, <1>2, InductiveInvariant, PTL DEF Spec

(* A job shown as succeeded has a publication behind it and names a run    *)
(* that was opened, however its attempts overlapped and wrote over each    *)
(* other; while they followed one another it names the published run       *)
(* itself (semantic_jobs.py 210-302, semantic_persistence.py 234-705).     *)
THEOREM SuccessIsBacked == Spec => []SucceededIsPublished
<1>1. IInv /\ LinkInv => SucceededIsPublished
  <2> SUFFICES ASSUME IInv, LinkInv, job.status = "succeeded"
               PROVE  /\ Published # {}
                      /\ job.run \in Attempts /\ runs[job.run].status # "none"
                      /\ ~Overlapped => job.run \in Published
    BY DEF SucceededIsPublished
  <2>1. Published # {} /\ job.run # None /\ runs[job.run].status # "none"
    BY DEF LinkInv
  <2>2. job.run \in Attempts
    BY <2>1 DEF IInv, TypeOK
  <2>3. ~Overlapped => job.run \in Published
    BY DEF IInv, SeqInv, JobInv
  <2> QED
    BY <2>1, <2>2, <2>3
<1> QED
  BY <1>1, InductiveInvariant, LinkHolds, PTL

-----------------------------------------------------------------------------
(* What no step does.                                                      *)

(* Provider calls are made by the attempt that extracts, and by no other.  *)
LEMMA CallsOfExecute ==
  ASSUME TypeOK, NEW a \in Attempts, Execute(a) \/ Crash(a), NEW b \in Attempts,
         att'[b].used # att[b].used
  PROVE  b = a /\ att[a].pc = "extracting"
<1>1. CASE ExtractChunk(a) \/ FailChunk(a)
  BY <1>1, ExtractFacts, FailFacts DEF ExtractChunk, FailChunk, Others
<1>2. CASE BeginAttempt(a)
  BY <1>2, PcUpdate, BeginFacts DEF BeginAttempt, Goto, OnlyPc, Others, AttemptPc
<1>3. CASE StartRun(a)
  <2>1. ASSUME NEW r \in Attempts,
               att' = [att EXCEPT ![a].pc = "reusing", ![a].run = r]
        PROVE  FALSE
    BY <2>1, ReuseFacts DEF Others
  <2>2. CASE att' = [att EXCEPT ![a].pc = "extracting", ![a].run = a,
                                ![a].loaded = cache]
    BY <2>2, OpenFacts DEF Others
  <2> QED
    BY <1>3, <2>1, <2>2 DEF StartRun, Published
<1>4. CASE CommitChunk(a)
  BY <1>4, CommitFacts DEF Others
<1>5. CASE PublishBatch(a) \/ RejectBatch(a) \/ ReuseRun(a)
  BY <1>5, PcUpdate
     DEF PublishBatch, RejectBatch, ReuseRun, Goto, OnlyPc, Others, AttemptPc
<1>6. CASE Report(a) \/ Crash(a)
  BY <1>6, EndFacts DEF Report, Crash, Others, AttemptPc
<1> QED
  BY <1>1, <1>2, <1>3, <1>4, <1>5, <1>6 DEF Execute

LEMMA CallsOfSchedule ==
  ASSUME TypeOK, NEW a \in Attempts, att' = Schedule(a), NEW b \in Attempts
  PROVE  att'[b].used = att[b].used
  BY ScheduleType DEF OnlyPc, Others

LEMMA CallsOfTemporal ==
  ASSUME TypeOK, NEW b \in Attempts,
         \/ \E u \in Uploads : Request(u) \/ UploadCrash(u)
         \/ \E a \in Attempts : RetryDead(a) \/ TimeOut(a)
         \/ MarkRead \/ MarkWrite \/ MarkCrash \/ UNCHANGED vars
  PROVE  att'[b].used = att[b].used
<1>1. ASSUME NEW u \in Uploads, Request(u) \/ UploadCrash(u)
      PROVE  att'[b].used = att[b].used
  <2>1. CASE wf.exec < MaxExecutions /\ att' = Schedule(<<wf.exec + 1, 1>>)
    <3>1. <<wf.exec + 1, 1>> \in Attempts
      BY <2>1, SizesAssumption DEF Attempts, TypeOK
    <3> QED
      BY <2>1, <3>1, CallsOfSchedule
  <2>2. CASE att' = att
    BY <2>2
  <2> QED
    BY <1>1, <2>1, <2>2
       DEF Request, Submit, Requeue, Enqueue, RecordDispatch, UploadCrash
<1>2. ASSUME NEW a \in Attempts, RetryDead(a) \/ TimeOut(a)
      PROVE  att'[b].used = att[b].used
  <2>1. Current(a) /\ GiveUp(a)
    BY <1>2 DEF RetryDead, TimeOut
  <2>2. CASE wf.attempt < MaxAttempts
    BY <2>1, <2>2, NextAttempt, CallsOfSchedule DEF GiveUp
  <2> QED
    BY <2>1, <2>2 DEF GiveUp
<1>3. CASE MarkRead \/ MarkWrite \/ MarkCrash \/ UNCHANGED vars
  BY <1>3 DEF MarkRead, MarkWrite, MarkCrash, vars
<1> QED
  BY <1>1, <1>2, <1>3

(* A voice that has a checkpoint is never sent to the provider again       *)
(* (semantic_persistence.py 299-323).                                      *)
THEOREM CheckpointsAreResumed == Spec => ResumeOnlyMissing
<1>1. ASSUME IInv, [Next]_vars, ~Overlapped, NEW a \in Attempts,
             att'[a].used > att[a].used
      PROVE  Missing(a) \cap cache = {}
  <2>1. TypeOK /\ SeqInv /\ att'[a].used # att[a].used
    BY <1>1, RowOf DEF IInv, AttRow
  <2>2. att[a].pc = "extracting"
    BY <1>1, <2>1, CallsOfExecute, CallsOfTemporal DEF Next, Quiet
  <2>3. cache \subseteq att[a].loaded \cup (1 .. att[a].pos)
    BY <1>1, <2>1, <2>2 DEF SeqInv, Sequential
  <2>4. Missing(a) \cap (1 .. att[a].pos) = {} /\ Missing(a) \cap att[a].loaded = {}
    BY <2>1, RowOf DEF Missing, Chunk, Voices, AttRow
  <2> QED
    BY <2>3, <2>4
<1>2. IInv /\ [Next]_vars =>
        [\A a \in Attempts : ~Overlapped /\ att'[a].used > att[a].used
                               => Missing(a) \cap cache = {}]_vars
  BY <1>1
<1> QED
  BY <1>2, InductiveInvariant, PTL DEF Spec, ResumeOnlyMissing

(* A final outcome is taken back only by a request still in flight, and    *)
(* exchanged for another only once an attempt was given up alive           *)
(* (semantic_jobs.py 210-222 and 289-302, sources.py 271-291).  Without an *)
(* overlap no attempt works on a finished job and the mark-failed activity *)
(* has not passed its check; with one, blind writers put final statuses    *)
(* only, since an attempt that begins looks first.                         *)
THEOREM OutcomeStands == Spec => OutcomeSticks
<1> DEFINE InFlight == \E u \in Uploads : up[u] \in {"requeue", "acked", "refused"}
                                           /\ up'[u] # up[u]
           Exchanged == Overlapped /\ job'.status \in Terminal
<1>1. ASSUME IInv, job.status \in Terminal, job'.status # job.status,
             NEW u \in Uploads, Request(u) \/ UploadCrash(u)
      PROVE  InFlight
  <2>1. Requeue(u) \/ RecordDispatch(u)
    BY <1>1 DEF Request, Submit, Enqueue, UploadCrash, Terminal
  <2>2. up[u] \in {"requeue", "acked", "refused"} /\ up'[u] \in {"enqueue", "done"}
    BY <1>1, <2>1 DEF Requeue, RecordDispatch, UploadGoto, IInv, TypeOK
  <2> QED
    BY <2>2
<1>2. ASSUME IInv, job.status \in Terminal, job'.status # job.status,
             NEW a \in Attempts, Execute(a) \/ Crash(a)
      PROVE  Exchanged
  <2>1. PublishBatch(a) \/ RejectBatch(a) \/ ReuseRun(a)
    BY <1>2 DEF Execute, BeginAttempt, StartRun, ExtractChunk, FailChunk, CommitChunk,
                Report, Crash, IInv, TypeOK
  <2>2. att[a].pc \in Working /\ job'.status \in Terminal
    BY <2>1 DEF PublishBatch, RejectBatch, ReuseRun, Working, Alive, AttemptPc, Terminal
  <2>3. Overlapped
    BY <1>2, <2>2 DEF IInv, SeqInv, Sequential
  <2> QED
    BY <2>2, <2>3
<1>3. ASSUME IInv, job.status \in Terminal, job'.status # job.status,
             MarkRead \/ MarkWrite \/ MarkCrash
      PROVE  Exchanged
  <2>1. MarkWrite
    BY <1>3 DEF MarkRead, MarkCrash
  <2>2. job'.status = "failed" /\ mark.pc = "write"
    BY <1>3, <2>1 DEF MarkWrite, Write, IInv, TypeOK
  <2>3. Overlapped
    BY <1>3, <2>2 DEF IInv, SeqInv, JobInv
  <2> QED
    BY <2>2, <2>3 DEF Terminal
<1>4. ASSUME IInv, [Next]_vars, job.status \in Terminal, job'.status # job.status
      PROVE  InFlight \/ Exchanged
  <2> HIDE DEF InFlight, Exchanged
  <2> QED
    BY <1>1, <1>2, <1>3, <1>4 DEF Next, Quiet, RetryDead, TimeOut, vars
<1>5. IInv /\ [Next]_vars =>
        [job.status \in Terminal /\ job'.status # job.status =>
           \/ \E u \in Uploads : up[u] \in {"requeue", "acked", "refused"} /\ up'[u] # up[u]
           \/ Overlapped /\ job'.status \in Terminal]_vars
  BY <1>4
<1> QED
  BY <1>5, InductiveInvariant, PTL DEF Spec, OutcomeSticks

-----------------------------------------------------------------------------
(* The core of ExecutionCloses.  The attempt that Temporal counts on has   *)
(* been scheduled and has not reported, no attempt exceeds the call limit, *)
(* and the mark-failed activity is not out of tries.                       *)
Awaited == Alive \cup {"scheduled", "dead"}

CurrentAttempt == <<wf.exec, wf.attempt>>

CurrentInv ==
  /\ wf.phase = "execute" => att[<<wf.exec, wf.attempt>>].pc \in Awaited
  /\ wf.phase = "execute" => mark.tries = 0
  /\ wf.phase = "mark" => mark.tries < MaxMarkAttempts
  /\ \A a \in Attempts : att[a].used <= CallLimit

LEMMA CallsFit ==
  ASSUME TypeOK, NEW a \in Attempts, ExtractChunk(a) \/ FailChunk(a), att[a].used <= CallLimit
  PROVE  att'[a].used <= CallLimit
<1>1. PICK n \in 0 .. CallLimit - att[a].used : att'[a].used = att[a].used + n
  <2>1. att[a] \in AttRow
    BY RowOf
  <2>2. ASSUME NEW n \in 0 .. CallLimit - att[a].used, NEW solved,
               att' = [att EXCEPT ![a].pc = "extracted", ![a].used = @ + n, ![a].fresh = solved]
        PROVE  att'[a].used = att[a].used + n
    <3>1. att'[a] = [att[a] EXCEPT !.pc = "extracted", !.used = @ + n, !.fresh = solved]
      BY <2>2 DEF TypeOK
    <3> QED
      BY <2>1, <3>1 DEF AttRow
  <2>3. ASSUME NEW n \in 0 .. CallLimit - att[a].used,
               att' = [att EXCEPT ![a].pc = "rejecting", ![a].used = @ + n]
        PROVE  att'[a].used = att[a].used + n
    <3>1. att'[a] = [att[a] EXCEPT !.pc = "rejecting", !.used = @ + n]
      BY <2>3 DEF TypeOK
    <3> QED
      BY <2>1, <3>1 DEF AttRow
  <2> QED
    BY <2>2, <2>3 DEF ExtractChunk, FailChunk
<1>2. att[a].used \in Nat
  BY RowOf DEF AttRow
<1> QED
  BY <1>1, <1>2, SizesAssumption

(* What a step of an attempt does to its record.                           *)
LEMMA AttemptMoves ==
  ASSUME TypeOK, FreshInv, NEW a \in Attempts, Execute(a) \/ Crash(a)
  PROVE  /\ Others(a)
         /\ UNCHANGED <<up, mark>>
         /\ att[a].used <= CallLimit => att'[a].used <= CallLimit
         /\ AttemptAhead(a)' < AttemptAhead(a)
         /\ \/ att'[a].pc \in Awaited /\ UNCHANGED wf
            \/ wf' = IF Current(a) THEN [wf EXCEPT !.phase = "closed"] ELSE wf
<1>0. /\ att[a] \in AttRow /\ NumVoices \in Nat \ {0} /\ BatchSize \in Nat \ {0}
      /\ att[a].pos \in 0 .. NumVoices
  BY RowOf, SizesAssumption DEF AttRow
<1>1. CASE BeginAttempt(a)
  <2>1. /\ Others(a) /\ att[a].pc = "scheduled" /\ att'[a].pc \in {"begun", "report"}
        /\ att'[a].used = att[a].used
    BY <1>1, PcUpdate, BeginFacts DEF BeginAttempt, Goto, OnlyPc, AttemptPc
  <2>2. AttemptAhead(a)' < AttemptAhead(a)
    BY <1>0, <2>1 DEF AttemptAhead
  <2> QED
    BY <1>1, <2>1, <2>2 DEF BeginAttempt, Awaited, Alive, AttemptPc, temporal
<1>2. CASE StartRun(a)
  <2>1. /\ Others(a) /\ att[a].pc = "begun" /\ att'[a].used = att[a].used
        /\ \/ att'[a].pc = "reusing"
           \/ att'[a].pc = "extracting" /\ att'[a].pos = att[a].pos
    BY <1>2, ReuseFacts, OpenFacts DEF StartRun, Published
  <2>2. AttemptAhead(a)' < AttemptAhead(a)
    BY <1>0, <2>1 DEF AttemptAhead
  <2> QED
    BY <1>2, <2>1, <2>2 DEF StartRun, Awaited, Alive, AttemptPc, temporal
<1>3. CASE ExtractChunk(a)
  <2>1. /\ Others(a) /\ att[a].pc = "extracting"
        /\ att'[a].pc = "extracted" /\ att'[a].pos = att[a].pos
    BY <1>3, ExtractFacts DEF ExtractChunk
  <2>2. AttemptAhead(a)' < AttemptAhead(a)
    BY <1>0, <2>1 DEF AttemptAhead
  <2> QED
    BY <1>3, <2>1, <2>2, CallsFit DEF ExtractChunk, Awaited, Alive, AttemptPc, temporal
<1>4. CASE FailChunk(a)
  <2>1. Others(a) /\ att[a].pc = "extracting" /\ att'[a].pc = "rejecting"
    BY <1>4, FailFacts DEF FailChunk
  <2>2. AttemptAhead(a)' < AttemptAhead(a)
    BY <1>0, <2>1 DEF AttemptAhead
  <2> QED
    BY <1>4, <2>1, <2>2, CallsFit DEF FailChunk, Awaited, Alive, AttemptPc, temporal
<1>5. CASE CommitChunk(a)
  <2>1. /\ Others(a) /\ att[a].pc = "extracted" /\ att'[a].used = att[a].used
        /\ att'[a].pos = ChunkEnd(a)
        /\ att'[a].pc = IF ChunkEnd(a) = NumVoices THEN "publishing" ELSE "extracting"
    BY <1>5, CommitFacts DEF CommitChunk
  <2>2. ChunkEnd(a) # NumVoices => ChunkEnd(a) \in Nat /\ ChunkEnd(a) >= att[a].pos + 1
    BY <1>0 DEF ChunkEnd
  <2>3. AttemptAhead(a)' < AttemptAhead(a)
    BY <1>0, <2>1, <2>2 DEF AttemptAhead
  <2> QED
    BY <1>5, <2>1, <2>3 DEF CommitChunk, Awaited, Alive, AttemptPc, temporal
<1>6. CASE PublishBatch(a) \/ RejectBatch(a) \/ ReuseRun(a)
  <2>1. /\ Others(a) /\ att[a].pc \in {"publishing", "rejecting", "reusing"}
        /\ att'[a].pc = "report" /\ att'[a].used = att[a].used
    BY <1>6, PcUpdate
       DEF PublishBatch, RejectBatch, ReuseRun, Goto, OnlyPc, AttemptPc
  <2>2. AttemptAhead(a)' < AttemptAhead(a)
    BY <2>1 DEF AttemptAhead
  <2> QED
    BY <1>6, <2>1, <2>2
       DEF PublishBatch, RejectBatch, ReuseRun, Awaited, Alive, AttemptPc, temporal
<1>7. CASE Report(a) \/ Crash(a)
  <2>1. /\ Others(a) /\ att[a].pc \in Alive \cup {"scheduled"}
        /\ att'[a].pc = IF Report(a) THEN "done" ELSE "dead"
        /\ att'[a].used = att[a].used
    <3>1. CASE Report(a)
      BY <3>1, EndFacts DEF Report, AttemptPc, Alive
    <3>2. CASE Crash(a) /\ ~ Report(a)
      BY <3>2, EndFacts DEF Crash, AttemptPc
    <3> QED
      BY <1>7, <3>1, <3>2
  <2>2. AttemptAhead(a)' = 0
    BY <2>1 DEF AttemptAhead
  <2>3. AttemptAhead(a) > 0
    BY <1>0, <2>1 DEF AttemptAhead, Alive, AttemptPc
  <2> QED
    BY <1>7, <2>1, <2>2, <2>3 DEF Report, Crash, Awaited, temporal
<1> QED
  BY <1>1, <1>2, <1>3, <1>4, <1>5, <1>6, <1>7 DEF Execute

LEMMA ScheduledMoves ==
  ASSUME TypeOK, FreshInv, NEW a \in Attempts, Later(a), att' = Schedule(a)
  PROVE  /\ Others(a) /\ att'[a].pc = "scheduled" /\ att'[a].used = att[a].used
         /\ AttemptAhead(a)' < AttemptAhead(a)
<1>1. /\ Others(a) /\ att'[a].pc = "scheduled" /\ att'[a].used = att[a].used
      /\ att[a].pc = "none"
  BY ScheduleType DEF OnlyPc, FreshInv
<1> QED
  BY <1>1, SizesAssumption DEF AttemptAhead

(* What starting an execution does.                                        *)
Starts(a) ==
  /\ wf.phase = "closed" /\ a = <<wf.exec + 1, 1>> /\ att' = Schedule(a)
  /\ wf' = [exec |-> wf.exec + 1, attempt |-> 1, phase |-> "execute"]
  /\ mark' = [pc |-> "idle", tries |-> 0]

LEMMA EnqueueMoves ==
  ASSUME TypeOK, FreshInv, NEW u \in Uploads, Enqueue(u)
  PROVE  /\ up[u] = "enqueue" /\ up'[u] \in {"acked", "refused"}
         /\ \A w \in Uploads \ {u} : up'[w] = up[w]
         /\ \/ UNCHANGED <<wf, mark, att>>
            \/ \E a \in Attempts : Later(a) /\ Starts(a)
<1>1. /\ up[u] = "enqueue" /\ up'[u] \in {"acked", "refused"}
      /\ \A w \in Uploads \ {u} : up'[w] = up[w]
  BY DEF Enqueue, UploadGoto, TypeOK
<1>2. CASE UNCHANGED <<wf, mark, att>>
  BY <1>1, <1>2
<1>3. CASE ~ UNCHANGED <<wf, mark, att>>
  <2>1. wf.exec < MaxExecutions /\ wf.exec \in 0 .. MaxExecutions /\ Starts(<<wf.exec + 1, 1>>)
    BY <1>3 DEF Enqueue, TypeOK, Starts
  <2>2. <<wf.exec + 1, 1>> \in Attempts /\ Later(<<wf.exec + 1, 1>>)
    BY <2>1, SizesAssumption DEF Attempts, Later
  <2> QED
    BY <1>1, <2>1, <2>2
<1> QED
  BY <1>2, <1>3

LEMMA GiveUpMoves ==
  ASSUME TypeOK, FreshInv, NEW a \in Attempts, RetryDead(a) \/ TimeOut(a)
  PROVE  /\ UNCHANGED <<up, mark>> /\ wf.phase = "execute" /\ wf'.exec = wf.exec
         /\ \/ /\ wf'.phase = "mark" /\ UNCHANGED att
            \/ /\ wf'.phase = "execute"
               /\ \E b \in Attempts :
                    Later(b) /\ b = <<wf'.exec, wf'.attempt>> /\ att' = Schedule(b)
<1>0. Current(a) /\ GiveUp(a) /\ UNCHANGED <<up, mark>> /\ wf.phase = "execute"
  BY DEF RetryDead, TimeOut, Current
<1>1. CASE wf.attempt < MaxAttempts
  <2>1. /\ wf'.exec = wf.exec /\ wf'.attempt = wf.attempt + 1 /\ wf'.phase = "execute"
        /\ att' = Schedule(<<wf.exec, wf.attempt + 1>>)
    BY <1>0, <1>1 DEF GiveUp, TypeOK
  <2>2. <<wf.exec, wf.attempt + 1>> \in Attempts /\ Later(<<wf.exec, wf.attempt + 1>>)
    BY <1>0, <1>1, NextAttempt, SizesAssumption DEF Later, TypeOK
  <2> QED
    BY <1>0, <2>1, <2>2
<1>2. CASE ~(wf.attempt < MaxAttempts)
  BY <1>0, <1>2 DEF GiveUp, TypeOK
<1> QED
  BY <1>1, <1>2

LEMMA CurrentStep == IInv /\ CurrentInv /\ [Next]_vars => CurrentInv'
<1> SUFFICES ASSUME IInv, CurrentInv, [Next]_vars PROVE CurrentInv'
  OBVIOUS
<1>0. TypeOK /\ FreshInv /\ MaxMarkAttempts \in Nat \ {0}
  BY SizesAssumption DEF IInv
<1>1. CASE UNCHANGED <<att, wf, mark>>
  BY <1>1 DEF CurrentInv
<1>2. ASSUME NEW a \in Attempts, Execute(a) \/ Crash(a)
      PROVE  CurrentInv'
  <2>1. /\ Others(a) /\ UNCHANGED mark
        /\ att[a].used <= CallLimit => att'[a].used <= CallLimit
        /\ \/ att'[a].pc \in Awaited /\ UNCHANGED wf
           \/ wf' = IF Current(a) THEN [wf EXCEPT !.phase = "closed"] ELSE wf
    BY <1>0, <1>2, AttemptMoves
  <2>2. \A b \in Attempts : att'[b].used <= CallLimit
    BY <2>1 DEF Others, CurrentInv
  <2>3. CASE UNCHANGED wf /\ (att'[a].pc \in Awaited \/ ~ Current(a))
    <3>1. ASSUME wf.phase = "execute"
          PROVE  att'[CurrentAttempt].pc \in Awaited
      <4>1. CurrentAttempt \in Attempts
        BY <1>0, <3>1, SizesAssumption DEF TypeOK, CurrentAttempt, Attempts
      <4>2. CASE CurrentAttempt = a
        BY <2>3, <3>1, <4>2 DEF CurrentAttempt, Current
      <4>3. CASE CurrentAttempt # a
        BY <2>1, <3>1, <4>1, <4>3 DEF Others, CurrentInv, CurrentAttempt
      <4> QED
        BY <4>2, <4>3
    <3> QED
      BY <2>1, <2>2, <2>3, <3>1 DEF CurrentInv, CurrentAttempt
  <2>4. CASE Current(a) /\ wf' = [wf EXCEPT !.phase = "closed"]
    <3>1. wf'.phase = "closed"
      BY <1>0, <2>4 DEF TypeOK
    <3> QED
      BY <2>2, <3>1 DEF CurrentInv
  <2> QED
    BY <2>1, <2>3, <2>4
<1>3. ASSUME NEW u \in Uploads, Enqueue(u)
      PROVE  CurrentInv'
  <2>1. ASSUME NEW a \in Attempts, Later(a), Starts(a)
        PROVE  CurrentInv'
    <3>1. Others(a) /\ att'[a].pc = "scheduled" /\ att'[a].used = att[a].used
      BY <1>0, <2>1, ScheduledMoves DEF Starts
    <3>2. a = <<wf'.exec, wf'.attempt>> /\ wf'.phase = "execute" /\ mark'.tries = 0
      BY <2>1 DEF Starts
    <3> QED
      BY <3>1, <3>2 DEF CurrentInv, Others, Awaited
  <2> QED
    BY <1>0, <1>1, <1>3, <2>1, EnqueueMoves
<1>4. ASSUME NEW a \in Attempts, RetryDead(a) \/ TimeOut(a)
      PROVE  CurrentInv'
  <2>0. UNCHANGED mark /\ wf.phase = "execute"
    BY <1>0, <1>4, GiveUpMoves
  <2>1. CASE wf'.phase = "mark" /\ UNCHANGED att
    BY <1>0, <2>0, <2>1 DEF CurrentInv
  <2>2. ASSUME wf'.phase = "execute", NEW b \in Attempts, Later(b),
               b = <<wf'.exec, wf'.attempt>>, att' = Schedule(b)
        PROVE  CurrentInv'
    <3>1. Others(b) /\ att'[b].pc = "scheduled" /\ att'[b].used = att[b].used
      BY <1>0, <2>2, ScheduledMoves
    <3> QED
      BY <2>0, <2>2, <3>1 DEF CurrentInv, Others, Awaited
  <2> QED
    BY <1>0, <1>4, <2>1, <2>2, GiveUpMoves
<1>5. CASE MarkRead \/ MarkWrite
  BY <1>0, <1>5 DEF MarkRead, MarkWrite, Close, CurrentInv, TypeOK
<1>6. CASE MarkCrash
  <2>1. mark.tries \in 0 .. MaxMarkAttempts /\ mark.tries < MaxMarkAttempts /\ att' = att
    BY <1>0, <1>6 DEF MarkCrash, TypeOK
  <2>2. mark'.tries = mark.tries + 1 /\ wf.phase = "mark"
    BY <1>6 DEF MarkCrash
  <2>3. wf'.phase = IF mark.tries + 1 = MaxMarkAttempts THEN "closed" ELSE "mark"
    BY <1>0, <1>6 DEF MarkCrash, Close, TypeOK
  <2> QED
    BY <1>0, <2>1, <2>2, <2>3 DEF CurrentInv
<1>7. ASSUME NEW u \in Uploads,
             Submit(u) \/ Requeue(u) \/ RecordDispatch(u) \/ UploadCrash(u)
      PROVE  UNCHANGED <<att, wf, mark>>
  BY <1>7 DEF Submit, Requeue, RecordDispatch, UploadCrash, temporal
<1> QED
  BY <1>1, <1>2, <1>3, <1>4, <1>5, <1>6, <1>7 DEF Next, Quiet, Request, vars, temporal

LEMMA CurrentHolds == Spec => []CurrentInv
<1>1. Init => CurrentInv
  BY SizesAssumption DEF Init, CurrentInv, Blank
<1> QED
  BY <1>1, CurrentStep, InductiveInvariant, PTL DEF Spec

(* No execution waits for ever for nothing (workflow.py 119-143): its      *)
(* attempt is alive or retried, with whatever is left of the call limit    *)
(* the next chunk ends one way or the other, and mark-failed has a try.    *)
THEOREM ExecutionsNeverHang == Spec => []ExecutionNeverHangs
<1>1. IInv /\ CurrentInv => ExecutionNeverHangs
  <2> SUFFICES ASSUME IInv, CurrentInv PROVE ExecutionNeverHangs
    OBVIOUS
  <2>1. ASSUME NEW a \in Attempts PROVE ChunkGoesOn(a)
    <3>1. /\ att[a].used \in Nat /\ att[a].used <= CallLimit
          /\ CallLimit \in Nat /\ RetryMax \in Nat \ {0}
      BY RowOf, SizesAssumption DEF IInv, AttRow, CurrentInv
    <3> DEFINE left == CallLimit - att[a].used
    <3>2. left \in Nat
      BY <3>1
    <3> HIDE DEF left
    <3>3. Cardinality({}) = 0
      BY FS_EmptySet
    <3>4. CASE Missing(a) = {}
      <4>1. Missing(a) \ {} = {} /\ {} \in SUBSET Missing(a) /\ 0 \in 0 .. left
        BY <3>2, <3>4
      <4>2. 0 >= Cardinality({}) + RetryMax * Cardinality(Missing(a) \ {})
        BY <3>1, <3>3, <4>1
      <4>3. 0 <= RetryMax * Cardinality(Missing(a))
        BY <3>1, <3>3, <3>4
      <4> QED
        BY <4>1, <4>2, <4>3 DEF ChunkGoesOn, left
    <3>5. CASE Missing(a) # {} /\ left = 0
      <4>1. {} \in SUBSET Missing(a) /\ 0 \in 0 .. left
        BY <3>2
      <4>2. 0 >= Cardinality({}) /\ 0 <= RetryMax * Cardinality({})
        BY <3>1, <3>3
      <4> QED
        BY <3>5, <4>1, <4>2 DEF ChunkGoesOn, left
    <3>6. CASE Missing(a) # {} /\ left # 0
      <4>1. PICK v \in Missing(a) : TRUE
        BY <3>6
      <4>2. {v} \in SUBSET Missing(a) /\ {v} # {} /\ 1 \in 0 .. left
        BY <3>2, <3>6, <4>1
      <4>3. Cardinality({v}) = 1
        BY FS_Singleton
      <4>4. 1 >= Cardinality({v}) /\ 1 <= RetryMax * Cardinality({v})
        BY <3>1, <4>3
      <4> QED
        BY <3>6, <4>2, <4>4 DEF ChunkGoesOn, left
    <3> QED
      BY <3>4, <3>5, <3>6
  <2>2. wf.phase = "execute" => <<wf.exec, wf.attempt>> \in Attempts
    BY SizesAssumption DEF IInv, TypeOK, Attempts
  <2> QED
    BY <2>1, <2>2 DEF ExecutionNeverHangs, CurrentInv, Awaited
<1> QED
  BY <1>1, InductiveInvariant, CurrentHolds, PTL
-----------------------------------------------------------------------------
(* What no step may increase.                                              *)
UploadsCount == \A u \in Uploads : UploadAhead(u)' <= UploadAhead(u)
AttemptsCount == \A a \in Attempts : AttemptAhead(a)' <= AttemptAhead(a)
ExecutionsCount ==
  \A e \in 1 .. MaxExecutions : ExecutionAhead(e)' <= ExecutionAhead(e)
OneCounts ==
  \/ \E u \in Uploads : UploadAhead(u)' < UploadAhead(u)
  \/ \E a \in Attempts : AttemptAhead(a)' < AttemptAhead(a)
  \/ \E e \in 1 .. MaxExecutions : ExecutionAhead(e)' < ExecutionAhead(e)
StepCounts == UploadsCount /\ AttemptsCount /\ ExecutionsCount /\ OneCounts

LEMMA AheadType ==
  ASSUME TypeOK
  PROVE  /\ \A u \in Uploads : UploadAhead(u) \in Nat
         /\ \A a \in Attempts : AttemptAhead(a) \in Nat
         /\ \A e \in 1 .. MaxExecutions : ExecutionAhead(e) \in Nat
<1>1. \A u \in Uploads : UploadAhead(u) \in Nat
  BY DEF UploadAhead
<1>2. ASSUME NEW a \in Attempts PROVE AttemptAhead(a) \in Nat
  <2>1. NumVoices \in Nat /\ att[a].pos \in 0 .. NumVoices
    BY RowOf, SizesAssumption DEF AttRow
  <2>2. 2 * (NumVoices - att[a].pos) \in Nat
    BY <2>1
  <2> QED
    BY <2>1, <2>2 DEF AttemptAhead
<1>3. ASSUME NEW e \in 1 .. MaxExecutions PROVE ExecutionAhead(e) \in Nat
  <2>1. MaxMarkAttempts \in Nat /\ mark.tries \in 0 .. MaxMarkAttempts
    BY SizesAssumption DEF TypeOK
  <2>2. 2 * (MaxMarkAttempts - mark.tries) \in Nat
    BY <2>1
  <2> QED
    BY <2>1, <2>2 DEF ExecutionAhead
<1> QED
  BY <1>1, <1>2, <1>3

(* What a step does not touch has as much ahead of it as before.           *)
LEMMA AheadStays ==
  ASSUME TypeOK
  PROVE  /\ UNCHANGED up => UploadsCount
         /\ UNCHANGED att => AttemptsCount
         /\ UNCHANGED <<wf, mark>> => ExecutionsCount
<1>1. ASSUME UNCHANGED up PROVE UploadsCount
  <2>1. \A u \in Uploads : UploadAhead(u)' = UploadAhead(u)
    BY <1>1 DEF UploadAhead
  <2> QED
    BY <2>1, AheadType DEF UploadsCount
<1>2. ASSUME UNCHANGED att PROVE AttemptsCount
  <2>1. \A a \in Attempts : AttemptAhead(a)' = AttemptAhead(a)
    BY <1>2 DEF AttemptAhead
  <2> QED
    BY <2>1, AheadType DEF AttemptsCount
<1>3. ASSUME UNCHANGED <<wf, mark>> PROVE ExecutionsCount
  <2>1. \A e \in 1 .. MaxExecutions : ExecutionAhead(e)' = ExecutionAhead(e)
    BY <1>3 DEF ExecutionAhead
  <2> QED
    BY <2>1, AheadType DEF ExecutionsCount
<1> QED
  BY <1>1, <1>2, <1>3

(* The step of one upload, or of one attempt.                              *)
LEMMA OneUploadCounts ==
  ASSUME TypeOK, NEW u \in Uploads, \A w \in Uploads \ {u} : up'[w] = up[w],
         UploadAhead(u)' < UploadAhead(u)
  PROVE  UploadsCount /\ OneCounts
<1>1. \A w \in Uploads \ {u} : UploadAhead(w)' = UploadAhead(w)
  BY DEF UploadAhead
<1>2. UploadAhead(u)' \in Nat
  BY DEF UploadAhead
<1>3. \A w \in Uploads : UploadAhead(w) \in Nat
  BY AheadType
<1> QED
  BY <1>1, <1>2, <1>3 DEF UploadsCount, OneCounts

LEMMA OneAttemptCounts ==
  ASSUME TypeOK, TypeOK', NEW a \in Attempts, Others(a), AttemptAhead(a)' < AttemptAhead(a)
  PROVE  AttemptsCount /\ OneCounts
<1>1. \A b \in Attempts \ {a} : AttemptAhead(b)' = AttemptAhead(b)
  BY DEF AttemptAhead, Others
<1>2. AttemptAhead(a)' \in Nat
  <2>1. NumVoices \in Nat /\ att'[a].pos \in 0 .. NumVoices
    BY SizesAssumption DEF TypeOK
  <2>2. 2 * (NumVoices - att'[a].pos) \in Nat
    BY <2>1
  <2> QED
    BY <2>1, <2>2 DEF AttemptAhead
<1>3. \A b \in Attempts : AttemptAhead(b) \in Nat
  BY AheadType
<1> QED
  BY <1>1, <1>2, <1>3 DEF AttemptsCount, OneCounts

LEMMA RequestCounts ==
  ASSUME TypeOK, NEW u \in Uploads,
         Submit(u) \/ Requeue(u) \/ RecordDispatch(u) \/ UploadCrash(u)
  PROVE  StepCounts
<1>1. UNCHANGED <<att, wf, mark>> /\ \A w \in Uploads \ {u} : up'[w] = up[w]
  BY DEF Submit, Requeue, RecordDispatch, UploadCrash, UploadGoto, temporal, TypeOK
<1>2. \/ up[u] = "idle" /\ up'[u] \in {"requeue", "enqueue", "done"}
      \/ up[u] = "requeue" /\ up'[u] \in {"enqueue", "done"}
      \/ up[u] \in {"enqueue", "acked", "refused"} /\ up'[u] = "done"
  BY DEF Submit, Requeue, RecordDispatch, UploadCrash, UploadGoto, TypeOK, UploadPc
<1>3. UploadAhead(u)' < UploadAhead(u)
  BY <1>2 DEF UploadAhead
<1> QED
  BY <1>1, <1>3, AheadStays, OneUploadCounts DEF StepCounts

LEMMA EnqueueCounts ==
  ASSUME TypeOK, TypeOK', FreshInv, NEW u \in Uploads, Enqueue(u)
  PROVE  StepCounts
<1>1. UploadsCount /\ OneCounts
  <2>1. UploadAhead(u)' < UploadAhead(u)
    BY EnqueueMoves DEF UploadAhead
  <2> QED
    BY <2>1, EnqueueMoves, OneUploadCounts
<1>2. CASE UNCHANGED <<wf, mark, att>>
  BY <1>1, <1>2, AheadStays DEF StepCounts
<1>3. ASSUME NEW a \in Attempts, Later(a), Starts(a)
      PROVE  StepCounts
  <2>1. AttemptsCount
    BY <1>3, ScheduledMoves, OneAttemptCounts DEF Starts
  <2>2. ASSUME NEW e \in 1 .. MaxExecutions
        PROVE  ExecutionAhead(e)' = ExecutionAhead(e)
    <3>1. /\ wf.phase = "closed" /\ wf'.phase = "execute" /\ wf'.exec = wf.exec + 1
          /\ wf.exec \in Nat
      BY <1>3 DEF Starts, TypeOK
    <3>2. e > wf.exec <=> e > wf'.exec \/ e = wf'.exec
      BY <3>1
    <3> QED
      BY <3>1, <3>2 DEF ExecutionAhead
  <2>3. ExecutionsCount
    BY <2>2, AheadType DEF ExecutionsCount
  <2> QED
    BY <1>1, <2>1, <2>3 DEF StepCounts
<1> QED
  BY <1>2, <1>3, EnqueueMoves

(* The current execution closes, or goes on to its mark-failed activity.   *)
LEMMA ClosingCounts ==
  ASSUME TypeOK, UNCHANGED mark, wf'.exec = wf.exec,
         \/ wf'.phase = "closed"
         \/ wf.phase = "execute" /\ wf'.phase \in {"execute", "mark"}
  PROVE  ExecutionsCount
<1>1. /\ MaxMarkAttempts \in Nat /\ mark.tries \in 0 .. MaxMarkAttempts
      /\ wf.exec \in Nat
  BY SizesAssumption DEF TypeOK
<1>2. ASSUME NEW e \in 1 .. MaxExecutions
      PROVE  ExecutionAhead(e)' <= ExecutionAhead(e)
  <2>1. ExecutionAhead(e) \in Nat
    BY AheadType
  <2>2. CASE e # wf.exec
    <3>1. ExecutionAhead(e)' = ExecutionAhead(e)
      BY <2>2 DEF ExecutionAhead
    <3> QED
      BY <2>1, <3>1
  <2>3. CASE e = wf.exec /\ wf'.phase = "closed"
    <3>1. ExecutionAhead(e)' = 0
      BY <1>1, <2>3 DEF ExecutionAhead
    <3> QED
      BY <2>1, <3>1
  <2>4. CASE e = wf.exec /\ wf'.phase \in {"execute", "mark"} /\ wf.phase = "execute"
    <3>1. ExecutionAhead(e) = 2 * MaxMarkAttempts + 2
      BY <2>4 DEF ExecutionAhead
    <3>2. CASE wf'.phase = "execute"
      <4>1. ExecutionAhead(e)' = 2 * MaxMarkAttempts + 2
        BY <2>4, <3>2 DEF ExecutionAhead
      <4> QED
        BY <1>1, <3>1, <4>1
    <3>3. CASE wf'.phase = "mark"
      <4>1. ExecutionAhead(e)' =
              2 * (MaxMarkAttempts - mark.tries) + (IF mark.pc = "idle" THEN 1 ELSE 0)
        BY <1>1, <2>4, <3>3 DEF ExecutionAhead
      <4> QED
        BY <1>1, <3>1, <4>1
    <3> QED
      BY <2>4, <3>2, <3>3
  <2> QED
    BY <2>2, <2>3, <2>4
<1> QED
  BY <1>2 DEF ExecutionsCount

LEMMA AttemptCounts ==
  ASSUME TypeOK, TypeOK', FreshInv, NEW a \in Attempts, Execute(a) \/ Crash(a)
  PROVE  StepCounts
<1>1. AttemptsCount /\ OneCounts
  BY AttemptMoves, OneAttemptCounts
<1>2. UploadsCount
  BY AttemptMoves, AheadStays
<1>3. ExecutionsCount
  <2>1. UNCHANGED mark /\ (UNCHANGED wf \/ wf' = [wf EXCEPT !.phase = "closed"])
    BY AttemptMoves
  <2>2. CASE UNCHANGED wf
    BY <2>1, <2>2, AheadStays
  <2>3. CASE wf' = [wf EXCEPT !.phase = "closed"]
    <3>1. wf'.exec = wf.exec /\ wf'.phase = "closed"
      BY <2>3 DEF TypeOK
    <3> QED
      BY <2>1, <3>1, ClosingCounts
  <2> QED
    BY <2>1, <2>2, <2>3
<1> QED
  BY <1>1, <1>2, <1>3 DEF StepCounts

LEMMA GiveUpCounts ==
  ASSUME TypeOK, TypeOK', FreshInv, NEW a \in Attempts, RetryDead(a) \/ TimeOut(a)
  PROVE  StepCounts
<1>1. /\ UNCHANGED <<up, mark>> /\ wf.phase = "execute" /\ wf'.exec = wf.exec
      /\ wf'.phase \in {"execute", "mark"}
  BY GiveUpMoves
<1>2. UploadsCount /\ ExecutionsCount
  BY <1>1, AheadStays, ClosingCounts
<1>3. AttemptsCount /\ OneCounts
  <2>1. CASE wf'.phase = "mark" /\ UNCHANGED att
    <3>1. wf.exec \in 1 .. MaxExecutions /\ MaxMarkAttempts \in Nat
          /\ mark.tries \in 0 .. MaxMarkAttempts
      BY <1>1, SizesAssumption DEF TypeOK
    <3>2. PICK n \in 1 .. MaxExecutions : n = wf.exec
      BY <3>1
    <3>3. ExecutionAhead(n)' < ExecutionAhead(n)
      <4>1. ExecutionAhead(n) = 2 * MaxMarkAttempts + 2
        BY <1>1, <3>2 DEF ExecutionAhead
      <4>2. ExecutionAhead(n)' =
              2 * (MaxMarkAttempts - mark.tries) + (IF mark.pc = "idle" THEN 1 ELSE 0)
        BY <1>1, <2>1, <3>1, <3>2 DEF ExecutionAhead
      <4> QED
        BY <3>1, <4>1, <4>2
    <3> QED
      BY <2>1, <3>3, AheadStays DEF OneCounts
  <2>2. ASSUME NEW b \in Attempts, Later(b), att' = Schedule(b)
        PROVE  AttemptsCount /\ OneCounts
    BY <2>2, ScheduledMoves, OneAttemptCounts
  <2> QED
    BY <2>1, <2>2, GiveUpMoves
<1> QED
  BY <1>2, <1>3 DEF StepCounts

LEMMA MarkCounts ==
  ASSUME TypeOK, CurrentInv, MarkRead \/ MarkWrite \/ MarkCrash
  PROVE  StepCounts
<1>1. /\ wf.phase = "mark" /\ mark.tries < MaxMarkAttempts /\ UNCHANGED <<att, up>>
      /\ MaxMarkAttempts \in Nat /\ mark.tries \in 0 .. MaxMarkAttempts
      /\ wf.exec \in 1 .. MaxExecutions
  BY SizesAssumption DEF MarkRead, MarkWrite, MarkCrash, CurrentInv, TypeOK
<1>2. wf'.exec = wf.exec
  BY DEF MarkRead, MarkWrite, MarkCrash, Close, TypeOK
<1>3. \/ wf'.phase = "closed"
      \/ /\ wf'.phase = "mark"
         /\ \/ mark.pc = "idle" /\ mark'.pc = "write" /\ mark'.tries = mark.tries
            \/ mark'.pc = "idle" /\ mark'.tries = mark.tries + 1
  BY <1>1 DEF MarkRead, MarkWrite, MarkCrash, Close, TypeOK
<1>4. PICK n \in 1 .. MaxExecutions : n = wf.exec
  BY <1>1
<1>5. \A e \in 1 .. MaxExecutions : e # n => ExecutionAhead(e)' = ExecutionAhead(e)
  BY <1>2, <1>4 DEF ExecutionAhead
<1>6. ExecutionAhead(n)' \in Nat /\ ExecutionAhead(n)' < ExecutionAhead(n)
  <2>1. ExecutionAhead(n) =
          2 * (MaxMarkAttempts - mark.tries) + (IF mark.pc = "idle" THEN 1 ELSE 0)
    BY <1>1, <1>4 DEF ExecutionAhead
  <2>2. CASE wf'.phase = "closed"
    <3>1. ExecutionAhead(n)' = 0
      BY <1>1, <1>2, <1>4, <2>2 DEF ExecutionAhead
    <3> QED
      BY <1>1, <2>1, <3>1
  <2>3. CASE wf'.phase = "mark"
    <3>1. ExecutionAhead(n)' =
            2 * (MaxMarkAttempts - mark'.tries) + (IF mark'.pc = "idle" THEN 1 ELSE 0)
      BY <1>1, <1>2, <1>4, <2>3 DEF ExecutionAhead
    <3> QED
      BY <1>1, <1>3, <2>1, <2>3, <3>1
  <2> QED
    BY <1>3, <2>2, <2>3
<1>7. ExecutionsCount /\ OneCounts
  BY <1>5, <1>6, AheadType DEF ExecutionsCount, OneCounts
<1> QED
  BY <1>1, <1>7, AheadStays DEF StepCounts

(* Whatever crashes and is retried, a job does a bounded number of steps   *)
(* (sources.py 260-300, workflow.py 119-143): no step gives an upload, an  *)
(* attempt or an execution more to do, and every step takes something away *)
(* from one of them.                                                       *)
THEOREM JobWorkIsBounded == Spec => EveryStepCounts
<1>1. IInv /\ CurrentInv /\ TypeOK' /\ [Next]_vars => [StepCounts]_vars
  <2> SUFFICES ASSUME IInv, CurrentInv, TypeOK', Next, ~ UNCHANGED vars
               PROVE  StepCounts
    OBVIOUS
  <2> USE DEF IInv
  <2>1. ASSUME NEW u \in Uploads, Request(u) \/ UploadCrash(u)
        PROVE  StepCounts
    BY <2>1, RequestCounts, EnqueueCounts DEF Request
  <2>2. ASSUME NEW a \in Attempts, Execute(a) \/ Crash(a) \/ RetryDead(a) \/ TimeOut(a)
        PROVE  StepCounts
    BY <2>2, AttemptCounts, GiveUpCounts
  <2>3. CASE MarkRead \/ MarkWrite \/ MarkCrash
    BY <2>3, MarkCounts
  <2> QED
    BY <2>1, <2>2, <2>3 DEF Next, Quiet
<1>2. [StepCounts]_vars =>
       [/\ \A u \in Uploads : UploadAhead(u)' <= UploadAhead(u)
        /\ \A a \in Attempts : AttemptAhead(a)' <= AttemptAhead(a)
        /\ \A e \in 1 .. MaxExecutions : ExecutionAhead(e)' <= ExecutionAhead(e)
        /\ \/ \E u \in Uploads : UploadAhead(u)' < UploadAhead(u)
           \/ \E a \in Attempts : AttemptAhead(a)' < AttemptAhead(a)
           \/ \E e \in 1 .. MaxExecutions : ExecutionAhead(e)' < ExecutionAhead(e)]_vars
  BY DEF StepCounts, UploadsCount, AttemptsCount, ExecutionsCount, OneCounts
<1> QED
  BY <1>1, <1>2, TypeCorrect, InductiveInvariant, CurrentHolds, PTL
     DEF Spec, EveryStepCounts
=============================================================================
