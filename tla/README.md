# A TLA+ verification of BearVoice Insights

BearVoice Insights collects customer voices from CSV files, masks personal data,
extracts signals with a local keyword baseline or with an approved external
model, and turns them into product opportunities that people review. This
directory models the parts of its backend (`src/platform/backend/src/bearvoice`,
written `B/` below) in which several parties act on shared state, checks the
models with TLC and proves their main properties with TLAPS.

    cd tla
    tlc -workers 2 -config MCSemanticJobs.cfg MCSemanticJobs.tla
    tlapm SemanticJobsProofs.tla

## The system

A FastAPI application serves the pages and writes PostgreSQL (READ COMMITTED,
one session and one transaction per request, `expire_on_commit=False`, rollback
on an exception, `db.py`). A Temporal worker executes two workflows. Components:

| Component | State it keeps | Operations | What makes it correct |
|---|---|---|---|
| Model budget and job admission: `modules/analysis/semantic_jobs.py` 66-199, `api/routes/sources.py` | counter row per day and provider, job rows, row locks | upload, reserve, insert, commit, roll back | daily gate, one job per idempotency key, no leaked reservation |
| Job dispatch, workflow, worker: `sources.py` 257-291, `dispatch.py`, `workflow.py` 119-143, `semantic_jobs.py` 202-328 | job row, workflow execution, activity attempts | submit, enqueue, execute, retry, time out, mark failed | a batch is published once and whole; a retry resumes; an outcome stands |
| Semantic extraction: `semantic_persistence.py`, `china_model_adapter.py`, `semantic_engine.py` | run row, checkpoints, asyncio tasks, call counter | admit, reserve a call, respond, retry, commit a chunk, publish, reject | hard call limit, every voice accounted for, one final outcome, a checkpoint for each answer |
| Cache-only analysis workflow: `workflow.py` 35-116, `activities.py` | run row with the ledger `stage_status.phase_results`, taxonomy versions, workflow execution | seven phases, approval signal, publish, record a failure | phases in order, published only after an approval and once, a success is whole, the scope keeps a release |
| Opportunities, actions, outcomes: `modules/opportunities/service.py`, `api/routes/opportunities.py`, `domain/enums.py` | opportunity, evidence, review, action and outcome rows; what each session has loaded | review, transition, add action, complete, measure | nobody works on what nobody accepted; an action ends once and with an outcome |
| Golden sample and release: `modules/evaluation/service.py` | golden examples, reviews, evaluation runs, releases | sample, review, adjudicate, evaluate, decide, roll back | a sample of every stratum, approvals by two independent reviewers or an adjudicator, gates, a single active release |
| Taxonomy review: `modules/review/service.py` | versions, clusters, memberships | merge, split, rename, remove, restore into a new version | every signal stays in exactly one cluster |
| Ingestion and offline baseline: `modules/ingest/adapter.py`, `sources.py`, `modules/analysis/baseline.py` | source, batches, voice records, baseline runs, draft taxonomies | validate, normalise, dedupe, persist, classify by keyword | whole batch or none, one baseline for a batch of the rules, every upload is answered |
| Model egress gateway and privacy gate: `security/model_gateway.py`, `modules/ingest/privacy.py` | none | allow-lists, sanitise | nothing unapproved or unmasked leaves |
| Cache key, storage, reporting, authentication, shell, migrations, frontend, legacy scripts | none of interest, or read-only | | not modelled, see the end |

Interactions. An upload commits the job row, then calls Temporal, then writes
what it believes happened to the job row again. Temporal starts activity
attempts that share the job row, the run rows and the checkpoints; an attempt
that stops heartbeating is replaced while it may still run. Inside an attempt
one asyncio task per voice shares a call counter and a semaphore. The frontend
polls the job row. An upload for the keyword rules writes the batch, its voices, a run,
a draft taxonomy and draft opportunities in one transaction; reviewers then copy the
taxonomy, decide on the opportunities and plan actions, and label a golden sample of
the run, on which releases of a model are evaluated.

What is hard: late and blind writes of a session that never re-reads a row, crashes
between a commit and its report, lost acknowledgements, overlapping attempts,
`asyncio.gather` that cancels nobody, row locks and unique indexes between concurrent
requests, `SELECT FOR UPDATE` that waits for a row and then leaves the session with the
values it had loaded before. `PROJECT.json` lists these hazards with their lines and the
property that covers each.

## Modules

| Module | Models | Composition |
|---|---|---|
| `ModelBudget` | `create_model_analysis_job` in concurrent request transactions | refines `AdmissionLedger` |
| `AdmissionLedger` | what the admission promises: jobs are admitted one at a time, each into what is left of its day | abstract specification |
| `SemanticJobs` | uploads, the workflow of a job, activity attempts, the database they share | takes from `ModelBudget` that there is one job per key |
| `SemanticExtraction` | one attempt at a batch: tasks, limit, retries, chunks | refines `BatchContract`; details `ExtractChunk` and `FailChunk` of `SemanticJobs` |
| `BatchContract` | what `run_semantic_analysis` promises its caller | abstract specification |
| `AnalysisPhases` | `AnalysisWorkflow`, its phase activity, runs of one product scope | shares no state with `SemanticJobs`: nothing in `src/` starts both workflows for one run |
| `ModelRelease` | `evaluate_release`, `decide_release` and `rollback_release` in concurrent transactions | refines `ReleaseRegister`; shares no row with the other modules |
| `ReleaseRegister` | what the release functions promise: a register of the release in use | abstract specification |
| `GoldenReview` | the golden sample: drawing, reviews, adjudication, use by an evaluation | gives `ModelRelease` the approved golden sets it takes for granted |
| `OpportunityReview` | opportunities, reviews, actions and outcomes behind their routes | refines `ActionLifecycle` |
| `ActionLifecycle` | what an action item promises its readers | abstract specification |
| `TaxonomyEdit` | the edits of a taxonomy as functions from a version to the next | used by `Intake` |
| `Intake` | uploads, their batches and keyword baselines, edits of the taxonomies | extends `TaxonomyEdit`; refines `ImportRegister`; leaves what a model job does with a batch to `ModelBudget` and `SemanticJobs` |
| `ImportRegister` | what an import promises: files are taken in one after the other, each with all its new voices, and analysed with the rules or later | abstract specification |
| `MC*` | constants and symmetry for TLC | |
| `*Proofs` | theorems about the module they are named after | |

**ModelBudget.** `tx[r]` is a request and its transaction. `Lookup` is everything
up to the upsert (the date is taken before it), `Reserve` the upsert, which waits
for the row lock of another writer (`RowFree`) and evaluates its `WHERE` clause on
the newest row, `InsertJob` the flush that meets the unique index (`KeyFree`),
`Commit` and `Abort` the end of the transaction. `counter` and `jobs` hold
committed state only. Money is an integer number of a unit finer than the cost
of a call and the quantum 0.0001 of the column. The refinement forgets the counter:
`AdmissionLedger` sees the jobs and the answers, so `Commit` has to fit the jobs that are
there by then, whatever the upsert saw.

**SemanticJobs.** `job` is the status and `analysis_run_id` of the row, `runs` the
run rows with the voices whose signals they own (`accounted`) and the voices that
were answered rather than given up (`answered`), `cache` the checkpoints, `att` the
activity attempts (what the worker's session has loaded or flushed is in the
record of the attempt), `wf` and `mark` the execution as Temporal sees it, `up` the
upload requests. An action ends at a commit or at a call others can observe.
`LinkedTo` is SQLAlchemy's rule that an unchanged attribute is not written.
Uploads are numbered in the order in which they reach the database, for nothing tells
them apart before. An attempt that is given up while it runs is an overlap;
`MaxOverlaps` bounds how many there are by the end of each execution.
Attempts name the runs they create. A published run that was moved on to
`succeeded` by a reviewer is like one that is `pending_review` here
(`semantic_persistence.py` 249-250 treats them alike).

**SemanticExtraction.** One action is what a task runs between two awaits. Replies
are abstracted to how the adapter and the engine sort them. `Stop` is the death or
the cancellation of the worker, which ends all tasks; a task left behind by a
rejected batch may run on before that. The refinement maps `phase`, the answers, the
chunks committed (`accounted`) and the checkpoints to `BatchContract`, which lets an
answer become a checkpoint at once or with its piece: the code does the latter, a
document promises the former (difference 3).

**AnalysisPhases.** A phase is its position in `PHASE_ORDER`; `run` is the status and
`phase_results` of the run row, `tax` the taxonomy versions of each run in the
order of `created_at`, `wf` the executions as Temporal's history has them and `act`
the attempts that are alive. What `_phase_facts` reads is a set of named facts,
`Demands` what each phase asks of it; they are fixed because nothing rewrites the
signals, evidence or memberships of a run, and a revision copies all memberships.
(No code writes embeddings, so `embed` passes for legacy imports alone.) A lock is a
guard: the run row is locked from the first statement, so an automated phase is one
step (`Record`), and a publication three (`Choose` locks its version, `LookAround` is
the snapshot of the statement that locks the other releases, `CommitPublication`
waits for those rows and looks at them again). `record_run_failure` has no lock and
is two steps (`ReadRun`, `RecordFailure`); what it takes out of the ledger of its run is
remembered in the history variable `lost`. Nothing in `src/` starts the workflow, so the
model does not assume that its id keeps a second execution of a run from being open.
The start-to-close time-out cancels nothing in the activity, so any attempt may go on
after it; `MaxLate` bounds how many do at a time.

**ModelRelease.** Routes do not call these functions yet (only tests do), so each call
is taken as a transaction of its own with a fresh session. A release is named after
its evaluation, which the unique constraint on `evaluation_run_id` justifies. `tx[q]`
is a caller's transaction: `on` the row it locks first, `seen` the active releases in
the snapshot of the locking statement, `held` those still active once locked, which it
has retired and flushed. A step ends where PostgreSQL may let the transaction wait: at
its first row (`Locked`), at the rows of its snapshot (`Reached`), at the entry of the
partial unique index (`SlotSettled`, where `Collide` is the unique violation). `rel` and
`evaluation` hold committed rows only. Metrics appear as `Failing`, since nothing
rewrites them; the golden set of an evaluation is approved.

**OpportunityReview.** Routes load a row with `session.get`, check the caller's product
scope, and call a service that selects the row `FOR UPDATE`. The select reads the row
again, but an instance that somebody still refers to keeps its attributes (SQLAlchemy
refreshes it only with `populate_existing`). `tx[q].seen` is the status at the first
read. `submit_opportunity_review` and `add_action` refer to the opportunity they loaded,
so `LockedStatus` is `seen` for them; `transition_action` and `add_outcome` drop the
action they loaded, so it is loaded again under the lock. Lock, rules and commit are one
step, since only one row is involved. `Load` and the operation are two; `Refuse` ends a
request that a rule or an invalid body refuses. `transition_opportunity` and
`complete_action_item` have no route, so each gets a session of its own. Evidence is the
number of distinct supporting voices, which nothing changes after creation. `acceptedBy`
are the audit events of acceptances. The refinement maps the status to a `stage` and
the number of outcomes to `reported`.

**GoldenReview.** `Draw` and `InsertSample` are `build_stratified_sample`; the seed is any
order of the voices, because several seeds give several orders and the selection has to
cover the strata in each. A voice may have several signals; the query returns a row for
each and the code keeps the first, where only the taxonomies are ordered, so `Draw` takes
any row of each voice (`LatestByVoice`). A type or a cluster that voices have only beside
others may therefore have no candidate, and the sample covers the strata of the
candidates, no more. The inserts of a second builder meet the unique
`sample_order` of the first. `review_golden_example` holds on to the example it has
loaded: `SubmitReview` starts from the status and the `reviewer_ids` seen then, while the
reviews are selected under the lock. The unique constraint on the reviewer and the number
of reviews found decide a race. A label is a value; its evidence that cannot be found in
the text is a `Refuse`. Adjudication and evaluation have no route and a session of their
own.

**TaxonomyEdit.** A version is the status of each of its clusters and its membership rows.
The code gives every copied cluster a new id; here it keeps its name, which is what makes
a chain of edits finite. The name shown to people is no part of a version, so `Rename` is
a plain copy.

**Intake.** One action is one statement of an upload that may wait or fail. `held` are the
keys an upload has inserted into a unique index and the rows it has updated; `Wanted` is
what its next statement has to get hold of, `Blockers` who holds it. A voice that the file
repeats is inserted once; a row without a required field is skipped (`None` in `Rows`).
SQLAlchemy inserts the rows of one table in the order in which they were added, so voices
follow the order of the file; the batch precedes them, as its foreign key demands.
`Commit` writes everything at once. An upload for a model commits its batch and leaves the
job to `ModelBudget`, whose lock on the counter row comes after all of these and closes no
circle with them. `Fail` covers the object store, the budget, the client and the
connection; `AbortVictim` is PostgreSQL's detector of deadlocks. Keyword rules are the
function `Theme`. The refinement keeps what each file was imported for, who stored each
voice and the baseline runs of each file.

## Runs

| Run | Constants | Shows |
|---|---|---|
| `budget` | 3 uploads, 5 batches (two small, one cut by the job limit, one too large, one empty), 1 midnight | `BudgetConserved`, `KeepsLedger` (refinement), and under `FairSpec` `EveryRequestAnswered` |
| `jobs` | 2 uploads, 2 voices in 2 chunks, 2 attempts, 2 executions, 1 overlap in the second | `SucceededIsPublished`, `NoPartialPublication`, `OutcomeSticks`, and under `FairSpec` `ExecutionCloses`; `PublishedOnce` and `ResumeOnlyMissing` before the overlap |
| `extraction` | 4 voices in chunks of 3, 2 at a time, 2 tries, 5 calls | `HardLimit`, `AccountedOnce`, `KeepsContract` (refinement), and under `FairSpec` `Settles` |
| `phases` | 1 run, 2 executions of which 1 has a wrong hash, 2 gates before publication, 2 attempts, 1 late attempt at a time, 1 reviewer, 1 revision | `LedgerInOrder`, `OnePublication`, `SuccessIsWhole`, and under `FairSpec` `ExecutionCloses` |
| `phases_race` | 2 runs of one scope, 1 gate before publication, 2 attempts, 2 late attempts at a time, 2 reviewers, 1 revision | `PublicationIsEarned`, `CompletedIsPublished`, `ScopeKeepsRelease` |
| `release` | 2 callers without end, 4 evaluations of which 1 fails a gate | `OnlyPassedIsUsed`, `KeepsRegister` (refinement), and under `FairSpec` `EveryRequestEnds` |
| `opportunities` | 2 requests, 1 opportunity with 2, 3 or 5 voices, 2 actions, 1 outcome each | `ActionsEarned`, `KeepsLifecycle` (refinement) |
| `golden` | 2 builders, 5 voices (1 with two signals) of which 3 are asked for, 3 requests, 4 reviewers, 2 labels | `ApprovalIsEarned`, `ApprovedIsFinal`, `SampleCovers` |
| `intake` | 3 uploads of 2 operators, 3 files (2 share voices in opposite order, 1 is empty), 3 voices, 3 clusters | `ImportIsWhole`, `OneCluster`, `KeepsRegister` (refinement), and with the fairness of `Spec` `EveryUploadEnds` |
| `jobs_reservation`, `jobs_lost_ack` | 2 voices, the code's 3 attempts | violations, see below |
| `extraction_checkpoint` | as `extraction` | violation, see below |

Why the bounds suffice. A race for the counter row needs two writers and one that has
committed; a job per key on two days needs one midnight; the batches cover each refusal.
Two chunks are what it takes to resume behind a commit, two attempts what it takes to
retry, two executions and two uploads what it takes to restart a closed workflow while a
request is still in flight. An overlap in the second execution meets what the first has
left: checkpoints, a published run or a failed one. Three voices in a chunk with a
semaphore of two let one task wait, one call and one fail, and five calls are used up by
retries. Two runs are what it takes to race for a scope. The gates differ in what they
demand of the data and in nothing else, so one that demands nothing and one that demands
most are enough for phases to be recorded, refused, replayed and lost; the theorems hold
for the seven of the code. Two executions of a run are one that is refused late and one
that records what the other's failure then takes back. Reviewers are interchangeable in
`phases_race`, hence its symmetry. Two callers that go on for ever and three releases that
pass are what it takes for one to wait at each lock while another replaces the release,
and to restore one that was rolled back. In `opportunities`, two requests are what it
takes for one to decide on what the other has changed since, the counts lie below, at and
above both thresholds, and `MaxOutcomes` lets an action have an outcome or none;
opportunities share no rows. In `golden`, a third request meets the two reviews that are
complete, four people are two reviewers, an adjudicator and one too many; only the
examples in `Explored` are reviewed, for they share nothing. With five voices, two signal
types and two clusters the strata overlap and their number exceeds the size in some
orders. In `intake`, the opposite order of the shared voices gives every kind of wait and
a deadlock, a third upload finds what the other two have left, and one source and product
line is enough, because nothing is shared between two but the row of the source. Edits
start when the uploads have ended, which no upload could tell, since imports read no
taxonomy. `MaxExecutions`, `MaxOverlaps`, `MaxLate` and `MaxVersions` bound the model
only; the settings and retry counts are parameters of the code. The theorems below hold
for every value.

Fairness. In `ModelBudget` a transaction that can go on does: PostgreSQL grants a
free lock and the driver drops no statement; `Abort` and `Midnight` are never
promised. In `SemanticJobs` one of the live workers takes a step or Temporal schedules a
retry, and mark-failed goes on; uploads, crashes and time-outs are not promised. In
`SemanticExtraction` the event loop runs what is ready and every call ends
because `model_request_timeout_seconds` bounds it. In `AnalysisPhases` Temporal
schedules and of the live attempts one goes on, which need not be the one that an
execution waits for; starting, approving, revising, crashing and
timing out are not promised, so an execution that nobody approves stays open. In
`ModelRelease` the steps of a transaction are strongly fair, because PostgreSQL queues
who waits for a lock and serves it although others keep coming; beginning and failing
are not promised. In `Intake` each upload that was begun goes on when nothing blocks it,
and when it is blocked in a circle the detector of deadlocks runs; that somebody uploads
or edits, or that anything fails, is not promised.

`CHECK_DEADLOCK` is on everywhere but in `intake`: `Answered`, `Quiet` and `Over` stutter in
the states in which everything is over, and requests of `OpportunityReview` and
`GoldenReview` come without end, so any other state without a successor would be an
error. In `intake` the system really stops once every upload has ended and the last
version is edited; that it does not stop before is `EveryUploadEnds`.

### Where the code and its documents differ

1. `jobs_reservation`: the call limit of a job is computed anew for every activity
   attempt (`semantic_jobs.py:246`), so a crash and its retry may exceed what was
   reserved; `docs/operations/ai-semantic-workflow.md:11` excludes this.
2. `jobs_lost_ack`: the workflow id is refused only while an execution is open
   (`dispatch.py:17`), so an upload that is repeated after the execution closed can
   start a second billable one; the comment at `dispatch.py:24-25` excludes this.
3. `extraction_checkpoint`: the checkpoints of a chunk are written when `asyncio.gather`
   has returned all of its answers (`semantic_persistence.py:394`), so a refusal of one
   voice drops the validated answers of its neighbours, and a later job pays for them
   again. `docs/operations/ai-semantic-workflow.md:9` says "每条通过校验的模型结果先写入逐条检查点，
   进程失败后只补跑缺失记录": every result is first written to its own checkpoint
   (likewise `backend/docs/china-model-api-sources.md:52`, `:54`). A crash between two
   answers of a chunk has the same effect.

Read in the code, contained in the models, and not a run of its own:

4. The upload request writes `dispatched` over a final status (`sources.py:281`), and
   `SourcesPage.tsx:263` shows the job as running for ever.
5. `record_run_failure` writes back the `stage_status` it read without a lock
   (`activities.py:74`). An attempt that fails late takes out of the ledger what another
   execution of the run has recorded in between, a publication included: the run then
   reads `failed`, repeats its phases under the same idempotency keys, and publishes a
   second version if the taxonomy has been revised. The docstring at `activities.py:387`
   calls the ledger idempotent, the design specification demands it of every activity
   ("活动必须幂等", `2026-08-15-bearvoice-enterprise-foundations-design.md:182`).
   `OnePublication` says when a second publication is excluded, `SuccessIsWhole` what no
   late failure can break.
6. When an attempt is given up alive and a second one starts, both may publish a run, and
   the last blind write decides what the job row says: a succeeded job may name a run that
   was never published, and a failure may replace a success (`semantic_jobs.py:231`,
   `:295`). `SucceededIsPublished` and `OutcomeSticks` are what remains true.
7. A truncated or empty reply is a safety refusal (`china_model_adapter.py:168`) and ends
   the batch, where `ai-semantic-workflow.md:44` promises bounded retries and an
   unresolved voice.
8. A review decides on the status loaded before the lock, so a late decision overwrites
   another one, or the status of an opportunity that was moved on or archived meanwhile,
   although `opportunities/service.py:114` lets only pending opportunities be decided and
   `enums.py:15` has no such transition. `ActionsEarned` is what remains true. An action
   may likewise be added to an opportunity that was rejected a moment before.
9. The reviewer list of a golden example can lose a reviewer in the same way;
   `ApprovalIsEarned` holds because the unique constraint and the count of reviews decide.
   `routes/evaluation.py:54` looks for the role `adjudication` while the service writes
   `adjudicator`, so a ruling is never shown.
10. A batch that was imported for a model can get two keyword baselines, by two uploads of
    its file that look for a run at the same time (`baseline.py:196`). Line 276 of the
    design specification promises the opposite, "同一批数据重复导入不产生重复原声或重复分析任务"
    (importing the same data again yields no second voices and no second analysis).
    `ImportRegister` therefore promises one baseline to files imported for the rules only.
11. More strata than examples asked for make `choose_stratified_rows` select more than the
    size, and the next call with the same size is refused (`evaluation/service.py:153`).
12. A merge makes the merged cluster active even if every cluster in it had been removed
    (`review/service.py:106`), and so does a split of a removed cluster (line 248).

## Proofs

All theorems hold for every value of the constants that satisfies the named assumptions
of the modules: positive sizes, a cost per call of at least one quantum (the setting is
at least 0.0001).

* `ModelBudgetProofs`. The invariant adds to the types that an unfinished writer is the
  only one on its row and its key, and that it reserved only what fits; the guard that
  the upsert lacks on a first insert is supplied by `AdmissibleAlone`. From it follow
  `DailyLimitHolds`, `JobIsUnique` and `AnswersAreDurable`. `ImplementsLedger` maps a
  commit to `Admit`, the answer for a job that was found to `Join`, and all other steps
  to stutters; that a commit fits what its day has left is `BudgetIsConserved` read
  backwards, since the reservation was admitted on a counter that equals the sum of the
  jobs and nobody else can have moved that row since. `BudgetIsConserved` counts the
  slots of the jobs of a day with the cardinality theorems of the library.
  `CallLimitIsReservation` is arithmetic: rounding the money up and dividing it back
  gives exactly the number of calls, because a call costs at least a quantum.
* `SemanticJobsProofs`. `IInv` is the conjunction of `FreshInv` (attempts that Temporal
  has not reached are untouched, and nothing is known before a run is opened), `RunInv` (a
  run owns nothing or the whole batch) and `SeqInv`. `SeqInv` holds while no attempt was
  given up alive: only the current attempt works, its session sees the job row as it is,
  its answers are the checkpoints behind its position, and a voice that is neither loaded
  nor behind it has no checkpoint. `PublishedOnce` alone is not inductive: a second
  attempt publishes only if it opened a run before the first one published, which needs
  that attempts do not overlap. `PublicationIsAtomic` uses `RunInv` and therefore holds
  with overlaps. `SuccessIsBacked` and `OutcomeStands` hold with overlaps, too, in what
  they say of them. The first needs `LinkInv`: an attempt that knows a run of the job
  knows it because the column holds one, a run that the job names has been opened, and a
  run once published stays so. The second is `SeqInv` as long as there is no overlap;
  afterwards a blind writer can only put one final status for another, since an attempt
  that begins looks first. `BatchIsPublishedOnce`, `CheckpointsAreResumed` and
  `NoCheckpointIsLost` are about attempts that follow one another. `ExecutionsNeverHang`
  needs `CurrentInv`, which does without the assumption on overlaps: the attempt an open
  execution waits for is alive or about to be retried, no attempt has used more calls than
  its limit, and mark-failed has a try left. `JobWorkIsBounded` counts what an upload, an
  attempt and an execution have left as numbers; no step adds to any of them.
* `SemanticExtractionProofs`. `AccountInv` describes the tasks before and behind the
  current chunk, `TriesInv` the tries a task in each state has used, and `CountInv` that
  the counter equals the number of calls. `AttemptKeepsContract` proves the refinement
  step by step: a reply maps to `Answer`, a commit to `Advance`, and that the piece it
  accounts for leaves no answer behind is what the state of its tasks says. `GatherInv`
  says that the tasks of a chunk that is gathered have begun and that none was cancelled;
  with it a task that waits for the semaphore has one before it in the queue that can go
  on (`AttemptNeverHangs`). `AttemptIsBounded` describes what is left of an attempt as a
  finite set of steps that every step makes smaller, so that retries need no arithmetic.
* `AnalysisPhasesProofs`. A failure writes back a ledger that was read earlier, so
  `LedgerInOrder` is not inductive by itself: `Fine` says of every attempt what makes
  its later steps harmless (the ledger it read was in order, the version it has locked
  exists, a finished publication is out, its reviewer was heard). `OwnedInv` (what is no
  draft was published by an execution) and `RecordedInv` (a recorded publication is out)
  carry `SuccessIsPublished`, `HeardInv` follows the reviewer from the signal to the
  activity for `NothingUnearned`. `SucceededIsComplete` adds that status and ledger are
  written together, by a publication and by a late failure alike (`WholeInv`), and
  `RunPublishesOnce` that whoever publishes has found no publication in the ledger and
  that, as long as none was taken out, none is without a record (`OneInv`). All of them
  hold with any number of open executions of a run and of late attempts.
  `PublicationsNeverCircle` rests on `LocksInv`: one publication at
  a time is at work on a run, one that has releases to replace has locked a draft, and
  those releases never become drafts again, so that nobody waits for one who waits.
  `TurnInv` says that an attempt belongs to a turn its execution has reached, and to it
  alone; from it follow `NobodyIsWaitedForInVain` and `ExecutionsAreBounded`. The latter
  excepts approvals, because reviewers may send signals without end, as the code lets
  them.
* `ModelReleaseProofs`. That at most one release is active is not inductive, because
  between its flush and its commit a transaction acts on what it read. `Sound` says of
  each transaction that what it retired is still active and what it locked first still
  admissible, and that in the slot of the index it holds every active release; `Apart`
  that no two lock one row and only one is in the slot. `ImplementsRegister` follows: a
  commit maps to `Activate` or `Restore`, every other step to a stutter.
  `ReleasesNeverCircle` needs `ChosenInOrder`: in any group of transactions that wait
  for a release they have seen active, one waits for none of the others. It is the one
  that looked last, when the targets of the others were locked and not active.
  `SomebodyIsServed` follows for any number of callers.
* `OpportunityReviewProofs`. `ActionsEarned` is not inductive, since a request may act
  on what it read long ago. `IInv` adds that acceptances on record are never taken back,
  so that whoever has seen an opportunity in a status behind the acceptance finds the
  audit event, and that an approval leaves enough evidence, reviewed.
  `ImplementsLifecycle` maps each step to one of `ActionLifecycle` or a stutter, and
  needs that outcomes and stages change only under the lock.
* `GoldenReviewProofs`. `IInv` says that the reviews on record, not the columns of the
  example, determine how far it is: none, one, two that agree, two that differ, with or
  without a ruling. Whatever a request has loaded, a review is added only to an example
  with fewer than two, hence before any approval. From it follow `EveryApprovalEarned` and
  `ApprovalsStand`. `EverySelectionCovers` is about `choose_stratified_rows` alone, for
  any candidate of each voice and any order: the strata and the filling are recursive
  functions over an interval, which the library defines, and a chain of selections each
  containing the one before is followed by the smallest index at which it would fail.
  `EverySampleCovers` then needs that a sample is committed whole by one builder. The
  voices are any finite set that is no smaller than the size asked for; the safety and the
  multi-turn examples are any subsets of it.
* `IntakeProofs`. `IInv` says that two uploads never hold the same key, that a held key
  of an index is not committed, that what an upload knows or has inserted is stored or
  is its own, that a new batch has inserted a voice by the time it is stored and is
  analysed before if the keyword rules are to be, and that each version partitions the
  signals of its batch. With it a commit adds a whole batch (`EveryImportIsWhole`, by
  counting its voices), and each edit keeps the partition (`EverySignalIsSorted`).
  `ImplementsRegister` maps a commit to the import of a file, a baseline for a file that
  was imported for a model, or nothing. If
  every upload waits, a smallest set of them that waits for nobody outside it is a
  circle of the detector (`NobodyIsStuck`). `UploadsAreBounded` counts the statements
  and the rows an upload has left.

Only model-checked: the liveness properties (`EveryRequestAnswered`, `ExecutionCloses`
of jobs and of phases, `Settles`, `EveryRequestEnds`, `EveryUploadEnds`). The prover has
no rules for fairness and ENABLED. What makes them true is proved as far as it is
safety: that something can always go on, and that it cannot go on for ever.

| Liveness (checked) | never stuck (proved) | bounded (proved) |
|---|---|---|
| `Settles` | `AttemptNeverHangs` | `AttemptIsBounded` |
| `ExecutionCloses` of jobs | `ExecutionsNeverHang` | `JobWorkIsBounded` |
| `ExecutionCloses` of phases | `NobodyIsWaitedForInVain`, `PublicationsNeverCircle` | `ExecutionsAreBounded` |
| `EveryUploadEnds` | `NobodyIsStuck` | `UploadsAreBounded` |
| `EveryRequestEnds` | `SomebodyIsServed`, `ReleasesNeverCircle` | no bound: callers come without end |
| `EveryRequestAnswered` | not stated: one row, then one key, always in this order | |

These theorems, and `AnswersAreDurable`, `DailyLimitHolds`, `JobIsUnique`,
`CallLimitIsReservation`, `NoCheckpointIsLost`, `RollbackTraced` and
`EverySelectionCovers`, state properties that no run of its own repeats; they follow
from the inductive invariants of their modules.

## Not modelled

* Data without control: prompts, JSON schemas, the grouping of signals into
  clusters and opportunities, statistics, keyword rules, regular expressions.
* Reporting, export, evidence pages and the preview of an upload only read.
  Authentication is a stateless check of a token against a table. Object storage appears
  as a failure.
* The egress gateway and the privacy gate are functions of one text and the settings
  without state; a refusal ends a batch as `denied` in `SemanticExtraction`.
* The two providers of a deployment share no counter row, so one is modelled.
* Migrations define constraints; the models assume the unique indexes and the row
  locks that PostgreSQL implements.
* The frontend appears only through what it shows of a job's status. The legacy
  scripts and the import of their snapshot (`ingest/legacy.py`) are sequential, one-off
  and superseded.
* `Intake` and `ModelBudget` describe parts of one transaction of the code. They are
  composed only by the argument above that the counter row is locked last.

## Plan

Modelled, checked and proved: admission, jobs, extraction, the analysis phases, releases,
the golden sample, opportunities, imports with their baseline, and taxonomy edits. What
would add most next:

1. Proofs: the conjuncts of `ImportIsWhole` as lemmas of their own, and the lock order of
   `ModelBudget` as a theorem beside `EveryRequestAnswered`.
2. The gateway's allow-lists and the sanitised payload as a guard of `SemanticExtraction`.
3. One model of an upload from the first insert to the dispatch of its job, in which
   `Intake` and `ModelBudget` share their locks.
