------------------------- MODULE SemanticExtraction -------------------------
(***************************************************************************)
(* One attempt at a batch: run_semantic_analysis                           *)
(* (backend/src/bearvoice/modules/analysis/semantic_persistence.py) and    *)
(* the asyncio tasks it gathers, one for each voice of a chunk.            *)
(*                                                                         *)
(* A semaphore admits the tasks in order.  A task takes one unit of the    *)
(* attempt's call limit before every call, retries what may be retried     *)
(* while it holds the semaphore, and ends with an answer, as unresolved,   *)
(* or with an exception.  asyncio.gather passes on the first exception and *)
(* cancels nobody: the remaining tasks outlive the refused batch.          *)
(*                                                                         *)
(* An action is what runs between two awaits of one task.                  *)
(***************************************************************************)
EXTENDS Integers, FiniteSets

CONSTANTS
  NumVoices,    \* records of the batch, in the order of their ids
  BatchSize,    \* semantic_batch_size
  Concurrency,  \* semantic_max_concurrency
  RetryMax,     \* semantic_retry_max_attempts
  CallLimit     \* model_call_limit

ASSUME SizesAssumption ==
  /\ {NumVoices, BatchSize, Concurrency, RetryMax} \subseteq Nat \ {0}
  /\ CallLimit \in Nat

Voices == 1 .. NumVoices

VARIABLES
  main,         \* where run_semantic_analysis stands
  pos,          \* voices whose chunks are committed
  loaded,       \* cached_results: checkpoints found at the start
  checkpoints,  \* SemanticVoiceCache rows
  task,         \* the tasks: state, calls taken, last reply
  reserved      \* reserved_model_calls

vars == <<main, pos, loaded, checkpoints, task, reserved>>

(* Replies of the provider behind the gateway, by what they amount to.     *)
Replies ==
  {"valid",       \* a result that satisfies the JSON contract
   "malformed",   \* not JSON, or it breaks the contract, or another voice_id
   "cut",         \* finish_reason is not "stop", or the content is empty
   "transient",   \* 408, 409, 425, 429, 5xx, time-outs, unreadable bodies
   "denied"}      \* other statuses, refusals, a policy or privacy gate

(* How the exceptions of the adapter and the engine sort the replies.      *)
Retried(reply) == reply \in {"malformed", "transient"}
Answers(reply) == reply = "valid"

Holding == {"ready", "calling", "backoff"}
Settled == {"answered", "unresolved"}
TaskState == {"waiting", "queued"} \cup Holding \cup Settled
               \cup {"raised", "cancelled"}
Final == {"published", "rejected", "stopped"}

TypeOK ==
  /\ main \in {"gathering", "publishing", "rejecting"} \cup Final
  /\ pos \in 0 .. NumVoices
  /\ loaded \subseteq Voices
  /\ checkpoints \subseteq Voices
  /\ task \in [Voices -> [state : TaskState, tries : 0 .. RetryMax,
                          reply : Replies \cup {"none"}]]
  /\ reserved \in 0 .. CallLimit

(* The chunk that follows the first p voices.                              *)
EndAfter(p) == IF p + BatchSize < NumVoices THEN p + BatchSize ELSE NumVoices
ChunkAfter(p) == (p + 1) .. EndAfter(p)
Chunk == ChunkAfter(pos)

Init ==
  /\ main = "gathering"
  /\ pos = 0
  /\ checkpoints \in SUBSET Voices
  /\ loaded = checkpoints
  /\ task = [v \in Voices |->
       [state |-> IF v \in ChunkAfter(0) THEN "queued" ELSE "waiting",
        tries |-> 0, reply |-> "none"]]
  /\ reserved = 0

InState(S) == {v \in Voices : task[v].state \in S}
Become(v, state) == task' = [task EXCEPT ![v].state = state]

(* The semaphore admits the longest waiting task.  A checkpoint needs no   *)
(* call, and gives the semaphore back at once.                             *)
Admit(v) ==
  /\ v \in InState({"queued"})
  /\ \A w \in InState({"queued"}) : v <= w
  /\ Cardinality(InState(Holding)) < Concurrency
  /\ Become(v, IF v \in loaded THEN "answered" ELSE "ready")
  /\ UNCHANGED <<main, pos, loaded, checkpoints, reserved>>

ReserveLate(v) ==          \* mutant: the limit is checked after the count
  /\ task[v].state = "ready"
  /\ IF reserved > CallLimit
       THEN /\ Become(v, "raised")
            /\ UNCHANGED reserved
       ELSE /\ reserved' = reserved + 1
            /\ task' = [task EXCEPT ![v].state = "calling", ![v].tries = @ + 1]
  /\ UNCHANGED <<main, pos, loaded, checkpoints>>

ReserveOnce(v) ==          \* mutant: only the first try counts
  /\ task[v].state = "ready"
  /\ IF task[v].tries = 0 /\ reserved = CallLimit
       THEN /\ Become(v, "raised")
            /\ UNCHANGED reserved
       ELSE /\ reserved' = IF task[v].tries = 0 THEN reserved + 1 ELSE reserved
            /\ task' = [task EXCEPT ![v].state = "calling", ![v].tries = @ + 1]
  /\ UNCHANGED <<main, pos, loaded, checkpoints>>

(* Under model_call_lock: one more unit of the limit, then the call.       *)
Reserve(v) ==
  /\ task[v].state = "ready"
  /\ IF reserved >= CallLimit
       THEN /\ Become(v, "raised")
            /\ UNCHANGED reserved
       ELSE /\ reserved' = reserved + 1
            /\ task' = [task EXCEPT ![v].state = "calling", ![v].tries = @ + 1]
  /\ UNCHANGED <<main, pos, loaded, checkpoints>>

(* The state a reply leads to, the bounded retry included: what was not    *)
(* understood ends as unresolved, what did not arrive ends the batch.      *)
After(v, reply) ==
  IF Answers(reply) THEN "answered"
  ELSE IF Retried(reply) /\ task[v].tries < RetryMax THEN "backoff"
  ELSE IF reply = "malformed" THEN "unresolved"
  ELSE "raised"

Respond(v, reply) ==
  /\ task[v].state = "calling"
  /\ task' = [task EXCEPT ![v] =
       [state |-> After(v, reply), tries |-> @.tries, reply |-> reply]]
  /\ UNCHANGED <<main, pos, loaded, checkpoints, reserved>>

WakeNever(v) ==            \* mutant: the backoff sleeps on
  /\ task[v].state = "backoff"
  /\ UNCHANGED vars
(* The exponential backoff is over.                                        *)
Wake(v) ==
  /\ task[v].state = "backoff"
  /\ Become(v, "ready")
  /\ UNCHANGED <<main, pos, loaded, checkpoints, reserved>>

CommitUnresolved ==        \* mutant: unresolved voices get a checkpoint too
  /\ main = "gathering"
  /\ Chunk \subseteq InState(Settled)
  /\ checkpoints' = checkpoints \cup Chunk
  /\ pos' = EndAfter(pos)
  /\ main' = IF pos' = NumVoices THEN "publishing" ELSE "gathering"
  /\ task' = [v \in Voices |-> IF v \in ChunkAfter(pos')
       THEN [task[v] EXCEPT !.state = "queued"] ELSE task[v]]
  /\ UNCHANGED <<loaded, reserved>>

CommitLate ==              \* mutant: the progress is committed before the checkpoints
  /\ main = "gathering"
  /\ Chunk \subseteq InState(Settled)
  /\ checkpoints' = checkpoints \cup ((1 .. pos) \cap InState({"answered"}))
  /\ pos' = EndAfter(pos)
  /\ main' = IF pos' = NumVoices THEN "publishing" ELSE "gathering"
  /\ task' = [v \in Voices |-> IF v \in ChunkAfter(pos')
       THEN [task[v] EXCEPT !.state = "queued"] ELSE task[v]]
  /\ UNCHANGED <<loaded, reserved>>

(* gather returns; the new answers become checkpoints and the progress is  *)
(* committed with them.  The next chunk is gathered.                       *)
CommitChunk ==
  /\ main = "gathering"
  /\ Chunk \subseteq InState(Settled)
  /\ checkpoints' = checkpoints \cup (Chunk \cap InState({"answered"}))
  /\ pos' = EndAfter(pos)
  /\ main' = IF pos' = NumVoices THEN "publishing" ELSE "gathering"
  /\ task' = [v \in Voices |-> IF v \in ChunkAfter(pos')
       THEN [task[v] EXCEPT !.state = "queued"] ELSE task[v]]
  /\ UNCHANGED <<loaded, reserved>>

(* gather passes on the exception of a task; nothing of the chunk is kept. *)
GatherFails ==
  /\ main = "gathering"
  /\ Chunk \cap InState({"raised"}) # {}
  /\ main' = "rejecting"
  /\ UNCHANGED <<pos, loaded, checkpoints, task, reserved>>

Publish ==
  /\ main = "publishing"
  /\ main' = "published"
  /\ UNCHANGED <<pos, loaded, checkpoints, task, reserved>>

(* _mark_failed, also after a publication whose savepoint was rolled back. *)
Reject ==
  /\ main \in {"publishing", "rejecting"}
  /\ main' = "rejected"
  /\ UNCHANGED <<pos, loaded, checkpoints, task, reserved>>

Ended == {"waiting", "answered", "unresolved", "raised", "cancelled"}

(* The activity is cancelled or its worker dies, and its tasks with it;    *)
(* so do the tasks that a refused batch has left behind.                   *)
Stop ==
  /\ main \notin {"published", "stopped"}
  /\ main' = IF main = "rejected" THEN "rejected" ELSE "stopped"
  /\ task' = [v \in Voices |-> IF task[v].state \in Ended THEN task[v]
                               ELSE [task[v] EXCEPT !.state = "cancelled"]]
  /\ UNCHANGED <<pos, loaded, checkpoints, reserved>>

(* Nothing is left to run.                                                 *)
Over ==
  /\ main \in Final
  /\ InState(TaskState \ Ended) = {}
  /\ UNCHANGED vars

Run(v) ==
  \/ Admit(v) \/ Reserve(v) \/ Wake(v)
  \/ \E reply \in Replies : Respond(v, reply)

Decide == CommitChunk \/ GatherFails \/ Publish \/ Reject

Next ==
  \/ \E v \in Voices : Run(v)
  \/ Decide
  \/ Stop
  \/ Over

Spec == Init /\ [][Next]_vars

(* The event loop runs what can run, and every call is answered or times   *)
(* out (model_request_timeout_seconds).                                    *)
FairSpec ==
  Spec /\ WF_vars(Decide) /\ \A v \in Voices : WF_vars(Run(v))

-----------------------------------------------------------------------------

(* The calls that were taken, one element for each.                        *)
Calls == {c \in Voices \X (1 .. RetryMax) : c[2] <= task[c[1]].tries}

(* The hard limit holds for the sum of all tries of all tasks, those that  *)
(* keep calling after the batch was refused included.                      *)
HardLimit == Cardinality(Calls) <= CallLimit

(* A published batch accounts for every voice exactly once: with a         *)
(* checkpointed answer, or as unresolved after all its tries and without a *)
(* checkpoint, so that a later analysis asks again.                        *)
AccountedOnce ==
  main = "published" =>
    \A v \in Voices :
      \/ v \in InState({"answered"}) /\ v \in checkpoints
      \/ /\ v \in InState({"unresolved"}) /\ v \notin checkpoints
         /\ task[v].tries = RetryMax

(* What Settles rests on.  First, an attempt never hangs: until all is over *)
(* a task that holds the semaphore goes on, or the first one in the queue  *)
(* gets it, or gather returns.                                             *)
CanRun(v) ==
  \/ v \in InState(Holding)
  \/ /\ v \in InState({"queued"})
     /\ \A w \in InState({"queued"}) : v <= w
     /\ Cardinality(InState(Holding)) < Concurrency
CanDecide ==
  \/ main = "gathering" /\ \/ Chunk \subseteq InState(Settled)
                           \/ Chunk \cap InState({"raised"}) # {}
  \/ main \in {"publishing", "rejecting"}
NothingHangs ==
  main \notin Final \/ InState(TaskState \ Ended) # {} =>
    CanDecide \/ \E v \in Voices : CanRun(v)

(* Second, it cannot go on for ever: the steps that each task and the      *)
(* attempt itself may still take are a finite set, and every step takes    *)
(* something out of it and puts nothing in, although a failed call is      *)
(* tried again and a refused batch leaves its tasks behind.                *)
Ahead(v) ==
  LET tries == 3 * (RetryMax - task[v].tries) IN
    CASE task[v].state = "waiting" -> 3 * RetryMax + 2
      [] task[v].state = "queued"  -> 3 * RetryMax + 1
      [] task[v].state = "calling" -> tries + 2
      [] task[v].state = "backoff" -> tries + 1
      [] task[v].state = "ready"   -> tries
      [] OTHER                     -> 0
MainAhead ==
  CASE main = "gathering" -> 2
    [] main \in {"publishing", "rejecting"} -> 1
    [] OTHER -> 0
StepsAhead ==
  {s \in Voices \X (1 .. (3 * RetryMax + 2)) : s[2] <= Ahead(s[1])}
    \cup {0} \X (1 .. MainAhead)
EveryStepCounts ==
  [][StepsAhead' \subseteq StepsAhead /\ StepsAhead' # StepsAhead]_vars

(* Every attempt reaches an outcome, and no task outlives it for ever.     *)
Settles == <>[](main \in Final /\ InState(TaskState \ Ended) = {})

(* The attempt keeps the promise of BatchContract: wherever it is stopped, *)
(* the progress it has committed never counts an answer that is not a      *)
(* checkpoint, nothing but an answer becomes one, and neither changes once *)
(* the batch has its outcome, whatever the tasks left behind still do.     *)
Contract == INSTANCE BatchContract WITH
  phase <- IF main = "stopped" THEN "lost"
           ELSE IF main \in Final THEN main ELSE "open",
  answered <- InState({"answered"}), accounted <- 1 .. pos
KeepsContract == Contract!Spec

(* Documented (operations/ai-semantic-workflow.md:9): every validated      *)
(* result is written to its own checkpoint first, so that after a failure  *)
(* only missing records are redone: a batch refused for one voice keeps    *)
(* the answers of the others.                                              *)
AnswersAreKept == main = "rejected" => InState({"answered"}) \subseteq checkpoints
=============================================================================
