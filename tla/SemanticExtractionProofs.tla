----------------------- MODULE SemanticExtractionProofs -----------------------
(***************************************************************************)
(* Theorems about SemanticExtraction, for every number of voices, chunk    *)
(* size, concurrency, retry bound and call limit.                          *)
(*                                                                         *)
(* The inductive invariant IInv says of each voice how many tries its      *)
(* state leaves it (TriesInv), that the voices behind pos are settled and  *)
(* agree with their checkpoints (AccountInv), and that the tries of all    *)
(* voices add up to the counter of the attempt (CountInv).                 *)
(***************************************************************************)
EXTENDS SemanticExtraction, FiniteSetTheorems, WellFoundedInduction, TLAPS

Fresh == {"waiting", "queued", "ready", "backoff"}

TriesInv ==
  \A v \in Voices :
    /\ task[v].state \in Fresh => task[v].tries < RetryMax
    /\ task[v].state = "unresolved" => task[v].tries = RetryMax
    /\ v \in loaded =>
         task[v].state \in {"waiting", "queued", "answered", "cancelled"}

Accounted(v) ==
  \/ task[v].state = "answered" /\ v \in checkpoints
  \/ task[v].state = "unresolved" /\ v \notin checkpoints

AccountInv ==
  /\ main = "gathering" =>
       /\ pos < NumVoices
       /\ \A v \in Voices : EndAfter(pos) < v => task[v].state = "waiting"
  /\ main \in {"publishing", "published"} => pos = NumVoices
  /\ loaded \subseteq checkpoints
  /\ checkpoints \subseteq loaded \cup (1 .. pos)
  /\ \A v \in 1 .. pos : Accounted(v)

CountInv == IsFiniteSet(Calls) /\ Cardinality(Calls) = reserved

IInv == TypeOK /\ TriesInv /\ AccountInv

(* The chunk lies behind pos, inside the batch, and ends where the next    *)
(* chunk begins.                                                           *)
LEMMA ChunkFacts ==
  ASSUME NEW p \in 0 .. NumVoices
  PROVE  /\ EndAfter(p) \in 0 .. NumVoices
         /\ ChunkAfter(p) \subseteq Voices
         /\ p <= EndAfter(p)
         /\ \A v \in ChunkAfter(p) : p < v /\ v <= EndAfter(p)
         /\ 1 .. EndAfter(p) = (1 .. p) \cup ChunkAfter(p)
         /\ p < NumVoices => p + 1 \in ChunkAfter(p)
         /\ EndAfter(p) = NumVoices \/ EndAfter(p) < NumVoices
  BY SizesAssumption DEF EndAfter, ChunkAfter, Voices

Row == [state : TaskState, tries : 0 .. RetryMax, reply : Replies \cup {"none"}]

LEMMA InitIInv == Init => IInv
<1> SUFFICES ASSUME Init PROVE IInv
  OBVIOUS
<1>1. \A v \in Voices : /\ task[v].state \in {"queued", "waiting"}
                        /\ task[v].tries = 0 /\ task[v].reply = "none"
  BY DEF Init
<1>2. 0 \in 0 .. RetryMax /\ 0 < RetryMax /\ 0 < NumVoices /\ 0 \in 0 .. NumVoices
  BY SizesAssumption
<1>3. TypeOK
  <2>1. task \in [Voices -> Row]
    BY <1>2 DEF Init, Row, TaskState
  <2> QED
    BY <2>1, SizesAssumption DEF Init, TypeOK, Row, Final
<1>4. TriesInv
  BY <1>1, <1>2 DEF TriesInv
<1>5. AccountInv
  <2>1. ASSUME NEW v \in Voices, EndAfter(0) < v
        PROVE  task[v].state = "waiting"
    <3>1. v \notin ChunkAfter(0)
      BY <1>2, <2>1, ChunkFacts, SizesAssumption DEF Voices
    <3> QED
      BY <3>1 DEF Init
  <2>2. pos = 0 /\ loaded = checkpoints /\ main = "gathering"
    BY DEF Init
  <2> QED
    BY <1>2, <2>1, <2>2 DEF AccountInv
<1> QED
  BY <1>3, <1>4, <1>5 DEF IInv

(* A step of one task that is queued or running leaves what is settled.    *)
LEMMA TaskMoves ==
  ASSUME IInv, NEW w \in Voices, NEW new \in Row,
         task[w].state \in {"queued"} \cup Holding,
         task' = [task EXCEPT ![w] = new],
         new.state \in Fresh => new.tries < RetryMax,
         new.state = "unresolved" => new.tries = RetryMax,
         w \in loaded => new.state = "answered",
         reserved' \in 0 .. CallLimit,
         UNCHANGED <<main, pos, loaded, checkpoints>>
  PROVE  IInv'
<1> USE DEF IInv
<1>1. TypeOK'
  BY DEF TypeOK, Row
<1>2. task'[w] = new /\ \A v \in Voices \ {w} : task'[v] = task[v]
  BY DEF TypeOK
<1>3. TriesInv'
  BY <1>2 DEF TriesInv
<1>4. w \notin 1 .. pos /\ (main = "gathering" => ~(EndAfter(pos) < w))
  BY DEF AccountInv, Accounted, Holding
<1>5. AccountInv'
  <2>1. 1 .. pos \subseteq Voices
    BY SizesAssumption DEF TypeOK, Voices
  <2>2. \A v \in 1 .. pos : Accounted(v)'
    BY <1>2, <1>4, <2>1 DEF AccountInv, Accounted
  <2> QED
    BY <1>2, <1>4, <2>2 DEF AccountInv
<1> QED
  BY <1>1, <1>3, <1>5

LEMMA RowUpdate ==
  ASSUME NEW r \in Row, NEW s
  PROVE  [r EXCEPT !.state = s] = [state |-> s, tries |-> r.tries, reply |-> r.reply]
  BY DEF Row

LEMMA StateUpdate ==
  ASSUME NEW w \in Voices, task[w] \in Row, NEW s, Become(w, s)
  PROVE  task' = [task EXCEPT ![w] =
                    [state |-> s, tries |-> task[w].tries, reply |-> task[w].reply]]
<1>1. task' = [task EXCEPT ![w] = [task[w] EXCEPT !.state = s]]
  BY Zenon DEF Become
<1> QED
  BY <1>1, RowUpdate

LEMMA RunKeepsIInv ==
  ASSUME IInv, NEW w \in Voices, Run(w)
  PROVE  IInv'
<1> USE DEF IInv
<1>1. task[w] \in Row /\ reserved \in 0 .. CallLimit
  BY DEF TypeOK, Row
<1>2. task[w].state \in Fresh => task[w].tries < RetryMax
  BY DEF TriesInv
<1>3. w \in loaded =>
        task[w].state \in {"waiting", "queued", "answered", "cancelled"}
  BY DEF TriesInv
<1>4. CASE Admit(w)
  <2> DEFINE s == IF w \in loaded THEN "answered" ELSE "ready"
             new == [state |-> s, tries |-> task[w].tries, reply |-> task[w].reply]
  <2>1. task' = [task EXCEPT ![w] = new] /\ task[w].state = "queued"
    BY <1>1, <1>4, StateUpdate DEF Admit, InState
  <2>2. new \in Row
    BY <1>1 DEF Row, TaskState, Settled, Holding
  <2> QED
    BY <1>1, <1>2, <1>4, <2>1, <2>2, TaskMoves DEF Admit, Fresh
<1>5. CASE Reserve(w)
  <2>1. CASE reserved >= CallLimit
    <3> DEFINE new == [state |-> "raised", tries |-> task[w].tries,
                       reply |-> task[w].reply]
    <3>1. task' = [task EXCEPT ![w] = new] /\ task[w].state = "ready"
      BY <1>1, <1>5, <2>1 DEF Reserve, Become, TypeOK, Row
    <3>2. new \in Row
      BY <1>1 DEF Row, TaskState
    <3> QED
      BY <1>1, <1>3, <1>5, <2>1, <3>1, <3>2, TaskMoves DEF Reserve, Fresh, Holding
  <2>2. CASE ~(reserved >= CallLimit)
    <3> DEFINE new == [state |-> "calling", tries |-> task[w].tries + 1,
                       reply |-> task[w].reply]
    <3>1. task' = [task EXCEPT ![w] = new] /\ task[w].state = "ready"
      BY <1>1, <1>5, <2>2 DEF Reserve, TypeOK, Row
    <3>2. new \in Row
      BY <1>1, <1>2, <3>1, SizesAssumption DEF Row, TaskState, Holding, Fresh
    <3>3. reserved' \in 0 .. CallLimit
      BY <1>1, <1>5, <2>2, SizesAssumption DEF Reserve
    <3> QED
      BY <1>3, <1>5, <3>1, <3>2, <3>3, TaskMoves DEF Reserve, Fresh, Holding
  <2> QED
    BY <2>1, <2>2
<1>6. CASE Wake(w)
  <2> DEFINE new == [state |-> "ready", tries |-> task[w].tries,
                     reply |-> task[w].reply]
  <2>1. task' = [task EXCEPT ![w] = new] /\ task[w].state = "backoff"
    BY <1>1, <1>6, StateUpdate DEF Wake
  <2>2. new \in Row
    BY <1>1 DEF Row, TaskState, Holding
  <2> QED
    BY <1>1, <1>2, <1>3, <1>6, <2>1, <2>2, TaskMoves DEF Wake, Fresh, Holding
<1>7. ASSUME NEW reply \in Replies, Respond(w, reply)
      PROVE  IInv'
  <2> DEFINE new == [state |-> After(w, reply), tries |-> task[w].tries,
                     reply |-> reply]
  <2>1. task' = [task EXCEPT ![w] = new] /\ task[w].state = "calling"
    BY <1>7 DEF Respond
  <2>2. new \in Row
    BY <1>1 DEF Row, TaskState, Holding, Settled, After
  <2>3. new.state \in Fresh => new.tries < RetryMax
    BY DEF After, Fresh
  <2>4. new.state = "unresolved" => new.tries = RetryMax
    BY <1>1, SizesAssumption DEF After, Retried, Row
  <2> QED
    BY <1>1, <1>3, <1>7, <2>1, <2>2, <2>3, <2>4, TaskMoves DEF Respond, Holding
<1> QED
  BY <1>4, <1>5, <1>6, <1>7 DEF Run

LEMMA CommitKeepsIInv ==
  ASSUME IInv, CommitChunk
  PROVE  IInv'
<1> USE DEF IInv
<1>1. pos \in 0 .. NumVoices /\ pos' = EndAfter(pos) /\ pos' \in 0 .. NumVoices
  BY ChunkFacts DEF CommitChunk, TypeOK
<1>2. 1 .. pos' = (1 .. pos) \cup Chunk /\ Chunk \subseteq Voices
  BY <1>1, ChunkFacts DEF Chunk
<1>3. \A v \in ChunkAfter(pos') : v \in Voices /\ pos' < v /\ v <= EndAfter(pos')
  BY <1>1, ChunkFacts
<1>4. \A v \in Chunk : pos < v /\ task[v].state \in Settled
  BY <1>1, ChunkFacts DEF CommitChunk, Chunk, InState
<1>5. TypeOK'
  BY <1>1, <1>2 DEF CommitChunk, TypeOK, TaskState
<1>6. \A v \in Voices \ ChunkAfter(pos') : task'[v] = task[v]
  BY DEF CommitChunk
<1>waiting. \A v \in Voices : pos' < v => task[v].state = "waiting"
  BY <1>1 DEF CommitChunk, AccountInv
<1>7. AccountInv'
  <2>1. main' = "publishing" => pos' = NumVoices
    BY DEF CommitChunk
  <2>2. main' = "gathering" => pos' < NumVoices
    BY <1>1, SizesAssumption DEF CommitChunk
  <2>later. ASSUME NEW v \in Voices, EndAfter(pos') < v
            PROVE  task'[v].state = "waiting"
    <3>1. v \notin ChunkAfter(pos')
      BY <1>1, <1>3, <2>later, ChunkFacts DEF Voices
    <3>2. pos' < v
      BY <1>1, <2>later, ChunkFacts, SizesAssumption DEF Voices
    <3> QED
      BY <1>6, <1>waiting, <3>1, <3>2
  <2>3. main' \in {"publishing", "gathering"}
    BY DEF CommitChunk
  <2>4. loaded' \subseteq checkpoints' /\ checkpoints' \subseteq loaded' \cup (1 .. pos')
    BY <1>2 DEF CommitChunk, AccountInv
  <2>5. ASSUME NEW v \in 1 .. pos' PROVE Accounted(v)'
    <3>0. v \in Voices
      BY <1>1, SizesAssumption DEF Voices
    <3>1. v \notin ChunkAfter(pos') /\ task'[v] = task[v]
      BY <1>1, <1>3, <1>6, <3>0 DEF Voices
    <3>2. CASE v \in 1 .. pos
      <4>1. v \notin Chunk
        BY <1>1, <1>4, <3>2
      <4>2. v \in checkpoints' <=> v \in checkpoints
        BY <4>1 DEF CommitChunk
      <4> QED
        BY <3>1, <3>2, <4>2 DEF Accounted, AccountInv
    <3>3. CASE v \in Chunk
      <4>1. v \notin 1 .. pos
        BY <1>1, <1>4, <3>3
      <4>2. task[v].state = "unresolved" => v \notin checkpoints
        BY <3>0, <4>1 DEF TriesInv, AccountInv
      <4> QED
        BY <1>4, <3>1, <3>3, <4>2 DEF Accounted, Settled, CommitChunk, InState
    <3> QED
      BY <1>2, <3>2, <3>3
  <2> QED
    BY <2>1, <2>2, <2>later, <2>3, <2>4, <2>5 DEF AccountInv
<1>8. TriesInv'
  <2>1. ASSUME NEW v \in ChunkAfter(pos')
        PROVE  /\ task'[v].state = "queued" /\ task'[v].tries = task[v].tries
               /\ task[v].state = "waiting"
    <3>1. v \in Voices /\ task[v].state = "waiting"
      BY <1>3, <1>waiting
    <3>2. task'[v] = [task[v] EXCEPT !.state = "queued"]
      BY <3>1 DEF CommitChunk
    <3>3. task[v] \in [state : TaskState, tries : 0 .. RetryMax,
                       reply : Replies \cup {"none"}]
      BY <3>1 DEF TypeOK
    <3> QED
      BY <3>1, <3>2, <3>3
  <2>2. loaded' = loaded
    BY DEF CommitChunk
  <2> SUFFICES ASSUME NEW v \in Voices
               PROVE  /\ task'[v].state \in Fresh => task'[v].tries < RetryMax
                      /\ task'[v].state = "unresolved" => task'[v].tries = RetryMax
                      /\ v \in loaded =>
                           task'[v].state \in {"waiting", "queued", "answered", "cancelled"}
    BY <2>2 DEF TriesInv
  <2>3. CASE v \in ChunkAfter(pos')
    BY <2>1, <2>3 DEF TriesInv, Fresh
  <2>4. CASE v \notin ChunkAfter(pos')
    BY <1>6, <2>4 DEF TriesInv
  <2> QED
    BY <2>3, <2>4
<1> QED
  BY <1>5, <1>7, <1>8

LEMMA NextIInv == IInv /\ [Next]_vars => IInv'
<1> SUFFICES ASSUME IInv, [Next]_vars PROVE IInv'
  OBVIOUS
<1> USE DEF IInv
<1>1. ASSUME NEW v \in Voices, Run(v) PROVE IInv'
  BY <1>1, RunKeepsIInv
<1>2. CASE CommitChunk
  BY <1>2, CommitKeepsIInv
<1>3. CASE GatherFails \/ Publish \/ Reject
  BY <1>3 DEF GatherFails, Publish, Reject, TypeOK, TriesInv, AccountInv,
     Accounted, Final
<1>4. CASE Stop
  <2>1. ASSUME NEW v \in Voices
        PROVE  /\ task'[v] \in Row /\ task'[v].tries = task[v].tries
               /\ task[v].state \in Settled \cup {"waiting"} => task'[v] = task[v]
               /\ task'[v].state # "cancelled" => task'[v] = task[v]
    <3>1. task[v] \in Row
      BY DEF TypeOK, Row
    <3>2. CASE task[v].state \in Ended
      BY <1>4, <3>1, <3>2 DEF Stop
    <3>3. CASE task[v].state \notin Ended
      <4>1. task'[v] = [task[v] EXCEPT !.state = "cancelled"]
        BY <1>4, <3>3 DEF Stop
      <4>2. task'[v] = [state |-> "cancelled", tries |-> task[v].tries,
                        reply |-> task[v].reply]
        BY <3>1, <4>1, RowUpdate
      <4> QED
        BY <3>1, <3>3, <4>2 DEF Row, TaskState, Ended, Settled
    <3> QED
      BY <3>2, <3>3
  <2>2. task' \in [Voices -> Row]
    BY <1>4, <2>1 DEF Stop
  <2>3. TypeOK'
    BY <1>4, <2>2 DEF Stop, TypeOK, Row, Final
  <2>4. TriesInv'
    BY <1>4, <2>1 DEF Stop, TriesInv, Fresh
  <2>5. \A v \in 1 .. pos : v \in Voices
    BY SizesAssumption DEF TypeOK, Voices
  <2>6. \A v \in 1 .. pos : Accounted(v)'
    BY <1>4, <2>1, <2>5 DEF Stop, AccountInv, Accounted, Settled
  <2>7. AccountInv'
    BY <1>4, <2>6 DEF Stop, AccountInv
  <2> QED
    BY <2>3, <2>4, <2>7
<1>5. CASE UNCHANGED vars
  BY <1>5 DEF vars, TypeOK, TriesInv, AccountInv, Accounted
<1> QED
  BY <1>1, <1>2, <1>3, <1>4, <1>5 DEF Next, Decide, Over

THEOREM InductiveInvariant == Spec => []IInv
  BY InitIInv, NextIInv, PTL DEF Spec

(* The state of an attempt and its tasks is what the code's variables can  *)
(* hold; in particular no voice is tried more often than the setting says. *)
THEOREM TypeCorrect == Spec => []TypeOK
<1>1. IInv => TypeOK
  BY DEF IInv
<1> QED
  BY <1>1, InductiveInvariant, PTL

(* A published batch accounts for every voice exactly once, and an         *)
(* unresolved voice never leaves a checkpoint behind.                      *)
THEOREM EveryVoiceAccounted == Spec => []AccountedOnce
<1>1. IInv => AccountedOnce
  <2> SUFFICES ASSUME IInv, main = "published", NEW v \in Voices
               PROVE  \/ v \in InState({"answered"}) /\ v \in checkpoints
                      \/ /\ v \in InState({"unresolved"}) /\ v \notin checkpoints
                         /\ task[v].tries = RetryMax
    BY DEF AccountedOnce
  <2>1. Accounted(v)
    BY DEF IInv, AccountInv, Voices
  <2>2. task[v].state = "unresolved" => task[v].tries = RetryMax
    BY DEF IInv, TriesInv
  <2> QED
    BY <2>1, <2>2 DEF Accounted, InState
<1> QED
  BY <1>1, InductiveInvariant, PTL

(***************************************************************************)
(* The call limit.  Every reservation adds exactly one call to the set     *)
(* Calls, so the counter is the number of calls of all tasks together.     *)
(***************************************************************************)
LEMMA ReserveCounts ==
  ASSUME IInv, CountInv, NEW w \in Voices, Reserve(w)
  PROVE  CountInv'
<1> USE DEF IInv
<1>1. CASE reserved >= CallLimit
  <2>1. task[w] \in Row
    BY DEF TypeOK, Row
  <2>2. task' = [task EXCEPT ![w] =
          [state |-> "raised", tries |-> task[w].tries, reply |-> task[w].reply]]
    BY <1>1, <2>1, StateUpdate DEF Reserve
  <2>3. \A v \in Voices : task'[v].tries = task[v].tries
    BY <2>2 DEF TypeOK
  <2>4. Calls' = Calls
    BY <2>3 DEF Calls
  <2> QED
    BY <1>1, <2>4 DEF Reserve, CountInv
<1>2. CASE ~(reserved >= CallLimit)
  <2> DEFINE new == <<w, task[w].tries + 1>>
  <2>1. task[w] \in Row /\ task[w].state = "ready" /\ task[w].tries < RetryMax
    BY <1>2 DEF TypeOK, Row, Reserve, TriesInv, Fresh
  <2>2. task'[w].tries = task[w].tries + 1
    BY <1>2, <2>1 DEF Reserve, TypeOK, Row
  <2>3. \A v \in Voices \ {w} : task'[v] = task[v]
    BY <1>2 DEF Reserve, TypeOK
  <2>4. new \in Voices \X (1 .. RetryMax) /\ new \notin Calls
    BY <2>1, SizesAssumption DEF Calls, Row
  <2>5. ASSUME NEW v \in Voices, NEW n \in 1 .. RetryMax
        PROVE  <<v, n>> \in Calls' <=> <<v, n>> \in Calls \cup {new}
    <3>1. CASE v = w
      BY <2>1, <2>2, <3>1, SizesAssumption DEF Calls, Row
    <3>2. CASE v # w
      BY <2>3, <3>2 DEF Calls
    <3> QED
      BY <3>1, <3>2
  <2>6. Calls' = Calls \cup {new}
    <3>1. Calls \subseteq Voices \X (1 .. RetryMax)
          /\ Calls' \subseteq Voices \X (1 .. RetryMax)
      BY DEF Calls
    <3> QED
      BY <2>4, <2>5, <3>1
  <2>7. IsFiniteSet(Calls \cup {new})
        /\ Cardinality(Calls \cup {new}) = Cardinality(Calls) + 1
    BY <2>4, FS_AddElement DEF CountInv
  <2> QED
    BY <1>2, <2>6, <2>7 DEF Reserve, CountInv
<1> QED
  BY <1>1, <1>2

(* No attempt ever takes more calls than its limit, however its tasks      *)
(* interleave, fail, retry, or outlive the batch.                          *)
THEOREM CallsStayWithinLimit == Spec => []HardLimit
<1>1. Init => CountInv
  <2> SUFFICES ASSUME Init PROVE CountInv
    OBVIOUS
  <2>1. Calls = {}
    BY SizesAssumption DEF Init, Calls
  <2> QED
    BY <2>1, FS_EmptySet DEF Init, CountInv
<1>2. IInv /\ CountInv /\ [Next]_vars => CountInv'
  <2> SUFFICES ASSUME IInv, CountInv, [Next]_vars PROVE CountInv'
    OBVIOUS
  <2>1. ASSUME NEW v \in Voices, Reserve(v) PROVE CountInv'
    BY <2>1, ReserveCounts
  <2>2. ASSUME \A v \in Voices : task'[v].tries = task[v].tries, reserved' = reserved
        PROVE  CountInv'
    <3>1. Calls' = Calls
      BY <2>2 DEF Calls
    <3> QED
      BY <2>2, <3>1 DEF CountInv
  <2>3. ASSUME NEW v \in Voices, Admit(v) \/ Wake(v)
        PROVE  CountInv'
    <3>1. PICK s : Become(v, s)
      BY <2>3 DEF Admit, Wake
    <3>2. task[v] \in Row
      BY DEF IInv, TypeOK, Row
    <3>3. task' = [task EXCEPT ![v] =
            [state |-> s, tries |-> task[v].tries, reply |-> task[v].reply]]
      BY <3>1, <3>2, StateUpdate
    <3>4. \A u \in Voices : task'[u].tries = task[u].tries
      BY <3>3 DEF IInv, TypeOK
    <3> QED
      BY <2>2, <2>3, <3>4 DEF Admit, Wake
  <2>4. ASSUME NEW v \in Voices, NEW reply \in Replies, Respond(v, reply)
        PROVE  CountInv'
    <3>3. task' = [task EXCEPT ![v] =
            [state |-> After(v, reply), tries |-> task[v].tries, reply |-> reply]]
      BY <2>4 DEF Respond
    <3>4. \A u \in Voices : task'[u].tries = task[u].tries
      BY <3>3 DEF IInv, TypeOK
    <3> QED
      BY <2>2, <2>4, <3>4 DEF Respond
  <2>5. CASE CommitChunk \/ Stop
    <3>1. ASSUME NEW v \in Voices PROVE task'[v].tries = task[v].tries
      <4>1. task[v] \in Row
        BY DEF IInv, TypeOK, Row
      <4>2. \/ task'[v] = task[v]
            \/ \E s : task'[v] = [task[v] EXCEPT !.state = s]
        BY <2>5 DEF CommitChunk, Stop
      <4> QED
        BY <4>1, <4>2, RowUpdate
    <3> QED
      BY <2>2, <2>5, <3>1 DEF CommitChunk, Stop
  <2>6. CASE UNCHANGED <<task, reserved>>
    BY <2>2, <2>6
  <2> QED
    BY <2>1, <2>3, <2>4, <2>5, <2>6 DEF Next, Run, Decide, GatherFails, Publish,
       Reject, Over, vars
<1>3. IInv /\ CountInv => HardLimit
  BY SizesAssumption DEF IInv, TypeOK, CountInv, HardLimit
<1> QED
  BY <1>1, <1>2, <1>3, InductiveInvariant, PTL DEF Spec

(***************************************************************************)
(* Refinement: whatever the tasks do, the attempt behaves as BatchContract *)
(* says.                                                                   *)
(***************************************************************************)
Phase == IF main = "stopped" THEN "lost"
         ELSE IF main \in Final THEN main ELSE "open"

LEMMA InitRefines == Init => Contract!Init
  BY SizesAssumption DEF Init, Contract!Init, Final, InState

(* No answer belongs to a chunk that is still to come, so all that a chunk *)
(* adds to the checkpoints was answered.                                   *)
LEMMA CommitRefines ==
  ASSUME IInv, CommitChunk
  PROVE  Contract!Advance
<1> DEFINE kept == Chunk \cap InState({"answered"})
<1>1. pos \in 0 .. NumVoices /\ pos < NumVoices /\ pos' = EndAfter(pos)
  BY DEF IInv, TypeOK, AccountInv, CommitChunk
<1>2. Chunk \in (SUBSET (Voices \ (1 .. pos))) \ {{}}
  BY <1>1, ChunkFacts DEF Chunk
<1>3. 1 .. pos' = (1 .. pos) \cup Chunk
  BY <1>1, ChunkFacts DEF Chunk
<1>4. kept \in SUBSET InState({"answered"})
  OBVIOUS
<1>5. Phase = "open" /\ Phase' = "open"
  BY DEF CommitChunk, Phase, Final
<1>6. checkpoints' = checkpoints \cup kept
  BY DEF CommitChunk
<1>7. InState({"answered"})' = InState({"answered"})
  <2>1. ASSUME NEW v \in Voices
        PROVE  task'[v].state = "answered" <=> task[v].state = "answered"
    <3>1. CASE v \in ChunkAfter(pos')
      <4>1. task[v].state = "waiting"
        <5>1. pos' \in 0 .. NumVoices /\ EndAfter(pos) < v
          BY <1>1, <3>1, ChunkFacts
        <5> QED
          BY <5>1 DEF IInv, AccountInv, CommitChunk
      <4>2. task'[v] = [task[v] EXCEPT !.state = "queued"] /\ task[v] \in Row
        BY <3>1 DEF CommitChunk, IInv, TypeOK, Row
      <4>3. task'[v].state = "queued"
        BY <4>2 DEF Row
      <4> QED
        BY <4>1, <4>3
    <3>2. CASE v \notin ChunkAfter(pos')
      BY <3>2 DEF CommitChunk
    <3> QED
      BY <3>1, <3>2
  <2> QED
    BY <2>1 DEF InState
<1>8. Chunk \cap InState({"answered"}) \subseteq checkpoints'
  BY <1>6
<1> QED
  BY <1>2, <1>3, <1>4, <1>5, <1>6, <1>7, <1>8 DEF Contract!Advance, Phase

(* A step of a task answers one voice or none.                             *)
LEMMA RunRefines ==
  ASSUME IInv, NEW v \in Voices, Run(v)
  PROVE  Contract!Answer \/ UNCHANGED Contract!vars
<1>1. UNCHANGED <<main, pos, checkpoints>>
  BY DEF Run, Admit, Reserve, Respond, Wake
<1>2. \A w \in Voices \ {v} : task'[w] = task[w]
  <2>1. Admit(v) \/ Wake(v) \/ (\E reply \in Replies : Respond(v, reply)) =>
          \E new : task' = [task EXCEPT ![v] = new]
    BY Zenon DEF Admit, Wake, Respond, Become
  <2>2. Reserve(v) => \E new : task' = [task EXCEPT ![v] = new]
    BY Zenon DEF Reserve, Become
  <2>3. \E new : task' = [task EXCEPT ![v] = new]
    BY <2>1, <2>2 DEF Run
  <2> QED
    BY <2>3 DEF IInv, TypeOK
<1>3. task[v].state # "answered"
  BY DEF Run, Admit, Reserve, Respond, Wake, InState
<1>4. CASE task'[v].state = "answered"
  <2>1. InState({"answered"})' = InState({"answered"}) \cup {v}
        /\ v \in Voices \ InState({"answered"})
    BY <1>2, <1>3, <1>4 DEF InState
  <2> QED
    BY <1>1, <2>1 DEF Contract!Answer
<1>5. CASE task'[v].state # "answered"
  <2>1. InState({"answered"})' = InState({"answered"})
    BY <1>2, <1>3, <1>5 DEF InState
  <2> QED
    BY <1>1, <2>1 DEF Contract!vars
<1> QED
  BY <1>4, <1>5

(* Every behaviour of an attempt keeps the contract of its batch.          *)
THEOREM AttemptKeepsContract == Spec => KeepsContract
<1>1. IInv /\ [Next]_vars => [Contract!Next]_(Contract!vars)
  <2> SUFFICES ASSUME IInv, [Next]_vars
               PROVE  [Contract!Next]_(Contract!vars)
    OBVIOUS
  <2>1. CASE CommitChunk
    BY <2>1, CommitRefines DEF Contract!Next
  <2>2. CASE Publish
    <3>1. 1 .. pos = Voices
      BY <2>2 DEF Publish, IInv, AccountInv, Voices
    <3> QED
      BY <2>2, <3>1 DEF Publish, Contract!Next, Contract!Publish, Final, InState
  <2>3. CASE Reject
    BY <2>3 DEF Reject, Contract!Next, Contract!Fail, Final, InState
  <2>4. CASE Stop
    <3>0. InState({"answered"})' = InState({"answered"})
      <4>1. ASSUME NEW v \in Voices
            PROVE  task'[v].state = "answered" <=> task[v].state = "answered"
        <5>1. task[v] \in Row
          BY DEF IInv, TypeOK, Row
        <5>2. CASE task[v].state \in Ended
          BY <2>4, <5>2 DEF Stop
        <5>3. CASE task[v].state \notin Ended
          <6>1. task'[v] = [task[v] EXCEPT !.state = "cancelled"]
            BY <2>4, <5>3 DEF Stop
          <6> QED
            BY <5>1, <5>3, <6>1 DEF Row, Ended
        <5> QED
          BY <5>2, <5>3
      <4> QED
        BY <4>1 DEF InState
    <3>1. CASE main = "rejected"
      BY <2>4, <3>0, <3>1 DEF Stop, Contract!vars, Final
    <3>2. CASE main # "rejected"
      <4>1. main \notin Final /\ main' = "stopped"
        BY <2>4, <3>2 DEF Stop, Final
      <4> QED
        BY <2>4, <3>0, <4>1 DEF Stop, Contract!Next, Contract!Fail, Final
    <3> QED
      BY <3>1, <3>2
  <2>5. CASE GatherFails
    BY <2>5 DEF GatherFails, Contract!vars, Final, InState
  <2>6. ASSUME NEW v \in Voices, Run(v)
        PROVE  [Contract!Next]_(Contract!vars)
    BY <2>6, RunRefines DEF Contract!Next
  <2>7. CASE UNCHANGED vars
    BY <2>7 DEF vars, Contract!vars, InState
  <2> QED
    BY <2>1, <2>2, <2>3, <2>4, <2>5, <2>6, <2>7 DEF Next, Decide, Over
<1> QED
  BY <1>1, InitRefines, InductiveInvariant, PTL DEF Spec, Contract!Spec, KeepsContract
-----------------------------------------------------------------------------
(* While the chunk is gathered its tasks have begun and none was cancelled. *)
GatherInv ==
  main = "gathering" =>
    \A v \in Chunk : task[v].state \notin {"waiting", "cancelled"}

LEMMA GatherStep == IInv /\ GatherInv /\ [Next]_vars => GatherInv'
<1> SUFFICES ASSUME IInv, GatherInv, [Next]_vars, main' = "gathering"
             PROVE  \A v \in Chunk' : task'[v].state \notin {"waiting", "cancelled"}
  BY DEF GatherInv
<1>0. pos \in 0 .. NumVoices /\ Chunk \subseteq Voices
  BY ChunkFacts DEF IInv, TypeOK, Chunk
<1>1. ASSUME NEW w \in Voices, Run(w)
      PROVE  \A v \in Chunk' : task'[v].state \notin {"waiting", "cancelled"}
  <2>1. UNCHANGED << main, pos >> /\ Chunk' = Chunk
    BY <1>1 DEF Run, Admit, Reserve, Respond, Wake, Chunk
  <2>2. \A v \in Voices \ {w} : task'[v] = task[v]
    BY <1>1 DEF Run, Admit, Reserve, Respond, Wake, Become, IInv, TypeOK
  <2>3. task'[w].state \notin {"waiting", "cancelled"}
    <3>1. task[w] \in Row
      BY DEF IInv, TypeOK, Row
    <3>2. ASSUME NEW s \in {"answered", "ready", "raised"}, Become(w, s)
          PROVE  task'[w].state \notin {"waiting", "cancelled"}
      BY <3>1, <3>2, StateUpdate DEF IInv, TypeOK
    <3>3. CASE Admit(w) \/ Wake(w)
      BY <3>2, <3>3 DEF Admit, Wake
    <3>4. CASE Reserve(w)
      <4>1. CASE reserved >= CallLimit
        BY <3>2, <3>4, <4>1 DEF Reserve
      <4>2. CASE ~ (reserved >= CallLimit)
        BY <3>1, <3>4, <4>2 DEF Reserve, IInv, TypeOK, Row
      <4> QED
        BY <4>1, <4>2
    <3>5. ASSUME NEW reply \in Replies, Respond(w, reply)
          PROVE  task'[w].state \notin {"waiting", "cancelled"}
      BY <3>5 DEF Respond, After, IInv, TypeOK
    <3> QED
      BY <1>1, <3>3, <3>4, <3>5 DEF Run
  <2> QED
    BY <1>0, <2>1, <2>2, <2>3 DEF GatherInv
<1>2. CASE CommitChunk
  <2>1. pos' = EndAfter(pos) /\ pos' \in 0 .. NumVoices
    BY <1>0, <1>2, ChunkFacts DEF CommitChunk
  <2> SUFFICES ASSUME NEW v \in Chunk' PROVE task'[v].state = "queued"
    OBVIOUS
  <2>2. v \in Voices /\ v \in ChunkAfter(pos')
    BY <2>1, ChunkFacts DEF Chunk
  <2>3. task'[v] = [task[v] EXCEPT !.state = "queued"] /\ task[v] \in Row
    BY <1>2, <2>2 DEF CommitChunk, IInv, TypeOK, Row
  <2> QED
    BY <2>3, RowUpdate
<1>3. CASE GatherFails \/ Publish \/ Reject \/ Stop
  BY <1>3 DEF GatherFails, Publish, Reject, Stop
<1>4. CASE UNCHANGED vars
  BY <1>4 DEF vars, GatherInv, Chunk
<1> QED
  BY <1>1, <1>2, <1>3, <1>4 DEF Next, Decide, Over

LEMMA GatherHolds == Spec => []GatherInv
<1>1. Init => GatherInv
  BY SizesAssumption, ChunkFacts DEF Init, GatherInv, Chunk
<1> QED
  BY <1>1, GatherStep, InductiveInvariant, PTL DEF Spec

(* A set of numbers that is not empty has a least element.                 *)
LEMMA LeastNumber ==
  ASSUME NEW S, S \subseteq Nat, S # {}
  PROVE  \E m \in S : \A k \in S : m <= k
<1>1. PICK m \in S : \A k \in S : << k, m >> \notin OpToRel(<, Nat)
  BY NatLessThanWellFounded, WFMin
<1>2. ASSUME NEW k \in S PROVE m <= k
  <2>1. k \in Nat /\ m \in Nat
    OBVIOUS
  <2>2. ~ (k < m)
    BY <1>1, <2>1 DEF OpToRel
  <2> QED
    BY <2>1, <2>2
<1> QED
  BY <1>2

(* The semaphore, the calls and gather never block each other: until the   *)
(* attempt has its outcome and its tasks are over, one of them can go on   *)
(* (semantic_persistence.py 290-400).                                      *)
THEOREM AttemptNeverHangs == Spec => []NothingHangs
<1>1. IInv /\ GatherInv => NothingHangs
  <2> SUFFICES ASSUME IInv, GatherInv,
                      main \notin Final \/ InState(TaskState \ Ended) # {},
                      \A v \in Voices : ~ CanRun(v)
               PROVE  CanDecide
    BY DEF NothingHangs
  <2>1. InState(Holding) = {}
    BY DEF CanRun, InState
  <2>2. Cardinality(InState(Holding)) < Concurrency
    BY <2>1, FS_EmptySet, SizesAssumption
  <2>3. InState({"queued"}) = {}
    <3> SUFFICES ASSUME InState({"queued"}) # {} PROVE FALSE
      OBVIOUS
    <3>1. InState({"queued"}) \subseteq Nat
      BY DEF InState, Voices
    <3>2. PICK v \in InState({"queued"}) : \A w \in InState({"queued"}) : v <= w
      BY <3>1, LeastNumber
    <3> QED
      BY <2>2, <3>2 DEF CanRun, InState
  <2>4. InState(TaskState \ Ended) = {}
    BY <2>1, <2>3 DEF InState, TaskState, Ended, Holding, Settled
  <2>5. CASE main = "gathering"
    <3>1. Chunk \subseteq Voices
      BY ChunkFacts DEF IInv, TypeOK, Chunk
    <3>2. \A v \in Chunk : task[v].state \in Settled \cup {"raised"}
      BY <2>1, <2>3, <2>5, <3>1 DEF GatherInv, IInv, TypeOK, InState, TaskState, Settled
    <3> QED
      BY <2>5, <3>1, <3>2 DEF CanDecide, InState
  <2> QED
    BY <2>4, <2>5 DEF IInv, TypeOK, Final, CanDecide
<1> QED
  BY <1>1, InductiveInvariant, GatherHolds, PTL

-----------------------------------------------------------------------------
LEMMA AheadType ==
  ASSUME TypeOK
  PROVE  /\ \A v \in Voices : Ahead(v) \in 0 .. (3 * RetryMax + 2)
         /\ MainAhead \in 0 .. 2
<1>1. ASSUME NEW v \in Voices PROVE Ahead(v) \in 0 .. (3 * RetryMax + 2)
  BY SizesAssumption DEF TypeOK, Ahead
<1> QED
  BY <1>1 DEF MainAhead

(* If no count grows and one of them shrinks, the set of steps shrinks.    *)
LEMMA FewerAhead ==
  ASSUME TypeOK, TypeOK',
         \A v \in Voices : Ahead(v)' = Ahead(v) \/ Ahead(v)' < Ahead(v),
         MainAhead' = MainAhead \/ MainAhead' < MainAhead,
         MainAhead' < MainAhead \/ \E v \in Voices : Ahead(v)' < Ahead(v)
  PROVE  StepsAhead' \subseteq StepsAhead /\ StepsAhead' # StepsAhead
<1>1. /\ \A v \in Voices : Ahead(v) \in 0 .. (3 * RetryMax + 2)
      /\ MainAhead \in 0 .. 2
  BY AheadType
<1>2. /\ \A v \in Voices : Ahead(v)' \in 0 .. (3 * RetryMax + 2)
      /\ MainAhead' \in 0 .. 2
  <2>1. ASSUME NEW v \in Voices PROVE Ahead(v)' \in 0 .. (3 * RetryMax + 2)
    BY SizesAssumption DEF TypeOK, Ahead
  <2> QED
    BY <2>1 DEF MainAhead
<1>3. 0 \notin Voices
  BY DEF Voices
<1>4. StepsAhead' \subseteq StepsAhead
  BY <1>1, <1>2, SizesAssumption DEF StepsAhead
<1>5. CASE MainAhead' < MainAhead
  <2>1. << 0, MainAhead >> \in StepsAhead /\ << 0, MainAhead >> \notin StepsAhead'
    BY <1>1, <1>2, <1>3, <1>5 DEF StepsAhead
  <2> QED
    BY <1>4, <2>1
<1>6. ASSUME NEW v \in Voices, Ahead(v)' < Ahead(v)
      PROVE  StepsAhead' # StepsAhead
  <2>1. << v, Ahead(v) >> \in StepsAhead /\ << v, Ahead(v) >> \notin StepsAhead'
    BY <1>1, <1>2, <1>3, <1>6, SizesAssumption DEF StepsAhead
  <2> QED
    BY <2>1
<1> QED
  BY <1>4, <1>5, <1>6
LEMMA RunCounts ==
  ASSUME IInv, IInv', NEW w \in Voices, Run(w)
  PROVE  StepsAhead' \subseteq StepsAhead /\ StepsAhead' # StepsAhead
<1>1. task[w] \in Row /\ TypeOK /\ TypeOK'
  BY DEF IInv, TypeOK, Row
<1>2. UNCHANGED main /\ \A v \in Voices \ {w} : task'[v] = task[v]
  BY DEF Run, Admit, Reserve, Respond, Wake, Become, IInv, TypeOK
<1>3. MainAhead' = MainAhead /\ \A v \in Voices \ {w} : Ahead(v)' = Ahead(v)
  BY <1>2 DEF MainAhead, Ahead
<1>4. Ahead(w)' < Ahead(w)
  <2>1. CASE Admit(w)
    <3>1. task[w].state = "queued"
      BY <2>1 DEF Admit, InState
    <3>2. task'[w].tries = task[w].tries /\ task'[w].state \in {"answered", "ready"}
      BY <1>1, <2>1, StateUpdate DEF Admit, IInv, TypeOK
    <3> QED
      BY <1>1, <3>1, <3>2, SizesAssumption DEF Ahead, Row
  <2>2. CASE Wake(w)
    <3>1. task[w].state = "backoff"
      BY <2>2 DEF Wake
    <3>2. task'[w].tries = task[w].tries /\ task'[w].state = "ready"
      BY <1>1, <2>2, StateUpdate DEF Wake, IInv, TypeOK
    <3> QED
      BY <1>1, <3>1, <3>2, SizesAssumption DEF Ahead, Row
  <2>3. CASE Reserve(w)
    <3>1. task[w].state = "ready" /\ task[w].tries < RetryMax
      BY <2>3 DEF Reserve, IInv, TriesInv, Fresh
    <3>2. CASE reserved >= CallLimit
      <4>1. task'[w].state = "raised"
        BY <1>1, <2>3, <3>2, StateUpdate DEF Reserve, IInv, TypeOK
      <4> QED
        BY <1>1, <3>1, <4>1, SizesAssumption DEF Ahead, Row
    <3>3. CASE ~ (reserved >= CallLimit)
      <4>1. task'[w].state = "calling" /\ task'[w].tries = task[w].tries + 1
        BY <1>1, <2>3, <3>3 DEF Reserve, IInv, TypeOK, Row
      <4> QED
        BY <1>1, <3>1, <4>1, SizesAssumption DEF Ahead, Row
    <3> QED
      BY <3>2, <3>3
  <2>4. ASSUME NEW reply \in Replies, Respond(w, reply)
        PROVE  Ahead(w)' < Ahead(w)
    <3>1. task[w].state = "calling"
      BY <2>4 DEF Respond
    <3>2. /\ task'[w].tries = task[w].tries
          /\ task'[w].state \in {"answered", "backoff", "unresolved", "raised"}
      BY <2>4 DEF Respond, After, IInv, TypeOK
    <3> QED
      BY <1>1, <3>1, <3>2, SizesAssumption DEF Ahead, Row
  <2> QED
    BY <2>1, <2>2, <2>3, <2>4 DEF Run
<1> QED
  BY <1>1, <1>3, <1>4, FewerAhead

LEMMA CommitCounts ==
  ASSUME IInv, IInv', CommitChunk
  PROVE  StepsAhead' \subseteq StepsAhead /\ StepsAhead' # StepsAhead
<1>1. TypeOK /\ TypeOK' /\ pos' = EndAfter(pos) /\ pos' \in 0 .. NumVoices
  BY ChunkFacts DEF IInv, TypeOK, CommitChunk
<1>2. \A v \in ChunkAfter(pos') : v \in Voices /\ pos' < v
  BY <1>1, ChunkFacts
<1>3. ASSUME NEW v \in Voices
      PROVE  /\ v \in ChunkAfter(pos') => Ahead(v)' < Ahead(v)
             /\ v \notin ChunkAfter(pos') => Ahead(v)' = Ahead(v)
  <2>1. v \notin ChunkAfter(pos') => task'[v] = task[v]
    BY DEF CommitChunk
  <2>2. ASSUME v \in ChunkAfter(pos') PROVE Ahead(v)' < Ahead(v)
    <3>1. task[v].state = "waiting" /\ task[v] \in Row
      BY <1>1, <1>2, <2>2 DEF CommitChunk, IInv, AccountInv, TypeOK, Row
    <3>2. task'[v] = [task[v] EXCEPT !.state = "queued"]
      BY <2>2 DEF CommitChunk
    <3>3. task'[v].state = "queued"
      BY <3>1, <3>2, RowUpdate
    <3> QED
      BY <3>1, <3>3, SizesAssumption DEF Ahead
  <2> QED
    BY <2>1, <2>2 DEF Ahead
<1>4. MainAhead' = MainAhead \/ MainAhead' < MainAhead
  BY DEF CommitChunk, MainAhead
<1>5. MainAhead' < MainAhead \/ \E v \in Voices : Ahead(v)' < Ahead(v)
  <2>1. CASE pos' = NumVoices
    BY <2>1 DEF CommitChunk, MainAhead
  <2>2. CASE pos' # NumVoices
    <3>1. pos' + 1 \in ChunkAfter(pos')
      BY <1>1, <2>2, ChunkFacts, SizesAssumption
    <3> QED
      BY <1>2, <1>3, <3>1
  <2> QED
    BY <2>1, <2>2
<1> QED
  BY <1>1, <1>3, <1>4, <1>5, FewerAhead

LEMMA StopCounts ==
  ASSUME IInv, IInv', Stop, vars' # vars
  PROVE  StepsAhead' \subseteq StepsAhead /\ StepsAhead' # StepsAhead
<1>1. TypeOK /\ TypeOK' /\ DOMAIN task = Voices /\ DOMAIN task' = Voices
  BY DEF IInv, TypeOK, Stop
<1>2. ASSUME NEW v \in Voices
      PROVE  /\ Ahead(v)' = Ahead(v) \/ Ahead(v)' < Ahead(v)
             /\ task'[v] # task[v] => Ahead(v)' < Ahead(v)
  <2>1. task[v] \in Row
    BY <1>1 DEF TypeOK, Row
  <2>2. CASE task[v].state \in Ended
    <3>1. task'[v] = task[v]
      BY <2>2 DEF Stop
    <3> QED
      BY <2>1, <3>1, SizesAssumption DEF Ahead, Row
  <2>3. CASE task[v].state \notin Ended
    <3>1. task'[v] = [task[v] EXCEPT !.state = "cancelled"]
      BY <2>3 DEF Stop
    <3>2. task'[v].state = "cancelled"
      BY <2>1, <3>1, RowUpdate
    <3>3. task[v].state \in Holding \cup {"queued"}
      BY <2>1, <2>3 DEF Row, TaskState, Settled, Ended
    <3>4. task[v].state = "ready" => task[v].tries < RetryMax
      BY DEF IInv, TriesInv, Fresh
    <3> QED
      BY <2>1, <3>2, <3>3, <3>4, SizesAssumption DEF Ahead, Row, Holding
  <2> QED
    BY <2>2, <2>3
<1>3. MainAhead' = MainAhead \/ MainAhead' < MainAhead
  BY <1>1 DEF Stop, MainAhead, TypeOK, Final
<1>4. MainAhead' < MainAhead \/ \E v \in Voices : Ahead(v)' < Ahead(v)
  <2>1. CASE main \notin Final
    BY <1>1, <2>1 DEF Stop, MainAhead, TypeOK, Final
  <2>2. CASE main \in Final
    <3>1. main' = main /\ task' # task
      BY <2>2 DEF Stop, Final, vars
    <3>2. task = [v \in Voices |-> task[v]] /\ task' = [v \in Voices |-> task'[v]]
      BY <1>1 DEF TypeOK
    <3>3. PICK v \in Voices : task'[v] # task[v]
      BY <3>1, <3>2
    <3> QED
      BY <1>2, <3>3
  <2> QED
    BY <2>1, <2>2
<1> QED
  BY <1>1, <1>2, <1>3, <1>4, FewerAhead

LEMMA StepsAreFinite == IInv => IsFiniteSet(StepsAhead)
<1> SUFFICES ASSUME IInv PROVE IsFiniteSet(StepsAhead)
  OBVIOUS
<1>1. IsFiniteSet((0 .. NumVoices) \X (1 .. (3 * RetryMax + 2)))
  <2>1. 3 * RetryMax + 2 \in Int /\ NumVoices \in Int
    BY SizesAssumption
  <2>2. IsFiniteSet(0 .. NumVoices) /\ IsFiniteSet(1 .. (3 * RetryMax + 2))
    BY <2>1, FS_Interval
  <2> QED
    BY <2>2, FS_Product
<1>2. MainAhead \in 0 .. 2
  BY AheadType DEF IInv
<1>3. StepsAhead \subseteq (0 .. NumVoices) \X (1 .. (3 * RetryMax + 2))
  BY <1>2, SizesAssumption DEF StepsAhead, Voices
<1> QED
  BY <1>1, <1>3, FS_Subset

(* An attempt takes a bounded number of steps, however often calls are     *)
(* tried again and whatever a refused batch leaves behind: a step is gone  *)
(* once it was taken, and there are finitely many.                         *)
THEOREM AttemptIsBounded == Spec => EveryStepCounts /\ []IsFiniteSet(StepsAhead)
<1>1. IInv /\ IInv' /\ [Next]_vars
        => [StepsAhead' \subseteq StepsAhead /\ StepsAhead' # StepsAhead]_vars
  <2> SUFFICES ASSUME IInv, IInv', Next, vars' # vars
               PROVE  StepsAhead' \subseteq StepsAhead /\ StepsAhead' # StepsAhead
    BY DEF vars
  <2>1. ASSUME NEW v \in Voices, Run(v)
        PROVE  StepsAhead' \subseteq StepsAhead /\ StepsAhead' # StepsAhead
    BY <2>1, RunCounts
  <2>2. CASE GatherFails \/ Publish \/ Reject
    <3>1. MainAhead' < MainAhead
      BY <2>2 DEF GatherFails, Publish, Reject, MainAhead
    <3>2. TypeOK /\ TypeOK' /\ task' = task
      BY <2>2 DEF IInv, GatherFails, Publish, Reject
    <3>3. \A v \in Voices : Ahead(v)' = Ahead(v)
      BY <3>2 DEF Ahead
    <3> QED
      BY <3>1, <3>2, <3>3, FewerAhead
  <2> QED
    BY <2>1, <2>2, CommitCounts, StopCounts DEF Next, Decide, Over
<1> QED
  BY <1>1, StepsAreFinite, InductiveInvariant, PTL DEF Spec, EveryStepCounts
=============================================================================
