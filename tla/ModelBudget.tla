---------------------------- MODULE ModelBudget ----------------------------
(***************************************************************************)
(* Admission of an external model analysis: create_model_analysis_job      *)
(* (backend/src/bearvoice/modules/analysis/semantic_jobs.py) as it runs in *)
(* the request transactions of POST /sources/upload.                       *)
(*                                                                         *)
(* A request looks for a job with the idempotency key of its batch, and if *)
(* there is none reserves calls and money on the counter row of the day    *)
(* and inserts the job, all in one READ COMMITTED transaction.  Requests   *)
(* interleave at every statement; a transaction that has written the       *)
(* counter row, or a job row, keeps that row locked until it ends.         *)
(*                                                                         *)
(* One provider is modelled: counters of two providers share nothing.  The *)
(* key of a request stands for its (batch, file hash, product, provider,   *)
(* model) digest.  Money is counted in an integer unit fine enough for     *)
(* both the cost of a call and the quantum of the Numeric(14, 4) column.   *)
(***************************************************************************)
EXTENDS Integers, FiniteSets

CONSTANTS
  Requests,        \* upload requests
  Keys,            \* idempotency keys they may carry
  Items,           \* Items[k]: voices of the batch and product behind key k
  RetryMax,        \* semantic_retry_max_attempts
  JobMaxCalls,     \* model_job_max_calls
  DailyMaxCalls,   \* model_daily_max_calls
  CostPerCall,     \* model_reserved_cost_per_call_rmb
  Quantum,         \* 0.0001 RMB
  JobBudget,       \* model_job_budget_rmb
  DailyBudget,     \* model_daily_budget_rmb
  LastDay,         \* bound: midnights that may pass
  NoKey            \* a request that has not started carries no key

ASSUME ItemsAssumption == Items \in [Keys -> Nat]
ASSUME LimitsAssumption ==
  /\ {RetryMax, JobMaxCalls, DailyMaxCalls, Quantum} \subseteq Nat \ {0}
  /\ {CostPerCall, JobBudget, DailyBudget} \subseteq Nat
ASSUME CostAssumption == CostPerCall >= Quantum  \* the setting is >= 0.0001
ASSUME DaysAssumption == LastDay \in Nat \ {0}
ASSUME NoKeyAssumption == NoKey \notin Keys

VARIABLES
  counter,   \* committed ModelBudgetCounter row of each day
  jobs,      \* committed ModelAnalysisJob rows, with the day they reserved on
  tx,        \* the request transactions
  today      \* the UTC date

vars == <<counter, jobs, tx, today>>

Days == 1 .. LastDay

CeilDiv(a, b) == (a + b - 1) \div b
Least(a, b) == IF a <= b THEN a ELSE b

(* What the job of key k reserves: bounded retries included, truncated by  *)
(* the job limit, and the money rounded up to the quantum.                 *)
ReservedCalls(k) == Least(Items[k] * RetryMax, JobMaxCalls)
ReservedCost(k) == Quantum * CeilDiv(CostPerCall * ReservedCalls(k), Quantum)

(* The hard limit a worker later derives from the reserved money.          *)
ModelCallLimit(k) == ReservedCost(k) \div CostPerCall

(* The refusals that need no look at the counter.                          *)
AdmissibleAlone(k) ==
  /\ Items[k] <= JobMaxCalls
  /\ ReservedCalls(k) <= DailyMaxCalls
  /\ ReservedCost(k) <= JobBudget
  /\ ReservedCost(k) <= DailyBudget

Open == {"checked", "reserved", "inserted", "found"}
Final == {"accepted", "reused", "refused", "failed"}

Reservation == [calls : Nat, cost : Nat]
JobRow == [request : Requests, key : Keys, day : Days, calls : Nat, cost : Nat]

TypeOK ==
  /\ counter \in [Days -> Reservation]
  /\ jobs \subseteq JobRow
  /\ tx \in [Requests -> [pc : {"idle"} \cup Open \cup Final,
                          key : Keys \cup {NoKey}, day : Days]]
  /\ \A r \in Requests : tx[r].pc # "idle" => tx[r].key \in Keys
  /\ today \in Days

Init ==
  /\ counter = [d \in Days |-> [calls |-> 0, cost |-> 0]]
  /\ jobs = {}
  /\ tx = [r \in Requests |-> [pc |-> "idle", key |-> NoKey, day |-> 1]]
  /\ today = 1

Committed(k) == \E j \in jobs : j.key = k

(* Row locks are what unfinished writers hold.                             *)
RowLeaked(d) ==            \* mutant: a failed request keeps its row locks
  \A q \in Requests :
    tx[q].pc \in {"reserved", "inserted", "failed"} => tx[q].day # d
RowFree(d) ==
  \A q \in Requests : tx[q].pc \in {"reserved", "inserted"} => tx[q].day # d
KeyNeverLocked(k) == TRUE  \* mutant: no unique index on the key
KeyFree(k) ==
  \A q \in Requests : tx[q].pc = "inserted" => tx[q].key # k

RowExists(d) == counter[d].calls > 0

(* The WHERE clause of the upsert; a first insert of the day has none.     *)
FitsDay(k, d) ==
  \/ ~RowExists(d)
  \/ /\ counter[d].calls + ReservedCalls(k) <= DailyMaxCalls
     /\ counter[d].cost + ReservedCost(k) <= DailyBudget

Goto(r, pc) == tx' = [tx EXCEPT ![r].pc = pc]

LookupUnbound(r, k) ==     \* mutant: the key is never bound to the request
  /\ tx[r].pc = "idle"
  /\ Goto(r, IF AdmissibleAlone(k) THEN "checked" ELSE "refused")
  /\ UNCHANGED <<counter, jobs, today>>

(* Count the voices, look for a job with this key, and refuse what can     *)
(* never fit.  The date is taken here, before the upsert waits for a lock. *)
Lookup(r, k) ==
  /\ tx[r].pc = "idle"
  /\ tx' = [tx EXCEPT ![r] =
       [key |-> k, day |-> today,
        pc |-> IF Items[k] = 0 THEN "refused"
               ELSE IF Committed(k) THEN "found"
               ELSE IF AdmissibleAlone(k) THEN "checked" ELSE "refused"]]
  /\ UNCHANGED <<counter, jobs, today>>

(* INSERT .. ON CONFLICT DO UPDATE .. WHERE .. RETURNING.  It waits for    *)
(* the row lock and evaluates its clause on the newest committed row.      *)
Reserve(r) ==
  /\ tx[r].pc = "checked"
  /\ RowFree(tx[r].day)
  /\ Goto(r, IF FitsDay(tx[r].key, tx[r].day) THEN "reserved" ELSE "refused")
  /\ UNCHANGED <<counter, jobs, today>>

(* The flush of the job row: the unique index on the idempotency key waits *)
(* for an uncommitted twin and rejects a committed one.                    *)
InsertJob(r) ==
  /\ tx[r].pc = "reserved"
  /\ KeyFree(tx[r].key)
  /\ Goto(r, IF Committed(tx[r].key) THEN "failed" ELSE "inserted")
  /\ UNCHANGED <<counter, jobs, today>>

(* The raw file is stored, then the transaction commits.                   *)
Commit(r) ==
  LET k == tx[r].key
      d == tx[r].day
      reserved == [calls |-> ReservedCalls(k), cost |-> ReservedCost(k)]
  IN /\ tx[r].pc = "inserted"
     /\ counter' = [counter EXCEPT ![d] =
          [calls |-> @.calls + reserved.calls, cost |-> @.cost + reserved.cost]]
     /\ jobs' = jobs \cup {[request |-> r, key |-> k, day |-> d,
                            calls |-> reserved.calls, cost |-> reserved.cost]}
     /\ Goto(r, "accepted")
     /\ UNCHANGED today

(* The existing job is returned, and nothing is reserved.                  *)
Reuse(r) ==
  /\ tx[r].pc = "found"
  /\ Goto(r, "reused")
  /\ UNCHANGED <<counter, jobs, today>>

AbortKeepsReservation(r) == \* mutant: the reservation commits on its own
  /\ tx[r].pc \in Open
  /\ Goto(r, "failed")
  /\ counter' = IF tx[r].pc \notin {"reserved", "inserted"} THEN counter
                ELSE [counter EXCEPT ![tx[r].day].calls =
                                       @ + ReservedCalls(tx[r].key)]
  /\ UNCHANGED <<jobs, today>>

(* The object store, the connection or the process fails: rollback.        *)
Abort(r) ==
  /\ tx[r].pc \in Open
  /\ Goto(r, "failed")
  /\ UNCHANGED <<counter, jobs, today>>

Midnight ==
  /\ today < LastDay
  /\ today' = today + 1
  /\ UNCHANGED <<counter, jobs, tx>>

(* All requests are answered: the model, not the server, stops.            *)
Answered ==
  /\ \A r \in Requests : tx[r].pc \in Final
  /\ UNCHANGED vars

Next ==
  \/ \E r \in Requests :
       \/ \E k \in Keys : Lookup(r, k)
       \/ Reserve(r)
       \/ InsertJob(r)
       \/ Commit(r)
       \/ Reuse(r)
       \/ Abort(r)
  \/ Midnight
  \/ Answered

Spec == Init /\ [][Next]_vars

(* A transaction that can go on does: no statement is dropped by the       *)
(* driver.  Failures and midnights are never promised.                     *)
FairSpec ==
  Spec /\ \A r \in Requests :
            WF_vars(Reserve(r) \/ InsertJob(r) \/ Commit(r) \/ Reuse(r))

-----------------------------------------------------------------------------

(* The calls (units of money) reserved by the jobs of day d, one element   *)
(* for each: their number is the sum over the jobs.                        *)
CallSlots(d) == UNION {{j} \X (1 .. j.calls) : j \in {i \in jobs : i.day = d}}
CostSlots(d) == UNION {{j} \X (1 .. j.cost) : j \in {i \in jobs : i.day = d}}

(* Conservation: whatever commits, fails or rolls back, the counter of a   *)
(* day holds exactly what the committed jobs of that day reserved: a       *)
(* failed upload leaks no budget and no job runs unreserved.               *)
BudgetConserved ==
  \A d \in Days : /\ counter[d].calls = Cardinality(CallSlots(d))
                  /\ counter[d].cost = Cardinality(CostSlots(d))

(* The daily gate of the provider holds for calls and for money, although  *)
(* the first insert of a day is not guarded by the upsert's WHERE.         *)
WithinDailyLimit ==
  \A d \in Days : /\ counter[d].calls <= DailyMaxCalls
                  /\ counter[d].cost <= DailyBudget

(* The same batch, product and model submitted again, at the same moment   *)
(* or on two sides of midnight (two counter rows, so no common row lock),  *)
(* never gets a second job.                                                *)
OneJobPerKey == \A i, j \in jobs : i.key = j.key => i = j

(* Nobody is told of a job that is not durably in the table.               *)
AnswerNamesJob ==
  \A r \in Requests :
    tx[r].pc \in {"accepted", "reused"} => Committed(tx[r].key)

(* Row locks never leave two uploads waiting for each other: every request *)
(* that has begun is answered.                                             *)
EveryRequestAnswered ==
  \A r \in Requests : tx[r].pc \in Open ~> tx[r].pc \in Final

Told == {<< r, tx[r].key >> : r \in {q \in Requests : tx[q].pc \in {"accepted", "reused"}}}

Ledger == INSTANCE AdmissionLedger
            WITH admitted <- jobs, told <- Told,
                 Calls <- [k \in Keys |-> ReservedCalls(k)],
                 Cost <- [k \in Keys |-> ReservedCost(k)],
                 MaxCalls <- DailyMaxCalls, MaxCost <- DailyBudget

(* The statements of the interleaved transactions implement one atomic     *)
(* admission: at each commit the jobs themselves, and not only the counter *)
(* row that was locked earlier, leave room for the new job, its key is     *)
(* new, and every answer names a job that is there when it is given.       *)
KeepsLedger == Ledger!Spec
=============================================================================
