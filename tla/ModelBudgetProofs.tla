------------------------- MODULE ModelBudgetProofs -------------------------
(***************************************************************************)
(* Proofs about ModelBudget, for every set of requests and keys, every     *)
(* batch size and every setting of the limits.                             *)
(***************************************************************************)
EXTENDS ModelBudget, FiniteSetTheorems, TLAPS

(***************************************************************************)
(* The arithmetic of the reservation.                                      *)
(***************************************************************************)
LEMMA DivisionBounds ==
  ASSUME NEW a \in Nat, NEW b \in Nat \ {0}
  PROVE  /\ a \div b \in Nat
         /\ b * (a \div b) <= a
         /\ a < b * (a \div b) + b
<1>1. a = b * (a \div b) + (a % b) /\ a % b \in 0 .. b - 1 /\ a \div b \in Int
  BY SMT
<1>2. a \div b >= 0
  BY SMT
<1>3. b * (a \div b) \in Int
  BY <1>1
<1> QED
  BY <1>1, <1>2, <1>3

LEMMA ReservationType ==
  ASSUME NEW k \in Keys
  PROVE  /\ ReservedCalls(k) \in Nat
         /\ ReservedCost(k) \in Nat
         /\ Items[k] # 0 => ReservedCalls(k) >= 1
<1> DEFINE n == Items[k]
           m == n * RetryMax
<1>1. n \in Nat /\ RetryMax \in Nat \ {0} /\ JobMaxCalls \in Nat \ {0}
  BY ItemsAssumption, LimitsAssumption
<1>2. m \in Nat /\ (n # 0 => m >= 1)
  BY <1>1
<1>3. ReservedCalls(k) \in Nat /\ (n # 0 => ReservedCalls(k) >= 1)
  <2> HIDE DEF m
  <2> ReservedCalls(k) = IF m <= JobMaxCalls THEN m ELSE JobMaxCalls
    BY DEF ReservedCalls, Least, m
  <2> QED
    BY <1>1, <1>2
<1>4. CostPerCall \in Nat /\ Quantum \in Nat \ {0}
  BY LimitsAssumption
<1>5. CostPerCall * ReservedCalls(k) \in Nat
  BY <1>3, <1>4
<1>6. CostPerCall * ReservedCalls(k) + Quantum - 1 \in Nat
  BY <1>4, <1>5
<1>7. CeilDiv(CostPerCall * ReservedCalls(k), Quantum) \in Nat
  BY <1>4, <1>6, DivisionBounds DEF CeilDiv
<1> QED
  BY <1>3, <1>4, <1>7 DEF ReservedCost

LEMMA TimesMonotone ==
  ASSUME NEW c \in Nat, NEW x \in Nat, NEW y \in Nat, x <= y
  PROVE  c * x <= c * y
<1>1. PICK d \in Nat : y = x + d
  <2>1. y = x + (y - x) /\ y - x \in Nat
    OBVIOUS
  <2> QED
    BY <2>1
<1>2. c * y = c * x + c * d
  BY <1>1
<1>3. c * d \in Nat /\ c * x \in Nat
  BY <1>1
<1> QED
  BY <1>2, <1>3

(* The hard limit the worker computes back from the reserved money         *)
(* (semantic_jobs.py, execute_model_analysis_job) is exactly the number of *)
(* calls the job reserved: rounding the money up never grants a call.      *)
THEOREM CallLimitIsReservation ==
  ASSUME NEW k \in Keys
  PROVE  ModelCallLimit(k) = ReservedCalls(k)
<1> DEFINE n == ReservedCalls(k)
           t == CeilDiv(CostPerCall * n, Quantum)
           u == (Quantum * t) \div CostPerCall
<1>1. n \in Nat /\ CostPerCall \in Nat \ {0} /\ Quantum \in Nat \ {0}
  BY ReservationType, LimitsAssumption, CostAssumption
<1> HIDE DEF n
<1>2. CostPerCall * n \in Nat /\ CostPerCall * n + Quantum - 1 \in Nat
  BY <1>1
<1>3. /\ t \in Nat
      /\ Quantum * t <= CostPerCall * n + Quantum - 1
      /\ CostPerCall * n + Quantum - 1 < Quantum * t + Quantum
  BY <1>1, <1>2, DivisionBounds DEF CeilDiv
<1> HIDE DEF t
<1>4. Quantum * t \in Nat
  BY <1>1, <1>3
<1>5. /\ CostPerCall * n <= Quantum * t
      /\ Quantum * t < CostPerCall * n + CostPerCall
  BY <1>1, <1>2, <1>3, <1>4, CostAssumption
<1>6. /\ u \in Nat
      /\ CostPerCall * u <= Quantum * t
      /\ Quantum * t < CostPerCall * u + CostPerCall
  BY <1>1, <1>4, DivisionBounds
<1> HIDE DEF u
<1>7. CostPerCall * u \in Nat
  BY <1>1, <1>6
<1>8. ~(u + 1 <= n)
  <2> SUFFICES ASSUME u + 1 <= n PROVE FALSE
    OBVIOUS
  <2>1. CostPerCall * (u + 1) <= CostPerCall * n
    BY <1>1, <1>6, TimesMonotone
  <2>2. CostPerCall * (u + 1) = CostPerCall * u + CostPerCall
    BY <1>1, <1>6
  <2> QED
    BY <2>1, <2>2, <1>1, <1>2, <1>4, <1>5, <1>6, <1>7
<1>9. ~(n + 1 <= u)
  <2> SUFFICES ASSUME n + 1 <= u PROVE FALSE
    OBVIOUS
  <2>1. CostPerCall * (n + 1) <= CostPerCall * u
    BY <1>1, <1>6, TimesMonotone
  <2>2. CostPerCall * (n + 1) = CostPerCall * n + CostPerCall
    BY <1>1
  <2> QED
    BY <2>1, <2>2, <1>1, <1>2, <1>4, <1>5, <1>6, <1>7
<1>10. u = n
  BY <1>1, <1>6, <1>8, <1>9
<1> QED
  BY <1>10 DEF ModelCallLimit, ReservedCost, u, t, n

(***************************************************************************)
(* Type correctness.                                                       *)
(***************************************************************************)
LEMMA DaysNonEmpty == 1 \in Days /\ Days \subseteq Nat
  BY DaysAssumption DEF Days

(* Every reachable state is well typed, whatever the interleaving.         *)
THEOREM TypeCorrect == Spec => []TypeOK
<1>1. Init => TypeOK
  BY DaysNonEmpty DEF Init, TypeOK, Reservation
<1>2. TypeOK /\ [Next]_vars => TypeOK'
  <2> SUFFICES ASSUME TypeOK, [Next]_vars
               PROVE  TypeOK'
    OBVIOUS
  <2> USE DEF TypeOK, Open, Final, Goto
  <2>1. ASSUME NEW r \in Requests, NEW k \in Keys, Lookup(r, k)
        PROVE  TypeOK'
    BY <2>1 DEF Lookup
  <2>2. ASSUME NEW r \in Requests, Reserve(r)
        PROVE  TypeOK'
    BY <2>2 DEF Reserve
  <2>3. ASSUME NEW r \in Requests, InsertJob(r)
        PROVE  TypeOK'
    BY <2>3 DEF InsertJob
  <2>4. ASSUME NEW r \in Requests, Commit(r)
        PROVE  TypeOK'
    <3> DEFINE k == tx[r].key
               d == tx[r].day
    <3>1. k \in Keys /\ d \in Days
      BY <2>4 DEF Commit
    <3>2. ReservedCalls(k) \in Nat /\ ReservedCost(k) \in Nat
      BY <3>1, ReservationType
    <3>3. counter[d].calls \in Nat /\ counter[d].cost \in Nat
      BY <3>1 DEF Reservation
    <3>4. counter' \in [Days -> Reservation]
      BY <2>4, <3>1, <3>2, <3>3 DEF Commit, Reservation
    <3>5. jobs' \subseteq JobRow
      BY <2>4, <3>1, <3>2 DEF Commit, JobRow
    <3> QED
      BY <2>4, <3>4, <3>5 DEF Commit
  <2>5. ASSUME NEW r \in Requests, Reuse(r)
        PROVE  TypeOK'
    BY <2>5 DEF Reuse
  <2>6. ASSUME NEW r \in Requests, Abort(r)
        PROVE  TypeOK'
    BY <2>6 DEF Abort
  <2>7. CASE Midnight
    BY <2>7, DaysAssumption DEF Midnight, Days
  <2>8. CASE Answered
    BY <2>8 DEF Answered, vars
  <2>9. CASE UNCHANGED vars
    BY <2>9 DEF vars
  <2> QED
    BY <2>1, <2>2, <2>3, <2>4, <2>5, <2>6, <2>7, <2>8, <2>9 DEF Next
<1> QED
  BY <1>1, <1>2, PTL DEF Spec

(***************************************************************************)
(* The inductive invariant.  Its first part is the protocol of the two row *)
(* locks; the second says what a transaction still knows when it commits.  *)
(***************************************************************************)
Writing(q) == tx[q].pc \in {"reserved", "inserted"}

OneWriterPerRow ==
  \A p, q \in Requests : Writing(p) /\ Writing(q) /\ tx[p].day = tx[q].day => p = q

OneTwinInserted ==
  \A p, q \in Requests :
    tx[p].pc = "inserted" /\ tx[q].pc = "inserted" /\ tx[p].key = tx[q].key => p = q

InsertedIsFresh ==
  \A q \in Requests : tx[q].pc = "inserted" => ~Committed(tx[q].key)

CheckedIsAdmissible ==
  \A q \in Requests : tx[q].pc \in {"checked", "reserved", "inserted"} =>
    AdmissibleAlone(tx[q].key) /\ Items[tx[q].key] # 0

ReservationFits ==
  \A q \in Requests : Writing(q) =>
    /\ counter[tx[q].day].calls + ReservedCalls(tx[q].key) <= DailyMaxCalls
    /\ counter[tx[q].day].cost + ReservedCost(tx[q].key) <= DailyBudget

AbsentRowIsZero == \A d \in Days : ~RowExists(d) => counter[d].cost = 0

JobsAreAccepted == \A j \in jobs : tx[j.request].pc = "accepted"

FoundIsCommitted ==
  \A q \in Requests :
    tx[q].pc \in {"found", "accepted", "reused"} => Committed(tx[q].key)

LockInv == OneWriterPerRow /\ OneTwinInserted /\ InsertedIsFresh
ReserveInv == CheckedIsAdmissible /\ ReservationFits /\ AbsentRowIsZero
AnswerInv == JobsAreAccepted /\ FoundIsCommitted
IInv == TypeOK /\ LockInv /\ ReserveInv /\ AnswerInv
          /\ WithinDailyLimit /\ OneJobPerKey

LEMMA GotoFacts ==
  ASSUME TypeOK, NEW r \in Requests, NEW pc, Goto(r, pc)
  PROVE  /\ tx'[r].pc = pc /\ tx'[r].key = tx[r].key /\ tx'[r].day = tx[r].day
         /\ \A q \in Requests \ {r} : tx'[q] = tx[q]
BY DEF TypeOK, Goto

(* The steps that touch neither table.                                     *)
LEMMA LookupKeepsIInv ==
  ASSUME TypeOK', IInv, NEW r \in Requests, NEW k \in Keys, Lookup(r, k)
  PROVE  IInv'
<1>1. /\ tx'[r].key = k
      /\ tx'[r].pc \in {"refused", "found", "checked"}
      /\ tx'[r].pc = "found" => Committed(k)
      /\ tx'[r].pc = "checked" => AdmissibleAlone(k) /\ Items[k] # 0
      /\ tx[r].pc = "idle"
      /\ \A q \in Requests \ {r} : tx'[q] = tx[q]
      /\ counter' = counter /\ jobs' = jobs
  BY DEF Lookup, IInv, TypeOK
<1>2. \A kk : Committed(kk)' <=> Committed(kk)
  BY <1>1 DEF Committed
<1>3. LockInv'
  BY <1>1, <1>2 DEF IInv, LockInv, OneWriterPerRow, OneTwinInserted,
       InsertedIsFresh, Writing
<1>4. ReserveInv'
  BY <1>1 DEF IInv, ReserveInv, CheckedIsAdmissible, ReservationFits,
       AbsentRowIsZero, Writing, RowExists
<1>5. AnswerInv'
  <2>1. JobsAreAccepted'
    BY <1>1 DEF IInv, AnswerInv, JobsAreAccepted, TypeOK, JobRow
  <2>2. FoundIsCommitted'
    BY <1>1, <1>2 DEF IInv, AnswerInv, FoundIsCommitted
  <2> QED
    BY <2>1, <2>2 DEF AnswerInv
<1>6. WithinDailyLimit' /\ OneJobPerKey'
  BY <1>1 DEF IInv, WithinDailyLimit, OneJobPerKey
<1> QED
  BY <1>3, <1>4, <1>5, <1>6 DEF IInv

(* Reserve takes the row lock only where nobody else holds it, and keeps   *)
(* it only if the reservation fits the row as it then is.                  *)
LEMMA ReserveKeepsIInv ==
  ASSUME TypeOK', IInv, NEW r \in Requests, Reserve(r)
  PROVE  IInv'
<1> DEFINE k == tx[r].key
           d == tx[r].day
<1>1. /\ tx'[r].key = k /\ tx'[r].day = d
      /\ tx'[r].pc \in {"reserved", "refused"}
      /\ tx'[r].pc = "reserved" => FitsDay(k, d)
      /\ tx[r].pc = "checked" /\ RowFree(d)
      /\ \A q \in Requests \ {r} : tx'[q] = tx[q]
      /\ counter' = counter /\ jobs' = jobs
      /\ k \in Keys /\ d \in Days
  BY GotoFacts DEF Reserve, IInv, TypeOK
<1>2. \A kk : Committed(kk)' <=> Committed(kk)
  BY <1>1 DEF Committed
<1>3. LockInv'
  BY <1>1, <1>2 DEF IInv, LockInv, OneWriterPerRow, OneTwinInserted,
       InsertedIsFresh, Writing, RowFree
<1>4. FitsDay(k, d) => /\ counter[d].calls + ReservedCalls(k) <= DailyMaxCalls
                       /\ counter[d].cost + ReservedCost(k) <= DailyBudget
  <2>1. AdmissibleAlone(k)
    BY <1>1 DEF IInv, ReserveInv, CheckedIsAdmissible
  <2>2. ~RowExists(d) => counter[d].calls = 0 /\ counter[d].cost = 0
    BY <1>1 DEF IInv, ReserveInv, AbsentRowIsZero, RowExists, TypeOK, Reservation
  <2>3. ReservedCalls(k) \in Nat /\ ReservedCost(k) \in Nat
    BY <1>1, ReservationType
  <2> QED
    BY <2>1, <2>2, <2>3 DEF FitsDay, AdmissibleAlone
<1>5. ReserveInv'
  BY <1>1, <1>4 DEF IInv, ReserveInv, CheckedIsAdmissible, ReservationFits,
       AbsentRowIsZero, Writing, RowExists
<1>6. AnswerInv'
  <2>1. JobsAreAccepted'
    BY <1>1 DEF IInv, AnswerInv, JobsAreAccepted, TypeOK, JobRow
  <2>2. FoundIsCommitted'
    BY <1>1, <1>2 DEF IInv, AnswerInv, FoundIsCommitted
  <2> QED
    BY <2>1, <2>2 DEF AnswerInv
<1>7. WithinDailyLimit' /\ OneJobPerKey'
  BY <1>1 DEF IInv, WithinDailyLimit, OneJobPerKey
<1> QED
  BY <1>3, <1>5, <1>6, <1>7 DEF IInv

(* The unique index lets one uncommitted row per key in, and no second     *)
(* committed one.                                                          *)
LEMMA InsertKeepsIInv ==
  ASSUME TypeOK', IInv, NEW r \in Requests, InsertJob(r)
  PROVE  IInv'
<1> DEFINE k == tx[r].key
<1>1. /\ tx'[r].key = k /\ tx'[r].day = tx[r].day
      /\ tx'[r].pc \in {"inserted", "failed"}
      /\ tx'[r].pc = "inserted" => ~Committed(k)
      /\ tx[r].pc = "reserved" /\ KeyFree(k)
      /\ \A q \in Requests \ {r} : tx'[q] = tx[q]
      /\ counter' = counter /\ jobs' = jobs
  BY GotoFacts DEF InsertJob, IInv
<1>2. \A kk : Committed(kk)' <=> Committed(kk)
  BY <1>1 DEF Committed
<1>3. LockInv'
  BY <1>1, <1>2 DEF IInv, LockInv, OneWriterPerRow, OneTwinInserted,
       InsertedIsFresh, Writing, KeyFree
<1>4. ReserveInv'
  BY <1>1 DEF IInv, ReserveInv, CheckedIsAdmissible, ReservationFits,
       AbsentRowIsZero, Writing, RowExists
<1>5. AnswerInv'
  <2>1. JobsAreAccepted'
    BY <1>1 DEF IInv, AnswerInv, JobsAreAccepted, TypeOK, JobRow
  <2>2. FoundIsCommitted'
    BY <1>1, <1>2 DEF IInv, AnswerInv, FoundIsCommitted
  <2> QED
    BY <2>1, <2>2 DEF AnswerInv
<1>6. WithinDailyLimit' /\ OneJobPerKey'
  BY <1>1 DEF IInv, WithinDailyLimit, OneJobPerKey
<1> QED
  BY <1>3, <1>4, <1>5, <1>6 DEF IInv

(* An answer without a write: Reuse and Abort.                             *)
LEMMA EndKeepsIInv ==
  ASSUME TypeOK', IInv, NEW r \in Requests, Reuse(r) \/ Abort(r)
  PROVE  IInv'
<1>1. /\ tx'[r].key = tx[r].key
      /\ tx'[r].pc \in {"reused", "failed"}
      /\ tx'[r].pc = "reused" => tx[r].pc = "found"
      /\ tx[r].pc \in Open
      /\ \A q \in Requests \ {r} : tx'[q] = tx[q]
      /\ counter' = counter /\ jobs' = jobs
  BY GotoFacts DEF Reuse, Abort, IInv, Open
<1>2. \A kk : Committed(kk)' <=> Committed(kk)
  BY <1>1 DEF Committed
<1>3. LockInv'
  BY <1>1, <1>2 DEF IInv, LockInv, OneWriterPerRow, OneTwinInserted,
       InsertedIsFresh, Writing
<1>4. ReserveInv'
  BY <1>1 DEF IInv, ReserveInv, CheckedIsAdmissible, ReservationFits,
       AbsentRowIsZero, Writing, RowExists
<1>5. AnswerInv'
  <2>1. JobsAreAccepted'
    BY <1>1 DEF IInv, AnswerInv, JobsAreAccepted, TypeOK, JobRow, Open
  <2>2. FoundIsCommitted'
    BY <1>1, <1>2 DEF IInv, AnswerInv, FoundIsCommitted
  <2> QED
    BY <2>1, <2>2 DEF AnswerInv
<1>6. WithinDailyLimit' /\ OneJobPerKey'
  BY <1>1 DEF IInv, WithinDailyLimit, OneJobPerKey
<1> QED
  BY <1>3, <1>4, <1>5, <1>6 DEF IInv

(* What a commit changes: one counter row and one new job row.             *)
NewJob(r) == [request |-> r, key |-> tx[r].key, day |-> tx[r].day,
              calls |-> ReservedCalls(tx[r].key), cost |-> ReservedCost(tx[r].key)]

LEMMA CommitFacts ==
  ASSUME IInv, NEW r \in Requests, Commit(r)
  PROVE  /\ tx[r].key \in Keys /\ tx[r].day \in Days
         /\ ReservedCalls(tx[r].key) \in Nat \ {0}
         /\ ReservedCost(tx[r].key) \in Nat
         /\ tx[r].pc = "inserted" /\ tx'[r].pc = "accepted"
         /\ tx'[r].key = tx[r].key
         /\ \A q \in Requests \ {r} : tx'[q] = tx[q]
         /\ \A e \in Days \ {tx[r].day} : counter'[e] = counter[e]
         /\ counter[tx[r].day].calls \in Nat /\ counter[tx[r].day].cost \in Nat
         /\ counter'[tx[r].day].calls
              = counter[tx[r].day].calls + ReservedCalls(tx[r].key)
         /\ counter'[tx[r].day].cost
              = counter[tx[r].day].cost + ReservedCost(tx[r].key)
         /\ jobs' = jobs \cup {NewJob(r)} /\ NewJob(r) \notin jobs
<1>1. tx[r].key \in Keys /\ tx[r].day \in Days /\ tx[r].pc = "inserted"
  BY DEF IInv, TypeOK, Commit
<1>2. ReservedCalls(tx[r].key) \in Nat \ {0} /\ ReservedCost(tx[r].key) \in Nat
  BY <1>1, ReservationType DEF IInv, ReserveInv, CheckedIsAdmissible
<1>3. /\ tx'[r].pc = "accepted" /\ tx'[r].key = tx[r].key
      /\ \A q \in Requests \ {r} : tx'[q] = tx[q]
  BY GotoFacts DEF Commit, IInv
<1>4. /\ \A e \in Days \ {tx[r].day} : counter'[e] = counter[e]
      /\ counter[tx[r].day].calls \in Nat /\ counter[tx[r].day].cost \in Nat
      /\ counter'[tx[r].day].calls
           = counter[tx[r].day].calls + ReservedCalls(tx[r].key)
      /\ counter'[tx[r].day].cost
           = counter[tx[r].day].cost + ReservedCost(tx[r].key)
  BY <1>1 DEF Commit, IInv, TypeOK, Reservation
<1>5. jobs' = jobs \cup {NewJob(r)}
  BY DEF Commit, NewJob
<1>6. NewJob(r) \notin jobs
  BY <1>1 DEF IInv, AnswerInv, JobsAreAccepted, NewJob
<1> QED
  BY <1>1, <1>2, <1>3, <1>4, <1>5, <1>6

LEMMA CommitKeepsIInv ==
  ASSUME TypeOK', IInv, NEW r \in Requests, Commit(r)
  PROVE  IInv'
<1> DEFINE k == tx[r].key
           d == tx[r].day
<1>1. /\ k \in Keys /\ d \in Days
      /\ ReservedCalls(k) \in Nat \ {0} /\ ReservedCost(k) \in Nat
      /\ tx[r].pc = "inserted" /\ tx'[r].pc = "accepted" /\ tx'[r].key = k
      /\ \A q \in Requests \ {r} : tx'[q] = tx[q]
  BY CommitFacts
<1>2. /\ \A e \in Days \ {d} : counter'[e] = counter[e]
      /\ counter[d].calls \in Nat /\ counter[d].cost \in Nat
      /\ counter'[d].calls = counter[d].calls + ReservedCalls(k)
      /\ counter'[d].cost = counter[d].cost + ReservedCost(k)
  BY CommitFacts
<1>3. jobs' = jobs \cup {NewJob(r)} /\ NewJob(r) \notin jobs
  BY CommitFacts
<1>5. \A q \in Requests : Writing(q)' => q # r /\ Writing(q) /\ tx'[q] = tx[q]
  BY <1>1 DEF Writing
<1>6. \A q \in Requests \ {r} : Writing(q) => tx[q].day # d
  BY <1>1 DEF IInv, LockInv, OneWriterPerRow, Writing
<1>7. LockInv'
  <2>1. OneWriterPerRow' /\ OneTwinInserted'
    BY <1>1, <1>5 DEF IInv, LockInv, OneWriterPerRow, OneTwinInserted
  <2>2. ASSUME NEW q \in Requests, tx'[q].pc = "inserted"
        PROVE  ~Committed(tx[q].key)'
    <3>1. q # r /\ tx'[q] = tx[q] /\ tx[q].pc = "inserted" /\ tx[q].key \in Keys
      BY <1>1, <2>2 DEF IInv, TypeOK
    <3>2. tx[q].key # k /\ ~Committed(tx[q].key)
      BY <1>1, <3>1 DEF IInv, LockInv, OneTwinInserted, InsertedIsFresh
    <3>3. \A j \in jobs' : j.key # tx[q].key
      BY <1>3, <3>2 DEF Committed, NewJob
    <3> QED
      BY <3>1, <3>3 DEF Committed
  <2> QED
    BY <2>1, <2>2 DEF LockInv, InsertedIsFresh
<1>8. ReserveInv'
  <2>1. CheckedIsAdmissible'
    BY <1>1 DEF IInv, ReserveInv, CheckedIsAdmissible, AdmissibleAlone
  <2>2. ReservationFits'
    <3> SUFFICES ASSUME NEW q \in Requests, Writing(q)'
                 PROVE  /\ (counter[tx[q].day].calls + ReservedCalls(tx[q].key) <= DailyMaxCalls)'
                        /\ (counter[tx[q].day].cost + ReservedCost(tx[q].key) <= DailyBudget)'
      BY DEF ReservationFits
    <3>1. q # r /\ Writing(q) /\ tx'[q] = tx[q] /\ tx[q].day \in Days
      BY <1>5 DEF IInv, TypeOK
    <3>2. counter'[tx[q].day] = counter[tx[q].day]
      BY <1>2, <1>6, <3>1
    <3> QED
      BY <3>1, <3>2 DEF IInv, ReserveInv, ReservationFits
  <2>3. AbsentRowIsZero'
    BY <1>1, <1>2 DEF IInv, ReserveInv, AbsentRowIsZero, RowExists
  <2> QED
    BY <2>1, <2>2, <2>3 DEF ReserveInv
<1>9. AnswerInv'
  <2>1. JobsAreAccepted'
    BY <1>1, <1>3 DEF IInv, AnswerInv, JobsAreAccepted, TypeOK, JobRow, NewJob
  <2>2. ASSUME NEW q \in Requests, tx'[q].pc \in {"found", "accepted", "reused"}
        PROVE  Committed(tx[q].key)'
    <3>1. tx[q].key \in Keys
      BY <1>1, <2>2 DEF IInv, TypeOK
    <3>2. q = r \/ Committed(tx[q].key)
      BY <1>1, <2>2 DEF IInv, AnswerInv, FoundIsCommitted
    <3> QED
      BY <1>1, <1>3, <3>1, <3>2 DEF Committed, NewJob
  <2>3. FoundIsCommitted'
    BY <2>2 DEF FoundIsCommitted
  <2> QED
    BY <2>1, <2>3 DEF AnswerInv
<1>10. WithinDailyLimit'
  <2>1. /\ counter[d].calls + ReservedCalls(k) <= DailyMaxCalls
        /\ counter[d].cost + ReservedCost(k) <= DailyBudget
    BY <1>1 DEF IInv, ReserveInv, ReservationFits, Writing
  <2> QED
    BY <1>2, <2>1 DEF IInv, WithinDailyLimit
<1>11. OneJobPerKey'
  <2>1. \A j \in jobs : j.key # k
    BY <1>1 DEF IInv, LockInv, InsertedIsFresh, Committed
  <2> QED
    BY <1>3, <2>1 DEF IInv, OneJobPerKey, NewJob
<1> QED
  BY <1>7, <1>8, <1>9, <1>10, <1>11 DEF IInv

LEMMA InitIInv == Init => IInv
<1> SUFFICES ASSUME Init PROVE IInv
  OBVIOUS
<1>1. TypeOK
  BY DaysNonEmpty DEF Init, TypeOK, Reservation
<1>2. LockInv /\ ReserveInv /\ AnswerInv
  BY DEF Init, LockInv, OneWriterPerRow, OneTwinInserted, InsertedIsFresh,
     ReserveInv, CheckedIsAdmissible, ReservationFits, AbsentRowIsZero,
     AnswerInv, JobsAreAccepted, FoundIsCommitted, Writing
<1>3. WithinDailyLimit
  BY LimitsAssumption DEF Init, WithinDailyLimit
<1>4. OneJobPerKey
  BY DEF Init, OneJobPerKey
<1> QED
  BY <1>1, <1>2, <1>3, <1>4 DEF IInv

LEMMA StutterKeepsIInv ==
  ASSUME TypeOK', IInv, UNCHANGED <<counter, jobs, tx>>
  PROVE  IInv'
BY DEF IInv, LockInv, OneWriterPerRow, OneTwinInserted, InsertedIsFresh,
   ReserveInv, CheckedIsAdmissible, ReservationFits, AbsentRowIsZero,
   AnswerInv, JobsAreAccepted, FoundIsCommitted, Writing, RowExists,
   AdmissibleAlone, Committed, WithinDailyLimit, OneJobPerKey

LEMMA NextIInv == TypeOK' /\ IInv /\ [Next]_vars => IInv'
<1> SUFFICES ASSUME TypeOK', IInv, [Next]_vars
             PROVE  IInv'
  OBVIOUS
<1>1. ASSUME NEW r \in Requests, NEW k \in Keys, Lookup(r, k)
      PROVE  IInv'
  BY <1>1, LookupKeepsIInv
<1>2. ASSUME NEW r \in Requests, Reserve(r)
      PROVE  IInv'
  BY <1>2, ReserveKeepsIInv
<1>3. ASSUME NEW r \in Requests, InsertJob(r)
      PROVE  IInv'
  BY <1>3, InsertKeepsIInv
<1>4. ASSUME NEW r \in Requests, Commit(r)
      PROVE  IInv'
  BY <1>4, CommitKeepsIInv
<1>5. ASSUME NEW r \in Requests, Reuse(r) \/ Abort(r)
      PROVE  IInv'
  BY <1>5, EndKeepsIInv
<1>6. CASE Midnight
  BY <1>6, StutterKeepsIInv DEF Midnight
<1>7. CASE Answered \/ UNCHANGED vars
  BY <1>7, StutterKeepsIInv DEF Answered, vars
<1> QED
  BY <1>1, <1>2, <1>3, <1>4, <1>5, <1>6, <1>7 DEF Next

THEOREM InductiveInvariant == Spec => []IInv
<1>1. [][Next]_vars /\ []TypeOK /\ IInv => []IInv
  <2>1. TypeOK' /\ IInv /\ [Next]_vars => IInv'
    BY NextIInv
  <2> QED
    BY <2>1, PTL
<1> QED
  BY InitIInv, TypeCorrect, <1>1, PTL DEF Spec

(* The daily gate holds whatever interleaves: the row lock keeps the       *)
(* inequality the upsert checked true until its transaction commits.       *)
THEOREM DailyLimitHolds == Spec => []WithinDailyLimit
<1>1. IInv => WithinDailyLimit
  BY DEF IInv
<1> QED
  BY <1>1, InductiveInvariant, PTL

(* A resubmission never creates a second job, midnight or not.             *)
THEOREM JobIsUnique == Spec => []OneJobPerKey
<1>1. IInv => OneJobPerKey
  BY DEF IInv
<1> QED
  BY <1>1, InductiveInvariant, PTL

(* Every answer that names a job names a committed one.                    *)
THEOREM AnswersAreDurable == Spec => []AnswerNamesJob
<1>1. IInv => AnswerNamesJob
  BY DEF IInv, AnswerInv, FoundIsCommitted, AnswerNamesJob
<1> QED
  BY <1>1, InductiveInvariant, PTL

(***************************************************************************)
(* Conservation.  The sum of the reservations is a cardinality, so a       *)
(* commit adds the size of one more disjoint block of slots.               *)
(***************************************************************************)
LEMMA AddBlock ==
  ASSUME NEW S, IsFiniteSet(S), NEW j, NEW n \in Nat, S \cap ({j} \X (1 .. n)) = {}
  PROVE  /\ IsFiniteSet(S \cup ({j} \X (1 .. n)))
         /\ Cardinality(S \cup ({j} \X (1 .. n))) = Cardinality(S) + n
<1> DEFINE B == {j} \X (1 .. n)
<1>1. IsFiniteSet({j}) /\ Cardinality({j}) = 1
  BY FS_Singleton
<1>2. IsFiniteSet(1 .. n) /\ Cardinality(1 .. n) = n
  BY FS_Interval
<1>3. IsFiniteSet(B) /\ Cardinality(B) = n
  <2>1. /\ IsFiniteSet({j} \X (1 .. n))
        /\ Cardinality({j} \X (1 .. n)) = Cardinality({j}) * Cardinality(1 .. n)
    BY <1>1, <1>2, FS_Product
  <2>2. Cardinality({j} \X (1 .. n)) = 1 * n
    BY <2>1, <1>1, <1>2
  <2> QED
    BY <2>1, <2>2
<1>4. Cardinality(S) \in Nat /\ Cardinality(S \cap B) = 0
  BY FS_CardinalityType, FS_EmptySet
<1>5. /\ IsFiniteSet(S \cup B)
      /\ Cardinality(S \cup B) = Cardinality(S) + Cardinality(B) - Cardinality(S \cap B)
  BY <1>3, FS_Union
<1> QED
  BY <1>3, <1>4, <1>5

SlotsInv ==
  \A d \in Days :
    /\ IsFiniteSet(CallSlots(d)) /\ counter[d].calls = Cardinality(CallSlots(d))
    /\ IsFiniteSet(CostSlots(d)) /\ counter[d].cost = Cardinality(CostSlots(d))

LEMMA CommitKeepsSlots ==
  ASSUME IInv, SlotsInv, NEW r \in Requests, Commit(r)
  PROVE  SlotsInv'
<1> DEFINE j == NewJob(r)
           n == ReservedCalls(tx[r].key)
           c == ReservedCost(tx[r].key)
<1>1. jobs' = jobs \cup {j} /\ j \notin jobs
  BY CommitFacts
<1>2. j.day = tx[r].day /\ j.calls = n /\ j.cost = c
  BY DEF NewJob
<1>3. n \in Nat /\ c \in Nat /\ tx[r].day \in Days
  BY CommitFacts
<1>4. /\ \A e \in Days \ {tx[r].day} : counter'[e] = counter[e]
      /\ counter'[tx[r].day].calls = counter[tx[r].day].calls + n
      /\ counter'[tx[r].day].cost = counter[tx[r].day].cost + c
  BY CommitFacts
<1> HIDE DEF j, n, c
<1>5. SUFFICES ASSUME NEW d \in Days
               PROVE  /\ IsFiniteSet(CallSlots(d)')
                      /\ counter'[d].calls = Cardinality(CallSlots(d)')
                      /\ IsFiniteSet(CostSlots(d)')
                      /\ counter'[d].cost = Cardinality(CostSlots(d)')
  BY DEF SlotsInv
<1>6. CASE d # tx[r].day
  <2>1. {i \in jobs' : i.day = d} = {i \in jobs : i.day = d}
    BY <1>1, <1>2, <1>6
  <2>2. CallSlots(d)' = CallSlots(d) /\ CostSlots(d)' = CostSlots(d)
    BY <2>1 DEF CallSlots, CostSlots
  <2> QED
    BY <1>4, <1>6, <2>2 DEF SlotsInv
<1>7. CASE d = tx[r].day
  <2>1. {i \in jobs' : i.day = d} = {i \in jobs : i.day = d} \cup {j}
    BY <1>1, <1>2, <1>7
  <2>2. CallSlots(d)' = CallSlots(d) \cup ({j} \X (1 .. n))
    BY <1>2, <2>1 DEF CallSlots
  <2>3. CostSlots(d)' = CostSlots(d) \cup ({j} \X (1 .. c))
    BY <1>2, <2>1 DEF CostSlots
  <2>4. CallSlots(d) \cap ({j} \X (1 .. n)) = {}
    BY <1>1 DEF CallSlots
  <2>5. CostSlots(d) \cap ({j} \X (1 .. c)) = {}
    BY <1>1 DEF CostSlots
  <2>6. IsFiniteSet(CallSlots(d)) /\ IsFiniteSet(CostSlots(d))
    BY DEF SlotsInv
  <2>7. /\ IsFiniteSet(CallSlots(d) \cup ({j} \X (1 .. n)))
        /\ Cardinality(CallSlots(d) \cup ({j} \X (1 .. n)))
             = Cardinality(CallSlots(d)) + n
    <3> QED  BY <1>3, <2>4, <2>6, AddBlock
  <2>8. /\ IsFiniteSet(CostSlots(d) \cup ({j} \X (1 .. c)))
        /\ Cardinality(CostSlots(d) \cup ({j} \X (1 .. c)))
             = Cardinality(CostSlots(d)) + c
    <3> QED  BY <1>3, <2>5, <2>6, AddBlock
  <2> QED
    BY <1>4, <1>7, <2>2, <2>3, <2>7, <2>8 DEF SlotsInv
<1> QED
  BY <1>6, <1>7

LEMMA SlotsAreCounted == Spec => []SlotsInv
<1>1. Init => SlotsInv
  <2> SUFFICES ASSUME Init PROVE SlotsInv
    OBVIOUS
  <2>1. \A d \in Days : CallSlots(d) = {} /\ CostSlots(d) = {}
    BY DEF Init, CallSlots, CostSlots
  <2>2. \A d \in Days : counter[d].calls = 0 /\ counter[d].cost = 0
    BY DEF Init
  <2> QED
    BY <2>1, <2>2, FS_EmptySet DEF SlotsInv
<1>2. IInv /\ SlotsInv /\ [Next]_vars => SlotsInv'
  <2> SUFFICES ASSUME IInv, SlotsInv, [Next]_vars
               PROVE  SlotsInv'
    OBVIOUS
  <2>1. ASSUME NEW r \in Requests, Commit(r)
        PROVE  SlotsInv'
    BY <2>1, CommitKeepsSlots
  <2>2. CASE UNCHANGED <<counter, jobs>>
    BY <2>2 DEF SlotsInv, CallSlots, CostSlots
  <2> QED
    BY <2>1, <2>2 DEF Next, Lookup, Reserve, InsertJob, Reuse, Abort,
       Midnight, Answered, vars
<1> QED
  BY <1>1, <1>2, InductiveInvariant, PTL DEF Spec

(* Whatever fails or rolls back, the counter of a day is the sum of what   *)
(* its committed jobs reserved, in calls and in money.                     *)
THEOREM BudgetIsConserved == Spec => []BudgetConserved
<1>1. SlotsInv => BudgetConserved
  BY DEF SlotsInv, BudgetConserved
<1> QED
  BY <1>1, SlotsAreCounted, PTL

(***************************************************************************)
(* The refinement.  At a commit the row locked by the upsert still counts  *)
(* the jobs of the day, so the inequality it checked is one about jobs.    *)
(***************************************************************************)
LEMMA CommitAdmits ==
  ASSUME IInv, SlotsInv, NEW r \in Requests, Commit(r)
  PROVE  Ledger!Admit(r, tx[r].key, tx[r].day)
<1> DEFINE k == tx[r].key
           d == tx[r].day
           calls == [q \in Keys |-> ReservedCalls(q)]
           cost == [q \in Keys |-> ReservedCost(q)]
<1>1. /\ k \in Keys /\ d \in Days
      /\ tx[r].pc = "inserted" /\ tx'[r].pc = "accepted" /\ tx'[r].key = k
      /\ \A q \in Requests \ {r} : tx'[q] = tx[q]
      /\ jobs' = jobs \cup {NewJob(r)}
  BY CommitFacts
<1>2. calls[k] = ReservedCalls(k) /\ cost[k] = ReservedCost(k)
  BY <1>1
<1>3. Ledger!Untold(r)
  BY <1>1 DEF Ledger!Untold, Told
<1>4. \A j \in jobs : j.key # k
  BY <1>1 DEF IInv, LockInv, InsertedIsFresh, Committed
<1>5. /\ counter[d].calls + ReservedCalls(k) <= DailyMaxCalls
      /\ counter[d].cost + ReservedCost(k) <= DailyBudget
  BY <1>1 DEF IInv, ReserveInv, ReservationFits, Writing
<1>6. /\ Ledger!CallsOf(d) = counter[d].calls
      /\ Ledger!CostOf(d) = counter[d].cost
  <2>1. /\ counter[d].calls = Cardinality(CallSlots(d))
        /\ counter[d].cost = Cardinality(CostSlots(d))
    BY <1>1 DEF SlotsInv
  <2>2. \A S : Ledger!Cardinality(S) = Cardinality(S)
    BY DEF Ledger!Cardinality, Cardinality, Ledger!IsFiniteSet, IsFiniteSet
  <2>3. /\ Ledger!CallsOf(d) = Ledger!Cardinality(CallSlots(d))
        /\ Ledger!CostOf(d) = Ledger!Cardinality(CostSlots(d))
    BY DEF Ledger!CallsOf, Ledger!CostOf, Ledger!JobsOf, CallSlots, CostSlots
  <2> QED
    BY <2>1, <2>2, <2>3
<1>7. jobs' = jobs \cup {[request |-> r, key |-> k, day |-> d,
                          calls |-> calls[k], cost |-> cost[k]]}
  BY <1>1, <1>2 DEF NewJob
<1>8. Told' = Told \cup {<< r, k >>}
  BY <1>1 DEF Told
<1> HIDE DEF calls, cost
<1> QED
  BY <1>2, <1>3, <1>4, <1>5, <1>6, <1>7, <1>8 DEF Ledger!Admit, calls, cost

(* Every behaviour of the interleaved transactions is one of the ledger:   *)
(* a commit admits a job in one step, within the day's limits counted over *)
(* the jobs themselves, an upload that finds its key joins the job, and    *)
(* every other statement changes nothing that anybody can see.             *)
THEOREM ImplementsLedger == Spec => KeepsLedger
<1>1. Init => Ledger!Init
  BY DEF Init, Ledger!Init, Told
<1>2. IInv /\ SlotsInv /\ [Next]_vars => [Ledger!Next]_(Ledger!vars)
  <2> SUFFICES ASSUME IInv, SlotsInv, [Next]_vars
               PROVE  Ledger!Next \/ UNCHANGED << jobs, Told >>
    BY DEF Ledger!vars
  <2>1. ASSUME NEW r \in Requests, Commit(r)
        PROVE  Ledger!Next
    <3>1. Ledger!Admit(r, tx[r].key, tx[r].day)
      BY <2>1, CommitAdmits
    <3>2. tx[r].key \in Keys /\ tx[r].day \in Days
      BY <2>1, CommitFacts
    <3> QED
      BY <3>1, <3>2 DEF Ledger!Next
  <2>2. ASSUME NEW r \in Requests, Reuse(r)
        PROVE  Ledger!Next
    <3>1. /\ tx[r].pc = "found" /\ tx'[r].pc = "reused" /\ tx'[r].key = tx[r].key
          /\ \A q \in Requests \ {r} : tx'[q] = tx[q]
          /\ jobs' = jobs
      BY <2>2, GotoFacts DEF Reuse, IInv
    <3>2. tx[r].key \in Keys /\ \E j \in jobs : j.key = tx[r].key
      BY <3>1 DEF IInv, TypeOK, AnswerInv, FoundIsCommitted, Committed
    <3>3. Ledger!Untold(r)
      BY <3>1 DEF Ledger!Untold, Told
    <3>4. Told' = Told \cup {<< r, tx[r].key >>}
      BY <3>1 DEF Told
    <3> QED
      BY <3>1, <3>2, <3>3, <3>4 DEF Ledger!Next, Ledger!Join
  <2>3. ASSUME NEW r \in Requests,
               Reserve(r) \/ InsertJob(r) \/ Abort(r)
                 \/ \E k \in Keys : Lookup(r, k)
        PROVE  UNCHANGED << jobs, Told >>
    <3>1. /\ tx[r].pc \notin {"accepted", "reused"}
          /\ tx'[r].pc \notin {"accepted", "reused"}
          /\ \A q \in Requests \ {r} : tx'[q] = tx[q]
          /\ jobs' = jobs
      <4>1. CASE \E k \in Keys : Lookup(r, k)
        BY <4>1 DEF Lookup, IInv, TypeOK
      <4>2. CASE Reserve(r) \/ InsertJob(r) \/ Abort(r)
        <5>1. /\ tx[r].pc \in Open
              /\ \/ Goto(r, "failed") \/ Goto(r, "refused")
                 \/ Goto(r, "reserved") \/ Goto(r, "inserted")
              /\ jobs' = jobs
          BY <4>2 DEF Reserve, InsertJob, Abort, Open
        <5> QED
          BY <5>1, GotoFacts DEF IInv, Open
      <4> QED
        BY <2>3, <4>1, <4>2
    <3> QED
      BY <3>1 DEF Told
  <2>4. CASE UNCHANGED << jobs, tx >>
    BY <2>4 DEF Told
  <2> QED
    BY <2>1, <2>2, <2>3, <2>4 DEF Next, Midnight, Answered, vars
<1> QED
  BY <1>1, <1>2, InductiveInvariant, SlotsAreCounted, PTL DEF Spec, KeepsLedger, Ledger!Spec
=============================================================================
