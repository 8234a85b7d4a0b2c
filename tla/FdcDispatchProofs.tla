-------------------------- MODULE FdcDispatchProofs --------------------------
(***************************************************************************)
(* What TLAPS proves of FdcDispatch for every set of jobs, every rate,     *)
(* window, lock wait and number of disturbances.                           *)
(***************************************************************************)
EXTENDS FdcDispatch, FiniteSetTheorems, TLAPS

\* The rows of age k to k + Window - 1: one window, ending k ticks ago.
InWindow(rows, k) == {s \in Slot : k <= rows[s] /\ rows[s] < k + Window}

Ages == [Slot -> 0..Expired]

(***************************************************************************)
(* Both anchors keep rows of known age within the rate.                    *)
(***************************************************************************)
WindowInv ==
    /\ quota \in Ages
    /\ gate \in Ages
    /\ QuotaWindow
    /\ GateWindow

-----------------------------------------------------------------------------
\* Sets of rows are finite, and a smaller one has no more members.
LEMMA RowsFinite ==
    ASSUME NEW S \in SUBSET Slot, NEW T \in SUBSET S
    PROVE  /\ IsFiniteSet(S)
           /\ Cardinality(S) \in Nat
           /\ Cardinality(T) \in Nat
           /\ Cardinality(T) <= Cardinality(S)
<1>1. IsFiniteSet(S)
  BY SlotAssumption, FS_Subset, Zenon
<1>2. IsFiniteSet(T) /\ Cardinality(T) <= Cardinality(S)
  BY <1>1, FS_Subset, Zenon
<1> QED
  BY <1>1, <1>2, FS_CardinalityType, Zenon

\* One more row adds at most one to the count.
LEMMA OneMoreRow ==
    ASSUME NEW S \in SUBSET Slot, NEW T \in SUBSET Slot, NEW s \in Slot,
           T \subseteq S \cup {s}, Cardinality(S) < TargetRpm
    PROVE  Cardinality(T) <= TargetRpm
<1>1. IsFiniteSet(S) /\ Cardinality(S) \in Nat
  BY RowsFinite, Zenon
<1>2. /\ IsFiniteSet(S \cup {s})
      /\ Cardinality(S \cup {s}) \in Nat
      /\ Cardinality(S \cup {s}) <= Cardinality(S) + 1
  <2>1. IsFiniteSet(S \cup {s}) /\ Cardinality(S \cup {s}) =
           IF s \in S THEN Cardinality(S) ELSE Cardinality(S) + 1
    BY <1>1, FS_AddElement, Zenon
  <2> QED
    BY <1>1, <2>1
<1>3. Cardinality(T) \in Nat /\ Cardinality(T) <= Cardinality(S \cup {s})
  BY RowsFinite, Zenon
<1> QED
  BY <1>1, <1>2, <1>3, TargetRpmAssumption

\* A grant counted and inserted by the transaction's own time keeps every window
\* within the rate, the past ones that its lag reaches included.
LEMMA InsertedKeepsBound ==
    ASSUME NEW rows \in Ages, WindowBound(rows),
           NEW l \in 0..MaxLag, NEW s \in Slot, Granted(rows, l)
    PROVE  /\ Inserted(rows, l, s) \in Ages
           /\ WindowBound(Inserted(rows, l, s))
<1> DEFINE new == Inserted(rows, l, s)
<1>1. new \in Ages
  BY TimeAssumption DEF Ages, Inserted, Expired
<1>2. ASSUME NEW k \in 0..MaxLag
      PROVE  Cardinality(InWindow(new, k)) <= TargetRpm
  <2>1. \A t \in Slot : new[t] = IF t = s THEN l ELSE rows[t]
    BY Zenon DEF Inserted, Ages
  <2>2. CASE k <= l
    <3>1. InWindow(new, k) \subseteq Counted(rows, l) \cup {s}
      BY <2>1, <2>2, TimeAssumption DEF InWindow, Counted, Ages, Expired
    <3>2. Cardinality(Counted(rows, l)) < TargetRpm
      BY Zenon DEF Granted
    <3>3. Counted(rows, l) \in SUBSET Slot /\ InWindow(new, k) \in SUBSET Slot
      BY Zenon DEF Counted, InWindow
    <3> QED
      BY <3>1, <3>2, <3>3, OneMoreRow, Zenon
  <2>3. CASE l < k
    <3>1. InWindow(new, k) \subseteq InWindow(rows, k)
      BY <2>1, <2>3, TimeAssumption DEF InWindow, Ages, Expired
    <3>2. Cardinality(InWindow(rows, k)) <= TargetRpm
      BY Zenon DEF WindowBound, InWindow
    <3>3. /\ Cardinality(InWindow(rows, k)) \in Nat
          /\ Cardinality(InWindow(new, k)) \in Nat
          /\ Cardinality(InWindow(new, k)) <= Cardinality(InWindow(rows, k))
      BY <3>1, RowsFinite, Zenon DEF InWindow
    <3> QED
      BY <3>2, <3>3, TargetRpmAssumption
  <2> QED
    BY <2>2, <2>3, TimeAssumption
<1> QED
  BY <1>1, <1>2, Zenon DEF WindowBound, InWindow

\* Time moves every window into the past and brings no new row into one.
LEMMA AgedKeepsBound ==
    ASSUME NEW rows \in Ages, WindowBound(rows)
    PROVE  Aged(rows) \in Ages /\ WindowBound(Aged(rows))
<1> DEFINE new == Aged(rows)
<1>1. new \in Ages
  BY TimeAssumption DEF Ages, Aged, Expired
<1>2. ASSUME NEW k \in 0..MaxLag
      PROVE  Cardinality(InWindow(new, k)) <= TargetRpm
  <2> DEFINE before == IF k = 0 THEN 0 ELSE k - 1
  <2>1. before \in 0..MaxLag
    BY TimeAssumption
  <2>2. \A t \in Slot : new[t] = IF rows[t] < Expired THEN rows[t] + 1 ELSE Expired
    BY Zenon DEF Aged
  <2>3. InWindow(new, k) \subseteq InWindow(rows, before)
    BY <2>2, TimeAssumption DEF InWindow, Ages, Expired
  <2>4. Cardinality(InWindow(rows, before)) <= TargetRpm
    BY <2>1, Zenon DEF WindowBound, InWindow
  <2>5. /\ Cardinality(InWindow(rows, before)) \in Nat
        /\ Cardinality(InWindow(new, k)) \in Nat
        /\ Cardinality(InWindow(new, k)) <= Cardinality(InWindow(rows, before))
    <3>1. InWindow(rows, before) \in SUBSET Slot
      BY Zenon DEF InWindow
    <3> HIDE DEF before, new
    <3> QED
      BY <2>3, <3>1, RowsFinite, Zenon
  <2> QED
    BY <2>4, <2>5, TargetRpmAssumption
<1> QED
  BY <1>1, <1>2, Zenon DEF WindowBound, InWindow

-----------------------------------------------------------------------------
(***************************************************************************)
(* The windows: three kinds of callers insert, Tick ages, nothing else     *)
(* touches the two tables.                                                 *)
(***************************************************************************)
LEMMA WindowInit == Init => WindowInv
<1> SUFFICES ASSUME Init PROVE WindowInv
  OBVIOUS
<1>1. quota \in Ages /\ gate \in Ages
  BY TimeAssumption DEF Init, Ages, Expired
<1>2. ASSUME NEW k \in 0..MaxLag
      PROVE  /\ InWindow(quota, k) = {}
             /\ InWindow(gate, k) = {}
  BY TimeAssumption DEF Init, InWindow, Expired
<1>3. Cardinality({}) = 0
  BY FS_EmptySet, Zenon
<1> QED
  BY <1>1, <1>2, <1>3, TargetRpmAssumption
  DEF WindowInv, QuotaWindow, GateWindow, WindowBound, InWindow

\* One row of the reservations is inserted by a caller that counted.
LEMMA QuotaInsert ==
    ASSUME WindowInv, UNCHANGED gate,
           \E l \in 0..MaxLag, s \in Slot :
              /\ quota[s] = Expired
              /\ Granted(quota, l)
              /\ quota' = Inserted(quota, l, s)
    PROVE  WindowInv'
BY InsertedKeepsBound, ZenonT(60) DEF WindowInv, QuotaWindow, GateWindow, WindowBound

\* One permit of the gate is inserted by a caller that counted.
LEMMA GateInsert ==
    ASSUME WindowInv, UNCHANGED quota,
           \E l \in 0..MaxLag, s \in Slot :
              /\ gate[s] = Expired
              /\ Granted(gate, l)
              /\ gate' = Inserted(gate, l, s)
    PROVE  WindowInv'
BY InsertedKeepsBound, Zenon DEF WindowInv, QuotaWindow, GateWindow, WindowBound

LEMMA WindowStep == WindowInv /\ [Next]_vars => WindowInv'
<1> SUFFICES ASSUME WindowInv, [Next]_vars PROVE WindowInv'
  OBVIOUS
<1>1. CASE UNCHANGED <<quota, gate>>
  BY <1>1, Zenon DEF WindowInv, QuotaWindow, GateWindow, WindowBound
<1>2. CASE Tick
  BY <1>2, AgedKeepsBound, Zenon
  DEF Tick, WindowInv, QuotaWindow, GateWindow, WindowBound
<1>3. CASE ManualReserve
  BY <1>3, QuotaInsert, Zenon DEF ManualReserve
<1>4. CASE LegacyPermit
  BY <1>4, GateInsert DEF LegacyPermit
<1>5. ASSUME NEW j \in Job, TryReserve(j)
      PROVE  WindowInv'
  BY <1>5, QuotaInsert, Zenon DEF TryReserve
<1>6. ASSUME NEW j \in Job, GatePermit(j)
      PROVE  WindowInv'
  BY <1>6, GateInsert, Zenon DEF GatePermit
<1>7. ASSUME NEW j \in Job, CoroutineStep(j), ~TryReserve(j)
      PROVE  UNCHANGED <<quota, gate>>
  BY <1>7, Zenon DEF CoroutineStep, Spawn, Collect, SettleCrashed,
     SettleRefused, SettleAnswered, RetryQueued, RetryExhausted, MarkJobTerminal,
     SecondPass, Defer, database
<1>8. ASSUME NEW j \in Job, WorkerRuns(j), ~GatePermit(j)
      PROVE  UNCHANGED <<quota, gate>>
  BY <1>8, Zenon DEF WorkerRuns, GateRefuses, RecordHttpStarted, Post, Answered, database
<1>9. CASE ProcessStep \/ NextCycle \/ ProcessExit
  <2>1. UNCHANGED <<quota, gate>>
    BY <1>9, Zenon DEF ProcessStep, ProcessStart, ListResumable, Gather, DispatchPhase,
       RecoverRead, RecoverMark, Resume, Abandon, NextCycle, ProcessExit, database
  <2> QED
    BY <1>1, <2>1, Zenon
<1>10. CASE Disturbance
  <2>1. ManualReserve \/ LegacyPermit \/ UNCHANGED <<quota, gate>>
    BY <1>10, Zenon DEF Disturbance, Crash, RegisterThenFail, SubprocessTimeout,
       CoroutineError, WorkerDies, GivesUp, FailsBeforeHttp, database
  <2> QED
    BY <1>1, <1>3, <1>4, <2>1, Zenon
<1>11. ASSUME NEW j \in Job, RegisterRealJob(j)
       PROVE  UNCHANGED <<quota, gate>>
  BY <1>11, Zenon DEF RegisterRealJob
<1>12. CASE UNCHANGED vars
  BY <1>1, <1>12, Zenon DEF vars, database
<1> QED
  BY <1>1, <1>2, <1>5, <1>6, <1>7, <1>8, <1>9, <1>10, <1>11, <1>12, Zenon DEF Next

LEMMA WindowsHold == Spec => []WindowInv
BY WindowInit, WindowStep, PTL DEF Spec

(***************************************************************************)
(* No window holds more than TargetRpm reservations, for every rate,       *)
(* window, lock wait and number of callers of try_reserve.                 *)
(***************************************************************************)
THEOREM QuotaIsKept == Spec => []QuotaWindow
<1>1. WindowInv => QuotaWindow
  BY Zenon DEF WindowInv
<1> QED
  BY <1>1, WindowsHold, PTL

(***************************************************************************)
(* No window holds more than TargetRpm permits of the provider's gate      *)
(* (try_acquire_provider_global_gate_permit), orphaned subprocesses and    *)
(* the legacy lane included.                                               *)
(***************************************************************************)
THEOREM GateIsKept == Spec => []GateWindow
<1>1. WindowInv => GateWindow
  BY Zenon DEF WindowInv
<1> QED
  BY <1>1, WindowsHold, PTL

-----------------------------------------------------------------------------
(***************************************************************************)
(* The jobs.  What ties a row to the coroutine, the subprocess and the     *)
(* phase of the process that work on it.                                   *)
(***************************************************************************)
JobType ==
    /\ status \in [Job -> Status]
    /\ started \in [Job -> BOOLEAN]
    /\ coro \in [Job -> CoroStep]
    /\ answer \in [Job -> Answer]
    /\ worker \in [Job -> WorkerStep]
    /\ request \in [Job -> {"none", "out", "dropped"}]
    /\ passes \in [Job -> Nat]
    /\ phase \in {"down", "recover", "resume", "gather", "dispatch"}

InSlotStep == {"granted", "spawned", "settle", "retry", "terminal"}

\* The row's status is what the coroutine's place says.
RowInv(j) ==
    /\ coro[j] \in {"top", "deferred"} => status[j] = "QUEUED"
    /\ coro[j] \in InSlotStep => status[j] = "RESERVATION_GRANTED"
    /\ coro[j] = "second" => status[j] \in Terminal \ {"CANCELLED"} /\ passes[j] = 0
    /\ status[j] \notin Terminal => passes[j] = 0
    /\ passes[j] <= 1

\* Coroutines run in the dispatch phase; what is listed or carried is waiting.
ListInv(j) ==
    /\ phase # "dispatch" => coro[j] = "idle"
    /\ j \in carry => status[j] = "QUEUED" /\ phase \in {"resume", "gather"}
    /\ phase = "recover" /\ j \in todo => status[j] = "RESERVATION_GRANTED"
    /\ phase = "resume" /\ j \in todo => status[j] = "QUEUED" /\ j \notin carry

\* A subprocess belongs to a reserved or ended row, and a request that was sent is
\* on record in the attempt's row.
RequestInv(j) ==
    /\ status[j] \in {"none", "QUEUED"} => request[j] # "out" /\ worker[j] = "none"
    /\ coro[j] \in InSlotStep \ {"spawned"} => worker[j] = "none"
    /\ request[j] = "out" => started[j]
    /\ worker[j] \in {"post", "sent"} => started[j]
    /\ worker[j] = "sent" => request[j] = "out"
    /\ worker[j] \in {"gate", "record", "post"} => request[j] # "out"
    /\ coro[j] \in {"granted", "retry"} => request[j] # "out"
    /\ coro[j] \notin InSlotStep \ {"granted"} => answer[j] = "none"
    /\ coro[j] = "spawned" /\ worker[j] # "exited" => answer[j] = "none"
    /\ coro[j] \in {"spawned", "settle"} /\ answer[j] = "refused" => request[j] # "out"

JobInv ==
    /\ JobType
    /\ \A j \in Job : RowInv(j) /\ ListInv(j) /\ RequestInv(j)

LEMMA JobInit == Init => JobInv
BY DEF Init, JobInv, JobType, RowInv, ListInv, RequestInv, InSlotStep, Terminal,
   Status, CoroStep, Answer, WorkerStep

LEMMA JobStep == JobInv /\ [Next]_vars => JobInv'
<1> SUFFICES ASSUME JobInv, [Next]_vars PROVE JobInv'
  OBVIOUS
<1> USE DEF JobInv, JobType, RowInv, ListInv, RequestInv, InSlotStep, Terminal,
            Status, CoroStep, Answer, WorkerStep, database, process, history
<1>1. CASE ProcessStart
  BY <1>1 DEF ProcessStart
<1>2. CASE ListResumable
  BY <1>2 DEF ListResumable
<1>3. CASE Gather
  BY <1>3 DEF Gather
<1>4. CASE DispatchPhase
  BY <1>4, ZenonT(60) DEF DispatchPhase
<1>5. CASE NextCycle
  BY <1>5 DEF NextCycle, Finished
<1>6. CASE ProcessExit
  BY <1>6, ZenonT(60) DEF ProcessExit, Finished
<1>7. CASE Crash
  BY <1>7, Zenon DEF Crash
<1>8. CASE Tick
  BY <1>8 DEF Tick
<1>9. CASE ManualReserve
  BY <1>9 DEF ManualReserve
<1>10. CASE LegacyPermit
  BY <1>10 DEF LegacyPermit
<1>11. ASSUME NEW j \in Job, RecoverRead(j)
      PROVE  JobInv'
  BY <1>11 DEF RecoverRead
<1>12. ASSUME NEW j \in Job, RecoverMark(j)
      PROVE  JobInv'
  BY <1>12 DEF RecoverMark
<1>13. ASSUME NEW j \in Job, Resume(j)
      PROVE  JobInv'
  BY <1>13 DEF Resume
<1>14. ASSUME NEW j \in Job, Abandon(j)
      PROVE  JobInv'
  BY <1>14 DEF Abandon
<1>15. ASSUME NEW j \in Job, RegisterRealJob(j)
      PROVE  JobInv'
  BY <1>15 DEF RegisterRealJob
<1>16. ASSUME NEW j \in Job, RegisterThenFail(j)
      PROVE  JobInv'
  BY <1>16 DEF RegisterThenFail
<1>17. ASSUME NEW j \in Job, Defer(j)
      PROVE  JobInv'
  BY <1>17 DEF Defer
<1>18. ASSUME NEW j \in Job, TryReserve(j)
      PROVE  JobInv'
  BY <1>18 DEF TryReserve
<1>19. ASSUME NEW j \in Job, Spawn(j)
      PROVE  JobInv'
  BY <1>19 DEF Spawn
<1>20. ASSUME NEW j \in Job, Collect(j)
      PROVE  JobInv'
  BY <1>20 DEF Collect
<1>21. ASSUME NEW j \in Job, SubprocessTimeout(j)
      PROVE  JobInv'
  BY <1>21 DEF SubprocessTimeout
<1>22. ASSUME NEW j \in Job, SettleCrashed(j)
      PROVE  JobInv'
  BY <1>22 DEF SettleCrashed
<1>23. ASSUME NEW j \in Job, SettleRefused(j)
      PROVE  JobInv'
  BY <1>23 DEF SettleRefused
<1>24. ASSUME NEW j \in Job, SettleAnswered(j)
      PROVE  JobInv'
  BY <1>24 DEF SettleAnswered
<1>25. ASSUME NEW j \in Job, RetryQueued(j)
      PROVE  JobInv'
  BY <1>25 DEF RetryQueued
<1>26. ASSUME NEW j \in Job, RetryExhausted(j)
      PROVE  JobInv'
  BY <1>26 DEF RetryExhausted
<1>27. ASSUME NEW j \in Job, MarkJobTerminal(j)
      PROVE  JobInv'
  BY <1>27 DEF MarkJobTerminal
<1>28. ASSUME NEW j \in Job, SecondPass(j)
      PROVE  JobInv'
  BY <1>28 DEF SecondPass
<1>29. ASSUME NEW j \in Job, CoroutineError(j)
      PROVE  JobInv'
  BY <1>29 DEF CoroutineError, InSlot
<1>30. ASSUME NEW j \in Job, GatePermit(j)
      PROVE  JobInv'
  BY <1>30 DEF GatePermit
<1>31. ASSUME NEW j \in Job, GateRefuses(j)
      PROVE  JobInv'
  BY <1>31 DEF GateRefuses, Exits
<1>32. ASSUME NEW j \in Job, RecordHttpStarted(j)
      PROVE  JobInv'
  BY <1>32 DEF RecordHttpStarted
<1>33. ASSUME NEW j \in Job, Post(j)
      PROVE  JobInv'
  BY <1>33 DEF Post
<1>34. ASSUME NEW j \in Job, WorkerDies(j)
      PROVE  JobInv'
  BY <1>34 DEF WorkerDies, Exits
<1>35. ASSUME NEW j \in Job, NEW a \in Answer \ {"refused"}, Answered(j, a)
      PROVE  JobInv'
  BY <1>35 DEF Answered, Exits
<1>36. ASSUME NEW j \in Job, NEW a \in Answer \ {"refused"},
              FailsBeforeHttp(j, a)
      PROVE  JobInv'
  BY <1>36 DEF FailsBeforeHttp, Exits
<1>37. ASSUME NEW j \in Job, GivesUp(j)
      PROVE  JobInv'
  BY <1>37 DEF GivesUp, Exits
<1>38. CASE UNCHANGED vars
  BY <1>38 DEF vars
<1> HIDE DEF JobInv
<1> QED
  BY SMTT(20), <1>1, <1>2, <1>3, <1>4, <1>5, <1>6, <1>7, <1>8, <1>9, <1>10, <1>11,
     <1>12, <1>13, <1>14, <1>15, <1>16, <1>17, <1>18, <1>19, <1>20, <1>21,
     <1>22, <1>23, <1>24, <1>25, <1>26, <1>27, <1>28, <1>29, <1>30,
     <1>31, <1>32, <1>33, <1>34, <1>35, <1>36, <1>37, <1>38 DEF Next, ProcessStep,
     CoroutineStep, WorkerRuns, Disturbance

LEMMA JobsHold == Spec => []JobInv
BY JobInit, JobStep, PTL DEF Spec

(***************************************************************************)
(* A coroutine polls try_reserve, or hands its job to the next cycle, only *)
(* while the job's row is QUEUED.                                          *)
(***************************************************************************)
THEOREM PollersAreQueued == Spec => []WaitingIsQueued
<1>1. JobInv => WaitingIsQueued
  BY Zenon DEF JobInv, RowInv, WaitingIsQueued
<1> QED
  BY <1>1, JobsHold, PTL

(***************************************************************************)
(* A job that may be reserved again has no request that is still out,      *)
(* wherever its subprocess, its coroutine or the process died.             *)
(***************************************************************************)
THEOREM RetriedAreReported == Spec => []ReportedBeforeRetry
<1>1. JobInv => ReportedBeforeRetry
  BY Zenon DEF JobInv, RequestInv, ReportedBeforeRetry
<1> QED
  BY <1>1, JobsHold, PTL

(***************************************************************************)
(* The second pass, which submits the order, runs at most once for a job.  *)
(***************************************************************************)
THEOREM DecidedOnce == Spec => []SecondPassOnce
<1>1. JobInv => SecondPassOnce
  BY Zenon DEF JobInv, RowInv, SecondPassOnce
<1> QED
  BY <1>1, JobsHold, PTL

-----------------------------------------------------------------------------
(***************************************************************************)
(* The queue.  It holds the QUEUED jobs and no other, each at one place.   *)
(***************************************************************************)
Holds(q, j) == \E n \in DOMAIN q : q[n] = j

Distinct(q) == \A m, n \in DOMAIN q : q[m] = q[n] => m = n

QueueInv ==
    /\ queue \in Seq(Job) /\ Distinct(queue)
    /\ \A j \in Job : status[j] = "QUEUED" <=> Holds(queue, j)

LEMMA AppendedQueue ==
    ASSUME NEW q \in Seq(Job), Distinct(q), NEW j \in Job, ~Holds(q, j)
    PROVE  /\ Append(q, j) \in Seq(Job) /\ Distinct(Append(q, j))
           /\ \A i \in Job : Holds(Append(q, j), i) <=> Holds(q, i) \/ i = j
<1> DEFINE a == Append(q, j)
<1>1. /\ a \in Seq(Job) /\ DOMAIN q = 1..Len(q) /\ Len(q) \in Nat
      /\ DOMAIN a = 1..(Len(q) + 1)
      /\ \A n \in 1..Len(q) : a[n] = q[n]
      /\ a[Len(q) + 1] = j
  OBVIOUS
<1> HIDE DEF a
<1>2. Distinct(a)
  BY <1>1 DEF Distinct, Holds
<1>3. ASSUME NEW i \in Job PROVE Holds(a, i) <=> Holds(q, i) \/ i = j
  BY <1>1 DEF Holds
<1> QED
  BY <1>1, <1>2, <1>3, Zenon DEF a

LEMMA ShortenedQueue ==
    ASSUME NEW q \in Seq(Job), Distinct(q), NEW j \in Job
    PROVE  /\ Without(q, j) \in Seq(Job) /\ Distinct(Without(q, j))
           /\ \A i \in Job : Holds(Without(q, j), i) <=> Holds(q, i) /\ i # j
           /\ q # <<>> /\ q[1] = j => Without(q, j) = Tail(q)
<1>1. DOMAIN q = 1..Len(q) /\ Len(q) \in Nat /\ \A n \in 1..Len(q) : q[n] \in Job
  OBVIOUS
<1>2. CASE ~Holds(q, j)
  <2>1. Without(q, j) = q
    BY <1>2, Zenon DEF Without, Holds
  <2>2. q # <<>> => q[1] # j
    BY <1>1, <1>2 DEF Holds
  <2>3. \A i \in Job : Holds(q, i) => i # j
    BY <1>2, Zenon
  <2> QED
    BY <2>1, <2>2, <2>3, Zenon
<1>3. CASE Holds(q, j)
  <2> DEFINE n == CHOOSE m \in DOMAIN q : q[m] = j
             w == [i \in 1..(Len(q) - 1) |-> IF i < n THEN q[i] ELSE q[i + 1]]
  <2>1. Without(q, j) = w
    BY <1>3, Zenon DEF Without, Holds
  <2>2. n \in 1..Len(q) /\ q[n] = j
    BY <1>1, <1>3, Zenon DEF Holds
  <2> HIDE DEF n
  <2>3. /\ w \in Seq(Job) /\ Len(w) = Len(q) - 1 /\ DOMAIN w = 1..(Len(q) - 1)
        /\ \A i \in 1..(Len(q) - 1) : w[i] = IF i < n THEN q[i] ELSE q[i + 1]
    BY <1>1, <2>2
  <2> HIDE DEF w
  <2>4. \A a, b \in 1..Len(q) : q[a] = q[b] => a = b
    BY <1>1, Zenon DEF Distinct
  <2>5. Distinct(w)
    BY <1>1, <2>2, <2>3, <2>4 DEF Distinct
  <2>6. ASSUME NEW i \in Job, Holds(w, i) PROVE Holds(q, i) /\ i # j
    <3>1. PICK m \in 1..(Len(q) - 1) : w[m] = i
      BY <2>3, <2>6, Zenon DEF Holds
    <3>2. CASE m < n
      BY <1>1, <2>2, <2>3, <2>4, <3>1, <3>2 DEF Holds
    <3>3. CASE ~(m < n)
      BY <1>1, <2>2, <2>3, <2>4, <3>1, <3>3 DEF Holds
    <3> QED
      BY <3>2, <3>3, Zenon
  <2>7. ASSUME NEW i \in Job, Holds(q, i), i # j PROVE Holds(w, i)
    <3>1. PICK m \in 1..Len(q) : q[m] = i
      BY <1>1, <2>7, Zenon DEF Holds
    <3>2. CASE m < n
      <4>1. m \in 1..(Len(q) - 1) /\ w[m] = i
        BY <1>1, <2>2, <2>3, <3>1, <3>2
      <4> QED
        BY <2>3, <4>1, Zenon DEF Holds
    <3>3. CASE n < m
      <4>1. m - 1 \in 1..(Len(q) - 1) /\ w[m - 1] = i
        BY <1>1, <2>2, <2>3, <3>1, <3>3
      <4> QED
        BY <2>3, <4>1, Zenon DEF Holds
    <3>4. m # n
      BY <2>2, <2>7, <3>1
    <3> QED
      BY <2>2, <3>2, <3>3, <3>4
  <2>8. ASSUME q # <<>>, q[1] = j PROVE w = Tail(q)
    <3>1. n = 1
      BY <1>1, <2>2, <2>4, <2>8
    <3>2. /\ Tail(q) \in Seq(Job) /\ Len(Tail(q)) = Len(q) - 1
          /\ \A i \in 1..(Len(q) - 1) : Tail(q)[i] = q[i + 1]
      BY <2>8
    <3>3. \A i \in 1..(Len(q) - 1) : w[i] = q[i + 1]
      BY <1>1, <2>3, <3>1
    <3> QED
      BY <1>1, <2>3, <3>2, <3>3
  <2> QED
    BY <2>1, <2>3, <2>5, <2>6, <2>7, <2>8, Zenon
<1> QED
  BY <1>2, <1>3, Zenon

(***************************************************************************)
(* What a step does to the rows and to the queue: a job enters at the      *)
(* tail, a QUEUED job leaves, a job that is not QUEUED ends, or nothing.   *)
(***************************************************************************)
Enters(j) ==
    /\ status[j] # "QUEUED"
    /\ status' = [status EXCEPT ![j] = "QUEUED"]
    /\ queue' = Append(queue, j)

Leaves(j) ==
    /\ status[j] = "QUEUED"
    /\ queue' = Without(queue, j)
    /\ \/ status' = [status EXCEPT ![j] = "FDC_FAILED_FINAL"]
       \/ MyTurn(j) /\ status' = [status EXCEPT ![j] = "RESERVATION_GRANTED"]

Ends(j) ==
    /\ status[j] # "QUEUED"
    /\ \E s \in Terminal : status' = [status EXCEPT ![j] = s]
    /\ queue' = queue

LEMMA QueueCases ==
    ASSUME JobInv, [Next]_vars
    PROVE  \/ \E j \in Job : Enters(j) \/ Leaves(j) \/ Ends(j)
           \/ UNCHANGED <<status, queue>>
<1> USE DEF database, process
<1>1. ASSUME NEW j \in Job, RegisterRealJob(j) \/ RegisterThenFail(j) \/ RetryQueued(j)
      PROVE  Enters(j)
  BY <1>1, Zenon DEF RegisterRealJob, RegisterThenFail, RetryQueued, Enters, JobInv,
     RowInv, InSlotStep
<1>2. ASSUME NEW j \in Job, Abandon(j) \/ TryReserve(j)
      PROVE  Leaves(j)
  BY <1>2, Zenon DEF Abandon, TryReserve, Leaves, JobInv, RowInv, ListInv
<1>3. ASSUME NEW j \in Job, RecoverMark(j) \/ MarkJobTerminal(j)
      PROVE  Ends(j)
  BY <1>3, Zenon DEF RecoverMark, MarkJobTerminal, Ends, JobInv, RowInv, ListInv,
     InSlotStep, Terminal
<1>4. ASSUME NEW j \in Job, CoroutineStep(j)
      PROVE  Enters(j) \/ Leaves(j) \/ Ends(j) \/ UNCHANGED <<status, queue>>
  BY <1>1, <1>2, <1>3, <1>4, Zenon DEF CoroutineStep, Spawn, Collect,
     SettleCrashed, SettleRefused, SettleAnswered, RetryExhausted, SecondPass, Defer
<1>5. ASSUME NEW j \in Job, WorkerRuns(j)
      PROVE  UNCHANGED <<status, queue>>
  BY <1>5, Zenon DEF WorkerRuns, GatePermit, GateRefuses, RecordHttpStarted, Post,
     Answered
<1>6. CASE ProcessStep
  BY <1>2, <1>3, <1>6, Zenon DEF ProcessStep, ProcessStart, ListResumable, Gather,
     DispatchPhase, RecoverRead, Resume
<1>7. CASE Disturbance
  BY <1>1, <1>7, Zenon DEF Disturbance, ManualReserve, LegacyPermit, Crash,
     SubprocessTimeout, CoroutineError, WorkerDies, GivesUp, FailsBeforeHttp
<1>8. CASE Tick \/ NextCycle \/ ProcessExit \/ UNCHANGED vars
  BY <1>8, Zenon DEF Tick, NextCycle, ProcessExit, vars
<1> QED
  BY <1>1, <1>4, <1>5, <1>6, <1>7, <1>8, Zenon DEF Next

LEMMA QueueStep == JobInv /\ QueueInv /\ [Next]_vars => QueueInv'
<1> SUFFICES ASSUME JobInv, QueueInv, [Next]_vars PROVE QueueInv'
  OBVIOUS
<1>1. /\ queue \in Seq(Job) /\ Distinct(queue)
      /\ \A i \in Job : status[i] = "QUEUED" <=> Holds(queue, i)
      /\ status \in [Job -> Status]
  BY Zenon DEF QueueInv, JobInv, JobType
<1>2. ASSUME NEW j \in Job, Enters(j) PROVE QueueInv'
  <2>1. /\ queue' \in Seq(Job) /\ Distinct(queue')
        /\ \A i \in Job : Holds(queue', i) <=> Holds(queue, i) \/ i = j
    BY <1>1, <1>2, AppendedQueue, Zenon DEF Enters
  <2>2. \A i \in Job : status'[i] = IF i = j THEN "QUEUED" ELSE status[i]
    BY <1>1, <1>2, Zenon DEF Enters
  <2> QED
    BY <1>1, <2>1, <2>2, Zenon DEF QueueInv, Holds, Distinct
<1>3. ASSUME NEW j \in Job, Leaves(j) PROVE QueueInv'
  <2>1. /\ queue' \in Seq(Job) /\ Distinct(queue')
        /\ \A i \in Job : Holds(queue', i) <=> Holds(queue, i) /\ i # j
    BY <1>1, <1>3, ShortenedQueue, Zenon DEF Leaves
  <2>2. status'[j] # "QUEUED" /\ \A i \in Job : i # j => status'[i] = status[i]
    BY <1>1, <1>3, Zenon DEF Leaves
  <2> QED
    BY <1>1, <2>1, <2>2, Zenon DEF QueueInv, Holds, Distinct
<1>4. ASSUME NEW j \in Job, Ends(j) PROVE QueueInv'
  <2>1. status'[j] # "QUEUED" /\ \A i \in Job : i # j => status'[i] = status[i]
    BY <1>1, <1>4, Zenon DEF Ends, Terminal
  <2> QED
    BY <1>1, <1>4, <2>1, Zenon DEF Ends, QueueInv, Holds, Distinct
<1>5. CASE UNCHANGED <<status, queue>>
  BY <1>1, <1>5, Zenon DEF QueueInv, Holds, Distinct
<1> QED
  BY <1>2, <1>3, <1>4, <1>5, QueueCases, Zenon

LEMMA QueueInit == Init => QueueInv
<1> SUFFICES ASSUME Init PROVE QueueInv
  OBVIOUS
<1>1. queue = <<>> /\ \A j \in Job : status[j] # "QUEUED"
  BY DEF Init
<1>2. queue \in Seq(Job) /\ DOMAIN queue = {}
  BY <1>1
<1> QED
  BY <1>1, <1>2, Zenon DEF QueueInv, Distinct, Holds

LEMMA QueueHolds == Spec => []QueueInv
BY JobsHold, QueueInit, QueueStep, PTL DEF Spec

\* A job whose turn it is, and that is queued, is the head.
LEMMA ServedIsHead ==
    ASSUME JobInv, QueueInv, [Next]_vars, NEW j \in Job,
           status[j] # status'[j], status'[j] = "RESERVATION_GRANTED"
    PROVE  queue # <<>> /\ Head(queue) = j /\ queue' = Tail(queue)
<1>1. /\ queue \in Seq(Job) /\ Distinct(queue) /\ status \in [Job -> Status]
      /\ \A i \in Job : status[i] = "QUEUED" <=> Holds(queue, i)
  BY Zenon DEF QueueInv, JobInv, JobType
<1>2. Leaves(j) /\ MyTurn(j)
  <2>1. \E i \in Job : Enters(i) \/ Leaves(i) \/ Ends(i)
    BY QueueCases, Zenon
  <2>2. PICK i \in Job : Enters(i) \/ Leaves(i) \/ Ends(i)
    BY <2>1, Zenon
  <2>3. i = j
    BY <1>1, <2>2, Zenon DEF Enters, Leaves, Ends
  <2> QED
    BY <1>1, <2>2, <2>3, Zenon DEF Enters, Leaves, Ends, Terminal
<1>3. PICK n \in DOMAIN queue : queue[n] = j
  BY <1>1, <1>2, Zenon DEF Leaves, Holds
<1>4. n = 1
  BY <1>2, <1>3, Zenon DEF MyTurn
<1>5. queue # <<>> /\ Head(queue) = j /\ queue[1] = j
  BY <1>1, <1>3, <1>4
<1> QED
  BY <1>1, <1>2, <1>5, ShortenedQueue, Zenon DEF Leaves

(***************************************************************************)
(* Reservations are granted in the order of enqueue_sequence, for every    *)
(* set of jobs: the job that is granted one was the first of the QUEUED    *)
(* ones, and the others keep their places.                                 *)
(***************************************************************************)
THEOREM GrantsAreInOrder == Spec => FirstComeFirstServed
<1>1. JobInv /\ QueueInv /\ [Next]_vars =>
         [\A j \in Job :
             status[j] # status'[j] /\ status'[j] = "RESERVATION_GRANTED" =>
                queue # <<>> /\ Head(queue) = j /\ queue' = Tail(queue)]_vars
  BY ServedIsHead, Zenon
<1> QED
  BY <1>1, JobsHold, QueueHolds, PTL DEF Spec, FirstComeFirstServed

-----------------------------------------------------------------------------
(***************************************************************************)
(* The variables of the process that no other invariant speaks of.         *)
(***************************************************************************)
ListType ==
    /\ todo \subseteq Job
    /\ lifecycle \in [Job -> {"unread", "NOT_STARTED", "STARTED"}]
    /\ carry \subseteq Job
    /\ attemptNo \in [Job -> 1..MaxAttempts]
    /\ disturbed \in 0..MaxDisturbances

LEMMA ListTypeInit == Init => ListType
BY DispatchAssumption DEF Init, ListType

LEMMA ListTypeStep == ListType /\ [Next]_vars => ListType'
<1> SUFFICES ASSUME ListType, [Next]_vars PROVE ListType'
  OBVIOUS
<1> USE DEF database, process, history
<1>1. disturbed' \in 0..MaxDisturbances
  <2>1. Disturb \/ UNCHANGED disturbed
    BY ZenonT(60) DEF Next, ProcessStep, CoroutineStep, WorkerRuns, Disturbance, Tick,
       ManualReserve, LegacyPermit, ProcessStart, RecoverRead, RecoverMark,
       ListResumable, Resume, Abandon, Gather, RegisterRealJob, RegisterThenFail,
       DispatchPhase, NextCycle, ProcessExit, Crash, Defer, TryReserve, Spawn,
       Collect, SubprocessTimeout, SettleCrashed, SettleRefused, SettleAnswered,
       RetryQueued, RetryExhausted, MarkJobTerminal, SecondPass, CoroutineError,
       GatePermit, GateRefuses, RecordHttpStarted, Post, Answered, FailsBeforeHttp,
       WorkerDies, GivesUp, vars
  <2> QED
    BY <2>1, DispatchAssumption DEF Disturb, ListType
<1>2. attemptNo' \in [Job -> 1..MaxAttempts]
  <2>1. \/ UNCHANGED attemptNo
        \/ attemptNo' = [j \in Job |-> 1]
        \/ \E j \in Job : attemptNo' = [attemptNo EXCEPT ![j] = 1]
        \/ \E j \in Job : /\ attemptNo[j] < MaxAttempts
                          /\ attemptNo' = [attemptNo EXCEPT ![j] = @ + 1]
    BY ZenonT(60) DEF Next, ProcessStep, CoroutineStep, WorkerRuns, Disturbance, Tick,
       ManualReserve, LegacyPermit, ProcessStart, RecoverRead, RecoverMark,
       ListResumable, Resume, Abandon, Gather, RegisterRealJob, RegisterThenFail,
       DispatchPhase, NextCycle, ProcessExit, Crash, Defer, TryReserve, Spawn,
       Collect, SubprocessTimeout, SettleCrashed, SettleRefused, SettleAnswered,
       RetryQueued, RetryExhausted, MarkJobTerminal, SecondPass, CoroutineError,
       GatePermit, GateRefuses, RecordHttpStarted, Post, Answered, FailsBeforeHttp,
       WorkerDies, GivesUp, vars
  <2> QED
    BY <2>1, DispatchAssumption DEF ListType
<1>3. /\ todo' \subseteq Job /\ carry' \subseteq Job
      /\ lifecycle' \in [Job -> {"unread", "NOT_STARTED", "STARTED"}]
  <2>1. \/ UNCHANGED <<todo, carry, lifecycle>>
        \/ ProcessStep \/ NextCycle \/ Crash
        \/ \E j \in Job : RegisterRealJob(j)
    BY ZenonT(60) DEF Next, CoroutineStep, WorkerRuns, Disturbance, Tick,
       ManualReserve, LegacyPermit, RegisterThenFail, ProcessExit, Defer,
       TryReserve, Spawn, Collect, SubprocessTimeout, SettleCrashed, SettleRefused,
       SettleAnswered, RetryQueued, RetryExhausted, MarkJobTerminal, SecondPass,
       CoroutineError, GatePermit, GateRefuses, RecordHttpStarted, Post, Answered,
       FailsBeforeHttp, WorkerDies, GivesUp, vars
  <2>2. CASE UNCHANGED <<todo, carry, lifecycle>> \/ Crash \/ NextCycle
    BY <2>2, Zenon DEF ListType, Crash, NextCycle
  <2>3. CASE ProcessStep
    BY <2>3 DEF ListType, ProcessStep, ProcessStart, RecoverRead, RecoverMark,
       ListResumable, Resume, Abandon, Gather, DispatchPhase
  <2>4. ASSUME NEW j \in Job, RegisterRealJob(j)
        PROVE  /\ todo' \subseteq Job /\ carry' \subseteq Job
               /\ lifecycle' \in [Job -> {"unread", "NOT_STARTED", "STARTED"}]
    BY <2>4, Zenon DEF ListType, RegisterRealJob
  <2> QED
    BY <2>1, <2>2, <2>3, <2>4, Zenon
<1> QED
  BY <1>1, <1>2, <1>3, Zenon DEF ListType

(***************************************************************************)
(* Type correctness of the dispatch: in particular provider_attempt_no     *)
(* never passes max_provider_attempts, through every retry and resume.     *)
(***************************************************************************)
THEOREM DispatchTypes == Spec => []TypeOK
<1>1. Spec => []ListType
  BY ListTypeInit, ListTypeStep, PTL DEF Spec
<1>2. WindowInv /\ JobInv /\ QueueInv /\ ListType => TypeOK
  BY Zenon DEF WindowInv, Ages, JobInv, JobType, QueueInv, ListType, TypeOK
<1> QED
  BY <1>1, <1>2, WindowsHold, JobsHold, QueueHolds, PTL

-----------------------------------------------------------------------------
(***************************************************************************)
(* The dispatch implements FdcJobs: every step is a step of FdcJobs or     *)
(* leaves its three variables alone.                                       *)
(***************************************************************************)
LEMMA RowStepMaps ==
    ASSUME JobInv, NEW j \in Job,
           \/ RecoverMark(j) \/ Abandon(j) \/ RegisterRealJob(j)
           \/ RegisterThenFail(j) \/ TryReserve(j) \/ RetryQueued(j)
           \/ MarkJobTerminal(j)
    PROVE  Jobs!Next
<1> USE DEF JobInv, RowInv, ListInv, RequestInv, InSlotStep, history
<1>1. CASE RecoverMark(j)
  <2>1. \E s \in Jobs!Ended : Jobs!End(j, s)
    BY <1>1, Zenon DEF RecoverMark, Jobs!Ended, Jobs!End
  <2> QED
    BY <2>1, Zenon DEF Jobs!Next
<1>2. CASE Abandon(j)
  <2>1. Jobs!End(j, "FDC_FAILED_FINAL")
    BY <1>2, Zenon DEF Abandon, Jobs!End
  <2> QED
    BY <2>1, Zenon DEF Jobs!Next, Jobs!Ended
<1>3. CASE RegisterRealJob(j) \/ RegisterThenFail(j)
  <2>1. Jobs!Register(j)
    BY <1>3, Zenon DEF RegisterRealJob, RegisterThenFail, Jobs!Register
  <2> QED
    BY <2>1, Zenon DEF Jobs!Next
<1>4. CASE TryReserve(j)
  <2>1. Jobs!Reserve(j)
    BY <1>4, Zenon DEF TryReserve, Jobs!Reserve
  <2> QED
    BY <2>1, Zenon DEF Jobs!Next
<1>5. CASE RetryQueued(j)
  <2>1. Jobs!QueueAgain(j)
    BY <1>5, ZenonT(60) DEF RetryQueued, Jobs!QueueAgain
  <2> QED
    BY <2>1, Zenon DEF Jobs!Next
<1>6. CASE MarkJobTerminal(j)
  <2>1. \E s \in Jobs!Ended : Jobs!End(j, s)
    BY <1>6, Zenon DEF MarkJobTerminal, Jobs!Ended, Jobs!End
  <2> QED
    BY <2>1 DEF Jobs!Next
<1> QED
  BY <1>1, <1>2, <1>3, <1>4, <1>5, <1>6, Zenon

LEMMA RequestStepMaps ==
    ASSUME JobInv, NEW j \in Job,
           SettleAnswered(j) \/ Post(j) \/ GivesUp(j) \/ SecondPass(j)
    PROVE  Jobs!Next \/ UNCHANGED <<status, request, passes>>
<1> USE DEF JobInv, JobType, RowInv, ListInv, RequestInv, InSlotStep, database
<1>1. CASE SettleAnswered(j)
  <2>1. CASE request[j] = "out"
    <3>1. Jobs!Hear(j)
      BY <1>1, <2>1, Zenon DEF SettleAnswered, Jobs!Hear
    <3> QED
      BY <3>1, Zenon DEF Jobs!Next
  <2>2. CASE request[j] # "out"
    BY <1>1, <2>2 DEF SettleAnswered
  <2> QED
    BY <2>1, <2>2, Zenon
<1>2. CASE Post(j)
  <2>1. Jobs!Ask(j)
    BY <1>2, Zenon DEF Post, Jobs!Ask, Jobs!Ended, Status, Terminal
  <2> QED
    BY <2>1, Zenon DEF Jobs!Next
<1>3. CASE SecondPass(j)
  <2>1. Jobs!Decide(j)
    <3>1. coro[j] = "second"
      BY <1>3, Zenon DEF SecondPass
    <3>2. status[j] \in {"FDC_SUCCEEDED", "FDC_FAILED_FINAL"} /\ passes[j] = 0
      BY <3>1, Zenon DEF Terminal
    <3>3. passes' = [passes EXCEPT ![j] = 1] /\ UNCHANGED <<status, request>>
      BY <1>3, <3>2 DEF SecondPass
    <3> QED
      BY <3>2, <3>3, Zenon DEF Jobs!Decide
  <2> QED
    BY <2>1, Zenon DEF Jobs!Next
<1>4. CASE GivesUp(j)
  <2>1. request[j] = "out"
    BY <1>4, Zenon DEF GivesUp
  <2>2. Jobs!Drop(j)
    BY <1>4, <2>1, Zenon DEF GivesUp, Jobs!Drop
  <2> QED
    BY <2>2, Zenon DEF Jobs!Next
<1> QED
  BY <1>1, <1>2, <1>3, <1>4, Zenon

LEMMA StepMaps == JobInv /\ [Next]_vars => [Jobs!Next]_(Jobs!vars)
<1> SUFFICES ASSUME JobInv, [Next]_vars, ~Jobs!Next
             PROVE  UNCHANGED <<status, request, passes>>
  BY Zenon DEF Jobs!vars
<1> USE DEF database, process, history
<1>1. ASSUME NEW j \in Job, CoroutineStep(j)
      PROVE  UNCHANGED <<status, request, passes>>
  BY <1>1, RowStepMaps, RequestStepMaps, Zenon
  DEF CoroutineStep, Spawn, Collect, SettleCrashed, SettleRefused,
      RetryExhausted, Defer
<1>2. ASSUME NEW j \in Job, WorkerRuns(j)
      PROVE  UNCHANGED <<status, request, passes>>
  BY <1>2, RequestStepMaps, Zenon
  DEF WorkerRuns, GatePermit, GateRefuses, RecordHttpStarted, Answered
<1>3. CASE ProcessStep
  BY <1>3, RowStepMaps, Zenon
  DEF ProcessStep, ProcessStart, ListResumable, Gather, DispatchPhase, RecoverRead,
      Resume
<1>4. CASE Disturbance
  BY <1>4, RowStepMaps, RequestStepMaps, Zenon
  DEF Disturbance, ManualReserve, LegacyPermit, Crash, SubprocessTimeout,
      CoroutineError, WorkerDies, FailsBeforeHttp
<1>5. CASE Tick \/ NextCycle \/ ProcessExit
  BY <1>5, Zenon DEF Tick, NextCycle, ProcessExit
<1>6. ASSUME NEW j \in Job, RegisterRealJob(j)
      PROVE  UNCHANGED <<status, request, passes>>
  BY <1>6, RowStepMaps, Zenon
<1>7. CASE UNCHANGED vars
  BY <1>7, Zenon DEF vars
<1> QED
  BY <1>1, <1>2, <1>3, <1>4, <1>5, <1>6, <1>7, Zenon DEF Next

(***************************************************************************)
(* The dispatch implements the abstract queue of jobs.                     *)
(***************************************************************************)
THEOREM DispatchImplementsJobs == Spec => JobsSpec
<1>1. Init => Jobs!Init
  BY Zenon DEF Init, Jobs!Init
<1> QED
  BY <1>1, JobInit, JobStep, StepMaps, PTL DEF Spec, JobsSpec, Jobs!Spec

=============================================================================
