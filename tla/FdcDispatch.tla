----------------------------- MODULE FdcDispatch -----------------------------
(***************************************************************************)
(* The real dispatch of the final-decision composer (FDC).  A decision     *)
(* process registers a job for each held position that wants a decision,   *)
(* and after the symbols are gathered runs one coroutine per job: reserve  *)
(* provider quota in the database, spawn a fdc_only subprocess with the    *)
(* grant, read its answer, then retry, fail or succeed the job, and run    *)
(* the second pass that submits the order.  The process may be killed at   *)
(* any statement; its subprocesses then live on as orphans, and the next   *)
(* process cleans up and resumes.                                          *)
(*                                                                         *)
(* Time is relative: a reservation or a gate permit carries its age.  A    *)
(* transaction stamps its rows with the time it began, so one that waited  *)
(* l ticks for the anchor lock inserts a row of age l and counts the rows  *)
(* that are less than Window older than itself.                            *)
(***************************************************************************)
EXTENDS Naturals, Sequences, FiniteSets

CONSTANTS
    Job,               \* jobs that may be registered
    Slot,              \* rows of the attempts table still young enough to count
    TargetRpm,         \* grants allowed per window
    Window,            \* length of the rolling window, in ticks
    MaxLag,            \* longest wait for the anchor lock (lock_timeout), in ticks
    WorkerConcurrency, \* fdc_only subprocesses at a time
    MaxAttempts,       \* max_provider_attempts of one dispatch
    MaxDisturbances    \* bound on crashes, failures, deferrals and other callers

ASSUME TargetRpmAssumption == TargetRpm \in Nat \ {0}
ASSUME TimeAssumption == Window \in Nat \ {0} /\ MaxLag \in Nat
ASSUME SlotAssumption == IsFiniteSet(Slot)
ASSUME DispatchAssumption ==
    /\ WorkerConcurrency \in Nat \ {0}
    /\ MaxAttempts \in Nat \ {0}
    /\ MaxDisturbances \in Nat

VARIABLES
    \* ---- database
    status,     \* status of each job's row, "none" before it is inserted
    queue,      \* the QUEUED jobs by enqueue_sequence
    started,    \* is http_started_at of the job's latest attempt filled?
    quota,      \* age of each reservation
    gate,       \* age of each permit of the provider's global gate
    \* ---- the decision process
    phase,      \* "down", "recover", "resume", "gather" or "dispatch"
    todo,       \* rows the recovery scan or the resume has listed, not handled yet
    lifecycle,  \* lifecycle the recovery scan has read for a job of todo
    carry,      \* jobs the next dispatch phase will run
    coro,       \* where each job's coroutine is
    attemptNo,  \* provider_attempt_no of that coroutine
    answer,     \* what its subprocess returned
    \* ---- fdc_only subprocesses
    worker,     \* where the job's subprocess is; it outlives its parent
    \* ---- history
    request,    \* the job's last request: "out" until its answer is read,
                \* "dropped" once its subprocess has given it up
    passes,     \* second passes run for the job
    disturbed   \* disturbances so far

database == <<status, queue, started, quota, gate>>
process == <<phase, todo, lifecycle, carry, coro, attemptNo, answer>>
history == <<request, passes, disturbed>>
vars == <<database, process, worker, history>>

Terminal == {"FDC_SUCCEEDED", "FDC_FAILED_FINAL", "CANCELLED"}

Status == {"none", "QUEUED", "RESERVATION_GRANTED"} \cup Terminal

\* A row this old lies outside every window a transaction can still look at.
Expired == Window + MaxLag

\* "refused" is a denial of the global gate; "retryable" stands for the
\* provider_rate_limit and provider_error of an answer of the provider, "lost"
\* for provider_timeout and the provider_error of a broken connection, after
\* which nobody knows what the provider has done; "final" for the other
\* failures, "none" for a subprocess that returned nothing or an error.
Answer == {"none", "ok", "retryable", "lost", "final", "refused"}

CoroStep == {"idle", "top", "granted", "spawned", "settle", "retry", "terminal",
             "second", "done", "deferred", "error"}

WorkerStep == {"none", "gate", "record", "post", "sent", "exited"}

TypeOK ==
    /\ status \in [Job -> Status]
    /\ queue \in Seq(Job)
    /\ started \in [Job -> BOOLEAN]
    /\ quota \in [Slot -> 0..Expired]
    /\ gate \in [Slot -> 0..Expired]
    /\ phase \in {"down", "recover", "resume", "gather", "dispatch"}
    /\ todo \subseteq Job
    /\ lifecycle \in [Job -> {"unread", "NOT_STARTED", "STARTED"}]
    /\ carry \subseteq Job
    /\ coro \in [Job -> CoroStep]
    /\ attemptNo \in [Job -> 1..MaxAttempts]
    /\ answer \in [Job -> Answer]
    /\ worker \in [Job -> WorkerStep]
    /\ request \in [Job -> {"none", "out", "dropped"}]
    /\ passes \in [Job -> Nat]
    /\ disturbed \in 0..MaxDisturbances

Init ==
    /\ status = [j \in Job |-> "none"]
    /\ queue = <<>>
    /\ started = [j \in Job |-> FALSE]
    /\ quota = [s \in Slot |-> Expired]
    /\ gate = [s \in Slot |-> Expired]
    /\ phase = "down"
    /\ todo = {}
    /\ lifecycle = [j \in Job |-> "unread"]
    /\ carry = {}
    /\ coro = [j \in Job |-> "idle"]
    /\ attemptNo = [j \in Job |-> 1]
    /\ answer = [j \in Job |-> "none"]
    /\ worker = [j \in Job |-> "none"]
    /\ request = [j \in Job |-> "none"]
    /\ passes = [j \in Job |-> 0]
    /\ disturbed = 0

\* A job is queued at one place.
Without(q, j) ==
    LET n == CHOOSE m \in DOMAIN q : q[m] = j
    IN  IF \E m \in DOMAIN q : q[m] = j
          THEN [i \in 1..(Len(q) - 1) |-> IF i < n THEN q[i] ELSE q[i + 1]]
          ELSE q

\* One more thing went wrong, or someone else used the provider.
Disturb ==
    /\ disturbed < MaxDisturbances
    /\ disturbed' = disturbed + 1

-----------------------------------------------------------------------------
(***************************************************************************)
(* The two rolling windows: rows of age below Window + l are those the     *)
(* transaction of lag l counts.                                            *)
(***************************************************************************)
Counted(rows, l) == {s \in Slot : rows[s] < Window + l}

\* Mutant: the window is counted back from the present instead of from the
\* transaction's own time.
GrantedByClock(rows, l) == Cardinality({s \in Slot : rows[s] < Window}) < TargetRpm

\* The count is taken under the anchor's row lock and the row inserted before
\* the lock is released, so counting and inserting are one step.
Granted(rows, l) == Cardinality(Counted(rows, l)) < TargetRpm

Inserted(rows, l, s) == [rows EXCEPT ![s] = l]

Aged(rows) ==
    [s \in Slot |-> IF rows[s] < Expired THEN rows[s] + 1 ELSE Expired]

Tick ==
    /\ \E s \in Slot : quota[s] < Expired \/ gate[s] < Expired
    /\ quota' = Aged(quota)
    /\ gate' = Aged(gate)
    /\ UNCHANGED <<status, queue, started, process, worker, history>>

\* A caller without a job (the manual provider gate) passes no FIFO check.
ManualReserve ==
    /\ Disturb
    /\ \E l \in 0..MaxLag, s \in Slot :
          /\ quota[s] = Expired
          /\ Granted(quota, l)
          /\ quota' = Inserted(quota, l, s)
    /\ UNCHANGED <<status, queue, started, gate, process, worker, request,
                   passes>>

\* The legacy lane of the agent subprocess asks the same global gate.
LegacyPermit ==
    /\ Disturb
    /\ \E l \in 0..MaxLag, s \in Slot :
          /\ gate[s] = Expired
          /\ Granted(gate, l)
          /\ gate' = Inserted(gate, l, s)
    /\ UNCHANGED <<status, queue, started, quota, process, worker, request,
                   passes>>

-----------------------------------------------------------------------------
(***************************************************************************)
(* The decision process: clean up, resume, gather, dispatch, repeat.       *)
(***************************************************************************)
ProcessStart ==
    /\ phase = "down"
    /\ phase' = "recover"
    /\ todo' = {j \in Job : status[j] = "RESERVATION_GRANTED"}
    /\ UNCHANGED <<database, lifecycle, carry, coro, attemptNo, answer, worker,
                   history>>

\* cancel_stale_real_jobs reads the lifecycle of the job's latest attempt in one
\* transaction ...
RecoverRead(j) ==
    /\ phase = "recover"
    /\ j \in todo
    /\ lifecycle[j] = "unread"
    /\ lifecycle' = [lifecycle EXCEPT ![j] =
                        IF started[j] THEN "STARTED" ELSE "NOT_STARTED"]
    /\ UNCHANGED <<database, phase, todo, carry, coro, attemptNo, answer,
                   worker, history>>

\* ... and ends the job by it in another.
RecoverMark(j) ==
    /\ phase = "recover"
    /\ j \in todo
    /\ lifecycle[j] # "unread"
    /\ status' = [status EXCEPT ![j] = IF lifecycle[j] = "STARTED"
                                       THEN "FDC_FAILED_FINAL" ELSE "CANCELLED"]
    /\ lifecycle' = [lifecycle EXCEPT ![j] = "unread"]
    /\ todo' = todo \ {j}
    /\ UNCHANGED <<queue, started, quota, gate, phase, carry, coro, attemptNo,
                   answer, worker, history>>

\* Mutant: the jobs a previous process left are not looked for.
ListNone ==
    /\ phase = "recover"
    /\ todo = {}
    /\ phase' = "resume"
    /\ UNCHANGED <<database, todo, lifecycle, carry, coro, attemptNo, answer,
                   worker, history>>

\* The QUEUED jobs a previous process left are listed ...
ListResumable ==
    /\ phase = "recover"
    /\ todo = {}
    /\ phase' = "resume"
    /\ todo' = {j \in Job : status[j] = "QUEUED"}
    /\ UNCHANGED <<database, lifecycle, carry, coro, attemptNo, answer, worker,
                   history>>

\* ... and each is carried over to the first cycle,
Resume(j) ==
    /\ phase = "resume"
    /\ j \in todo
    /\ todo' = todo \ {j}
    /\ carry' = carry \cup {j}
    /\ UNCHANGED <<database, phase, lifecycle, coro, attemptNo, answer, worker,
                   history>>

\* or ended because its symbol has left the universe.
Abandon(j) ==
    /\ phase = "resume"
    /\ j \in todo
    /\ todo' = todo \ {j}
    /\ status' = [status EXCEPT ![j] = "FDC_FAILED_FINAL"]
    /\ queue' = Without(queue, j)
    /\ UNCHANGED <<started, quota, gate, phase, lifecycle, carry, coro,
                   attemptNo, answer, worker, history>>

Gather ==
    /\ phase = "resume"
    /\ todo = {}
    /\ phase' = "gather"
    /\ UNCHANGED <<database, todo, lifecycle, carry, coro, attemptNo, answer,
                   worker, history>>

\* A symbol's first pass inserts its job at the tail, in a transaction of its
\* own, and hands it to the dispatch phase.
RegisterRealJob(j) ==
    /\ phase = "gather"
    /\ status[j] = "none"
    /\ status' = [status EXCEPT ![j] = "QUEUED"]
    /\ queue' = Append(queue, j)
    /\ carry' = carry \cup {j}
    /\ UNCHANGED <<started, quota, gate, phase, todo, lifecycle, coro,
                   attemptNo, answer, worker, history>>

\* The row is in, but the first pass dies before it hands the job over.
RegisterThenFail(j) ==
    /\ phase = "gather"
    /\ status[j] = "none"
    /\ Disturb
    /\ status' = [status EXCEPT ![j] = "QUEUED"]
    /\ queue' = Append(queue, j)
    /\ UNCHANGED <<started, quota, gate, process, worker, request, passes>>

DispatchPhase ==
    /\ phase = "gather"
    /\ phase' = "dispatch"
    /\ coro' = [j \in Job |-> IF j \in carry THEN "top" ELSE "idle"]
    /\ carry' = {}
    /\ UNCHANGED <<database, todo, lifecycle, attemptNo, answer, worker,
                   history>>

Finished(j) == coro[j] \in {"idle", "done", "deferred", "error"}

\* The deferred jobs go to the next cycle of the same process ...
NextCycle ==
    /\ phase = "dispatch"
    /\ \A j \in Job : Finished(j)
    /\ phase' = "gather"
    /\ carry' = carry \cup {j \in Job : coro[j] = "deferred"}
    /\ coro' = [j \in Job |-> "idle"]
    /\ UNCHANGED <<database, todo, lifecycle, attemptNo, answer, worker,
                   history>>

\* ... or, when it was started for one cycle, are left to the next process.
ProcessExit ==
    /\ phase = "dispatch"
    /\ \A j \in Job : Finished(j)
    /\ phase' = "down"
    /\ coro' = [j \in Job |-> "idle"]
    /\ UNCHANGED <<database, todo, lifecycle, carry, attemptNo, answer, worker,
                   history>>

\* The scheduler kills the process alone: the subprocesses it spawned go on.
Crash ==
    /\ phase # "down"
    /\ Disturb
    /\ phase' = "down"
    /\ todo' = {}
    /\ lifecycle' = [j \in Job |-> "unread"]
    /\ carry' = {}
    /\ coro' = [j \in Job |-> "idle"]
    /\ attemptNo' = [j \in Job |-> 1]
    /\ answer' = [j \in Job |-> "none"]
    /\ worker' = [j \in Job |-> IF worker[j] = "exited" THEN "none" ELSE worker[j]]
    /\ UNCHANGED <<database, request, passes>>

-----------------------------------------------------------------------------
(***************************************************************************)
(* complete_fdc_actual_dispatch: one coroutine per job of the phase.       *)
(***************************************************************************)
\* The coroutines inside the worker semaphore.
InSlot == {j \in Job : coro[j] \in {"granted", "spawned", "settle", "retry",
                                    "terminal"}}

\* Mutant: not_my_turn is found out but the window alone decides.
MyTurnUnused(j) == j \in Job

\* No QUEUED job has a smaller enqueue_sequence.  The job's own status is not
\* looked at.
MyTurn(j) == \A n \in DOMAIN queue : queue[n] = j => n = 1

\* The phase deadline is looked at before a slot is taken.
Defer(j) ==
    /\ coro[j] = "top"
    /\ coro' = [coro EXCEPT ![j] = "deferred"]
    /\ attemptNo' = [attemptNo EXCEPT ![j] = 1]
    /\ UNCHANGED <<database, phase, todo, lifecycle, carry, answer, worker,
                   history>>

\* A denied reservation, or an error of the coordinator, gives the slot back and
\* sleeps: the coroutine stays where it is.
TryReserve(j) ==
    /\ coro[j] = "top"
    /\ Cardinality(InSlot) < WorkerConcurrency
    /\ MyTurn(j)
    /\ \E l \in 0..MaxLag, s \in Slot :
          /\ quota[s] = Expired
          /\ Granted(quota, l)
          /\ quota' = Inserted(quota, l, s)
    /\ status' = [status EXCEPT ![j] = "RESERVATION_GRANTED"]
    /\ queue' = Without(queue, j)
    /\ started' = [started EXCEPT ![j] = FALSE]
    /\ coro' = [coro EXCEPT ![j] = "granted"]
    /\ UNCHANGED <<gate, phase, todo, lifecycle, carry, attemptNo, answer,
                   worker, history>>

Spawn(j) ==
    /\ coro[j] = "granted"
    /\ coro' = [coro EXCEPT ![j] = "spawned"]
    /\ worker' = [worker EXCEPT ![j] = "gate"]
    /\ UNCHANGED <<database, phase, todo, lifecycle, carry, attemptNo, answer,
                   history>>

\* communicate() returns.
Collect(j) ==
    /\ coro[j] = "spawned"
    /\ worker[j] = "exited"
    /\ coro' = [coro EXCEPT ![j] = "settle"]
    /\ worker' = [worker EXCEPT ![j] = "none"]
    /\ UNCHANGED <<database, phase, todo, lifecycle, carry, attemptNo, answer,
                   history>>

\* subprocess_timeout: the subprocess is terminated, killed and waited for.
SubprocessTimeout(j) ==
    /\ coro[j] = "spawned"
    /\ worker[j] # "exited"
    /\ Disturb
    /\ coro' = [coro EXCEPT ![j] = "settle"]
    /\ worker' = [worker EXCEPT ![j] = "none"]
    /\ UNCHANGED <<database, phase, todo, lifecycle, carry, attemptNo, answer,
                   request, passes>>

\* Mutant: a subprocess that returned nothing is always tried again.
SettleCrashedRetry(j) ==
    /\ coro[j] = "settle"
    /\ answer[j] = "none"
    /\ coro' = [coro EXCEPT ![j] = "retry"]
    /\ UNCHANGED <<database, phase, todo, lifecycle, carry, attemptNo, answer,
                   worker, history>>

\* No usable answer: the attempt's row says whether the request went out.
SettleCrashed(j) ==
    /\ coro[j] = "settle"
    /\ answer[j] = "none"
    /\ coro' = [coro EXCEPT ![j] = IF started[j] THEN "terminal" ELSE "retry"]
    /\ UNCHANGED <<database, phase, todo, lifecycle, carry, attemptNo, answer,
                   worker, history>>

SettleRefused(j) ==
    /\ coro[j] = "settle"
    /\ answer[j] = "refused"
    /\ coro' = [coro EXCEPT ![j] = "retry"]
    /\ UNCHANGED <<database, phase, todo, lifecycle, carry, attemptNo, answer,
                   worker, history>>

\* Any other answer has been read; a request the subprocess has given up is
\* tried again like one the provider has refused.  (The counters of HTTP
\* attempts, which no decision of the dispatcher depends on, are left out.)
SettleAnswered(j) ==
    /\ coro[j] = "settle"
    /\ answer[j] \in {"ok", "retryable", "lost", "final"}
    /\ request' = [request EXCEPT ![j] = IF @ = "out" THEN "none" ELSE @]
    /\ coro' = [coro EXCEPT ![j] = IF answer[j] \in {"retryable", "lost"}
                                    THEN "retry" ELSE "terminal"]
    /\ UNCHANGED <<status, queue, started, quota, gate, phase, todo, lifecycle,
                   carry, attemptNo, answer, worker, passes, disturbed>>

\* Mutant: the row keeps its status and is not queued again.
RetryUnqueued(j) ==
    /\ coro[j] = "retry"
    /\ attemptNo[j] < MaxAttempts
    /\ attemptNo' = [attemptNo EXCEPT ![j] = @ + 1]
    /\ answer' = [answer EXCEPT ![j] = "none"]
    /\ coro' = [coro EXCEPT ![j] = "top"]
    /\ UNCHANGED <<database, phase, todo, lifecycle, carry, worker, history>>

\* Mutant: one attempt too many.
RetryInclusive(j) ==
    /\ coro[j] = "retry"
    /\ attemptNo[j] <= MaxAttempts
    /\ status' = [status EXCEPT ![j] = "QUEUED"]
    /\ queue' = Append(queue, j)
    /\ attemptNo' = [attemptNo EXCEPT ![j] = @ + 1]
    /\ answer' = [answer EXCEPT ![j] = "none"]
    /\ coro' = [coro EXCEPT ![j] = "top"]
    /\ UNCHANGED <<started, quota, gate, phase, todo, lifecycle, carry, worker,
                   history>>

\* The row goes back to the tail of the queue and the loop starts over.
RetryQueued(j) ==
    /\ coro[j] = "retry"
    /\ attemptNo[j] < MaxAttempts
    /\ status' = [status EXCEPT ![j] = "QUEUED"]
    /\ queue' = Append(queue, j)
    /\ attemptNo' = [attemptNo EXCEPT ![j] = @ + 1]
    /\ answer' = [answer EXCEPT ![j] = "none"]
    /\ coro' = [coro EXCEPT ![j] = "top"]
    /\ UNCHANGED <<started, quota, gate, phase, todo, lifecycle, carry, worker,
                   history>>

RetryExhausted(j) ==
    /\ coro[j] = "retry"
    /\ attemptNo[j] = MaxAttempts
    /\ coro' = [coro EXCEPT ![j] = "terminal"]
    /\ UNCHANGED <<database, phase, todo, lifecycle, carry, attemptNo, answer,
                   worker, history>>

\* Mutant: the final status is not written before the second pass.
TerminalUnwritten(j) ==
    /\ coro[j] = "terminal"
    /\ attemptNo' = [attemptNo EXCEPT ![j] = 1]
    /\ answer' = [answer EXCEPT ![j] = "none"]
    /\ coro' = [coro EXCEPT ![j] = "second"]
    /\ UNCHANGED <<database, phase, todo, lifecycle, carry, worker, history>>

MarkJobTerminal(j) ==
    /\ coro[j] = "terminal"
    /\ status' = [status EXCEPT ![j] = IF answer[j] = "ok" THEN "FDC_SUCCEEDED"
                                                         ELSE "FDC_FAILED_FINAL"]
    /\ attemptNo' = [attemptNo EXCEPT ![j] = 1]
    /\ answer' = [answer EXCEPT ![j] = "none"]
    /\ coro' = [coro EXCEPT ![j] = "second"]
    /\ UNCHANGED <<queue, started, quota, gate, phase, todo, lifecycle, carry,
                   worker, history>>

\* Mutant: a second pass that fails is run again.
SecondPassRetried(j) ==
    /\ coro[j] = "second"
    /\ passes' = [passes EXCEPT ![j] = @ + 1]
    /\ \E step \in {"second", "done"} : coro' = [coro EXCEPT ![j] = step]
    /\ UNCHANGED <<database, phase, todo, lifecycle, carry, attemptNo, answer,
                   worker, request, disturbed>>

\* The rest of the pipeline, submission included, runs on the job's bundle.
SecondPass(j) ==
    /\ coro[j] = "second"
    /\ passes' = [passes EXCEPT ![j] = @ + 1]
    /\ coro' = [coro EXCEPT ![j] = "done"]
    /\ UNCHANGED <<database, phase, todo, lifecycle, carry, attemptNo, answer,
                   worker, request, disturbed>>

\* A statement raises: the job's result is ERROR and its row stays as it is.
CoroutineError(j) ==
    /\ j \in InSlot \ {i \in Job : coro[i] = "spawned"} \/ coro[j] = "top"
    /\ Disturb
    /\ coro' = [coro EXCEPT ![j] = "error"]
    /\ attemptNo' = [attemptNo EXCEPT ![j] = 1]
    /\ answer' = [answer EXCEPT ![j] = "none"]
    /\ UNCHANGED <<database, phase, todo, lifecycle, carry, worker, request,
                   passes>>

-----------------------------------------------------------------------------
(***************************************************************************)
(* The fdc_only subprocess: gate, http_started, request, answer.           *)
(***************************************************************************)
\* An orphan's answer has no reader.
Exits(j, a) ==
    IF coro[j] = "spawned"
    THEN worker' = [worker EXCEPT ![j] = "exited"]
         /\ answer' = [answer EXCEPT ![j] = a]
    ELSE worker' = [worker EXCEPT ![j] = "none"]
         /\ UNCHANGED answer

\* Mutant: the subprocess takes its permit without counting the window, since its
\* reservation was counted already.
GatePermitUncounted(j) ==
    /\ worker[j] = "gate"
    /\ \E l \in 0..MaxLag, s \in Slot :
          /\ gate[s] = Expired
          /\ gate' = Inserted(gate, l, s)
    /\ worker' = [worker EXCEPT ![j] = "record"]
    /\ UNCHANGED <<status, queue, started, quota, process, history>>

GatePermit(j) ==
    /\ worker[j] = "gate"
    /\ \E l \in 0..MaxLag, s \in Slot :
          /\ gate[s] = Expired
          /\ Granted(gate, l)
          /\ gate' = Inserted(gate, l, s)
    /\ worker' = [worker EXCEPT ![j] = "record"]
    /\ UNCHANGED <<status, queue, started, quota, process, history>>

GateRefuses(j) ==
    /\ worker[j] = "gate"
    /\ \E l \in 0..MaxLag : ~Granted(gate, l)
    /\ Exits(j, "refused")
    /\ UNCHANGED <<database, phase, todo, lifecycle, carry, coro, attemptNo,
                   history>>

RecordHttpStarted(j) ==
    /\ worker[j] = "record"
    /\ started' = [started EXCEPT ![j] = TRUE]
    /\ worker' = [worker EXCEPT ![j] = "post"]
    /\ UNCHANGED <<status, queue, quota, gate, process, request, passes,
                   disturbed>>

Post(j) ==
    /\ worker[j] = "post"
    /\ request' = [request EXCEPT ![j] = "out"]
    /\ worker' = [worker EXCEPT ![j] = "sent"]
    /\ UNCHANGED <<database, process, passes, disturbed>>

\* A resumed job starts counting its attempts again, so the failures that are
\* retried are bounded with the other disturbances.
Answered(j, a) ==
    /\ worker[j] = "sent"
    /\ IF a = "retryable" THEN Disturb ELSE UNCHANGED disturbed
    /\ Exits(j, a)
    /\ UNCHANGED <<database, phase, todo, lifecycle, carry, coro, attemptNo,
                   request, passes>>

\* The agent's own timeout cancels the request, or its connection breaks: the
\* subprocess stops waiting and reports it, whatever the provider still does.
GivesUp(j) ==
    /\ worker[j] = "sent"
    /\ Disturb
    /\ request' = [request EXCEPT ![j] = "dropped"]
    /\ Exits(j, "lost")
    /\ UNCHANGED <<database, phase, todo, lifecycle, carry, coro, attemptNo,
                   passes>>

\* The write of http_started fails or the agent's own timeout fires before the
\* request: the agent turns the exception into a provider failure.
FailsBeforeHttp(j, a) ==
    /\ worker[j] \in {"gate", "record"}
    /\ Disturb
    /\ Exits(j, a)
    /\ UNCHANGED <<database, phase, todo, lifecycle, carry, coro, attemptNo,
                   request, passes>>

\* The subprocess dies, or fails outside the agent, at any step.
WorkerDies(j) ==
    /\ worker[j] \in {"gate", "record", "post", "sent"}
    /\ Disturb
    /\ Exits(j, "none")
    /\ UNCHANGED <<database, phase, todo, lifecycle, carry, coro, attemptNo,
                   request, passes>>

-----------------------------------------------------------------------------
ProcessStep ==
    \/ ProcessStart \/ ListResumable \/ Gather \/ DispatchPhase
    \/ \E j \in Job : RecoverRead(j) \/ RecoverMark(j) \/ Resume(j) \/ Abandon(j)

CoroutineStep(j) ==
    \/ TryReserve(j) \/ Spawn(j) \/ Collect(j)
    \/ SettleCrashed(j) \/ SettleRefused(j)
    \/ SettleAnswered(j) \/ RetryQueued(j) \/ RetryExhausted(j)
    \/ MarkJobTerminal(j) \/ SecondPass(j) \/ Defer(j)

WorkerRuns(j) ==
    \/ GatePermit(j) \/ GateRefuses(j) \/ RecordHttpStarted(j) \/ Post(j)
    \/ \E a \in {"ok", "retryable", "final"} : Answered(j, a)

Disturbance ==
    \/ ManualReserve \/ LegacyPermit \/ Crash
    \/ \E j \in Job :
          \/ RegisterThenFail(j) \/ SubprocessTimeout(j) \/ CoroutineError(j)
          \/ WorkerDies(j) \/ GivesUp(j)
          \/ \E a \in {"retryable", "final"} : FailsBeforeHttp(j, a)

Next ==
    \/ Tick \/ ProcessStep \/ NextCycle \/ ProcessExit \/ Disturbance
    \/ \E j \in Job : RegisterRealJob(j) \/ CoroutineStep(j) \/ WorkerRuns(j)

(***************************************************************************)
(* Time passes, the event loop runs every ready coroutine, a subprocess    *)
(* runs, and the scheduler starts a process for one cycle at a time        *)
(* (--count 1), so a process that may exit does not loop for ever.  The    *)
(* phase deadline passes sooner or later too (Defer), and nothing says     *)
(* that a reservation comes first: the first pass may have used up the     *)
(* time of the cycle, and the next one, and the next.                      *)
(***************************************************************************)
Fairness ==
    /\ WF_vars(Tick)
    /\ WF_vars(ProcessStep)
    /\ SF_vars(ProcessExit)
    /\ \A j \in Job : WF_vars(CoroutineStep(j)) /\ WF_vars(WorkerRuns(j))

Spec == Init /\ [][Next]_vars

FairSpec == Spec /\ Fairness

-----------------------------------------------------------------------------
WindowBound(rows) ==
    \A k \in 0..MaxLag :
        Cardinality({s \in Slot : k <= rows[s] /\ rows[s] < k + Window}) <= TargetRpm

(***************************************************************************)
(* No window of Window ticks holds more than TargetRpm reservations, by    *)
(* their reserved_at, however long the transactions of try_reserve waited  *)
(* for the anchor row and in whatever order they got it.                   *)
(***************************************************************************)
QuotaWindow == WindowBound(quota)

(***************************************************************************)
(* The same of the permits of the provider's global gate, which the        *)
(* dispatcher's subprocesses, their orphans and the legacy lane share.     *)
(***************************************************************************)
GateWindow == WindowBound(gate)

(***************************************************************************)
(* A job that may be reserved again has no request that is still out: its  *)
(* answer was read, or its subprocess reported that it had given it up.  A *)
(* subprocess that dies, is killed or loses its parent after it sent the   *)
(* request is never followed by a second request of the job.  (One that    *)
(* timed out itself is: complete_fdc_actual_dispatch counts                *)
(* provider_timeout among the statuses it retries.)                        *)
(***************************************************************************)
ReportedBeforeRetry == \A j \in Job : status[j] = "QUEUED" => request[j] # "out"

(***************************************************************************)
(* A coroutine asks for a reservation, or hands its job to the next cycle, *)
(* only while the job's row is QUEUED: try_reserve, which does not look at *)
(* the row's own status, never reserves for a job that has ended.          *)
(***************************************************************************)
WaitingIsQueued ==
    \A j \in Job : coro[j] \in {"top", "deferred"} => status[j] = "QUEUED"

(***************************************************************************)
(* Reservations are granted in the order of enqueue_sequence: the job that *)
(* becomes RESERVATION_GRANTED was the first of the QUEUED ones, and the   *)
(* others keep their places, whichever coroutine polls first and whatever  *)
(* crashes, retries and resumes have done to the rows.                     *)
(***************************************************************************)
FirstComeFirstServed ==
    [][\A j \in Job :
          status[j] # status'[j] /\ status'[j] = "RESERVATION_GRANTED" =>
             queue # <<>> /\ Head(queue) = j /\ queue' = Tail(queue)]_vars

(***************************************************************************)
(* The second pass, which submits the order, runs at most once for a job,  *)
(* across retries, deferrals, crashes, recovery scans and resumes.         *)
(***************************************************************************)
SecondPassOnce == \A j \in Job : passes[j] <= 1

(***************************************************************************)
(* Every registered job ends, unless the phase deadline puts it off in     *)
(* cycle after cycle: no crash, error, retry or full window leaves a row   *)
(* that stays QUEUED, and blocks the jobs behind it, or reserved for ever. *)
(***************************************************************************)
EveryJobEnds ==
    \A j \in Job :
        \/ []<>(coro[j] = "deferred")
        \/ (status[j] # "none") ~> (status[j] \in Terminal)

(***************************************************************************)
(* The dispatch implements the queue of FdcJobs: across crashes, orphans   *)
(* and resumes a job is never asked for twice at a time, is asked again    *)
(* only when its last request was answered or given up by its subprocess,  *)
(* never leaves a final status, and is decided on at most once, after the  *)
(* dispatcher itself ended it.                                             *)
(***************************************************************************)
Jobs == INSTANCE FdcJobs WITH row <- status, asked <- request, decisions <- passes

JobsSpec == Jobs!Spec
=============================================================================
