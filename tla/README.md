# TLA+ models of trading_agent

Specifications of the order path of the trading agent: how a cycle decides which
orders to send, how the final decision is obtained from a rate-limited provider, how
a call reaches the broker, how an order row is moved by concurrent processes, what
happens to orders whose fate at the broker is unknown, and how the processes share
the broker's call budget. The modules are written from the Python sources. TLC checks
them on small instances, and TLAPS proves the main invariants for every value of the
constants.

## The system

Python, asyncio and PostgreSQL (asyncpg, READ COMMITTED), trading through the
REST and websocket API of Korea Investment (KIS). The processes:

| process | what it does |
|---|---|
| `ops-scheduler` (`scripts/run_ops_scheduler.py`) | starts the decision loop, the post-submit sync and the snapshot sync as child processes and kills them on timeout |
| decision loop (`scripts/run_decision_loop.py`) | up to five symbols at once; each decides, sizes, and submits an order in one database transaction |
| post-submit sync (`scripts/run_post_submit_sync_loop.py`) | asks the broker about open orders, moves them through the state machine, cleans up at the end of the day |
| `reconciliation-worker` (`scripts/run_reconciliation_worker.py`) | every 30 s, one transaction: inquires about the orders linked to open reconciliation runs |
| `realized-pnl-recompute-worker` | recomputes the realized PnL ledger |
| `api` and admin UI | reads, and the operator's `manual_resolve` |
| repair scripts (`scripts/*reconcil*`) | backfill, retry and clean-up of reconciliation runs |

They interact through the database (order rows with a version column,
reconciliation runs, order links, blocking locks, the queue and the permits of the
final decision), through the broker, and through two files: the shared REST budget
and the access token.

### Inventory

`PROJECT.json` lists every part with its sources and status. In short:

- **modelled**: shared REST budget, reconciliation worker, repair scripts, sell guard;
- **partly**: order state machine, order submission, reconciliation service,
  post-submit sync (its status part), database transactions, KIS request pipeline,
  token cache and adapter, snapshot sync (the position it stores), submit lane gate,
  quota, queue and gate of the final-decision composer (FDC), ops scheduler (the
  decision task), decision loop;
- **not modelled**: everything else, with the reasons at the end of this file.

The mapped definitions stand for about 8,300 of the repository's 154,000 lines of
implementation. The project covers the order path, not the system: scoring, agents,
analytics, API and user interface make up most of the code.

## The modules

| module | models | checked by | proved in |
|---|---|---|---|
| `SharedBudget` | `brokers/shared_budget.py` | `MCSharedBudget` | `SharedBudgetProofs` |
| `OrderStates` | transition table, terminal sets, transition chains | (constant module) | |
| `OrderLifecycle` | `order_manager.py`, the status part of `order_sync_service.py`, `update_status` | `MCOrderLifecycle` | `OrderLifecycleProofs` |
| `Reconciliation` | `submit_order_to_broker`, `reconciliation_service.py`, `reconciliation_worker.py`, the clean-ups and the scripts | `MCReconciliation` | `ReconciliationProofs` |
| `KisRequest` | `rest_client.py` `_request` and its operations, `rate_limit.py`, `backoff.py`, `token_cache.py` | `MCKisRequest` | `KisFrameProofs`, `KisRequestProofs` |
| `FdcDispatch` | `fdc_quota.py`, the dispatch in `decision_agent_runner.py`, the `fdc_only` subprocess, the global gate | `MCFdcDispatch` | `FdcDispatchProofs` |
| `FdcJobs` | what the queue of FDC jobs promises; `FdcDispatch` implements it | `MCFdcDispatch` | `FdcDispatchProofs` |
| `DecisionCycle` | the decision task of the scheduler, the passes of a cycle, the guards that read other orders | `MCDecisionCycle` | `DecisionStateProofs`, `DecisionCycleProofs` |

The `map` of `PROJECT.json` gives the source lines of every definition.

### SharedBudget

`FileBackedGlobalBucket` keeps "tokens,time" in a file opened in mode `a+` and
locked with `flock`. The model keeps the order of the system calls: lock and read,
truncate and write *into the buffer*, unlock, and only then the flush at `close`.
`file` is the sequence of records flushed since the last truncation. A process may
be killed at any point (`Crash`), which drops its lock and its buffer.

### OrderLifecycle

A process is a transaction. It loads a copy of a row (`Load`), decides a target
from that copy (`TryTransition`, `CleanUp`, `Reflect`, `ManualResolve`), and enters
`_transition_to_core`, whose compare-and-set either matches (`Apply`) or misses
(`Conflict`: give up on a terminal row or at the third miss, else retry the same
target against the latest version). `row` is what is committed, `draft` what the
holder of a row lock has written. `Fallback` and `Annotate` are the two writers that
bypass `OrderManager`. The constant `Writers` selects which of them an instance has.

A decision cycle inserts and transitions its order in one transaction, so other
processes first see the row in one of the statuses of `Created`; that is `Init`.
Versions count from there.

### Reconciliation

One account. The submission of an order is `Check` (blocking lock), `Send` (any
answer, with the broker possibly holding the order whenever the answer does not
exclude it), `Trigger`, `Link`, and `Commit`; or `Undo`, the COMMIT of a transaction
in which a statement failed, which PostgreSQL turns into a rollback; or `Abandon`
(timeout, crash). The worker is `Begin`, one `Retain` or `Inquire` for each listed
run, and `Conclude` or `Crash`. The sync, the operator, the expiry of locks and the
repair scripts are single steps, except the retry script, which commits each of its
statements on its own.

An order has a scope, the (symbol, side) a lock covers. `strategy_id` is left out:
the callers always pass none. `submitted` stands for all statuses of an order that
works at the broker, `expired` also for cancelled: no property of this module tells
them apart, and `OrderLifecycle` has them in full. Two orders of one scope are not in
flight together, because the decision loop runs one task per symbol.

### KisRequest

A client is a process with its own token buckets, circuit breaker and access token; the
token file is shared. A call is a coroutine that executes one operation as a sequence
of `_request`s: wait for the global cap, take from the bucket or the reserve for
held-position sells, authenticate under the lock, send, and on the way out give back
by the flags of the `finally` clause. A timeout repeats the POST, a refused token
invalidates memory and file and repeats a read, pages and fallbacks start further
requests. Durations are left open: a bounded wait may end at any moment, and each look
at an expiry may find it passed or not. `Issue` may answer with the token of the answer
before: KIS repeats a token that was issued less than six hours ago, the one it has
just refused included. A number stands for an answer of `/oauth2/tokenP`, not for its
string.

### FdcDispatch and FdcJobs

A held position registers a job. One coroutine per job reserves quota in a transaction
that waits for an anchor row, spawns a `fdc_only` subprocess with the grant, reads its
answer, and retries, fails or succeeds the job before the second pass submits the
order. A kill of the process leaves its subprocesses as orphans; the next process
scans, ends or resumes what it finds. Time is relative: a row carries its age, and a
transaction that waited `l` ticks for the anchor inserts a row of age `l`.

A request is out until its answer is read by the coroutine; `GivesUp` drops it: the outer
timeout of the agent, or a broken connection, ends the wait for a request the provider
may still execute, and the subprocess reports it.

`FdcJobs` has three variables: the row's status, whether a request is out or was dropped,
and the second passes run. The mapping (`JobsSpec`) takes `status`, `request` and `passes`.
The sequence number of a queue place, which the code draws just before the COMMIT that
makes the place visible (`fdc_quota.py:641-650`), is drawn and appended in one step here.

### DecisionCycle

One trading day. `StartCycle` hands a process what is left of the BUY budget. In
pass 1 all symbols run side by side, held positions submit in a transaction of their
own, other symbols become candidates; the dispatch phase finishes the parked held
positions; pass 2 submits candidates one by one. A submission is guard, send, commit.
Timeouts, kills, restarts, fills, sync, position snapshots and the cooldown are steps
of their own. A sum of shares is the number of pairs of an order and a share number
(`Shares`), so an order with nothing left adds nothing.

The rows need not be right about the broker. A submission may end in a row that says
nothing, or the wrong thing, about the order (`Unknown`: an ambiguous answer, an exception,
or REJECTED because the repetition of a timed-out POST was refused). `Sync` stores what the
broker has, `Doubt` is the sync that finds nothing or has no budget left and moves a working
order to RECONCILE_REQUIRED, without a lock; `GiveUp` closes the row of an order that the
broker may have (the worker's EXPIRED fallback, the sync's rejection of an orphan sell). An
ambiguous order has no `broker_orders` row: neither the sync nor the worker can place it, an
operator does.

Two history variables say what a property leaves out. `fate` of a BUY the broker has: its
result was unknown or the sync once doubted it, its row denies it, its transaction was
rolled back, by its own task or by that of a sibling. `blind`: the guard was bypassed,
failed open, or could not see a sell. The three reads of the sell guard (`sell_guard.py:137-149`)
are one step; what another commit could hide between them counts as not seen. One order is
at most one order of the broker: the repeated POST that makes two is in `KisRequest`.

## What the runs show

Passing runs:

| run | instance | shows |
|---|---|---|
| `shared_budget_race` | two processes, capacity 1, two ticks, one kill | records stay within the capacity; once the file holds two records the limit stays off (`FailOpenIsPermanent`) |
| `order_lifecycle` | one row, two transactions, three writes | final statuses stay (`FinalIsFinal`); EXPIRED is left only for the late recovery (`ExpiredReopens`) when every writer goes through `OrderManager` |
| `order_writers` | one row, two transactions, all writers, two writes | versions never go back (`VersionsGrow`) |
| `reconciliation` | two orders of different scopes, two runs, all scripts, fair worker | locks belong to open or halted runs, live locks leave only with their run, ambiguous orders are linked, an unknown order without `submitted_at` and broker order was never sent, every open run with a link is decided unless as many older runs without links as the list holds stay ahead of it (`LinkedRunIsDecided`) |
| `kis_request` | two clients, three calls of which two are started | successful requests keep a token and refunds create none (`SuccessIsPaidFor`); a reauthenticated request does not find the refused token in memory or file again (`RefusedIsForgotten`); one call at a time issues a token; a closed breaker is below its threshold; no operation gets stuck |
| `fdc_dispatch` | two jobs, two slots, one grant per window, three disturbances | no window exceeds the rate (`QuotaWindow`, `GateWindow`); reservations are granted in the order of the queue (`FirstComeFirstServed`); no job is queued again while its request is out (`ReportedBeforeRetry`); only QUEUED jobs ask for a reservation; the second pass runs at most once; `FdcJobs` is implemented |
| `fdc_live` | two jobs, two disturbances, fairness | every registered job ends, unless it is put off at the phase deadline for ever (`EveryJobEnds`) |
| `decision_cycle` | two orders, three universes, budget 1, one disturbance | the day's BUY budget for the orders whose row always told what the broker has; the cover of sells for the symbols whose sells were all checked on full input; one recent BUY per symbol, unknown and doubted orders included, unless a row was rolled back or denies its order or a lock bypassed the guard |

Runs that end in a counterexample. Each one compares the code with a line of the
repository, quoted in `findings`:

| run | what the code does |
|---|---|
| `order_annotate` | an update without a version restores a stale status over a final one |
| `reconciliation_error` | the run for an ambiguous `BrokerError` is refused by a CHECK constraint, and the order row vanishes |
| `kis_order_sent` | the HTTP retry repeats the POST of an order that KIS may have executed |
| `decision_timeout` | the timeout of one symbol cancels the tasks of all symbols, and an order just sent loses its row |

Other behaviours of the modelled code that a reader of these documents may not
expect. The models have the steps; no run is kept for them:

- `Conflict` retries the same target without asking the table again, so a row can
  make a transition that `_ALLOWED_TRANSITIONS` does not have.
- `Fallback` (the worker's EXPIRED) overwrites a final status, like `Annotate`.
- A failure of `trigger_and_link` is swallowed, but the statement that failed has
  aborted the transaction: `Undo` takes the transition back as well.
- `Trigger` opens a run, and `Link` then looks up the active run once more; when that
  is another transaction's newer run, the one just opened has no order link.
- The worker resolves a run whose orders the broker can place without writing their
  status (`_process_order_link`): the order stays RECONCILE_REQUIRED until the sync.
- `ExpireOrphan` takes no account of the status of the order's run; it only chooses
  the reason code.
- After an exception that is not a `BrokerError` an order the broker may hold stays
  PENDING_SUBMIT, and the clean-ups later reject or expire it.
- The budget file is flushed at `close`, after the unlock, so two processes can both
  spend a full bucket (`shared_budget.py:202`).
- The state event names the status of the stale copy after a retry
  (`order_manager.py:898`); a swallowed failure to release a lock is never logged
  (`reconciliation_service.py:322`); `update_run_status` lets a worker overwrite a run
  an operator has resolved (`postgres/reconciliation.py:247`).
- SUBMITTED to CANCELLED or REJECTED, PARTIALLY_FILLED to CANCELLED and
  RECONCILE_REQUIRED to PARTIALLY_FILLED are not reached by the sync.
- The worker fails a run and drops its lock while the order is as unknown as before, and
  a reused run takes no lock for the second scope.
- An order whose first transmission timed out and whose repetition is refused ends as
  REJECTED though KIS may have it, and the duplicate BUY guard lets the next one pass.
- The worker's EXPIRED fallback applies at any age from 15:00 KST on
  (`reconciliation_worker.py:512`, the comment there says 15:30), half an hour before the
  market closes; an expired row opens the duplicate BUY guard too.
- The sync moves an order it cannot find, or for which no inquiry budget is left, to
  RECONCILE_REQUIRED. That status is not in `_BUDGET_CONSUMING_STATUSES`, so after a restart
  the scheduler grants the place of that order once more.
- A token asked for again within six hours may be the refused one
  (`docs/90_reference/kis_openapi`, `004_접근토큰발급(P).md:22`). The repeated request is then
  refused as well, and `_request` raises; there is no third attempt.
- `provider_timeout` is among the statuses that re-queue a job
  (`decision_agent_runner.py:703-719`), so the provider may execute a request whose answer
  nobody reads and is asked again. A manual run takes a reservation, no permit of the gate.
- Runs without links stay at the head of the worker's list; as many of them as the limit
  starve every later run (`CrowdedOut`).
- HALF_OPEN lets every caller pass (`backoff.py:12` speaks of one probe); the reserve for
  held sells never refills; a token taken while waiting for the global cap is not given
  back; the fallback of `resolve_unknown_state` draws on the bucket that was exhausted.
- A QUEUED job whose coroutine died blocks the queue until the next process; an orphan
  may send its request after the recovery scan ended its job; a job is FDC_SUCCEEDED
  before its second pass, so a crash in between loses the decision.
- When pass 1 uses up the time of the cycle, the dispatch phase defers every job at once,
  in every cycle (`run_decision_loop.py:1808-1818`).
- A rolled-back transaction leaves a sent order unrecorded and the budget uncharged
  (`run_decision_loop.py:3350`); while a lock is active the duplicate BUY guard is
  bypassed; the sell guard fails open on an exception and does not see uncommitted
  sells, so two sells of one symbol may exceed the position. These are the cases that
  `fate` and `blind` take out of the properties.

### Bounds

- `MaxVersion` 3 lets a row be expired, reopened and filled under the eyes of a
  process with a stale copy, and lets a retry miss more than once. One row suffices:
  no property relates two rows, and a transaction's steps on different rows only
  meet in COMMIT. The proofs have no bound on rows or processes.
- `MaxRun` 2 lets each order open a run, or a script one for an order that has one.
  `Limit` 1 is below `MaxRun`, so the list leaves runs out: the second run waits for
  the first, and is crowded out by it while the first has no link. 504,937 states. The
  safety theorems hold for every `Limit`.
- `MaxTime`, `MaxGrants` and `MaxCrashes` bound the budget's clock and use.
- `KisRequest`: one HTTP retry, breaker threshold 1, two tokens and one refill. Two calls
  of one client meet at its lock and its buckets, the third shares the token file.
  582,371 states.
- `FdcDispatch`: `TargetRpm` 1, `Window` 1 and `MaxLag` 1 let a stamp lie before one already
  inserted; three disturbances allow a kill, an orphan's request and a second kill.
  973,838 states; `fdc_live` has `MaxLag` 0 and two disturbances, 140,265 states.
- `DecisionCycle`: two orders and one disturbance; the three universes are a partial
  sell over several cycles, two sells of one symbol, and two candidates for one budget.
  1,465,349 states. The proofs have no such bound.

Deadlock is not checked for `SharedBudget` and `Reconciliation`, whose bounded
counters end the behaviour; the orders are submitted once each.

### Fairness

`LinkedRunIsDecided` (`Reconciliation`): `Fairness` is weak fairness of the
worker's three kinds of steps: `_run_loop` starts a cycle every 30 s and each cycle
goes through its list. Fairness alone does not suffice, because every cycle may be
killed and every run retained for want of a broker account or adapter. `Recovered`
says that from some time on neither happens: a killed cycle has nothing left to do
and nothing decided, and only runs without links are retained. Those stay in the list,
and the property excepts a run that from some time on always has `Limit` older ones of
them ahead of it; without the exception it does not hold.

`EveryJobEnds` (`FdcDispatch`): weak fairness of time, of the process's steps, of every
coroutine and subprocess, since an event loop and an operating system run what is ready.
Strong fairness of `ProcessExit`: the scheduler starts processes with `--count 1`, so one
that may exit does not loop for ever. Nothing is assumed about when the deadline of
the dispatch phase falls: it is counted from the start of the cycle, and pass 1 may use all
of the time. A job that is deferred again and again is therefore excepted. Disturbances are
bounded.

## What is proved

`tlapm` checks all proofs (eight proof modules). The only assumptions
are the ASSUMEs on the constants of each module.

- **SharedBudget.** `TypeCorrect`; `PermanentlyOpen`: with a free lock and an
  unparsable file no step writes a truncation, since only a holder truncates and
  nobody can become one.
- **OrderLifecycle.** `TypeCorrect` and `VersionsOnlyGrow` for all writers.
  `FinalStays` and `ExpiredStays` assume `ManagerOnly`, that no instance has
  `Fallback` or `Annotate`; the run `order_annotate` shows what
  happens without it. The properties are not inductive: that a stale copy cannot pass
  rests on what the copy says about a row. The strengthening has two layers.
  `BaseInv`: an acting process has a copy of a real order and its call a real target
  (`Copies`); the draft of an unlocked row is the row, and a draft's version is never
  below its row's (`Drafts`). `ManagerInv`: a locked row is not final and its draft
  has a higher version (`Pending`); the copy of an acting process is not newer than
  what the process sees of the row, and if the versions agree so do the statuses
  (`FreshCopy`); a pending call whose version agrees with that row finds it not
  final, and from EXPIRED has an allowed target (`PermittedCall`). A final row is
  then out of reach of every pending call.
- **Reconciliation.** `LocksHaveOpenRuns` is inductive with the types: every step
  keeps the locks, acquires one for a run that starts in the same step, or
  releases those of the runs it decides (`LockCases`); `LiveLocksAreKept` follows
  from the same cases. `AmbiguousAreLinked` and `BlockedAreNeverSent` rest on
  `SubmissionInv`, which says for each order what its transaction has done so far
  (nothing is stored before it is over, an order not yet sent or stopped by the lock is
  not held by the broker, an ambiguous one that is ready to commit has joined a run
  that exists or is its own) and what that means once it is committed.
- **KisRequest.** All five safety properties, for any number of clients and calls, any
  capacities and any threshold. `KisFrameProofs` says once for each step what it does
  to the frame of its call, told apart by whether the request holds tokens before and
  after (the `finally` clause gives back exactly those); the other proofs use these
  cases instead of the actions. `RequestTypes` gives the types. `ClosedBreakerIsHealthy`
  is inductive with the breaker's type (`BreakerInv`): success resets the count and the
  failure that reaches the threshold opens. `OneIssueAtATime` rests on `LockInv`: the lock
  is held by exactly the call that asks for a token or saves it. `ReauthAsksAgain` is not inductive, because a
  refused token could come back from the file or from another call; `TokenInv` says
  that every token was issued (`KnownTokens`), that one still being saved is known to
  its client alone (`SavedByOne`), and that a refused one is gone from memory and file
  with nobody about to write it (`RefusedIsGone`). `BudgetIsNeverOverdrawn`: bucket, tokens
  in flight, successes and reserve (`Ledger`) grow only by a refill.
- **FdcDispatch.** `QuotaIsKept` and `GateIsKept` rest on `WindowInv`: rows have ages within
  the window plus the longest wait, and every window that a lagging transaction can
  still reach is within the rate. Counting and inserting at the transaction's own time
  keeps this. `RetriedAreReported`, `PollersAreQueued` and `DecidedOnce` rest on `JobInv`,
  which says for each job what its row, coroutine and subprocess may be at the same
  time (`RowInv`) and when a request may be out or dropped (`RequestInv`). `GrantsAreInOrder` needs
  `QueueInv`: the queue holds the QUEUED jobs and no other, each at one place, so that
  the job whose turn it is stands at the head. `DispatchTypes` adds the lists of the
  process (`ListType`). `DispatchImplementsJobs`: `Init` maps to `Init`, and under `JobInv`
  every step maps to a step of `FdcJobs` or a stutter (`StepMaps`).
- **DecisionCycle.** `StateInv` ties transactions, rows and phases together: an open
  transaction owns one order nobody else sees (`Owned`), a phase limits who may submit
  (`Phases`), a BUY the broker has whose transaction is over and whose row always told so
  is in a status the scheduler counts, and one that was denied or lost has no row or a
  closed one (`Recorded`). `BudgetIsKept` adds `Reserved`: what was settled and what
  the process may still spend stay within the budget. `BuysAreApart` adds that a recent
  BUY has a row the guard finds (`RecentInv`). `CycleTypes` adds `Fills` (what the rows
  know and what a snapshot has seen of an order is at most what is filled, and that at
  most its quantity) and `Carries` (a transaction past its guard has an order).
  `SellsStayCovered` argues about shares one by one. `Known`: a snapshot says no more than
  the account and the shares sold since it was taken. `Covered`: what the checked sells
  may still sell, those not yet sent included, is in the account, unless an unchecked
  sell of the symbol is out. When the guard passes, the shares it subtracts from the
  snapshot contain both the shares still to be sold and those sold since the snapshot
  (`GuardCovers`), whatever the sync has stored so far; so the new order fits.

Only model-checked: `LinkedRunIsDecided` and `EveryJobEnds`, since liveness under fairness
is out of the proof system's reach, and the counterexamples. Every other property of a
passing run has a theorem.

## Not modelled

- **Fills and the realized PnL ledger** (cumulative observations to increments,
  deduplication, shadow mode) and **the API's transaction scope**: they have state and
  hazards of their own, listed in `PROJECT.json`, and would be the next modules.
- **Savepoints**: the sync cycle over many rows is not modelled, its steps on one order
  are. **End of the day**: `DecisionCycle` ends before the clean-ups that run after 15:30.
- **Order creation and idempotency keys, cancel** (the adapter's call does not fit the
  client's signature), **paper pacing, approval keys**.
- **Symbol trade state, hysteresis, polling, realtime quotes, market state, configuration
  versions**: small state machines that no modelled property depends on.
- **The legacy limiter's file queue**: only the permit it takes at the global gate.
- **Shadow jobs and HTTP counters of the FDC**: written, never read by a decision.
- **Agents, scoring, sizing, risk gates**: models' answers, floating-point or decimal
  arithmetic without shared state. What they decide is left open in `DecisionCycle`.
- **In-memory repositories, field parsing, the user interface.**
- **Composition** of `OrderLifecycle`, `Reconciliation` and `DecisionCycle` over the same rows:
  each abstracts the others' statuses, and no refinement between them is checked.
