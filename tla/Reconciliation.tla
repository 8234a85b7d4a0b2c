--------------------------- MODULE Reconciliation ---------------------------
(***************************************************************************)
(* One account's orders whose fate is unknown, the reconciliation runs     *)
(* opened for them and the blocking locks that keep new orders of the same *)
(* symbol and side away from the broker.                                   *)
(*                                                                         *)
(* The processes: the submission of an order (a symbol task of the         *)
(* decision loop, OrderManager.submit_order_to_broker in one database      *)
(* transaction), the reconciliation worker (one transaction per cycle),    *)
(* the post-submit sync, the operator and the repair scripts.  A           *)
(* transaction sees what is committed and its own writes; one whose SQL    *)
(* failed is "poisoned": its COMMIT silently rolls back.                   *)
(***************************************************************************)
EXTENDS Integers, FiniteSets

CONSTANTS
    Order,        \* the orders, each submitted once
    Scope,        \* (symbol, side) pairs: what a blocking lock covers
    ScopeOf,      \* the scope of each order
    SellScope,    \* the scopes whose side is sell
    MaxRun,       \* bound: reconciliation runs ever created
    Limit,        \* the runs the worker lists in one cycle (10)
    Scripts       \* the repair scripts of this instance

ASSUME ReconciliationAssumption ==
    /\ ScopeOf \in [Order -> Scope]
    /\ SellScope \subseteq Scope
    /\ MaxRun \in Nat
    /\ Limit \in Nat
    /\ Scripts \subseteq {"backfill", "retry", "cleanup"}

Run == 1 .. MaxRun      \* run identifiers, in the order of started_at
NoRun == 0

VARIABLES
    status,       \* the committed status of each order, "none" before that
    stamped,      \* the orders whose submitted_at is set
    filed,        \* the orders with a broker_orders row
    held,         \* the orders the broker has taken
    run,          \* the status of each run
    requires,     \* the runs whose trigger_type is requires_reconciliation
    lastRun,      \* the last run identifier handed out
    link,         \* reconciliation_order_links
    lock,         \* the run that owns the blocking lock of each scope
    live,         \* the scopes whose lock has not reached expires_at
    tx,           \* the submission transaction of each order
    todo,         \* the runs the worker's cycle has still to process
    marked,       \* the worker's uncommitted run statuses
    expiring,     \* the orders the worker's cycle sets to EXPIRED
    cycle,        \* whether the worker is inside a cycle
    retry         \* the retry script: its run, and the orders left to link

orderVars == <<status, stamped, filed, held>>
runVars == <<run, requires, lastRun, link>>
lockVars == <<lock, live>>
workerVars == <<todo, marked, expiring, cycle>>
vars == <<orderVars, runVars, lockVars, tx, workerVars, retry>>

Answer == {"none", "blocked", "accepted", "rejected", "uncertain", "unclear",
           "error", "raised"}
\* "submitted" stands for every status of an order working at the broker,
\* "expired" also for cancelled.
OrderStatus == {"none", "pending_submit", "submitted", "reconcile_required",
                "rejected", "filled", "expired"}

Phase == {"new", "clear", "answered", "triggered", "ready", "poisoned", "over"}

TxRecord == [at : Phase, answer : Answer, own : 0 .. MaxRun, joined : 0 .. MaxRun]

Tx(at, answer, own, joined) ==
    [at |-> at, answer |-> answer, own |-> own, joined |-> joined]

NewTx == Tx("new", "none", NoRun, NoRun)

Init ==
    /\ status = [o \in Order |-> "none"]
    /\ stamped = {} /\ filed = {} /\ held = {}
    /\ run = [r \in Run |-> "unused"]
    /\ requires = {} /\ lastRun = NoRun /\ link = {}
    /\ lock = [s \in Scope |-> NoRun] /\ live = {}
    /\ tx = [o \in Order |-> NewTx]
    /\ todo = {} /\ expiring = {} /\ cycle = "idle"
    /\ marked = [r \in Run |-> "none"]
    /\ retry = [run |-> NoRun, left |-> {}]

Started == {r \in Run : run[r] = "started"}

\* get_active_run: the most recent of the runs in S.
Newest(r, S) == r \in S /\ \A q \in S : q <= r

Links(r) == {o \in Order : <<r, o>> \in link}

\* is_blocked: a lock row of the scope that has not expired.
Blocked(s) == lock[s] # NoRun /\ s \in live

\* acquire_blocking_lock by run r: a missing or an expired lock is taken, a live
\* one is left to its owner.
AcquireLock(s, r) ==
    /\ lock' = [lock EXCEPT ![s] = IF Blocked(s) THEN @ ELSE r]
    /\ live' = live \cup {s}

\* Mutant of ReleaseLocks: the condition on locked_by_run_id is dropped.
ReleaseAccount(R) ==
    /\ lock' = [s \in Scope |-> IF R # {} THEN NoRun ELSE lock[s]]
    /\ live' = IF R # {} THEN {} ELSE live

\* release_blocking_lock with locked_by_run_id, for every run in R.
ReleaseLocks(R) ==
    /\ lock' = [s \in Scope |-> IF lock[s] \in R THEN NoRun ELSE lock[s]]
    /\ live' = {s \in live : lock[s] \notin R}
-----------------------------------------------------------------------------
(* The submission transaction of an order.                                  *)

\* The step the transaction of order o goes to, its other fields unchanged.
MoveTo(o, at) == [tx EXCEPT ![o] = Tx(at, @.answer, @.own, @.joined)]

\* Step 1: the blocking-lock check.  The decision loop runs one task per symbol,
\* so two orders of one scope are never in flight together.
Check(o) ==
    /\ tx[o].at = "new"
    /\ \A p \in Order \ {o} :
          ScopeOf[p] = ScopeOf[o] => tx[p].at \in {"new", "over"}
    /\ tx' = [tx EXCEPT ![o] = IF Blocked(ScopeOf[o])
                               THEN Tx("ready", "blocked", NoRun, NoRun)
                               ELSE Tx("clear", "none", NoRun, NoRun)]
    /\ UNCHANGED <<orderVars, runVars, lockVars, workerVars, retry>>

\* The answers that do not tell whether the broker has the order: an uncertain
\* result, requires_reconciliation, and a BrokerError of an ambiguous type.
Ambiguous == {"uncertain", "unclear", "error"}

\* Step 2: the broker call.  "rejected" stands for the explicit rejection and the
\* definite BrokerError, "raised" for any other exception.
Send(o) ==
    /\ tx[o].at = "clear"
    /\ \E a \in Answer \ {"none", "blocked"} :
          /\ tx' = [tx EXCEPT ![o] =
                      Tx(IF a \in Ambiguous THEN "answered" ELSE "ready",
                         a, NoRun, NoRun)]
          /\ \/ a # "rejected" /\ held' = held \cup {o}
             \/ a # "accepted" /\ UNCHANGED held
    /\ UNCHANGED <<status, stamped, filed, runVars, lockVars, workerVars, retry>>

\* reconciliation_service.trigger: the active run is reused, without a lock; else
\* a run is inserted.  The CHECK constraint on trigger_type has no
\* broker_submit_exception: that INSERT fails.
Trigger(o) ==
    /\ tx[o].at = "answered"
    /\ \/ /\ Started # {}
          /\ tx' = MoveTo(o, "triggered")
          /\ UNCHANGED lastRun
       \/ /\ Started = {} /\ tx[o].answer = "error"
          /\ tx' = MoveTo(o, "poisoned")
          /\ UNCHANGED lastRun
       \/ /\ Started = {} /\ tx[o].answer # "error"
          /\ lastRun < MaxRun
          /\ lastRun' = lastRun + 1
          /\ tx' = [tx EXCEPT ![o] =
                      Tx("triggered", tx[o].answer, lastRun + 1, NoRun)]
    /\ UNCHANGED <<orderVars, run, requires, link, lockVars, workerVars, retry>>

\* Mutant of Link: a failing trigger_and_link does not abort the transaction.
LinkOptional(o) ==
    /\ tx[o].at = "triggered"
    /\ LET seen == Started \cup ({tx[o].own} \ {NoRun})
       IN  \/ \E r \in seen :
                 /\ Newest(r, seen)
                 /\ tx' = [tx EXCEPT ![o] =
                             Tx("ready", tx[o].answer, tx[o].own, r)]
           \/ seen = {} /\ tx' = MoveTo(o, "ready")
    /\ UNCHANGED <<orderVars, runVars, lockVars, workerVars, retry>>

\* The transition to RECONCILE_REQUIRED and its trigger_and_link: the order is
\* linked to the newest started run in sight.  Without one, the lock row of the
\* new run has no symbol, which the column refuses.
Link(o) ==
    /\ tx[o].at = "triggered"
    /\ LET seen == Started \cup ({tx[o].own} \ {NoRun})
       IN  \/ \E r \in seen :
                 /\ Newest(r, seen)
                 /\ tx' = [tx EXCEPT ![o] =
                             Tx("ready", tx[o].answer, tx[o].own, r)]
           \/ /\ seen = {}
              /\ tx' = MoveTo(o, "poisoned")
    /\ UNCHANGED <<orderVars, runVars, lockVars, workerVars, retry>>

\* The status an answer ends in.
StatusAfter(answer) ==
    CASE answer = "accepted" -> "submitted"
      [] answer = "rejected" -> "rejected"
      [] answer = "raised"   -> "pending_submit"
      [] OTHER               -> "reconcile_required"

\* Mutant of Stamps: only an accepted order gets its submitted_at.
StampsAccepted(answer) == answer = "accepted"

\* mark_submitted_at: every transition that follows an answer of the broker.
Stamps(answer) == answer \notin {"blocked", "raised"}

\* COMMIT of a healthy transaction.
Commit(o) ==
    LET t == tx[o]
    IN  /\ t.at = "ready"
        /\ tx' = MoveTo(o, "over")
        /\ status' = [status EXCEPT ![o] = StatusAfter(t.answer)]
        /\ stamped' = IF Stamps(t.answer) THEN stamped \cup {o} ELSE stamped
        /\ filed' = IF t.answer = "accepted" THEN filed \cup {o} ELSE filed
        /\ link' = IF t.joined = NoRun THEN link ELSE link \cup {<<t.joined, o>>}
        /\ \/ /\ t.own = NoRun
              /\ UNCHANGED <<run, requires, lockVars>>
           \/ /\ t.own # NoRun
              /\ run' = [run EXCEPT ![t.own] = "started"]
              /\ requires' = IF t.answer = "unclear" THEN requires \cup {t.own}
                             ELSE requires
              /\ AcquireLock(ScopeOf[o], t.own)
        /\ UNCHANGED <<held, lastRun, workerVars, retry>>

\* COMMIT of a poisoned transaction: the server rolls it back and reports no
\* error.
Undo(o) ==
    /\ tx[o].at = "poisoned"
    /\ tx' = MoveTo(o, "over")
    /\ UNCHANGED <<orderVars, runVars, lockVars, workerVars, retry>>

\* The 150 s timeout, a crash or a shutdown; the request to the broker may have
\* been on its way.
Abandon(o) ==
    /\ tx[o].at \notin {"new", "poisoned", "over"}
    /\ tx' = MoveTo(o, "over")
    /\ \/ UNCHANGED held
       \/ tx[o].at = "clear" /\ held' = held \cup {o}
    /\ UNCHANGED <<status, stamped, filed, runVars, lockVars, workerVars, retry>>

-----------------------------------------------------------------------------
(* The reconciliation worker: one transaction per cycle.                    *)

\* The n oldest runs of S.
Oldest(S, n) == {r \in S : Cardinality({q \in S : q < r}) < n}

\* Mutant of Begin: the newest runs are listed instead of the oldest.
BeginNewest ==
    /\ cycle = "idle"
    /\ Started # {}
    /\ cycle' = "busy"
    /\ todo' = {r \in Started : Cardinality({q \in Started : q > r}) < Limit}
    /\ UNCHANGED <<orderVars, runVars, lockVars, tx, marked, expiring, retry>>

\* list_pending_runs, once per cycle.
Begin ==
    /\ cycle = "idle"
    /\ Started # {}
    /\ cycle' = "busy"
    /\ todo' = Oldest(Started, Limit)
    /\ UNCHANGED <<orderVars, runVars, lockVars, tx, marked, expiring, retry>>

\* The next run of the list, oldest first.
OldestTodo(r) == r \in todo /\ \A q \in todo : r <= q

\* process_run leaves the run as it is: it has no links, or no broker account or
\* adapter could be had.
Retain(r) ==
    /\ cycle = "busy" /\ OldestTodo(r)
    /\ todo' = todo \ {r}
    /\ UNCHANGED <<orderVars, runVars, lockVars, tx, marked, expiring, cycle, retry>>

\* Mutant of Inquire: a partly settled run becomes reflection_failed.
InquirePartly(r) ==
    /\ cycle = "busy" /\ OldestTodo(r)
    /\ Links(r) # {}
    /\ \E settled \in SUBSET (Links(r) \cap filed) :
          marked' = [marked EXCEPT ![r] = IF settled = Links(r) THEN "resolved"
                                          ELSE "reflection_failed"]
    /\ todo' = todo \ {r}
    /\ UNCHANGED <<orderVars, runVars, lockVars, tx, expiring, cycle, retry>>

\* process_run inquires about every linked order.  One without a broker_orders
\* row fails; one the broker still cannot place is set to EXPIRED, or fails.  The
\* run is resolved when all its orders are, and is failed otherwise.
Inquire(r) ==
    /\ cycle = "busy" /\ OldestTodo(r)
    /\ Links(r) # {}
    /\ \E settled \in SUBSET (Links(r) \cap filed) :
       \E given \in SUBSET settled :
          /\ expiring' = expiring \cup given
          /\ marked' = [marked EXCEPT ![r] = IF settled = Links(r) THEN "resolved"
                                             ELSE "failed"]
    /\ todo' = todo \ {r}
    /\ UNCHANGED <<orderVars, runVars, lockVars, tx, cycle, retry>>

Decided == {r \in Run : marked[r] # "none"}

\* Mutant of Conclude: a decided run keeps its blocking locks.
ConcludeKeeping ==
    /\ cycle = "busy" /\ todo = {}
    /\ run' = [r \in Run |-> IF r \in Decided THEN marked[r] ELSE run[r]]
    /\ status' = [o \in Order |-> IF o \in expiring THEN "expired" ELSE status[o]]
    /\ cycle' = "idle" /\ expiring' = {}
    /\ marked' = [r \in Run |-> "none"]
    /\ UNCHANGED <<stamped, filed, held, requires, lastRun, link, lockVars, tx, todo,
                   retry>>

\* The end of a cycle, by COMMIT: run statuses, lock releases and expiries.
Conclude ==
    /\ cycle = "busy" /\ todo = {}
    /\ run' = [r \in Run |-> IF r \in Decided THEN marked[r] ELSE run[r]]
    /\ status' = [o \in Order |-> IF o \in expiring THEN "expired" ELSE status[o]]
    /\ ReleaseLocks(Decided)
    /\ cycle' = "idle" /\ expiring' = {}
    /\ marked' = [r \in Run |-> "none"]
    /\ UNCHANGED <<stamped, filed, held, requires, lastRun, link, tx, todo, retry>>

\* The end of a cycle that failed or was killed: everything is rolled back.
Crash ==
    /\ cycle = "busy"
    /\ cycle' = "idle" /\ todo' = {} /\ expiring' = {}
    /\ marked' = [r \in Run |-> "none"]
    /\ UNCHANGED <<orderVars, runVars, lockVars, tx, retry>>

-----------------------------------------------------------------------------
(* The post-submit sync, the operator and the passage of time.  A row the    *)
(* worker's transaction has written is waited for.                           *)

SetStatus(o, s) ==
    /\ o \notin expiring
    /\ status' = [status EXCEPT ![o] = s]

\* The sync of an order with a broker_orders row: it reflects what the broker
\* says, or that the broker cannot tell, and touches neither run nor lock.
Sync(o) ==
    /\ o \in filed
    /\ status[o] \in {"submitted", "reconcile_required"}
    /\ \E s \in {"submitted", "reconcile_required", "filled", "rejected",
                "expired"} \ {status[o]} : SetStatus(o, s)
    /\ UNCHANGED <<stamped, filed, held, runVars, lockVars, tx, workerVars, retry>>

\* expire_eod_orphan_orders, for one order.
ExpireOrphan(o) ==
    /\ status[o] \in {"pending_submit", "reconcile_required"}
    /\ o \notin stamped /\ o \notin filed
    /\ SetStatus(o, "expired")
    /\ UNCHANGED <<stamped, filed, held, runVars, lockVars, tx, workerVars, retry>>

\* _reject_stale_pending_submit_orders, for one sell order.
RejectStale(o) ==
    /\ status[o] = "pending_submit"
    /\ ScopeOf[o] \in SellScope
    /\ o \notin filed
    /\ SetStatus(o, "rejected")
    /\ UNCHANGED <<stamped, filed, held, runVars, lockVars, tx, workerVars, retry>>

\* manual_resolve: the order, and the oldest started run linked to it.
ManualResolve(o) ==
    /\ status[o] = "reconcile_required"
    /\ \E s \in {"filled", "rejected", "expired"} : SetStatus(o, s)
    /\ LET linked == {r \in Started : <<r, o>> \in link}
       IN  \/ linked = {} /\ UNCHANGED <<run, lockVars>>
           \/ \E r \in linked :
                 /\ \A q \in linked : r <= q
                 /\ marked[r] = "none"
                 /\ run' = [run EXCEPT ![r] = "resolved"]
                 /\ ReleaseLocks({r})
    /\ UNCHANGED <<stamped, filed, held, requires, lastRun, link, tx, workerVars,
                   retry>>

\* A lock reaches expires_at, 30 minutes after it was taken.
ExpireLock(s) ==
    /\ Blocked(s)
    /\ live' = live \ {s}
    /\ UNCHANGED <<orderVars, runVars, lock, tx, workerVars, retry>>
-----------------------------------------------------------------------------
(* The repair scripts.                                                       *)

Unknown == {o \in Order : status[o] = "reconcile_required"}

\* A run for order o, with the lock of its scope and its link, in one step.
OpenRun(o) ==
    /\ lastRun < MaxRun
    /\ lastRun' = lastRun + 1
    /\ requires' = requires \cup {lastRun + 1}
    /\ link' = link \cup {<<lastRun + 1, o>>}
    /\ AcquireLock(ScopeOf[o], lastRun + 1)

\* backfill_reconcile_required_orders: the first order without an active run
\* opens one, and every later order then finds it and is skipped.
Backfill(o) ==
    /\ "backfill" \in Scripts
    /\ o \in Unknown
    /\ Started = {}
    /\ OpenRun(o)
    /\ run' = [run EXCEPT ![lastRun + 1] = "started"]
    /\ UNCHANGED <<orderVars, tx, workerVars, retry>>

\* The orders retry_failed_reconciliation takes: no requires_reconciliation run
\* was ever linked to them.
RetryTargets == {o \in Unknown : \A r \in requires : <<r, o>> \notin link}

\* retry_failed_reconciliation opens a run, whatever other run is active ...
RetryOpen ==
    /\ "retry" \in Scripts
    /\ retry.left = {} /\ RetryTargets # {}
    /\ lastRun < MaxRun
    /\ lastRun' = lastRun + 1
    /\ requires' = requires \cup {lastRun + 1}
    /\ run' = [run EXCEPT ![lastRun + 1] = "started"]
    /\ retry' = [run |-> lastRun + 1, left |-> RetryTargets]
    /\ UNCHANGED <<orderVars, link, lockVars, tx, workerVars>>

\* ... and then links its orders to it one by one, each statement on its own.
RetryLink(o) ==
    /\ o \in retry.left
    /\ link' = link \cup {<<retry.run, o>>}
    /\ retry' = [run |-> retry.run, left |-> retry.left \ {o}]
    /\ UNCHANGED <<orderVars, run, requires, lastRun, lockVars, tx, workerVars>>

\* cleanup_legacy_reconciliation_runs halts a run without links; while orders are
\* unknown and no newer run is active, one of them gets a run to replace it, or
\* joins the one that is then the active run.  A second link of the same order to
\* that run fails, and undoes it all.
Cleanup(r) ==
    /\ "cleanup" \in Scripts
    /\ r \in Started /\ Links(r) = {}
    /\ marked[r] = "none"
    /\ LET rest == Started \ {r}
       IN  \/ /\ Unknown = {}
              /\ run' = [run EXCEPT ![r] = "halted"]
              /\ UNCHANGED <<requires, lastRun, link, lockVars>>
           \/ /\ Newest(r, Started) /\ rest = {}
              /\ \E o \in Unknown : OpenRun(o)
              /\ run' = [run EXCEPT ![r] = "halted", ![lastRun + 1] = "started"]
           \/ /\ Newest(r, Started)
              /\ \E o \in Unknown, q \in rest :
                    /\ Newest(q, rest) /\ <<q, o>> \notin link
                    /\ link' = link \cup {<<q, o>>}
              /\ run' = [run EXCEPT ![r] = "halted"]
              /\ UNCHANGED <<requires, lastRun, lockVars>>
    /\ UNCHANGED <<orderVars, tx, workerVars, retry>>

-----------------------------------------------------------------------------
Submit(o) ==
    Check(o) \/ Send(o) \/ Trigger(o) \/ Link(o) \/ Commit(o) \/ Undo(o) \/ Abandon(o)
Repair(o) == Backfill(o) \/ RetryLink(o)
Maintain(o) == Sync(o) \/ ExpireOrphan(o) \/ RejectStale(o) \/ ManualResolve(o)
Work(r) == Retain(r) \/ Inquire(r)

Next ==
    \/ \E o \in Order : Submit(o) \/ Maintain(o) \/ Repair(o)
    \/ \E r \in Run : Work(r) \/ Cleanup(r)
    \/ \E s \in Scope : ExpireLock(s)
    \/ Begin \/ Conclude \/ Crash \/ RetryOpen

Spec == Init /\ [][Next]_vars

\* The worker's loop keeps running cycles and each cycle reaches its end ...
Fairness ==
    /\ WF_vars(Begin)
    /\ WF_vars(\E r \in Run : Work(r))
    /\ WF_vars(Conclude)

\* ... and from some time on the environment lets it: cycles are not killed, and
\* the broker account and adapter of the account can be had.
Recovered ==
    <>[][/\ Crash => todo = {} /\ Decided = {}
         /\ \A r \in Run : Retain(r) => Links(r) = {}]_vars

FairSpec == Spec /\ Fairness /\ Recovered

-----------------------------------------------------------------------------
(* Every variable keeps its type; the retry script links orders only to a    *)
(* run it has opened.                                                        *)
TypeOK ==
    /\ status \in [Order -> OrderStatus]
    /\ stamped \subseteq Order /\ filed \subseteq Order /\ held \subseteq Order
    /\ run \in [Run -> {"unused", "started", "resolved", "failed", "halted"}]
    /\ requires \subseteq Run
    /\ lastRun \in 0 .. MaxRun
    /\ link \subseteq Run \X Order
    /\ lock \in [Scope -> 0 .. MaxRun]
    /\ live \subseteq Scope
    /\ tx \in [Order -> TxRecord]
    /\ todo \subseteq Run
    /\ marked \in [Run -> {"none", "resolved", "failed"}]
    /\ expiring \subseteq Order
    /\ cycle \in {"idle", "busy"}
    /\ retry \in [run : 0 .. MaxRun, left : SUBSET Order]
    /\ retry.left # {} => retry.run # NoRun

(* The lock of a scope is owned by a run that is still open, or that was     *)
(* halted (halt_run keeps the lock): resolving or failing a run removes its  *)
(* locks in the same transaction, so no decided run blocks anyone.           *)
LockHasOpenRun ==
    \A s \in Scope : lock[s] # NoRun => run[lock[s]] \in {"started", "halted"}

(* A live lock changes hands or goes away only when its own run is resolved  *)
(* or failed: neither a newer run nor the end of another run takes it.       *)
LiveLockIsKept ==
    [][\A s \in Scope :
          Blocked(s) /\ lock'[s] # lock[s] => run'[lock[s]] \in {"resolved", "failed"}]_vars

(* An order that reached RECONCILE_REQUIRED by an ambiguous answer of the    *)
(* broker (submitted_at set, no broker_orders row) is linked to a run that   *)
(* exists: a transaction that could not link it rolled the order back too.   *)
AmbiguousIsLinked ==
    \A o \in Unknown \cap (stamped \ filed) :
        \E r \in Run : <<r, o>> \in link /\ run[r] # "unused"

(* What expire_eod_orphan_orders takes from RECONCILE_REQUIRED never reached *)
(* the broker: it was stopped by the blocking lock.                          *)
BlockedNeverSent == (Unknown \ (stamped \cup filed)) \cap held = {}

\* So many older open runs without a link that run r is not listed: process_run
\* retains them cycle after cycle.
CrowdedOut(r) ==
    Cardinality({q \in Started : q < r /\ Links(q) = {}}) >= Limit

(* The worker decides every open run an order is linked to, unless as many   *)
(* older runs without a link as list_pending_runs returns stay ahead of it:  *)
(* newer runs, and older ones with links, never keep it waiting for ever.    *)
LinkedRunIsDecided ==
    \A r \in Run :
        \/ <>[]CrowdedOut(r)
        \/ (run[r] = "started" /\ Links(r) # {}) ~> run[r] # "started"

(* The COMMIT of a submission that ended in an ambiguous BrokerError stores  *)
(* the order as RECONCILE_REQUIRED.                                          *)
AmbiguousErrorIsStored ==
    [][\A o \in Order :
          tx[o].answer = "error" /\ (Commit(o) \/ Undo(o)) =>
              status'[o] = "reconcile_required"]_vars
=============================================================================
