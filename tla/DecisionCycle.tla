--------------------------- MODULE DecisionCycle ---------------------------
(***************************************************************************)
(* One trading day of the scheduler and the decision process it starts.    *)
(*                                                                         *)
(* scripts/run_ops_scheduler.py starts a decision process per cycle and    *)
(* hands it what is left of the day's BUY budget.  The process             *)
(* (scripts/run_decision_loop.py) works on all its symbols at once: a      *)
(* held position is analysed and its sell submitted in one transaction     *)
(* per symbol (pass 1, or the dispatch phase for an answer that had to     *)
(* wait); the other symbols are only analysed, and those worth an order    *)
(* are submitted afterwards one by one (pass 2) while the budget lasts.    *)
(* The guards of services/execution_service.py and services/sell_guard.py  *)
(* read what other transactions have committed.                            *)
(*                                                                         *)
(* Abstracted: what the agents decide, prices and the guards that only     *)
(* look at the order itself (any of them may stop it).                     *)
(***************************************************************************)
EXTENDS Naturals, FiniteSets

CONSTANTS
    Core,            \* universe items of the general lane
    Held,            \* held positions to look at: universe items, resumed jobs
    Universes,       \* the sets of items a day may be about
    Symbol,          \* instruments
    SymbolOf,        \* the instrument of an item; a job resumed from an earlier
                     \* process may be about the one of a universe item
    Position,        \* shares held per symbol when the day starts
    Order,           \* bound: the orders of the day
    MaxGeneralBuy,   \* max_general_buy_submit_per_day
    MaxDisturbances  \* bound: timeouts, kills, unknown results

Item == Core \cup Held

ASSUME ItemAssumption ==
    /\ Core \cap Held = {}
    /\ Universes \subseteq SUBSET Item
    /\ SymbolOf \in [Item -> Symbol]
    /\ Position \in [Symbol -> Nat]
ASSUME BoundAssumption ==
    /\ IsFiniteSet(Order)
    /\ MaxGeneralBuy \in Nat
    /\ MaxDisturbances \in Nat

VARIABLES
    universe,   \* the items of the day
    submits,    \* SchedulerState.submit_count, lost by a restart
    phase,      \* what the decision process is doing; "idle": none runs
    budget,     \* max_general_submits_this_cycle
    consumed,   \* submit_budget_consumed_count
    soldNow,    \* held_position_sell_cycle_symbols
    report,     \* what the results so far tell the scheduler, see Told
    task,       \* per item, the step its coroutine is at
    mine,       \* per item, the order its open transaction has created
    of,         \* per order, item, side and quantity
    draft,      \* per order, its status inside the open transaction
    row,        \* per order, its committed status; "none": no row
    locks,      \* orders whose reconciliation holds a blocking lock
    old,        \* orders past the cooldowns
    broker,     \* per order, what the broker has: "none", "open", "filled", "ended"
    filled,     \* per order, shares filled at the broker
    seen,       \* per order, shares of the committed fill events
    snapped,    \* per order, shares filled when the position was last read
    holding,    \* per symbol, the shares in the account
    snap,       \* per symbol, the quantity of the latest position snapshot
    fate,       \* history: why the row of an order may not tell what the broker
                \* has: rolled back, or for a BUY its result in doubt or denied
    blind,      \* history: orders whose guard was bypassed or missed something
    disturbed

cycle == <<phase, budget, consumed, soldNow, report, task, mine>>
account == <<broker, filled, holding>>
records == <<row, seen, locks>>
vars == <<universe, submits, cycle, of, draft, records, old, account, snapped, snap,
          fate, blind, disturbed>>

----------------------------------------------------------------------------
(* Statuses.                                                               *)

\* _BUDGET_CONSUMING_STATUSES of the scheduler
BudgetConsuming == {"submitted", "acknowledged", "partially_filled", "filled"}

\* Mutant of BuyActive: a filled order no longer blocks the next one.
BuyActiveOpen == {"validated", "pending_submit", "submitted", "acknowledged",
                  "partially_filled", "reconcile_required"}

\* active_statuses of _has_recent_active_buy_order
BuyActive == {"validated", "pending_submit", "submitted", "acknowledged",
              "partially_filled", "filled", "reconcile_required"}

\* open_statuses of _get_open_sell_qty
SellOpen == {"pending_submit", "submitted", "acknowledged", "reconcile_required"}

\* "closed": rejected, cancelled or expired, which no guard tells apart
Row == {"none", "validated", "pending_submit", "submitted", "partially_filled",
        "filled", "closed", "reconcile_required"}

Blank == [item |-> "none", side |-> "none", qty |-> 0]

Of(o, side, s) == of[o].side = side /\ SymbolOf[of[o].item] = s

\* The orders of one side and symbol.
Orders(side, s) == {o \in Order : of[o].side # "none" /\ Of(o, side, s)}

Unused == {o \in Order : of[o].side = "none"}

\* History: from now on the row of a BUY order the broker has is unreliable.
Fated(o, reason) ==
    IF of[o].side = "buy" /\ broker[o] # "none" THEN [fate EXCEPT ![o] = reason] ELSE fate

Disturb == disturbed < MaxDisturbances /\ disturbed' = disturbed + 1

Init ==
    /\ universe \in Universes
    /\ submits = 0
    /\ phase = "idle"
    /\ budget = 0
    /\ consumed = 0
    /\ soldNow = {}
    /\ report = "nothing"
    /\ task = [i \in Item |-> "none"]
    /\ mine = [i \in Item |-> {}]
    /\ of = [o \in Order |-> Blank]
    /\ draft = [o \in Order |-> "none"]
    /\ row = [o \in Order |-> "none"]
    /\ locks = {}
    /\ old = {}
    /\ broker = [o \in Order |-> "none"]
    /\ filled = [o \in Order |-> 0]
    /\ seen = [o \in Order |-> 0]
    /\ snapped = [o \in Order |-> 0]
    /\ holding = Position
    /\ snap = Position
    /\ fate = [o \in Order |-> "fine"]
    /\ blind = {}
    /\ disturbed = 0

----------------------------------------------------------------------------
(* The scheduler.                                                          *)

\* _get_db_submit_count: the BUY orders of the day in a consuming status; when
\* the query fails it answers the whole budget.
DbSubmitCounts ==
    {Cardinality({o \in Order : of[o].side = "buy" /\ row[o] \in BudgetConsuming}),
     MaxGeneralBuy}

\* Mutant of Effective: the count kept in memory alone.
EffectiveInMemory(db) == submits

\* effective_submit_count
Effective(db) == IF submits > db THEN submits ELSE db

\* The decision task is due: the budget is computed and the process started.
\* A held position may already have a job queued by an earlier process.
StartCycle ==
    /\ phase = "idle"
    /\ \E db \in DbSubmitCounts :
           budget' = IF Effective(db) < MaxGeneralBuy
                     THEN MaxGeneralBuy - Effective(db) ELSE 0
    /\ \E resumed \in SUBSET (Held \cap universe) :
           task' = [i \in Item |-> IF i \notin universe THEN "done"
                                  ELSE IF i \in Core THEN "analysing"
                                  ELSE IF i \in resumed THEN "parked" ELSE "waiting"]
    /\ phase' = "pass1"
    /\ UNCHANGED <<universe, submits, consumed, soldNow, report, mine, of,
                   draft, records, old, account, snapped, snap, fate, blind,
                   disturbed>>

\* The memory of the decision process is gone.
NoProcess ==
    /\ phase' = "idle"
    /\ budget' = 0
    /\ consumed' = 0
    /\ soldNow' = {}
    /\ report' = "nothing"
    /\ task' = [i \in Item |-> "none"]
    /\ mine' = [i \in Item |-> {}]

\* The process has printed its results and exited.  Its exit code is 0 when no
\* result is a failure; one SUBMITTED result adds one to the count, unless a
\* result of the cycle is a held-position sell.
EndCycle ==
    /\ phase = "pass2"
    /\ \A i \in Item : task[i] = "done"
    /\ NoProcess
    /\ submits' = IF report = "buy" THEN submits + 1 ELSE submits
    /\ UNCHANGED <<universe, of, draft, records, old, account, snapped, snap,
                   fate, blind, disturbed>>

\* Transactions are rolled back, whatever they had sent: an order the broker
\* does not have is gone without a trace, another keeps the reason.
RolledBack(orders, reason) ==
    LET gone == {o \in orders : broker[o] = "none"}
    IN  /\ of' = [o \in Order |-> IF o \in gone THEN Blank ELSE of[o]]
        /\ blind' = blind \ gone
        /\ draft' = [o \in Order |-> IF o \in orders THEN "none" ELSE draft[o]]
        /\ fate' = [o \in Order |-> IF o \in orders \ gone THEN reason[o] ELSE fate[o]]

\* The process stops before its end.
Stopped(reason) ==
    /\ NoProcess
    /\ RolledBack(UNION {mine[i] : i \in Item}, reason)
    /\ UNCHANGED <<records, old, account, snapped, snap>>

\* _run_command: the process exceeded the scheduler's timeout and is killed.
Kill ==
    /\ phase # "idle"
    /\ Disturb
    /\ Stopped([o \in Order |-> "lost"])
    /\ UNCHANGED <<universe, submits>>

\* The scheduler's container is restarted; the decision process goes with it.
Restart ==
    /\ Disturb
    /\ Stopped([o \in Order |-> "lost"])
    /\ submits' = 0
    /\ UNCHANGED universe

----------------------------------------------------------------------------
(* A symbol's coroutine: analysis, guards, submission, commit.             *)

Step(i, from, to) == task[i] = from /\ task' = [task EXCEPT ![i] = to]

\* The coroutine of an item is over.
Done(i) ==
    /\ task' = [task EXCEPT ![i] = "done"]
    /\ mine' = [mine EXCEPT ![i] = {}]

Running == {"analysing", "deciding", "guarded", "sent"}

\* The result of an item, as the scheduler sees it: any status but SUBMITTED
\* and SKIPPED makes the exit code 1, and a printed held-position sell takes
\* the cycle for a sell; either way the cycle does not count as a "buy".
\* Results of the dispatch phase are not printed.
Told(i, status) ==
    report' = IF \/ status \notin {"submitted", "skipped"}
                 \/ phase # "dispatch" /\ i \in Held
              THEN "other"
              ELSE IF report = "nothing" /\ phase # "dispatch" /\ status = "submitted"
              THEN "buy" ELSE report

\* A held position gets the semaphore.  evaluate_symbol_submit_lane makes one
\* whose symbol was already sold in this cycle a dry run.
Enter(i) ==
    /\ phase = "pass1"
    /\ Step(i, "waiting", IF SymbolOf[i] \in soldNow THEN "done" ELSE "deciding")
    /\ UNCHANGED <<universe, submits, phase, budget, consumed, soldNow,
                   report, mine, of, draft, records, old, account, snapped,
                   snap, fate, blind, disturbed>>

\* The pre-AI gate, a HOLD, or a guard that looks at the order alone stops it.
NoOrder(i) ==
    /\ task[i] \in {"analysing", "deciding"}
    /\ Done(i)
    /\ UNCHANGED <<universe, submits, phase, budget, consumed, soldNow,
                   report, of, draft, records, old, account, snapped, snap,
                   fate, blind, disturbed>>

\* An item of the general lane is worth an order: it waits for pass 2.
Analysed(i) ==
    /\ i \in Core
    /\ Step(i, "analysing", "candidate")
    /\ UNCHANGED <<universe, submits, phase, budget, consumed, soldNow,
                   report, mine, of, draft, records, old, account, snapped,
                   snap, fate, blind, disturbed>>

\* The last answer for a held position has to wait for the dispatch phase: the
\* result of pass 1 is FDC_ACTUAL_DISPATCH_PENDING.
Parks(i) ==
    /\ phase = "pass1"
    /\ Step(i, "deciding", "parked")
    /\ Told(i, "pending")
    /\ UNCHANGED <<universe, submits, phase, budget, consumed, soldNow, mine,
                   of, draft, records, old, account, snapped, snap, fate,
                   blind, disturbed>>

\* gather() has returned: every coroutine of pass 1 is over.
DispatchPhase ==
    /\ phase = "pass1"
    /\ \A i \in Item : task[i] \in {"done", "parked", "candidate"}
    /\ phase' = "dispatch"
    /\ UNCHANGED <<universe, submits, budget, consumed, soldNow, report, task,
                   mine, of, draft, records, old, account, snapped, snap,
                   fate, blind, disturbed>>

\* The answer of a parked job has come: the second pass decides again, on the
\* snapshot of now and without the lane check, next to the other jobs.
SecondPass(i) ==
    /\ phase = "dispatch"
    /\ Step(i, "parked", "deciding")
    /\ UNCHANGED <<universe, submits, phase, budget, consumed, soldNow,
                   report, mine, of, draft, records, old, account, snapped,
                   snap, fate, blind, disturbed>>

\* The dispatch phase is over (a job that did not get its answer stays queued
\* for another process) and pass 1.5 keeps one candidate per symbol.
Pass2 ==
    /\ phase = "dispatch"
    /\ \A i \in Item : task[i] \in {"done", "parked", "candidate"}
    /\ phase' = "pass2"
    /\ \E best \in SUBSET {i \in Core : task[i] = "candidate"} :
           /\ \A i \in Core : task[i] = "candidate" =>
                  \E b \in best : /\ SymbolOf[b] = SymbolOf[i]
                                  /\ \A c \in best \ {b} : SymbolOf[c] # SymbolOf[b]
           /\ task' = [i \in Item |-> IF i \in best THEN "candidate" ELSE "done"]
    /\ UNCHANGED <<universe, submits, budget, consumed, soldNow, report, mine,
                   of, draft, records, old, account, snapped, snap, fate,
                   blind, disturbed>>

\* remaining > 0 in _run_general_lane_pass2
InBudget == consumed < budget

\* Pass 2 takes its next candidate, or drops it when the budget is used up.
NextCandidate(i) ==
    /\ phase = "pass2"
    /\ \A j \in Item : task[j] \notin Running
    /\ task[i] = "candidate"
    /\ IF InBudget THEN Step(i, "candidate", "deciding") /\ UNCHANGED mine
       ELSE Done(i)
    /\ UNCHANGED <<universe, submits, phase, budget, consumed, soldNow,
                   report, of, draft, records, old, account, snapped, snap,
                   fate, blind, disturbed>>

----------------------------------------------------------------------------
(* The guards that read other orders.                                      *)

\* Orders of a sell guard: PENDING_SUBMIT rows older than 30 minutes that have
\* no broker order are taken for orphans.
OpenSells(s) ==
    {o \in Orders("sell", s) :
        row[o] \in SellOpen /\ ~(row[o] = "pending_submit" /\ o \in old)}
PartialSells(s) == {o \in Orders("sell", s) : row[o] = "partially_filled"}

\* The shares of some orders, one by one: of each order those beyond from[o].  A
\* sum of quantities is their number.
Shares(orders, from) == UNION {{o} \X ((from[o] + 1) .. of[o].qty) : o \in orders}

\* Mutant of Available: what is left of a partly filled order is forgotten.
AvailableButPartial(s) ==
    LET taken == Cardinality(Shares(OpenSells(s), [o \in Order |-> 0]))
    IN  IF snap[s] > taken THEN snap[s] - taken ELSE 0

\* available_sell_qty of AvailableSellQtyResolver.resolve, 0 when negative
Available(s) ==
    LET taken == Cardinality(Shares(OpenSells(s), [o \in Order |-> 0]))
                 + Cardinality(Shares(PartialSells(s), seen))
    IN  IF snap[s] > taken THEN snap[s] - taken ELSE 0

\* History: the guard's input misses something, because another transaction
\* for the symbol is past its guard and not committed, because an order the
\* broker works on is not among the rows counted, or because the snapshot is
\* older than a fill that the rows no longer count as open.
Misses(i) ==
    LET s == SymbolOf[i]
        counted == OpenSells(s) \cup PartialSells(s)
    IN  \/ \E j \in Item \ {i} : /\ task[j] \in {"guarded", "sent"}
                                 /\ \E o \in mine[j] : Of(o, "sell", s)
        \/ \E o \in Orders("sell", s) :
               \/ broker[o] = "open" /\ o \notin counted
               \/ snapped[o] < IF o \in counted THEN seen[o] ELSE filled[o]

\* is_blocked: an order of the same symbol and side holds a lock.
Locked(side, s) == \E o \in locks : Of(o, side, s)

LockedFor(o) == Locked(of[o].side, SymbolOf[of[o].item])

\* _has_recent_active_buy_order
RecentBuy(s) == \E o \in Orders("buy", s) : o \notin old /\ row[o] \in BuyActive

\* What the sizing may ask for: one share to buy, or shares to sell; a held
\* position is only ever sold.
Wanted(i) ==
    {[item |-> i, side |-> "sell", qty |-> n] : n \in 1 .. Position[SymbolOf[i]]}
        \cup (IF i \in Core THEN {[item |-> i, side |-> "buy", qty |-> 1]} ELSE {})

\* Phase 1.5+ for a sell; for a buy phase 2.5, which leaves a locked symbol to
\* the lock check of the submission.
Passes(w) ==
    LET s == SymbolOf[w.item]
    IN  IF w.side = "sell" THEN Available(s) >= w.qty
        ELSE Locked("buy", s) \/ ~RecentBuy(s)

\* History: the guard passes without the check it stands for.
Blind(w) ==
    IF w.side = "sell" THEN Misses(w.item) ELSE Locked("buy", SymbolOf[w.item])

\* create_order: the row exists inside the transaction only.
Create(i, o, w) ==
    /\ of' = [of EXCEPT ![o] = w]
    /\ mine' = [mine EXCEPT ![i] = {o}]
    /\ draft' = [draft EXCEPT ![o] = "pending_submit"]

\* The guards let the order through and it is created.
GuardPasses(i) ==
    /\ Step(i, "deciding", "guarded")
    /\ \E w \in Wanted(i), o \in Unused :
           /\ Passes(w)
           /\ Create(i, o, w)
           /\ blind' = IF Blind(w) THEN blind \cup {o} ELSE blind
    /\ UNCHANGED <<universe, submits, phase, budget, consumed, soldNow,
                   report, records, old, account, snapped, snap, fate,
                   disturbed>>

\* A guard blocks the order: the result is SKIPPED.
GuardBlocks(i) ==
    /\ task[i] = "deciding"
    /\ \E w \in Wanted(i) : ~Passes(w)
    /\ Done(i)
    /\ Told(i, "skipped")
    /\ UNCHANGED <<universe, submits, phase, budget, consumed, soldNow, of,
                   draft, records, old, account, snapped, snap, fate, blind,
                   disturbed>>

\* The sell guard raises: the order is let through unchecked.
GuardRaises(i) ==
    /\ Step(i, "deciding", "guarded")
    /\ Disturb
    /\ \E w \in Wanted(i), o \in Unused :
           /\ w.side = "sell"
           /\ Create(i, o, w)
           /\ blind' = blind \cup {o}
    /\ UNCHANGED <<universe, submits, phase, budget, consumed, soldNow,
                   report, records, old, account, snapped, snap, fate>>

----------------------------------------------------------------------------
(* The submission and the end of the transaction.                          *)

Settles(i, o, status, at) ==
    /\ Step(i, "guarded", "sent")
    /\ draft' = [draft EXCEPT ![o] = status]
    /\ broker' = [broker EXCEPT ![o] = at]
    /\ UNCHANGED <<universe, submits, phase, budget, consumed, soldNow,
                   report, mine, of, records, old, filled, holding, snapped,
                   snap, fate, blind>>

\* Phase 4c: the snapshot is stale.  The order stays VALIDATED; a held position
\* is sold all the same.
StaleSnapshot(i) ==
    /\ i \in Core
    /\ \E o \in mine[i] : Settles(i, o, "validated", "none")
    /\ UNCHANGED disturbed

\* submit_order_to_broker finds the lock of its symbol and side taken.
Blocked(i) ==
    /\ \E o \in mine[i] : LockedFor(o) /\ Settles(i, o, "reconcile_required", "none")
    /\ UNCHANGED disturbed

\* The broker accepts or refuses the order.
Answered(i) ==
    /\ \A o \in mine[i] : ~LockedFor(o)
    /\ \E o \in mine[i] : \/ Settles(i, o, "submitted", "open")
                          \/ Settles(i, o, "closed", "none")
    /\ UNCHANGED disturbed

\* The answer does not come or cannot be told: the broker may have the order.
\* When the submission itself raises, the row stays PENDING_SUBMIT; when the
\* POST timed out and its repetition is refused, the row says REJECTED.
Unknown(i) ==
    /\ \A o \in mine[i] : ~LockedFor(o)
    /\ Disturb
    /\ \E o \in mine[i], status \in {"ambiguous", "pending_submit", "closed"},
          at \in {"open", "none"} : Settles(i, o, status, at)

\* The pipeline has returned: the transaction commits, the result is counted.
Commit(i) ==
    /\ task[i] = "sent"
    /\ Done(i)
    /\ \E o \in mine[i] :
           LET status == IF draft[o] = "ambiguous" THEN "reconcile_required"
                         ELSE draft[o]
               sent == status \in {"submitted", "reconcile_required"}
           IN  /\ row' = [row EXCEPT ![o] = status]
               /\ locks' = IF draft[o] = "ambiguous" THEN locks \cup {o} ELSE locks
               /\ draft' = [draft EXCEPT ![o] = "none"]
               /\ fate' = IF draft[o] \in {"ambiguous", "pending_submit"}
                          THEN Fated(o, "unknown")
                          ELSE IF draft[o] = "closed" THEN Fated(o, "denied")
                          ELSE fate
               /\ consumed' = IF sent /\ phase = "pass2" THEN consumed + 1
                              ELSE consumed
               /\ soldNow' = IF sent /\ phase = "pass1"
                             THEN soldNow \cup {SymbolOf[i]} ELSE soldNow
               /\ Told(i, IF status = "validated" THEN "skipped" ELSE status)
    /\ UNCHANGED <<universe, submits, phase, budget, of, seen, old, account,
                   snapped, snap, blind, disturbed>>

\* An exception, or in pass 2 the hard timeout, ends one item: its transaction
\* is rolled back and the result is an ERROR.
Fails(i) ==
    /\ task[i] \in Running
    /\ Disturb
    /\ Done(i)
    /\ RolledBack(mine[i], [o \in Order |-> "lost"])
    /\ Told(i, "error")
    /\ UNCHANGED <<universe, submits, phase, budget, consumed, soldNow,
                   records, old, account, snapped, snap>>

\* PER_AGENT_HARD_TIMEOUT in _run_one_cycle: every other task of the event loop
\* is cancelled, the main one included, so the process ends.
HardTimeout(i) ==
    /\ phase \in {"pass1", "dispatch"}
    /\ task[i] \in Running
    /\ Disturb
    /\ Stopped([o \in Order |-> IF o \in mine[i] THEN "lost" ELSE "sibling"])
    /\ UNCHANGED <<universe, submits>>

----------------------------------------------------------------------------
(* The broker and the jobs that read it.                                   *)

\* The broker fills one share of an order; a sell needs the share.
Fill(o) ==
    LET s == SymbolOf[of[o].item]
    IN  /\ broker[o] = "open"
        /\ of[o].side = "sell" => holding[s] > 0
        /\ filled' = [filled EXCEPT ![o] = @ + 1]
        /\ holding' = [holding EXCEPT ![s] = IF of[o].side = "sell" THEN @ - 1 ELSE @ + 1]
        /\ broker' = [broker EXCEPT ![o] =
               IF filled[o] + 1 = of[o].qty THEN "filled" ELSE @]
        /\ UNCHANGED <<universe, submits, cycle, of, draft, records, old,
                       snapped, snap, fate, blind, disturbed>>

\* The broker cancels or expires what is left of an order.
EndUnfilled(o) ==
    /\ broker[o] = "open"
    /\ broker' = [broker EXCEPT ![o] = "ended"]
    /\ UNCHANGED <<universe, submits, cycle, of, draft, records, old, filled,
                   holding, snapped, snap, fate, blind, disturbed>>

\* Mutant of Sync: the cumulative fill is added to the fills already stored.
SyncCumulative(o) ==
    /\ row[o] \in {"submitted", "partially_filled"}
    /\ filled[o] > 0
    /\ row' = [row EXCEPT ![o] = IF broker[o] = "filled" THEN "filled" ELSE "partially_filled"]
    /\ seen' = [seen EXCEPT ![o] = @ + filled[o]]
    /\ UNCHANGED <<universe, submits, cycle, of, draft, locks, old, account,
                   snapped, snap, fate, blind, disturbed>>

\* The order sync, or the reconciliation of an unknown order, brings the row
\* and its fills to what the broker says (OrderLifecycle has the steps); a row
\* no broker order belongs to waits for an operator.
Sync(o) ==
    /\ row[o] \in {"submitted", "partially_filled", "reconcile_required"}
    /\ row' = [row EXCEPT ![o] =
           CASE broker[o] = "filled" -> "filled"
             [] broker[o] \in {"ended", "none"} -> "closed"
             [] OTHER -> IF filled[o] > 0 THEN "partially_filled" ELSE "submitted"]
    /\ seen' = [seen EXCEPT ![o] = filled[o]]
    /\ locks' = locks \ {o}
    /\ UNCHANGED <<universe, submits, cycle, of, draft, old, account, snapped,
                   snap, fate, blind, disturbed>>

\* The order sync asks for an order it does not find, or has no inquiry budget
\* left: the row becomes RECONCILE_REQUIRED, without a lock.  The fills may
\* still be read.
Doubt(o) ==
    /\ row[o] \in {"submitted", "partially_filled"}
    /\ row' = [row EXCEPT ![o] = "reconcile_required"]
    /\ \E shares \in {seen[o], filled[o]} : seen' = [seen EXCEPT ![o] = shares]
    /\ fate' = Fated(o, "unknown")
    /\ UNCHANGED <<universe, submits, cycle, of, draft, locks, old, account,
                   snapped, snap, blind, disturbed>>

\* The row of an order that the broker may have is given up: the reconciliation
\* worker expires one it gets no status for (at once from 15:00 on, which is
\* before the market closes), the order sync rejects an orphan sell.
GiveUp(o) ==
    /\ \/ row[o] = "reconcile_required"
       \/ row[o] = "pending_submit" /\ of[o].side = "sell" /\ o \in old
    /\ row' = [row EXCEPT ![o] = "closed"]
    /\ locks' = locks \ {o}
    /\ fate' = Fated(o, "denied")
    /\ UNCHANGED <<universe, submits, cycle, of, draft, seen, old, account,
                   snapped, snap, blind, disturbed>>

\* The lock of an order goes before the order is resolved: it expires, or the
\* worker fails the run (Reconciliation has the steps).
Unlock(o) ==
    /\ o \in locks
    /\ locks' = locks \ {o}
    /\ UNCHANGED <<universe, submits, cycle, of, draft, row, seen, old,
                   account, snapped, snap, fate, blind, disturbed>>

\* The snapshot sync stores the position of a symbol.
ReadPosition(s) ==
    /\ \E i \in universe : SymbolOf[i] = s
    /\ snap' = [snap EXCEPT ![s] = holding[s]]
    /\ snapped' = [o \in Order |-> IF Of(o, "buy", s) \/ Of(o, "sell", s)
                                   THEN filled[o] ELSE snapped[o]]
    /\ UNCHANGED <<universe, submits, cycle, of, draft, records, old, account,
                   fate, blind, disturbed>>

\* Time passes: a BUY the guard looks at leaves the cooldown, a PENDING_SUBMIT
\* sell becomes an orphan.
Age(o) ==
    /\ o \notin old
    /\ row[o] \in IF of[o].side = "buy" THEN BuyActive ELSE {"pending_submit"}
    /\ old' = old \cup {o}
    /\ UNCHANGED <<universe, submits, cycle, of, draft, records, account,
                   snapped, snap, fate, blind, disturbed>>

Scheduler == StartCycle \/ EndCycle \/ Kill \/ Restart

Process ==
    \/ DispatchPhase \/ Pass2
    \/ \E i \in Item :
           \/ Enter(i) \/ NoOrder(i) \/ Analysed(i) \/ Parks(i) \/ SecondPass(i)
           \/ NextCandidate(i) \/ GuardPasses(i) \/ GuardBlocks(i)
           \/ GuardRaises(i) \/ StaleSnapshot(i) \/ Blocked(i) \/ Answered(i)
           \/ Unknown(i) \/ Commit(i) \/ Fails(i) \/ HardTimeout(i)

Outside ==
    \/ \E o \in Order : \/ Fill(o) \/ EndUnfilled(o) \/ Sync(o) \/ Doubt(o)
                        \/ GiveUp(o) \/ Unlock(o) \/ Age(o)
    \/ \E s \in Symbol : ReadPosition(s)

Next == Scheduler \/ Process \/ Outside

Spec == Init /\ [][Next]_vars

----------------------------------------------------------------------------
(* Properties.                                                             *)

\* The state is well formed: a coroutine between its guard and its commit owns
\* exactly one order, which no other coroutine owns and which has no row yet.
TypeOK ==
    /\ phase \in {"idle", "pass1", "dispatch", "pass2"}
    /\ task \in [Item -> {"none", "waiting", "parked", "candidate", "done"} \cup Running]
    /\ row \in [Order -> Row]
    /\ \A o \in Order : filled[o] <= of[o].qty /\ seen[o] <= filled[o]
    /\ \A i \in Item :
           /\ Cardinality(mine[i]) = IF task[i] \in {"guarded", "sent"} THEN 1 ELSE 0
           /\ \A o \in mine[i] : row[o] = "none" /\ of[o].item = i

\* The day's BUY budget.  The scheduler counts committed rows before it starts
\* a process, pass 2 counts its own results: however cycles, kills and restarts
\* follow each other, the broker never works on or fills more BUY orders than
\* max_general_buy_submit_per_day, among those whose row always told what the
\* broker has.  An order whose result was unknown, that the sync once could not
\* find, whose row was given up or whose transaction was rolled back is in no
\* status of _BUDGET_CONSUMING_STATUSES for a while and does not use the budget up.
BudgetHolds ==
    Cardinality({o \in Order : /\ of[o].side = "buy"
                               /\ broker[o] \in {"open", "filled"}
                               /\ fate[o] = "fine"}) <= MaxGeneralBuy

\* The sell guard.  When no sell of a symbol was let through on incomplete
\* input (Misses), what the broker still has to sell is in the account: rows
\* and snapshot are read at different times, and fills arrive in between.
SellsAreCovered ==
    \A s \in Symbol :
        LET open == {o \in Orders("sell", s) : broker[o] = "open"}
        IN  open # {} /\ Orders("sell", s) \cap blind = {} =>
                Cardinality(Shares(open, filled)) <= holding[s]

\* The duplicate BUY guard.  Within the cooldown the broker never has two BUY
\* orders of one symbol, open or filled, unless one of them has no row or one
\* that denies it (rolled back, refused when repeated, given up), or a lock made
\* the guard pass.  An unknown result, or an order the sync cannot find, does
\* not open the gate as long as its row stays RECONCILE_REQUIRED.
OneRecentBuy ==
    \A s \in Symbol :
        Cardinality({o \in Orders("buy", s) \ (old \cup blind) :
            /\ broker[o] \in {"open", "filled"}
            /\ fate[o] \in {"fine", "unknown"}}) <= 1

\* A timeout of one symbol only costs that symbol ("so remaining symbols
\* continue processing"): no other symbol loses an order the broker has.
TimeoutSkipsOneSymbol == \A o \in Order : broker[o] = "open" => fate[o] # "sibling"
============================================================================
