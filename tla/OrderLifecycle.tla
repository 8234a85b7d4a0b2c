--------------------------- MODULE OrderLifecycle ---------------------------
(***************************************************************************)
(* The rows of trading.order_requests and the processes that move them     *)
(* through OrderManager: the post-submit sync, the reconciliation worker,  *)
(* the operator's API call.  Every process runs one PostgreSQL transaction *)
(* (READ COMMITTED): it reads committed rows and its own writes, an UPDATE *)
(* takes the row lock until the end of the transaction, and the status is  *)
(* written by compare-and-set on the version column                        *)
(* (repositories/postgres/orders.py, update_status).                       *)
(*                                                                         *)
(* Writers selects the operations of an instance:                          *)
(*   "sync"      order_sync_service: _try_transition and the clean-ups;    *)
(*   "reflect"   transition_to_authoritative (resolve_and_mark);           *)
(*   "operator"  manual_resolve of the admin API;                          *)
(*   "fallback"  the worker's own write of EXPIRED;                        *)
(*   "annotate"  the sync's write of a new reason for the same status.     *)
(***************************************************************************)
EXTENDS OrderStates, Integers

CONSTANTS
    Order,        \* the order rows
    Process,      \* concurrent transactions
    NoOne,        \* the holder of a free row lock
    Writers,      \* the operations of this instance
    Initial,      \* the statuses the rows of this instance start from
    MaxVersion    \* bound: no row is written beyond this version

\* What a decision cycle can leave committed: its own transitions happen in the
\* transaction that inserts the row, so nobody else sees the steps between.
\* Versions count from that commit.
Created == {"draft", "validated", "pending_submit", "submitted",
            "reconcile_required", "rejected"}

ASSUME LifecycleAssumption ==
    /\ NoOne \notin Process
    /\ Writers \subseteq {"sync", "reflect", "operator", "fallback", "annotate"}
    /\ Initial \subseteq Created
    /\ MaxVersion \in Nat

VARIABLES
    row,          \* the committed rows
    lock,         \* the process that holds the row lock, or NoOne
    draft,        \* the row as the holder of its lock has written it; the
                  \* committed row when nobody holds the lock
    pc,           \* what each process is doing
    ent,          \* the OrderRequestEntity a process holds in memory
    call,         \* the arguments of the _transition_to_core in progress
    rest,         \* the steps of the transition chain still to do
    event         \* the last order_state_event of each order: the
                  \* previous_status it names, and the status the UPDATE replaced

vars == <<row, lock, draft, pc, ent, call, rest, event>>

Version == 0 .. MaxVersion
MaxTries == 3                          \* max_retries of _transition_to_core
Unset == "unset"
Row == [status : Status, version : Version]
Entity == [order : Order \cup {NoOne}, status : Status \cup {Unset}, version : Version]

\* A call of _transition_to_core: the target, the version it expects, the tries
\* left, the status _try_transition is after, and who called.
Call == [target : Status \cup {Unset}, version : Version, tries : 1 .. MaxTries,
         goal : Status \cup {Unset}, by : {"direct", "chain", "other"}]

CoreCall(target, version, tries, goal, by) ==
    [target |-> target, version |-> version, tries |-> tries, goal |-> goal,
     by |-> by]

NoEntity == [order |-> NoOne, status |-> Unset, version |-> 0]
NoCall == CoreCall(Unset, 0, MaxTries, Unset, "other")

NoEvent == [from |-> Unset, over |-> Unset]
Event == [from : Status \cup {Unset}, over : Status \cup {Unset}]

\* The row as process p sees it.
Visible(p, o) == IF lock[o] = p THEN draft[o] ELSE row[o]

Init ==
    /\ row \in [Order -> [status : Initial, version : {0}]]
    /\ draft = row
    /\ lock = [o \in Order |-> NoOne]
    /\ pc = [p \in Process |-> "idle"]
    /\ ent = [p \in Process |-> NoEntity]
    /\ call = [p \in Process |-> NoCall]
    /\ rest = [p \in Process |-> <<>>]
    /\ event = [o \in Order |-> NoEvent]

-----------------------------------------------------------------------------
\* orders.get / orders.list: take a copy of the row as p sees it.
Load(p, o) ==
    /\ pc[p] \in {"idle", "open", "holding"}
    /\ pc' = [pc EXCEPT ![p] = "holding"]
    /\ ent' = [ent EXCEPT ![p] = [order |-> o, status |-> Visible(p, o).status,
                                  version |-> Visible(p, o).version]]
    /\ call' = [call EXCEPT ![p] = NoCall]
    /\ UNCHANGED <<row, lock, draft, rest, event>>

\* Enter _transition_to_core with the copy in hand.
BeginCore(p, target, goal, by) ==
    /\ pc' = [pc EXCEPT ![p] = "update"]
    /\ call' = [call EXCEPT ![p] =
                    CoreCall(target, ent[p].version, MaxTries, goal, by)]

\* _try_transition is called with what the broker reports, with EXPIRED after
\* hours, and to recover an order that was expired too early.
SyncTargets(s) ==
    IF s = "expired" THEN {"filled", "partially_filled", "reconcile_required"}
    ELSE IF s \in Syncable THEN BrokerTruth \cup {"expired"}
    ELSE {}

\* _try_transition: the direct transition if the table allows it, else a chain.
TryTransition(p, t) ==
    /\ "sync" \in Writers
    /\ pc[p] = "holding"
    /\ t \in SyncTargets(ent[p].status) \ {ent[p].status}
    /\ IF t \in Allowed[ent[p].status]
       THEN BeginCore(p, t, t, "direct") /\ UNCHANGED rest
       ELSE /\ pc' = [pc EXCEPT ![p] = "chain"]
            /\ call' = [call EXCEPT ![p] = CoreCall(Unset, 0, MaxTries, t, "chain")]
            /\ rest' = [rest EXCEPT ![p] = Chain(ent[p].status, t)]
    /\ UNCHANGED <<row, lock, draft, ent, event>>

\* The chain loop: skip a step already reached, call transition_to for the next
\* one, stop at the first step the table refuses.
ChainStep(p) ==
    /\ pc[p] = "chain"
    /\ \/ /\ rest[p] # <<>>
          /\ Head(rest[p]) = ent[p].status
          /\ rest' = [rest EXCEPT ![p] = Tail(@)]
          /\ UNCHANGED <<pc, call>>
       \/ /\ rest[p] # <<>>
          /\ Head(rest[p]) \in Allowed[ent[p].status]
          /\ BeginCore(p, Head(rest[p]), call[p].goal, "chain")
          /\ rest' = [rest EXCEPT ![p] = Tail(@)]
       \/ /\ \/ rest[p] = <<>>
             \/ /\ rest[p] # <<>>
                /\ Head(rest[p]) \notin Allowed[ent[p].status] \cup {ent[p].status}
          /\ pc' = [pc EXCEPT ![p] = "holding"]
          /\ rest' = [rest EXCEPT ![p] = <<>>]
          /\ UNCHANGED call
    /\ UNCHANGED <<row, lock, draft, ent, event>>

\* The sync cycle's clean-ups call transition_to directly:
\* expire_eod_orphan_orders and _reject_stale_pending_submit_orders.
CleanUp(p, t) ==
    /\ "sync" \in Writers
    /\ pc[p] = "holding"
    /\ \/ ent[p].status = "pending_submit" /\ t \in {"expired", "rejected"}
       \/ ent[p].status = "reconcile_required" /\ t = "expired"
    /\ t \in Allowed[ent[p].status]
    /\ BeginCore(p, t, Unset, "other")
    /\ UNCHANGED <<row, lock, draft, ent, rest, event>>

\* OrderManager.transition_to_authoritative: any non-terminal copy, to a status
\* the broker's truth may name; the table is not consulted.
Reflect(p, t) ==
    /\ "reflect" \in Writers
    /\ pc[p] = "holding"
    /\ t \in ReflectionTargets
    /\ ent[p].status \notin Terminal
    /\ BeginCore(p, t, Unset, "other")
    /\ UNCHANGED <<row, lock, draft, ent, rest, event>>

\* OrderManager.manual_resolve: only a RECONCILE_REQUIRED copy.
ManualResolve(p, t) ==
    /\ "operator" \in Writers
    /\ pc[p] = "holding"
    /\ t \in ManualTargets
    /\ ent[p].status = "reconcile_required"
    /\ BeginCore(p, t, Unset, "other")
    /\ UNCHANGED <<row, lock, draft, ent, rest, event>>

-----------------------------------------------------------------------------
\* UPDATE ... WHERE version = v can write now: the row lock is free or p's own.
Writable(p, o) == lock[o] \in {NoOne, p}

\* The write itself; p keeps the row lock until its transaction ends.
Write(p, o, status, version) ==
    /\ draft' = [draft EXCEPT ![o] = [status |-> status, version |-> version]]
    /\ lock' = [lock EXCEPT ![o] = p]
    /\ UNCHANGED row

\* Mutant of Apply: the UPDATE has no version in its WHERE clause.
ApplyBlindly(p) ==
    LET o == ent[p].order
        c == call[p]
    IN  /\ pc[p] = "update"
        /\ Writable(p, o)
        /\ c.version < MaxVersion
        /\ Write(p, o, c.target, c.version + 1)
        /\ ent' = [ent EXCEPT ![p].status = c.target]
        /\ pc' = [pc EXCEPT ![p] = "holding"]
        /\ UNCHANGED <<call, rest, event>>

\* _transition_to_core: the compare-and-set matches.  The entity returned keeps
\* the version it was built with (_replace_status), and the state event records
\* the status of the entity the caller passed in.
Apply(p) ==
    LET o == ent[p].order
        c == call[p]
    IN  /\ pc[p] = "update"
        /\ Writable(p, o)
        /\ Visible(p, o).version = c.version
        /\ c.version < MaxVersion
        /\ Write(p, o, c.target, c.version + 1)
        /\ event' = [event EXCEPT ![o] = [from |-> ent[p].status,
                                          over |-> Visible(p, o).status]]
        /\ ent' = [ent EXCEPT ![p] = [order |-> o, status |-> c.target,
                                      version |-> c.version]]
        /\ pc' = [pc EXCEPT ![p] = IF c.by = "chain" THEN "chain" ELSE "holding"]
        /\ UNCHANGED <<call, rest>>

\* transition_to raises: _try_transition goes on with the chain after a failed
\* direct attempt, and stops after a failed step.
Fail(p) ==
    IF call[p].by = "direct"
    THEN /\ pc' = [pc EXCEPT ![p] = "chain"]
         /\ rest' = [rest EXCEPT ![p] = Chain(ent[p].status, call[p].goal)]
    ELSE /\ pc' = [pc EXCEPT ![p] = "holding"]
         /\ rest' = [rest EXCEPT ![p] = <<>>]

\* Mutant of Conflict: the retry loop has no limit.
ConflictForever(p) ==
    LET latest == Visible(p, ent[p].order)
    IN  /\ pc[p] = "update"
        /\ latest.version # call[p].version
        /\ latest.status \notin Terminal
        /\ call' = [call EXCEPT ![p].version = latest.version, ![p].tries = @ - 1]
        /\ UNCHANGED <<row, lock, draft, pc, ent, rest, event>>

\* _transition_to_core: the compare-and-set misses.  The latest row is fetched;
\* a terminal one, or the third miss, raises; otherwise the same target is tried
\* against the latest version.
Conflict(p) ==
    LET latest == Visible(p, ent[p].order)
    IN  /\ pc[p] = "update"
        /\ latest.version # call[p].version
        /\ \/ /\ latest.status \in Terminal \/ call[p].tries = 1
              /\ Fail(p)
              /\ UNCHANGED call
           \/ /\ latest.status \notin Terminal
              /\ call[p].tries > 1
              /\ call' = [call EXCEPT ![p] =
                              CoreCall(@.target, latest.version, @.tries - 1,
                                       @.goal, @.by)]
              /\ UNCHANGED <<pc, rest>>
        /\ UNCHANGED <<row, lock, draft, ent, event>>

-----------------------------------------------------------------------------
\* ReconciliationWorker._try_expired_fallback, which runs without an
\* OrderManager: compare-and-set of EXPIRED over the copy just read, whatever
\* its status; a version conflict is swallowed.
Fallback(p) ==
    LET o == ent[p].order
    IN  /\ "fallback" \in Writers
        /\ pc[p] = "holding"
        /\ \/ /\ Visible(p, o).version = ent[p].version
              /\ Writable(p, o)
              /\ ent[p].version < MaxVersion
              /\ Write(p, o, "expired", ent[p].version + 1)
           \/ /\ Visible(p, o).version # ent[p].version
              /\ UNCHANGED <<row, lock, draft>>
        /\ pc' = [pc EXCEPT ![p] = "open"]
        /\ ent' = [ent EXCEPT ![p] = NoEntity]
        /\ UNCHANGED <<call, rest, event>>

\* sync_order_post_submit stores a new reason for an unchanged status with
\* update_status and no expected_version.
Annotate(p) ==
    LET o == ent[p].order
    IN  /\ "annotate" \in Writers
        /\ pc[p] = "holding"
        /\ ent[p].status \in Syncable
        /\ Writable(p, o)
        /\ Write(p, o, ent[p].status, Visible(p, o).version)
        /\ UNCHANGED <<pc, ent, call, rest, event>>

-----------------------------------------------------------------------------
\* The transaction of p is over: its rows are unlocked and its copies gone.
End(p) ==
    /\ lock' = [o \in Order |-> IF lock[o] = p THEN NoOne ELSE lock[o]]
    /\ pc' = [pc EXCEPT ![p] = "idle"]
    /\ ent' = [ent EXCEPT ![p] = NoEntity]
    /\ call' = [call EXCEPT ![p] = NoCall]
    /\ rest' = [rest EXCEPT ![p] = <<>>]

Commit(p) ==
    /\ pc[p] \in {"open", "holding"}
    /\ row' = [o \in Order |-> Visible(p, o)]
    /\ UNCHANGED <<draft, event>>
    /\ End(p)

\* An exception, a timeout or a crash anywhere in the transaction.
Rollback(p) ==
    /\ pc[p] # "idle"
    /\ draft' = [o \in Order |-> IF lock[o] = p THEN row[o] ELSE draft[o]]
    /\ event' = [o \in Order |-> IF lock[o] = p THEN NoEvent ELSE event[o]]
    /\ UNCHANGED row
    /\ End(p)

Next ==
    \E p \in Process :
        \/ \E o \in Order : Load(p, o)
        \/ \E t \in Status : \/ TryTransition(p, t)
                             \/ CleanUp(p, t)
                             \/ Reflect(p, t)
                             \/ ManualResolve(p, t)
        \/ ChainStep(p)
        \/ Apply(p)
        \/ Conflict(p)
        \/ Fallback(p)
        \/ Annotate(p)
        \/ Commit(p)
        \/ Rollback(p)

Spec == Init /\ [][Next]_vars

-----------------------------------------------------------------------------
(* Every variable keeps its type: a retry of _transition_to_core stays       *)
(* within max_retries.                                                       *)
TypeOK ==
    /\ row \in [Order -> Row]
    /\ draft \in [Order -> Row]
    /\ lock \in [Order -> Process \cup {NoOne}]
    /\ pc \in [Process -> {"idle", "open", "holding", "chain", "update"}]
    /\ ent \in [Process -> Entity]
    /\ call \in [Process -> Call]
    /\ rest \in [Process -> Seq(Status)]
    /\ event \in [Order -> Event]

\* The instances in which every status is written through OrderManager.
ManagerOnly == Writers \cap {"fallback", "annotate"} = {}

(* A FILLED, CANCELLED or REJECTED order keeps its status whatever the other *)
(* transactions had read before it got there: the retry of                   *)
(* _transition_to_core gives up on a terminal row, and a copy that predates  *)
(* the terminal status never passes the compare-and-set.                     *)
FinalIsFinal ==
    [][\A o \in Order : row[o].status \in Final =>
                            row'[o].status = row[o].status]_vars

(* An EXPIRED order is only ever written to FILLED, PARTIALLY_FILLED or      *)
(* RECONCILE_REQUIRED: the late recovery of sync_order_post_submit is the    *)
(* one way out, although the retry loop does not consult the table again.    *)
ExpiredReopens ==
    [][\A o \in Order :
           /\ draft[o].status = "expired"
           /\ draft'[o] # draft[o]
           /\ lock'[o] # NoOne
           => draft'[o].status \in Allowed["expired"]]_vars

(* Whoever writes, and with or without compare-and-set, the version of a row *)
(* never goes back, so a copy that is stale once can never match again.      *)
VersionsGrow ==
    [][\A o \in Order : row'[o].version >= row[o].version]_vars
=============================================================================
