------------------------ MODULE DecisionCycleProofs ------------------------
(***************************************************************************)
(* What TLAPS proves of DecisionCycle, for every universe, every budget    *)
(* and every number of orders and disturbances: the day's BUY budget       *)
(* holds, the duplicate guard keeps the recent BUY orders of an instrument *)
(* apart, state and counts keep their types, and the sells whose guard saw *)
(* everything are covered by the position.                                 *)
(***************************************************************************)
EXTENDS DecisionStateProofs

-----------------------------------------------------------------------------
(***************************************************************************)
(* The budget.                                                             *)
(***************************************************************************)

\* They and what the process may still send stay within the day's budget.
Reserved ==
    /\ consumed <= budget
    /\ phase = "idle" => Cardinality(Settled) <= MaxGeneralBuy
    /\ phase # "idle" => Cardinality(Settled) + budget <= MaxGeneralBuy + consumed

BudgetInv == StateInv /\ Reserved

\* A step that settles nothing more and spends nothing keeps what is reserved.
LEMMA NothingSpent ==
    ASSUME StateInv, Reserved, Settled' \subseteq Settled,
           UNCHANGED <<budget, consumed>>, phase = "idle" <=> phase' = "idle"
    PROVE  Reserved'
<1>1. /\ Cardinality(Settled) \in Nat /\ Cardinality(Settled') \in Nat
      /\ Cardinality(Settled') <= Cardinality(Settled)
  <2>1. Settled \in SUBSET Order
    BY Zenon DEF Settled
  <2> QED
    BY <2>1, OrdersFinite, Zenon
<1>2. budget \in Nat /\ consumed \in Nat
  BY Zenon DEF StateInv, Shape
<1> QED
  BY <1>1, <1>2, BoundAssumption DEF Reserved

\* The process is gone: what it had not spent is not spent.
LEMMA ProcessGone ==
    ASSUME StateInv, Reserved, Settled' \subseteq Settled, NoProcess
    PROVE  Reserved'
<1>1. /\ Cardinality(Settled) \in Nat /\ Cardinality(Settled') \in Nat
      /\ Cardinality(Settled') <= Cardinality(Settled)
  <2>1. Settled \in SUBSET Order
    BY Zenon DEF Settled
  <2> QED
    BY <2>1, OrdersFinite, Zenon
<1>2. budget \in Nat /\ consumed \in Nat
  BY Zenon DEF StateInv, Shape
<1>3. phase' = "idle" /\ budget' = 0 /\ consumed' = 0
  BY Zenon DEF NoProcess
<1> QED
  BY <1>1, <1>2, <1>3, BoundAssumption DEF Reserved

\* A process gets what is left: every settled order is among the rows counted.
LEMMA StartReserves ==
    ASSUME StateInv, Reserved, StartCycle
    PROVE  Reserved'
<1> DEFINE counted == {o \in Order : of[o].side = "buy" /\ row[o] \in BudgetConsuming}
<1>1. Settled \subseteq counted
  BY Zenon DEF StateInv, Recorded, Settled
<1>2. /\ Cardinality(Settled) \in Nat /\ Cardinality(counted) \in Nat
      /\ Cardinality(Settled) <= Cardinality(counted)
  <2>1. counted \in SUBSET Order
    OBVIOUS
  <2> HIDE DEF counted
  <2> QED
    BY <1>1, <2>1, OrdersFinite, Zenon
<1>3. PICK db \in {Cardinality(counted), MaxGeneralBuy} :
          budget' = IF Effective(db) < MaxGeneralBuy
                    THEN MaxGeneralBuy - Effective(db) ELSE 0
  BY Zenon DEF StartCycle, DbSubmitCounts
<1>4. db \in Nat /\ Effective(db) \in Nat /\ db <= Effective(db)
  <2>1. submits \in Nat
    BY Zenon DEF StateInv, Shape
  <2> HIDE DEF counted
  <2> QED
    BY <1>2, <2>1, BoundAssumption DEF Effective
<1>5. Cardinality(Settled) <= MaxGeneralBuy
  BY Zenon DEF Reserved, StartCycle
<1>6. budget' \in Nat /\ Cardinality(Settled) + budget' <= MaxGeneralBuy
  <2> HIDE DEF counted
  <2> QED
    BY <1>2, <1>3, <1>4, <1>5, BoundAssumption
<1>7. phase' = "pass1" /\ consumed' = 0 /\ Settled' = Settled
  BY Zenon DEF StartCycle, StateInv, Phases, Settled, account
<1> QED
  BY <1>2, <1>6, <1>7, BoundAssumption DEF Reserved

\* A commit in pass 2 spends one when it settles a BUY.
LEMMA CommitSpends ==
    ASSUME StateInv, Reserved, NEW i \in Item, Commit(i)
    PROVE  Reserved'
<1>1. Shape /\ Owned /\ Phases
  BY Zenon DEF StateInv
<1>2. PICK o \in mine[i] :
          /\ row' = [row EXCEPT ![o] = IF draft[o] = "ambiguous" THEN "reconcile_required"
                                       ELSE draft[o]]
          /\ fate' = IF draft[o] \in {"ambiguous", "pending_submit"}
                     THEN Fated(o, "unknown")
                     ELSE IF draft[o] = "closed" THEN Fated(o, "denied")
                     ELSE fate
          /\ consumed' = IF /\ (IF draft[o] = "ambiguous" THEN "reconcile_required"
                                ELSE draft[o]) \in {"submitted", "reconcile_required"}
                            /\ phase = "pass2"
                         THEN consumed + 1 ELSE consumed
  BY Zenon DEF Commit
<1>3. /\ task[i] = "sent"
      /\ mine' = [mine EXCEPT ![i] = {}]
      /\ UNCHANGED <<phase, budget, of, broker>>
  BY Zenon DEF Commit, Done, account
<1>4. /\ o \in Order /\ \A p \in mine[i] : p = o
      /\ of[o].side = "buy" => phase = "pass2"
      /\ broker[o] # "none" => draft[o] \in {"submitted", "ambiguous", "pending_submit", "closed"}
  BY <1>1 DEF Owned, Shape
<1>5. Settled \in SUBSET Order /\ Settled' \in SUBSET Order
  BY Zenon DEF Settled
<1>6. Settled' \subseteq Settled \cup {o}
  <2>1. \A p \in Order \ {o} :
            /\ fate'[p] = fate[p]
            /\ \A j \in Item : p \in mine[j] => p \in mine'[j]
    BY <1>1, <1>2, <1>3, <1>4, Zenon DEF Shape, Fated
  <2> QED
    BY <1>3, <2>1, Zenon DEF Settled
<1>7. consumed \in Nat /\ budget \in Nat /\ consumed' \in {consumed, consumed + 1}
  BY <1>1, <1>2, Zenon DEF Shape
<1>8. phase # "idle" /\ (phase = "pass2" => consumed < budget)
  BY <1>1, <1>3, Zenon DEF Phases, Running
<1>9. consumed' = consumed + 1 => phase = "pass2"
  <2>1. phase # "pass2" => consumed' = consumed
    BY <1>2, Zenon
  <2>2. consumed # consumed + 1
    BY <1>7
  <2> QED
    BY <2>1, <2>2, Zenon
<1>10. CASE o \in Settled'
  <2>1. phase = "pass2" /\ draft[o] = "submitted"
    BY <1>1, <1>2, <1>3, <1>4, <1>10, Zenon DEF Settled, Shape, Fated
  <2>2. consumed' = consumed + 1
    BY <1>2, <2>1, Zenon
  <2>3. /\ Cardinality(Settled) \in Nat /\ Cardinality(Settled') \in Nat
        /\ Cardinality(Settled') <= Cardinality(Settled) + 1
    BY <1>4, <1>5, <1>6, OneMoreOrder, Zenon
  <2> QED
    BY <1>3, <1>7, <1>8, <2>1, <2>2, <2>3, BoundAssumption DEF Reserved
<1>11. CASE o \notin Settled'
  <2>1. Settled' \subseteq Settled
    BY <1>6, <1>11, Zenon
  <2>2. /\ Cardinality(Settled) \in Nat /\ Cardinality(Settled') \in Nat
        /\ Cardinality(Settled') <= Cardinality(Settled)
    BY <1>5, <2>1, OrdersFinite, Zenon
  <2> QED
    BY <1>3, <1>7, <1>8, <1>9, <2>2, BoundAssumption DEF Reserved
<1> QED
  BY <1>10, <1>11, Zenon

LEMMA BudgetInit == Init => BudgetInv
<1> SUFFICES ASSUME Init PROVE BudgetInv
  OBVIOUS
<1>1. StateInv
  BY StateInit, Zenon
<1>2. Settled = {}
  BY Zenon DEF Init, Settled
<1>3. Cardinality({}) = 0
  BY FS_EmptySet, Zenon
<1>4. phase = "idle" /\ consumed = 0 /\ budget = 0
  BY Zenon DEF Init
<1> QED
  BY <1>1, <1>2, <1>3, <1>4, BoundAssumption DEF BudgetInv, Reserved

LEMMA BudgetStep == BudgetInv /\ [Next]_vars => BudgetInv'
<1> SUFFICES ASSUME BudgetInv, [Next]_vars PROVE BudgetInv'
  OBVIOUS
<1>0. StateInv /\ Reserved
  BY Zenon DEF BudgetInv
<1> USE DEF BudgetInv
<1>1. CASE UNCHANGED vars
  <2>1. UNCHANGED <<submits, budget, consumed, phase, task, mine, of, draft, row, broker, fate>>
    BY <1>1, Zenon DEF vars, cycle, account, records
  <2>2. Shape' /\ Owned'
    BY <1>0, <2>1 DEF StateInv, Shape, Owned
  <2>3. Phases' /\ Recorded' /\ Reserved'
    BY <1>0, <2>1 DEF StateInv, Phases, Recorded, Reserved, Settled
  <2> QED
    BY <2>2, <2>3, Zenon DEF StateInv
<1>2. CASE StartCycle
  BY <1>0, <1>2, SchedulerKeepsState, StartReserves, Zenon
<1>3. CASE EndCycle
  BY <1>0, <1>3, SchedulerKeepsState, ProcessGone, Zenon DEF EndCycle
<1>4. ASSUME NEW reason \in [Order -> {"lost", "sibling"}], Stopped(reason), submits' \in Nat
      PROVE  BudgetInv'
  BY <1>0, <1>4, StoppedKeepsState, ProcessGone, Zenon DEF Stopped
<1>5. CASE Kill \/ Restart
  <2>1. submits' \in Nat
    BY <1>0, <1>5 DEF Kill, Restart, StateInv, Shape
  <2>2. [o \in Order |-> "lost"] \in [Order -> {"lost", "sibling"}]
    OBVIOUS
  <2> QED
    BY <1>4, <1>5, <2>1, <2>2, Zenon DEF Kill, Restart
<1>6. CASE DispatchPhase \/ Pass2
  <2>1. /\ StateInv' /\ Settled' \subseteq Settled
        /\ phase # "idle" /\ phase' # "idle" /\ UNCHANGED <<budget, consumed>>
    BY <1>0, <1>6, PhaseKeepsState, Zenon
  <2> QED
    BY <1>0, <2>1, NothingSpent, Zenon
<1>7. ASSUME NEW i \in Item, HardTimeout(i)
      PROVE  BudgetInv'
  <2>1. submits' \in Nat
    BY <1>0, <1>7, Zenon DEF HardTimeout, StateInv, Shape
  <2>2. [o \in Order |-> IF o \in mine[i] THEN "lost" ELSE "sibling"]
            \in [Order -> {"lost", "sibling"}]
    OBVIOUS
  <2> QED
    BY <1>4, <1>7, <2>1, <2>2, Zenon DEF HardTimeout
<1>8. ASSUME NEW i \in Item, Commit(i)
      PROVE  BudgetInv'
  BY <1>0, <1>8, CommitKeepsState, CommitSpends, Zenon
<1>9. ASSUME NEW i \in Item,
             \/ Enter(i) \/ NoOrder(i) \/ Analysed(i) \/ Parks(i) \/ SecondPass(i)
             \/ NextCandidate(i) \/ GuardPasses(i) \/ GuardBlocks(i)
             \/ GuardRaises(i) \/ StaleSnapshot(i) \/ Blocked(i) \/ Answered(i)
             \/ Unknown(i) \/ Fails(i)
      PROVE  BudgetInv'
  <2>1. StateInv' /\ Settled' \subseteq Settled /\ UNCHANGED <<phase, budget, consumed>>
    BY <1>0, <1>9, CoroutineKeepsState, Zenon
  <2> QED
    BY <1>0, <2>1, NothingSpent, Zenon
<1>10. CASE Outside
  <2>1. StateInv' /\ Settled' \subseteq Settled
    BY <1>0, <1>10, OutsideKeepsState, Zenon
  <2>2. UNCHANGED <<phase, budget, consumed>>
    BY <1>10, Zenon DEF Outside, Fill, EndUnfilled, Sync, Doubt, GiveUp, Unlock, Age,
       ReadPosition, cycle
  <2> QED
    BY <1>0, <2>1, <2>2, NothingSpent, Zenon
<1> QED
  BY <1>1, <1>2, <1>3, <1>5, <1>6, <1>7, <1>8, <1>9, <1>10, Zenon DEF Next, Scheduler, Process

\* The invariant bounds every BUY at the broker: those settled, and the one
\* that pass 2 may have in an open transaction.
LEMMA BudgetInvSuffices == BudgetInv => BudgetHolds
<1> SUFFICES ASSUME BudgetInv PROVE BudgetHolds
  OBVIOUS
<1> DEFINE fine == {o \in Order : /\ of[o].side = "buy"
                                  /\ broker[o] \in {"open", "filled"}
                                  /\ fate[o] = "fine"}
<1>1. Shape /\ Owned /\ Phases /\ Reserved
  BY Zenon DEF BudgetInv, StateInv
<1>2. fine \in SUBSET Order /\ Settled \in SUBSET Order
  BY Zenon DEF Settled
<1>3. budget \in Nat /\ consumed \in Nat
  BY <1>1, Zenon DEF Shape
<1>4. CASE \E i \in Item : \E o \in mine[i] : of[o].side = "buy"
  <2>0. PICK i \in Item : \E o \in mine[i] : of[o].side = "buy"
    BY <1>4, Zenon
  <2>1. PICK o \in mine[i] : of[o].side = "buy"
    BY <2>0, Zenon
  <2>2. phase = "pass2" /\ task[i] \in Running /\ o \in Order
    BY <1>1, <2>1 DEF Owned, Running, Shape
  <2>3. consumed < budget /\ \A j \in Item : task[j] \in Running => j = i
    BY <1>1, <2>2, Zenon DEF Phases
  <2>4. \A j \in Item : \A p \in mine[j] : p = o
    BY <1>1, <2>3 DEF Owned, Running
  <2>5. fine \subseteq Settled \cup {o}
    BY <2>4, Zenon DEF Settled
  <2>6. /\ Cardinality(Settled) \in Nat /\ Cardinality(fine) \in Nat
        /\ Cardinality(fine) <= Cardinality(Settled) + 1
    <3> HIDE DEF fine
    <3> QED
      BY <1>2, <2>2, <2>5, OneMoreOrder, Zenon
  <2>7. Cardinality(fine) <= MaxGeneralBuy
    <3> HIDE DEF fine
    <3> QED
      BY <1>1, <1>3, <2>2, <2>3, <2>6, BoundAssumption DEF Reserved
  <2> QED
    BY <2>7, Zenon DEF BudgetHolds
<1>5. CASE ~ \E i \in Item : \E o \in mine[i] : of[o].side = "buy"
  <2>1. fine \subseteq Settled
    BY <1>5, Zenon DEF Settled
  <2>2. /\ Cardinality(Settled) \in Nat /\ Cardinality(fine) \in Nat
        /\ Cardinality(fine) <= Cardinality(Settled)
    <3> HIDE DEF fine
    <3> QED
      BY <1>2, <2>1, OrdersFinite, Zenon
  <2>3. Cardinality(fine) <= MaxGeneralBuy
    <3> HIDE DEF fine
    <3> QED
      BY <1>1, <1>3, <2>2, BoundAssumption DEF Reserved
  <2> QED
    BY <2>3, Zenon DEF BudgetHolds
<1> QED
  BY <1>4, <1>5, Zenon

\* However processes start, stop, time out and are killed, and however the
\* scheduler restarts, the broker never has more BUY orders whose row always told
\* so than max_general_buy_submit_per_day (run_ops_scheduler.py counts the rows
\* of the day before it starts a process, run_decision_loop.py the results of
\* pass 2).  An order that was once RECONCILE_REQUIRED is not among them.
THEOREM BudgetIsKept == Spec => []BudgetHolds
<1>1. Init => BudgetInv
  BY BudgetInit, Zenon
<1>2. BudgetInv /\ [Next]_vars => BudgetInv'
  BY BudgetStep, Zenon
<1>3. BudgetInv => BudgetHolds
  BY BudgetInvSuffices, Zenon
<1> QED
  BY <1>1, <1>2, <1>3, PTL DEF Spec

-----------------------------------------------------------------------------
(***************************************************************************)
(* The duplicate BUY guard.                                                *)
(***************************************************************************)

\* The broker has the order and its row is kept, or its transaction is open.
Live(o) ==
    \/ broker[o] \in {"open", "filled"} /\ fate[o] \in {"fine", "unknown"}
    \/ \E i \in Item : o \in mine[i]

Young(o, s) == o \in Orders("buy", s) \ (old \cup blind)

Exclusive ==
    \A s \in Symbol : \A o, p \in Order :
        Young(o, s) /\ Young(p, s) /\ Live(o) /\ Live(p) => o = p

\* The duplicate guard sees every BUY that the broker has and whose row does not
\* deny it, an unknown result included, once its transaction is over.
Stored ==
    \A o \in Order :
        (/\ of[o].side = "buy"
         /\ broker[o] \in {"open", "filled"} /\ fate[o] \in {"fine", "unknown"}
         /\ \A i \in Item : o \notin mine[i]) => row[o] \in BuyActive

RecentInv == StateInv /\ Stored /\ Exclusive

\* A step that brings no BUY to life, and none back to youth, keeps them apart.
LEMMA NoNewBuy ==
    ASSUME Exclusive, old \subseteq old',
           \A o \in Order : of'[o].side = "buy" =>
               /\ of'[o] = of[o]
               /\ o \in blind => o \in blind'
               /\ Live(o)' => Live(o)
    PROVE  Exclusive'
<1> SUFFICES ASSUME NEW s \in Symbol, NEW o \in Order, Young(o, s)'
             PROVE  Young(o, s) /\ (Live(o)' => Live(o))
  BY Zenon DEF Exclusive
<1> QED
  BY Zenon DEF Young, Orders, Of

\* Nothing that counts here changes.
LEMMA NoOrderTouched ==
    ASSUME RecentInv, UNCHANGED <<of, old, blind, row, broker, fate, mine>>
    PROVE  Stored' /\ Exclusive'
<1>1. Stored'
  BY Zenon DEF RecentInv, Stored
<1>2. \A o \in Order : Live(o)' => Live(o)
  BY Zenon DEF Live
<1> QED
  BY <1>1, <1>2, NoNewBuy, Zenon DEF RecentInv

\* The guard has seen no recent BUY, and no other transaction is open.
LEMMA CreateIsExclusive ==
    ASSUME RecentInv, NEW i \in Item, GuardPasses(i) \/ GuardRaises(i)
    PROVE  Stored' /\ Exclusive'
<1>1. PICK w \in Wanted(i), o \in Unused :
          /\ Create(i, o, w)
          /\ blind \subseteq blind'
          /\ w.side = "buy" /\ o \notin blind' => Passes(w) /\ ~Blind(w)
  BY Zenon DEF GuardPasses, GuardRaises
<1>2. /\ Shape /\ Owned /\ Phases /\ Recorded /\ Stored /\ Exclusive
      /\ task[i] = "deciding"
      /\ UNCHANGED <<phase, old, row, broker, fate>>
  BY Zenon DEF RecentInv, StateInv, GuardPasses, GuardRaises, Step, records, account
<1>3. /\ o \in Order /\ broker[o] = "none" /\ mine[i] = {}
      /\ of' = [of EXCEPT ![o] = w] /\ mine' = [mine EXCEPT ![i] = {o}]
  BY <1>1, <1>2 DEF Unused, Recorded, Owned, Shape, Create
<1>4. /\ w \in OrderRecord /\ w.item = i /\ (w.side = "buy" => i \in Core)
  BY WantedIsRecord, Zenon
<1>5. \A p \in Order \ {o} :
          of'[p] = of[p] /\ \A j \in Item : p \in mine'[j] <=> p \in mine[j]
  BY <1>2, <1>3, Zenon DEF Shape
<1>6. Stored'
  <2>1. o \in mine'[i]
    BY <1>2, <1>3, Zenon DEF Shape
  <2> QED
    BY <1>2, <1>5, <2>1, Zenon DEF Stored
<1>7. \A p \in Order \ {o} : \A s \in Symbol : Young(p, s)' => Young(p, s)
  BY <1>1, <1>2, <1>5, Zenon DEF Young, Orders, Of
<1>8. \A p \in Order \ {o} : Live(p)' => Live(p)
  BY <1>2, <1>5, Zenon DEF Live
<1>9. ASSUME NEW s \in Symbol, NEW p \in Order \ {o},
             Young(o, s)', Young(p, s), Live(p)
      PROVE  FALSE
  <2>1. w.side = "buy" /\ SymbolOf[i] = s /\ o \notin blind'
    BY <1>3, <1>4, <1>9, <1>2, Zenon DEF Young, Orders, Of, Shape
  <2>2. ~RecentBuy(s)
    BY <1>1, <1>4, <2>1, Zenon DEF Passes, Blind
  <2>3. \A j \in Item : mine[j] = {}
    <3>1. phase = "pass2"
      BY <1>2, <1>4, <2>1, Zenon DEF Phases
    <3>2. \A j \in Item : task[j] \in Running => j = i
      BY <1>2, <3>1, Zenon DEF Phases, Running
    <3> QED
      BY <1>2, <1>3, <3>2 DEF Owned, Running, Shape
  <2>4. row[p] \in BuyActive
    <3>1. of[p].side = "buy"
      BY <1>9, Zenon DEF Young, Orders, Of
    <3> QED
      BY <1>2, <1>9, <2>3, <3>1, Zenon DEF Live, Stored
  <2> QED
    BY <1>9, <2>2, <2>4, Zenon DEF Young, RecentBuy
<1>10. Exclusive'
  BY <1>2, <1>7, <1>8, <1>9, Zenon DEF Exclusive
<1> QED
  BY <1>6, <1>10, Zenon

\* Sending, committing and rolling back concern an order that is live already.
LEMMA TransactionIsExclusive ==
    ASSUME RecentInv, NEW i \in Item,
           \/ StaleSnapshot(i) \/ Blocked(i) \/ Answered(i) \/ Unknown(i)
           \/ Commit(i) \/ Fails(i)
    PROVE  Stored' /\ Exclusive'
<1>0. Shape /\ Owned /\ Stored /\ Exclusive
  BY Zenon DEF RecentInv, StateInv
<1>1. CASE StaleSnapshot(i) \/ Blocked(i) \/ Answered(i) \/ Unknown(i)
  <2>1. PICK o \in mine[i] :
            /\ \E at \in {"open", "none"} : broker' = [broker EXCEPT ![o] = at]
            /\ UNCHANGED <<of, old, blind, row, fate, mine>>
    BY <1>1, Zenon DEF StaleSnapshot, Blocked, Answered, Unknown, Settles, records
  <2>2. o \in Order /\ \A p \in Order \ {o} : broker'[p] = broker[p]
    BY <1>0, <2>1, Zenon DEF Shape
  <2>3. Stored'
    BY <1>0, <2>1, <2>2, Zenon DEF Stored
  <2>4. \A p \in Order : Live(p)' => Live(p)
    BY <2>1, <2>2, Zenon DEF Live
  <2> QED
    BY <1>0, <2>1, <2>3, <2>4, NoNewBuy, Zenon
<1>2. CASE Commit(i)
  <2>1. PICK o \in mine[i] :
            /\ row' = [row EXCEPT ![o] = IF draft[o] = "ambiguous" THEN "reconcile_required"
                                         ELSE draft[o]]
            /\ fate' = IF draft[o] \in {"ambiguous", "pending_submit"}
                       THEN Fated(o, "unknown")
                       ELSE IF draft[o] = "closed" THEN Fated(o, "denied")
                       ELSE fate
    BY <1>2, Zenon DEF Commit
  <2>2. /\ mine' = [mine EXCEPT ![i] = {}]
        /\ UNCHANGED <<of, old, blind, broker>>
    BY <1>2, Zenon DEF Commit, Done, account
  <2>3. /\ o \in Order /\ \A p \in mine[i] : p = o
        /\ broker[o] # "none" => draft[o] \in {"submitted", "ambiguous", "pending_submit", "closed"}
    BY <1>0 DEF Owned, Shape
  <2>4. \A p \in Order \ {o} :
            /\ row'[p] = row[p] /\ fate'[p] = fate[p]
            /\ \A j \in Item : p \in mine'[j] <=> p \in mine[j]
    BY <1>0, <2>1, <2>2, <2>3, Zenon DEF Shape, Fated
  <2>5. /\ of[o].side = "buy" /\ broker[o] # "none" /\ fate'[o] # "denied"
        => row'[o] \in BuyActive
    BY <1>0, <2>1, <2>3, Zenon DEF Shape, BuyActive, Fated
  <2>6. Stored'
    BY <1>0, <2>2, <2>4, <2>5, Zenon DEF Stored
  <2>7. \A p \in Order : Live(p)' => Live(p)
    BY <2>2, <2>4 DEF Live
  <2> QED
    BY <1>0, <2>2, <2>6, <2>7, NoNewBuy, Zenon
<1>3. CASE Fails(i)
  <2> DEFINE gone == {o \in mine[i] : broker[o] = "none"}
  <2>1. /\ of' = [o \in Order |-> IF o \in gone THEN Blank ELSE of[o]]
        /\ blind' = blind \ gone
        /\ fate' = [o \in Order |-> IF o \in mine[i] \ gone THEN "lost" ELSE fate[o]]
        /\ mine' = [mine EXCEPT ![i] = {}]
        /\ UNCHANGED <<old, row, broker>>
    BY <1>0, <1>3, Zenon DEF Fails, RolledBack, Done, records, account, Shape
  <2>2. \A o \in Order \ mine[i] :
            fate'[o] = fate[o] /\ \A j \in Item : o \in mine'[j] <=> o \in mine[j]
    BY <1>0, <2>1, Zenon DEF Shape
  <2>3. Stored'
    BY <1>0, <2>1, <2>2, Zenon DEF Stored
  <2>4. \A o \in Order : of'[o].side = "buy" =>
            of'[o] = of[o] /\ (o \in blind => o \in blind')
    BY <2>1, Zenon DEF Blank
  <2>5. \A o \in Order : Live(o)' => Live(o)
    BY <2>1, <2>2, Zenon DEF Live
  <2> QED
    BY <1>0, <2>1, <2>3, <2>4, <2>5, NoNewBuy, Zenon
<1> QED
  BY <1>1, <1>2, <1>3, Zenon

\* A process that stops only takes orders away.
LEMMA StoppedIsExclusive ==
    ASSUME RecentInv, NEW reason \in [Order -> {"lost", "sibling"}], Stopped(reason)
    PROVE  Stored' /\ Exclusive'
<1> DEFINE open == UNION {mine[i] : i \in Item}
           gone == {o \in open : broker[o] = "none"}
<1>1. /\ of' = [o \in Order |-> IF o \in gone THEN Blank ELSE of[o]]
      /\ blind' = blind \ gone
      /\ fate' = [o \in Order |-> IF o \in open \ gone THEN reason[o] ELSE fate[o]]
      /\ mine' = [i \in Item |-> {}]
      /\ UNCHANGED <<old, row, broker>>
  BY Zenon DEF Stopped, NoProcess, RolledBack, records, account
<1>2. Stored /\ Exclusive
  BY Zenon DEF RecentInv
<1>3. \A o \in open \ gone : o \in Order => fate'[o] \in {"lost", "sibling"}
  BY <1>1, Zenon
<1>4. \A o \in Order \ open : fate'[o] = fate[o] /\ \A i \in Item : o \notin mine[i]
  BY <1>1, Zenon
<1>5. Stored'
  BY <1>1, <1>2, <1>3, <1>4, Zenon DEF Stored
<1>6. \A o \in Order : of'[o].side = "buy" =>
          of'[o] = of[o] /\ (o \in blind => o \in blind')
  BY <1>1, Zenon DEF Blank
<1>7. \A o \in Order : Live(o)' => Live(o)
  BY <1>1, <1>3, <1>4, Zenon DEF Live
<1> QED
  BY <1>1, <1>2, <1>5, <1>6, <1>7, NoNewBuy, Zenon

\* The broker, the sync jobs and time bring no order to life.
LEMMA OutsideIsExclusive ==
    ASSUME RecentInv, Outside
    PROVE  Stored' /\ Exclusive'
<1>0. Shape /\ Recorded /\ Stored /\ Exclusive
  BY Zenon DEF RecentInv, StateInv
<1>1. UNCHANGED <<of, blind, mine>> /\ old \subseteq old'
  BY Zenon DEF Outside, Fill, EndUnfilled, Sync, Doubt, GiveUp, Unlock, Age, ReadPosition,
     cycle
<1>2. ASSUME UNCHANGED <<row, fate>>,
             \A o \in Order : broker'[o] \in {"open", "filled"} =>
                                  broker[o] \in {"open", "filled"}
      PROVE  Stored' /\ Exclusive'
  <2>1. \A o \in Order : Live(o)' => Live(o)
    BY <1>1, <1>2, Zenon DEF Live
  <2> QED
    BY <1>0, <1>1, <1>2, <2>1, NoNewBuy, Zenon DEF Stored
<1>3. CASE \E o \in Order : Fill(o) \/ EndUnfilled(o)
  <2>1. UNCHANGED <<row, fate>>
    BY <1>3, Zenon DEF Fill, EndUnfilled, records
  <2>2. \A o \in Order : broker'[o] \in {"open", "filled"} =>
                             broker[o] \in {"open", "filled"}
    BY <1>0, <1>3, ZenonT(60) DEF Fill, EndUnfilled, Shape
  <2> QED
    BY <1>2, <2>1, <2>2, Zenon
<1>4. CASE \/ \E o \in Order : Unlock(o) \/ Age(o)
           \/ \E s \in Symbol : ReadPosition(s)
  BY <1>2, <1>4, Zenon DEF Unlock, Age, ReadPosition, records, account
<1>5. CASE \E o \in Order : Sync(o)
  <2>1. PICK o \in Order : Sync(o)
    BY <1>5, Zenon
  <2>2. UNCHANGED <<broker, fate>>
    BY <2>1, Zenon DEF Sync, account
  <2>3. PICK r \in {"filled", "closed", "partially_filled", "submitted"} :
            /\ row' = [row EXCEPT ![o] = r]
            /\ broker[o] \in {"open", "filled"} => r # "closed"
    BY <1>0, <2>1, Zenon DEF Sync, Shape
  <2>4. Stored'
    BY <1>0, <1>1, <2>2, <2>3, Zenon DEF Stored, Shape, BuyActive
  <2>5. \A p \in Order : Live(p)' => Live(p)
    BY <1>1, <2>2, Zenon DEF Live
  <2> QED
    BY <1>0, <1>1, <2>4, <2>5, NoNewBuy, Zenon
<1>6. CASE \E o \in Order : Doubt(o) \/ GiveUp(o)
  <2>1. PICK o \in Order : Doubt(o) \/ GiveUp(o)
    BY <1>6, Zenon
  <2>2. UNCHANGED broker
    BY <2>1, Zenon DEF Doubt, GiveUp, account
  <2>3. \/ row' = [row EXCEPT ![o] = "reconcile_required"] /\ fate' = Fated(o, "unknown")
        \/ row' = [row EXCEPT ![o] = "closed"] /\ fate' = Fated(o, "denied")
    BY <2>1, Zenon DEF Doubt, GiveUp
  <2>4. row[o] # "none"
    BY <2>1, Zenon DEF Doubt, GiveUp
  <2>5. \A p \in Order \ {o} : row'[p] = row[p] /\ fate'[p] = fate[p]
    BY <1>0, <2>3, Zenon DEF Fated, Shape
  <2>6. of[o].side = "buy" /\ broker[o] # "none" /\ fate'[o] # "denied"
        => row'[o] \in BuyActive
    BY <1>0, <2>3, Zenon DEF Fated, Shape, BuyActive
  <2>7. Stored'
    BY <1>0, <1>1, <2>2, <2>5, <2>6, Zenon DEF Stored
  <2>8. Live(o)' /\ of[o].side = "buy" => Live(o)
    <3>1. fate'[o] \in {"fine", "unknown"} => fate[o] \in {"fine", "unknown"}
      <4>1. row[o] \in {"submitted", "partially_filled"} => fate[o] \in {"fine", "unknown"}
        BY <1>0 DEF Recorded, Shape
      <4>2. fate'[o] \in {"fine", "unknown"} => \/ fate'[o] = fate[o]
                                                \/ row[o] \in {"submitted", "partially_filled"}
        BY <1>0, <2>1, Zenon DEF Doubt, GiveUp, Fated, Shape
      <4> QED
        BY <4>1, <4>2, Zenon
    <3> QED
      BY <1>1, <2>2, <3>1, Zenon DEF Live
  <2>9. \A p \in Order : of'[p].side = "buy" => (Live(p)' => Live(p))
    BY <1>1, <2>2, <2>5, <2>8, Zenon DEF Live
  <2> QED
    BY <1>0, <1>1, <2>7, <2>9, NoNewBuy, Zenon
<1> QED
  BY <1>3, <1>4, <1>5, <1>6, Zenon DEF Outside

LEMMA RecentInit == Init => Stored /\ Exclusive
<1> SUFFICES ASSUME Init PROVE Stored /\ Exclusive
  OBVIOUS
<1>1. \A o \in Order : broker[o] = "none" /\ of[o].side = "none"
  BY Zenon DEF Init, Blank
<1> QED
  BY <1>1, Zenon DEF Stored, Exclusive, Young, Orders, Of

LEMMA RecentStep ==
    ASSUME RecentInv, [Next]_vars
    PROVE  Stored' /\ Exclusive'
<1>0. Shape /\ Owned
  BY Zenon DEF RecentInv, StateInv
<1>1. CASE UNCHANGED vars \/ StartCycle \/ DispatchPhase \/ Pass2
  <2>1. UNCHANGED <<of, old, blind, row, broker, fate, mine>>
    BY <1>1, Zenon DEF StartCycle, DispatchPhase, Pass2, vars, cycle, account, records
  <2> QED
    BY <2>1, NoOrderTouched, Zenon
<1>2. CASE EndCycle
  <2>1. mine' = mine
    BY <1>0, <1>2 DEF EndCycle, NoProcess, Owned, Shape
  <2> QED
    BY <1>2, <2>1, NoOrderTouched, Zenon DEF EndCycle, account, records
<1>3. CASE Kill \/ Restart
  <2>1. [o \in Order |-> "lost"] \in [Order -> {"lost", "sibling"}]
    BY SMTT(20)
  <2> QED
    BY <1>3, <2>1, StoppedIsExclusive, Zenon DEF Kill, Restart
<1>4. ASSUME NEW i \in Item, HardTimeout(i)
      PROVE  Stored' /\ Exclusive'
  <2>1. [o \in Order |-> IF o \in mine[i] THEN "lost" ELSE "sibling"]
            \in [Order -> {"lost", "sibling"}]
    OBVIOUS
  <2> QED
    BY <1>4, <2>1, StoppedIsExclusive, Zenon DEF HardTimeout
<1>5. ASSUME NEW i \in Item,
             \/ Enter(i) \/ NoOrder(i) \/ Analysed(i) \/ Parks(i) \/ SecondPass(i)
             \/ NextCandidate(i) \/ GuardBlocks(i)
      PROVE  Stored' /\ Exclusive'
  <2>1. UNCHANGED <<of, old, blind, row, broker, fate>>
    BY <1>5, Zenon DEF Enter, NoOrder, Analysed, Parks, SecondPass, NextCandidate,
                GuardBlocks, account, records
  <2>2. \/ mine' = mine
        \/ mine' = [mine EXCEPT ![i] = {}] /\ task[i] \notin {"guarded", "sent"}
    BY <1>5, Zenon DEF Enter, NoOrder, Analysed, Parks, SecondPass, NextCandidate,
                GuardBlocks, Done
  <2>3. task[i] \notin {"guarded", "sent"} => mine[i] = {}
    BY <1>0 DEF Owned, Shape
  <2>4. mine' = mine
    BY <1>0, <2>2, <2>3, Zenon DEF Shape
  <2> QED
    BY <2>1, <2>4, NoOrderTouched, Zenon
<1>6. ASSUME NEW i \in Item, GuardPasses(i) \/ GuardRaises(i)
      PROVE  Stored' /\ Exclusive'
  BY <1>6, CreateIsExclusive, Zenon
<1>7. ASSUME NEW i \in Item,
             \/ StaleSnapshot(i) \/ Blocked(i) \/ Answered(i) \/ Unknown(i)
             \/ Commit(i) \/ Fails(i)
      PROVE  Stored' /\ Exclusive'
  BY <1>7, TransactionIsExclusive, Zenon
<1>8. CASE Outside
  BY <1>8, OutsideIsExclusive, Zenon
<1> QED
  BY <1>1, <1>2, <1>3, <1>4, <1>5, <1>6, <1>7, <1>8, Zenon DEF Next, Scheduler, Process

LEMMA RecentSuffices == Exclusive => OneRecentBuy
<1> SUFFICES ASSUME Exclusive, NEW s \in Symbol
             PROVE  Cardinality({o \in Orders("buy", s) \ (old \cup blind) :
                        /\ broker[o] \in {"open", "filled"}
                        /\ fate[o] \in {"fine", "unknown"}}) <= 1
  BY Zenon DEF OneRecentBuy
<1> DEFINE S == {o \in Orders("buy", s) \ (old \cup blind) :
                     /\ broker[o] \in {"open", "filled"}
                     /\ fate[o] \in {"fine", "unknown"}}
<1>1. \A o, p \in S : o = p
  BY Zenon DEF Exclusive, Young, Live, Orders
<1>2. CASE S = {}
  BY <1>2, FS_EmptySet
<1>3. CASE S # {}
  <2>1. PICK o \in S : TRUE
    BY <1>3, Zenon
  <2>2. S = {o}
    BY <1>1, <2>1, Zenon
  <2>3. Cardinality({o}) = 1
    BY FS_Singleton, Zenon
  <2> HIDE DEF S
  <2>4. Cardinality(S) <= 1
    BY <2>2, <2>3
  <2> QED
    BY <2>4, Zenon DEF S
<1> QED
  BY <1>2, <1>3, Zenon

\* Within the cooldown the broker never has two BUY orders of one instrument
\* whose rows do not deny them, unless a reconciliation lock made the duplicate
\* guard stand aside (execution_service.py, phase 2.5): pass 2 works on one
\* candidate at a time, and the guard sees every order whose transaction is
\* over, those with an unknown result included until their row is given up.
THEOREM BuysAreApart == Spec => []OneRecentBuy
<1>1. Init => BudgetInv /\ Stored /\ Exclusive
  BY BudgetInit, RecentInit, Zenon
<1>2. BudgetInv /\ Stored /\ Exclusive /\ [Next]_vars => (BudgetInv /\ Stored /\ Exclusive)'
  <2> SUFFICES ASSUME BudgetInv, Stored, Exclusive, [Next]_vars
               PROVE  BudgetInv' /\ Stored' /\ Exclusive'
    OBVIOUS
  <2>1. RecentInv
    BY Zenon DEF RecentInv, BudgetInv
  <2> QED
    BY <2>1, BudgetStep, RecentStep, Zenon
<1>3. Exclusive => OneRecentBuy
  BY RecentSuffices
<1> QED
  BY <1>1, <1>2, <1>3, PTL DEF Spec

-----------------------------------------------------------------------------
(***************************************************************************)
(* The shares.  What is filled, stored and read of an order stays in       *)
(* order, and a transaction past its guard has an order.                   *)
(***************************************************************************)
Fills ==
    /\ filled \in [Order -> Nat]
    /\ seen \in [Order -> Nat]
    /\ snapped \in [Order -> Nat]
    /\ holding \in [Symbol -> Nat]
    /\ snap \in [Symbol -> Nat]
    /\ \A o \in Order :
           /\ seen[o] <= filled[o]
           /\ snapped[o] <= filled[o]
           /\ filled[o] <= of[o].qty
           /\ broker[o] = "open" => filled[o] < of[o].qty
           /\ broker[o] = "none" => filled[o] = 0
           /\ of[o].side # "none" => of[o].item \in Item /\ of[o].qty > 0
           /\ of[o].side = "sell" => of[o].qty <= Position[SymbolOf[of[o].item]]

Carries == \A i \in Item : task[i] \in {"guarded", "sent"} => mine[i] # {}

Pending(o) == \E i \in Item : o \in mine[i]

shares == <<filled, seen, snapped, holding, snap>>

(***************************************************************************)
(* What a step does to the orders and their shares.                        *)
(***************************************************************************)
Still ==
    /\ UNCHANGED <<of, mine, blind, broker, shares>>
    /\ \A i \in Item : task'[i] \in {"guarded", "sent"} => task[i] \in {"guarded", "sent"}

Creates(i, o, w) ==
    /\ Step(i, "deciding", "guarded")
    /\ Create(i, o, w)
    /\ blind' = blind \cup {o} \/ (blind' = blind /\ Passes(w) /\ ~Blind(w))
    /\ UNCHANGED <<broker, shares>>

Sends(i, o) ==
    /\ Step(i, "guarded", "sent")
    /\ \E at \in {"open", "none"} : broker' = [broker EXCEPT ![o] = at]
    /\ UNCHANGED <<of, mine, blind, shares>>

Commits(i) ==
    /\ Done(i)
    /\ UNCHANGED <<of, blind, broker, shares>>

\* The sync reads the fills of an order, or fails to.
Reads(o) ==
    /\ \E n \in {seen[o], filled[o]} : seen' = [seen EXCEPT ![o] = n]
    /\ UNCHANGED <<task, of, mine, blind, broker, filled, snapped, holding, snap>>

\* Of some pending orders, those that the broker does not have are forgotten.
Drops(gone) ==
    /\ \A o \in gone : Pending(o) /\ broker[o] = "none"
    /\ of' = [o \in Order |-> IF o \in gone THEN Blank ELSE of[o]]
    /\ blind' = blind \ gone
    /\ \A o \in Order : Pending(o)' => Pending(o)
    /\ \A o \in Order : Pending(o) /\ ~Pending(o)' => o \in gone \/ broker[o] # "none"
    /\ \A i \in Item : task'[i] \in {"guarded", "sent"} =>
                           task[i] \in {"guarded", "sent"} /\ mine'[i] = mine[i]
    /\ UNCHANGED <<broker, shares>>

LEMMA StepKinds ==
    ASSUME StateInv, [Next]_vars
    PROVE  \/ Still
           \/ \E i \in Item, o \in Unused : \E w \in Wanted(i) : Creates(i, o, w)
           \/ \E i \in Item : \E o \in mine[i] : Sends(i, o)
           \/ \E i \in Item : Commits(i)
           \/ \E gone \in SUBSET Order : Drops(gone)
           \/ \E o \in Order : Fill(o) \/ EndUnfilled(o) \/ Reads(o)
           \/ \E s \in Symbol : ReadPosition(s)
<1>0. Shape /\ Owned /\ Phases
  BY Zenon DEF StateInv
<1> USE DEF shares, account, records
<1>1. CASE UNCHANGED vars \/ DispatchPhase
  BY <1>1, Zenon DEF vars, cycle, DispatchPhase, Still
<1>2. CASE StartCycle \/ Pass2
  <2>1. \A i \in Item : task'[i] \notin {"guarded", "sent"}
    <3>1. CASE StartCycle
      BY <3>1, Zenon DEF StartCycle
    <3>2. CASE Pass2
      BY <3>2, Zenon DEF Pass2
    <3> QED
      BY <1>2, <3>1, <3>2, Zenon
  <2> QED
    BY <1>2, <2>1, Zenon DEF StartCycle, Pass2, Still
<1>3. CASE EndCycle
  <2>1. \A i \in Item : mine[i] = {}
    BY <1>0, <1>3 DEF EndCycle, Owned, Shape
  <2>2. mine' = mine
    BY <1>0, <1>3, <2>1, Zenon DEF EndCycle, NoProcess, Shape
  <2>3. \A i \in Item : task'[i] = "none"
    BY <1>3, Zenon DEF EndCycle, NoProcess
  <2> QED
    BY <1>3, <2>2, <2>3, Zenon DEF EndCycle, Still
<1>4. ASSUME NEW reason, Stopped(reason)
      PROVE  \E gone \in SUBSET Order : Drops(gone)
  <2> DEFINE open == UNION {mine[i] : i \in Item}
             gone == {o \in open : broker[o] = "none"}
  <2>1. gone \in SUBSET Order /\ \A o \in gone : Pending(o) /\ broker[o] = "none"
    <3>1. \A o \in open : \E i \in Item : o \in mine[i]
      BY Zenon
    <3>2. \A i \in Item : mine[i] \subseteq Order
      BY <1>0, Zenon DEF Shape
    <3> QED
      BY <3>1, <3>2, Zenon DEF Pending
  <2>2. /\ of' = [o \in Order |-> IF o \in gone THEN Blank ELSE of[o]]
        /\ blind' = blind \ gone
        /\ UNCHANGED <<broker, shares>>
    BY <1>4, Zenon DEF Stopped, RolledBack
  <2>3. \A i \in Item : mine'[i] = {} /\ task'[i] = "none"
    BY <1>4, Zenon DEF Stopped, NoProcess
  <2>4. \A o \in Order : ~Pending(o)'
    BY <2>3, Zenon DEF Pending
  <2>5. \A o \in Order : Pending(o) => o \in open
    BY Zenon DEF Pending
  <2>6. Drops(gone)
    BY <2>1, <2>2, <2>3, <2>4, <2>5, Zenon DEF Drops
  <2> QED
    BY <2>1, <2>6, Zenon
<1>5. ASSUME NEW i \in Item, Fails(i)
      PROVE  \E gone \in SUBSET Order : Drops(gone)
  <2> DEFINE gone == {o \in mine[i] : broker[o] = "none"}
  <2>1. gone \in SUBSET Order /\ \A o \in gone : Pending(o) /\ broker[o] = "none"
    BY <1>0, Zenon DEF Shape, Pending
  <2>2. /\ of' = [o \in Order |-> IF o \in gone THEN Blank ELSE of[o]]
        /\ blind' = blind \ gone
        /\ UNCHANGED <<broker, shares>>
    BY <1>5, Zenon DEF Fails, RolledBack
  <2>3. /\ mine'[i] = {} /\ task'[i] = "done"
        /\ \A j \in Item \ {i} : mine'[j] = mine[j] /\ task'[j] = task[j]
    BY <1>0, <1>5, Zenon DEF Fails, Done, Shape
  <2>4. \A o \in Order : Pending(o)' => Pending(o)
    BY <2>3, Zenon DEF Pending
  <2>5. \A o \in Order : Pending(o) /\ ~Pending(o)' => o \in mine[i]
    BY <2>3, Zenon DEF Pending
  <2>6. \A j \in Item : task'[j] \in {"guarded", "sent"} =>
                            task[j] \in {"guarded", "sent"} /\ mine'[j] = mine[j]
    BY <2>3, Zenon
  <2>7. Drops(gone)
    BY <2>1, <2>2, <2>4, <2>5, <2>6, Zenon DEF Drops
  <2> QED
    BY <2>1, <2>7, Zenon
<1>6. ASSUME NEW i \in Item,
             \/ Enter(i) \/ NoOrder(i) \/ Analysed(i) \/ Parks(i) \/ SecondPass(i)
             \/ NextCandidate(i) \/ GuardBlocks(i)
      PROVE  Still
  <2>1. PICK to \in {"done", "deciding", "candidate", "parked"} :
            task' = [task EXCEPT ![i] = to]
    BY <1>6, Zenon DEF Enter, NoOrder, Analysed, Parks, SecondPass, NextCandidate,
       GuardBlocks, Step, Done
  <2>2. task[i] \notin {"guarded", "sent"}
    BY <1>6, Zenon DEF Enter, NoOrder, Analysed, Parks, SecondPass, NextCandidate,
       GuardBlocks, Step
  <2>3. mine[i] = {}
    BY <1>0, <2>2, ZenonT(60) DEF Owned
  <2>4. mine' = mine
    <3>1. UNCHANGED mine \/ mine' = [mine EXCEPT ![i] = {}]
      BY <1>6, Zenon DEF Enter, NoOrder, Analysed, Parks, SecondPass, NextCandidate,
         GuardBlocks, Done
    <3>2. mine \in [Item -> SUBSET Order]
      BY <1>0, Zenon DEF Shape
    <3> QED
      BY <2>3, <3>1, <3>2, Zenon
  <2>5. UNCHANGED <<of, blind, broker, shares>>
    BY <1>6, Zenon DEF Enter, NoOrder, Analysed, Parks, SecondPass, NextCandidate,
       GuardBlocks
  <2>6. \A j \in Item : task'[j] = task[j] \/ task'[j] = to
    BY <1>0, <2>1, Zenon DEF Shape
  <2> QED
    BY <2>4, <2>5, <2>6, Zenon DEF Still
<1>7. ASSUME NEW i \in Item, GuardPasses(i) \/ GuardRaises(i)
      PROVE  \E o \in Unused : \E w \in Wanted(i) : Creates(i, o, w)
  BY <1>7, Zenon DEF GuardPasses, GuardRaises, Creates
<1>8. ASSUME NEW i \in Item, StaleSnapshot(i) \/ Blocked(i) \/ Answered(i) \/ Unknown(i)
      PROVE  \E o \in mine[i] : Sends(i, o)
  <2>1. PICK o \in mine[i] : \E status, at : at \in {"open", "none"} /\ Settles(i, o, status, at)
    BY <1>8, Zenon DEF StaleSnapshot, Blocked, Answered, Unknown
  <2> QED
    BY <2>1, Zenon DEF Settles, Sends
<1>9. ASSUME NEW i \in Item, Commit(i) PROVE Commits(i)
  BY <1>9, Zenon DEF Commit, Commits
<1>10. ASSUME NEW i \in Item, HardTimeout(i)
       PROVE  \E gone \in SUBSET Order : Drops(gone)
  BY <1>4, <1>10, Zenon DEF HardTimeout
<1>11. CASE Kill \/ Restart
  BY <1>4, <1>11, Zenon DEF Kill, Restart
<1>12. ASSUME NEW o \in Order, GiveUp(o) \/ Unlock(o) \/ Age(o) PROVE Still
  BY <1>12, Zenon DEF GiveUp, Unlock, Age, Still, cycle
<1>14. ASSUME NEW o \in Order, Sync(o) \/ Doubt(o) PROVE Reads(o)
  BY <1>14, Zenon DEF Sync, Doubt, Reads, cycle
<1>13. CASE Process
  BY <1>1, <1>2, <1>5, <1>6, <1>7, <1>8, <1>9, <1>10, <1>13, ZenonT(60) DEF Process
<1> QED
  BY <1>1, <1>2, <1>3, <1>11, <1>12, <1>13, <1>14, Zenon DEF Next, Scheduler, Outside

(***************************************************************************)
(* The shares stay in order.                                               *)
(***************************************************************************)
LEMMA SharesInit == Init => Fills /\ Carries
<1> SUFFICES ASSUME Init PROVE Fills /\ Carries
  OBVIOUS
<1>1. Fills
  BY ItemAssumption DEF Init, Fills, Blank
<1>2. Carries
  BY Zenon DEF Init, Carries
<1> QED
  BY <1>1, <1>2, Zenon

\* An order's record, as far as shares are concerned.
Sound(o) ==
    /\ seen[o] <= filled[o]
    /\ snapped[o] <= filled[o]
    /\ filled[o] <= of[o].qty
    /\ broker[o] = "open" => filled[o] < of[o].qty
    /\ broker[o] = "none" => filled[o] = 0
    /\ of[o].side # "none" => of[o].item \in Item /\ of[o].qty > 0
    /\ of[o].side = "sell" => of[o].qty <= Position[SymbolOf[of[o].item]]

LEMMA FillsBySound ==
    Fills <=> /\ filled \in [Order -> Nat] /\ seen \in [Order -> Nat]
              /\ snapped \in [Order -> Nat]
              /\ holding \in [Symbol -> Nat] /\ snap \in [Symbol -> Nat]
              /\ \A o \in Order : Sound(o)
BY Zenon DEF Fills, Sound

\* What the sizing asks for is at least one share, and no more than was held.
LEMMA WantedShares ==
    ASSUME NEW i \in Item, NEW w \in Wanted(i)
    PROVE  /\ w.qty \in Nat /\ w.qty > 0
           /\ w.side = "sell" => w.qty <= Position[SymbolOf[w.item]]
<1>1. SymbolOf[i] \in Symbol /\ Position[SymbolOf[i]] \in Nat
  BY ItemAssumption, Zenon
<1> QED
  BY <1>1 DEF Wanted

LEMMA FillsStep ==
    ASSUME StateInv, Fills, [Next]_vars
    PROVE  Fills'
<1>0. Shape /\ Owned /\ Recorded
  BY Zenon DEF StateInv
<1>1. /\ filled \in [Order -> Nat] /\ seen \in [Order -> Nat] /\ snapped \in [Order -> Nat]
      /\ holding \in [Symbol -> Nat] /\ snap \in [Symbol -> Nat]
      /\ \A o \in Order : Sound(o)
  BY FillsBySound, Zenon
<1>2. of \in [Order -> OrderRecord] /\ \A o \in Order : of[o].qty \in Nat
  BY <1>0, Zenon DEF Shape, OrderRecord
<1> USE DEF shares, account, records
<1>3. ASSUME UNCHANGED shares, \A o \in Order : Sound(o)'
      PROVE  Fills'
  BY <1>1, <1>3, Zenon DEF Fills, Sound
<1>4. CASE Still \/ \E i \in Item : Commits(i)
  <2>1. UNCHANGED <<of, broker, shares>>
    BY <1>4, Zenon DEF Still, Commits
  <2> QED
    BY <1>1, <1>3, <2>1, Zenon DEF Sound
<1>5. ASSUME NEW i \in Item, NEW o \in Unused, NEW w \in Wanted(i), Creates(i, o, w)
      PROVE  Fills'
  <2>1. /\ o \in Order /\ broker[o] = "none" /\ of' = [of EXCEPT ![o] = w]
        /\ UNCHANGED <<broker, shares>>
    BY <1>0, <1>5, Zenon DEF Creates, Create, Unused, Recorded
  <2>2. /\ w.qty \in Nat /\ w.qty > 0 /\ w.item \in Item
        /\ w.side = "sell" => w.qty <= Position[SymbolOf[w.item]]
    BY WantedIsRecord, WantedShares, Zenon
  <2>3. of'[o] = w /\ \A p \in Order \ {o} : of'[p] = of[p]
    BY <1>2, <2>1, Zenon
  <2>4. Sound(o)'
    <3>1. filled[o] = 0 /\ seen[o] <= filled[o] /\ snapped[o] <= filled[o]
      BY <1>1, <2>1, Zenon DEF Sound
    <3> QED
      BY <2>1, <2>2, <2>3, <3>1 DEF Sound
  <2>5. \A p \in Order \ {o} : Sound(p)'
    BY <1>1, <2>1, <2>3, ZenonT(60) DEF Sound
  <2> QED
    BY <1>3, <2>1, <2>4, <2>5, Zenon
<1>6. ASSUME NEW i \in Item, NEW o \in mine[i], Sends(i, o)
      PROVE  Fills'
  <2>1. /\ o \in Order /\ broker[o] = "none" /\ of[o].side # "none"
    BY <1>0, <1>6 DEF Sends, Step, Owned, Shape
  <2>2. UNCHANGED <<of, shares>> /\ \A p \in Order \ {o} : broker'[p] = broker[p]
    BY <1>0, <1>6, Zenon DEF Sends, Shape
  <2>3. Sound(o)'
    BY <1>1, <1>2, <2>1, <2>2, Zenon DEF Sound
  <2>4. \A p \in Order \ {o} : Sound(p)'
    BY <1>1, <2>2, Zenon DEF Sound
  <2> QED
    BY <1>3, <2>2, <2>3, <2>4, Zenon
<1>7. ASSUME NEW gone \in SUBSET Order, Drops(gone)
      PROVE  Fills'
  <2>1. UNCHANGED <<broker, shares>> /\ \A o \in gone : broker[o] = "none"
    BY <1>7, Zenon DEF Drops
  <2>2. \A o \in Order : of'[o] = IF o \in gone THEN Blank ELSE of[o]
    BY <1>7, Zenon DEF Drops
  <2>3. ASSUME NEW o \in gone PROVE Sound(o)'
    <3>1. of'[o] = Blank /\ o \in Order /\ broker[o] = "none"
      BY <2>1, <2>2, Zenon
    <3>2. filled[o] = 0 /\ seen[o] <= filled[o] /\ snapped[o] <= filled[o]
      BY <1>1, <3>1, Zenon DEF Sound
    <3> QED
      BY <2>1, <3>1, <3>2 DEF Sound, Blank
  <2>4. \A o \in Order \ gone : Sound(o)'
    BY <1>1, <2>1, <2>2, Zenon DEF Sound
  <2> QED
    BY <1>3, <2>1, <2>3, <2>4, Zenon
<1>8. ASSUME NEW o \in Order, Fill(o)
      PROVE  Fills'
  <2> DEFINE s == SymbolOf[of[o].item]
  <2>1. /\ broker[o] = "open"
        /\ of[o].side = "sell" => holding[s] > 0
        /\ filled' = [filled EXCEPT ![o] = filled[o] + 1]
        /\ holding' = [holding EXCEPT ![s] = IF of[o].side = "sell" THEN holding[s] - 1
                                                                ELSE holding[s] + 1]
        /\ broker' = [broker EXCEPT ![o] =
               IF filled[o] + 1 = of[o].qty THEN "filled" ELSE broker[o]]
        /\ UNCHANGED <<of, seen, snapped, snap>>
    BY <1>8, Zenon DEF Fill
  <2>2. s \in Symbol
    <3>1. of[o].side # "none"
      BY <1>0, <2>1, Zenon DEF Recorded
    <3>2. of[o].item \in Item
      BY <1>1, <3>1, ZenonT(60) DEF Sound
    <3> QED
      BY <3>2, ItemAssumption, Zenon
  <2>3. holding' \in [Symbol -> Nat] /\ filled' \in [Order -> Nat]
    BY <1>1, <2>1, <2>2
  <2>4. Sound(o)'
    <3>1. /\ filled'[o] = filled[o] + 1
          /\ broker'[o] = IF filled[o] + 1 = of[o].qty THEN "filled" ELSE "open"
      BY <1>0, <1>1, <2>1, Zenon DEF Shape
    <3>2. Sound(o) /\ filled[o] < of[o].qty
      BY <1>1, <2>1, Zenon DEF Sound
    <3> QED
      BY <1>1, <1>2, <2>1, <3>1, <3>2 DEF Sound
  <2>5. \A p \in Order \ {o} : Sound(p)'
    <3>1. \A p \in Order \ {o} : filled'[p] = filled[p] /\ broker'[p] = broker[p]
      BY <1>0, <1>1, <2>1, Zenon DEF Shape
    <3> QED
      BY <1>1, <2>1, <3>1, Zenon DEF Sound
  <2> HIDE DEF s
  <2> QED
    BY <1>1, <2>1, <2>3, <2>4, <2>5, Zenon DEF Fills, Sound
<1>9. ASSUME NEW o \in Order, EndUnfilled(o)
      PROVE  Fills'
  <2>1. UNCHANGED <<of, shares>> /\ broker' = [broker EXCEPT ![o] = "ended"]
    BY <1>9, Zenon DEF EndUnfilled
  <2>2. \A p \in Order : broker'[p] = broker[p] \/ broker'[p] = "ended"
    BY <1>0, <2>1, Zenon DEF Shape
  <2> QED
    BY <1>1, <1>3, <2>1, <2>2, Zenon DEF Sound
<1>10. ASSUME NEW o \in Order, Reads(o)
       PROVE  Fills'
  <2>1. /\ \E n \in {seen[o], filled[o]} : seen' = [seen EXCEPT ![o] = n]
        /\ UNCHANGED <<of, broker, filled, snapped, holding, snap>>
    BY <1>10, Zenon DEF Reads
  <2>2. \A p \in Order : seen'[p] = seen[p] \/ seen'[p] = filled[p]
    BY <1>1, <2>1, Zenon
  <2>3. seen' \in [Order -> Nat]
    BY <1>1, <2>1, Zenon
  <2>4. ASSUME NEW p \in Order PROVE Sound(p)'
    <3>1. seen'[p] <= filled[p]
      BY <1>1, <2>2 DEF Sound
    <3> QED
      BY <1>1, <2>1, <3>1, Zenon DEF Sound
  <2> QED
    BY <1>1, <2>1, <2>3, <2>4, Zenon DEF Fills, Sound
<1>11. ASSUME NEW s \in Symbol, ReadPosition(s)
       PROVE  Fills'
  <2>1. /\ snap' = [snap EXCEPT ![s] = holding[s]]
        /\ snapped' = [o \in Order |-> IF Of(o, "buy", s) \/ Of(o, "sell", s)
                                       THEN filled[o] ELSE snapped[o]]
        /\ UNCHANGED <<of, broker, filled, seen, holding>>
    BY <1>11, Zenon DEF ReadPosition
  <2>2. \A p \in Order : snapped'[p] = snapped[p] \/ snapped'[p] = filled[p]
    BY <2>1, Zenon
  <2>3. snap' \in [Symbol -> Nat]
    BY <1>1, <2>1, Zenon
  <2>4. snapped' \in [Order -> Nat]
    BY <1>1, <2>1, Zenon
  <2>5. ASSUME NEW p \in Order PROVE Sound(p)'
    <3>1. snapped'[p] <= filled[p]
      BY <1>1, <2>2 DEF Sound
    <3> QED
      BY <1>1, <2>1, <3>1, Zenon DEF Sound
  <2> QED
    BY <1>1, <2>1, <2>3, <2>4, <2>5, Zenon DEF Fills, Sound
<1> QED
  BY <1>4, <1>5, <1>6, <1>7, <1>8, <1>9, <1>10, <1>11, StepKinds, ZenonT(60)

LEMMA CarriesStep ==
    ASSUME StateInv, Carries, [Next]_vars
    PROVE  Carries'
<1>0. Shape /\ task \in [Item -> TaskStep] /\ mine \in [Item -> SUBSET Order]
  BY Zenon DEF StateInv, Shape
<1>1. CASE \/ Still
           \/ \E o \in Order : Fill(o) \/ EndUnfilled(o) \/ Reads(o)
           \/ \E s \in Symbol : ReadPosition(s)
  <2>1. UNCHANGED mine /\ \A i \in Item : task'[i] \in {"guarded", "sent"} =>
                                              task[i] \in {"guarded", "sent"}
    BY <1>1, Zenon DEF Still, Fill, EndUnfilled, Reads, ReadPosition, cycle
  <2> QED
    BY <2>1, Zenon DEF Carries
<1>2. ASSUME NEW i \in Item, NEW o \in Unused, NEW w \in Wanted(i), Creates(i, o, w)
      PROVE  Carries'
  <2>1. o \in mine'[i] /\ \A j \in Item \ {i} : mine'[j] = mine[j] /\ task'[j] = task[j]
    BY <1>0, <1>2, Zenon DEF Creates, Create, Step
  <2> QED
    BY <2>1, Zenon DEF Carries
<1>3. ASSUME NEW i \in Item, NEW o \in mine[i], Sends(i, o)
      PROVE  Carries'
  <2>1. /\ o \in mine'[i] /\ UNCHANGED mine
        /\ \A j \in Item \ {i} : task'[j] = task[j]
    BY <1>0, <1>3, Zenon DEF Sends, Step
  <2> QED
    BY <2>1, Zenon DEF Carries
<1>4. ASSUME NEW i \in Item, Commits(i)
      PROVE  Carries'
  <2>1. task'[i] = "done" /\ \A j \in Item \ {i} : mine'[j] = mine[j] /\ task'[j] = task[j]
    BY <1>0, <1>4, Zenon DEF Commits, Done
  <2> QED
    BY <2>1, Zenon DEF Carries
<1>5. ASSUME NEW gone \in SUBSET Order, Drops(gone)
      PROVE  Carries'
  BY <1>5, Zenon DEF Drops, Carries
<1> QED
  BY <1>1, <1>2, <1>3, <1>4, <1>5, StepKinds, Zenon

LEMMA TypesSuffice == StateInv /\ Fills /\ Carries => TypeOK
<1> SUFFICES ASSUME StateInv, Fills, Carries PROVE TypeOK
  OBVIOUS
<1>0. Shape /\ Owned /\ Phases
  BY Zenon DEF StateInv
<1>1. ASSUME NEW i \in Item
      PROVE  Cardinality(mine[i]) = IF task[i] \in {"guarded", "sent"} THEN 1 ELSE 0
  <2>1. CASE task[i] \in {"guarded", "sent"}
    <3>1. PICK o \in mine[i] : TRUE
      BY <2>1, Zenon DEF Carries
    <3>2. \A p \in mine[i] : p = o
      BY <1>0, <3>1 DEF Owned
    <3>3. mine[i] = {o}
      BY <3>1, <3>2, Zenon
    <3> QED
      BY <2>1, <3>3, FS_Singleton, Zenon
  <2>2. CASE task[i] \notin {"guarded", "sent"}
    <3>1. mine[i] = {}
      BY <1>0, <2>2, ZenonT(60) DEF Owned
    <3> QED
      BY <2>2, <3>1, FS_EmptySet, Zenon
  <2> QED
    BY <2>1, <2>2, Zenon
<1>2. \A i \in Item : \A o \in mine[i] : row[o] = "none" /\ of[o].item = i
  BY <1>0, ZenonT(60) DEF Owned
<1>3. \A o \in Order : filled[o] <= of[o].qty /\ seen[o] <= filled[o]
  BY Zenon DEF Fills
<1> QED
  BY <1>0, <1>1, <1>2, <1>3, Zenon DEF TypeOK, Shape, Phases, TaskStep

LEMMA StateHolds == Spec => []StateInv
<1>1. BudgetInv => StateInv
  BY Zenon DEF BudgetInv
<1> QED
  BY <1>1, BudgetInit, BudgetStep, PTL DEF Spec

LEMMA SharesHold == Spec => [](Fills /\ Carries)
<1>1. StateInv /\ Fills /\ Carries /\ [Next]_vars => (Fills /\ Carries)'
  BY FillsStep, CarriesStep, Zenon
<1> QED
  BY <1>1, SharesInit, StateHolds, PTL DEF Spec

(***************************************************************************)
(* For any universe and any number of orders a coroutine between its guard *)
(* and its commit owns exactly one order, which has no row yet, and no     *)
(* order is filled beyond its quantity or stored beyond what is filled.    *)
(***************************************************************************)
THEOREM CycleTypes == Spec => []TypeOK
BY TypesSuffice, StateHolds, SharesHold, PTL

-----------------------------------------------------------------------------
(***************************************************************************)
(* The sell guard.  Shares are counted as pairs of an order and a number:  *)
(* those of some orders beyond lo and up to hi.                            *)
(***************************************************************************)
Span(orders, lo, hi) ==
    {x \in Order \X Nat : x[1] \in orders /\ lo[x[1]] < x[2] /\ x[2] <= hi[x[1]]}

Qty == [o \in Order |-> of[o].qty]

\* The shares sold that the latest position snapshot does not know of.
Fresh(s) == Span(Orders("sell", s), snapped, filled)

\* The snapshot says no more than the account and those shares explain.
Known == \A s \in Symbol : snap[s] <= holding[s] + Cardinality(Fresh(s))

\* A sell that was let through unchecked has left its transaction or reached the
\* broker.
Tainted(s) ==
    \E o \in Orders("sell", s) \cap blind : broker[o] # "none" \/ ~Pending(o)

\* The checked sells that the broker works on or may still get.
ToSell(s) ==
    {o \in Orders("sell", s) \ blind :
        broker[o] = "open" \/ (broker[o] = "none" /\ Pending(o))}

Due(s) == Span(ToSell(s), filled, Qty)

Covered(s) == Tainted(s) \/ Cardinality(Due(s)) <= holding[s]

LEMMA SharesSpan ==
    ASSUME NEW S \in SUBSET Order, NEW from \in [Order -> Nat],
           \A o \in Order : of[o].qty \in Nat
    PROVE  Shares(S, from) = Span(S, from, Qty)
<1>1. ASSUME NEW x \in Shares(S, from) PROVE x \in Span(S, from, Qty)
  <2>1. PICK o \in S : x \in {o} \X ((from[o] + 1) .. of[o].qty)
    BY <1>1, Zenon DEF Shares
  <2>2. PICK n \in (from[o] + 1) .. of[o].qty : x = <<o, n>>
    BY <2>1
  <2>3. o \in Order /\ from[o] \in Nat /\ of[o].qty \in Nat
    BY Zenon
  <2>4. n \in Nat /\ from[o] < n /\ n <= of[o].qty
    BY <2>2, <2>3
  <2> QED
    BY <2>2, <2>3, <2>4, Zenon DEF Span, Qty
<1>2. ASSUME NEW x \in Span(S, from, Qty) PROVE x \in Shares(S, from)
  <2>1. PICK o \in Order, n \in Nat : x = <<o, n>>
    BY <1>2 DEF Span
  <2>2. o \in S /\ from[o] < n /\ n <= of[o].qty /\ from[o] \in Nat /\ of[o].qty \in Nat
    BY <1>2, <2>1, Zenon DEF Span, Qty
  <2>3. n \in (from[o] + 1) .. of[o].qty
    BY <2>2
  <2>4. x \in {o} \X ((from[o] + 1) .. of[o].qty)
    BY <2>1, <2>3, Zenon
  <2> QED
    BY <2>2, <2>4, Zenon DEF Shares
<1> QED
  BY <1>1, <1>2, Zenon

LEMMA SpanFinite ==
    ASSUME NEW S \in SUBSET Order, NEW lo, NEW hi, NEW m \in Nat,
           \A o \in S : hi[o] \in Nat /\ hi[o] <= m,
           \A o \in S : lo[o] \in Nat
    PROVE  IsFiniteSet(Span(S, lo, hi)) /\ Cardinality(Span(S, lo, hi)) \in Nat
<1>1. Span(S, lo, hi) \subseteq Order \X (1 .. m)
  <2> SUFFICES ASSUME NEW x \in Span(S, lo, hi) PROVE x \in Order \X (1 .. m)
    OBVIOUS
  <2>1. PICK o \in Order, n \in Nat : x = <<o, n>>
    BY DEF Span
  <2>2. o \in S /\ lo[o] < n /\ n <= hi[o]
    BY <2>1, Zenon DEF Span
  <2>3. n \in 1 .. m
    BY <2>2
  <2> QED
    BY <2>1, <2>3, Zenon
<1>2. IsFiniteSet(1 .. m)
  BY FS_Interval
<1>3. IsFiniteSet(Order \X (1 .. m))
  BY <1>2, BoundAssumption, FS_Product, Zenon
<1> QED
  BY <1>1, <1>3, FS_Subset, FS_CardinalityType, Zenon

LEMMA SellsFinite ==
    ASSUME StateInv, Fills, NEW s \in Symbol, NEW S \in SUBSET Orders("sell", s)
    PROVE  /\ \A lo \in [Order -> Nat] : /\ IsFiniteSet(Span(S, lo, Qty))
                                         /\ Cardinality(Span(S, lo, Qty)) \in Nat
           /\ IsFiniteSet(Fresh(s)) /\ Cardinality(Fresh(s)) \in Nat
<1>1. of \in [Order -> OrderRecord] /\ \A o \in Order : of[o].qty \in Nat
  BY Zenon DEF StateInv, Shape, OrderRecord
<1>2. Position[s] \in Nat /\ Orders("sell", s) \in SUBSET Order
  BY ItemAssumption, Zenon DEF Orders
<1>3. \A o \in Orders("sell", s) : of[o].qty <= Position[s]
  BY Zenon DEF Orders, Of, Fills
<1>4. \A o \in S : Qty[o] \in Nat /\ Qty[o] <= Position[s]
  BY <1>1, <1>2, <1>3, Zenon DEF Qty
<1>5. ASSUME NEW lo \in [Order -> Nat]
      PROVE  IsFiniteSet(Span(S, lo, Qty)) /\ Cardinality(Span(S, lo, Qty)) \in Nat
  <2>1. S \in SUBSET Order /\ \A o \in S : lo[o] \in Nat
    BY <1>2, Zenon
  <2> QED
    BY <1>2, <1>4, <2>1, SpanFinite, Zenon
<1>6. \A o \in Orders("sell", s) : /\ filled[o] \in Nat /\ filled[o] <= Position[s]
                                   /\ snapped[o] \in Nat
  BY <1>1, <1>2, <1>3 DEF Fills
<1>7. IsFiniteSet(Fresh(s)) /\ Cardinality(Fresh(s)) \in Nat
  BY <1>2, <1>6, SpanFinite, Zenon DEF Fresh
<1> QED
  BY <1>5, <1>7, Zenon

\* A larger span of some orders.
LEMMA SpanGrows ==
    ASSUME NEW S, NEW T, NEW lo, NEW hi, NEW to, NEW up,
           \A o \in Order, n \in Nat :
               o \in S /\ lo[o] < n /\ n <= hi[o] => o \in T /\ to[o] < n /\ n <= up[o]
    PROVE  Span(S, lo, hi) \subseteq Span(T, to, up)
<1> SUFFICES ASSUME NEW x \in Span(S, lo, hi) PROVE x \in Span(T, to, up)
  OBVIOUS
<1>1. x \in Order \X Nat /\ x[1] \in S /\ lo[x[1]] < x[2] /\ x[2] <= hi[x[1]]
  BY Zenon DEF Span
<1>2. x[1] \in Order /\ x[2] \in Nat
  BY <1>1, Zenon
<1>3. x[1] \in T /\ to[x[1]] < x[2] /\ x[2] <= up[x[1]]
  BY <1>1, <1>2, Zenon
<1> QED
  BY <1>1, <1>3, Zenon DEF Span

LEMMA SpansNext ==
    ASSUME NEW s
    PROVE  /\ Fresh(s)' = Span(Orders("sell", s)', snapped', filled')
           /\ Due(s)' = Span(ToSell(s)', filled', Qty')
BY Zenon DEF Fresh, Due, Span

LEMMA FreshFiniteNext ==
    ASSUME StateInv', Fills', NEW s \in Symbol
    PROVE  IsFiniteSet(Fresh(s)') /\ Cardinality(Fresh(s)') \in Nat
<1>1. \A o \in Order : of'[o].qty \in Nat
  BY Zenon DEF StateInv, Shape, OrderRecord
<1>2. Position[s] \in Nat /\ Orders("sell", s)' \in SUBSET Order
  BY ItemAssumption, Zenon DEF Orders
<1>3. \A o \in Orders("sell", s)' : of'[o].qty <= Position[s]
  BY Zenon DEF Orders, Of, Fills
<1>4. \A o \in Orders("sell", s)' : /\ filled'[o] \in Nat /\ filled'[o] <= Position[s]
                                    /\ snapped'[o] \in Nat
  BY <1>1, <1>2, <1>3 DEF Fills
<1> QED
  BY <1>2, <1>4, SpanFinite, SpansNext, Zenon

\* A sold share leaves the account and is fresh.
LEMMA KnownStep ==
    ASSUME StateInv, StateInv', Fills, Fills', Known, [Next]_vars
    PROVE  Known'
<1> SUFFICES ASSUME NEW s \in Symbol
             PROVE  snap'[s] <= holding'[s] + Cardinality(Fresh(s)')
  BY Zenon DEF Known
<1>0. Shape /\ Recorded /\ Owned
  BY Zenon DEF StateInv
<1>1. /\ snap[s] \in Nat /\ holding[s] \in Nat /\ snap'[s] \in Nat /\ holding'[s] \in Nat
      /\ snap[s] <= holding[s] + Cardinality(Fresh(s))
  BY Zenon DEF Fills, Known
<1>2. /\ IsFiniteSet(Fresh(s)) /\ Cardinality(Fresh(s)) \in Nat
      /\ IsFiniteSet(Fresh(s)') /\ Cardinality(Fresh(s)') \in Nat
  BY SellsFinite, FreshFiniteNext, ZenonT(60)
<1>3. ASSUME snap'[s] = snap[s], holding'[s] >= holding[s],
             \A o \in Order, n \in Nat :
                 o \in Orders("sell", s) /\ snapped[o] < n /\ n <= filled[o] =>
                     o \in Orders("sell", s)' /\ snapped'[o] < n /\ n <= filled'[o]
      PROVE  snap'[s] <= holding'[s] + Cardinality(Fresh(s)')
  <2>1. Fresh(s) \subseteq Fresh(s)'
    BY <1>3, SpanGrows, SpansNext, Zenon DEF Fresh
  <2>2. Cardinality(Fresh(s)) <= Cardinality(Fresh(s)')
    BY <1>2, <2>1, FS_Subset, Zenon
  <2> QED
    BY <1>1, <1>2, <1>3, <2>2
<1> USE DEF shares, account, records
<1>4. holding[s] >= holding[s]
  BY <1>1
<1>5. CASE \/ Still \/ \E i \in Item : Commits(i) \/ \E o \in mine[i] : Sends(i, o)
           \/ \E o \in Order : EndUnfilled(o) \/ Reads(o)
  <2>1. UNCHANGED <<of, filled, snapped, holding, snap>>
    BY <1>5, Zenon DEF Still, Commits, Sends, EndUnfilled, Reads
  <2> QED
    BY <1>3, <1>4, <2>1, Zenon DEF Orders, Of
<1>6. ASSUME NEW i \in Item, NEW o \in Unused, NEW w \in Wanted(i), Creates(i, o, w)
      PROVE  snap'[s] <= holding'[s] + Cardinality(Fresh(s)')
  <2>1. UNCHANGED shares /\ of' = [of EXCEPT ![o] = w]
    BY <1>6, Zenon DEF Creates, Create
  <2>2. \A p \in Orders("sell", s) : p # o /\ of'[p] = of[p]
    BY <1>0, <2>1, Zenon DEF Orders, Unused, Shape
  <2> QED
    BY <1>3, <1>4, <2>1, <2>2, Zenon DEF Orders, Of
<1>7. ASSUME NEW gone \in SUBSET Order, Drops(gone)
      PROVE  snap'[s] <= holding'[s] + Cardinality(Fresh(s)')
  <2>1. UNCHANGED shares /\ of' = [o \in Order |-> IF o \in gone THEN Blank ELSE of[o]]
    BY <1>7, Zenon DEF Drops
  <2>2. \A o \in gone : filled[o] = 0
    BY <1>7, Zenon DEF Drops, Fills
  <2>3. ASSUME NEW o \in Order, NEW n \in Nat,
               o \in Orders("sell", s), snapped[o] < n, n <= filled[o]
        PROVE  o \in Orders("sell", s)' /\ snapped'[o] < n /\ n <= filled'[o]
    <3>1. filled[o] # 0
      BY <2>3 DEF Fills
    <3>2. of'[o] = of[o]
      BY <2>1, <2>2, <3>1, Zenon
    <3> QED
      BY <2>1, <2>3, <3>2, ZenonT(60) DEF Orders, Of
  <2> QED
    BY <1>3, <1>4, <2>1, <2>3, Zenon
<1>8. ASSUME NEW o \in Order, Fill(o)
      PROVE  snap'[s] <= holding'[s] + Cardinality(Fresh(s)')
  <2>1. /\ broker[o] = "open"
        /\ filled' = [filled EXCEPT ![o] = filled[o] + 1]
        /\ UNCHANGED <<of, snapped, snap>>
    BY <1>8, Zenon DEF Fill
  <2>2. Orders("sell", s)' = Orders("sell", s) /\ of[o].side # "none"
    BY <1>0, <2>1, Zenon DEF Orders, Of, Recorded
  <2>3. /\ filled \in [Order -> Nat] /\ holding \in [Symbol -> Nat] /\ snapped \in [Order -> Nat]
        /\ filled[o] \in Nat /\ snapped[o] \in Nat /\ snapped[o] <= filled[o]
    BY Zenon DEF Fills
  <2>4. filled'[o] = filled[o] + 1 /\ \A p \in Order \ {o} : filled'[p] = filled[p]
    BY <2>1, <2>3, Zenon
  <2>5. ASSUME NEW p \in Order, NEW n \in Nat,
               p \in Orders("sell", s), snapped[p] < n, n <= filled[p]
        PROVE  p \in Orders("sell", s)' /\ snapped'[p] < n /\ n <= filled'[p]
    <3>1. CASE p = o
      BY <2>1, <2>2, <2>3, <2>4, <2>5, <3>1
    <3>2. CASE p # o
      BY <2>1, <2>2, <2>4, <2>5, <3>2, ZenonT(60)
    <3> QED
      BY <3>1, <3>2, Zenon
  <2>6. CASE o \notin Orders("sell", s)
    <3>1. holding'[s] >= holding[s]
      <4>1. of[o].side # "sell" \/ SymbolOf[of[o].item] # s
        BY <2>2, <2>6, ZenonT(60) DEF Orders, Of
      <4> QED
        BY <1>1, <1>8, <2>3, <4>1 DEF Fill
    <3> QED
      BY <1>3, <2>1, <2>5, <3>1, ZenonT(60)
  <2>7. CASE o \in Orders("sell", s)
    <3> DEFINE x == <<o, filled[o] + 1>>
    <3>1. holding'[s] = holding[s] - 1
      BY <1>8, <2>3, <2>7, Zenon DEF Fill, Orders, Of
    <3>2. Fresh(s) \cup {x} \subseteq Fresh(s)'
      <4>1. Fresh(s) \subseteq Fresh(s)'
        BY <2>5, SpanGrows, SpansNext, ZenonT(60) DEF Fresh
      <4>2. x \in Span(Orders("sell", s)', snapped', filled')
        BY <2>1, <2>2, <2>3, <2>4, <2>7 DEF Span
      <4> QED
        BY <4>1, <4>2, SpansNext, Zenon
    <3>3. x \notin Fresh(s)
      BY <2>3 DEF Fresh, Span
    <3>4. /\ IsFiniteSet(Fresh(s) \cup {x})
          /\ Cardinality(Fresh(s) \cup {x}) = Cardinality(Fresh(s)) + 1
      BY <1>2, <3>3, FS_AddElement, Zenon
    <3>5. Cardinality(Fresh(s) \cup {x}) <= Cardinality(Fresh(s)')
      BY <1>2, <3>2, FS_Subset, Zenon
    <3>6. snap'[s] = snap[s]
      BY <2>1, Zenon
    <3> QED
      BY <1>1, <1>2, <3>1, <3>4, <3>5, <3>6
  <2> QED
    BY <2>6, <2>7, Zenon
<1>9. ASSUME NEW t \in Symbol, ReadPosition(t)
      PROVE  snap'[s] <= holding'[s] + Cardinality(Fresh(s)')
  <2>1. /\ snap' = [snap EXCEPT ![t] = holding[t]]
        /\ snapped' = [o \in Order |-> IF Of(o, "buy", t) \/ Of(o, "sell", t)
                                       THEN filled[o] ELSE snapped[o]]
        /\ UNCHANGED <<of, filled, holding>>
    BY <1>9, ZenonT(60) DEF ReadPosition
  <2>2. CASE t = s
    <3>1. snap'[s] = holding'[s]
      BY <2>1, <2>2, Zenon DEF Fills
    <3> QED
      BY <1>1, <1>2, <3>1
  <2>3. CASE t # s
    <3>1. snap'[s] = snap[s]
      BY <2>1, <2>3, Zenon DEF Fills
    <3>2. \A o \in Orders("sell", s) : snapped'[o] = snapped[o]
      BY <2>1, <2>3, Zenon DEF Orders, Of
    <3>3. Orders("sell", s)' = Orders("sell", s)
      BY <2>1, Zenon DEF Orders, Of
    <3> QED
      BY <1>3, <1>4, <2>1, <3>1, <3>2, <3>3, ZenonT(60)
  <2> QED
    BY <2>2, <2>3, Zenon
<1> QED
  BY <1>5, <1>6, <1>7, <1>8, <1>9, StepKinds, ZenonT(60)

(***************************************************************************)
(* The guard lets an order through: what it counts as taken covers, share  *)
(* by share, what the broker has still to sell and what was sold since the *)
(* snapshot, so the account holds what the order asks for on top.          *)
(***************************************************************************)
LEMMA GuardCovers ==
    ASSUME StateInv, Fills, Known, NEW i \in Item, NEW w \in Wanted(i),
           w.side = "sell", Passes(w), ~Blind(w), NEW s, s = SymbolOf[i]
    PROVE  LET open == {o \in Orders("sell", s) : broker[o] = "open"}
           IN  Cardinality(Span(open, filled, Qty)) + w.qty <= holding[s]
<1> DEFINE open == {o \in Orders("sell", s) : broker[o] = "open"}
           A == Span(open, filled, Qty)
           B == Fresh(s)
           none == [o \in Order |-> 0]
           T1 == Span(OpenSells(s), none, Qty)
           T2 == Span(PartialSells(s), seen, Qty)
           counted == OpenSells(s) \cup PartialSells(s)
<1>0. \A o \in Order : of[o].qty \in Nat /\ Qty[o] = of[o].qty
  BY Zenon DEF StateInv, Shape, OrderRecord, Qty
<1>1. s \in Symbol /\ w.item = i /\ w.qty \in Nat /\ w.qty > 0
  BY ItemAssumption, WantedIsRecord, WantedShares, Zenon
<1>2. /\ filled \in [Order -> Nat] /\ seen \in [Order -> Nat] /\ snapped \in [Order -> Nat]
      /\ snap[s] \in Nat /\ holding[s] \in Nat
      /\ \A o \in Order : seen[o] <= filled[o] /\ filled[o] <= of[o].qty
      /\ snap[s] <= holding[s] + Cardinality(B)
  BY <1>1, Zenon DEF Fills, Known
<1>3. /\ OpenSells(s) \subseteq Orders("sell", s) /\ PartialSells(s) \subseteq Orders("sell", s)
      /\ Orders("sell", s) \subseteq Order /\ open \subseteq Orders("sell", s)
      /\ OpenSells(s) \cap PartialSells(s) = {}
  BY Zenon DEF OpenSells, PartialSells, Orders, SellOpen
<1>4. none \in [Order -> Nat] /\ \A o \in Order : none[o] = 0
  OBVIOUS
<1>5. /\ IsFiniteSet(A) /\ IsFiniteSet(B) /\ IsFiniteSet(T1) /\ IsFiniteSet(T2)
      /\ Cardinality(A) \in Nat /\ Cardinality(B) \in Nat
      /\ Cardinality(T1) \in Nat /\ Cardinality(T2) \in Nat
  <2> HIDE DEF none
  <2> QED
    BY <1>1, <1>2, <1>3, <1>4, SellsFinite, ZenonT(60)
<1>6. w.qty + Cardinality(T1) + Cardinality(T2) <= snap[s]
  <2>1. Shares(OpenSells(s), none) = T1 /\ Shares(PartialSells(s), seen) = T2
    <3>1. OpenSells(s) \in SUBSET Order /\ PartialSells(s) \in SUBSET Order
      BY <1>3, Zenon
    <3> HIDE DEF none
    <3> QED
      BY <1>0, <1>2, <1>4, <3>1, SharesSpan, Zenon
  <2>2. Available(s) >= w.qty
    BY <1>1, Zenon DEF Passes
  <2>3. Available(s) = IF snap[s] > Cardinality(T1) + Cardinality(T2)
                       THEN snap[s] - (Cardinality(T1) + Cardinality(T2)) ELSE 0
    BY <2>1, ZenonT(60) DEF Available
  <2> HIDE DEF T1, T2
  <2> QED
    BY <1>1, <1>2, <1>5, <2>2, <2>3
<1>7. \A o \in Orders("sell", s) :
          /\ broker[o] = "open" => o \in counted
          /\ snapped[o] >= IF o \in counted THEN seen[o] ELSE filled[o]
  <2>1. ~Misses(i)
    BY <1>1, Zenon DEF Blind
  <2>2. \A o \in Orders("sell", s) :
            /\ broker[o] = "open" => o \in counted
            /\ ~(snapped[o] < IF o \in counted THEN seen[o] ELSE filled[o])
    BY <2>1, Zenon DEF Misses
  <2> HIDE DEF counted
  <2> QED
    BY <1>2, <1>3, <2>2
<1>8. A \cup B \subseteq T1 \cup T2
  <2>1. ASSUME NEW x \in A \cup B PROVE x \in T1 \cup T2
    <3>1. x \in Order \X Nat
      BY <2>1, Zenon DEF Span, Fresh
    <3>2. PICK o \in Order, n \in Nat : x = <<o, n>>
      BY <3>1
    <3>3. x[1] = o /\ x[2] = n
      BY <3>2, Zenon
    <3>4. o \in Orders("sell", s) /\ n <= of[o].qty /\ n > 0
      <4>1. CASE x \in A
        BY <1>0, <1>2, <1>3, <3>3, <4>1 DEF Span
      <4>2. CASE x \in B
        BY <1>0, <1>2, <1>3, <3>3, <4>2 DEF Span, Fresh
      <4> QED
        BY <2>1, <4>1, <4>2, ZenonT(60)
    <3>5. o \in counted /\ seen[o] < n
      <4>1. CASE x \in A
        <5>1. o \in open /\ filled[o] < n
          BY <3>3, <4>1, ZenonT(60) DEF Span
        <5> QED
          BY <1>2, <1>7, <3>4, <5>1
      <4>2. CASE x \in B
        <5>1. snapped[o] < n /\ n <= filled[o]
          BY <3>3, <4>2, Zenon DEF Span, Fresh
        <5>2. snapped[o] >= IF o \in counted THEN seen[o] ELSE filled[o]
          BY <1>7, <3>4, Zenon
        <5> HIDE DEF counted
        <5> QED
          BY <1>2, <5>1, <5>2
      <4> QED
        BY <2>1, <4>1, <4>2, ZenonT(60)
    <3>6. CASE o \in OpenSells(s)
      <4>1. none[o] < n /\ n <= Qty[o]
        BY <1>0, <1>4, <3>4, Zenon
      <4> HIDE DEF none
      <4> QED
        BY <3>1, <3>3, <3>6, <4>1, Zenon DEF Span
    <3>7. CASE o \in PartialSells(s)
      BY <1>0, <3>1, <3>3, <3>4, <3>5, <3>7, Zenon DEF Span
    <3> QED
      BY <3>5, <3>6, <3>7, Zenon
  <2> HIDE DEF A, B, T1, T2
  <2> QED
    BY <2>1, Zenon
<1>9. A \cap B = {}
  <2>1. ASSUME NEW x \in A, x \in B PROVE FALSE
    <3>1. /\ x[1] \in Order /\ x[2] \in Nat
          /\ filled[x[1]] < x[2] /\ x[2] <= filled[x[1]]
      BY <2>1, Zenon DEF Span, Fresh
    <3> QED
      BY <1>2, <3>1
  <2> HIDE DEF A, B
  <2> QED
    BY <2>1, Zenon
<1>10. T1 \cap T2 = {}
  <2>1. ASSUME NEW x \in T1, x \in T2 PROVE FALSE
    BY <1>3, <2>1, Zenon DEF Span
  <2> HIDE DEF T1, T2
  <2> QED
    BY <2>1, Zenon
<1> HIDE DEF A, B, T1, T2, none, counted
<1>11. Cardinality({}) = 0
  BY FS_EmptySet, Zenon
<1>12. /\ Cardinality(A \cup B) = Cardinality(A) + Cardinality(B)
       /\ Cardinality(T1 \cup T2) = Cardinality(T1) + Cardinality(T2)
       /\ IsFiniteSet(T1 \cup T2)
  <2>1. Cardinality(A \cup B) = Cardinality(A) + Cardinality(B) - Cardinality(A \cap B)
    BY <1>5, FS_Union, Zenon
  <2>2. /\ Cardinality(T1 \cup T2) = Cardinality(T1) + Cardinality(T2) - Cardinality(T1 \cap T2)
        /\ IsFiniteSet(T1 \cup T2)
    BY <1>5, FS_Union, Zenon
  <2>3. Cardinality(A \cap B) = 0 /\ Cardinality(T1 \cap T2) = 0
    BY <1>9, <1>10, <1>11, Zenon
  <2> QED
    BY <1>5, <2>1, <2>2, <2>3
<1>13. Cardinality(A \cup B) <= Cardinality(T1 \cup T2)
  BY <1>8, <1>12, FS_Subset, ZenonT(60)
<1>14. Cardinality(A) + w.qty <= holding[s]
  BY <1>1, <1>2, <1>5, <1>6, <1>12, <1>13
<1> QED
  BY <1>14, Zenon DEF A

\* An order that is created unchecked is not due; one that is checked is covered.
LEMMA CreateCovered ==
    ASSUME StateInv, Fills, Known, NEW i \in Item, NEW o \in Unused, NEW w \in Wanted(i),
           Creates(i, o, w), NEW s \in Symbol, Covered(s)
    PROVE  Covered(s)'
<1>0. Shape /\ Owned /\ Recorded
  BY Zenon DEF StateInv
<1>1. /\ o \in Order /\ of[o].side = "none" /\ broker[o] = "none"
      /\ task[i] = "deciding" /\ of' = [of EXCEPT ![o] = w]
      /\ mine' = [mine EXCEPT ![i] = {o}]
      /\ UNCHANGED <<broker, filled, holding>>
  BY <1>0, Zenon DEF Unused, Recorded, Creates, Step, Create, shares
<1>2. mine[i] = {}
  BY <1>0, <1>1, Zenon DEF Owned
<1>3. /\ of'[o] = w /\ \A p \in Order \ {o} : of'[p] = of[p] /\ Qty'[p] = Qty[p]
      /\ \A j \in Item \ {i} : mine'[j] = mine[j]
      /\ mine'[i] = {o}
  BY <1>0, <1>1, Zenon DEF Shape, Qty
<1>4. \A p \in Order \ {o} : Pending(p)' <=> Pending(p)
  BY <1>2, <1>3, Zenon DEF Pending
<1>5. \A p \in Orders("sell", s) : p \in Order /\ p # o /\ p \in Orders("sell", s)'
  BY <1>1, <1>3, Zenon DEF Orders, Of
<1>6. \A p \in Orders("sell", s)' : p = o \/ p \in Orders("sell", s)
  BY <1>3, Zenon DEF Orders, Of
<1>7. blind \subseteq blind' /\ \A p \in Order \ {o} : p \in blind' => p \in blind
  BY Zenon DEF Creates
<1>8. Tainted(s) => Tainted(s)'
  BY <1>1, <1>4, <1>5, <1>7, Zenon DEF Tainted
<1>9. \A p \in ToSell(s)' : p = o \/ p \in ToSell(s)
  BY <1>1, <1>4, <1>5, <1>6, <1>7, Zenon DEF ToSell
<1>10. CASE o \notin ToSell(s)'
  <2>1. \A p \in Order, n \in Nat :
            p \in ToSell(s)' /\ filled'[p] < n /\ n <= Qty'[p] =>
                p \in ToSell(s) /\ filled[p] < n /\ n <= Qty[p]
    BY <1>1, <1>3, <1>9, <1>10, Zenon
  <2>2. Due(s)' \subseteq Due(s)
    BY <2>1, SpanGrows, SpansNext, Zenon DEF Due
  <2>3. ToSell(s) \in SUBSET Orders("sell", s) /\ filled \in [Order -> Nat]
    BY Zenon DEF ToSell, Fills
  <2>4. IsFiniteSet(Due(s)) /\ Cardinality(Due(s)) \in Nat
    BY <2>3, SellsFinite, Zenon DEF Due
  <2>5. Cardinality(Due(s)') <= Cardinality(Due(s)) /\ Cardinality(Due(s)') \in Nat
    BY <2>2, <2>4, FS_Subset, FS_CardinalityType, Zenon
  <2>6. holding[s] \in Nat
    BY Zenon DEF Fills
  <2>7. Cardinality(Due(s)) <= holding[s] => Cardinality(Due(s)') <= holding'[s]
    BY <1>1, <2>4, <2>5, <2>6
  <2> QED
    BY <1>8, <2>7, Zenon DEF Covered
<1>11. CASE o \in ToSell(s)'
  <2> DEFINE open == {p \in Orders("sell", s) : broker[p] = "open"}
             A == Span(open, filled, Qty)
             N == {o} \X (1 .. w.qty)
  <2>1. /\ w.side = "sell" /\ SymbolOf[w.item] = s /\ o \notin blind'
    BY <1>3, <1>11, Zenon DEF ToSell, Orders, Of
  <2>2. Passes(w) /\ ~Blind(w)
    BY <2>1, Zenon DEF Creates
  <2>3. w.item = i /\ w.qty \in Nat /\ w.qty > 0
    BY WantedIsRecord, WantedShares, Zenon
  <2>4. Cardinality(A) + w.qty <= holding[s]
    BY <2>1, <2>2, <2>3, GuardCovers, Zenon
  <2>5. \A p \in Orders("sell", s) : ~Pending(p)
    <3>1. ~Misses(i)
      BY <2>1, <2>2, <2>3, Zenon DEF Blind
    <3>2. \A j \in Item \ {i} : task[j] \in {"guarded", "sent"} =>
              ~\E p \in mine[j] : Of(p, "sell", s)
      BY <2>1, <2>3, <3>1, Zenon DEF Misses
    <3>3. \A j \in Item : \A p \in mine[j] : task[j] \in {"guarded", "sent"}
      BY <1>0, Zenon DEF Owned
    <3> QED
      BY <1>2, <3>2, <3>3, Zenon DEF Pending, Orders
  <2>6. Due(s)' \subseteq A \cup N
    <3> SUFFICES ASSUME NEW x \in Span(ToSell(s)', filled', Qty') PROVE x \in A \cup N
      BY SpansNext, Zenon
    <3>1. PICK p \in Order, n \in Nat : x = <<p, n>>
      BY DEF Span
    <3>2. p \in ToSell(s)' /\ filled[p] < n /\ n <= Qty'[p]
      BY <1>1, <3>1, Zenon DEF Span
    <3>3. CASE p = o
      <4>1. n <= w.qty /\ filled[p] \in Nat
        BY <1>1, <1>3, <3>2, <3>3, ZenonT(60) DEF Qty, Fills
      <4>2. n \in 1 .. w.qty
        BY <2>3, <3>2, <4>1
      <4> QED
        BY <3>1, <3>3, <4>2, Zenon
    <3>4. CASE p # o
      <4>1. p \in open /\ n <= Qty[p]
        BY <1>3, <1>9, <2>5, <3>2, <3>4, ZenonT(60) DEF ToSell
      <4> QED
        BY <3>1, <3>2, <4>1, Zenon DEF Span
    <3> QED
      BY <3>3, <3>4, Zenon
  <2>7. open \in SUBSET Orders("sell", s) /\ filled \in [Order -> Nat] /\ holding[s] \in Nat
    BY Zenon DEF Fills
  <2>8. IsFiniteSet(A) /\ Cardinality(A) \in Nat
    BY <2>7, SellsFinite, Zenon
  <2>9. IsFiniteSet(N) /\ Cardinality(N) = w.qty
    <3> DEFINE q == w.qty
    <3>0. q \in Nat /\ q > 0
      BY <2>3, Zenon
    <3> HIDE DEF q
    <3>1. IsFiniteSet(1 .. q) /\ Cardinality(1 .. q) = q
      BY <3>0, FS_Interval
    <3>2. IsFiniteSet({o}) /\ Cardinality({o}) = 1
      BY FS_Singleton, Zenon
    <3>3. /\ IsFiniteSet({o} \X (1 .. q))
          /\ Cardinality({o} \X (1 .. q)) = Cardinality({o}) * Cardinality(1 .. q)
      BY <3>1, <3>2, FS_Product, ZenonT(60)
    <3>4. Cardinality({o} \X (1 .. q)) = q
      BY <3>0, <3>1, <3>2, <3>3
    <3> QED
      BY <3>3, <3>4, Zenon DEF q
  <2> HIDE DEF A, N
  <2>10. /\ IsFiniteSet(A \cup N)
         /\ Cardinality(A \cup N) = Cardinality(A) + Cardinality(N) - Cardinality(A \cap N)
         /\ Cardinality(A \cap N) \in Nat
    BY <2>8, <2>9, FS_Union, FS_Intersection, FS_CardinalityType, ZenonT(60)
  <2>11. Cardinality(Due(s)') <= Cardinality(A \cup N) /\ Cardinality(Due(s)') \in Nat
    BY <2>6, <2>10, FS_Subset, FS_CardinalityType, ZenonT(60)
  <2>12. Cardinality(Due(s)') <= holding'[s]
    BY <1>1, <2>3, <2>4, <2>7, <2>8, <2>9, <2>10, <2>11
  <2> QED
    BY <2>12, Zenon DEF Covered
<1> QED
  BY <1>10, <1>11, Zenon

\* No step makes the broker owe more than the account has.
LEMMA CoveredStep ==
    ASSUME StateInv, Fills, Known, [Next]_vars, NEW s \in Symbol, Covered(s)
    PROVE  Covered(s)'
<1>0. Shape /\ Owned /\ Recorded
  BY Zenon DEF StateInv
<1>1. /\ of \in [Order -> OrderRecord] /\ broker \in [Order -> {"none", "open", "filled", "ended"}]
      /\ \A o \in Order : of[o].qty \in Nat /\ Qty[o] = of[o].qty
      /\ mine \in [Item -> SUBSET Order]
  BY <1>0, Zenon DEF Shape, OrderRecord, Qty
<1>2. /\ IsFiniteSet(Due(s)) /\ Cardinality(Due(s)) \in Nat
      /\ holding \in [Symbol -> Nat] /\ holding[s] \in Nat
      /\ filled \in [Order -> Nat]
  <2>1. ToSell(s) \in SUBSET Orders("sell", s) /\ filled \in [Order -> Nat]
    BY Zenon DEF ToSell, Fills
  <2> QED
    BY <2>1, SellsFinite, Zenon DEF Due, Fills
<1>3. ASSUME Tainted(s) => Tainted(s)', holding'[s] \in Nat, holding'[s] >= holding[s],
             \A o \in ToSell(s)' : /\ o \in ToSell(s)
                                   /\ filled'[o] = filled[o] /\ of'[o] = of[o]
      PROVE  Covered(s)'
  <2>1. \A o \in ToSell(s)' : o \in Order /\ Qty'[o] = Qty[o]
    BY <1>3, Zenon DEF ToSell, Orders, Qty
  <2>2. \A o \in Order, n \in Nat :
            o \in ToSell(s)' /\ filled'[o] < n /\ n <= Qty'[o] =>
                o \in ToSell(s) /\ filled[o] < n /\ n <= Qty[o]
    BY <1>3, <2>1, Zenon
  <2>3. Due(s)' \subseteq Due(s)
    BY <2>2, SpanGrows, SpansNext, Zenon DEF Due
  <2>4. Cardinality(Due(s)') <= Cardinality(Due(s)) /\ Cardinality(Due(s)') \in Nat
    BY <1>2, <2>3, FS_Subset, FS_CardinalityType, ZenonT(60)
  <2>5. Cardinality(Due(s)) <= holding[s] => Cardinality(Due(s)') <= holding'[s]
    BY <1>2, <1>3, <2>4
  <2> QED
    BY <1>3, <2>5, Zenon DEF Covered
<1>4. holding[s] >= holding[s]
  BY <1>2
<1> USE DEF shares, account, records
<1>5. CASE Still \/ (\E o \in Order : Reads(o)) \/ (\E t \in Symbol : ReadPosition(t))
  <2>1. UNCHANGED <<of, mine, blind, broker, filled, holding>>
    BY <1>5, Zenon DEF Still, Reads, ReadPosition, cycle
  <2>2. /\ Orders("sell", s)' = Orders("sell", s)
        /\ \A o \in Order : Pending(o)' <=> Pending(o)
    BY <2>1, Zenon DEF Orders, Of, Pending
  <2>3. /\ Tainted(s) => Tainted(s)'
        /\ \A o \in ToSell(s)' : o \in ToSell(s)
    BY <2>1, <2>2, Zenon DEF Tainted, ToSell, Orders
  <2> QED
    BY <1>2, <1>3, <1>4, <2>1, <2>3, Zenon
<1>6. ASSUME NEW i \in Item, NEW o \in mine[i], Sends(i, o)
      PROVE  Covered(s)'
  <2>1. /\ o \in Order /\ Pending(o) /\ broker[o] = "none"
        /\ UNCHANGED <<of, mine, blind, filled, holding>>
    BY <1>0, <1>1, <1>6, Zenon DEF Sends, Step, Owned, Pending
  <2>2. \A p \in Order \ {o} : broker'[p] = broker[p]
    BY <1>1, <1>6, Zenon DEF Sends
  <2>3. /\ Orders("sell", s)' = Orders("sell", s)
        /\ \A p \in Order : Pending(p)' <=> Pending(p)
    BY <2>1, Zenon DEF Orders, Of, Pending
  <2>4. Tainted(s) => Tainted(s)'
    BY <2>1, <2>2, <2>3, Zenon DEF Tainted, Orders
  <2>5. \A p \in ToSell(s)' : p \in ToSell(s)
    BY <2>1, <2>2, <2>3, Zenon DEF ToSell, Orders
  <2> QED
    BY <1>2, <1>3, <1>4, <2>1, <2>4, <2>5, Zenon
<1>7. ASSUME NEW i \in Item, Commits(i)
      PROVE  Covered(s)'
  <2>1. /\ UNCHANGED <<of, blind, broker, filled, holding>>
        /\ \A j \in Item : mine'[j] \subseteq mine[j]
    BY <1>1, <1>7, Zenon DEF Commits, Done
  <2>2. /\ Orders("sell", s)' = Orders("sell", s)
        /\ \A p \in Order : Pending(p)' => Pending(p)
    BY <2>1, Zenon DEF Orders, Of, Pending
  <2>3. Tainted(s) => Tainted(s)'
    BY <2>1, <2>2, Zenon DEF Tainted, Orders
  <2>4. \A p \in ToSell(s)' : p \in ToSell(s)
    BY <2>1, <2>2, Zenon DEF ToSell, Orders
  <2> QED
    BY <1>2, <1>3, <1>4, <2>1, <2>3, <2>4, Zenon
<1>8. ASSUME NEW gone \in SUBSET Order, Drops(gone)
      PROVE  Covered(s)'
  <2>0. Blank.side = "none"
    BY Zenon DEF Blank
  <2>1. /\ \A o \in gone : Pending(o) /\ broker[o] = "none"
        /\ \A o \in Order : of'[o] = IF o \in gone THEN Blank ELSE of[o]
        /\ blind' = blind \ gone
        /\ \A o \in Order : Pending(o)' => Pending(o)
        /\ UNCHANGED <<broker, filled, holding>>
    BY <1>8, Zenon DEF Drops
  <2>2. \A o \in Orders("sell", s)' : o \in Orders("sell", s) /\ o \notin gone
    BY <2>1, <2>0, Zenon DEF Orders, Of
  <2>3. \A o \in Orders("sell", s) : o \in gone \/ o \in Orders("sell", s)'
    BY <2>1, Zenon DEF Orders, Of
  <2>4. Tainted(s) => Tainted(s)'
    BY <2>1, <2>3, Zenon DEF Tainted, Orders
  <2>5. \A o \in ToSell(s)' : o \in Order /\ o \in ToSell(s) /\ of'[o] = of[o]
    BY <2>1, <2>2, Zenon DEF ToSell, Orders
  <2> QED
    BY <1>2, <1>3, <1>4, <2>1, <2>4, <2>5, Zenon
<1>9. ASSUME NEW o \in Order, EndUnfilled(o)
      PROVE  Covered(s)'
  <2>1. UNCHANGED <<of, mine, blind, filled, holding>> /\ broker' = [broker EXCEPT ![o] = "ended"]
    BY <1>9, Zenon DEF EndUnfilled, cycle
  <2>2. \A p \in Order : broker'[p] = broker[p] \/ broker'[p] = "ended"
    BY <1>1, <2>1, Zenon
  <2>3. /\ Orders("sell", s)' = Orders("sell", s)
        /\ \A p \in Order : Pending(p)' <=> Pending(p)
    BY <2>1, Zenon DEF Orders, Of, Pending
  <2>4. Tainted(s) => Tainted(s)'
    BY <2>1, <2>2, <2>3, Zenon DEF Tainted, Orders
  <2>5. \A p \in ToSell(s)' : p \in ToSell(s)
    BY <2>1, <2>2, <2>3, Zenon DEF ToSell, Orders
  <2> QED
    BY <1>2, <1>3, <1>4, <2>1, <2>4, <2>5, Zenon
<1>10. ASSUME NEW o \in Order, Fill(o)
       PROVE  Covered(s)'
  <2>1. /\ broker[o] = "open"
        /\ filled' = [filled EXCEPT ![o] = filled[o] + 1]
        /\ UNCHANGED <<of, mine, blind>>
    BY <1>10, Zenon DEF Fill, cycle
  <2>2. /\ broker'[o] \in {"open", "filled"}
        /\ \A p \in Order \ {o} : broker'[p] = broker[p] /\ filled'[p] = filled[p]
        /\ filled'[o] = filled[o] + 1
    BY <1>1, <1>2, <1>10, <2>1, Zenon DEF Fill
  <2>3. /\ Orders("sell", s)' = Orders("sell", s) /\ Qty' = Qty
        /\ \A p \in Order : Pending(p)' <=> Pending(p)
        /\ of[o].side # "none"
    BY <1>0, <2>1, Zenon DEF Orders, Of, Pending, Qty, Recorded
  <2>4. Tainted(s) => Tainted(s)'
    BY <2>1, <2>2, <2>3, Zenon DEF Tainted, Orders
  <2>5. \A p \in ToSell(s)' : p \in ToSell(s)
    BY <2>1, <2>2, <2>3, Zenon DEF ToSell, Orders
  <2>6. CASE o \notin Orders("sell", s)
    <3>1. holding'[s] \in Nat /\ holding'[s] >= holding[s]
      <4>1. of[o].side # "sell" \/ SymbolOf[of[o].item] # s
        BY <2>3, <2>6, Zenon DEF Orders, Of
      <4> QED
        BY <1>2, <1>10, <4>1 DEF Fill
    <3>2. \A p \in ToSell(s)' : p \in Order /\ p # o
      BY <2>3, <2>6, Zenon DEF ToSell, Orders
    <3> QED
      BY <1>3, <2>1, <2>2, <2>4, <2>5, <3>1, <3>2, ZenonT(60)
  <2>7. CASE o \in Orders("sell", s) /\ o \in blind
    BY <2>1, <2>2, <2>3, <2>7, Zenon DEF Tainted, Covered
  <2>8. CASE o \in Orders("sell", s) /\ o \notin blind
    <3> DEFINE x == <<o, filled[o] + 1>>
    <3>1. o \in ToSell(s) /\ filled[o] \in Nat /\ filled[o] < of[o].qty
      BY <2>1, <2>8, Zenon DEF ToSell, Fills
    <3>2. x \in Due(s)
      BY <1>1, <3>1 DEF Due, Span
    <3>3. Due(s)' \subseteq Due(s)
      <4>1. ASSUME NEW p \in Order, NEW n \in Nat,
                   p \in ToSell(s)', filled'[p] < n, n <= Qty'[p]
            PROVE  p \in ToSell(s) /\ filled[p] < n /\ n <= Qty[p]
        <5>1. CASE p = o
          BY <2>2, <2>3, <2>5, <3>1, <4>1, <5>1
        <5>2. CASE p # o
          BY <2>2, <2>3, <2>5, <4>1, <5>2, Zenon
        <5> QED
          BY <5>1, <5>2, ZenonT(60)
      <4> QED
        BY <4>1, SpanGrows, SpansNext, Zenon DEF Due
    <3>4. x \notin Due(s)'
      <4>1. x \notin Span(ToSell(s)', filled', Qty')
        BY <2>2, <3>1 DEF Span
      <4> QED
        BY <4>1, SpansNext, Zenon
    <3> HIDE DEF x
    <3>5. /\ IsFiniteSet(Due(s) \ {x})
          /\ Cardinality(Due(s) \ {x}) = Cardinality(Due(s)) - 1
      BY <1>2, <3>2, FS_RemoveElement, Zenon
    <3>6. Due(s)' \subseteq Due(s) \ {x}
      BY <3>3, <3>4, Zenon
    <3>7. Cardinality(Due(s)') <= Cardinality(Due(s) \ {x}) /\ Cardinality(Due(s)') \in Nat
      BY <3>5, <3>6, FS_Subset, FS_CardinalityType, Zenon
    <3>8. holding'[s] = holding[s] - 1
      BY <1>2, <1>10, <2>8, Zenon DEF Fill, Orders, Of
    <3>9. Cardinality(Due(s)) <= holding[s] => Cardinality(Due(s)') <= holding'[s]
      BY <1>2, <3>5, <3>7, <3>8
    <3> QED
      BY <2>4, <3>9, Zenon DEF Covered
  <2> QED
    BY <2>6, <2>7, <2>8, Zenon
<1>11. ASSUME NEW i \in Item, NEW o \in Unused, NEW w \in Wanted(i), Creates(i, o, w)
       PROVE  Covered(s)'
  BY <1>11, CreateCovered, Zenon
<1> QED
  BY <1>5, <1>6, <1>7, <1>8, <1>9, <1>10, <1>11, StepKinds, Zenon

\* The snapshots are explained and the checked sells are covered.
SellInv == Known /\ \A s \in Symbol : Covered(s)

LEMMA SellInit == Init => SellInv
<1> SUFFICES ASSUME Init, NEW s \in Symbol
             PROVE  snap[s] <= holding[s] + Cardinality(Fresh(s)) /\ Covered(s)
  BY Zenon DEF SellInv, Known
<1>1. Orders("sell", s) = {}
  BY Zenon DEF Init, Orders, Blank
<1>2. Fresh(s) = {} /\ Due(s) = {}
  BY <1>1, Zenon DEF Fresh, Due, ToSell, Span
<1>3. Cardinality(Fresh(s)) = 0 /\ Cardinality(Due(s)) = 0
  BY <1>2, FS_EmptySet, Zenon
<1>4. snap[s] = holding[s] /\ holding[s] \in Nat
  BY ItemAssumption, Zenon DEF Init
<1>5. snap[s] <= holding[s] + Cardinality(Fresh(s)) /\ Cardinality(Due(s)) <= holding[s]
  BY <1>3, <1>4
<1> QED
  BY <1>5, Zenon DEF Covered

\* Without unchecked sells, what the broker works on is part of what is due.
LEMMA SellSuffices == StateInv /\ Fills /\ SellInv => SellsAreCovered
<1> SUFFICES ASSUME StateInv, Fills, SellInv, NEW s \in Symbol,
                    Orders("sell", s) \cap blind = {}
             PROVE  LET open == {o \in Orders("sell", s) : broker[o] = "open"}
                    IN  Cardinality(Shares(open, filled)) <= holding[s]
  BY Zenon DEF SellsAreCovered
<1> DEFINE open == {o \in Orders("sell", s) : broker[o] = "open"}
<1>1. open \in SUBSET Order /\ filled \in [Order -> Nat] /\ holding[s] \in Nat
  BY Zenon DEF Orders, Fills
<1>2. \A o \in Order : of[o].qty \in Nat
  BY Zenon DEF StateInv, Shape, OrderRecord
<1>3. Shares(open, filled) = Span(open, filled, Qty)
  BY <1>1, <1>2, SharesSpan, Zenon
<1>4. \A o \in open : o \in ToSell(s)
  BY Zenon DEF ToSell
<1>5. Span(open, filled, Qty) \subseteq Due(s)
  BY <1>4, Zenon DEF Due, Span
<1>6. Cardinality(Due(s)) <= holding[s]
  BY Zenon DEF SellInv, Covered, Tainted
<1>7. ToSell(s) \in SUBSET Orders("sell", s)
  BY Zenon DEF ToSell
<1>8. IsFiniteSet(Due(s)) /\ Cardinality(Due(s)) \in Nat
  BY <1>1, <1>7, SellsFinite, Zenon DEF Due
<1>9. /\ Cardinality(Span(open, filled, Qty)) <= Cardinality(Due(s))
      /\ Cardinality(Span(open, filled, Qty)) \in Nat
  BY <1>5, <1>8, FS_Subset, FS_CardinalityType, Zenon
<1>10. Cardinality(Span(open, filled, Qty)) <= holding[s]
  BY <1>1, <1>6, <1>8, <1>9
<1> QED
  BY <1>3, <1>10, Zenon

(***************************************************************************)
(* The sell guard, for any positions, any number of orders and any         *)
(* interleaving of guards, fills, syncs and position reads: when every     *)
(* sell of a symbol was checked on complete input, what the broker has     *)
(* still to sell is in the account.                                        *)
(***************************************************************************)
THEOREM SellsStayCovered == Spec => []SellsAreCovered
<1>1. StateInv /\ Fills /\ Carries /\ StateInv' /\ (Fills /\ Carries)' /\ SellInv /\ [Next]_vars
         => SellInv'
  BY KnownStep, CoveredStep, Zenon DEF SellInv
<1> QED
  BY <1>1, SellInit, SellSuffices, StateHolds, SharesHold, PTL DEF Spec
=============================================================================
