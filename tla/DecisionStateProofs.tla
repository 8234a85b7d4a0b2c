------------------------ MODULE DecisionStateProofs ------------------------
(***************************************************************************)
(* The invariant that ties the transactions, the rows and the phases of    *)
(* DecisionCycle together, and that every step keeps it.                   *)
(* DecisionCycleProofs rests on it.                                        *)
(***************************************************************************)
EXTENDS DecisionCycle, FiniteSetTheorems, TLAPS

OrderRecord ==
    [item : Item \cup {"none"}, side : {"none", "buy", "sell"}, qty : Nat]

TaskStep == {"none", "waiting", "parked", "candidate", "done"} \cup Running

Shape ==
    /\ submits \in Nat
    /\ budget \in Nat
    /\ consumed \in Nat
    /\ task \in [Item -> TaskStep]
    /\ mine \in [Item -> SUBSET Order]
    /\ of \in [Order -> OrderRecord]
    /\ draft \in [Order -> Row \cup {"ambiguous"}]
    /\ row \in [Order -> Row]
    /\ broker \in [Order -> {"none", "open", "filled", "ended"}]
    /\ fate \in [Order -> {"fine", "unknown", "denied", "lost", "sibling"}]

\* A transaction is about one order of its own, which only exists there.
Owned ==
    \A i \in Item : \A o \in mine[i] :
        /\ task[i] \in {"guarded", "sent"}
        /\ of[o].item = i
        /\ of[o].side # "none"
        /\ of[o].side = "buy" => phase = "pass2"
        /\ row[o] = "none"
        /\ fate[o] = "fine"
        /\ \A p \in mine[i] : p = o
        /\ task[i] = "guarded" => broker[o] = "none"
        /\ broker[o] # "none" => draft[o] \in {"submitted", "ambiguous", "pending_submit", "closed"}

\* What the phases of a process allow: only held positions are submitted in
\* pass 1 and in the dispatch phase, and pass 2 takes one candidate at a time.
Phases ==
    /\ phase = "idle" => \A i \in Item : mine[i] = {}
    /\ phase # "pass2" => consumed = 0
    /\ phase \in {"pass1", "dispatch"} =>
           \A i \in Core : task[i] \in {"analysing", "candidate", "done"}
    /\ phase = "idle" => \A i \in Item : task[i] = "none"
    /\ phase = "pass2" =>
           \A i \in Item : task[i] \in Running =>
               /\ consumed < budget
               /\ \A j \in Item : task[j] \in Running => j = i
    /\ phase = "pass2" =>
           \A i \in Item : task[i] \in {"candidate", "done"} \cup Running
    /\ phase \in {"idle", "pass1", "dispatch", "pass2"}

\* An order without a record is unknown everywhere; a BUY that the broker has,
\* whose transaction is over and whose row is reliable is in a status that the
\* scheduler counts; the row of one that was rolled back or denied says so.
Recorded ==
    \A o \in Order :
        /\ of[o].side = "none" => broker[o] = "none" /\ row[o] = "none" /\ fate[o] = "fine"
        /\ (/\ of[o].side = "buy"
            /\ broker[o] \in {"open", "filled"} /\ fate[o] = "fine"
            /\ \A i \in Item : o \notin mine[i]) => row[o] \in BudgetConsuming
        /\ fate[o] \in {"denied", "lost", "sibling"} => row[o] \in {"none", "closed"}

\* The BUY orders at the broker whose transaction is over.
Settled ==
    {o \in Order : /\ of[o].side = "buy"
                   /\ broker[o] \in {"open", "filled"}
                   /\ fate[o] = "fine"
                   /\ \A i \in Item : o \notin mine[i]}

StateInv == Shape /\ Owned /\ Phases /\ Recorded

-----------------------------------------------------------------------------
\* Sets of orders are finite, and a smaller one has no more members.
LEMMA OrdersFinite ==
    ASSUME NEW S \in SUBSET Order, NEW T \in SUBSET S
    PROVE  /\ IsFiniteSet(S)
           /\ Cardinality(S) \in Nat
           /\ Cardinality(T) \in Nat
           /\ Cardinality(T) <= Cardinality(S)
<1>1. IsFiniteSet(S)
  BY BoundAssumption, FS_Subset, Zenon
<1>2. IsFiniteSet(T) /\ Cardinality(T) <= Cardinality(S)
  BY <1>1, FS_Subset, Zenon
<1> QED
  BY <1>1, <1>2, FS_CardinalityType, Zenon

\* One more order adds at most one to the count.
LEMMA OneMoreOrder ==
    ASSUME NEW S \in SUBSET Order, NEW T \in SUBSET Order, NEW o \in Order,
           T \subseteq S \cup {o}
    PROVE  /\ Cardinality(S) \in Nat
           /\ Cardinality(T) \in Nat
           /\ Cardinality(T) <= Cardinality(S) + 1
<1>1. IsFiniteSet(S) /\ Cardinality(S) \in Nat
  BY OrdersFinite, Zenon
<1>2. IsFiniteSet(S \cup {o}) /\ Cardinality(S \cup {o}) =
         IF o \in S THEN Cardinality(S) ELSE Cardinality(S) + 1
  BY <1>1, FS_AddElement, Zenon
<1>3. Cardinality(T) \in Nat /\ Cardinality(T) <= Cardinality(S \cup {o})
  BY OrdersFinite, Zenon
<1> QED
  BY <1>1, <1>2, <1>3

\* What the sizing may ask for is an order record.
LEMMA WantedIsRecord ==
    ASSUME NEW i \in Item, NEW w \in Wanted(i)
    PROVE  /\ w \in OrderRecord
           /\ w.item = i
           /\ w.side \in {"buy", "sell"}
           /\ w.side = "buy" => i \in Core
<1>1. SymbolOf[i] \in Symbol /\ Position[SymbolOf[i]] \in Nat
  BY ItemAssumption, Zenon
<1> QED
  BY <1>1 DEF Wanted, OrderRecord

-----------------------------------------------------------------------------
(***************************************************************************)
(* The state stays consistent.                                             *)
(***************************************************************************)
LEMMA StateInit == Init => StateInv
<1> SUFFICES ASSUME Init PROVE StateInv
  OBVIOUS
<1>1. Shape
  BY Zenon DEF Init, Shape, OrderRecord, Blank, TaskStep, Row
<1>2. Owned /\ Phases
  <2>1. \A i \in Item : mine[i] = {} /\ task[i] = "none"
    BY Zenon DEF Init
  <2>2. phase = "idle" /\ consumed = 0
    BY Zenon DEF Init
  <2> QED
    BY <2>1, <2>2, Zenon DEF Owned, Phases
<1>3. Recorded
  BY Zenon DEF Init, Recorded, Blank
<1> QED
  BY <1>1, <1>2, <1>3, Zenon DEF StateInv

\* The scheduler starts a process and sees it end.
LEMMA SchedulerKeepsState ==
    ASSUME StateInv, StartCycle \/ EndCycle
    PROVE  StateInv' /\ Settled' \subseteq Settled
<1> USE DEF StateInv
<1>1. CASE StartCycle
  <2>0. DbSubmitCounts \subseteq Nat
    <3>1. {o \in Order : of[o].side = "buy" /\ row[o] \in BudgetConsuming} \in SUBSET Order
      OBVIOUS
    <3> QED
      BY <3>1, OrdersFinite, BoundAssumption, Zenon DEF DbSubmitCounts
  <2>1. Shape'
    <3>1. budget' \in Nat
      <4>1. PICK db \in DbSubmitCounts :
                budget' = IF Effective(db) < MaxGeneralBuy
                          THEN MaxGeneralBuy - Effective(db) ELSE 0
        BY <1>1, Zenon DEF StartCycle
      <4>2. Effective(db) \in Nat
        BY <2>0, Zenon DEF Effective, Shape
      <4> QED
        BY <4>1, <4>2, BoundAssumption
    <3>2. task' \in [Item -> TaskStep]
      BY <1>1, Zenon DEF StartCycle, TaskStep, Running
    <3> QED
      BY <1>1, <3>1, <3>2, Zenon DEF StartCycle, Shape, account, records
  <2>2. Owned'
    BY <1>1, Zenon DEF StartCycle, Phases, Owned
  <2>3. Phases'
    <3>1. phase' = "pass1" /\ consumed' = 0
      BY <1>1, Zenon DEF StartCycle, Phases
    <3>2. \A i \in Core : task'[i] \in {"analysing", "done"}
      BY <1>1, Zenon DEF StartCycle, Item
    <3> QED
      BY <3>1, <3>2, Zenon DEF Phases
  <2>4. Recorded'
    BY <1>1, Zenon DEF StartCycle, Recorded, account, records
  <2>5. Settled' = Settled
    BY <1>1, Zenon DEF StartCycle, Settled, account
  <2> QED
    BY <2>1, <2>2, <2>3, <2>4, <2>5, Zenon
<1>2. CASE EndCycle
  <2>1. Shape'
    BY <1>2 DEF EndCycle, NoProcess, Shape, account, records, TaskStep
  <2>2. Owned'
    BY <1>2, Zenon DEF EndCycle, NoProcess, Owned
  <2>3. Phases'
    BY <1>2, Zenon DEF EndCycle, NoProcess, Phases
  <2>4. \A i \in Item : mine[i] = {}
    BY <1>2 DEF EndCycle, Owned, Shape
  <2>5. Recorded'
    BY <1>2, <2>4, Zenon DEF EndCycle, Recorded, account, records
  <2>6. Settled' \subseteq Settled
    BY <1>2, <2>4, Zenon DEF EndCycle, Settled, account
  <2> QED
    BY <2>1, <2>2, <2>3, <2>5, <2>6, Zenon
<1> QED
  BY <1>1, <1>2, Zenon

\* A process that is stopped leaves no transaction, and no order that the
\* scheduler would have to count.
LEMMA StoppedKeepsState ==
    ASSUME StateInv, submits' \in Nat, NEW reason \in [Order -> {"lost", "sibling"}],
           Stopped(reason)
    PROVE  StateInv' /\ Settled' \subseteq Settled
<1> DEFINE open == UNION {mine[i] : i \in Item}
           gone == {o \in open : broker[o] = "none"}
<1> USE DEF StateInv
<1>1. /\ of' = [o \in Order |-> IF o \in gone THEN Blank ELSE of[o]]
      /\ draft' = [o \in Order |-> IF o \in open THEN "none" ELSE draft[o]]
      /\ fate' = [o \in Order |-> IF o \in open \ gone THEN reason[o] ELSE fate[o]]
      /\ UNCHANGED <<row, broker>>
  BY Zenon DEF Stopped, RolledBack, records, account
<1>2. \A o \in open : row[o] = "none" /\ fate[o] = "fine"
  BY DEF Owned
<1>3. Shape'
  <2>1. Blank \in OrderRecord /\ "none" \in Row
    BY Zenon DEF Blank, OrderRecord, Row
  <2>2. of' \in [Order -> OrderRecord]
    BY <1>1, <2>1, Zenon DEF Shape
  <2>3. draft' \in [Order -> Row \cup {"ambiguous"}]
    BY <1>1, <2>1, Zenon DEF Shape
  <2>4. fate' \in [Order -> {"fine", "unknown", "denied", "lost", "sibling"}]
    BY <1>1, Zenon DEF Shape
  <2> QED
    BY <1>1, <2>2, <2>3, <2>4, Zenon DEF Stopped, NoProcess, Shape, TaskStep
<1>4. Owned' /\ Phases'
  BY Zenon DEF Stopped, NoProcess, Owned, Phases
<1>5. Recorded'
  <2> SUFFICES ASSUME NEW o \in Order
               PROVE  /\ of[o].side' = "none" =>
                             broker[o]' = "none" /\ row[o]' = "none" /\ fate[o]' = "fine"
                      /\ (/\ of[o].side' = "buy"
                          /\ broker[o]' \in {"open", "filled"} /\ fate[o]' = "fine")
                             => row[o]' \in BudgetConsuming
                      /\ fate[o]' \in {"denied", "lost", "sibling"} =>
                             row[o]' \in {"none", "closed"}
    BY Zenon DEF Recorded
  <2>1. CASE o \in gone
    BY <1>1, <1>2, <2>1, Zenon DEF Blank
  <2>2. CASE o \in open \ gone
    BY <1>1, <2>2 DEF Owned
  <2>3. CASE o \notin open
    BY <1>1, <2>3, Zenon DEF Recorded
  <2> QED
    BY <2>1, <2>2, <2>3, Zenon
<1>6. Settled' \subseteq Settled
  <2> SUFFICES ASSUME NEW o \in Settled' PROVE o \in Settled
    OBVIOUS
  <2>1. o \in Order /\ o \notin open
    BY <1>1, Zenon DEF Settled, Blank
  <2> QED
    BY <1>1, <2>1, Zenon DEF Settled
<1> QED
  BY <1>3, <1>4, <1>5, <1>6, Zenon

\* The broker, the sync jobs and time.
LEMMA OutsideKeepsState ==
    ASSUME StateInv, Outside
    PROVE  StateInv' /\ Settled' \subseteq Settled
<1> USE DEF StateInv
<1>1. CASE \E o \in Order : Fill(o)
  <2>1. PICK o \in Order : Fill(o)
    BY <1>1, Zenon
  <2>2. /\ broker[o] = "open"
        /\ \E b \in {"open", "filled"} : broker' = [broker EXCEPT ![o] = b]
        /\ UNCHANGED <<submits, cycle, of, draft, row, fate>>
    BY <2>1, Zenon DEF Fill, records, Shape
  <2> QED
    BY <2>2 DEF cycle, Shape, Owned, Phases, Recorded, Settled
<1>2. CASE \E o \in Order : EndUnfilled(o)
  <2>1. PICK o \in Order : EndUnfilled(o)
    BY <1>2, Zenon
  <2>2. /\ broker[o] = "open"
        /\ broker' = [broker EXCEPT ![o] = "ended"]
        /\ UNCHANGED <<submits, cycle, of, draft, row, fate>>
    BY <2>1, Zenon DEF EndUnfilled, records
  <2> QED
    BY <2>2 DEF cycle, Shape, Owned, Phases, Recorded, Settled
<1>3. CASE \E o \in Order : Sync(o)
  <2>1. PICK o \in Order : Sync(o)
    BY <1>3, Zenon
  <2>2. PICK r \in {"filled", "closed", "partially_filled", "submitted"} :
            /\ row' = [row EXCEPT ![o] = r]
            /\ broker[o] \in {"open", "filled"} => r # "closed"
    BY <2>1, Zenon DEF Sync, Shape
  <2>3. /\ row[o] \notin {"none", "closed"}
        /\ UNCHANGED <<submits, cycle, of, draft, broker, fate>>
    BY <2>1, Zenon DEF Sync, account
  <2>4. Shape'
    BY <2>2, <2>3, Zenon DEF cycle, Shape, Row
  <2>5. Owned'
    BY <2>2, <2>3 DEF cycle, Owned, Shape
  <2>6. Phases'
    BY <2>3, Zenon DEF cycle, Phases
  <2>7. Recorded'
    BY <2>2, <2>3, Zenon DEF cycle, Recorded, Shape, BudgetConsuming
  <2>8. Settled' = Settled
    BY <2>3, Zenon DEF cycle, Settled
  <2> QED
    BY <2>4, <2>5, <2>6, <2>7, <2>8, Zenon
<1>4. CASE \/ \E o \in Order : Unlock(o) \/ Age(o)
           \/ \E s \in Symbol : ReadPosition(s)
  <2>1. UNCHANGED <<submits, cycle, of, draft, row, broker, fate>>
    BY <1>4, Zenon DEF Unlock, Age, ReadPosition, records, account
  <2> QED
    BY <2>1 DEF cycle, Shape, Owned, Phases, Recorded, Settled
<1>5. CASE \E o \in Order : Doubt(o) \/ GiveUp(o)
  <2>1. PICK o \in Order : Doubt(o) \/ GiveUp(o)
    BY <1>5, Zenon
  <2>2. PICK r \in {"reconcile_required", "closed"}, f \in {"unknown", "denied"} :
            /\ row' = [row EXCEPT ![o] = r] /\ fate' = Fated(o, f)
            /\ r = "closed" \/ (f = "unknown" /\ row[o] \in {"submitted", "partially_filled"})
    BY <2>1, Zenon DEF Doubt, GiveUp
  <2>3. /\ row[o] # "none"
        /\ UNCHANGED <<submits, cycle, of, draft, broker>>
    BY <2>1, Zenon DEF Doubt, GiveUp, account
  <2>4. /\ fate' = [fate EXCEPT ![o] = fate'[o]]
        /\ fate'[o] \in {"fine", "unknown", "denied", "lost", "sibling"}
        /\ of[o].side = "buy" /\ broker[o] # "none" => fate'[o] # "fine"
        /\ of[o].side = "none" => fate'[o] = fate[o]
        /\ fate'[o] \in {fate[o], f}
    BY <2>2, Zenon DEF Fated, Shape
  <2>5. \A i \in Item : o \notin mine[i]
    BY <2>3 DEF Owned
  <2>6. Shape'
    BY <2>2, <2>3, <2>4, Zenon DEF cycle, Shape, Row
  <2>7. Owned'
    BY <2>2, <2>3, <2>4, <2>5 DEF cycle, Owned, Shape
  <2>8. Phases'
    BY <2>3, Zenon DEF cycle, Phases
  <2>9. Recorded'
    BY <2>2, <2>3, <2>4 DEF cycle, Recorded, Shape
  <2>10. Settled' \subseteq Settled
    BY <2>3, <2>4 DEF cycle, Settled, Shape
  <2> QED
    BY <2>6, <2>7, <2>8, <2>9, <2>10, Zenon
<1> QED
  BY <1>1, <1>2, <1>3, <1>4, <1>5, Zenon DEF Outside

\* A coroutine moves on and no order is touched.
LEMMA MoveKeepsState ==
    ASSUME StateInv, NEW i \in Item, NEW to \in TaskStep \ {"guarded", "sent"},
           task[i] \notin {"guarded", "sent"},
           task' = [task EXCEPT ![i] = to],
           mine' = mine \/ mine' = [mine EXCEPT ![i] = {}],
           phase # "idle",
           i \in Core /\ phase \in {"pass1", "dispatch"} =>
               to \in {"analysing", "candidate", "done"},
           phase = "pass2" => \/ to \in {"candidate", "done"}
                              \/ /\ to \in Running /\ consumed < budget
                                 /\ \A j \in Item : task[j] \notin Running,
           UNCHANGED <<submits, phase, budget, consumed, of, draft, row, broker, fate>>
    PROVE  StateInv' /\ Settled' \subseteq Settled
<1> USE DEF StateInv
<1>1. mine' = mine
  <2>1. mine[i] = {}
    BY Zenon DEF Owned, Shape
  <2> QED
    BY <2>1, Zenon DEF Shape
<1>2. Shape'
  BY <1>1, Zenon DEF Shape
<1>3. Owned'
  BY <1>1 DEF Owned, Shape
<1>4. Phases'
  BY <1>1 DEF Phases, Shape, Running
<1>5. Recorded'
  BY <1>1, Zenon DEF Recorded
<1>6. Settled' \subseteq Settled
  BY <1>1, Zenon DEF Settled
<1> QED
  BY <1>2, <1>3, <1>4, <1>5, <1>6, Zenon

\* An order is created by a coroutine that had none.
LEMMA CreateKeepsState ==
    ASSUME StateInv, NEW i \in Item, NEW w \in Wanted(i), NEW o \in Unused,
           Step(i, "deciding", "guarded"), Create(i, o, w),
           UNCHANGED <<submits, phase, budget, consumed, row, broker, fate>>
    PROVE  StateInv' /\ Settled' \subseteq Settled
<1> USE DEF StateInv
<1>1. /\ w \in OrderRecord /\ w.item = i /\ w.side # "none"
      /\ w.side = "buy" => phase = "pass2"
  <2>1. /\ w \in OrderRecord /\ w.item = i /\ w.side \in {"buy", "sell"}
        /\ w.side = "buy" => i \in Core
    BY WantedIsRecord, Zenon
  <2>2. i \in Core => phase = "pass2"
    BY Zenon DEF Phases, Step
  <2> QED
    BY <2>1, <2>2, Zenon
<1>2. /\ o \in Order /\ broker[o] = "none" /\ row[o] = "none" /\ fate[o] = "fine"
      /\ \A j \in Item : o \notin mine[j]
  BY DEF Unused, Recorded, Owned
<1>3. /\ task[i] = "deciding" /\ task' = [task EXCEPT ![i] = "guarded"]
      /\ of' = [of EXCEPT ![o] = w]
      /\ mine' = [mine EXCEPT ![i] = {o}]
      /\ draft' = [draft EXCEPT ![o] = "pending_submit"]
  BY Zenon DEF Step, Create
<1>4. Shape'
  BY <1>1, <1>2, <1>3, Zenon DEF Shape, TaskStep, Running, Row
<1>5. Owned'
  <2> SUFFICES ASSUME NEW j \in Item, NEW p \in mine'[j]
               PROVE  /\ task'[j] \in {"guarded", "sent"}
                      /\ of'[p].item = j
                      /\ of'[p].side # "none"
                      /\ of'[p].side = "buy" => phase = "pass2"
                      /\ row[p] = "none"
                      /\ fate[p] = "fine"
                      /\ \A q \in mine'[j] : q = p
                      /\ task'[j] = "guarded" => broker[p] = "none"
                      /\ broker[p] # "none" =>
                             draft'[p] \in {"submitted", "ambiguous", "pending_submit", "closed"}
    BY DEF Owned
  <2>1. CASE j = i
    BY <1>1, <1>2, <1>3, <2>1, Zenon DEF Shape
  <2>2. CASE j # i
    BY <1>2, <1>3, <2>2 DEF Shape, Owned
  <2> QED
    BY <2>1, <2>2, Zenon
<1>6. Phases'
  BY <1>3 DEF Phases, Shape, Running
<1>7. Recorded'
  <2>1. \A p \in Order \ {o} :
            of'[p] = of[p] /\ \A j \in Item : p \in mine[j] => p \in mine'[j]
    <3>1. mine[i] = {}
      BY <1>3, Zenon DEF Owned, Shape
    <3> QED
      BY <1>2, <1>3, <3>1, Zenon DEF Shape
  <2>2. of'[o].side # "none" /\ o \in mine'[i]
    BY <1>1, <1>2, <1>3, Zenon DEF Shape
  <2> QED
    BY <2>1, <2>2, Zenon DEF Recorded
<1>8. Settled' \subseteq Settled
  <2>1. mine[i] = {}
    BY <1>3, Zenon DEF Owned, Shape
  <2>2. o \notin Settled'
    BY <1>2, Zenon DEF Settled
  <2>3. \A p \in Order \ {o} :
            of'[p] = of[p] /\ \A j \in Item : p \in mine[j] => p \in mine'[j]
    BY <1>2, <1>3, <2>1 DEF Shape
  <2> QED
    BY <2>2, <2>3, Zenon DEF Settled
<1> QED
  BY <1>4, <1>5, <1>6, <1>7, <1>8, Zenon

\* An order is sent, or not; when the broker has it the draft says so.
LEMMA SettlesKeepsState ==
    ASSUME StateInv, NEW i \in Item, NEW o \in mine[i],
           NEW status \in Row \cup {"ambiguous"}, NEW at \in {"open", "none"},
           at = "open" => status \in {"submitted", "ambiguous", "pending_submit", "closed"},
           Settles(i, o, status, at)
    PROVE  StateInv' /\ Settled' \subseteq Settled
<1> USE DEF StateInv
<1>1. /\ o \in Order
      /\ task[i] = "guarded" /\ task' = [task EXCEPT ![i] = "sent"]
      /\ draft' = [draft EXCEPT ![o] = status]
      /\ broker' = [broker EXCEPT ![o] = at]
      /\ UNCHANGED <<submits, phase, budget, consumed, mine, of, row, fate>>
  BY Zenon DEF Settles, Step, Shape, records
<1>2. Shape'
  BY <1>1, Zenon DEF Shape, TaskStep, Running
<1>3. Owned'
  BY <1>1 DEF Owned, Shape
<1>4. Phases'
  BY <1>1 DEF Phases, Shape, Running
<1>5. Recorded'
  BY <1>1 DEF Recorded, Shape, Owned
<1>6. Settled' \subseteq Settled
  BY <1>1, ZenonT(60) DEF Settled, Shape
<1> QED
  BY <1>2, <1>3, <1>4, <1>5, <1>6, Zenon

\* A transaction commits: an order the broker has becomes one the scheduler
\* counts, unless its result is unknown.
LEMMA CommitKeepsState ==
    ASSUME StateInv, NEW i \in Item, Commit(i)
    PROVE  StateInv'
<1> USE DEF StateInv
<1>1. PICK o \in mine[i] :
          LET status == IF draft[o] = "ambiguous" THEN "reconcile_required" ELSE draft[o]
          IN  /\ row' = [row EXCEPT ![o] = status]
              /\ draft' = [draft EXCEPT ![o] = "none"]
              /\ fate' = IF draft[o] \in {"ambiguous", "pending_submit"}
                         THEN Fated(o, "unknown")
                         ELSE IF draft[o] = "closed" THEN Fated(o, "denied")
                         ELSE fate
              /\ consumed' = IF status \in {"submitted", "reconcile_required"} /\ phase = "pass2"
                             THEN consumed + 1 ELSE consumed
  BY Zenon DEF Commit
<1>2. /\ task[i] = "sent"
      /\ task' = [task EXCEPT ![i] = "done"]
      /\ mine' = [mine EXCEPT ![i] = {}]
      /\ UNCHANGED <<submits, phase, budget, of, broker>>
  BY Zenon DEF Commit, Done, account
<1>3. /\ o \in Order
      /\ \A j \in Item \ {i} : o \notin mine[j]
      /\ \A p \in mine[i] : p = o
      /\ broker[o] # "none" => draft[o] \in {"submitted", "ambiguous", "pending_submit", "closed"}
      /\ of[o].side # "none"
  BY DEF Owned, Shape
<1>9. PICK f \in {"fine", "unknown", "denied", "lost", "sibling"} :
          /\ fate' = [fate EXCEPT ![o] = f]
          /\ of[o].side = "buy" /\ broker[o] # "none" /\ draft[o] # "submitted" =>
                 f # "fine"
          /\ f \in {"denied", "lost", "sibling"} => draft[o] = "closed"
  <2>1. fate = [fate EXCEPT ![o] = fate[o]]
    BY <1>3, Zenon DEF Shape
  <2>2. fate[o] = "fine"
    BY Zenon DEF Owned
  <2> QED
    BY <1>1, <1>3, <2>1, <2>2 DEF Fated, Shape
<1>4. Shape'
  BY <1>1, <1>2, <1>3, <1>9 DEF Shape, TaskStep, Row
<1>5. Owned'
  BY <1>1, <1>2, <1>3, <1>9 DEF Owned, Shape
<1>6. Phases'
  <2>1. consumed' # consumed => phase = "pass2"
    BY <1>1, Zenon
  <2>2. phase = "pass2" => \A j \in Item : task'[j] \in Running => FALSE
    BY <1>2 DEF Phases, Shape, Running
  <2> QED
    BY <1>2, <2>1, <2>2 DEF Phases, Shape, Running
<1>7. Recorded'
  <2>1. \A p \in Order \ {o} :
            /\ row'[p] = row[p] /\ fate'[p] = fate[p]
            /\ \A j \in Item : p \in mine[j] => p \in mine'[j]
    BY <1>1, <1>2, <1>3, <1>9, Zenon DEF Shape
  <2>2. of[o].side = "buy" /\ broker[o] # "none" /\ fate'[o] = "fine" =>
            row'[o] = "submitted"
    BY <1>1, <1>3, <1>9, Zenon DEF Shape
  <2>3. fate'[o] \in {"denied", "lost", "sibling"} => row'[o] \in {"none", "closed"}
    BY <1>1, <1>3, <1>9, Zenon DEF Shape
  <2> QED
    BY <1>2, <1>3, <2>1, <2>2, <2>3, ZenonT(60) DEF Recorded, BudgetConsuming
<1> QED
  BY <1>4, <1>5, <1>6, <1>7, Zenon

\* A transaction is rolled back alone.
LEMMA FailsKeepsState ==
    ASSUME StateInv, NEW i \in Item, Fails(i)
    PROVE  StateInv' /\ Settled' \subseteq Settled
<1> DEFINE gone == {o \in mine[i] : broker[o] = "none"}
<1> USE DEF StateInv
<1>1. /\ of' = [o \in Order |-> IF o \in gone THEN Blank ELSE of[o]]
      /\ draft' = [o \in Order |-> IF o \in mine[i] THEN "none" ELSE draft[o]]
      /\ fate' = [o \in Order |-> IF o \in mine[i] \ gone THEN "lost" ELSE fate[o]]
      /\ UNCHANGED <<row, broker>>
  BY Zenon DEF Fails, RolledBack, records, account, Shape
<1>2. /\ task[i] \in Running
      /\ task' = [task EXCEPT ![i] = "done"]
      /\ mine' = [mine EXCEPT ![i] = {}]
      /\ UNCHANGED <<submits, phase, budget, consumed>>
  BY Zenon DEF Fails, Done
<1>3. /\ mine[i] \subseteq Order
      /\ \A o \in mine[i] : row[o] = "none" /\ fate[o] = "fine" /\ of[o].item = i
  BY DEF Owned, Shape
<1>4. Shape'
  <2>1. Blank \in OrderRecord /\ "none" \in Row /\ "done" \in TaskStep
    BY Zenon DEF Blank, OrderRecord, Row, TaskStep
  <2>2. of' \in [Order -> OrderRecord]
    BY <1>1, <2>1, Zenon DEF Shape
  <2>3. draft' \in [Order -> Row \cup {"ambiguous"}]
    BY <1>1, <2>1, Zenon DEF Shape
  <2>4. fate' \in [Order -> {"fine", "unknown", "denied", "lost", "sibling"}]
    BY <1>1, Zenon DEF Shape
  <2> QED
    BY <1>1, <1>2, <2>1, <2>2, <2>3, <2>4, Zenon DEF Shape
<1>5. Owned'
  <2>1. \A j \in Item : \A o \in mine'[j] : j # i /\ o \in mine[j] /\ o \notin mine[i]
    BY <1>2, <1>3 DEF Owned, Shape
  <2>2. \A j \in Item : \A o \in mine'[j] :
            of'[o] = of[o] /\ draft'[o] = draft[o] /\ fate'[o] = fate[o]
    BY <1>1, <2>1, Zenon DEF Shape
  <2> QED
    BY <1>1, <1>2, <2>1, <2>2 DEF Owned, Shape
<1>6. Phases'
  BY <1>2 DEF Phases, Shape, Running
<1>7. Recorded'
  <2> SUFFICES ASSUME NEW o \in Order
               PROVE  /\ of'[o].side = "none" =>
                             broker[o] = "none" /\ row[o] = "none" /\ fate'[o] = "fine"
                      /\ (/\ of'[o].side = "buy"
                          /\ broker[o] \in {"open", "filled"} /\ fate'[o] = "fine"
                          /\ \A j \in Item : o \notin mine'[j]) => row[o] \in BudgetConsuming
                      /\ fate'[o] \in {"denied", "lost", "sibling"} =>
                             row[o] \in {"none", "closed"}
    BY <1>1, Zenon DEF Recorded
  <2>1. CASE o \in gone
    BY <1>1, <1>3, <2>1, Zenon DEF Blank
  <2>2. CASE o \in mine[i] \ gone
    <3>1. of'[o] = of[o] /\ fate'[o] = "lost"
      BY <1>1, <2>2, Zenon
    <3>2. of[o].side # "none"
      BY <2>2 DEF Owned
    <3> QED
      BY <1>3, <2>2, <3>1, <3>2, Zenon
  <2>3. CASE o \notin mine[i]
    BY <1>1, <1>2, <2>3, Zenon DEF Recorded, Shape
  <2> QED
    BY <2>1, <2>2, <2>3, Zenon
<1>8. Settled' \subseteq Settled
  <2> SUFFICES ASSUME NEW o \in Settled' PROVE o \in Settled
    BY SMTT(20)
  <2>1. o \in Order /\ o \notin mine[i]
    BY <1>1, <1>3, Zenon DEF Settled, Blank
  <2> QED
    BY <1>1, <1>2, <2>1, Zenon DEF Settled, Shape
<1> QED
  BY <1>4, <1>5, <1>6, <1>7, <1>8, Zenon

\* The phases follow each other once no coroutine runs.
LEMMA PhaseKeepsState ==
    ASSUME StateInv, DispatchPhase \/ Pass2
    PROVE  /\ StateInv' /\ Settled' \subseteq Settled
           /\ phase # "idle" /\ phase' # "idle" /\ UNCHANGED <<budget, consumed>>
<1> USE DEF StateInv
<1>1. \A i \in Item : mine[i] = {}
  <2>1. \A i \in Item : task[i] \notin {"guarded", "sent"}
    BY Zenon DEF DispatchPhase, Pass2, Running
  <2> QED
    BY <2>1, Zenon DEF Owned
<1>2. /\ UNCHANGED <<submits, budget, consumed, mine, of, draft, row, broker, fate>>
      /\ phase \in {"pass1", "dispatch"} /\ phase' \in {"dispatch", "pass2"}
  BY Zenon DEF DispatchPhase, Pass2, account, records
<1>3. Owned' /\ Recorded' /\ Settled' = Settled
  BY <1>1, <1>2, ZenonT(60) DEF Owned, Recorded, Settled
<1>4. CASE DispatchPhase
  <2>1. Shape' /\ Phases'
    BY <1>1, <1>2, <1>4 DEF DispatchPhase, Shape, Phases
  <2> QED
    BY <1>2, <1>3, <2>1, Zenon
<1>5. CASE Pass2
  <2>1. PICK best \in SUBSET Core :
            task' = [i \in Item |-> IF i \in best THEN "candidate" ELSE "done"]
    BY <1>5, Zenon DEF Pass2
  <2>2. Shape'
    BY <1>2, <2>1, Zenon DEF Shape, TaskStep
  <2>3. Phases'
    BY <1>1, <1>2, <1>5, <2>1, Zenon DEF Pass2, Phases, Running
  <2> QED
    BY <1>2, <1>3, <2>2, <2>3, Zenon
<1> QED
  BY <1>4, <1>5, Zenon

\* The steps of one coroutine up to its commit.
LEMMA CoroutineKeepsState ==
    ASSUME StateInv, NEW i \in Item,
           \/ Enter(i) \/ NoOrder(i) \/ Analysed(i) \/ Parks(i) \/ SecondPass(i)
           \/ NextCandidate(i) \/ GuardPasses(i) \/ GuardBlocks(i)
           \/ GuardRaises(i) \/ StaleSnapshot(i) \/ Blocked(i) \/ Answered(i)
           \/ Unknown(i) \/ Fails(i)
    PROVE  StateInv' /\ Settled' \subseteq Settled /\ UNCHANGED <<phase, budget, consumed>>
<1>0. Shape /\ Owned /\ Phases
  BY Zenon DEF StateInv
<1> USE DEF records, account
<1>1. CASE Enter(i)
  <2>1. i \notin Core
    BY <1>0, <1>1, Zenon DEF Enter, Step, Phases
  <2>2. PICK to \in {"done", "deciding"} : task' = [task EXCEPT ![i] = to]
    BY <1>1, Zenon DEF Enter, Step
  <2>3. to \in TaskStep \ {"guarded", "sent"}
    BY Zenon DEF TaskStep, Running
  <2> QED
    BY <1>1, <2>1, <2>2, <2>3, MoveKeepsState, Zenon DEF Enter, Step
<1>2. CASE NoOrder(i) \/ GuardBlocks(i)
  <2>1. "done" \in TaskStep \ {"guarded", "sent"}
    BY Zenon DEF TaskStep
  <2>2. phase # "idle"
    BY <1>0, <1>2, Zenon DEF NoOrder, GuardBlocks, Phases
  <2> QED
    BY <1>2, <2>1, <2>2, MoveKeepsState, Zenon DEF NoOrder, GuardBlocks, Done
<1>3. CASE Analysed(i)
  <2>1. "candidate" \in TaskStep \ {"guarded", "sent"}
    BY Zenon DEF TaskStep
  <2>2. phase # "idle"
    BY <1>0, <1>3, Zenon DEF Analysed, Step, Phases
  <2> QED
    BY <1>3, <2>1, <2>2, MoveKeepsState, Zenon DEF Analysed, Step
<1>4. CASE Parks(i)
  <2>1. "parked" \in TaskStep \ {"guarded", "sent"}
    BY Zenon DEF TaskStep
  <2>2. i \notin Core
    BY <1>0, <1>4, Zenon DEF Parks, Step, Phases
  <2> QED
    BY <1>4, <2>1, <2>2, MoveKeepsState, Zenon DEF Parks, Step
<1>5. CASE SecondPass(i)
  <2>1. "deciding" \in TaskStep \ {"guarded", "sent"}
    BY Zenon DEF TaskStep, Running
  <2>2. i \notin Core
    BY <1>0, <1>5, Zenon DEF SecondPass, Step, Phases
  <2> QED
    BY <1>5, <2>1, <2>2, MoveKeepsState, Zenon DEF SecondPass, Step
<1>6. CASE NextCandidate(i)
  <2>1. {"deciding", "done"} \subseteq TaskStep \ {"guarded", "sent"}
    BY Zenon DEF TaskStep, Running
  <2>2. CASE InBudget
    BY <1>6, <2>1, <2>2, MoveKeepsState, Zenon DEF NextCandidate, Step, InBudget, Running
  <2>3. CASE ~InBudget
    BY <1>6, <2>1, <2>3, MoveKeepsState, Zenon DEF NextCandidate, Done
  <2> QED
    BY <2>2, <2>3, Zenon
<1>7. CASE GuardPasses(i) \/ GuardRaises(i)
  <2>1. PICK w \in Wanted(i), o \in Unused : Create(i, o, w)
    BY <1>7, Zenon DEF GuardPasses, GuardRaises
  <2>2. /\ Step(i, "deciding", "guarded")
        /\ UNCHANGED <<submits, phase, budget, consumed, row, broker, fate>>
    BY <1>7, Zenon DEF GuardPasses, GuardRaises
  <2> QED
    BY <2>1, <2>2, CreateKeepsState, Zenon
<1>8. CASE StaleSnapshot(i) \/ Blocked(i) \/ Answered(i) \/ Unknown(i)
  <2>1. PICK o \in mine[i], status \in Row \cup {"ambiguous"}, at \in {"open", "none"} :
            /\ Settles(i, o, status, at)
            /\ at = "open" => status \in {"submitted", "ambiguous", "pending_submit", "closed"}
    BY <1>8, Zenon DEF StaleSnapshot, Blocked, Answered, Unknown, Row
  <2>2. UNCHANGED <<phase, budget, consumed>>
    BY <2>1, Zenon DEF Settles
  <2> QED
    BY <2>1, <2>2, SettlesKeepsState, Zenon
<1>9. CASE Fails(i)
  BY <1>9, FailsKeepsState, Zenon DEF Fails
<1> QED
  BY <1>1, <1>2, <1>3, <1>4, <1>5, <1>6, <1>7, <1>8, <1>9, Zenon
=============================================================================
