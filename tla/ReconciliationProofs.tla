------------------------ MODULE ReconciliationProofs ------------------------
(***************************************************************************)
(* Proofs about Reconciliation, for any number of orders, scopes and runs: *)
(* types, the blocking locks and their runs, and what a submission leaves  *)
(* behind.                                                                 *)
(***************************************************************************)
EXTENDS Reconciliation, TLAPS

(* A transaction record built from typed fields is typed, and has them.     *)
LEMMA TxType ==
    ASSUME NEW a \in Phase, NEW b \in Answer, NEW c \in 0 .. MaxRun,
           NEW d \in 0 .. MaxRun
    PROVE  /\ Tx(a, b, c, d) \in TxRecord
           /\ Tx(a, b, c, d).at = a /\ Tx(a, b, c, d).answer = b
           /\ Tx(a, b, c, d).own = c /\ Tx(a, b, c, d).joined = d
BY Zenon DEF Tx, TxRecord

(* The fields of a transaction record are the arguments it is built from.    *)
LEMMA TxFields ==
    ASSUME NEW at, NEW answer, NEW own, NEW joined
    PROVE  /\ Tx(at, answer, own, joined).at = at
           /\ Tx(at, answer, own, joined).answer = answer
           /\ Tx(at, answer, own, joined).own = own
           /\ Tx(at, answer, own, joined).joined = joined
BY Zenon DEF Tx

(* MoveTo changes the phase of one transaction.                              *)
LEMMA MoveToType ==
    ASSUME tx \in [Order -> TxRecord], NEW o \in Order, NEW a \in Phase
    PROVE  MoveTo(o, a) \in [Order -> TxRecord]
<1>1. tx[o].answer \in Answer /\ tx[o].own \in 0 .. MaxRun
      /\ tx[o].joined \in 0 .. MaxRun
  BY Zenon DEF TxRecord
<1>2. Tx(a, tx[o].answer, tx[o].own, tx[o].joined) \in TxRecord
  BY <1>1, TxType, Zenon
<1> QED BY <1>2, Zenon DEF MoveTo

LEMMA RunFacts ==
    /\ NoRun \in 0 .. MaxRun
    /\ \A r \in Run : r \in 0 .. MaxRun
    /\ \A n \in 0 .. MaxRun : n < MaxRun => n + 1 \in Run /\ n + 1 \in 0 .. MaxRun
    /\ \A n \in 0 .. MaxRun : n # NoRun => n \in Run
BY ReconciliationAssumption DEF NoRun, Run

(* The lock operators keep the types of lock and live.                       *)
LEMMA AcquireType ==
    ASSUME TypeOK, NEW s \in Scope, NEW r \in 0 .. MaxRun, AcquireLock(s, r)
    PROVE  lock' \in [Scope -> 0 .. MaxRun] /\ live' \subseteq Scope
BY Zenon DEF TypeOK, AcquireLock

LEMMA ReleaseType ==
    ASSUME TypeOK, NEW R, ReleaseLocks(R)
    PROVE  lock' \in [Scope -> 0 .. MaxRun] /\ live' \subseteq Scope
BY RunFacts, Zenon DEF TypeOK, ReleaseLocks

-----------------------------------------------------------------------------
(* Type correctness: TypeOK is inductive.                                    *)

LEMMA TypeInit == Init => TypeOK
<1> SUFFICES ASSUME Init PROVE TypeOK
  OBVIOUS
<1>1. NewTx \in TxRecord
  BY TxType, RunFacts DEF NewTx, Phase, Answer
<1>2. tx \in [Order -> TxRecord]
  BY <1>1, Zenon DEF Init
<1>3. lock \in [Scope -> 0 .. MaxRun] /\ lastRun \in 0 .. MaxRun
  BY RunFacts, Zenon DEF Init
<1>4. retry \in [run : 0 .. MaxRun, left : SUBSET Order]
  BY RunFacts, Zenon DEF Init
<1> QED BY <1>2, <1>3, <1>4, Zenon DEF Init, TypeOK, OrderStatus

LEMMA SubmitType ==
    ASSUME TypeOK, NEW o \in Order, Submit(o)
    PROVE  TypeOK'
<1> USE RunFacts
<1>0. /\ tx \in [Order -> TxRecord] /\ tx[o] \in TxRecord
      /\ tx[o].answer \in Answer /\ tx[o].own \in 0 .. MaxRun
      /\ tx[o].joined \in 0 .. MaxRun
  BY Zenon DEF TypeOK, TxRecord
<1>1. CASE Check(o)
  <2>1. /\ Tx("ready", "blocked", NoRun, NoRun) \in TxRecord
        /\ Tx("clear", "none", NoRun, NoRun) \in TxRecord
    BY TxType DEF Phase, Answer
  <2>2. tx' \in [Order -> TxRecord]
    BY <1>0, <1>1, <2>1, Zenon DEF Check
  <2> QED BY <1>1, <2>2, Zenon DEF Check, TypeOK, orderVars, runVars, lockVars, workerVars
<1>2. CASE Send(o)
  <2>1. \A a \in Answer : /\ Tx("answered", a, NoRun, NoRun) \in TxRecord
                          /\ Tx("ready", a, NoRun, NoRun) \in TxRecord
    BY TxType, Zenon DEF Phase
  <2>2. tx' \in [Order -> TxRecord]
    BY <1>0, <1>2, <2>1, Zenon DEF Send
  <2>3. held' \subseteq Order
    BY <1>2, Zenon DEF Send, TypeOK
  <2> QED BY <1>2, <2>2, <2>3, Zenon DEF Send, TypeOK, runVars, lockVars, workerVars
<1>3. CASE Trigger(o)
  <2>1. lastRun' \in 0 .. MaxRun
    BY <1>3, Zenon DEF Trigger, TypeOK
  <2>2. ASSUME lastRun < MaxRun
        PROVE  Tx("triggered", tx[o].answer, lastRun + 1, NoRun) \in TxRecord
    BY <1>0, <2>2, TxType, Zenon DEF TypeOK, Phase
  <2>3. /\ MoveTo(o, "triggered") \in [Order -> TxRecord]
        /\ MoveTo(o, "poisoned") \in [Order -> TxRecord]
    BY <1>0, MoveToType, Zenon DEF Phase
  <2>4. tx' \in [Order -> TxRecord]
    BY <1>0, <1>3, <2>2, <2>3, Zenon DEF Trigger
  <2> QED BY <1>3, <2>1, <2>4, Zenon DEF Trigger, TypeOK, orderVars, lockVars, workerVars
<1>4. CASE Link(o)
  <2>1. \A r \in 0 .. MaxRun : Tx("ready", tx[o].answer, tx[o].own, r) \in TxRecord
    BY <1>0, TxType, Zenon DEF Phase
  <2>2. MoveTo(o, "poisoned") \in [Order -> TxRecord]
    BY <1>0, MoveToType, Zenon DEF Phase
  <2>3. \A r \in Started \cup ({tx[o].own} \ {NoRun}) : r \in 0 .. MaxRun
    BY <1>0, Zenon DEF Started
  <2>4. tx' \in [Order -> TxRecord]
    BY <1>0, <1>4, <2>1, <2>2, <2>3, Zenon DEF Link
  <2> QED BY <1>4, <2>4, Zenon DEF Link, TypeOK, orderVars, runVars, lockVars, workerVars
<1>5. CASE Commit(o)
  <2>1. tx' \in [Order -> TxRecord]
    BY <1>0, <1>5, MoveToType, Zenon DEF Commit, Phase
  <2>2. StatusAfter(tx[o].answer) \in OrderStatus
    BY Zenon DEF StatusAfter, OrderStatus
  <2>3. status' \in [Order -> OrderStatus]
    BY <1>5, <2>2, Zenon DEF Commit, TypeOK
  <2>4. stamped' \subseteq Order /\ filed' \subseteq Order
    BY <1>5, Zenon DEF Commit, TypeOK
  <2>5. link' \subseteq Run \X Order
    BY <1>0, <1>5 DEF Commit, TypeOK
  <2>6. /\ run' \in [Run -> {"unused", "started", "resolved", "failed", "halted"}]
        /\ requires' \subseteq Run
    BY <1>0, <1>5 DEF Commit, TypeOK
  <2>7. lock' \in [Scope -> 0 .. MaxRun] /\ live' \subseteq Scope
    <3>1. CASE tx[o].own = NoRun
      BY <1>5, <3>1, Zenon DEF Commit, TypeOK, lockVars
    <3>2. CASE tx[o].own # NoRun
      <4>1. ScopeOf[o] \in Scope
        BY ReconciliationAssumption, Zenon
      <4>2. AcquireLock(ScopeOf[o], tx[o].own)
        BY <1>5, <3>2, Zenon DEF Commit
      <4> QED BY <1>0, <4>1, <4>2, AcquireType, Zenon
    <3> QED BY <3>1, <3>2, Zenon
  <2> QED BY <1>5, <2>1, <2>3, <2>4, <2>5, <2>6, <2>7, Zenon DEF Commit, TypeOK, workerVars
<1>6. CASE Abandon(o)
  <2>1. tx' \in [Order -> TxRecord]
    BY <1>0, <1>6, MoveToType, Zenon DEF Abandon, Phase
  <2>2. held' \subseteq Order
    BY <1>6, Zenon DEF Abandon, TypeOK
  <2> QED BY <1>6, <2>1, <2>2, Zenon DEF Abandon, TypeOK, runVars, lockVars, workerVars
<1>7. CASE Undo(o)
  <2>1. tx' \in [Order -> TxRecord]
    BY <1>0, <1>7, MoveToType, Zenon DEF Undo, Phase
  <2> QED BY <1>7, <2>1, Zenon DEF Undo, TypeOK, orderVars, runVars, lockVars, workerVars
<1> QED BY <1>1, <1>2, <1>3, <1>4, <1>5, <1>6, <1>7, Zenon DEF Submit

LEMMA WorkerType ==
    ASSUME TypeOK, Begin \/ Conclude \/ Crash \/ \E r \in Run : Work(r)
    PROVE  TypeOK'
<1>1. CASE Begin
  BY <1>1, Zenon DEF Begin, Oldest, Started, TypeOK, orderVars, runVars, lockVars
<1>2. CASE \E r \in Run : Retain(r)
  BY <1>2, Zenon DEF Retain, TypeOK, orderVars, runVars, lockVars
<1>3. CASE \E r \in Run : Inquire(r)
  <2>1. PICK r \in Run : Inquire(r)
    BY <1>3, Zenon
  <2>2. marked' \in [Run -> {"none", "resolved", "failed"}]
    BY <2>1, Zenon DEF Inquire, TypeOK
  <2>3. expiring' \subseteq Order
    BY <2>1, Zenon DEF Inquire, Links, TypeOK
  <2> QED BY <2>1, <2>2, <2>3, Zenon DEF Inquire, TypeOK, orderVars, runVars, lockVars
<1>4. CASE Conclude
  <2>1. lock' \in [Scope -> 0 .. MaxRun] /\ live' \subseteq Scope
    BY <1>4, ReleaseType, Zenon DEF Conclude
  <2>2. run' \in [Run -> {"unused", "started", "resolved", "failed", "halted"}]
    BY <1>4, Zenon DEF Conclude, Decided, TypeOK
  <2>3. status' \in [Order -> OrderStatus]
    BY <1>4, Zenon DEF Conclude, TypeOK, OrderStatus
  <2> QED BY <1>4, <2>1, <2>2, <2>3, Zenon DEF Conclude, TypeOK
<1>5. CASE Crash
  BY <1>5, Zenon DEF Crash, TypeOK, orderVars, runVars, lockVars
<1> QED BY <1>1, <1>2, <1>3, <1>4, <1>5, Zenon DEF Work

(* Every step of the sync, the operator and the clean-ups gives one order a  *)
(* status.                                                                   *)
LEMMA SetStatusType ==
    ASSUME TypeOK, NEW o \in Order, NEW s \in OrderStatus, SetStatus(o, s)
    PROVE  status' \in [Order -> OrderStatus]
BY Zenon DEF SetStatus, TypeOK

LEMMA MaintainType ==
    ASSUME TypeOK, NEW o \in Order, Maintain(o)
    PROVE  TypeOK'
<1>1. CASE Sync(o)
  <2>1. status' \in [Order -> OrderStatus]
    BY <1>1, SetStatusType, Zenon DEF Sync, OrderStatus
  <2> QED BY <1>1, <2>1, Zenon DEF Sync, TypeOK, runVars, lockVars, workerVars
<1>2. CASE ExpireOrphan(o)
  <2>1. status' \in [Order -> OrderStatus]
    BY <1>2, SetStatusType, Zenon DEF ExpireOrphan, OrderStatus
  <2> QED BY <1>2, <2>1, Zenon DEF ExpireOrphan, TypeOK, runVars, lockVars, workerVars
<1>3. CASE RejectStale(o)
  <2>1. status' \in [Order -> OrderStatus]
    BY <1>3, SetStatusType, Zenon DEF RejectStale, OrderStatus
  <2> QED BY <1>3, <2>1, Zenon DEF RejectStale, TypeOK, runVars, lockVars, workerVars
<1>4. CASE ManualResolve(o)
  <2>1. status' \in [Order -> OrderStatus]
    BY <1>4, SetStatusType, Zenon DEF ManualResolve, OrderStatus
  <2>2. \/ UNCHANGED <<run, lockVars>>
        \/ \E r \in Run : run' = [run EXCEPT ![r] = "resolved"] /\ ReleaseLocks({r})
    BY <1>4, Zenon DEF ManualResolve, Started
  <2>3. lock' \in [Scope -> 0 .. MaxRun] /\ live' \subseteq Scope
    <3>1. CASE UNCHANGED <<run, lockVars>>
      BY <3>1, Zenon DEF TypeOK, lockVars
    <3>2. CASE \E r \in Run : ReleaseLocks({r})
      BY <3>2, ReleaseType, Zenon
    <3> QED BY <2>2, <3>1, <3>2, Zenon
  <2>4. run' \in [Run -> {"unused", "started", "resolved", "failed", "halted"}]
    BY <2>2, Zenon DEF TypeOK
  <2> QED BY <1>4, <2>1, <2>3, <2>4, Zenon DEF ManualResolve, TypeOK, workerVars
<1> QED BY <1>1, <1>2, <1>3, <1>4, Zenon DEF Maintain

(* Opening a run keeps the types of what it writes.                          *)
LEMMA OpenRunType ==
    ASSUME TypeOK, NEW o \in Order, OpenRun(o)
    PROVE  /\ lastRun' \in 0 .. MaxRun /\ requires' \subseteq Run
           /\ link' \subseteq Run \X Order
           /\ lock' \in [Scope -> 0 .. MaxRun] /\ live' \subseteq Scope
           /\ lastRun + 1 \in Run
<1>1. lastRun + 1 \in Run /\ lastRun + 1 \in 0 .. MaxRun
  BY RunFacts, Zenon DEF OpenRun, TypeOK
<1>2. ScopeOf[o] \in Scope
  BY ReconciliationAssumption, Zenon
<1>3. lock' \in [Scope -> 0 .. MaxRun] /\ live' \subseteq Scope
  BY <1>1, <1>2, AcquireType, Zenon DEF OpenRun
<1> QED BY <1>1, <1>3 DEF OpenRun, TypeOK

LEMMA ScriptType ==
    ASSUME TypeOK,
           \/ RetryOpen
           \/ \E o \in Order : Repair(o)
           \/ \E r \in Run : Cleanup(r)
    PROVE  TypeOK'
<1>1. CASE RetryOpen
  <2>1. lastRun + 1 \in Run /\ lastRun + 1 \in 0 .. MaxRun
    BY <1>1, RunFacts, Zenon DEF RetryOpen, TypeOK
  <2>2. RetryTargets \subseteq Order
    BY Zenon DEF RetryTargets, Unknown
  <2>3. /\ retry' \in [run : 0 .. MaxRun, left : SUBSET Order]
        /\ retry'.run # NoRun
    BY <1>1, <2>1, <2>2 DEF RetryOpen, Run, NoRun
  <2> QED BY <1>1, <2>1, <2>3, Zenon DEF RetryOpen, TypeOK, orderVars, lockVars, workerVars
<1>2. CASE \E o \in Order : Backfill(o)
  <2>1. PICK o \in Order : Backfill(o)
    BY <1>2, Zenon
  <2>2. /\ lastRun' \in 0 .. MaxRun /\ requires' \subseteq Run
        /\ link' \subseteq Run \X Order
        /\ lock' \in [Scope -> 0 .. MaxRun] /\ live' \subseteq Scope
    BY <2>1, OpenRunType, Zenon DEF Backfill
  <2> QED BY <2>1, <2>2, Zenon DEF Backfill, TypeOK, orderVars, workerVars
<1>3. CASE \E o \in Order : RetryLink(o)
  <2>1. PICK o \in Order : RetryLink(o)
    BY <1>3, Zenon
  <2>2. retry.run \in 0 .. MaxRun /\ retry.left \subseteq Order
    BY Zenon DEF TypeOK
  <2>3. /\ retry' \in [run : 0 .. MaxRun, left : SUBSET Order]
        /\ retry'.run # NoRun
    BY <2>1, <2>2, Zenon DEF RetryLink, TypeOK
  <2>4. link' \subseteq Run \X Order
    BY <2>1, <2>2, RunFacts DEF RetryLink, TypeOK
  <2> QED BY <2>1, <2>2, <2>3, <2>4, Zenon DEF RetryLink, TypeOK, orderVars, lockVars, workerVars
<1>4. CASE \E r \in Run : Cleanup(r)
  <2>1. PICK r \in Run : Cleanup(r)
    BY <1>4, Zenon
  <2>2. CASE UNCHANGED <<requires, lastRun, link, lockVars>>
    BY <2>1, <2>2, Zenon DEF Cleanup, TypeOK, orderVars, lockVars, workerVars
  <2>3. CASE \E o \in Unknown : OpenRun(o)
    <3>1. PICK o \in Order : OpenRun(o)
      BY <2>3, Zenon DEF Unknown
    <3>2. /\ lastRun' \in 0 .. MaxRun /\ requires' \subseteq Run
          /\ link' \subseteq Run \X Order
          /\ lock' \in [Scope -> 0 .. MaxRun] /\ live' \subseteq Scope
      BY <3>1, OpenRunType, Zenon
    <3> QED BY <2>1, <3>2, Zenon DEF Cleanup, TypeOK, orderVars, workerVars
  <2>4. CASE /\ \E o \in Unknown, q \in Started \ {r} : link' = link \cup {<<q, o>>}
             /\ UNCHANGED <<requires, lastRun, lockVars>>
    <3>1. link' \subseteq Run \X Order
      BY <2>4 DEF Unknown, Started, TypeOK
    <3> QED BY <2>1, <2>4, <3>1, Zenon DEF Cleanup, TypeOK, orderVars, lockVars, workerVars
  <2> QED BY <2>1, <2>2, <2>3, <2>4, Zenon DEF Cleanup
<1> QED BY <1>1, <1>2, <1>3, <1>4, Zenon DEF Repair

LEMMA TypeStep == TypeOK /\ [Next]_vars => TypeOK'
<1> SUFFICES ASSUME TypeOK, [Next]_vars PROVE TypeOK'
  OBVIOUS
<1>1. CASE \E s \in Scope : ExpireLock(s)
  BY <1>1, Zenon DEF ExpireLock, TypeOK, orderVars, runVars, workerVars
<1>2. CASE UNCHANGED vars
  BY <1>2, Zenon DEF vars, TypeOK, orderVars, runVars, lockVars, workerVars
<1> QED BY <1>1, <1>2, SubmitType, MaintainType, ScriptType, WorkerType, Zenon DEF Next

(* Type correctness of the reconciliation subsystem, for any number of       *)
(* orders, scopes and runs.                                                  *)
THEOREM TypeCorrect == Spec => []TypeOK
BY TypeInit, TypeStep, PTL DEF Spec

-----------------------------------------------------------------------------
(* Locks.  Every step does one of three things to locks and runs: it leaves  *)
(* the locks and at most opens or halts runs, it acquires one lock for a run *)
(* it opens, or it releases the locks of exactly the runs it decides.        *)

OpensOrHalts(r) == run'[r] = run[r] \/ run'[r] \in {"started", "halted"}

Keeps == lock' = lock /\ \A r \in Run : OpensOrHalts(r)

Acquires ==
    /\ \A r \in Run : OpensOrHalts(r)
    /\ \E s \in Scope, r \in Run : AcquireLock(s, r) /\ run'[r] = "started"

Releases ==
    \E R \in SUBSET Run :
        /\ ReleaseLocks(R)
        /\ \A r \in Run : IF r \in R THEN run'[r] \in {"resolved", "failed"}
                          ELSE run'[r] = run[r]

LEMMA LockCases ==
    ASSUME TypeOK, [Next]_vars
    PROVE  Keeps \/ Acquires \/ Releases
<1> USE RunFacts
<1>1. CASE UNCHANGED <<run, lock>>
  BY <1>1, Zenon DEF Keeps, OpensOrHalts
<1>2. CASE \E o \in Order : Commit(o)
  <2>1. PICK o \in Order : Commit(o)
    BY <1>2, Zenon
  <2>2. tx[o].own \in 0 .. MaxRun
    BY Zenon DEF TypeOK, TxRecord
  <2>3. CASE tx[o].own = NoRun
    BY <2>1, <2>3, <1>1, Zenon DEF Commit, lockVars
  <2>4. CASE tx[o].own # NoRun
    <3>1. tx[o].own \in Run /\ ScopeOf[o] \in Scope
      BY <2>2, <2>4, ReconciliationAssumption, Zenon
    <3>2. /\ run' = [run EXCEPT ![tx[o].own] = "started"]
          /\ AcquireLock(ScopeOf[o], tx[o].own)
      BY <2>1, <2>4, Zenon DEF Commit
    <3>3. \A r \in Run : OpensOrHalts(r)
      BY <3>2, Zenon DEF OpensOrHalts, TypeOK
    <3>4. run'[tx[o].own] = "started"
      BY <3>1, <3>2, Zenon DEF TypeOK
    <3> QED BY <3>1, <3>2, <3>3, <3>4, Zenon DEF Acquires
  <2> QED BY <2>3, <2>4, Zenon
<1>3. CASE Conclude
  <2>1. Decided \in SUBSET Run /\ ReleaseLocks(Decided)
    BY <1>3, Zenon DEF Conclude, Decided
  <2>2. \A r \in Run : IF r \in Decided THEN run'[r] \in {"resolved", "failed"}
                       ELSE run'[r] = run[r]
    BY <1>3, Zenon DEF Conclude, Decided, TypeOK
  <2> QED BY <2>1, <2>2, Zenon DEF Releases
<1>4. CASE \E o \in Order : ManualResolve(o)
  <2>1. \/ UNCHANGED <<run, lockVars>>
        \/ \E r \in Run : run' = [run EXCEPT ![r] = "resolved"] /\ ReleaseLocks({r})
    BY <1>4, Zenon DEF ManualResolve, Started
  <2>2. ASSUME NEW r \in Run, run' = [run EXCEPT ![r] = "resolved"],
               ReleaseLocks({r})
        PROVE  Releases
    <3>1. \A q \in Run : IF q \in {r} THEN run'[q] \in {"resolved", "failed"}
                         ELSE run'[q] = run[q]
      BY <2>2, Zenon DEF TypeOK
    <3>2. {r} \in SUBSET Run
      OBVIOUS
    <3> QED BY <2>2, <3>1, <3>2, Zenon DEF Releases
  <2> QED BY <2>1, <2>2, <1>1, Zenon DEF lockVars
<1>5. ASSUME NEW o \in Order, OpenRun(o), run'[lastRun + 1] = "started",
             \A r \in Run : OpensOrHalts(r)
      PROVE  Acquires
  <2>1. lastRun + 1 \in Run
    BY <1>5, OpenRunType, Zenon
  <2>2. ScopeOf[o] \in Scope /\ AcquireLock(ScopeOf[o], lastRun + 1)
    BY <1>5, ReconciliationAssumption, Zenon DEF OpenRun
  <2> QED BY <1>5, <2>1, <2>2, Zenon DEF Acquires
<1>6. CASE \E o \in Order : Backfill(o)
  <2>1. PICK o \in Order : Backfill(o)
    BY <1>6
  <2>2. OpenRun(o) /\ lastRun + 1 \in Run
    BY <2>1, OpenRunType, Zenon DEF Backfill
  <2>3. run'[lastRun + 1] = "started" /\ \A r \in Run : OpensOrHalts(r)
    BY <2>1, <2>2, Zenon DEF Backfill, OpensOrHalts, TypeOK
  <2> QED BY <1>5, <2>2, <2>3, Zenon
<1>7. CASE RetryOpen
  BY <1>7, Zenon DEF RetryOpen, Keeps, OpensOrHalts, TypeOK, lockVars
<1>8. CASE \E r \in Run : Cleanup(r)
  <2>1. PICK r \in Run : Cleanup(r)
    BY <1>8, Zenon
  <2>2. CASE UNCHANGED lockVars /\ run' = [run EXCEPT ![r] = "halted"]
    BY <2>2, Zenon DEF Keeps, OpensOrHalts, TypeOK, lockVars
  <2>3. CASE /\ \E o \in Unknown : OpenRun(o)
             /\ run' = [run EXCEPT ![r] = "halted", ![lastRun + 1] = "started"]
    <3>1. PICK o \in Order : OpenRun(o)
      BY <2>3, Zenon DEF Unknown
    <3>2. lastRun + 1 \in Run
      BY <3>1, OpenRunType, Zenon
    <3>3. run'[lastRun + 1] = "started" /\ \A q \in Run : OpensOrHalts(q)
      BY <2>3, <3>2, Zenon DEF OpensOrHalts, TypeOK
    <3> QED BY <1>5, <3>1, <3>3, Zenon
  <2> QED BY <2>1, <2>2, <2>3, Zenon DEF Cleanup
<1>9. \/ UNCHANGED <<run, lock>>
      \/ \E o \in Order : Commit(o) \/ ManualResolve(o) \/ Backfill(o)
      \/ Conclude \/ RetryOpen \/ \E r \in Run : Cleanup(r)
  <2>1. ASSUME NEW o \in Order,
               \/ Check(o) \/ Send(o) \/ Trigger(o) \/ Link(o) \/ Undo(o)
               \/ Abandon(o)
               \/ Sync(o) \/ ExpireOrphan(o) \/ RejectStale(o) \/ RetryLink(o)
        PROVE  UNCHANGED <<run, lock>>
    BY <2>1, Zenon DEF Check, Send, Trigger, Link, Undo, Abandon, Sync, ExpireOrphan,
                RejectStale, RetryLink, runVars, lockVars
  <2>2. ASSUME NEW r \in Run, Work(r)
        PROVE  UNCHANGED <<run, lock>>
    BY <2>2, Zenon DEF Work, Retain, Inquire, runVars, lockVars
  <2>3. ASSUME (\E s \in Scope : ExpireLock(s)) \/ Begin \/ Crash \/ UNCHANGED vars
        PROVE  UNCHANGED <<run, lock>>
    BY <2>3, Zenon DEF ExpireLock, Begin, Crash, vars, runVars, lockVars
  <2> QED BY <2>1, <2>2, <2>3, Zenon DEF Next, Submit, Maintain, Repair
<1> QED BY <1>1, <1>2, <1>3, <1>4, <1>6, <1>7, <1>8, <1>9, Zenon

LEMMA LockStep == TypeOK /\ LockHasOpenRun /\ [Next]_vars => LockHasOpenRun'
<1> SUFFICES ASSUME TypeOK, LockHasOpenRun, [Next]_vars,
                    NEW s \in Scope, lock'[s] # NoRun
             PROVE  run'[lock'[s]] \in {"started", "halted"}
  BY Zenon DEF LockHasOpenRun
<1>0. lock[s] \in 0 .. MaxRun
  BY Zenon DEF TypeOK
<1>1. lock[s] # NoRun => lock[s] \in Run /\ run[lock[s]] \in {"started", "halted"}
  BY <1>0, RunFacts, Zenon DEF LockHasOpenRun
<1>2. CASE Keeps
  BY <1>1, <1>2, Zenon DEF Keeps, OpensOrHalts
<1>3. CASE Acquires
  <2>1. PICK t \in Scope, r \in Run : AcquireLock(t, r) /\ run'[r] = "started"
    BY <1>3, Zenon DEF Acquires
  <2>2. lock'[s] = lock[s] \/ lock'[s] = r
    BY <2>1, Zenon DEF AcquireLock, TypeOK
  <2> QED BY <1>1, <1>3, <2>1, <2>2, Zenon DEF Acquires, OpensOrHalts
<1>4. CASE Releases
  <2>1. PICK R \in SUBSET Run :
            /\ ReleaseLocks(R)
            /\ \A r \in Run : IF r \in R THEN run'[r] \in {"resolved", "failed"}
                              ELSE run'[r] = run[r]
    BY <1>4, Zenon DEF Releases
  <2>2. lock[s] \notin R /\ lock'[s] = lock[s]
    BY <2>1, Zenon DEF ReleaseLocks
  <2> QED BY <1>1, <2>1, <2>2, Zenon
<1> QED BY <1>2, <1>3, <1>4, LockCases, Zenon

(* A blocking lock is never owned by a run that was resolved or failed, for  *)
(* any number of orders, scopes and runs: deciding a run and removing its    *)
(* locks are one transaction in mark_resolved and _mark_run_failed.          *)
THEOREM LocksHaveOpenRuns == Spec => []LockHasOpenRun
<1>1. Init => LockHasOpenRun
  BY Zenon DEF Init, LockHasOpenRun
<1> QED BY <1>1, TypeCorrect, LockStep, PTL DEF Spec

LEMMA LiveLockStep ==
    ASSUME TypeOK, [Next]_vars, NEW s \in Scope, Blocked(s), lock'[s] # lock[s]
    PROVE  run'[lock[s]] \in {"resolved", "failed"}
<1>1. CASE Keeps
  BY <1>1, Zenon DEF Keeps
<1>2. CASE Acquires
  BY <1>2, Zenon DEF Acquires, AcquireLock, TypeOK
<1>3. CASE Releases
  <2>1. PICK R \in SUBSET Run :
            /\ ReleaseLocks(R)
            /\ \A r \in Run : IF r \in R THEN run'[r] \in {"resolved", "failed"}
                              ELSE run'[r] = run[r]
    BY <1>3, Zenon DEF Releases
  <2>2. lock[s] \in R
    BY <2>1, Zenon DEF ReleaseLocks
  <2> QED BY <2>1, <2>2, Zenon
<1> QED BY <1>1, <1>2, <1>3, LockCases, Zenon

(* A live lock is given up only with its own run: the upsert of              *)
(* acquire_blocking_lock leaves it, and every release names the run.         *)
THEOREM LiveLocksAreKept == Spec => LiveLockIsKept
<1>1. TypeOK /\ [Next]_vars =>
        [\A s \in Scope : Blocked(s) /\ lock'[s] # lock[s] =>
             run'[lock[s]] \in {"resolved", "failed"}]_vars
  BY LiveLockStep, Zenon
<1> QED BY <1>1, TypeCorrect, PTL DEF Spec, LiveLockIsKept

-----------------------------------------------------------------------------
(* Submissions.  The invariant of an order: until its transaction is over    *)
(* nothing of it is committed, a transaction ready to commit an ambiguous    *)
(* answer has a run to link the order to (its own or a committed one), and   *)
(* a blocked one has sent nothing.                                           *)

TxInv(o) ==
    /\ tx[o].at # "over" => status[o] = "none" /\ o \notin stamped /\ o \notin filed
    /\ tx[o].at = "new" => o \notin held
    /\ tx[o].at \in {"answered", "triggered"} => tx[o].answer \in Ambiguous
    /\ tx[o].at = "ready" =>
          \/ tx[o].answer \in {"accepted", "rejected", "raised"}
          \/ tx[o].answer = "blocked" /\ o \notin held
          \/ /\ tx[o].answer \in Ambiguous
             /\ tx[o].joined \in Run
             /\ tx[o].joined = tx[o].own \/ run[tx[o].joined] # "unused"

OrderInv(o) ==
    /\ TxInv(o)
    /\ o \in Unknown /\ o \in stamped /\ o \notin filed =>
          \E r \in Run : <<r, o>> \in link /\ run[r] # "unused"
    /\ o \in Unknown /\ o \notin stamped /\ o \notin filed => o \notin held

SubmissionInv ==
    /\ TypeOK
    /\ expiring \subseteq filed
    /\ \A o \in Order : OrderInv(o)

RunsGrow ==
    /\ \A r \in Run : run[r] # "unused" => run'[r] # "unused"
    /\ link \subseteq link'

LEMMA RunsOnlyGrow ==
    ASSUME TypeOK, [Next]_vars
    PROVE  RunsGrow
<1>1. \A r \in Run : run[r] # "unused" => run'[r] # "unused"
  BY LockCases, Zenon DEF Keeps, Acquires, Releases, OpensOrHalts
<1>2. link \subseteq link'
  <2>1. CASE \E o \in Order : Submit(o) \/ Maintain(o) \/ Repair(o)
    BY <2>1, Zenon DEF Submit, Check, Send, Trigger, Link, Commit, Undo, Abandon, Maintain, Sync,
       ExpireOrphan, RejectStale, ManualResolve, Repair, Backfill, OpenRun,
       RetryLink, runVars
  <2>2. CASE \E r \in Run : Work(r) \/ Cleanup(r)
    BY <2>2, Zenon DEF Work, Retain, Inquire, Cleanup, OpenRun, runVars
  <2>3. CASE \/ Begin \/ Conclude \/ Crash \/ RetryOpen \/ UNCHANGED vars
             \/ \E s \in Scope : ExpireLock(s)
    BY <2>3, Zenon DEF Begin, Conclude, Crash, RetryOpen, ExpireLock, vars, runVars
  <2> QED BY <2>1, <2>2, <2>3, Zenon DEF Next
<1> QED BY <1>1, <1>2, Zenon DEF RunsGrow

(* An order whose transaction a step leaves alone keeps its invariant when   *)
(* its status, if it changes, becomes unknown only for a filed order.        *)
Quiet(o) ==
    /\ tx'[o] = tx[o]
    /\ o \in stamped' <=> o \in stamped
    /\ o \in filed' <=> o \in filed
    /\ o \in held' <=> o \in held
    /\ \/ status'[o] = status[o]
       \/ tx[o].at = "over" /\ (o \in filed \/ status'[o] # "reconcile_required")

LEMMA QuietStep ==
    ASSUME NEW o \in Order, OrderInv(o), RunsGrow, Quiet(o)
    PROVE  OrderInv(o)'
<1>1. TxInv(o)'
  BY Zenon DEF OrderInv, TxInv, Quiet, RunsGrow
<1>2. o \in Unknown' <=> status'[o] = "reconcile_required"
  BY Zenon DEF Unknown
<1>3. o \in Unknown <=> status[o] = "reconcile_required"
  BY Zenon DEF Unknown
<1>4. ASSUME o \in Unknown', o \in stamped', o \notin filed'
      PROVE  \E r \in Run : <<r, o>> \in link' /\ run'[r] # "unused"
  BY <1>2, <1>3, <1>4, Zenon DEF OrderInv, Quiet, RunsGrow
<1>5. ASSUME o \in Unknown', o \notin stamped', o \notin filed'
      PROVE  o \notin held'
  BY <1>2, <1>3, <1>5, Zenon DEF OrderInv, Quiet
<1> QED BY <1>1, <1>4, <1>5, Zenon DEF OrderInv

(* A step of one order's submission leaves the other orders alone.           *)
LEMMA OthersQuiet ==
    ASSUME TypeOK, NEW o \in Order, Submit(o), NEW p \in Order, p # o
    PROVE  Quiet(p)
<1>1. tx'[p] = tx[p]
  BY Zenon DEF TypeOK, Submit, Check, Send, Trigger, Link, Commit, Undo, Abandon, MoveTo
<1>2. status'[p] = status[p]
  BY Zenon DEF TypeOK, Submit, Check, Send, Trigger, Link, Commit, Undo, Abandon, orderVars
<1>3. (p \in stamped' <=> p \in stamped) /\ (p \in filed' <=> p \in filed)
  BY Zenon DEF Submit, Check, Send, Trigger, Link, Commit, Undo, Abandon, orderVars
<1>4. p \in held' <=> p \in held
  BY Zenon DEF Submit, Check, Send, Trigger, Link, Commit, Undo, Abandon, orderVars
<1> QED BY <1>1, <1>2, <1>3, <1>4, Zenon DEF Quiet

(* Every other step leaves all submissions alone.                            *)
LEMMA AllQuiet ==
    ASSUME SubmissionInv, [Next]_vars, ~ \E o \in Order : Submit(o), NEW p \in Order
    PROVE  Quiet(p)
<1>0. TypeOK /\ TxInv(p) /\ expiring \subseteq filed
  BY Zenon DEF SubmissionInv, OrderInv
<1>1. ASSUME UNCHANGED <<tx, orderVars>>
      PROVE  Quiet(p)
  BY <1>1, Zenon DEF Quiet, orderVars
<1>2. ASSUME NEW o \in Order, NEW s, SetStatus(o, s),
             status[o] \in {"pending_submit", "submitted", "reconcile_required"},
             o \in filed \/ s # "reconcile_required",
             UNCHANGED <<stamped, filed, held, tx>>
      PROVE  Quiet(p)
  BY <1>0, <1>2, Zenon DEF SetStatus, Quiet, TxInv, TypeOK
<1>3. ASSUME NEW o \in Order, Maintain(o)
      PROVE  Quiet(p)
  <2>1. CASE Sync(o)
    BY <1>2, <2>1, Zenon DEF Sync
  <2>2. CASE ExpireOrphan(o)
    BY <1>2, <2>2, Zenon DEF ExpireOrphan
  <2>3. CASE RejectStale(o)
    BY <1>2, <2>3, Zenon DEF RejectStale
  <2>4. CASE ManualResolve(o)
    BY <1>2, <2>4, Zenon DEF ManualResolve
  <2> QED BY <1>3, <2>1, <2>2, <2>3, <2>4, Zenon DEF Maintain
<1>4. CASE Conclude
  BY <1>0, <1>4, Zenon DEF Conclude, Quiet, TxInv
<1>5. ASSUME NEW o \in Order, Repair(o)
      PROVE  Quiet(p)
  BY <1>1, <1>5, Zenon DEF Repair, Backfill, RetryLink
<1>6. ASSUME NEW r \in Run, Work(r) \/ Cleanup(r)
      PROVE  Quiet(p)
  BY <1>1, <1>6, Zenon DEF Work, Retain, Inquire, Cleanup
<1>7. CASE Begin \/ Crash \/ RetryOpen \/ UNCHANGED vars \/ \E s \in Scope : ExpireLock(s)
  BY <1>1, <1>7, Zenon DEF Begin, Crash, RetryOpen, vars, ExpireLock
<1> QED BY <1>3, <1>4, <1>5, <1>6, <1>7, Zenon DEF Next

(* A step of its own submission keeps the invariant of an order.             *)
LEMMA SubmitStep ==
    ASSUME SubmissionInv, NEW o \in Order, Submit(o), RunsGrow
    PROVE  OrderInv(o)'
<1>0. /\ TypeOK /\ OrderInv(o) /\ TxInv(o)
      /\ tx \in [Order -> TxRecord] /\ tx[o] \in TxRecord
      /\ tx[o].answer \in Answer /\ tx[o].own \in 0 .. MaxRun
      /\ tx[o].joined \in 0 .. MaxRun
  BY Zenon DEF SubmissionInv, OrderInv, TypeOK, TxRecord
<1>1. tx[o].at # "over"
  BY Zenon DEF Submit, Check, Send, Trigger, Link, Commit, Undo, Abandon
<1>2. status[o] = "none" /\ o \notin stamped /\ o \notin filed
  BY <1>0, <1>1, Zenon DEF TxInv
<1>3. \A a \in Phase : MoveTo(o, a)[o] = Tx(a, tx[o].answer, tx[o].own, tx[o].joined)
  BY <1>0, Zenon DEF MoveTo
<1>4. ASSUME UNCHANGED <<status, stamped, filed>>, TxInv(o)'
      PROVE  OrderInv(o)'
  BY <1>2, <1>4, Zenon DEF OrderInv, Unknown
<1>5. CASE Check(o)
  <2>1. UNCHANGED <<status, stamped, filed, held>>
    BY <1>5, Zenon DEF Check, orderVars
  <2>2. o \notin held
    BY <1>0, <1>5, Zenon DEF Check, TxInv
  <2>3. \/ tx'[o] = Tx("ready", "blocked", NoRun, NoRun)
        \/ tx'[o] = Tx("clear", "none", NoRun, NoRun)
    BY <1>0, <1>5, Zenon DEF Check
  <2>4. \/ tx'[o].at = "ready" /\ tx'[o].answer = "blocked"
        \/ tx'[o].at = "clear"
    BY <2>3, TxFields
  <2>5. TxInv(o)'
    BY <1>2, <2>1, <2>2, <2>4, Zenon DEF TxInv
  <2> QED BY <1>4, <2>1, <2>5, Zenon
<1>6. CASE Send(o)
  <2>1. UNCHANGED <<status, stamped, filed>>
    BY <1>6, Zenon DEF Send
  <2>2. PICK a \in Answer \ {"none", "blocked"} :
            tx'[o] = Tx(IF a \in Ambiguous THEN "answered" ELSE "ready", a, NoRun, NoRun)
    BY <1>0, <1>6, Zenon DEF Send
  <2>3. /\ tx'[o].answer = a
        /\ tx'[o].at = IF a \in Ambiguous THEN "answered" ELSE "ready"
    BY <2>2, TxFields
  <2>4. a \notin Ambiguous => a \in {"accepted", "rejected", "raised"}
    BY Zenon DEF Ambiguous, Answer
  <2>5. TxInv(o)'
    BY <1>2, <2>1, <2>3, <2>4, Zenon DEF TxInv
  <2> QED BY <1>4, <2>1, <2>5, Zenon
<1>7. CASE Trigger(o)
  <2>1. UNCHANGED <<status, stamped, filed>>
    BY <1>7, Zenon DEF Trigger, orderVars
  <2>2. tx[o].answer \in Ambiguous
    BY <1>0, <1>7, Zenon DEF Trigger, TxInv
  <2>3. \/ tx'[o] = Tx("triggered", tx[o].answer, tx[o].own, tx[o].joined)
        \/ tx'[o] = Tx("poisoned", tx[o].answer, tx[o].own, tx[o].joined)
        \/ tx'[o] = Tx("triggered", tx[o].answer, lastRun + 1, NoRun)
    BY <1>0, <1>3, <1>7, Zenon DEF Trigger, Phase
  <2>4. tx'[o].at \in {"triggered", "poisoned"} /\ tx'[o].answer = tx[o].answer
    BY <2>3, TxFields
  <2>5. TxInv(o)'
    BY <1>2, <2>1, <2>2, <2>4, Zenon DEF TxInv
  <2> QED BY <1>4, <2>1, <2>5, Zenon
<1>8. CASE Link(o)
  <2>1. UNCHANGED <<status, stamped, filed, run>>
    BY <1>8, Zenon DEF Link, orderVars, runVars
  <2>2. tx[o].answer \in Ambiguous
    BY <1>0, <1>8, Zenon DEF Link, TxInv
  <2>3. \/ tx'[o] = Tx("poisoned", tx[o].answer, tx[o].own, tx[o].joined)
        \/ \E r \in Started \cup ({tx[o].own} \ {NoRun}) :
              tx'[o] = Tx("ready", tx[o].answer, tx[o].own, r)
    BY <1>0, <1>3, <1>8, Zenon DEF Link, Phase
  <2>4. \A r \in Started \cup ({tx[o].own} \ {NoRun}) :
            r \in Run /\ (r = tx[o].own \/ run[r] # "unused")
    BY <1>0, RunFacts, Zenon DEF Started
  <2>5. \/ tx'[o].at = "poisoned"
        \/ /\ tx'[o].at = "ready" /\ tx'[o].answer = tx[o].answer
           /\ tx'[o].joined \in Run
           /\ tx'[o].joined = tx'[o].own \/ run[tx'[o].joined] # "unused"
    <3>1. CASE tx'[o] = Tx("poisoned", tx[o].answer, tx[o].own, tx[o].joined)
      BY <3>1, TxFields
    <3>2. ASSUME NEW r \in Started \cup ({tx[o].own} \ {NoRun}),
                 tx'[o] = Tx("ready", tx[o].answer, tx[o].own, r)
          PROVE  /\ tx'[o].at = "ready" /\ tx'[o].answer = tx[o].answer
                 /\ tx'[o].own = tx[o].own /\ tx'[o].joined = r
      BY <3>2, TxFields
    <3> QED BY <2>3, <2>4, <3>1, <3>2, Zenon
  <2>6. TxInv(o)'
    BY <1>2, <2>1, <2>2, <2>5, Zenon DEF TxInv
  <2> QED BY <1>4, <2>1, <2>6
<1>9. CASE Commit(o)
  <2>0. tx' = MoveTo(o, "over")
    BY <1>9, Zenon DEF Commit
  <2>1. tx'[o].at = "over"
    BY <1>3, <2>0, TxFields DEF Phase
  <2>2. TxInv(o)'
    BY <2>1, Zenon DEF TxInv
  <2>3. /\ status'[o] = StatusAfter(tx[o].answer)
        /\ o \in stamped' <=> Stamps(tx[o].answer)
        /\ o \in filed' <=> tx[o].answer = "accepted"
        /\ held' = held
    BY <1>0, <1>2, <1>9, Zenon DEF Commit, TypeOK
  <2>4. CASE tx[o].answer \in {"accepted", "rejected", "raised"}
    BY <2>2, <2>3, <2>4, Zenon DEF OrderInv, Unknown, StatusAfter
  <2>5. CASE tx[o].answer = "blocked" /\ o \notin held
    BY <2>2, <2>3, <2>5, Zenon DEF OrderInv, Stamps
  <2>6. CASE /\ tx[o].answer \in Ambiguous
             /\ tx[o].joined \in Run
             /\ tx[o].joined = tx[o].own \/ run[tx[o].joined] # "unused"
    <3>1. o \in stamped'
      BY <2>3, <2>6, Zenon DEF Stamps, Ambiguous
    <3>2. <<tx[o].joined, o>> \in link'
      <4>1. tx[o].joined # NoRun
        BY <2>6 DEF Run, NoRun
      <4>2. link' = link \cup {<<tx[o].joined, o>>}
        BY <1>9, <4>1, Zenon DEF Commit
      <4> QED BY <4>2, Zenon
    <3>3. run'[tx[o].joined] # "unused"
      <4>1. CASE run[tx[o].joined] # "unused"
        BY <2>6, <4>1, Zenon DEF RunsGrow
      <4>2. CASE tx[o].joined = tx[o].own
        <5>1. tx[o].own \in Run /\ tx[o].own # NoRun
          BY <2>6, <4>2 DEF Run, NoRun
        <5>2. run' = [run EXCEPT ![tx[o].own] = "started"]
          BY <1>9, <5>1, Zenon DEF Commit
        <5>3. run'[tx[o].own] = "started"
          BY <1>0, <5>1, <5>2, Zenon DEF TypeOK
        <5> QED BY <4>2, <5>3, Zenon
      <4> QED BY <2>6, <4>1, <4>2, Zenon
    <3> QED BY <2>2, <2>6, <3>1, <3>2, <3>3, Zenon DEF OrderInv
  <2> QED BY <1>0, <1>9, <2>4, <2>5, <2>6, Zenon DEF Commit, TxInv
<1>10. CASE Undo(o) \/ Abandon(o)
  <2>1. UNCHANGED <<status, stamped, filed>>
    BY <1>10, Zenon DEF Undo, Abandon, orderVars
  <2>2. tx'[o].at = "over"
    BY <1>3, <1>10, TxFields DEF Undo, Abandon, Phase
  <2>3. TxInv(o)'
    BY <2>2 DEF TxInv
  <2> QED BY <1>4, <2>1, <2>3
<1> QED BY <1>5, <1>6, <1>7, <1>8, <1>9, <1>10, Zenon DEF Submit

LEMMA SubmissionInit == Init => SubmissionInv
<1> SUFFICES ASSUME Init PROVE SubmissionInv
  OBVIOUS
<1>1. \A o \in Order : tx[o].at = "new"
  BY Zenon DEF Init, NewTx, Tx
<1>2. \A o \in Order : OrderInv(o)
  BY <1>1, Zenon DEF Init, OrderInv, TxInv, Unknown
<1> QED BY <1>2, TypeInit, Zenon DEF Init, SubmissionInv

LEMMA SubmissionStep == SubmissionInv /\ [Next]_vars => SubmissionInv'
<1> SUFFICES ASSUME SubmissionInv, [Next]_vars PROVE SubmissionInv'
  OBVIOUS
<1>0. TypeOK /\ \A o \in Order : OrderInv(o)
  BY Zenon DEF SubmissionInv
<1>1. TypeOK'
  BY <1>0, TypeStep, Zenon
<1>2. RunsGrow
  BY <1>0, RunsOnlyGrow, Zenon
<1>3. expiring' \subseteq filed'
  <2>0. expiring \subseteq filed
    BY Zenon DEF SubmissionInv
  <2>1. filed \subseteq filed' /\ expiring' \subseteq expiring \cup filed
    <3>1. CASE \E o \in Order : Submit(o) \/ Maintain(o) \/ Repair(o)
      BY <3>1, Zenon DEF Submit, Check, Send, Trigger, Link, Commit, Undo, Abandon, Maintain, Sync,
         ExpireOrphan, RejectStale, ManualResolve, Repair, Backfill, RetryLink,
         orderVars, workerVars
    <3>2. CASE \E r \in Run : Work(r) \/ Cleanup(r)
      BY <3>2, Zenon DEF Work, Retain, Inquire, Cleanup, orderVars, workerVars
    <3>3. CASE \/ Begin \/ Conclude \/ Crash \/ RetryOpen \/ UNCHANGED vars
               \/ \E s \in Scope : ExpireLock(s)
      BY <3>3, Zenon DEF Begin, Conclude, Crash, RetryOpen, ExpireLock, vars, orderVars,
         workerVars
    <3> QED BY <3>1, <3>2, <3>3, Zenon DEF Next
  <2> QED BY <2>0, <2>1, Zenon
<1>4. ASSUME NEW p \in Order PROVE OrderInv(p)'
  <2>1. ASSUME NEW o \in Order, Submit(o), p # o PROVE OrderInv(p)'
    BY <1>0, <1>2, <2>1, OthersQuiet, QuietStep, Zenon
  <2>2. ASSUME Submit(p) PROVE OrderInv(p)'
    BY <1>2, <2>2, SubmitStep, Zenon
  <2>3. ASSUME ~ \E o \in Order : Submit(o) PROVE OrderInv(p)'
    BY <1>0, <1>2, <2>3, AllQuiet, QuietStep, Zenon
  <2> QED BY <2>1, <2>2, <2>3, Zenon
<1> QED BY <1>1, <1>3, <1>4, Zenon DEF SubmissionInv

(* Every order made RECONCILE_REQUIRED by an ambiguous answer of the broker  *)
(* is linked to a run, for any number of orders, scopes and runs.            *)
THEOREM AmbiguousAreLinked == Spec => []AmbiguousIsLinked
<1>1. SubmissionInv => AmbiguousIsLinked
  BY Zenon DEF SubmissionInv, OrderInv, AmbiguousIsLinked, Unknown
<1> QED BY <1>1, SubmissionInit, SubmissionStep, PTL DEF Spec

(* No RECONCILE_REQUIRED order without submitted_at and broker_orders row    *)
(* was ever sent to the broker: expire_eod_orphan_orders is right about it.  *)
THEOREM BlockedAreNeverSent == Spec => []BlockedNeverSent
<1>1. SubmissionInv => BlockedNeverSent
  BY Zenon DEF SubmissionInv, OrderInv, BlockedNeverSent, Unknown
<1> QED BY <1>1, SubmissionInit, SubmissionStep, PTL DEF Spec
=============================================================================
