------------------------- MODULE SharedBudgetProofs -------------------------
(***************************************************************************)
(* What holds of the shared budget file for any number of processes, any   *)
(* capacity and any refill rate.                                           *)
(***************************************************************************)
EXTENDS SharedBudget, TLAPS

USE SharedBudgetAssumption

\* Records dated no later than the clock.
Dated == [tokens : 0..Capacity, time : 0..now]

\* The inductive invariant.  The clock is read under the lock, so no record
\* is dated in the future, without which min(capacity, ...) would not bound
\* the refill from below; and a process that gives a token back owns one.
IInv ==
    /\ TypeOK
    /\ file \in Seq(Dated)
    /\ seen \in [Process -> Dated]
    /\ buffer \in [Process -> Seq(Dated)]
    /\ \A p \in Process : holder = p /\ op[p] = "release" => owned[p] > 0

\* What Refilled returns stays within the capacity: the bucket's min().
LEMMA RefilledType ==
    ASSUME now \in Nat, NEW r \in Dated
    PROVE  Refilled(r) \in 0..Capacity
<1>1. now - r.time \in Nat
  BY DEF Dated
<1>2. \A m, n \in Nat : m * n \in Nat
  OBVIOUS
<1>3. (now - r.time) * Rate \in Nat
  BY <1>1, <1>2
<1>4. QED
  BY <1>3 DEF Refilled, Minimum, Dated

\* A dated record is a record, and stays dated when the clock advances.
LEMMA DatedRecords ==
    ASSUME now \in 0..MaxTime
    PROVE  Dated \subseteq Record
BY DEF Dated, Record

\* The type invariant, with the dates it rests on, holds in every state.
THEOREM TypeCorrect == Spec => []TypeOK
<1>1. Init => IInv
  <2> SUFFICES ASSUME Init PROVE IInv
    OBVIOUS
  <2>1. [tokens |-> Capacity, time |-> 0] \in Dated \cap Record
    BY DEF Init, Dated, Record
  <2>2. QED
    BY <2>1 DEF Init, IInv, TypeOK, Operation
<1>2. IInv /\ [Next]_vars => IInv'
  <2> SUFFICES ASSUME IInv, [Next]_vars PROVE IInv'
    OBVIOUS
  <2>0. Dated \subseteq Record
    BY DatedRecords DEF IInv, TypeOK
  <2>1. ASSUME NEW p \in Process, NEW o \in Operation, LockAndRead(p, o)
        PROVE  IInv'
    <3> USE <2>1 DEF LockAndRead
    <3>1. Dated' = Dated
      BY DEF Dated
    <3>2. seen' \in [Process -> Dated]
      <4>1. CASE file = <<>>
        <5>1. [tokens |-> Capacity, time |-> now] \in Dated
          BY DEF Dated, IInv, TypeOK
        <5>2. QED
          BY <4>1, <5>1 DEF IInv
      <4>2. CASE file # <<>>
        <5>1. file[1] \in Dated
          BY <4>2 DEF IInv
        <5>2. QED
          BY <4>2, <5>1 DEF IInv
      <4>3. QED
        BY <4>1, <4>2
    <3>3. TypeOK'
      BY <2>0, <3>2 DEF IInv, TypeOK, Operation
    <3>4. \A q \in Process : holder' = q /\ op'[q] = "release" => owned'[q] > 0
      BY DEF IInv, TypeOK
    <3>5. QED
      BY <3>1, <3>2, <3>3, <3>4 DEF IInv
  <2>2. ASSUME NEW p \in Process, NEW o \in Operation, FailOpen(p, o)
        PROVE  IInv'
    <3>1. Dated' = Dated
      BY <2>2 DEF FailOpen, Dated
    <3>2. owned' \in [Process -> Nat] /\ granted' \in Int
      <4>1. owned \in [Process -> Nat] /\ granted \in Int
        BY DEF IInv, TypeOK
      <4>2. CASE o = "consume"
        BY <2>2, <4>1, <4>2 DEF FailOpen
      <4>3. CASE o = "release"
        BY <2>2, <4>1, <4>3 DEF FailOpen
      <4>4. QED
        BY <4>2, <4>3 DEF Operation
    <3>3. QED
      BY <2>2, <3>1, <3>2 DEF FailOpen, IInv, TypeOK
  <2>3. ASSUME NEW p \in Process, WriteAndUnlock(p) PROVE IInv'
    <3> USE <2>3 DEF WriteAndUnlock
    <3>1. Dated' = Dated
      BY DEF Dated
    <3>2. \A n \in 0..Capacity : [tokens |-> n, time |-> now] \in Dated
      BY DEF Dated, IInv, TypeOK
    <3>3. Remaining(p) \in 0..Capacity
      BY RefilledType DEF Remaining, Minimum, IInv, TypeOK
    <3>4. buffer' \in [Process -> Seq(Dated)]
      BY <3>2, <3>3 DEF IInv
    <3>5. owned' \in [Process -> Nat] /\ granted' \in Int
      <4>1. owned \in [Process -> Nat] /\ granted \in Int
        BY DEF IInv, TypeOK
      <4>2. CASE op[p] = "release"
        <5>1. owned[p] > 0
          BY <4>2 DEF IInv
        <5>2. QED
          BY <4>1, <4>2, <5>1
      <4>3. CASE op[p] # "release"
        BY <4>1, <4>3
      <4>4. QED
        BY <4>2, <4>3
    <3>6. file' \in Seq(Dated) /\ file' \in Seq(Record)
      OBVIOUS
    <3>7. TypeOK'
      BY <2>0, <3>4, <3>5, <3>6 DEF IInv, TypeOK
    <3>8. QED
      BY <3>1, <3>4, <3>6, <3>7 DEF IInv
  <2>4. ASSUME NEW p \in Process, Close(p) PROVE IInv'
    <3> USE <2>4 DEF Close
    <3>1. Dated' = Dated
      BY DEF Dated
    <3>2. buffer[p] \in Seq(Dated)
      BY DEF IInv
    <3>3. file' \in Seq(Dated)
      BY <3>2 DEF IInv
    <3>4. file' \in Seq(Record)
      BY <2>0, <3>3
    <3>5. QED
      BY <3>1, <3>3, <3>4 DEF IInv, TypeOK
  <2>5. ASSUME NEW p \in Process, Spend(p) PROVE IInv'
    <3>1. Dated' = Dated
      BY <2>5 DEF Spend, Dated
    <3>2. QED
      BY <2>5, <3>1 DEF Spend, IInv, TypeOK
  <2>6. ASSUME NEW p \in Process, Crash(p) PROVE IInv'
    <3>1. Dated' = Dated
      BY <2>6 DEF Crash, Dated
    <3>2. buffer' \in [Process -> Seq(Dated)] /\ buffer' \in [Process -> Seq(Record)]
      BY <2>6 DEF Crash, IInv, TypeOK
    <3>3. QED
      BY <2>6, <3>1, <3>2 DEF Crash, IInv, TypeOK
  <2>7. CASE Tick
    <3> USE <2>7 DEF Tick
    <3>1. Dated \subseteq Dated'
      BY DEF Dated, IInv, TypeOK
    <3>2. file' \in Seq(Dated') /\ seen' \in [Process -> Dated']
      BY <3>1 DEF IInv
    <3>3. buffer' \in [Process -> Seq(Dated')]
      BY <3>1 DEF IInv
    <3>4. TypeOK'
      BY DEF IInv, TypeOK
    <3>5. QED
      BY <3>2, <3>3, <3>4 DEF IInv
  <2>8. CASE UNCHANGED vars
    BY <2>8, Zenon DEF vars, IInv, TypeOK, Dated
  <2>9. QED
    BY <2>1, <2>2, <2>3, <2>4, <2>5, <2>6, <2>7, <2>8 DEF Next
<1>3. IInv => TypeOK
  BY DEF IInv
<1>4. QED
  BY <1>1, <1>2, <1>3, PTL DEF Spec

\* Once two writes have run together and no process is between its read and
\* its truncate, no operation of the bucket repairs the file: every later
\* _consume_sync takes the branch that allows the call.
THEOREM PermanentlyOpen == Spec => FailOpenIsPermanent
<1>1. TypeOK /\ [Next]_vars
        => (Corrupt /\ holder = NoOne => Corrupt' /\ holder' = NoOne)
  <2> SUFFICES ASSUME TypeOK, [Next]_vars, Corrupt, holder = NoOne
               PROVE  Corrupt' /\ holder' = NoOne
    OBVIOUS
  <2> USE DEF TypeOK, Corrupt
  <2>1. ASSUME NEW p \in Process, Close(p) PROVE Corrupt' /\ holder' = NoOne
    BY <2>1 DEF Close
  <2>2. QED
    BY <2>1 DEF Next, LockAndRead, FailOpen, WriteAndUnlock, Spend, Crash,
                Tick, vars
<1>2. QED
  BY <1>1, TypeCorrect, PTL DEF Spec, FailOpenIsPermanent
=============================================================================
