---------------------------- MODULE SharedBudget ----------------------------
(***************************************************************************)
(* brokers/shared_budget.py: FileBackedGlobalBucket, the token bucket that *)
(* the decision loop, the snapshot sync and the post-submit sync share     *)
(* through one flock-protected file.                                       *)
(*                                                                         *)
(* The file is opened in mode "a+", so what a process writes is appended   *)
(* when its buffer is flushed, and the buffer is flushed by close(), after *)
(* the finally clause has released the lock.  `file' is the sequence of    *)
(* flushed writes since the last truncation: empty, one record, or several *)
(* records run together, which float() refuses with a ValueError.          *)
(***************************************************************************)
EXTENDS Integers, Sequences

CONSTANTS Process,      \* the processes that share the file
          NoOne,        \* the holder of a free lock
          Capacity,     \* _capacity, in tokens
          Rate,         \* _refill_rate, in tokens per tick
          MaxTime,      \* bound: ticks of the clock
          MaxGrants,    \* bound: tokens granted and not given back
          MaxCrashes    \* bound: processes killed while they use the file

ASSUME SharedBudgetAssumption ==
    /\ NoOne \notin Process
    /\ Capacity \in Nat \ {0}
    /\ Rate \in Nat \ {0}
    /\ MaxTime \in Nat
    /\ MaxGrants \in Nat
    /\ MaxCrashes \in Nat

VARIABLES file,     \* flushed content: a sequence of [tokens, time]
          holder,   \* the process that holds LOCK_EX, or NoOne
          op,       \* "idle", or the operation a process is executing
          seen,     \* current_tokens and last_time as the process read them
          buffer,   \* the write a process has not flushed: <<>> or <<record>>
          now,      \* time.time()
          owned,    \* tokens a process was granted and may still give back
          granted,  \* tokens granted minus tokens given back, all processes
          crashes

vars == <<file, holder, op, seen, buffer, now, owned, granted, crashes>>

Record == [tokens : 0..Capacity, time : 0..MaxTime]
Operation == {"consume", "release"}

\* raw.split(",", 1) followed by float() raises ValueError.
Corrupt == Len(file) > 1

Minimum(a, b) == IF a <= b THEN a ELSE b

\* Mutant: the refill is not capped.
RefilledUncapped(r) == r.tokens + (now - r.time) * Rate

\* min(capacity, current_tokens + elapsed * refill_rate)
Refilled(r) == Minimum(Capacity, r.tokens + (now - r.time) * Rate)

Init ==
    /\ file = <<>>
    /\ holder = NoOne
    /\ op = [p \in Process |-> "idle"]
    /\ seen = [p \in Process |-> [tokens |-> Capacity, time |-> 0]]
    /\ buffer = [p \in Process |-> <<>>]
    /\ now = 0
    /\ owned = [p \in Process |-> 0]
    /\ granted = 0
    /\ crashes = 0

-----------------------------------------------------------------------------
(* The operations.                                                         *)

\* open("a+"), flock(LOCK_EX), seek(0), read(): a file that parses.
LockAndRead(p, o) ==
    /\ op[p] = "idle" /\ holder = NoOne /\ ~Corrupt
    /\ o = "release" => owned[p] > 0
    /\ o = "consume" => granted < MaxGrants
    /\ op' = [op EXCEPT ![p] = o]
    /\ holder' = p
    /\ seen' = [seen EXCEPT ![p] = IF file = <<>>
                                     THEN [tokens |-> Capacity, time |-> now]
                                     ELSE file[1]]
    /\ UNCHANGED <<file, buffer, now, owned, granted, crashes>>

\* Mutant: an unparsable file is handled as an empty one.
FailOpenRepairs(p, o) ==
    /\ op[p] = "idle" /\ holder = NoOne /\ Corrupt
    /\ o = "consume" /\ granted < MaxGrants
    /\ owned' = [owned EXCEPT ![p] = @ + 1]
    /\ granted' = granted + 1
    /\ file' = <<[tokens |-> Capacity - 1, time |-> now]>>
    /\ UNCHANGED <<holder, op, seen, buffer, now, crashes>>

\* The ValueError path of a file that does not parse: _consume_sync allows
\* the call, _release_sync ignores the request; neither writes.
FailOpen(p, o) ==
    /\ op[p] = "idle" /\ holder = NoOne /\ Corrupt
    /\ \/ o = "consume" /\ granted < MaxGrants
          /\ owned' = [owned EXCEPT ![p] = @ + 1]
          /\ granted' = granted + 1
       \/ o = "release" /\ owned[p] > 0
          /\ owned' = [owned EXCEPT ![p] = @ - 1]
          /\ UNCHANGED granted
    /\ UNCHANGED <<file, holder, op, seen, buffer, now, crashes>>

\* The token count an operation writes back.
Remaining(p) ==
    LET t == Refilled(seen[p])
    IN  IF op[p] = "release" THEN Minimum(Capacity, t + 1)
        ELSE IF t >= 1 THEN t - 1 ELSE t

\* Compute, seek(0), truncate(), write() into the buffer, and the finally
\* clause's flock(LOCK_UN).
WriteAndUnlock(p) ==
    /\ holder = p
    /\ buffer' = [buffer EXCEPT ![p] = <<[tokens |-> Remaining(p), time |-> now]>>]
    /\ \/ op[p] = "consume" /\ Refilled(seen[p]) >= 1
          /\ owned' = [owned EXCEPT ![p] = @ + 1]
          /\ granted' = granted + 1
       \/ op[p] = "consume" /\ Refilled(seen[p]) < 1
          /\ UNCHANGED <<owned, granted>>
       \/ op[p] = "release"
          /\ owned' = [owned EXCEPT ![p] = @ - 1]
          /\ granted' = granted - 1
    /\ file' = <<>>
    /\ holder' = NoOne
    /\ UNCHANGED <<op, seen, now, crashes>>

\* Leaving the with statement: close() flushes the buffer at the file's end.
Close(p) ==
    /\ op[p] # "idle" /\ holder # p
    /\ file' = file \o buffer[p]
    /\ buffer' = [buffer EXCEPT ![p] = <<>>]
    /\ op' = [op EXCEPT ![p] = "idle"]
    /\ UNCHANGED <<holder, seen, now, owned, granted, crashes>>

\* The request the token was for is made: the token is no longer refundable.
Spend(p) ==
    /\ op[p] = "idle" /\ owned[p] > 0
    /\ owned' = [owned EXCEPT ![p] = @ - 1]
    /\ UNCHANGED <<file, holder, op, seen, buffer, now, granted, crashes>>

\* The scheduler kills a subprocess: the kernel drops its lock, its buffer
\* is lost.
Crash(p) ==
    /\ op[p] # "idle" /\ crashes < MaxCrashes
    /\ crashes' = crashes + 1
    /\ holder' = IF holder = p THEN NoOne ELSE holder
    /\ op' = [op EXCEPT ![p] = "idle"]
    /\ buffer' = [buffer EXCEPT ![p] = <<>>]
    /\ owned' = [owned EXCEPT ![p] = 0]
    /\ UNCHANGED <<file, seen, now, granted>>

Tick ==
    /\ now < MaxTime
    /\ now' = now + 1
    /\ UNCHANGED <<file, holder, op, seen, buffer, owned, granted, crashes>>

Next ==
    \/ \E p \in Process, o \in Operation : LockAndRead(p, o) \/ FailOpen(p, o)
    \/ \E p \in Process : WriteAndUnlock(p) \/ Close(p) \/ Spend(p) \/ Crash(p)
    \/ Tick

Spec == Init /\ [][Next]_vars

-----------------------------------------------------------------------------
(* Properties.                                                             *)

\* Type invariant: records and buffers hold a token count within the capacity.
TypeOK ==
    /\ file \in Seq(Record)
    /\ holder \in Process \cup {NoOne}
    /\ op \in [Process -> Operation \cup {"idle"}]
    /\ seen \in [Process -> Record]
    /\ buffer \in [Process -> Seq(Record)]
    /\ now \in 0..MaxTime
    /\ owned \in [Process -> Nat]
    /\ granted \in Int
    /\ crashes \in 0..MaxCrashes

\* The ValueError branch of _consume_sync writes nothing, so a file holding
\* two records run together, once no process is between its read and its
\* truncate, is never repaired: the bucket stays disabled.
FailOpenIsPermanent == [][Corrupt /\ holder = NoOne => Corrupt' /\ holder' = NoOne]_vars
=============================================================================
