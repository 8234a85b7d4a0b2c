------------------------------- MODULE FdcJobs -------------------------------
(***************************************************************************)
(* What the queue of FDC jobs promises, without the process, the           *)
(* subprocesses, the quota or the gate: a job is reserved, asked and       *)
(* queued again any number of times, but never while a request is out: one *)
(* that is out is heard, or dropped by whoever sent it, before the next.   *)
(* The job ends once, stays ended, and is decided on at most once after it *)
(* ended.                                                                  *)
(***************************************************************************)
EXTENDS Naturals

CONSTANT Job

VARIABLES
    row,       \* status of the job's row
    asked,     \* the last request: "out", or "dropped" without an answer
    decisions  \* second passes run for the job

vars == <<row, asked, decisions>>

Ended == {"FDC_SUCCEEDED", "FDC_FAILED_FINAL", "CANCELLED"}

Init ==
    /\ row = [j \in Job |-> "none"]
    /\ asked = [j \in Job |-> "none"]
    /\ decisions = [j \in Job |-> 0]

Register(j) ==
    /\ row[j] = "none"
    /\ row' = [row EXCEPT ![j] = "QUEUED"]
    /\ UNCHANGED <<asked, decisions>>

Reserve(j) ==
    /\ row[j] = "QUEUED"
    /\ asked[j] # "out"
    /\ row' = [row EXCEPT ![j] = "RESERVATION_GRANTED"]
    /\ UNCHANGED <<asked, decisions>>

\* A subprocess may outlive its parent and ask after the row was ended.
Ask(j) ==
    /\ row[j] \in {"RESERVATION_GRANTED"} \cup Ended
    /\ asked[j] # "out"
    /\ asked' = [asked EXCEPT ![j] = "out"]
    /\ UNCHANGED <<row, decisions>>

Hear(j) ==
    /\ row[j] = "RESERVATION_GRANTED"
    /\ asked[j] = "out"
    /\ asked' = [asked EXCEPT ![j] = "none"]
    /\ UNCHANGED <<row, decisions>>

Drop(j) ==
    /\ asked[j] = "out"
    /\ asked' = [asked EXCEPT ![j] = "dropped"]
    /\ UNCHANGED <<row, decisions>>

QueueAgain(j) ==
    /\ row[j] = "RESERVATION_GRANTED"
    /\ asked[j] # "out"
    /\ row' = [row EXCEPT ![j] = "QUEUED"]
    /\ UNCHANGED <<asked, decisions>>

\* A job that was never reserved may fail, but only a reserved one succeeds or is
\* cancelled.
End(j, s) ==
    /\ row[j] = "RESERVATION_GRANTED" \/ (row[j] = "QUEUED" /\ s = "FDC_FAILED_FINAL")
    /\ row' = [row EXCEPT ![j] = s]
    /\ UNCHANGED <<asked, decisions>>

Decide(j) ==
    /\ row[j] \in {"FDC_SUCCEEDED", "FDC_FAILED_FINAL"}
    /\ decisions[j] = 0
    /\ decisions' = [decisions EXCEPT ![j] = 1]
    /\ UNCHANGED <<row, asked>>

Next ==
    \E j \in Job :
        \/ Register(j) \/ Reserve(j) \/ Ask(j) \/ Hear(j) \/ Drop(j)
        \/ QueueAgain(j)
        \/ \E s \in Ended : End(j, s)
        \/ Decide(j)

Spec == Init /\ [][Next]_vars

=============================================================================
