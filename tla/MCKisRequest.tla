---------------------------- MODULE MCKisRequest ----------------------------
(* Instances of KisRequest: a client with two calls and one with a single  *)
(* call, which share the token cache file.                                 *)
EXTENDS KisRequest, TLC

CONSTANTS c1, c2, c3, k1, k2

MCOwner == (c1 :> k1) @@ (c2 :> k1) @@ (c3 :> k2)
MCCapacity == [b \in Bucket |-> IF b = "reconciliation" THEN 2 ELSE 1]
\* An order beside an inquiry, and an inquiry of the other process.
MCWork == (c1 :> {"sell", "quote"})
       @@ (c2 :> {"buy", "quote", "status", "cash", "orderable", "resolve"})
       @@ (c3 :> {"quote"})
MCMaxPages == [op \in Operation |-> IF op = "status" THEN 2 ELSE 1]
\* One refill: of the global bucket of the busy client.
MCMaxRefills ==
    [p \in Client |-> [b \in Bucket |-> IF p = k1 /\ b = "global" THEN 1 ELSE 0]]
=============================================================================
