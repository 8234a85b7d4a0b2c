-------------------------- MODULE KisRequestProofs --------------------------
(***************************************************************************)
(* What TLAPS proves of KisRequest, for any number of clients, calls and   *)
(* tokens, any capacity of the buckets and any threshold of the breaker.   *)
(***************************************************************************)
EXTENDS KisFrameProofs, FiniteSetTheorems

(***************************************************************************)
(* The lock: it is held by exactly the call that asks KIS for a token.     *)
(***************************************************************************)
LockInv ==
    \A p \in Client, d \in Call :
        lock[p] = d <=> Owner[d] = p /\ call[d].pc \in {"issue", "saving"}

(***************************************************************************)
(* Where a token may be.  Every token in memory, in the file or in a frame *)
(* was issued.  The token of a call that is still saving is known to its   *)
(* client alone.  A token that KIS refused is gone from the memory of the  *)
(* call's client and from the file, and nobody is about to write it again. *)
(***************************************************************************)
KnownTokens ==
    /\ \A p \in Client : access[p] <= issued
    /\ file <= issued
    /\ \A c \in Call : call[c].token <= issued /\ call[c].rejected <= issued

SavedByOne ==
    \A d \in Call : call[d].pc = "saving" =>
        /\ file # call[d].token
        /\ \A p \in Client \ {Owner[d]} : access[p] # call[d].token
        /\ \A c \in Call : call[c].rejected # call[d].token
        /\ \A c \in Call \ {d} : call[c].token # call[d].token

RefusedIsGone ==
    \A c \in Call : call[c].reauth =>
        /\ call[c].rejected \in Token
        /\ call[c].pc = "auth" =>
              /\ access[Owner[c]] # call[c].rejected
              /\ file # call[c].rejected
              /\ \A d \in Call : call[d].pc = "saving" => call[d].token # call[c].rejected
        /\ call[c].pc \in {"saving", "flight"} => call[c].token # call[c].rejected

TokenInv == KnownTokens /\ SavedByOne /\ RefusedIsGone

-----------------------------------------------------------------------------
(* Type correctness.  What the tokens of a client become.                    *)
LEMMA MinimumFacts ==
    ASSUME NEW a \in Nat, NEW b \in Nat
    PROVE  Minimum(a, b) \in Nat /\ Minimum(a, b) <= a /\ Minimum(a, b) <= b
BY DEF Minimum

LEMMA ReleasedFacts ==
    ASSUME NEW c \in Call, NEW t \in [Bucket -> Nat], \A b \in Bucket : t[b] <= Capacity[b]
    PROVE  /\ Released(c, t) \in [Bucket -> Nat]
           /\ \A b \in Bucket :
                 /\ Released(c, t)[b] <= Capacity[b]
                 /\ Released(c, t)[b] <= t[b] + 1
                 /\ b # call[c].bucket /\ (b # "global" \/ call[c].skip)
                       => Released(c, t)[b] = t[b]
<1> DEFINE r == Released(c, t)
           back(b) == b = call[c].bucket \/ (b = "global" /\ ~call[c].skip)
<1>1. r = [b \in Bucket |-> IF back(b) THEN Minimum(Capacity[b], t[b] + 1) ELSE t[b]]
  BY Zenon DEF Released
<1> HIDE DEF r, back
<1>2. ASSUME NEW b \in Bucket
      PROVE  /\ r[b] \in Nat /\ r[b] <= Capacity[b] /\ r[b] <= t[b] + 1
             /\ ~back(b) => r[b] = t[b]
  <2>1. Capacity[b] \in Nat /\ t[b] + 1 \in Nat /\ t[b] \in Nat
    BY KisRequestAssumption
  <2>2. /\ Minimum(Capacity[b], t[b] + 1) \in Nat
        /\ Minimum(Capacity[b], t[b] + 1) <= Capacity[b]
        /\ Minimum(Capacity[b], t[b] + 1) <= t[b] + 1
    BY <2>1, MinimumFacts, Zenon
  <2>3. r[b] = IF back(b) THEN Minimum(Capacity[b], t[b] + 1) ELSE t[b]
    BY <1>1, Zenon
  <2> QED
    BY <2>1, <2>2, <2>3
<1>3. r \in [Bucket -> Nat]
  BY <1>1, <1>2, Zenon
<1> QED
  BY <1>2, <1>3, Zenon DEF r, back

LEMMA ConsumedFacts ==
    ASSUME StateInv, NEW c \in Call, Payable(c)
    PROVE  /\ Owner[c] \in Client /\ call[c].bucket \in Bucket
           /\ Consumed(c) \in [Bucket -> Nat]
           /\ \A b \in Bucket :
                 Consumed(c)[b] =
                    IF (b = "global" /\ ~call[c].skip) \/ (b = call[c].bucket /\ ~FromReserve(c))
                      THEN tokens[Owner[c]][b] - 1 ELSE tokens[Owner[c]][b]
<1> DEFINE p == Owner[c]
           paid(b) == (b = "global" /\ ~call[c].skip) \/ (b = call[c].bucket /\ ~FromReserve(c))
<1>1. /\ p \in Client /\ tokens[p] \in [Bucket -> Nat] /\ call[c].bucket \in Bucket
      /\ "global" \in Bucket
  BY KisRequestAssumption, Zenon DEF StateInv, TypeOK, Frame, Bucket
<1>2. /\ Consumed(c) = [b \in Bucket |-> Consumed(c)[b]]
      /\ \A b \in Bucket :
            Consumed(c)[b] = IF paid(b) THEN tokens[p][b] - 1 ELSE tokens[p][b]
  BY Zenon DEF Consumed
<1>3. ASSUME NEW b \in Bucket, paid(b) PROVE tokens[p][b] > 0
  <2>1. CASE b = "global" /\ ~call[c].skip
    BY <2>1, Zenon DEF Payable, GlobalPasses
  <2>2. CASE b = call[c].bucket /\ ~FromReserve(c)
    BY <2>2, Zenon DEF Payable
  <2> QED
    BY <1>3, <2>1, <2>2, Zenon
<1> HIDE DEF paid
<1>4. ASSUME NEW b \in Bucket PROVE Consumed(c)[b] \in Nat
  BY <1>1, <1>2, <1>3
<1>5. Consumed(c) \in [Bucket -> Nat]
  BY <1>2, <1>4, Zenon
<1> QED
  BY <1>1, <1>2, <1>5, Zenon DEF paid

(* The steps, told apart by what they do to the budget and to the tokens.    *)
Consumes(c) ==
    /\ \E elapsed \in BOOLEAN : Consume(c, elapsed)
    /\ Pays(c) \/ PaysInVain(c)

Authenticates(c) ==
    /\ AuthFromCache(c) \/ AuthMiss(c) \/ Issue(c) \/ Save(c)
    /\ Inside(c)

Fails(c) ==
    /\ \/ IssueFails(c) \/ Timeout(c) \/ ReauthTimeout(c) \/ NetworkError(c) \/ Expired(c)
       \/ \E why \in {"rate_limit", "error"} : Refused(c, why)
    /\ Inside(c) \/ Raises(c)

Moves(c) == Outside(c) \/ Waits(c) \/ Consumes(c) \/ Authenticates(c) \/ Fails(c) \/ Succeeds(c)

LEMMA StepCases ==
    ASSUME StateInv, [Next]_vars
    PROVE  \/ \E c \in Call : Runs(c) /\ Moves(c)
           \/ \E p \in Client, b \in Bucket : OperationBucketRefill(p, b)
           \/ UNCHANGED vars
<1>1. ASSUME NEW c \in Call, StartFromCache(c) \/ \E op \in Operation : Start(c, op)
      PROVE  Moves(c)
  BY <1>1, StartIsOutside, Zenon DEF Moves
<1>2. ASSUME NEW c \in Call, Step(c) PROVE Runs(c) /\ Moves(c)
  <2>1. Runs(c)
    BY <1>2, Zenon DEF Step
  <2>2. CASE Precheck(c) \/ GlobalExhausted(c) \/ BucketExhausted(c)
    BY <2>1, <2>2, BudgetIsOutside, Zenon DEF Moves
  <2>3. CASE WaitForGlobal(c)
    BY <2>1, <2>3, BudgetIsOutside, WaitWaits, Zenon DEF Moves
  <2>4. CASE \E elapsed \in BOOLEAN : Consume(c, elapsed)
    BY <2>1, <2>4, ConsumePays, Zenon DEF Moves, Consumes
  <2>5. CASE AuthFromCache(c) \/ AuthMiss(c) \/ Issue(c) \/ Save(c)
    BY <2>1, <2>5, AuthIsInside, Zenon DEF Moves, Authenticates
  <2>6. CASE IssueFails(c)
    BY <2>1, <2>6, ExchangeFrame, Zenon DEF Moves, Fails
  <2>7. CASE Exchange(c)
    BY <2>1, <2>7, ExchangeFrame, SucceedSucceeds, Zenon DEF Exchange, Moves, Fails
  <2>8. CASE \/ Repeat(c) \/ RepeatFromCache(c) \/ NextPage(c) \/ ReservedLane(c)
             \/ ReserveReconciliation(c) \/ AskPositions(c) \/ End(c)
    BY <2>1, <2>8, OperationIsOutside, Zenon DEF Moves
  <2> QED
    BY <1>2, <2>1, <2>2, <2>3, <2>4, <2>5, <2>6, <2>7, <2>8, Zenon DEF Step
<1> QED
  BY <1>1, <1>2, Zenon DEF Next, Rest

(* The frames stay frames.                                                   *)
LEMMA FramesStep ==
    ASSUME StateInv, [Next]_vars
    PROVE  call' \in [Call -> Frame] /\ \A d \in Call : Local(call'[d])
<1>1. call \in [Call -> Frame] /\ \A d \in Call : Local(call[d])
  BY Zenon DEF StateInv, TypeOK
<1>2. ASSUME NEW c \in Call, NEW g \in Frame, Local(g), call' = [call EXCEPT ![c] = g]
      PROVE  call' \in [Call -> Frame] /\ \A d \in Call : Local(call'[d])
  BY <1>1, <1>2, Zenon
<1>3. CASE \E c \in Call : Runs(c) /\ Moves(c)
  <2>1. PICK c \in Call : Moves(c)
    BY <1>3, Zenon
  <2>2. PICK g \in Frame : Local(g) /\ call' = [call EXCEPT ![c] = g]
    <3>1. CASE Outside(c) \/ Waits(c)
      BY <3>1, Zenon DEF Outside, Waits
    <3>2. CASE Consumes(c)
      BY <3>2, Zenon DEF Consumes, Pays, PaysInVain
    <3>3. CASE Authenticates(c) \/ Fails(c) \/ Succeeds(c)
      BY <3>3, Zenon DEF Authenticates, Fails, Inside, Raises, Succeeds
    <3> QED
      BY <2>1, <3>1, <3>2, <3>3, Zenon DEF Moves
  <2> QED
    BY <1>2, <2>2, Zenon
<1>4. CASE \E p \in Client, b \in Bucket : OperationBucketRefill(p, b)
  BY <1>1, <1>4, Zenon DEF OperationBucketRefill
<1>5. CASE UNCHANGED vars
  BY <1>1, <1>5, Zenon DEF vars
<1> QED
  BY <1>3, <1>4, <1>5, StepCases, Zenon


(* The budget keeps its type and never exceeds the capacities.               *)
LEMMA BudgetType ==
    ASSUME StateInv, [Next]_vars
    PROVE  /\ tokens' \in [Client -> [Bucket -> Nat]]
           /\ \A p \in Client, b \in Bucket : tokens'[p][b] <= Capacity[b]
           /\ reserve' \in [Client -> 0..ReserveCapacity]
           /\ refills' \in [Client -> [Bucket -> Nat]]
           /\ succeeded' \in [Client -> [Bucket -> Nat]]
<1> DEFINE Full(t) == /\ t \in [Client -> [Bucket -> Nat]]
                      /\ \A p \in Client, b \in Bucket : t[p][b] <= Capacity[b]
           Goal == /\ Full(tokens')
                   /\ reserve' \in [Client -> 0..ReserveCapacity]
                   /\ refills' \in [Client -> [Bucket -> Nat]]
                   /\ succeeded' \in [Client -> [Bucket -> Nat]]
<1>1. /\ Full(tokens)
      /\ reserve \in [Client -> 0..ReserveCapacity]
      /\ refills \in [Client -> [Bucket -> Nat]]
      /\ succeeded \in [Client -> [Bucket -> Nat]]
  BY Zenon DEF StateInv, TypeOK
<1>2. Capacity \in [Bucket -> Nat] /\ Owner \in [Call -> Client] /\ ReserveCapacity \in Nat
  BY KisRequestAssumption, Zenon
<1>3. ASSUME NEW p \in Client, NEW t \in [Bucket -> Nat], \A b \in Bucket : t[b] <= Capacity[b]
      PROVE  Full([tokens EXCEPT ![p] = t])
  BY <1>1, <1>3, Zenon
<1>4. ASSUME NEW c \in Call, Outside(c) PROVE Goal
  <2>1. ASSUME NEW p \in Client, NEW b \in Bucket PROVE tokens'[p][b] <= Capacity[b]
    <3>1. /\ tokens'[p][b] <= tokens[p][b] /\ tokens[p][b] <= Capacity[b]
          /\ tokens'[p][b] \in Nat /\ tokens[p][b] \in Nat /\ Capacity[b] \in Nat
      BY <1>1, <1>2, <1>4, ZenonT(60) DEF Outside
    <3> QED
      BY <3>1
  <2> QED
    BY <1>1, <1>4, <2>1, Zenon DEF Outside
<1>5. ASSUME NEW c \in Call, Waits(c) PROVE Goal
  <2> DEFINE p == Owner[c]
             t == [tokens[p] EXCEPT !["global"] = @ - 1]
  <2>1. /\ p \in Client /\ tokens[p] \in [Bucket -> Nat] /\ tokens[p]["global"] > 0
        /\ tokens' = [tokens EXCEPT ![p] = t] /\ "global" \in Bucket
    BY <1>1, <1>2, <1>5, Zenon DEF Waits, Bucket
  <2>2. t \in [Bucket -> Nat] /\ \A b \in Bucket : t[b] <= tokens[p][b]
    BY <2>1
  <2> HIDE DEF t, p
  <2>3. ASSUME NEW b \in Bucket PROVE t[b] <= Capacity[b]
    <3>1. /\ t[b] <= tokens[p][b] /\ tokens[p][b] <= Capacity[b]
          /\ t[b] \in Nat /\ tokens[p][b] \in Nat /\ Capacity[b] \in Nat
      BY <1>1, <1>2, <2>1, <2>2, Zenon
    <3> QED
      BY <3>1
  <2> HIDE DEF Full
  <2>4. Full([tokens EXCEPT ![p] = t])
    BY <1>3, <2>1, <2>2, <2>3, Zenon
  <2>5. UNCHANGED <<reserve, refills, succeeded>>
    BY <1>5, Zenon DEF Waits
  <2> QED
    BY <1>1, <2>1, <2>4, <2>5, Zenon
<1>6. ASSUME NEW c \in Call, Consumes(c) PROVE Goal
  <2> DEFINE p == Owner[c]
             t == Consumed(c)
  <2>0. Payable(c)
    BY <1>6, Zenon DEF Consumes, Pays, PaysInVain
  <2>1. p \in Client /\ t \in [Bucket -> Nat]
    BY <2>0, ConsumedFacts, Zenon
  <2>2. ASSUME NEW b \in Bucket PROVE t[b] <= Capacity[b]
    <3>1. tokens[p][b] <= Capacity[b] /\ tokens[p][b] \in Nat /\ Capacity[b] \in Nat
      BY <1>1, <1>2, <2>1, Zenon
    <3>2. t[b] = tokens[p][b] - 1 \/ t[b] = tokens[p][b]
      BY <2>0, ConsumedFacts, Zenon
    <3> QED
      BY <3>1, <3>2
  <2> HIDE DEF t
  <2>3. /\ Released(c, t) \in [Bucket -> Nat]
        /\ \A b \in Bucket : Released(c, t)[b] <= Capacity[b]
    BY <2>1, <2>2, ReleasedFacts, Zenon
  <2>4. Full(tokens')
    <3>1. \/ tokens' = [tokens EXCEPT ![p] = t]
          \/ tokens' = [tokens EXCEPT ![p] = Released(c, t)]
      BY <1>6, Zenon DEF Consumes, Pays, PaysInVain, t
    <3> HIDE DEF Full
    <3> QED
      BY <1>3, <2>1, <2>2, <2>3, <3>1, Zenon
  <2>5. /\ reserve' = [reserve EXCEPT ![p] = IF FromReserve(c) THEN @ - 1 ELSE @]
        /\ UNCHANGED <<refills, succeeded>>
    BY <1>6, Zenon DEF Consumes, Consume
  <2>6. FromReserve(c) => reserve[p] > 0
    BY Zenon DEF FromReserve
  <2> HIDE DEF p, Full
  <2>7. reserve' \in [Client -> 0..ReserveCapacity]
    BY <1>1, <1>2, <2>1, <2>5, <2>6
  <2> QED
    BY <1>1, <2>4, <2>5, <2>7, Zenon
<1>7. ASSUME NEW c \in Call, Inside(c) PROVE Goal
  BY <1>1, <1>7, Zenon DEF Inside, budgetVars
<1>8. ASSUME NEW c \in Call, Raises(c) PROVE Goal
  <2>1. Owner[c] \in Client /\ tokens[Owner[c]] \in [Bucket -> Nat]
    BY <1>1, <1>2, Zenon
  <2>2. /\ Released(c, tokens[Owner[c]]) \in [Bucket -> Nat]
        /\ \A b \in Bucket : Released(c, tokens[Owner[c]])[b] <= Capacity[b]
    BY <1>1, <2>1, ReleasedFacts, Zenon
  <2> QED
    BY <1>1, <1>3, <1>8, <2>1, <2>2, Zenon DEF Raises
<1>9. ASSUME NEW c \in Call, Succeeds(c) PROVE Goal
  <2> DEFINE p == Owner[c]
             s == [b \in Bucket |-> IF KeptBy(call[c], b) THEN succeeded[p][b] + 1
                                                         ELSE succeeded[p][b]]
  <2>1. /\ p \in Client /\ succeeded' = [succeeded EXCEPT ![p] = s]
        /\ UNCHANGED <<tokens, reserve, refills>>
    BY <1>2, <1>9, Zenon DEF Succeeds
  <2>2. s \in [Bucket -> Nat]
    BY <1>1, <2>1
  <2> HIDE DEF s
  <2> QED
    BY <1>1, <2>1, <2>2, Zenon
<1>10. ASSUME NEW p \in Client, NEW b \in Bucket, OperationBucketRefill(p, b) PROVE Goal
  <2> DEFINE t == [tokens[p] EXCEPT ![b] = Minimum(Capacity[b], @ + 1)]
             r == [refills[p] EXCEPT ![b] = @ + 1]
  <2>1. /\ tokens' = [tokens EXCEPT ![p] = t] /\ refills' = [refills EXCEPT ![p] = r]
        /\ UNCHANGED <<reserve, succeeded>>
    BY <1>10, Zenon DEF OperationBucketRefill
  <2>2. r \in [Bucket -> Nat]
    BY <1>1
  <2>3. /\ Minimum(Capacity[b], tokens[p][b] + 1) \in Nat
        /\ Minimum(Capacity[b], tokens[p][b] + 1) <= Capacity[b]
    BY <1>1, <1>2 DEF Minimum
  <2>4. t \in [Bucket -> Nat] /\ \A d \in Bucket : t[d] <= Capacity[d]
    BY <1>1, <2>3, Zenon
  <2> HIDE DEF t, r
  <2> QED
    BY <1>1, <1>3, <2>1, <2>2, <2>4, Zenon
<1>11. CASE UNCHANGED vars
  BY <1>1, <1>11, Zenon DEF vars, budgetVars
<1> QED
  BY <1>4, <1>5, <1>6, <1>7, <1>8, <1>9, <1>10, <1>11, StepCases, Zenon
     DEF Moves, Authenticates, Fails


(***************************************************************************)
(* The breaker of a client.  Whatever its history, one answer, timeout or  *)
(* look at the clock keeps it a breaker, and below the threshold while it  *)
(* is CLOSED.                                                              *)
(***************************************************************************)
Breaker == [state : {"closed", "half_open", "open"}, failures : 0..Threshold]

Healthy(b) == b.state = "closed" => b.failures < Threshold

LEMMA BreakerOperations ==
    ASSUME NEW b \in Breaker, Healthy(b)
    PROVE  /\ \A elapsed \in BOOLEAN : /\ CheckTimeout(b, elapsed) \in Breaker
                                       /\ Healthy(CheckTimeout(b, elapsed))
           /\ OnSuccess(b) \in Breaker /\ Healthy(OnSuccess(b))
           /\ OnFailure(b) \in Breaker /\ Healthy(OnFailure(b))
<1>1. /\ b.state \in {"closed", "half_open", "open"} /\ b.failures \in 0..Threshold
      /\ Threshold \in Nat \ {0}
  BY KisRequestAssumption, Zenon DEF Breaker
<1>2. Closed \in Breaker /\ Healthy(Closed)
  BY <1>1 DEF Closed, Breaker, Healthy
<1>3. ASSUME NEW elapsed \in BOOLEAN
      PROVE  CheckTimeout(b, elapsed) \in Breaker /\ Healthy(CheckTimeout(b, elapsed))
  BY Zenon DEF CheckTimeout, Breaker, Healthy
<1>4. [b EXCEPT !.failures = 0] \in Breaker /\ Healthy([b EXCEPT !.failures = 0])
  BY <1>1 DEF Breaker, Healthy
<1>5. OnSuccess(b) \in Breaker /\ Healthy(OnSuccess(b))
  BY <1>2, <1>4, Zenon DEF OnSuccess
<1>6. OnFailure(b) \in Breaker /\ Healthy(OnFailure(b))
  <2>1. /\ Minimum(Threshold, b.failures + 1) \in 0..Threshold
        /\ b.failures + 1 < Threshold => Minimum(Threshold, b.failures + 1) < Threshold
    BY <1>1 DEF Minimum
  <2>2. /\ OnFailure(b).failures = Minimum(Threshold, b.failures + 1)
        /\ OnFailure(b).state =
              IF b.state = "half_open" \/ b.failures + 1 >= Threshold THEN "open" ELSE b.state
    BY Zenon DEF OnFailure
  <2>3. OnFailure(b) \in Breaker
    BY <1>1, <2>1, Zenon DEF OnFailure, Breaker
  <2>4. Healthy(OnFailure(b))
    BY <1>1, <2>1, <2>2 DEF Healthy
  <2> QED
    BY <2>3, <2>4, Zenon
<1> QED
  BY <1>3, <1>5, <1>6, Zenon

BreakerInv == breaker \in [Client -> Breaker] /\ \A p \in Client : Healthy(breaker[p])

LEMMA BreakerStep ==
    ASSUME StateInv, BreakerInv, [Next]_vars
    PROVE  BreakerInv'
<1>1. ASSUME NEW p \in Client, NEW b \in Breaker, Healthy(b), breaker' = [breaker EXCEPT ![p] = b]
      PROVE  BreakerInv'
  BY <1>1, Zenon DEF BreakerInv
<1>2. ASSUME UNCHANGED breaker PROVE BreakerInv'
  BY <1>2, Zenon DEF BreakerInv
<1>3. ASSUME NEW c \in Call, Moves(c) PROVE BreakerInv'
  <2>1. Owner[c] \in Client /\ breaker[Owner[c]] \in Breaker /\ Healthy(breaker[Owner[c]])
    BY KisRequestAssumption, Zenon DEF BreakerInv
  <2>2. CASE Outside(c) \/ Waits(c) \/ Inside(c)
    BY <1>2, <2>2, Zenon DEF Outside, Waits, Inside
  <2>3. CASE Consumes(c)
    <3>1. PICK elapsed \in BOOLEAN :
             breaker' = [breaker EXCEPT ![Owner[c]] = CheckTimeout(breaker[Owner[c]], elapsed)]
      BY <2>3, Zenon DEF Consumes, Consume
    <3> QED
      BY <1>1, <2>1, <3>1, BreakerOperations, Zenon
  <2>4. CASE Raises(c)
    <3>1. \/ UNCHANGED breaker
          \/ breaker' = [breaker EXCEPT ![Owner[c]] = OnFailure(breaker[Owner[c]])]
      BY <2>4, Zenon DEF Raises
    <3> QED
      BY <1>1, <1>2, <2>1, <3>1, BreakerOperations, Zenon
  <2>5. CASE Succeeds(c)
    <3>1. breaker' = [breaker EXCEPT ![Owner[c]] = OnSuccess(breaker[Owner[c]])]
      BY <2>5, Zenon DEF Succeeds
    <3> QED
      BY <1>1, <2>1, <3>1, BreakerOperations, Zenon
  <2> QED
    BY <1>3, <2>2, <2>3, <2>4, <2>5, Zenon DEF Moves, Authenticates, Fails
<1>4. ASSUME NEW p \in Client, NEW b \in Bucket, OperationBucketRefill(p, b) PROVE BreakerInv'
  BY <1>2, <1>4, Zenon DEF OperationBucketRefill
<1>5. CASE UNCHANGED vars
  BY <1>2, <1>5, Zenon DEF vars
<1> QED
  BY <1>3, <1>4, <1>5, StepCases, Zenon

(* Authentication: the memory, the lock and the file keep their types.       *)
LEMMA TokenType ==
    ASSUME StateInv, [Next]_vars
    PROVE  /\ access' \in [Client -> 0..MaxTokens]
           /\ lock' \in [Client -> Call \cup {NoCall}]
           /\ file' \in -1..MaxTokens
           /\ issued' \in 0..MaxTokens
           /\ refused' \subseteq Token
<1> DEFINE Goal == /\ access' \in [Client -> 0..MaxTokens]
                   /\ lock' \in [Client -> Call \cup {NoCall}]
                   /\ file' \in -1..MaxTokens
                   /\ issued' \in 0..MaxTokens
                   /\ refused' \subseteq Token
<1>1. /\ access \in [Client -> 0..MaxTokens] /\ lock \in [Client -> Call \cup {NoCall}]
      /\ file \in -1..MaxTokens /\ issued \in 0..MaxTokens /\ refused \subseteq Token
      /\ MaxTokens \in Nat
  BY KisRequestAssumption, Zenon DEF StateInv, TypeOK
<1>2. ASSUME UNCHANGED tokenVars PROVE Goal
  BY <1>1, <1>2, Zenon DEF tokenVars
<1>3. ASSUME NEW c \in Call, Moves(c) PROVE Goal
  <2>1. /\ Owner[c] \in Client /\ call[c].token \in 0..MaxTokens
        /\ call[c].pc \in {"saving", "flight"} => call[c].token \in Token
    BY KisRequestAssumption, Zenon DEF StateInv, TypeOK, Frame, Local
  <2>2. CASE Outside(c) \/ Waits(c) \/ Consumes(c) \/ Succeeds(c)
    BY <1>2, <2>2, Zenon DEF Outside, Waits, Consumes, Consume, Succeeds
  <2>3. CASE AuthFromCache(c)
    <3>1. PICK t \in Token : access' = [access EXCEPT ![Owner[c]] = t]
      BY <2>3, Zenon DEF AuthFromCache
    <3>2. t \in 0..MaxTokens
      BY <1>1 DEF Token
    <3>3. UNCHANGED <<lock, file, issued, refused>>
      BY <2>3, Zenon DEF AuthFromCache
    <3> QED
      BY <1>1, <3>1, <3>2, <3>3, Zenon
  <2>4. CASE AuthMiss(c)
    <3>1. file' \in -1..MaxTokens
      BY <1>1, <2>4 DEF AuthMiss, Missing
    <3>2. lock' = [lock EXCEPT ![Owner[c]] = c] /\ UNCHANGED <<access, issued, refused>>
      BY <2>4, Zenon DEF AuthMiss
    <3> QED
      BY <1>1, <3>1, <3>2, Zenon
  <2>5. CASE Issue(c)
    <3>1. /\ issued' = issued + 1 /\ access' = [access EXCEPT ![Owner[c]] = issued + 1]
          /\ file' = Garbled /\ issued < MaxTokens /\ UNCHANGED lock
          /\ refused' = refused \/ refused' = refused \cup {issued + 1}
      BY <2>5, Zenon DEF Issue
    <3>2. /\ issued + 1 \in 0..MaxTokens /\ Garbled \in -1..MaxTokens
          /\ issued + 1 \in Token
      BY <1>1, <3>1 DEF Garbled, Token
    <3> QED
      BY <1>1, <3>1, <3>2, Zenon
  <2>6. CASE Save(c)
    <3>1. /\ file' \in {Missing, Garbled, call[c].token}
          /\ lock' = [lock EXCEPT ![Owner[c]] = NoCall]
          /\ UNCHANGED <<access, issued, refused>>
      BY <2>6, Zenon DEF Save
    <3>2. file' \in -1..MaxTokens
      BY <1>1, <2>1, <3>1 DEF Missing, Garbled
    <3> QED
      BY <1>1, <3>1, <3>2, Zenon
  <2>7. CASE IssueFails(c)
    BY <1>1, <2>7, Zenon DEF IssueFails
  <2>8. CASE Expired(c)
    <3>1. /\ refused' = refused \cup {call[c].token} /\ call[c].pc = "flight"
          /\ UNCHANGED <<lock, issued>>
      BY <2>8, Zenon DEF Expired
    <3>2. \/ access' = [access EXCEPT ![Owner[c]] = NoToken] /\ file' = Missing
          \/ UNCHANGED <<access, file>>
      BY <2>8, Zenon DEF Expired, InvalidateTokenCache
    <3>3. NoToken \in 0..MaxTokens /\ Missing \in -1..MaxTokens
      BY <1>1 DEF NoToken, Missing
    <3> QED
      BY <1>1, <2>1, <3>1, <3>2, <3>3, Zenon
  <2>9. CASE \/ Timeout(c) \/ ReauthTimeout(c) \/ NetworkError(c)
             \/ \E why \in {"rate_limit", "error"} : Refused(c, why)
    BY <1>2, <2>9, Zenon DEF Timeout, ReauthTimeout, NetworkError, Refused
  <2> QED
    BY <1>3, <2>2, <2>3, <2>4, <2>5, <2>6, <2>7, <2>8, <2>9, Zenon
       DEF Moves, Authenticates, Fails
<1>4. ASSUME NEW p \in Client, NEW b \in Bucket, OperationBucketRefill(p, b) PROVE Goal
  BY <1>2, <1>4, Zenon DEF OperationBucketRefill
<1>5. CASE UNCHANGED vars
  BY <1>2, <1>5, Zenon DEF vars
<1> QED
  BY <1>3, <1>4, <1>5, StepCases, Zenon


-----------------------------------------------------------------------------
(* The state invariant is inductive.                                         *)
LEMMA StateInit ==
    ASSUME Init PROVE StateInv
<1>1. Idle \in Frame
  <2>1. /\ 0 \in 0..MaxRetries /\ 0 \in 0..MaxTokens /\ 0 \in 0..(MaxRetries + 1)
        /\ 1 \in Nat \ {0} /\ 1 \in 1..2 /\ 0 \in 0..2
    BY KisRequestAssumption
  <2> QED
    BY <2>1, Zenon DEF Idle, Frame, NoToken, Bucket
<1>2. Local(Idle)
  BY DEF Idle, Local, Paying, NoToken
<1>3. /\ 0 \in 0..Threshold /\ 0 \in 0..MaxTokens /\ 0 \in -1..MaxTokens /\ 0 \in Nat
      /\ ReserveCapacity \in 0..ReserveCapacity
      /\ \A b \in Bucket : Capacity[b] <= Capacity[b]
  BY KisRequestAssumption
<1>4. Closed \in [state : {"closed", "half_open", "open"}, failures : 0..Threshold]
  BY <1>3, Zenon DEF Closed
<1>5. Capacity \in [Bucket -> Nat]
  BY KisRequestAssumption, Zenon
<1> HIDE DEF Idle
<1>6. /\ tokens \in [Client -> [Bucket -> Nat]]
      /\ \A p \in Client, b \in Bucket : tokens[p][b] <= Capacity[b]
      /\ reserve \in [Client -> 0..ReserveCapacity]
  BY <1>3, <1>5, Zenon DEF Init
<1>7. /\ refills \in [Client -> [Bucket -> Nat]]
      /\ succeeded \in [Client -> [Bucket -> Nat]]
      /\ breaker \in [Client -> [state : {"closed", "half_open", "open"},
                                 failures : 0..Threshold]]
  BY <1>3, <1>4, Zenon DEF Init
<1>8. /\ access \in [Client -> 0..MaxTokens] /\ lock \in [Client -> Call \cup {NoCall}]
      /\ file \in -1..MaxTokens /\ issued \in 0..MaxTokens /\ refused \subseteq Token
      /\ quotes \in [Client -> BOOLEAN]
  BY <1>3, Zenon DEF Init, NoToken, Missing
<1>9. call \in [Call -> Frame] /\ \A c \in Call : Local(call[c])
  BY <1>1, <1>2, Zenon DEF Init
<1> QED
  BY <1>6, <1>7, <1>8, <1>9, Zenon DEF StateInv, TypeOK

LEMMA BreakerInit ==
    ASSUME Init PROVE BreakerInv
<1>1. Closed \in Breaker /\ Healthy(Closed)
  BY KisRequestAssumption DEF Closed, Breaker, Healthy
<1> QED
  BY <1>1, Zenon DEF Init, BreakerInv

LEMMA StateStep ==
    ASSUME StateInv, BreakerInv, [Next]_vars
    PROVE  StateInv'
<1>1. BreakerInv'
  BY BreakerStep, Zenon
<1>2. quotes' \in [Client -> BOOLEAN]
  <2>1. quotes \in [Client -> BOOLEAN]
    BY Zenon DEF StateInv, TypeOK
  <2>2. ASSUME NEW c \in Call, Moves(c)
        PROVE  UNCHANGED quotes
               \/ quotes' = [quotes EXCEPT ![Owner[c]] = quotes[Owner[c]] \/ call[c].op = "quote"]
    BY <2>2, Zenon DEF Moves, Outside, Waits, Consumes, Consume, Authenticates, Fails, Inside,
       Raises, Succeeds
  <2>3. ASSUME NEW p \in Client, NEW b \in Bucket, OperationBucketRefill(p, b)
        PROVE  UNCHANGED quotes
    BY <2>3, Zenon DEF OperationBucketRefill
  <2>4. CASE \E c \in Call : Runs(c) /\ Moves(c)
    <3>1. PICK c \in Call :
             \/ UNCHANGED quotes
             \/ quotes' = [quotes EXCEPT ![Owner[c]] = quotes[Owner[c]] \/ call[c].op = "quote"]
      BY <2>2, <2>4, Zenon
    <3>2. (quotes[Owner[c]] \/ call[c].op = "quote") \in BOOLEAN
      OBVIOUS
    <3> QED
      BY <2>1, <3>1, <3>2, Zenon
  <2> QED
    BY <2>1, <2>3, <2>4, StepCases, Zenon DEF vars
<1> QED
  BY <1>1, <1>2, FramesStep, BudgetType, TokenType, Zenon
     DEF StateInv, TypeOK, BreakerInv, Breaker

(* The state and the breakers of a behaviour of KisRequest.                  *)
LEMMA StateHolds == Spec => [](StateInv /\ BreakerInv)
<1>1. Init => StateInv /\ BreakerInv
  BY StateInit, BreakerInit, Zenon
<1>2. StateInv /\ BreakerInv /\ [Next]_vars => StateInv' /\ BreakerInv'
  BY StateStep, BreakerStep, Zenon
<1> QED
  BY <1>1, <1>2, PTL DEF Spec

(***************************************************************************)
(* The client of every process keeps its types: above all no bucket of     *)
(* RateLimitBudgetManager holds more than its capacity or less than        *)
(* nothing, whatever consume_or_raise, the waits, the refills and the      *)
(* finally clauses of _request do to it.                                   *)
(***************************************************************************)
THEOREM RequestTypes == Spec => []TypeOK
<1>1. StateInv /\ BreakerInv => TypeOK
  BY Zenon DEF StateInv
<1> QED
  BY <1>1, StateHolds, PTL

(***************************************************************************)
(* A CLOSED circuit breaker has seen fewer consecutive failures than       *)
(* failure_threshold, for any threshold and any number of calls whose      *)
(* answers come after it opened, half opened or closed again.              *)
(***************************************************************************)
THEOREM ClosedBreakerIsHealthy == Spec => []ClosedIsHealthy
<1>1. StateInv /\ BreakerInv => ClosedIsHealthy
  BY Zenon DEF BreakerInv, Healthy, ClosedIsHealthy
<1> QED
  BY <1>1, StateHolds, PTL


-----------------------------------------------------------------------------
(***************************************************************************)
(* Authentication.  The steps that leave the memory, the lock, the file    *)
(* and the number of tokens alone, in which the request neither takes a    *)
(* token nor learns that one is expired.                                   *)
(***************************************************************************)
Locking(f) == f.pc \in {"issue", "saving"}

Still(c) ==
    /\ ~Locking(call[c])
    /\ \E g \in Frame :
          /\ call' = [call EXCEPT ![c] = g] /\ ~Locking(g) /\ ~g.reauth
          /\ g.token \in {NoToken, call[c].token}
          /\ g.rejected \in {NoToken, call[c].rejected}
    /\ UNCHANGED <<access, lock, file, issued>>

\* Expired, when the request may authenticate again.
Reauthenticates(c) == Expired(c) /\ call[c].bucket \in ReadOnly /\ ~call[c].reauth

LEMMA TokenCases ==
    ASSUME StateInv, NEW c \in Call, Moves(c)
    PROVE  \/ Still(c) \/ AuthFromCache(c) \/ AuthMiss(c) \/ Issue(c) \/ Save(c)
           \/ IssueFails(c) \/ Reauthenticates(c)
<1>1. call \in [Call -> Frame] /\ call[c] \in Frame /\ Local(call[c])
  BY Zenon DEF StateInv, TypeOK
<1>2. ASSUME NEW g \in Frame, call' = [call EXCEPT ![c] = g], Local(g), g.pc \notin Paying,
             ~Locking(call[c]), UNCHANGED <<access, lock, file, issued>>
      PROVE  Still(c)
  BY <1>2, Zenon DEF Still, Local, Locking, Paying
<1>3. CASE Outside(c)
  BY <1>2, <1>3, Zenon DEF Outside, tokenVars, Locking, Paying
<1>4. CASE Waits(c)
  BY <1>2, <1>4, Zenon DEF Waits, tokenVars, Locking, Paying
<1>5. CASE Consumes(c)
  <2>1. UNCHANGED <<access, lock, file, issued>> /\ call[c].pc = "budget"
    BY <1>5, Zenon DEF Consumes, Consume, tokenVars
  <2>2. CASE Pays(c)
    BY <2>1, <2>2, Zenon DEF Pays, Still, Locking
  <2>3. CASE PaysInVain(c)
    BY <1>2, <2>1, <2>3, Zenon DEF PaysInVain, Locking, Paying
  <2> QED
    BY <1>5, <2>2, <2>3, Zenon DEF Consumes
<1>6. CASE Succeeds(c)
  BY <1>2, <1>6, Zenon DEF Succeeds, tokenVars, Locking, Paying
<1>7. CASE Authenticates(c)
  BY <1>7, Zenon DEF Authenticates
<1>8. CASE Fails(c)
  <2>1. CASE IssueFails(c)
    BY <2>1, Zenon
  <2>2. CASE ~IssueFails(c) /\ ~Reauthenticates(c)
    <3>1. call[c].pc = "flight" /\ ~Locking(call[c])
      BY <1>8, <2>2, Zenon DEF Fails, Timeout, ReauthTimeout, NetworkError, Expired, Refused,
         Locking
    <3>2. UNCHANGED <<access, lock, file, issued>>
      BY <1>8, <2>2, Zenon DEF Fails, Timeout, ReauthTimeout, NetworkError, Expired, Refused,
         Reauthenticates, tokenVars
    <3>3. CASE Raises(c)
      BY <1>2, <3>1, <3>2, <3>3, Zenon DEF Raises, Paying
    <3>4. CASE Inside(c)
      <4>1. PICK g \in Frame : call' = [call EXCEPT ![c] = g] /\ g.pc \in Paying
        BY <3>4, Zenon DEF Inside
      <4>2. g.pc # "returned" /\ call'[c] = g
        BY <1>1, <4>1, Zenon DEF Paying
      <4>3. ASSUME NEW why, call' = [call EXCEPT ![c] = Return(call[c], why)] PROVE FALSE
        <5>1. Return(call[c], why).pc = "returned"
          BY <1>1, Zenon DEF Return, Frame
        <5> QED
          BY <1>1, <4>2, <4>3, <5>1, Zenon
      <4>4. ASSUME NEW why, NEW n,
                   call' = [call EXCEPT ![c] = [Return(call[c], why) EXCEPT !.executed = n]]
            PROVE  FALSE
        <5>1. [Return(call[c], why) EXCEPT !.executed = n].pc = "returned"
          BY <1>1, Zenon DEF Return, Frame
        <5> QED
          BY <1>1, <4>2, <4>4, <5>1, Zenon
      <4>5. Timeout(c)
        BY <1>8, <2>2, <4>3, <4>4, Zenon DEF Fails, ReauthTimeout, NetworkError, Expired,
           Refused, Reauthenticates, Fail
      <4>6. PICK n \in Executions(c) :
               call' = [call EXCEPT ![c].attempt = call[c].attempt + 1, ![c].executed = n]
        BY <4>4, <4>5, Zenon DEF Timeout
      <4>7. /\ g.pc = call[c].pc /\ g.reauth = call[c].reauth /\ g.token = call[c].token
            /\ g.rejected = call[c].rejected
        BY <1>1, <4>2, <4>6, ZenonT(60) DEF Frame
      <4>8. ~g.reauth
        BY <4>5, <4>7, Zenon DEF Timeout
      <4> QED
        BY <3>1, <3>2, <4>1, <4>7, <4>8, Zenon DEF Still, Locking
    <3> QED
      BY <1>8, <3>3, <3>4, Zenon DEF Fails
  <2> QED
    BY <2>1, <2>2, Zenon
<1> QED
  BY <1>3, <1>4, <1>5, <1>6, <1>7, <1>8, Zenon DEF Moves


(* What the steps of authentication leave of the frame.                      *)
LEMMA TokenFrames ==
    ASSUME StateInv, NEW c \in Call
    PROVE  /\ AuthFromCache(c) =>
                 /\ call'[c].pc = "flight" /\ call'[c].reauth = call[c].reauth
                 /\ call'[c].rejected = call[c].rejected
                 /\ call'[c].token = IF access[Owner[c]] # NoToken THEN access[Owner[c]] ELSE file
           /\ AuthMiss(c) =>
                 /\ call'[c].pc = "issue" /\ call'[c].reauth = call[c].reauth
                 /\ call'[c].rejected = call[c].rejected /\ call'[c].token = call[c].token
           /\ Issue(c) =>
                 /\ call'[c].pc = "saving" /\ call'[c].reauth = call[c].reauth
                 /\ call'[c].rejected = call[c].rejected /\ call'[c].token = issued + 1
           /\ Save(c) =>
                 /\ call'[c].pc = "flight" /\ call'[c].reauth = call[c].reauth
                 /\ call'[c].rejected = call[c].rejected /\ call'[c].token = call[c].token
           /\ IssueFails(c) =>
                 /\ call'[c].pc = "returned" /\ ~call'[c].reauth
                 /\ call'[c].rejected = NoToken /\ call'[c].token = NoToken
           /\ Reauthenticates(c) =>
                 /\ call'[c].pc = "auth" /\ call'[c].reauth
                 /\ call'[c].rejected = call[c].token /\ call'[c].token = call[c].token
<1>1. call \in [Call -> Frame] /\ call[c] \in Frame
  BY Zenon DEF StateInv, TypeOK
<1>2. AuthFromCache(c) =>
         /\ call'[c].pc = "flight" /\ call'[c].reauth = call[c].reauth
         /\ call'[c].rejected = call[c].rejected
         /\ call'[c].token = IF access[Owner[c]] # NoToken THEN access[Owner[c]] ELSE file
  BY <1>1 DEF AuthFromCache, Frame
<1>3. AuthMiss(c) =>
         /\ call'[c].pc = "issue" /\ call'[c].reauth = call[c].reauth
         /\ call'[c].rejected = call[c].rejected /\ call'[c].token = call[c].token
  BY <1>1 DEF AuthMiss, Frame
<1>4. Issue(c) =>
         /\ call'[c].pc = "saving" /\ call'[c].reauth = call[c].reauth
         /\ call'[c].rejected = call[c].rejected /\ call'[c].token = issued + 1
  BY <1>1 DEF Issue, Frame
<1>5. Save(c) =>
         /\ call'[c].pc = "flight" /\ call'[c].reauth = call[c].reauth
         /\ call'[c].rejected = call[c].rejected /\ call'[c].token = call[c].token
  BY <1>1 DEF Save, Frame
<1>6. IssueFails(c) =>
         /\ call'[c].pc = "returned" /\ ~call'[c].reauth
         /\ call'[c].rejected = NoToken /\ call'[c].token = NoToken
  BY <1>1 DEF IssueFails, Fail, Return, Frame
<1>7. Reauthenticates(c) =>
         /\ call'[c].pc = "auth" /\ call'[c].reauth
         /\ call'[c].rejected = call[c].token /\ call'[c].token = call[c].token
  BY <1>1 DEF Reauthenticates, Expired, Frame
<1> QED
  BY <1>2, <1>3, <1>4, <1>5, <1>6, <1>7, Zenon

LEMMA OtherFrames ==
    ASSUME StateInv, NEW c \in Call, Moves(c)
    PROVE  \A d \in Call \ {c} : call'[d] = call[d]
<1>1. PICK g : call' = [call EXCEPT ![c] = g]
  BY Zenon DEF Moves, Outside, Waits, Consumes, Pays, PaysInVain, Authenticates, Fails, Inside,
     Raises, Succeeds
<1>2. call \in [Call -> Frame]
  BY Zenon DEF StateInv, TypeOK
<1> QED
  BY <1>1, <1>2, Zenon

(* The lock is held by exactly the call that asks KIS for a token.           *)
LEMMA LockStep ==
    ASSUME StateInv, LockInv, [Next]_vars
    PROVE  LockInv'
<1>1. /\ call \in [Call -> Frame] /\ lock \in [Client -> Call \cup {NoCall}]
      /\ Owner \in [Call -> Client] /\ NoCall \notin Call
  BY KisRequestAssumption, Zenon DEF StateInv, TypeOK
<1>2. \A p \in Client, d \in Call : lock[p] = d <=> Owner[d] = p /\ Locking(call[d])
  BY Zenon DEF LockInv, Locking
<1>3. SUFFICES \A p \in Client, d \in Call : lock'[p] = d <=> Owner[d] = p /\ Locking(call'[d])
  BY Zenon DEF LockInv, Locking
<1>4. ASSUME UNCHANGED <<lock, call>>
      PROVE  \A p \in Client, d \in Call : lock'[p] = d <=> Owner[d] = p /\ Locking(call'[d])
  BY <1>2, <1>4, Zenon
<1>5. ASSUME NEW c \in Call, Moves(c)
      PROVE  \A p \in Client, d \in Call : lock'[p] = d <=> Owner[d] = p /\ Locking(call'[d])
  <2>1. \A d \in Call \ {c} : call'[d] = call[d]
    BY <1>5, OtherFrames, Zenon
  <2>2. ASSUME UNCHANGED lock, Locking(call'[c]) <=> Locking(call[c])
        PROVE  \A p \in Client, d \in Call : lock'[p] = d <=> Owner[d] = p /\ Locking(call'[d])
    BY <1>2, <2>1, <2>2, Zenon
  <2>3. CASE Still(c)
    BY <1>1, <2>2, <2>3, Zenon DEF Still
  <2>4. CASE AuthFromCache(c) \/ Issue(c) \/ Reauthenticates(c)
    <3>1. UNCHANGED lock
      BY <2>4, Zenon DEF AuthFromCache, Issue, Reauthenticates, Expired
    <3>2. /\ AuthFromCache(c) => call[c].pc = "auth" /\ call'[c].pc = "flight"
          /\ Issue(c) => call[c].pc = "issue" /\ call'[c].pc = "saving"
          /\ Reauthenticates(c) => call[c].pc = "flight" /\ call'[c].pc = "auth"
      BY TokenFrames, Zenon DEF AuthFromCache, Issue, Reauthenticates, Expired
    <3>3. Locking(call'[c]) <=> Locking(call[c])
      BY <2>4, <3>2, Zenon DEF Locking
    <3> QED
      BY <2>2, <3>1, <3>3, Zenon
  <2>5. CASE AuthMiss(c)
    <3>1. /\ lock[Owner[c]] = NoCall /\ lock' = [lock EXCEPT ![Owner[c]] = c]
          /\ call'[c].pc = "issue"
      BY <2>5, TokenFrames, Zenon DEF AuthMiss
    <3>2. Locking(call'[c])
      BY <3>1, Zenon DEF Locking
    <3>3. lock'[Owner[c]] = c /\ \A p \in Client \ {Owner[c]} : lock'[p] = lock[p]
      BY <1>1, <3>1, Zenon
    <3>4. ASSUME NEW d \in Call, Owner[d] = Owner[c] PROVE ~Locking(call[d])
      BY <1>1, <1>2, <3>1, <3>4, Zenon
    <3>5. ASSUME NEW p \in Client, NEW d \in Call
          PROVE  lock'[p] = d <=> Owner[d] = p /\ Locking(call'[d])
      <4>1. CASE p = Owner[c] /\ d = c
        BY <3>2, <3>3, <4>1, Zenon
      <4>2. CASE p = Owner[c] /\ d # c
        BY <2>1, <3>3, <3>4, <4>2, Zenon
      <4>3. CASE p # Owner[c] /\ d = c
        BY <1>2, <3>3, <4>3
      <4>4. CASE p # Owner[c] /\ d # c
        BY <1>2, <2>1, <3>3, <4>4
      <4> QED
        BY <4>1, <4>2, <4>3, <4>4, Zenon
    <3> QED
      BY <3>5, Zenon
  <2>6. CASE Save(c) \/ IssueFails(c)
    <3>1. lock' = [lock EXCEPT ![Owner[c]] = NoCall]
      BY <2>6, Zenon DEF Save, IssueFails
    <3>2. /\ call[c].pc = "issue" \/ call[c].pc = "saving"
          /\ call'[c].pc = "flight" \/ call'[c].pc = "returned"
      BY <2>6, TokenFrames, Zenon DEF Save, IssueFails
    <3>3. Locking(call[c]) /\ ~Locking(call'[c])
      BY <3>2, Zenon DEF Locking
    <3>4. lock'[Owner[c]] = NoCall /\ \A p \in Client \ {Owner[c]} : lock'[p] = lock[p]
      BY <1>1, <3>1, Zenon
    <3>5. ASSUME NEW d \in Call \ {c}, Owner[d] = Owner[c] PROVE ~Locking(call[d])
      BY <1>1, <1>2, <3>3, <3>5
    <3>6. ASSUME NEW p \in Client, NEW d \in Call
          PROVE  lock'[p] = d <=> Owner[d] = p /\ Locking(call'[d])
      <4>1. CASE p = Owner[c] /\ d = c
        BY <1>1, <3>3, <3>4, <4>1, Zenon
      <4>2. CASE p = Owner[c] /\ d # c
        BY <1>1, <2>1, <3>4, <3>5, <4>2, Zenon
      <4>3. CASE p # Owner[c] /\ d = c
        BY <1>2, <3>4, <4>3
      <4>4. CASE p # Owner[c] /\ d # c
        BY <1>2, <2>1, <3>4, <4>4
      <4> QED
        BY <4>1, <4>2, <4>3, <4>4, Zenon
    <3> QED
      BY <3>6, Zenon
  <2> QED
    BY <1>5, <2>3, <2>4, <2>5, <2>6, TokenCases, Zenon
<1>6. ASSUME NEW p \in Client, NEW b \in Bucket, OperationBucketRefill(p, b)
      PROVE  UNCHANGED <<lock, call>>
  BY <1>6, Zenon DEF OperationBucketRefill, tokenVars
<1> QED
  BY <1>4, <1>5, <1>6, StepCases, Zenon DEF vars, tokenVars


(***************************************************************************)
(* Where a token is after one step: three lemmas, one for each conjunct of *)
(* TokenInv.  First the effect of each step on the memory and the file.    *)
(***************************************************************************)
LEMMA TokenEffects ==
    ASSUME StateInv, NEW c \in Call
    PROVE  /\ AuthFromCache(c) =>
                 /\ access' = [access EXCEPT ![Owner[c]] = call'[c].token]
                 /\ call'[c].token \in {access[Owner[c]], file} \cap Token
                 /\ call[c].pc = "auth" /\ UNCHANGED <<file, issued>>
           /\ AuthMiss(c) => /\ file' \in {file, Missing} /\ call[c].pc = "auth"
                             /\ UNCHANGED <<access, issued>>
           /\ Issue(c) => /\ issued' = issued + 1 /\ file' = Garbled /\ call[c].pc = "issue"
                          /\ access' = [access EXCEPT ![Owner[c]] = issued + 1]
           /\ Save(c) => /\ file' \in {Missing, Garbled, call[c].token} /\ call[c].pc = "saving"
                         /\ UNCHANGED <<access, issued>>
           /\ IssueFails(c) => call[c].pc = "issue" /\ UNCHANGED <<access, file, issued>>
           /\ Reauthenticates(c) =>
                 /\ access' = [access EXCEPT ![Owner[c]] = NoToken] /\ file' = Missing
                 /\ call[c].pc = "flight" /\ ~call[c].reauth /\ UNCHANGED issued
<1>1. AuthFromCache(c) =>
         /\ access' = [access EXCEPT ![Owner[c]] = call'[c].token]
         /\ call'[c].token \in {access[Owner[c]], file} \cap Token
         /\ call[c].pc = "auth" /\ UNCHANGED <<file, issued>>
  BY TokenFrames, Zenon DEF AuthFromCache
<1>2. AuthMiss(c) => /\ file' \in {file, Missing} /\ call[c].pc = "auth"
                     /\ UNCHANGED <<access, issued>>
  BY Zenon DEF AuthMiss
<1>3. Issue(c) => /\ issued' = issued + 1 /\ file' = Garbled /\ call[c].pc = "issue"
                  /\ access' = [access EXCEPT ![Owner[c]] = issued + 1]
  BY Zenon DEF Issue
<1>4. Save(c) => /\ file' \in {Missing, Garbled, call[c].token} /\ call[c].pc = "saving"
                 /\ UNCHANGED <<access, issued>>
  BY Zenon DEF Save
<1>5. IssueFails(c) => call[c].pc = "issue" /\ UNCHANGED <<access, file, issued>>
  BY Zenon DEF IssueFails
<1>6. Reauthenticates(c) =>
         /\ access' = [access EXCEPT ![Owner[c]] = NoToken] /\ file' = Missing
         /\ call[c].pc = "flight" /\ ~call[c].reauth /\ UNCHANGED issued
  BY Zenon DEF Reauthenticates, Expired, InvalidateTokenCache
<1> QED
  BY <1>1, <1>2, <1>3, <1>4, <1>5, <1>6, Zenon

LEMMA KnownStep ==
    ASSUME StateInv, TokenInv, NEW c \in Call, Moves(c)
    PROVE  KnownTokens'
<1>1. /\ access \in [Client -> 0..MaxTokens] /\ file \in -1..MaxTokens /\ issued \in 0..MaxTokens
      /\ Owner[c] \in Client /\ MaxTokens \in Nat /\ call[c] \in Frame /\ call \in [Call -> Frame]
  BY KisRequestAssumption, Zenon DEF StateInv, TypeOK
<1>2. /\ \A p \in Client : access[p] <= issued
      /\ file <= issued
      /\ \A d \in Call : call[d].token <= issued /\ call[d].rejected <= issued
  BY Zenon DEF TokenInv, KnownTokens
<1>3. /\ \A d \in Call \ {c} : call'[d] = call[d]
      /\ NoToken <= issued /\ Missing <= issued /\ Garbled <= issued
  BY <1>1, OtherFrames DEF NoToken, Missing, Garbled
<1>4. ASSUME UNCHANGED issued, file' <= issued,
             \A p \in Client : access'[p] <= issued,
             call'[c].token <= issued, call'[c].rejected <= issued
      PROVE  KnownTokens'
  BY <1>2, <1>3, <1>4, Zenon DEF KnownTokens
<1>5. CASE Still(c)
  BY <1>1, <1>2, <1>3, <1>4, <1>5, Zenon DEF Still
<1>6. CASE AuthFromCache(c)
  <2>1. /\ call'[c].token <= issued /\ call'[c].rejected <= issued
        /\ file' <= issued /\ UNCHANGED issued
        /\ access' = [access EXCEPT ![Owner[c]] = call'[c].token]
    BY <1>1, <1>2, <1>6, TokenEffects, TokenFrames, Zenon
  <2>2. \A p \in Client : access'[p] <= issued
    BY <1>1, <1>2, <2>1, Zenon
  <2> QED
    BY <1>4, <2>1, <2>2, Zenon
<1>7. CASE AuthMiss(c) \/ Save(c) \/ IssueFails(c)
  <2>1. UNCHANGED <<access, issued>>
    BY <1>7, TokenEffects, Zenon
  <2>2. file' \in {file, Missing, Garbled, call[c].token}
    BY <1>7, TokenEffects, Zenon
  <2>3. /\ call'[c].token \in {call[c].token, NoToken}
        /\ call'[c].rejected \in {call[c].rejected, NoToken}
    BY <1>7, TokenFrames, Zenon
  <2> QED
    BY <1>2, <1>3, <1>4, <2>1, <2>2, <2>3, Zenon
<1>8. CASE Issue(c)
  <2>1. /\ issued' = issued + 1 /\ file' = Garbled /\ call'[c].token = issued + 1
        /\ access' = [access EXCEPT ![Owner[c]] = issued + 1]
        /\ call'[c].rejected = call[c].rejected
    BY <1>8, TokenEffects, TokenFrames, Zenon
  <2>2. \A d \in Call : call[d].token \in 0..MaxTokens /\ call[d].rejected \in 0..MaxTokens
    BY <1>1, Zenon DEF Frame
  <2>3. \A t \in -1..MaxTokens : t <= issued => t <= issued + 1
    BY <1>1
  <2>4. file' <= issued' /\ issued + 1 <= issued'
    BY <1>1, <2>1 DEF Garbled
  <2>5. \A p \in Client : access'[p] <= issued'
    <3>1. \A p \in Client : access[p] \in -1..MaxTokens
      BY <1>1
    <3> QED
      BY <1>1, <1>2, <2>1, <2>3, <2>4, <3>1, Zenon
  <2>6. ASSUME NEW d \in Call PROVE call'[d].token <= issued' /\ call'[d].rejected <= issued'
    <3>1. /\ call[d].token \in -1..MaxTokens /\ call[d].rejected \in -1..MaxTokens
      BY <1>1, <2>2
    <3> QED
      BY <1>2, <1>3, <2>1, <2>3, <2>4, <3>1, Zenon
  <2> QED
    BY <2>4, <2>5, <2>6, Zenon DEF KnownTokens
<1>9. CASE Reauthenticates(c)
  <2>1. /\ access' = [access EXCEPT ![Owner[c]] = NoToken] /\ file' = Missing /\ UNCHANGED issued
        /\ call'[c].rejected = call[c].token /\ call'[c].token = call[c].token
    BY <1>9, TokenEffects, TokenFrames, Zenon
  <2>2. \A p \in Client : access'[p] <= issued
    BY <1>1, <1>2, <1>3, <2>1, Zenon
  <2> QED
    BY <1>2, <1>3, <1>4, <2>1, <2>2, Zenon
<1> QED
  BY <1>5, <1>6, <1>7, <1>8, <1>9, TokenCases, Zenon


LEMMA SavedStep ==
    ASSUME StateInv, TokenInv, NEW c \in Call, Runs(c), Moves(c)
    PROVE  SavedByOne'
<1>1. /\ access \in [Client -> 0..MaxTokens] /\ issued \in 0..MaxTokens
      /\ Owner \in [Call -> Client] /\ MaxTokens \in Nat /\ call \in [Call -> Frame]
      /\ \A d \in Call \ {c} : call'[d] = call[d]
  BY KisRequestAssumption, OtherFrames, Zenon DEF StateInv, TypeOK
<1>2. \A t \in Token : t # NoToken /\ t # Missing /\ t # Garbled
  BY <1>1 DEF Token, NoToken, Missing, Garbled
<1>3. ASSUME NEW d \in Call \ {c}, call[d].pc = "saving"
      PROVE  /\ call[d].token \in Token /\ file # call[d].token /\ Owner[d] # Owner[c]
             /\ \A p \in Client \ {Owner[d]} : access[p] # call[d].token
             /\ \A e \in Call : call[e].rejected # call[d].token
             /\ \A e \in Call \ {d} : call[e].token # call[d].token
  BY <1>3, Zenon DEF StateInv, Local, TokenInv, SavedByOne, Runs
<1>4. ASSUME call'[c].pc # "saving",
             \A d \in Call \ {c} : call[d].pc = "saving" =>
                 /\ file' # call[d].token
                 /\ \A p \in Client \ {Owner[d]} : access'[p] # call[d].token
                 /\ call'[c].rejected # call[d].token /\ call'[c].token # call[d].token
      PROVE  SavedByOne'
  <2>1. ASSUME NEW d \in Call, call'[d].pc = "saving"
        PROVE  /\ file' # call'[d].token
               /\ \A p \in Client \ {Owner[d]} : access'[p] # call'[d].token
               /\ \A e \in Call : call'[e].rejected # call'[d].token
               /\ \A e \in Call \ {d} : call'[e].token # call'[d].token
    <3>1. d \in Call \ {c} /\ call'[d] = call[d] /\ call[d].pc = "saving"
      BY <1>1, <1>4, <2>1, Zenon
    <3>2. \A e \in Call : call'[e].rejected # call[d].token
      BY <1>1, <1>3, <1>4, <3>1, Zenon
    <3>3. \A e \in Call \ {d} : call'[e].token # call[d].token
      BY <1>1, <1>3, <1>4, <3>1, Zenon
    <3> QED
      BY <1>4, <3>1, <3>2, <3>3, Zenon
  <2> QED
    BY <2>1, Zenon DEF SavedByOne
<1>5. CASE Still(c)
  <2>1. /\ call'[c].pc # "saving" /\ UNCHANGED <<access, file>>
        /\ call'[c].token \in {NoToken, call[c].token}
        /\ call'[c].rejected \in {NoToken, call[c].rejected}
    BY <1>1, <1>5, Zenon DEF Still, Locking
  <2>2. ASSUME NEW d \in Call \ {c}, call[d].pc = "saving"
        PROVE  call'[c].rejected # call[d].token /\ call'[c].token # call[d].token
    BY <1>2, <1>3, <2>1, <2>2, Zenon
  <2> QED
    BY <1>3, <1>4, <2>1, <2>2, Zenon
<1>6. CASE AuthFromCache(c)
  <2>1. /\ call'[c].pc # "saving" /\ file' = file
        /\ access' = [access EXCEPT ![Owner[c]] = call'[c].token]
        /\ call'[c].token \in {access[Owner[c]], file}
        /\ call'[c].rejected = call[c].rejected
    <3>1. call'[c].pc = "flight"
      BY <1>6, TokenFrames, Zenon
    <3> QED
      BY <1>6, <3>1, TokenEffects, TokenFrames, Zenon
  <2>2. ASSUME NEW d \in Call \ {c}, call[d].pc = "saving"
        PROVE  /\ call'[c].rejected # call[d].token /\ call'[c].token # call[d].token
               /\ \A p \in Client \ {Owner[d]} : access'[p] # call[d].token
    <3>1. Owner[c] \in Client \ {Owner[d]}
      BY <1>1, <1>3, <2>2, Zenon
    <3>2. call'[c].token # call[d].token /\ call'[c].rejected # call[d].token
      BY <1>3, <2>1, <2>2, <3>1, Zenon
    <3> QED
      BY <1>1, <1>3, <2>1, <2>2, <3>1, <3>2, Zenon
  <2> QED
    BY <1>3, <1>4, <2>1, <2>2, Zenon
<1>7. CASE AuthMiss(c) \/ Save(c) \/ IssueFails(c)
  <2>1. /\ UNCHANGED access /\ file' \in {file, Missing, Garbled, call[c].token}
        /\ call'[c].token \in {call[c].token, NoToken}
        /\ call'[c].rejected \in {call[c].rejected, NoToken}
    BY <1>7, TokenEffects, TokenFrames, Zenon
  <2>2. call'[c].pc # "saving"
    <3>1. call'[c].pc \in {"issue", "flight", "returned"}
      BY <1>7, TokenFrames, Zenon
    <3> QED
      BY <3>1, Zenon
  <2>3. ASSUME NEW d \in Call \ {c}, call[d].pc = "saving"
        PROVE  /\ file' # call[d].token
               /\ call'[c].rejected # call[d].token /\ call'[c].token # call[d].token
    BY <1>2, <1>3, <2>1, <2>3, Zenon
  <2> QED
    BY <1>3, <1>4, <2>1, <2>2, <2>3, Zenon
<1>8. CASE Issue(c)
  <2>1. /\ file' = Garbled /\ call'[c].token = issued + 1
        /\ access' = [access EXCEPT ![Owner[c]] = issued + 1]
        /\ call'[c].rejected = call[c].rejected
    BY <1>8, TokenEffects, TokenFrames, Zenon
  <2>2. /\ \A d \in Call : call[d].token # issued + 1 /\ call[d].rejected # issued + 1
        /\ \A p \in Client : access[p] # issued + 1
        /\ Garbled # issued + 1
    <3>1. ASSUME NEW t \in 0..MaxTokens, t <= issued PROVE t # issued + 1
      BY <1>1, <3>1
    <3>2. \A d \in Call : call[d].token \in 0..MaxTokens /\ call[d].rejected \in 0..MaxTokens
      BY <1>1, Zenon DEF Frame
    <3>3. Garbled # issued + 1
      BY <1>1 DEF Garbled
    <3> QED
      BY <1>1, <3>1, <3>2, <3>3, Zenon DEF TokenInv, KnownTokens
  <2>3. ASSUME NEW p \in Client PROVE access'[p] = IF p = Owner[c] THEN issued + 1 ELSE access[p]
    BY <1>1, <2>1, Zenon
  <2>4. /\ \A p \in Client \ {Owner[c]} : access'[p] # call'[c].token
        /\ file' # call'[c].token
        /\ \A e \in Call : call'[e].rejected # call'[c].token
        /\ \A e \in Call \ {c} : call'[e].token # call'[c].token
    BY <1>1, <2>1, <2>2, <2>3, ZenonT(60)
  <2>5. ASSUME NEW d \in Call \ {c}, call'[d].pc = "saving"
        PROVE  /\ file' # call'[d].token
               /\ \A p \in Client \ {Owner[d]} : access'[p] # call'[d].token
               /\ \A e \in Call : call'[e].rejected # call'[d].token
               /\ \A e \in Call \ {d} : call'[e].token # call'[d].token
    <3>1. call'[d] = call[d] /\ call[d].pc = "saving" /\ d \in Call
      BY <1>1, <2>5, Zenon
    <3>2. file' # call[d].token
      BY <1>2, <1>3, <2>1, <3>1, Zenon
    <3>3. \A p \in Client \ {Owner[d]} : access'[p] # call[d].token
      BY <1>3, <2>2, <2>3, <3>1
    <3>4. ASSUME NEW e \in Call PROVE call'[e].rejected # call[d].token
      <4>1. call'[e].rejected = call[e].rejected
        BY <1>1, <2>1, Zenon
      <4> QED
        BY <1>3, <3>1, <4>1, Zenon
    <3>5. ASSUME NEW e \in Call \ {d} PROVE call'[e].token # call[d].token
      <4>1. CASE e = c
        BY <2>1, <2>2, <3>1, <4>1, Zenon
      <4>2. CASE e # c
        BY <1>1, <1>3, <3>1, <4>2, Zenon
      <4> QED
        BY <4>1, <4>2, Zenon
    <3> QED
      BY <3>1, <3>2, <3>3, <3>4, <3>5, Zenon
  <2> QED
    BY <2>4, <2>5, Zenon DEF SavedByOne
<1>9. CASE Reauthenticates(c)
  <2>1. /\ access' = [access EXCEPT ![Owner[c]] = NoToken] /\ file' = Missing
        /\ call'[c].rejected = call[c].token /\ call'[c].token = call[c].token
        /\ call'[c].pc = "auth"
    BY <1>9, TokenEffects, TokenFrames, Zenon
  <2>2. call'[c].pc # "saving"
    BY <2>1, Zenon
  <2>3. ASSUME NEW d \in Call \ {c}, call[d].pc = "saving"
        PROVE  /\ file' # call[d].token
               /\ \A p \in Client \ {Owner[d]} : access'[p] # call[d].token
               /\ call'[c].rejected # call[d].token /\ call'[c].token # call[d].token
    <3>1. \A p \in Client : access'[p] = access[p] \/ access'[p] = NoToken
      BY <1>1, <2>1, Zenon
    <3> QED
      BY <1>2, <1>3, <2>1, <2>3, <3>1, ZenonT(60)
  <2> QED
    BY <1>4, <2>2, <2>3, Zenon
<1> QED
  BY <1>5, <1>6, <1>7, <1>8, <1>9, TokenCases, Zenon


LEMMA RefusedStep ==
    ASSUME StateInv, TokenInv, NEW c \in Call, Moves(c)
    PROVE  RefusedIsGone'
<1> DEFINE Safe(e) ==
              /\ call'[e].rejected \in Token
              /\ call'[e].pc = "auth" =>
                    /\ access'[Owner[e]] # call'[e].rejected
                    /\ file' # call'[e].rejected
                    /\ \A d \in Call : call'[d].pc = "saving" =>
                          call'[d].token # call'[e].rejected
              /\ call'[e].pc \in {"saving", "flight"} => call'[e].token # call'[e].rejected
<1>1. /\ access \in [Client -> 0..MaxTokens] /\ issued \in 0..MaxTokens
      /\ Owner \in [Call -> Client] /\ MaxTokens \in Nat /\ call \in [Call -> Frame]
      /\ \A d \in Call \ {c} : call'[d] = call[d]
  BY KisRequestAssumption, OtherFrames, Zenon DEF StateInv, TypeOK
<1>2. \A t \in Token : t # NoToken /\ t # Missing /\ t # Garbled
  BY <1>1 DEF Token, NoToken, Missing, Garbled
<1>3. ASSUME NEW e \in Call, call[e].reauth
      PROVE  /\ call[e].rejected \in Token
             /\ call[e].pc = "auth" =>
                   /\ access[Owner[e]] # call[e].rejected /\ file # call[e].rejected
                   /\ \A d \in Call : call[d].pc = "saving" => call[d].token # call[e].rejected
             /\ call[e].pc \in {"saving", "flight"} => call[e].token # call[e].rejected
  BY <1>3, Zenon DEF TokenInv, RefusedIsGone
<1>4. ASSUME call'[c].reauth => Safe(c),
             \A e \in Call \ {c} : call[e].reauth /\ call[e].pc = "auth" =>
                 /\ access'[Owner[e]] # call[e].rejected
                 /\ file' # call[e].rejected
                 /\ call'[c].pc = "saving" => call'[c].token # call[e].rejected
      PROVE  RefusedIsGone'
  <2>1. ASSUME NEW e \in Call \ {c}, call'[e].reauth PROVE Safe(e)
    <3>1. call'[e] = call[e] /\ call[e].reauth /\ e \in Call
      BY <1>1, <2>1, Zenon
    <3>2. ASSUME call[e].pc = "auth", NEW d \in Call, call'[d].pc = "saving"
          PROVE  call'[d].token # call[e].rejected
      <4>1. CASE d = c
        BY <1>4, <2>1, <3>1, <3>2, <4>1, Zenon
      <4>2. CASE d # c
        BY <1>1, <1>3, <3>1, <3>2, <4>2, ZenonT(60)
      <4> QED
        BY <4>1, <4>2, Zenon
    <3> QED
      BY <1>3, <1>4, <2>1, <3>1, <3>2, Zenon
  <2> HIDE DEF Safe
  <2>2. \A e \in Call : call'[e].reauth => Safe(e)
    BY <1>4, <2>1, Zenon
  <2> QED
    BY <2>2, Zenon DEF RefusedIsGone, Safe
<1>5. CASE Still(c)
  <2>1. ~call'[c].reauth /\ UNCHANGED <<access, file>> /\ call'[c].pc # "saving"
    BY <1>1, <1>5, Zenon DEF Still, Locking
  <2> QED
    BY <1>3, <1>4, <2>1, Zenon
<1>6. CASE AuthFromCache(c)
  <2>1. /\ call'[c].pc = "flight" /\ call[c].pc = "auth" /\ file' = file
        /\ call'[c].reauth = call[c].reauth /\ call'[c].rejected = call[c].rejected
        /\ access' = [access EXCEPT ![Owner[c]] = call'[c].token]
        /\ call'[c].token \in {access[Owner[c]], file}
    BY <1>6, TokenEffects, TokenFrames, Zenon
  <2>2. call'[c].pc # "auth" /\ call'[c].pc # "saving"
    BY <2>1, Zenon
  <2>3. call'[c].reauth => Safe(c)
    BY <1>3, <2>1, <2>2, Zenon
  <2>4. ASSUME NEW e \in Call \ {c}, call[e].reauth, call[e].pc = "auth"
        PROVE  access'[Owner[e]] # call[e].rejected /\ file' # call[e].rejected
    <3>1. /\ access'[Owner[e]] = IF Owner[e] = Owner[c] THEN call'[c].token ELSE access[Owner[e]]
          /\ access[Owner[e]] # call[e].rejected /\ file # call[e].rejected
      BY <1>1, <1>3, <2>1, <2>4, Zenon
    <3> QED
      BY <2>1, <3>1, Zenon
  <2> HIDE DEF Safe
  <2> QED
    BY <1>4, <2>2, <2>3, <2>4, Zenon
<1>7. CASE AuthMiss(c)
  <2>1. /\ call'[c].pc = "issue" /\ call'[c].reauth = call[c].reauth
        /\ call'[c].rejected = call[c].rejected
        /\ file' \in {file, Missing} /\ UNCHANGED access
    BY <1>7, TokenEffects, TokenFrames, Zenon
  <2>2. call'[c].pc \notin {"auth", "saving", "flight"}
    BY <2>1, Zenon
  <2>3. call'[c].reauth => Safe(c)
    BY <1>3, <2>1, <2>2, Zenon
  <2> HIDE DEF Safe
  <2>4. ASSUME NEW e \in Call \ {c}, call[e].reauth, call[e].pc = "auth"
        PROVE  access'[Owner[e]] # call[e].rejected /\ file' # call[e].rejected
    BY <1>2, <1>3, <2>1, <2>4, Zenon
  <2> QED
    BY <1>4, <2>2, <2>3, <2>4, Zenon
<1>8. CASE Issue(c)
  <2>1. /\ file' = Garbled /\ call'[c].token = issued + 1 /\ call'[c].pc = "saving"
        /\ access' = [access EXCEPT ![Owner[c]] = issued + 1]
        /\ call'[c].reauth = call[c].reauth /\ call'[c].rejected = call[c].rejected
    BY <1>8, TokenEffects, TokenFrames, Zenon
  <2>2. \A e \in Call : call[e].rejected # issued + 1
    <3>1. ASSUME NEW t \in 0..MaxTokens, t <= issued PROVE t # issued + 1
      BY <1>1, <3>1
    <3>2. \A d \in Call : call[d].rejected \in 0..MaxTokens
      BY <1>1, Zenon DEF Frame
    <3> QED
      BY <3>1, <3>2, Zenon DEF TokenInv, KnownTokens
  <2>3. call'[c].pc # "auth"
    BY <2>1, Zenon
  <2>4. call'[c].reauth => Safe(c)
    BY <1>3, <2>1, <2>2, <2>3, Zenon
  <2>5. ASSUME NEW e \in Call \ {c}, call[e].reauth, call[e].pc = "auth"
        PROVE  /\ access'[Owner[e]] # call[e].rejected /\ file' # call[e].rejected
               /\ call'[c].token # call[e].rejected
    <3>1. /\ access'[Owner[e]] = IF Owner[e] = Owner[c] THEN issued + 1 ELSE access[Owner[e]]
          /\ access[Owner[e]] # call[e].rejected /\ call[e].rejected \in Token
      BY <1>1, <1>3, <2>1, <2>5, Zenon
    <3> QED
      BY <1>2, <2>1, <2>2, <3>1, Zenon
  <2> HIDE DEF Safe
  <2> QED
    BY <1>4, <2>4, <2>5, Zenon
<1>9. CASE Save(c)
  <2>1. /\ file' \in {Missing, Garbled, call[c].token} /\ UNCHANGED access
        /\ call'[c].pc = "flight" /\ call[c].pc = "saving"
        /\ call'[c].token = call[c].token
        /\ call'[c].reauth = call[c].reauth /\ call'[c].rejected = call[c].rejected
    BY <1>9, TokenEffects, TokenFrames, Zenon
  <2>2. call'[c].pc # "auth" /\ call'[c].pc # "saving"
    BY <2>1, Zenon
  <2>3. call'[c].reauth => Safe(c)
    BY <1>3, <2>1, <2>2, Zenon
  <2>4. ASSUME NEW e \in Call \ {c}, call[e].reauth, call[e].pc = "auth"
        PROVE  access'[Owner[e]] # call[e].rejected /\ file' # call[e].rejected
    <3>1. call[e].rejected # call[c].token
      BY <2>1, Zenon DEF TokenInv, SavedByOne
    <3> QED
      BY <1>2, <1>3, <2>1, <2>4, <3>1, Zenon
  <2> HIDE DEF Safe
  <2> QED
    BY <1>4, <2>2, <2>3, <2>4, Zenon
<1>10. CASE IssueFails(c)
  <2>1. call'[c].pc = "returned" /\ ~call'[c].reauth /\ UNCHANGED <<access, file>>
    BY <1>10, TokenEffects, TokenFrames, Zenon
  <2>2. call'[c].pc # "saving"
    BY <2>1, Zenon
  <2> QED
    BY <1>3, <1>4, <2>1, <2>2, Zenon
<1>11. CASE Reauthenticates(c)
  <2>1. /\ access' = [access EXCEPT ![Owner[c]] = NoToken] /\ file' = Missing
        /\ call'[c].rejected = call[c].token /\ call[c].pc = "flight" /\ call'[c].pc = "auth"
    BY <1>11, TokenEffects, TokenFrames, Zenon
  <2>2. /\ call[c].token \in Token /\ call[c].pc # "saving"
        /\ call'[c].pc \notin {"saving", "flight"}
    BY <2>1, Zenon DEF StateInv, Local
  <2>3. ASSUME NEW d \in Call, call'[d].pc = "saving" PROVE call'[d].token # call[c].token
    <3>1. d # c /\ call'[d] = call[d]
      BY <1>1, <2>2, <2>3, Zenon
    <3> QED
      BY <2>3, <3>1, Zenon DEF TokenInv, SavedByOne
  <2>4. access'[Owner[c]] = NoToken
    BY <1>1, <2>1, Zenon
  <2>5. Safe(c)
    BY <1>2, <2>1, <2>2, <2>3, <2>4, Zenon
  <2>6. ASSUME NEW e \in Call \ {c}, call[e].reauth, call[e].pc = "auth"
        PROVE  access'[Owner[e]] # call[e].rejected /\ file' # call[e].rejected
    <3>1. /\ access'[Owner[e]] \in {NoToken, access[Owner[e]]}
          /\ access[Owner[e]] # call[e].rejected /\ call[e].rejected \in Token
      BY <1>1, <1>3, <2>1, <2>6, Zenon
    <3> QED
      BY <1>2, <2>1, <3>1, Zenon
  <2> HIDE DEF Safe
  <2> QED
    BY <1>4, <2>2, <2>5, <2>6, Zenon
<1> QED
  BY <1>5, <1>6, <1>7, <1>8, <1>9, <1>10, <1>11, TokenCases, Zenon


LEMMA TokenStep ==
    ASSUME StateInv, TokenInv, [Next]_vars
    PROVE  TokenInv'
<1>1. ASSUME NEW c \in Call, Runs(c), Moves(c) PROVE TokenInv'
  BY <1>1, KnownStep, SavedStep, RefusedStep, Zenon DEF TokenInv
<1>2. ASSUME UNCHANGED <<tokenVars, call>> PROVE TokenInv'
  BY <1>2, Zenon DEF TokenInv, KnownTokens, SavedByOne, RefusedIsGone, tokenVars
<1>3. ASSUME NEW p \in Client, NEW b \in Bucket, OperationBucketRefill(p, b)
      PROVE  UNCHANGED <<tokenVars, call>>
  BY <1>3, Zenon DEF OperationBucketRefill
<1> QED
  BY <1>1, <1>2, <1>3, StepCases, Zenon DEF vars

LEMMA TokenInit ==
    ASSUME Init PROVE LockInv /\ TokenInv
<1>1. \A d \in Call : /\ call[d].pc = "idle" /\ ~call[d].reauth
                      /\ call[d].token = NoToken /\ call[d].rejected = NoToken
  BY Zenon DEF Init, Idle
<1>2. LockInv
  BY <1>1, KisRequestAssumption, Zenon DEF Init, LockInv
<1>3. KnownTokens
  BY <1>1 DEF Init, KnownTokens, NoToken, Missing
<1>4. SavedByOne /\ RefusedIsGone
  BY <1>1, Zenon DEF SavedByOne, RefusedIsGone
<1> QED
  BY <1>2, <1>3, <1>4, Zenon DEF TokenInv

LEMMA TokensHold == Spec => [](StateInv /\ LockInv /\ TokenInv)
<1>1. Init => StateInv /\ BreakerInv /\ LockInv /\ TokenInv
  BY StateInit, BreakerInit, TokenInit, Zenon
<1>2. StateInv /\ BreakerInv /\ LockInv /\ TokenInv /\ [Next]_vars
         => StateInv' /\ BreakerInv' /\ LockInv' /\ TokenInv'
  BY StateStep, BreakerStep, LockStep, TokenStep, Zenon
<1> QED
  BY <1>1, <1>2, PTL DEF Spec

(***************************************************************************)
(* authenticate asks /oauth2/tokenP for one call of a client at a time:    *)
(* that call and no other holds _auth_lock, which every way out of         *)
(* authenticate releases, and the token the client keeps was issued by     *)
(* KIS; for any number of processes that share the cache file.             *)
(***************************************************************************)
THEOREM OneIssueAtATime == Spec => []SingleFlight
<1>1. ASSUME StateInv, LockInv, TokenInv PROVE SingleFlight
  <2>1. Owner \in [Call -> Client]
    BY KisRequestAssumption, Zenon
  <2>2. \A p \in Client : access[p] <= issued
    BY <1>1, Zenon DEF TokenInv, KnownTokens
  <2>3. ASSUME NEW c \in Call, NEW d \in Call
        PROVE  /\ call[c].pc \in {"issue", "saving"} => lock[Owner[c]] = c
               /\ lock[Owner[c]] = d => call[d].pc \in {"issue", "saving"}
    BY <1>1, <2>1, Zenon DEF LockInv
  <2> QED
    BY <2>2, <2>3, Zenon DEF SingleFlight
<1> QED
  BY <1>1, TokensHold, PTL

(***************************************************************************)
(* A request that was refused for an expired token and authenticated again *)
(* never carries the answer of tokenP it was refused with, although other  *)
(* processes write the file while it waits for the lock: by then it is     *)
(* gone from the memory and from the file, and no call is about to write   *)
(* it there.                                                               *)
(***************************************************************************)
THEOREM ReauthAsksAgain == Spec => []RefusedIsForgotten
<1>1. StateInv /\ LockInv /\ TokenInv => RefusedIsForgotten
  BY Zenon DEF TokenInv, RefusedIsGone, RefusedIsForgotten
<1> QED
  BY <1>1, TokensHold, PTL

-----------------------------------------------------------------------------
(***************************************************************************)
(* The budget.  A frame holds a token of bucket b; Ledger adds up what is  *)
(* left of b, held and spent.  Only a refill makes it larger.              *)
(***************************************************************************)
Holding(f, b) ==
    IF b = "global" THEN f.waited \/ (f.paid # "no" /\ ~f.skip)
                    ELSE f.paid # "no" /\ f.bucket = b

LEMMA InFlightChange ==
    ASSUME StateInv, NEW c \in Call, NEW g, call' = [call EXCEPT ![c] = g],
           NEW p \in Client, NEW b \in Bucket
    PROVE  /\ Cardinality(InFlight(p, b)) \in Nat /\ Cardinality(InFlight(p, b)') \in Nat
           /\ Owner[c] # p \/ (Holding(g, b) <=> Holding(call[c], b))
                 => Cardinality(InFlight(p, b)') = Cardinality(InFlight(p, b))
           /\ Owner[c] = p /\ Holding(g, b) /\ ~Holding(call[c], b)
                 => Cardinality(InFlight(p, b)') = Cardinality(InFlight(p, b)) + 1
           /\ Owner[c] = p /\ ~Holding(g, b) /\ Holding(call[c], b)
                 => Cardinality(InFlight(p, b)) = Cardinality(InFlight(p, b)') + 1
<1> DEFINE A == InFlight(p, b)
           B == InFlight(p, b)'
           R == {d \in Call \ {c} : Owner[d] = p /\ Holding(call[d], b)}
<1>1. /\ A = {d \in Call : Owner[d] = p /\ Holding(call[d], b)}
      /\ B = {d \in Call : Owner[d] = p /\ Holding(call'[d], b)}
  BY Zenon DEF InFlight, Holding
<1>2. call'[c] = g /\ \A d \in Call \ {c} : call'[d] = call[d]
  BY Zenon DEF StateInv, TypeOK
<1>3. /\ A = IF Owner[c] = p /\ Holding(call[c], b) THEN R \cup {c} ELSE R
      /\ B = IF Owner[c] = p /\ Holding(g, b) THEN R \cup {c} ELSE R
  BY <1>1, <1>2, Zenon
<1>4. IsFiniteSet(R)
  BY KisRequestAssumption, FS_Subset, Zenon
<1>5. c \notin R
  OBVIOUS
<1> HIDE DEF A, B, R
<1>6. /\ Cardinality(R) \in Nat
      /\ Cardinality(R \cup {c}) = Cardinality(R) + 1
  BY <1>4, <1>5, FS_CardinalityType, FS_AddElement, Zenon
<1>7. /\ Cardinality(A) = IF Owner[c] = p /\ Holding(call[c], b) THEN Cardinality(R) + 1
                                                               ELSE Cardinality(R)
      /\ Cardinality(B) = IF Owner[c] = p /\ Holding(g, b) THEN Cardinality(R) + 1
                                                          ELSE Cardinality(R)
  BY <1>3, <1>6, Zenon
<1> QED
  BY <1>6, <1>7 DEF A, B


LEMMA HeldTokens ==
    ASSUME NEW f \in Frame, Local(f), NEW b \in Bucket
    PROVE  /\ f.pc \in Paying => (Holding(f, b) <=> KeptBy(f, b))
           /\ f.pc \notin Paying => (Holding(f, b) <=> b = "global" /\ f.waited)
<1>1. f.bucket # "global" /\ (f.pc \in Paying <=> f.paid # "no")
  BY Zenon DEF Local
<1> QED
  BY <1>1, Zenon DEF Holding, KeptBy

Reserved(p, b) == IF b = "order" THEN reserve[p] ELSE 0

Ledger(p, b) ==
    tokens[p][b] + Cardinality(InFlight(p, b)) + succeeded[p][b] + Reserved(p, b)

(* The frame, the bucket and the reserve that a step of c changes.           *)
LEMMA LedgerStep ==
    ASSUME StateInv, [Next]_vars, NEW c \in Call, Moves(c), NEW p \in Client, NEW b \in Bucket
    PROVE  Ledger(p, b)' <= Ledger(p, b)
<1> DEFINE f == call[c]
           t == tokens[p][b]
           n == Cardinality(InFlight(p, b))
           s == succeeded[p][b]
           r == Reserved(p, b)
           tt == tokens'[p][b]
           nn == Cardinality(InFlight(p, b)')
           ss == succeeded'[p][b]
           rr == Reserved(p, b)'
<1>1. /\ f \in Frame /\ Local(f) /\ call \in [Call -> Frame] /\ Owner[c] \in Client
      /\ tokens \in [Client -> [Bucket -> Nat]] /\ reserve \in [Client -> 0..ReserveCapacity]
      /\ succeeded \in [Client -> [Bucket -> Nat]]
      /\ \A q \in Client, d \in Bucket : tokens[q][d] <= Capacity[d]
  BY KisRequestAssumption, Zenon DEF StateInv, TypeOK
<1>2. /\ t \in Nat /\ s \in Nat /\ tt \in Nat /\ ss \in Nat /\ reserve[p] \in Nat
      /\ reserve'[p] \in Nat
  BY <1>1, KisRequestAssumption, BudgetType
<1>3. r \in Nat /\ rr \in Nat
  BY <1>2, Zenon DEF Reserved
<1>4. PICK g \in Frame : call' = [call EXCEPT ![c] = g] /\ Local(g)
  BY Zenon DEF Moves, Outside, Waits, Consumes, Pays, PaysInVain, Authenticates, Fails, Inside,
     Raises, Succeeds
<1>5. /\ n \in Nat /\ nn \in Nat
      /\ Owner[c] # p \/ (Holding(g, b) <=> Holding(f, b)) => nn = n
      /\ Owner[c] = p /\ Holding(g, b) /\ ~Holding(f, b) => nn = n + 1
      /\ Owner[c] = p /\ ~Holding(g, b) /\ Holding(f, b) => n = nn + 1
  BY <1>4, InFlightChange, Zenon
<1>6. call'[c] = g
  BY <1>1, <1>4, Zenon
<1>7. /\ f.pc \in Paying => (Holding(f, b) <=> KeptBy(f, b))
      /\ f.pc \notin Paying => (Holding(f, b) <=> b = "global" /\ f.waited)
      /\ g.pc \in Paying => (Holding(g, b) <=> KeptBy(g, b))
      /\ g.pc \notin Paying => (Holding(g, b) <=> b = "global" /\ g.waited)
  BY <1>1, <1>4, HeldTokens, Zenon
<1>8. ASSUME tt + nn + ss + rr <= t + n + s + r PROVE Ledger(p, b)' <= Ledger(p, b)
  BY <1>8, Zenon DEF Ledger
<1>9. ASSUME UNCHANGED reserve PROVE rr = r
  BY <1>9, Zenon DEF Reserved
<1> HIDE DEF f, t, n, s, r, tt, nn, ss, rr
<1>10. CASE Outside(c)
  <2>1. /\ f.pc \notin Paying /\ g.pc \notin Paying /\ (g.waited => f.waited)
        /\ tt <= t /\ UNCHANGED <<reserve, succeeded>>
    BY <1>1, <1>6, <1>10, Zenon DEF Outside, f, t, tt
  <2>2. nn = n \/ n = nn + 1
    BY <1>5, <1>7, <2>1, Zenon
  <2>3. ss = s /\ rr = r
    BY <1>9, <2>1, Zenon DEF s, ss
  <2>4. tt + nn + ss + rr <= t + n + s + r
    BY <1>2, <1>3, <1>5, <2>1, <2>2, <2>3
  <2> QED
    BY <1>8, <2>4, Zenon
<1>11. CASE Waits(c)
  <2>1. /\ f.pc = "wait" /\ g.pc = "budget" /\ UNCHANGED <<reserve, succeeded>>
        /\ tokens' = [tokens EXCEPT ![Owner[c]]["global"] = @ - 1]
    BY <1>1, <1>6, <1>11, Zenon DEF Waits, f
  <2>2. f.pc \notin Paying /\ g.pc \notin Paying /\ "global" \in Bucket
    BY <2>1, Zenon DEF Paying, Bucket
  <2>3. ss = s /\ rr = r
    BY <1>9, <2>1, Zenon DEF s, ss
  <2>4. tt = IF Owner[c] = p /\ b = "global" THEN t - 1 ELSE t
    BY <1>1, <2>1, <2>2, Zenon DEF t, tt
  <2>5. /\ Owner[c] # p \/ b # "global" => nn = n
        /\ nn = n \/ nn = n + 1 \/ n = nn + 1
    BY <1>5, <1>7, <2>2, Zenon
  <2>6. tt + nn + ss + rr <= t + n + s + r
    BY <1>2, <1>3, <1>5, <2>3, <2>4, <2>5
  <2> QED
    BY <1>8, <2>6, Zenon
<1>12. CASE Inside(c)
  <2>1. /\ f.pc \in Paying /\ g.pc \in Paying /\ g.skip = f.skip /\ g.waited = f.waited
        /\ g.bucket = f.bucket /\ UNCHANGED <<tokens, reserve, succeeded>>
    BY <1>1, <1>6, <1>12, Zenon DEF Inside, f, budgetVars
  <2>2. Holding(g, b) <=> Holding(f, b)
    BY <1>7, <2>1, Zenon DEF KeptBy
  <2>3. nn = n /\ tt = t /\ ss = s /\ rr = r
    BY <1>5, <1>9, <2>1, <2>2, Zenon DEF t, tt, s, ss
  <2>4. tt + nn + ss + rr <= t + n + s + r
    BY <1>2, <1>3, <1>5, <2>3
  <2> QED
    BY <1>8, <2>4, Zenon

<1>13. CASE Raises(c)
  <2>1. /\ f.pc \in Paying /\ g.pc = "returned" /\ ~g.waited /\ UNCHANGED <<reserve, succeeded>>
        /\ tokens' = [tokens EXCEPT ![Owner[c]] = Released(c, tokens[Owner[c]])]
    BY <1>1, <1>6, <1>13, Zenon DEF Raises, f
  <2>2. ~Holding(g, b)
    <3>1. g.pc \notin Paying
      BY <2>1, Zenon DEF Paying
    <3> QED
      BY <1>7, <2>1, <3>1, Zenon
  <2>3. ss = s /\ rr = r
    BY <1>9, <2>1, Zenon DEF s, ss
  <2>4. CASE Owner[c] # p
    <3>1. tt = t /\ nn = n
      BY <1>1, <1>5, <2>1, <2>4, Zenon DEF t, tt
    <3>2. tt + nn + ss + rr <= t + n + s + r
      BY <1>2, <1>3, <1>5, <2>3, <3>1
    <3> QED
      BY <1>8, <3>2, Zenon
  <2>5. CASE Owner[c] = p
    <3>1. tt = Released(c, tokens[p])[b]
      BY <1>1, <2>1, <2>5, Zenon DEF tt
    <3>2. /\ tt <= t + 1
          /\ ~KeptBy(f, b) => tt = t
      <4>1. tokens[p] \in [Bucket -> Nat] /\ \A d \in Bucket : tokens[p][d] <= Capacity[d]
        BY <1>1, Zenon
      <4>2. /\ Released(c, tokens[p])[b] <= tokens[p][b] + 1
            /\ b # call[c].bucket /\ (b # "global" \/ call[c].skip)
                  => Released(c, tokens[p])[b] = tokens[p][b]
        BY <4>1, ReleasedFacts, Zenon
      <4> QED
        BY <3>1, <4>2, Zenon DEF t, f, KeptBy
    <3>3. /\ KeptBy(f, b) => n = nn + 1
          /\ ~KeptBy(f, b) => nn = n
      BY <1>5, <1>7, <2>1, <2>2, <2>5, Zenon
    <3>4. tt + nn + ss + rr <= t + n + s + r
      <4>1. CASE KeptBy(f, b)
        BY <1>2, <1>3, <1>5, <2>3, <3>2, <3>3, <4>1
      <4>2. CASE ~KeptBy(f, b)
        BY <1>2, <1>3, <1>5, <2>3, <3>2, <3>3, <4>2
      <4> QED
        BY <4>1, <4>2, Zenon
    <3> QED
      BY <1>8, <3>4, Zenon
  <2> QED
    BY <2>4, <2>5, Zenon
<1>14. CASE Succeeds(c)
  <2>1. /\ f.pc = "flight" /\ g.pc = "returned" /\ ~g.waited /\ UNCHANGED <<tokens, reserve>>
        /\ succeeded' = [succeeded EXCEPT ![Owner[c]] =
              [d \in Bucket |-> IF KeptBy(f, d) THEN @[d] + 1 ELSE @[d]]]
    BY <1>1, <1>6, <1>14, Zenon DEF Succeeds, f
  <2>2. f.pc \in Paying /\ g.pc \notin Paying
    BY <2>1, Zenon DEF Paying
  <2>3. ~Holding(g, b)
    BY <1>7, <2>1, <2>2, Zenon
  <2>4. tt = t /\ rr = r
    BY <1>9, <2>1, Zenon DEF t, tt
  <2>5. ss = IF Owner[c] = p /\ KeptBy(f, b) THEN s + 1 ELSE s
    BY <1>1, <2>1, Zenon DEF s, ss
  <2>6. /\ Owner[c] = p /\ KeptBy(f, b) => n = nn + 1
        /\ ~(Owner[c] = p /\ KeptBy(f, b)) => nn = n
    BY <1>5, <1>7, <2>2, <2>3, Zenon
  <2>7. tt + nn + ss + rr <= t + n + s + r
    <3>1. CASE Owner[c] = p /\ KeptBy(f, b)
      BY <1>2, <1>3, <1>5, <2>4, <2>5, <2>6, <3>1
    <3>2. CASE ~(Owner[c] = p /\ KeptBy(f, b))
      BY <1>2, <1>3, <1>5, <2>4, <2>5, <2>6, <3>2
    <3> QED
      BY <3>1, <3>2, Zenon
  <2> QED
    BY <1>8, <2>7, Zenon
<1>15. CASE Consumes(c)
  <2>1. /\ Payable(c) /\ f.pc = "budget"
        /\ reserve' = [reserve EXCEPT ![Owner[c]] = IF FromReserve(c) THEN @ - 1 ELSE @]
        /\ UNCHANGED succeeded
    BY <1>15, Zenon DEF Consumes, Consume, Pays, PaysInVain, f
  <2>2. /\ Consumed(c) \in [Bucket -> Nat]
        /\ \A d \in Bucket :
              Consumed(c)[d] =
                 IF (d = "global" /\ ~f.skip) \/ (d = f.bucket /\ ~FromReserve(c))
                   THEN tokens[Owner[c]][d] - 1 ELSE tokens[Owner[c]][d]
    BY <2>1, ConsumedFacts, Zenon DEF f
  <2>3. /\ f.pc \notin Paying /\ ss = s /\ f.bucket # "global"
        /\ FromReserve(c) => f.bucket = "order"
    BY <1>1, <2>1, Zenon DEF Paying, s, ss, Local, FromReserve, f
  <2>4. rr = IF Owner[c] = p /\ b = "order" /\ FromReserve(c) THEN r - 1 ELSE r
    BY <1>1, <2>1, Zenon DEF Reserved, r, rr
  <2>5. ~Holding(f, b) \/ b = "global"
    BY <1>7, <2>3, Zenon
  <2>6. CASE Owner[c] # p
    <3>1. tt = t
      BY <1>1, <1>15, <2>6, Zenon DEF Consumes, Pays, PaysInVain, t, tt
    <3>2. nn = n /\ rr = r
      BY <1>5, <2>4, <2>6, Zenon
    <3>3. tt + nn + ss + rr <= t + n + s + r
      BY <1>2, <1>3, <1>5, <2>3, <3>1, <3>2
    <3> QED
      BY <1>8, <3>3, Zenon
  <2>7. CASE Owner[c] = p /\ Pays(c)
    <3>1. /\ g.pc = "auth" /\ g.skip = f.skip /\ g.waited = f.waited /\ g.bucket = f.bucket
          /\ tt = Consumed(c)[b]
      BY <1>1, <1>6, <2>7, Zenon DEF Pays, f, tt
    <3>2. g.pc \in Paying
      BY <3>1, Zenon DEF Paying
    <3>3. Holding(g, b) <=> b = f.bucket \/ (b = "global" /\ (f.waited \/ ~f.skip))
      BY <1>7, <3>1, <3>2, Zenon DEF KeptBy
    <3>4. tt = IF (b = "global" /\ ~f.skip) \/ (b = f.bucket /\ ~FromReserve(c))
                 THEN t - 1 ELSE t
      BY <2>2, <2>7, <3>1, Zenon DEF t
    <3>5. CASE b = "global"
      <4>1. (nn = n \/ nn = n + 1 \/ n = nn + 1) /\ (f.skip => nn = n)
        BY <1>5, <1>7, <2>3, <2>7, <3>3, <3>5, Zenon
      <4>2. rr = r
        BY <2>4, <3>5, Zenon
      <4>3. tt = IF ~f.skip THEN t - 1 ELSE t
        BY <2>3, <3>4, <3>5, Zenon
      <4>4. tt + nn + ss + rr <= t + n + s + r
        BY <1>2, <1>3, <1>5, <2>3, <4>1, <4>2, <4>3
      <4> QED
        BY <1>8, <4>4, Zenon
    <3>6. CASE b = f.bucket
      <4>1. nn = n + 1
        BY <1>5, <2>3, <2>5, <2>7, <3>3, <3>6, Zenon
      <4>2. \/ tt = t - 1 /\ (rr = r \/ rr = r - 1)
            \/ tt = t /\ rr = r - 1
        BY <2>3, <2>4, <2>7, <3>4, <3>6, Zenon
      <4>3. tt + nn + ss + rr <= t + n + s + r
        BY <1>2, <1>3, <1>5, <2>3, <4>1, <4>2
      <4> QED
        BY <1>8, <4>3, Zenon
    <3>7. CASE b # "global" /\ b # f.bucket
      <4>1. nn = n /\ tt = t /\ rr = r
        BY <1>5, <2>3, <2>4, <2>5, <3>3, <3>4, <3>7, Zenon
      <4>2. tt + nn + ss + rr <= t + n + s + r
        BY <1>2, <1>3, <1>5, <2>3, <4>1
      <4> QED
        BY <1>8, <4>2, Zenon
    <3> QED
      BY <3>5, <3>6, <3>7, Zenon

  <2>8. CASE Owner[c] = p /\ PaysInVain(c)
    <3> DEFINE u == Consumed(c)
    <3>1. g.pc = "returned" /\ ~g.waited /\ tt = Released(c, u)[b]
      BY <1>1, <1>6, <2>8, Zenon DEF PaysInVain, f, tt
    <3>2. ~Holding(g, b)
      <4>1. g.pc \notin Paying
        BY <3>1, Zenon DEF Paying
      <4> QED
        BY <1>7, <3>1, <4>1, Zenon
    <3>3. nn = n \/ n = nn + 1
      BY <1>5, <2>8, <3>2, Zenon
    <3>4. u[b] = IF (b = "global" /\ ~f.skip) \/ (b = f.bucket /\ ~FromReserve(c))
                   THEN t - 1 ELSE t
      BY <2>2, <2>8, Zenon DEF t
    <3>5. \A d \in Bucket : u[d] <= Capacity[d]
      <4>1. ASSUME NEW d \in Bucket PROVE u[d] <= Capacity[d]
        <5>1. u[d] = tokens[p][d] - 1 \/ u[d] = tokens[p][d]
          BY <2>2, <2>8, Zenon
        <5>2. tokens[p][d] \in Nat /\ tokens[p][d] <= Capacity[d] /\ Capacity[d] \in Nat
          BY <1>1, KisRequestAssumption
        <5> QED
          BY <5>1, <5>2
      <4> QED
        BY <4>1, Zenon
    <3> HIDE DEF u
    <3>6. /\ tt <= u[b] + 1 /\ u[b] \in Nat
          /\ b # f.bucket /\ (b # "global" \/ f.skip) => tt = u[b]
      <4>1. u \in [Bucket -> Nat]
        BY <2>2, Zenon DEF u
      <4>2. /\ Released(c, u)[b] <= u[b] + 1
            /\ b # call[c].bucket /\ (b # "global" \/ call[c].skip) => Released(c, u)[b] = u[b]
        BY <3>5, <4>1, ReleasedFacts, Zenon
      <4> QED
        BY <3>1, <4>1, <4>2, Zenon DEF f
    <3>7. \/ tt <= t /\ (rr = r \/ rr = r - 1)
          \/ tt <= t + 1 /\ rr = r - 1
      <4>1. CASE (b = "global" /\ ~f.skip) \/ (b = f.bucket /\ ~FromReserve(c))
        <5>1. u[b] = t - 1
          BY <3>4, <4>1, Zenon
        <5> QED
          BY <1>2, <2>4, <3>6, <5>1
      <4>2. CASE b = f.bucket /\ FromReserve(c)
        <5>1. b = "order" /\ ~(b = "global" /\ ~f.skip)
          BY <2>3, <4>2, Zenon
        <5>2. rr = r - 1
          BY <2>4, <2>8, <4>2, <5>1, Zenon
        <5>3. u[b] = t
          BY <3>4, <4>2, <5>1, Zenon
        <5> QED
          BY <1>2, <3>6, <5>2, <5>3, Zenon
      <4>3. CASE b # f.bucket /\ (b # "global" \/ f.skip)
        <5>1. tt = t
          BY <3>4, <3>6, <4>3, Zenon
        <5> QED
          BY <1>2, <2>4, <5>1
      <4> QED
        BY <4>1, <4>2, <4>3, Zenon
    <3>8. tt + nn + ss + rr <= t + n + s + r
      BY <1>2, <1>3, <1>5, <2>3, <3>3, <3>7
    <3> QED
      BY <1>8, <3>8, Zenon
  <2> QED
    BY <1>15, <2>6, <2>7, <2>8, Zenon DEF Consumes
<1> QED
  BY <1>10, <1>11, <1>12, <1>13, <1>14, <1>15, Zenon DEF Moves, Authenticates, Fails

(***************************************************************************)
(* Every successful request has kept a token: what a bucket still has, what *)
(* the requests in flight may give back and what the successful ones have  *)
(* spent never exceeds the capacity and the refills (for orders with the   *)
(* reserve for held positions), for any number of calls.  The release in   *)
(* the finally clause of _request therefore never pays twice.              *)
(***************************************************************************)
THEOREM BudgetIsNeverOverdrawn == Spec => []SuccessIsPaidFor
<1> DEFINE Allowed(p, b) ==
              Capacity[b] + refills[p][b] + (IF b = "order" THEN ReserveCapacity ELSE 0)
           Covered == \A p \in Client, b \in Bucket : Ledger(p, b) <= Allowed(p, b)
<1>1. Covered <=> SuccessIsPaidFor
  BY Zenon DEF Ledger, Reserved, SuccessIsPaidFor
<1>2. ASSUME Init PROVE Covered
  <2>1. ASSUME NEW p \in Client, NEW b \in Bucket PROVE Ledger(p, b) <= Allowed(p, b)
    <3>1. InFlight(p, b) = {}
      BY <1>2, Zenon DEF Init, InFlight, Idle
    <3>2. Cardinality(InFlight(p, b)) = 0
      BY <3>1, FS_EmptySet, Zenon
    <3>3. /\ tokens[p][b] = Capacity[b] /\ succeeded[p][b] = 0 /\ refills[p][b] = 0
          /\ reserve[p] = ReserveCapacity
      BY <1>2, Zenon DEF Init
    <3>4. Capacity[b] \in Nat /\ ReserveCapacity \in Nat
      BY KisRequestAssumption, Zenon
    <3> QED
      BY <3>2, <3>3, <3>4 DEF Ledger, Reserved
  <2> QED
    BY <2>1, Zenon
<1>3. ASSUME StateInv, Covered, [Next]_vars PROVE Covered'
  <2>1. ASSUME NEW c \in Call, Moves(c), NEW p \in Client, NEW b \in Bucket
        PROVE  Ledger(p, b)' <= Allowed(p, b)'
    <3>1. UNCHANGED refills
      BY <2>1, Zenon DEF Moves, Outside, Waits, Consumes, Consume, Authenticates, Fails, Inside,
         Raises, Succeeds, budgetVars
    <3>2. Ledger(p, b)' <= Ledger(p, b) /\ Ledger(p, b) <= Allowed(p, b)
      BY <1>3, <2>1, LedgerStep, Zenon
    <3>3. Ledger(p, b) \in Int /\ Ledger(p, b)' \in Int /\ Allowed(p, b) \in Int
      <4>1. /\ tokens[p][b] \in Nat /\ succeeded[p][b] \in Nat /\ reserve[p] \in Nat
            /\ tokens'[p][b] \in Nat /\ succeeded'[p][b] \in Nat /\ reserve'[p] \in Nat
            /\ refills[p][b] \in Nat /\ Capacity[b] \in Nat /\ ReserveCapacity \in Nat
        BY <1>3, BudgetType, KisRequestAssumption DEF StateInv, TypeOK
      <4>2. PICK g : call' = [call EXCEPT ![c] = g]
        BY <2>1, Zenon DEF Moves, Outside, Waits, Consumes, Pays, PaysInVain, Authenticates,
           Fails, Inside, Raises, Succeeds
      <4>3. Cardinality(InFlight(p, b)) \in Nat /\ Cardinality(InFlight(p, b)') \in Nat
        BY <1>3, <4>2, InFlightChange, Zenon
      <4> QED
        BY <4>1, <4>3 DEF Ledger, Reserved
    <3>4. Allowed(p, b)' = Allowed(p, b)
      BY <3>1, Zenon
    <3> HIDE DEF Allowed
    <3> QED
      BY <3>2, <3>3, <3>4
  <2>2. ASSUME NEW q \in Client, NEW d \in Bucket, OperationBucketRefill(q, d),
               NEW p \in Client, NEW b \in Bucket
        PROVE  Ledger(p, b)' <= Allowed(p, b)'
    <3>1. /\ tokens' = [tokens EXCEPT ![q][d] = Minimum(Capacity[d], @ + 1)]
          /\ refills' = [refills EXCEPT ![q][d] = @ + 1]
          /\ UNCHANGED <<reserve, succeeded, call>>
      BY <2>2, Zenon DEF OperationBucketRefill
    <3>2. /\ tokens \in [Client -> [Bucket -> Nat]] /\ refills \in [Client -> [Bucket -> Nat]]
          /\ succeeded[p][b] \in Nat /\ reserve[p] \in Nat /\ tokens[p][b] \in Nat
          /\ refills[p][b] \in Nat /\ Capacity[b] \in Nat /\ ReserveCapacity \in Nat
          /\ tokens'[p][b] \in Nat
      BY <1>3, BudgetType, KisRequestAssumption DEF StateInv, TypeOK
    <3>3. Cardinality(InFlight(p, b)') = Cardinality(InFlight(p, b))
      BY <3>1, Zenon DEF InFlight
    <3>4. Cardinality(InFlight(p, b)) \in Nat
      <4>1. IsFiniteSet(InFlight(p, b))
        BY KisRequestAssumption, FS_Subset, Zenon DEF InFlight
      <4> QED
        BY <4>1, FS_CardinalityType, Zenon
    <3>5. CASE p = q /\ b = d
      <4>1. /\ tokens'[p][b] = Minimum(Capacity[b], tokens[p][b] + 1)
            /\ refills'[p][b] = refills[p][b] + 1
        BY <3>1, <3>2, <3>5, Zenon
      <4>2. tokens'[p][b] <= tokens[p][b] + 1
        BY <3>2, <4>1 DEF Minimum
      <4>3. Ledger(p, b) <= Allowed(p, b)
        BY <1>3, Zenon
      <4> QED
        BY <3>1, <3>2, <3>3, <3>4, <4>1, <4>2, <4>3 DEF Ledger, Reserved
    <3>6. CASE ~(p = q /\ b = d)
      <4>1. tokens'[p][b] = tokens[p][b] /\ refills'[p][b] = refills[p][b]
        BY <3>1, <3>2, <3>6, Zenon
      <4> QED
        BY <1>3, <3>1, <3>3, <4>1, Zenon DEF Ledger, Reserved
    <3> QED
      BY <3>5, <3>6, Zenon
  <2>3. CASE UNCHANGED vars
    BY <1>3, <2>3, Zenon DEF vars, budgetVars, Ledger, Reserved, InFlight
  <2> QED
    BY <1>3, <2>1, <2>2, <2>3, StepCases, Zenon
<1>4. Spec => []Covered
  <2> HIDE DEF Covered
  <2>1. Init => Covered
    BY <1>2, Zenon
  <2>2. StateInv /\ BreakerInv /\ Covered /\ [Next]_vars => Covered'
    BY <1>3, Zenon
  <2> QED
    BY <2>1, <2>2, StateHolds, PTL DEF Spec
<1> QED
  BY <1>1, <1>4, PTL
=============================================================================
