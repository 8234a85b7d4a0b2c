--------------------------- MODULE KisFrameProofs ---------------------------
(***************************************************************************)
(* The lemmas of KisRequestProofs about the frames of the calls: what each *)
(* step of KisRequest does to the frame it runs in, told apart by whether  *)
(* the request holds tokens before and after.                              *)
(***************************************************************************)
EXTENDS KisRequest, TLAPS

-----------------------------------------------------------------------------
(***************************************************************************)
(* The frame of a call by itself.  A request has paid exactly from         *)
(* consume_or_raise to its end, its bucket is one of the four the          *)
(* operations name, and an order was executed at most once for each        *)
(* transmission so far; a request that never got budget executed nothing.  *)
(***************************************************************************)
Paying == {"auth", "issue", "saving", "flight"}

Local(f) ==
    /\ f.bucket # "global"
    /\ f.pc \in Paying <=> f.paid # "no"
    /\ f.pc \notin Paying =>
          /\ f.attempt = 0 /\ ~f.reauth /\ f.token = NoToken /\ f.rejected = NoToken
    /\ f.pc \in {"saving", "flight"} => f.token \in Token
    /\ f.pc \in {"idle", "precheck"} => f.bucket # "order"
    /\ f.pc # "ended" /\ f.op \notin {"buy", "sell"} => f.bucket # "order"
    /\ f.pc # "ended" /\ f.bucket # "order" => f.executed = 0
    /\ f.pc \notin {"returned", "ended"} => f.executed <= f.attempt
    /\ f.pc = "returned" /\ Exhausted(f) => f.executed = 0

StateInv == TypeOK /\ \A c \in Call : Local(call[c])

-----------------------------------------------------------------------------
(* A frame stays one when a field gets a value of its type.                  *)
LEMMA SetField ==
    ASSUME NEW f \in Frame
    PROVE  /\ \A x \in {"idle", "precheck", "budget", "wait", "auth", "issue", "saving",
                        "flight", "returned", "ended"} : [f EXCEPT !.pc = x] \in Frame
           /\ \A x \in {"none", "ok", "exhausted", "global", "open", "error", "rate_limit",
                        "timeout", "expired", "rejected", "unbound", "empty", "unknown"} :
                 [f EXCEPT !.result = x] \in Frame
           /\ \A x \in {"no", "bucket", "reserve"} : [f EXCEPT !.paid = x] \in Frame
           /\ \A x \in Operation \cup {"none"} : [f EXCEPT !.op = x] \in Frame
           /\ \A x \in Bucket : [f EXCEPT !.bucket = x] \in Frame
           /\ \A x \in 1..2 : [f EXCEPT !.leg = x] \in Frame
           /\ \A x \in BOOLEAN : /\ [f EXCEPT !.held = x] \in Frame
                                 /\ [f EXCEPT !.fallback = x] \in Frame
                                 /\ [f EXCEPT !.skip = x] \in Frame
                                 /\ [f EXCEPT !.waited = x] \in Frame
                                 /\ [f EXCEPT !.reauth = x] \in Frame
           /\ \A x \in 0..MaxRetries : [f EXCEPT !.attempt = x] \in Frame
           /\ \A x \in 0..(MaxRetries + 1) : [f EXCEPT !.executed = x] \in Frame
           /\ \A x \in 0..MaxTokens : /\ [f EXCEPT !.token = x] \in Frame
                                      /\ [f EXCEPT !.rejected = x] \in Frame
           /\ \A x \in Nat \ {0} : [f EXCEPT !.page = x] \in Frame
           /\ \A x \in 0..2 : [f EXCEPT !.retry = x] \in Frame
<1>1. \A x \in {"idle", "precheck", "budget", "wait", "auth", "issue", "saving",
            "flight", "returned", "ended"} :
         [f EXCEPT !.pc = x] \in Frame
  BY ZenonT(60) DEF Frame
<1>2. \A x \in {"none", "ok", "exhausted", "global", "open", "error", "rate_limit",
            "timeout", "expired", "rejected", "unbound", "empty", "unknown"} :
         [f EXCEPT !.result = x] \in Frame
  BY ZenonT(60) DEF Frame
<1>3. \A x \in {"no", "bucket", "reserve"} : [f EXCEPT !.paid = x] \in Frame
  BY Zenon DEF Frame
<1>4. \A x \in Operation \cup {"none"} : [f EXCEPT !.op = x] \in Frame
  BY Zenon DEF Frame
<1>5. \A x \in Bucket : [f EXCEPT !.bucket = x] \in Frame
  BY Zenon DEF Frame
<1>6. \A x \in 1..2 : [f EXCEPT !.leg = x] \in Frame
  BY Zenon DEF Frame
<1>7. \A x \in BOOLEAN : [f EXCEPT !.held = x] \in Frame
  BY Zenon DEF Frame
<1>8. \A x \in BOOLEAN : [f EXCEPT !.fallback = x] \in Frame
  BY Zenon DEF Frame
<1>9. \A x \in BOOLEAN : [f EXCEPT !.skip = x] \in Frame
  BY Zenon DEF Frame
<1>10. \A x \in BOOLEAN : [f EXCEPT !.waited = x] \in Frame
  BY Zenon DEF Frame
<1>11. \A x \in BOOLEAN : [f EXCEPT !.reauth = x] \in Frame
  BY Zenon DEF Frame
<1>12. \A x \in 0..MaxRetries : [f EXCEPT !.attempt = x] \in Frame
  BY Zenon DEF Frame
<1>13. \A x \in 0..(MaxRetries + 1) : [f EXCEPT !.executed = x] \in Frame
  BY Zenon DEF Frame
<1>14. \A x \in 0..MaxTokens : [f EXCEPT !.token = x] \in Frame
  BY Zenon DEF Frame
<1>15. \A x \in 0..MaxTokens : [f EXCEPT !.rejected = x] \in Frame
  BY Zenon DEF Frame
<1>16. \A x \in Nat \ {0} : [f EXCEPT !.page = x] \in Frame
  BY Zenon DEF Frame
<1>17. \A x \in 0..2 : [f EXCEPT !.retry = x] \in Frame
  BY Zenon DEF Frame
<1> QED
  BY <1>1, <1>2, <1>3, <1>4, <1>5, <1>6, <1>7, <1>8, <1>9,
     <1>10, <1>11, <1>12, <1>13, <1>14, <1>15, <1>16, <1>17, Zenon

(* What the frame operators return.                                          *)
LEMMA NewRequestFrame ==
    ASSUME NEW f \in Frame, f.paid = "no", f.executed = 0, f.attempt = 0, ~f.reauth,
           f.token = NoToken, f.rejected = NoToken
    PROVE  /\ NewRequest(f) \in Frame /\ Local(NewRequest(f))
           /\ NewRequest(f).pc = "budget" /\ NewRequest(f).waited = f.waited
<1> DEFINE b == BucketOf(f.op, f.leg)
           f1 == [f EXCEPT !.pc = "budget"]
           f2 == [f1 EXCEPT !.bucket = b]
           f3 == [f2 EXCEPT !.skip = f.fallback]
           f4 == [f3 EXCEPT !.result = "none"]
<1>1. b \in Bucket /\ b # "global" /\ (f.op \notin {"buy", "sell"} => b # "order")
  BY Zenon DEF BucketOf, Bucket
<1>2. NewRequest(f) = f4
  BY Zenon DEF NewRequest
<1>3. f.fallback \in BOOLEAN
  BY Zenon DEF Frame
<1>4. /\ f4.pc = "budget" /\ f4.bucket = b /\ f4.op = f.op /\ f4.paid = "no"
      /\ f4.executed = 0 /\ f4.attempt = 0 /\ ~f4.reauth /\ f4.waited = f.waited
      /\ f4.token = NoToken /\ f4.rejected = NoToken /\ f4.result = "none"
  BY Zenon DEF Frame
<1> HIDE DEF b
<1>5. f1 \in Frame
  BY SetField, Zenon
<1> HIDE DEF f1
<1>6. f2 \in Frame
  BY SetField, <1>1, <1>5, Zenon
<1> HIDE DEF f2
<1>7. f3 \in Frame
  BY SetField, <1>3, <1>6, Zenon
<1> HIDE DEF f3
<1>8. f4 \in Frame
  BY SetField, <1>7, Zenon
<1> HIDE DEF f4
<1>9. Local(f4)
  BY <1>1, <1>4 DEF Local, Paying, Exhausted
<1> QED
  BY <1>2, <1>4, <1>8, <1>9, Zenon

Replied(f, why, n) == [Return(f, why) EXCEPT !.executed = n]

LEMMA ReturnFrame ==
    ASSUME NEW f \in Frame, Local(f), f.pc # "ended", NEW n \in 0..(MaxRetries + 1),
           f.bucket # "order" => n = 0,
           NEW why \in {"ok", "exhausted", "global", "open", "error", "rate_limit",
                        "timeout", "expired"},
           why \in {"exhausted", "global"} => n = 0
    PROVE  /\ Replied(f, why, n) \in Frame /\ Local(Replied(f, why, n))
           /\ Replied(f, why, n).pc = "returned" /\ Replied(f, why, n).paid = "no"
           /\ ~Replied(f, why, n).waited
           /\ Return(f, why) = Replied(f, why, f.executed)
<1> DEFINE f1 == [f EXCEPT !.pc = "returned"]
           f2 == [f1 EXCEPT !.result = why]
           f3 == [f2 EXCEPT !.paid = "no"]
           f4 == [f3 EXCEPT !.skip = FALSE]
           f5 == [f4 EXCEPT !.waited = FALSE]
           f6 == [f5 EXCEPT !.attempt = 0]
           f7 == [f6 EXCEPT !.reauth = FALSE]
           f8 == [f7 EXCEPT !.token = NoToken]
           f9 == [f8 EXCEPT !.rejected = NoToken]
           g == [f9 EXCEPT !.executed = n]
<1>1. Return(f, why) = f9
  BY Zenon DEF Return
<1>2. 0 \in 0..MaxRetries /\ NoToken \in 0..MaxTokens
  BY KisRequestAssumption DEF NoToken
<1>3. /\ g.pc = "returned" /\ g.result = why /\ g.paid = "no" /\ g.attempt = 0
      /\ g.bucket = f.bucket /\ g.op = f.op /\ g.executed = n
      /\ ~g.reauth /\ ~g.waited /\ g.token = NoToken /\ g.rejected = NoToken
  BY Zenon DEF Frame
<1>4. f9 = [f9 EXCEPT !.executed = f.executed]
  BY Zenon DEF Frame
<1>5. f1 \in Frame
  BY SetField, Zenon
<1> HIDE DEF f1
<1>6. f2 \in Frame
  BY SetField, <1>5, Zenon
<1> HIDE DEF f2
<1>7. f3 \in Frame
  BY SetField, <1>6, Zenon
<1> HIDE DEF f3
<1>8. f4 \in Frame
  BY SetField, <1>7, Zenon
<1> HIDE DEF f4
<1>9. f5 \in Frame
  BY SetField, <1>8, Zenon
<1> HIDE DEF f5
<1>10. f6 \in Frame
  BY SetField, <1>2, <1>9, Zenon
<1> HIDE DEF f6
<1>11. f7 \in Frame
  BY SetField, <1>10, Zenon
<1> HIDE DEF f7
<1>12. f8 \in Frame
  BY SetField, <1>2, <1>11, Zenon
<1> HIDE DEF f8
<1>13. f9 \in Frame
  BY SetField, <1>2, <1>12, Zenon
<1> HIDE DEF f9
<1>14. g \in Frame
  BY SetField, <1>13, Zenon
<1> HIDE DEF g
<1>15. Local(g)
  BY <1>3, Zenon DEF Local, Paying, Exhausted
<1> QED
  BY <1>1, <1>3, <1>4, <1>14, <1>15, Zenon DEF g, Replied

LEMMA EndedFrame ==
    ASSUME NEW f \in Frame,
           NEW why \in {"none", "ok", "exhausted", "global", "open", "error", "rate_limit",
                        "timeout", "expired", "rejected", "unbound", "empty", "unknown"}
    PROVE  /\ Ended(f, why) \in Frame /\ Local(Ended(f, why))
           /\ Ended(f, why).pc = "ended" /\ ~Ended(f, why).waited
<1> DEFINE f1 == [Idle EXCEPT !.pc = "ended"]
           f2 == [f1 EXCEPT !.op = f.op]
           f3 == [f2 EXCEPT !.result = why]
           g == [f3 EXCEPT !.executed = f.executed]
<1>1. Ended(f, why) = g
  BY Zenon DEF Ended
<1>2. Idle \in Frame
  BY KisRequestAssumption DEF Idle, Frame, NoToken, Bucket
<1>3. /\ g.pc = "ended" /\ g.paid = "no" /\ g.attempt = 0 /\ g.bucket = "inquiry"
      /\ ~g.reauth /\ ~g.waited /\ g.token = NoToken /\ g.rejected = NoToken
  BY Zenon DEF Idle
<1>4. f.executed \in 0..(MaxRetries + 1) /\ f.op \in Operation \cup {"none"}
  BY Zenon DEF Frame
<1>5. f1 \in Frame
  BY SetField, <1>2, Zenon
<1> HIDE DEF f1
<1>6. f2 \in Frame
  BY SetField, <1>4, <1>5, Zenon
<1> HIDE DEF f2
<1>7. f3 \in Frame
  BY SetField, <1>6, Zenon
<1> HIDE DEF f3
<1>8. g \in Frame
  BY SetField, <1>4, <1>7, Zenon
<1> HIDE DEF g
<1>9. Local(g)
  BY <1>3, Zenon DEF Local, Paying
<1> QED
  BY <1>1, <1>3, <1>8, <1>9, Zenon

-----------------------------------------------------------------------------
(***************************************************************************)
(* The steps of a call before a request has paid and after it has ended:   *)
(* they take tokens at most.                                               *)
(***************************************************************************)
Outside(c) ==
    /\ call[c].pc \notin Paying
    /\ \E g \in Frame : /\ call' = [call EXCEPT ![c] = g]
                        /\ Local(g) /\ g.pc \notin Paying
                        /\ g.waited => call[c].waited
    /\ tokens' \in [Client -> [Bucket -> Nat]]
    /\ \A p \in Client, b \in Bucket : tokens'[p][b] <= tokens[p][b]
    /\ UNCHANGED <<reserve, refills, succeeded, breaker, tokenVars, quotes>>

LEMMA StartIsOutside ==
    ASSUME StateInv, NEW c \in Call,
           StartFromCache(c) \/ \E op \in Operation : Start(c, op)
    PROVE  Outside(c)
<1> DEFINE f == call[c]
<1>1. /\ f \in Frame /\ Local(f) /\ f.pc = "idle"
      /\ UNCHANGED <<budgetVars, breaker, tokenVars, quotes>>
  BY Zenon DEF StateInv, TypeOK, StartFromCache, Start, MayStart
<1>2. /\ f.executed = 0 /\ f.attempt = 0 /\ ~f.reauth /\ f.token = NoToken
      /\ f.rejected = NoToken /\ f.paid = "no" /\ f.bucket \notin {"global", "order"}
  BY <1>1, Zenon DEF Local, Paying, Frame
<1>3. /\ tokens' \in [Client -> [Bucket -> Nat]]
      /\ \A p \in Client, b \in Bucket : tokens'[p][b] <= tokens[p][b]
  BY <1>1 DEF StateInv, TypeOK, budgetVars
<1>4. SUFFICES \E g \in Frame : /\ call' = [call EXCEPT ![c] = g]
                                /\ Local(g) /\ g.pc \notin Paying
                                /\ g.waited => f.waited
  BY <1>1, <1>3, Zenon DEF Outside, Paying, budgetVars
<1>5. CASE StartFromCache(c)
  <2> DEFINE f1 == [f EXCEPT !.op = "quote"]
             g == Ended(f1, "ok")
  <2>1. f1 \in Frame
    BY <1>1, SetField, Zenon DEF Operation
  <2>2. call' = [call EXCEPT ![c] = g]
    BY <1>5, Zenon DEF StartFromCache
  <2> HIDE DEF f1
  <2>3. g \in Frame /\ Local(g) /\ g.pc = "ended" /\ ~g.waited
    BY <2>1, EndedFrame, Zenon
  <2> HIDE DEF g
  <2> QED
    BY <2>2, <2>3, Zenon DEF Paying
<1>6. ASSUME NEW op \in Operation, Start(c, op)
      PROVE  \E g \in Frame : /\ call' = [call EXCEPT ![c] = g]
                              /\ Local(g) /\ g.pc \notin Paying
                              /\ g.waited => f.waited
  <2> DEFINE f1 == [f EXCEPT !.op = op]
  <2>1. \/ call' = [call EXCEPT ![c] = [f1 EXCEPT !.pc = "precheck"]]
        \/ call' = [call EXCEPT ![c] = NewRequest(f1)]
    BY <1>6, Zenon DEF Start
  <2>2. f1 \in Frame
    BY <1>1, SetField, Zenon
  <2>3. /\ f1.executed = 0 /\ f1.attempt = 0 /\ ~f1.reauth /\ f1.token = NoToken
        /\ f1.rejected = NoToken /\ f1.paid = "no" /\ f1.waited = f.waited
        /\ f1.op = op /\ f1.bucket \notin {"global", "order"}
    BY <1>1, <1>2, Zenon DEF Frame
  <2> HIDE DEF f1
  <2>4. CASE call' = [call EXCEPT ![c] = [f1 EXCEPT !.pc = "precheck"]]
    <3> DEFINE h == [f1 EXCEPT !.pc = "precheck"]
    <3>1. h \in Frame
      BY <2>2, SetField, Zenon
    <3>2. /\ h.executed = 0 /\ h.attempt = 0 /\ ~h.reauth /\ h.token = NoToken
          /\ h.rejected = NoToken /\ h.paid = "no" /\ h.waited = f.waited
          /\ h.bucket \notin {"global", "order"} /\ h.pc = "precheck"
      BY <2>2, <2>3, Zenon DEF Frame
    <3> HIDE DEF h
    <3>3. Local(h)
      BY <3>2 DEF Local, Paying, Exhausted
    <3>4. call' = [call EXCEPT ![c] = h]
      BY <2>4, Zenon DEF h
    <3> QED
      BY <3>1, <3>2, <3>3, <3>4, Zenon DEF Paying
  <2>5. CASE call' = [call EXCEPT ![c] = NewRequest(f1)]
    <3> DEFINE h == NewRequest(f1)
    <3>1. h \in Frame /\ Local(h) /\ h.pc = "budget" /\ h.waited = f.waited
      BY <2>2, <2>3, NewRequestFrame, Zenon
    <3>2. call' = [call EXCEPT ![c] = h]
      BY <2>5, Zenon
    <3> HIDE DEF h
    <3> QED
      BY <3>1, <3>2, Zenon DEF Paying
  <2> QED
    BY <2>1, <2>4, <2>5, Zenon
<1> QED
  BY <1>5, <1>6, Zenon

LEMMA BudgetIsOutside ==
    ASSUME StateInv, NEW c \in Call,
           \/ Precheck(c) \/ GlobalExhausted(c) \/ BucketExhausted(c)
           \/ WaitForGlobal(c) /\ ~(tokens[Owner[c]]["global"] > 0)
    PROVE  Outside(c)
<1> DEFINE f == call[c]
           Good(g) == /\ call' = [call EXCEPT ![c] = g]
                      /\ g \in Frame /\ Local(g) /\ g.pc \notin Paying
                      /\ g.waited => f.waited
<1>1. /\ f \in Frame /\ Local(f) /\ f.pc \in {"precheck", "budget", "wait"}
      /\ UNCHANGED <<budgetVars, breaker, tokenVars, quotes>>
  BY Zenon DEF StateInv, TypeOK, Precheck, GlobalExhausted, BucketExhausted, WaitForGlobal,
     budgetVars
<1>2. /\ f.executed = 0 /\ f.attempt = 0 /\ ~f.reauth /\ f.token = NoToken
      /\ f.rejected = NoToken /\ f.paid = "no" /\ f.bucket # "global"
  BY <1>1 DEF Local, Paying, Frame
<1>3. /\ tokens' \in [Client -> [Bucket -> Nat]]
      /\ \A p \in Client, b \in Bucket : tokens'[p][b] <= tokens[p][b]
  BY <1>1 DEF StateInv, TypeOK, budgetVars
<1>4. SUFFICES \E g : Good(g)
  BY <1>1, <1>3, Zenon DEF Outside, Paying, budgetVars
<1>5. CASE Precheck(c)
  <2>1. NewRequest(f) \in Frame /\ Local(NewRequest(f))
        /\ NewRequest(f).pc = "budget" /\ NewRequest(f).waited = f.waited
    BY <1>1, <1>2, NewRequestFrame, Zenon
  <2>2. /\ Ended(f, "empty") \in Frame /\ Local(Ended(f, "empty"))
        /\ Ended(f, "empty").pc = "ended" /\ ~Ended(f, "empty").waited
    BY <1>1, EndedFrame, Zenon
  <2>3. \/ call' = [call EXCEPT ![c] = NewRequest(f)]
        \/ call' = [call EXCEPT ![c] = Ended(f, "empty")]
    BY <1>5, Zenon DEF Precheck
  <2>4. Good(NewRequest(f)) \/ Good(Ended(f, "empty"))
    BY <2>1, <2>2, <2>3, Zenon DEF Paying
  <2> QED
    BY <2>4, Zenon
<1>6. CASE GlobalExhausted(c)
  <2> DEFINE g == [f EXCEPT !.pc = "wait"]
  <2>1. g \in Frame
    BY <1>1, SetField, Zenon
  <2>2. /\ g.executed = 0 /\ g.attempt = 0 /\ ~g.reauth /\ g.token = NoToken
        /\ g.rejected = NoToken /\ g.paid = "no" /\ g.waited = f.waited
        /\ g.bucket = f.bucket /\ g.pc = "wait" /\ g.op = f.op
    BY <1>1, <1>2, Zenon DEF Frame
  <2>3. call' = [call EXCEPT ![c] = g]
    BY <1>6, Zenon DEF GlobalExhausted
  <2>4. f.pc # "ended"
    BY <1>1, Zenon
  <2> HIDE DEF g
  <2>5. Local(g)
    BY <1>1, <2>2, <2>4 DEF Local, Paying, Exhausted
  <2>6. Good(g)
    BY <2>1, <2>2, <2>3, <2>5, Zenon DEF Paying
  <2> QED
    BY <2>6, Zenon
<1>7. ASSUME NEW why \in {"exhausted", "global"}, call' = [call EXCEPT ![c] = Return(f, why)]
      PROVE  \E g : Good(g)
  <2>1. /\ 0 \in 0..(MaxRetries + 1) /\ f.pc # "ended"
        /\ why \in {"ok", "exhausted", "global", "open", "error", "rate_limit",
                    "timeout", "expired"}
    BY <1>1, <1>7, KisRequestAssumption
  <2> DEFINE g == Replied(f, why, 0)
  <2>2. /\ g \in Frame /\ Local(g) /\ g.pc = "returned" /\ ~g.waited
        /\ Return(f, why) = g
    BY <1>1, <1>2, <2>1, ReturnFrame
  <2>3. Good(g)
    BY <1>7, <2>2, Zenon DEF Paying
  <2> QED
    BY <2>3, Zenon
<1>8. CASE BucketExhausted(c)
  <2>1. call' = [call EXCEPT ![c] = Return(f, "exhausted")]
    BY <1>8, Zenon DEF BucketExhausted, Unpaid
  <2> QED
    BY <1>7, <2>1, Zenon
<1>9. CASE WaitForGlobal(c) /\ ~(tokens[Owner[c]]["global"] > 0)
  <2>1. call' = [call EXCEPT ![c] = Return(f, "global")]
    BY <1>9, Zenon DEF WaitForGlobal, Unpaid
  <2> QED
    BY <1>7, <2>1, Zenon
<1> QED
  BY <1>5, <1>6, <1>8, <1>9, Zenon

LEMMA OperationIsOutside ==
    ASSUME StateInv, NEW c \in Call,
           \/ Repeat(c) \/ RepeatFromCache(c) \/ NextPage(c) \/ ReservedLane(c)
           \/ ReserveReconciliation(c) \/ AskPositions(c) \/ End(c)
    PROVE  Outside(c)
<1> DEFINE f == call[c]
           Plain(h) == /\ h \in Frame /\ h.executed = 0 /\ h.attempt = 0 /\ ~h.reauth
                       /\ h.token = NoToken /\ h.rejected = NoToken /\ h.paid = "no"
                       /\ h.waited = f.waited
           Good(g) == /\ call' = [call EXCEPT ![c] = g]
                      /\ g \in Frame /\ Local(g) /\ g.pc \notin Paying
                      /\ g.waited => f.waited
<1>1. /\ f \in Frame /\ Local(f) /\ f.pc = "returned"
      /\ UNCHANGED <<reserve, refills, succeeded, breaker, tokenVars, quotes>>
  BY Zenon DEF StateInv, TypeOK, Repeat, RepeatFromCache, NextPage, ReservedLane,
     ReserveReconciliation, AskPositions, End, budgetVars
<1>2. /\ f.attempt = 0 /\ ~f.reauth /\ f.token = NoToken
      /\ f.rejected = NoToken /\ f.paid = "no" /\ f.executed \in Nat
      /\ f.op \notin {"buy", "sell"} \/ Exhausted(f) => f.executed = 0
  BY <1>1 DEF Local, Paying, Frame
<1>3. /\ tokens' \in [Client -> [Bucket -> Nat]]
      /\ \A p \in Client, b \in Bucket : tokens'[p][b] <= tokens[p][b]
  <2>1. CASE tokens' = tokens
    BY <2>1 DEF StateInv, TypeOK
  <2>2. CASE ReserveReconciliation(c)
    <3> DEFINE q == Owner[c]
    <3>1. /\ q \in Client /\ "reconciliation" \in Bucket /\ tokens[q]["reconciliation"] > 0
          /\ tokens' = [tokens EXCEPT ![q]["reconciliation"] = @ - 1]
      BY <2>2, KisRequestAssumption, Zenon DEF ReserveReconciliation, Bucket
    <3>2. tokens \in [Client -> [Bucket -> Nat]]
      BY Zenon DEF StateInv, TypeOK
    <3> QED
      BY <3>1, <3>2
  <2> QED
    BY <2>1, <2>2, Zenon DEF Repeat, RepeatFromCache, NextPage, ReservedLane, AskPositions,
       End, budgetVars
<1>4. SUFFICES \E g : Good(g)
  BY <1>1, <1>3, Zenon DEF Outside, Paying
<1>5. ASSUME NEW h, Plain(h), call' = [call EXCEPT ![c] = NewRequest(h)]
      PROVE  \E g : Good(g)
  <2>1. NewRequest(h) \in Frame /\ Local(NewRequest(h))
        /\ NewRequest(h).pc = "budget" /\ NewRequest(h).waited = h.waited
    BY <1>5, NewRequestFrame, Zenon
  <2>2. Good(NewRequest(h))
    BY <1>5, <2>1, Zenon DEF Paying
  <2> QED
    BY <2>2, Zenon
<1>6. CASE Repeat(c)
  <2> DEFINE h1 == [f EXCEPT !.retry = @ + 1]
             h == [h1 EXCEPT !.page = 1]
  <2>1. f.op \notin {"buy", "sell"} /\ f.retry + 1 \in 0..2 /\ 1 \in Nat \ {0}
    BY <1>1, <1>6 DEF Repeat, Repeats, Frame
  <2>2. call' = [call EXCEPT ![c] = NewRequest(h)]
    BY <1>6, Zenon DEF Repeat
  <2>3. h.executed = 0 /\ h.attempt = 0 /\ ~h.reauth /\ h.token = NoToken
        /\ h.rejected = NoToken /\ h.paid = "no" /\ h.waited = f.waited
    BY <1>1, <1>2, <2>1 DEF Frame
  <2>4. h1 \in Frame
    BY <1>1, <2>1, SetField, Zenon
  <2> HIDE DEF h1
  <2>5. h \in Frame
    BY <2>1, <2>4, SetField, Zenon
  <2> QED
    BY <1>5, <2>2, <2>3, <2>5, Zenon
<1>7. CASE NextPage(c)
  <2> DEFINE h == [f EXCEPT !.page = @ + 1]
  <2>1. f.op \notin {"buy", "sell"} /\ f.page + 1 \in Nat \ {0}
    BY <1>1, <1>7 DEF NextPage, Frame
  <2>2. call' = [call EXCEPT ![c] = NewRequest(h)]
    BY <1>7, Zenon DEF NextPage
  <2>3. h.executed = 0 /\ h.attempt = 0 /\ ~h.reauth /\ h.token = NoToken
        /\ h.rejected = NoToken /\ h.paid = "no" /\ h.waited = f.waited
    BY <1>1, <1>2, <2>1 DEF Frame
  <2>4. h \in Frame
    BY <1>1, <2>1, SetField, Zenon
  <2> QED
    BY <1>5, <2>2, <2>3, <2>4, Zenon
<1>8. CASE ReservedLane(c)
  <2> DEFINE h1 == [f EXCEPT !.leg = 2]
             h == [h1 EXCEPT !.held = TRUE]
  <2>1. Exhausted(f) /\ 2 \in 1..2
    BY <1>8 DEF ReservedLane
  <2>2. call' = [call EXCEPT ![c] = NewRequest(h)]
    BY <1>8, Zenon DEF ReservedLane
  <2>3. h.executed = 0 /\ h.attempt = 0 /\ ~h.reauth /\ h.token = NoToken
        /\ h.rejected = NoToken /\ h.paid = "no" /\ h.waited = f.waited
    BY <1>1, <1>2, <2>1 DEF Frame
  <2>4. h1 \in Frame
    BY <1>1, <2>1, SetField, Zenon
  <2> HIDE DEF h1
  <2>5. h \in Frame
    BY <2>4, SetField, Zenon
  <2> QED
    BY <1>5, <2>2, <2>3, <2>5, Zenon
<1>9. CASE ReserveReconciliation(c)
  <2> DEFINE h1 == [f EXCEPT !.fallback = TRUE]
             h == [h1 EXCEPT !.page = 1]
  <2>1. Exhausted(f) /\ 1 \in Nat \ {0}
    BY <1>9 DEF ReserveReconciliation
  <2>2. call' = [call EXCEPT ![c] = NewRequest(h)]
    BY <1>9, Zenon DEF ReserveReconciliation
  <2>3. h.executed = 0 /\ h.attempt = 0 /\ ~h.reauth /\ h.token = NoToken
        /\ h.rejected = NoToken /\ h.paid = "no" /\ h.waited = f.waited
    BY <1>1, <1>2, <2>1 DEF Frame
  <2>4. h1 \in Frame
    BY <1>1, SetField, Zenon
  <2> HIDE DEF h1
  <2>5. h \in Frame
    BY <2>1, <2>4, SetField, Zenon
  <2> QED
    BY <1>5, <2>2, <2>3, <2>5, Zenon
<1>10. CASE AskPositions(c)
  <2> DEFINE h1 == [f EXCEPT !.leg = 2]
             h2 == [h1 EXCEPT !.fallback = FALSE]
             h == [h2 EXCEPT !.page = 1]
  <2>1. f.op \notin {"buy", "sell"} /\ 1 \in Nat \ {0} /\ 2 \in 1..2
    BY <1>10 DEF AskPositions
  <2>2. call' = [call EXCEPT ![c] = NewRequest(h)]
    BY <1>10, Zenon DEF AskPositions
  <2>3. h.executed = 0 /\ h.attempt = 0 /\ ~h.reauth /\ h.token = NoToken
        /\ h.rejected = NoToken /\ h.paid = "no" /\ h.waited = f.waited
    BY <1>1, <1>2, <2>1 DEF Frame
  <2>4. h1 \in Frame
    BY <1>1, <2>1, SetField, Zenon
  <2> HIDE DEF h1
  <2>5. h2 \in Frame
    BY <2>4, SetField, Zenon
  <2> HIDE DEF h2
  <2>6. h \in Frame
    BY <2>1, <2>5, SetField, Zenon
  <2> QED
    BY <1>5, <2>2, <2>3, <2>6, Zenon
<1>11. CASE End(c)
  <2> DEFINE g == Ended(f, Outcome(f))
  <2>1. Outcome(f) \in {"none", "ok", "exhausted", "global", "open", "error", "rate_limit",
                        "timeout", "expired", "rejected", "unbound", "empty", "unknown"}
    BY <1>1, Zenon DEF Outcome, Frame
  <2>2. call' = [call EXCEPT ![c] = g]
    BY <1>11, Zenon DEF End
  <2>3. g \in Frame /\ Local(g) /\ g.pc = "ended" /\ ~g.waited
    BY <1>1, <2>1, EndedFrame, Zenon
  <2>4. Good(g)
    BY <2>2, <2>3, Zenon DEF Paying
  <2> QED
    BY <2>4, Zenon
<1>12. CASE RepeatFromCache(c)
  <2> DEFINE g == Ended(f, "ok")
  <2>1. call' = [call EXCEPT ![c] = g]
    BY <1>12, Zenon DEF RepeatFromCache
  <2>2. g \in Frame /\ Local(g) /\ g.pc = "ended" /\ ~g.waited
    BY <1>1, EndedFrame, Zenon
  <2>3. Good(g)
    BY <2>1, <2>2, Zenon DEF Paying
  <2> QED
    BY <2>3, Zenon
<1> QED
  BY <1>6, <1>7, <1>8, <1>9, <1>10, <1>11, <1>12, Zenon

(***************************************************************************)
(* The steps of a paid request that goes on, and of one that raises: the   *)
(* finally clause gives its tokens back.                                   *)
(***************************************************************************)
Inside(c) ==
    /\ call[c].pc \in Paying
    /\ \E g \in Frame : /\ call' = [call EXCEPT ![c] = g]
                        /\ Local(g) /\ g.pc \in Paying
                        /\ g.skip = call[c].skip /\ g.waited = call[c].waited
                        /\ g.bucket = call[c].bucket
    /\ UNCHANGED <<budgetVars, breaker, quotes>>

Raises(c) ==
    /\ call[c].pc \in Paying
    /\ \E g \in Frame : /\ call' = [call EXCEPT ![c] = g]
                        /\ Local(g) /\ g.pc = "returned" /\ ~g.waited
    /\ tokens' = [tokens EXCEPT ![Owner[c]] = Released(c, tokens[Owner[c]])]
    /\ \/ breaker' = breaker
       \/ breaker' = [breaker EXCEPT ![Owner[c]] = OnFailure(@)]
    /\ UNCHANGED <<reserve, refills, succeeded, quotes>>

LEMMA AuthIsInside ==
    ASSUME StateInv, NEW c \in Call,
           AuthFromCache(c) \/ AuthMiss(c) \/ Issue(c) \/ Save(c)
    PROVE  Inside(c)
<1> DEFINE f == call[c]
           Good(g) == /\ call' = [call EXCEPT ![c] = g]
                      /\ g \in Frame /\ Local(g) /\ g.pc \in Paying
                      /\ g.skip = f.skip /\ g.waited = f.waited /\ g.bucket = f.bucket
           Keeps(g) == /\ g.bucket = f.bucket /\ g.paid = f.paid /\ g.op = f.op
                       /\ g.executed = f.executed /\ g.attempt = f.attempt
                       /\ g.skip = f.skip /\ g.waited = f.waited
<1>1. /\ f \in Frame /\ Local(f) /\ f.pc \in {"auth", "issue", "saving"}
      /\ UNCHANGED <<budgetVars, breaker, quotes>>
  BY Zenon DEF StateInv, TypeOK, AuthFromCache, AuthMiss, Issue, Save
<1>2. SUFFICES \E g : Good(g)
  BY <1>1, Zenon DEF Inside, Paying
<1>3. ASSUME NEW g \in Frame, Keeps(g), g.pc \in {"issue", "saving", "flight"},
             g.pc \in {"saving", "flight"} => g.token \in Token
      PROVE  Local(g)
  BY <1>1, <1>3, Zenon DEF Local, Paying
<1>4. CASE AuthFromCache(c)
  <2> DEFINE t == IF access[Owner[c]] # NoToken THEN access[Owner[c]] ELSE file
             g1 == [f EXCEPT !.pc = "flight"]
             g == [g1 EXCEPT !.token = t]
  <2>1. t \in Token /\ call' = [call EXCEPT ![c].pc = "flight", ![c].token = t]
    BY <1>4, Zenon DEF AuthFromCache
  <2> HIDE DEF t
  <2>2. t \in 0..MaxTokens
    BY <2>1, KisRequestAssumption DEF Token
  <2>3. call' = [call EXCEPT ![c] = g]
    BY <2>1, Zenon
  <2>4. Keeps(g) /\ g.pc = "flight" /\ g.token = t
    BY <1>1, Zenon DEF Frame
  <2>5. g1 \in Frame
    BY <1>1, SetField, Zenon
  <2> HIDE DEF g1
  <2>6. g \in Frame
    BY <2>2, <2>5, SetField, Zenon
  <2> HIDE DEF g
  <2>7. Good(g)
    BY <1>3, <2>1, <2>3, <2>4, <2>6, Zenon DEF Paying
  <2> QED
    BY <2>7, Zenon
<1>5. CASE AuthMiss(c)
  <2> DEFINE g == [f EXCEPT !.pc = "issue"]
  <2>1. call' = [call EXCEPT ![c] = g]
    BY <1>5, Zenon DEF AuthMiss
  <2>2. Keeps(g) /\ g.pc = "issue"
    BY <1>1, Zenon DEF Frame
  <2>3. g \in Frame
    BY <1>1, SetField, Zenon
  <2> HIDE DEF g
  <2>4. Good(g)
    BY <1>3, <2>1, <2>2, <2>3, Zenon DEF Paying
  <2> QED
    BY <2>4, Zenon
<1>6. CASE Issue(c)
  <2> DEFINE g1 == [f EXCEPT !.pc = "saving"]
             g == [g1 EXCEPT !.token = issued + 1]
  <2>1. call' = [call EXCEPT ![c] = g]
    BY <1>6, Zenon DEF Issue
  <2>2. issued + 1 \in Token /\ issued + 1 \in 0..MaxTokens
    BY <1>6, KisRequestAssumption DEF Issue, Token, StateInv, TypeOK
  <2>3. Keeps(g) /\ g.pc = "saving" /\ g.token = issued + 1
    BY <1>1, Zenon DEF Frame
  <2>4. g1 \in Frame
    BY <1>1, SetField, Zenon
  <2> HIDE DEF g1
  <2>5. g \in Frame
    BY <2>2, <2>4, SetField, Zenon
  <2> HIDE DEF g
  <2>6. Good(g)
    BY <1>3, <2>1, <2>2, <2>3, <2>5, Zenon DEF Paying
  <2> QED
    BY <2>6, Zenon
<1>7. CASE Save(c)
  <2> DEFINE g == [f EXCEPT !.pc = "flight"]
  <2>1. call' = [call EXCEPT ![c] = g] /\ f.pc = "saving"
    BY <1>7, Zenon DEF Save
  <2>2. Keeps(g) /\ g.pc = "flight" /\ g.token = f.token
    BY <1>1, Zenon DEF Frame
  <2>3. g \in Frame
    BY <1>1, SetField, Zenon
  <2>4. g.token \in Token
    BY <1>1, <2>1, <2>2, Zenon DEF Local
  <2> HIDE DEF g
  <2>5. Good(g)
    BY <1>3, <2>1, <2>2, <2>3, <2>4, Zenon DEF Paying
  <2> QED
    BY <2>5, Zenon
<1> QED
  BY <1>4, <1>5, <1>6, <1>7, Zenon

LEMMA ExchangeFrame ==
    ASSUME StateInv, NEW c \in Call,
           \/ IssueFails(c) \/ Timeout(c) \/ ReauthTimeout(c) \/ NetworkError(c) \/ Expired(c)
           \/ \E why \in {"rate_limit", "error"} : Refused(c, why)
    PROVE  Inside(c) \/ Raises(c)
<1> DEFINE f == call[c]
<1>1. f \in Frame /\ Local(f) /\ f.pc \in {"issue", "flight"} /\ f.pc \in Paying
  BY Zenon DEF StateInv, TypeOK, IssueFails, Timeout, ReauthTimeout, NetworkError, Expired,
     Refused, Paying
<1>2. /\ f.executed \in 0..(MaxRetries + 1) /\ f.executed <= f.attempt
      /\ f.attempt \in 0..MaxRetries /\ MaxRetries \in Nat
      /\ f.bucket # "order" => f.executed = 0
  BY <1>1, KisRequestAssumption, Zenon DEF Local, Frame
<1>3. \A n \in Executions(c) : /\ n \in 0..(MaxRetries + 1) /\ n <= f.attempt + 1
                               /\ f.bucket # "order" => n = 0
  BY <1>2 DEF Executions
<1>4. ASSUME NEW why \in {"error", "rate_limit", "timeout", "expired"},
             NEW n \in 0..(MaxRetries + 1), f.bucket # "order" => n = 0
      PROVE  \A g : g = Replied(f, why, n) =>
                g \in Frame /\ Local(g) /\ g.pc = "returned" /\ ~g.waited
  <2>1. f.pc # "ended" /\ ~(why \in {"exhausted", "global"})
        /\ why \in {"ok", "exhausted", "global", "open", "error", "rate_limit",
                    "timeout", "expired"}
    BY <1>1, <1>4, Zenon
  <2> QED
    BY <1>1, <1>4, <2>1, ReturnFrame
<1>5. ASSUME NEW why \in {"error", "rate_limit", "timeout", "expired"}
      PROVE  Return(f, why) = Replied(f, why, f.executed)
  <2>1. f.pc # "ended" /\ ~(why \in {"exhausted", "global"})
        /\ why \in {"ok", "exhausted", "global", "open", "error", "rate_limit",
                    "timeout", "expired"}
    BY <1>1, <1>5, Zenon
  <2> QED
    BY <1>1, <1>2, <2>1, ReturnFrame
<1>6. ASSUME NEW why \in {"error", "rate_limit", "timeout", "expired"}, Fail(c, why),
             UNCHANGED breaker
      PROVE  Raises(c)
  <2> DEFINE g == Replied(f, why, f.executed)
  <2>1. g \in Frame /\ Local(g) /\ g.pc = "returned" /\ ~g.waited
    BY <1>2, <1>4, Zenon
  <2>2. call' = [call EXCEPT ![c] = g]
    BY <1>5, <1>6, Zenon DEF Fail
  <2> HIDE DEF g
  <2> QED
    BY <1>1, <1>6, <2>1, <2>2, Zenon DEF Raises, Fail
<1>7. CASE IssueFails(c) \/ ReauthTimeout(c) \/ \E why \in {"rate_limit", "error"} : Refused(c, why)
  BY <1>6, <1>7, Zenon DEF IssueFails, ReauthTimeout, Refused
<1>8. ASSUME NEW why \in {"error", "timeout"}, NEW n \in Executions(c),
             call' = [call EXCEPT ![c] = Replied(f, why, n)],
             tokens' = [tokens EXCEPT ![Owner[c]] = Released(c, tokens[Owner[c]])],
             breaker' = [breaker EXCEPT ![Owner[c]] = OnFailure(@)],
             UNCHANGED <<reserve, refills, succeeded, quotes>>
      PROVE  Raises(c)
  <2> DEFINE g == Replied(f, why, n)
  <2>1. g \in Frame /\ Local(g) /\ g.pc = "returned" /\ ~g.waited
    BY <1>3, <1>4, Zenon
  <2> HIDE DEF g
  <2> QED
    BY <1>1, <1>8, <2>1, Zenon DEF Raises, g
<1>9. CASE NetworkError(c)
  <2>1. PICK n \in Executions(c) : call' = [call EXCEPT ![c] = Replied(f, "error", n)]
    BY <1>9, Zenon DEF NetworkError, Replied
  <2> QED
    BY <1>8, <1>9, <2>1, Zenon DEF NetworkError
<1>10. CASE Timeout(c)
  <2>1. PICK n \in Executions(c) :
              IF f.attempt < MaxRetries
                THEN /\ call' = [call EXCEPT ![c].attempt = @ + 1, ![c].executed = n]
                     /\ UNCHANGED <<budgetVars, breaker, quotes>>
                ELSE /\ tokens' = [tokens EXCEPT ![Owner[c]] = Released(c, tokens[Owner[c]])]
                     /\ breaker' = [breaker EXCEPT ![Owner[c]] = OnFailure(@)]
                     /\ call' = [call EXCEPT ![c] = Replied(f, "timeout", n)]
                     /\ UNCHANGED <<reserve, refills, succeeded, quotes>>
    BY <1>10, Zenon DEF Timeout, Replied
  <2>2. CASE ~(f.attempt < MaxRetries)
    BY <1>8, <2>1, <2>2, Zenon
  <2>3. CASE f.attempt < MaxRetries
    <3> DEFINE g1 == [f EXCEPT !.attempt = @ + 1]
               g == [g1 EXCEPT !.executed = n]
    <3>1. f.attempt + 1 \in 0..MaxRetries /\ n \in 0..(MaxRetries + 1) /\ f.pc = "flight"
      BY <1>2, <1>3, <1>10, <2>3 DEF Timeout
    <3>2. call' = [call EXCEPT ![c] = g]
      BY <2>1, <2>3, Zenon
    <3>3. /\ g.bucket = f.bucket /\ g.paid = f.paid /\ g.op = f.op /\ g.token = f.token
          /\ g.executed = n /\ g.attempt = f.attempt + 1 /\ g.pc = "flight"
          /\ g.skip = f.skip /\ g.waited = f.waited
      BY <1>1, <3>1, Zenon DEF Frame
    <3>4. g1 \in Frame
      BY <1>1, <3>1, SetField, Zenon
    <3> HIDE DEF g1
    <3>5. g \in Frame
      BY <3>1, <3>4, SetField, Zenon
    <3> HIDE DEF g
    <3>6. Local(g)
      BY <1>1, <1>3, <3>1, <3>3, Zenon DEF Local, Paying
    <3>7. g.pc \in Paying /\ UNCHANGED <<budgetVars, breaker, quotes>>
      BY <2>1, <2>3, <3>3, Zenon DEF Paying
    <3> QED
      BY <1>1, <3>2, <3>3, <3>5, <3>6, <3>7, Zenon DEF Inside
  <2> QED
    BY <2>2, <2>3, Zenon
<1>11. CASE Expired(c)
  <2>1. CASE ~(f.bucket \in ReadOnly /\ ~f.reauth)
    BY <1>6, <1>11, <2>1, Zenon DEF Expired
  <2>2. CASE f.bucket \in ReadOnly /\ ~f.reauth
    <3> DEFINE g1 == [f EXCEPT !.pc = "auth"]
               g2 == [g1 EXCEPT !.reauth = TRUE]
               g == [g2 EXCEPT !.rejected = f.token]
    <3>1. call' = [call EXCEPT ![c] = g] /\ UNCHANGED <<budgetVars, breaker, quotes>>
      BY <1>11, <2>2, Zenon DEF Expired
    <3>2. f.token \in 0..MaxTokens /\ f.pc = "flight"
      BY <1>1, <1>11, Zenon DEF Expired, Frame
    <3>3. /\ g.bucket = f.bucket /\ g.paid = f.paid /\ g.op = f.op
          /\ g.executed = f.executed /\ g.attempt = f.attempt /\ g.pc = "auth"
          /\ g.skip = f.skip /\ g.waited = f.waited
      BY <1>1, Zenon DEF Frame
    <3>4. g1 \in Frame
      BY <1>1, SetField, Zenon
    <3> HIDE DEF g1
    <3>5. g2 \in Frame
      BY <3>4, SetField, Zenon
    <3> HIDE DEF g2
    <3>6. g \in Frame
      BY <3>2, <3>5, SetField, Zenon
    <3> HIDE DEF g
    <3>7. Local(g)
      BY <1>1, <3>2, <3>3, Zenon DEF Local, Paying
    <3>8. g.pc \in Paying
      BY <3>3, Zenon DEF Paying
    <3> QED
      BY <1>1, <3>1, <3>3, <3>6, <3>7, <3>8, Zenon DEF Inside
  <2> QED
    BY <2>1, <2>2, Zenon
<1> QED
  BY <1>7, <1>9, <1>10, <1>11, Zenon

(***************************************************************************)
(* The steps that take tokens, and the success that keeps them.            *)
(***************************************************************************)
Waits(c) ==
    /\ call[c].pc = "wait" /\ tokens[Owner[c]]["global"] > 0
    /\ \E g \in Frame : /\ call' = [call EXCEPT ![c] = g]
                        /\ Local(g) /\ g.pc = "budget"
    /\ tokens' = [tokens EXCEPT ![Owner[c]]["global"] = @ - 1]
    /\ UNCHANGED <<reserve, refills, succeeded, breaker, tokenVars, quotes>>

Payable(c) ==
    /\ call[c].pc = "budget" /\ GlobalPasses(c)
    /\ FromReserve(c) \/ tokens[Owner[c]][call[c].bucket] > 0

Pays(c) ==
    /\ Payable(c)
    /\ \E g \in Frame : /\ call' = [call EXCEPT ![c] = g]
                        /\ Local(g) /\ g.pc = "auth" /\ ~g.reauth
                        /\ g.skip = call[c].skip /\ g.waited = call[c].waited
                        /\ g.bucket = call[c].bucket
                        /\ g.token = NoToken /\ g.rejected = NoToken
    /\ tokens' = [tokens EXCEPT ![Owner[c]] = Consumed(c)]

PaysInVain(c) ==
    /\ Payable(c)
    /\ \E g \in Frame : /\ call' = [call EXCEPT ![c] = g]
                        /\ Local(g) /\ g.pc = "returned" /\ ~g.waited
    /\ tokens' = [tokens EXCEPT ![Owner[c]] = Released(c, Consumed(c))]

KeptBy(f, b) == b = f.bucket \/ (b = "global" /\ (f.waited \/ ~f.skip))

Succeeds(c) ==
    /\ call[c].pc = "flight"
    /\ \E g \in Frame : /\ call' = [call EXCEPT ![c] = g]
                        /\ Local(g) /\ g.pc = "returned" /\ ~g.waited
    /\ succeeded' = [succeeded EXCEPT ![Owner[c]] =
          [b \in Bucket |-> IF KeptBy(call[c], b) THEN @[b] + 1 ELSE @[b]]]
    /\ breaker' = [breaker EXCEPT ![Owner[c]] = OnSuccess(@)]
    /\ quotes' = [quotes EXCEPT ![Owner[c]] = @ \/ call[c].op = "quote"]
    /\ UNCHANGED <<tokens, reserve, refills, tokenVars>>

LEMMA WaitWaits ==
    ASSUME StateInv, NEW c \in Call, WaitForGlobal(c), tokens[Owner[c]]["global"] > 0
    PROVE  Waits(c)
<1> DEFINE f == call[c]
           g1 == [f EXCEPT !.pc = "budget"]
           g2 == [g1 EXCEPT !.skip = TRUE]
           g == [g2 EXCEPT !.waited = TRUE]
<1>1. f \in Frame /\ Local(f) /\ f.pc = "wait"
  BY Zenon DEF StateInv, TypeOK, WaitForGlobal
<1>2. /\ call' = [call EXCEPT ![c].pc = "budget", ![c].skip = TRUE, ![c].waited = TRUE]
      /\ tokens' = [tokens EXCEPT ![Owner[c]]["global"] = @ - 1]
      /\ UNCHANGED <<reserve, refills, succeeded, breaker, tokenVars, quotes>>
  BY Zenon DEF WaitForGlobal
<1>3. call' = [call EXCEPT ![c] = g]
  BY <1>2, Zenon
<1>4. /\ g.pc = "budget" /\ g.bucket = f.bucket /\ g.op = f.op /\ g.paid = f.paid
      /\ g.executed = f.executed /\ g.attempt = f.attempt /\ g.reauth = f.reauth
      /\ g.token = f.token /\ g.rejected = f.rejected
  BY <1>1, Zenon DEF Frame
<1>5. g1 \in Frame
  BY <1>1, SetField, Zenon
<1> HIDE DEF g1
<1>6. g2 \in Frame
  BY <1>5, SetField, Zenon
<1> HIDE DEF g2
<1>7. g \in Frame
  BY <1>6, SetField, Zenon
<1> HIDE DEF g
<1>8. Local(g)
  BY <1>1, <1>4, Zenon DEF Local, Paying, Exhausted
<1> QED
  BY <1>1, <1>2, <1>3, <1>4, <1>7, <1>8, Zenon DEF Waits

LEMMA ConsumePays ==
    ASSUME StateInv, NEW c \in Call, NEW elapsed \in BOOLEAN, Consume(c, elapsed)
    PROVE  Pays(c) \/ PaysInVain(c)
<1> DEFINE f == call[c]
           b == CheckTimeout(breaker[Owner[c]], elapsed)
<1>1. f \in Frame /\ Local(f) /\ f.pc = "budget" /\ Payable(c)
  BY Zenon DEF StateInv, TypeOK, Consume, Payable
<1>2. /\ f.executed = 0 /\ f.attempt = 0 /\ ~f.reauth /\ f.token = NoToken
      /\ f.rejected = NoToken /\ f.paid = "no" /\ f.bucket # "global"
  BY <1>1 DEF Local, Paying, Frame
<1>3. CASE b.state = "open"
  <2> DEFINE g == Replied(f, "open", 0)
  <2>1. /\ call' = [call EXCEPT ![c] = Return(f, "open")]
        /\ tokens' = [tokens EXCEPT ![Owner[c]] = Released(c, Consumed(c))]
    BY <1>3, Zenon DEF Consume, Unpaid
  <2>2. 0 \in 0..(MaxRetries + 1) /\ f.pc # "ended"
    BY <1>1, KisRequestAssumption
  <2>3. /\ g \in Frame /\ Local(g) /\ g.pc = "returned" /\ ~g.waited
        /\ Return(f, "open") = g
    BY <1>1, <1>2, <2>2, ReturnFrame
  <2> HIDE DEF g
  <2> QED
    BY <1>1, <2>1, <2>3, Zenon DEF PaysInVain
<1>4. CASE b.state # "open"
  <2> DEFINE paid == IF FromReserve(c) THEN "reserve" ELSE "bucket"
             g1 == [f EXCEPT !.pc = "auth"]
             g == [g1 EXCEPT !.paid = paid]
  <2>1. /\ call' = [call EXCEPT ![c].pc = "auth", ![c].paid = paid]
        /\ tokens' = [tokens EXCEPT ![Owner[c]] = Consumed(c)]
    BY <1>4, Zenon DEF Consume
  <2>2. paid \in {"bucket", "reserve"} /\ paid \in {"no", "bucket", "reserve"}
    OBVIOUS
  <2> HIDE DEF paid
  <2>3. call' = [call EXCEPT ![c] = g]
    BY <2>1, Zenon
  <2>4. /\ g.pc = "auth" /\ g.bucket = f.bucket /\ g.op = f.op /\ g.paid = paid
        /\ g.executed = f.executed /\ g.attempt = f.attempt /\ g.reauth = f.reauth
        /\ g.skip = f.skip /\ g.waited = f.waited
        /\ g.token = f.token /\ g.rejected = f.rejected
    BY <1>1, Zenon DEF Frame
  <2>5. g1 \in Frame
    BY <1>1, SetField, Zenon
  <2> HIDE DEF g1
  <2>6. g \in Frame
    BY <2>2, <2>5, SetField, Zenon
  <2> HIDE DEF g
  <2>7. Local(g)
    BY <1>1, <1>2, <2>2, <2>4, Zenon DEF Local, Paying
  <2> QED
    BY <1>1, <1>2, <2>1, <2>3, <2>4, <2>6, <2>7, Zenon DEF Pays
<1> QED
  BY <1>3, <1>4, Zenon

LEMMA SucceedSucceeds ==
    ASSUME StateInv, NEW c \in Call, Succeed(c)
    PROVE  Succeeds(c)
<1> DEFINE f == call[c]
           n == IF f.bucket = "order" THEN f.executed + 1 ELSE f.executed
           g == Replied(f, "ok", n)
<1>1. f \in Frame /\ Local(f) /\ f.pc = "flight"
  BY Zenon DEF StateInv, TypeOK, Succeed
<1>2. n \in 0..(MaxRetries + 1) /\ (f.bucket # "order" => n = 0) /\ f.pc # "ended"
  BY <1>1, KisRequestAssumption DEF Local, Frame
<1>3. call' = [call EXCEPT ![c] = g]
  <2>1. call' = [call EXCEPT ![c] = [Return(f, "ok") EXCEPT
              !.executed = IF f.bucket = "order" THEN @ + 1 ELSE @]]
    BY Zenon DEF Succeed
  <2>2. Return(f, "ok").executed = f.executed
    BY <1>1, Zenon DEF Return, Frame
  <2> QED
    BY <2>1, <2>2, Zenon DEF Replied
<1> HIDE DEF n
<1>4. g \in Frame /\ Local(g) /\ g.pc = "returned" /\ ~g.waited
  BY <1>1, <1>2, ReturnFrame
<1> HIDE DEF g
<1>5. /\ succeeded' = [succeeded EXCEPT ![Owner[c]] =
            [b \in Bucket |-> IF KeptBy(f, b) THEN @[b] + 1 ELSE @[b]]]
      /\ breaker' = [breaker EXCEPT ![Owner[c]] = OnSuccess(@)]
      /\ quotes' = [quotes EXCEPT ![Owner[c]] = @ \/ f.op = "quote"]
      /\ UNCHANGED <<tokens, reserve, refills, tokenVars>>
  BY Zenon DEF Succeed, KeptBy
<1> QED
  BY <1>1, <1>3, <1>4, <1>5, Zenon DEF Succeeds
=============================================================================
