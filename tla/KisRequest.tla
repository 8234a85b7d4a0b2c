----------------------------- MODULE KisRequest -----------------------------
(***************************************************************************)
(* brokers/koreainvestment/rest_client.py with brokers/rate_limit.py,      *)
(* brokers/backoff.py, brokers/koreainvestment/token_cache.py and the      *)
(* adapter's submit_order: what a REST call does between the caller and    *)
(* KIS.                                                                    *)
(*                                                                         *)
(* A client is one process: its token buckets, its circuit breaker and its *)
(* copy of the access token are its own; only the token cache file is      *)
(* shared.  A call is a coroutine of a client that executes one operation  *)
(* (an order, a quote, an inquiry, a resolution), which is a sequence of   *)
(* _request()s.  The steps of the calls interleave at the awaits.          *)
(*                                                                         *)
(* Durations are abstracted: a bucket is refilled at any moment, a bounded *)
(* wait may give up at any moment, and whether a stored expiry, a TTL or   *)
(* the breaker's recovery timeout has passed is left open at each look.    *)
(* Pauses (the paper gate, cooldowns, backoffs) are delays like any other. *)
(***************************************************************************)
EXTENDS Integers, FiniteSets

CONSTANTS Client,       \* processes that hold a KISRestClient
          Call,         \* coroutines
          NoCall,       \* the holder of a free lock
          Owner,        \* the client of a call
          Work,         \* the operations a call may execute
          Paper,        \* env = "paper"
          Capacity,     \* capacity of each bucket
          ReserveCapacity, \* held_position_sell_reserve_capacity
          Threshold,    \* failure_threshold of the breaker
          MaxRetries,   \* MAX_RETRIES: repetitions after a timeout
          MaxCalls,     \* bound: calls that are started
          MaxPages,     \* bound: pages of an inquiry
          MaxTokens,    \* bound: answers of /oauth2/tokenP
          MaxRefills    \* bound: tokens each bucket is refilled with

Bucket == {"order", "inquiry", "reconciliation", "market_data", "global"}
Operation == {"buy", "sell", "quote", "status", "cash", "orderable", "resolve"}

ASSUME KisRequestAssumption ==
    /\ IsFiniteSet(Call) /\ NoCall \notin Call
    /\ Owner \in [Call -> Client]
    /\ Work \in [Call -> SUBSET Operation]
    /\ Paper \in BOOLEAN
    /\ Capacity \in [Bucket -> Nat]
    /\ ReserveCapacity \in Nat
    /\ Threshold \in Nat \ {0}
    /\ MaxRetries \in Nat
    /\ MaxCalls \in Nat
    /\ MaxPages \in [Operation -> Nat \ {0}]
    /\ MaxTokens \in Nat
    /\ MaxRefills \in [Client -> [Bucket -> Nat]]

VARIABLES tokens,     \* remaining of each bucket
          reserve,    \* _held_sell_reserve
          refills,    \* tokens added by _refill so far
          succeeded,  \* successful requests that kept a token of the bucket
          breaker,    \* the CircuitBreaker
          access,     \* _access_token
          lock,       \* the holder of _auth_lock
          file,       \* the token cache file
          issued,     \* answers of /oauth2/tokenP so far
          refused,    \* tokens KIS no longer accepts
          quotes,     \* a quote is cached
          call        \* the frames of the calls

budgetVars == <<tokens, reserve, refills, succeeded>>
tokenVars == <<access, lock, file, issued, refused>>
vars == <<budgetVars, breaker, tokenVars, quotes, call>>

\* A token is named by the answer of /oauth2/tokenP that brought it.  Within six
\* hours KIS answers with the token of the answer before: two names, one string.
\* No step of the client compares tokens.
Token == 1..MaxTokens
NoToken == 0
\* The cache file: a token, no file, or text that json.loads refuses.
Missing == 0
Garbled == -1

Frame == [pc : {"idle", "precheck", "budget", "wait", "auth", "issue",
                "saving", "flight", "returned", "ended"},
          op : Operation \cup {"none"},
          leg : 1..2,              \* which request of the operation
          bucket : Bucket,
          held : BOOLEAN,          \* held_position_sell
          fallback : BOOLEAN,      \* the reconciliation reserve was taken
          skip : BOOLEAN,          \* skip_global_rest
          waited : BOOLEAN,        \* a global token was taken while waiting
          paid : {"no", "bucket", "reserve"},   \* _token_consumed, from where
          attempt : 0..MaxRetries,
          reauth : BOOLEAN,        \* the request is the one after a reauth
          token : 0..MaxTokens,    \* in the Authorization header
          rejected : 0..MaxTokens, \* the token KIS called expired
          page : Nat \ {0},
          retry : 0..2,            \* repetitions by the operation
          result : {"none", "ok", "exhausted", "global", "open", "error",
                    "rate_limit", "timeout", "expired", "rejected", "unbound",
                    "empty", "unknown"},
          executed : 0..(MaxRetries + 1)]  \* times KIS executed the order

Idle == [pc |-> "idle", op |-> "none", leg |-> 1, bucket |-> "inquiry",
         held |-> FALSE, fallback |-> FALSE, skip |-> FALSE, waited |-> FALSE,
         paid |-> "no", attempt |-> 0, reauth |-> FALSE, token |-> NoToken,
         rejected |-> NoToken, page |-> 1, retry |-> 0, result |-> "none",
         executed |-> 0]

Closed == [state |-> "closed", failures |-> 0]

Init ==
    /\ tokens = [p \in Client |-> Capacity]
    /\ reserve = [p \in Client |-> ReserveCapacity]
    /\ refills = [p \in Client |-> [b \in Bucket |-> 0]]
    /\ succeeded = [p \in Client |-> [b \in Bucket |-> 0]]
    /\ breaker = [p \in Client |-> Closed]
    /\ access = [p \in Client |-> NoToken]
    /\ lock = [p \in Client |-> NoCall]
    /\ file = Missing
    /\ issued = 0
    /\ refused = {}
    /\ quotes = [p \in Client |-> FALSE]
    /\ call = [c \in Call |-> Idle]

Minimum(a, b) == IF a <= b THEN a ELSE b

-----------------------------------------------------------------------------
(* backoff.py: the circuit breaker.  The failure count is only compared    *)
(* with the threshold and reset, so it saturates there.                    *)

\* The state property: OPEN becomes HALF_OPEN once recovery_timeout elapsed.
CheckTimeout(b, elapsed) ==
    IF b.state = "open" /\ elapsed THEN [b EXCEPT !.state = "half_open"] ELSE b

OnSuccess(b) ==
    IF b.state = "half_open" THEN Closed ELSE [b EXCEPT !.failures = 0]

\* Mutant: the count is compared before the failure is added.
OnFailureLate(b) ==
    [state |-> IF b.state = "half_open" \/ b.failures >= Threshold
                 THEN "open" ELSE b.state,
     failures |-> Minimum(Threshold, b.failures + 1)]

OnFailure(b) ==
    [state |-> IF b.state = "half_open" \/ b.failures + 1 >= Threshold
                 THEN "open" ELSE b.state,
     failures |-> Minimum(Threshold, b.failures + 1)]

-----------------------------------------------------------------------------
(* rate_limit.py.  _refill runs whenever a bucket is used; adding the      *)
(* tokens when the time has passed gives the same remaining.               *)

OperationBucketRefill(p, b) ==
    /\ refills[p][b] < MaxRefills[p][b]
    /\ tokens' = [tokens EXCEPT ![p][b] = Minimum(Capacity[b], @ + 1)]
    /\ refills' = [refills EXCEPT ![p][b] = @ + 1]
    /\ UNCHANGED <<reserve, succeeded, breaker, tokenVars, quotes, call>>

\* Tier 1: the global REST gate lets the call pass.
GlobalPasses(c) == call[c].skip \/ tokens[Owner[c]]["global"] > 0

\* Tier 1.5: _refill_held_sell_reserve measures the time since an instant it
\* has just set to now, so it adds nothing: the reserve only shrinks.
FromReserve(c) ==
    call[c].held /\ call[c].bucket = "order" /\ reserve[Owner[c]] > 0

\* What consume_or_raise leaves of the buckets when it does not raise.
Consumed(c) ==
    LET f == call[c]
        Paid(b) == \/ b = "global" /\ ~f.skip
                   \/ b = f.bucket /\ ~FromReserve(c)
    IN  [b \in Bucket |-> IF Paid(b) THEN tokens[Owner[c]][b] - 1
                                     ELSE tokens[Owner[c]][b]]

\* Mutant: release forgets the capacity.
ReleasedUncapped(c, t) ==
    LET f == call[c]
        Back(b) == b = f.bucket \/ (b = "global" /\ ~f.skip)
    IN  [b \in Bucket |-> IF Back(b) THEN t[b] + 1 ELSE t[b]]

\* The finally clause of _request: one token of the operation's bucket and,
\* unless skip_global_rest, one global token.  What came from the reserve is
\* given to the ORDER bucket too.
Released(c, t) ==
    LET f == call[c]
        Back(b) == b = f.bucket \/ (b = "global" /\ ~f.skip)
    IN  [b \in Bucket |-> IF Back(b) THEN Minimum(Capacity[b], t[b] + 1) ELSE t[b]]

-----------------------------------------------------------------------------
(* The operations and the requests they are made of.                       *)

BucketOf(op, leg) ==
    CASE op \in {"buy", "sell"} -> "order"
      [] op = "quote" -> "market_data"
      [] op = "resolve" /\ leg = 1 -> "reconciliation"
      [] OTHER -> "inquiry"

\* A call of _request.
NewRequest(f) ==
    [f EXCEPT !.pc = "budget",
              !.bucket = BucketOf(f.op, f.leg),
              !.skip = f.fallback, !.result = "none"]

\* The frame of an operation that has returned to its caller.
Ended(f, why) ==
    [Idle EXCEPT !.pc = "ended", !.op = f.op, !.result = why,
                 !.executed = f.executed]

MayStart(c) ==
    /\ call[c].pc = "idle"
    /\ Cardinality({d \in Call : call[d].pc # "idle"}) < MaxCalls

\* The caller enters the operation: a quote within its TTL answers at once, the
\* inquiry of the balance first waits for budget, and that of the orderable cash
\* where the caller has given a fallback.
Start(c, op) ==
    /\ MayStart(c) /\ op \in Work[c]
    /\ LET f == [call[c] EXCEPT !.op = op]
       IN  \/ /\ op \in {"cash", "orderable"}
              /\ call' = [call EXCEPT ![c] = [f EXCEPT !.pc = "precheck"]]
           \/ /\ op # "cash"
              /\ call' = [call EXCEPT ![c] = NewRequest(f)]
    /\ UNCHANGED <<budgetVars, breaker, tokenVars, quotes>>

StartFromCache(c) ==
    /\ MayStart(c) /\ "quote" \in Work[c] /\ quotes[Owner[c]]
    /\ call' = [call EXCEPT ![c] = Ended([@ EXCEPT !.op = "quote"], "ok")]
    /\ UNCHANGED <<budgetVars, breaker, tokenVars, quotes>>

\* _has_budget_for_inquiry
HasBudget(p) == tokens[p]["inquiry"] > 0 /\ tokens[p]["global"] > 0

\* _wait_for_inquiry_budget: budget is there, or the wait gives up and the
\* operation answers without a request.
Precheck(c) ==
    /\ call[c].pc = "precheck"
    /\ call' = [call EXCEPT ![c] =
          IF HasBudget(Owner[c]) THEN NewRequest(@)
          ELSE Ended(@, "empty")]
    /\ UNCHANGED <<budgetVars, breaker, tokenVars, quotes>>

-----------------------------------------------------------------------------
(* _request: budget and breaker.                                           *)

\* The frame of a request that has returned or raised.
Return(f, why) ==
    [f EXCEPT !.pc = "returned", !.result = why, !.paid = "no", !.skip = FALSE,
              !.waited = FALSE, !.attempt = 0, !.reauth = FALSE,
              !.token = NoToken, !.rejected = NoToken]

\* The request ends without having consumed a token of its bucket.
Unpaid(c, why) == call' = [call EXCEPT ![c] = Return(@, why)]

\* consume_or_raise raises for the global cap: wait for it.
GlobalExhausted(c) ==
    /\ call[c].pc = "budget" /\ ~GlobalPasses(c)
    /\ call' = [call EXCEPT ![c].pc = "wait"]
    /\ UNCHANGED <<budgetVars, breaker, tokenVars, quotes>>

\* wait_until_global_rest_available takes a global token, and the next
\* attempt skips the global cap; or it gives up and raises.
WaitForGlobal(c) ==
    /\ call[c].pc = "wait"
    /\ IF tokens[Owner[c]]["global"] > 0
         THEN /\ tokens' = [tokens EXCEPT ![Owner[c]]["global"] = @ - 1]
              /\ call' = [call EXCEPT ![c].pc = "budget", ![c].skip = TRUE,
                                      ![c].waited = TRUE]
         ELSE Unpaid(c, "global") /\ UNCHANGED tokens
    /\ UNCHANGED <<reserve, refills, succeeded, breaker, tokenVars, quotes>>

\* consume_or_raise raises for the operation's bucket; a global token it has
\* taken itself is rolled back, one taken by waiting is not.
BucketExhausted(c) ==
    /\ call[c].pc = "budget" /\ GlobalPasses(c)
    /\ ~FromReserve(c) /\ tokens[Owner[c]][call[c].bucket] = 0
    /\ Unpaid(c, "exhausted")
    /\ UNCHANGED <<budgetVars, breaker, tokenVars, quotes>>

\* consume_or_raise succeeds and the breaker is consulted before anything is
\* awaited: OPEN gives the tokens back and raises.
Consume(c, elapsed) ==
    LET p == Owner[c]
        b == CheckTimeout(breaker[p], elapsed)
    IN  /\ call[c].pc = "budget" /\ GlobalPasses(c)
        /\ FromReserve(c) \/ tokens[p][call[c].bucket] > 0
        /\ reserve' = [reserve EXCEPT ![p] = IF FromReserve(c) THEN @ - 1 ELSE @]
        /\ breaker' = [breaker EXCEPT ![p] = b]
        /\ IF b.state = "open"
             THEN /\ tokens' = [tokens EXCEPT ![p] = Released(c, Consumed(c))]
                  /\ Unpaid(c, "open")
             ELSE /\ tokens' = [tokens EXCEPT ![p] = Consumed(c)]
                  /\ call' = [call EXCEPT ![c].pc = "auth",
                         ![c].paid = IF FromReserve(c) THEN "reserve" ELSE "bucket"]
        /\ UNCHANGED <<refills, succeeded, tokenVars, quotes>>

\* The request raises after the budget was consumed.
Fail(c, why) ==
    /\ tokens' = [tokens EXCEPT ![Owner[c]] = Released(c, tokens[Owner[c]])]
    /\ call' = [call EXCEPT ![c] = Return(@, why)]
    /\ UNCHANGED <<reserve, refills, succeeded, quotes>>

-----------------------------------------------------------------------------
(* authenticate and token_cache.py.                                        *)

\* Under the lock: a token in memory that has not expired, or, if there is
\* none in memory, one in the file.
AuthFromCache(c) ==
    LET p == Owner[c]
        t == IF access[p] # NoToken THEN access[p] ELSE file
    IN  /\ call[c].pc = "auth" /\ lock[p] = NoCall /\ t \in Token
        /\ access' = [access EXCEPT ![p] = t]
        /\ call' = [call EXCEPT ![c].pc = "flight", ![c].token = t]
        /\ UNCHANGED <<budgetVars, breaker, lock, file, issued, refused, quotes>>

\* What there is has expired, or there is nothing: keep the lock and ask KIS.
\* A file that does not parse is deleted.
AuthMiss(c) ==
    LET p == Owner[c]
    IN  /\ call[c].pc = "auth" /\ lock[p] = NoCall
        /\ file' = IF access[p] = NoToken /\ file = Garbled THEN Missing ELSE file
        /\ lock' = [lock EXCEPT ![p] = c]
        /\ call' = [call EXCEPT ![c].pc = "issue"]
        /\ UNCHANGED <<budgetVars, breaker, access, issued, refused, quotes>>

\* The answer of /oauth2/tokenP: its token is stored in memory, and write_text
\* has truncated the file.  Where KIS repeats the token of the answer before, it
\* refuses this one if it refuses that one.
Issue(c) ==
    /\ call[c].pc = "issue" /\ issued < MaxTokens
    /\ issued' = issued + 1
    /\ access' = [access EXCEPT ![Owner[c]] = issued + 1]
    /\ file' = Garbled
    /\ call' = [call EXCEPT ![c].pc = "saving", ![c].token = issued + 1]
    /\ \/ UNCHANGED refused
       \/ issued \in refused /\ refused' = refused \cup {issued + 1}
    /\ UNCHANGED <<budgetVars, breaker, lock, quotes>>

\* The text reaches the file, unless a reader has deleted it meanwhile; over
\* the text of another writer it may leave a tail.  The lock is released.
Save(c) ==
    /\ call[c].pc = "saving"
    /\ file' \in CASE file = Missing -> {Missing}
                   [] file = Garbled -> {call[c].token}
                   [] OTHER -> {call[c].token, Garbled}
    /\ lock' = [lock EXCEPT ![Owner[c]] = NoCall]
    /\ call' = [call EXCEPT ![c].pc = "flight"]
    /\ UNCHANGED <<budgetVars, breaker, access, issued, refused, quotes>>

\* Mutant: the lock outlives the exception.
IssueFailsLocked(c) ==
    /\ call[c].pc = "issue"
    /\ Fail(c, "error")
    /\ UNCHANGED <<breaker, tokenVars>>

\* KIS refuses or does not answer; the exception leaves the lock.
IssueFails(c) ==
    /\ call[c].pc = "issue"
    /\ Fail(c, "error")
    /\ lock' = [lock EXCEPT ![Owner[c]] = NoCall]
    /\ UNCHANGED <<breaker, access, file, issued, refused>>

\* Mutant: only the token in memory is forgotten.
InvalidateMemory(p) ==
    /\ access' = [access EXCEPT ![p] = NoToken]
    /\ UNCHANGED file

\* _invalidate_token_cache: memory and file, whatever token they hold now.
InvalidateTokenCache(p) ==
    /\ access' = [access EXCEPT ![p] = NoToken]
    /\ file' = Missing

-----------------------------------------------------------------------------
(* _request: the HTTP exchange.                                            *)

\* KIS executes an order request zero or one times per transmission.
Executions(c) ==
    IF call[c].bucket = "order"
      THEN {call[c].executed, call[c].executed + 1} ELSE {0}

\* No answer in time: sent again, up to MAX_RETRIES times, whatever the
\* bucket; the last timeout counts as a failure.
Timeout(c) ==
    LET f == call[c]
    IN  /\ f.pc = "flight" /\ ~f.reauth
        /\ \E n \in Executions(c) :
              IF f.attempt < MaxRetries
                THEN /\ call' = [call EXCEPT ![c].attempt = @ + 1,
                                             ![c].executed = n]
                     /\ UNCHANGED <<budgetVars, breaker, quotes>>
                ELSE /\ tokens' = [tokens EXCEPT ![Owner[c]] =
                                     Released(c, tokens[Owner[c]])]
                     /\ breaker' = [breaker EXCEPT ![Owner[c]] = OnFailure(@)]
                     /\ call' = [call EXCEPT ![c] =
                           [Return(f, "timeout") EXCEPT !.executed = n]]
                     /\ UNCHANGED <<reserve, refills, succeeded, quotes>>
        /\ UNCHANGED tokenVars

\* A timeout of the request after a reauth is not counted and not repeated.
ReauthTimeout(c) ==
    /\ call[c].pc = "flight" /\ call[c].reauth
    /\ Fail(c, "timeout")
    /\ UNCHANGED <<breaker, tokenVars>>

\* httpx.RequestError: counted, raised, never repeated.
NetworkError(c) ==
    /\ call[c].pc = "flight"
    /\ \E n \in Executions(c) :
          call' = [call EXCEPT ![c] = [Return(@, "error") EXCEPT !.executed = n]]
    /\ tokens' = [tokens EXCEPT ![Owner[c]] = Released(c, tokens[Owner[c]])]
    /\ breaker' = [breaker EXCEPT ![Owner[c]] = OnFailure(@)]
    /\ UNCHANGED <<reserve, refills, succeeded, tokenVars, quotes>>

\* _raise_on_error finds a business error; the breaker does not see it.
Refused(c, why) ==
    /\ call[c].pc = "flight" /\ call[c].token \notin refused
    /\ Fail(c, why)
    /\ UNCHANGED <<breaker, tokenVars>>

\* Buckets whose requests may be repeated after a reauthentication.
ReadOnly == {"inquiry", "market_data", "reconciliation"}

\* KIS calls the token expired, and from then on every request with it: a
\* read-only request invalidates the cache and authenticates again, once; any
\* other request raises.
Expired(c) ==
    LET f == call[c]
    IN  /\ f.pc = "flight"
        /\ refused' = refused \cup {f.token}
        /\ IF f.bucket \in ReadOnly /\ ~f.reauth
             THEN /\ InvalidateTokenCache(Owner[c])
                  /\ call' = [call EXCEPT ![c].pc = "auth", ![c].reauth = TRUE,
                                          ![c].rejected = f.token]
                  /\ UNCHANGED <<budgetVars, quotes>>
             ELSE /\ Fail(c, "expired")
                  /\ UNCHANGED <<access, file>>
        /\ UNCHANGED <<breaker, lock, issued>>

\* Mutant: the finally clause releases after a success too.
SucceedReleasing(c) ==
    LET p == Owner[c]
        f == call[c]
        Kept(b) == b = f.bucket \/ (b = "global" /\ (f.waited \/ ~f.skip))
    IN  /\ f.pc = "flight" /\ f.token \notin refused
        /\ tokens' = [tokens EXCEPT ![p] = Released(c, tokens[p])]
        /\ succeeded' = [succeeded EXCEPT ![p] =
              [b \in Bucket |-> IF Kept(b) THEN @[b] + 1 ELSE @[b]]]
        /\ breaker' = [breaker EXCEPT ![p] = OnSuccess(@)]
        /\ quotes' = quotes
        /\ call' = [call EXCEPT ![c] = Return(f, "ok")]
        /\ UNCHANGED <<reserve, refills, tokenVars>>

\* The answer is good: the breaker sees a success and the tokens stay spent.
Succeed(c) ==
    LET p == Owner[c]
        f == call[c]
        Kept(b) == b = f.bucket \/ (b = "global" /\ (f.waited \/ ~f.skip))
    IN  /\ f.pc = "flight" /\ f.token \notin refused
        /\ succeeded' = [succeeded EXCEPT ![p] =
              [b \in Bucket |-> IF Kept(b) THEN @[b] + 1 ELSE @[b]]]
        /\ breaker' = [breaker EXCEPT ![p] = OnSuccess(@)]
        /\ quotes' = [quotes EXCEPT ![p] = @ \/ f.op = "quote"]
        /\ call' = [call EXCEPT ![c] = [Return(f, "ok") EXCEPT
              !.executed = IF f.bucket = "order" THEN @ + 1 ELSE @]]
        /\ UNCHANGED <<tokens, reserve, refills, tokenVars>>

-----------------------------------------------------------------------------
(* What the operations do with the outcome of a request.                   *)

\* BudgetExhaustedError
Exhausted(f) == f.result \in {"exhausted", "global"}

\* The operation repeats its request: a read that met a rate limit or an
\* exhausted bucket, or a page to come.
Repeats(f) ==
    \/ f.op = "status" /\ f.result = "rate_limit" /\ f.retry < 1
    \/ f.op = "cash" /\ Paper /\ f.result \in {"rate_limit", "exhausted"} /\ f.retry < 1
    \/ f.op = "quote" /\ Exhausted(f) /\ f.retry < 2

Repeat(c) ==
    LET f == call[c]
    IN  /\ f.pc = "returned" /\ Repeats(f)
        /\ call' = [call EXCEPT ![c] =
              NewRequest([f EXCEPT !.retry = @ + 1, !.page = 1])]
        /\ UNCHANGED <<budgetVars, breaker, tokenVars, quotes>>

\* get_quotes_batch calls get_quote again, which may find the quote cached by now.
RepeatFromCache(c) ==
    LET f == call[c]
    IN  /\ f.pc = "returned" /\ Repeats(f)
        /\ f.op = "quote" /\ quotes[Owner[c]]
        /\ call' = [call EXCEPT ![c] = Ended(f, "ok")]
        /\ UNCHANGED <<budgetVars, breaker, tokenVars, quotes>>

\* Continuation keys lead to the next page.
NextPage(c) ==
    LET f == call[c]
    IN  /\ f.pc = "returned" /\ f.result = "ok" /\ f.page < MaxPages[f.op]
        /\ f.op \in {"status", "cash"} \/ (f.op = "resolve" /\ f.leg = 1)
        /\ call' = [call EXCEPT ![c] = NewRequest([f EXCEPT !.page = @ + 1])]
        /\ UNCHANGED <<budgetVars, breaker, tokenVars, quotes>>

\* The adapter repeats a held-position sell in the reserved lane.
ReservedLane(c) ==
    LET f == call[c]
    IN  /\ f.pc = "returned" /\ f.op = "sell" /\ f.leg = 1 /\ Exhausted(f)
        /\ call' = [call EXCEPT ![c] =
              NewRequest([f EXCEPT !.leg = 2, !.held = TRUE])]
        /\ UNCHANGED <<budgetVars, breaker, tokenVars, quotes>>

\* resolve_unknown_state and _request_with_fallback: take a token of the
\* reconciliation reserve and try again without the global cap.
ReserveReconciliation(c) ==
    LET f == call[c]
        p == Owner[c]
    IN  /\ f.pc = "returned" /\ f.op = "resolve" /\ Exhausted(f) /\ ~f.fallback
        /\ tokens[p]["reconciliation"] > 0
        /\ tokens' = [tokens EXCEPT ![p]["reconciliation"] = @ - 1]
        /\ call' = [call EXCEPT ![c] =
              NewRequest([f EXCEPT !.fallback = TRUE, !.page = 1])]
        /\ UNCHANGED <<reserve, refills, succeeded, breaker, tokenVars, quotes>>

\* The order is not among the records: look at the positions.
AskPositions(c) ==
    LET f == call[c]
    IN  /\ f.pc = "returned" /\ f.op = "resolve" /\ f.leg = 1 /\ f.result = "ok"
        /\ call' = [call EXCEPT ![c] =
              NewRequest([f EXCEPT !.leg = 2, !.fallback = FALSE, !.page = 1])]
        /\ UNCHANGED <<budgetVars, breaker, tokenVars, quotes>>

\* What the caller of the operation gets.  The adapter turns an exhausted
\* held-position sell into a rejection; for any other order the name it
\* formats the message with is unbound and it raises UnboundLocalError.
Outcome(f) ==
    CASE f.op = "buy" /\ Exhausted(f) -> "unbound"
      [] f.op = "sell" /\ Exhausted(f) -> "rejected"
      [] f.op \in {"cash", "orderable", "quote"} /\ f.result # "ok" -> "empty"
      [] f.op = "resolve" /\ f.leg = 2 /\ f.result # "ok" -> "unknown"
      [] OTHER -> f.result

End(c) ==
    LET f == call[c]
    IN  /\ f.pc = "returned" /\ ~Repeats(f)
        /\ ~(f.op = "sell" /\ f.leg = 1 /\ Exhausted(f))
        /\ ~(f.op = "resolve" /\ Exhausted(f) /\ ~f.fallback
             /\ tokens[Owner[c]]["reconciliation"] > 0)
        /\ call' = [call EXCEPT ![c] = Ended(f, Outcome(f))]
        /\ UNCHANGED <<budgetVars, breaker, tokenVars, quotes>>

-----------------------------------------------------------------------------
\* Truncating and writing the file are one stretch for the event loop of the
\* client: no other call of it runs in between.
Runs(c) == \A d \in Call \ {c} : Owner[d] = Owner[c] => call[d].pc # "saving"

Exchange(c) ==
    \/ Timeout(c) \/ ReauthTimeout(c) \/ NetworkError(c) \/ Expired(c) \/ Succeed(c)
    \/ \E why \in {"rate_limit", "error"} : Refused(c, why)

Step(c) ==
    /\ Runs(c)
    /\ \/ Precheck(c)
       \/ GlobalExhausted(c) \/ WaitForGlobal(c) \/ BucketExhausted(c)
       \/ \E elapsed \in BOOLEAN : Consume(c, elapsed)
       \/ AuthFromCache(c) \/ AuthMiss(c) \/ Issue(c) \/ Save(c) \/ IssueFails(c)
       \/ Exchange(c)
       \/ Repeat(c) \/ RepeatFromCache(c) \/ NextPage(c) \/ ReservedLane(c)
       \/ ReserveReconciliation(c) \/ AskPositions(c) \/ End(c)

\* Nothing is left to do: every other state has a successor, which TLC checks
\* by looking for deadlocks.
Rest == (\A c \in Call : call[c].pc \in {"idle", "ended"}) /\ UNCHANGED vars

Next ==
    \/ \E c \in Call : Runs(c) /\ (StartFromCache(c) \/ \E op \in Operation : Start(c, op))
    \/ \E c \in Call : Step(c)
    \/ \E p \in Client, b \in Bucket : OperationBucketRefill(p, b)
    \/ Rest

Spec == Init /\ [][Next]_vars

-----------------------------------------------------------------------------
(* Properties.                                                             *)

TypeOK ==
    /\ tokens \in [Client -> [Bucket -> Nat]]
    /\ \A p \in Client, b \in Bucket : tokens[p][b] <= Capacity[b]
    /\ reserve \in [Client -> 0..ReserveCapacity]
    /\ refills \in [Client -> [Bucket -> Nat]]
    /\ succeeded \in [Client -> [Bucket -> Nat]]
    /\ breaker \in [Client -> [state : {"closed", "half_open", "open"},
                               failures : 0..Threshold]]
    /\ access \in [Client -> 0..MaxTokens]
    /\ lock \in [Client -> Call \cup {NoCall}]
    /\ file \in -1..MaxTokens
    /\ issued \in 0..MaxTokens
    /\ refused \subseteq Token
    /\ quotes \in [Client -> BOOLEAN]
    /\ call \in [Call -> Frame]

\* Requests of client p that hold a token of bucket b and may give it back.
InFlight(p, b) ==
    {c \in Call : /\ Owner[c] = p
                  /\ IF b = "global"
                       THEN call[c].waited \/ (call[c].paid # "no" /\ ~call[c].skip)
                       ELSE call[c].paid # "no" /\ call[c].bucket = b}

\* Every successful request has kept a token: what the bucket still has, what
\* the requests in flight may give back and what the successful ones have
\* kept is never more than the capacity (for orders with the reserve) and the
\* refills, however consume_or_raise, the waits, the breaker and the finally
\* clause of _request interleave.
SuccessIsPaidFor ==
    \A p \in Client, b \in Bucket :
        tokens[p][b] + Cardinality(InFlight(p, b)) + succeeded[p][b]
            + (IF b = "order" THEN reserve[p] ELSE 0)
        <= Capacity[b] + refills[p][b] + (IF b = "order" THEN ReserveCapacity ELSE 0)

\* The request that follows a reauthentication does not find the token it was
\* refused with in the memory or the file again: its token came with another
\* answer of /oauth2/tokenP, whatever the other calls and the other processes do
\* to the memory and to the file in between.  (That answer may repeat the string
\* of the refused one; then KIS refuses it once more and the request raises.)
RefusedIsForgotten ==
    \A c \in Call :
        call[c].reauth /\ call[c].pc = "flight" => call[c].token # call[c].rejected

\* Only one call of a client asks /oauth2/tokenP at a time, it holds the lock,
\* and the token a client keeps was issued by KIS.
SingleFlight ==
    /\ \A c, d \in Call :
          /\ call[c].pc \in {"issue", "saving"} => lock[Owner[c]] = c
          /\ lock[Owner[c]] = d => call[d].pc \in {"issue", "saving"}
    /\ \A p \in Client : access[p] <= issued

\* Below the threshold: a CLOSED breaker has seen fewer consecutive failures
\* than failure_threshold, also after late answers of calls that started
\* before it opened.
ClosedIsHealthy ==
    \A p \in Client : breaker[p].state = "closed" => breaker[p].failures < Threshold

\* docs/01_architecture_milestones/02.mvp_milestone1_implementation_plan.md:217,
\* no automatic retry of a submission (rest_client.py:1056 names the risk of a
\* double order): KIS executes the order of a call of submit_order at most once.
OrderSentOnce == \A c \in Call : call[c].executed <= 1
=============================================================================
