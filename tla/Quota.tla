------------------------------- MODULE Quota -------------------------------
(***************************************************************************)
(* What one tenant may use of the gateway: TenantLimits of                 *)
(* llmkit/gateway.py, with its two token buckets and its hourly budget, as *)
(* handle() and forward() of projects/13-ai-gateway/gateway.py use it.     *)
(*                                                                         *)
(* Time is counted in ticks, rates in whole units per tick, and a token    *)
(* costs a dollar.  A request is charged an estimate, its words plus the   *)
(* max_tokens its client asks for, which nothing keeps above zero.  A      *)
(* stream's slot is released when its response object is returned, before  *)
(* its usage is known; a stream whose body never starts is never settled.  *)
(* X_Y is a wrong variant of X, unused by the model.                       *)
(***************************************************************************)
EXTENDS Integers, FiniteSets

CONSTANTS
  Metered,                     \* the requests that may be in the air at once
  Estimates, Actuals,          \* tokens a request is charged at admission, and uses
  MaxSlots, BudgetPerHour, Hour,
  ReqRate, ReqBurst,           \* rpm / 60, burst_requests
  TokRate, TokBurst,           \* tpm / 60, burst_tokens
  Horizon, MaxRequests         \* bounds: ticks, admissions

ASSUME QuotaAssumption ==
  /\ IsFiniteSet(Metered)
  /\ Estimates \subseteq Int
  /\ Actuals \subseteq Nat /\ Actuals # {}
  /\ {MaxSlots, Hour, ReqBurst, TokBurst} \subseteq Nat \ {0}
  /\ {BudgetPerHour, ReqRate, TokRate, Horizon, MaxRequests} \subseteq Nat

VARIABLES
  now,
  req, tok,                    \* TenantLimits._req, _tok: [tokens, last]
  slots, spent_usd, window_start,   \* TenantLimits.inflight is slots
  meter, est,                  \* of each request: its stage, its estimate
  longest,                     \* the longest output of this run
  admissions, used,            \* history: requests admitted, their tokens (an estimate
                               \* until they are settled); tokens let pass by the
  forgiven, minted             \* bucket's floor, and by estimates never taken back

bucketVars == <<req, tok>>
limitVars == <<slots, spent_usd, window_start>>
history == <<admissions, used, forgiven, minted>>
quotaVars == <<now, bucketVars, limitVars, meter, est, longest, history>>

Lesser(x, y) == IF x <= y THEN x ELSE y
Larger(x, y) == IF x >= y THEN x ELSE y

-----------------------------------------------------------------------------
\* TokenBucket._refill
Refill(b, rate, capacity) ==
  [tokens |-> Lesser(capacity, b.tokens + (now - b.last) * rate), last |-> now]

Debit(b, n) == [b EXCEPT !.tokens = @ - n]

\* check's refund of the request bucket, without a refill
Refund_Twice(b) == [b EXCEPT !.tokens = Lesser(ReqBurst, @ + 2)]
Refund(b) == [b EXCEPT !.tokens = Lesser(ReqBurst, @ + 1)]

\* The hourly window, reset by the first check after it.
Rolled == now - window_start >= Hour
Spent == IF Rolled THEN 0 ELSE spent_usd

\* handle up to the attempt loop: check, inflight += 1.
Check(r) ==
  /\ meter[r] = "new" /\ admissions < MaxRequests
  /\ \E n \in Estimates :
       LET rq == Refill(req, ReqRate, ReqBurst)
           tk == Refill(tok, TokRate, TokBurst)
           busy == slots >= MaxSlots
           broke == ~busy /\ Spent >= BudgetPerHour
           checked == ~busy /\ ~broke
           hasReq == rq.tokens >= 1
           hasTok == tk.tokens >= n
           ok == checked /\ hasReq /\ hasTok
       IN /\ req' = IF ~checked THEN req
                    ELSE IF ~hasReq THEN rq
                    ELSE IF hasTok THEN Debit(rq, 1) ELSE Refund(Debit(rq, 1))
          /\ tok' = IF ~checked \/ ~hasReq THEN tok
                    ELSE IF hasTok THEN Debit(tk, n) ELSE tk
          /\ spent_usd' = IF busy THEN spent_usd ELSE Spent
          /\ window_start' = IF ~busy /\ Rolled THEN now ELSE window_start
          /\ slots' = slots + (IF ok THEN 1 ELSE 0)
          /\ meter' = [meter EXCEPT ![r] = IF ok THEN "admitted" ELSE "new"]
          /\ est' = [est EXCEPT ![r] = IF ok THEN n ELSE 0]
          /\ admissions' = admissions + (IF ok THEN 1 ELSE 0)
          /\ used' = used + (IF ok THEN n ELSE 0)
  /\ UNCHANGED <<now, longest, forgiven, minted>>

\* What an estimate below zero put into the bucket.
Gift(r) == Larger(0, -est[r])

\* TenantLimits.settle, and a request that never gets to it.  A gift that is
\* not taken back was used.
Settled_FloorZero(b, delta) == [b EXCEPT !.tokens = Larger(Lesser(TokBurst, @ - delta), 0)]
Settled(b, delta) ==
  [b EXCEPT !.tokens = IF delta > 0 THEN Larger(@ - delta, -TokBurst)
                       ELSE Lesser(TokBurst, @ - delta)]
settle(delta, usd, gift) ==
  /\ tok' = Settled(tok, delta)
  /\ spent_usd' = spent_usd + usd
  /\ used' = used + delta + gift /\ minted' = minted + gift
  /\ forgiven' = forgiven + Larger(0, delta - tok.tokens - TokBurst)
Unsettled(gift) ==
  /\ used' = used + gift /\ minted' = minted + gift
  /\ UNCHANGED <<tok, spent_usd, forgiven>>

Outputs == {n \in Actuals : n <= longest}

\* A plain response settles and gives its slot back in one turn, for what its
\* backend says it used, or for the estimate when that says nothing; a request
\* that failed everywhere only gives the slot back.
SettlePlain(r) ==
  /\ meter[r] = "admitted"
  /\ \/ \E n \in Outputs : IF n = 0 THEN settle(0, 0, Gift(r)) ELSE settle(n - est[r], n, 0)
     \/ Unsettled(Gift(r))
  /\ slots' = slots - 1
  /\ meter' = [meter EXCEPT ![r] = "new"] /\ est' = [est EXCEPT ![r] = 0]
  /\ UNCHANGED <<now, req, window_start, longest, admissions>>

\* A stream gives its slot back first, and settles when its body ends, if the
\* server ever starts it: for its estimate and its output on top.
ReleaseStream(r) ==
  /\ meter[r] = "admitted"
  /\ slots' = slots - 1
  /\ meter' = [meter EXCEPT ![r] = "streaming"]
  /\ UNCHANGED <<now, bucketVars, spent_usd, window_start, est, longest, history>>
SettleStream(r) ==
  /\ meter[r] = "streaming"
  /\ (\E n \in Outputs : settle(n, est[r] + n, Gift(r))) \/ Unsettled(Gift(r))
  /\ meter' = [meter EXCEPT ![r] = "new"] /\ est' = [est EXCEPT ![r] = 0]
  /\ UNCHANGED <<now, req, slots, window_start, longest, admissions>>

QuotaTick ==
  /\ now < Horizon
  /\ now' = now + 1
  /\ UNCHANGED <<bucketVars, limitVars, meter, est, longest, history>>

QuotaInit ==
  /\ now = 0
  /\ req = [tokens |-> ReqBurst, last |-> 0] /\ tok = [tokens |-> TokBurst, last |-> 0]
  /\ slots = 0 /\ spent_usd = 0 /\ window_start = 0
  /\ meter = [r \in Metered |-> "new"] /\ est = [r \in Metered |-> 0]
  /\ longest \in Actuals
  /\ admissions = 0 /\ used = 0 /\ forgiven = 0 /\ minted = 0

QuotaNext ==
  \/ \E r \in Metered : Check(r) \/ SettlePlain(r) \/ ReleaseStream(r) \/ SettleStream(r)
  \/ QuotaTick

QuotaSpec == QuotaInit /\ [][QuotaNext]_quotaVars

-----------------------------------------------------------------------------
\* The clock, the buckets and the counters have their types.  The bucket of
\* tokens may hold more than its burst: an estimate below zero is debited too.
QuotaTypeOK ==
  /\ now \in 0..Horizon
  /\ req.tokens \in 0..ReqBurst /\ tok.tokens \in Int /\ tok.tokens >= -TokBurst
  /\ {req.last, tok.last, window_start} \subseteq 0..now
  /\ slots \in 0..MaxSlots /\ spent_usd \in Int
  /\ meter \in [Metered -> {"new", "admitted", "streaming"}] /\ est \in [Metered -> Int]
  /\ longest \in Actuals
  /\ admissions \in Nat /\ used \in Int /\ {forgiven, minted} \subseteq Nat

\* The rate the tenant bought bounds the requests it gets over any run: refusals
\* with their refunds, idle time and late settlements mint none.
RequestQuota == admissions + req.tokens <= ReqBurst + ReqRate * req.last

\* The tokens it uses exceed what it bought by what the floor of the bucket let
\* pass ("settling keeps the bucket honest" only down to there) and by what
\* negative estimates put in and no settlement took out, and by nothing else ...
TokenQuota == used + tok.tokens <= TokBurst + TokRate * tok.last + forgiven + minted

\* ... and the floor lets nothing pass while the burst covers what all requests
\* in the air, streams included, may overrun their estimates by.  Nothing is
\* minted unless an estimate may be below zero.
BurstCovers(overrun) ==
  /\ longest <= overrun /\ \A e \in Estimates : longest - e <= overrun
  /\ Cardinality(Metered) * overrun <= TokBurst
OverrunsArePaid ==
  /\ (\E overrun \in 0..TokBurst : BurstCovers(overrun)) => forgiven = 0
  /\ Estimates \subseteq Nat => minted = 0

\* The slots taken are the requests inside handle(), streams not among them.
SlotsExact == slots = Cardinality({r \in Metered : meter[r] = "admitted"})

\* What a tenant gets is accounted for: the requests handle() has in hand, the
\* requests it was let make, and the tokens they used.
QuotaKept ==
  QuotaTypeOK /\ SlotsExact /\ RequestQuota /\ TokenQuota /\ OverrunsArePaid
=============================================================================
