----------------------------- MODULE Resilience -----------------------------
(***************************************************************************)
(* When the gateway retries and what it answers when nothing works: the    *)
(* RetryBudget of llmkit/gateway.py and the response cache, in the order   *)
(* handle() of projects/13-ai-gateway/gateway.py uses them.  Which backend *)
(* an attempt goes to is Gateway's matter.  Time is counted in ticks.      *)
(* At the end, on its own: hedged_call, the other answer to a backend that *)
(* is slow.                                                                *)
(* X_Y is a wrong variant of X, unused by the model.                       *)
(***************************************************************************)
EXTENDS Queues, SequencesExt

CONSTANTS
  Calls, KeyMaps,              \* requests, and which prompts (prefix keys) they may have
  Streamed,                    \* the calls with "stream": true
  Attempts,
  RetryPercent, RetryWindow, MinRetries,   \* ratio, window_s, min_per_s * window_s
  MaxCached, Evicted,          \* 2000 and 500
  TTL,                         \* cached_response_max_age_s
  MaxTime                      \* bound: ticks

ASSUME ResilienceAssumption ==
  /\ KeyMaps # {} /\ {Attempts, RetryWindow, Evicted} \subseteq Nat \ {0}
  /\ {RetryPercent, MinRetries, MaxCached, TTL, MaxTime} \subseteq Nat

VARIABLES
  key_of,                      \* of each request
  time,
  requests, retries,           \* RetryBudget: times still in its window
  cache,                       \* response_cache in insertion order: [key, at]
  call, tries,                 \* of each request: its stage, handle's attempt
  arrived, retried,            \* history: times of every request and every retry
  answered_at, evicted         \* history: when each key last had a plain answer,
                               \* whether the cache ever lost insertions

budgetVars == <<requests, retries, arrived, retried>>
resilienceVars == <<key_of, time, budgetVars, cache, call, tries, answered_at, evicted>>

Keys == UNION {{m[c] : c \in Calls} : m \in KeyMaps}
Never == -1

\* _trim: entries as old as the window still count.
Since(t) == {u \in Int : u >= t}
Trim(q) == Those(q, Since(time - RetryWindow))

\* record_request, and the first attempt.
Arrive(c) ==
  /\ call[c] = "new"
  /\ requests' = Trim(Append(requests, time)) /\ retries' = Trim(retries)
  /\ arrived' = Append(arrived, time)
  /\ call' = [call EXCEPT ![c] = "trying"]
  /\ UNCHANGED <<time, cache, tries, retried, answered_at, evicted>>

IndexOf(k) == SelectInSeq(cache, LAMBDA e : e.key = k)

\* _cache_put: a full cache loses its oldest insertions; a key that is cached
\* already keeps its place.
CachePut_KeepsOld(k) == IF IndexOf(k) # 0 THEN cache ELSE Append(cache, [key |-> k, at |-> time])
CachePut(k) ==
  LET kept == IF Len(cache) > MaxCached THEN SubSeq(cache, Evicted + 1, Len(cache)) ELSE cache
      i == SelectInSeq(kept, LAMBDA e : e.key = k)
      entry == [key |-> k, at |-> time]
  IN IF i = 0 THEN Append(kept, entry) ELSE [kept EXCEPT ![i] = entry]

\* A backend answers in one piece, which forward caches.
Succeed(c) ==
  /\ call[c] = "trying" /\ c \notin Streamed
  /\ call' = [call EXCEPT ![c] = "answered"]
  /\ cache' = CachePut(key_of[c])
  /\ answered_at' = [answered_at EXCEPT ![key_of[c]] = time]
  /\ evicted' = (evicted \/ Len(cache) > MaxCached)
  /\ UNCHANGED <<time, budgetVars, tries>>

\* Nothing is cached of a stream, nor of a body that is not JSON, on which
\* handle() raises.
SucceedUncached(c) ==
  /\ call[c] = "trying"
  /\ call' = [call EXCEPT ![c] = IF c \in Streamed THEN "answered" ELSE "raised"]
  /\ UNCHANGED <<time, budgetVars, cache, tries, answered_at, evicted>>

\* The last resort: a cached answer not older than the TTL, or a 503.
Degrade(c) ==
  LET i == IndexOf(key_of[c])
      stale == i # 0 /\ time - cache[i].at > TTL
  IN /\ cache' = IF stale THEN RemoveAt(cache, i) ELSE cache
     /\ call' = [call EXCEPT ![c] = IF i = 0 \/ stale THEN "failed" ELSE "cached"]

\* try_retry: more requests allow more retries, above a constant trickle.
Allowed_Requests == Len(retries) * 100 < Len(requests) * RetryPercent + MinRetries * 100
Allowed ==
  LET r == Len(Trim(retries)) * 100
  IN r < Len(Trim(requests)) * RetryPercent \/ r < MinRetries * 100

\* An attempt fails: retry if attempts and the budget allow it.
Fail(c) ==
  /\ call[c] = "trying"
  /\ IF tries[c] + 1 < Attempts
     THEN /\ requests' = Trim(requests)
          /\ IF Allowed
             THEN /\ retries' = Append(Trim(retries), time)
                  /\ retried' = Append(retried, time)
                  /\ tries' = [tries EXCEPT ![c] = @ + 1]
                  /\ UNCHANGED <<cache, call>>
             ELSE /\ retries' = Trim(retries)
                  /\ Degrade(c)
                  /\ UNCHANGED <<retried, tries>>
     ELSE Degrade(c) /\ UNCHANGED <<requests, retries, retried, tries>>
  /\ UNCHANGED <<time, arrived, answered_at, evicted>>

Pass ==
  /\ time < MaxTime
  /\ time' = time + 1
  /\ UNCHANGED <<budgetVars, cache, call, tries, answered_at, evicted>>

ResilienceInit ==
  /\ key_of \in KeyMaps
  /\ time = 0
  /\ requests = <<>> /\ retries = <<>> /\ cache = <<>> /\ arrived = <<>> /\ retried = <<>>
  /\ call = [c \in Calls |-> "new"] /\ tries = [c \in Calls |-> 0]
  /\ answered_at = [k \in Keys |-> Never] /\ evicted = FALSE

ResilienceNext ==
  /\ (\E c \in Calls : Arrive(c) \/ Succeed(c) \/ SucceedUncached(c) \/ Fail(c)) \/ Pass
  /\ UNCHANGED key_of

ResilienceSpec == ResilienceInit /\ [][ResilienceNext]_resilienceVars

-----------------------------------------------------------------------------
\* "caps retries as a fraction of total traffic over a sliding window": the
\* retries of the last window are covered by the requests of the last two,
\* however the requests and the retries fall into them.
Within(q, span) == Len(Those(q, Since(time - span)))
RetriesScarce ==
  LET retriesNow == Within(retried, RetryWindow)
  IN \/ retriesNow <= MinRetries
     \/ (retriesNow - 1) * 100 < Within(arrived, 2 * RetryWindow) * RetryPercent

\* "ends in something that is not an error": a request, streamed or not, is
\* refused only when its prompt had no answer in one piece for longer than the
\* TTL, as long as the cache never had to evict.
DegradesToCache ==
  [][\A c \in Calls : (call[c] # "failed" /\ call'[c] = "failed" /\ ~evicted) =>
       LET t == answered_at[key_of[c]] IN t = Never \/ time - t > TTL]_resilienceVars

-----------------------------------------------------------------------------
(***************************************************************************)
(* hedged_call of llmkit/gateway.py: a second coroutine is started when    *)
(* the first is slow, and the loser is cancelled.  Tasks run between the   *)
(* awaits of the call, so both may be over when it wakes.                  *)
(***************************************************************************)
VARIABLES stage,               \* where hedged_call awaits
          task,                \* of the primary, 1, and the secondary, 2
          winner               \* whose result it returns, 0 before

hedgeVars == <<stage, task, winner>>
Over == {"ok", "error"}
Live == {"running", "cancelling"}

Start ==
  /\ stage = "start"
  /\ task' = [task EXCEPT ![1] = "running"]
  /\ stage' = "delay"
  /\ UNCHANGED winner

\* A task ends by itself, or of its cancellation.
TaskEnds(p) ==
  /\ task[p] \in Live
  /\ task' = [task EXCEPT ![p] = IF @ = "running" THEN "ok" ELSE "cancelled"]
  /\ UNCHANGED <<stage, winner>>
TaskFails(p) ==
  /\ task[p] \in Live
  /\ task' = [task EXCEPT ![p] = "error"]
  /\ UNCHANGED <<stage, winner>>

\* wait(timeout) returns: the primary is over, or the hedge starts.
Delayed ==
  /\ stage = "delay"
  /\ IF task[1] \in Over
     THEN stage' = "returned" /\ winner' = 1 /\ UNCHANGED task
     ELSE stage' = "race" /\ task' = [task EXCEPT ![2] = "running"] /\ UNCHANGED winner

\* FIRST_COMPLETED: any task that is over wins, the others are cancelled.
CancelLosers_None == task
CancelLosers == [p \in 1..2 |-> IF task[p] = "running" THEN "cancelling" ELSE task[p]]
Raced ==
  /\ stage = "race"
  /\ \E p \in 1..2 : task[p] \in Over /\ winner' = p
  /\ task' = CancelLosers
  /\ stage' = "gather"

\* gather(*pending) waits for the cancelled task to end.
Gathered ==
  /\ stage = "gather" /\ \A p \in 1..2 : task[p] # "cancelling"
  /\ stage' = "returned"
  /\ UNCHANGED <<task, winner>>

\* The caller itself is cancelled: asyncio.wait leaves its tasks alone.
Abandon ==
  /\ stage \in {"delay", "race", "gather"}
  /\ stage' = "abandoned"
  /\ UNCHANGED <<task, winner>>

HedgeInit == stage = "start" /\ task = [p \in 1..2 |-> "none"] /\ winner = 0

HedgeNext ==
  \/ Start \/ Delayed \/ Raced \/ Gathered \/ Abandon
  \/ \E p \in 1..2 : TaskEnds(p) \/ TaskFails(p)

HedgeSpec == HedgeInit /\ [][HedgeNext]_hedgeVars

-----------------------------------------------------------------------------
\* "Cancelling the loser is not optional": a call that returned leaves no task
\* behind, also when both finished in one turn, and its result is a result.
HedgeLeavesNothing ==
  stage = "returned" => /\ \A p \in 1..2 : task[p] \notin Live
                        /\ task[winner] \in Over
=============================================================================
