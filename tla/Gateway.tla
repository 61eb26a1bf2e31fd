------------------------------ MODULE Gateway ------------------------------
(***************************************************************************)
(* The AI gateway: projects/13-ai-gateway/gateway.py on the breakers and   *)
(* the degradation chain of llmkit/gateway.py.                             *)
(*                                                                         *)
(* handle() is a coroutine: an action below is what runs between two of    *)
(* its awaits.  A request is "sent" while it awaits a backend, sleeps in   *)
(* "backoff" before a retry, and is a "stream" once its response has been  *)
(* handed to the server, after handle() itself has returned, then a "body" *)
(* once its first chunk has come.                                          *)
(*                                                                         *)
(* Clocks are counted in ticks.  Token counts, prices and latencies are    *)
(* left out, so the token buckets and the dollar budget may reject any     *)
(* request, the retry budget may refuse any retry, and any backend of the  *)
(* first usable tier may be the least loaded one that meets its SLO.  A    *)
(* cached response and a 503 both end a request; its client may then send  *)
(* the next one.                                                           *)
(* X_Y is a wrong variant of X, unused by the model.                       *)
(***************************************************************************)
EXTENDS Integers, FiniteSets

CONSTANTS
  Requests,              \* the clients, each with at most one request
  Tenants,
  TenantOf,              \* of each request
  Streams,               \* the requests with "stream": true
  MaxConcurrent,         \* of each tenant
  Backends,
  Tier,                  \* of each backend: its index in TIER_ORDER
  Capacity,              \* Backend.max_concurrent
  SelfHosted,            \* the backends health_loop polls
  Keyed,                 \* the backends that need an API key
  MaxAttempts,
  ErrorThreshold, OpenTicks,     \* observe_error's threshold and open_s
  ProbeThreshold,        \* failed probes that open a breaker
  DisableTicks           \* how long /admin/backend/{name}/disable may ask for

NoBackend == "none"

ASSUME GatewayAssumption ==
  /\ IsFiniteSet(Requests) /\ NoBackend \notin Backends
  /\ TenantOf \in [Requests -> Tenants]
  /\ Streams \subseteq Requests
  /\ MaxConcurrent \in [Tenants -> Nat \ {0}]
  /\ Tier \in [Backends -> 1..3]
  /\ Capacity \in [Backends -> Nat \ {0}]
  /\ SelfHosted \subseteq Backends /\ Keyed \subseteq Backends
  /\ MaxAttempts \in Nat \ {0}
  /\ ErrorThreshold \in Nat \ {0} /\ ProbeThreshold \in Nat \ {0}
  /\ OpenTicks \in Nat \ {0} /\ DisableTicks \subseteq Nat

VARIABLES
  keyless,                             \* the backends whose key is not in the environment
  st, at, attempt, tried,              \* per request
  tenant_inflight,                     \* TenantLimits.inflight
  inflight, errors, probe_failures,    \* per backend
  open_for,                            \* how long its breaker stays open
  trip_for                             \* history: the same for the backends not polled,
                                       \* counting what their failures opened only

reqVars == <<st, at, attempt, tried>>
breaker == <<errors, probe_failures, open_for, trip_for>>
gwVars == <<keyless, reqVars, tenant_inflight, inflight, breaker>>

Handled == {"sent", "backoff"}               \* inside handle()
Streaming == {"stream", "body"}
Slotted == {"sent", "lost"} \cup Streaming   \* counted by a backend
Least(x, y) == IF x <= y THEN x ELSE y

-----------------------------------------------------------------------------
\* DegradationChain.candidates(exclude=tried): its first is some backend of the
\* first tier that has one to offer.
available(b) == open_for[b] = 0 /\ inflight[b] < Capacity[b]

Untried(r) == {b \in Backends \ tried[r] : available(b)}

First(r) == {b \in Untried(r) : \A c \in Untried(r) : Tier[b] <= Tier[c]}

-----------------------------------------------------------------------------
observe_success_Closes(b) ==
  /\ errors' = [errors EXCEPT ![b] = 0]
  /\ open_for' = [open_for EXCEPT ![b] = 0]
  /\ UNCHANGED <<probe_failures, trip_for>>
observe_success(b) ==
  /\ errors' = [errors EXCEPT ![b] = 0]
  /\ UNCHANGED <<probe_failures, open_for, trip_for>>

\* At the threshold the breaker opens for OpenTicks from now, whatever was left.
observe_error(b) ==
  LET n == Least(errors[b] + 1, ErrorThreshold)
      Trip(f) == IF n = ErrorThreshold THEN [f EXCEPT ![b] = OpenTicks] ELSE f
  IN /\ errors' = [errors EXCEPT ![b] = n]
     /\ open_for' = Trip(open_for)
     /\ trip_for' = IF b \in SelfHosted THEN trip_for ELSE Trip(trip_for)
     /\ UNCHANGED probe_failures

\* handle() returns or raises: its finally block runs.
Leave_Leaks(r, held) == tenant_inflight' = held
Leave(r, held) == tenant_inflight' = [held EXCEPT ![TenantOf[r]] = @ - 1]

\* The request is over, or goes on without handle(): as a stream at its
\* backend, or lost, its slot at the backend still taken.
Becomes(r, state) ==
  /\ st' = [st EXCEPT ![r] = state]
  /\ at' = IF state = "idle" THEN [at EXCEPT ![r] = NoBackend] ELSE at
  /\ attempt' = [attempt EXCEPT ![r] = 0]
  /\ tried' = [tried EXCEPT ![r] = {}]

\* The end of the chain: a cached response or a 503.
LastResort(r, held) == Becomes(r, "idle") /\ Leave(r, held)

\* The next turn of the attempt loop after a failed one: out of attempts or of
\* budget, or asleep until the retry.
NextAttempt(r, b, held) ==
  \/ LastResort(r, held)
  \/ /\ attempt[r] + 1 < MaxAttempts
     /\ st' = [st EXCEPT ![r] = "backoff"]
     /\ at' = [at EXCEPT ![r] = NoBackend]
     /\ attempt' = [attempt EXCEPT ![r] = @ + 1]
     /\ tried' = [tried EXCEPT ![r] = @ \cup {b}]
     /\ tenant_inflight' = held

NoCandidates_Waits(r, held) ==
  /\ st' = [st EXCEPT ![r] = "backoff"]
  /\ tenant_inflight' = held
  /\ UNCHANGED <<at, attempt, tried>>
NoCandidates(r, held) == LastResort(r, held)

\* Choosing a backend and forward() up to its first await.
Try(r, held) ==
  \/ /\ First(r) = {}
     /\ NoCandidates(r, held)
     /\ UNCHANGED <<inflight, breaker>>
  \/ \E b \in First(r) \ keyless :
       /\ st' = [st EXCEPT ![r] = "sent"]
       /\ at' = [at EXCEPT ![r] = b]
       /\ tried' = [tried EXCEPT ![r] = @ \cup {b}]
       /\ inflight' = [inflight EXCEPT ![b] = @ + 1]
       /\ tenant_inflight' = held
       /\ UNCHANGED <<attempt, breaker>>
  \/ \E b \in First(r) \cap keyless :
       /\ observe_error(b)
       /\ NextAttempt(r, b, held)
       /\ UNCHANGED inflight

-----------------------------------------------------------------------------
\* TenantLimits.check lets a request in.  One that it rejects, with too many at
\* once or an empty bucket or budget, changes nothing here.
Admit(r) ==
  /\ st[r] = "idle"
  /\ tenant_inflight[TenantOf[r]] < MaxConcurrent[TenantOf[r]]
  /\ Try(r, [tenant_inflight EXCEPT ![TenantOf[r]] = @ + 1])
  /\ UNCHANGED keyless

Wake(r) ==
  /\ st[r] = "backoff"
  /\ Try(r, tenant_inflight)
  /\ UNCHANGED keyless

\* forward gives the backend's slot back.
Landed(r) == inflight' = [inflight EXCEPT ![at[r]] = @ - 1]

\* A connection error, a timeout, a 5xx or a 429.
BackendError(r) ==
  /\ st[r] = "sent"
  /\ Landed(r)
  /\ observe_error(at[r])
  /\ NextAttempt(r, at[r], tenant_inflight)
  /\ UNCHANGED keyless

\* Any other status is a success, a body that is not JSON included: handle()
\* raises on that one after the breaker has been told.
Respond(r) ==
  /\ st[r] = "sent" /\ r \notin Streams
  /\ Landed(r)
  /\ observe_success(at[r])
  /\ Becomes(r, "idle")
  /\ Leave(r, tenant_inflight)
  /\ UNCHANGED keyless

\* handle() returns the StreamingResponse; the body is still to come.  When the
\* client has gone by then the server never starts body_iter, whose finally
\* block would have given the backend's slot back.
OpenStream(r) ==
  /\ st[r] = "sent" /\ r \in Streams
  /\ \E state \in {"stream", "lost"} : Becomes(r, state)
  /\ Leave(r, tenant_inflight)
  /\ UNCHANGED <<keyless, inflight, breaker>>

\* body_iter: the first chunk counts as a success; the stream ends, breaks, or
\* the client goes away, and a broken stream is no error to the breaker.
FirstChunk(r) ==
  /\ st[r] = "stream"
  /\ observe_success(at[r])
  /\ st' = [st EXCEPT ![r] = "body"]
  /\ UNCHANGED <<keyless, at, attempt, tried, tenant_inflight, inflight>>
EndStream(r) ==
  /\ st[r] \in Streaming
  /\ Landed(r)
  /\ Becomes(r, "idle")
  /\ UNCHANGED <<keyless, tenant_inflight, breaker>>

-----------------------------------------------------------------------------
\* health_loop: a good probe closes the breaker, the third bad one opens it.
ProbeOk(b) ==
  /\ b \in SelfHosted
  /\ errors' = [errors EXCEPT ![b] = 0]
  /\ probe_failures' = [probe_failures EXCEPT ![b] = 0]
  /\ open_for' = [open_for EXCEPT ![b] = 0]
  /\ UNCHANGED <<keyless, reqVars, tenant_inflight, inflight, trip_for>>
ProbeFail(b) ==
  /\ b \in SelfHosted
  /\ LET n == Least(probe_failures[b] + 1, ProbeThreshold)
     IN /\ probe_failures' = [probe_failures EXCEPT ![b] = n]
        /\ open_for' = IF n = ProbeThreshold /\ open_for[b] < OpenTicks
                       THEN [open_for EXCEPT ![b] = OpenTicks] ELSE open_for
  /\ UNCHANGED <<keyless, reqVars, tenant_inflight, inflight, errors, trip_for>>

\* /admin/backend/{name}/disable, which may also shorten what is left.
disable_backend(b) ==
  /\ \E secs \in DisableTicks : open_for' = [open_for EXCEPT ![b] = secs]
  /\ trip_for' = [trip_for EXCEPT ![b] = 0]
  /\ UNCHANGED <<keyless, reqVars, tenant_inflight, inflight, errors, probe_failures>>

\* Time passes: open breakers come closer to their end.
Sooner(f) == [b \in Backends |-> IF f[b] = 0 THEN 0 ELSE f[b] - 1]
Tick ==
  /\ open_for' = Sooner(open_for)
  /\ trip_for' = Sooner(trip_for)
  /\ UNCHANGED <<keyless, reqVars, tenant_inflight, inflight, errors, probe_failures>>

-----------------------------------------------------------------------------
Init ==
  /\ keyless \in SUBSET Keyed
  /\ st = [r \in Requests |-> "idle"]
  /\ at = [r \in Requests |-> NoBackend]
  /\ attempt = [r \in Requests |-> 0]
  /\ tried = [r \in Requests |-> {}]
  /\ tenant_inflight = [t \in Tenants |-> 0]
  /\ inflight = [b \in Backends |-> 0]
  /\ errors = [b \in Backends |-> 0]
  /\ probe_failures = [b \in Backends |-> 0]
  /\ open_for = [b \in Backends |-> 0]
  /\ trip_for = [b \in Backends |-> 0]

Returns(r) == BackendError(r) \/ Respond(r) \/ OpenStream(r)
Next ==
  \/ \E r \in Requests :
       Admit(r) \/ Wake(r) \/ Returns(r) \/ FirstChunk(r) \/ EndStream(r)
  \/ \E b \in Backends : ProbeOk(b) \/ ProbeFail(b) \/ disable_backend(b)
  \/ Tick

\* A call to a backend returns or times out (600 s), and a sleep ends.
Spec ==
  /\ Init /\ [][Next]_gwVars
  /\ \A r \in Requests : WF_gwVars(Returns(r)) /\ WF_gwVars(Wake(r))

-----------------------------------------------------------------------------
\* Every variable has its type.
GatewayTypeOK ==
  /\ keyless \subseteq Keyed
  /\ st \in [Requests -> {"idle"} \cup Handled \cup Slotted]
  /\ at \in [Requests -> Backends \cup {NoBackend}]
  /\ attempt \in [Requests -> 0..(MaxAttempts - 1)]
  /\ tried \in [Requests -> SUBSET Backends]
  /\ tenant_inflight \in [Tenants -> Nat]
  /\ inflight \in [Backends -> Nat]
  /\ errors \in [Backends -> 0..ErrorThreshold]
  /\ probe_failures \in [Backends -> 0..ProbeThreshold]
  /\ open_for \in [Backends -> Nat]
  /\ trip_for \in [Backends -> 0..OpenTicks]

\* Types hold, and every path through handle() and forward() gives back what it took, but for
\* the streams whose body never starts: the counters that the limits and the
\* routing rest on are exact up to those, and no interleaving of requests,
\* retries and streams takes a backend over its capacity.
CountsExact ==
  /\ GatewayTypeOK
  /\ \A b \in Backends :
       /\ inflight[b] = Cardinality({r \in Requests : st[r] \in Slotted /\ at[r] = b})
       /\ inflight[b] <= Capacity[b]
  /\ \A t \in Tenants :
       tenant_inflight[t] =
         Cardinality({r \in Requests : st[r] \in Handled /\ TenantOf[r] = t})

Sends(r, b) == st[r] # "sent" /\ st'[r] = "sent" /\ at'[r] = b

\* Once its failures have tripped the breaker of a backend that is not polled,
\* nothing sends it a request for the whole time, late successes included.
TrippedIsLeftAlone ==
  [][\A r \in Requests, b \in Backends \ SelfHosted :
       Sends(r, b) => trip_for[b] = 0]_gwVars

\* Every admitted request leaves handle() with an answer, whatever backends do.
Answered == \A r \in Requests : st[r] \in Handled ~> st[r] \notin Handled
=============================================================================
