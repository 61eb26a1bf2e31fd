------------------------------- MODULE Proxy -------------------------------
(***************************************************************************)
(* The prefix-cache proxy, projects/04-prefix-cache-proxy/proxy.py, on the *)
(* replicas and strategies of Routing.  handle() is a coroutine; an action *)
(* is what runs between two of its awaits, so an error answer and the next *)
(* attempt are one action.  A request is "sent" while a replica has it,    *)
(* "opened" once the response object of a stream is with the server, and   *)
(* "body" once the stream's generator runs.  Clocks are counted in ticks;  *)
(* bodies and latencies are left out, and every request has some text.     *)
(* X_Y is a wrong variant of X, unused by the model.                       *)
(***************************************************************************)
EXTENDS Routing

CONSTANTS
  Requests,
  Streams,                     \* the requests with "stream": true
  SystemKey, SessionKey,       \* of each request: prefix_key(...), x-session-id or NoKey
  Tokens,                      \* of each request: est_tokens
  Replicas,                    \* 1..n
  MaxRetries,
  Turns,                       \* a common multiple of 1..n
  Routers,                     \* the routers /admin/router may install, the first one included
  MaxSwitches, MaxProbes       \* bounds: router switches, changes a health probe finds

ASSUME ProxyAssumption ==
  /\ IsFiniteSet(Replicas) /\ Replicas = 1..Cardinality(Replicas)
  /\ {Ring[i] : i \in DOMAIN Ring} = Replicas
  /\ Streams \subseteq Requests
  /\ Routers \subseteq [name : Strategies, factor : Nat, turn : Nat]
  /\ Tokens \in [Requests -> Nat] /\ Turns \in Nat \ {0}
  /\ {MaxRetries, MaxSwitches, MaxProbes} \subseteq Nat
  /\ \A q \in Requests : SystemKey[q] \in DOMAIN Place /\ SessionKey[q] \in {NoKey} \cup DOMAIN Place

VARIABLES
  fleet,                       \* STATE["replicas"]
  router,                      \* STATE["router"], with RoundRobin's counter
  st, key, tried,              \* of each request: its stage, its key, the replicas tried
  switches, probes,
  since                        \* history: requests routed, or in flight, since the last switch

vars == <<fleet, router, st, key, tried, switches, probes, since>>

Slotted == {"sent", "opened", "body", "lost"}

-----------------------------------------------------------------------------
\* The key handle() routes by.
KeyOf(q) == IF router.name = "session_affinity" /\ SessionKey[q] # NoKey
            THEN SessionKey[q] ELSE SystemKey[q]

Untried(f, q_tried) == {r \in Replicas : available(f[r]) /\ ~Contains(q_tried, r)}

\* RoundRobin's counter, up to what its indices tell apart.
Turned == IF router.name = "round_robin" THEN [router EXCEPT !.turn = (@ + 1) % Turns] ELSE router

Landed_Leaks(f, q, r) == f
Landed(f, q, r) ==
  [f EXCEPT ![r].inflight = @ - 1, ![r].queued_tokens = @ - Tokens[q]]

\* One attempt of handle(), on the fleet f: pick an untried replica and send
\* the request to it, or answer 503.
Attempt(f, q, k, q_tried) ==
  LET av == Untried(f, q_tried)
  IN IF av = {}
     THEN /\ fleet' = f
          /\ st' = [st EXCEPT ![q] = "failed"]
          /\ tried' = [tried EXCEPT ![q] = q_tried]
          /\ UNCHANGED router
     ELSE \E r \in Pick(router, f, av, k) :
            /\ fleet' = [f EXCEPT ![r].inflight = @ + 1, ![r].queued_tokens = @ + Tokens[q]]
            /\ st' = [st EXCEPT ![q] = "sent"]
            /\ tried' = [tried EXCEPT ![q] = Append(q_tried, r)]
            /\ router' = Turned

Handle(q) ==
  /\ st[q] = "new"
  /\ key' = [key EXCEPT ![q] = KeyOf(q)]
  /\ Attempt(fleet, q, KeyOf(q), <<>>)
  /\ since' = since \cup {q}
  /\ UNCHANGED <<switches, probes>>

\* A connection error, a timeout or a 5xx: the breaker hears of it, and the
\* request goes on to another replica or, out of retries, ends in a 502.
BackendError(q) ==
  /\ st[q] = "sent"
  /\ LET r == Last(tried[q])
         f == [Landed(fleet, q, r) EXCEPT ![r] = observe_error(@)]
     IN IF Len(tried[q]) > MaxRetries
        THEN /\ fleet' = f
             /\ st' = [st EXCEPT ![q] = "failed"]
             /\ UNCHANGED <<router, tried>>
        ELSE Attempt(f, q, key[q], tried[q])
  /\ UNCHANGED <<key, switches, probes, since>>

\* note_prefix, observe_success: what a finished request leaves on its replica.
Served(f, q, r) ==
  [f EXCEPT ![r] = LET ok == observe_success(@)
                   IN IF key[q] = NoKey THEN ok ELSE note_prefix(ok, key[q])]

\* Any answer below 500, rejections included.
Respond(q) ==
  /\ st[q] = "sent" /\ q \notin Streams
  /\ fleet' = Served(Landed(fleet, q, Last(tried[q])), q, Last(tried[q]))
  /\ st' = [st EXCEPT ![q] = "answered"]
  /\ UNCHANGED <<router, key, tried, switches, probes, since>>

Becomes(q, from, to) ==
  /\ st[q] = from
  /\ st' = [st EXCEPT ![q] = to]
  /\ UNCHANGED <<fleet, router, key, tried, switches, probes, since>>

\* The upstream response is open; handle() returns the StreamingResponse.  Its
\* client may be gone before the server starts the body.
OpenStream(q) == q \in Streams /\ Becomes(q, "sent", "opened")
StartBody(q) == Becomes(q, "opened", "body")
LoseBody(q) == Becomes(q, "opened", "lost")

\* body_iter's finally: the stream is over, broke, or lost its client.
EndBody(q) ==
  /\ st[q] = "body"
  /\ fleet' = Served(Landed(fleet, q, Last(tried[q])), q, Last(tried[q]))
  /\ st' = [st EXCEPT ![q] = "answered"]
  /\ UNCHANGED <<router, key, tried, switches, probes, since>>

-----------------------------------------------------------------------------
\* health_loop: a probe whose verdict is new; the breaker is left alone.
HealthProbe(r) ==
  /\ probes < MaxProbes
  /\ fleet' = [fleet EXCEPT ![r].healthy = ~@]
  /\ probes' = probes + 1
  /\ UNCHANGED <<router, st, key, tried, switches, since>>

\* /admin/router: another strategy, and no belief about resident prefixes.
Forgotten_None(r) == r
Forgotten(r) == [r EXCEPT !.prefix_keys = <<>>]
SetRouter ==
  /\ switches < MaxSwitches
  /\ router' \in Routers
  /\ fleet' = [r \in Replicas |-> Forgotten(fleet[r])]
  /\ switches' = switches + 1
  /\ since' = {q \in Requests : st[q] \in Slotted}
  /\ UNCHANGED <<st, key, tried, probes>>

\* time.time() moves on while a breaker is open.
Tick ==
  /\ \E r \in Replicas : fleet[r].open_for > 0
  /\ fleet' = [r \in Replicas |-> [fleet[r] EXCEPT !.open_for = Max({@ - 1, 0})]]
  /\ UNCHANGED <<router, st, key, tried, switches, probes, since>>

-----------------------------------------------------------------------------
Init ==
  /\ fleet = [r \in Replicas |-> NewReplica]
  /\ router \in Routers
  /\ st = [q \in Requests |-> "new"]
  /\ key = [q \in Requests |-> NoKey]
  /\ tried = [q \in Requests |-> <<>>]
  /\ switches = 0 /\ probes = 0 /\ since = {}

Next ==
  \/ \E q \in Requests : \/ Handle(q) \/ BackendError(q) \/ Respond(q)
                       \/ OpenStream(q) \/ StartBody(q) \/ EndBody(q) \/ LoseBody(q)
  \/ \E r \in Replicas : HealthProbe(r)
  \/ SetRouter \/ Tick

Spec == Init /\ [][Next]_vars

-----------------------------------------------------------------------------
\* Every replica counts exactly the requests, and the prompt tokens, that are
\* on it, through errors, retries, streams and disconnects; only a stream
\* whose body never started is counted for ever.
LoadExact ==
  \A r \in Replicas :
    LET on == {q \in Requests : st[q] \in Slotted /\ Last(tried[q]) = r}
    IN /\ fleet[r].inflight = Cardinality(on)
       /\ fleet[r].queued_tokens = SumFunctionOnSet(Tokens, on)

\* "bounded load": whatever a prefix-affinity router sends where - a holder, a
\* ring neighbour or the least loaded replica - that replica's load is at most
\* the overload factor times the mean over the replicas it could have used.
BoundedLoad ==
  [][\A q \in Requests :
       (st'[q] = "sent" /\ tried'[q] # tried[q] /\ router.name = "prefix_affinity") =>
         LET av == Untried(fleet', Front(tried'[q]))
             load == [r \in av |-> fleet'[r].inflight - IF r = Last(tried'[q]) THEN 1 ELSE 0]
             mine == load[Last(tried'[q])]
         IN \/ mine <= 1
            \/ 100 * Cardinality(av) * mine <= router.factor * SumFunction(load)]_vars

\* A request is never sent again once a byte may have reached its client, and
\* never to a replica that failed it: "retrying would duplicate output".
SentOnce ==
  [][\A q \in Requests : tried'[q] # tried[q] =>
       /\ st[q] \in {"new", "sent"} /\ fleet'[Last(tried'[q])].inflight > 0
       /\ ~Contains(tried[q], Last(tried'[q])) /\ Len(tried'[q]) <= MaxRetries + 1]_vars

\* Where and how often a request may be sent.
RoutedSoundly == BoundedLoad /\ SentOnce

\* What a replica is believed to hold was served by it since the router was
\* switched, or was in flight then: only those requests carry the old
\* strategy's placement over the switch.
BeliefsAreRecent ==
  \A r \in Replicas : \A i \in DOMAIN fleet[r].prefix_keys :
    \E q \in since : /\ key[q] = fleet[r].prefix_keys[i]
                     /\ st[q] = "answered" /\ Last(tried[q]) = r
=============================================================================
