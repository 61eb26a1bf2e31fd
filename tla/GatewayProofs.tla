---------------------------- MODULE GatewayProofs ---------------------------
(***************************************************************************)
(* The AI gateway: its own tables, then what limits a request besides      *)
(* them: the tenant's quota, the hedged call, the retry budget and the     *)
(* cache.                                                                  *)
(***************************************************************************)
EXTENDS Gateway, Quota, Resilience, QueueFacts, FiniteSetTheorems, TLAPS

-----------------------------------------------------------------------------
(***************************************************************************)
(* The gateway's counters are exact, a retry avoids the backends that      *)
(* failed the request, and a tripped backend is left alone, for every set  *)
(* of requests, tenants and backends.                                      *)
(*                                                                         *)
(* A step moves one request; the lemmas say what a move does to the counts *)
(* of the tenants and of the backends, and each action is one such move.   *)
(***************************************************************************)

On(b) == {r \in Requests : st[r] \in Slotted /\ at[r] = b}
In(t) == {r \in Requests : st[r] \in Handled /\ TenantOf[r] = t}

TablesOK ==
  /\ keyless \subseteq Keyed
  /\ st \in [Requests -> {"idle"} \cup Handled \cup Slotted]
  /\ at \in [Requests -> Backends \cup {NoBackend}]
  /\ attempt \in [Requests -> 0..(MaxAttempts - 1)]
  /\ tried \in [Requests -> SUBSET Backends]
  /\ \A r \in Requests : st[r] \in Slotted => at[r] \in Backends
TenantsExact ==
  /\ tenant_inflight \in [Tenants -> Nat]
  /\ \A t \in Tenants : tenant_inflight[t] = Cardinality(In(t))
BackendsExact ==
  /\ inflight \in [Backends -> Nat]
  /\ \A b \in Backends : inflight[b] = Cardinality(On(b)) /\ inflight[b] <= Capacity[b]
\* A breaker that failures tripped is open for at least as long.
BreakersOK ==
  /\ errors \in [Backends -> 0..ErrorThreshold]
  /\ probe_failures \in [Backends -> 0..ProbeThreshold]
  /\ open_for \in [Backends -> Nat]
  /\ trip_for \in [Backends -> 0..OpenTicks]
  /\ \A b \in Backends \ SelfHosted : trip_for[b] <= open_for[b]

GatewayInv == TablesOK /\ TenantsExact /\ BackendsExact /\ BreakersOK

-----------------------------------------------------------------------------
\* The constants have their types.
LEMMA GatewayConstants ==
  /\ IsFiniteSet(Requests) /\ NoBackend \notin Backends
  /\ TenantOf \in [Requests -> Tenants] /\ SelfHosted \subseteq Backends
  /\ Capacity \in [Backends -> Nat]
  /\ MaxAttempts \in Nat /\ MaxAttempts >= 1
  /\ ErrorThreshold \in Nat /\ ErrorThreshold >= 1
  /\ ProbeThreshold \in Nat /\ ProbeThreshold >= 1
  /\ OpenTicks \in Nat /\ OpenTicks >= 1
  /\ \A n \in DisableTicks : n \in Nat
  BY GatewayAssumption

\* Two sets that differ in one request at most.
LEMMA Recount ==
  ASSUME NEW S \in SUBSET Requests, NEW T \in SUBSET Requests, NEW r \in Requests,
         \A q \in Requests \ {r} : q \in S <=> q \in T
  PROVE  /\ Cardinality(S) \in Nat /\ Cardinality(T) \in Nat
         /\ (r \in S <=> r \in T) => Cardinality(T) = Cardinality(S)
         /\ r \in T /\ r \notin S => Cardinality(T) = Cardinality(S) + 1
         /\ r \in S /\ r \notin T => Cardinality(T) = Cardinality(S) - 1 /\ Cardinality(S) >= 1
<1>1. IsFiniteSet(S) /\ IsFiniteSet(T)
  BY FS_Subset, GatewayConstants
<1>2. Cardinality(S) \in Nat /\ Cardinality(T) \in Nat
  BY <1>1, FS_CardinalityType
<1>3. CASE r \in S <=> r \in T
  <2>1. S = T
    BY <1>3
  <2> QED
    BY <1>2, <1>3, <2>1
<1>4. CASE r \in T /\ r \notin S
  <2>1. T = S \cup {r}
    BY <1>4
  <2> QED
    BY <1>1, <1>2, <1>4, <2>1, FS_AddElement
<1>5. CASE r \in S /\ r \notin T
  <2>1. S = T \cup {r}
    BY <1>5
  <2>2. Cardinality(S) = Cardinality(T) + 1
    BY <1>1, <1>5, <2>1, FS_AddElement
  <2> QED
    BY <1>2, <1>5, <2>2
<1> QED
  BY <1>3, <1>4, <1>5

-----------------------------------------------------------------------------
\* held is right for the moment between two awaits of r's handle(): it counts r.
HeldExact(r, held) ==
  /\ held \in [Tenants -> Nat]
  /\ \A t \in Tenants : held[t] = Cardinality(In(t) \cup (IF TenantOf[r] = t THEN {r} ELSE {}))

\* The counts of the tenants after a turn of r: it stays inside handle() with
\* held as it is, or leaves.
LEMMA TenantsTurn ==
  ASSUME GatewayInv, NEW r \in Requests, NEW held, HeldExact(r, held),
         NEW s \in {"idle"} \cup Handled \cup Slotted, st' = [st EXCEPT ![r] = s],
         IF s \in Handled THEN tenant_inflight' = held ELSE Leave(r, held)
  PROVE  TenantsExact'
<1> DEFINE With(t) == In(t) \cup (IF TenantOf[r] = t THEN {r} ELSE {})
<1>1. /\ st \in [Requests -> {"idle"} \cup Handled \cup Slotted]
      /\ TenantOf[r] \in Tenants /\ held \in [Tenants -> Nat]
      /\ \A t \in Tenants : held[t] = Cardinality(With(t))
  BY GatewayConstants DEF GatewayInv, TablesOK, HeldExact
<1>2. \A t \in Tenants : /\ In(t)' = {q \in Requests : st'[q] \in Handled /\ TenantOf[q] = t}
                         /\ In(t)' \in SUBSET Requests /\ With(t) \in SUBSET Requests
                         /\ \A q \in Requests \ {r} : q \in With(t) <=> q \in In(t)'
  BY <1>1 DEF In
<1>3. ASSUME NEW t \in Tenants
      PROVE  /\ tenant_inflight'[t] = Cardinality(In(t)')
             /\ tenant_inflight'[t] \in Nat
  <2>1. CASE s \in Handled
    <3>1. r \in With(t) <=> r \in In(t)'
      BY <1>1, <1>2, <2>1 DEF In
    <3>2. Cardinality(In(t)') = Cardinality(With(t))
      BY <1>2, <3>1, Recount
    <3> QED
      BY <1>1, <2>1, <3>2
  <2>2. CASE s \notin Handled /\ TenantOf[r] = t
    <3>1. r \in With(t) /\ r \notin In(t)'
      BY <1>1, <1>2, <2>2
    <3>2. Cardinality(In(t)') = Cardinality(With(t)) - 1 /\ Cardinality(In(t)') \in Nat
      BY <1>2, <3>1, Recount
    <3> QED
      BY <1>1, <2>2, <3>2 DEF Leave
  <2>3. CASE s \notin Handled /\ TenantOf[r] # t
    <3>1. r \notin With(t) /\ r \notin In(t)'
      BY <1>2, <2>3 DEF In
    <3>2. Cardinality(In(t)') = Cardinality(With(t))
      BY <1>2, <3>1, Recount
    <3> QED
      BY <1>1, <2>3, <3>2 DEF Leave
  <2> QED
    BY <2>1, <2>2, <2>3
<1>4. tenant_inflight' \in [Tenants -> Nat]
  <2>1. CASE s \in Handled
    BY <1>1, <2>1
  <2>2. CASE s \notin Handled
    <3>1. tenant_inflight' = [held EXCEPT ![TenantOf[r]] = @ - 1]
      BY <2>2 DEF Leave
    <3>2. held[TenantOf[r]] - 1 \in Nat
      BY <1>1, <1>3, <3>1
    <3> QED
      BY <1>1, <3>1, <3>2
  <2> QED
    BY <2>1, <2>2
<1> QED
  BY <1>3, <1>4 DEF TenantsExact

\* Inside handle(), the counter itself counts r.
LEMMA InsideIsHeld ==
  ASSUME GatewayInv, NEW r \in Requests, st[r] \in Handled
  PROVE  HeldExact(r, tenant_inflight)
<1>1. \A t \in Tenants : In(t) \cup (IF TenantOf[r] = t THEN {r} ELSE {}) = In(t)
  BY DEF In
<1> QED
  BY <1>1 DEF HeldExact, GatewayInv, TenantsExact

\* On admission, one more than before.
LEMMA AdmissionIsHeld ==
  ASSUME GatewayInv, NEW r \in Requests, st[r] = "idle"
  PROVE  HeldExact(r, [tenant_inflight EXCEPT ![TenantOf[r]] = @ + 1])
<1> DEFINE With(t) == In(t) \cup (IF TenantOf[r] = t THEN {r} ELSE {})
<1>1. /\ tenant_inflight \in [Tenants -> Nat] /\ TenantOf[r] \in Tenants
      /\ \A t \in Tenants : tenant_inflight[t] = Cardinality(In(t))
  BY GatewayConstants DEF GatewayInv, TenantsExact
<1>2. \A t \in Tenants : r \notin In(t) /\ In(t) \in SUBSET Requests
  BY DEF In, Handled
<1>3. ASSUME NEW t \in Tenants
      PROVE  Cardinality(With(t)) = Cardinality(In(t)) + (IF TenantOf[r] = t THEN 1 ELSE 0)
  <2>1. CASE TenantOf[r] = t
    BY <1>2, <2>1, Recount
  <2>2. CASE TenantOf[r] # t
    <3>1. With(t) = In(t) /\ Cardinality(In(t)) \in Nat
      BY <1>1, <2>2
    <3> QED
      BY <2>2, <3>1
  <2> QED
    BY <2>1, <2>2
<1> QED
  BY <1>1, <1>3 DEF HeldExact

-----------------------------------------------------------------------------
\* The counts of the backends after a move of r: it takes a slot, ...
LEMMA BackendTakes ==
  ASSUME GatewayInv, NEW r \in Requests, NEW b \in Backends, available(b),
         st[r] \notin Slotted, st' = [st EXCEPT ![r] = "sent"], at' = [at EXCEPT ![r] = b],
         inflight' = [inflight EXCEPT ![b] = @ + 1]
  PROVE  BackendsExact'
<1>1. /\ st \in [Requests -> {"idle"} \cup Handled \cup Slotted]
      /\ at \in [Requests -> Backends \cup {NoBackend}]
      /\ inflight \in [Backends -> Nat] /\ Capacity \in [Backends -> Nat]
      /\ \A c \in Backends : inflight[c] = Cardinality(On(c)) /\ inflight[c] <= Capacity[c]
  BY GatewayConstants DEF GatewayInv, TablesOK, BackendsExact
<1>2. \A c \in Backends : /\ On(c)' = {q \in Requests : st'[q] \in Slotted /\ at'[q] = c}
                          /\ On(c)' \in SUBSET Requests /\ On(c) \in SUBSET Requests
                          /\ \A q \in Requests \ {r} : q \in On(c) <=> q \in On(c)'
  BY <1>1 DEF On
<1>3. ASSUME NEW c \in Backends
      PROVE  inflight'[c] = Cardinality(On(c)') /\ inflight'[c] <= Capacity[c]
  <2>1. r \notin On(c) /\ (r \in On(c)' <=> c = b)
    BY <1>1, <1>2 DEF On, Slotted
  <2>2. Cardinality(On(c)') = Cardinality(On(c)) + (IF c = b THEN 1 ELSE 0)
    <3>1. CASE c = b
      BY <1>2, <2>1, <3>1, Recount
    <3>2. CASE c # b
      <4>1. Cardinality(On(c)') = Cardinality(On(c)) /\ Cardinality(On(c)) \in Nat
        BY <1>2, <2>1, <3>2, Recount
      <4> QED
        BY <3>2, <4>1
    <3> QED
      BY <3>1, <3>2
  <2> QED
    BY <1>1, <2>2 DEF available
<1> QED
  BY <1>1, <1>3 DEF BackendsExact

\* ... gives one back, ...
LEMMA BackendGives ==
  ASSUME GatewayInv, NEW r \in Requests, st[r] \in Slotted, Landed(r),
         NEW s \in {"idle"} \cup Handled \cup Slotted, s \notin Slotted, st' = [st EXCEPT ![r] = s],
         NEW a, at' = [at EXCEPT ![r] = a]
  PROVE  BackendsExact'
<1>1. /\ st \in [Requests -> {"idle"} \cup Handled \cup Slotted]
      /\ at \in [Requests -> Backends \cup {NoBackend}] /\ at[r] \in Backends
      /\ inflight \in [Backends -> Nat] /\ Capacity \in [Backends -> Nat]
      /\ \A c \in Backends : inflight[c] = Cardinality(On(c)) /\ inflight[c] <= Capacity[c]
  BY GatewayConstants DEF GatewayInv, TablesOK, BackendsExact
<1>2. \A c \in Backends : /\ On(c)' = {q \in Requests : st'[q] \in Slotted /\ at'[q] = c}
                          /\ On(c)' \in SUBSET Requests /\ On(c) \in SUBSET Requests
                          /\ \A q \in Requests \ {r} : q \in On(c) <=> q \in On(c)'
  BY <1>1 DEF On
<1>3. ASSUME NEW c \in Backends
      PROVE  /\ Cardinality(On(c)') = Cardinality(On(c)) - (IF c = at[r] THEN 1 ELSE 0)
             /\ Cardinality(On(c)') \in Nat
  <2>1. r \notin On(c)' /\ (r \in On(c) <=> c = at[r])
    BY <1>1, <1>2 DEF On
  <2>2. CASE c = at[r]
    BY <1>2, <2>1, <2>2, Recount
  <2>3. CASE c # at[r]
    <3>1. Cardinality(On(c)') = Cardinality(On(c)) /\ Cardinality(On(c)) \in Nat
      BY <1>2, <2>1, <2>3, Recount
    <3> QED
      BY <2>3, <3>1
  <2> QED
    BY <2>2, <2>3
<1>4. inflight' = [inflight EXCEPT ![at[r]] = @ - 1]
  BY DEF Landed
<1>5. inflight[at[r]] - 1 \in Nat
  BY <1>1, <1>3
<1> QED
  BY <1>1, <1>3, <1>4, <1>5 DEF BackendsExact

\* ... or moves without one, or with the one it has.
LEMMA BackendKeeps ==
  ASSUME GatewayInv, NEW r \in Requests, inflight' = inflight,
         NEW s \in {"idle"} \cup Handled \cup Slotted, st' = [st EXCEPT ![r] = s],
         NEW a, at' = [at EXCEPT ![r] = a],
         s \in Slotted <=> st[r] \in Slotted, s \in Slotted => a = at[r]
  PROVE  BackendsExact'
<1>1. /\ st \in [Requests -> {"idle"} \cup Handled \cup Slotted]
      /\ at \in [Requests -> Backends \cup {NoBackend}]
  BY DEF GatewayInv, TablesOK
<1>2. \A c \in Backends : On(c)' = On(c)
  BY <1>1 DEF On
<1> QED
  BY <1>2 DEF GatewayInv, BackendsExact

-----------------------------------------------------------------------------
\* What the breakers hear keeps them sound.
LEMMA ErrorHeard ==
  ASSUME GatewayInv, NEW b \in Backends, observe_error(b) PROVE BreakersOK'
<1> DEFINE n == Least(errors[b] + 1, ErrorThreshold)
<1>1. BreakersOK /\ n \in 0..ErrorThreshold /\ OpenTicks \in Nat /\ OpenTicks \in 0..OpenTicks
  BY GatewayConstants DEF GatewayInv, BreakersOK, Least
<1>2. errors' = [errors EXCEPT ![b] = n] /\ probe_failures' = probe_failures
  BY DEF observe_error
<1>3. \/ /\ open_for' = [open_for EXCEPT ![b] = OpenTicks]
         /\ trip_for' = IF b \in SelfHosted THEN trip_for ELSE [trip_for EXCEPT ![b] = OpenTicks]
      \/ open_for' = open_for /\ trip_for' = trip_for
  BY DEF observe_error
<1> HIDE DEF n
<1>4. CASE open_for' = open_for /\ trip_for' = trip_for
  BY <1>1, <1>2, <1>4 DEF BreakersOK
<1>5. CASE /\ open_for' = [open_for EXCEPT ![b] = OpenTicks]
           /\ trip_for' = IF b \in SelfHosted THEN trip_for ELSE [trip_for EXCEPT ![b] = OpenTicks]
  BY <1>1, <1>2, <1>5 DEF BreakersOK
<1> QED
  BY <1>3, <1>4, <1>5
LEMMA SuccessHeard ==
  ASSUME GatewayInv, NEW b \in Backends, observe_success(b) PROVE BreakersOK'
  BY GatewayConstants DEF observe_success, GatewayInv, BreakersOK
LEMMA NothingHeard ==
  ASSUME GatewayInv, UNCHANGED breaker PROVE BreakersOK'
  BY DEF breaker, GatewayInv, BreakersOK

\* A request that is over, or goes on without handle().
LEMMA BecomesTables ==
  ASSUME GatewayInv, NEW r \in Requests, NEW s \in {"idle", "stream", "lost"}, Becomes(r, s),
         s # "idle" => st[r] \in Slotted, keyless' = keyless
  PROVE  /\ TablesOK' /\ st' = [st EXCEPT ![r] = s] /\ s \in {"idle"} \cup Handled \cup Slotted
         /\ \E a \in Backends \cup {NoBackend} :
              at' = [at EXCEPT ![r] = a] /\ (s # "idle" => a = at[r])
<1>1. TablesOK /\ 0 \in 0..(MaxAttempts - 1) /\ r \in DOMAIN at
  BY GatewayConstants DEF GatewayInv, TablesOK
<1>2. s \in {"idle"} \cup Handled \cup Slotted /\ (s = "idle" <=> s \notin Slotted)
  BY DEF Handled, Slotted, Streaming
<1>3. PICK a \in Backends \cup {NoBackend} :
        /\ at' = [at EXCEPT ![r] = a] /\ (s # "idle" => a = at[r])
  <2>1. at[r] \in Backends \cup {NoBackend} /\ at = [at EXCEPT ![r] = at[r]]
    BY <1>1 DEF TablesOK
  <2> QED
    BY <2>1 DEF Becomes
<1>4. /\ st' = [st EXCEPT ![r] = s] /\ attempt' = [attempt EXCEPT ![r] = 0]
      /\ tried' = [tried EXCEPT ![r] = {}]
  BY DEF Becomes
<1>5. s \in Slotted => a \in Backends
  BY <1>1, <1>2, <1>3 DEF TablesOK
<1>6. /\ st' \in [Requests -> {"idle"} \cup Handled \cup Slotted]
      /\ at' \in [Requests -> Backends \cup {NoBackend}]
      /\ attempt' \in [Requests -> 0..(MaxAttempts - 1)]
      /\ tried' \in [Requests -> SUBSET Backends]
  BY <1>1, <1>2, <1>3, <1>4 DEF TablesOK
<1>7. \A q \in Requests : st'[q] \in Slotted => at'[q] \in Backends
  BY <1>1, <1>3, <1>4, <1>5 DEF TablesOK
<1> QED
  BY <1>1, <1>2, <1>3, <1>4, <1>6, <1>7 DEF TablesOK

\* A failed attempt ends the request or puts it to sleep.
LEMMA NextAttemptTurn ==
  ASSUME GatewayInv, NEW r \in Requests, NEW b \in Backends, NEW held, HeldExact(r, held),
         NextAttempt(r, b, held), keyless' = keyless
  PROVE  /\ TablesOK' /\ TenantsExact'
         /\ \E s \in {"idle"} \cup Handled \cup Slotted :
              s \notin Slotted /\ st' = [st EXCEPT ![r] = s]
         /\ \E a \in Backends \cup {NoBackend} : at' = [at EXCEPT ![r] = a]
<1>1. CASE LastResort(r, held)
  <2>1. Becomes(r, "idle") /\ Leave(r, held)
    BY <1>1 DEF LastResort
  <2>2. /\ TablesOK' /\ st' = [st EXCEPT ![r] = "idle"] /\ "idle" \in {"idle"} \cup Handled \cup Slotted
        /\ \E a \in Backends \cup {NoBackend} : at' = [at EXCEPT ![r] = a]
    BY <2>1, BecomesTables
  <2>3. "idle" \notin Handled /\ "idle" \notin Slotted
    BY DEF Handled, Slotted, Streaming
  <2>4. TenantsExact'
    BY <2>1, <2>2, <2>3, TenantsTurn
  <2> QED
    BY <2>2, <2>3, <2>4
<1>2. CASE ~LastResort(r, held)
  <2>1. /\ attempt[r] + 1 < MaxAttempts
        /\ st' = [st EXCEPT ![r] = "backoff"]
        /\ at' = [at EXCEPT ![r] = NoBackend]
        /\ attempt' = [attempt EXCEPT ![r] = @ + 1]
        /\ tried' = [tried EXCEPT ![r] = @ \cup {b}]
        /\ tenant_inflight' = held
    BY <1>2 DEF NextAttempt
  <2>2. "backoff" \in {"idle"} \cup Handled \cup Slotted /\ "backoff" \in Handled /\ "backoff" \notin Slotted
    BY DEF Handled, Slotted, Streaming
  <2>3. TablesOK'
    <3>1. TablesOK /\ MaxAttempts \in Nat
      BY GatewayConstants DEF GatewayInv
    <3>2. attempt' \in [Requests -> 0..(MaxAttempts - 1)]
      BY <2>1, <3>1 DEF TablesOK
    <3>3. /\ st' \in [Requests -> {"idle"} \cup Handled \cup Slotted]
          /\ at' \in [Requests -> Backends \cup {NoBackend}]
          /\ tried' \in [Requests -> SUBSET Backends]
      BY <2>1, <2>2, <3>1 DEF TablesOK
    <3>4. \A q \in Requests : st'[q] \in Slotted => at'[q] \in Backends
      BY <2>1, <2>2, <3>1 DEF TablesOK
    <3> QED
      BY <3>1, <3>2, <3>3, <3>4 DEF TablesOK
  <2>4. TenantsExact'
    BY <2>1, <2>2, TenantsTurn
  <2> QED
    BY <2>1, <2>2, <2>3, <2>4
<1> QED
  BY <1>1, <1>2

-----------------------------------------------------------------------------
\* A turn of the attempt loop keeps the invariant.
LEMMA TryKeeps ==
  ASSUME GatewayInv, NEW r \in Requests, st[r] \in {"idle", "backoff"},
         NEW held, HeldExact(r, held), Try(r, held), keyless' = keyless
  PROVE  GatewayInv'
<1>1. /\ "idle" \notin Slotted /\ "backoff" \notin Slotted /\ st[r] \notin Slotted
      /\ "idle" \notin Handled /\ "idle" \in {"idle"} \cup Handled \cup Slotted
      /\ "sent" \in Handled /\ "sent" \in Slotted /\ "sent" \in {"idle"} \cup Handled \cup Slotted
  BY DEF Slotted, Handled, Streaming
<1>2. CASE NoCandidates(r, held) /\ UNCHANGED <<inflight, breaker>>
  <2>1. Becomes(r, "idle") /\ Leave(r, held)
    BY <1>2 DEF NoCandidates, LastResort
  <2>2. /\ TablesOK' /\ st' = [st EXCEPT ![r] = "idle"]
        /\ \E a \in Backends \cup {NoBackend} : at' = [at EXCEPT ![r] = a]
    BY <2>1, BecomesTables
  <2>3. TenantsExact'
    BY <1>1, <2>1, <2>2, TenantsTurn
  <2>4. BackendsExact'
    BY <1>1, <1>2, <2>2, BackendKeeps
  <2> QED
    BY <1>2, <2>2, <2>3, <2>4, NothingHeard DEF GatewayInv
<1>3. ASSUME NEW b \in First(r) \ keyless,
             st' = [st EXCEPT ![r] = "sent"], at' = [at EXCEPT ![r] = b],
             tried' = [tried EXCEPT ![r] = @ \cup {b}],
             inflight' = [inflight EXCEPT ![b] = @ + 1], tenant_inflight' = held,
             UNCHANGED <<attempt, breaker>>
      PROVE  GatewayInv'
  <2>1. b \in Backends /\ available(b)
    BY DEF First, Untried
  <2>2. TablesOK'
    BY <1>1, <1>3, <2>1 DEF GatewayInv, TablesOK
  <2>3. TenantsExact'
    BY <1>1, <1>3, TenantsTurn
  <2>4. BackendsExact'
    BY <1>1, <1>3, <2>1, BackendTakes
  <2> QED
    BY <1>3, <2>2, <2>3, <2>4, NothingHeard DEF GatewayInv
<1>4. ASSUME NEW b \in First(r) \cap keyless,
             observe_error(b), NextAttempt(r, b, held), UNCHANGED inflight
      PROVE  GatewayInv'
  <2>1. b \in Backends
    BY DEF First, Untried
  <2>2. /\ TablesOK' /\ TenantsExact'
        /\ \E s \in {"idle"} \cup Handled \cup Slotted :
             s \notin Slotted /\ st' = [st EXCEPT ![r] = s]
        /\ \E a \in Backends \cup {NoBackend} : at' = [at EXCEPT ![r] = a]
    BY <1>4, <2>1, NextAttemptTurn
  <2>3. BackendsExact'
    BY <1>1, <1>4, <2>2, BackendKeeps
  <2> QED
    BY <1>4, <2>1, <2>2, <2>3, ErrorHeard DEF GatewayInv
<1> QED
  BY <1>2, <1>3, <1>4 DEF Try

\* Admission and waking are turns of that loop.
LEMMA AdmitKeeps ==
  ASSUME GatewayInv, NEW r \in Requests, Admit(r) PROVE GatewayInv'
  BY AdmissionIsHeld, TryKeeps DEF Admit
LEMMA WakeKeeps ==
  ASSUME GatewayInv, NEW r \in Requests, Wake(r) PROVE GatewayInv'
<1>1. st[r] \in Handled
  BY DEF Wake, Handled
<1> QED
  BY <1>1, InsideIsHeld, TryKeeps DEF Wake

\* An error gives the slot back before the loop goes on.
LEMMA BackendErrorKeeps ==
  ASSUME GatewayInv, NEW r \in Requests, BackendError(r) PROVE GatewayInv'
<1>1. st[r] \in Handled /\ st[r] \in Slotted /\ at[r] \in Backends
  BY DEF BackendError, Handled, Slotted, GatewayInv, TablesOK
<1>2. HeldExact(r, tenant_inflight)
  BY <1>1, InsideIsHeld
<1>3. /\ TablesOK' /\ TenantsExact'
      /\ \E s \in {"idle"} \cup Handled \cup Slotted :
           s \notin Slotted /\ st' = [st EXCEPT ![r] = s]
      /\ \E a \in Backends \cup {NoBackend} : at' = [at EXCEPT ![r] = a]
  BY <1>1, <1>2, NextAttemptTurn DEF BackendError
<1>4. BackendsExact'
  BY <1>1, <1>3, BackendGives DEF BackendError
<1>5. BreakersOK'
  BY <1>1, ErrorHeard DEF BackendError
<1> QED
  BY <1>3, <1>4, <1>5 DEF GatewayInv

\* A plain answer gives both slots back.
LEMMA RespondKeeps ==
  ASSUME GatewayInv, NEW r \in Requests, Respond(r) PROVE GatewayInv'
<1>1. /\ st[r] \in Handled /\ st[r] \in Slotted /\ at[r] \in Backends
      /\ "idle" \notin Handled /\ "idle" \notin Slotted
  BY DEF Respond, Handled, Slotted, Streaming, GatewayInv, TablesOK
<1>2. HeldExact(r, tenant_inflight)
  BY <1>1, InsideIsHeld
<1>3. /\ TablesOK' /\ st' = [st EXCEPT ![r] = "idle"] /\ "idle" \in {"idle"} \cup Handled \cup Slotted
      /\ \E a \in Backends \cup {NoBackend} : at' = [at EXCEPT ![r] = a]
  BY BecomesTables DEF Respond
<1>4. TenantsExact'
  BY <1>1, <1>2, <1>3, TenantsTurn DEF Respond
<1>5. BackendsExact'
  BY <1>1, <1>3, BackendGives DEF Respond
<1>6. BreakersOK'
  BY <1>1, SuccessHeard DEF Respond
<1> QED
  BY <1>3, <1>4, <1>5, <1>6 DEF GatewayInv

\* A stream leaves handle() and keeps its backend's slot.
LEMMA OpenStreamKeeps ==
  ASSUME GatewayInv, NEW r \in Requests, OpenStream(r) PROVE GatewayInv'
<1>1. st[r] \in Handled /\ st[r] \in Slotted
  BY DEF OpenStream, Handled, Slotted
<1>2. HeldExact(r, tenant_inflight)
  BY <1>1, InsideIsHeld
<1>3. PICK s \in {"stream", "lost"} : Becomes(r, s)
  BY DEF OpenStream
<1>4. s \notin Handled /\ s \in Slotted
  BY DEF Handled, Slotted, Streaming
<1>5. /\ TablesOK' /\ st' = [st EXCEPT ![r] = s] /\ s \in {"idle"} \cup Handled \cup Slotted
      /\ \E a \in Backends \cup {NoBackend} : at' = [at EXCEPT ![r] = a] /\ a = at[r]
  BY <1>1, <1>3, BecomesTables DEF OpenStream
<1>6. TenantsExact'
  BY <1>2, <1>4, <1>5, TenantsTurn DEF OpenStream
<1>7. BackendsExact'
  BY <1>1, <1>4, <1>5, BackendKeeps DEF OpenStream
<1>8. BreakersOK'
  BY NothingHeard DEF OpenStream
<1> QED
  BY <1>5, <1>6, <1>7, <1>8 DEF GatewayInv

\* Outside handle() a request moves no tenant's count.
LEMMA OutsideTenants ==
  ASSUME GatewayInv, NEW r \in Requests, st[r] \notin Handled, NEW s, s \notin Handled,
         st' = [st EXCEPT ![r] = s], tenant_inflight' = tenant_inflight
  PROVE  TenantsExact'
<1>1. \A t \in Tenants : In(t)' = In(t)
  BY DEF In, GatewayInv, TablesOK
<1> QED
  BY <1>1 DEF GatewayInv, TenantsExact

\* The first chunk of a stream, and its end.
LEMMA FirstChunkKeeps ==
  ASSUME GatewayInv, NEW r \in Requests, FirstChunk(r) PROVE GatewayInv'
<1>1. /\ st[r] \notin Handled /\ st[r] \in Slotted /\ at[r] \in Backends
      /\ "body" \notin Handled /\ "body" \in Slotted /\ "body" \in {"idle"} \cup Handled \cup Slotted
      /\ at = [at EXCEPT ![r] = at[r]] /\ TablesOK
  BY DEF FirstChunk, Handled, Slotted, Streaming, GatewayInv, TablesOK
<1>2. /\ st' = [st EXCEPT ![r] = "body"]
      /\ UNCHANGED <<keyless, at, attempt, tried, tenant_inflight, inflight>>
  BY DEF FirstChunk
<1>3. TablesOK'
  BY <1>1, <1>2 DEF TablesOK
<1>4. TenantsExact'
  BY <1>1, <1>2, OutsideTenants
<1>5. BackendsExact'
  <2>1. at' = [at EXCEPT ![r] = at[r]]
    BY <1>1, <1>2
  <2> QED
    BY <1>1, <1>2, <2>1, BackendKeeps
<1>6. BreakersOK'
  BY <1>1, SuccessHeard DEF FirstChunk
<1> QED
  BY <1>3, <1>4, <1>5, <1>6 DEF GatewayInv
LEMMA EndStreamKeeps ==
  ASSUME GatewayInv, NEW r \in Requests, EndStream(r) PROVE GatewayInv'
<1>1. /\ st[r] \notin Handled /\ st[r] \in Slotted
      /\ "idle" \notin Handled /\ "idle" \notin Slotted
  BY DEF EndStream, Handled, Slotted, Streaming
<1>2. /\ TablesOK' /\ st' = [st EXCEPT ![r] = "idle"] /\ "idle" \in {"idle"} \cup Handled \cup Slotted
      /\ \E a \in Backends \cup {NoBackend} : at' = [at EXCEPT ![r] = a]
  BY BecomesTables DEF EndStream
<1>3. TenantsExact'
  BY <1>1, <1>2, OutsideTenants DEF EndStream
<1>4. BackendsExact'
  BY <1>1, <1>2, BackendGives DEF EndStream
<1>5. BreakersOK'
  BY NothingHeard DEF EndStream
<1> QED
  BY <1>2, <1>3, <1>4, <1>5 DEF GatewayInv

-----------------------------------------------------------------------------
\* Probes, the drill and time move the breakers only.
LEMMA OnlyBreakers ==
  ASSUME GatewayInv, UNCHANGED <<keyless, reqVars, tenant_inflight, inflight>>, BreakersOK'
  PROVE  GatewayInv'
  BY DEF reqVars, GatewayInv, TablesOK, TenantsExact, BackendsExact, In, On

LEMMA ProbesKeep ==
  ASSUME GatewayInv, NEW b \in Backends, ProbeOk(b) \/ ProbeFail(b) \/ disable_backend(b)
  PROVE  GatewayInv'
<1>1. BreakersOK
  BY DEF GatewayInv
<1>2. CASE ProbeOk(b)
  <2>1. BreakersOK'
    BY <1>1, <1>2, GatewayConstants DEF ProbeOk, BreakersOK
  <2> QED
    BY <1>2, <2>1, OnlyBreakers DEF ProbeOk
<1>3. CASE ProbeFail(b)
  <2>1. b \in SelfHosted /\ UNCHANGED <<errors, trip_for>>
    BY <1>3 DEF ProbeFail
  <2>2. PICK n \in 0..ProbeThreshold : probe_failures' = [probe_failures EXCEPT ![b] = n]
    <3> DEFINE m == Least(probe_failures[b] + 1, ProbeThreshold)
    <3>1. probe_failures[b] \in 0..ProbeThreshold /\ ProbeThreshold \in Nat
      BY <1>1, GatewayConstants DEF BreakersOK
    <3>2. m \in 0..ProbeThreshold
      BY <3>1 DEF Least
    <3>3. probe_failures' = [probe_failures EXCEPT ![b] = m]
      BY <1>3 DEF ProbeFail
    <3> HIDE DEF m
    <3> QED
      BY <3>2, <3>3
  <2>3. open_for' = [open_for EXCEPT ![b] = OpenTicks] \/ open_for' = open_for
    BY <1>3 DEF ProbeFail
  <2>4. BreakersOK'
    BY <1>1, <2>1, <2>2, <2>3, GatewayConstants DEF BreakersOK
  <2> QED
    BY <1>3, <2>4, OnlyBreakers DEF ProbeFail
<1>4. CASE disable_backend(b)
  <2>1. PICK n \in Nat : open_for' = [open_for EXCEPT ![b] = n]
    BY <1>4, GatewayConstants DEF disable_backend
  <2>2. trip_for' = [trip_for EXCEPT ![b] = 0] /\ UNCHANGED <<errors, probe_failures>>
    BY <1>4 DEF disable_backend
  <2>3. BreakersOK'
    BY <1>1, <2>1, <2>2, GatewayConstants DEF BreakersOK
  <2> QED
    BY <1>4, <2>3, OnlyBreakers DEF disable_backend
<1> QED
  BY <1>2, <1>3, <1>4

LEMMA TickKeeps ==
  ASSUME GatewayInv, Tick PROVE GatewayInv'
<1>1. BreakersOK /\ OpenTicks \in Nat /\ SelfHosted \subseteq Backends
  BY GatewayConstants DEF GatewayInv
<1>2. /\ open_for' = Sooner(open_for) /\ trip_for' = Sooner(trip_for)
      /\ UNCHANGED <<errors, probe_failures>>
  BY DEF Tick
<1>3. open_for' \in [Backends -> Nat] /\ trip_for' \in [Backends -> 0..OpenTicks]
  BY <1>1, <1>2 DEF BreakersOK, Sooner
<1>4. ASSUME NEW b \in Backends \ SelfHosted PROVE trip_for'[b] <= open_for'[b]
  <2>1. trip_for[b] \in 0..OpenTicks /\ open_for[b] \in Nat /\ trip_for[b] <= open_for[b]
    BY <1>1 DEF BreakersOK
  <2> QED
    BY <1>1, <1>2, <2>1 DEF Sooner
<1>5. BreakersOK'
  BY <1>1, <1>2, <1>3, <1>4 DEF BreakersOK
<1> QED
  BY <1>5, OnlyBreakers DEF Tick

\* An idle gateway.
LEMMA GatewayInitially ==
  ASSUME Init PROVE GatewayInv
<1>1. \A b \in Backends : On(b) = {}
  BY DEF Init, On, Slotted, Streaming
<1>2. \A t \in Tenants : In(t) = {}
  BY DEF Init, In, Handled
<1>3. TablesOK
  BY GatewayConstants DEF Init, TablesOK, Slotted, Streaming
<1>4. TenantsExact
  BY <1>2, FS_EmptySet DEF Init, TenantsExact
<1>5. BackendsExact
  <2>1. inflight = [b \in Backends |-> 0]
    BY DEF Init
  <2>2. ASSUME NEW b \in Backends
        PROVE  inflight[b] = Cardinality(On(b)) /\ inflight[b] <= Capacity[b]
    <3>1. Cardinality(On(b)) = 0
      BY <1>1, FS_EmptySet
    <3>2. inflight[b] = 0 /\ Capacity[b] \in Nat
      BY <2>1, GatewayConstants
    <3> QED
      BY <3>1, <3>2
  <2> QED
    BY <2>1, <2>2 DEF BackendsExact
<1>6. BreakersOK
  BY GatewayConstants DEF Init, BreakersOK
<1> QED
  BY <1>3, <1>4, <1>5, <1>6 DEF GatewayInv

\* The inductive invariant of the gateway, for every set of requests, tenants
\* and backends.
THEOREM GatewayInvariant == Spec => []GatewayInv
<1>1. GatewayInv /\ [Next]_gwVars => GatewayInv'
  <2> SUFFICES ASSUME GatewayInv, [Next]_gwVars PROVE GatewayInv'
    OBVIOUS
  <2>1. ASSUME NEW r \in Requests,
               Admit(r) \/ Wake(r) \/ Returns(r) \/ FirstChunk(r) \/ EndStream(r)
        PROVE  GatewayInv'
    BY <2>1, AdmitKeeps, WakeKeeps, BackendErrorKeeps, RespondKeeps, OpenStreamKeeps,
       FirstChunkKeeps, EndStreamKeeps DEF Returns
  <2>2. ASSUME NEW b \in Backends, ProbeOk(b) \/ ProbeFail(b) \/ disable_backend(b)
        PROVE  GatewayInv'
    BY <2>2, ProbesKeep
  <2>3. CASE Tick
    BY <2>3, TickKeeps
  <2>4. CASE UNCHANGED gwVars
    <3>1. BreakersOK'
      BY <2>4, NothingHeard DEF gwVars
    <3> QED
      BY <2>4, <3>1, OnlyBreakers DEF gwVars
  <2> QED
    BY <2>1, <2>2, <2>3, <2>4 DEF Next
<1> QED
  BY <1>1, GatewayInitially, PTL DEF Spec

\* The tenants' and the backends' counters are exact and no backend is over its
\* capacity, whatever requests, retries and streams interleave, up to the
\* streams whose body never starts.
THEOREM CountersAreExact == Spec => []CountsExact
<1>1. GatewayInv => CountsExact
  BY DEF GatewayInv, CountsExact, GatewayTypeOK, TablesOK, TenantsExact, BackendsExact, BreakersOK,
         On, In
<1> QED
  BY <1>1, GatewayInvariant, PTL

-----------------------------------------------------------------------------
\* Only a turn of the attempt loop sends a request, to a candidate of its chain.
LEMMA SentToCandidate ==
  ASSUME GatewayInv, [Next]_gwVars, NEW r \in Requests, NEW b \in Backends, Sends(r, b)
  PROVE  b \in First(r)
<1>1. /\ st \in [Requests -> {"idle"} \cup Handled \cup Slotted] /\ st[r] # "sent" /\ st'[r] = "sent"
      /\ at \in [Requests -> Backends \cup {NoBackend}] /\ at'[r] = b
  BY DEF GatewayInv, TablesOK, Sends
<1>2. ASSUME NEW q \in Requests, NEW s, st' = [st EXCEPT ![q] = s], s # "sent" PROVE FALSE
  BY <1>1, <1>2
<1>3. ASSUME NEW q \in Requests, NEW s, Becomes(q, s), s # "sent" PROVE FALSE
  BY <1>2, <1>3 DEF Becomes
<1>4. ASSUME NEW q \in Requests, NEW c, NEW held, NextAttempt(q, c, held) PROVE FALSE
  <2>1. Becomes(q, "idle") \/ st' = [st EXCEPT ![q] = "backoff"]
    BY <1>4 DEF NextAttempt, LastResort
  <2> QED
    BY <1>2, <1>3, <2>1
<1>5. st' # st
  BY <1>1
<1>6. PICK q \in Requests :
        Admit(q) \/ Wake(q) \/ Returns(q) \/ FirstChunk(q) \/ EndStream(q)
  BY <1>5 DEF Next, ProbeOk, ProbeFail, disable_backend, Tick, gwVars, reqVars
<1>7. ~(Returns(q) \/ FirstChunk(q) \/ EndStream(q))
  <2>1. ~BackendError(q)
    BY <1>4 DEF BackendError
  <2>2. ~Respond(q) /\ ~EndStream(q)
    BY <1>3 DEF Respond, EndStream
  <2>3. ~OpenStream(q)
    BY <1>3 DEF OpenStream
  <2>4. ~FirstChunk(q)
    BY <1>2 DEF FirstChunk
  <2> QED
    BY <2>1, <2>2, <2>3, <2>4 DEF Returns
<1>8. PICK held : Try(q, held)
  BY <1>6, <1>7 DEF Admit, Wake
<1>9. PICK c \in First(q) : st' = [st EXCEPT ![q] = "sent"] /\ at' = [at EXCEPT ![q] = c]
  <2>1. ~NoCandidates(q, held)
    BY <1>3 DEF NoCandidates, LastResort
  <2>2. \A c : ~NextAttempt(q, c, held)
    BY <1>4
  <2> QED
    BY <1>8, <2>1, <2>2 DEF Try
<1>10. q = r
  BY <1>1, <1>9
<1> QED
  BY <1>1, <1>9, <1>10

\* Nothing is sent to a backend whose failures have tripped its breaker and
\* that no probe may close, for every threshold and cooldown.
THEOREM TrippedStayUnused == Spec => TrippedIsLeftAlone
<1>1. GatewayInv /\ [Next]_gwVars =>
        [\A r \in Requests, b \in Backends \ SelfHosted : Sends(r, b) => trip_for[b] = 0]_gwVars
  <2> SUFFICES ASSUME GatewayInv, [Next]_gwVars,
                      NEW r \in Requests, NEW b \in Backends \ SelfHosted, Sends(r, b)
               PROVE  trip_for[b] = 0
    OBVIOUS
  <2>1. open_for[b] = 0
    BY SentToCandidate DEF First, Untried, available
  <2>2. trip_for[b] \in Nat /\ trip_for[b] <= open_for[b]
    BY GatewayConstants DEF GatewayInv, BreakersOK
  <2> QED
    BY <2>1, <2>2
<1> QED
  BY <1>1, GatewayInvariant, PTL DEF Spec, TrippedIsLeftAlone

-----------------------------------------------------------------------------
(***************************************************************************)
(* What a tenant gets is accounted for, for every configuration of its     *)
(* limits, every estimate, every number of requests in the air and every   *)
(* horizon.                                                                *)
(*                                                                         *)
(* The requests are bounded because a refund never gives back more than    *)
(* the debit before it.  The tokens used are bounded but for what the      *)
(* floor of the bucket forgives.  When that is nothing takes an induction  *)
(* of its own: a request is admitted only to leave a bucket that is not in *)
(* debt, so the debt is at most one overrun for each request that is not   *)
(* in the air.                                                             *)
(***************************************************************************)

Bucket == [tokens : Int, last : Nat]
InAir == {r \in Metered : meter[r] # "new"}
Admitted == {r \in Metered : meter[r] = "admitted"}

\* The bucket's debt is at most one overrun for each request not in the air.
DebtBounded(overrun) ==
  tok.tokens >= -((Cardinality(Metered) - Cardinality(InAir)) * overrun)

QuotaInv ==
  /\ QuotaTypeOK
  /\ req \in Bucket /\ tok \in Bucket
  /\ \A r \in Metered : meter[r] # "new" => est[r] \in Estimates
  /\ SlotsExact /\ RequestQuota /\ TokenQuota /\ OverrunsArePaid
  /\ \A overrun \in 0..TokBurst : BurstCovers(overrun) => DebtBounded(overrun)

-----------------------------------------------------------------------------
\* The constants are numbers.
LEMMA QuotaConstants ==
  /\ MaxSlots \in Nat /\ Hour \in Nat /\ ReqBurst \in Nat /\ TokBurst \in Nat
  /\ ReqRate \in Nat /\ TokRate \in Nat /\ Horizon \in Nat
  /\ \A e \in Estimates : e \in Int
  /\ \A a \in Actuals : a \in Nat
  BY QuotaAssumption

\* Time times rate.
LEMMA Elapsed ==
  ASSUME NEW rate \in Nat, NEW from \in Nat, NEW to \in Nat, from <= to
  PROVE  /\ (to - from) * rate \in Nat
         /\ rate * to = rate * from + (to - from) * rate
         /\ rate * to \in Nat /\ rate * from \in Nat
  OBVIOUS

\* A refilled bucket holds no more than its capacity, no less than before unless
\* it is full, and gained at most the rate.
LEMMA RefillFacts ==
  ASSUME NEW b \in Bucket, NEW rate \in Nat, NEW capacity \in Nat,
         now \in Nat, b.last <= now
  PROVE  LET f == Refill(b, rate, capacity)
         IN /\ f \in Bucket /\ f.last = now
            /\ f.tokens >= Lesser(capacity, b.tokens) /\ f.tokens <= capacity
            /\ f.tokens - rate * f.last <= b.tokens - rate * b.last
<1> DEFINE gain == (now - b.last) * rate
           f == Refill(b, rate, capacity)
<1>1. b.tokens \in Int /\ b.last \in Nat
  BY DEF Bucket
<1>2. /\ gain \in Nat /\ rate * now = rate * b.last + gain
      /\ rate * now \in Nat /\ rate * b.last \in Nat
  BY <1>1, Elapsed
<1>3. f = [tokens |-> Lesser(capacity, b.tokens + gain), last |-> now]
  BY DEF Refill
<1> HIDE DEF gain, f
<1>4. f.last = now /\ f.tokens = Lesser(capacity, b.tokens + gain)
  BY <1>3
<1>5. /\ f.tokens \in Int /\ f.tokens >= Lesser(capacity, b.tokens)
      /\ f.tokens <= capacity /\ f.tokens <= b.tokens + gain
  BY <1>1, <1>2, <1>4 DEF Lesser
<1>6. f \in Bucket
  BY <1>3, <1>4, <1>5 DEF Bucket
<1>7. f.tokens - rate * f.last <= b.tokens - rate * b.last
  BY <1>1, <1>2, <1>4, <1>5
<1> QED
  BY <1>4, <1>5, <1>6, <1>7 DEF f

\* A debit and its refund, on a bucket.
LEMMA DebitFacts ==
  ASSUME NEW b \in Bucket, NEW n \in Int
  PROVE  /\ Debit(b, n) \in Bucket
         /\ Debit(b, n).tokens = b.tokens - n /\ Debit(b, n).last = b.last
  BY DEF Debit, Bucket
LEMMA RefundFacts ==
  ASSUME NEW b \in Bucket, b.tokens <= ReqBurst, b.tokens >= 1
  PROVE  /\ Refund(Debit(b, 1)) \in Bucket
         /\ Refund(Debit(b, 1)).tokens = b.tokens /\ Refund(Debit(b, 1)).last = b.last
<1>1. /\ Debit(b, 1) \in Bucket
      /\ Debit(b, 1).tokens = b.tokens - 1 /\ Debit(b, 1).last = b.last
  BY DebitFacts
<1>2. Lesser(ReqBurst, Debit(b, 1).tokens + 1) = b.tokens
  BY <1>1, QuotaConstants DEF Lesser, Bucket
<1>3. Refund(Debit(b, 1)) = [Debit(b, 1) EXCEPT !.tokens = b.tokens]
  BY <1>2 DEF Refund
<1> QED
  BY <1>1, <1>3 DEF Bucket

-----------------------------------------------------------------------------
\* Some of the requests are finitely many, and counted.
LEMMA SomeFinite ==
  ASSUME NEW S \in SUBSET Metered
  PROVE  /\ IsFiniteSet(S) /\ Cardinality(S) \in Nat /\ Cardinality(S) <= Cardinality(Metered)
         /\ Cardinality(Metered) \in Nat
         /\ \A r \in Metered \ S : Cardinality(S \cup {r}) = Cardinality(S) + 1
         /\ \A r \in S : Cardinality(S \ {r}) = Cardinality(S) - 1 /\ Cardinality(S) >= 1
<1>1. IsFiniteSet(Metered)
  BY QuotaAssumption
<1>2. /\ IsFiniteSet(S) /\ Cardinality(S) \in Nat /\ Cardinality(S) <= Cardinality(Metered)
      /\ Cardinality(Metered) \in Nat
  BY <1>1, FS_Subset, FS_CardinalityType
<1>3. ASSUME NEW r \in Metered \ S PROVE Cardinality(S \cup {r}) = Cardinality(S) + 1
  BY <1>2, <1>3, FS_AddElement
<1>4. ASSUME NEW r \in S PROVE Cardinality(S \ {r}) = Cardinality(S) - 1 /\ Cardinality(S) >= 1
  <2>1. Cardinality(S \ {r}) = Cardinality(S) - 1 /\ IsFiniteSet(S \ {r})
    BY <1>2, FS_RemoveElement
  <2>2. Cardinality(S \ {r}) \in Nat
    BY <2>1, FS_CardinalityType
  <2> QED
    BY <1>2, <2>1, <2>2
<1> QED
  BY <1>2, <1>3, <1>4

\* The bound on the debt is a number, at most the whole burst, and grows by one
\* overrun for each request that leaves the air.
LEMMA Overruns ==
  ASSUME NEW c \in Nat, NEW k \in Nat, k <= c, NEW m \in Nat
  PROVE  /\ (c - k) * m \in Nat /\ c * m \in Nat /\ (c - k) * m <= c * m
         /\ k >= 1 => (c - (k - 1)) * m = (c - k) * m + m
<1>1. (c - k) * m \in Nat /\ c * m \in Nat /\ k * m \in Nat
  OBVIOUS
<1>2. (c - k) * m = c * m - k * m
  OBVIOUS
<1>3. (c - (k - 1)) * m = (c - k) * m + m
  OBVIOUS
<1> QED
  BY <1>1, <1>2, <1>3

-----------------------------------------------------------------------------
\* What a check leaves in the request bucket: what is admitted was taken from it.
LEMMA CheckRequests ==
  ASSUME QuotaInv, NEW r \in Metered, Check(r)
  PROVE  /\ req' \in Bucket /\ req'.tokens \in 0..ReqBurst /\ req'.last \in 0..now
         /\ admissions' + req'.tokens <= ReqBurst + ReqRate * req'.last
         /\ admissions' \in Nat
<1> DEFINE rq == Refill(req, ReqRate, ReqBurst)
           tk == Refill(tok, TokRate, TokBurst)
<1>1. /\ req \in Bucket /\ req.tokens \in 0..ReqBurst /\ req.last \in 0..now /\ now \in Nat
      /\ admissions \in Nat /\ admissions + req.tokens <= ReqBurst + ReqRate * req.last
      /\ ReqBurst \in Nat /\ ReqRate \in Nat
  BY QuotaConstants DEF QuotaInv, QuotaTypeOK, RequestQuota
<1>2. /\ rq \in Bucket /\ rq.last = now /\ rq.tokens <= ReqBurst
      /\ rq.tokens >= Lesser(ReqBurst, req.tokens)
      /\ rq.tokens - ReqRate * rq.last <= req.tokens - ReqRate * req.last
  BY <1>1, RefillFacts
<1>3. /\ ReqRate * req.last \in Nat /\ ReqRate * rq.last \in Nat /\ rq.tokens \in Int
      /\ rq.tokens >= req.tokens
  <2>1. rq.tokens >= req.tokens
    BY <1>1, <1>2 DEF Lesser, Bucket
  <2> QED
    BY <1>1, <1>2, <2>1, Elapsed DEF Bucket
<1>4. /\ Debit(rq, 1) \in Bucket
      /\ Debit(rq, 1).tokens = rq.tokens - 1 /\ Debit(rq, 1).last = rq.last
  BY <1>2, DebitFacts
<1>5. rq.tokens >= 1 =>
        /\ Refund(Debit(rq, 1)) \in Bucket
        /\ Refund(Debit(rq, 1)).tokens = rq.tokens /\ Refund(Debit(rq, 1)).last = rq.last
  BY <1>2, RefundFacts
<1>6. \/ admissions' = admissions /\ req' = req
      \/ admissions' = admissions /\ req' = rq
      \/ admissions' = admissions /\ rq.tokens >= 1 /\ req' = Refund(Debit(rq, 1))
      \/ admissions' = admissions + 1 /\ rq.tokens >= 1 /\ req' = Debit(rq, 1)
  BY <1>1 DEF Check
<1> HIDE DEF rq
<1>7. CASE admissions' = admissions /\ req' = req
  BY <1>1, <1>7
<1>8. CASE admissions' = admissions /\ req' = rq
  BY <1>1, <1>2, <1>3, <1>8
<1>9. CASE admissions' = admissions /\ rq.tokens >= 1 /\ req' = Refund(Debit(rq, 1))
  BY <1>1, <1>2, <1>3, <1>5, <1>9
<1>10. CASE admissions' = admissions + 1 /\ rq.tokens >= 1 /\ req' = Debit(rq, 1)
  BY <1>1, <1>2, <1>3, <1>4, <1>10
<1> QED
  BY <1>6, <1>7, <1>8, <1>9, <1>10

\* What a check leaves in the token bucket: what is admitted is used, and
\* admitted only by a bucket that is not in debt.
LEMMA CheckTokens ==
  ASSUME QuotaInv, NEW r \in Metered, Check(r)
  PROVE  /\ tok' \in Bucket /\ tok'.tokens >= -TokBurst /\ tok'.last \in 0..now
         /\ used' \in Int
         /\ used' + tok'.tokens <= TokBurst + TokRate * tok'.last + forgiven + minted
         /\ tok'.tokens >= 0 \/ (meter' = meter /\ tok'.tokens >= tok.tokens)
<1> DEFINE rq == Refill(req, ReqRate, ReqBurst)
           tk == Refill(tok, TokRate, TokBurst)
<1>1. /\ tok \in Bucket /\ tok.tokens >= -TokBurst /\ tok.last \in 0..now /\ now \in Nat
      /\ used \in Int /\ TokBurst \in Nat /\ TokRate \in Nat /\ forgiven \in Nat /\ minted \in Nat
      /\ used + tok.tokens <= TokBurst + TokRate * tok.last + forgiven + minted
      /\ meter \in [Metered -> {"new", "admitted", "streaming"}]
  BY QuotaConstants DEF QuotaInv, QuotaTypeOK, TokenQuota
<1>2. /\ tk \in Bucket /\ tk.last = now /\ tk.tokens >= Lesser(TokBurst, tok.tokens)
      /\ tk.tokens - TokRate * tk.last <= tok.tokens - TokRate * tok.last
  BY <1>1, RefillFacts
<1>3. /\ TokRate * tok.last \in Nat /\ TokRate * tk.last \in Nat
      /\ tk.tokens \in Int /\ tok.tokens \in Int
      /\ tk.tokens >= 0 \/ tk.tokens >= tok.tokens
  <2>1. tk.tokens >= 0 \/ tk.tokens >= tok.tokens
    BY <1>1, <1>2 DEF Lesser, Bucket
  <2> QED
    BY <1>1, <1>2, <2>1, Elapsed DEF Bucket
<1>4. meter[r] = "new" /\ [meter EXCEPT ![r] = "new"] = meter
  BY <1>1 DEF Check
<1>5. \/ used' = used /\ tok' = tok /\ meter' = meter
      \/ used' = used /\ tok' = tk /\ meter' = meter
      \/ \E n \in Estimates : used' = used + n /\ tk.tokens >= n /\ tok' = Debit(tk, n)
  BY <1>1, <1>4 DEF Check
<1> HIDE DEF tk
<1>6. CASE used' = used /\ tok' = tok /\ meter' = meter
  BY <1>1, <1>3, <1>6
<1>7. CASE used' = used /\ tok' = tk /\ meter' = meter
  BY <1>1, <1>2, <1>3, <1>7
<1>8. ASSUME NEW n \in Estimates, used' = used + n, tk.tokens >= n, tok' = Debit(tk, n)
      PROVE  /\ tok' \in Bucket /\ tok'.tokens >= 0 /\ tok'.last = now
             /\ used' \in Int
             /\ used' + tok'.tokens <= TokBurst + TokRate * tok'.last + forgiven + minted
  <2>1. n \in Int
    BY QuotaConstants
  <2>2. tok' \in Bucket /\ tok'.tokens = tk.tokens - n /\ tok'.last = tk.last
    BY <1>2, <1>8, <2>1, DebitFacts
  <2>3. used' \in Int /\ tok'.tokens >= 0 /\ used' + tok'.tokens = used + tk.tokens
    BY <1>1, <1>3, <1>8, <2>1, <2>2
  <2>4. TokRate * tok'.last = TokRate * tk.last
    BY <2>2
  <2>5. used' + tok'.tokens <= TokBurst + TokRate * tok'.last + forgiven + minted
    BY <1>1, <1>2, <1>3, <2>3, <2>4
  <2> QED
    BY <1>2, <2>2, <2>3, <2>5
<1>9. CASE \E n \in Estimates : used' = used + n /\ tk.tokens >= n /\ tok' = Debit(tk, n)
  <2>1. tok'.last \in 0..now /\ tok'.tokens >= -TokBurst
    BY <1>1, <1>8, <1>9 DEF Bucket
  <2> QED
    BY <1>8, <1>9, <2>1
<1> QED
  BY <1>5, <1>6, <1>7, <1>9

\* What a check leaves in the table of requests.
LEMMA CheckTable ==
  ASSUME QuotaInv, NEW r \in Metered, Check(r)
  PROVE  /\ slots' \in 0..MaxSlots /\ SlotsExact'
         /\ spent_usd' \in Int /\ window_start' \in 0..now
         /\ meter' \in [Metered -> {"new", "admitted", "streaming"}]
         /\ est' \in [Metered -> Int]
         /\ \A q \in Metered : meter'[q] # "new" => est'[q] \in Estimates
<1>1. /\ meter \in [Metered -> {"new", "admitted", "streaming"}] /\ est \in [Metered -> Int]
      /\ \A q \in Metered : meter[q] # "new" => est[q] \in Estimates
      /\ slots \in 0..MaxSlots /\ slots = Cardinality(Admitted) /\ MaxSlots \in Nat
      /\ spent_usd \in Int /\ window_start \in 0..now /\ now \in Nat
  BY QuotaConstants DEF QuotaInv, QuotaTypeOK, SlotsExact, Admitted
<1>2. meter[r] = "new" /\ [meter EXCEPT ![r] = "new"] = meter
  BY <1>1 DEF Check
<1>3. spent_usd' \in Int /\ window_start' \in 0..now
  BY <1>1 DEF Check, Spent
<1>4. \/ slots' = slots /\ meter' = meter /\ est' = [est EXCEPT ![r] = 0]
      \/ \E n \in Estimates : /\ slots < MaxSlots /\ slots' = slots + 1
                              /\ meter' = [meter EXCEPT ![r] = "admitted"]
                              /\ est' = [est EXCEPT ![r] = n]
  <2>1. PICK n \in Estimates, ok \in BOOLEAN :
          /\ ok => ~(slots >= MaxSlots)
          /\ slots' = slots + (IF ok THEN 1 ELSE 0)
          /\ meter' = [meter EXCEPT ![r] = IF ok THEN "admitted" ELSE "new"]
          /\ est' = [est EXCEPT ![r] = IF ok THEN n ELSE 0]
    BY DEF Check
  <2>2. CASE ok
    <3>1. slots < MaxSlots
      BY <1>1, <2>1, <2>2
    <3>2. /\ slots' = slots + 1 /\ meter' = [meter EXCEPT ![r] = "admitted"]
          /\ est' = [est EXCEPT ![r] = n]
      BY <2>1, <2>2
    <3> QED
      BY <3>1, <3>2
  <2>3. CASE ~ok
    <3>1. slots' = slots + 0 /\ meter' = [meter EXCEPT ![r] = "new"] /\ est' = [est EXCEPT ![r] = 0]
      BY <2>1, <2>3
    <3> QED
      BY <1>1, <1>2, <3>1
  <2> QED
    BY <2>2, <2>3
<1>5. CASE slots' = slots /\ meter' = meter /\ est' = [est EXCEPT ![r] = 0]
  BY <1>1, <1>2, <1>3, <1>5 DEF SlotsExact, Admitted
<1>6. ASSUME NEW n \in Estimates, slots < MaxSlots, slots' = slots + 1,
             meter' = [meter EXCEPT ![r] = "admitted"], est' = [est EXCEPT ![r] = n]
      PROVE  /\ slots' \in 0..MaxSlots /\ SlotsExact'
             /\ meter' \in [Metered -> {"new", "admitted", "streaming"}]
             /\ est' \in [Metered -> Int]
             /\ \A q \in Metered : meter'[q] # "new" => est'[q] \in Estimates
  <2>1. Admitted \in SUBSET Metered /\ r \in Metered \ Admitted
    BY <1>2 DEF Admitted
  <2>2. {q \in Metered : meter'[q] = "admitted"} = Admitted \cup {r}
    BY <1>1, <1>6 DEF Admitted
  <2>3. SlotsExact'
    BY <1>1, <1>6, <2>1, <2>2, SomeFinite DEF SlotsExact
  <2>4. est' \in [Metered -> Int] /\ \A q \in Metered : meter'[q] # "new" => est'[q] \in Estimates
    BY <1>1, <1>6, QuotaConstants
  <2> QED
    BY <1>1, <1>6, <2>3, <2>4
<1> QED
  BY <1>3, <1>4, <1>5, <1>6

\* A bucket that is not in debt meets every bound on the debt, and so does one
\* that holds no less while the same requests are in the air.
LEMMA CheckDebt ==
  ASSUME QuotaInv, NEW r \in Metered, Check(r), NEW m \in 0..TokBurst, BurstCovers(m)
  PROVE  DebtBounded(m)'
<1>1. tok'.tokens \in Int /\ (tok'.tokens >= 0 \/ (meter' = meter /\ tok'.tokens >= tok.tokens))
  BY CheckTokens DEF Bucket
<1>2. DebtBounded(m) /\ m \in Nat /\ tok.tokens \in Int
  BY QuotaConstants DEF QuotaInv, Bucket
<1>3. InAir' \in SUBSET Metered /\ InAir \in SUBSET Metered
  BY DEF InAir
<1>4. /\ (Cardinality(Metered) - Cardinality(InAir')) * m \in Nat
      /\ (Cardinality(Metered) - Cardinality(InAir)) * m \in Nat
  BY <1>2, <1>3, SomeFinite, Overruns
<1>5. CASE tok'.tokens >= 0
  BY <1>1, <1>4, <1>5 DEF DebtBounded
<1>6. CASE meter' = meter /\ tok'.tokens >= tok.tokens
  BY <1>1, <1>2, <1>4, <1>6 DEF DebtBounded, InAir
<1> QED
  BY <1>1, <1>5, <1>6

\* A check keeps the invariant.
LEMMA CheckKeeps ==
  ASSUME QuotaInv, NEW r \in Metered, Check(r) PROVE QuotaInv'
<1>1. /\ now' = now /\ now \in 0..Horizon
      /\ longest' = longest /\ longest \in Actuals /\ forgiven' = forgiven /\ forgiven \in Nat
      /\ minted' = minted /\ minted \in Nat
  BY DEF Check, QuotaInv, QuotaTypeOK
<1>2. QuotaTypeOK'
  <2>1. req'.last \in 0..now /\ tok'.last \in 0..now /\ window_start' \in 0..now
    BY CheckRequests, CheckTokens, CheckTable
  <2> QED
    BY <1>1, <2>1, CheckRequests, CheckTokens, CheckTable DEF QuotaTypeOK, Bucket
<1>3. RequestQuota'
  BY CheckRequests DEF RequestQuota
<1>4. TokenQuota' /\ OverrunsArePaid'
  BY <1>1, CheckTokens DEF TokenQuota, OverrunsArePaid, QuotaInv, BurstCovers
<1>5. \A m \in 0..TokBurst : BurstCovers(m)' => DebtBounded(m)'
  BY <1>1, CheckDebt DEF BurstCovers
<1> QED
  BY <1>2, <1>3, <1>4, <1>5, CheckRequests, CheckTokens, CheckTable DEF QuotaInv

-----------------------------------------------------------------------------
\* What is settled, and whether it is.
Settling(delta, usd, gift) ==
  (\E g \in {0, gift} : settle(delta, usd, g)) \/ Unsettled(gift)

\* The bound on the debt, before and after a request leaves the air.
LEMMA DebtGrows ==
  ASSUME QuotaInv, NEW r \in InAir, NEW m \in 0..TokBurst, BurstCovers(m)
  PROVE  LET d == (Cardinality(Metered) - Cardinality(InAir)) * m
             e == (Cardinality(Metered) - (Cardinality(InAir) - 1)) * m
         IN d \in Nat /\ e \in Nat /\ e = d + m /\ e <= TokBurst /\ tok.tokens >= -d
<1>1. InAir \in SUBSET Metered /\ TokBurst \in Nat
  BY QuotaConstants DEF InAir
<1>2. /\ Cardinality(InAir) \in Nat /\ Cardinality(Metered) \in Nat
      /\ Cardinality(InAir) <= Cardinality(Metered) /\ Cardinality(InAir) >= 1
  BY <1>1, SomeFinite
<1>3. /\ (Cardinality(Metered) - Cardinality(InAir)) * m \in Nat
      /\ (Cardinality(Metered) - (Cardinality(InAir) - 1)) * m
           = (Cardinality(Metered) - Cardinality(InAir)) * m + m
  BY <1>1, <1>2, Overruns
<1>4. /\ (Cardinality(Metered) - (Cardinality(InAir) - 1)) * m <= Cardinality(Metered) * m
      /\ Cardinality(Metered) * m \in Nat
  <2>1. Cardinality(InAir) - 1 \in Nat /\ Cardinality(InAir) - 1 <= Cardinality(Metered)
    BY <1>2
  <2> QED
    BY <2>1, <1>1, <1>2, Overruns
<1>5. Cardinality(Metered) * m <= TokBurst
  BY DEF BurstCovers
<1>6. DebtBounded(m)
  BY DEF QuotaInv
<1> QED
  BY <1>1, <1>3, <1>4, <1>5, <1>6 DEF DebtBounded

\* What settling leaves in the token bucket: an overrun is taken whole, but for
\* what the floor forgives, ...
LEMMA SettleTokens ==
  ASSUME QuotaInv, NEW delta \in Int, NEW usd \in Int, NEW gift \in Nat, Settling(delta, usd, gift)
  PROVE  /\ tok' \in Bucket /\ tok'.tokens >= -TokBurst /\ tok'.last = tok.last
         /\ spent_usd' \in Int /\ used' \in Int /\ forgiven' \in Nat /\ minted' \in Nat
         /\ minted' \in {minted, minted + gift}
         /\ used' + tok'.tokens - forgiven' - minted' <= used + tok.tokens - forgiven - minted
<1>1. /\ tok \in Bucket /\ tok.tokens >= -TokBurst /\ TokBurst \in Nat /\ tok.tokens \in Int
      /\ used \in Int /\ spent_usd \in Int /\ forgiven \in Nat /\ minted \in Nat
  BY QuotaConstants DEF QuotaInv, QuotaTypeOK
<1>2. CASE Unsettled(gift)
  BY <1>1, <1>2 DEF Unsettled
<1>3. ASSUME NEW g \in {0, gift}, settle(delta, usd, g)
      PROVE  /\ tok' \in Bucket /\ tok'.tokens >= -TokBurst /\ tok'.last = tok.last
             /\ spent_usd' \in Int /\ used' \in Int /\ forgiven' \in Nat /\ minted' \in Nat
             /\ minted' \in {minted, minted + gift}
             /\ used' + tok'.tokens - forgiven' - minted' <= used + tok.tokens - forgiven - minted
  <2>1. /\ tok' = Settled(tok, delta)
        /\ spent_usd' = spent_usd + usd /\ used' = used + delta + g /\ minted' = minted + g
        /\ forgiven' = forgiven + Larger(0, delta - tok.tokens - TokBurst)
    BY <1>3 DEF settle
  <2>2. /\ tok' \in Bucket /\ tok'.last = tok.last
        /\ tok'.tokens = IF delta > 0 THEN Larger(tok.tokens - delta, -TokBurst)
                         ELSE Lesser(TokBurst, tok.tokens - delta)
    BY <1>1, <2>1 DEF Settled, Bucket, Larger, Lesser
  <2>3. tok'.tokens >= -TokBurst /\ tok'.tokens \in Int
    BY <1>1, <2>2 DEF Larger, Lesser
  <2>4. forgiven' \in Nat
    BY <1>1, <2>1 DEF Larger
  <2>5. used' + tok'.tokens - forgiven' - minted' <= used + tok.tokens - forgiven - minted
    BY <1>1, <2>1, <2>2 DEF Larger, Lesser
  <2> QED
    BY <1>1, <2>1, <2>2, <2>3, <2>4, <2>5
<1> QED
  BY <1>2, <1>3 DEF Settling

\* ... and that is nothing while the burst covers what the requests in the air
\* may overrun by.
LEMMA SettleDebt ==
  ASSUME QuotaInv, NEW r \in InAir, NEW delta \in Int, NEW usd \in Int, NEW gift \in Nat,
         Settling(delta, usd, gift), NEW m \in 0..TokBurst, BurstCovers(m), delta <= m
  PROVE  /\ forgiven' = forgiven
         /\ tok'.tokens >= -((Cardinality(Metered) - (Cardinality(InAir) - 1)) * m)
<1> DEFINE d == (Cardinality(Metered) - Cardinality(InAir)) * m
           e == (Cardinality(Metered) - (Cardinality(InAir) - 1)) * m
<1>1. /\ tok \in Bucket /\ TokBurst \in Nat /\ tok.tokens \in Int
      /\ forgiven \in Nat /\ m \in Nat
  BY QuotaConstants DEF QuotaInv, QuotaTypeOK
<1>2. d \in Nat /\ e \in Nat /\ e = d + m /\ e <= TokBurst /\ tok.tokens >= -d
  BY DebtGrows
<1> HIDE DEF d, e
<1>3. ASSUME Unsettled(gift)
      PROVE  forgiven' = forgiven /\ tok'.tokens >= -e
  <2>1. tok' = tok /\ forgiven' = forgiven
    BY <1>3 DEF Unsettled
  <2>2. tok'.tokens >= -e
    BY <1>1, <1>2, <2>1
  <2> QED
    BY <2>1, <2>2
<1>4. ASSUME NEW g \in {0, gift}, settle(delta, usd, g)
      PROVE  forgiven' = forgiven /\ tok'.tokens >= -e
  <2>1. tok' = Settled(tok, delta) /\ forgiven' = forgiven + Larger(0, delta - tok.tokens - TokBurst)
    BY <1>4 DEF settle
  <2>2. tok'.tokens = IF delta > 0 THEN Larger(tok.tokens - delta, -TokBurst)
                      ELSE Lesser(TokBurst, tok.tokens - delta)
    BY <1>1, <2>1 DEF Settled, Bucket
  <2>3. Larger(0, delta - tok.tokens - TokBurst) = 0
    BY <1>1, <1>2 DEF Larger
  <2>4. forgiven' = forgiven
    BY <1>1, <2>1, <2>3
  <2>5. tok'.tokens >= -e
    BY <1>1, <1>2, <2>2 DEF Larger, Lesser
  <2> QED
    BY <2>4, <2>5
<1> QED
  BY <1>3, <1>4 DEF Settling, e

\* A request that leaves the air leaves the rest of the table alone.
LEMMA SettleTable ==
  ASSUME QuotaInv, NEW r \in InAir,
         meter' = [meter EXCEPT ![r] = "new"], est' = [est EXCEPT ![r] = 0]
  PROVE  /\ meter' \in [Metered -> {"new", "admitted", "streaming"}]
         /\ est' \in [Metered -> Int]
         /\ \A q \in Metered : meter'[q] # "new" => est'[q] \in Estimates
         /\ Cardinality(InAir') = Cardinality(InAir) - 1
         /\ {q \in Metered : meter'[q] = "admitted"} = Admitted \ {r}
<1>1. /\ meter \in [Metered -> {"new", "admitted", "streaming"}] /\ est \in [Metered -> Int]
      /\ \A q \in Metered : meter[q] # "new" => est[q] \in Estimates
      /\ InAir \in SUBSET Metered
  BY DEF QuotaInv, QuotaTypeOK, InAir
<1>2. InAir' = InAir \ {r}
  BY <1>1 DEF InAir
<1>3. {q \in Metered : meter'[q] = "admitted"} = Admitted \ {r}
  BY <1>1 DEF Admitted
<1> QED
  BY <1>1, <1>2, <1>3, SomeFinite

\* The two settlements differ in the slot and in the overrun only.
LEMMA SettlementKeeps ==
  ASSUME QuotaInv, NEW r \in InAir, NEW delta \in Int, NEW usd \in Int, NEW gift \in Nat,
         Settling(delta, usd, gift), Estimates \subseteq Nat => gift = 0,
         \A m \in 0..TokBurst : BurstCovers(m) => delta <= m,
         meter' = [meter EXCEPT ![r] = "new"], est' = [est EXCEPT ![r] = 0],
         UNCHANGED <<now, req, window_start, longest, admissions>>,
         slots' \in 0..MaxSlots, SlotsExact'
  PROVE  QuotaInv'
<1>1. QuotaTypeOK'
  <2>1. /\ now' \in 0..Horizon /\ req'.tokens \in 0..ReqBurst
        /\ {req'.last, tok'.last, window_start'} \subseteq 0..now'
        /\ admissions' \in Nat /\ longest' \in Actuals
    BY SettleTokens DEF QuotaInv, QuotaTypeOK
  <2>2. tok'.tokens \in Int /\ tok'.tokens >= -TokBurst
    BY SettleTokens DEF Bucket
  <2>3. spent_usd' \in Int /\ used' \in Int /\ forgiven' \in Nat /\ minted' \in Nat
    BY SettleTokens
  <2>4. /\ meter' \in [Metered -> {"new", "admitted", "streaming"}]
        /\ est' \in [Metered -> Int]
    BY SettleTable
  <2> QED
    BY <2>1, <2>2, <2>3, <2>4 DEF QuotaTypeOK
<1>2. RequestQuota'
  BY DEF QuotaInv, RequestQuota
<1>3. /\ used \in Int /\ used' \in Int /\ tok.tokens \in Int /\ tok'.tokens \in Int
      /\ forgiven \in Nat /\ forgiven' \in Nat /\ minted \in Nat /\ minted' \in Nat
      /\ tok'.last = tok.last /\ TokRate * tok.last \in Nat /\ TokBurst \in Nat
  <2>1. TokRate \in Nat /\ tok.last \in Nat /\ TokBurst \in Nat
    BY QuotaConstants DEF QuotaInv, Bucket
  <2>2. TokRate * tok.last \in Nat
    BY <2>1
  <2> QED
    BY <2>1, <2>2, SettleTokens DEF QuotaInv, QuotaTypeOK, Bucket
<1>4. TokenQuota'
  <2>1. used' + tok'.tokens - forgiven' - minted' <= used + tok.tokens - forgiven - minted
    BY SettleTokens
  <2>2. used + tok.tokens <= TokBurst + TokRate * tok.last + forgiven + minted
    BY DEF QuotaInv, TokenQuota
  <2>3. used' + tok'.tokens <= TokBurst + TokRate * tok'.last + forgiven' + minted'
    BY <1>3, <2>1, <2>2
  <2> QED
    BY <2>3 DEF TokenQuota
<1>5. OverrunsArePaid'
  <2>1. ASSUME NEW m \in 0..TokBurst, BurstCovers(m) PROVE forgiven' = 0
    <3>1. forgiven = 0
      BY <2>1 DEF QuotaInv, OverrunsArePaid
    <3> QED
      BY <2>1, <3>1, SettleDebt
  <2>2. Estimates \subseteq Nat => minted' = 0
    BY <1>3, SettleTokens DEF QuotaInv, OverrunsArePaid
  <2> QED
    BY <2>1, <2>2 DEF OverrunsArePaid, BurstCovers
<1>6. \A m \in 0..TokBurst : BurstCovers(m)' => DebtBounded(m)'
  <2>1. ASSUME NEW m \in 0..TokBurst, BurstCovers(m)
        PROVE  tok'.tokens >= -((Cardinality(Metered) - (Cardinality(InAir) - 1)) * m)
    BY <2>1, SettleDebt
  <2> QED
    BY <2>1, SettleTable DEF BurstCovers, DebtBounded
<1> QED
  BY <1>1, <1>2, <1>4, <1>5, <1>6, SettleTokens, SettleTable DEF QuotaInv

\* What a request overruns its estimate by, as a plain response and as a stream.
LEMMA Overrun ==
  ASSUME QuotaInv, NEW r \in InAir, NEW n \in Outputs, NEW m \in 0..TokBurst, BurstCovers(m)
  PROVE  n <= m /\ n - est[r] <= m
<1>1. est[r] \in Estimates /\ longest \in Actuals
  BY DEF QuotaInv, QuotaTypeOK, InAir
<1>2. est[r] \in Int /\ longest \in Nat /\ n \in Nat /\ n <= longest /\ m \in Int
  BY <1>1, QuotaConstants DEF Outputs
<1>3. longest <= m /\ longest - est[r] <= m
  BY <1>1 DEF BurstCovers
<1> QED
  BY <1>2, <1>3

\* Only an estimate below zero gives anything away.
LEMMA GiftsAreNegative ==
  ASSUME QuotaInv, NEW r \in InAir
  PROVE  Gift(r) \in Nat /\ (Estimates \subseteq Nat => Gift(r) = 0)
<1>1. est[r] \in Estimates /\ est[r] \in Int
  BY QuotaConstants DEF QuotaInv, InAir
<1> QED
  BY <1>1 DEF Gift, Larger

\* A plain response gives its slot back when it settles.
LEMMA SettlePlainKeeps ==
  ASSUME QuotaInv, NEW r \in Metered, SettlePlain(r) PROVE QuotaInv'
<1>1. r \in InAir /\ r \in Admitted /\ Admitted \in SUBSET Metered
  BY DEF SettlePlain, InAir, Admitted
<1>2. Cardinality(Admitted) >= 1 /\ Cardinality(Admitted \ {r}) = Cardinality(Admitted) - 1
  BY <1>1, SomeFinite
<1>3. slots = Cardinality(Admitted) /\ slots \in 0..MaxSlots /\ MaxSlots \in Nat
  BY QuotaConstants DEF QuotaInv, QuotaTypeOK, SlotsExact, Admitted
<1>4. slots' = slots - 1 /\ meter' = [meter EXCEPT ![r] = "new"] /\ est' = [est EXCEPT ![r] = 0]
  BY DEF SettlePlain
<1>5. slots' \in 0..MaxSlots
  BY <1>2, <1>3, <1>4
<1>6. SlotsExact'
  BY <1>1, <1>2, <1>3, <1>4, SettleTable DEF SlotsExact
<1>7. UNCHANGED <<now, req, window_start, longest, admissions>>
  BY DEF SettlePlain
<1>8. PICK n \in Outputs \cup {0} : Settling(IF n = 0 THEN 0 ELSE n - est[r], n, Gift(r))
  BY DEF SettlePlain, Settling
<1> DEFINE delta == IF n = 0 THEN 0 ELSE n - est[r]
<1>9. n \in Int /\ delta \in Int
  BY <1>1, QuotaConstants DEF Outputs, QuotaInv, QuotaTypeOK
<1>10. \A m \in 0..TokBurst : BurstCovers(m) => delta <= m
  BY <1>1, Overrun
<1> HIDE DEF delta
<1>11. Settling(delta, n, Gift(r))
  BY <1>8 DEF delta
<1>12. Gift(r) \in Nat /\ (Estimates \subseteq Nat => Gift(r) = 0)
  BY <1>1, GiftsAreNegative
<1> QED
  BY <1>1, <1>4, <1>5, <1>6, <1>7, <1>9, <1>10, <1>11, <1>12, SettlementKeeps

\* A stream gave its slot back before.
LEMMA SettleStreamKeeps ==
  ASSUME QuotaInv, NEW r \in Metered, SettleStream(r) PROVE QuotaInv'
<1>1. r \in InAir /\ r \notin Admitted
  BY DEF SettleStream, InAir, Admitted
<1>2. slots' = slots /\ meter' = [meter EXCEPT ![r] = "new"] /\ est' = [est EXCEPT ![r] = 0]
  BY DEF SettleStream
<1>3. slots = Cardinality(Admitted) /\ slots \in 0..MaxSlots
  BY DEF QuotaInv, QuotaTypeOK, SlotsExact, Admitted
<1>4. SlotsExact'
  <2>1. Admitted \ {r} = Admitted
    BY <1>1
  <2> QED
    BY <1>1, <1>2, <1>3, <2>1, SettleTable DEF SlotsExact
<1>5. UNCHANGED <<now, req, window_start, longest, admissions>>
  BY DEF SettleStream
<1>6. PICK n \in Outputs \cup {0} : Settling(n, est[r] + n, Gift(r))
  BY DEF SettleStream, Settling
<1>7. n \in Int /\ est[r] + n \in Int
  BY <1>1, QuotaConstants DEF Outputs, QuotaInv, QuotaTypeOK, InAir
<1>8. \A m \in 0..TokBurst : BurstCovers(m) => n <= m
  BY <1>1, Overrun
<1>9. Gift(r) \in Nat /\ (Estimates \subseteq Nat => Gift(r) = 0)
  BY <1>1, GiftsAreNegative
<1> QED
  BY <1>1, <1>2, <1>3, <1>4, <1>5, <1>6, <1>7, <1>8, <1>9, SettlementKeeps

\* A stream that gives its slot back stays in the air.
LEMMA ReleaseStreamKeeps ==
  ASSUME QuotaInv, NEW r \in Metered, ReleaseStream(r) PROVE QuotaInv'
<1>1. /\ meter \in [Metered -> {"new", "admitted", "streaming"}] /\ est \in [Metered -> Int]
      /\ meter[r] = "admitted" /\ meter' = [meter EXCEPT ![r] = "streaming"] /\ slots' = slots - 1
      /\ UNCHANGED <<now, req, tok, spent_usd, window_start, est, longest, admissions, used, forgiven, minted>>
      /\ slots = Cardinality(Admitted) /\ slots \in 0..MaxSlots /\ MaxSlots \in Nat
  BY QuotaConstants DEF ReleaseStream, bucketVars, history, QuotaInv, QuotaTypeOK, SlotsExact, Admitted
<1>2. r \in Admitted /\ Admitted \in SUBSET Metered
  BY <1>1 DEF Admitted
<1>3. Cardinality(Admitted) >= 1 /\ Cardinality(Admitted \ {r}) = Cardinality(Admitted) - 1
  BY <1>2, SomeFinite
<1>4. {q \in Metered : meter'[q] = "admitted"} = Admitted \ {r}
  BY <1>1 DEF Admitted
<1>5. SlotsExact' /\ slots' \in 0..MaxSlots
  BY <1>1, <1>3, <1>4 DEF SlotsExact
<1>6. InAir' = InAir
  BY <1>1 DEF InAir
<1>7. meter' \in [Metered -> {"new", "admitted", "streaming"}]
  BY <1>1
<1>8. QuotaTypeOK'
  BY <1>1, <1>5, <1>7 DEF QuotaInv, QuotaTypeOK
<1>9. \A q \in Metered : meter'[q] # "new" => est'[q] \in Estimates
  BY <1>1 DEF QuotaInv
<1>10. \A m \in 0..TokBurst : BurstCovers(m)' => DebtBounded(m)'
  BY <1>1, <1>6 DEF QuotaInv, BurstCovers, DebtBounded
<1> QED
  BY <1>1, <1>5, <1>8, <1>9, <1>10 DEF QuotaInv, RequestQuota, TokenQuota, OverrunsArePaid, BurstCovers

\* The clock moves nothing else.
LEMMA QuotaTickKeeps ==
  ASSUME QuotaInv, QuotaTick PROVE QuotaInv'
<1>1. /\ now' = now + 1 /\ now < Horizon /\ now \in 0..Horizon /\ Horizon \in Nat
      /\ UNCHANGED <<req, tok, slots, spent_usd, window_start, meter, est, longest, admissions, used, forgiven, minted>>
  BY QuotaConstants DEF QuotaTick, bucketVars, limitVars, history, QuotaInv, QuotaTypeOK
<1>2. now' \in 0..Horizon /\ 0..now \subseteq 0..now'
  BY <1>1
<1>3. QuotaTypeOK'
  BY <1>1, <1>2 DEF QuotaInv, QuotaTypeOK
<1> QED
  BY <1>1, <1>3 DEF QuotaInv, SlotsExact, RequestQuota, TokenQuota, OverrunsArePaid, BurstCovers,
                         DebtBounded, InAir

\* Full buckets, and nothing in the air.
LEMMA QuotaInitially ==
  ASSUME QuotaInit PROVE QuotaInv
<1>1. /\ req = [tokens |-> ReqBurst, last |-> 0] /\ tok = [tokens |-> TokBurst, last |-> 0]
      /\ now = 0 /\ slots = 0 /\ spent_usd = 0 /\ window_start = 0 /\ admissions = 0 /\ used = 0
      /\ forgiven = 0 /\ minted = 0 /\ longest \in Actuals
      /\ meter = [r \in Metered |-> "new"] /\ est = [r \in Metered |-> 0]
      /\ ReqBurst \in Nat /\ TokBurst \in Nat /\ MaxSlots \in Nat /\ Horizon \in Nat
      /\ ReqRate \in Nat /\ TokRate \in Nat
  BY QuotaConstants DEF QuotaInit
<1>2. /\ req \in Bucket /\ tok \in Bucket /\ req.last = 0 /\ tok.last = 0
      /\ req.tokens = ReqBurst /\ tok.tokens = TokBurst
  BY <1>1 DEF Bucket
<1>3. QuotaTypeOK
  BY <1>1, <1>2 DEF QuotaTypeOK
<1>4. {r \in Metered : meter[r] = "admitted"} = {} /\ InAir = {}
  BY <1>1 DEF InAir
<1>5. SlotsExact
  BY <1>1, <1>4, FS_EmptySet DEF SlotsExact
<1>6. RequestQuota /\ TokenQuota /\ OverrunsArePaid
  BY <1>1, <1>2 DEF RequestQuota, TokenQuota, OverrunsArePaid
<1>7. ASSUME NEW m \in 0..TokBurst PROVE DebtBounded(m)
  <2>1. InAir \in SUBSET Metered /\ m \in Nat
    BY <1>1, <1>4
  <2>2. (Cardinality(Metered) - Cardinality(InAir)) * m \in Nat
    BY <2>1, SomeFinite, Overruns
  <2> QED
    BY <1>1, <1>2, <2>2 DEF DebtBounded
<1> QED
  BY <1>1, <1>2, <1>3, <1>5, <1>6, <1>7 DEF QuotaInv

\* The inductive invariant of a tenant's limits, for every configuration.
THEOREM QuotaInvariant == QuotaSpec => []QuotaInv
<1>1. QuotaInv /\ [QuotaNext]_quotaVars => QuotaInv'
  <2> SUFFICES ASSUME QuotaInv, [QuotaNext]_quotaVars PROVE QuotaInv'
    OBVIOUS
  <2>1. ASSUME NEW r \in Metered, Check(r) PROVE QuotaInv'
    BY <2>1, CheckKeeps
  <2>2. ASSUME NEW r \in Metered, SettlePlain(r) PROVE QuotaInv'
    BY <2>2, SettlePlainKeeps
  <2>3. ASSUME NEW r \in Metered, ReleaseStream(r) PROVE QuotaInv'
    BY <2>3, ReleaseStreamKeeps
  <2>4. ASSUME NEW r \in Metered, SettleStream(r) PROVE QuotaInv'
    BY <2>4, SettleStreamKeeps
  <2>5. CASE QuotaTick
    BY <2>5, QuotaTickKeeps
  <2>6. CASE UNCHANGED quotaVars
    BY <2>6 DEF quotaVars, bucketVars, limitVars, history, QuotaInv, QuotaTypeOK, SlotsExact,
                RequestQuota, TokenQuota, OverrunsArePaid, BurstCovers, DebtBounded, InAir
  <2> QED
    BY <2>1, <2>2, <2>3, <2>4, <2>5, <2>6 DEF QuotaNext
<1> QED
  BY <1>1, QuotaInitially, PTL DEF QuotaSpec

\* What a tenant gets is accounted for: the requests handle() has in hand, those
\* it was let make, and the tokens they used, but for what the floor of the
\* bucket let pass, which is none while the burst covers the overruns, and what
\* negative estimates put in; for all limits and all estimates.
THEOREM TenantsKeepToQuota == QuotaSpec => []QuotaKept
<1>1. QuotaInv => QuotaKept
  BY DEF QuotaInv, QuotaKept
<1> QED
  BY <1>1, QuotaInvariant, PTL

-----------------------------------------------------------------------------
(***************************************************************************)
(* Proof that a hedged call which returns has cleaned up.  The property    *)
(* speaks of the last stage only; HedgeInv adds what holds at each await   *)
(* before it: which tasks exist, and that a winner is over from the moment *)
(* it is chosen.                                                           *)
(***************************************************************************)

Stages == {"start", "delay", "race", "gather", "returned", "abandoned"}
TaskStates == {"none"} \cup Live \cup Over \cup {"cancelled"}

\* The hedge exists from the race on, or never.
NoHedge == task[2] = "none"

HedgeInv ==
  /\ stage \in Stages /\ task \in [1..2 -> TaskStates] /\ winner \in 0..2
  /\ stage = "start" => task[1] = "none" /\ NoHedge
  /\ stage = "delay" => task[1] \in {"running"} \cup Over /\ NoHedge
  /\ stage = "race" => \A p \in 1..2 : task[p] \in {"running"} \cup Over
  /\ stage = "gather" => /\ winner # 0 /\ task[winner] \in Over
                         /\ \A p \in 1..2 : task[p] # "running"
  /\ HedgeLeavesNothing

-----------------------------------------------------------------------------
\* A task that ends was live, and what was over stays over.
LEMMA EndingKeeps ==
  ASSUME HedgeInv, NEW p \in 1..2, TaskEnds(p) \/ TaskFails(p)
  PROVE  HedgeInv'
<1>1. /\ task[p] \in Live /\ UNCHANGED <<stage, winner>>
      /\ \/ task' = [task EXCEPT ![p] = IF @ = "running" THEN "ok" ELSE "cancelled"]
         \/ task' = [task EXCEPT ![p] = "error"]
  BY DEF TaskEnds, TaskFails
<1>2. PICK s \in Over \cup {"cancelled"} :
        /\ task' = [task EXCEPT ![p] = s]
        /\ s = "cancelled" => task[p] = "cancelling"
  BY <1>1 DEF Live, Over
<1>3. task' \in [1..2 -> TaskStates]
  BY <1>2 DEF HedgeInv, TaskStates
<1> QED
  BY <1>1, <1>2, <1>3 DEF HedgeInv, HedgeLeavesNothing, NoHedge, TaskStates, Live, Over

\* The awaits of the call itself.
LEMMA AwaitsKeep ==
  ASSUME HedgeInv, Start \/ Delayed \/ Raced \/ Gathered \/ Abandon
  PROVE  HedgeInv'
<1> USE DEF HedgeInv, HedgeLeavesNothing, NoHedge, Stages, TaskStates, Live, Over
<1>1. CASE Start
  BY <1>1 DEF Start
<1>2. CASE Delayed
  BY <1>2 DEF Delayed
<1>3. CASE Raced
  <2>1. PICK p \in 1..2 : task[p] \in Over /\ winner' = p
    BY <1>3 DEF Raced
  <2>2. /\ stage = "race" /\ stage' = "gather"
        /\ task' = [q \in 1..2 |-> IF task[q] = "running" THEN "cancelling" ELSE task[q]]
    BY <1>3 DEF Raced, CancelLosers
  <2> QED
    BY <2>1, <2>2
<1>4. CASE Gathered
  <2>1. \A p \in 1..2 : task[p] \notin Live
    BY <1>4 DEF Gathered
  <2> QED
    BY <1>4, <2>1 DEF Gathered
<1>5. CASE Abandon
  BY <1>5 DEF Abandon
<1> QED
  BY <1>1, <1>2, <1>3, <1>4, <1>5

\* The stages of a hedged call, for any order in which tasks end, fail and the
\* caller goes away.
THEOREM HedgeInvariant == HedgeSpec => []HedgeInv
<1>1. HedgeInit => HedgeInv
  BY DEF HedgeInit, HedgeInv, HedgeLeavesNothing, NoHedge, Stages, TaskStates
<1>2. HedgeInv /\ [HedgeNext]_hedgeVars => HedgeInv'
  <2>1. ASSUME HedgeInv, UNCHANGED hedgeVars PROVE HedgeInv'
    BY <2>1 DEF hedgeVars, HedgeInv, HedgeLeavesNothing, NoHedge
  <2> QED
    BY <2>1, EndingKeeps, AwaitsKeep DEF HedgeNext
<1> QED
  BY <1>1, <1>2, PTL DEF HedgeSpec

\* A hedged call that returned has left no task running and hands out the
\* result of one that is over, also when both end in the same turn.
THEOREM LosersAreGone == HedgeSpec => []HedgeLeavesNothing
<1>1. HedgeInv => HedgeLeavesNothing
  BY DEF HedgeInv
<1> QED
  BY <1>1, HedgeInvariant, PTL

-----------------------------------------------------------------------------
(***************************************************************************)
(* Retries stay scarce over any window, whatever times the requests and    *)
(* the retries fall on, and a request is refused only for want of an       *)
(* answer young enough, for any number of requests, prompts and attempts.  *)
(*                                                                         *)
(* The budget forgets times, so what it decides by is what really          *)
(* happened only for the window it keeps (BudgetRemembers).  The last      *)
(* retry was allowed by the two windows before it (LastRetryPaid), and     *)
(* every window that sees a retry lies in the two before its end.  The     *)
(* cache answers for its keys because it holds no key twice and each with  *)
(* its last answer (CacheFresh), and knows every key answered within the   *)
(* TTL until it evicts for the first time (CacheCovers).  Answers that are *)
(* streamed never reach the cache and count for nothing in all of this.    *)
(***************************************************************************)

Entry == [key : Keys, at : Nat]
Past == 0..time

BudgetTypeOK ==
  /\ requests \in Seq(Past) /\ retries \in Seq(Past)
  /\ arrived \in Seq(Past) /\ retried \in Seq(Past)

\* Within the window, the budget counts every request and every retry.
Remembers(q, h) ==
  \A a \in Int : a >= time - RetryWindow => Those(q, Since(a)) = Those(h, Since(a))
BudgetRemembers == Remembers(requests, arrived) /\ Remembers(retries, retried)

\* The last retry, with the window before it.
LastRetry == retried[Len(retried)]
RetriesSince(a) == Len(Those(retried, Since(a)))
ArrivedSince(a) == Len(Those(arrived, Since(a)))
LastRetryPaid ==
  retried # <<>> =>
    LET a == LastRetry - RetryWindow
    IN /\ \A i \in DOMAIN retried : retried[i] <= LastRetry
       /\ \/ RetriesSince(a) <= MinRetries
          \/ (RetriesSince(a) - 1) * 100 < ArrivedSince(a) * RetryPercent

\* The cache holds a key at most once, with its last answer.
Distinct(q) == \A i, j \in DOMAIN q : q[i].key = q[j].key => i = j
LastAnswers(q, f) == \A i \in DOMAIN q : f[q[i].key] = q[i].at
CacheFresh == Distinct(cache) /\ LastAnswers(cache, answered_at)

\* Every key answered in one piece within the TTL, as long as nothing was evicted.
Has(q, k) == \E i \in DOMAIN q : q[i].key = k
CacheCovers ==
  ~evicted => \A k \in Keys :
    answered_at[k] = Never \/ time - answered_at[k] > TTL \/ Has(cache, k)

Outcomes == {"new", "trying", "answered", "raised", "cached", "failed"}
CacheTypeOK ==
  /\ key_of \in KeyMaps
  /\ cache \in Seq(Entry)
  /\ answered_at \in [Keys -> Nat \cup {Never}]
  /\ call \in [Calls -> Outcomes]

CacheInv == time \in Nat /\ CacheTypeOK /\ CacheFresh /\ CacheCovers

ResilienceInv == BudgetTypeOK /\ BudgetRemembers /\ LastRetryPaid /\ CacheInv

-----------------------------------------------------------------------------
\* The constants are numbers.
LEMMA ResilienceConstants ==
  /\ RetryWindow \in Nat /\ Evicted \in Nat /\ RetryPercent \in Nat /\ MinRetries \in Nat
  /\ MaxCached \in Nat /\ TTL \in Nat /\ MaxTime \in Nat
<1>1. /\ {Attempts, RetryWindow, Evicted} \subseteq Nat \ {0}
      /\ {RetryPercent, MinRetries, MaxCached, TTL, MaxTime} \subseteq Nat
  BY ResilienceAssumption
<1> QED
  BY <1>1

\* Later times are fewer.
LEMMA SinceShrinks ==
  ASSUME NEW a \in Int, NEW b \in Int, a <= b
  PROVE  Since(b) \subseteq Since(a)
  BY DEF Since

LEMMA WiderSeq ==
  ASSUME NEW A, NEW B, A \subseteq B, NEW q \in Seq(A)
  PROVE  q \in Seq(B)
  OBVIOUS

\* Forgetting old times, or noting the present one, forgets nothing recent.
LEMMA TrimRemembers ==
  ASSUME time \in Nat, NEW q \in Seq(Past), NEW h, Remembers(q, h)
  PROVE  /\ Trim(q) \in Seq(Past)
         /\ Remembers(Trim(q), h)
<1>1. RetryWindow \in Nat
  BY ResilienceConstants
<1> DEFINE w == time - RetryWindow
<1>2. w \in Int
  BY <1>1
<1>3. Trim(q) = Those(q, Since(w))
  BY DEF Trim
<1> HIDE DEF w
<1>4. Trim(q) \in Seq(Past)
  BY <1>3, ThoseKept
<1>5. ASSUME NEW a \in Int, a >= w
      PROVE  Those(Trim(q), Since(a)) = Those(h, Since(a))
  <2>1. Since(a) \subseteq Since(w)
    BY <1>2, <1>5, SinceShrinks
  <2>2. Those(Those(q, Since(w)), Since(a)) = Those(q, Since(a))
    BY <2>1, ThoseOfThose
  <2>3. Those(q, Since(a)) = Those(h, Since(a))
    BY <1>5 DEF Remembers, w
  <2> QED
    BY <1>3, <2>2, <2>3
<1> QED
  BY <1>4, <1>5 DEF Remembers, w

LEMMA AppendRemembers ==
  ASSUME time \in Nat, NEW q \in Seq(Past), NEW h \in Seq(Past), Remembers(q, h)
  PROVE  /\ Append(q, time) \in Seq(Past) /\ Append(h, time) \in Seq(Past)
         /\ Remembers(Append(q, time), Append(h, time))
<1>1. time \in Past
  BY DEF Past
<1>2. Append(q, time) \in Seq(Past) /\ Append(h, time) \in Seq(Past)
  BY <1>1
<1>3. ASSUME NEW a \in Int, a >= time - RetryWindow
      PROVE  Those(Append(q, time), Since(a)) = Those(Append(h, time), Since(a))
  <2>1. Those(q, Since(a)) = Those(h, Since(a))
    BY <1>3 DEF Remembers
  <2>2. /\ Those(Append(q, time), Since(a))
             = IF time \in Since(a) THEN Append(Those(q, Since(a)), time) ELSE Those(q, Since(a))
        /\ Those(Append(h, time), Since(a))
             = IF time \in Since(a) THEN Append(Those(h, Since(a)), time) ELSE Those(h, Since(a))
    BY <1>1, ThoseOfAppend
  <2> QED
    BY <2>1, <2>2
<1> QED
  BY <1>2, <1>3 DEF Remembers

-----------------------------------------------------------------------------
\* What a step does to the budget: it notes a request, notes a retry it
\* allows, at most forgets, or lets time pass.
NotesRequest ==
  /\ requests' = Trim(Append(requests, time)) /\ retries' = Trim(retries)
  /\ arrived' = Append(arrived, time)
  /\ UNCHANGED <<time, retried>>
NotesRetry ==
  /\ Allowed
  /\ requests' = Trim(requests) /\ retries' = Append(Trim(retries), time)
  /\ retried' = Append(retried, time)
  /\ UNCHANGED <<time, arrived>>
Forgets ==
  /\ requests' \in {requests, Trim(requests)} /\ retries' \in {retries, Trim(retries)}
  /\ UNCHANGED <<time, arrived, retried>>
TimePasses == time' = time + 1 /\ UNCHANGED budgetVars

LEMMA BudgetSteps ==
  ASSUME [ResilienceNext]_resilienceVars
  PROVE  NotesRequest \/ NotesRetry \/ Forgets \/ TimePasses
<1>1. ASSUME NEW c \in Calls, Arrive(c) PROVE NotesRequest
  BY <1>1 DEF Arrive, NotesRequest
<1>2. ASSUME NEW c \in Calls, Succeed(c) PROVE Forgets
  BY <1>2 DEF Succeed, Forgets, budgetVars
<1>3. ASSUME NEW c \in Calls, Fail(c) PROVE NotesRetry \/ Forgets
  <2>1. CASE tries[c] + 1 < Attempts /\ Allowed
    BY <1>3, <2>1 DEF Fail, NotesRetry
  <2>2. CASE tries[c] + 1 < Attempts /\ ~Allowed
    BY <1>3, <2>2 DEF Fail, Forgets
  <2>3. CASE ~(tries[c] + 1 < Attempts)
    BY <1>3, <2>3 DEF Fail, Forgets
  <2> QED
    BY <2>1, <2>2, <2>3
<1>4. ASSUME Pass PROVE TimePasses
  BY <1>4 DEF Pass, TimePasses
<1>5. ASSUME UNCHANGED resilienceVars PROVE Forgets
  BY <1>5 DEF resilienceVars, budgetVars, Forgets
<1>6. ASSUME NEW c \in Calls, SucceedUncached(c) PROVE Forgets
  BY <1>6 DEF SucceedUncached, Forgets, budgetVars
<1> QED
  BY <1>1, <1>2, <1>3, <1>4, <1>5, <1>6 DEF ResilienceNext

LEMMA BudgetKeeps ==
  ASSUME time \in Nat, BudgetTypeOK, BudgetRemembers, [ResilienceNext]_resilienceVars
  PROVE  (time \in Nat)' /\ BudgetTypeOK' /\ BudgetRemembers'
<1>0. /\ requests \in Seq(Past) /\ retries \in Seq(Past)
      /\ arrived \in Seq(Past) /\ retried \in Seq(Past)
      /\ Remembers(requests, arrived) /\ Remembers(retries, retried)
  BY DEF BudgetTypeOK, BudgetRemembers
<1>1. CASE NotesRequest
  <2>1. time' = time /\ Past' = Past
    BY <1>1 DEF NotesRequest, Past
  <2>2. /\ Append(requests, time) \in Seq(Past) /\ Append(arrived, time) \in Seq(Past)
        /\ Remembers(Append(requests, time), Append(arrived, time))
    BY <1>0, AppendRemembers
  <2>3. /\ Trim(Append(requests, time)) \in Seq(Past)
        /\ Remembers(Trim(Append(requests, time)), Append(arrived, time))
    BY <2>2, TrimRemembers
  <2>4. Trim(retries) \in Seq(Past) /\ Remembers(Trim(retries), retried)
    BY <1>0, TrimRemembers
  <2>5. BudgetTypeOK'
    BY <1>0, <1>1, <2>1, <2>2, <2>3, <2>4 DEF NotesRequest, BudgetTypeOK
  <2>6. BudgetRemembers'
    BY <1>1, <2>1, <2>3, <2>4 DEF NotesRequest, BudgetRemembers, Remembers
  <2> QED
    BY <2>1, <2>5, <2>6
<1>2. CASE NotesRetry
  <2>1. time' = time /\ Past' = Past
    BY <1>2 DEF NotesRetry, Past
  <2>2. Trim(requests) \in Seq(Past) /\ Remembers(Trim(requests), arrived)
    BY <1>0, TrimRemembers
  <2>3. Trim(retries) \in Seq(Past) /\ Remembers(Trim(retries), retried)
    BY <1>0, TrimRemembers
  <2>4. /\ Append(Trim(retries), time) \in Seq(Past) /\ Append(retried, time) \in Seq(Past)
        /\ Remembers(Append(Trim(retries), time), Append(retried, time))
    BY <1>0, <2>3, AppendRemembers
  <2>5. BudgetTypeOK'
    BY <1>0, <1>2, <2>1, <2>2, <2>4 DEF NotesRetry, BudgetTypeOK
  <2>6. BudgetRemembers'
    BY <1>2, <2>1, <2>2, <2>4 DEF NotesRetry, BudgetRemembers, Remembers
  <2> QED
    BY <2>1, <2>5, <2>6
<1>3. CASE Forgets
  <2>1. time' = time /\ Past' = Past
    BY <1>3 DEF Forgets, Past
  <2>2. Trim(requests) \in Seq(Past) /\ Remembers(Trim(requests), arrived)
    BY <1>0, TrimRemembers
  <2>3. Trim(retries) \in Seq(Past) /\ Remembers(Trim(retries), retried)
    BY <1>0, TrimRemembers
  <2>4. requests' \in Seq(Past) /\ Remembers(requests', arrived)
    BY <1>0, <1>3, <2>2 DEF Forgets
  <2>5. retries' \in Seq(Past) /\ Remembers(retries', retried)
    BY <1>0, <1>3, <2>3 DEF Forgets
  <2>6. BudgetTypeOK'
    BY <1>0, <1>3, <2>1, <2>4, <2>5 DEF Forgets, BudgetTypeOK
  <2>7. BudgetRemembers'
    BY <1>3, <2>1, <2>4, <2>5 DEF Forgets, BudgetRemembers, Remembers
  <2> QED
    BY <2>1, <2>6, <2>7
<1>4. CASE TimePasses
  <2>1. time' = time + 1 /\ UNCHANGED <<requests, retries, arrived, retried>>
    BY <1>4 DEF TimePasses, budgetVars
  <2>2. Past \subseteq Past'
    BY <2>1 DEF Past
  <2>3. \A q \in Seq(Past) : q \in Seq(Past')
    BY <2>2, WiderSeq
  <2>4. BudgetTypeOK'
    BY <1>0, <2>1, <2>3 DEF BudgetTypeOK
  <2>5. RetryWindow \in Nat
    BY ResilienceConstants
  <2>6. \A a \in Int : a >= time' - RetryWindow => a >= time - RetryWindow
    BY <2>1, <2>5
  <2>7. BudgetRemembers'
    BY <1>0, <2>1, <2>6 DEF BudgetRemembers, Remembers
  <2> QED
    BY <2>1, <2>4, <2>7
<1> QED
  BY <1>1, <1>2, <1>3, <1>4, BudgetSteps

\* A retry is noted when it is paid for, and stays so while requests arrive.
LEMMA PaidKeeps ==
  ASSUME time \in Nat, BudgetTypeOK, BudgetRemembers, LastRetryPaid,
         [ResilienceNext]_resilienceVars
  PROVE  LastRetryPaid'
<1>0. /\ requests \in Seq(Past) /\ retries \in Seq(Past)
      /\ arrived \in Seq(Past) /\ retried \in Seq(Past)
      /\ Remembers(requests, arrived) /\ Remembers(retries, retried)
      /\ RetryWindow \in Nat /\ RetryPercent \in Nat /\ MinRetries \in Nat
      /\ time \in Past
  BY ResilienceConstants DEF BudgetTypeOK, BudgetRemembers, Past
<1>1. CASE NotesRequest
  <2>1. SUFFICES ASSUME retried # <<>>
                 PROVE  LET a == LastRetry - RetryWindow
                        IN /\ \A i \in DOMAIN retried : retried[i] <= LastRetry
                           /\ \/ RetriesSince(a) <= MinRetries
                              \/ (RetriesSince(a) - 1) * 100 < ArrivedSince(a)' * RetryPercent
    BY <1>1 DEF NotesRequest, LastRetryPaid, LastRetry, RetriesSince, ArrivedSince
  <2> DEFINE a == LastRetry - RetryWindow
  <2>2. /\ \A i \in DOMAIN retried : retried[i] <= LastRetry
        /\ \/ RetriesSince(a) <= MinRetries
           \/ (RetriesSince(a) - 1) * 100 < ArrivedSince(a) * RetryPercent
    BY <2>1 DEF LastRetryPaid
  <2> HIDE DEF a
  <2>3. Those(Append(arrived, time), Since(a))
          = IF time \in Since(a) THEN Append(Those(arrived, Since(a)), time)
            ELSE Those(arrived, Since(a))
    BY <1>0, ThoseOfAppend
  <2>4. Those(arrived, Since(a)) \in Seq(Past) /\ Those(retried, Since(a)) \in Seq(Past)
    BY <1>0, ThoseKept
  <2>5. /\ ArrivedSince(a) \in Nat /\ RetriesSince(a) \in Nat
    BY <2>4 DEF ArrivedSince, RetriesSince
  <2>6. ArrivedSince(a)' = Len(Those(Append(arrived, time), Since(a)))
    BY <1>1 DEF NotesRequest, ArrivedSince, a, LastRetry
  <2>7. ArrivedSince(a)' \in Nat /\ ArrivedSince(a)' >= ArrivedSince(a)
    BY <1>0, <2>3, <2>4, <2>6 DEF ArrivedSince
  <2>8. /\ ArrivedSince(a) * RetryPercent \in Nat /\ ArrivedSince(a)' * RetryPercent \in Nat
        /\ ArrivedSince(a) * RetryPercent <= ArrivedSince(a)' * RetryPercent
    BY <1>0, <2>5, <2>7, TimesKeepsOrder
  <2>9. (RetriesSince(a) - 1) * 100 < ArrivedSince(a) * RetryPercent
           => (RetriesSince(a) - 1) * 100 < ArrivedSince(a)' * RetryPercent
    BY <2>5, <2>8
  <2> QED
    BY <2>2, <2>9 DEF a
<1>2. CASE NotesRetry
  <2> DEFINE a == time - RetryWindow
             n == Len(retried)
             r == Len(Those(retried, Since(a)))
             m == Len(Those(arrived, Since(a)))
  <2>1. /\ Append(retried, time) \in Seq(Past) /\ Len(Append(retried, time)) = n + 1
        /\ n \in Nat /\ Append(retried, time)[n + 1] = time
        /\ DOMAIN Append(retried, time) = 1..(n + 1)
        /\ \A i \in 1..n : Append(retried, time)[i] = retried[i] /\ retried[i] \in Past
    BY <1>0
  <2>2. retried' = Append(retried, time) /\ LastRetry' = time /\ time' = time
        /\ arrived' = arrived
    BY <1>2, <2>1 DEF NotesRetry, LastRetry
  <2>3. \A i \in DOMAIN retried' : retried'[i] <= LastRetry'
    <3>1. ASSUME NEW i \in 1..(n + 1) PROVE Append(retried, time)[i] <= time
      <4>1. CASE i = n + 1
        BY <2>1, <4>1
      <4>2. CASE i # n + 1
        <5>1. i \in 1..n
          BY <2>1, <4>2
        <5> QED
          BY <2>1, <5>1 DEF Past
      <4> QED
        BY <4>1, <4>2
    <3> QED
      BY <2>1, <2>2, <3>1
  <2>4. a \in Int /\ a >= time - RetryWindow /\ time \in Since(a)
    BY <1>0 DEF Since
  <2>5. Those(retries, Since(a)) = Those(retried, Since(a))
        /\ Those(requests, Since(a)) = Those(arrived, Since(a))
    BY <1>0, <2>4 DEF Remembers
  <2>6. Len(Trim(retries)) = r /\ Len(Trim(requests)) = m
    BY <2>5 DEF Trim
  <2>7. Those(retried, Since(a)) \in Seq(Past) /\ Those(arrived, Since(a)) \in Seq(Past)
    BY <1>0, ThoseKept
  <2>8. r \in Nat /\ m \in Nat
    BY <2>7
  <2>9. Those(Append(retried, time), Since(a)) = Append(Those(retried, Since(a)), time)
    BY <1>0, <2>4, ThoseOfAppend
  <2>10. Len(Those(Append(retried, time), Since(a))) = r + 1
    BY <1>0, <2>7, <2>9
  <2>11. RetriesSince(a)' = r + 1 /\ ArrivedSince(a)' = m
    BY <2>2, <2>10 DEF RetriesSince, ArrivedSince
  <2>12. r * 100 < m * RetryPercent \/ r * 100 < MinRetries * 100
    BY <1>2, <2>6 DEF NotesRetry, Allowed
  <2> HIDE DEF r, m
  <2>13. r + 1 <= MinRetries \/ ((r + 1) - 1) * 100 < m * RetryPercent
    <3>1. CASE r * 100 < MinRetries * 100
      BY <1>0, <2>8, <3>1
    <3>2. CASE r * 100 < m * RetryPercent
      <4>1. (r + 1) - 1 = r
        BY <2>8
      <4> QED
        BY <3>2, <4>1
    <3> QED
      BY <2>12, <3>1, <3>2
  <2>14. LastRetry' - RetryWindow = a
    BY <2>2
  <2> QED
    BY <2>2, <2>3, <2>11, <2>13, <2>14 DEF LastRetryPaid, RetriesSince, ArrivedSince
<1>3. CASE Forgets \/ TimePasses
  <2>1. UNCHANGED <<arrived, retried>>
    BY <1>3 DEF Forgets, TimePasses, budgetVars
  <2> QED
    BY <2>1 DEF LastRetryPaid, LastRetry, RetriesSince, ArrivedSince
<1> QED
  BY <1>1, <1>2, <1>3, BudgetSteps

\* The retries of the present window are covered.
LEMMA PaidIsScarce ==
  ASSUME time \in Nat, BudgetTypeOK, LastRetryPaid
  PROVE  RetriesScarce
<1> DEFINE w == time - RetryWindow
           v == time - 2 * RetryWindow
           a == LastRetry - RetryWindow
           n == Len(retried)
<1>0. /\ arrived \in Seq(Past) /\ retried \in Seq(Past)
      /\ RetryWindow \in Nat /\ RetryPercent \in Nat /\ MinRetries \in Nat
      /\ w \in Int /\ v \in Int /\ n \in Nat /\ DOMAIN retried = 1..n
      /\ \A i \in 1..n : retried[i] \in Nat /\ retried[i] <= time
  BY ResilienceConstants DEF BudgetTypeOK, Past
<1>1. Within(retried, RetryWindow) = RetriesSince(w) /\ Within(arrived, 2 * RetryWindow) = ArrivedSince(v)
  BY DEF Within, RetriesSince, ArrivedSince
<1>2. \A b \in Int : RetriesSince(b) \in Nat /\ ArrivedSince(b) \in Nat
  BY <1>0, ThoseKept DEF RetriesSince, ArrivedSince
<1>3. CASE retried = <<>>
  <2>1. Len(Those(retried, Since(w))) <= Len(retried) /\ Len(retried) = 0
    BY <1>0, <1>3, ThoseKept
  <2>2. RetriesSince(w) \in Nat /\ RetriesSince(w) <= 0
    BY <1>0, <1>2, <2>1 DEF RetriesSince
  <2> QED
    BY <1>0, <1>1, <2>2 DEF RetriesScarce
<1>4. CASE retried # <<>>
  <2>1. /\ LastRetry \in Nat /\ LastRetry <= time /\ a \in Int
        /\ \A i \in 1..n : retried[i] <= LastRetry
        /\ \/ RetriesSince(a) <= MinRetries
           \/ (RetriesSince(a) - 1) * 100 < ArrivedSince(a) * RetryPercent
    <3>1. n \in 1..n
      BY <1>0, <1>4
    <3>2. LastRetry \in Nat /\ LastRetry <= time
      BY <1>0, <3>1 DEF LastRetry
    <3>3. a \in Int
      BY <1>0, <3>2
    <3> QED
      BY <1>0, <1>4, <3>2, <3>3 DEF LastRetryPaid
  <2> HIDE DEF w, v, a, n
  <2>2. CASE LastRetry < w
    <3>1. Range(Those(retried, Since(w))) = Range(retried) \cap Since(w)
      BY <1>0, ThoseKept
    <3>2. Range(retried) \cap Since(w) = {}
      BY <1>0, <2>1, <2>2 DEF Range, Since
    <3>3. Those(retried, Since(w)) \in Seq(Past)
      BY <1>0, ThoseKept
    <3>4. Those(retried, Since(w)) = <<>>
      BY <3>1, <3>2, <3>3, ContainsIsIn
    <3> QED
      BY <1>0, <1>1, <3>4 DEF RetriesScarce, RetriesSince
  <2>3. CASE LastRetry >= w
    <3>1. a <= w /\ v <= a
      BY <1>0, <2>1, <2>3 DEF a, w, v
    <3>2. Since(w) \subseteq Since(a) /\ Since(a) \subseteq Since(v)
      BY <1>0, <2>1, <3>1, SinceShrinks
    <3>3. RetriesSince(w) <= RetriesSince(a)
      BY <1>0, <3>2, ThoseGrow DEF RetriesSince
    <3>4. ArrivedSince(a) <= ArrivedSince(v)
      BY <1>0, <3>2, ThoseGrow DEF ArrivedSince
    <3>5. /\ RetriesSince(a) \in Nat /\ RetriesSince(w) \in Nat
          /\ ArrivedSince(a) \in Nat /\ ArrivedSince(v) \in Nat
      BY <1>0, <1>2, <2>1
    <3>6. /\ ArrivedSince(a) * RetryPercent \in Nat /\ ArrivedSince(v) * RetryPercent \in Nat
          /\ ArrivedSince(a) * RetryPercent <= ArrivedSince(v) * RetryPercent
      BY <1>0, <3>4, <3>5, TimesKeepsOrder
    <3>7. RetriesSince(w) <= MinRetries
            \/ (RetriesSince(w) - 1) * 100 < ArrivedSince(v) * RetryPercent
      <4>1. PICK x \in Nat, y \in Nat : x = RetriesSince(w) /\ y = RetriesSince(a) /\ x <= y
        BY <3>3, <3>5
      <4>2. PICK d \in Nat, e \in Nat : /\ d = ArrivedSince(a) * RetryPercent
                                       /\ e = ArrivedSince(v) * RetryPercent /\ d <= e
        BY <3>6
      <4>3. y <= MinRetries \/ (y - 1) * 100 < d
        BY <2>1, <4>1, <4>2
      <4>4. PICK m \in Nat : m = MinRetries
        BY <1>0
      <4>5. CASE y <= m
        BY <4>1, <4>4, <4>5
      <4>6. CASE (y - 1) * 100 < d
        <5>1. (x - 1) * 100 < e
          BY <4>1, <4>2, <4>6
        <5> QED
          BY <4>1, <4>2, <5>1
      <4> QED
        BY <4>3, <4>4, <4>5, <4>6
    <3> QED
      BY <1>1, <3>7 DEF RetriesScarce
  <2> QED
    BY <1>0, <2>1, <2>2, <2>3
<1> QED
  BY <1>3, <1>4

-----------------------------------------------------------------------------
\* The first place of a key.
PlaceOf(q, k, i) ==
  \/ i = 0 /\ \A j \in DOMAIN q : q[j].key # k
  \/ i \in DOMAIN q /\ q[i].key = k

FirstOf(q, k) ==
  LET I == {i \in 1..Len(q) : q[i].key = k} IN IF I # {} THEN Min(I) ELSE 0

LEMMA FirstPlace ==
  ASSUME NEW q \in Seq(Entry), NEW k
  PROVE  PlaceOf(q, k, FirstOf(q, k))
<1> DEFINE n == Len(q)
           I == {i \in 1..n : q[i].key = k}
<1>1. n \in Nat /\ DOMAIN q = 1..n /\ I \subseteq Nat
  OBVIOUS
<1>2. FirstOf(q, k) = IF I # {} THEN Min(I) ELSE 0
  BY DEF FirstOf
<1>3. CASE I = {}
  BY <1>1, <1>2, <1>3 DEF PlaceOf
<1>4. CASE I # {}
  <2>1. PICK i \in I : \A j \in I : i <= j
    BY <1>1, <1>4, LeastElement
  <2>2. Min(I) \in I
    BY <2>1 DEF Min
  <2> QED
    BY <1>1, <1>2, <1>4, <2>2 DEF PlaceOf
<1> QED
  BY <1>3, <1>4

\* An eviction leaves the later insertions, in their order.
LEMMA Evicting ==
  ASSUME NEW q \in Seq(Entry), NEW m \in Nat
  PROVE  LET r == SubSeq(q, m + 1, Len(q))
         IN /\ r \in Seq(Entry)
            /\ \A i \in DOMAIN r : i + m \in DOMAIN q /\ r[i] = q[i + m] /\ i \in Nat
<1> DEFINE r == SubSeq(q, m + 1, Len(q))
           n == Len(q)
<1>1. n \in Nat /\ DOMAIN q = 1..n
  OBVIOUS
<1>2. r \in Seq(Entry)
  OBVIOUS
<1>3. CASE m + 1 <= n
  <2>1. Len(r) = n - m /\ DOMAIN r = 1..(n - m) /\ \A i \in 1..(n - m) : r[i] = q[i + m]
    BY <1>1, <1>3
  <2>2. \A i \in 1..(n - m) : i + m \in 1..n /\ i \in Nat
    BY <1>1, <1>3
  <2> QED
    BY <1>1, <1>2, <2>1, <2>2
<1>4. CASE m + 1 > n
  <2>1. r = <<>> /\ DOMAIN r = {}
    BY <1>1, <1>4
  <2> QED
    BY <1>2, <2>1
<1> QED
  BY <1>1, <1>3, <1>4

\* A removal leaves the others, in their order.
LEMMA Removing ==
  ASSUME NEW q \in Seq(Entry), NEW i \in DOMAIN q
  PROVE  LET r == RemoveAt(q, i)
         IN /\ r \in Seq(Entry)
            /\ DOMAIN r = 1..(Len(q) - 1) /\ DOMAIN q = 1..Len(q) /\ Len(q) \in Nat /\ i \in Nat
            /\ \A j \in DOMAIN r : r[j] = IF j < i THEN q[j] ELSE q[j + 1]
<1> DEFINE n == Len(q)
           a == SubSeq(q, 1, i - 1)
           b == SubSeq(q, i + 1, n)
           r == a \o b
<1>1. n \in Nat /\ DOMAIN q = 1..n /\ i \in 1..n
  OBVIOUS
<1>2. /\ a \in Seq(Entry) /\ Len(a) = i - 1 /\ \A j \in 1..(i - 1) : a[j] = q[j]
  BY <1>1
<1>3. /\ b \in Seq(Entry) /\ Len(b) = n - i /\ \A j \in 1..(n - i) : b[j] = q[j + i]
  BY <1>1
<1> HIDE DEF a, b
<1>4. r \in Seq(Entry) /\ Len(r) = n - 1 /\ DOMAIN r = 1..(n - 1)
  <2>1. r \in Seq(Entry) /\ Len(r) = Len(a) + Len(b)
    BY <1>2, <1>3, ConcatOfQueues
  <2>2. Len(r) = n - 1
    <3> HIDE DEF r
    <3> QED
      BY <1>1, <1>2, <1>3, <2>1
  <2>3. DOMAIN r = 1..Len(r)
    <3> HIDE DEF r
    <3> QED
      BY <2>1
  <2> QED
    BY <2>1, <2>2, <2>3
<1>5. ASSUME NEW j \in 1..(n - 1) PROVE r[j] = IF j < i THEN q[j] ELSE q[j + 1]
  <2>1. CASE j < i
    <3>1. j \in 1..(i - 1) /\ r[j] = a[j]
      BY <1>1, <1>2, <1>3, <2>1
    <3> QED
      BY <1>2, <2>1, <3>1
  <2>2. CASE ~(j < i)
    <3>1. j - (i - 1) \in 1..(n - i) /\ (j - (i - 1)) + i = j + 1
      BY <1>1, <2>2
    <3>2. r[j] = b[j - (i - 1)]
      BY <1>1, <1>2, <1>3, <2>2, <3>1
    <3> QED
      BY <1>3, <2>2, <3>1, <3>2
  <2> QED
    BY <2>1, <2>2
<1>6. RemoveAt(q, i) = r
  BY DEF RemoveAt, a, b
<1> HIDE DEF r
<1> QED
  BY <1>1, <1>4, <1>5, <1>6

LEMMA EvictingKeeps ==
  ASSUME NEW q \in Seq(Entry), NEW m \in Nat, NEW f, Distinct(q), LastAnswers(q, f)
  PROVE  LET r == SubSeq(q, m + 1, Len(q))
         IN r \in Seq(Entry) /\ Distinct(r) /\ LastAnswers(r, f)
<1> DEFINE r == SubSeq(q, m + 1, Len(q))
<1>1. /\ r \in Seq(Entry)
      /\ \A i \in DOMAIN r : i + m \in DOMAIN q /\ r[i] = q[i + m] /\ i \in Nat
  BY Evicting
<1> HIDE DEF r
<1>2. Distinct(r)
  <2>1. SUFFICES ASSUME NEW i \in DOMAIN r, NEW j \in DOMAIN r, r[i].key = r[j].key
                 PROVE  i = j
    BY DEF Distinct
  <2>2. i + m = j + m
    BY <1>1, <2>1 DEF Distinct
  <2> QED
    BY <1>1, <2>2
<1>3. LastAnswers(r, f)
  BY <1>1 DEF LastAnswers
<1> QED
  BY <1>1, <1>2, <1>3 DEF r

LEMMA RemovingKeeps ==
  ASSUME NEW q \in Seq(Entry), NEW i \in DOMAIN q, NEW f, Distinct(q), LastAnswers(q, f)
  PROVE  LET r == RemoveAt(q, i)
         IN /\ r \in Seq(Entry) /\ Distinct(r) /\ LastAnswers(r, f)
            /\ \A k : Has(q, k) => k = q[i].key \/ Has(r, k)
<1> DEFINE r == RemoveAt(q, i)
           n == Len(q)
<1>1. /\ r \in Seq(Entry)
      /\ DOMAIN r = 1..(n - 1) /\ DOMAIN q = 1..n /\ n \in Nat /\ i \in Nat
      /\ \A j \in DOMAIN r : r[j] = IF j < i THEN q[j] ELSE q[j + 1]
  BY Removing
<1> HIDE DEF r, n
<1>2. \A j \in 1..(n - 1) : j \in 1..n /\ j + 1 \in 1..n
  BY <1>1
<1>3. Distinct(r)
  <2>1. SUFFICES ASSUME NEW a \in 1..(n - 1), NEW b \in 1..(n - 1), r[a].key = r[b].key
                 PROVE  a = b
    BY <1>1 DEF Distinct
  <2> DEFINE from(j) == IF j < i THEN j ELSE j + 1
  <2>2. from(a) \in DOMAIN q /\ from(b) \in DOMAIN q /\ r[a] = q[from(a)] /\ r[b] = q[from(b)]
    BY <1>1, <1>2
  <2>3. from(a) = from(b)
    BY <2>1, <2>2 DEF Distinct
  <2> QED
    BY <1>1, <2>3
<1>4. LastAnswers(r, f)
  BY <1>1, <1>2 DEF LastAnswers
<1>5. ASSUME NEW k, Has(q, k), k # q[i].key PROVE Has(r, k)
  <2>1. PICK j \in 1..n : q[j].key = k
    BY <1>1, <1>5 DEF Has
  <2>2. j # i
    BY <1>5, <2>1
  <2>3. CASE j < i
    <3>1. j \in 1..(n - 1) /\ r[j] = q[j]
      BY <1>1, <2>3
    <3> QED
      BY <1>1, <2>1, <3>1 DEF Has
  <2>4. CASE j > i
    <3>1. j - 1 \in 1..(n - 1) /\ (j - 1) + 1 = j /\ ~(j - 1 < i)
      BY <1>1, <2>4
    <3>2. r[j - 1] = q[j]
      BY <1>1, <3>1
    <3> QED
      BY <1>1, <2>1, <3>1, <3>2 DEF Has
  <2> QED
    BY <1>1, <2>2, <2>3, <2>4
<1> QED
  BY <1>1, <1>3, <1>4, <1>5 DEF r

\* Entering an answer: in place of the last one of its key, or at the end.
Entering(q, k, i) ==
  IF i = 0 THEN Append(q, [key |-> k, at |-> time]) ELSE [q EXCEPT ![i] = [key |-> k, at |-> time]]

LEMMA EnteringKeeps ==
  ASSUME time \in Nat, NEW q \in Seq(Entry), NEW k \in Keys, NEW i, PlaceOf(q, k, i),
         NEW f \in [Keys -> Nat \cup {Never}], Distinct(q), LastAnswers(q, f)
  PROVE  LET r == Entering(q, k, i)
         IN /\ r \in Seq(Entry) /\ Distinct(r) /\ LastAnswers(r, [f EXCEPT ![k] = time])
            /\ Has(r, k) /\ \A h : Has(q, h) => Has(r, h)
<1> DEFINE e == [key |-> k, at |-> time]
           r == Entering(q, k, i)
           n == Len(q)
<1>1. e \in Entry /\ e.key = k /\ e.at = time
  BY DEF Entry
<1>2. n \in Nat /\ DOMAIN q = 1..n /\ \A j \in 1..n : q[j] \in Entry /\ q[j].key \in Keys
  <2>1. n \in Nat /\ DOMAIN q = 1..n /\ \A j \in 1..n : q[j] \in Entry
    OBVIOUS
  <2> HIDE DEF n
  <2> QED
    BY <2>1 DEF Entry
<1> HIDE DEF e
<1>3. CASE i = 0
  <2>1. r = Append(q, e) /\ \A j \in 1..n : q[j].key # k
    BY <1>2, <1>3 DEF Entering, PlaceOf, e
  <2> HIDE DEF r
  <2>2. /\ r \in Seq(Entry) /\ DOMAIN r = 1..(n + 1) /\ r[n + 1] = e
        /\ \A j \in 1..n : r[j] = q[j]
    BY <1>1, <1>2, <2>1
  <2>3. \A j \in 1..(n + 1) : j = n + 1 \/ j \in 1..n
    BY <1>2
  <2>4. Distinct(r)
    BY <1>1, <1>2, <2>1, <2>2, <2>3 DEF Distinct
  <2>5. LastAnswers(r, [f EXCEPT ![k] = time])
    BY <1>1, <1>2, <2>1, <2>2, <2>3 DEF LastAnswers
  <2>6. n + 1 \in DOMAIN r /\ 1..n \subseteq DOMAIN r
    BY <1>2, <2>2
  <2>7. Has(r, k) /\ \A h : Has(q, h) => Has(r, h)
    BY <1>1, <1>2, <2>2, <2>6 DEF Has
  <2> QED
    BY <2>2, <2>4, <2>5, <2>7 DEF r
<1>4. CASE i \in DOMAIN q /\ q[i].key = k
  <2>1. r = [q EXCEPT ![i] = e]
    <3>1. i # 0
      BY <1>2, <1>4
    <3> QED
      BY <3>1 DEF Entering, e
  <2> HIDE DEF r
  <2>2. /\ r \in Seq(Entry) /\ DOMAIN r = 1..n /\ r[i] = e
        /\ \A j \in 1..n : j # i => r[j] = q[j]
    BY <1>1, <1>2, <1>4, <2>1
  <2>3. \A j \in 1..n : r[j].key = q[j].key
    BY <1>1, <1>4, <2>2
  <2>4. Distinct(r)
    BY <1>2, <2>2, <2>3 DEF Distinct
  <2>5. ASSUME NEW j \in 1..n PROVE [f EXCEPT ![k] = time][r[j].key] = r[j].at
    <3>1. CASE j = i
      BY <1>1, <2>2, <3>1
    <3>2. CASE j # i
      <4>1. q[j].key # k
        BY <1>2, <1>4, <3>2 DEF Distinct
      <4>2. f[q[j].key] = q[j].at
        BY <1>2 DEF LastAnswers
      <4> QED
        BY <1>2, <2>2, <3>2, <4>1, <4>2
    <3> QED
      BY <3>1, <3>2
  <2>6. LastAnswers(r, [f EXCEPT ![k] = time])
    BY <2>2, <2>5 DEF LastAnswers
  <2>7. Has(r, k) /\ \A h : Has(q, h) => Has(r, h)
    BY <1>2, <1>4, <2>2, <2>3 DEF Has
  <2> QED
    BY <2>2, <2>4, <2>6, <2>7 DEF r
<1> QED
  BY <1>2, <1>3, <1>4 DEF PlaceOf

-----------------------------------------------------------------------------
\* What a step does to the cache: nothing, an answer, or a last resort.
LeavesCache ==
  UNCHANGED <<cache, answered_at, evicted>> /\ (time' = time \/ time' = time + 1)
Degrades(c) == Degrade(c) /\ UNCHANGED <<time, answered_at, evicted>>

LEMMA CacheSteps ==
  ASSUME [ResilienceNext]_resilienceVars
  PROVE  /\ key_of' = key_of
         /\ LeavesCache \/ \E c \in Calls : Succeed(c) \/ Degrades(c)
<1>1. key_of' = key_of
  BY DEF ResilienceNext, resilienceVars
<1>2. ASSUME NEW c \in Calls, Arrive(c) PROVE LeavesCache
  BY <1>2 DEF Arrive, LeavesCache
<1>3. ASSUME NEW c \in Calls, Fail(c) PROVE LeavesCache \/ Degrades(c)
  <2>1. CASE tries[c] + 1 < Attempts /\ Allowed
    BY <1>3, <2>1 DEF Fail, LeavesCache
  <2>2. CASE ~(tries[c] + 1 < Attempts /\ Allowed)
    BY <1>3, <2>2 DEF Fail, Degrades
  <2> QED
    BY <2>1, <2>2
<1>4. ASSUME Pass PROVE LeavesCache
  BY <1>4 DEF Pass, LeavesCache
<1>5. ASSUME UNCHANGED resilienceVars PROVE LeavesCache
  BY <1>5 DEF resilienceVars, LeavesCache
<1>6. ASSUME NEW c \in Calls, SucceedUncached(c) PROVE LeavesCache
  BY <1>6 DEF SucceedUncached, LeavesCache
<1> QED
  BY <1>1, <1>2, <1>3, <1>4, <1>5, <1>6 DEF ResilienceNext

\* A request fails only where the last resort is tried.
LEMMA OnlyDegradingFails ==
  ASSUME call \in [Calls -> Outcomes], [ResilienceNext]_resilienceVars
  PROVE  /\ call' \in [Calls -> Outcomes]
         /\ \A c \in Calls : call[c] # "failed" /\ call'[c] = "failed" => Degrades(c)
<1>1. ASSUME NEW d \in Calls, Arrive(d) \/ Succeed(d) \/ SucceedUncached(d)
      PROVE  /\ call' \in [Calls -> Outcomes]
             /\ \A c \in Calls : call'[c] = "failed" => call[c] = "failed"
  BY <1>1 DEF Arrive, Succeed, SucceedUncached, Outcomes
<1>2. ASSUME NEW d \in Calls, Fail(d)
      PROVE  /\ call' \in [Calls -> Outcomes]
             /\ \A c \in Calls : call[c] # "failed" /\ call'[c] = "failed" => Degrades(c)
  <2>1. CASE tries[d] + 1 < Attempts /\ Allowed
    BY <1>2, <2>1 DEF Fail
  <2>2. CASE ~(tries[d] + 1 < Attempts /\ Allowed)
    <3>1. Degrades(d)
      BY <1>2, <2>2 DEF Fail, Degrades
    <3>2. PICK o \in Outcomes : call' = [call EXCEPT ![d] = o]
      BY <3>1 DEF Degrades, Degrade, Outcomes
    <3> QED
      BY <3>1, <3>2
  <2> QED
    BY <2>1, <2>2
<1>3. ASSUME Pass \/ UNCHANGED resilienceVars PROVE call' = call
  BY <1>3 DEF Pass, resilienceVars
<1> QED
  BY <1>1, <1>2, <1>3 DEF ResilienceNext

LEMMA KeyOfCall ==
  ASSUME key_of \in KeyMaps, NEW c \in Calls
  PROVE  key_of[c] \in Keys
  BY DEF Keys

LEMMA SucceedKeeps ==
  ASSUME CacheInv, NEW c \in Calls, Succeed(c), key_of' = key_of
  PROVE  CacheInv'
<1> DEFINE k == key_of[c]
           kept == IF Len(cache) > MaxCached THEN SubSeq(cache, Evicted + 1, Len(cache)) ELSE cache
           i == SelectInSeq(kept, LAMBDA e : e.key = k)
<1>0. /\ time \in Nat /\ key_of \in KeyMaps /\ cache \in Seq(Entry)
      /\ answered_at \in [Keys -> Nat \cup {Never}]
      /\ Distinct(cache) /\ LastAnswers(cache, answered_at)
      /\ Evicted \in Nat /\ TTL \in Nat
      /\ call \in [Calls -> Outcomes]
  BY ResilienceConstants DEF CacheInv, CacheTypeOK, CacheFresh
<1>1. k \in Keys
  BY <1>0, KeyOfCall
<1>2. cache' = Entering(kept, k, i)
  BY DEF Succeed, CachePut, Entering
<1>3. /\ time' = time /\ answered_at' = [answered_at EXCEPT ![k] = time]
      /\ evicted' = (evicted \/ Len(cache) > MaxCached)
  BY DEF Succeed
<1>4. kept \in Seq(Entry) /\ Distinct(kept) /\ LastAnswers(kept, answered_at)
  BY <1>0, EvictingKeeps
<1>5. PlaceOf(kept, k, i)
  <2> HIDE DEF kept, k
  <2>1. i = FirstOf(kept, k)
    BY DEF SelectInSeq, FirstOf
  <2> QED
    BY <1>4, <2>1, FirstPlace
<1> HIDE DEF i
<1>6. kept = cache \/ evicted'
  BY <1>3
<1> HIDE DEF kept, k
<1>7. /\ cache' \in Seq(Entry) /\ Distinct(cache') /\ LastAnswers(cache', answered_at')
      /\ Has(cache', k) /\ \A h : Has(kept, h) => Has(cache', h)
  BY <1>0, <1>1, <1>2, <1>3, <1>4, <1>5, EnteringKeeps
<1>8. answered_at' \in [Keys -> Nat \cup {Never}]
  BY <1>0, <1>1, <1>3
<1>9. Entry' = Entry /\ Keys' = Keys
  BY DEF Entry, Keys
<1>10. CacheTypeOK' /\ CacheFresh'
  <2>1. call' \in [Calls -> Outcomes]
    BY <1>0 DEF Succeed, Outcomes
  <2> QED
    BY <1>0, <1>7, <1>8, <1>9, <2>1 DEF CacheTypeOK, CacheFresh, Distinct, LastAnswers
<1>11. CacheCovers'
  <2>1. SUFFICES ASSUME ~evicted', NEW h \in Keys
                 PROVE  answered_at'[h] = Never \/ time' - answered_at'[h] > TTL \/ Has(cache', h)
    BY <1>9 DEF CacheCovers, Has
  <2>2. kept = cache /\ ~evicted
    BY <1>3, <1>6, <2>1
  <2>3. CASE h = k
    BY <1>7, <2>3
  <2>4. CASE h # k
    <3>1. answered_at'[h] = answered_at[h]
      BY <1>0, <1>3, <2>4
    <3> QED
      BY <1>3, <1>7, <2>2, <3>1 DEF CacheInv, CacheCovers
  <2> QED
    BY <2>3, <2>4
<1> QED
  BY <1>0, <1>3, <1>10, <1>11 DEF CacheInv

LEMMA DegradesKeeps ==
  ASSUME CacheInv, NEW c \in Calls, Degrades(c), key_of' = key_of
  PROVE  /\ CacheInv'
         /\ call'[c] = "failed" => ~Has(cache, key_of[c]) \/ time - answered_at[key_of[c]] > TTL
<1> DEFINE k == key_of[c]
           i == IndexOf(k)
           stale == i # 0 /\ time - cache[i].at > TTL
<1>0. /\ time \in Nat /\ key_of \in KeyMaps /\ cache \in Seq(Entry)
      /\ answered_at \in [Keys -> Nat \cup {Never}]
      /\ Distinct(cache) /\ LastAnswers(cache, answered_at)
      /\ TTL \in Nat /\ call \in [Calls -> Outcomes]
  BY ResilienceConstants DEF CacheInv, CacheTypeOK, CacheFresh
<1>1. PlaceOf(cache, k, i)
  <2>1. i = FirstOf(cache, k)
    BY DEF IndexOf, SelectInSeq, FirstOf
  <2> QED
    BY <1>0, <2>1, FirstPlace
<1>2. /\ cache' = IF stale THEN RemoveAt(cache, i) ELSE cache
      /\ call' = [call EXCEPT ![c] = IF i = 0 \/ stale THEN "failed" ELSE "cached"]
      /\ time' = time /\ answered_at' = answered_at /\ evicted' = evicted
  BY DEF Degrades, Degrade
<1> HIDE DEF i, k
<1>3. call' \in [Calls -> Outcomes]
  BY <1>0, <1>2 DEF Outcomes
<1>4. 0 \notin DOMAIN cache
  BY <1>0
<1>5. CASE stale
  <2>1. i \in DOMAIN cache /\ cache[i].key = k /\ answered_at[k] = cache[i].at
    BY <1>0, <1>1, <1>5 DEF PlaceOf, LastAnswers
  <2>2. /\ cache' \in Seq(Entry) /\ Distinct(cache') /\ LastAnswers(cache', answered_at)
        /\ \A h : Has(cache, h) => h = k \/ Has(cache', h)
    <3>1. cache' = RemoveAt(cache, i)
      BY <1>2, <1>5
    <3> QED
      BY <1>0, <2>1, <3>1, RemovingKeeps
  <2>3. time - answered_at[k] > TTL
    BY <1>5, <2>1
  <2>4. CacheTypeOK' /\ CacheFresh'
    BY <1>0, <1>2, <1>3, <2>2 DEF CacheTypeOK, CacheFresh, Distinct, LastAnswers, Entry, Keys
  <2>5. ASSUME ~evicted', NEW h \in Keys
        PROVE  answered_at'[h] = Never \/ time' - answered_at'[h] > TTL \/ Has(cache', h)
    <3>1. answered_at[h] = Never \/ time - answered_at[h] > TTL \/ Has(cache, h)
      BY <1>2, <2>5 DEF CacheInv, CacheCovers
    <3> QED
      BY <1>2, <2>2, <2>3, <3>1
  <2>6. CacheCovers'
    BY <2>5 DEF CacheCovers, Has, Keys
  <2> QED
    BY <1>0, <1>2, <2>3, <2>4, <2>6 DEF CacheInv, k
<1>6. CASE ~stale
  <2>1. cache' = cache
    BY <1>2, <1>6
  <2>2. CacheInv'
    BY <1>0, <1>2, <1>3, <2>1 DEF CacheInv, CacheTypeOK, CacheFresh, CacheCovers, Distinct, LastAnswers,
                            Has, Entry, Keys
  <2>3. i = 0 => ~Has(cache, k)
    BY <1>1, <1>4 DEF PlaceOf, Has
  <2> QED
    <3>1. call'[c] = "failed" => i = 0
      BY <1>0, <1>2, <1>6
    <3> QED
      BY <2>2, <2>3, <3>1 DEF k
<1> QED
  BY <1>5, <1>6

LEMMA CacheKeeps ==
  ASSUME CacheInv, [ResilienceNext]_resilienceVars
  PROVE  CacheInv'
<1>1. key_of' = key_of
  BY CacheSteps
<1>2. CASE LeavesCache
  <2>1. /\ UNCHANGED <<cache, answered_at, evicted>>
        /\ time' = time \/ time' = time + 1
    BY <1>2 DEF LeavesCache
  <2>2. /\ time \in Nat /\ answered_at \in [Keys -> Nat \cup {Never}] /\ TTL \in Nat
    BY ResilienceConstants DEF CacheInv, CacheTypeOK
  <2>3. call' \in [Calls -> Outcomes]
    BY OnlyDegradingFails DEF CacheInv, CacheTypeOK
  <2>4. CacheTypeOK' /\ CacheFresh' /\ time' \in Nat
    <3>1. CacheTypeOK' /\ time' \in Nat
      BY <1>1, <2>1, <2>2, <2>3 DEF CacheInv, CacheTypeOK, Entry, Keys, Outcomes
    <3> QED
      BY <2>1, <3>1 DEF CacheInv, CacheFresh, Distinct, LastAnswers
  <2>5. ASSUME ~evicted, NEW k \in Keys
        PROVE  answered_at[k] = Never \/ time' - answered_at[k] > TTL \/ Has(cache, k)
    <3>1. answered_at[k] = Never \/ time - answered_at[k] > TTL \/ Has(cache, k)
      BY <2>5 DEF CacheInv, CacheCovers
    <3>2. answered_at[k] \in Nat => (time - answered_at[k] > TTL => time' - answered_at[k] > TTL)
      BY <2>1, <2>2
    <3> QED
      BY <2>2, <3>1, <3>2
  <2>6. CacheCovers'
    BY <2>1, <2>5 DEF CacheCovers, Has, Keys
  <2> QED
    BY <2>4, <2>6 DEF CacheInv
<1>3. ASSUME NEW c \in Calls, Succeed(c) \/ Degrades(c) PROVE CacheInv'
  BY <1>1, <1>3, SucceedKeeps, DegradesKeeps
<1> QED
  BY <1>2, <1>3, CacheSteps

-----------------------------------------------------------------------------
LEMMA ResilienceInitially ==
  ASSUME ResilienceInit
  PROVE  ResilienceInv
<1>0. /\ key_of \in KeyMaps /\ time = 0 /\ requests = <<>> /\ retries = <<>> /\ cache = <<>>
      /\ arrived = <<>> /\ retried = <<>> /\ evicted = FALSE
      /\ call = [c \in Calls |-> "new"] /\ answered_at = [k \in Keys |-> Never]
  BY DEF ResilienceInit
<1>1. <<>> \in Seq(Past)
  OBVIOUS
<1>2. BudgetTypeOK
  BY <1>0, <1>1 DEF BudgetTypeOK
<1>3. BudgetRemembers
  BY <1>0 DEF BudgetRemembers, Remembers
<1>4. LastRetryPaid
  BY <1>0 DEF LastRetryPaid
<1>5. CacheTypeOK
  <2>1. <<>> \in Seq(Entry)
    OBVIOUS
  <2> QED
    BY <1>0, <2>1 DEF CacheTypeOK, Outcomes
<1>6. CacheFresh
  <2>1. DOMAIN cache = {}
    BY <1>0
  <2> QED
    BY <2>1 DEF CacheFresh, Distinct, LastAnswers
<1>7. CacheCovers
  BY <1>0 DEF CacheCovers
<1> QED
  BY <1>0, <1>2, <1>3, <1>4, <1>5, <1>6, <1>7 DEF ResilienceInv, CacheInv

LEMMA ResilienceKeeps ==
  ASSUME ResilienceInv, [ResilienceNext]_resilienceVars
  PROVE  ResilienceInv'
<1>1. (time \in Nat)' /\ BudgetTypeOK' /\ BudgetRemembers'
  BY BudgetKeeps DEF ResilienceInv, CacheInv
<1>2. LastRetryPaid'
  BY PaidKeeps DEF ResilienceInv, CacheInv
<1>3. CacheInv'
  BY CacheKeeps DEF ResilienceInv
<1> QED
  BY <1>1, <1>2, <1>3 DEF ResilienceInv

\* The budget remembers its window and the cache its answers, in every state.
THEOREM ResilienceInvariant == ResilienceSpec => []ResilienceInv
<1>1. ResilienceInit => ResilienceInv
  BY ResilienceInitially
<1>2. ResilienceInv /\ [ResilienceNext]_resilienceVars => ResilienceInv'
  BY ResilienceKeeps
<1> QED
  BY <1>1, <1>2, PTL DEF ResilienceSpec

\* No burst of failures makes the gateway amplify its load: the retries of
\* any window are a fraction of the requests of two, above the trickle.
THEOREM RetriesStayScarce == ResilienceSpec => []RetriesScarce
<1>1. ResilienceInv => RetriesScarce
  BY PaidIsScarce DEF ResilienceInv, CacheInv
<1> QED
  BY <1>1, ResilienceInvariant, PTL

\* A refused request, streamed or not, had no answer in one piece that was young
\* enough, while nothing was evicted; what streams answered does not count.
THEOREM RefusedForWantOfAnswers == ResilienceSpec => DegradesToCache
<1>1. ResilienceInv /\ [ResilienceNext]_resilienceVars =>
        [\A c \in Calls : (call[c] # "failed" /\ call'[c] = "failed" /\ ~evicted) =>
           LET t == answered_at[key_of[c]] IN t = Never \/ time - t > TTL]_resilienceVars
  <2>1. SUFFICES ASSUME ResilienceInv, [ResilienceNext]_resilienceVars,
                        NEW c \in Calls, call[c] # "failed", call'[c] = "failed", ~evicted
                 PROVE  \/ answered_at[key_of[c]] = Never
                        \/ time - answered_at[key_of[c]] > TTL
    OBVIOUS
  <2>2. CacheInv
    BY <2>1 DEF ResilienceInv
  <2>3. Degrades(c) /\ key_of' = key_of
    BY <2>1, <2>2, OnlyDegradingFails, CacheSteps DEF CacheInv, CacheTypeOK
  <2>4. ~Has(cache, key_of[c]) \/ time - answered_at[key_of[c]] > TTL
    BY <2>1, <2>2, <2>3, DegradesKeeps
  <2>5. key_of[c] \in Keys
    BY <2>2, KeyOfCall DEF CacheInv, CacheTypeOK
  <2> QED
    BY <2>1, <2>2, <2>4, <2>5 DEF CacheInv, CacheCovers
<1> QED
  BY <1>1, ResilienceInvariant, PTL DEF ResilienceSpec, DegradesToCache
=============================================================================
