------------------------------ MODULE Routing ------------------------------
(***************************************************************************)
(* The routing strategies of llmkit/routing.py as operators on the fleet,  *)
(* a function from replicas 1..n, in the order of the command line, to     *)
(* their live state.  Weights are 1, as the proxy builds its replicas, and *)
(* hashes are arbitrary: a ring is the sequence of replica names its       *)
(* virtual nodes carry, and a key hashes to a place on it.                 *)
(* X_Y is a wrong variant of X, unused by the model.                       *)
(***************************************************************************)
EXTENDS Queues, SequencesExt, FiniteSetsExt, Functions

CONSTANTS Ring, Place,         \* the ring, and where on it each key falls
          NoKey,
          Probe,               \* how many distinct replicas a lookup returns
          MaxPrefixKeys,
          BreakerThreshold, OpenTicks      \* observe_error's defaults

ASSUME RoutingAssumption ==
  /\ Ring \in Seq(Nat) /\ Ring # <<>>
  /\ \A k \in DOMAIN Place : Place[k] \in 1..Len(Ring) /\ k # NoKey
  /\ {Probe, MaxPrefixKeys, BreakerThreshold, OpenTicks} \subseteq Nat \ {0}

\* The live state of a replica.  Its errors are counted up to the threshold.
NewReplica == [healthy |-> TRUE, open_for |-> 0, errors |-> 0,
               inflight |-> 0, queued_tokens |-> 0, prefix_keys |-> <<>>]

available(r) == r.healthy /\ r.open_for = 0

\* prefix_keys in order of last use; an overflow drops the oldest quarter.
note_prefix(r, k) ==
  LET keys == Append(Those(r.prefix_keys, DOMAIN Place \ {k}), k)
  IN [r EXCEPT !.prefix_keys =
        IF Len(keys) > MaxPrefixKeys THEN SubSeq(keys, Len(keys) \div 4 + 1, Len(keys)) ELSE keys]

has_prefix(r, k) == Contains(r.prefix_keys, k)

observe_error(r) ==
  [r EXCEPT !.errors = Min({@ + 1, BreakerThreshold}),
            !.open_for = IF r.errors + 1 >= BreakerThreshold THEN OpenTicks ELSE @]

observe_success(r) == [r EXCEPT !.errors = 0]

-----------------------------------------------------------------------------
\* The n distinct replicas clockwise from a key's place.
lookup(k, n) ==
  LET name(i) == Ring[((Place[k] + i - 2) % Len(Ring)) + 1]
      new == Those([i \in 1..Len(Ring) |-> i],
                   {i \in 1..Len(Ring) : \A j \in 1..(i - 1) : name(j) # name(i)})
  IN [i \in 1..Min({n, Len(new)}) |-> name(new[i])]

\* Fewest requests in flight, then fewest queued prompt tokens, then the first.
Lighter(fleet, r, t) ==
  \/ fleet[r].inflight < fleet[t].inflight
  \/ /\ fleet[r].inflight = fleet[t].inflight
     /\ \/ fleet[r].queued_tokens < fleet[t].queued_tokens
        \/ fleet[r].queued_tokens = fleet[t].queued_tokens /\ r <= t
LeastLoaded(fleet, av) == CHOOSE r \in av : \A t \in av : Lighter(fleet, r, t)

\* inflight <= max(factor * mean load, 1), the factor in percent.
Fits(fleet, av, factor, r) ==
  \/ fleet[r].inflight <= 1
  \/ 100 * Cardinality(av) * fleet[r].inflight
       <= factor * SumFunctionOnSet([t \in av |-> fleet[t].inflight], av)

\* The first of the probed replicas that is available and below the ceiling.
ByRing_Unbounded(fleet, av, factor, k) ==
  Those(lookup(k, Probe), av)[1]
ByRing(fleet, av, factor, k) ==
  LET fitting == Those(lookup(k, Probe), {r \in av : Fits(fleet, av, factor, r)})
  IN IF fitting = <<>> THEN LeastLoaded(fleet, av) ELSE fitting[1]

\* A known holder of the prefix first, if the least loaded one is not overloaded.
ByPrefix(fleet, av, factor, k) ==
  LET holders == {r \in av : has_prefix(fleet[r], k)}
      best == CHOOSE r \in holders :
                \A t \in holders : \/ fleet[r].inflight < fleet[t].inflight
                                   \/ fleet[r].inflight = fleet[t].inflight /\ r <= t
  IN IF holders # {} /\ Fits(fleet, av, factor, best) THEN best
     ELSE ByRing(fleet, av, factor, k)

\* The replicas router.pick may return among av, which is not empty.
Strategies == {"random", "round_robin", "least_loaded", "prefix_affinity", "session_affinity"}
Pick(router, fleet, av, k) ==
  CASE router.name = "random" -> av
    [] router.name = "round_robin" ->
         {r \in av : Cardinality({t \in av : t < r}) = router.turn % Cardinality(av)}
    [] router.name = "least_loaded" -> {LeastLoaded(fleet, av)}
    [] router.name = "prefix_affinity" ->
         {IF k = NoKey THEN LeastLoaded(fleet, av) ELSE ByPrefix(fleet, av, router.factor, k)}
    [] router.name = "session_affinity" ->
         {IF k = NoKey THEN LeastLoaded(fleet, av) ELSE ByRing(fleet, av, 150, k)}
=============================================================================
