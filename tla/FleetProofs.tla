---------------------------- MODULE FleetProofs ----------------------------
(***************************************************************************)
(* The prefix-cache proxy: its counters are exact, its beliefs recent, and *)
(* its requests routed soundly, for every fleet, ring, set of requests and *)
(* of routers.                                                             *)
(*                                                                         *)
(* First what the strategies pick, what a step leaves of a replica, the    *)
(* attempt, which is what Handle and BackendError share, and the steps.    *)
(* The later sections are about the cluster simulator, the contiguous      *)
(* allocator, the operator's tools and the mock server, each with its own  *)
(* constants and variables.                                                *)
(***************************************************************************)
EXTENDS Proxy, Cluster, Contiguous, Telemetry, Server, QueueFacts, FiniteSetTheorems, TLAPS

-----------------------------------------------------------------------------
(***************************************************************************)
(* What the strategies pick: an available replica, and under bounded load  *)
(* one that is not above the ceiling, or the least loaded.                 *)
(***************************************************************************)
Keyed == DOMAIN Place
ReplicaState ==
  [healthy : BOOLEAN, open_for : Int, errors : Int, inflight : Int, queued_tokens : Int,
   prefix_keys : Seq(Keyed)]
FleetState == [Replicas -> ReplicaState]
Loaded(f) == \A r \in Replicas : f[r].inflight \in Nat /\ f[r].queued_tokens \in Nat

LEMMA RoutingFacts ==
  /\ Replicas \subseteq Nat /\ IsFiniteSet(Replicas)
  /\ Ring \in Seq(Replicas) /\ Ring # <<>> /\ Len(Ring) \in Nat /\ Len(Ring) > 0
  /\ \A k \in Keyed : Place[k] \in 1..Len(Ring)
  /\ NoKey \notin Keyed
  /\ Probe \in Nat /\ MaxPrefixKeys \in Nat /\ MaxPrefixKeys > 0 /\ BreakerThreshold \in Nat /\ OpenTicks \in Nat
<1>1. /\ Ring \in Seq(Nat) /\ Ring # <<>>
      /\ {Ring[i] : i \in DOMAIN Ring} = Replicas /\ IsFiniteSet(Replicas)
  BY RoutingAssumption, ProxyAssumption
<1>2. Len(Ring) \in Nat /\ Len(Ring) > 0 /\ DOMAIN Ring = 1..Len(Ring)
  BY <1>1
<1>3. \A i \in DOMAIN Ring : Ring[i] \in Replicas /\ Ring[i] \in Nat
  BY <1>1, <1>2
<1>4. Ring \in Seq(Replicas)
  <2>1. Ring = [i \in 1..Len(Ring) |-> Ring[i]]
    BY <1>1, <1>2
  <2> QED
    BY <1>2, <1>3, <2>1
<1>5. Replicas \subseteq Nat
  BY <1>1, <1>3
<1>6. \A k \in DOMAIN Place : Place[k] \in 1..Len(Ring) /\ k # NoKey
  BY RoutingAssumption
<1>7. {Probe, MaxPrefixKeys, BreakerThreshold, OpenTicks} \subseteq Nat \ {0}
  BY RoutingAssumption
<1> QED
  BY <1>1, <1>2, <1>4, <1>5, <1>6, <1>7 DEF Keyed

LEMMA SmallerOfTwo ==
  ASSUME NEW x \in Int, NEW y \in Int
  PROVE  Min({x, y}) \in {x, y} /\ Min({x, y}) <= x /\ Min({x, y}) <= y
<1>1. \E z \in {x, y} : \A w \in {x, y} : z <= w
  <2>1. CASE x <= y
    BY <2>1
  <2>2. CASE y <= x
    BY <2>2
  <2> QED
    BY <2>1, <2>2
<1> QED
  BY <1>1 DEF Min

LEMMA LargerOfTwo ==
  ASSUME NEW x \in Int, NEW y \in Int
  PROVE  Max({x, y}) \in {x, y}
<1>1. \E z \in {x, y} : \A w \in {x, y} : z >= w
  <2>1. CASE x >= y
    BY <2>1
  <2>2. CASE y >= x
    BY <2>2
  <2> QED
    BY <2>1, <2>2
<1> QED
  BY <1>1 DEF Max

\* A lookup gives replicas.
LEMMA LookupGivesReplicas ==
  ASSUME NEW k \in Keyed
  PROVE  lookup(k, Probe) \in Seq(Replicas)
<1> DEFINE name(i) == Ring[((Place[k] + i - 2) % Len(Ring)) + 1]
           l == Len(Ring)
           places == [i \in 1..l |-> i]
           new == Those(places, {i \in 1..l : \A j \in 1..(i - 1) : name(j) # name(i)})
           n == Min({Probe, Len(new)})
<1>1. l \in Nat /\ l > 0 /\ Place[k] \in 1..l /\ Probe \in Nat /\ Ring \in Seq(Replicas)
  BY RoutingFacts
<1>2. places \in Seq(1..l)
  BY <1>1
<1>3. new \in Seq(1..l)
  <2> HIDE DEF places, l
  <2> QED
    BY <1>2, ThoseKept
<1>4. \A i \in 1..l : name(i) \in Replicas
  <2>1. ASSUME NEW i \in 1..l PROVE (Place[k] + i - 2) % l \in 0..(l - 1)
    BY <1>1
  <2>2. ASSUME NEW i \in 1..l PROVE ((Place[k] + i - 2) % l) + 1 \in 1..l
    <3> DEFINE x == (Place[k] + i - 2) % l
    <3>1. x \in 0..(l - 1)
      BY <2>1
    <3> HIDE DEF x, l
    <3>2. x + 1 \in 1..l
      BY <1>1, <3>1
    <3> QED
      BY <3>2 DEF x
  <2>3. \A j \in 1..l : Ring[j] \in Replicas
    BY <1>1
  <2> QED
    BY <2>2, <2>3
<1>5. lookup(k, Probe) = [i \in 1..n |-> name(new[i])]
  BY DEF lookup
<1> HIDE DEF new, name, places, l
<1>6. Len(new) \in Nat /\ \A i \in 1..Len(new) : new[i] \in 1..l
  <2>1. ASSUME NEW S, NEW s \in Seq(S)
        PROVE  Len(s) \in Nat /\ \A i \in 1..Len(s) : s[i] \in S
    OBVIOUS
  <2> QED
    BY <1>3, <2>1
<1>7. n \in Nat /\ n <= Len(new)
  <2>1. Probe \in Int /\ Len(new) \in Int
    BY <1>1, <1>6
  <2>2. n \in {Probe, Len(new)} /\ n <= Len(new)
    BY <2>1, SmallerOfTwo
  <2> QED
    BY <1>1, <1>6, <2>2
<1> HIDE DEF n
<1>8. \A i \in 1..n : name(new[i]) \in Replicas
  BY <1>4, <1>6, <1>7
<1> QED
  BY <1>5, <1>7, <1>8

\* Some replica is not heavier than any other.
LEMMA LeastLoadedIsLeast ==
  ASSUME NEW f, Loaded(f), NEW av, av \subseteq Replicas, av # {}
  PROVE  /\ LeastLoaded(f, av) \in av
         /\ \A t \in av : f[LeastLoaded(f, av)].inflight <= f[t].inflight
<1> DEFINE A == {f[r].inflight : r \in av}
<1>1. A \subseteq Nat /\ A # {}
  BY DEF Loaded
<1>2. PICK a \in A : \A b \in A : a <= b
  BY <1>1, LeastElement
<1> DEFINE B == {f[r].queued_tokens : r \in {x \in av : f[x].inflight = a}}
<1>3. B \subseteq Nat /\ B # {}
  BY <1>2 DEF Loaded
<1>4. PICK b \in B : \A c \in B : b <= c
  BY <1>3, LeastElement
<1> DEFINE C == {x \in av : f[x].inflight = a /\ f[x].queued_tokens = b}
<1>5. C \subseteq Nat /\ C # {}
  BY <1>4, RoutingFacts
<1>6. PICK r \in C : \A c \in C : r <= c
  BY <1>5, LeastElement
<1>7. r \in av /\ f[r].inflight = a /\ f[r].queued_tokens = b
  BY <1>6
<1>8. ASSUME NEW t \in av PROVE Lighter(f, r, t)
  <2>1. f[t].inflight \in Nat /\ f[t].queued_tokens \in Nat /\ a \in Nat /\ b \in Nat
    BY <1>1, <1>2, <1>3, <1>4 DEF Loaded
  <2>2. a <= f[t].inflight
    BY <1>2
  <2>3. f[t].inflight = a => b <= f[t].queued_tokens
    BY <1>4
  <2>4. f[t].inflight = a /\ f[t].queued_tokens = b => r <= t
    BY <1>6
  <2> QED
    BY <1>7, <2>1, <2>2, <2>3, <2>4 DEF Lighter
<1>9. /\ LeastLoaded(f, av) \in av
      /\ \A t \in av : Lighter(f, LeastLoaded(f, av), t)
  BY <1>7, <1>8 DEF LeastLoaded
<1> QED
  BY <1>9 DEF Lighter, Loaded

\* A ceiling at or above the mean has room on the least loaded replica.
LEMMA LeastLoadedFits ==
  ASSUME NEW f, Loaded(f), NEW av, av \subseteq Replicas, av # {},
         NEW factor \in Nat, factor >= 100
  PROVE  Fits(f, av, factor, LeastLoaded(f, av))
<1> DEFINE r == LeastLoaded(f, av)
           load == [t \in av |-> f[t].inflight]
           w == f[r].inflight
           c == Cardinality(av)
           s == SumFunctionOnSet(load, av)
<1>1. r \in av /\ \A t \in av : w <= load[t]
  BY LeastLoadedIsLeast
<1>2. IsFiniteSet(av) /\ c \in Nat
  BY RoutingFacts, FS_Subset, FS_CardinalityType
<1>3. Summable(load, av) /\ w \in Nat
  BY <1>1, <1>2 DEF Summable, Loaded
<1>4. w * c <= s /\ s \in Nat
  <2> HIDE DEF w, load
  <2> QED
    BY <1>1, <1>3, SumAtLeast, SumOverSet
<1> HIDE DEF r, w, c, s, load
<1>5. w * c \in Nat /\ (w * c) * 100 <= s * 100
  BY <1>2, <1>3, <1>4, TimesKeepsOrder
<1>6. s * 100 <= s * factor
  <2>1. 100 * s <= factor * s
    BY <1>4, TimesKeepsOrder
  <2>2. 100 * s = s * 100 /\ factor * s = s * factor
    BY <1>4
  <2> QED
    BY <2>1, <2>2
<1>7. 100 * c * w = (w * c) * 100 /\ factor * s = s * factor
  BY <1>2, <1>3, <1>4
<1>8. (w * c) * 100 \in Nat /\ s * 100 \in Nat /\ s * factor \in Nat
  BY <1>4, <1>5
<1>9. 100 * c * w <= factor * s
  BY <1>5, <1>6, <1>7, <1>8
<1> QED
  BY <1>9 DEF Fits, r, w, c, s, load

LEMMA ByRingFits ==
  ASSUME NEW f, Loaded(f), NEW av, av \subseteq Replicas, av # {}, NEW factor \in Nat,
         NEW k \in Keyed
  PROVE  /\ ByRing(f, av, factor, k) \in av
         /\ factor >= 100 => Fits(f, av, factor, ByRing(f, av, factor, k))
<1> DEFINE Others == {r \in av : Fits(f, av, factor, r)}
           fitting == Those(lookup(k, Probe), Others)
<1>1. lookup(k, Probe) \in Seq(Replicas)
  BY LookupGivesReplicas
<1> HIDE DEF Others
<1>2. fitting \in Seq(Replicas) /\ Range(fitting) = Range(lookup(k, Probe)) \cap Others
  BY <1>1, ThoseKept
<1>3. ByRing(f, av, factor, k) = IF fitting = <<>> THEN LeastLoaded(f, av) ELSE fitting[1]
  BY DEF ByRing, Others
<1> HIDE DEF fitting
<1>4. CASE fitting = <<>>
  BY <1>3, <1>4, LeastLoadedIsLeast, LeastLoadedFits
<1>5. CASE fitting # <<>>
  <2>1. 1 \in DOMAIN fitting
    BY <1>2, <1>5
  <2>2. fitting[1] \in Others
    BY <1>2, <2>1 DEF Range
  <2> QED
    BY <1>3, <1>5, <2>2 DEF Others
<1> QED
  BY <1>4, <1>5

LEMMA ByPrefixFits ==
  ASSUME NEW f, Loaded(f), NEW av, av \subseteq Replicas, av # {}, NEW factor \in Nat,
         NEW k \in Keyed
  PROVE  /\ ByPrefix(f, av, factor, k) \in av
         /\ factor >= 100 => Fits(f, av, factor, ByPrefix(f, av, factor, k))
<1> DEFINE holders == {r \in av : has_prefix(f[r], k)}
           best == CHOOSE r \in holders :
                     \A t \in holders : \/ f[r].inflight < f[t].inflight
                                        \/ f[r].inflight = f[t].inflight /\ r <= t
<1>1. ASSUME holders # {} PROVE best \in holders
  <2> DEFINE A == {f[r].inflight : r \in holders}
  <2>1. A \subseteq Nat /\ A # {}
    BY <1>1 DEF Loaded
  <2>2. PICK a \in A : \A b \in A : a <= b
    BY <2>1, LeastElement
  <2> DEFINE C == {x \in holders : f[x].inflight = a}
  <2>3. C \subseteq Nat /\ C # {}
    BY <2>2, RoutingFacts
  <2>4. PICK r \in C : \A c \in C : r <= c
    BY <2>3, LeastElement
  <2>5. ASSUME NEW t \in holders
        PROVE  f[r].inflight < f[t].inflight \/ (f[r].inflight = f[t].inflight /\ r <= t)
    <3>1. f[t].inflight \in Nat /\ a \in Nat /\ a <= f[t].inflight /\ f[r].inflight = a
      BY <2>1, <2>2, <2>4 DEF Loaded
    <3>2. f[t].inflight = a => r <= t
      BY <2>4
    <3> QED
      BY <3>1, <3>2
  <2> HIDE DEF holders
  <2> QED
    BY <2>4, <2>5
<1>2. ByPrefix(f, av, factor, k) = IF holders # {} /\ Fits(f, av, factor, best) THEN best
                                   ELSE ByRing(f, av, factor, k)
  BY DEF ByPrefix
<1> HIDE DEF best
<1> QED
  BY <1>1, <1>2, ByRingFits

\* The strategies pick an available replica; prefix affinity, one that fits.
LEMMA PickedIsAvailable ==
  ASSUME NEW f, Loaded(f), NEW av, av \subseteq Replicas, av # {}, NEW k \in Keyed \cup {NoKey},
         NEW rt \in [name : Strategies, factor : Nat, turn : Nat], NEW r \in Pick(rt, f, av, k)
  PROVE  /\ r \in av
         /\ rt.name = "prefix_affinity" /\ rt.factor >= 100 => Fits(f, av, rt.factor, r)
<1>1. rt.name \in Strategies /\ rt.factor \in Nat
  OBVIOUS
<1>2. LeastLoaded(f, av) \in av
  BY LeastLoadedIsLeast
<1>3. CASE rt.name = "random"
  BY <1>3 DEF Pick
<1>4. CASE rt.name = "round_robin"
  BY <1>4 DEF Pick
<1>5. CASE rt.name = "least_loaded"
  BY <1>2, <1>5 DEF Pick
<1>6. CASE rt.name = "prefix_affinity"
  <2>1. r = IF k = NoKey THEN LeastLoaded(f, av) ELSE ByPrefix(f, av, rt.factor, k)
    BY <1>6 DEF Pick
  <2> QED
    BY <1>1, <1>2, <2>1, LeastLoadedFits, ByPrefixFits
<1>7. CASE rt.name = "session_affinity"
  <2>1. r = IF k = NoKey THEN LeastLoaded(f, av) ELSE ByRing(f, av, 150, k)
    BY <1>7 DEF Pick
  <2> QED
    BY <1>2, <1>7, <2>1, ByRingFits
<1> QED
  BY <1>1, <1>3, <1>4, <1>5, <1>6, <1>7 DEF Strategies
-----------------------------------------------------------------------------
(***************************************************************************)
(* The invariant of the proxy.  The counters of a replica are those of the *)
(* requests on it; that a request on a replica has a replica it was sent   *)
(* to, and has been in flight since the last switch, keeps it so.          *)
(***************************************************************************)
Stages == Slotted \cup {"new", "failed", "answered"}
RouterState == [name : Strategies, factor : Nat, turn : Nat]

FleetTypeOK ==
  /\ fleet \in FleetState
  /\ st \in [Requests -> Stages]
  /\ key \in [Requests -> Keyed \cup {NoKey}]
  /\ tried \in [Requests -> Seq(Replicas)]
  /\ since \subseteq Requests

\* The router is an installed one, but for its turn.
Installed ==
  /\ router \in RouterState
  /\ \E rt \in Routers : rt.name = router.name /\ rt.factor = router.factor

Visited ==
  \A q \in Requests : /\ st[q] = "new" => tried[q] = <<>>
                      /\ st[q] \in Slotted \cup {"answered"} => tried[q] # <<>>
                      /\ st[q] \in Slotted => q \in since

On(s, t, r) == {q \in Requests : s[q] \in Slotted /\ Last(t[q]) = r}
Tallies(n, w, S) ==
  IsFiniteSet(S) /\ n = Cardinality(S) /\ w = SumFunctionOnSet(Tokens, S)
Counts(f, s, t) ==
  \A r \in Replicas : Tallies(f[r].inflight, f[r].queued_tokens, On(s, t, r))

FleetInv == FleetTypeOK /\ Installed /\ Visited /\ Counts(fleet, st, tried) /\ BeliefsAreRecent

LEMMA TallyByOne ==
  ASSUME NEW S \in SUBSET Requests, NEW n, NEW w, Tallies(n, w, S), NEW q \in Requests
  PROVE  /\ n \in Nat /\ w \in Nat /\ Tokens[q] \in Nat
         /\ q \notin S => Tallies(n + 1, w + Tokens[q], S \cup {q})
         /\ q \in S => Tallies(n - 1, w - Tokens[q], S \ {q})
<1>0. \A x \in Requests : Tokens[x] \in Nat
  BY ProxyAssumption
<1>1. IsFiniteSet(S) /\ n = Cardinality(S) /\ w = SumFunctionOnSet(Tokens, S)
  BY DEF Tallies
<1>2. \A T \in SUBSET Requests : IsFiniteSet(T) => Summable(Tokens, T)
  BY <1>0 DEF Summable
<1>3. n \in Nat /\ w \in Nat
  <2>1. Summable(Tokens, S)
    BY <1>1, <1>2
  <2> QED
    BY <1>1, <2>1, FS_CardinalityType, SumOverSet
<1>4. ASSUME q \notin S PROVE Tallies(n + 1, w + Tokens[q], S \cup {q})
  <2> DEFINE T == S \cup {q}
  <2>1. IsFiniteSet(T) /\ Cardinality(T) = n + 1
    BY <1>1, <1>4, FS_AddElement
  <2>2. Summable(Tokens, T) /\ q \in T /\ T \ {q} = S
    BY <1>2, <1>4, <2>1
  <2>3. SumFunctionOnSet(Tokens, T) = Tokens[q] + SumFunctionOnSet(Tokens, T \ {q})
    BY <2>2, SumOverSet
  <2>4. SumFunctionOnSet(Tokens, T) = Tokens[q] + w
    BY <1>1, <2>2, <2>3
  <2> HIDE DEF T
  <2>5. Tokens[q] + w = w + Tokens[q]
    BY <1>0, <1>3
  <2>6. Tallies(n + 1, w + Tokens[q], T)
    BY <2>1, <2>4, <2>5 DEF Tallies
  <2> QED
    BY <2>6 DEF T
<1>5. ASSUME q \in S PROVE Tallies(n - 1, w - Tokens[q], S \ {q})
  <2> DEFINE T == S \ {q}
  <2>1. IsFiniteSet(T) /\ Cardinality(T) = n - 1
    BY <1>1, <1>5, FS_RemoveElement
  <2>2. Summable(Tokens, S) /\ Summable(Tokens, T)
    BY <1>1, <1>2, <2>1
  <2>3. w = Tokens[q] + SumFunctionOnSet(Tokens, T)
    <3>1. SumFunctionOnSet(Tokens, S) = Tokens[q] + SumFunctionOnSet(Tokens, S \ {q})
      BY <1>5, <2>2, SumWithout
    <3> QED
      BY <1>1, <3>1
  <2>4. SumFunctionOnSet(Tokens, T) \in Nat
    BY <2>2, SumOverSet
  <2>5. w - Tokens[q] = SumFunctionOnSet(Tokens, T)
    BY <1>0, <2>3, <2>4
  <2> HIDE DEF T
  <2>6. Tallies(n - 1, w - Tokens[q], T)
    BY <2>1, <2>5 DEF Tallies
  <2> QED
    BY <2>6 DEF T
<1> QED
  BY <1>0, <1>3, <1>4, <1>5

LEMMA CountsAreNaturals ==
  ASSUME NEW f, NEW s, NEW t, Counts(f, s, t)
  PROVE  Loaded(f)
<1>1. ASSUME NEW r \in Replicas PROVE f[r].inflight \in Nat /\ f[r].queued_tokens \in Nat
  <2>1. Tallies(f[r].inflight, f[r].queued_tokens, On(s, t, r))
    BY DEF Counts
  <2>2. On(s, t, r) \in SUBSET Requests
    BY DEF On
  <2>3. \A x \in Requests : Tokens[x] \in Nat
    BY ProxyAssumption
  <2>4. Summable(Tokens, On(s, t, r))
    BY <2>1, <2>2, <2>3 DEF Summable, Tallies
  <2> QED
    BY <2>1, <2>4, SumOverSet, FS_CardinalityType DEF Tallies
<1> QED
  BY <1>1 DEF Loaded

\* A step that leaves every request where it is leaves the counters exact.
LEMMA CountsStay ==
  ASSUME NEW f, NEW s, NEW t, Counts(f, s, t), NEW e, NEW u, NEW v,
         \A r \in Replicas : e[r].inflight = f[r].inflight /\ e[r].queued_tokens = f[r].queued_tokens,
         \A q \in Requests : /\ s[q] \in Slotted <=> u[q] \in Slotted
                             /\ s[q] \in Slotted => t[q] = v[q]
  PROVE  Counts(e, u, v)
<1>1. \A r \in Replicas : On(s, t, r) = On(u, v, r)
  BY DEF On
<1> QED
  BY <1>1 DEF Counts

Coming(f, q, r) ==
  [f EXCEPT ![r].inflight = @ + 1, ![r].queued_tokens = @ + Tokens[q]]

\* A request that comes to a replica, or leaves it, is the only one to move.
LEMMA CountsComing ==
  ASSUME NEW f \in FleetState, NEW s \in [Requests -> Stages], NEW t, Counts(f, s, t),
         NEW q \in Requests, s[q] \notin Slotted, NEW r \in Replicas,
         NEW u, NEW v, \A x \in Requests \ {q} : u[x] = s[x] /\ v[x] = t[x],
         u[q] \in Slotted, Last(v[q]) = r
  PROVE  Counts(Coming(f, q, r), u, v)
<1> DEFINE e == Coming(f, q, r)
<1>1. /\ e[r].inflight = f[r].inflight + 1 /\ e[r].queued_tokens = f[r].queued_tokens + Tokens[q]
      /\ \A x \in Replicas \ {r} : e[x] = f[x]
  BY DEF FleetState, ReplicaState, Coming
<1>2. On(u, v, r) = On(s, t, r) \cup {q} /\ q \notin On(s, t, r)
  BY DEF On
<1>3. \A x \in Replicas \ {r} : On(u, v, x) = On(s, t, x)
  BY DEF On
<1>4. On(s, t, r) \in SUBSET Requests
  BY DEF On
<1>5. Tallies(f[r].inflight, f[r].queued_tokens, On(s, t, r))
  BY DEF Counts
<1> HIDE DEF e
<1>6. Tallies(e[r].inflight, e[r].queued_tokens, On(u, v, r))
  <2>1. Tallies(f[r].inflight + 1, f[r].queued_tokens + Tokens[q], On(s, t, r) \cup {q})
    BY <1>2, <1>4, <1>5, TallyByOne
  <2> QED
    BY <1>1, <1>2, <2>1
<1>7. Counts(e, u, v)
  BY <1>1, <1>3, <1>6 DEF Counts
<1> QED
  BY <1>7 DEF e

LEMMA CountsLeaving ==
  ASSUME NEW f \in FleetState, NEW s \in [Requests -> Stages], NEW t, Counts(f, s, t),
         NEW q \in Requests, s[q] \in Slotted, NEW r \in Replicas, Last(t[q]) = r,
         NEW u, NEW v, \A x \in Requests \ {q} : u[x] = s[x] /\ v[x] = t[x],
         u[q] \notin Slotted
  PROVE  Counts(Landed(f, q, r), u, v)
<1> DEFINE e == Landed(f, q, r)
<1>1. /\ e[r].inflight = f[r].inflight - 1 /\ e[r].queued_tokens = f[r].queued_tokens - Tokens[q]
      /\ \A x \in Replicas \ {r} : e[x] = f[x]
  BY DEF FleetState, ReplicaState, Landed
<1>2. On(u, v, r) = On(s, t, r) \ {q} /\ q \in On(s, t, r)
  BY DEF On
<1>3. \A x \in Replicas \ {r} : On(u, v, x) = On(s, t, x)
  BY DEF On
<1>4. On(s, t, r) \in SUBSET Requests
  BY DEF On
<1>5. Tallies(f[r].inflight, f[r].queued_tokens, On(s, t, r))
  BY DEF Counts
<1> HIDE DEF e
<1>6. Tallies(e[r].inflight, e[r].queued_tokens, On(u, v, r))
  <2>1. Tallies(f[r].inflight - 1, f[r].queued_tokens - Tokens[q], On(s, t, r) \ {q})
    BY <1>2, <1>4, <1>5, TallyByOne
  <2> QED
    BY <1>1, <1>2, <2>1
<1>7. Counts(e, u, v)
  BY <1>1, <1>3, <1>6 DEF Counts
<1> QED
  BY <1>7 DEF e

-----------------------------------------------------------------------------
(***************************************************************************)
(* What the operations on replicas leave of the fleet.                     *)
(***************************************************************************)
SameLoad(e, f) ==
  \A r \in Replicas : e[r].inflight = f[r].inflight /\ e[r].queued_tokens = f[r].queued_tokens

LEMMA ReplicaSteps ==
  ASSUME NEW r \in ReplicaState
  PROVE  /\ observe_error(r) \in ReplicaState
         /\ observe_error(r) = [r EXCEPT !.errors = observe_error(r).errors,
                                         !.open_for = observe_error(r).open_for]
         /\ observe_success(r) \in ReplicaState
         /\ observe_success(r) = [r EXCEPT !.errors = 0]
<1>1. r.errors \in Int /\ r.open_for \in Int /\ r.errors + 1 \in Int
  BY DEF ReplicaState
<1>2. BreakerThreshold \in Int /\ OpenTicks \in Int
  BY RoutingFacts
<1>3. Min({r.errors + 1, BreakerThreshold}) \in Int
  BY <1>1, <1>2, SmallerOfTwo
<1>4. observe_error(r) \in ReplicaState
  BY <1>1, <1>2, <1>3 DEF observe_error, ReplicaState
<1>5. observe_error(r) = [r EXCEPT !.errors = observe_error(r).errors,
                                   !.open_for = observe_error(r).open_for]
  BY DEF observe_error, ReplicaState
<1>6. observe_success(r) \in ReplicaState /\ observe_success(r) = [r EXCEPT !.errors = 0]
  BY DEF observe_success, ReplicaState
<1> QED
  BY <1>4, <1>5, <1>6

LEMMA NotePrefixAdds ==
  ASSUME NEW r \in ReplicaState, NEW k \in Keyed
  PROVE  /\ note_prefix(r, k).prefix_keys \in Seq(Keyed)
         /\ Range(note_prefix(r, k).prefix_keys) \subseteq Range(r.prefix_keys) \cup {k}
         /\ note_prefix(r, k) = [r EXCEPT !.prefix_keys = note_prefix(r, k).prefix_keys]
<1> DEFINE others == Those(r.prefix_keys, DOMAIN Place \ {k})
           keys == Append(others, k)
           cut == IF Len(keys) > MaxPrefixKeys
                  THEN SubSeq(keys, Len(keys) \div 4 + 1, Len(keys)) ELSE keys
<1>1. r.prefix_keys \in Seq(Keyed)
  BY DEF ReplicaState
<1>2. others \in Seq(Keyed) /\ Range(others) \subseteq Range(r.prefix_keys)
  BY <1>1, ThoseKept
<1> HIDE DEF others
<1>3. keys \in Seq(Keyed) /\ Range(keys) = Range(others) \cup {k}
  BY <1>2, AppendToQueue
<1> HIDE DEF keys
<1>4. cut \in Seq(Keyed) /\ Range(cut) \subseteq Range(keys)
  <2> DEFINE n == Len(keys)
             c == n \div 4 + 1
  <2>1. n \in Nat /\ c \in Nat /\ c >= 1
    <3>1. n \in Nat
      BY <1>3
    <3> HIDE DEF n
    <3> QED
      BY <3>1
  <2> HIDE DEF n, c
  <2>2. SubSeq(keys, c, n) \in Seq(Keyed) /\ Range(SubSeq(keys, c, n)) \subseteq Range(keys)
    <3>1. DOMAIN keys = 1..n /\ keys \in Seq(Keyed)
      BY <1>3 DEF n
    <3>2. SubSeq(keys, c, n) = [i \in 1..(n - c + 1) |-> keys[c + i - 1]]
      BY <2>1, <3>1
    <3>3. \A i \in 1..(n - c + 1) : c + i - 1 \in 1..n
      BY <2>1
    <3>4. DOMAIN SubSeq(keys, c, n) = 1..(n - c + 1)
      BY <3>2
    <3>5. ASSUME NEW i \in 1..(n - c + 1) PROVE SubSeq(keys, c, n)[i] \in Range(keys)
      <4>1. PICK j \in 1..n : j = c + i - 1
        BY <3>3
      <4>2. SubSeq(keys, c, n)[i] = keys[j]
        BY <3>2, <4>1
      <4> QED
        BY <3>1, <4>2 DEF Range
    <3>6. SubSeq(keys, c, n) \in Seq(Keyed)
      BY <2>1, <3>1, <3>3
    <3> QED
      BY <3>4, <3>5, <3>6 DEF Range
  <2>3. cut = IF n > MaxPrefixKeys THEN SubSeq(keys, c, n) ELSE keys
    BY DEF n, c
  <2> QED
    BY <1>3, <2>2, <2>3
<1>5. note_prefix(r, k) = [r EXCEPT !.prefix_keys = cut]
  BY DEF note_prefix, keys, others
<1> HIDE DEF cut
<1>6. note_prefix(r, k).prefix_keys = cut
  BY <1>5 DEF ReplicaState
<1> QED
  BY <1>2, <1>3, <1>4, <1>5, <1>6

LEMMA ServedKeeps ==
  ASSUME NEW f \in FleetState, NEW q \in Requests, NEW r \in Replicas,
         key \in [Requests -> Keyed \cup {NoKey}]
  PROVE  /\ Served(f, q, r) \in FleetState
         /\ SameLoad(Served(f, q, r), f)
         /\ \A x \in Replicas : Range(Served(f, q, r)[x].prefix_keys) \subseteq
                                  Range(f[x].prefix_keys) \cup (IF x = r THEN {key[q]} ELSE {})
<1> DEFINE ok == observe_success(f[r])
           new == IF key[q] = NoKey THEN ok ELSE note_prefix(ok, key[q])
<1>1. f[r] \in ReplicaState
  BY DEF FleetState
<1>2. /\ ok \in ReplicaState /\ ok.inflight = f[r].inflight /\ ok.queued_tokens = f[r].queued_tokens
      /\ ok.prefix_keys = f[r].prefix_keys
  <2>1. ok \in ReplicaState /\ ok = [f[r] EXCEPT !.errors = 0]
    BY <1>1, ReplicaSteps
  <2> HIDE DEF ok
  <2> QED
    BY <1>1, <2>1 DEF ReplicaState
<1>3. Served(f, q, r) = [f EXCEPT ![r] = new]
  BY DEF Served
<1> HIDE DEF ok
<1>4. /\ new \in ReplicaState /\ new.inflight = ok.inflight /\ new.queued_tokens = ok.queued_tokens
      /\ Range(new.prefix_keys) \subseteq Range(ok.prefix_keys) \cup {key[q]}
  <2>1. CASE key[q] = NoKey
    BY <1>2, <2>1
  <2>2. CASE key[q] # NoKey
    <3>1. key[q] \in Keyed
      BY <2>2
    <3>2. new = note_prefix(ok, key[q])
      BY <2>2
    <3> HIDE DEF new
    <3>3. PICK p : p = note_prefix(ok, key[q]).prefix_keys
      OBVIOUS
    <3>4. /\ p \in Seq(Keyed) /\ Range(p) \subseteq Range(ok.prefix_keys) \cup {key[q]}
          /\ note_prefix(ok, key[q]) = [ok EXCEPT !.prefix_keys = p]
      BY <1>2, <3>1, <3>3, NotePrefixAdds
    <3>5. new = [ok EXCEPT !.prefix_keys = p]
      BY <3>2, <3>4
    <3>6. new \in ReplicaState /\ new.inflight = ok.inflight /\ new.queued_tokens = ok.queued_tokens
      BY <1>2, <3>4, <3>5 DEF ReplicaState
    <3>7. new.prefix_keys = p
      BY <1>2, <3>5 DEF ReplicaState
    <3> QED
      BY <3>4, <3>6, <3>7
  <2> QED
    BY <2>1, <2>2
<1> HIDE DEF new
<1>5. Served(f, q, r)[r] = new /\ \A x \in Replicas \ {r} : Served(f, q, r)[x] = f[x]
  BY <1>3 DEF FleetState
<1>6. Served(f, q, r) \in FleetState
  BY <1>3, <1>4 DEF FleetState
<1>7. SameLoad(Served(f, q, r), f)
  BY <1>2, <1>4, <1>5 DEF SameLoad
<1> QED
  BY <1>2, <1>4, <1>5, <1>6, <1>7

LEMMA LandedKeeps ==
  ASSUME NEW f \in FleetState, Loaded(f), NEW q \in Requests, NEW r \in Replicas
  PROVE  /\ Landed(f, q, r) \in FleetState
         /\ \A x \in Replicas : Landed(f, q, r)[x].prefix_keys = f[x].prefix_keys
<1>1. Tokens[q] \in Nat /\ f[r].inflight \in Nat /\ f[r].queued_tokens \in Nat
  BY ProxyAssumption DEF Loaded
<1>2. f[r].inflight - 1 \in Int /\ f[r].queued_tokens - Tokens[q] \in Int
  BY <1>1
<1> QED
  BY <1>2 DEF Landed, FleetState, ReplicaState

Erred(f, r) == [f EXCEPT ![r] = observe_error(@)]

LEMMA ErrorKeeps ==
  ASSUME NEW f \in FleetState, NEW r \in Replicas
  PROVE  /\ Erred(f, r) \in FleetState
         /\ SameLoad(Erred(f, r), f)
         /\ \A x \in Replicas : Erred(f, r)[x].prefix_keys = f[x].prefix_keys
<1> DEFINE new == observe_error(f[r])
           e == [f EXCEPT ![r] = new]
<1>1. f[r] \in ReplicaState
  BY DEF FleetState
<1>2. /\ new \in ReplicaState
      /\ new = [f[r] EXCEPT !.errors = new.errors, !.open_for = new.open_for]
  BY <1>1, ReplicaSteps
<1> HIDE DEF new
<1>3. /\ new.inflight = f[r].inflight /\ new.queued_tokens = f[r].queued_tokens
      /\ new.prefix_keys = f[r].prefix_keys
  BY <1>1, <1>2 DEF ReplicaState
<1>4. e \in FleetState /\ e[r] = new /\ \A x \in Replicas \ {r} : e[x] = f[x]
  BY <1>2 DEF FleetState
<1>5. Erred(f, r) = e
  BY DEF new, Erred
<1> HIDE DEF e
<1>6. SameLoad(e, f)
  BY <1>3, <1>4 DEF SameLoad
<1>7. \A x \in Replicas : e[x].prefix_keys = f[x].prefix_keys
  BY <1>3, <1>4
<1> QED
  BY <1>4, <1>5, <1>6, <1>7

LEMMA LastOfAppend ==
  ASSUME NEW A, NEW s \in Seq(A), NEW x \in A
  PROVE  /\ Append(s, x) \in Seq(A) /\ Append(s, x) # <<>>
         /\ Len(Append(s, x)) = Len(s) + 1 /\ Len(s) \in Nat
         /\ Last(Append(s, x)) = x /\ Front(Append(s, x)) = s
<1> DEFINE e == Append(s, x)
<1>1. /\ e \in Seq(A) /\ Len(e) = Len(s) + 1 /\ Len(s) \in Nat /\ e[Len(s) + 1] = x
      /\ \A i \in 1..Len(s) : e[i] = s[i]
  OBVIOUS
<1> HIDE DEF e
<1>2. Last(e) = x
  BY <1>1 DEF Last
<1>3. SubSeq(e, 1, Len(s)) = [i \in 1..Len(s) |-> e[i]]
  BY <1>1
<1>4. s = [i \in 1..Len(s) |-> s[i]]
  OBVIOUS
<1>5. Front(e) = s
  <2>1. Len(e) - 1 = Len(s)
    BY <1>1
  <2> QED
    BY <1>1, <1>3, <1>4, <2>1 DEF Front
<1>6. e # <<>>
  BY <1>1
<1> QED
  BY <1>1, <1>2, <1>5, <1>6 DEF e

-----------------------------------------------------------------------------
(***************************************************************************)
(* An attempt: the request, which no replica counts, ends without a        *)
(* replica or is on the one the router picked.                             *)
(***************************************************************************)
SentTo(f, e, q, k, tr, r) ==
  /\ r \in Untried(f, tr) /\ r \in Pick(router, f, Untried(f, tr), k)
  /\ e = Coming(f, q, r)

LEMMA RouterTurns ==
  ASSUME Installed, router' \in {router, Turned}
  PROVE  Installed'
<1>1. router \in RouterState
  BY DEF Installed
<1>2. Turns \in Nat /\ Turns > 0
  BY ProxyAssumption
<1>3. Turned \in RouterState /\ Turned.name = router.name /\ Turned.factor = router.factor
  <2>1. CASE router.name # "round_robin"
    BY <1>1, <2>1 DEF Turned
  <2>2. CASE router.name = "round_robin"
    <3>1. router.turn \in Nat
      BY <1>1 DEF RouterState
    <3>2. (router.turn + 1) % Turns \in Nat
      BY <1>2, <3>1
    <3>3. Turned = [router EXCEPT !.turn = (router.turn + 1) % Turns]
      BY <2>2 DEF Turned
    <3> QED
      BY <1>1, <3>2, <3>3 DEF RouterState
  <2> QED
    BY <2>1, <2>2
<1>4. router' \in RouterState /\ router'.name = router.name /\ router'.factor = router.factor
  BY <1>1, <1>3
<1> QED
  BY <1>4 DEF Installed

LEMMA AttemptKeeps ==
  ASSUME FleetTypeOK, Installed, NEW q \in Requests, NEW f \in FleetState,
         NEW k \in Keyed \cup {NoKey}, NEW tr \in Seq(Replicas),
         Counts(f, [st EXCEPT ![q] = "failed"], tried), Attempt(f, q, k, tr)
  PROVE  /\ fleet' \in FleetState /\ st' \in [Requests -> Stages]
         /\ tried' \in [Requests -> Seq(Replicas)] /\ Installed'
         /\ Counts(fleet', st', tried')
         /\ \A r \in Replicas : fleet'[r].prefix_keys = f[r].prefix_keys
         /\ \A x \in Requests \ {q} : st'[x] = st[x] /\ tried'[x] = tried[x]
         /\ \/ st'[q] = "failed" /\ tried'[q] = tr
            \/ /\ st'[q] = "sent"
               /\ \E r \in Replicas : SentTo(f, fleet', q, k, tr, r) /\ tried'[q] = Append(tr, r)
<1> DEFINE s == [st EXCEPT ![q] = "failed"]
           av == Untried(f, tr)
<1>1. /\ s \in [Requests -> Stages] /\ s[q] = "failed" /\ "failed" \notin Slotted
      /\ \A x \in Requests \ {q} : s[x] = st[x]
      /\ Counts(f, s, tried)
  BY DEF FleetTypeOK, Stages, Slotted
<1> HIDE DEF s
<1>2. Loaded(f)
  BY CountsAreNaturals
<1>3. st \in [Requests -> Stages] /\ tried \in [Requests -> Seq(Replicas)]
  BY DEF FleetTypeOK
<1>4. CASE av = {}
  <2>1. fleet' = f /\ st' = s /\ tried' = [tried EXCEPT ![q] = tr] /\ router' = router
    BY <1>4 DEF Attempt, s
  <2>2. /\ st' \in [Requests -> Stages] /\ tried' \in [Requests -> Seq(Replicas)]
        /\ st'[q] = "failed" /\ tried'[q] = tr
        /\ \A x \in Requests \ {q} : st'[x] = s[x] /\ tried'[x] = tried[x]
    BY <1>1, <1>3, <2>1
  <2>3. Counts(fleet', st', tried')
    <3>1. \A r \in Replicas : /\ fleet'[r].inflight = f[r].inflight
                              /\ fleet'[r].queued_tokens = f[r].queued_tokens
      BY <2>1
    <3>2. \A x \in Requests : /\ s[x] \in Slotted <=> st'[x] \in Slotted
                              /\ s[x] \in Slotted => tried[x] = tried'[x]
      BY <1>1, <2>1, <2>2
    <3> QED
      BY <1>1, <3>1, <3>2, CountsStay
  <2>4. Installed'
    BY <2>1, RouterTurns
  <2> QED
    BY <1>1, <2>1, <2>2, <2>3, <2>4
<1>5. CASE av # {}
  <2>1. PICK r \in Pick(router, f, av, k) :
          /\ fleet' = Coming(f, q, r)
          /\ st' = [st EXCEPT ![q] = "sent"]
          /\ tried' = [tried EXCEPT ![q] = Append(tr, r)]
          /\ router' = Turned
    BY <1>5 DEF Attempt, Coming
  <2>2. av \subseteq Replicas
    BY DEF Untried
  <2>3. r \in av
    <3>1. router \in [name : Strategies, factor : Nat, turn : Nat]
      BY DEF Installed, RouterState
    <3> HIDE DEF av
    <3> QED
      BY <1>2, <1>5, <2>1, <2>2, <3>1, PickedIsAvailable
  <2> HIDE DEF av
  <2>4. r \in Replicas
    BY <2>2, <2>3
  <2>5. Append(tr, r) \in Seq(Replicas) /\ Last(Append(tr, r)) = r
    BY <2>4, LastOfAppend
  <2>6. /\ st' \in [Requests -> Stages] /\ tried' \in [Requests -> Seq(Replicas)]
        /\ st'[q] = "sent" /\ tried'[q] = Append(tr, r)
        /\ \A x \in Requests \ {q} : st'[x] = s[x] /\ tried'[x] = tried[x]
    BY <1>1, <1>3, <2>1, <2>5 DEF Stages, Slotted
  <2>7. Counts(fleet', st', tried')
    <3>1. st'[q] \in Slotted /\ Last(tried'[q]) = r
      BY <2>5, <2>6 DEF Slotted
    <3>2. s[q] \notin Slotted
      BY <1>1
    <3>3. PICK u, v : u = st' /\ v = tried'
      OBVIOUS
    <3>4. /\ u[q] \in Slotted /\ Last(v[q]) = r
          /\ \A x \in Requests \ {q} : u[x] = s[x] /\ v[x] = tried[x]
      BY <2>6, <3>1, <3>3
    <3>5. s \in [Requests -> Stages] /\ Counts(f, s, tried)
      BY <1>1
    <3>6. Counts(Coming(f, q, r), u, v)
      BY <2>4, <3>2, <3>4, <3>5, CountsComing, Zenon
    <3> QED
      BY <2>1, <3>3, <3>6
  <2>8. fleet' \in FleetState /\ \A x \in Replicas : fleet'[x].prefix_keys = f[x].prefix_keys
    <3>1. Tokens[q] \in Nat /\ f[r].inflight \in Nat /\ f[r].queued_tokens \in Nat
      BY <1>2, <2>4, ProxyAssumption DEF Loaded
    <3>2. f[r].inflight + 1 \in Int /\ f[r].queued_tokens + Tokens[q] \in Int
      BY <3>1
    <3> QED
      BY <2>1, <3>2 DEF FleetState, ReplicaState, Coming
  <2>9. Installed'
    BY <2>1, RouterTurns
  <2>10. SentTo(f, fleet', q, k, tr, r)
    BY <2>1, <2>3 DEF SentTo, av
  <2> QED
    BY <1>1, <2>4, <2>6, <2>7, <2>8, <2>9, <2>10
<1> QED
  BY <1>4, <1>5

-----------------------------------------------------------------------------
(***************************************************************************)
(* The steps.                                                              *)
(***************************************************************************)
\* Beliefs stay recent when what is new in them was served, and who served
\* the old ones is not forgotten.
LEMMA BeliefsStay ==
  ASSUME FleetTypeOK, FleetTypeOK', BeliefsAreRecent,
         \A x \in since : st[x] = "answered" =>
           /\ x \in since' /\ st'[x] = "answered"
           /\ key'[x] = key[x] /\ tried'[x] = tried[x],
         \A r \in Replicas : \A k \in Range(fleet'[r].prefix_keys) :
           \/ k \in Range(fleet[r].prefix_keys)
           \/ \E x \in since' : key'[x] = k /\ st'[x] = "answered" /\ Last(tried'[x]) = r
  PROVE  BeliefsAreRecent'
<1>1. ASSUME NEW r \in Replicas, NEW i \in DOMAIN fleet'[r].prefix_keys
      PROVE  \E x \in since' : /\ key'[x] = fleet'[r].prefix_keys[i]
                               /\ st'[x] = "answered" /\ Last(tried'[x]) = r
  <2> DEFINE k == fleet'[r].prefix_keys[i]
  <2>1. k \in Range(fleet'[r].prefix_keys)
    BY <1>1 DEF Range
  <2> HIDE DEF k
  <2>2. CASE k \in Range(fleet[r].prefix_keys)
    <3>1. PICK j \in DOMAIN fleet[r].prefix_keys : fleet[r].prefix_keys[j] = k
      BY <2>2 DEF Range
    <3>2. PICK x \in since : key[x] = k /\ st[x] = "answered" /\ Last(tried[x]) = r
      BY <3>1 DEF BeliefsAreRecent
    <3> QED
      BY <3>2 DEF k
  <2>3. CASE k \notin Range(fleet[r].prefix_keys)
    <3>1. PICK x \in since' : key'[x] = k /\ st'[x] = "answered" /\ Last(tried'[x]) = r
      BY <2>1, <2>3
    <3> QED
      BY <3>1 DEF k
  <2> QED
    BY <2>2, <2>3
<1> QED
  BY <1>1 DEF BeliefsAreRecent

LEMMA KeyOfTyped ==
  ASSUME NEW q \in Requests
  PROVE  KeyOf(q) \in Keyed \cup {NoKey}
<1>1. SystemKey[q] \in Keyed /\ SessionKey[q] \in {NoKey} \cup Keyed
  BY ProxyAssumption DEF Keyed
<1> QED
  BY <1>1 DEF KeyOf

\* A request that no replica counts is not missed when it is called failed.
LEMMA GoneUncounted ==
  ASSUME FleetTypeOK, NEW f \in FleetState, Counts(f, st, tried), NEW q \in Requests,
         st[q] \notin Slotted
  PROVE  Counts(f, [st EXCEPT ![q] = "failed"], tried)
<1> DEFINE s == [st EXCEPT ![q] = "failed"]
<1>1. \A x \in Requests : st[x] \in Slotted <=> s[x] \in Slotted
  BY DEF FleetTypeOK, Stages, Slotted
<1> HIDE DEF s
<1>2. Counts(f, s, tried)
  BY <1>1, CountsStay
<1> QED
  BY <1>2 DEF s

LEMMA HandleKeeps ==
  ASSUME FleetInv, NEW q \in Requests, Handle(q)
  PROVE  FleetInv'
<1>1. FleetTypeOK /\ Installed /\ Visited /\ Counts(fleet, st, tried) /\ BeliefsAreRecent
  BY DEF FleetInv
<1>2. /\ st[q] = "new" /\ key' = [key EXCEPT ![q] = KeyOf(q)]
      /\ Attempt(fleet, q, KeyOf(q), <<>>) /\ since' = since \cup {q}
  BY DEF Handle
<1>3. fleet \in FleetState /\ KeyOf(q) \in Keyed \cup {NoKey} /\ <<>> \in Seq(Replicas)
  BY <1>1, KeyOfTyped DEF FleetTypeOK
<1>4. Counts(fleet, [st EXCEPT ![q] = "failed"], tried)
  <2>1. st[q] \notin Slotted
    BY <1>2 DEF Slotted
  <2> QED
    BY <1>1, <1>3, <2>1, GoneUncounted
<1>5. /\ fleet' \in FleetState /\ st' \in [Requests -> Stages]
      /\ tried' \in [Requests -> Seq(Replicas)] /\ Installed'
      /\ Counts(fleet', st', tried')
      /\ \A r \in Replicas : fleet'[r].prefix_keys = fleet[r].prefix_keys
      /\ \A x \in Requests \ {q} : st'[x] = st[x] /\ tried'[x] = tried[x]
      /\ \/ st'[q] = "failed"
         \/ st'[q] = "sent" /\ \E r \in Replicas : tried'[q] = Append(<<>>, r)
  <2>1. PICK k \in Keyed \cup {NoKey} : k = KeyOf(q)
    BY <1>3
  <2>2. PICK tr \in Seq(Replicas) : tr = <<>>
    BY <1>3
  <2>3. Attempt(fleet, q, k, tr)
    BY <1>2, <2>1, <2>2
  <2>4. /\ fleet' \in FleetState /\ st' \in [Requests -> Stages]
        /\ tried' \in [Requests -> Seq(Replicas)] /\ Installed'
        /\ Counts(fleet', st', tried')
        /\ \A r \in Replicas : fleet'[r].prefix_keys = fleet[r].prefix_keys
        /\ \A x \in Requests \ {q} : st'[x] = st[x] /\ tried'[x] = tried[x]
        /\ \/ st'[q] = "failed"
           \/ st'[q] = "sent" /\ \E r \in Replicas : tried'[q] = Append(tr, r)
    BY <1>1, <1>3, <1>4, <2>3, AttemptKeeps
  <2> QED
    BY <2>2, <2>4
<1>6. FleetTypeOK'
  BY <1>1, <1>2, <1>3, <1>5 DEF FleetTypeOK
<1>7. Visited'
  <2>0. \A r \in Replicas : Append(<<>>, r) # <<>>
    BY <1>3, LastOfAppend
  <2>1. st'[q] # "new" /\ st'[q] # "answered" /\ (st'[q] \in Slotted => tried'[q] # <<>>)
    BY <1>5, <2>0 DEF Slotted
  <2> QED
    BY <1>1, <1>2, <1>5, <2>1 DEF Visited
<1>8. BeliefsAreRecent'
  <2>1. \A x \in since : st[x] = "answered" =>
           /\ x \in since' /\ st'[x] = "answered"
           /\ key'[x] = key[x] /\ tried'[x] = tried[x]
    BY <1>1, <1>2, <1>5 DEF FleetTypeOK
  <2>2. \A r \in Replicas : \A k \in Range(fleet'[r].prefix_keys) : k \in Range(fleet[r].prefix_keys)
    BY <1>5
  <2> QED
    BY <1>1, <1>6, <2>1, <2>2, BeliefsStay
<1> QED
  BY <1>5, <1>6, <1>7, <1>8 DEF FleetInv

\* A request that is on a replica is on one of the fleet.
LEMMA OnAReplica ==
  ASSUME FleetTypeOK, Visited, NEW q \in Requests, st[q] \in Slotted \cup {"answered"}
  PROVE  Last(tried[q]) \in Replicas
<1>1. tried[q] \in Seq(Replicas) /\ tried[q] # <<>>
  BY DEF FleetTypeOK, Visited
<1> QED
  BY <1>1 DEF Last

\* The fleet a failed attempt leaves.
Failing(q) == Erred(Landed(fleet, q, Last(tried[q])), Last(tried[q]))

LEMMA FailingKeeps ==
  ASSUME FleetInv, NEW q \in Requests, st[q] = "sent"
  PROVE  /\ Failing(q) \in FleetState /\ Last(tried[q]) \in Replicas
         /\ Counts(Failing(q), [st EXCEPT ![q] = "failed"], tried)
         /\ \A r \in Replicas : Failing(q)[r].prefix_keys = fleet[r].prefix_keys
<1> DEFINE r == Last(tried[q])
           l == Landed(fleet, q, r)
           s == [st EXCEPT ![q] = "failed"]
<1>1. FleetTypeOK /\ Visited /\ Counts(fleet, st, tried)
  BY DEF FleetInv
<1>2. st[q] \in Slotted
  BY DEF Slotted
<1>3. r \in Replicas
  BY <1>1, <1>2, OnAReplica
<1>4. fleet \in FleetState /\ Loaded(fleet) /\ st \in [Requests -> Stages]
  BY <1>1, CountsAreNaturals DEF FleetTypeOK
<1>5. s[q] \notin Slotted /\ \A x \in Requests \ {q} : s[x] = st[x]
  BY <1>4 DEF Slotted
<1>6. l \in FleetState /\ \A x \in Replicas : l[x].prefix_keys = fleet[x].prefix_keys
  BY <1>3, <1>4, LandedKeeps
<1> HIDE DEF s
<1>7. Counts(l, s, tried)
  BY <1>1, <1>2, <1>3, <1>4, <1>5, CountsLeaving
<1>8. /\ Failing(q) \in FleetState
      /\ SameLoad(Failing(q), l)
      /\ \A x \in Replicas : Failing(q)[x].prefix_keys = l[x].prefix_keys
  <2> HIDE DEF l, r
  <2>1. Failing(q) = Erred(l, r)
    BY DEF Failing, l, r
  <2> QED
    BY <1>3, <1>6, <2>1, ErrorKeeps
<1> HIDE DEF l, r
<1>9. Counts(Failing(q), s, tried)
  <2>1. \A x \in Replicas : /\ Failing(q)[x].inflight = l[x].inflight
                            /\ Failing(q)[x].queued_tokens = l[x].queued_tokens
    BY <1>8 DEF SameLoad
  <2> QED
    BY <1>7, <2>1, CountsStay
<1> QED
  BY <1>3, <1>6, <1>8, <1>9 DEF r, s

LEMMA BackendErrorKeeps ==
  ASSUME FleetInv, NEW q \in Requests, BackendError(q)
  PROVE  FleetInv'
<1>1. FleetTypeOK /\ Installed /\ Visited /\ Counts(fleet, st, tried) /\ BeliefsAreRecent
  BY DEF FleetInv
<1>2. /\ st[q] = "sent" /\ key' = key /\ since' = since
      /\ IF Len(tried[q]) > MaxRetries
         THEN /\ fleet' = Failing(q) /\ st' = [st EXCEPT ![q] = "failed"]
              /\ router' = router /\ tried' = tried
         ELSE Attempt(Failing(q), q, key[q], tried[q])
  BY DEF BackendError, Failing, Erred
<1>3. /\ Failing(q) \in FleetState
      /\ Counts(Failing(q), [st EXCEPT ![q] = "failed"], tried)
      /\ \A r \in Replicas : Failing(q)[r].prefix_keys = fleet[r].prefix_keys
  BY <1>2, FailingKeeps
<1>4. /\ key[q] \in Keyed \cup {NoKey} /\ tried[q] \in Seq(Replicas) /\ q \in since
      /\ tried[q] # <<>>
  BY <1>1, <1>2 DEF FleetTypeOK, Visited, Slotted
<1>5. /\ fleet' \in FleetState /\ st' \in [Requests -> Stages]
      /\ tried' \in [Requests -> Seq(Replicas)] /\ Installed'
      /\ Counts(fleet', st', tried')
      /\ \A r \in Replicas : fleet'[r].prefix_keys = fleet[r].prefix_keys
      /\ \A x \in Requests \ {q} : st'[x] = st[x] /\ tried'[x] = tried[x]
      /\ st'[q] \in {"failed", "sent"} /\ tried'[q] # <<>>
  <2>1. CASE Len(tried[q]) > MaxRetries
    <3>1. /\ fleet' = Failing(q) /\ st' = [st EXCEPT ![q] = "failed"]
          /\ router' = router /\ tried' = tried
      BY <1>2, <2>1
    <3>2. st \in [Requests -> Stages] /\ tried \in [Requests -> Seq(Replicas)] /\ "failed" \in Stages
      BY <1>1 DEF FleetTypeOK, Stages
    <3>3. /\ st' \in [Requests -> Stages] /\ st'[q] = "failed"
          /\ \A x \in Requests \ {q} : st'[x] = st[x]
      BY <3>1, <3>2
    <3>4. Installed'
      BY <1>1, <3>1, RouterTurns
    <3>5. Counts(fleet', st', tried')
      BY <1>3, <3>1
    <3> QED
      BY <1>3, <1>4, <3>1, <3>2, <3>3, <3>4, <3>5
  <2>2. CASE ~(Len(tried[q]) > MaxRetries)
    <3> DEFINE f == Failing(q)
               k == key[q]
               tr == tried[q]
    <3>1. Attempt(f, q, k, tr)
      BY <1>2, <2>2
    <3>2. /\ f \in FleetState /\ Counts(f, [st EXCEPT ![q] = "failed"], tried)
          /\ k \in Keyed \cup {NoKey} /\ tr \in Seq(Replicas)
      BY <1>3, <1>4
    <3>3. tr = tried[q] /\ f = Failing(q)
      OBVIOUS
    <3> HIDE DEF f, k, tr
    <3>4. /\ fleet' \in FleetState /\ st' \in [Requests -> Stages]
          /\ tried' \in [Requests -> Seq(Replicas)] /\ Installed'
          /\ Counts(fleet', st', tried')
          /\ \A r \in Replicas : fleet'[r].prefix_keys = f[r].prefix_keys
          /\ \A x \in Requests \ {q} : st'[x] = st[x] /\ tried'[x] = tried[x]
          /\ \/ st'[q] = "failed" /\ tried'[q] = tr
             \/ st'[q] = "sent" /\ \E r \in Replicas : tried'[q] = Append(tr, r)
      BY <1>1, <3>1, <3>2, AttemptKeeps
    <3>5. \A r \in Replicas : Append(tr, r) # <<>>
      BY <3>2, LastOfAppend
    <3> QED
      BY <1>3, <1>4, <3>4, <3>5, <3>3
  <2> QED
    BY <2>1, <2>2
<1>6. FleetTypeOK'
  BY <1>1, <1>2, <1>5 DEF FleetTypeOK
<1>7. Visited'
  <2>1. st'[q] # "new" /\ q \in since'
    BY <1>2, <1>4, <1>5
  <2> QED
    BY <1>1, <1>2, <1>5, <2>1 DEF Visited
<1>8. BeliefsAreRecent'
  <2>1. \A x \in since : st[x] = "answered" =>
           /\ x \in since' /\ st'[x] = "answered"
           /\ key'[x] = key[x] /\ tried'[x] = tried[x]
    BY <1>1, <1>2, <1>5 DEF FleetTypeOK
  <2>2. \A r \in Replicas : \A k \in Range(fleet'[r].prefix_keys) : k \in Range(fleet[r].prefix_keys)
    BY <1>5
  <2> QED
    BY <1>1, <1>6, <2>1, <2>2, BeliefsStay
<1> QED
  BY <1>5, <1>6, <1>7, <1>8 DEF FleetInv

\* A request that ends: its replica is believed to hold its prefix.
LEMMA FinishKeeps ==
  ASSUME FleetInv, NEW q \in Requests, st[q] \in Slotted,
         fleet' = Served(Landed(fleet, q, Last(tried[q])), q, Last(tried[q])),
         st' = [st EXCEPT ![q] = "answered"],
         UNCHANGED <<router, key, tried, since>>
  PROVE  FleetInv'
<1> DEFINE r == Last(tried[q])
           l == Landed(fleet, q, r)
<1>1. FleetTypeOK /\ Installed /\ Visited /\ Counts(fleet, st, tried) /\ BeliefsAreRecent
  BY DEF FleetInv
<1>2. r \in Replicas
  BY <1>1, OnAReplica
<1>3. /\ fleet \in FleetState /\ Loaded(fleet) /\ st \in [Requests -> Stages]
      /\ key \in [Requests -> Keyed \cup {NoKey}]
  BY <1>1, CountsAreNaturals DEF FleetTypeOK
<1>4. /\ st' \in [Requests -> Stages] /\ st'[q] = "answered" /\ "answered" \notin Slotted
      /\ \A x \in Requests \ {q} : st'[x] = st[x]
      /\ tried' = tried /\ key' = key /\ since' = since /\ router' = router
  BY <1>3 DEF Stages, Slotted
<1>5. l \in FleetState /\ \A x \in Replicas : l[x].prefix_keys = fleet[x].prefix_keys
  BY <1>2, <1>3, LandedKeeps
<1>6. Counts(l, st', tried')
  BY <1>1, <1>2, <1>3, <1>4, CountsLeaving
<1>7. fleet' = Served(l, q, r)
  OBVIOUS
<1> HIDE DEF l
<1>8. /\ fleet' \in FleetState /\ SameLoad(fleet', l)
      /\ \A x \in Replicas : Range(fleet'[x].prefix_keys) \subseteq
                               Range(l[x].prefix_keys) \cup (IF x = r THEN {key[q]} ELSE {})
  <2> HIDE DEF r
  <2>1. /\ Served(l, q, r) \in FleetState /\ SameLoad(Served(l, q, r), l)
        /\ \A x \in Replicas : Range(Served(l, q, r)[x].prefix_keys) \subseteq
                               Range(l[x].prefix_keys) \cup (IF x = r THEN {key[q]} ELSE {})
    BY <1>2, <1>3, <1>5, ServedKeeps
  <2> QED
    BY <1>7, <2>1
<1>9. Counts(fleet', st', tried')
  <2>1. \A x \in Replicas : /\ fleet'[x].inflight = l[x].inflight
                            /\ fleet'[x].queued_tokens = l[x].queued_tokens
    BY <1>8 DEF SameLoad
  <2> QED
    BY <1>6, <2>1, CountsStay
<1>10. FleetTypeOK'
  BY <1>1, <1>4, <1>8 DEF FleetTypeOK
<1>11. Visited'
  BY <1>1, <1>4 DEF Visited
<1>12. Installed'
  BY <1>1, <1>4, RouterTurns
<1>13. BeliefsAreRecent'
  <2>1. \A x \in since : st[x] = "answered" =>
           /\ x \in since' /\ st'[x] = "answered"
           /\ key'[x] = key[x] /\ tried'[x] = tried[x]
    BY <1>1, <1>4 DEF FleetTypeOK
  <2>2. q \in since'
    BY <1>1, <1>4 DEF Visited
  <2>3. ASSUME NEW x \in Replicas, NEW k \in Range(fleet'[x].prefix_keys)
        PROVE  \/ k \in Range(fleet[x].prefix_keys)
               \/ \E y \in since' : key'[y] = k /\ st'[y] = "answered" /\ Last(tried'[y]) = x
    <3>1. k \in Range(fleet[x].prefix_keys) \/ (x = r /\ k = key[q])
      BY <1>5, <1>8, <2>3
    <3>2. key'[q] = key[q] /\ Last(tried'[q]) = r
      BY <1>4
    <3> QED
      BY <1>4, <2>2, <3>1, <3>2
  <2> QED
    BY <1>1, <1>10, <2>1, <2>3, BeliefsStay
<1> QED
  BY <1>9, <1>10, <1>11, <1>12, <1>13 DEF FleetInv

LEMMA BecomesKeeps ==
  ASSUME FleetInv, NEW q \in Requests, NEW from \in Slotted, NEW to \in Slotted, Becomes(q, from, to)
  PROVE  FleetInv'
<1>1. FleetTypeOK /\ Installed /\ Visited /\ Counts(fleet, st, tried) /\ BeliefsAreRecent
  BY DEF FleetInv
<1>2. /\ st[q] = from /\ st' = [st EXCEPT ![q] = to]
      /\ fleet' = fleet /\ router' = router /\ key' = key /\ tried' = tried /\ since' = since
  BY DEF Becomes
<1>3. /\ st' \in [Requests -> Stages] /\ st'[q] = to /\ st[q] # "answered" /\ to # "new"
      /\ \A x \in Requests \ {q} : st'[x] = st[x]
  BY <1>1, <1>2 DEF FleetTypeOK, Stages, Slotted
<1>4. FleetTypeOK'
  BY <1>1, <1>2, <1>3 DEF FleetTypeOK
<1>5. Installed'
  BY <1>1, <1>2, RouterTurns
<1>6. Visited'
  BY <1>1, <1>2, <1>3 DEF Visited
<1>7. Counts(fleet', st', tried')
  <2>1. \A x \in Requests : /\ st[x] \in Slotted <=> st'[x] \in Slotted
                            /\ st[x] \in Slotted => tried[x] = tried'[x]
    BY <1>2, <1>3
  <2>2. \A r \in Replicas : /\ fleet'[r].inflight = fleet[r].inflight
                            /\ fleet'[r].queued_tokens = fleet[r].queued_tokens
    BY <1>2
  <2> QED
    BY <1>1, <2>1, <2>2, CountsStay
<1>8. BeliefsAreRecent'
  <2>1. \A x \in since : st[x] = "answered" =>
           /\ x \in since' /\ st'[x] = "answered"
           /\ key'[x] = key[x] /\ tried'[x] = tried[x]
    BY <1>1, <1>2, <1>3 DEF FleetTypeOK
  <2>2. \A r \in Replicas : \A k \in Range(fleet'[r].prefix_keys) : k \in Range(fleet[r].prefix_keys)
    BY <1>2
  <2> QED
    BY <1>1, <1>4, <2>1, <2>2, BeliefsStay
<1> QED
  BY <1>4, <1>5, <1>6, <1>7, <1>8 DEF FleetInv

\* A step that leaves the requests and the router alone, and adds no belief.
LEMMA FleetMoves ==
  ASSUME FleetInv, fleet' \in FleetState, SameLoad(fleet', fleet),
         \A r \in Replicas : fleet'[r].prefix_keys = fleet[r].prefix_keys,
         UNCHANGED <<router, st, key, tried, since>>
  PROVE  FleetInv'
<1>1. FleetTypeOK /\ Installed /\ Visited /\ Counts(fleet, st, tried) /\ BeliefsAreRecent
  BY DEF FleetInv
<1>2. FleetTypeOK'
  BY <1>1 DEF FleetTypeOK
<1>3. Installed'
  BY <1>1, RouterTurns
<1>4. Visited'
  BY <1>1 DEF Visited
<1>5. Counts(fleet', st', tried')
  <2>1. \A r \in Replicas : /\ fleet'[r].inflight = fleet[r].inflight
                            /\ fleet'[r].queued_tokens = fleet[r].queued_tokens
    BY DEF SameLoad
  <2> QED
    BY <1>1, <2>1, CountsStay
<1>6. BeliefsAreRecent'
  BY <1>1, <1>2, BeliefsStay
<1> QED
  BY <1>2, <1>3, <1>4, <1>5, <1>6 DEF FleetInv

LEMMA SetRouterKeeps ==
  ASSUME FleetInv, SetRouter
  PROVE  FleetInv'
<1>1. FleetTypeOK /\ Installed /\ Visited /\ Counts(fleet, st, tried)
  BY DEF FleetInv
<1>2. /\ router' \in Routers /\ fleet' = [r \in Replicas |-> Forgotten(fleet[r])]
      /\ since' = {q \in Requests : st[q] \in Slotted}
      /\ st' = st /\ key' = key /\ tried' = tried
  BY DEF SetRouter
<1>3. /\ fleet' \in FleetState
      /\ \A r \in Replicas : /\ fleet'[r].inflight = fleet[r].inflight
                             /\ fleet'[r].queued_tokens = fleet[r].queued_tokens
                             /\ fleet'[r].prefix_keys = <<>>
  <2>1. ASSUME NEW r \in Replicas
        PROVE  /\ Forgotten(fleet[r]) \in ReplicaState /\ Forgotten(fleet[r]).prefix_keys = <<>>
               /\ Forgotten(fleet[r]).inflight = fleet[r].inflight
               /\ Forgotten(fleet[r]).queued_tokens = fleet[r].queued_tokens
    <3>1. fleet[r] \in ReplicaState /\ <<>> \in Seq(Keyed)
      BY <1>1 DEF FleetTypeOK, FleetState
    <3> QED
      BY <3>1 DEF ReplicaState, Forgotten
  <2> QED
    BY <1>2, <2>1 DEF FleetState
<1>4. FleetTypeOK'
  BY <1>1, <1>2, <1>3 DEF FleetTypeOK
<1>5. Installed'
  BY <1>2, ProxyAssumption DEF Installed, RouterState
<1>6. Visited'
  BY <1>1, <1>2 DEF Visited
<1>7. Counts(fleet', st', tried')
  BY <1>1, <1>2, <1>3, CountsStay
<1>8. BeliefsAreRecent'
  BY <1>3 DEF BeliefsAreRecent
<1> QED
  BY <1>4, <1>5, <1>6, <1>7, <1>8 DEF FleetInv

LEMMA HealthProbeKeeps ==
  ASSUME FleetInv, NEW r \in Replicas, HealthProbe(r)
  PROVE  FleetInv'
<1>1. fleet \in FleetState
  BY DEF FleetInv, FleetTypeOK
<1>2. fleet' = [fleet EXCEPT ![r].healthy = ~@] /\ UNCHANGED <<router, st, key, tried, since>>
  BY DEF HealthProbe
<1>3. fleet' \in FleetState
  BY <1>1, <1>2 DEF FleetState, ReplicaState
<1>4. SameLoad(fleet', fleet) /\ \A x \in Replicas : fleet'[x].prefix_keys = fleet[x].prefix_keys
  BY <1>1, <1>2 DEF FleetState, ReplicaState, SameLoad
<1> QED
  BY <1>2, <1>3, <1>4, FleetMoves

LEMMA TickKeepsFleet ==
  ASSUME FleetInv, Tick
  PROVE  FleetInv'
<1>1. fleet \in FleetState
  BY DEF FleetInv, FleetTypeOK
<1>2. /\ fleet' = [r \in Replicas |-> [fleet[r] EXCEPT !.open_for = Max({fleet[r].open_for - 1, 0})]]
      /\ UNCHANGED <<router, st, key, tried, since>>
  BY DEF Tick
<1>3. ASSUME NEW r \in Replicas PROVE Max({fleet[r].open_for - 1, 0}) \in Int
  <2>1. fleet[r].open_for - 1 \in Int /\ 0 \in Int
    BY <1>1 DEF FleetState, ReplicaState
  <2> QED
    BY <2>1, LargerOfTwo
<1>4. fleet' \in FleetState
  BY <1>1, <1>2, <1>3 DEF FleetState, ReplicaState
<1>5. SameLoad(fleet', fleet) /\ \A x \in Replicas : fleet'[x].prefix_keys = fleet[x].prefix_keys
  BY <1>1, <1>2 DEF FleetState, ReplicaState, SameLoad
<1> QED
  BY <1>2, <1>4, <1>5, FleetMoves

LEMMA FleetInitially ==
  ASSUME Init
  PROVE  FleetInv
<1>1. /\ fleet = [r \in Replicas |-> NewReplica] /\ router \in Routers
      /\ st = [q \in Requests |-> "new"] /\ key = [q \in Requests |-> NoKey]
      /\ tried = [q \in Requests |-> <<>>] /\ since = {}
  BY DEF Init
<1>2. NewReplica \in ReplicaState
  BY DEF NewReplica, ReplicaState
<1>3. FleetTypeOK
  BY <1>1, <1>2 DEF FleetTypeOK, FleetState, Stages
<1>4. Installed
  BY <1>1, ProxyAssumption DEF Installed, RouterState
<1>5. Visited
  BY <1>1 DEF Visited, Slotted
<1>6. Counts(fleet, st, tried)
  <2>1. ASSUME NEW r \in Replicas PROVE Tallies(fleet[r].inflight, fleet[r].queued_tokens, On(st, tried, r))
    <3>1. On(st, tried, r) = {}
      BY <1>1 DEF On, Slotted
    <3>2. fleet[r].inflight = 0 /\ fleet[r].queued_tokens = 0
      BY <1>1 DEF NewReplica
    <3> QED
      BY <3>1, <3>2, FS_EmptySet, SumOverSet DEF Tallies
  <2> QED
    BY <2>1 DEF Counts
<1>7. BeliefsAreRecent
  BY <1>1 DEF BeliefsAreRecent, NewReplica
<1> QED
  BY <1>3, <1>4, <1>5, <1>6, <1>7 DEF FleetInv

LEMMA FleetSteps ==
  ASSUME FleetInv, [Next]_vars
  PROVE  FleetInv'
<1>1. ASSUME NEW q \in Requests, Handle(q) PROVE FleetInv'
  BY <1>1, HandleKeeps
<1>2. ASSUME NEW q \in Requests, BackendError(q) PROVE FleetInv'
  BY <1>2, BackendErrorKeeps
<1>3. ASSUME NEW q \in Requests, Respond(q) PROVE FleetInv'
  BY <1>3, FinishKeeps DEF Respond, Slotted
<1>4. ASSUME NEW q \in Requests, EndBody(q) PROVE FleetInv'
  BY <1>4, FinishKeeps DEF EndBody, Slotted
<1>5. ASSUME NEW q \in Requests, OpenStream(q) \/ StartBody(q) \/ LoseBody(q) PROVE FleetInv'
  <2>1. {"sent", "opened", "body", "lost"} \subseteq Slotted
    BY DEF Slotted
  <2> QED
    BY <1>5, <2>1, BecomesKeeps DEF OpenStream, StartBody, LoseBody
<1>6. ASSUME NEW r \in Replicas, HealthProbe(r) PROVE FleetInv'
  BY <1>6, HealthProbeKeeps
<1>7. CASE SetRouter
  BY <1>7, SetRouterKeeps
<1>8. CASE Tick
  BY <1>8, TickKeepsFleet
<1>9. CASE UNCHANGED vars
  <2>1. fleet \in FleetState
    BY DEF FleetInv, FleetTypeOK
  <2>2. UNCHANGED <<fleet, router, st, key, tried, since>>
    BY <1>9 DEF vars
  <2> QED
    BY <2>1, <2>2, FleetMoves DEF SameLoad
<1> QED
  BY <1>1, <1>2, <1>3, <1>4, <1>5, <1>6, <1>7, <1>8, <1>9 DEF Next

\* The invariant of the proxy.
THEOREM FleetInvariant == Spec => []FleetInv
<1>1. Init => FleetInv
  BY FleetInitially
<1>2. FleetInv /\ [Next]_vars => FleetInv'
  BY FleetSteps
<1> QED
  BY <1>1, <1>2, PTL DEF Spec

\* Every replica counts exactly the requests and prompt tokens that are on it.
THEOREM LoadsAreExact == Spec => []LoadExact
<1>1. FleetInv => LoadExact
  <2>1. ASSUME FleetInv, NEW r \in Replicas
        PROVE  LET on == {q \in Requests : st[q] \in Slotted /\ Last(tried[q]) = r}
               IN /\ fleet[r].inflight = Cardinality(on)
                  /\ fleet[r].queued_tokens = SumFunctionOnSet(Tokens, on)
    <3>1. Tallies(fleet[r].inflight, fleet[r].queued_tokens, On(st, tried, r))
      BY <2>1 DEF FleetInv, Counts
    <3> QED
      BY <3>1 DEF Tallies, On
  <2> QED
    BY <2>1 DEF LoadExact
<1> QED
  BY <1>1, FleetInvariant, PTL

\* A replica is believed to hold only what it served since the last switch of
\* the strategy, or what was in flight then.
THEOREM BeliefsFollowService == Spec => []BeliefsAreRecent
<1>1. FleetInv => BeliefsAreRecent
  BY DEF FleetInv
<1> QED
  BY <1>1, FleetInvariant, PTL

-----------------------------------------------------------------------------
(***************************************************************************)
(* Where a request is sent.  Every request that is sent is sent by an      *)
(* attempt, on a fleet whose counters are those of the other requests.     *)
(***************************************************************************)
Attempted(q, f, k) ==
  /\ f \in FleetState /\ k \in Keyed \cup {NoKey} /\ Counts(f, [st EXCEPT ![q] = "failed"], tried)
  /\ tried[q] \in Seq(Replicas) /\ Len(tried[q]) <= MaxRetries
  /\ Attempt(f, q, k, tried[q])

LEMMA SentByAttempt ==
  ASSUME FleetInv, [Next]_vars, NEW q \in Requests, tried'[q] # tried[q]
  PROVE  /\ st[q] \in {"new", "sent"}
         /\ \E f \in FleetState, k \in Keyed \cup {NoKey} : Attempted(q, f, k)
<1>1. FleetTypeOK /\ Visited /\ Installed /\ Counts(fleet, st, tried)
  BY DEF FleetInv
<1>2. MaxRetries \in Nat /\ fleet \in FleetState /\ tried[q] \in Seq(Replicas)
  BY <1>1, ProxyAssumption DEF FleetTypeOK
<1>3. ASSUME Handle(q)
      PROVE  /\ st[q] \in {"new", "sent"}
             /\ \E f \in FleetState, k \in Keyed \cup {NoKey} : Attempted(q, f, k)
  <2>1. st[q] = "new" /\ Attempt(fleet, q, KeyOf(q), <<>>)
    BY <1>3 DEF Handle
  <2>2. tried[q] = <<>> /\ Len(tried[q]) = 0
    BY <1>1, <2>1 DEF Visited
  <2>3. Len(tried[q]) <= MaxRetries
    BY <1>2, <2>2
  <2>4. Counts(fleet, [st EXCEPT ![q] = "failed"], tried)
    <3>1. st[q] \notin Slotted
      BY <2>1 DEF Slotted
    <3> QED
      BY <1>1, <1>2, <3>1, GoneUncounted
  <2>5. KeyOf(q) \in Keyed \cup {NoKey}
    BY KeyOfTyped
  <2>6. Attempted(q, fleet, KeyOf(q))
    BY <1>2, <2>1, <2>2, <2>3, <2>4, <2>5 DEF Attempted
  <2> QED
    BY <1>2, <2>1, <2>5, <2>6
<1>4. ASSUME BackendError(q)
      PROVE  /\ st[q] \in {"new", "sent"}
             /\ \E f \in FleetState, k \in Keyed \cup {NoKey} : Attempted(q, f, k)
  <2>1. /\ st[q] = "sent" /\ ~(Len(tried[q]) > MaxRetries)
        /\ Attempt(Failing(q), q, key[q], tried[q])
    BY <1>4 DEF BackendError, Failing, Erred
  <2>2. Failing(q) \in FleetState /\ Counts(Failing(q), [st EXCEPT ![q] = "failed"], tried)
    BY <2>1, FailingKeeps
  <2>3. Len(tried[q]) <= MaxRetries
    <3>1. Len(tried[q]) \in Nat
      BY <1>2
    <3> QED
      BY <1>2, <2>1, <3>1
  <2>4. key[q] \in Keyed \cup {NoKey}
    BY <1>1 DEF FleetTypeOK
  <2>5. Attempted(q, Failing(q), key[q])
    BY <1>2, <2>1, <2>2, <2>3, <2>4 DEF Attempted
  <2> QED
    BY <2>1, <2>2, <2>4, <2>5
<1>5. ASSUME NEW x \in Requests \ {q}, Handle(x) PROVE FALSE
  <2>1. tried'[q] = tried[q]
    <3>1. tried \in [Requests -> Seq(Replicas)]
      BY <1>1 DEF FleetTypeOK
    <3> QED
      BY <1>5, <3>1 DEF Handle, Attempt
  <2> QED
    BY <2>1
<1>6. ASSUME NEW x \in Requests \ {q}, BackendError(x) PROVE FALSE
  <2>1. tried'[q] = tried[q]
    <3>1. tried \in [Requests -> Seq(Replicas)]
      BY <1>1 DEF FleetTypeOK
    <3>2. \/ tried' = tried
          \/ Attempt(Failing(x), x, key[x], tried[x])
      BY <1>6 DEF BackendError, Failing, Erred
    <3> QED
      BY <3>1, <3>2 DEF Attempt
  <2> QED
    BY <2>1
<1>7. ASSUME NEW x \in Requests,
             Respond(x) \/ OpenStream(x) \/ StartBody(x) \/ EndBody(x) \/ LoseBody(x)
      PROVE  FALSE
  BY <1>7 DEF Respond, OpenStream, StartBody, EndBody, LoseBody, Becomes
<1>8. ASSUME (\E r \in Replicas : HealthProbe(r)) \/ SetRouter \/ Tick \/ UNCHANGED vars PROVE FALSE
  BY <1>8 DEF HealthProbe, SetRouter, Tick, vars
<1> QED
  BY <1>3, <1>4, <1>5, <1>6, <1>7, <1>8 DEF Next

\* What the attempt leaves, when it sent the request.
LEMMA SentSoundly ==
  ASSUME FleetInv, [Next]_vars, NEW q \in Requests, tried'[q] # tried[q]
  PROVE  /\ st[q] \in {"new", "sent"}
         /\ \E f \in FleetState, k \in Keyed \cup {NoKey}, r \in Replicas :
              /\ Loaded(f) /\ SentTo(f, fleet', q, k, tried[q], r)
              /\ tried'[q] = Append(tried[q], r)
              /\ tried[q] \in Seq(Replicas) /\ Len(tried[q]) <= MaxRetries
<1>1. PICK f \in FleetState, k \in Keyed \cup {NoKey} : Attempted(q, f, k)
  BY SentByAttempt
<1>2. FleetTypeOK /\ Installed
  BY DEF FleetInv
<1> DEFINE tr == tried[q]
<1>3. /\ Counts(f, [st EXCEPT ![q] = "failed"], tried) /\ tr \in Seq(Replicas)
      /\ Len(tr) <= MaxRetries /\ Attempt(f, q, k, tr)
  BY <1>1 DEF Attempted
<1>4. Loaded(f)
  BY <1>3, CountsAreNaturals
<1>5. tr = tried[q]
  OBVIOUS
<1> HIDE DEF tr
<1>6. \/ st'[q] = "failed" /\ tried'[q] = tr
      \/ /\ st'[q] = "sent"
         /\ \E r \in Replicas : SentTo(f, fleet', q, k, tr, r) /\ tried'[q] = Append(tr, r)
  BY <1>2, <1>3, AttemptKeeps
<1>7. PICK r \in Replicas : SentTo(f, fleet', q, k, tr, r) /\ tried'[q] = Append(tr, r)
  BY <1>5, <1>6
<1>8. st[q] \in {"new", "sent"}
  BY SentByAttempt
<1> QED
  BY <1>3, <1>4, <1>5, <1>7, <1>8

LEMMA SentIsOnce ==
  ASSUME FleetInv, [Next]_vars, NEW q \in Requests, tried'[q] # tried[q]
  PROVE  /\ st[q] \in {"new", "sent"} /\ fleet'[Last(tried'[q])].inflight > 0
         /\ ~Contains(tried[q], Last(tried'[q])) /\ Len(tried'[q]) <= MaxRetries + 1
<1>1. PICK f \in FleetState, k \in Keyed \cup {NoKey}, r \in Replicas :
              /\ Loaded(f) /\ SentTo(f, fleet', q, k, tried[q], r)
              /\ tried'[q] = Append(tried[q], r)
              /\ tried[q] \in Seq(Replicas) /\ Len(tried[q]) <= MaxRetries
  BY SentSoundly
<1>2. /\ Last(tried'[q]) = r /\ Len(tried'[q]) = Len(tried[q]) + 1 /\ Len(tried[q]) \in Nat
  BY <1>1, LastOfAppend
<1>3. fleet'[r].inflight = f[r].inflight + 1
  BY <1>1 DEF SentTo, Coming, FleetState, ReplicaState
<1>4. f[r].inflight \in Nat
  BY <1>1 DEF Loaded
<1>5. ~Contains(tried[q], r)
  BY <1>1 DEF SentTo, Untried
<1>6. st[q] \in {"new", "sent"}
  BY SentSoundly
<1>7. MaxRetries \in Nat
  BY ProxyAssumption
<1> QED
  BY <1>1, <1>2, <1>3, <1>4, <1>5, <1>6, <1>7

LEMMA SentFits ==
  ASSUME \A rt \in Routers : rt.name = "prefix_affinity" => rt.factor >= 100,
         FleetInv, [Next]_vars, NEW q \in Requests, tried'[q] # tried[q],
         router.name = "prefix_affinity"
  PROVE  LET av == Untried(fleet', Front(tried'[q]))
             load == [r \in av |-> fleet'[r].inflight - IF r = Last(tried'[q]) THEN 1 ELSE 0]
             mine == load[Last(tried'[q])]
         IN \/ mine <= 1
            \/ 100 * Cardinality(av) * mine <= router.factor * SumFunction(load)
<1>1. PICK f \in FleetState, k \in Keyed \cup {NoKey}, r \in Replicas :
              /\ Loaded(f) /\ SentTo(f, fleet', q, k, tried[q], r)
              /\ tried'[q] = Append(tried[q], r)
              /\ tried[q] \in Seq(Replicas) /\ Len(tried[q]) <= MaxRetries
  BY SentSoundly
<1>2. Last(tried'[q]) = r /\ Front(tried'[q]) = tried[q]
  BY <1>1, LastOfAppend
<1> DEFINE av == Untried(f, tried[q])
           load == [t \in av |-> f[t].inflight]
<1>3. /\ r \in av /\ r \in Pick(router, f, av, k) /\ fleet' = Coming(f, q, r)
  BY <1>1 DEF SentTo
<1>4. /\ \A t \in Replicas : available(fleet'[t]) <=> available(f[t])
      /\ \A t \in Replicas : fleet'[t].inflight = f[t].inflight + IF t = r THEN 1 ELSE 0
  <2>1. fleet'[r].inflight = f[r].inflight + 1 /\ fleet'[r].healthy = f[r].healthy
        /\ fleet'[r].open_for = f[r].open_for
    BY <1>3 DEF Coming, FleetState, ReplicaState
  <2>2. \A t \in Replicas \ {r} : fleet'[t] = f[t]
    BY <1>3 DEF Coming, FleetState
  <2>3. \A t \in Replicas : f[t].inflight \in Nat
    BY <1>1 DEF Loaded
  <2>4. \A t \in Replicas \ {r} : fleet'[t].inflight = f[t].inflight + 0
    BY <2>2, <2>3
  <2> QED
    BY <2>1, <2>2, <2>4 DEF available
<1>5. Untried(fleet', Front(tried'[q])) = av
  BY <1>2, <1>4 DEF Untried
<1>6. [t \in av |-> fleet'[t].inflight - IF t = Last(tried'[q]) THEN 1 ELSE 0] = load
  <2>1. ASSUME NEW t \in av
        PROVE  fleet'[t].inflight - (IF t = Last(tried'[q]) THEN 1 ELSE 0) = f[t].inflight
    <3>1. t \in Replicas /\ f[t].inflight \in Nat
      BY <1>1 DEF Untried, Loaded
    <3> QED
      BY <1>2, <1>4, <3>1
  <2> QED
    BY <2>1
<1>7. Fits(f, av, router.factor, r)
  <2>1. av \subseteq Replicas /\ av # {}
    BY <1>3 DEF Untried
  <2>2. router \in [name : Strategies, factor : Nat, turn : Nat] /\ router.factor >= 100
    BY DEF FleetInv, Installed, RouterState
  <2> HIDE DEF av
  <2> QED
    BY <1>1, <1>3, <2>1, <2>2, PickedIsAvailable
<1>8. SumFunction(load) = SumFunctionOnSet(load, av)
  BY DEF SumFunction
<1>9. load[r] = f[r].inflight
  BY <1>3
<1>10. \/ load[r] <= 1
       \/ 100 * Cardinality(av) * load[r] <= router.factor * SumFunction(load)
  <2>1. \/ f[r].inflight <= 1
        \/ 100 * Cardinality(av) * f[r].inflight <= router.factor * SumFunctionOnSet(load, av)
    BY <1>7 DEF Fits
  <2> QED
    BY <1>8, <1>9, <2>1
<1> HIDE DEF av, load
<1> QED
  BY <1>2, <1>5, <1>6, <1>10

\* A request is sent again only before a byte of it may have reached its
\* client, and never to a replica that failed it; and prefix affinity sends it
\* to a replica within the overload factor of the mean, when that factor is
\* at least 1.
THEOREM RequestsRoutedSoundly ==
  ASSUME \A rt \in Routers : rt.name = "prefix_affinity" => rt.factor >= 100
  PROVE  Spec => RoutedSoundly
<1> DEFINE Bounded ==
      \A q \in Requests :
       (st'[q] = "sent" /\ tried'[q] # tried[q] /\ router.name = "prefix_affinity") =>
         LET av == Untried(fleet', Front(tried'[q]))
             load == [r \in av |-> fleet'[r].inflight - IF r = Last(tried'[q]) THEN 1 ELSE 0]
             mine == load[Last(tried'[q])]
         IN \/ mine <= 1
            \/ 100 * Cardinality(av) * mine <= router.factor * SumFunction(load)
           Once ==
      \A q \in Requests : tried'[q] # tried[q] =>
       /\ st[q] \in {"new", "sent"} /\ fleet'[Last(tried'[q])].inflight > 0
       /\ ~Contains(tried[q], Last(tried'[q])) /\ Len(tried'[q]) <= MaxRetries + 1
<1>1. FleetInv /\ [Next]_vars => [Bounded]_vars
  BY SentFits
<1>2. FleetInv /\ [Next]_vars => [Once]_vars
  BY SentIsOnce
<1>3. RoutedSoundly <=> [][Bounded]_vars /\ [][Once]_vars
  BY DEF RoutedSoundly, BoundedLoad, SentOnce
<1> HIDE DEF Bounded, Once
<1>4. Spec => [][Bounded]_vars
  BY <1>1, FleetInvariant, PTL DEF Spec
<1>5. Spec => [][Once]_vars
  BY <1>2, FleetInvariant, PTL DEF Spec
<1> QED
  BY <1>3, <1>4, <1>5, PTL

-----------------------------------------------------------------------------
(***************************************************************************)
(* The cluster simulator: the phases of every request in order, whatever   *)
(* the topology, the pools, the budget and the step times; and a batch     *)
(* that stays in its limit, moves in every step, and decodes in every step *)
(* unless prefills run alone.                                              *)
(***************************************************************************)
MaybeTime == Nat \cup {NotYet}
ClusterTypeOK ==
  /\ topology \in {"disaggregated", "chunked", "unchunked"}
  /\ n_decode \in Nat \ {0} /\ max_num_batched_tokens \in Nat \ {0}
  /\ arrival_ms \in [R -> Nat] /\ prompt_tokens \in [R -> Nat \ {0}]
  /\ stage \in {"prefill", "assign", "work", "done"}
  /\ free_p \in [1..PrefillPool -> Nat]
  /\ prefill_start \in [R -> MaybeTime] /\ prefill_done \in [R -> MaybeTime]
  /\ transfer_done \in [R -> MaybeTime] /\ first_token \in [R -> MaybeTime]
  /\ finish \in [R -> MaybeTime]
  /\ owner \in [R -> Nat] /\ turn \in Nat \ {0} /\ now_ms \in Nat
  /\ active \subseteq R /\ prefilling \in Seq(R)
  /\ done_tok \in [R -> Nat] /\ remaining \in [R -> Nat]

\* The stages come one after the other, and nothing runs before the last.
Stamped(r) ==
  /\ arrival_ms[r] <= prefill_start[r] /\ prefill_start[r] < prefill_done[r]
  /\ prefill_done[r] <= transfer_done[r]
StagesInOrder ==
  /\ stage = "prefill" => Disaggregated
  /\ stage \in {"prefill", "assign"} => InBatch = {} /\ now_ms = 0 /\ turn = 1
  /\ Disaggregated => /\ prefilling = <<>>
                      /\ \A r \in R : prefill_start[r] # NotYet => Stamped(r)
                      /\ stage # "prefill" => \A r \in R : prefill_start[r] # NotYet

\* The workers are simulated in turn, each to its end.
WorkersInTurn ==
  /\ \A r \in R : owner[r] <= n_decode
  /\ stage \in {"work", "done"} =>
       /\ turn <= n_decode + 1
       /\ turn = n_decode + 1 => stage = "done"
       /\ \A r \in R : owner[r] # 0 /\ (owner[r] < turn => finish[r] # NotYet)
  /\ stage = "done" => turn = n_decode + 1

\* A request decodes from its first token to its last; its stamps are in order
\* and none is ahead of the clock while its worker is simulated.
RequestOK(r) ==
  /\ r \in InBatch => owner[r] = turn /\ finish[r] = NotYet
  /\ r \in active <=> first_token[r] # NotYet /\ finish[r] = NotYet
  /\ first_token[r] # NotYet => Stamped(r) /\ transfer_done[r] <= first_token[r]
  /\ r \in active => first_token[r] <= now_ms
  /\ r \in Range(prefilling) => /\ first_token[r] = NotYet
                                 /\ prefill_start[r] \in arrival_ms[r]..now_ms
  /\ first_token[r] = NotYet => done_tok[r] < prompt_tokens[r] /\ finish[r] = NotYet
  /\ finish[r] # NotYet => first_token[r] <= finish[r]
  /\ remaining[r] = 0 <=> finish[r] # NotYet

BatchInLimit == Cardinality(InBatch) <= MaxBatch /\ IsInjective(prefilling)

ClusterInv ==
  /\ ClusterTypeOK /\ StagesInOrder /\ WorkersInTurn /\ BatchInLimit
  /\ \A r \in R : RequestOK(r)

\* At most k elements of an order have fewer than k before them.
AheadOf(D, L, r) == {q \in D : <<q, r>> \in L}
LEMMA AtMostFirst ==
  ASSUME NEW D, IsFiniteSet(D), NEW L, NEW k \in Nat,
         \A q, r \in D : q # r => <<q, r>> \in L \/ <<r, q>> \in L,
         \A q \in D : <<q, q>> \notin L,
         \A p, q, r \in D : <<p, q>> \in L /\ <<q, r>> \in L => <<p, r>> \in L,
         NEW S, S \subseteq D, \A r \in S : Cardinality(AheadOf(D, L, r)) < k
  PROVE  IsFiniteSet(S) /\ Cardinality(S) <= k
<1> DEFINE Ahead(r) == AheadOf(D, L, r)
           f == [r \in S |-> Cardinality(Ahead(r))]
<1>1. \A r \in D : IsFiniteSet(Ahead(r)) /\ Cardinality(Ahead(r)) \in Nat
  BY FS_Subset, FS_CardinalityType DEF AheadOf
<1>2. ASSUME NEW q \in D, NEW r \in D, <<q, r>> \in L
      PROVE  Cardinality(Ahead(q)) < Cardinality(Ahead(r))
  <2>1. Ahead(q) \subseteq Ahead(r) /\ q \in Ahead(r) /\ q \notin Ahead(q)
    BY <1>2 DEF AheadOf
  <2>2. /\ Cardinality(Ahead(q)) <= Cardinality(Ahead(r))
        /\ Cardinality(Ahead(q)) # Cardinality(Ahead(r))
    BY <1>1, <2>1, FS_Subset
  <2>3. Cardinality(Ahead(q)) \in Nat /\ Cardinality(Ahead(r)) \in Nat
    BY <1>1
  <2> HIDE DEF Ahead
  <2> QED
    BY <2>2, <2>3
<1>3. \A q, r \in D : Cardinality(Ahead(q)) = Cardinality(Ahead(r)) => q = r
  <2> SUFFICES ASSUME NEW q \in D, NEW r \in D, q # r
               PROVE  Cardinality(Ahead(q)) # Cardinality(Ahead(r))
    OBVIOUS
  <2>1. \/ Cardinality(Ahead(q)) < Cardinality(Ahead(r))
        \/ Cardinality(Ahead(r)) < Cardinality(Ahead(q))
    BY <1>2
  <2>2. Cardinality(Ahead(q)) \in Nat /\ Cardinality(Ahead(r)) \in Nat
    BY <1>1
  <2> HIDE DEF Ahead
  <2> QED
    BY <2>1, <2>2
<1>4. IsFiniteSet(0..(k - 1)) /\ Cardinality(0..(k - 1)) = k
  BY FS_Interval
<1>5. S \subseteq D /\ \A r \in S : Cardinality(Ahead(r)) \in Nat /\ Cardinality(Ahead(r)) < k
  BY <1>1
<1> HIDE DEF Ahead
<1>6. f \in Injection(S, 0..(k - 1))
  BY <1>3, <1>5 DEF Injection, IsInjective
<1> QED
  BY <1>4, <1>6, FS_Injection

\* A batch takes no more than fit.
LEMMA AdmittedFits ==
  ASSUME ClusterInv
  PROVE  /\ Admitted \subseteq Due /\ Due \subseteq Pending /\ Pending \subseteq R
         /\ InBatch \subseteq R /\ InBatch \cap Admitted = {}
         /\ IsFiniteSet(InBatch \cup Admitted)
         /\ Cardinality(InBatch \cup Admitted) <= MaxBatch
<1>1. ClusterTypeOK /\ Cardinality(InBatch) <= MaxBatch
  BY DEF ClusterInv, BatchInLimit
<1>2. /\ Admitted \subseteq Due /\ Due \subseteq Pending /\ Pending \subseteq R
      /\ InBatch \subseteq R /\ InBatch \cap Pending = {}
  BY <1>1 DEF ClusterTypeOK, Admitted, Due, Pending, InBatch
<1>3. IsFiniteSet(R)
  BY ClusterAssumption, FS_Interval DEF R
<1>4. /\ IsFiniteSet(InBatch) /\ Cardinality(InBatch) \in Nat /\ IsFiniteSet(Due)
      /\ MaxBatch - Cardinality(InBatch) \in Nat
  <2>1. IsFiniteSet(InBatch) /\ Cardinality(InBatch) \in Nat /\ IsFiniteSet(Due)
    BY <1>2, <1>3, FS_Subset, FS_CardinalityType
  <2> QED
    BY <1>1, <2>1, ClusterAssumption
<1>5. PICK k \in Nat : k = MaxBatch - Cardinality(InBatch)
  BY <1>4
<1>6. PICK L : L = {p \in Due \X Due : Before(p[1], p[2])}
  OBVIOUS
<1>7. \A q, r \in Due : <<q, r>> \in L <=> Before(q, r)
  BY <1>6
<1>8. \A r \in Due : r \in Int /\ ReadyAt(r) \in Int
  BY <1>1, <1>2 DEF ClusterTypeOK, MaybeTime, NotYet, ReadyAt, R
<1>9. Admitted = {r \in Due : Cardinality({q \in Due : <<q, r>> \in L}) < k}
  BY <1>5, <1>7 DEF Admitted
<1>10. IsFiniteSet(Admitted) /\ Cardinality(Admitted) <= k
  <2>1. /\ \A q, r \in Due : q # r => <<q, r>> \in L \/ <<r, q>> \in L
        /\ \A q \in Due : <<q, q>> \notin L
        /\ \A p, q, r \in Due : <<p, q>> \in L /\ <<q, r>> \in L => <<p, r>> \in L
    BY <1>7, <1>8 DEF Before
  <2>2. /\ Admitted \subseteq Due
        /\ \A r \in Admitted : Cardinality(AheadOf(Due, L, r)) < k
    BY <1>9 DEF AheadOf
  <2> QED
    BY <1>4, <2>1, <2>2, AtMostFirst
<1>11. Cardinality(Admitted) \in Nat /\ InBatch \cap Admitted = {}
  BY <1>2, <1>10, FS_CardinalityType
<1>12. /\ IsFiniteSet(InBatch \cup Admitted)
       /\ Cardinality(InBatch \cup Admitted) = Cardinality(InBatch) + Cardinality(Admitted)
  <2>1. Cardinality(InBatch \cap Admitted) = 0
    BY <1>11, FS_EmptySet
  <2>2. /\ IsFiniteSet(InBatch \cup Admitted)
        /\ Cardinality(InBatch \cup Admitted)
             = Cardinality(InBatch) + Cardinality(Admitted) - Cardinality(InBatch \cap Admitted)
    BY <1>4, <1>10, FS_Union
  <2> QED
    BY <1>4, <1>11, <2>1, <2>2
<1>13. Cardinality(InBatch \cup Admitted) <= MaxBatch
  BY <1>4, <1>5, <1>10, <1>11, <1>12, ClusterAssumption
<1> QED
  BY <1>2, <1>11, <1>12, <1>13

\* A batch within another is in the limit too.
LEMMA FewerFit ==
  ASSUME ClusterInv, NEW S, S \subseteq InBatch \cup Admitted
  PROVE  Cardinality(S) <= MaxBatch /\ IsFiniteSet(S)
<1>1. /\ IsFiniteSet(InBatch \cup Admitted) /\ Cardinality(InBatch \cup Admitted) <= MaxBatch
  BY AdmittedFits
<1>2. IsFiniteSet(S) /\ Cardinality(S) <= Cardinality(InBatch \cup Admitted)
  BY <1>1, FS_Subset
<1>3. Cardinality(S) \in Nat /\ Cardinality(InBatch \cup Admitted) \in Nat
  BY <1>1, <1>2, FS_CardinalityType
<1> QED
  BY <1>1, <1>2, <1>3, ClusterAssumption

\* What a worker may admit has waited for its phase, and got no token yet.
LEMMA AdmittedFacts ==
  ASSUME ClusterInv, stage = "work", NEW r \in Admitted
  PROVE  /\ r \in R /\ r \notin InBatch /\ owner[r] = turn
         /\ finish[r] = NotYet /\ first_token[r] = NotYet
         /\ ReadyAt(r) <= now_ms
<1>1. ClusterTypeOK /\ RequestOK(r) /\ r \in Pending /\ r \in Due /\ r \in R
  BY AdmittedFits DEF ClusterInv
<1>2. r \notin InBatch /\ owner[r] = turn /\ finish[r] = NotYet /\ ReadyAt(r) <= now_ms
  BY <1>1 DEF Pending, Due
<1>3. r \notin active
  BY <1>2 DEF InBatch
<1> QED
  BY <1>1, <1>2, <1>3 DEF RequestOK

LEMMA PrefillKeeps == ASSUME ClusterInv, Prefill PROVE ClusterInv'
<1>1. /\ ClusterTypeOK /\ StagesInOrder /\ WorkersInTurn /\ BatchInLimit
      /\ \A q \in R : RequestOK(q)
  BY DEF ClusterInv
<1>2. /\ stage = "prefill"
      /\ UNCHANGED <<input, first_token, finish, owner, turn, now_ms, batch>>
  BY DEF Prefill
<1>3. PICK r \in R, w \in 1..PrefillPool, dur \in StepTimes :
        LET start == Later(free_p[w], arrival_ms[r])
        IN /\ prefill_start[r] = NotYet /\ \A q \in 1..r - 1 : prefill_start[q] # NotYet
           /\ prefill_start' = [prefill_start EXCEPT ![r] = start]
           /\ prefill_done' = [prefill_done EXCEPT ![r] = start + dur]
           /\ transfer_done' = [transfer_done EXCEPT ![r] = start + dur + TransferTime]
           /\ free_p' = [free_p EXCEPT ![w] = start + dur]
           /\ stage' = IF r = N THEN "assign" ELSE stage
  BY DEF Prefill
<1>4. PICK start : start = Later(free_p[w], arrival_ms[r])
  OBVIOUS
<1>5. /\ start \in Nat /\ start >= arrival_ms[r] /\ arrival_ms[r] \in Nat
      /\ dur \in Nat \ {0} /\ TransferTime \in Nat
      /\ R = 1..N /\ N \in Nat \ {0} /\ r \in Nat /\ NotYet = -1
  <2>1. R = 1..N /\ N \in Nat \ {0} /\ TransferTime \in Nat /\ StepTimes \subseteq Nat \ {0}
    BY ClusterAssumption DEF R
  <2>2. r \in Nat /\ dur \in Nat \ {0} /\ NotYet = -1
    BY <2>1 DEF NotYet
  <2>3. free_p[w] \in Nat /\ arrival_ms[r] \in Nat
    BY <1>1 DEF ClusterTypeOK
  <2>4. start \in Nat /\ start >= arrival_ms[r]
    BY <1>4, <2>3 DEF Later
  <2> QED
    BY <2>1, <2>2, <2>3, <2>4
<1>6. /\ prefill_start' = [prefill_start EXCEPT ![r] = start]
      /\ prefill_done' = [prefill_done EXCEPT ![r] = start + dur]
      /\ transfer_done' = [transfer_done EXCEPT ![r] = start + dur + TransferTime]
      /\ free_p' = [free_p EXCEPT ![w] = start + dur]
  BY <1>3, <1>4
<1>7. ClusterTypeOK'
  <2>1. start + dur \in Nat /\ start + dur + TransferTime \in Nat
    BY <1>5
  <2>2. /\ prefill_start' \in [R -> MaybeTime] /\ prefill_done' \in [R -> MaybeTime]
        /\ transfer_done' \in [R -> MaybeTime] /\ free_p' \in [1..PrefillPool -> Nat]
    BY <1>1, <1>5, <1>6, <2>1 DEF ClusterTypeOK, MaybeTime
  <2>3. stage' \in {"prefill", "assign"}
    BY <1>2, <1>3
  <2> QED
    BY <1>1, <1>2, <2>2, <2>3 DEF ClusterTypeOK, input, batch
<1>8. Stamped(r)' /\ \A q \in R \ {r} : Stamped(q)' <=> Stamped(q)
  BY <1>1, <1>2, <1>5, <1>6 DEF ClusterTypeOK, Stamped, input
<1>9. /\ prefill_start'[r] # NotYet
      /\ \A q \in R \ {r} : prefill_start'[q] = prefill_start[q]
  BY <1>1, <1>5, <1>6 DEF ClusterTypeOK
<1>10. InBatch' = InBatch /\ InBatch = {}
  BY <1>1, <1>2 DEF InBatch, batch, StagesInOrder
<1>11. StagesInOrder'
  <2>1. stage' = "prefill" \/ (stage' = "assign" /\ r = N)
    BY <1>2, <1>3
  <2>2. r = N => \A q \in R : prefill_start'[q] # NotYet
    BY <1>3, <1>5, <1>9
  <2> QED
    BY <1>1, <1>2, <1>8, <1>9, <1>10, <2>1, <2>2 DEF StagesInOrder, Disaggregated, input, batch
<1>12. WorkersInTurn'
  BY <1>1, <1>2, <1>3 DEF WorkersInTurn, input
<1>13. BatchInLimit'
  BY <1>1, <1>2, <1>10 DEF BatchInLimit, batch
<1>14. ASSUME NEW q \in R PROVE RequestOK(q)'
  <2>1. active = {} /\ Range(prefilling) = {} /\ RequestOK(q)
    BY <1>1, <1>10 DEF InBatch, Range
  <2>2. first_token[q] # NotYet => q # r /\ Stamped(q)' /\ transfer_done'[q] <= first_token[q]
    <3>1. first_token[q] # NotYet => Stamped(q) /\ transfer_done[q] <= first_token[q]
      BY <2>1 DEF RequestOK
    <3>2. Stamped(r) => FALSE
      BY <1>3, <1>5 DEF Stamped
    <3>3. q # r => transfer_done'[q] = transfer_done[q]
      BY <1>1, <1>6 DEF ClusterTypeOK
    <3> QED
      BY <1>8, <3>1, <3>2, <3>3
  <2> QED
    BY <1>2, <1>10, <2>1, <2>2 DEF RequestOK, input, batch
<1> QED
  BY <1>7, <1>11, <1>12, <1>13, <1>14 DEF ClusterInv

LEMMA AssignKeeps == ASSUME ClusterInv, Assign PROVE ClusterInv'
<1>1. /\ ClusterTypeOK /\ StagesInOrder /\ WorkersInTurn /\ BatchInLimit
      /\ \A q \in R : RequestOK(q)
  BY DEF ClusterInv
<1>2. /\ stage = "assign"
      /\ UNCHANGED <<input, free_p, stamps, turn, now_ms, batch>>
  BY DEF Assign
<1>3. PICK r \in R, w \in 1..n_decode :
        /\ owner' = [owner EXCEPT ![r] = w]
        /\ stage' = IF \A q \in R \ {r} : owner[q] # 0 THEN "work" ELSE stage
  BY DEF Assign
<1>4. InBatch' = InBatch /\ InBatch = {} /\ now_ms = 0 /\ turn = 1
  BY <1>1, <1>2 DEF InBatch, batch, StagesInOrder
<1>5. ClusterTypeOK'
  <2>1. owner' \in [R -> Nat]
    BY <1>1, <1>3 DEF ClusterTypeOK
  <2>2. stage' \in {"prefill", "assign", "work", "done"}
    BY <1>2, <1>3
  <2>3. /\ UNCHANGED <<topology, n_decode, max_num_batched_tokens, arrival_ms, prompt_tokens>>
        /\ UNCHANGED <<free_p, prefill_start, prefill_done, transfer_done, first_token, finish>>
        /\ UNCHANGED <<turn, now_ms, active, prefilling, done_tok, remaining>>
    BY <1>2 DEF input, stamps, batch
  <2> QED
    BY <1>1, <2>1, <2>2, <2>3 DEF ClusterTypeOK
<1>6. StagesInOrder'
  BY <1>1, <1>2, <1>3, <1>4 DEF StagesInOrder, Disaggregated, Stamped, input, stamps, batch
<1>7. WorkersInTurn'
  <2>1. n_decode \in Nat \ {0} /\ w \in Nat \ {0} /\ w <= n_decode /\ n_decode' = n_decode
    BY <1>1, <1>2, <1>3 DEF ClusterTypeOK, input
  <2>2. /\ owner'[r] = w /\ \A q \in R \ {r} : owner'[q] = owner[q]
        /\ \A q \in R : owner[q] \in Nat /\ owner[q] <= n_decode
    BY <1>1, <1>3 DEF ClusterTypeOK, WorkersInTurn
  <2>3. \A q \in R : owner'[q] <= n_decode
    BY <2>1, <2>2
  <2>4. stage' \in {"assign", "work"}
    BY <1>2, <1>3
  <2>5. stage' = "work" => \A q \in R : owner'[q] # 0 /\ ~(owner'[q] < 1)
    BY <1>2, <1>3, <2>1, <2>2
  <2> QED
    BY <1>2, <1>4, <2>1, <2>3, <2>4, <2>5 DEF WorkersInTurn, stamps
<1>8. BatchInLimit'
  BY <1>1, <1>2, <1>4 DEF BatchInLimit, batch
<1>9. \A q \in R : RequestOK(q)'
  BY <1>1, <1>2, <1>4 DEF RequestOK, Stamped, input, stamps, batch
<1> QED
  BY <1>5, <1>6, <1>7, <1>8, <1>9 DEF ClusterInv

LEMMA JumpKeeps == ASSUME ClusterInv, Jump PROVE ClusterInv'
<1>1. /\ ClusterTypeOK /\ StagesInOrder /\ WorkersInTurn /\ BatchInLimit
      /\ \A q \in R : RequestOK(q)
  BY DEF ClusterInv
<1>2. /\ stage = "work" /\ InBatch = {}
      /\ UNCHANGED <<input, free_p, stamps, owner, batch>>
  BY DEF Jump, Idle
<1>3. InBatch' = {} /\ active = {} /\ Range(prefilling) = {}
  BY <1>2 DEF InBatch, batch, Range
<1>4. CASE Pending # {}
  <2>1. now_ms' = Min({ReadyAt(r) : r \in Pending}) /\ stage' = stage /\ turn' = turn
    BY <1>4 DEF Jump
  <2>2. Pending \subseteq R
    BY DEF Pending
  <2>3. ASSUME NEW r \in Pending PROVE ReadyAt(r) \in Nat
    <3>1. CASE Disaggregated
      <4>1. Stamped(r) /\ prefill_start[r] # NotYet
        BY <1>1, <1>2, <2>2, <3>1 DEF StagesInOrder
      <4>2. /\ prefill_start[r] \in Nat /\ prefill_done[r] \in Int /\ transfer_done[r] \in MaybeTime
        BY <1>1, <2>2, <4>1 DEF ClusterTypeOK, MaybeTime, NotYet
      <4>3. transfer_done[r] \in Nat
        BY <4>1, <4>2 DEF Stamped, MaybeTime, NotYet
      <4> QED
        BY <3>1, <4>3 DEF ReadyAt
    <3>2. CASE ~Disaggregated
      BY <1>1, <2>2, <3>2 DEF ReadyAt, ClusterTypeOK
    <3> QED
      BY <3>1, <3>2
  <2>4. now_ms' \in Nat
    <3>1. PICK T : T = {ReadyAt(r) : r \in Pending}
      OBVIOUS
    <3>2. T \subseteq Nat /\ T # {} /\ now_ms' = Min(T)
      BY <1>4, <2>1, <2>3, <3>1
    <3>3. \E n \in T : \A m \in T : n <= m
      BY <3>2, LeastElement
    <3> QED
      BY <3>2, <3>3 DEF Min
  <2>5. ClusterTypeOK'
    BY <1>1, <1>2, <2>1, <2>4 DEF ClusterTypeOK, input, stamps, batch
  <2>6. StagesInOrder' /\ WorkersInTurn' /\ BatchInLimit'
    BY <1>1, <1>2, <1>3, <2>1
       DEF StagesInOrder, WorkersInTurn, BatchInLimit, Disaggregated, Stamped, input, stamps, batch
  <2>7. \A q \in R : RequestOK(q)'
    BY <1>1, <1>2, <1>3, <2>1 DEF RequestOK, Stamped, input, stamps, batch
  <2> QED
    BY <2>5, <2>6, <2>7 DEF ClusterInv
<1>5. CASE Pending = {}
  <2>1. /\ turn' = turn + 1 /\ now_ms' = 0
        /\ stage' = IF turn = n_decode THEN "done" ELSE stage
    BY <1>5 DEF Jump
  <2>2. turn \in Nat \ {0} /\ n_decode \in Nat \ {0} /\ n_decode' = n_decode /\ turn <= n_decode
    BY <1>1, <1>2 DEF ClusterTypeOK, WorkersInTurn, input
  <2>3. ClusterTypeOK'
    BY <1>1, <1>2, <2>1 DEF ClusterTypeOK, input, stamps, batch
  <2>4. StagesInOrder' /\ BatchInLimit'
    BY <1>1, <1>2, <1>3, <2>1
       DEF StagesInOrder, BatchInLimit, Disaggregated, Stamped, input, stamps, batch
  <2>5. \A r \in R : owner[r] = turn => finish[r] # NotYet
    BY <1>2, <1>5 DEF Pending
  <2>6. WorkersInTurn'
    <3>1. \A r \in R : /\ owner[r] \in Nat /\ owner[r] <= n_decode /\ owner[r] # 0
                       /\ owner[r] < turn => finish[r] # NotYet
      BY <1>1, <1>2 DEF WorkersInTurn, ClusterTypeOK
    <3>2. \A r \in R : owner[r] < turn + 1 => finish[r] # NotYet
      BY <2>2, <2>5, <3>1
    <3>3. owner' = owner /\ finish' = finish
      BY <1>2 DEF stamps
    <3> QED
      BY <1>2, <2>1, <2>2, <3>1, <3>2, <3>3 DEF WorkersInTurn
  <2>7. \A q \in R : RequestOK(q)'
    BY <1>1, <1>2, <1>3, <2>1 DEF RequestOK, Stamped, input, stamps, batch
  <2> QED
    BY <2>3, <2>4, <2>6, <2>7 DEF ClusterInv
<1> QED
  BY <1>4, <1>5

\* A decode step: every request of the batch gets a token.
LEMMA DecodeStepKeeps ==
  ASSUME ClusterInv, DecodeStep
  PROVE  /\ ClusterInv'
         /\ \A r \in active : remaining'[r] = remaining[r] - 1
         /\ \E r \in R : remaining'[r] < remaining[r]
<1>1. /\ ClusterTypeOK /\ StagesInOrder /\ WorkersInTurn /\ BatchInLimit
      /\ \A q \in R : RequestOK(q)
  BY DEF ClusterInv
<1>2. /\ stage = "work" /\ Disaggregated /\ InBatch \cup Admitted # {}
      /\ UNCHANGED <<input, stage, free_p, prefill_start, prefill_done, transfer_done, owner,
                     turn, prefilling, done_tok>>
  BY DEF DecodeStep, Idle
<1>3. PICK d \in StepTimes :
        LET act == active \cup Admitted
            over == {r \in act : remaining[r] = 1}
        IN /\ now_ms' = now_ms + d
           /\ first_token' = [r \in R |-> IF r \in act /\ first_token[r] = NotYet
                                          THEN now_ms + d ELSE first_token[r]]
           /\ remaining' = [r \in R |-> IF r \in act THEN remaining[r] - 1 ELSE remaining[r]]
           /\ finish' = [r \in R |-> IF r \in over THEN now_ms + d ELSE finish[r]]
           /\ active' = act \ over
  BY <1>2 DEF DecodeStep
<1>4. PICK act : act = active \cup Admitted
  OBVIOUS
<1>5. PICK over : over = {r \in act : remaining[r] = 1}
  OBVIOUS
<1>6. PICK t : t = now_ms + d
  OBVIOUS
<1>7. /\ now_ms' = t
      /\ first_token' = [r \in R |-> IF r \in act /\ first_token[r] = NotYet
                                     THEN t ELSE first_token[r]]
      /\ remaining' = [r \in R |-> IF r \in act THEN remaining[r] - 1 ELSE remaining[r]]
      /\ finish' = [r \in R |-> IF r \in over THEN t ELSE finish[r]]
      /\ active' = act \ over
  BY <1>3, <1>4, <1>5, <1>6
<1>8. /\ d \in Nat \ {0} /\ now_ms \in Nat /\ t \in Nat /\ t = now_ms + d /\ now_ms < t
      /\ NotYet = -1 /\ MaxBatch \in Nat
  BY <1>1, <1>6, ClusterAssumption DEF ClusterTypeOK, NotYet
<1>9. /\ prefilling = <<>> /\ Range(prefilling) = {} /\ InBatch = active /\ act = InBatch \cup Admitted
      /\ act \subseteq R /\ over \subseteq act /\ act # {}
  BY <1>1, <1>2, <1>4, <1>5, AdmittedFits DEF StagesInOrder, InBatch, Range
\* Who takes part is of this worker, not finished, and ready.
<1>10. ASSUME NEW r \in act
       PROVE  /\ r \in R /\ owner[r] = turn /\ finish[r] = NotYet /\ Stamped(r)
              /\ remaining[r] \in Nat /\ remaining[r] > 0
              /\ first_token[r] = NotYet => transfer_done[r] <= now_ms
              /\ first_token[r] # NotYet => first_token[r] <= now_ms
                                            /\ transfer_done[r] <= first_token[r]
  <2>1. r \in R /\ RequestOK(r) /\ Stamped(r) /\ remaining[r] \in Nat
    BY <1>1, <1>2, <1>9 DEF StagesInOrder, ClusterTypeOK
  <2>2. owner[r] = turn /\ finish[r] = NotYet
    BY <1>2, <1>9, <2>1, AdmittedFacts DEF RequestOK
  <2>3. CASE r \in active
    BY <2>1, <2>2, <2>3, <1>8 DEF RequestOK
  <2>4. CASE r \in Admitted
    <3>1. first_token[r] = NotYet /\ ReadyAt(r) <= now_ms
      BY <1>2, <2>4, AdmittedFacts
    <3> QED
      BY <1>2, <1>8, <2>1, <2>2, <3>1 DEF ReadyAt, RequestOK
  <2> QED
    BY <1>4, <2>3, <2>4
<1>11. \A r \in R : /\ first_token[r] \in MaybeTime /\ finish[r] \in MaybeTime
                    /\ remaining[r] \in Nat /\ transfer_done[r] \in MaybeTime
  BY <1>1 DEF ClusterTypeOK
<1>12. \A r \in R :
         /\ first_token'[r] = IF r \in act /\ first_token[r] = NotYet THEN t ELSE first_token[r]
         /\ remaining'[r] = IF r \in act THEN remaining[r] - 1 ELSE remaining[r]
         /\ finish'[r] = IF r \in over THEN t ELSE finish[r]
  BY <1>7
<1>13. ClusterTypeOK'
  <2>1. \A r \in act : remaining[r] - 1 \in Nat
    BY <1>10
  <2>2. /\ first_token' \in [R -> MaybeTime] /\ finish' \in [R -> MaybeTime]
        /\ remaining' \in [R -> Nat] /\ active' \subseteq R
    BY <1>7, <1>8, <1>9, <1>11, <2>1 DEF MaybeTime
  <2> QED
    BY <1>1, <1>2, <1>7, <1>8, <2>2 DEF ClusterTypeOK, input
<1>14. InBatch' = act \ over
  BY <1>2, <1>7, <1>9 DEF InBatch
<1>15. StagesInOrder'
  BY <1>1, <1>2 DEF StagesInOrder, Disaggregated, Stamped, input
<1>16. WorkersInTurn'
  <2>1. \A r \in R : finish[r] # NotYet => finish'[r] # NotYet
    BY <1>8, <1>12
  <2> QED
    BY <1>1, <1>2, <2>1 DEF WorkersInTurn, input
<1>17. BatchInLimit'
  <2>1. act \ over \subseteq InBatch \cup Admitted
    BY <1>9
  <2>2. Cardinality(InBatch') <= MaxBatch
    BY <1>14, <2>1, FewerFit
  <2> QED
    BY <1>1, <1>2, <2>2 DEF BatchInLimit
<1>18. ASSUME NEW r \in R PROVE RequestOK(r)'
  <2>1. Stamped(r)' <=> Stamped(r)
    BY <1>2 DEF Stamped, input
  <2>2. RequestOK(r)
    BY <1>1
  <2>3. r \notin Range(prefilling')
    BY <1>2, <1>9
  <2>4. CASE r \in act
    <3>1. r \in over <=> remaining[r] = 1
      BY <1>5, <2>4
    <3>2. /\ first_token'[r] # NotYet /\ first_token'[r] <= t
          /\ transfer_done[r] <= first_token'[r] /\ first_token'[r] \in Nat
      BY <1>8, <1>10, <1>11, <1>12, <2>4 DEF MaybeTime
    <3>3. finish'[r] = IF r \in over THEN t ELSE NotYet
      BY <1>10, <1>12, <2>4
    <3>4. remaining'[r] = 0 <=> r \in over
      BY <1>10, <1>12, <2>4, <3>1
    <3>5. r \in active' <=> r \notin over
      BY <1>7, <2>4
    <3> QED
      BY <1>2, <1>7, <1>8, <1>10, <1>14, <2>1, <2>3, <2>4, <3>2, <3>3, <3>4, <3>5
         DEF RequestOK, input
  <2>5. CASE r \notin act
    <3>1. /\ first_token'[r] = first_token[r] /\ remaining'[r] = remaining[r]
          /\ finish'[r] = finish[r] /\ r \notin active /\ r \notin active' /\ r \notin InBatch'
      BY <1>4, <1>7, <1>9, <1>12, <1>14, <2>5
    <3> QED
      BY <1>2, <2>1, <2>2, <2>3, <3>1 DEF RequestOK, input
  <2> QED
    BY <2>4, <2>5
<1>19. \A r \in active : remaining'[r] = remaining[r] - 1
  BY <1>4, <1>9, <1>12
<1>20. \E r \in R : remaining'[r] < remaining[r]
  <2>1. PICK r \in act : r \in R /\ remaining[r] \in Nat
    BY <1>9, <1>10
  <2>2. remaining'[r] = remaining[r] - 1
    BY <1>12, <2>1
  <2> QED
    BY <2>1, <2>2
<1> QED
  BY <1>13, <1>15, <1>16, <1>17, <1>18, <1>19, <1>20 DEF ClusterInv

\* What is admitted queues up behind the prefills under way.
LEMMA ArrivedFacts ==
  ASSUME NEW S \in SUBSET R
  PROVE  Arrived(S) \in Seq(R) /\ Range(Arrived(S)) = S /\ IsInjective(Arrived(S))
<1> DEFINE all == [r \in R |-> r]
<1>1. all \in Seq(R) /\ Range(all) = R /\ IsInjective(all)
  BY ClusterAssumption DEF R, Range, IsInjective
<1> HIDE DEF all
<1>2. /\ Those(all, S) \in Seq(R) /\ Range(Those(all, S)) = Range(all) \cap S
      /\ IsInjective(Those(all, S))
  BY <1>1, ThoseKept
<1>3. Arrived(S) = Those(all, S)
  BY DEF Arrived, all
<1> QED
  BY <1>1, <1>2, <1>3

\* What a prefill takes is not negative, and more than nothing for the first one
\* when no decode has a share of the budget.
LEMMA ShareFacts ==
  ASSUME NEW q \in Seq(R), \A j \in DOMAIN q : Need(q[j]) \in Nat, NEW i \in DOMAIN q,
         Budget \in Int
  PROVE  /\ Take(q, i) \in Nat
         /\ i = 1 /\ Budget > 0 /\ Need(q[1]) > 0 => Take(q, 1) > 0
<1> DEFINE p == [j \in 1..i - 1 |-> Need(q[j])]
<1>1. /\ i \in 1..Len(q) /\ Len(q) \in Nat /\ Need(q[i]) \in Nat
      /\ \A j \in 1..i - 1 : Need(q[j]) \in Nat
  OBVIOUS
<1>2. p \in Seq(Nat) /\ (i = 1 => p = <<>>)
  BY <1>1
<1> HIDE DEF p
<1>3. NeedBefore(q, i) \in Nat /\ (i = 1 => NeedBefore(q, i) = 0)
  BY <1>2, TotalOfAppend DEF NeedBefore, p
<1>4. PICK m : m = Min({Need(q[i]), Budget - NeedBefore(q, i)})
  OBVIOUS
<1>5. PICK b \in Int : b = Budget - NeedBefore(q, i)
  BY <1>3
<1>6. m \in {Need(q[i]), b}
  <2>1. Need(q[i]) \in Int /\ m = Min({Need(q[i]), b})
    BY <1>1, <1>4, <1>5
  <2> QED
    BY <2>1, SmallerOfTwo
<1>7. m \in Int
  BY <1>1, <1>5, <1>6
<1>8. Take(q, i) = IF 0 >= m THEN 0 ELSE m
  BY <1>4 DEF Take, Later
<1>9. i = 1 /\ Budget > 0 /\ Need(q[1]) > 0 => m > 0
  BY <1>1, <1>3, <1>5, <1>6
<1> QED
  BY <1>7, <1>8, <1>9

\* A mixed step: some request gets a token or a chunk, and with chunked prefill
\* every decoding one gets a token.
LEMMA MixedStepKeeps ==
  ASSUME ClusterInv, MixedStep
  PROVE  /\ ClusterInv'
         /\ topology = "chunked" => \A r \in active : remaining'[r] = remaining[r] - 1
         /\ \E r \in R : remaining'[r] < remaining[r] \/ done_tok'[r] > done_tok[r]
<1>1. /\ ClusterTypeOK /\ StagesInOrder /\ WorkersInTurn /\ BatchInLimit
      /\ \A r \in R : RequestOK(r)
  BY DEF ClusterInv
<1>2. /\ stage = "work" /\ ~Disaggregated /\ InBatch \cup Admitted # {}
      /\ UNCHANGED <<input, stage, free_p, owner, turn>>
  BY DEF MixedStep, Idle
<1>3. PICK d \in StepTimes :
        LET q == prefilling \o Arrived(Admitted)
            take == [i \in DOMAIN q |-> Take(q, i)]
            newly == {q[i] : i \in {j \in DOMAIN q : take[j] >= Need(q[j])}}
            dec == Decoding(\E i \in DOMAIN q : take[i] > 0)
            over == {r \in dec \cup newly : remaining[r] = 1}
            t == now_ms + d
        IN /\ now_ms' = t
           /\ prefill_start' = [r \in R |-> IF r \in Admitted THEN now_ms ELSE prefill_start[r]]
           /\ done_tok' = [r \in R |-> IF \E i \in DOMAIN q : q[i] = r
                                       THEN done_tok[r] + take[CHOOSE i \in DOMAIN q : q[i] = r]
                                       ELSE done_tok[r]]
           /\ prefilling' = Those(q, R \ newly)
           /\ prefill_done' = [r \in R |-> IF r \in newly THEN t ELSE prefill_done[r]]
           /\ transfer_done' = [r \in R |-> IF r \in newly THEN t ELSE transfer_done[r]]
           /\ first_token' = [r \in R |-> IF r \in newly THEN t ELSE first_token[r]]
           /\ remaining' = [r \in R |-> IF r \in dec \cup newly THEN remaining[r] - 1 ELSE remaining[r]]
           /\ finish' = [r \in R |-> IF r \in over THEN t ELSE finish[r]]
           /\ active' = (active \cup newly) \ over
  BY DEF MixedStep
<1>4. PICK q : q = prefilling \o Arrived(Admitted)
  OBVIOUS
<1>5. PICK take : take = [i \in DOMAIN q |-> Take(q, i)]
  OBVIOUS
<1>6. PICK newly : newly = {q[i] : i \in {j \in DOMAIN q : take[j] >= Need(q[j])}}
  OBVIOUS
<1>7. PICK dec : dec = Decoding(\E i \in DOMAIN q : take[i] > 0)
  OBVIOUS
<1>8. PICK over : over = {r \in dec \cup newly : remaining[r] = 1}
  OBVIOUS
<1>9. PICK t : t = now_ms + d
  OBVIOUS
<1>10. /\ now_ms' = t
       /\ prefill_start' = [r \in R |-> IF r \in Admitted THEN now_ms ELSE prefill_start[r]]
       /\ done_tok' = [r \in R |-> IF \E i \in DOMAIN q : q[i] = r
                                   THEN done_tok[r] + take[CHOOSE i \in DOMAIN q : q[i] = r]
                                   ELSE done_tok[r]]
       /\ prefilling' = Those(q, R \ newly)
       /\ prefill_done' = [r \in R |-> IF r \in newly THEN t ELSE prefill_done[r]]
       /\ transfer_done' = [r \in R |-> IF r \in newly THEN t ELSE transfer_done[r]]
       /\ first_token' = [r \in R |-> IF r \in newly THEN t ELSE first_token[r]]
       /\ remaining' = [r \in R |-> IF r \in dec \cup newly THEN remaining[r] - 1 ELSE remaining[r]]
       /\ finish' = [r \in R |-> IF r \in over THEN t ELSE finish[r]]
       /\ active' = (active \cup newly) \ over
  BY <1>3, <1>4, <1>5, <1>6, <1>7, <1>8, <1>9
<1>11. /\ d \in Nat \ {0} /\ now_ms \in Nat /\ t \in Nat /\ t = now_ms + d /\ now_ms < t
       /\ NotYet = -1
  BY <1>1, <1>9, ClusterAssumption DEF ClusterTypeOK, NotYet
<1>12. /\ InBatch = active \cup Range(prefilling) /\ InBatch \subseteq R /\ Admitted \subseteq R
       /\ InBatch \cap Admitted = {}
  BY AdmittedFits DEF InBatch, Range
<1>13. q \in Seq(R) /\ Range(q) = Range(prefilling) \cup Admitted /\ IsInjective(q)
  <2>1. /\ prefilling \in Seq(R) /\ IsInjective(prefilling)
        /\ Range(prefilling) \cap Admitted = {}
    BY <1>1, <1>12 DEF ClusterTypeOK, BatchInLimit
  <2>2. /\ Arrived(Admitted) \in Seq(R) /\ Range(Arrived(Admitted)) = Admitted
        /\ IsInjective(Arrived(Admitted))
    BY <1>12, ArrivedFacts
  <2> QED
    BY <1>4, <2>1, <2>2, ConcatOfQueues
\* Who prefills is of this worker, has no token yet, and arrived before.
<1>14. ASSUME NEW r \in Range(q)
       PROVE  /\ r \in R /\ owner[r] = turn /\ finish[r] = NotYet /\ first_token[r] = NotYet
              /\ r \notin active /\ done_tok[r] < prompt_tokens[r]
              /\ prefill_start'[r] \in arrival_ms[r]..now_ms
  <2>1. r \in R /\ RequestOK(r)
    BY <1>1, <1>12, <1>13
  <2>2. prefill_start'[r] = IF r \in Admitted THEN now_ms ELSE prefill_start[r]
    BY <1>10, <2>1
  <2>3. CASE r \in Range(prefilling)
    <3>1. r \in InBatch /\ r \notin Admitted
      BY <1>12, <2>3
    <3> QED
      BY <2>1, <2>2, <2>3, <3>1 DEF RequestOK
  <2>4. CASE r \in Admitted
    <3>1. /\ owner[r] = turn /\ finish[r] = NotYet /\ first_token[r] = NotYet
          /\ arrival_ms[r] <= now_ms
      BY <1>2, <2>4, AdmittedFacts DEF ReadyAt
    <3>2. arrival_ms[r] \in Nat
      BY <1>1, <2>1 DEF ClusterTypeOK
    <3> QED
      BY <1>11, <2>1, <2>2, <2>4, <3>1, <3>2 DEF RequestOK
  <2> QED
    BY <1>13, <2>3, <2>4
<1>15. \A r \in R : /\ prompt_tokens[r] \in Nat /\ done_tok[r] \in Nat /\ remaining[r] \in Nat
                    /\ first_token[r] \in MaybeTime /\ finish[r] \in MaybeTime
                    /\ arrival_ms[r] \in Nat
  BY <1>1 DEF ClusterTypeOK
<1>16. DOMAIN q = 1..Len(q) /\ Len(q) \in Nat /\ \A i \in DOMAIN q : q[i] \in Range(q)
  BY <1>13 DEF Range
<1>17. \A i \in DOMAIN q : Need(q[i]) \in Nat /\ Need(q[i]) > 0
  BY <1>14, <1>15, <1>16 DEF Need
<1>18. Budget \in Int /\ (active = {} => Budget > 0)
  <2>1. IsFiniteSet(active)
    BY <1>12, FewerFit
  <2>2. Cardinality(active) \in Nat /\ (active = {} => Cardinality(active) = 0)
    BY <2>1, FS_CardinalityType, FS_EmptySet
  <2>3. max_num_batched_tokens \in Nat \ {0}
    BY <1>1 DEF ClusterTypeOK
  <2> QED
    BY <2>2, <2>3 DEF Budget
<1>19. \A i \in DOMAIN q : take[i] = Take(q, i) /\ take[i] \in Nat
  BY <1>5, <1>13, <1>17, <1>18, ShareFacts
<1>20. newly \subseteq Range(q) /\ newly \subseteq R
  BY <1>6, <1>14, <1>16
<1>21. dec \subseteq active /\ dec \cap newly = {} /\ (topology = "chunked" => dec = active)
  BY <1>7, <1>14, <1>20 DEF Decoding
<1>22. ASSUME NEW i \in DOMAIN q PROVE done_tok'[q[i]] = done_tok[q[i]] + take[i]
  <2>1. q[i] \in R /\ \A j \in DOMAIN q : q[j] = q[i] => j = i
    BY <1>13, <1>14, <1>16 DEF IsInjective
  <2>2. (CHOOSE j \in DOMAIN q : q[j] = q[i]) = i
    BY <2>1
  <2> QED
    BY <1>10, <2>1, <2>2
<1>23. \A r \in R \ Range(q) : done_tok'[r] = done_tok[r]
  BY <1>10, <1>16
\* Who is still prefilling has tokens of its prompt left.
<1>24. ASSUME NEW r \in Range(q)
       PROVE  /\ done_tok'[r] \in Nat
              /\ r \notin newly => done_tok'[r] < prompt_tokens[r]
  <2>1. PICK i \in DOMAIN q : q[i] = r
    BY DEF Range
  <2>2. done_tok'[r] = done_tok[r] + take[i] /\ take[i] \in Nat
    BY <1>19, <1>22, <2>1
  <2>3. r \notin newly => ~(take[i] >= Need(r))
    BY <1>6, <2>1
  <2>4. r \in R /\ done_tok[r] \in Nat /\ prompt_tokens[r] \in Nat
    BY <1>14, <1>15
  <2> QED
    BY <2>2, <2>3, <2>4 DEF Need
<1>25. \A r \in R :
         /\ first_token'[r] = IF r \in newly THEN t ELSE first_token[r]
         /\ prefill_done'[r] = IF r \in newly THEN t ELSE prefill_done[r]
         /\ transfer_done'[r] = IF r \in newly THEN t ELSE transfer_done[r]
         /\ remaining'[r] = IF r \in dec \cup newly THEN remaining[r] - 1 ELSE remaining[r]
         /\ finish'[r] = IF r \in over THEN t ELSE finish[r]
         /\ r \notin Admitted => prefill_start'[r] = prefill_start[r]
  BY <1>10
<1>26. \A r \in dec \cup newly : /\ r \in R /\ finish[r] = NotYet /\ remaining[r] \in Nat
                                 /\ remaining[r] > 0 /\ owner[r] = turn
  <2>1. ASSUME NEW r \in dec PROVE r \in R /\ finish[r] = NotYet /\ owner[r] = turn
    BY <1>1, <1>12, <1>21 DEF RequestOK
  <2>2. ASSUME NEW r \in newly PROVE r \in R /\ finish[r] = NotYet /\ owner[r] = turn
    BY <1>14, <1>20
  <2> QED
    BY <1>1, <1>15, <2>1, <2>2 DEF RequestOK
<1>27. /\ prefilling' \in Seq(R) /\ Range(prefilling') = Range(q) \ newly
       /\ IsInjective(prefilling')
  <2>1. Range(q) \subseteq R
    BY <1>14
  <2> QED
    BY <1>10, <1>13, <2>1, ThoseKept
<1>28. ClusterTypeOK'
  <2>1. \A r \in R : done_tok'[r] \in Nat
    BY <1>15, <1>23, <1>24
  <2>2. done_tok' \in [R -> Nat]
    BY <1>10, <2>1
  <2>3. /\ prefill_start' \in [R -> MaybeTime] /\ prefill_done' \in [R -> MaybeTime]
        /\ transfer_done' \in [R -> MaybeTime] /\ first_token' \in [R -> MaybeTime]
        /\ finish' \in [R -> MaybeTime]
    BY <1>1, <1>10, <1>11 DEF ClusterTypeOK, MaybeTime
  <2>4. remaining' \in [R -> Nat]
    BY <1>10, <1>15, <1>26
  <2>5. active' \subseteq R
    BY <1>10, <1>12, <1>20
  <2> QED
    BY <1>1, <1>2, <1>10, <1>11, <1>27, <2>2, <2>3, <2>4, <2>5 DEF ClusterTypeOK, input
<1>29. InBatch' = active' \cup Range(prefilling')
  BY DEF InBatch, Range
<1>30. InBatch' \subseteq InBatch \cup Admitted
  BY <1>10, <1>12, <1>13, <1>20, <1>27, <1>29
<1>31. StagesInOrder'
  BY <1>1, <1>2 DEF StagesInOrder, Disaggregated, input
<1>32. WorkersInTurn'
  <2>1. \A r \in R : finish[r] # NotYet => finish'[r] # NotYet
    BY <1>11, <1>25
  <2> QED
    BY <1>1, <1>2, <2>1 DEF WorkersInTurn, input
<1>33. BatchInLimit'
  <2>1. Cardinality(InBatch') <= MaxBatch
    BY <1>30, FewerFit
  <2> QED
    BY <1>27, <2>1 DEF BatchInLimit
<1>34. ASSUME NEW r \in R PROVE RequestOK(r)'
  <2>1. RequestOK(r) /\ arrival_ms'[r] = arrival_ms[r] /\ prompt_tokens' = prompt_tokens
        /\ owner' = owner /\ turn' = turn
    BY <1>1, <1>2 DEF input
  <2>2. CASE r \in newly
    <3>1. /\ r \in Range(q) /\ r \notin Range(prefilling') /\ r \in dec \cup newly
      BY <1>20, <1>27, <2>2
    <3>2. /\ first_token'[r] = t /\ prefill_done'[r] = t /\ transfer_done'[r] = t
          /\ prefill_start'[r] \in arrival_ms[r]..now_ms
      BY <1>14, <1>25, <2>2, <3>1
    <3>3. Stamped(r)'
      BY <1>11, <1>15, <2>1, <3>2 DEF Stamped
    <3>4. /\ r \in over <=> remaining[r] = 1
          /\ finish'[r] = IF r \in over THEN t ELSE NotYet
          /\ remaining'[r] = 0 <=> r \in over
      BY <1>8, <1>25, <1>26, <3>1
    <3>5. (r \in active' <=> r \notin over) /\ (r \in InBatch' <=> r \notin over)
      BY <1>10, <1>29, <2>2, <3>1
    <3> QED
      BY <1>10, <1>11, <1>26, <2>1, <3>1, <3>2, <3>3, <3>4, <3>5 DEF RequestOK
  <2>3. CASE r \in Range(q) /\ r \notin newly
    <3>1. /\ r \notin dec /\ r \notin over /\ r \notin active' /\ r \in Range(prefilling')
      BY <1>8, <1>10, <1>14, <1>21, <1>27, <2>3
    <3>2. /\ first_token'[r] = NotYet /\ finish'[r] = NotYet /\ remaining'[r] = remaining[r]
          /\ owner[r] = turn /\ finish[r] = NotYet /\ done_tok'[r] < prompt_tokens[r]
      BY <1>14, <1>24, <1>25, <2>3, <3>1
    <3>3. prefill_start'[r] \in arrival_ms[r]..now_ms'
      <4>1. prefill_start'[r] \in arrival_ms[r]..now_ms /\ arrival_ms[r] \in Nat
        BY <1>14, <1>15, <2>3
      <4>2. now_ms' = t
        BY <1>10
      <4> QED
        BY <1>11, <4>1, <4>2
    <3> QED
      BY <2>1, <3>1, <3>2, <3>3 DEF RequestOK
  <2>4. CASE r \notin Range(q)
    <3>1. /\ r \notin newly /\ r \notin Admitted /\ r \notin Range(prefilling')
          /\ r \notin Range(prefilling)
      BY <1>13, <1>20, <1>27, <2>4
    <3>2. /\ first_token'[r] = first_token[r] /\ transfer_done'[r] = transfer_done[r]
          /\ done_tok'[r] = done_tok[r] /\ (Stamped(r)' <=> Stamped(r))
          /\ finish'[r] = IF r \in over THEN t ELSE finish[r]
          /\ remaining'[r] = IF r \in dec THEN remaining[r] - 1 ELSE remaining[r]
      BY <1>23, <1>25, <2>1, <2>4, <3>1 DEF Stamped
    <3>3. r \in over <=> r \in dec /\ remaining[r] = 1
      BY <1>8, <3>1
    <3>4. (r \in active' <=> r \in active /\ r \notin over) /\ (r \in InBatch' <=> r \in active')
      BY <1>10, <1>29, <3>1
    <3>5. r \in dec => r \in active /\ finish[r] = NotYet /\ remaining[r] \in Nat /\ remaining[r] > 0
      BY <1>21, <1>26
    <3>6. r \in active => r \in InBatch /\ first_token[r] \in Nat /\ first_token[r] <= now_ms
      BY <1>11, <1>12, <1>15, <2>1 DEF RequestOK, MaybeTime
    <3>7. CASE r \in over
      <4>1. /\ first_token[r] # NotYet /\ first_token[r] <= t /\ remaining'[r] = 0 /\ finish'[r] = t
            /\ r \notin active' /\ r \notin InBatch'
        BY <1>11, <3>2, <3>3, <3>4, <3>5, <3>6, <3>7
      <4> QED
        <5>1. Stamped(r) /\ transfer_done[r] <= first_token[r]
          BY <2>1, <4>1 DEF RequestOK
        <5>2. Stamped(r)' /\ transfer_done'[r] <= first_token'[r] /\ first_token'[r] # NotYet
          BY <3>2, <4>1, <5>1
        <5>3. first_token'[r] <= finish'[r] /\ finish'[r] # NotYet
          BY <1>11, <3>2, <4>1
        <5> QED
          BY <3>1, <4>1, <5>2, <5>3 DEF RequestOK
    <3>8. CASE r \notin over
      <4>1. finish'[r] = finish[r] /\ (r \in active' <=> r \in active) /\ (r \in InBatch' => r \in InBatch)
        BY <3>2, <3>4, <3>6, <3>8
      <4>2. remaining'[r] = 0 <=> remaining[r] = 0
        BY <3>2, <3>3, <3>5, <3>8
      <4>3. r \in active' => first_token'[r] <= now_ms'
        BY <1>10, <1>11, <3>2, <3>6, <4>1
      <4> QED
        BY <2>1, <3>1, <3>2, <4>1, <4>2, <4>3 DEF RequestOK
    <3> QED
      BY <3>7, <3>8
  <2> QED
    BY <2>2, <2>3, <2>4
<1>35. topology = "chunked" => \A r \in active : remaining'[r] = remaining[r] - 1
  BY <1>12, <1>21, <1>25
<1>36. \E r \in R : remaining'[r] < remaining[r] \/ done_tok'[r] > done_tok[r]
  <2>1. CASE dec \cup newly # {}
    <3>1. PICK r \in dec \cup newly : remaining'[r] = remaining[r] - 1
      BY <1>25, <1>26, <2>1
    <3> QED
      BY <1>26, <3>1
  <2>2. CASE dec = {}
    <3>1. \E i \in DOMAIN q : take[i] > 0
      <4>1. CASE active # {}
        BY <1>7, <2>2, <4>1 DEF Decoding
      <4>2. CASE active = {}
        <5>1. Range(q) # {}
          BY <1>2, <1>12, <1>13, <4>2
        <5>2. 1 \in DOMAIN q
          BY <1>16, <5>1 DEF Range
        <5>3. Take(q, 1) > 0
          BY <1>13, <1>17, <1>18, <4>2, <5>2, ShareFacts
        <5> QED
          BY <1>19, <5>2, <5>3
      <4> QED
        BY <4>1, <4>2
    <3>2. PICK i \in DOMAIN q : take[i] > 0
      BY <3>1
    <3>3. q[i] \in R /\ done_tok[q[i]] \in Nat /\ take[i] \in Nat
      BY <1>14, <1>15, <1>16, <1>19
    <3>4. done_tok'[q[i]] > done_tok[q[i]]
      BY <1>22, <3>2, <3>3
    <3> QED
      BY <3>3, <3>4
  <2> QED
    BY <2>1, <2>2
<1> QED
  BY <1>28, <1>31, <1>32, <1>33, <1>34, <1>35, <1>36 DEF ClusterInv

-----------------------------------------------------------------------------
LEMMA ClusterInitially == ClusterInit => ClusterInv
<1> SUFFICES ASSUME ClusterInit PROVE ClusterInv
  OBVIOUS
<1>1. /\ R = 1..N /\ N \in Nat \ {0} /\ NotYet = -1 /\ MaxBatch \in Nat
  BY ClusterAssumption DEF R, NotYet
<1>2. /\ active = {} /\ prefilling = <<>> /\ Range(prefilling) = {} /\ IsInjective(prefilling)
      /\ InBatch = {}
  BY DEF ClusterInit, Range, IsInjective, InBatch
<1>3. /\ arrival_ms \in [R -> Nat] /\ prompt_tokens \in [R -> Nat \ {0}]
      /\ output_tokens \in [R -> Nat \ {0}]
  BY ClusterAssumption DEF ClusterInit
<1>4. ClusterTypeOK
  BY <1>1, <1>3, ClusterAssumption DEF ClusterInit, ClusterTypeOK, MaybeTime, Disaggregated
<1>5. StagesInOrder /\ WorkersInTurn
  BY <1>1, <1>2, <1>4
     DEF ClusterInit, StagesInOrder, WorkersInTurn, Disaggregated, ClusterTypeOK
<1>6. BatchInLimit
  BY <1>1, <1>2, FS_EmptySet DEF BatchInLimit
<1>7. \A r \in R : RequestOK(r)
  BY <1>1, <1>2, <1>3 DEF ClusterInit, RequestOK
<1> QED
  BY <1>4, <1>5, <1>6, <1>7 DEF ClusterInv

\* The inductive invariant of the cluster simulator, for any number of
\* requests, pool sizes, batch, budget, step times and arrivals.
THEOREM ClusterInvariant == ClusterSpec => []ClusterInv
<1>1. ClusterInv /\ [ClusterNext]_clusterVars => ClusterInv'
  <2> SUFFICES ASSUME ClusterInv, [ClusterNext]_clusterVars PROVE ClusterInv'
    OBVIOUS
  <2>1. CASE UNCHANGED clusterVars
    <3>1. UNCHANGED <<input, stage, free_p, stamps, owner, turn, now_ms, batch>>
      BY <2>1 DEF clusterVars
    <3>2. /\ UNCHANGED <<topology, n_decode, max_num_batched_tokens, arrival_ms, prompt_tokens>>
          /\ UNCHANGED <<stage, free_p, prefill_start, prefill_done, transfer_done, first_token, finish>>
          /\ UNCHANGED <<owner, turn, now_ms, active, prefilling, done_tok, remaining>>
      BY <3>1 DEF input, stamps, batch
    <3>3. ClusterTypeOK'
      BY <3>2 DEF ClusterInv, ClusterTypeOK
    <3>4. StagesInOrder' /\ WorkersInTurn'
      BY <3>2 DEF ClusterInv, StagesInOrder, WorkersInTurn, Stamped, Disaggregated, InBatch
    <3>5. BatchInLimit'
      BY <3>2 DEF ClusterInv, BatchInLimit, InBatch
    <3>6. \A r \in R : RequestOK(r)'
      BY <3>2 DEF ClusterInv, RequestOK, Stamped, InBatch
    <3> QED
      BY <3>3, <3>4, <3>5, <3>6 DEF ClusterInv
  <2> QED
    BY <2>1, PrefillKeeps, AssignKeeps, JumpKeeps, DecodeStepKeeps, MixedStepKeeps DEF ClusterNext
<1> QED
  BY <1>1, ClusterInitially, PTL DEF ClusterSpec

\* Every request waits for its phases in order, and the run ends when all of
\* them have every token: nobody is left behind by a worker or between workers.
THEOREM PhasesAreInOrder == ClusterSpec => []PhasesInOrder
<1>1. ClusterInv => PhasesInOrder
  <2> SUFFICES ASSUME ClusterInv PROVE PhasesInOrder
    OBVIOUS
  <2>1. ClusterTypeOK /\ WorkersInTurn /\ \A r \in R : RequestOK(r)
    BY DEF ClusterInv
  <2>2. stage = "done" => \A r \in R : finish[r] # NotYet
    <3>1. \A r \in R : owner[r] \in Nat /\ owner[r] <= n_decode /\ n_decode \in Nat
      BY <2>1 DEF ClusterTypeOK, WorkersInTurn
    <3> QED
      BY <2>1, <3>1 DEF WorkersInTurn
  <2> QED
    BY <2>1, <2>2 DEF PhasesInOrder, RequestOK, Stamped
<1> QED
  BY <1>1, ClusterInvariant, PTL

\* With chunked prefill, or in a decode pool, every step gives each decoding
\* request a token; on any worker a step stays within the batch and gets on.
THEOREM StepsNeverStall == ClusterSpec => DecodeNeverStalls
<1> DEFINE Moves == (turn' = turn /\ now_ms' > now_ms /\ InBatch # {}) =>
                      /\ topology # "unchunked" => \A r \in active : remaining'[r] = remaining[r] - 1
                      /\ Cardinality(InBatch') <= MaxBatch
                      /\ \E r \in R : remaining'[r] < remaining[r] \/ done_tok'[r] > done_tok[r]
<1>1. ClusterInv /\ [ClusterNext]_clusterVars => [Moves]_clusterVars
  <2> SUFFICES ASSUME ClusterInv, ClusterNext, now_ms' > now_ms, turn' = turn, InBatch # {}
               PROVE  /\ topology # "unchunked" => \A r \in active : remaining'[r] = remaining[r] - 1
                      /\ Cardinality(InBatch') <= MaxBatch
                      /\ \E r \in R : remaining'[r] < remaining[r] \/ done_tok'[r] > done_tok[r]
    OBVIOUS
  <2>1. now_ms \in Nat /\ topology \in {"disaggregated", "chunked", "unchunked"}
    BY DEF ClusterInv, ClusterTypeOK
  <2>2. DecodeStep \/ MixedStep
    BY <2>1 DEF ClusterNext, Prefill, Assign, Jump, Idle
  <2>3. ClusterInv'
    BY <2>2, DecodeStepKeeps, MixedStepKeeps
  <2>4. Cardinality(InBatch') <= MaxBatch
    BY <2>3 DEF ClusterInv, BatchInLimit
  <2>5. MixedStep => topology # "disaggregated"
    BY DEF MixedStep, Disaggregated
  <2> QED
    BY <2>1, <2>2, <2>4, <2>5, DecodeStepKeeps, MixedStepKeeps
<1> QED
  BY <1>1, ClusterInvariant, PTL DEF ClusterSpec, DecodeNeverStalls

-----------------------------------------------------------------------------
(***************************************************************************)
(* The contiguous allocator.  Every slot starts at a multiple of the       *)
(* reservation, so a free slot smaller than one can only be the last.      *)
(***************************************************************************)
SlotType == [start : Nat, size : Nat, owner : Owners \cup {NoOwner}]
End(s) == s.start + s.size
Whole(n) == \E k \in Nat : n = k * ReserveLen
Tiled(q, end) ==
  /\ q \in Seq(SlotType) /\ q # <<>>
  /\ q[1].start = 0 /\ End(q[Len(q)]) = end
  /\ \A i \in 1..Len(q) - 1 : End(q[i]) = q[i + 1].start /\ q[i].size > 0
  /\ \A i \in 1..Len(q) : Whole(q[i].start) /\ (~Free(q[i]) => q[i].size = ReserveLen)
Apart(q) == \A i \in 1..Len(q) - 1 : ~(Free(q[i]) /\ Free(q[i + 1]))
ContiguousInv == Tiled(slots, Capacity) /\ Apart(slots)

LEMMA WholeFacts ==
  /\ Whole(0)
  /\ \A n \in Nat : Whole(n) => Whole(n + ReserveLen)
  /\ \A n, m \in Nat : Whole(n) /\ Whole(m) /\ n < m => m - n >= ReserveLen
<1>0. ReserveLen \in Nat
  BY ContiguousAssumption
<1>1. Whole(0)
  <2>1. 0 = 0 * ReserveLen
    BY <1>0
  <2> QED
    BY <2>1 DEF Whole
<1>2. ASSUME NEW n \in Nat, Whole(n) PROVE Whole(n + ReserveLen)
  <2>1. PICK k \in Nat : n = k * ReserveLen
    BY <1>2 DEF Whole
  <2>2. (k + 1) * ReserveLen = k * ReserveLen + ReserveLen
    BY <1>0
  <2> QED
    BY <2>1, <2>2 DEF Whole
<1>3. ASSUME NEW n \in Nat, NEW m \in Nat, Whole(n), Whole(m), n < m PROVE m - n >= ReserveLen
  <2>1. PICK k \in Nat, l \in Nat : n = k * ReserveLen /\ m = l * ReserveLen
    BY <1>3 DEF Whole
  <2>2. k + 1 <= l
    <3>1. CASE l <= k
      <4>1. l * ReserveLen <= k * ReserveLen
        BY <1>0, <3>1, TimesKeepsOrder
      <4> QED
        BY <1>3, <2>1, <4>1
    <3> QED
      BY <3>1
  <2>3. (k + 1) * ReserveLen <= l * ReserveLen /\ (k + 1) * ReserveLen = k * ReserveLen + ReserveLen
    BY <1>0, <2>2, TimesKeepsOrder
  <2> QED
    BY <1>0, <1>3, <2>1, <2>3
<1> QED
  BY <1>1, <1>2, <1>3

LEMMA SlotIsTyped ==
  ASSUME NEW a \in Nat, NEW b \in Nat, NEW o \in Owners \cup {NoOwner}
  PROVE  /\ Slot(a, b, o) \in SlotType
         /\ Slot(a, b, o).start = a /\ Slot(a, b, o).size = b /\ Slot(a, b, o).owner = o
BY DEF Slot, SlotType

LEMMA SlotFacts ==
  ASSUME NEW s \in SlotType
  PROVE  s.start \in Nat /\ s.size \in Nat /\ s.owner \in Owners \cup {NoOwner} /\ End(s) \in Nat
BY DEF SlotType, End

\* One slot more, joined to the last or appended.
LEMMA JoinedTiles ==
  ASSUME NEW m, NEW e, Tiled(m, e), Apart(m), m[Len(m)].size > 0,
         NEW s \in SlotType, s.start = e, Whole(e), ~Free(s) => s.size = ReserveLen,
         NEW j, j = Joined(m, s)
  PROVE  Tiled(j, End(s)) /\ Apart(j) /\ j[Len(j)].size >= s.size
<1>1. PICK n : n = Len(m)
  OBVIOUS
<1>2. /\ n \in Nat \ {0} /\ m \in Seq(SlotType) /\ m # <<>> /\ \A i \in 1..n : m[i] \in SlotType
  BY <1>1 DEF Tiled
<1>3. PICK l \in SlotType : l = m[n]
  BY <1>2
<1>4. /\ l.start \in Nat /\ l.size \in Nat /\ l.size > 0 /\ l.start + l.size = e /\ Whole(l.start)
      /\ s.start \in Nat /\ s.size \in Nat /\ e \in Nat /\ End(s) = e + s.size
      /\ m[1].start = 0
      /\ \A i \in 1..n - 1 : End(m[i]) = m[i + 1].start /\ m[i].size > 0
      /\ \A i \in 1..n : Whole(m[i].start) /\ (~Free(m[i]) => m[i].size = ReserveLen)
      /\ \A i \in 1..n - 1 : ~(Free(m[i]) /\ Free(m[i + 1]))
  <2>1. l.start \in Nat /\ l.size \in Nat /\ s.start \in Nat /\ s.size \in Nat
    BY SlotFacts
  <2>2. n \in 1..n
    BY <1>2
  <2>3. l.start + l.size = e
    BY <1>1, <1>3 DEF Tiled, End
  <2> QED
    BY <1>1, <1>3, <2>1, <2>2, <2>3 DEF Tiled, Apart, End
<1>5. CASE Free(s) /\ Free(l)
  <2>1. PICK t \in SlotType : t.start = l.start /\ t.size = l.size + s.size /\ t.owner = NoOwner /\ j = [m EXCEPT ![n] = t]
    <3>1. l.size + s.size \in Nat
      BY <1>4
    <3>2. PICK t : t = Slot(l.start, l.size + s.size, NoOwner)
      OBVIOUS
    <3>3. t \in SlotType /\ t.start = l.start /\ t.size = l.size + s.size /\ t.owner = NoOwner
      BY <1>4, <3>1, <3>2, SlotIsTyped
    <3>4. j = ReplaceAt(m, n, t)
      BY <1>1, <1>2, <1>3, <1>4, <1>5, <3>2 DEF Joined, Last
    <3> QED
      BY <3>3, <3>4 DEF ReplaceAt
  <2>2. /\ j \in Seq(SlotType) /\ Len(j) = n /\ j # <<>> /\ j[n] = t
        /\ \A i \in 1..n - 1 : j[i] = m[i]
    BY <1>1, <1>2, <2>1
  <2>3. End(t) = End(s)
    BY <1>4, <2>1 DEF End
  <2>4. j[1].start = 0
    <3>1. CASE n = 1
      BY <1>3, <1>4, <2>1, <2>2, <3>1
    <3>2. CASE n # 1
      BY <1>2, <1>4, <2>2, <3>2
    <3> QED
      BY <3>1, <3>2
  <2>5. ASSUME NEW i \in 1..n - 1
        PROVE  End(j[i]) = j[i + 1].start /\ j[i].size > 0 /\ ~(Free(j[i]) /\ Free(j[i + 1]))
    <3>1. j[i] = m[i]
      BY <2>2
    <3>2. CASE i = n - 1
      <4>1. i + 1 = n
        BY <1>2, <3>2
      <4> QED
        BY <1>3, <1>4, <1>5, <2>1, <2>2, <3>1, <4>1
    <3>3. CASE i # n - 1
      <4>1. i + 1 \in 1..n - 1
        BY <1>2, <3>3
      <4> QED
        BY <1>4, <2>2, <3>1, <4>1
    <3> QED
      BY <3>2, <3>3
  <2>6. ASSUME NEW i \in 1..n
        PROVE  Whole(j[i].start) /\ (~Free(j[i]) => j[i].size = ReserveLen)
    <3>1. CASE i = n
      BY <1>4, <2>1, <2>2, <3>1 DEF Free
    <3>2. CASE i # n
      <4>1. i \in 1..n - 1
        BY <1>2, <3>2
      <4> QED
        BY <1>4, <2>2, <4>1
    <3> QED
      BY <3>1, <3>2
  <2>7. t.size >= s.size
    BY <1>4, <2>1
  <2> QED
    BY <2>2, <2>3, <2>4, <2>5, <2>6, <2>7 DEF Tiled, Apart
<1>6. CASE ~(Free(s) /\ Free(l))
  <2>1. j = Append(m, s)
    BY <1>1, <1>3, <1>6 DEF Joined, Last
  <2>2. /\ j \in Seq(SlotType) /\ Len(j) = n + 1 /\ j # <<>> /\ j[n + 1] = s
        /\ \A i \in 1..n : j[i] = m[i]
    BY <1>1, <1>2, <2>1
  <2>3. j[1].start = 0
    BY <1>2, <1>4, <2>2
  <2>4. ASSUME NEW i \in 1..(n + 1) - 1
        PROVE  End(j[i]) = j[i + 1].start /\ j[i].size > 0 /\ ~(Free(j[i]) /\ Free(j[i + 1]))
    <3>1. i \in 1..n /\ j[i] = m[i]
      BY <1>2, <2>2
    <3>2. CASE i = n
      BY <1>3, <1>4, <1>6, <2>2, <3>1, <3>2 DEF End
    <3>3. CASE i # n
      <4>1. i \in 1..n - 1 /\ i + 1 \in 1..n
        BY <1>2, <3>1, <3>3
      <4> QED
        BY <1>4, <2>2, <3>1, <4>1
    <3> QED
      BY <3>2, <3>3
  <2>5. ASSUME NEW i \in 1..n + 1
        PROVE  Whole(j[i].start) /\ (~Free(j[i]) => j[i].size = ReserveLen)
    <3>1. CASE i = n + 1
      BY <2>2, <3>1
    <3>2. CASE i # n + 1
      <4>1. i \in 1..n
        BY <1>2, <3>2
      <4> QED
        BY <1>4, <2>2, <4>1
    <3> QED
      BY <3>1, <3>2
  <2>6. s.size >= s.size
    BY <1>4
  <2> QED
    BY <2>2, <2>3, <2>4, <2>5, <2>6 DEF Tiled, Apart
<1> QED
  BY <1>5, <1>6

\* The list _coalesce builds, slot by slot.
LEMMA MergedByElement ==
  ASSUME NEW q \in Seq(SlotType)
  PROVE  \E k : /\ k \in [0..Len(q) -> Seq(SlotType)] /\ k[0] = <<>>
                /\ \A i \in 1..Len(q) : k[i] = Joined(k[i - 1], q[i])
                /\ Coalesced(q) = k[Len(q)]
<1> DEFINE n == Len(q)
           V == Seq(SlotType)
           G == [p \in (1..n) \X V |-> Joined(p[2], q[p[1]])]
           Eq(k) == k = [i \in 0..n |-> IF i = 0 THEN <<>> ELSE Joined(k[i - 1], q[i])]
<1>1. n \in Nat /\ \A i \in 1..n : q[i] \in SlotType
  OBVIOUS
<1>2. ASSUME NEW m \in V, NEW s \in SlotType PROVE Joined(m, s) \in V
  <2>1. CASE m = <<>>
    <3>1. Joined(m, s) = Append(m, s)
      BY <2>1 DEF Joined
    <3> QED
      BY <3>1
  <2>2. CASE m # <<>>
    <3>1. Len(m) \in 1..Len(m) /\ Last(m) \in SlotType
      BY <2>2 DEF Last
    <3>2. Last(m).start \in Nat /\ Last(m).size + s.size \in Nat
      BY <3>1, SlotFacts
    <3>3. PICK t \in SlotType : t = Slot(Last(m).start, Last(m).size + s.size, NoOwner)
      BY <3>2, SlotIsTyped
    <3>4. ReplaceAt(m, Len(m), t) \in V /\ Append(m, s) \in V
      BY <3>1 DEF ReplaceAt
    <3> QED
      BY <3>3, <3>4 DEF Joined
  <2> QED
    BY <2>1, <2>2
<1>3. G \in [(1..n) \X V -> V]
  <2>1. ASSUME NEW p \in (1..n) \X V PROVE Joined(p[2], q[p[1]]) \in V
    <3>1. p[2] \in V /\ q[p[1]] \in SlotType
      BY <1>1
    <3> QED
      BY <1>2, <3>1
  <2> QED
    BY <2>1
<1>4. <<>> \in V
  OBVIOUS
<1> HIDE DEF n, G, V
<1>5. PICK f : f \in [0..n -> V] /\ f[0] = <<>> /\ \A i \in 1..n : f[i] = G[<<i, f[i - 1]>>]
  <2>1. PICK f : Iterates(f, n, V, <<>>, G)
    BY <1>1, <1>3, <1>4, IterationExists
  <2> QED
    BY <2>1 DEF Iterates
<1>6. ASSUME NEW i \in 1..n PROVE f[i] = Joined(f[i - 1], q[i])
  <2>1. i - 1 \in 0..n /\ f[i - 1] \in V
    BY <1>1, <1>5
  <2>2. <<i, f[i - 1]>> \in (1..n) \X V
    BY <2>1
  <2> QED
    BY <1>5, <2>2 DEF G
<1>7. Eq(f)
  <2>1. f = [i \in 0..n |-> f[i]]
    BY <1>5
  <2>2. ASSUME NEW i \in 0..n PROVE f[i] = IF i = 0 THEN <<>> ELSE Joined(f[i - 1], q[i])
    <3>1. CASE i = 0
      BY <1>5, <3>1
    <3>2. CASE i # 0
      <4>1. i \in 1..n
        BY <1>1, <3>2
      <4> QED
        BY <1>6, <3>2, <4>1
    <3> QED
      BY <3>1, <3>2
  <2> QED
    BY <2>1, <2>2
<1> DEFINE k == CHOOSE g : Eq(g)
<1>8. Eq(k)
  BY <1>7
<1>9. Coalesced(q) = k[n]
  BY DEF Coalesced, n
<1> HIDE DEF k
<1>10. k[0] = <<>> /\ DOMAIN k = 0..n
  BY <1>1, <1>8
<1>11. ASSUME NEW i \in 1..n PROVE k[i] = Joined(k[i - 1], q[i])
  <2>1. i \in 0..n /\ i # 0
    BY <1>1
  <2> QED
    BY <1>8, <2>1
<1>12. \A i \in 0..n : k[i] \in V
  <2> DEFINE T == {i \in 0..n : k[i] \in V}
  <2>1. 0 \in T
    BY <1>1, <1>4, <1>10
  <2>2. ASSUME NEW i \in 1..n, i - 1 \in T PROVE i \in T
    BY <1>1, <1>2, <1>11, <2>2
  <2> HIDE DEF T
  <2>3. 0..n \subseteq T
    BY <1>1, <2>1, <2>2, InductionUpTo
  <2> QED
    BY <2>3 DEF T
<1>13. k \in [0..n -> V]
  <2>1. k = [i \in 0..n |-> k[i]]
    BY <1>8
  <2> QED
    BY <1>12, <2>1
<1> QED
  BY <1>9, <1>10, <1>11, <1>13 DEF n, V

\* _coalesce on slots that tile the memory: they still do, no two free ones
\* side by side.
LEMMA CoalescedTiles ==
  ASSUME NEW q, NEW e, Tiled(q, e)
  PROVE  Tiled(Coalesced(q), e) /\ Apart(Coalesced(q))
<1>1. PICK n : n = Len(q)
  OBVIOUS
<1>2. /\ n \in Nat \ {0} /\ q \in Seq(SlotType) /\ \A i \in 1..n : q[i] \in SlotType
      /\ q[1].start = 0 /\ End(q[n]) = e
      /\ \A i \in 1..n - 1 : End(q[i]) = q[i + 1].start /\ q[i].size > 0
      /\ \A i \in 1..n : Whole(q[i].start) /\ (~Free(q[i]) => q[i].size = ReserveLen)
  BY <1>1 DEF Tiled
<1>3. PICK k : /\ k \in [0..n -> Seq(SlotType)] /\ k[0] = <<>>
               /\ \A i \in 1..n : k[i] = Joined(k[i - 1], q[i])
               /\ Coalesced(q) = k[n]
  BY <1>1, <1>2, MergedByElement
<1> DEFINE Good(i) == Tiled(k[i], End(q[i])) /\ Apart(k[i]) /\ k[i][Len(k[i])].size >= q[i].size
           T == {i \in 0..n : i # 0 => Good(i)}
<1>4. 0 \in T
  BY <1>2
<1>5. ASSUME NEW i \in 1..n, i - 1 \in T PROVE i \in T
  <2>1. CASE i = 1
    <3>1. PICK s \in SlotType : s = q[1]
      BY <1>2
    <3>2. k[1] = <<s>>
      <4>1. 1 \in 1..n /\ 1 - 1 = 0
        BY <1>2
      <4>2. k[1] = Joined(<<>>, s)
        BY <1>3, <3>1, <4>1
      <4>3. Joined(<<>>, s) = Append(<<>>, s)
        BY DEF Joined
      <4> QED
        BY <4>2, <4>3
    <3>3. /\ k[1] \in Seq(SlotType) /\ Len(k[1]) = 1 /\ k[1] # <<>> /\ k[1][1] = s
      BY <3>2
    <3>4. s.start = 0 /\ Whole(s.start) /\ (~Free(s) => s.size = ReserveLen) /\ s.size >= s.size
      BY <1>2, <3>1, SlotFacts
    <3>5. Good(1)
      BY <3>1, <3>3, <3>4 DEF Tiled, Apart
    <3> QED
      BY <2>1, <3>5
  <2>2. CASE i # 1
    <3>1. i - 1 \in 1..n - 1 /\ i - 1 \in 1..n /\ i - 1 # 0 /\ (i - 1) + 1 = i
      BY <1>2, <2>2
    <3>2. PICK m, s, d : m = k[i - 1] /\ s = q[i] /\ d = q[i - 1]
      OBVIOUS
    <3>3. Tiled(m, End(d)) /\ Apart(m) /\ m[Len(m)].size >= d.size
      BY <1>5, <3>1, <3>2
    <3>4. /\ s \in SlotType /\ d \in SlotType /\ End(d) = s.start /\ d.size > 0 /\ Whole(s.start)
          /\ ~Free(s) => s.size = ReserveLen
      BY <1>2, <3>1, <3>2
    <3>5. m[Len(m)].size > 0
      <4>1. m[Len(m)] \in SlotType
        BY <3>3 DEF Tiled
      <4>2. m[Len(m)].size \in Nat /\ d.size \in Nat
        BY <3>4, <4>1, SlotFacts
      <4> QED
        BY <3>3, <3>4, <4>2
    <3>6. k[i] = Joined(m, s)
      BY <1>3, <3>2
    <3>7. Tiled(k[i], End(s)) /\ Apart(k[i]) /\ k[i][Len(k[i])].size >= s.size
      BY <3>3, <3>4, <3>5, <3>6, JoinedTiles
    <3> QED
      BY <3>2, <3>7
  <2> QED
    BY <2>1, <2>2
<1> HIDE DEF T
<1>6. 0..n \subseteq T
  BY <1>2, <1>4, <1>5, InductionUpTo
<1>7. n \in 0..n
  BY <1>2
<1>8. Good(n)
  BY <1>2, <1>6, <1>7 DEF T
<1> QED
  BY <1>2, <1>3, <1>8

LEMMA ReleaseKeeps == ASSUME ContiguousInv, NEW o \in Owners, Release(o) PROVE ContiguousInv'
<1>1. PICK q : q = [i \in DOMAIN slots |->
                      IF slots[i].owner = o THEN [slots[i] EXCEPT !.owner = NoOwner] ELSE slots[i]]
  OBVIOUS
<1>2. PICK n : n = Len(slots)
  OBVIOUS
<1>3. /\ slots' = Coalesced(q)
      /\ n \in Nat \ {0} /\ slots \in Seq(SlotType) /\ \A i \in 1..n : slots[i] \in SlotType
      /\ slots[1].start = 0 /\ End(slots[n]) = Capacity
      /\ \A i \in 1..n - 1 : End(slots[i]) = slots[i + 1].start /\ slots[i].size > 0
      /\ \A i \in 1..n : Whole(slots[i].start) /\ (~Free(slots[i]) => slots[i].size = ReserveLen)
  BY <1>1, <1>2 DEF Release, ContiguousInv, Tiled
<1>4. ASSUME NEW i \in 1..n
      PROVE  /\ q[i] \in SlotType /\ q[i].start = slots[i].start /\ q[i].size = slots[i].size
             /\ End(q[i]) = End(slots[i]) /\ (~Free(q[i]) => ~Free(slots[i]))
  <2>1. q[i] = IF slots[i].owner = o THEN [slots[i] EXCEPT !.owner = NoOwner] ELSE slots[i]
    BY <1>1, <1>2, <1>3
  <2>2. slots[i] \in SlotType
    BY <1>3
  <2>3. /\ q[i] \in SlotType /\ q[i].start = slots[i].start /\ q[i].size = slots[i].size
        /\ q[i] # slots[i] => q[i].owner = NoOwner
    BY <2>1, <2>2 DEF SlotType
  <2> QED
    BY <2>3 DEF End, Free
<1>5. q \in Seq(SlotType) /\ Len(q) = n /\ q # <<>>
  <2>1. q = [i \in 1..n |-> q[i]]
    BY <1>1, <1>2, <1>3
  <2>2. q \in Seq(SlotType) /\ Len(q) = n
    BY <1>3, <1>4, <2>1
  <2> QED
    BY <1>3, <2>2
<1>6. Tiled(q, Capacity)
  <2>1. 1 \in 1..n /\ n \in 1..n
    BY <1>3
  <2>2. \A i \in 1..n - 1 : i \in 1..n /\ i + 1 \in 1..n
    BY <1>3
  <2>3. q[1].start = 0 /\ End(q[n]) = Capacity
    BY <1>3, <1>4, <2>1
  <2>4. \A i \in 1..n - 1 : End(q[i]) = q[i + 1].start /\ q[i].size > 0
    BY <1>3, <1>4, <2>2
  <2>5. \A i \in 1..n : Whole(q[i].start) /\ (~Free(q[i]) => q[i].size = ReserveLen)
    BY <1>3, <1>4
  <2> QED
    BY <1>5, <2>3, <2>4, <2>5 DEF Tiled
<1> QED
  BY <1>3, <1>6, CoalescedTiles DEF ContiguousInv

\* The first slot that fits.
LEMMA FirstFit ==
  ASSUME ContiguousInv
  PROVE  \/ /\ Fit = 0
            /\ \A i \in 1..Len(slots) : ~(Free(slots[i]) /\ slots[i].size >= ReserveLen)
         \/ Fit \in 1..Len(slots) /\ Free(slots[Fit]) /\ slots[Fit].size >= ReserveLen
<1> DEFINE I == {i \in 1..Len(slots) : Free(slots[i]) /\ slots[i].size >= ReserveLen}
<1>1. Len(slots) \in Nat /\ I \subseteq Nat
  BY DEF ContiguousInv, Tiled
<1>2. Fit = IF I # {} THEN Min(I) ELSE 0
  BY DEF Fit, SelectInSeq
<1>3. CASE I = {}
  BY <1>1, <1>2, <1>3
<1>4. CASE I # {}
  <2>1. PICK i \in I : \A j \in I : i <= j
    BY <1>1, <1>4, LeastElement
  <2>2. Min(I) \in I
    BY <2>1 DEF Min
  <2> QED
    BY <1>2, <1>4, <2>2
<1> QED
  BY <1>3, <1>4

\* The reservation takes the front of the slot, what is left stays behind it.
LEMMA AllocateKeeps == ASSUME ContiguousInv, NEW o \in Owners, Allocate(o) PROVE ContiguousInv'
<1>1. PICK n : n = Len(slots)
  OBVIOUS
<1>2. /\ n \in Nat \ {0} /\ slots \in Seq(SlotType) /\ slots # <<>> /\ \A i \in 1..n : slots[i] \in SlotType
      /\ slots[1].start = 0 /\ End(slots[n]) = Capacity
      /\ \A i \in 1..n - 1 : End(slots[i]) = slots[i + 1].start /\ slots[i].size > 0
      /\ \A i \in 1..n : Whole(slots[i].start) /\ (~Free(slots[i]) => slots[i].size = ReserveLen)
      /\ \A i \in 1..n - 1 : ~(Free(slots[i]) /\ Free(slots[i + 1]))
  BY <1>1 DEF ContiguousInv, Tiled, Apart
<1>3. CASE Fit = 0
  BY <1>3 DEF Allocate, ContiguousInv
<1>4. CASE Fit # 0
  <2>1. PICK p \in 1..n : p = Fit /\ Free(slots[p]) /\ slots[p].size >= ReserveLen
    BY <1>1, <1>4, FirstFit
  <2>2. PICK s \in SlotType : s = slots[p]
    BY <1>2
  <2>3. PICK mine, rest : /\ mine = Slot(s.start, ReserveLen, o)
                          /\ rest = Slot(s.start + ReserveLen, s.size - ReserveLen, NoOwner)
    OBVIOUS
  <2>4. slots' = ReplaceAt(IF s.size > ReserveLen THEN InsertAt(slots, p + 1, rest) ELSE slots, p, mine)
    BY <1>4, <2>1, <2>2, <2>3 DEF Allocate
  <2>5. /\ s.start \in Nat /\ s.size \in Nat /\ s.size >= ReserveLen /\ ReserveLen \in Nat \ {0}
        /\ Whole(s.start) /\ Whole(s.start + ReserveLen) /\ o # NoOwner
    BY <1>2, <2>1, <2>2, SlotFacts, WholeFacts, ContiguousAssumption
  <2>6. /\ mine \in SlotType /\ mine.start = s.start /\ mine.size = ReserveLen /\ mine.owner = o
        /\ ~Free(mine) /\ End(mine) = s.start + ReserveLen
    <3>1. mine \in SlotType /\ mine.start = s.start /\ mine.size = ReserveLen /\ mine.owner = o
      BY <2>3, <2>5, SlotIsTyped
    <3> QED
      BY <2>5, <3>1 DEF Free, End
  <2>7. CASE ~(s.size > ReserveLen)
    <3>1. slots' = [slots EXCEPT ![p] = mine]
      BY <2>4, <2>7 DEF ReplaceAt
    <3>2. /\ slots' \in Seq(SlotType) /\ Len(slots') = n /\ slots' # <<>> /\ slots'[p] = mine
          /\ \A i \in 1..n : i # p => slots'[i] = slots[i]
      BY <1>1, <1>2, <2>6, <3>1
    <3>3. End(mine) = End(slots[p]) /\ mine.start = slots[p].start
      BY <2>2, <2>5, <2>6, <2>7 DEF End
    <3>4. ASSUME NEW i \in 1..n
          PROVE  /\ slots'[i].start = slots[i].start /\ End(slots'[i]) = End(slots[i])
                 /\ ~Free(slots'[i]) => slots'[i].size = ReserveLen
                 /\ Free(slots'[i]) => Free(slots[i])
                 /\ slots[i].size > 0 => slots'[i].size > 0
      <4>1. CASE i = p
        BY <2>5, <2>6, <3>2, <3>3, <4>1
      <4>2. CASE i # p
        BY <1>2, <3>2, <4>2
      <4> QED
        BY <4>1, <4>2
    <3>5. \A i \in 1..n - 1 : i \in 1..n /\ i + 1 \in 1..n
      BY <1>2
    <3>6. 1 \in 1..n /\ n \in 1..n
      BY <1>2
    <3>7. slots'[1].start = 0 /\ End(slots'[n]) = Capacity
      BY <1>2, <3>4, <3>6
    <3>8. \A i \in 1..n - 1 : End(slots'[i]) = slots'[i + 1].start /\ slots'[i].size > 0
      BY <1>2, <3>4, <3>5
    <3>9. \A i \in 1..n : Whole(slots'[i].start) /\ (~Free(slots'[i]) => slots'[i].size = ReserveLen)
      BY <1>2, <3>4
    <3>10. \A i \in 1..n - 1 : ~(Free(slots'[i]) /\ Free(slots'[i + 1]))
      BY <1>2, <3>4, <3>5
    <3> QED
      BY <3>2, <3>7, <3>8, <3>9, <3>10 DEF ContiguousInv, Tiled, Apart
  <2>8. CASE s.size > ReserveLen
    <3>1. /\ rest \in SlotType /\ rest.start = s.start + ReserveLen /\ rest.size = s.size - ReserveLen
          /\ rest.size > 0 /\ Free(rest) /\ End(rest) = End(s)
      <4>1. s.start + ReserveLen \in Nat /\ s.size - ReserveLen \in Nat /\ s.size - ReserveLen > 0
        BY <2>5, <2>8
      <4>2. /\ rest \in SlotType /\ rest.start = s.start + ReserveLen /\ rest.size = s.size - ReserveLen
            /\ rest.owner = NoOwner
        BY <2>3, <4>1, SlotIsTyped
      <4> QED
        BY <2>5, <4>1, <4>2 DEF Free, End
    <3>2. slots' = [InsertAt(slots, p + 1, rest) EXCEPT ![p] = mine]
      BY <2>4, <2>8 DEF ReplaceAt
    <3>3. PICK u : u = InsertAt(slots, p + 1, rest)
      OBVIOUS
    <3>4. /\ u \in Seq(SlotType) /\ Len(u) = n + 1
          /\ \A i \in 1..p : u[i] = slots[i]
          /\ u[p + 1] = rest
          /\ \A i \in (p + 2)..(n + 1) : u[i] = slots[i - 1]
      <4>1. PICK l, r : l = SubSeq(slots, 1, p) /\ r = SubSeq(slots, p + 1, n)
        OBVIOUS
      <4>2. u = l \o <<rest>> \o r
        <5>1. (p + 1) - 1 = p
          BY <1>2
        <5> QED
          BY <1>1, <3>3, <4>1, <5>1 DEF InsertAt
      <4>3. l \in Seq(SlotType) /\ Len(l) = p /\ \A i \in 1..p : l[i] = slots[i]
        BY <1>1, <1>2, <4>1
      <4>4. r \in Seq(SlotType) /\ Len(r) = n - p /\ \A i \in 1..n - p : r[i] = slots[p + i]
        <5>1. r \in Seq(SlotType)
          BY <1>1, <1>2, <4>1
        <5>2. Len(r) = n - p
          BY <1>1, <1>2, <4>1
        <5>3. \A i \in 1..n - p : r[i] = slots[p + i]
          BY <1>1, <1>2, <4>1
        <5> QED
          BY <5>1, <5>2, <5>3
      <4>5. PICK v : v = l \o <<rest>>
        OBVIOUS
      <4>6. v \in Seq(SlotType) /\ Len(v) = p + 1 /\ v[p + 1] = rest /\ \A i \in 1..p : v[i] = slots[i]
        BY <1>2, <3>1, <4>3, <4>5
      <4>7. u = v \o r
        BY <4>2, <4>5
      <4>8. u \in Seq(SlotType) /\ Len(u) = n + 1
        <5>1. u \in Seq(SlotType)
          <6>1. v \in Seq(SlotType) /\ r \in Seq(SlotType)
            BY <4>4, <4>6
          <6>2. v \o r \in Seq(SlotType)
            BY <6>1, ConcatOfQueues
          <6> QED
            BY <4>7, <6>2
        <5>2. Len(u) = Len(v) + Len(r)
          <6>1. v \in Seq(SlotType) /\ r \in Seq(SlotType)
            BY <4>4, <4>6
          <6>2. Len(v \o r) = Len(v) + Len(r)
            BY <6>1, ConcatOfQueues
          <6> QED
            BY <4>7, <6>2
        <5>3. (p + 1) + (n - p) = n + 1
          BY <1>2
        <5> QED
          BY <4>4, <4>6, <5>1, <5>2, <5>3
      <4>9. \A i \in 1..p + 1 : u[i] = v[i]
        BY <1>2, <4>4, <4>6, <4>7
      <4>10. ASSUME NEW i \in (p + 2)..(n + 1) PROVE u[i] = slots[i - 1]
        <5>1. /\ i - (p + 1) \in 1..n - p /\ p + (i - (p + 1)) = i - 1
              /\ i \in 1..(n + 1) /\ i > p + 1
          BY <1>2
        <5>2. u[i] = r[i - (p + 1)]
          <6>1. Len(v) = p + 1 /\ v \in Seq(SlotType) /\ r \in Seq(SlotType)
            BY <4>4, <4>6
          <6>2. i \in 1..Len(v) + Len(r) /\ i > Len(v)
            BY <1>2, <4>4, <5>1, <6>1
          <6>3. (v \o r)[i] = r[i - Len(v)]
            BY <6>1, <6>2
          <6> QED
            BY <4>7, <6>1, <6>3
        <5> QED
          BY <4>4, <5>1, <5>2
      <4> QED
        BY <1>2, <4>6, <4>8, <4>9, <4>10
    <3>5. /\ slots' \in Seq(SlotType) /\ Len(slots') = n + 1 /\ slots' # <<>>
          /\ slots'[p] = mine /\ slots'[p + 1] = rest
          /\ \A i \in 1..p - 1 : slots'[i] = slots[i]
          /\ \A i \in (p + 2)..(n + 1) : slots'[i] = slots[i - 1]
      <4>1. p \in 1..n + 1
        BY <1>2
      <4>2. slots' = [u EXCEPT ![p] = mine]
        BY <3>2, <3>3
      <4>3. /\ slots' \in Seq(SlotType) /\ Len(slots') = n + 1 /\ slots'[p] = mine
            /\ \A i \in 1..n + 1 : i # p => slots'[i] = u[i]
        BY <1>2, <2>6, <3>4, <4>1, <4>2
      <4>4. slots' # <<>>
        BY <1>2, <4>3
      <4>5. /\ \A i \in 1..p - 1 : i \in 1..n + 1 /\ i # p /\ i \in 1..p
            /\ \A i \in (p + 2)..(n + 1) : i \in 1..n + 1 /\ i # p
            /\ p + 1 \in 1..n + 1 /\ p + 1 # p
        BY <1>2
      <4> QED
        BY <3>4, <4>3, <4>4, <4>5
    <3>6. slots'[1].start = 0
      <4>1. CASE p = 1
        BY <1>2, <2>2, <2>6, <3>5, <4>1
      <4>2. CASE p # 1
        BY <1>2, <3>5, <4>2
      <4> QED
        BY <4>1, <4>2
    <3>7. End(slots'[n + 1]) = Capacity
      <4>1. CASE p = n
        BY <1>2, <2>2, <3>1, <3>5, <4>1
      <4>2. CASE p # n
        <5>1. n + 1 \in (p + 2)..(n + 1) /\ (n + 1) - 1 = n
          BY <1>2, <4>2
        <5> QED
          BY <1>2, <3>5, <5>1
      <4> QED
        BY <4>1, <4>2
    <3>8. ASSUME NEW i \in 1..(n + 1) - 1
          PROVE  End(slots'[i]) = slots'[i + 1].start /\ slots'[i].size > 0 /\ ~(Free(slots'[i]) /\ Free(slots'[i + 1]))
      <4>1. CASE i < p - 1
        <5>1. i \in 1..p - 1 /\ i + 1 \in 1..p - 1 /\ i \in 1..n - 1
          BY <1>2, <4>1
        <5> QED
          BY <1>2, <3>5, <5>1
      <4>2. CASE i = p - 1
        <5>1. i \in 1..p - 1 /\ i + 1 = p /\ i \in 1..n - 1
          BY <1>2, <4>2
        <5> QED
          BY <1>2, <2>2, <2>6, <3>5, <5>1
      <4>3. CASE i = p
        BY <2>5, <2>6, <3>1, <3>5, <4>3
      <4>4. CASE i = p + 1
        <5>1. i + 1 \in (p + 2)..(n + 1) /\ (i + 1) - 1 = p + 1 /\ p \in 1..n - 1
          BY <1>2, <4>4
        <5>2. slots'[i] = rest /\ slots'[i + 1] = slots[p + 1]
          BY <3>5, <4>4, <5>1
        <5> QED
          BY <1>2, <2>1, <2>2, <3>1, <5>1, <5>2
      <4>5. CASE i > p + 1
        <5>1. /\ i \in (p + 2)..(n + 1) /\ i + 1 \in (p + 2)..(n + 1) /\ (i + 1) - 1 = i
              /\ i - 1 \in 1..n - 1 /\ (i - 1) + 1 = i
          BY <1>2, <4>5
        <5>2. slots'[i] = slots[i - 1] /\ slots'[i + 1] = slots[(i + 1) - 1]
          BY <3>5, <5>1
        <5>3. slots'[i] = slots[i - 1] /\ slots'[i + 1] = slots[(i - 1) + 1]
          BY <5>1, <5>2
        <5> QED
          BY <1>2, <5>1, <5>3
      <4> QED
        BY <1>2, <4>1, <4>2, <4>3, <4>4, <4>5
    <3>9. ASSUME NEW i \in 1..n + 1
          PROVE  Whole(slots'[i].start) /\ (~Free(slots'[i]) => slots'[i].size = ReserveLen)
      <4>1. CASE i < p
        <5>1. i \in 1..p - 1 /\ i \in 1..n
          BY <1>2, <4>1
        <5> QED
          BY <1>2, <3>5, <5>1
      <4>2. CASE i = p
        BY <2>5, <2>6, <3>5, <4>2
      <4>3. CASE i = p + 1
        BY <2>5, <3>1, <3>5, <4>3
      <4>4. CASE i > p + 1
        <5>1. i \in (p + 2)..(n + 1) /\ i - 1 \in 1..n
          BY <1>2, <4>4
        <5> QED
          BY <1>2, <3>5, <5>1
      <4> QED
        BY <1>2, <4>1, <4>2, <4>3, <4>4
    <3> QED
      BY <3>5, <3>6, <3>7, <3>8, <3>9 DEF ContiguousInv, Tiled, Apart
  <2> QED
    BY <2>5, <2>7, <2>8
<1> QED
  BY <1>3, <1>4

\* When nothing fits, every slot but the last is taken, and so the free memory
\* is that of the last.
LEMMA NothingFits ==
  ASSUME ContiguousInv, Fit = 0
  PROVE  FreeTokens < ReserveLen
<1>1. PICK n : n = Len(slots)
  OBVIOUS
<1>2. /\ n \in Nat \ {0} /\ slots \in Seq(SlotType) /\ \A i \in 1..n : slots[i] \in SlotType
      /\ slots[1].start = 0 /\ End(slots[n]) = Capacity
      /\ \A i \in 1..n - 1 : End(slots[i]) = slots[i + 1].start /\ slots[i].size > 0
      /\ \A i \in 1..n : Whole(slots[i].start) /\ (~Free(slots[i]) => slots[i].size = ReserveLen)
  BY <1>1 DEF ContiguousInv, Tiled
<1>3. /\ ReserveLen \in Nat \ {0} /\ Capacity \in Nat
      /\ \A i \in 1..n : ~(Free(slots[i]) /\ slots[i].size >= ReserveLen)
  BY <1>1, FirstFit, ContiguousAssumption
<1>4. ASSUME NEW i \in 1..n - 1 PROVE ~Free(slots[i]) /\ slots[i].size = ReserveLen
  <2>1. i \in 1..n /\ i + 1 \in 1..n
    BY <1>2
  <2>2. PICK a, b, c : a = slots[i].start /\ b = slots[i].size /\ c = slots[i + 1].start
    OBVIOUS
  <2>3. a \in Nat /\ b \in Nat /\ c \in Nat /\ a + b = c /\ b > 0 /\ Whole(a) /\ Whole(c)
    BY <1>2, <2>1, <2>2, SlotFacts DEF End
  <2>4. c - a >= ReserveLen
    BY <2>3, WholeFacts
  <2>5. b >= ReserveLen
    BY <1>3, <2>3, <2>4
  <2> QED
    BY <1>2, <1>3, <2>1, <2>2, <2>5
<1>5. \A i \in 0..n : i # 0 => slots[i].start = (i - 1) * ReserveLen
  <2> DEFINE T == {i \in 0..n : i # 0 => slots[i].start = (i - 1) * ReserveLen}
  <2>1. 0 \in T
    BY <1>2
  <2>2. ASSUME NEW i \in 1..n, i - 1 \in T PROVE i \in T
    <3>1. CASE i = 1
      <4>1. (1 - 1) * ReserveLen = 0
        BY <1>3
      <4> QED
        BY <1>2, <3>1, <4>1
    <3>2. CASE i # 1
      <4>1. i - 1 \in 1..n - 1 /\ i - 1 # 0 /\ (i - 1) + 1 = i
        BY <1>2, <3>2
      <4>2. /\ slots[i - 1].start = ((i - 1) - 1) * ReserveLen
            /\ slots[i - 1].size = ReserveLen /\ End(slots[i - 1]) = slots[i].start
        BY <1>2, <1>4, <2>2, <4>1
      <4>3. ((i - 1) - 1) * ReserveLen + ReserveLen = (i - 1) * ReserveLen
        BY <1>3
      <4> QED
        BY <4>2, <4>3 DEF End
    <3> QED
      BY <3>1, <3>2
  <2> HIDE DEF T
  <2>3. 0..n \subseteq T
    BY <1>2, <2>1, <2>2, InductionUpTo
  <2> QED
    BY <2>3 DEF T
<1>6. PICK owned : owned = {i \in DOMAIN slots : ~Free(slots[i])}
  OBVIOUS
<1>7. DOMAIN slots = 1..n
  BY <1>1, <1>2
<1>8. PICK a, b : a = slots[n].size /\ b = (n - 1) * ReserveLen
  OBVIOUS
<1>9. a \in Nat /\ b \in Nat /\ b + a = Capacity
  <2>1. n \in 1..n /\ n \in 0..n /\ n # 0
    BY <1>2
  <2>2. slots[n].start = b /\ slots[n].start \in Nat /\ a \in Nat
    BY <1>2, <1>5, <1>8, <2>1, SlotFacts
  <2> QED
    BY <1>2, <1>8, <2>2 DEF End
<1>10. CASE Free(slots[n])
  <2>1. owned = 1..n - 1
    <3>1. \A i \in 1..n : i # n => i \in 1..n - 1
      BY <1>2
    <3>2. \A i \in 1..n - 1 : i \in 1..n /\ i # n
      BY <1>2
    <3> QED
      BY <1>4, <1>6, <1>7, <1>10, <3>1, <3>2
  <2>2. Cardinality(owned) = n - 1
    BY <1>2, <2>1, FS_Interval
  <2>3. FreeTokens = Capacity - ReserveLen * (n - 1)
    BY <1>6, <2>2 DEF FreeTokens
  <2>4. ReserveLen * (n - 1) = b
    BY <1>2, <1>3, <1>8
  <2>5. a < ReserveLen
    <3>1. n \in 1..n
      BY <1>2
    <3> QED
      BY <1>3, <1>8, <1>9, <1>10, <3>1
  <2> QED
    BY <1>3, <1>9, <2>3, <2>4, <2>5
<1>11. CASE ~Free(slots[n])
  <2>1. n \in 1..n /\ \A i \in 1..n : i # n => i \in 1..n - 1
    BY <1>2
  <2>2. owned = 1..n
    BY <1>4, <1>6, <1>7, <1>11, <2>1
  <2>3. Cardinality(owned) = n
    BY <1>2, <2>2, FS_Interval
  <2>4. FreeTokens = Capacity - ReserveLen * n
    BY <1>6, <2>3 DEF FreeTokens
  <2>5. a = ReserveLen
    BY <1>2, <1>8, <1>11, <2>1
  <2>6. ReserveLen * n = b + ReserveLen
    BY <1>2, <1>3, <1>8
  <2> QED
    BY <1>3, <1>9, <2>4, <2>5, <2>6
<1> QED
  BY <1>10, <1>11

\* The contiguous allocator's slots tile the memory, no two free ones side by
\* side, and it rejects a sequence only when less than a reservation is free in
\* all: with reservations of one size there is no external fragmentation.
THEOREM ContiguousReservations == ContiguousSpec => ReservationsSound
<1>1. ContiguousInit => ContiguousInv
  <2> SUFFICES ASSUME ContiguousInit PROVE ContiguousInv
    OBVIOUS
  <2>1. PICK s \in SlotType : s = Slot(0, Capacity, NoOwner) /\ s.start = 0 /\ s.size = Capacity /\ s.owner = NoOwner
    BY SlotIsTyped, ContiguousAssumption
  <2>2. slots = <<s>>
    BY <2>1 DEF ContiguousInit
  <2>3. slots \in Seq(SlotType) /\ Len(slots) = 1 /\ slots # <<>> /\ slots[1] = s
    BY <2>2
  <2>4. End(s) = Capacity /\ Free(s) /\ Whole(s.start)
    BY <2>1, WholeFacts, ContiguousAssumption DEF End, Free
  <2> QED
    BY <2>1, <2>3, <2>4 DEF ContiguousInv, Tiled, Apart
<1>2. ASSUME ContiguousInv, [ContiguousNext]_slotVars
      PROVE  ContiguousInv' /\ [rejections' # rejections => FreeTokens < ReserveLen]_slotVars
  <2>1. CASE UNCHANGED slotVars
    BY <1>2, <2>1 DEF slotVars, ContiguousInv
  <2>2. ASSUME NEW o \in Owners, Allocate(o)
        PROVE  ContiguousInv' /\ (rejections' # rejections => FreeTokens < ReserveLen)
    <3>1. rejections' # rejections => Fit = 0
      BY <2>2 DEF Allocate
    <3> QED
      BY <1>2, <2>2, <3>1, AllocateKeeps, NothingFits
  <2>3. ASSUME NEW o \in Owners, Release(o)
        PROVE  ContiguousInv' /\ rejections' = rejections
    BY <1>2, <2>3, ReleaseKeeps DEF Release
  <2> QED
    BY <1>2, <2>1, <2>2, <2>3 DEF ContiguousNext
<1>3. ContiguousInv => SlotsTile
  <2> SUFFICES ASSUME ContiguousInv PROVE SlotsTile
    OBVIOUS
  <2>1. Tiled(slots, Capacity) /\ Apart(slots) /\ DOMAIN slots = 1..Len(slots)
    BY DEF ContiguousInv, Tiled
  <2> QED
    BY <2>1 DEF Tiled, Apart, SlotsTile, End, Last
<1> QED
  BY <1>1, <1>2, <1>3, PTL DEF ContiguousSpec, ReservationsSound, RejectedOnlyWhenFull

-----------------------------------------------------------------------------
(***************************************************************************)
(* The operator's tools: the dashboard's rate, the monitor's preemption    *)
(* alert, and the acceptance shown by the watch of speculative decoding.   *)
(***************************************************************************)
\* The sum over two disjoint sets is the sum of the sums.
LEMMA SumSplits ==
  ASSUME NEW S, NEW f, Summable(f, S), NEW A \in SUBSET S
  PROVE  /\ SumFunctionOnSet(f, A) \in Nat /\ SumFunctionOnSet(f, S \ A) \in Nat
         /\ SumFunctionOnSet(f, S) = SumFunctionOnSet(f, A) + SumFunctionOnSet(f, S \ A)
<1> DEFINE m == Cardinality(S)
           M == {n \in 0..m : \A B \in SUBSET (S \ A) : Cardinality(B) = n =>
                   SumFunctionOnSet(f, A \cup B) = SumFunctionOnSet(f, A) + SumFunctionOnSet(f, B)}
<1>0. IsFiniteSet(S) /\ m \in Nat
  BY FS_CardinalityType DEF Summable
<1>1. \A T \in SUBSET S : Summable(f, T) /\ SumFunctionOnSet(f, T) \in Nat
  <2>1. \A T \in SUBSET S : Summable(f, T)
    BY FS_Subset DEF Summable
  <2> QED
    BY <2>1, SumOverSet
<1>2. \A T \in SUBSET S : /\ Cardinality(T) \in 0..m /\ (Cardinality(T) = 0 <=> T = {})
                          /\ \A x \in T : Cardinality(T \ {x}) = Cardinality(T) - 1
  <2> SUFFICES ASSUME NEW T \in SUBSET S
               PROVE  /\ Cardinality(T) \in 0..m /\ (Cardinality(T) = 0 <=> T = {})
                      /\ \A x \in T : Cardinality(T \ {x}) = Cardinality(T) - 1
    OBVIOUS
  <2>1. Cardinality(T) <= m
    BY <1>0, FS_Subset
  <2> QED
    BY <1>0, <2>1, SmallerSets
<1> HIDE DEF m
<1>3. 0 \in M
  <2>1. ASSUME NEW B \in SUBSET (S \ A), Cardinality(B) = 0
        PROVE  SumFunctionOnSet(f, A \cup B) = SumFunctionOnSet(f, A) + SumFunctionOnSet(f, B)
    <3>1. B = {} /\ A \cup B = A
      BY <1>2, <2>1
    <3>2. SumFunctionOnSet(f, B) = 0 /\ SumFunctionOnSet(f, A) \in Nat
      BY <1>1, <3>1, SumOverSet
    <3> QED
      BY <3>1, <3>2
  <2> QED
    BY <1>0, <2>1
<1>4. ASSUME NEW n \in 1..m, n - 1 \in M PROVE n \in M
  <2>1. ASSUME NEW B \in SUBSET (S \ A), Cardinality(B) = n
        PROVE  SumFunctionOnSet(f, A \cup B) = SumFunctionOnSet(f, A) + SumFunctionOnSet(f, B)
    <3>1. PICK x \in B : TRUE
      BY <1>0, <1>2, <2>1
    <3>2. PICK C : C = B \ {x}
      OBVIOUS
    <3>3. /\ C \in SUBSET (S \ A) /\ Cardinality(C) = n - 1 /\ (A \cup B) \ {x} = A \cup C
          /\ A \cup B \in SUBSET S /\ x \in A \cup B /\ x \in S
      BY <1>2, <2>1, <3>1, <3>2
    <3>4. SumFunctionOnSet(f, A \cup C) = SumFunctionOnSet(f, A) + SumFunctionOnSet(f, C)
      BY <1>4, <3>3
    <3>5. /\ SumFunctionOnSet(f, A \cup B) = f[x] + SumFunctionOnSet(f, A \cup C)
          /\ SumFunctionOnSet(f, B) = f[x] + SumFunctionOnSet(f, C)
      <4>1. Summable(f, A \cup B) /\ Summable(f, B) /\ x \in A \cup B /\ x \in B
        BY <1>1, <3>1, <3>3
      <4>2. /\ SumFunctionOnSet(f, A \cup B) = f[x] + SumFunctionOnSet(f, (A \cup B) \ {x})
            /\ SumFunctionOnSet(f, B) = f[x] + SumFunctionOnSet(f, B \ {x})
        BY <4>1, SumWithout
      <4> QED
        BY <3>2, <3>3, <4>2
    <3>6. /\ f[x] \in Nat /\ SumFunctionOnSet(f, A) \in Nat /\ SumFunctionOnSet(f, C) \in Nat
      BY <1>1, <3>3 DEF Summable
    <3> QED
      BY <3>4, <3>5, <3>6
  <2> QED
    BY <2>1
<1>5. 0..m \subseteq M
  <2> HIDE DEF M
  <2> QED
    BY <1>0, <1>3, <1>4, InductionUpTo
<1>6. Cardinality(S \ A) \in M
  BY <1>2, <1>5
<1>7. A \cup (S \ A) = S
  OBVIOUS
<1> QED
  BY <1>1, <1>6, <1>7

\* A sum in which one addend changes.
LEMMA SumChangedAt ==
  ASSUME NEW S, NEW f, NEW g, Summable(f, S), Summable(g, S), NEW x,
         \A y \in S \ {x} : g[y] = f[y]
  PROVE  IF x \in S THEN SumFunctionOnSet(g, S) + f[x] = SumFunctionOnSet(f, S) + g[x]
         ELSE SumFunctionOnSet(g, S) = SumFunctionOnSet(f, S)
<1>1. CASE x \in S
  <2>1. Summable(f, S \ {x})
    BY FS_Subset DEF Summable
  <2>2. /\ SumFunctionOnSet(f, S) = f[x] + SumFunctionOnSet(f, S \ {x})
        /\ SumFunctionOnSet(g, S) = g[x] + SumFunctionOnSet(g, S \ {x})
        /\ SumFunctionOnSet(g, S \ {x}) = SumFunctionOnSet(f, S \ {x})
        /\ SumFunctionOnSet(f, S \ {x}) \in Nat
    <3>1. /\ SumFunctionOnSet(f, S) = f[x] + SumFunctionOnSet(f, S \ {x})
          /\ SumFunctionOnSet(g, S) = g[x] + SumFunctionOnSet(g, S \ {x})
      BY <1>1, SumWithout
    <3>2. PICK T : T = S \ {x}
      OBVIOUS
    <3>3. Summable(f, T) /\ \A y \in T : f[y] = g[y]
      BY <2>1, <3>2
    <3>4. SumFunctionOnSet(f, T) = SumFunctionOnSet(g, T) /\ SumFunctionOnSet(f, T) \in Nat
      BY <3>3, SumOverSet
    <3> QED
      BY <3>1, <3>2, <3>4
  <2>3. f[x] \in Nat /\ g[x] \in Nat
    BY <1>1 DEF Summable
  <2> QED
    BY <1>1, <2>2, <2>3
<1>2. CASE x \notin S
  BY <1>2, SumOverSet
<1> QED
  BY <1>1, <1>2

Counters == [tokens : Nat, preemptions : Nat]
TokenCounts == [e \in Endpoints |-> counter[e].tokens]
Samples == {[preemptions |-> n, waiting |-> g.waiting, running |-> g.running] : n \in Nat, g \in Gauges}
TelemetryTypeOK ==
  /\ counter \in [Endpoints -> Counters] /\ time \in Nat
  /\ counted \in [value : Nat, t : Nat \cup {-1}]
  /\ history \in Seq(Samples) /\ Len(history) <= History
  /\ produced \in Nat /\ unread \subseteq Endpoints
  /\ incidents \subseteq {"preemption", "restart"}

\* What the endpoints it read have counted since the last poll was produced since.
PollsCovered == counted # Never => TokensOf(Endpoints \ unread) <= counted.value + produced

\* The watched counter against the last sample, by what happened since.
SampleCompares ==
  history # <<>> =>
    LET c == counter[Watched].preemptions
        last == Last(history).preemptions
    IN /\ "restart" \notin incidents => c >= last
       /\ "restart" \notin incidents /\ "preemption" \in incidents => c > last
       /\ "preemption" \notin incidents => c <= last

TelemetryInv == TelemetryTypeOK /\ PollsCovered /\ SampleCompares

LEMMA TokensOfFacts ==
  ASSUME counter \in [Endpoints -> Counters]
  PROVE  /\ \A S \in SUBSET Endpoints : /\ Summable(TokenCounts, S)
                                        /\ TokensOf(S) = SumFunctionOnSet(TokenCounts, S)
                                        /\ TokensOf(S) \in Nat
         /\ \A S, T \in SUBSET Endpoints : TokensOf(S) <= TokensOf(Endpoints \ T) + TokensOf(T)
<1>1. ASSUME NEW S \in SUBSET Endpoints
      PROVE  Summable(TokenCounts, S) /\ TokensOf(S) = SumFunctionOnSet(TokenCounts, S)
  <2>1. IsFiniteSet(S)
    BY TelemetryAssumption, FS_Subset
  <2> QED
    BY <2>1 DEF Summable, TokenCounts, TokensOf, Counters
<1>2. \A S \in SUBSET Endpoints : TokensOf(S) \in Nat
  BY <1>1, SumOverSet
<1>3. ASSUME NEW S \in SUBSET Endpoints, NEW T \in SUBSET Endpoints
      PROVE  TokensOf(S) <= TokensOf(Endpoints \ T) + TokensOf(T)
  <2>1. /\ TokensOf(Endpoints) = TokensOf(S) + TokensOf(Endpoints \ S)
        /\ TokensOf(Endpoints) = TokensOf(T) + TokensOf(Endpoints \ T)
    <3>1. Summable(TokenCounts, Endpoints) /\ TokensOf(Endpoints) = SumFunctionOnSet(TokenCounts, Endpoints)
      BY <1>1
    <3>2. ASSUME NEW A \in SUBSET Endpoints
          PROVE  TokensOf(Endpoints) = TokensOf(A) + TokensOf(Endpoints \ A)
      <4>1. SumFunctionOnSet(TokenCounts, Endpoints)
              = SumFunctionOnSet(TokenCounts, A) + SumFunctionOnSet(TokenCounts, Endpoints \ A)
        BY <3>1, SumSplits
      <4>2. Endpoints \ A \in SUBSET Endpoints
        OBVIOUS
      <4>3. /\ TokensOf(A) = SumFunctionOnSet(TokenCounts, A)
            /\ TokensOf(Endpoints \ A) = SumFunctionOnSet(TokenCounts, Endpoints \ A)
        BY <1>1, <4>2
      <4> QED
        BY <3>1, <4>1, <4>3
    <3> QED
      BY <3>2
  <2>2. /\ TokensOf(S) \in Nat /\ TokensOf(Endpoints \ S) \in Nat
        /\ TokensOf(T) \in Nat /\ TokensOf(Endpoints \ T) \in Nat
    BY <1>2
  <2> QED
    BY <2>1, <2>2
<1> QED
  BY <1>1, <1>2, <1>3

LEMMA ServeKeeps == ASSUME TelemetryInv, Serve PROVE TelemetryInv'
<1>1. TelemetryTypeOK /\ PollsCovered /\ SampleCompares
  BY DEF TelemetryInv
<1>2. UNCHANGED <<time, counted, rate, history, alerts, unread>>
  BY DEF Serve
<1>a. PICK f : f = TokenCounts
  OBVIOUS
<1>b. PICK S : S = Endpoints \ unread
  OBVIOUS
<1>3. /\ S \in SUBSET Endpoints /\ Summable(f, S) /\ SumFunctionOnSet(f, S) = TokensOf(S)
      /\ SumFunctionOnSet(f, S) \in Nat
      /\ counted # Never => SumFunctionOnSet(f, S) <= counted.value + produced
      /\ counted.value \in Nat /\ produced \in Nat
  BY <1>1, <1>a, <1>b, TokensOfFacts DEF TelemetryTypeOK, PollsCovered
\* A change of one counter: the sum, and the comparison with the sample.
<1>4. ASSUME NEW e \in Endpoints, NEW n \in Counters, counter' = [counter EXCEPT ![e] = n],
             n.tokens <= counter[e].tokens + (produced' - produced),
             produced' \in Nat, produced' >= produced
      PROVE  /\ counter' \in [Endpoints -> Counters] /\ PollsCovered'
             /\ counter'[e] = n /\ \A u \in Endpoints \ {e} : counter'[u] = counter[u]
  <2>1. counter' \in [Endpoints -> Counters] /\ counter'[e] = n
        /\ \A u \in Endpoints \ {e} : counter'[u] = counter[u]
    BY <1>1, <1>4 DEF TelemetryTypeOK
  <2>2. PICK g : g = [u \in Endpoints |-> counter'[u].tokens]
    OBVIOUS
  <2>3. /\ Summable(g, S) /\ \A u \in S \ {e} : g[u] = f[u]
        /\ g[e] = n.tokens /\ f[e] = counter[e].tokens
    BY <1>3, <1>a, <2>1, <2>2 DEF Summable, TokenCounts, Counters
  <2>4. SumFunctionOnSet(g, S) \in Nat /\ g[e] \in Nat /\ f[e] \in Nat
    BY <1>1, <2>1, <2>3, SumOverSet DEF TelemetryTypeOK, Counters
  <2>5. IF e \in S THEN SumFunctionOnSet(g, S) + f[e] = SumFunctionOnSet(f, S) + g[e]
        ELSE SumFunctionOnSet(g, S) = SumFunctionOnSet(f, S)
    BY <1>3, <2>3, SumChangedAt
  <2>6. counted # Never => SumFunctionOnSet(g, S) <= counted.value + produced'
    BY <1>3, <1>4, <2>3, <2>4, <2>5
  <2>7. TokensOf(Endpoints \ unread)' = SumFunctionOnSet(g, S)
    BY <1>2, <1>b, <2>2 DEF TokensOf
  <2> QED
    BY <1>2, <2>1, <2>6, <2>7 DEF PollsCovered
<1>5. PICK e \in Endpoints :
        \/ /\ counter' = [counter EXCEPT ![e].tokens = @ + 1]
           /\ produced' = produced + 1 /\ UNCHANGED incidents
        \/ /\ counter' = [counter EXCEPT ![e].preemptions = @ + 1]
           /\ incidents' = (IF e = Watched THEN incidents \cup {"preemption"} ELSE incidents)
           /\ UNCHANGED produced
        \/ /\ counter' = [counter EXCEPT ![e] = [tokens |-> 0, preemptions |-> 0]]
           /\ incidents' = (IF e = Watched THEN incidents \cup {"restart"} ELSE incidents)
           /\ UNCHANGED produced
  BY DEF Serve, ServerCounts
<1>6. counter[e] \in Counters /\ Watched \in Endpoints /\ counter[Watched] \in Counters
  BY <1>1, TelemetryAssumption DEF TelemetryTypeOK
<1>c. PICK a, b : a = counter[e].tokens /\ b = counter[e].preemptions
  OBVIOUS
<1>d. PICK last : last = Last(history).preemptions
  OBVIOUS
<1>7. a \in Nat /\ b \in Nat /\ counter[e] = [tokens |-> a, preemptions |-> b]
  BY <1>6, <1>c DEF Counters
<1>8. history # <<>> => last \in Nat
  <2>1. history \in Seq(Samples)
    BY <1>1 DEF TelemetryTypeOK
  <2>2. history # <<>> => Last(history) \in Samples
    BY <2>1 DEF Last
  <2> QED
    BY <1>d, <2>2 DEF Samples
\* The sample is compared with the counter of the watched endpoint only.
<1>9. ASSUME NEW n \in Counters, counter'[e] = n, \A u \in Endpoints \ {e} : counter'[u] = counter[u],
             e # Watched => incidents' = incidents,
             e = Watched /\ history # <<>> =>
               /\ "restart" \notin incidents' => n.preemptions >= last
               /\ "restart" \notin incidents' /\ "preemption" \in incidents' => n.preemptions > last
               /\ "preemption" \notin incidents' => n.preemptions <= last
      PROVE  SampleCompares'
  <2>1. history' = history
    BY <1>2
  <2>2. CASE e = Watched
    BY <1>9, <1>d, <2>1, <2>2 DEF SampleCompares
  <2>3. CASE e # Watched
    BY <1>1, <1>6, <1>9, <2>1, <2>3 DEF SampleCompares
  <2> QED
    BY <2>2, <2>3
<1>10. e = Watched /\ history # <<>> =>
         /\ "restart" \notin incidents => b >= last
         /\ "restart" \notin incidents /\ "preemption" \in incidents => b > last
         /\ "preemption" \notin incidents => b <= last
  BY <1>1, <1>c, <1>d DEF SampleCompares
<1>11. CASE /\ counter' = [counter EXCEPT ![e].tokens = @ + 1]
            /\ produced' = produced + 1 /\ UNCHANGED incidents
  <2>0. PICK c \in Nat : c = a + 1
    BY <1>7
  <2>1. PICK n \in Counters : n = [tokens |-> c, preemptions |-> b]
    BY <1>7, <2>0 DEF Counters
  <2>a. [counter[e] EXCEPT !.tokens = @ + 1] = [counter[e] EXCEPT !.tokens = c]
    BY <1>7, <1>c, <2>0
  <2>b. [counter[e] EXCEPT !.tokens = c] = n
    BY <1>7, <2>1
  <2>c. [counter EXCEPT ![e].tokens = @ + 1] = [counter EXCEPT ![e] = [counter[e] EXCEPT !.tokens = @ + 1]]
    OBVIOUS
  <2>d. n.tokens = a + 1 /\ n.preemptions = b
    BY <2>0, <2>1
  <2>e. counter' = [counter EXCEPT ![e].tokens = @ + 1]
    BY <1>11
  <2>2. n.tokens = a + 1 /\ n.preemptions = b /\ counter' = [counter EXCEPT ![e] = n]
    BY <2>a, <2>b, <2>c, <2>d, <2>e
  <2>3. /\ counter' \in [Endpoints -> Counters] /\ PollsCovered'
        /\ counter'[e] = n /\ \A u \in Endpoints \ {e} : counter'[u] = counter[u]
    <3>1. /\ n.tokens <= counter[e].tokens + (produced' - produced)
          /\ produced' \in Nat /\ produced' >= produced
      BY <1>3, <1>7, <1>11, <1>c, <2>2
    <3> QED
      BY <1>4, <2>2, <3>1
  <2>4. SampleCompares'
    BY <1>9, <1>10, <1>11, <2>2, <2>3
  <2> QED
    BY <1>1, <1>2, <1>3, <1>11, <2>3, <2>4 DEF TelemetryInv, TelemetryTypeOK
<1>12. CASE /\ counter' = [counter EXCEPT ![e].preemptions = @ + 1]
            /\ incidents' = (IF e = Watched THEN incidents \cup {"preemption"} ELSE incidents)
            /\ UNCHANGED produced
  <2>0. PICK c \in Nat : c = b + 1
    BY <1>7
  <2>1. PICK n \in Counters : n = [tokens |-> a, preemptions |-> c]
    BY <1>7, <2>0 DEF Counters
  <2>a. [counter[e] EXCEPT !.preemptions = @ + 1] = [counter[e] EXCEPT !.preemptions = c]
    BY <1>7, <1>c, <2>0
  <2>b. [counter[e] EXCEPT !.preemptions = c] = n
    BY <1>7, <2>1
  <2>c. [counter EXCEPT ![e].preemptions = @ + 1] = [counter EXCEPT ![e] = [counter[e] EXCEPT !.preemptions = @ + 1]]
    OBVIOUS
  <2>d. n.tokens = a /\ n.preemptions = b + 1
    BY <2>0, <2>1
  <2>e. counter' = [counter EXCEPT ![e].preemptions = @ + 1]
    BY <1>12
  <2>2. n.tokens = a /\ n.preemptions = b + 1 /\ counter' = [counter EXCEPT ![e] = n]
    BY <2>a, <2>b, <2>c, <2>d, <2>e
  <2>3. /\ counter' \in [Endpoints -> Counters] /\ PollsCovered'
        /\ counter'[e] = n /\ \A u \in Endpoints \ {e} : counter'[u] = counter[u]
    <3>1. /\ n.tokens <= counter[e].tokens + (produced' - produced)
          /\ produced' \in Nat /\ produced' >= produced
      BY <1>3, <1>7, <1>12, <1>c, <2>2
    <3> QED
      BY <1>4, <2>2, <3>1
  <2>4. SampleCompares'
    <3>1. e = Watched /\ history # <<>> =>
            /\ "restart" \notin incidents' => n.preemptions > last
            /\ "preemption" \in incidents'
      BY <1>7, <1>8, <1>10, <1>12, <2>2
    <3>2. e # Watched => incidents' = incidents
      BY <1>12
    <3>3. history # <<>> => (n.preemptions > last => n.preemptions >= last)
      BY <1>7, <1>8, <2>2
    <3> QED
      BY <1>9, <2>3, <3>1, <3>2, <3>3
  <2> QED
    BY <1>1, <1>2, <1>3, <1>12, <2>3, <2>4 DEF TelemetryInv, TelemetryTypeOK
<1>13. CASE /\ counter' = [counter EXCEPT ![e] = [tokens |-> 0, preemptions |-> 0]]
            /\ incidents' = (IF e = Watched THEN incidents \cup {"restart"} ELSE incidents)
            /\ UNCHANGED produced
  <2>1. PICK n \in Counters : n = [tokens |-> 0, preemptions |-> 0]
    BY DEF Counters
  <2>2. n.tokens = 0 /\ n.preemptions = 0 /\ counter' = [counter EXCEPT ![e] = n]
    BY <1>13, <2>1
  <2>3. /\ counter' \in [Endpoints -> Counters] /\ PollsCovered'
        /\ counter'[e] = n /\ \A u \in Endpoints \ {e} : counter'[u] = counter[u]
    <3>1. /\ n.tokens <= counter[e].tokens + (produced' - produced)
          /\ produced' \in Nat /\ produced' >= produced
      BY <1>3, <1>7, <1>13, <1>c, <2>2
    <3> QED
      BY <1>4, <2>2, <3>1
  <2>4. SampleCompares'
    <3>1. e = Watched /\ history # <<>> => "restart" \in incidents' /\ n.preemptions <= last
      BY <1>8, <1>13, <2>2
    <3>2. e # Watched => incidents' = incidents
      BY <1>13
    <3> QED
      BY <1>9, <2>3, <3>1, <3>2
  <2> QED
    BY <1>1, <1>2, <1>3, <1>13, <2>3, <2>4 DEF TelemetryInv, TelemetryTypeOK
<1> QED
  BY <1>5, <1>11, <1>12, <1>13

LEMMA TicksKeeps == ASSUME TelemetryInv, Ticks PROVE TelemetryInv'
<1>1. /\ time' = time + 1 /\ UNCHANGED <<counter, counted, rate, history, alerts, produced, unread, incidents>>
      /\ TelemetryTypeOK /\ PollsCovered /\ SampleCompares
  BY DEF Ticks, TelemetryInv
<1>2. TelemetryTypeOK'
  BY <1>1 DEF TelemetryTypeOK
<1>3. PollsCovered' /\ SampleCompares'
  BY <1>1 DEF PollsCovered, SampleCompares, TokensOf
<1> QED
  BY <1>2, <1>3 DEF TelemetryInv

\* A poll either tells nothing new or counts what it read.
LEMMA PollKeeps ==
  ASSUME TelemetryInv, DashboardPoll
  PROVE  /\ TelemetryInv'
         /\ rate' # rate => 0 <= rate'.tokens /\ rate'.tokens <= produced + Recounted
<1>1. TelemetryTypeOK /\ PollsCovered /\ SampleCompares
  BY DEF TelemetryInv
<1>2. PICK down \in SUBSET Endpoints :
        /\ Updated(Scraped(down))
        /\ IF counted' = counted THEN UNCHANGED <<produced, unread>> ELSE produced' = 0 /\ unread' = down
  BY DEF DashboardPoll
<1>3. UNCHANGED <<counter, time, history, alerts, incidents>>
  BY DEF DashboardPoll
<1>4. PICK value : value = Scraped(down)
  OBVIOUS
<1>5. PICK covered, missed : covered = TokensOf(Endpoints \ unread) /\ missed = TokensOf(unread)
  OBVIOUS
<1>6. PICK old, new : old = counted.value /\ new = [value |-> value, t |-> time]
  OBVIOUS
<1>7. /\ value \in Nat /\ covered \in Nat /\ missed \in Nat /\ value <= covered + missed
      /\ value = TokensOf(Endpoints \ down) /\ Recounted = missed
  <2>1. counter \in [Endpoints -> Counters] /\ unread \in SUBSET Endpoints
    BY <1>1 DEF TelemetryTypeOK
  <2>2. Endpoints \ down \in SUBSET Endpoints /\ Endpoints \ unread \in SUBSET Endpoints
    OBVIOUS
  <2> QED
    BY <2>1, <2>2, <1>4, <1>5, TokensOfFacts DEF Scraped, Recounted
<1>8. /\ old \in Nat /\ produced \in Nat /\ time \in Nat
      /\ counted # Never => covered <= old + produced
  BY <1>1, <1>5, <1>6 DEF TelemetryTypeOK, PollsCovered
<1>9. \/ counted' = counted /\ rate' = rate
      \/ counted' = new /\ rate' = rate
      \/ counted' = new /\ counted # Never /\ ~(value < old) /\ rate'.tokens = value - old
  <2>1. time <= counted.t \/ time > counted.t
    BY <1>1, <1>8 DEF TelemetryTypeOK
  <2>2. Updated(value)
    BY <1>2, <1>4
  <2>3. \/ counted' = counted /\ rate' = rate
        \/ counted' = new /\ rate' = rate
        \/ /\ counted' = new /\ counted # Never /\ ~(value < old)
           /\ rate' = [tokens |-> value - old, seconds |-> time - counted.t]
    BY <1>6, <2>1, <2>2 DEF Updated, IsReset
  <2> QED
    BY <2>3
<1>10. new \in [value : Nat, t : Nat \cup {-1}] /\ new.value = value
  BY <1>6, <1>7, <1>8
<1>11. TelemetryTypeOK'
  <2>1. counted' \in [value : Nat, t : Nat \cup {-1}]
    BY <1>1, <1>9, <1>10 DEF TelemetryTypeOK
  <2>2. produced' \in Nat /\ unread' \subseteq Endpoints
    BY <1>1, <1>2 DEF TelemetryTypeOK
  <2> QED
    BY <1>1, <1>3, <2>1, <2>2 DEF TelemetryTypeOK
<1>12. PollsCovered'
  <2>1. CASE counted' = counted
    <3>1. produced' = produced /\ unread' = unread
      BY <1>2, <2>1
    <3> QED
      BY <1>1, <1>3, <2>1, <3>1 DEF PollsCovered, TokensOf
  <2>2. CASE counted' # counted
    <3>1. produced' = 0 /\ unread' = down /\ counted'.value = value
      BY <1>2, <1>9, <1>10, <2>2
    <3>2. TokensOf(Endpoints \ unread)' = TokensOf(Endpoints \ down)
      BY <1>3, <3>1 DEF TokensOf
    <3>3. value <= value + 0
      BY <1>7
    <3> QED
      BY <1>7, <3>1, <3>2, <3>3 DEF PollsCovered
  <2> QED
    BY <2>1, <2>2
<1>13. SampleCompares'
  BY <1>1, <1>3 DEF SampleCompares
<1>14. rate' # rate => 0 <= rate'.tokens /\ rate'.tokens <= produced + Recounted
  BY <1>7, <1>8, <1>9
<1> QED
  BY <1>11, <1>12, <1>13, <1>14 DEF TelemetryInv

\* The history after a scrape: the new sample stands next to the last one.
LEMMA ScrapedHistory ==
  ASSUME NEW samples \in Seq(Samples), Len(samples) <= History, NEW s \in Samples, NEW k,
         k = Append(IF Len(samples) = History THEN Tail(samples) ELSE samples, s)
  PROVE  /\ k \in Seq(Samples) /\ Len(k) <= History /\ Len(k) \in Nat
         /\ k # <<>> /\ Last(k) = s
         /\ Len(k) >= 2 <=> samples # <<>>
         /\ samples # <<>> => k[Len(k) - 1] = Last(samples)
<1>1. History \in Nat /\ History >= 2 /\ Len(samples) \in Nat /\ (samples = <<>> <=> Len(samples) = 0)
  BY TelemetryAssumption
<1>2. PICK t : t = IF Len(samples) = History THEN Tail(samples) ELSE samples
  OBVIOUS
<1>3. /\ t \in Seq(Samples) /\ Len(t) \in Nat /\ Len(t) < History
      /\ Len(t) = 0 <=> samples = <<>>
      /\ samples # <<>> => t[Len(t)] = samples[Len(samples)]
  <2>1. CASE Len(samples) = History
    <3>1. t = Tail(samples) /\ samples # <<>>
      BY <1>1, <1>2, <2>1
    <3>2. /\ t \in Seq(Samples) /\ Len(t) = Len(samples) - 1
          /\ \A i \in 1..Len(samples) - 1 : t[i] = samples[i + 1]
      BY <1>1, <3>1
    <3>3. Len(samples) - 1 \in 1..Len(samples) - 1 /\ (Len(samples) - 1) + 1 = Len(samples)
      BY <1>1, <2>1
    <3>4. t[Len(t)] = samples[Len(samples)]
      BY <3>2, <3>3
    <3> QED
      BY <1>1, <2>1, <3>1, <3>2, <3>4
  <2>2. CASE Len(samples) # History
    BY <1>1, <1>2, <2>2
  <2> QED
    BY <2>1, <2>2
<1>4. /\ k = Append(t, s) /\ k \in Seq(Samples) /\ Len(k) = Len(t) + 1 /\ k[Len(k)] = s
      /\ \A i \in 1..Len(t) : k[i] = t[i]
  BY <1>2, <1>3
<1>5. samples # <<>> => k[Len(k) - 1] = Last(samples)
  <2>1. SUFFICES ASSUME samples # <<>> PROVE k[Len(k) - 1] = Last(samples)
    OBVIOUS
  <2>2. Len(t) \in 1..Len(t) /\ Len(k) - 1 = Len(t)
    BY <1>3, <1>4, <2>1
  <2> QED
    BY <1>3, <1>4, <2>1, <2>2 DEF Last
<1> QED
  BY <1>1, <1>3, <1>4, <1>5 DEF Last

LEMMA ScrapeKeeps ==
  ASSUME TelemetryInv, Scrape
  PROVE  /\ TelemetryInv'
         /\ history # <<>> /\ incidents = {"preemption"} => "preempt" \in alerts'
         /\ "preempt" \in alerts' \ alerts => "preemption" \in incidents
<1>1. TelemetryTypeOK /\ PollsCovered /\ SampleCompares
  BY DEF TelemetryInv
<1>2. incidents' = {} /\ UNCHANGED <<counter, time, counted, rate, produced, unread>>
  BY DEF Scrape
<1>3. PICK g \in Gauges :
        /\ history' = Append(IF Len(history) = History THEN Tail(history) ELSE history,
                             [preemptions |-> counter[Watched].preemptions,
                              waiting |-> g.waiting, running |-> g.running])
        /\ alerts' = alerts \cup Fired(history', g)
  BY DEF Scrape
<1>4. PICK c : c = counter[Watched].preemptions
  OBVIOUS
<1>5. PICK last : last = Last(history).preemptions
  OBVIOUS
<1>6. c \in Nat
  <2>1. counter[Watched] \in Counters
    BY <1>1, TelemetryAssumption DEF TelemetryTypeOK
  <2> QED
    BY <1>4, <2>1 DEF Counters
<1>7. PICK s \in Samples : s = [preemptions |-> c, waiting |-> g.waiting, running |-> g.running]
  <2>1. [preemptions |-> c, waiting |-> g.waiting, running |-> g.running] \in Samples
    BY <1>6 DEF Samples
  <2> QED
    BY <2>1
<1>8. s.preemptions = c
  BY <1>7
<1>9. /\ history' \in Seq(Samples) /\ Len(history') <= History /\ Len(history') \in Nat
      /\ history' # <<>> /\ Last(history') = s
      /\ Len(history') >= 2 <=> history # <<>>
      /\ history # <<>> => history'[Len(history') - 1] = Last(history)
  <2>1. history \in Seq(Samples) /\ Len(history) <= History
    BY <1>1 DEF TelemetryTypeOK
  <2>2. history' = Append(IF Len(history) = History THEN Tail(history) ELSE history, s)
    BY <1>3, <1>4, <1>7
  <2> QED
    BY <2>1, <2>2, ScrapedHistory
<1>10. history # <<>> => last \in Nat
  <2>1. history \in Seq(Samples)
    BY <1>1 DEF TelemetryTypeOK
  <2>2. history # <<>> => Last(history) \in Samples
    BY <2>1 DEF Last
  <2> QED
    BY <1>5, <2>2 DEF Samples
<1>11. TelemetryTypeOK'
  BY <1>1, <1>2, <1>9 DEF TelemetryTypeOK
<1>12. PollsCovered'
  BY <1>1, <1>2 DEF PollsCovered, TokensOf
<1>13. SampleCompares'
  BY <1>2, <1>4, <1>6, <1>8, <1>9 DEF SampleCompares
<1>14. "preempt" \in Fired(history', g) <=> history # <<>> /\ c > last
  <2>1. "preempt" \in Fired(history', g) <=> PreemptionRises(history')
    BY DEF Fired
  <2> QED
    BY <1>5, <1>8, <1>9, <2>1 DEF PreemptionRises
<1>15. history # <<>> =>
         /\ "restart" \notin incidents /\ "preemption" \in incidents => c > last
         /\ "preemption" \notin incidents => c <= last
  BY <1>1, <1>4, <1>5 DEF SampleCompares
<1>16. history # <<>> /\ incidents = {"preemption"} => "preempt" \in alerts'
  BY <1>3, <1>14, <1>15
<1>17. "preempt" \in alerts' \ alerts => "preemption" \in incidents
  <2>1. "preempt" \in alerts' \ alerts => history # <<>> /\ c > last
    BY <1>3, <1>14
  <2>2. history # <<>> /\ c > last => ~(c <= last)
    BY <1>6, <1>10
  <2> QED
    BY <1>15, <2>1, <2>2
<1> QED
  BY <1>11, <1>12, <1>13, <1>16, <1>17 DEF TelemetryInv

\* The invariant behind the rate and the preemption alert: the counters of the
\* endpoints the last poll read are covered by what it counted and what was
\* produced since, and the watched counter compares with the last sample as
\* what happened since says.
THEOREM TelemetryInvariant == TelemetrySpec => []TelemetryInv
<1>1. TelemetryInit => TelemetryInv
  <2> SUFFICES ASSUME TelemetryInit PROVE TelemetryInv
    OBVIOUS
  <2>1. TelemetryTypeOK
    <3>1. counter = [e \in Endpoints |-> [tokens |-> 0, preemptions |-> 0]] /\ counted = [value |-> 0, t |-> -1]
      BY DEF TelemetryInit, Never
    <3>2. counter \in [Endpoints -> Counters]
      BY <3>1 DEF Counters
    <3>3. counted \in [value : Nat, t : Nat \cup {-1}]
      BY <3>1
    <3>4. history = <<>> /\ history \in Seq(Samples) /\ Len(history) <= History
      BY TelemetryAssumption DEF TelemetryInit
    <3> QED
      BY <3>2, <3>3, <3>4 DEF TelemetryInit, TelemetryTypeOK
  <2>2. PollsCovered /\ SampleCompares
    BY DEF TelemetryInit, PollsCovered, SampleCompares
  <2> QED
    BY <2>1, <2>2 DEF TelemetryInv
<1>2. ASSUME TelemetryInv, [TelemetryNext]_telemetryVars PROVE TelemetryInv'
  <2>1. CASE UNCHANGED telemetryVars
    <3>1. UNCHANGED <<counter, time, counted, history, produced, unread, incidents>>
      BY <2>1 DEF telemetryVars
    <3> QED
      BY <1>2, <3>1 DEF TelemetryInv, TelemetryTypeOK, PollsCovered, SampleCompares, TokensOf
  <2> QED
    BY <1>2, <2>1, ServeKeeps, TicksKeeps, PollKeeps, ScrapeKeeps DEF TelemetryNext
<1> QED
  BY <1>1, <1>2, PTL DEF TelemetrySpec

\* Drafts are counted since the scrape before, but for a restart.
WatchInv ==
  /\ drafted \in Nat /\ accepted \in Nat
  /\ prev = NoScrape \/ (prev.draft \in Nat /\ prev.acc \in Nat)
  /\ window \in [draft : Nat, acc : Nat, restarted : BOOLEAN]
  /\ ~window.restarted /\ prev # NoScrape =>
       drafted = prev.draft + window.draft /\ accepted = prev.acc + window.acc

LEMMA WatchStep ==
  ASSUME WatchInv, [WatchNext]_watchVars
  PROVE  /\ WatchInv'
         /\ alpha' # alpha /\ ~window.restarted =>
              alpha' = [draft |-> window.draft, acc |-> window.acc]
<1>1. PICK w, v, k : w = window.draft /\ v = window.acc /\ k = DraftTokens
  OBVIOUS
<1>2. /\ w \in Nat /\ v \in Nat /\ k \in Nat /\ drafted \in Nat /\ accepted \in Nat
      /\ window.restarted \in BOOLEAN
      /\ prev = NoScrape \/ (prev.draft \in Nat /\ prev.acc \in Nat)
      /\ ~window.restarted /\ prev # NoScrape => drafted = prev.draft + w /\ accepted = prev.acc + v
  BY <1>1, SpecWatchAssumption DEF WatchInv
<1>3. CASE UNCHANGED watchVars \/ NotSpeculating
  <2>1. UNCHANGED <<drafted, accepted, prev, alpha, window>>
    BY <1>3 DEF watchVars, NotSpeculating
  <2> QED
    BY <2>1 DEF WatchInv
<1>4. CASE VerifyDraft
  <2>1. PICK a \in 0..k :
          /\ accepted' = accepted + a
          /\ window' = [window EXCEPT !.draft = @ + DraftTokens, !.acc = @ + a]
    BY <1>1, <1>4 DEF VerifyDraft
  <2>2. drafted' = drafted + k /\ UNCHANGED <<prev, alpha>>
    BY <1>1, <1>4 DEF VerifyDraft
  <2>3. PICK x \in Nat, y \in Nat : x = w + k /\ y = v + a
    BY <1>2, <2>1
  <2>4. window' = [draft |-> x, acc |-> y, restarted |-> window.restarted]
    <3>1. window \in [draft : Nat, acc : Nat, restarted : BOOLEAN]
      BY DEF WatchInv
    <3>2. window' = [window EXCEPT !.draft = x, !.acc = y]
      BY <1>1, <2>1, <2>3
    <3> QED
      BY <3>1, <3>2
  <2>5. window'.draft = x /\ window'.acc = y /\ window'.restarted = window.restarted
    BY <2>4
  <2>6. drafted' \in Nat /\ accepted' \in Nat
    BY <1>2, <2>1, <2>2
  <2>7. ~window.restarted /\ prev # NoScrape =>
          drafted' = prev.draft + x /\ accepted' = prev.acc + y
    BY <1>2, <2>1, <2>2, <2>3 DEF NoScrape
  <2>8. window' \in [draft : Nat, acc : Nat, restarted : BOOLEAN]
    BY <1>2, <2>4
  <2> QED
    BY <1>2, <2>2, <2>5, <2>6, <2>7, <2>8 DEF WatchInv, NoScrape
<1>5. CASE Restart
  <2>1. /\ drafted' = 0 /\ accepted' = 0 /\ window' = [window EXCEPT !.restarted = TRUE]
        /\ UNCHANGED <<prev, alpha>>
    BY <1>5 DEF Restart
  <2>2. window' \in [draft : Nat, acc : Nat, restarted : BOOLEAN] /\ window'.restarted
    BY <2>1 DEF WatchInv
  <2> QED
    BY <2>1, <2>2 DEF WatchInv, NoScrape
<1>6. CASE ScrapeDrafts
  <2>1. /\ alpha' = (IF Since(drafted, prev.draft) # 0
                     THEN [draft |-> Since(drafted, prev.draft), acc |-> Since(accepted, prev.acc)] ELSE alpha)
        /\ prev' = [draft |-> drafted, acc |-> accepted]
        /\ window' = [draft |-> 0, acc |-> 0, restarted |-> FALSE]
        /\ UNCHANGED <<drafted, accepted>>
    BY <1>6 DEF ScrapeDrafts
  <2>2. /\ prev'.draft = drafted /\ prev'.acc = accepted
        /\ window'.draft = 0 /\ window'.acc = 0 /\ ~window'.restarted
        /\ window' \in [draft : Nat, acc : Nat, restarted : BOOLEAN]
    BY <2>1
  <2>3. WatchInv'
    <3>1. drafted = drafted + 0 /\ accepted = accepted + 0
      BY <1>2
    <3> QED
      BY <1>2, <2>1, <2>2, <3>1 DEF WatchInv, NoScrape
  <2>4. prev = NoScrape => Since(drafted, prev.draft) = 0
    BY <1>2 DEF Since, NoScrape
  <2>5. ~window.restarted /\ prev # NoScrape =>
          Since(drafted, prev.draft) = w /\ Since(accepted, prev.acc) = v
    BY <1>2 DEF Since
  <2> QED
    BY <1>1, <2>1, <2>3, <2>4, <2>5
<1> QED
  BY <1>3, <1>4, <1>5, <1>6 DEF WatchNext

\* What the tools show of a server is what it did, whatever is restarted or not
\* reached between two looks: the dashboard's rate, the preemption alert of the
\* KV monitor, and the acceptance of the watch (ToolsAreHonest).
THEOREM ToolsShowWhatHappened == TelemetrySpec /\ WatchSpec => ToolsAreHonest
<1>1. ASSUME TelemetryInv, [TelemetryNext]_telemetryVars
      PROVE  /\ [rate' # rate => 0 <= rate'.tokens /\ rate'.tokens <= produced + Recounted]_<<counter, time, counted, rate, unread>>
             /\ [/\ (history' # history /\ history # <<>> /\ incidents = {"preemption"}) => "preempt" \in alerts'
                 /\ ("preempt" \in alerts' \ alerts) => "preemption" \in incidents]_<<history, alerts>>
  <2>1. CASE DashboardPoll
    <3>1. UNCHANGED <<history, alerts>>
      BY <2>1 DEF DashboardPoll
    <3> QED
      BY <1>1, <2>1, <3>1, PollKeeps
  <2>2. CASE Scrape
    <3>1. UNCHANGED <<counter, time, counted, rate, unread>>
      BY <2>2 DEF Scrape
    <3> QED
      BY <1>1, <2>2, <3>1, ScrapeKeeps
  <2>3. CASE Serve \/ Ticks \/ UNCHANGED telemetryVars
    <3>1. UNCHANGED rate /\ UNCHANGED <<history, alerts>>
      BY <2>3 DEF Serve, Ticks, telemetryVars
    <3> QED
      BY <3>1
  <2> QED
    BY <1>1, <2>1, <2>2, <2>3 DEF TelemetryNext
<1>2. TelemetrySpec => ReportsWhatHappened
  BY <1>1, TelemetryInvariant, PTL DEF TelemetrySpec, ReportsWhatHappened, RateIsHonest, PreemptionAlerted
<1>3. WatchInit => WatchInv
  <2> SUFFICES ASSUME WatchInit PROVE WatchInv
    OBVIOUS
  <2>1. drafted \in Nat /\ accepted \in 0..drafted /\ prev = NoScrape
        /\ window = [draft |-> 0, acc |-> 0, restarted |-> FALSE]
    BY SpecWatchAssumption DEF WatchInit
  <2>2. accepted \in Nat
    BY <2>1
  <2> QED
    BY <2>1, <2>2 DEF WatchInv
<1>4. ASSUME WatchInv, [WatchNext]_watchVars
      PROVE  WatchInv' /\ [alpha' # alpha /\ ~window.restarted =>
                             alpha' = [draft |-> window.draft, acc |-> window.acc]]_<<alpha, window>>
  BY <1>4, WatchStep
<1>5. WatchSpec => AcceptanceIsHonest
  BY <1>3, <1>4, PTL DEF WatchSpec, AcceptanceIsHonest
<1> QED
  BY <1>2, <1>5 DEF ToolsAreHonest
-----------------------------------------------------------------------------
(***************************************************************************)
(* What a client of the mock server receives, for any requests, ids, batch *)
(* and interleaving of handlers, resets and engine steps.                  *)
(*                                                                         *)
(* The program finds a Pending by an id that nothing makes unique.  While  *)
(* the entry of a request that came with a fresh id is its own, no other   *)
(* sequence of the simulator has the id (SoleUser), so what _drain counts  *)
(* in seen is what that client was given (Delivered); once the entry is    *)
(* another's or gone, nothing is given to it any more.                     *)
(***************************************************************************)
\* The entry of an id is a request that carries it and still waits.
NamedByOwner ==
  \A i \in Ids : pending[i] # Nobody =>
    /\ id_of[pending[i]] = i
    /\ h[pending[i]] \in Waiting \cup {"opening", "unstarted"}

\* A request that was not accepted has nothing.
NotEntered ==
  \A r \in Seqs : h[r] \in {"new", "refused"} =>
    /\ status[r] = "out" /\ r \notin first_use
    /\ queue[r] = 0 /\ got[r] = 0 /\ ~done[r]

\* The engine gives no more than what was asked for, and finishes with it.
Produced ==
  /\ \A s \in Seqs : generated[s] <= want[s]
  /\ \A s \in Seqs : status[s] = "finished" => generated[s] = want[s]
  /\ \A k \in DOMAIN finished : status[finished[k]] = "finished"

\* While a fresh id is registered, nobody else has it in the simulator.
SoleUser ==
  \A r \in first_use : pending[id_of[r]] = r =>
    \A s \in Seqs : id_of[s] = id_of[r] /\ s # r => status[s] \in {"out", "dropped"}

\* What a request with a fresh id was given so far.
HandedOut(r) == got[r] + queue[r]
Delivered ==
  \A r \in first_use :
    /\ HandedOut(r) <= want[r]
    /\ pending[id_of[r]] = r => seen[id_of[r]] = HandedOut(r)
    /\ done[r] => HandedOut(r) = want[r]
    /\ h[r] = "answered" => got[r] = want[r]

\* Finished sequences whose handler does not know it yet: after a step they are
\* among the last ones, as many at most as have left the batch.
Unaware ==
  {k \in DOMAIN finished : LET p == pending[id_of[finished[k]]]
                           IN p = finished[k] /\ ~done[p]}
LookedBack ==
  /\ IsFiniteSet(Running) /\ Cardinality(Running) <= MaxNumSeqs
  /\ MaxNumSeqs <= Window =>
       /\ loop \in {"idle", "step"} => Unaware = {}
       /\ loop \in {"emitted", "sleep"} =>
            \E n \in Nat : /\ n + Cardinality(Running) <= MaxNumSeqs
                           /\ \A k \in Unaware : k > Len(finished) - n

ServerInv ==
  ServerTypeOK /\ NamedByOwner /\ NotEntered /\ Produced /\ SoleUser /\ Delivered /\ LookedBack

-----------------------------------------------------------------------------
(***************************************************************************)
(* One pass of _drain over a list of sequences.                            *)
(***************************************************************************)
Accs == [queue : [Seqs -> Nat], seen : [Ids -> Nat], done : SUBSET Seqs]
Start == [queue |-> queue, seen |-> seen, done |-> {s \in Seqs : done[s]}]

\* One iteration keeps the types.
LEMMA DrainOneType ==
  ASSUME ServerTypeOK, NEW acc \in Accs, NEW s \in Seqs
  PROVE  DrainOne(acc, s) \in Accs
<1> DEFINE i == id_of[s]
           p == pending[i]
           new == IF generated[s] > acc.seen[i] THEN generated[s] - acc.seen[i] ELSE 0
<1>1. i \in Ids /\ p \in Seqs \cup {Nobody}
  BY DEF ServerTypeOK
<1>2. acc.seen[i] \in Nat /\ generated[s] \in Nat /\ new \in Nat
  <2>1. acc.seen[i] \in Nat
    BY <1>1 DEF Accs
  <2>2. generated[s] \in Nat
    BY DEF ServerTypeOK
  <2> QED
    BY <2>1, <2>2
<1>3. /\ p = Nobody => DrainOne(acc, s) = acc
      /\ p # Nobody =>
           DrainOne(acc, s) =
             [queue |-> [acc.queue EXCEPT ![p] = @ + new],
              seen |-> [acc.seen EXCEPT ![i] = @ + new],
              done |-> IF generated[s] >= want[s] THEN acc.done \cup {p} ELSE acc.done]
  BY DEF DrainOne
<1> HIDE DEF new, p, i
<1>4. CASE p # Nobody
  <2>1. p \in Seqs /\ acc.queue \in [Seqs -> Nat] /\ acc.seen \in [Ids -> Nat]
        /\ acc.done \subseteq Seqs
    BY <1>1, <1>4 DEF Accs
  <2>2. /\ [acc.queue EXCEPT ![p] = @ + new] \in [Seqs -> Nat]
        /\ [acc.seen EXCEPT ![i] = @ + new] \in [Ids -> Nat]
    BY <1>1, <1>2, <2>1
  <2> QED
    BY <1>3, <1>4, <2>1, <2>2 DEF Accs
<1> QED
  BY <1>3, <1>4

\* Drained as it is computed, one sequence at a time.
DrainSteps(k, order) ==
  /\ k \in [0..Len(order) -> Accs]
  /\ k[0] = Start
  /\ \A j \in 1..Len(order) : k[j] = DrainOne(k[j - 1], order[j])
  /\ Drained(order) = k[Len(order)]

LEMMA DrainedByElement ==
  ASSUME ServerTypeOK, NEW order \in Seq(Seqs)
  PROVE  \E k : DrainSteps(k, order)
<1> DEFINE n == Len(order)
           G == [p \in (1..n) \X Accs |-> DrainOne(p[2], order[p[1]])]
           Eq(k) == k = [j \in 0..n |-> IF j = 0 THEN Start ELSE DrainOne(k[j - 1], order[j])]
<1>1. n \in Nat /\ Start \in Accs
  BY DEF Start, Accs, ServerTypeOK
<1>2. G \in [(1..n) \X Accs -> Accs]
  <2>1. ASSUME NEW p \in (1..n) \X Accs
        PROVE  DrainOne(p[2], order[p[1]]) \in Accs
    <3>1. p[1] \in 1..n /\ p[2] \in Accs /\ order[p[1]] \in Seqs
      BY <2>1
    <3> QED
      BY <3>1, DrainOneType
  <2> QED
    BY <2>1
<1>3. \A p \in (1..n) \X Accs : G[p] = DrainOne(p[2], order[p[1]])
  OBVIOUS
<1>4. Drained(order) = (CHOOSE g : Eq(g))[n]
  BY DEF Drained, Start
<1> HIDE DEF n, G
<1>5. PICK f : f \in [0..n -> Accs] /\ f[0] = Start /\ \A j \in 1..n : f[j] = G[<<j, f[j - 1]>>]
  <2>1. PICK f : Iterates(f, n, Accs, Start, G)
    BY <1>1, <1>2, IterationExists
  <2> QED
    BY <2>1 DEF Iterates
<1>6. \A j \in 1..n : f[j] = DrainOne(f[j - 1], order[j])
  <2>1. ASSUME NEW j \in 1..n PROVE f[j] = DrainOne(f[j - 1], order[j])
    <3>1. j - 1 \in 0..n /\ f[j - 1] \in Accs
      BY <1>1, <1>5
    <3>2. <<j, f[j - 1]>> \in (1..n) \X Accs
      BY <3>1
    <3> QED
      BY <1>3, <1>5, <3>2
  <2> QED
    BY <2>1
<1>7. Eq(f)
  <2>1. ASSUME NEW j \in 0..n
        PROVE  f[j] = IF j = 0 THEN Start ELSE DrainOne(f[j - 1], order[j])
    <3>1. j # 0 => j \in 1..n
      BY <1>1
    <3> QED
      BY <1>5, <1>6, <3>1
  <2> QED
    BY <1>5, <2>1
<1> DEFINE k == CHOOSE g : Eq(g)
<1>8. Eq(k)
  BY <1>7
<1>9. Drained(order) = k[n]
  BY <1>4
<1> HIDE DEF k
<1>10. k[0] = Start /\ DOMAIN k = 0..n /\ k = [j \in 0..n |-> k[j]]
  BY <1>1, <1>8
<1>11. ASSUME NEW j \in 1..n PROVE k[j] = DrainOne(k[j - 1], order[j])
  <2>1. j \in 0..n /\ j # 0
    BY <1>1
  <2> QED
    BY <1>8, <2>1
<1>12. \A j \in 0..n : k[j] \in Accs
  <2> DEFINE T == {j \in 0..n : k[j] = f[j]}
  <2>1. 0 \in T
    BY <1>1, <1>5, <1>10
  <2>2. ASSUME NEW j \in 1..n, j - 1 \in T PROVE j \in T
    BY <1>1, <1>6, <1>11, <2>2
  <2> HIDE DEF T
  <2>3. 0..n \subseteq T
    BY <1>1, <2>1, <2>2, InductionUpTo
  <2> QED
    BY <1>5, <2>3 DEF T
<1>13. k \in [0..n -> Accs]
  BY <1>10, <1>12
<1> QED
  BY <1>9, <1>10, <1>11, <1>13 DEF DrainSteps, n

\* What a pass has done so far: nothing to those who are not registered, and
\* to those with a fresh id exactly what seen says.
Drains(acc) ==
  /\ \A r \in Seqs : done[r] => r \in acc.done
  /\ \A r \in Seqs : pending[id_of[r]] # r =>
       acc.queue[r] = queue[r] /\ (r \in acc.done => done[r])
  /\ \A r \in first_use : pending[id_of[r]] = r =>
       /\ acc.seen[id_of[r]] = got[r] + acc.queue[r]
       /\ acc.seen[id_of[r]] <= want[r]
       /\ r \in acc.done => acc.seen[id_of[r]] = want[r]
\* One iteration gives its sequence's new tokens to whoever is registered.
LEMMA DrainOneDrains ==
  ASSUME ServerInv, NEW acc \in Accs, Drains(acc),
         NEW s \in Seqs, status[s] \in {"running", "finished"}
  PROVE  /\ Drains(DrainOne(acc, s))
         /\ acc.done \subseteq DrainOne(acc, s).done
         /\ pending[id_of[s]] = s /\ generated[s] >= want[s] => s \in DrainOne(acc, s).done
<1> DEFINE i == id_of[s]
           p == pending[i]
           new == IF generated[s] > acc.seen[i] THEN generated[s] - acc.seen[i] ELSE 0
           next == DrainOne(acc, s)
<1>1. /\ i \in Ids /\ p \in Seqs \cup {Nobody} /\ id_of \in [Seqs -> Ids]
      /\ p # Nobody => id_of[p] = i
      /\ first_use \subseteq Seqs /\ Nobody \notin Seqs
  BY ServerAssumption DEF ServerInv, ServerTypeOK, NamedByOwner
<1>2. /\ acc.seen[i] \in Nat /\ generated[s] \in Nat /\ want[s] \in Nat /\ new \in Nat
      /\ generated[s] <= want[s]
  BY <1>1 DEF ServerInv, ServerTypeOK, Accs, Produced
<1>3. /\ p = Nobody => next = acc
      /\ p # Nobody =>
           next = [queue |-> [acc.queue EXCEPT ![p] = @ + new],
                   seen |-> [acc.seen EXCEPT ![i] = @ + new],
                   done |-> IF generated[s] >= want[s] THEN acc.done \cup {p} ELSE acc.done]
  BY DEF DrainOne
<1>4. CASE p = Nobody
  BY <1>1, <1>3, <1>4
<1>5. CASE p # Nobody
  <2>1. acc.queue \in [Seqs -> Nat] /\ acc.seen \in [Ids -> Nat] /\ acc.done \subseteq Seqs
        /\ got \in [Seqs -> Nat] /\ p \in Seqs
    BY <1>1, <1>5 DEF Accs, ServerInv, ServerTypeOK
  <2>2. \A r \in Seqs : r # p => next.queue[r] = acc.queue[r]
    BY <1>3, <1>5, <2>1
  <2>3. next.queue[p] = acc.queue[p] + new
    BY <1>3, <1>5, <2>1
  <2>4. /\ next.seen[i] = acc.seen[i] + new
        /\ \A j \in Ids : j # i => next.seen[j] = acc.seen[j]
    BY <1>1, <1>3, <1>5, <2>1
  <2>5. /\ next.done \subseteq acc.done \cup {p} /\ acc.done \subseteq next.done
        /\ generated[s] >= want[s] => p \in next.done
        /\ generated[s] < want[s] => next.done = acc.done
    BY <1>2, <1>3, <1>5
  <2> HIDE DEF new, next
  <2>6. ASSUME NEW r \in Seqs, pending[id_of[r]] # r
        PROVE  next.queue[r] = queue[r] /\ (r \in next.done => done[r])
    <3>1. r # p
      BY <1>1, <1>5, <2>6
    <3> QED
      BY <2>2, <2>5, <2>6, <3>1 DEF Drains
  <2>7. ASSUME NEW r \in first_use, pending[id_of[r]] = r
        PROVE  /\ next.seen[id_of[r]] = got[r] + next.queue[r]
               /\ next.seen[id_of[r]] <= want[r]
               /\ r \in next.done => next.seen[id_of[r]] = want[r]
    <3>1. /\ acc.seen[id_of[r]] = got[r] + acc.queue[r]
          /\ acc.seen[id_of[r]] <= want[r]
          /\ r \in acc.done => acc.seen[id_of[r]] = want[r]
      BY <2>7 DEF Drains
    <3>2. CASE r # p
      <4>1. id_of[r] # i /\ id_of[r] \in Ids /\ r \in Seqs
        BY <1>1, <2>7, <3>2
      <4> QED
        BY <2>2, <2>4, <2>5, <3>1, <3>2, <4>1
    <3>3. CASE r = p
      <4>1. s = r /\ i = id_of[r]
        <5>1. i = id_of[r]
          BY <1>1, <1>5, <3>3
        <5> QED
          BY <2>7, <5>1 DEF ServerInv, SoleUser
      <4>2. new = IF generated[r] > acc.seen[i] THEN generated[r] - acc.seen[i] ELSE 0
        BY <4>1 DEF new
      <4>3. /\ next.seen[i] = acc.seen[i] + new
            /\ next.queue[r] = acc.queue[r] + new
            /\ acc.queue[r] \in Nat /\ got[r] \in Nat
        BY <2>1, <2>3, <2>4, <3>3
      <4>4. PICK a, b, g, w, o : a = acc.seen[i] /\ b = acc.queue[r] /\ g = generated[r] /\ w = want[r] /\ o = got[r]
        OBVIOUS
      <4>5. /\ a \in Nat /\ b \in Nat /\ g \in Nat /\ w \in Nat /\ o \in Nat /\ new \in Nat
            /\ g <= w /\ a = o + b /\ a <= w /\ (r \in acc.done => a = w)
            /\ new = IF g > a THEN g - a ELSE 0
        BY <1>2, <3>1, <4>1, <4>2, <4>3, <4>4
      <4>6. a + new = o + (b + new) /\ a + new <= w /\ (g >= w \/ a = w => a + new = w)
        BY <4>5
      <4>7. r \in next.done => g >= w \/ a = w
        <5>1. generated[s] < want[s] \/ generated[s] >= want[s]
          BY <1>2
        <5> QED
          BY <2>5, <4>1, <4>4, <4>5, <5>1
      <4>8. /\ next.seen[id_of[r]] = a + new /\ next.queue[r] = b + new
            /\ got[r] = o /\ want[r] = w
        BY <4>1, <4>3, <4>4
      <4> QED
        BY <4>6, <4>7, <4>8
    <3> QED
      BY <3>2, <3>3
  <2>8. \A r \in Seqs : done[r] => r \in next.done
    BY <2>5 DEF Drains
  <2>9. p = s /\ generated[s] >= want[s] => s \in next.done
    BY <2>5
  <2> QED
    BY <2>5, <2>6, <2>7, <2>8, <2>9 DEF Drains, next
<1> QED
  BY <1>4, <1>5

\* A whole pass over sequences of the batch and finished ones.
LEMMA DrainedDrains ==
  ASSUME ServerInv, NEW order \in Seq(Seqs),
         \A j \in DOMAIN order : status[order[j]] \in {"running", "finished"}
  PROVE  /\ Drained(order) \in Accs /\ Drains(Drained(order))
         /\ \A j \in DOMAIN order :
              pending[id_of[order[j]]] = order[j] /\ generated[order[j]] >= want[order[j]]
                => order[j] \in Drained(order).done
<1> DEFINE n == Len(order)
<1>0. n \in Nat /\ DOMAIN order = 1..n /\ ServerTypeOK
  BY DEF ServerInv
<1>1. PICK k : DrainSteps(k, order)
  BY <1>0, DrainedByElement
<1> DEFINE T == {j \in 0..n : /\ Drains(k[j])
                              /\ \A m \in 1..j :
                                   pending[id_of[order[m]]] = order[m]
                                     /\ generated[order[m]] >= want[order[m]]
                                     => order[m] \in k[j].done}
<1>2. 0 \in T
  <2>1. k[0] = Start
    BY <1>1 DEF DrainSteps
  <2>2. Drains(Start)
    <3>1. \A r \in first_use : pending[id_of[r]] = r =>
            /\ seen[id_of[r]] = got[r] + queue[r]
            /\ seen[id_of[r]] <= want[r]
            /\ done[r] => seen[id_of[r]] = want[r]
      BY DEF ServerInv, Delivered, HandedOut
    <3> QED
      BY <3>1 DEF Drains, Start
  <2> QED
    BY <1>0, <2>1, <2>2
<1>3. ASSUME NEW j \in 1..n, j - 1 \in T PROVE j \in T
  <2>1. /\ k[j] = DrainOne(k[j - 1], order[j]) /\ k[j - 1] \in Accs
        /\ order[j] \in Seqs /\ status[order[j]] \in {"running", "finished"}
    <3>1. j - 1 \in 0..n
      BY <1>0
    <3> QED
      BY <1>0, <1>1, <3>1 DEF DrainSteps
  <2>2. Drains(k[j - 1])
    BY <1>3
  <2>3. /\ Drains(k[j]) /\ k[j - 1].done \subseteq k[j].done
        /\ pending[id_of[order[j]]] = order[j] /\ generated[order[j]] >= want[order[j]]
             => order[j] \in k[j].done
    BY <2>1, <2>2, DrainOneDrains
  <2>4. \A m \in 1..j : m \in 1..(j - 1) \/ m = j
    OBVIOUS
  <2> QED
    BY <1>3, <2>3, <2>4
<1> HIDE DEF T
<1>4. 0..n \subseteq T
  BY <1>0, <1>2, <1>3, InductionUpTo
<1>5. n \in T /\ Drained(order) = k[n] /\ k[n] \in Accs
  BY <1>0, <1>1, <1>4 DEF DrainSteps
<1> QED
  BY <1>0, <1>5 DEF T

-----------------------------------------------------------------------------
(***************************************************************************)
(* Every step keeps the invariant.                                         *)
(***************************************************************************)
\* A server nobody has asked anything.
LEMMA ServerInitInv == ServerInit => ServerInv
<1> SUFFICES ASSUME ServerInit PROVE ServerInv
  OBVIOUS
<1>1. /\ want \in [Seqs -> Nat] /\ id_of \in [Seqs -> Ids]
      /\ status = [s \in Seqs |-> "out"] /\ generated = [s \in Seqs |-> 0] /\ alive = TRUE
  BY ServerAssumption DEF ServerInit, SourceInit
<1>2. ServerTypeOK
  <2>1. /\ pending \in [Ids -> Seqs \cup {Nobody}] /\ seen \in [Ids -> Nat]
        /\ queue \in [Seqs -> Nat] /\ done \in [Seqs -> BOOLEAN] /\ got \in [Seqs -> Nat]
    BY DEF ServerInit
  <2>2. h \in [Seqs -> {"new", "refused", "opening", "answered", "gone", "unstarted", Cut}
                     \cup Waiting]
    BY DEF ServerInit
  <2>3. /\ status \in [Seqs -> Status] /\ generated \in [Seqs -> Nat] /\ alive \in BOOLEAN
    BY <1>1 DEF Status
  <2>4. /\ loop = "idle" /\ paused \in BOOLEAN /\ finished \in Seq(Seqs)
        /\ resets \in 0..MaxResets /\ first_use \subseteq Seqs
    <3>1. /\ loop = "idle" /\ paused = FALSE /\ finished = <<>> /\ resets = 0 /\ first_use = {}
      BY DEF ServerInit
    <3>2. 0 \in 0..MaxResets
      BY ServerAssumption
    <3>3. <<>> \in Seq(Seqs)
      OBVIOUS
    <3> QED
      BY <3>1, <3>2, <3>3
  <2> QED
    BY <1>1, <2>1, <2>2, <2>3, <2>4 DEF ServerTypeOK
<1>3. NamedByOwner /\ NotEntered /\ SoleUser /\ Delivered
  <2>1. first_use = {} /\ \A i \in Ids : pending[i] = Nobody
    BY DEF ServerInit
  <2>2. \A r \in Seqs : status[r] = "out" /\ queue[r] = 0 /\ got[r] = 0 /\ ~done[r]
    BY <1>1 DEF ServerInit
  <2>3. SoleUser /\ Delivered
    BY <2>1 DEF SoleUser, Delivered
  <2>4. NamedByOwner
    BY <2>1 DEF NamedByOwner
  <2>5. NotEntered
    BY <2>1, <2>2 DEF NotEntered
  <2> QED
    BY <2>3, <2>4, <2>5
<1>4. Produced
  BY <1>1 DEF ServerInit, Produced
<1>5. LookedBack
  <2>1. Running = {} /\ Unaware = {} /\ MaxNumSeqs \in Nat
    BY <1>1, ServerAssumption DEF ServerInit, Running, Unaware
  <2>2. IsFiniteSet(Running) /\ Cardinality(Running) = 0
    BY <2>1, FS_EmptySet
  <2> QED
    BY <2>1, <2>2 DEF LookedBack, ServerInit
<1> QED
  BY <1>2, <1>3, <1>4, <1>5 DEF ServerInv

\* What was finished and not known stays so for nobody else when no entry is
\* made and nothing is finished.
LEMMA UnawareShrinks ==
  ASSUME ServerInv, UNCHANGED <<finished, id_of>>,
         \A i \in Ids : pending'[i] = pending[i] \/ pending'[i] \notin Range(finished),
         \A s \in Seqs : done[s] => done'[s]
  PROVE  Unaware' \subseteq Unaware
<1>1. finished \in Seq(Seqs) /\ id_of \in [Seqs -> Ids]
  BY DEF ServerInv, ServerTypeOK
<1>2. ASSUME NEW k \in Unaware' PROVE k \in Unaware
  <2>1. /\ k \in DOMAIN finished /\ finished[k] \in Seqs /\ finished[k] \in Range(finished)
        /\ pending'[id_of[finished[k]]] = finished[k] /\ ~done'[finished[k]]
    BY <1>1, <1>2 DEF Unaware, Range
  <2>2. id_of[finished[k]] \in Ids
    BY <1>1, <2>1
  <2> QED
    BY <2>1, <2>2 DEF Unaware
<1> QED
  BY <1>2

\* While the engine is where it is, the handlers cannot break LookedBack.
LEMMA LookedBackStays ==
  ASSUME ServerInv, UNCHANGED <<finished, id_of, loop>>, Running' = Running,
         \A i \in Ids : pending'[i] = pending[i] \/ pending'[i] \notin Range(finished),
         \A s \in Seqs : done[s] => done'[s]
  PROVE  LookedBack'
<1>1. Unaware' \subseteq Unaware
  BY UnawareShrinks
<1>2. LookedBack
  BY DEF ServerInv
<1> QED
  BY <1>1, <1>2 DEF LookedBack

\* No entry names Nobody's sequence.
LEMMA NobodyFinished ==
  ASSUME ServerInv
  PROVE  /\ Nobody \notin Range(finished)
         /\ \A s \in Seqs : status[s] # "finished" => s \notin Range(finished)
<1>1. finished \in Seq(Seqs) /\ \A k \in DOMAIN finished : status[finished[k]] = "finished"
  BY DEF ServerInv, ServerTypeOK, Produced
<1>2. ASSUME NEW s \in Range(finished) PROVE s \in Seqs /\ status[s] = "finished"
  <2>1. PICK k \in DOMAIN finished : s = finished[k]
    BY DEF Range
  <2> QED
    BY <1>1, <2>1
<1>3. Nobody \notin Seqs
  BY ServerAssumption
<1> QED
  BY <1>2, <1>3

\* A handler goes on: what its next state may be, and what it does to the tables.
LEMMA HandlerMove ==
  ASSUME ServerInv, NEW r \in Seqs,
         UNCHANGED <<engineVars, seen, done, first_use>>,
         NEW x \in {"refused", "answered", "gone", "unstarted", Cut} \cup Waiting,
         h' = [h EXCEPT ![r] = x], h[r] # "answered",
         pending' = pending \/ pending' = Popped(id_of[r]),
         x = "refused" => h[r] = "new",
         x # "refused" => h[r] \notin {"new", "refused"},
         x \in {"answered", "gone", Cut} => pending' = Popped(id_of[r]),
         \/ UNCHANGED <<queue, got>>
         \/ /\ queue[r] > 0 /\ x # "refused"
            /\ queue' = [queue EXCEPT ![r] = @ - 1] /\ got' = [got EXCEPT ![r] = @ + 1],
         x = "answered" /\ r \in first_use => got'[r] = want[r]
  PROVE  ServerInv'
<1>0. /\ h \in [Seqs -> {"new", "refused", "opening", "answered", "gone", "unstarted", Cut}
                  \cup Waiting]
      /\ pending \in [Ids -> Seqs \cup {Nobody}] /\ id_of \in [Seqs -> Ids]
      /\ queue \in [Seqs -> Nat] /\ got \in [Seqs -> Nat] /\ first_use \subseteq Seqs
      /\ UNCHANGED <<want, status, generated, alive, id_of, loop, paused, finished, resets>>
      /\ Nobody \notin Seqs
  BY ServerAssumption DEF ServerInv, ServerTypeOK, engineVars, sourceVars
<1>1. /\ pending' \in [Ids -> Seqs \cup {Nobody}]
      /\ \A i \in Ids : pending'[i] = pending[i] \/ pending'[i] = Nobody
      /\ pending' = Popped(id_of[r]) => pending'[id_of[r]] = Nobody
  BY <1>0 DEF Popped
<1>2. /\ queue' \in [Seqs -> Nat] /\ got' \in [Seqs -> Nat]
      /\ \A s \in Seqs : HandedOut(s)' = HandedOut(s)
      /\ \A s \in Seqs : s # r => queue'[s] = queue[s] /\ got'[s] = got[s]
      /\ x = "refused" => queue'[r] = queue[r] /\ got'[r] = got[r]
  BY <1>0 DEF HandedOut
<1>3. /\ h' \in [Seqs -> {"new", "refused", "opening", "answered", "gone", "unstarted", Cut}
                   \cup Waiting]
      /\ h'[r] = x /\ \A s \in Seqs : s # r => h'[s] = h[s]
  BY <1>0
<1>4. ServerTypeOK'
  BY <1>0, <1>1, <1>2, <1>3 DEF ServerInv, ServerTypeOK
<1>5. NamedByOwner'
  <2> SUFFICES ASSUME NEW i \in Ids, pending'[i] # Nobody
               PROVE  /\ id_of[pending'[i]] = i
                      /\ h'[pending'[i]] \in Waiting \cup {"opening", "unstarted"}
    BY <1>0 DEF NamedByOwner
  <2>1. /\ pending'[i] = pending[i] /\ pending[i] \in Seqs
        /\ id_of[pending[i]] = i /\ h[pending[i]] \in Waiting \cup {"opening", "unstarted"}
    BY <1>0, <1>1 DEF ServerInv, NamedByOwner
  <2>2. CASE pending[i] = r
    <3>1. pending' # Popped(id_of[r])
      BY <1>1, <2>1, <2>2
    <3>2. x \in Waiting \cup {"unstarted"}
      BY <2>1, <2>2, <3>1 DEF Waiting, Cut
    <3> QED
      BY <1>3, <2>1, <2>2, <3>2
  <2>3. CASE pending[i] # r
    BY <1>3, <2>1, <2>3
  <2> QED
    BY <2>2, <2>3
<1>6. NotEntered'
  <2> SUFFICES ASSUME NEW s \in Seqs, h'[s] \in {"new", "refused"}
               PROVE  /\ status[s] = "out" /\ s \notin first_use
                      /\ queue'[s] = 0 /\ got'[s] = 0 /\ ~done[s]
    BY <1>0 DEF NotEntered
  <2>1. h[s] \in {"new", "refused"} /\ (s = r => x = "refused")
    BY <1>3 DEF Waiting, Cut
  <2> QED
    BY <1>2, <2>1 DEF ServerInv, NotEntered
<1>7. Produced'
  BY <1>0 DEF ServerInv, Produced
<1>8. SoleUser'
  <2> SUFFICES ASSUME NEW s \in first_use, pending'[id_of[s]] = s, NEW u \in Seqs,
                      id_of[u] = id_of[s], u # s
               PROVE  status[u] \in {"out", "dropped"}
    BY <1>0 DEF SoleUser
  <2>1. pending[id_of[s]] = s
    BY <1>0, <1>1
  <2> QED
    BY <2>1 DEF ServerInv, SoleUser
<1>9. Delivered'
  <2> SUFFICES ASSUME NEW s \in first_use
               PROVE  /\ HandedOut(s) <= want[s]
                      /\ pending'[id_of[s]] = s => seen[id_of[s]] = HandedOut(s)
                      /\ done[s] => HandedOut(s) = want[s]
                      /\ h'[s] = "answered" => got'[s] = want[s]
    BY <1>0, <1>2 DEF Delivered
  <2>1. /\ HandedOut(s) <= want[s]
        /\ pending[id_of[s]] = s => seen[id_of[s]] = HandedOut(s)
        /\ done[s] => HandedOut(s) = want[s]
        /\ h[s] = "answered" => got[s] = want[s]
    BY DEF ServerInv, Delivered
  <2>2. s \in Seqs /\ (pending'[id_of[s]] = s => pending[id_of[s]] = s)
    BY <1>0, <1>1
  <2>3. h'[s] = "answered" => got'[s] = want[s]
    BY <1>2, <1>3, <2>1, <2>2
  <2> QED
    BY <2>1, <2>2, <2>3
<1>10. LookedBack'
  <2>1. /\ \A i \in Ids : pending'[i] = pending[i] \/ pending'[i] \notin Range(finished)
        /\ \A s \in Seqs : done[s] => done'[s]
        /\ Running' = Running
    BY <1>0, <1>1, NobodyFinished DEF Running
  <2> QED
    BY <1>0, <2>1, LookedBackStays
<1> QED
  BY <1>4, <1>5, <1>6, <1>7, <1>8, <1>9, <1>10 DEF ServerInv

\* The steps of one handler after the request was accepted, and a refusal.
LEMMA HandlersKeep ==
  ASSUME ServerInv, NEW r \in Seqs, Refuse(r) \/ Handler(r) \/ Disconnect(r)
  PROVE  ServerInv'
<1>0. /\ queue \in [Seqs -> Nat] /\ got \in [Seqs -> Nat] /\ id_of \in [Seqs -> Ids]
      /\ "check" \in Waiting /\ "get" \in Waiting
  BY DEF ServerInv, ServerTypeOK, Waiting
<1>1. CASE Refuse(r)
  <2>1. /\ UNCHANGED <<engineVars, seen, done, first_use>> /\ UNCHANGED <<queue, got>>
        /\ h' = [h EXCEPT ![r] = "refused"] /\ h[r] = "new" /\ pending' = pending
    BY <1>1 DEF Refuse
  <2> QED
    BY <2>1, HandlerMove DEF Cut, Waiting
<1>2. CASE RoleFrame(r)
  <2>1. /\ UNCHANGED <<engineVars, seen, done, first_use>> /\ UNCHANGED <<queue, got>>
        /\ h' = [h EXCEPT ![r] = "check"] /\ h[r] = "opening" /\ pending' = pending
    BY <1>2 DEF RoleFrame
  <2> QED
    BY <1>0, <2>1, HandlerMove DEF Cut
<1>3. CASE Check(r)
  <2>1. /\ UNCHANGED <<engineVars, seen, done, first_use>> /\ UNCHANGED <<queue, got>>
        /\ h[r] = "check"
    BY <1>3 DEF Check
  <2>2. CASE IsOver(r)
    <3>1. /\ h' = [h EXCEPT ![r] = "answered"] /\ pending' = Popped(id_of[r])
          /\ done[r] /\ queue[r] = 0
      BY <1>3, <2>2 DEF Check, IsOver
    <3>2. r \in first_use => got[r] = want[r]
      BY <1>0, <3>1 DEF ServerInv, Delivered, HandedOut
    <3> QED
      BY <2>1, <3>1, <3>2, HandlerMove DEF Cut
  <2>3. CASE ~IsOver(r)
    <3>1. h' = [h EXCEPT ![r] = "get"] /\ pending' = pending
      BY <1>3, <2>3 DEF Check
    <3> QED
      BY <1>0, <2>1, <3>1, HandlerMove DEF Cut
  <2> QED
    BY <2>2, <2>3
<1>4. CASE Get(r)
  <2>1. /\ UNCHANGED <<engineVars, seen, done, first_use>>
        /\ h[r] = "get" /\ h' = [h EXCEPT ![r] = "check"] /\ pending' = pending
        /\ queue[r] > 0
        /\ queue' = [queue EXCEPT ![r] = @ - 1] /\ got' = [got EXCEPT ![r] = @ + 1]
    BY <1>4 DEF Get
  <2> QED
    BY <1>0, <2>1, HandlerMove DEF Cut
<1>5. CASE Timeout(r)
  <2>1. /\ UNCHANGED <<engineVars, seen, done, first_use>> /\ UNCHANGED <<queue, got>>
        /\ h[r] = "get" /\ h' = [h EXCEPT ![r] = Cut] /\ pending' = Popped(id_of[r])
    BY <1>5 DEF Timeout
  <2> QED
    BY <2>1, HandlerMove DEF Cut
<1>6. CASE Disconnect(r)
  <2>1. /\ UNCHANGED <<engineVars, seen, done, first_use>> /\ UNCHANGED <<queue, got>>
        /\ h[r] \in Waiting \cup {"opening"}
    BY <1>6 DEF Disconnect
  <2>2. CASE h[r] = "opening"
    <3>1. h' = [h EXCEPT ![r] = "unstarted"] /\ pending' = pending
      BY <1>6, <2>2 DEF Disconnect
    <3> QED
      BY <2>1, <2>2, <3>1, HandlerMove DEF Cut
  <2>3. CASE h[r] # "opening"
    <3>1. h' = [h EXCEPT ![r] = "gone"] /\ pending' = Popped(id_of[r])
      BY <1>6, <2>3 DEF Disconnect
    <3>2. h[r] \notin {"new", "refused", "answered"}
      BY <2>1, <2>3 DEF Waiting
    <3> QED
      BY <2>1, <3>1, <3>2, HandlerMove DEF Cut
  <2> QED
    BY <2>2, <2>3
<1> QED
  BY <1>1, <1>2, <1>3, <1>4, <1>5, <1>6 DEF Handler

\* A request is registered under its id, whatever was registered there.
LEMMA AcceptKeeps ==
  ASSUME ServerInv, NEW r \in Seqs, Accept(r)
  PROVE  ServerInv'
<1> DEFINE i == id_of[r]
           x == IF r \in StreamSeqs THEN "opening" ELSE "check"
<1>0. /\ h \in [Seqs -> {"new", "refused", "opening", "answered", "gone", "unstarted", Cut}
                  \cup Waiting]
      /\ pending \in [Ids -> Seqs \cup {Nobody}] /\ id_of \in [Seqs -> Ids]
      /\ status \in [Seqs -> Status] /\ first_use \subseteq Seqs /\ seen \in [Ids -> Nat]
      /\ Nobody \notin Seqs /\ i \in Ids
  BY ServerAssumption DEF ServerInv, ServerTypeOK
<1>1. /\ h[r] = "new" /\ status[r] = "out"
      /\ status' = [status EXCEPT ![r] = "queued"]
      /\ pending' = [pending EXCEPT ![i] = r] /\ h' = [h EXCEPT ![r] = x]
      /\ first_use' = IF Fresh(i) THEN first_use \cup {r} ELSE first_use \ {r}
      /\ UNCHANGED <<want, generated, alive, id_of, loop, paused, finished, seen, queue, done,
                     got, resets>>
  BY DEF Accept, Submit
<1>2. r \notin first_use /\ queue[r] = 0 /\ got[r] = 0 /\ ~done[r]
  BY <1>1 DEF ServerInv, NotEntered
<1>3. x \in Waiting \cup {"opening"} /\ x \notin {"new", "refused", "answered"}
  BY DEF Waiting
<1>4. /\ \A s \in first_use' : s \in first_use \/ (s = r /\ Fresh(i))
      /\ first_use' \subseteq Seqs
  BY <1>0, <1>1
<1> HIDE DEF i, x
<1>5. /\ pending'[i] = r /\ \A j \in Ids : j # i => pending'[j] = pending[j]
      /\ pending' \in [Ids -> Seqs \cup {Nobody}]
  BY <1>0, <1>1
<1>6. /\ h'[r] = x /\ \A s \in Seqs : s # r => h'[s] = h[s]
      /\ h' \in [Seqs -> {"new", "refused", "opening", "answered", "gone", "unstarted", Cut}
                   \cup Waiting]
  BY <1>0, <1>1, <1>3
<1>7. /\ status'[r] = "queued" /\ \A s \in Seqs : s # r => status'[s] = status[s]
      /\ status' \in [Seqs -> Status]
  BY <1>0, <1>1 DEF Status
<1>8. \A s \in first_use' : s # r /\ pending'[id_of[s]] = s => pending[id_of[s]] = s
  BY <1>0, <1>4, <1>5
<1>9. ServerTypeOK'
  BY <1>1, <1>4, <1>5, <1>6, <1>7 DEF ServerInv, ServerTypeOK
<1>10. NamedByOwner'
  <2> SUFFICES ASSUME NEW j \in Ids, pending'[j] # Nobody
               PROVE  /\ id_of[pending'[j]] = j
                      /\ h'[pending'[j]] \in Waiting \cup {"opening", "unstarted"}
    BY <1>1 DEF NamedByOwner
  <2>1. CASE j = i
    BY <1>3, <1>5, <1>6, <2>1 DEF i
  <2>2. CASE j # i
    <3>1. /\ pending'[j] = pending[j] /\ pending[j] \in Seqs /\ id_of[pending[j]] = j
          /\ h[pending[j]] \in Waiting \cup {"opening", "unstarted"}
      BY <1>0, <1>5, <2>2 DEF ServerInv, NamedByOwner
    <3>2. pending[j] # r
      BY <2>2, <3>1 DEF i
    <3> QED
      BY <1>6, <3>1, <3>2
  <2> QED
    BY <2>1, <2>2
<1>11. NotEntered'
  <2> SUFFICES ASSUME NEW s \in Seqs, h'[s] \in {"new", "refused"}
               PROVE  /\ status'[s] = "out" /\ s \notin first_use'
                      /\ queue[s] = 0 /\ got[s] = 0 /\ ~done[s]
    BY <1>1 DEF NotEntered
  <2>1. s # r /\ h[s] \in {"new", "refused"}
    BY <1>3, <1>6
  <2> QED
    BY <1>4, <1>7, <2>1 DEF ServerInv, NotEntered
<1>12. Produced'
  <2>1. /\ \A s \in Seqs : generated[s] <= want[s]
        /\ \A s \in Seqs : status[s] = "finished" => generated[s] = want[s]
        /\ finished \in Seq(Seqs)
        /\ \A k \in DOMAIN finished : status[finished[k]] = "finished" /\ finished[k] \in Seqs
    BY DEF ServerInv, Produced, ServerTypeOK
  <2>2. \A s \in Seqs : status'[s] = "finished" <=> status[s] = "finished"
    BY <1>1, <1>7
  <2> QED
    BY <1>1, <2>1, <2>2 DEF Produced
<1>13. SoleUser'
  <2> SUFFICES ASSUME NEW s \in first_use', pending'[id_of[s]] = s, NEW u \in Seqs,
                      id_of[u] = id_of[s], u # s
               PROVE  status'[u] \in {"out", "dropped"}
    BY <1>1 DEF SoleUser
  <2>1. CASE s = r
    <3>1. Fresh(i) /\ id_of[u] = i
      BY <1>2, <1>4, <2>1 DEF i
    <3>2. status[u] \in {"out", "dropped"}
      BY <3>1 DEF Fresh
    <3> QED
      BY <1>7, <2>1, <3>2
  <2>2. CASE s # r
    <3>1. s \in first_use /\ pending[id_of[s]] = s
      BY <1>4, <1>8, <2>2
    <3>2. u # r
      <4>1. u = r => pending'[id_of[s]] = r
        BY <1>5 DEF i
      <4> QED
        BY <2>2, <4>1
    <3> QED
      BY <1>7, <3>1, <3>2 DEF ServerInv, SoleUser
  <2> QED
    BY <2>1, <2>2
<1>14. Delivered'
  <2> SUFFICES ASSUME NEW s \in first_use'
               PROVE  /\ HandedOut(s) <= want[s]
                      /\ pending'[id_of[s]] = s => seen[id_of[s]] = HandedOut(s)
                      /\ done[s] => HandedOut(s) = want[s]
                      /\ h'[s] = "answered" => got[s] = want[s]
    BY <1>1 DEF Delivered, HandedOut
  <2>1. CASE s = r
    <3>1. seen[i] = 0 /\ HandedOut(s) = 0 /\ want[s] \in Nat
      BY <1>2, <1>4, <2>1 DEF Fresh, HandedOut, ServerInv, ServerTypeOK
    <3> QED
      BY <1>2, <1>3, <1>6, <2>1, <3>1 DEF i
  <2>2. CASE s # r
    <3>1. s \in first_use /\ s \in Seqs
      BY <1>4, <2>2
    <3> QED
      BY <1>6, <1>8, <2>2, <3>1 DEF ServerInv, Delivered
  <2> QED
    BY <2>1, <2>2
<1>15. LookedBack'
  <2>1. Running' = Running
    BY <1>1, <1>7 DEF Running
  <2>2. \A j \in Ids : pending'[j] = pending[j] \/ pending'[j] \notin Range(finished)
    <3>1. r \notin Range(finished)
      BY <1>1, NobodyFinished
    <3> QED
      BY <1>5, <3>1
  <2> QED
    BY <1>1, <2>1, <2>2, LookedBackStays
<1> QED
  BY <1>9, <1>10, <1>11, <1>12, <1>13, <1>14, <1>15 DEF ServerInv

\* The engine changes nothing the handlers see.  What is left to show is about
\* the engine alone.
LEMMA TablesStay ==
  ASSUME ServerInv, UNCHANGED <<tableVars, id_of, want>>, ServerTypeOK',
         \A s \in Seqs : status[s] \in {"out", "dropped"} <=> status'[s] \in {"out", "dropped"},
         \A s \in Seqs : status[s] = "out" => status'[s] = "out"
  PROVE  NamedByOwner' /\ NotEntered' /\ SoleUser' /\ Delivered'
<1>0. /\ UNCHANGED <<pending, seen, h, queue, done, got, first_use, id_of, want>>
      /\ first_use \subseteq Seqs
  BY DEF tableVars, ServerInv, ServerTypeOK
<1>1. NamedByOwner'
  BY <1>0 DEF NamedByOwner, ServerInv
<1>2. NotEntered'
  BY <1>0 DEF NotEntered, ServerInv
<1>3. SoleUser'
  BY <1>0 DEF SoleUser, ServerInv
<1>4. Delivered'
  BY <1>0 DEF Delivered, HandedOut, ServerInv
<1> QED
  BY <1>1, <1>2, <1>3, <1>4

\* Between its own steps the engine's task only says where it is.
LEMMA LoopSteps ==
  ASSUME ServerInv, BeginStep \/ EndStep \/ StepRaises \/ SetFault
  PROVE  ServerInv'
<1>1. /\ UNCHANGED <<want, status, generated, id_of, finished, resets, tableVars>>
      /\ alive' \in BOOLEAN /\ paused' \in BOOLEAN
      /\ loop' \in {"idle", "step", "emitted", "sleep", "dead"}
      /\ loop' = "idle" => loop = "idle"
      /\ loop' = "step" => loop \in {"idle", "step"}
      /\ loop' \in {"emitted", "sleep"} => loop \in {"emitted", "sleep"}
  BY DEF BeginStep, EndStep, StepRaises, SetFault, sourceVars, Crash, ServerInv, ServerTypeOK
<1>2. UNCHANGED <<pending, seen, h, queue, done, got, first_use>>
  BY <1>1 DEF tableVars
<1>3. ServerTypeOK'
  BY <1>1, <1>2 DEF ServerInv, ServerTypeOK
<1>4. NamedByOwner' /\ NotEntered' /\ SoleUser' /\ Delivered'
  BY <1>1, <1>3, TablesStay
<1>5. Produced'
  BY <1>1 DEF ServerInv, Produced
<1>6. LookedBack'
  <2>1. Running' = Running /\ Unaware' = Unaware
    BY <1>1, <1>2 DEF Running, Unaware
  <2> QED
    BY <1>1, <2>1 DEF ServerInv, LookedBack
<1> QED
  BY <1>3, <1>4, <1>5, <1>6 DEF ServerInv

\* Inside a step the batch gains and loses sequences and emits.
LEMMA BatchChanges ==
  ASSUME ServerInv, EngineMoves, loop = "step"
  PROVE  ServerInv'
<1>0. /\ status \in [Seqs -> Status] /\ generated \in [Seqs -> Nat] /\ want \in [Seqs -> Nat]
      /\ UNCHANGED <<want, alive, id_of, paused, resets, tableVars, finished>>
      /\ loop' = IF status' = status THEN "emitted" ELSE "step"
  BY DEF ServerInv, ServerTypeOK, EngineMoves, Admit, Evict, Emit
<1>1. /\ IsFiniteSet(Running) /\ Cardinality(Running) \in Nat
      /\ Cardinality(Running) <= MaxNumSeqs /\ MaxNumSeqs \in Nat
      /\ MaxNumSeqs <= Window => Unaware = {}
  BY ServerAssumption, FS_CardinalityType DEF ServerInv, LookedBack
<1>2. UNCHANGED <<pending, seen, h, queue, done, got, first_use>>
  BY <1>0 DEF tableVars
<1>3. Unaware' = Unaware
  BY <1>0, <1>2 DEF Unaware
<1>4. /\ status' \in [Seqs -> Status] /\ generated' \in [Seqs -> Nat]
      /\ \A s \in Seqs : status[s] \in {"out", "dropped", "finished"} => status'[s] = status[s]
      /\ \A s \in Seqs : status'[s] \in {"out", "dropped", "finished"} => status'[s] = status[s]
      /\ \A s \in Seqs : generated'[s] <= want[s]
      /\ \A s \in Seqs : status[s] = "finished" => generated'[s] = generated[s]
      /\ IsFiniteSet(Running') /\ Cardinality(Running') <= MaxNumSeqs
      /\ loop' = "emitted" => Running' = Running
  <2>1. CASE \E s \in Seqs : Cardinality(Running) < MaxNumSeqs /\ Admit(s)
    <3>1. PICK s \in Seqs : Cardinality(Running) < MaxNumSeqs /\ Admit(s)
      BY <2>1
    <3>2. /\ status[s] = "queued" /\ status' = [status EXCEPT ![s] = "running"]
          /\ generated' = generated
      BY <3>1 DEF Admit
    <3>3. Running' = Running \cup {s} /\ s \notin Running
      BY <1>0, <3>2 DEF Running
    <3>4. IsFiniteSet(Running') /\ Cardinality(Running') = Cardinality(Running) + 1
      BY <1>1, <3>3, FS_AddElement
    <3>5. loop' = "step" /\ status' \in [Seqs -> Status]
      BY <1>0, <3>2 DEF Status
    <3>6. \A u \in Seqs : generated[u] <= want[u]
      BY DEF ServerInv, Produced
    <3> QED
      BY <1>0, <1>1, <3>1, <3>2, <3>4, <3>5, <3>6
  <2>2. CASE \E s \in Seqs : Evict(s)
    <3>1. PICK s \in Seqs : Evict(s)
      BY <2>2
    <3>2. /\ status[s] = "running" /\ status' = [status EXCEPT ![s] = "queued"]
          /\ \E kept \in {0, generated[s]} : generated' = [generated EXCEPT ![s] = kept]
      BY <3>1 DEF Evict
    <3>3. Running' = Running \ {s} /\ s \in Running
      BY <1>0, <3>2 DEF Running
    <3>4. IsFiniteSet(Running') /\ Cardinality(Running') = Cardinality(Running) - 1
      BY <1>1, <3>3, FS_RemoveElement
    <3>5. loop' = "step" /\ status' \in [Seqs -> Status]
      BY <1>0, <3>2 DEF Status
    <3>6. \A u \in Seqs : generated[u] <= want[u]
      BY DEF ServerInv, Produced
    <3>7. /\ generated' \in [Seqs -> Nat]
          /\ \A u \in Seqs : generated'[u] <= want[u]
          /\ \A u \in Seqs : u # s => generated'[u] = generated[u]
      BY <1>0, <3>2, <3>6
    <3> QED
      BY <1>0, <1>1, <3>2, <3>4, <3>5, <3>7
  <2>3. CASE Emit
    <3>1. PICK n \in [{s \in Seqs : status[s] \in {"queued", "running"}} -> 0..Burst] :
            /\ \A s \in DOMAIN n : generated[s] + n[s] <= want[s]
            /\ generated' = [s \in Seqs |-> IF s \in DOMAIN n THEN generated[s] + n[s]
                                            ELSE generated[s]]
            /\ status' = status
      BY <2>3 DEF Emit
    <3>2. \A s \in DOMAIN n : s \in Seqs /\ status[s] \in {"queued", "running"} /\ n[s] \in Nat
      BY <3>1, SourceAssumption
    <3>3. \A s \in Seqs : generated[s] <= want[s] /\ generated[s] \in Nat
      BY <1>0 DEF ServerInv, Produced
    <3>4. /\ generated' \in [Seqs -> Nat]
          /\ \A s \in Seqs : generated'[s] <= want[s]
          /\ \A s \in Seqs : status[s] = "finished" => generated'[s] = generated[s]
      BY <3>1, <3>2, <3>3
    <3>5. Running' = Running
      BY <3>1 DEF Running
    <3> QED
      BY <1>0, <1>1, <3>1, <3>4, <3>5
  <2> QED
    BY <2>1, <2>2, <2>3 DEF EngineMoves
<1>5. ServerTypeOK'
  <2>1. loop' \in {"idle", "step", "emitted", "sleep", "dead"}
    BY <1>0
  <2> QED
    BY <1>0, <1>2, <1>4, <2>1 DEF ServerInv, ServerTypeOK
<1>6. NamedByOwner' /\ NotEntered' /\ SoleUser' /\ Delivered'
  BY <1>0, <1>4, <1>5, TablesStay
<1>7. Produced'
  <2>1. /\ \A s \in Seqs : status[s] = "finished" => generated[s] = want[s]
        /\ \A k \in DOMAIN finished : status[finished[k]] = "finished" /\ finished[k] \in Seqs
    BY DEF ServerInv, Produced, ServerTypeOK
  <2> QED
    BY <1>0, <1>4, <2>1 DEF Produced
<1>8. LookedBack'
  <2>1. loop' \in {"step", "emitted"} /\ 0 + Cardinality(Running) = Cardinality(Running)
    BY <1>0, <1>1
  <2> QED
    BY <1>1, <1>3, <1>4, <2>1 DEF LookedBack
<1> QED
  BY <1>5, <1>6, <1>7, <1>8 DEF ServerInv

\* A sequence leaves the batch finished.
LEMMA FinishedKeeps ==
  ASSUME ServerInv, EngineMoves, loop = "emitted"
  PROVE  ServerInv'
<1>0. PICK s \in Seqs : /\ status[s] = "running" /\ generated[s] >= want[s]
                        /\ status' = [status EXCEPT ![s] = "finished"]
                        /\ finished' = Append(finished, s)
  BY DEF EngineMoves, Finish
<1>1. /\ status \in [Seqs -> Status] /\ generated \in [Seqs -> Nat] /\ want \in [Seqs -> Nat]
      /\ finished \in Seq(Seqs) /\ id_of \in [Seqs -> Ids]
      /\ UNCHANGED <<want, generated, alive, id_of, loop, paused, resets, tableVars>>
  BY DEF ServerInv, ServerTypeOK, EngineMoves, Finish
<1>2. UNCHANGED <<pending, seen, h, queue, done, got, first_use>>
  BY <1>1 DEF tableVars
<1>3. /\ finished' \in Seq(Seqs) /\ Len(finished') = Len(finished) + 1
      /\ DOMAIN finished' = 1..(Len(finished) + 1) /\ DOMAIN finished = 1..Len(finished)
      /\ finished'[Len(finished) + 1] = s /\ Len(finished) \in Nat
      /\ \A k \in 1..Len(finished) : finished'[k] = finished[k]
  BY <1>0, <1>1
<1>4. /\ status' \in [Seqs -> Status] /\ status'[s] = "finished"
      /\ \A u \in Seqs : u # s => status'[u] = status[u]
  BY <1>0, <1>1 DEF Status
<1>5. ServerTypeOK'
  BY <1>1, <1>2, <1>3, <1>4 DEF ServerInv, ServerTypeOK
<1>6. NamedByOwner' /\ NotEntered' /\ SoleUser' /\ Delivered'
  <2>1. /\ \A u \in Seqs : status[u] \in {"out", "dropped"} <=> status'[u] \in {"out", "dropped"}
        /\ \A u \in Seqs : status[u] = "out" => status'[u] = "out"
    BY <1>0, <1>4
  <2> QED
    BY <1>1, <1>5, <2>1, TablesStay
<1>7. Produced'
  <2>1. /\ \A u \in Seqs : generated[u] <= want[u]
        /\ \A u \in Seqs : status[u] = "finished" => generated[u] = want[u]
        /\ \A k \in 1..Len(finished) : status[finished[k]] = "finished" /\ finished[k] \in Seqs
    <3>1. \A k \in 1..Len(finished) : finished[k] \in Seqs
      BY <1>1
    <3>2. \A k \in DOMAIN finished : status[finished[k]] = "finished"
      BY DEF ServerInv, Produced
    <3>3. \A k \in 1..Len(finished) : status[finished[k]] = "finished"
      BY <1>3, <3>2
    <3> QED
      BY <3>1, <3>3 DEF ServerInv, Produced
  <2>2. generated[s] = want[s]
    BY <1>0, <1>1, <2>1
  <2>3. \A u \in Seqs : status'[u] = "finished" => generated[u] = want[u]
    BY <1>4, <2>1, <2>2
  <2>4. ASSUME NEW k \in DOMAIN finished' PROVE status'[finished'[k]] = "finished"
    <3>1. CASE k = Len(finished) + 1
      BY <1>3, <1>4, <3>1
    <3>2. CASE k # Len(finished) + 1
      <4>1. k \in 1..Len(finished)
        BY <1>3, <3>2
      <4> QED
        BY <1>3, <1>4, <2>1, <4>1
    <3> QED
      BY <3>1, <3>2
  <2> QED
    BY <1>1, <2>1, <2>3, <2>4 DEF Produced
<1>8. LookedBack'
  <2>1. IsFiniteSet(Running) /\ Cardinality(Running) <= MaxNumSeqs /\ MaxNumSeqs \in Nat
    BY ServerAssumption DEF ServerInv, LookedBack
  <2>2. Running' = Running \ {s} /\ s \in Running
    BY <1>0, <1>4 DEF Running
  <2>3. /\ IsFiniteSet(Running') /\ Cardinality(Running') = Cardinality(Running) - 1
        /\ Cardinality(Running) \in Nat
    BY <2>1, <2>2, FS_RemoveElement, FS_CardinalityType
  <2>4. ASSUME MaxNumSeqs <= Window
        PROVE  \E n \in Nat : /\ n + Cardinality(Running') <= MaxNumSeqs
                              /\ \A k \in Unaware' : k > Len(finished') - n
    <3>1. PICK n \in Nat : /\ n + Cardinality(Running) <= MaxNumSeqs
                           /\ \A k \in Unaware : k > Len(finished) - n
      BY <2>4 DEF ServerInv, LookedBack
    <3>2. n + 1 \in Nat /\ (n + 1) + Cardinality(Running') <= MaxNumSeqs
      BY <2>1, <2>3, <3>1
    <3>3. ASSUME NEW k \in Unaware' PROVE k > Len(finished') - (n + 1)
      <4>1. k \in 1..(Len(finished) + 1)
        BY <1>3, <3>3 DEF Unaware
      <4>2. CASE k = Len(finished) + 1
        BY <1>3, <3>1, <4>2
      <4>3. CASE k # Len(finished) + 1
        <5>1. k \in 1..Len(finished) /\ finished'[k] = finished[k]
          BY <1>3, <4>1, <4>3
        <5>2. k \in Unaware
          BY <1>1, <1>2, <1>3, <3>3, <5>1 DEF Unaware
        <5> QED
          BY <1>3, <3>1, <5>1, <5>2
      <4> QED
        BY <4>2, <4>3
    <3> QED
      BY <3>2, <3>3
  <2>5. loop' = "emitted" /\ Cardinality(Running') <= MaxNumSeqs
    BY <1>1, <2>1, <2>3
  <2> QED
    BY <2>3, <2>4, <2>5 DEF LookedBack
<1> QED
  BY <1>5, <1>6, <1>7, <1>8 DEF ServerInv

\* The sleep is over: every entry gets its tokens, and every sequence that
\* finished in the step is among those _drain looks at.
LEMMA DrainKeeps ==
  ASSUME ServerInv, Drain
  PROVE  ServerInv'
<1>0. /\ loop = "sleep" /\ loop' = "idle"
      /\ UNCHANGED <<sourceVars, id_of, paused, finished, pending, h, got, resets, first_use>>
  BY DEF Drain
<1>1. /\ UNCHANGED <<want, status, generated, alive>>
      /\ status \in [Seqs -> Status] /\ generated \in [Seqs -> Nat] /\ want \in [Seqs -> Nat]
      /\ finished \in Seq(Seqs) /\ id_of \in [Seqs -> Ids] /\ first_use \subseteq Seqs
      /\ got \in [Seqs -> Nat] /\ done \in [Seqs -> BOOLEAN]
      /\ pending \in [Ids -> Seqs \cup {Nobody}] /\ Nobody \notin Seqs
  BY <1>0, ServerAssumption DEF sourceVars, ServerInv, ServerTypeOK
<1>2. PICK in_step \in SetToSeqs(Running) :
         LET acc == Drained(in_step \o Recent)
         IN queue' = acc.queue /\ seen' = acc.seen /\ done' = [s \in Seqs |-> s \in acc.done]
  BY DEF Drain
<1> DEFINE order == in_step \o Recent
           acc == Drained(order)
<1>3. /\ in_step \in Seq(Running) /\ Running \subseteq Seqs
  <2>1. in_step \in [1..Cardinality(Running) -> Running]
    BY <1>2 DEF SetToSeqs
  <2>2. Cardinality(Running) \in Nat
    BY FS_CardinalityType DEF ServerInv, LookedBack
  <2> QED
    BY <2>1, <2>2, SeqDef DEF Running
<1>4. /\ Recent \in Seq(Seqs) /\ Len(Recent) \in Nat
      /\ Len(finished) \in Nat /\ Len(Recent) <= Len(finished)
      /\ Len(Recent) = Len(finished) \/ Len(Recent) = Window
      /\ \A j \in 1..Len(Recent) : /\ Recent[j] = finished[Len(finished) - Len(Recent) + j]
                                   /\ Len(finished) - Len(Recent) + j \in 1..Len(finished)
  <2>1. Len(finished) \in Nat /\ Window \in Nat \ {0}
    BY <1>1, ServerAssumption
  <2>2. CASE Len(finished) <= Window
    BY <1>1, <2>1, <2>2 DEF Recent
  <2>3. CASE ~(Len(finished) <= Window)
    <3>1. PICK a \in 1..Len(finished) : a = Len(finished) - Window + 1
      BY <2>1, <2>3
    <3>2. \A j \in a..Len(finished) : finished[j] \in Seqs
      BY <1>1, <3>1
    <3>3. a \in Int /\ Len(finished) \in Int /\ a <= Len(finished)
          /\ Len(finished) - a + 1 = Window
      BY <2>1, <3>1
    <3>4. Recent = SubSeq(finished, a, Len(finished))
      BY <2>3, <3>1 DEF Recent
    <3>5. /\ Recent \in Seq(Seqs) /\ Len(Recent) = Window
          /\ \A j \in 1..Window : Recent[j] = finished[a + j - 1]
      BY <3>2, <3>3, <3>4, SubSeqProperties
    <3>6. ASSUME NEW j \in 1..Window
          PROVE  /\ Recent[j] = finished[Len(finished) - Window + j]
                 /\ Len(finished) - Window + j \in 1..Len(finished)
      <4>1. a + j - 1 = Len(finished) - Window + j
        BY <2>1, <3>1
      <4>2. Len(finished) - Window + j \in 1..Len(finished)
        BY <2>1, <2>3
      <4> QED
        BY <3>5, <4>1, <4>2
    <3> QED
      BY <2>1, <2>3, <3>5, <3>6
  <2> QED
    BY <2>2, <2>3
<1>5. /\ order \in Seq(Seqs)
      /\ \A j \in DOMAIN order : status[order[j]] \in {"running", "finished"}
      /\ \A j \in 1..Len(Recent) : \E m \in DOMAIN order : order[m] = Recent[j]
  <2>1. in_step \in Seq(Seqs) /\ Len(in_step) \in Nat
    BY <1>3
  <2>2. /\ order \in Seq(Seqs) /\ DOMAIN order = 1..(Len(in_step) + Len(Recent))
        /\ \A j \in 1..Len(in_step) : order[j] = in_step[j]
        /\ \A j \in 1..Len(Recent) : order[Len(in_step) + j] = Recent[j]
    BY <1>4, <2>1
  <2>3. \A j \in 1..Len(in_step) : status[in_step[j]] = "running"
    BY <1>3 DEF Running
  <2>4. \A j \in 1..Len(Recent) : status[Recent[j]] = "finished"
    <3>1. \A k \in DOMAIN finished : status[finished[k]] = "finished"
      BY DEF ServerInv, Produced
    <3>2. DOMAIN finished = 1..Len(finished)
      BY <1>1
    <3> QED
      BY <1>4, <3>1, <3>2
  <2>5. ASSUME NEW j \in DOMAIN order PROVE status[order[j]] \in {"running", "finished"}
    <3>1. CASE j <= Len(in_step)
      <4>1. j \in 1..Len(in_step)
        BY <2>1, <2>2, <3>1
      <4> QED
        BY <2>2, <2>3, <4>1
    <3>2. CASE ~(j <= Len(in_step))
      <4>1. j - Len(in_step) \in 1..Len(Recent) /\ j = Len(in_step) + (j - Len(in_step))
        BY <1>4, <2>1, <2>2, <3>2
      <4>2. order[j] = Recent[j - Len(in_step)]
        BY <2>2, <4>1
      <4> QED
        BY <2>4, <4>1, <4>2
    <3> QED
      BY <3>1, <3>2
  <2>6. ASSUME NEW j \in 1..Len(Recent) PROVE \E m \in DOMAIN order : order[m] = Recent[j]
    <3>1. Len(in_step) + j \in DOMAIN order
      BY <1>4, <2>1, <2>2
    <3> QED
      BY <2>2, <3>1
  <2> QED
    BY <2>2, <2>5, <2>6
<1>6. queue' = acc.queue /\ seen' = acc.seen /\ done' = [s \in Seqs |-> s \in acc.done]
  BY <1>2
<1> HIDE DEF order, acc
<1>7. /\ acc \in Accs /\ Drains(acc)
      /\ \A j \in DOMAIN order :
           pending[id_of[order[j]]] = order[j] /\ generated[order[j]] >= want[order[j]]
             => order[j] \in acc.done
  <2>1. \A j \in DOMAIN order : status[order[j]] \in {"running", "finished"}
    BY <1>5
  <2>2. order \in Seq(Seqs)
    BY <1>5
  <2> QED
    BY <2>1, <2>2, DrainedDrains DEF acc
<1>8. /\ queue' \in [Seqs -> Nat] /\ seen' \in [Ids -> Nat] /\ done' \in [Seqs -> BOOLEAN]
      /\ \A s \in Seqs : done'[s] <=> s \in acc.done
  <2>1. acc.queue \in [Seqs -> Nat] /\ acc.seen \in [Ids -> Nat]
    BY <1>7 DEF Accs
  <2>2. done' \in [Seqs -> BOOLEAN]
    BY <1>6
  <2>3. ASSUME NEW s \in Seqs PROVE done'[s] <=> s \in acc.done
    BY <1>6
  <2> QED
    BY <1>6, <2>1, <2>2, <2>3
<1>9. ServerTypeOK'
  BY <1>0, <1>1, <1>8 DEF ServerInv, ServerTypeOK
<1>10. NamedByOwner'
  BY <1>0 DEF ServerInv, NamedByOwner
<1>11. NotEntered'
  <2> SUFFICES ASSUME NEW r \in Seqs, h[r] \in {"new", "refused"}
               PROVE  /\ status[r] = "out" /\ r \notin first_use
                      /\ queue'[r] = 0 /\ got[r] = 0 /\ ~done'[r]
    BY <1>0, <1>1 DEF NotEntered
  <2>1. status[r] = "out" /\ r \notin first_use /\ queue[r] = 0 /\ got[r] = 0 /\ ~done[r]
    BY DEF ServerInv, NotEntered
  <2>2. pending[id_of[r]] # r
    <3>1. id_of[r] \in Ids
      BY <1>1
    <3> QED
      BY <1>1, <3>1 DEF ServerInv, NamedByOwner, Waiting
  <2> QED
    BY <1>6, <1>7, <1>8, <2>1, <2>2 DEF Drains
<1>12. Produced' /\ SoleUser'
  BY <1>0, <1>1 DEF ServerInv, Produced, SoleUser
<1>13. Delivered'
  <2> SUFFICES ASSUME NEW r \in first_use
               PROVE  /\ got[r] + queue'[r] <= want[r]
                      /\ pending[id_of[r]] = r => seen'[id_of[r]] = got[r] + queue'[r]
                      /\ done'[r] => got[r] + queue'[r] = want[r]
                      /\ h[r] = "answered" => got[r] = want[r]
    BY <1>0, <1>1 DEF Delivered, HandedOut
  <2>1. /\ got[r] + queue[r] <= want[r]
        /\ done[r] => got[r] + queue[r] = want[r]
        /\ h[r] = "answered" => got[r] = want[r]
        /\ r \in Seqs
    BY <1>1 DEF ServerInv, Delivered, HandedOut
  <2>2. CASE pending[id_of[r]] = r
    BY <1>6, <1>7, <1>8, <2>1, <2>2 DEF Drains
  <2>3. CASE pending[id_of[r]] # r
    BY <1>6, <1>7, <1>8, <2>1, <2>3 DEF Drains
  <2> QED
    BY <2>2, <2>3
<1>14. LookedBack'
  <2>1. Running' = Running
    BY <1>1 DEF Running
  <2>2. ASSUME MaxNumSeqs <= Window PROVE Unaware' = {}
    <3> SUFFICES ASSUME NEW k \in Unaware' PROVE FALSE
      OBVIOUS
    <3>1. /\ k \in 1..Len(finished) /\ finished[k] \in Seqs
          /\ pending[id_of[finished[k]]] = finished[k] /\ ~done'[finished[k]]
      BY <1>0, <1>1 DEF Unaware
    <3>2. k \in Unaware
      <4>1. ~done[finished[k]]
        BY <1>7, <1>8, <3>1 DEF Drains
      <4> QED
        BY <3>1, <4>1 DEF Unaware
    <3>3. PICK n \in Nat : n + Cardinality(Running) <= MaxNumSeqs /\ k > Len(finished) - n
      BY <1>0, <2>2, <3>2 DEF ServerInv, LookedBack
    <3>4. n <= Window /\ Window \in Nat
      <4>1. Cardinality(Running) \in Nat /\ MaxNumSeqs \in Nat /\ Window \in Nat
        BY ServerAssumption, FS_CardinalityType DEF ServerInv, LookedBack
      <4> QED
        BY <2>2, <3>3, <4>1
    <3>5. k - (Len(finished) - Len(Recent)) \in 1..Len(Recent)
      BY <1>4, <3>1, <3>3, <3>4
    <3> DEFINE j == k - (Len(finished) - Len(Recent))
    <3>6. Recent[j] = finished[k]
      <4>1. Len(finished) - Len(Recent) + j = k
        BY <1>4, <3>1
      <4> QED
        BY <1>4, <3>5, <4>1
    <3>7. PICK m \in DOMAIN order : order[m] = finished[k]
      BY <1>5, <3>5, <3>6
    <3>8. generated[finished[k]] >= want[finished[k]]
      <4>1. status[finished[k]] = "finished"
        BY <3>1 DEF ServerInv, Produced
      <4>2. generated[finished[k]] = want[finished[k]] /\ want[finished[k]] \in Nat
        BY <1>1, <3>1, <4>1 DEF ServerInv, Produced
      <4> QED
        BY <4>2
    <3>9. finished[k] \in acc.done
      BY <1>7, <3>1, <3>7, <3>8
    <3> QED
      BY <1>8, <3>1, <3>9
  <2> QED
    BY <1>0, <2>1, <2>2 DEF ServerInv, LookedBack
<1> QED
  BY <1>9, <1>10, <1>11, <1>12, <1>13, <1>14 DEF ServerInv

\* A reset empties the tables under the handlers and drops every sequence.
LEMMA ResetKeeps ==
  ASSUME ServerInv, Reset
  PROVE  ServerInv'
<1>0. /\ status' = [s \in Seqs |-> IF status[s] = "out" THEN "out" ELSE "dropped"]
      /\ finished' = <<>> /\ pending' = [i \in Ids |-> Nobody] /\ seen' = [i \in Ids |-> 0]
      /\ resets' = resets + 1 /\ resets < MaxResets
      /\ UNCHANGED <<want, generated, alive, id_of, loop, paused, h, queue, done, got, first_use>>
  BY DEF Reset
<1>1. /\ id_of \in [Seqs -> Ids] /\ first_use \subseteq Seqs /\ Nobody \notin Seqs
      /\ resets \in 0..MaxResets /\ MaxResets \in Nat
  BY ServerAssumption DEF ServerInv, ServerTypeOK
<1>2. /\ status' \in [Seqs -> Status]
      /\ \A s \in Seqs : status'[s] \in {"out", "dropped"}
      /\ \A s \in Seqs : status[s] = "out" => status'[s] = "out"
  BY <1>0 DEF Status
<1>3. \A i \in Ids : pending'[i] = Nobody
  BY <1>0
<1>4. ServerTypeOK'
  <2>1. /\ pending' \in [Ids -> Seqs \cup {Nobody}] /\ seen' \in [Ids -> Nat]
        /\ resets' \in 0..MaxResets
    BY <1>0, <1>1
  <2>2. finished' \in Seq(Seqs)
    <3>1. <<>> \in Seq(Seqs)
      OBVIOUS
    <3> QED
      BY <1>0, <3>1
  <2> QED
    BY <1>0, <1>2, <2>1, <2>2 DEF ServerInv, ServerTypeOK
<1>5. NamedByOwner'
  BY <1>3 DEF NamedByOwner
<1>6. NotEntered'
  BY <1>0, <1>2 DEF ServerInv, NotEntered
<1>7. Produced'
  <2>1. DOMAIN finished' = {}
    BY <1>0
  <2>2. \A s \in Seqs : generated[s] <= want[s]
    BY DEF ServerInv, Produced
  <2> QED
    BY <1>0, <1>2, <2>1, <2>2 DEF Produced
<1>8. SoleUser'
  BY <1>0, <1>2 DEF SoleUser
<1>9. Delivered'
  <2>1. \A r \in first_use : pending'[id_of[r]] # r
    BY <1>1, <1>3
  <2> QED
    BY <1>0, <2>1 DEF ServerInv, Delivered, HandedOut
<1>10. LookedBack'
  <2>1. Running' = {} /\ IsFiniteSet({}) /\ Cardinality({}) = 0
    BY <1>2, FS_EmptySet DEF Running
  <2>2. Unaware' = {}
    <3>1. DOMAIN finished' = {}
      BY <1>0
    <3> QED
      BY <3>1 DEF Unaware
  <2>3. MaxNumSeqs \in Nat
    BY ServerAssumption
  <2>4. 0 + 0 <= MaxNumSeqs
    BY <2>3
  <2> QED
    BY <2>1, <2>2, <2>3, <2>4 DEF LookedBack
<1> QED
  BY <1>4, <1>5, <1>6, <1>7, <1>8, <1>9, <1>10 DEF ServerInv

-----------------------------------------------------------------------------
\* Whatever runs next.
LEMMA ServerStepKeeps ==
  ASSUME ServerInv, [ServerNext]_serverVars
  PROVE  ServerInv'
<1>1. CASE \E r \in Seqs : Refuse(r) \/ Handler(r) \/ Disconnect(r)
  BY <1>1, HandlersKeep
<1>2. CASE \E r \in Seqs : Accept(r)
  BY <1>2, AcceptKeeps
<1>3. CASE EngineMoves
  <2>1. loop = "step" \/ loop = "emitted"
    BY <1>3 DEF EngineMoves
  <2> QED
    BY <1>3, <2>1, BatchChanges, FinishedKeeps
<1>4. CASE BeginStep \/ EndStep \/ StepRaises \/ SetFault
  BY <1>4, LoopSteps
<1>5. CASE Drain
  BY <1>5, DrainKeeps
<1>6. CASE Reset
  BY <1>6, ResetKeeps
<1>7. CASE UNCHANGED serverVars
  <2>1. /\ UNCHANGED <<want, status, generated, alive, id_of, loop, paused, finished, resets>>
        /\ UNCHANGED <<pending, seen, h, queue, done, got, first_use>>
    BY <1>7 DEF serverVars, engineVars, sourceVars, tableVars
  <2>2. ServerTypeOK' /\ NamedByOwner' /\ NotEntered'
    BY <2>1 DEF ServerInv, ServerTypeOK, NamedByOwner, NotEntered
  <2>3. Produced' /\ SoleUser' /\ Delivered'
    BY <2>1 DEF ServerInv, Produced, SoleUser, Delivered, HandedOut
  <2>4. Running' = Running /\ Unaware' = Unaware
    BY <2>1 DEF Running, Unaware
  <2>5. LookedBack'
    BY <2>1, <2>4 DEF ServerInv, LookedBack
  <2> QED
    BY <2>2, <2>3, <2>5 DEF ServerInv
<1> QED
  BY <1>1, <1>2, <1>3, <1>4, <1>5, <1>6, <1>7 DEF ServerNext, Engine

\* The server's inductive invariant holds always.
THEOREM ServerInvariant == ServerSpec => []ServerInv
<1> QED
  BY ServerInitInv, ServerStepKeeps, PTL DEF ServerSpec

\* What a request with a fresh id receives is what it asked for, and an answer
\* that ended by itself is whole, for all requests, ids and batches.
THEOREM AnswersAreWhole == ServerSpec => []WholeAnswer
<1>1. ServerInv => WholeAnswer
  BY DEF ServerInv, Delivered, HandedOut, WholeAnswer
<1> QED
  BY <1>1, ServerInvariant, PTL

\* A handler that ran to its end has left no entry behind - the only entries
\* nobody waits for are those of streams that were never started - and between
\* steps a registered request that has finished knows it.
THEOREM EntriesAreLive == ServerSpec => []PendingIsLive
<1>1. ServerInv => PendingIsLive
  <2> SUFFICES ASSUME ServerInv PROVE PendingIsLive
    OBVIOUS
  <2>1. \A i \in Ids : pending[i] # Nobody => h[pending[i]] \in Waiting \cup {"opening", "unstarted"}
    BY DEF ServerInv, NamedByOwner
  <2>2. ASSUME loop = "idle", MaxNumSeqs <= Window, NEW i \in DOMAIN finished,
               pending[id_of[finished[i]]] = finished[i]
        PROVE  done[pending[id_of[finished[i]]]]
    <3>1. Unaware = {}
      BY <2>2 DEF ServerInv, LookedBack
    <3> QED
      BY <2>2, <3>1 DEF Unaware
  <2> QED
    BY <2>1, <2>2 DEF ServerInv, PendingIsLive
<1> QED
  BY <1>1, ServerInvariant, PTL
=============================================================================
