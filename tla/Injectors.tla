----------------------------- MODULE Injectors -----------------------------
(***************************************************************************)
(* What the injectors of llmkit/chaos.py do to their targets, scenario     *)
(* after scenario of chaos_run.py's suite, and suite after suite.          *)
(*                                                                         *)
(* An injector works by calls - an HTTP post, kubectl, nvidia-smi - one    *)
(* after the other; the parts of a composite fault interleave.  A call     *)
(* works, is refused and nobody looks, or raises and ends the suite        *)
(* without a CLEAR.                                                        *)
(* X_Y is a wrong variant of X, unused by the model.                       *)
(***************************************************************************)
EXTENDS Integers, Sequences, FiniteSets, FiniteSetsExt, SequencesExt

CONSTANTS
  Servers, Pods,               \* simulated replicas; names a pod may have
  Victim, Victim2, Namespace,  \* --victim, --victim2; whether --namespace is given
  Suite,                       \* the names of the scenarios, one after the other
  Deployed, MaxPods,           \* pods the controller keeps up; --max-pods
  PowerLimits, Watts,          \* what the device may be limited to, in half watts; --watts
  MaxSuites, MaxRefused        \* bounds

Names == {"gray_failure", "replica_kill", "error_storm", "provider_outage", "traffic_spike",
          "gpu_throttle", "correlated", "partition"}
ASSUME InjectorsAssumption ==
  /\ Suite \in Seq(Names) \ {<<>>} /\ IsFiniteSet(Pods)
  /\ {Deployed, MaxPods, Watts, MaxRefused} \subseteq Nat /\ MaxSuites \in Nat \ {0}
  /\ PowerLimits \subseteq Nat
  /\ {Victim, Victim2} \subseteq Servers /\ Namespace \in BOOLEAN /\ Deployed <= Cardinality(Pods)

VARIABLES
  scenario,                    \* its number in the suite
  stage,                       \* "steady", "applying", "faulty", "clearing", "cleared", "aborted"
  calls,                       \* of each fault of the scenario: the calls still to make
  affected,                    \* KubectlFault._affected, of each fault
  original,                    \* GPUThrottleFault._original, of each fault
  world,                       \* [faults: of each server, breaker_open, present, partitioned: pods, limit]
  suites,                      \* how often the suite was started
  before, refused, touched     \* history: the world before INJECT, calls refused, pods acted on

injectorVars == <<scenario, stage, calls, affected, original, world, suites, before, refused, touched>>

-----------------------------------------------------------------------------
Fault(kind, on) == [kind |-> kind, on |-> on]
SCENARIOS ==
  [gray_failure |-> <<Fault("throttle", Victim)>>,
   replica_kill |-> <<IF Namespace THEN Fault("kill", "pods") ELSE Fault("pause", Victim)>>,
   error_storm |-> <<Fault("errors", Victim)>>,
   provider_outage |-> <<Fault("outage", "gateway")>>,
   traffic_spike |-> <<Fault("full_speed", Victim)>>,
   gpu_throttle |-> <<Fault("gpu", "device")>>,
   correlated |-> <<Fault("throttle", Victim), Fault("errors", Victim2)>>]

\* KubectlFault also partitions; no scenario of the table does.
Faults == IF Suite[scenario] = "partition" THEN <<Fault("partition", "pods")>> ELSE SCENARIOS[Suite[scenario]]
Ask(do, on, with) == [do |-> do, on |-> on, with |-> with]

\* What a call does to its target.  A new pod carries no label.
Effect(c) ==
  CASE c.do = "fault" -> [world EXCEPT !.faults[c.on] = @ \cup {c.with}]
    [] c.do = "relieve" -> [world EXCEPT !.faults[c.on] = @ \ {c.with}]
    [] c.do = "heal" -> [world EXCEPT !.faults[c.on] = {}]
    [] c.do = "open" -> [world EXCEPT !.breaker_open = TRUE]
    [] c.do = "close" -> [world EXCEPT !.breaker_open = FALSE]
    [] c.do = "delete" -> [world EXCEPT !.present = @ \ {c.on}, !.partitioned = @ \ {c.on}]
    [] c.do = "label" -> [world EXCEPT !.partitioned = @ \cup ({c.on} \cap world.present)]
    [] c.do = "unlabel" -> [world EXCEPT !.partitioned = @ \ {c.on}]
    [] c.do = "limit" -> [world EXCEPT !.limit = c.with]

\* int(float(cur)): nvidia-smi shows fractions of a watt and takes whole ones.
NoLimit == -1
WholeWatts(limit) == limit \div 2
Limited(watts) == 2 * watts

EachOf(do, pods) == [i \in DOMAIN pods |-> Ask(do, pods[i], "")]
ApplyCalls(f, pods, read) ==
  CASE f.kind \in {"throttle", "pause", "errors"} -> <<Ask("fault", f.on, f.kind)>>
    [] f.kind = "full_speed" -> <<Ask("relieve", f.on, "throttle")>>
    [] f.kind = "outage" -> <<Ask("open", f.on, "")>>
    [] f.kind = "kill" -> EachOf("delete", pods)
    [] f.kind = "partition" -> EachOf("label", pods)
    [] f.kind = "gpu" -> IF read = NoLimit THEN <<>> ELSE <<Ask("limit", f.on, Limited(Watts))>>

\* Killed pods are left to the controller; a limit that could not be read is
\* not restored.
Restored_Relisted(i) == CHOOSE ps \in SetToAllKPermutations(world.present) : Len(ps) = Len(affected[i])
Restored(i) == affected[i]
ClearCalls(i) ==
  LET f == Faults[i]
  IN CASE f.kind \in {"throttle", "full_speed", "pause", "errors"} -> <<Ask("heal", f.on, "")>>
       [] f.kind = "outage" -> <<Ask("close", f.on, "")>>
       [] f.kind = "partition" -> EachOf("unlabel", Restored(i))
       [] f.kind = "kill" -> <<>>
       [] f.kind = "gpu" -> IF original[i] = NoLimit THEN <<>> ELSE <<Ask("limit", f.on, Limited(original[i]))>>

-----------------------------------------------------------------------------
\* INJECT: kubectl lists the pods in any order, up to max_pods of them; the
\* power limit is read, unless that fails.
Listing == {SubSeq(ps, 1, Min({MaxPods, Len(ps)})) : ps \in SetToSeqs(world.present)}
Injects ==
  /\ stage = "steady"
  /\ \E pods \in Listing, read \in {NoLimit, WholeWatts(world.limit)} :
       /\ affected' = [i \in DOMAIN Faults |-> IF Faults[i].kind \in {"kill", "partition"} THEN pods ELSE <<>>]
       /\ original' = [i \in DOMAIN Faults |-> IF Faults[i].kind = "gpu" THEN read ELSE NoLimit]
       /\ calls' = [i \in DOMAIN Faults |-> ApplyCalls(Faults[i], pods, read)]
  /\ stage' = "applying" /\ before' = world /\ refused' = 0 /\ touched' = {}
  /\ UNCHANGED <<scenario, world, suites>>

\* A post's status and kubectl's exit code are not looked at; a timeout raises.
CallReturns(i) ==
  LET c == Head(calls[i])
  IN /\ \/ world' = Effect(c) /\ UNCHANGED refused
        \/ refused < MaxRefused /\ refused' = refused + 1 /\ UNCHANGED world
     /\ calls' = [calls EXCEPT ![i] = Tail(@)]
     /\ touched' = (IF c.do \in {"label", "delete"} THEN touched \cup {c.on} ELSE touched)
     /\ UNCHANGED stage
CallRaises(i) ==
  /\ world' \in {world, Effect(Head(calls[i]))}
  /\ stage' = "aborted" /\ calls' = [j \in DOMAIN calls |-> <<>>]
  /\ UNCHANGED <<refused, touched>>
MakeCall ==
  /\ stage \in {"applying", "clearing"}
  /\ \E i \in DOMAIN calls : calls[i] # <<>> /\ (CallReturns(i) \/ CallRaises(i))
  /\ UNCHANGED <<scenario, affected, original, suites, before>>

\* The gather returns when every part has.
Gathers ==
  /\ stage \in {"applying", "clearing"} /\ \A i \in DOMAIN calls : calls[i] = <<>>
  /\ stage' = (IF stage = "applying" THEN "faulty" ELSE "cleared")
  /\ UNCHANGED <<scenario, calls, affected, original, world, suites, before, refused, touched>>

Clears ==
  /\ stage = "faulty"
  /\ stage' = "clearing" /\ calls' = [i \in DOMAIN Faults |-> ClearCalls(i)]
  /\ UNCHANGED <<scenario, affected, original, world, suites, before, refused, touched>>

\* cmd_suite goes on to the next scenario, on new injectors; who runs it may
\* start it anew, also after it raised.
Continue ==
  /\ \/ stage = "cleared" /\ scenario < Len(Suite) /\ scenario' = scenario + 1 /\ UNCHANGED suites
     \/ /\ stage = "aborted" \/ (stage = "cleared" /\ scenario = Len(Suite))
        /\ suites < MaxSuites /\ suites' = suites + 1 /\ scenario' = 1
  /\ stage' = "steady" /\ calls' = <<>> /\ affected' = <<>> /\ original' = <<>>
  /\ before' = world /\ refused' = 0 /\ touched' = {}
  /\ UNCHANGED world

\* The controller replaces a missing pod; an opened breaker times out.
World ==
  /\ \/ /\ Cardinality(world.present) < Deployed
        /\ \E p \in Pods \ world.present : world' = [world EXCEPT !.present = @ \cup {p}]
     \/ world.breaker_open /\ world' = [world EXCEPT !.breaker_open = FALSE]
  /\ UNCHANGED <<scenario, stage, calls, affected, original, suites, before, refused, touched>>

InjectorsInit ==
  /\ scenario = 1 /\ stage = "steady" /\ calls = <<>> /\ affected = <<>> /\ original = <<>>
  /\ \E up \in SUBSET Pods, power \in PowerLimits :
       /\ Cardinality(up) = Deployed
       /\ world = [faults |-> [s \in Servers |-> {}], breaker_open |-> FALSE,
                   present |-> up, partitioned |-> {}, limit |-> power]
  /\ suites = 1 /\ before = world /\ refused = 0 /\ touched = {}
InjectorsNext == Injects \/ MakeCall \/ Gathers \/ Clears \/ Continue \/ World
InjectorsSpec == InjectorsInit /\ [][InjectorsNext]_injectorVars

-----------------------------------------------------------------------------
\* A scenario that was cleared, with no call refused, leaves no fault that was
\* not there before it - a power limit comes back up to its fraction of a watt,
\* and every pod that was partitioned is let back, whatever pods came and went
\* meanwhile - and no scenario acts on more pods than max_pods.
FaultsAreUndone ==
  /\ (stage = "cleared" /\ refused = 0) =>
       /\ \A s \in Servers : world.faults[s] \subseteq before.faults[s]
       /\ world.partitioned \subseteq before.partitioned
       /\ before.limit - world.limit \in {0, 1}
       /\ world.breaker_open => before.breaker_open
  /\ Cardinality(touched) <= MaxPods
=============================================================================
