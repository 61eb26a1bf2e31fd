----------------------------- MODULE Autoscaler -----------------------------
(***************************************************************************)
(* The autoscaled replica pool of llmkit/autoscale.py, simulate().  One    *)
(* pass of its loop is one PoolTick: the queue moves, the signal is turned *)
(* into a wanted number of replicas, the policy adds or drains replicas,   *)
(* and replicas whose cold start or drain is over change state.            *)
(*                                                                         *)
(* Time is counted in ticks of dt_s.  The list of replicas is a function   *)
(* from replica id to replica: ids grow, so the list is in id order.  The  *)
(* totals simulate() reports (served, dropped, costs) are left out.        *)
(* X_Y is a wrong variant of X, unused by the model.                       *)
(***************************************************************************)
EXTENDS ScalingPolicy

CONSTANTS
  Signals,               \* the values of cfg.signal to consider
  Target,                \* cfg.target, for each of them
  HeadroomPct,           \* cfg.headroom_factor, in percent
  Predictive,            \* cfg.predictive_horizon_s > 0
  MaxUpStep, MaxDownStep,
  ColdStarts,            \* what cfg.cold_start_s * jitter can be, in ticks
  DrainTicks,            \* cfg.drain_s
  Offers,                \* what may arrive in a tick
  ServedPerTick,              \* what a replica serves in a tick
  MaxQueue,
  Duration               \* duration_s, in ticks

ASSUME ScalerAssumption ==
  /\ Target \in [Signals -> Nat \ {0}]
  /\ HeadroomPct \in Nat /\ Predictive \in BOOLEAN
  /\ MaxUpStep \in Nat \ {0} /\ MaxDownStep \in Nat \ {0}
  /\ ColdStarts \subseteq Nat /\ ColdStarts # {} /\ DrainTicks \in Nat
  /\ Offers \subseteq Nat /\ ServedPerTick \in Nat \ {0}
  /\ MaxQueue \in Nat /\ Duration \in Nat

VARIABLES
  signal,                \* cfg.signal
  t,
  replicas,              \* replica id -> its state and when that state is due to end
  next_id,
  queue,
  last_up, last_down,
  low_since,             \* None, or the tick since which the signal is low
  low_for                \* history: for how many ticks in a row it has been low

scalerVars == <<signal, t, replicas, next_id, queue, last_up, last_down, low_since, low_for>>

LongAgo == -(UpCooldown + DownCooldown + 1)       \* -1e9 in the code
Replica == [state : {"starting", "ready", "draining"}, due : Nat]

-----------------------------------------------------------------------------
InState(st) == {i \in DOMAIN replicas : replicas[i].state = st}
\* is_serving: ready, and its cold start is over.
ready == {i \in InState("ready") : t >= replicas[i].due}
starting == InState("starting")
n_ready == Cardinality(ready)
n_total_IgnoresStarting == n_ready
n_total == n_ready + Cardinality(starting)

\* What the ready replicas serve in a tick, and the queue it leaves: what
\* exceeds max_queue is dropped.
Served(offered) == Lower(queue + offered, n_ready * ServedPerTick)
QueueAfter(offered) == Lower(queue + offered - Served(offered), MaxQueue)

\* The signal times the number of replicas, as a fraction: what is left of
\* ceil(current * metric / target) when the metric is a value per replica.
Demand(offered) ==
  LET n == Higher(n_ready, 1)
      q == QueueAfter(offered)
  IN CASE signal = "gpu_util" ->
            IF offered * 100 > n_ready * ServedPerTick * 35
            THEN [num |-> 100 * n, den |-> 1]
            ELSE [num |-> 100 * offered, den |-> ServedPerTick]
       [] signal = "running_requests" -> 
            [num |-> Lower(q + Served(offered), n_ready * 64), den |-> 1]
       [] signal = "ttft_p95" -> [num |-> 50 * n + 120 * q, den |-> 1]
       [] OTHER -> [num |-> q, den |-> 1]

desired_replicas(d) ==
  Higher(MinReplicas, Lower(MaxReplicas, CeilDiv(d.num * HeadroomPct, d.den * Target[signal] * 100)))

\* Prediction raises the signal by any slope once there are four samples.
Wanted(offered) ==
  LET want == desired_replicas(Demand(offered))
  IN IF Predictive /\ t >= 3 THEN want..MaxReplicas ELSE {want}

-----------------------------------------------------------------------------
\* The replicas after the transitions that end the pass; gone ones are dropped.
Lifecycle(reps) ==
  [i \in {j \in DOMAIN reps : ~(reps[j].state = "draining" /\ t >= reps[j].due)} |->
     IF reps[i].state = "starting" /\ t >= reps[i].due
     THEN [reps[i] EXCEPT !.state = "ready"] ELSE reps[i]]

ScaleUpDue(want) == want > n_total /\ t - last_up >= UpCooldown

ScaleUp(want) ==
  /\ ScaleUpDue(want)
  /\ LET ids == next_id..(next_id + Lower(want - n_total, MaxUpStep) - 1)
     IN /\ next_id' = next_id + Cardinality(ids)
        /\ \E cold \in [ids -> ColdStarts] :
             replicas' = Lifecycle([i \in DOMAIN replicas \cup ids |->
                           IF i \in ids THEN [state |-> "starting", due |-> t + cold[i]]
                           ELSE replicas[i]])
  /\ last_up' = t
  /\ low_since' = None
  /\ UNCHANGED last_down

\* ready[-remove:], the newest of the ready replicas.
Newest_Oldest(remove) == {i \in ready : Cardinality({j \in ready : j < i}) < remove}
Newest(remove) == {i \in ready : Cardinality({j \in ready : j > i}) < remove}

LowLongEnough == /\ t - low_since >= Stabilization
                 /\ t - last_down >= DownCooldown

ScaleDown(want) ==
  /\ ~ScaleUpDue(want)
  /\ want < n_ready
  /\ low_since # None
  /\ LowLongEnough
  /\ LET victims == Newest(Lower(n_ready - want, MaxDownStep))
     IN replicas' = Lifecycle([i \in DOMAIN replicas |->
                      IF i \in victims THEN [state |-> "draining", due |-> t + DrainTicks]
                      ELSE replicas[i]])
  /\ last_down' = t
  /\ low_since' = None
  /\ UNCHANGED <<next_id, last_up>>

Settle == /\ replicas' = Lifecycle(replicas)
          /\ UNCHANGED <<next_id, last_up, last_down>>

\* The signal has just turned low, or has not been low for long enough.
StayLow(want) ==
  /\ ~ScaleUpDue(want)
  /\ want < n_ready
  /\ low_since = None \/ ~LowLongEnough
  /\ low_since' = IF low_since = None THEN t ELSE low_since
  /\ Settle

Hold_LowKept(want) ==
  /\ ~ScaleUpDue(want)
  /\ want >= n_ready
  /\ UNCHANGED low_since
  /\ Settle
Hold(want) ==
  /\ ~ScaleUpDue(want)
  /\ want >= n_ready
  /\ low_since' = None
  /\ Settle

Decide(want) ==
  /\ ScaleUp(want) \/ ScaleDown(want) \/ StayLow(want) \/ Hold(want)
  /\ low_for' = IF want < n_ready THEN low_for + 1 ELSE 0

PoolTick ==
  /\ t < Duration
  /\ \E offered \in Offers :
       /\ queue' = QueueAfter(offered)
       /\ \E want \in Wanted(offered) : Decide(want)
  /\ t' = t + 1
  /\ UNCHANGED signal

PoolInit ==
  /\ signal \in Signals
  /\ t = 0
  /\ replicas = [i \in 0..(MinReplicas - 1) |-> [state |-> "ready", due |-> 0]]
  /\ next_id = MinReplicas
  /\ queue = 0
  /\ last_up = LongAgo /\ last_down = LongAgo
  /\ low_since = None /\ low_for = 0

Done == t >= Duration /\ UNCHANGED scalerVars
PoolSpec == PoolInit /\ [][PoolTick \/ Done]_scalerVars

-----------------------------------------------------------------------------
\* Every variable has its type.
ScalerTypeOK ==
  /\ signal \in Signals
  /\ t \in Nat
  /\ next_id \in Nat
  /\ DOMAIN replicas \subseteq 0..(next_id - 1)
  /\ replicas \in [DOMAIN replicas -> Replica]
  /\ queue \in Nat
  /\ last_up \in Nat \cup {LongAgo} /\ last_down \in Nat \cup {LongAgo}
  /\ low_since \in Nat \cup {None} /\ low_for \in Nat

\* Replicas that serve or load never outnumber cfg.max_replicas, although cold
\* starts overlap: a decision counts the ones still starting (n_total).
WithinMax == Cardinality(InState("ready") \cup starting) <= MaxReplicas

\* The warm floor: the replicas the pool began with serve for ever; scaling
\* down takes the newest and stops at cfg.min_replicas.
WarmFloor == 0..(MinReplicas - 1) \subseteq ready

\* Replicas are drained only when the signal was low at this pass and at every
\* pass of the stabilization window before it, with no scale-up in between.
Drains == \E i \in ready : i \notin DOMAIN replicas' \/ replicas'[i].state = "draining"
DrainIsSustained == Drains => low_for' > Stabilization /\ t - last_up > Stabilization
ScaleDownSustained == [][DrainIsSustained]_scalerVars

-----------------------------------------------------------------------------
\* A replica counted as ready serves; low_since is set only by a signal that
\* has been low ever since, and never before the last scale-up.
ReadyServes == \A i \in InState("ready") : replicas[i].due <= t
LowTracked ==
  /\ last_up < t
  /\ low_since # None => /\ last_up < low_since
                         /\ low_for >= t - low_since

\* The inductive invariant of the pool.
ScalerInv ==
  /\ ScalerTypeOK
  /\ ReadyServes
  /\ WithinMax
  /\ WarmFloor
  /\ LowTracked
=============================================================================
