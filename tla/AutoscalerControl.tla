-------------------------- MODULE AutoscalerControl --------------------------
(***************************************************************************)
(* The control loop of projects/11-autoscaler (autoscaler.py control): it  *)
(* scrapes an engine's metrics, reads the Deployment's replicas, decides,  *)
(* and runs kubectl scale, once per interval.  The engine and kubectl are  *)
(* external: the load changes at any time, metrics may be missing, and a   *)
(* flaky kubectl may fail or time out at each call.                        *)
(*                                                                         *)
(* Times are kept as ages, in intervals, and capped where the loop no      *)
(* longer tells them apart.  X_Y is a wrong variant of X.                  *)
(***************************************************************************)
EXTENDS ScalingPolicy

CONSTANTS
  Loads,                 \* what vllm:num_requests_waiting may be
  QueueTarget,           \* --target
  InitialReplicas        \* what the Deployment may be found with

ASSUME ControlAssumption ==
  /\ Loads \subseteq Nat /\ QueueTarget \in Nat \ {0} /\ InitialReplicas \subseteq Nat
  /\ 0 \notin {MinReplicas, UpCooldown, DownCooldown, Stabilization}

VARIABLES
  deployed,              \* the Deployment's spec.replicas
  waiting, kv_full,      \* the metrics; kv_full: cache usage is at least 0.9
  metrics,               \* whether the endpoint serves them
  kubectl,               \* "ok" or "flaky"
  alive,                 \* the loop has not died of an uncaught exception
  up_age, down_age,      \* now - last_up, now - last_down
  low_age,               \* None, or now - low_since
  low_run,               \* history: the age of the run of low polls up to now, or None
  read_ok                \* history: the last poll read the true number of replicas

world == <<waiting, kv_full, metrics, kubectl>>
loop == <<alive, up_age, down_age, low_age, low_run, read_ok>>
controlVars == <<deployed, world, loop>>

-----------------------------------------------------------------------------
Aged(age, cap) == IF age = None THEN None ELSE Lower(age + 1, cap)

\* ceil(current * waiting_per_replica / target) within the bounds, or one more
\* replica when the KV cache is full and the queue does not ask for more.
Clamp(n) == Higher(MinReplicas, Lower(MaxReplicas, n))
Want(current) ==
  LET want == Clamp(IF current = 0 THEN 0 ELSE CeilDiv(waiting, QueueTarget))
  IN IF kv_full /\ want <= current THEN Lower(current + 1, MaxReplicas) ELSE want

\* What _current_replicas may return: 1 when kubectl fails.
Reads == IF kubectl = "ok" THEN {deployed} ELSE {deployed, 1}
\* What _scale may leave behind: its failure goes unnoticed.
ScaledTo(n) == IF kubectl = "ok" THEN {n} ELSE {n, deployed}

\* The clocks after a poll and the sleep that follows it.
Clocks(up, down, low) ==
  /\ up_age' = Aged(up, UpCooldown)
  /\ down_age' = Aged(down, DownCooldown)
  /\ low_age' = Aged(low, Stabilization)

LowForWindow_NoWindow == down_age >= DownCooldown
LowForWindow == low_age >= Stabilization /\ down_age >= DownCooldown

UpDue(current) == Want(current) > current /\ up_age >= UpCooldown
DownDue(current) == Want(current) < current /\ low_age # None /\ LowForWindow

\* _scale sets the wanted number at once, up or down.
Up(current) ==
  /\ UpDue(current)
  /\ deployed' \in ScaledTo(Want(current))
  /\ Clocks(0, down_age, None)

Down(current) ==
  /\ DownDue(current)
  /\ deployed' \in ScaledTo(Want(current))
  /\ Clocks(up_age, 0, None)

WaitLow_Restarts(current) ==
  /\ Want(current) < current /\ ~DownDue(current)
  /\ Clocks(up_age, down_age, 0)
  /\ UNCHANGED deployed
WaitLow(current) ==
  /\ Want(current) < current /\ ~DownDue(current)
  /\ Clocks(up_age, down_age, Higher(low_age, 0))
  /\ UNCHANGED deployed

Keep(current) ==
  /\ Want(current) >= current /\ ~UpDue(current)
  /\ Clocks(up_age, down_age, None)
  /\ UNCHANGED deployed

Poll ==
  /\ alive /\ metrics
  /\ \E current \in Reads :
       /\ Up(current) \/ Down(current) \/ WaitLow(current) \/ Keep(current)
       /\ read_ok' = (current = deployed)
  /\ low_run' = IF Want(deployed) < deployed
                THEN Aged(Higher(low_run, 0), Stabilization) ELSE None
  /\ UNCHANGED <<world, alive>>

\* Without metrics the loop only sleeps.
NoMetrics ==
  /\ alive /\ ~metrics
  /\ Clocks(up_age, down_age, low_age)
  /\ low_run' = Aged(low_run, Stabilization)
  /\ UNCHANGED <<deployed, world, alive, read_ok>>

\* subprocess.run raises TimeoutExpired, which nothing catches: while reading,
\* or while scaling, when the request may already have reached the cluster.
KubectlTimeout ==
  /\ alive /\ metrics /\ kubectl = "flaky"
  /\ alive' = FALSE
  /\ deployed' \in {deployed} \cup {Want(c) : c \in {r \in Reads : UpDue(r) \/ DownDue(r)}}
  /\ UNCHANGED <<world, up_age, down_age, low_age, low_run, read_ok>>

\* The engine's load and the health of what the loop depends on.
WorldChanges ==
  /\ waiting' \in Loads /\ kv_full' \in BOOLEAN
  /\ metrics' \in BOOLEAN /\ kubectl' \in {"ok", "flaky"}
  /\ UNCHANGED <<deployed, loop>>

ControlInit ==
  /\ deployed \in InitialReplicas
  /\ waiting \in Loads /\ kv_full = FALSE
  /\ metrics \in BOOLEAN /\ kubectl = "ok"
  /\ alive = TRUE
  /\ up_age = UpCooldown /\ down_age = DownCooldown    \* last_up = last_down = 0.0
  /\ low_age = None /\ low_run = None
  /\ read_ok = TRUE

ControlNext == Poll \/ NoMetrics \/ KubectlTimeout \/ WorldChanges
\* while True: a live loop polls again after every sleep.
ControlSpec == ControlInit /\ [][ControlNext]_controlVars /\ WF_controlVars(Poll \/ NoMetrics)

-----------------------------------------------------------------------------
\* The loop sets the Deployment only to numbers within its bounds.
ControlTypeOK ==
  /\ deployed \in InitialReplicas \cup MinReplicas..MaxReplicas
  /\ up_age \in 0..UpCooldown /\ down_age \in 0..DownCooldown
  /\ low_age \in {None} \cup 0..Stabilization
  /\ low_run \in {None} \cup 0..Stabilization

\* The loop lowers a Deployment whose replicas it has read only after every
\* poll of a whole stabilization window saw it over-provisioned.
Shrinks == deployed' < deployed
ReadShrinkStabilized ==
  [][Shrinks /\ alive' /\ read_ok' => low_run >= Stabilization]_controlVars

\* README: the loop "respects cooldowns and the stabilization window".
ShrinkStabilized == [][Shrinks => low_run >= Stabilization]_controlVars

\* Once the load is steady and metrics and kubectl work, the Deployment settles
\* at what the load asks for: at the maximum while the KV cache stays full.
Goal == IF kv_full THEN MaxReplicas ELSE Clamp(CeilDiv(waiting, QueueTarget))
Steady(w, full) ==
  alive /\ metrics /\ kubectl = "ok" /\ waiting = w /\ kv_full = full
Converges ==
  \A w \in Loads, full \in BOOLEAN :
    <>[]Steady(w, full) => <>[](deployed = Goal)
=============================================================================
