--------------------------- MODULE MCControlPlane ---------------------------
(***************************************************************************)
(* What decides in front of the servers and about them.  The gateway's     *)
(* requests - two of one tenant, one of them a stream, and one of another, *)
(* on a self-hosted primary with room for one and a paid API behind it -   *)
(* and the parts that share no state with them: a tenant's quota, the      *)
(* retry budget with the cache, and a hedged call.  The simulated pool,    *)
(* with one target per signal, small enough that each of them scales up    *)
(* and down, and the control loop on a Deployment found at, below or above *)
(* its bounds.  The initial state says which one moves.                    *)
(***************************************************************************)
EXTENDS Gateway, Quota, Resilience, Autoscaler, AutoscalerControl

CONSTANTS r1, r2, r3, ta, tb, prim, paid

VARIABLE part

MCTenantOf == [r \in Requests |-> IF r = r3 THEN tb ELSE ta]
MCMaxConcurrent == [x \in Tenants |-> 1]
MCTier == [b \in Backends |-> IF b = paid THEN 2 ELSE 1]
MCCapacity == [b \in Backends |-> IF b = paid THEN 2 ELSE 1]
MCEstimates == {-1, 2}
MCKeyMaps == {<<"k1", "k1", "k1">>, <<"k1", "k2", "k2">>}
AllSignals == {"queue_depth", "gpu_util", "running_requests", "ttft_p95"}
MCTarget == [s \in AllSignals |->
               CASE s = "gpu_util" -> 70 [] s = "ttft_p95" -> 120 [] OTHER -> 2]

MCVars == <<part, gwVars, quotaVars, resilienceVars, hedgeVars, scalerVars, controlVars>>
MCInit ==
  /\ part \in {"requests", "quota", "resilience", "hedge", "pool", "loop"}
  /\ Init /\ QuotaInit /\ ResilienceInit /\ HedgeInit /\ PoolInit /\ ControlInit
  /\ (part # "requests" => keyless = {})
  /\ (part # "resilience" => key_of = <<"k1", "k1", "k1">>)
  /\ (part # "quota" => longest = 0)
  /\ (part # "pool" => signal = "queue_depth")
  /\ (part # "loop" => deployed = 1 /\ waiting = 0 /\ metrics)

\* A step of one part leaves the others alone.
Serving == part = "requests" /\ UNCHANGED <<part, quotaVars, resilienceVars, hedgeVars, scalerVars, controlVars>>
Looping == part = "loop" /\ UNCHANGED <<part, gwVars, quotaVars, resilienceVars, hedgeVars, scalerVars>>
MCNext ==
  \/ Serving /\ Next
  \/ part = "quota" /\ QuotaNext /\ UNCHANGED <<part, gwVars, resilienceVars, hedgeVars, scalerVars, controlVars>>
  \/ part = "resilience" /\ ResilienceNext /\ UNCHANGED <<part, gwVars, quotaVars, hedgeVars, scalerVars, controlVars>>
  \/ part = "hedge" /\ HedgeNext /\ UNCHANGED <<part, gwVars, quotaVars, resilienceVars, scalerVars, controlVars>>
  \/ part = "pool" /\ (PoolTick \/ Done) /\ UNCHANGED <<part, gwVars, quotaVars, resilienceVars, hedgeVars, controlVars>>
  \/ Looping /\ ControlNext
MCSpec ==
  /\ MCInit /\ [][MCNext]_MCVars
  /\ \A r \in Requests : WF_gwVars(Serving /\ Returns(r)) /\ WF_gwVars(Serving /\ Wake(r))
  /\ WF_controlVars(Looping /\ (Poll \/ NoMetrics))

\* Converges where the loop moves.
LoopConverges == part = "loop" => Converges
=============================================================================
