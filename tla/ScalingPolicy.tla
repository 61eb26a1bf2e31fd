--------------------------- MODULE ScalingPolicy ---------------------------
(***************************************************************************)
(* The policy that the simulator and the control loop of the autoscaler    *)
(* both follow: bounds, cooldowns and a stabilization window, in ticks.    *)
(***************************************************************************)
EXTENDS Integers, FiniteSets

CONSTANTS MinReplicas, MaxReplicas, UpCooldown, DownCooldown, Stabilization

ASSUME PolicyAssumption ==
  /\ MinReplicas \in Nat /\ MaxReplicas \in Nat /\ MinReplicas <= MaxReplicas
  /\ UpCooldown \in Nat /\ DownCooldown \in Nat /\ Stabilization \in Nat

None == -1                     \* no low_since

Lower(x, y) == IF x <= y THEN x ELSE y
Higher(x, y) == IF x >= y THEN x ELSE y
CeilDiv(x, y) == (x + y - 1) \div y
=============================================================================
