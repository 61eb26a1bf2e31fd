---------------------------- MODULE ScalingProofs ---------------------------
(***************************************************************************)
(* The two autoscalers, which share ScalingPolicy: the simulated pool,     *)
(* then the control loop.                                                  *)
(***************************************************************************)
EXTENDS Autoscaler, AutoscalerControl, FiniteSetTheorems, TLAPS

-----------------------------------------------------------------------------
(***************************************************************************)
(* The replica bounds and the scale-down discipline of the autoscaler, for *)
(* every configuration it can be given.  In each branch of a tick the pool *)
(* becomes Lifecycle(M) for some map M from ids to replicas, so what M     *)
(* must satisfy is stated once (PoolStep) and each branch provides it.     *)
(***************************************************************************)

\* What Lifecycle does to a pool: ready replicas stay as they are, a replica
\* becomes ready only when its cold start is over, drained ones never return.
LEMMA LifecycleStep ==
  ASSUME NEW D, NEW M \in [D -> Replica], t \in Nat, NEW R, R = Lifecycle(M)
  PROVE  /\ DOMAIN R \subseteq D
         /\ R \in [DOMAIN R -> Replica]
         /\ \A i \in DOMAIN R :
              /\ R[i].due = M[i].due
              /\ R[i].state = "ready" => M[i].state = "ready" \/ M[i].due <= t
              /\ R[i].state # "draining" => M[i].state # "draining"
         /\ \A i \in D : M[i].state = "ready" => i \in DOMAIN R /\ R[i] = M[i]
  BY DEF Lifecycle, Replica

\* What a tick serves and what it leaves in the queue are natural numbers.
LEMMA QueueStep ==
  ASSUME ScalerAssumption, PolicyAssumption, ScalerTypeOK, n_ready \in Nat, NEW offered \in Offers
  PROVE  Served(offered) \in Nat /\ QueueAfter(offered) \in Nat /\ offered \in Nat
<1>1. n_ready * ServedPerTick \in Nat
  BY DEF ScalerAssumption, PolicyAssumption
<1>2. offered \in Nat /\ queue \in Nat /\ MaxQueue \in Nat
  BY DEF ScalerAssumption, PolicyAssumption, ScalerTypeOK
<1>3. Served(offered) \in Nat /\ Served(offered) <= queue + offered
  BY <1>1, <1>2 DEF Served, Lower
<1> QED
  BY <1>2, <1>3 DEF QueueAfter, Lower

\* The wanted number of replicas is within the configured bounds.
LEMMA WantedBounded ==
  ASSUME ScalerAssumption, PolicyAssumption, ScalerTypeOK, n_ready \in Nat,
         NEW offered \in Offers, NEW want \in Wanted(offered)
  PROVE  want \in MinReplicas..MaxReplicas
<1> DEFINE d == Demand(offered)
           x == d.num * HeadroomPct
           y == d.den * Target[signal] * 100
<1>1. d.num \in Nat /\ d.den \in Nat \ {0}
  BY QueueStep DEF Demand, ScalerAssumption, PolicyAssumption, Lower, Higher
<1>2. Target[signal] \in Nat \ {0}
  BY DEF ScalerAssumption, PolicyAssumption, ScalerTypeOK
<1>3. x \in Nat
  BY <1>1 DEF ScalerAssumption, PolicyAssumption
<1>4. y \in Nat \ {0}
  <2> HIDE DEF d
  <2>1. d.den * Target[signal] \in Nat \ {0}
    BY <1>1, <1>2
  <2> QED
    BY <2>1
<1>5. CeilDiv(x, y) \in Int
  <2> HIDE DEF x, y
  <2> QED
    BY <1>3, <1>4 DEF CeilDiv
<1>6. desired_replicas(d) \in MinReplicas..MaxReplicas
  <2> HIDE DEF d
  <2> QED
    BY <1>5 DEF desired_replicas, ScalerAssumption, PolicyAssumption, Lower, Higher
<1> QED
  BY <1>6 DEF Wanted, ScalerAssumption, PolicyAssumption

\* The sets the policy counts are finite, disjoint, and n_total counts both.
LEMMA Counts ==
  ASSUME ScalerInv
  PROVE  /\ IsFiniteSet(DOMAIN replicas)
         /\ ready = InState("ready")
         /\ IsFiniteSet(ready) /\ IsFiniteSet(starting)
         /\ n_ready \in Nat
         /\ Cardinality(ready \cup starting) = n_total
         /\ n_total \in Nat
<1>1. IsFiniteSet(DOMAIN replicas)
  <2>1. PICK n : n = next_id - 1
    OBVIOUS
  <2>2. n \in Int
    BY <2>1 DEF ScalerInv, ScalerTypeOK
  <2>3. IsFiniteSet(0..n)
    BY <2>2, FS_Interval
  <2> QED
    BY <2>1, <2>3, FS_Subset DEF ScalerInv, ScalerTypeOK
<1>2. ready = InState("ready")
  BY DEF ScalerInv, ScalerTypeOK, ReadyServes, ready, InState, Replica
<1>3. ready \subseteq DOMAIN replicas /\ starting \subseteq DOMAIN replicas
  BY DEF ready, starting, InState
<1>4. IsFiniteSet(ready) /\ IsFiniteSet(starting)
  BY <1>1, <1>3, FS_Subset
<1>5. ready \cap starting = {}
  BY DEF ready, starting, InState
<1>6. n_ready \in Nat /\ Cardinality(starting) \in Nat
  BY <1>4, FS_CardinalityType DEF n_ready
<1>7. Cardinality(ready \cup starting) = n_total
  <2>1. Cardinality(ready \cup starting)
          = Cardinality(ready) + Cardinality(starting) - Cardinality(ready \cap starting)
    BY <1>4, FS_Union
  <2> QED
    BY <2>1, <1>5, <1>6, FS_EmptySet DEF n_total, n_ready
<1> QED
  BY <1>1, <1>2, <1>4, <1>6, <1>7 DEF n_total

\* A tick that turns the pool into Lifecycle(M) keeps its bounds when M does.
LEMMA PoolStep ==
  ASSUME ScalerAssumption, PolicyAssumption, ScalerInv, t' = t + 1,
         NEW D, NEW M \in [D -> Replica],
         replicas' = Lifecycle(M),
         next_id' \in Nat, D \subseteq 0..(next_id' - 1),
         \A i \in D : M[i].state = "ready" => M[i].due <= t,
         \A i \in 0..(MinReplicas - 1) : i \in D /\ M[i].state = "ready",
         NEW S, IsFiniteSet(S), Cardinality(S) <= MaxReplicas,
         \A i \in D : M[i].state # "draining" => i \in S
  PROVE  /\ DOMAIN replicas' \subseteq 0..(next_id' - 1)
         /\ replicas' \in [DOMAIN replicas' -> Replica]
         /\ ReadyServes' /\ WithinMax' /\ WarmFloor'
<1>0. t \in Nat
  BY DEF ScalerInv, ScalerTypeOK
<1>1. PICK R : R = replicas'
  OBVIOUS
<1>2. /\ DOMAIN R \subseteq D
      /\ R \in [DOMAIN R -> Replica]
      /\ \A i \in DOMAIN R :
           /\ R[i].due = M[i].due
           /\ R[i].state = "ready" => M[i].state = "ready" \/ M[i].due <= t
           /\ R[i].state # "draining" => M[i].state # "draining"
      /\ \A i \in D : M[i].state = "ready" => i \in DOMAIN R /\ R[i] = M[i]
  BY <1>0, <1>1, LifecycleStep
<1>3. ReadyServes'
  <2>1. \A i \in DOMAIN R : R[i].state = "ready" => R[i].due <= t
    BY <1>2
  <2>2. \A i \in DOMAIN R : R[i].due \in Nat
    BY <1>2 DEF Replica
  <2> QED
    BY <1>0, <1>1, <2>1, <2>2 DEF ReadyServes, InState
<1>4. WithinMax'
  <2>1. (InState("ready") \cup starting)' \subseteq S
    BY <1>1, <1>2 DEF InState, starting
  <2>2. /\ IsFiniteSet((InState("ready") \cup starting)')
        /\ Cardinality((InState("ready") \cup starting)') <= Cardinality(S)
    BY <2>1, FS_Subset
  <2>3. Cardinality(S) \in Nat /\ Cardinality((InState("ready") \cup starting)') \in Nat
    BY <2>2, FS_CardinalityType
  <2> QED
    BY <2>2, <2>3 DEF WithinMax, ScalerAssumption, PolicyAssumption
<1>5. WarmFloor'
  <2>1. \A i \in 0..(MinReplicas - 1) : i \in DOMAIN R /\ R[i].state = "ready" /\ R[i].due <= t
    BY <1>2
  <2>2. \A i \in DOMAIN R : R[i].due \in Nat
    BY <1>2 DEF Replica
  <2> QED
    BY <1>0, <1>1, <2>1, <2>2 DEF WarmFloor, ready, InState
<1> QED
  BY <1>1, <1>2, <1>3, <1>4, <1>5

\* The live replicas, which a branch that starts none may use as S above.
LEMMA LiveBounded ==
  ASSUME ScalerInv
  PROVE  /\ IsFiniteSet(InState("ready") \cup starting)
         /\ Cardinality(InState("ready") \cup starting) <= MaxReplicas
         /\ \A i \in DOMAIN replicas :
              replicas[i].state # "draining" => i \in InState("ready") \cup starting
<1>1. \A i \in DOMAIN replicas :
        replicas[i].state # "draining" => i \in InState("ready") \cup starting
  BY DEF ScalerInv, ScalerTypeOK, Replica, InState, starting
<1>2. IsFiniteSet(InState("ready") \cup starting)
  BY Counts, FS_Union
<1> QED
  BY <1>1, <1>2 DEF ScalerInv, WithinMax

\* The floor, read as a fact about the map of replicas.
LEMMA FloorReady ==
  ASSUME ScalerInv
  PROVE  \A i \in 0..(MinReplicas - 1) :
           i \in DOMAIN replicas /\ replicas[i].state = "ready"
  BY DEF ScalerInv, WarmFloor, ready, InState

\* Passes that neither add nor drain leave the pool within its bounds.
LEMMA SettleStep ==
  ASSUME ScalerAssumption, PolicyAssumption, ScalerInv, t' = t + 1, Settle
  PROVE  /\ DOMAIN replicas' \subseteq 0..(next_id' - 1)
         /\ replicas' \in [DOMAIN replicas' -> Replica]
         /\ ReadyServes' /\ WithinMax' /\ WarmFloor'
         /\ ~Drains
<1>1. PICK D : D = DOMAIN replicas
  OBVIOUS
<1>2. PICK M : M = replicas
  OBVIOUS
<1>3. M \in [D -> Replica] /\ D \subseteq 0..(next_id' - 1) /\ next_id' \in Nat
  BY <1>1, <1>2 DEF ScalerInv, ScalerTypeOK, Settle
<1>4. \A i \in D : M[i].state = "ready" => M[i].due <= t
  BY <1>1, <1>2 DEF ScalerInv, ReadyServes, InState
<1>5. \A i \in 0..(MinReplicas - 1) : i \in D /\ M[i].state = "ready"
  BY <1>1, <1>2, FloorReady
<1>6. PICK S : S = InState("ready") \cup starting
  OBVIOUS
<1>7. /\ IsFiniteSet(S) /\ Cardinality(S) <= MaxReplicas
      /\ \A i \in D : M[i].state # "draining" => i \in S
  BY <1>1, <1>2, <1>6, LiveBounded
<1>8. replicas' = Lifecycle(M)
  BY <1>2 DEF Settle
<1>9. /\ DOMAIN replicas' \subseteq 0..(next_id' - 1)
      /\ replicas' \in [DOMAIN replicas' -> Replica]
      /\ ReadyServes' /\ WithinMax' /\ WarmFloor'
  BY <1>3, <1>4, <1>5, <1>7, <1>8, PoolStep
<1>10. ~Drains
  <2>1. t \in Nat
    BY DEF ScalerInv, ScalerTypeOK
  <2>2. \A i \in D : M[i].state = "ready" => i \in DOMAIN replicas' /\ replicas'[i] = M[i]
    BY <2>1, <1>3, <1>8, LifecycleStep
  <2> QED
    BY <2>2, <1>1, <1>2 DEF Drains, ready, InState
<1> QED
  BY <1>9, <1>10

\* Scaling up: the new ids are fresh, and n_total counts every live replica,
\* so the pool ends with at most want <= MaxReplicas of them.
LEMMA ScaleUpStep ==
  ASSUME ScalerAssumption, PolicyAssumption, ScalerInv, t' = t + 1,
         NEW want \in MinReplicas..MaxReplicas, ScaleUp(want)
  PROVE  /\ next_id' \in Nat
         /\ DOMAIN replicas' \subseteq 0..(next_id' - 1)
         /\ replicas' \in [DOMAIN replicas' -> Replica]
         /\ ReadyServes' /\ WithinMax' /\ WarmFloor'
         /\ ~Drains
<1>0. t \in Nat /\ next_id \in Nat
  BY DEF ScalerInv, ScalerTypeOK
<1>1. PICK add : add = Lower(want - n_total, MaxUpStep)
  OBVIOUS
<1>2. add \in Nat \ {0} /\ n_total + add <= MaxReplicas
  <2>1. want > n_total
    BY DEF ScaleUp, ScaleUpDue
  <2>2. n_total \in Nat /\ MaxUpStep \in Nat \ {0} /\ MaxReplicas \in Nat /\ want \in Nat
        /\ want <= MaxReplicas
    BY Counts DEF ScalerAssumption, PolicyAssumption
  <2>3. add = want - n_total \/ add = MaxUpStep
    BY <1>1 DEF Lower
  <2>4. add <= want - n_total
    BY <1>1, <2>2 DEF Lower
  <2> QED
    BY <2>1, <2>2, <2>3, <2>4
<1>3. PICK ids : ids = next_id..(next_id + add - 1)
  OBVIOUS
<1>4. IsFiniteSet(ids) /\ Cardinality(ids) = add
  <2>1. PICK hi : hi = next_id + add - 1
    OBVIOUS
  <2>2. hi \in Int /\ hi - next_id + 1 = add /\ next_id <= hi
    BY <1>0, <1>2, <2>1
  <2>3. IsFiniteSet(next_id..hi) /\ Cardinality(next_id..hi) = hi - next_id + 1
    BY <1>0, <2>2, FS_Interval
  <2> QED
    BY <1>3, <2>1, <2>2, <2>3
<1>5. next_id' = next_id + add
  BY <1>1, <1>3, <1>4 DEF ScaleUp
<1>6. PICK cold \in [ids -> ColdStarts] :
        replicas' = Lifecycle([i \in DOMAIN replicas \cup ids |->
                      IF i \in ids THEN [state |-> "starting", due |-> t + cold[i]]
                      ELSE replicas[i]])
  BY <1>1, <1>3 DEF ScaleUp
<1>7. PICK D : D = DOMAIN replicas \cup ids
  OBVIOUS
<1>8. PICK M : M = [i \in D |-> IF i \in ids THEN [state |-> "starting", due |-> t + cold[i]]
                                ELSE replicas[i]]
  OBVIOUS
<1>9. replicas' = Lifecycle(M)
  BY <1>6, <1>7, <1>8
<1>10. M \in [D -> Replica]
  <2>1. \A i \in ids : t + cold[i] \in Nat
    <3>1. ColdStarts \subseteq Nat
      BY DEF ScalerAssumption, PolicyAssumption
    <3>2. \A i \in ids : cold[i] \in Nat
      BY <3>1
    <3> QED
      BY <1>0, <3>2
  <2>2. replicas \in [DOMAIN replicas -> Replica]
    BY DEF ScalerInv, ScalerTypeOK
  <2> QED
    BY <1>7, <1>8, <2>1, <2>2 DEF Replica
<1>11. next_id' \in Nat /\ D \subseteq 0..(next_id' - 1)
  <2>1. DOMAIN replicas \subseteq 0..(next_id - 1)
    BY DEF ScalerInv, ScalerTypeOK
  <2>2. 0..(next_id - 1) \subseteq 0..(next_id + add - 1)
    BY <1>0, <1>2
  <2>3. ids \subseteq 0..(next_id + add - 1)
    BY <1>0, <1>2, <1>3
  <2>4. D \subseteq 0..(next_id + add - 1)
    BY <1>7, <2>1, <2>2, <2>3
  <2> QED
    BY <1>0, <1>2, <1>5, <2>4
<1>12. \A i \in D : i \notin ids => i \in DOMAIN replicas /\ M[i] = replicas[i]
  BY <1>7, <1>8
<1>13. \A i \in D : i \in ids => M[i].state = "starting"
  BY <1>8
<1>14. \A i \in DOMAIN replicas : i \in D /\ i \notin ids /\ M[i] = replicas[i]
  <2>1. \A i \in DOMAIN replicas : i \in 0..(next_id - 1)
    BY DEF ScalerInv, ScalerTypeOK
  <2>2. \A i \in DOMAIN replicas : i \notin ids
    BY <1>0, <1>2, <1>3, <2>1
  <2> QED
    BY <1>7, <1>8, <2>2
<1>15. \A i \in D : M[i].state = "ready" => M[i].due <= t
  BY <1>12, <1>13 DEF ScalerInv, ReadyServes, InState
<1>16. \A i \in 0..(MinReplicas - 1) : i \in D /\ M[i].state = "ready"
  BY <1>14, FloorReady
<1>17. PICK S : S = (ready \cup starting) \cup ids
  OBVIOUS
<1>18. IsFiniteSet(S) /\ Cardinality(S) <= MaxReplicas
  <2>1. PICK U : U = ready \cup starting
    OBVIOUS
  <2>2. IsFiniteSet(U) /\ Cardinality(U) = n_total /\ n_total \in Nat
    BY <2>1, Counts, FS_Union
  <2>3. IsFiniteSet(U \cap ids) /\ Cardinality(U \cap ids) \in Nat
    BY <2>2, FS_Intersection, FS_CardinalityType
  <2>4. /\ IsFiniteSet(U \cup ids)
        /\ Cardinality(U \cup ids) = Cardinality(U) + Cardinality(ids) - Cardinality(U \cap ids)
    BY <1>4, <2>2, FS_Union
  <2> QED
    BY <1>2, <1>4, <1>17, <2>1, <2>2, <2>3, <2>4 DEF ScalerAssumption, PolicyAssumption
<1>19. \A i \in D : M[i].state # "draining" => i \in S
  BY <1>12, <1>17, LiveBounded, Counts
<1>20. /\ DOMAIN replicas' \subseteq 0..(next_id' - 1)
       /\ replicas' \in [DOMAIN replicas' -> Replica]
       /\ ReadyServes' /\ WithinMax' /\ WarmFloor'
  BY <1>9, <1>10, <1>11, <1>15, <1>16, <1>18, <1>19, PoolStep
<1>21. ~Drains
  <2>1. \A i \in D : M[i].state = "ready" => i \in DOMAIN replicas' /\ replicas'[i] = M[i]
    BY <1>0, <1>9, <1>10, LifecycleStep
  <2> QED
    BY <2>1, <1>14 DEF Drains, ready, InState
<1> QED
  BY <1>11, <1>20, <1>21

\* ready[-remove:] spares the floor: when no more than n_ready - MinReplicas
\* are taken, a floor replica has at least that many newer ones.
LEMMA FloorSpared ==
  ASSUME ScalerAssumption, PolicyAssumption, ScalerInv,
         NEW remove \in Nat, remove <= n_ready - MinReplicas,
         NEW i \in 0..(MinReplicas - 1)
  PROVE  i \notin Newest(remove)
<1>1. PICK newer : newer = {j \in ready : j > i}
  OBVIOUS
<1>2. PICK older : older = {j \in ready : j <= i}
  OBVIOUS
<1>3. ready \subseteq Nat
  BY DEF ScalerInv, ScalerTypeOK, ready, InState
<1>4. ready = newer \cup older /\ newer \cap older = {}
  <2>1. i \in Int
    OBVIOUS
  <2>2. \A j \in ready : (j > i) <=> ~(j <= i)
    BY <1>3, <2>1
  <2> QED
    BY <1>1, <1>2, <2>2
<1>5. IsFiniteSet(newer) /\ IsFiniteSet(older)
  BY <1>1, <1>2, Counts, FS_Subset
<1>6. i \in Nat /\ i + 1 <= MinReplicas
  BY DEF ScalerAssumption, PolicyAssumption
<1>7. Cardinality(older) <= i + 1
  <2>1. older \in SUBSET Nat /\ \A j \in older : j <= i
    BY <1>2, <1>3
  <2> QED
    BY <2>1, <1>6, FS_BoundedSetOfNaturals
<1>8. Cardinality(newer) \in Nat /\ Cardinality(older) \in Nat
  BY <1>5, FS_CardinalityType
<1>9. n_ready = Cardinality(newer) + Cardinality(older)
  <2>1. Cardinality(newer \cup older)
          = Cardinality(newer) + Cardinality(older) - Cardinality(newer \cap older)
    BY <1>5, FS_Union
  <2> QED
    BY <2>1, <1>4, <1>8, FS_EmptySet DEF n_ready
<1>10. Cardinality(newer) >= remove
  BY <1>6, <1>7, <1>8, <1>9 DEF ScalerAssumption, PolicyAssumption
<1> QED
  BY <1>1, <1>8, <1>10 DEF Newest

\* Scaling down: the pool only loses replicas, and the floor is spared.
LEMMA ScaleDownStep ==
  ASSUME ScalerAssumption, PolicyAssumption, ScalerInv, t' = t + 1,
         NEW want \in MinReplicas..MaxReplicas, ScaleDown(want)
  PROVE  /\ DOMAIN replicas' \subseteq 0..(next_id' - 1)
         /\ replicas' \in [DOMAIN replicas' -> Replica]
         /\ ReadyServes' /\ WithinMax' /\ WarmFloor'
<1>0. t \in Nat /\ next_id' = next_id
  BY DEF ScalerInv, ScalerTypeOK, ScaleDown
<1>1. PICK remove : remove = Lower(n_ready - want, MaxDownStep)
  OBVIOUS
<1>2. remove \in Nat /\ remove <= n_ready - MinReplicas
  BY <1>1, Counts DEF ScaleDown, Lower, ScalerAssumption, PolicyAssumption
<1>3. PICK victims : victims = Newest(remove)
  OBVIOUS
<1>4. PICK D : D = DOMAIN replicas
  OBVIOUS
<1>5. PICK M : M = [i \in D |-> IF i \in victims
                                THEN [state |-> "draining", due |-> t + DrainTicks]
                                ELSE replicas[i]]
  OBVIOUS
<1>6. replicas' = Lifecycle(M)
  BY <1>1, <1>3, <1>4, <1>5 DEF ScaleDown
<1>7. M \in [D -> Replica]
  <2>1. replicas \in [DOMAIN replicas -> Replica] /\ t + DrainTicks \in Nat
    BY <1>0 DEF ScalerInv, ScalerTypeOK, ScalerAssumption, PolicyAssumption
  <2> QED
    BY <1>4, <1>5, <2>1 DEF Replica
<1>8. next_id' \in Nat /\ D \subseteq 0..(next_id' - 1)
  BY <1>0, <1>4 DEF ScalerInv, ScalerTypeOK
<1>9. \A i \in D : M[i].state # "draining" => M[i] = replicas[i]
  BY <1>5
<1>10. \A i \in D : M[i].state = "ready" => M[i].due <= t
  BY <1>4, <1>9 DEF ScalerInv, ReadyServes, InState
<1>11. \A i \in 0..(MinReplicas - 1) : i \in D /\ M[i].state = "ready"
  BY <1>2, <1>3, <1>4, <1>5, FloorReady, FloorSpared
<1>12. PICK S : S = InState("ready") \cup starting
  OBVIOUS
<1>13. /\ IsFiniteSet(S) /\ Cardinality(S) <= MaxReplicas
       /\ \A i \in D : M[i].state # "draining" => i \in S
  BY <1>4, <1>9, <1>12, LiveBounded
<1> QED
  BY <1>6, <1>7, <1>8, <1>10, <1>11, <1>13, PoolStep

\* The clocks of the policy, for the branch that a tick takes.
LEMMA ClockStep ==
  ASSUME ScalerAssumption, PolicyAssumption, ScalerInv, t' = t + 1,
         NEW want \in MinReplicas..MaxReplicas,
         Decide(want)
  PROVE  /\ last_up' \in Nat \cup {LongAgo} /\ last_down' \in Nat \cup {LongAgo}
         /\ low_since' \in Nat \cup {None} /\ low_for' \in Nat
         /\ LowTracked'
<1> USE DEF ScalerInv, ScalerTypeOK, LowTracked, None, LongAgo, ScalerAssumption, PolicyAssumption
<1>0. /\ ScaleUp(want) \/ ScaleDown(want) \/ StayLow(want) \/ Hold(want)
      /\ low_for' = IF want < n_ready THEN low_for + 1 ELSE 0
  BY DEF Decide
<1>1. CASE ScaleUp(want)
  <2>1. last_up' = t /\ low_since' = None /\ last_down' = last_down
    BY <1>1 DEF ScaleUp
  <2> QED
    BY <1>0, <2>1
<1>2. CASE ScaleDown(want)
  <2>1. last_up' = last_up /\ low_since' = None /\ last_down' = t
    BY <1>2 DEF ScaleDown
  <2> QED
    BY <1>0, <2>1
<1>3. CASE StayLow(want)
  BY <1>0, <1>3, Counts DEF StayLow, Settle
<1>4. CASE Hold(want)
  BY <1>0, <1>4 DEF Hold, Settle
<1> QED
  BY <1>0, <1>1, <1>2, <1>3, <1>4

\* A tick, with the number of replicas it wants.
LEMMA TickStep ==
  ASSUME ScalerAssumption, PolicyAssumption, ScalerInv, PoolTick
  PROVE  ScalerInv' /\ DrainIsSustained
<1>0. t' = t + 1 /\ signal' = signal /\ t \in Nat
  BY DEF PoolTick, ScalerInv, ScalerTypeOK
<1>1. n_ready \in Nat
  BY Counts
<1>2. PICK offered \in Offers :
        queue' = QueueAfter(offered) /\ \E want \in Wanted(offered) : Decide(want)
  BY DEF PoolTick
<1>3. queue' \in Nat
  BY <1>1, <1>2, QueueStep DEF ScalerInv
<1>4. PICK want \in Wanted(offered) : Decide(want)
  BY <1>2
<1>5. want \in MinReplicas..MaxReplicas
  BY <1>1, WantedBounded DEF ScalerInv
<1>6. /\ last_up' \in Nat \cup {LongAgo} /\ last_down' \in Nat \cup {LongAgo}
      /\ low_since' \in Nat \cup {None} /\ low_for' \in Nat
      /\ LowTracked'
  BY <1>0, <1>4, <1>5, ClockStep
<1>7. /\ next_id' \in Nat
      /\ DOMAIN replicas' \subseteq 0..(next_id' - 1)
      /\ replicas' \in [DOMAIN replicas' -> Replica]
      /\ ReadyServes' /\ WithinMax' /\ WarmFloor'
      /\ Drains => ScaleDown(want)
  <2>1. CASE ScaleUp(want)
    BY <2>1, <1>0, <1>5, ScaleUpStep
  <2>2. CASE ScaleDown(want)
    <3>1. next_id' \in Nat
      BY <2>2 DEF ScaleDown, ScalerInv, ScalerTypeOK
    <3> QED
      BY <2>2, <3>1, <1>0, <1>5, ScaleDownStep
  <2>3. CASE Settle
    <3>1. next_id' \in Nat
      BY <2>3 DEF Settle, ScalerInv, ScalerTypeOK
    <3> QED
      BY <2>3, <3>1, <1>0, SettleStep
  <2> QED
    BY <2>1, <2>2, <2>3, <1>4 DEF Decide, StayLow, Hold
<1>8. ScalerInv'
  BY <1>0, <1>3, <1>6, <1>7 DEF ScalerInv, ScalerTypeOK
<1>9. DrainIsSustained
  <2>1. SUFFICES ASSUME Drains PROVE low_for' > Stabilization /\ t - last_up > Stabilization
    BY DEF DrainIsSustained
  <2>2. ScaleDown(want)
    BY <2>1, <1>7
  <2> QED
    BY <2>2, <1>1, <1>4, <1>5
    DEF Decide, ScaleDown, LowLongEnough, ScalerInv, ScalerTypeOK, LowTracked, None, LongAgo, ScalerAssumption, PolicyAssumption
<1> QED
  BY <1>8, <1>9

\* The pool simulate() starts with satisfies the invariant.
LEMMA ScalerStart ==
  ASSUME ScalerAssumption, PolicyAssumption, PoolInit
  PROVE  ScalerInv
<1>1. PICK n : n = MinReplicas - 1
  OBVIOUS
<1>2. /\ n \in Int /\ n + 1 = MinReplicas /\ MinReplicas \in Nat
      /\ MaxReplicas \in Nat /\ MinReplicas <= MaxReplicas
  BY <1>1 DEF ScalerAssumption, PolicyAssumption
<1>3. replicas = [i \in 0..n |-> [state |-> "ready", due |-> 0]]
  BY <1>1 DEF PoolInit
<1>4. ScalerTypeOK
  BY <1>2, <1>3 DEF PoolInit, ScalerTypeOK, Replica, None, LongAgo
<1>5. ReadyServes
  BY <1>3 DEF PoolInit, ReadyServes, InState
<1>6. WithinMax
  <2>1. InState("ready") \cup starting = 0..n
    BY <1>3 DEF InState, starting
  <2>2. Cardinality(0..n) = IF 0 > n THEN 0 ELSE n - 0 + 1
    BY <1>2, FS_Interval
  <2>3. Cardinality(0..n) <= MaxReplicas
    BY <1>2, <2>2
  <2> QED
    BY <2>1, <2>3 DEF WithinMax
<1>7. WarmFloor
  BY <1>1, <1>3 DEF PoolInit, WarmFloor, ready, InState
<1>8. LowTracked
  BY DEF PoolInit, LowTracked, None, LongAgo, ScalerAssumption, PolicyAssumption
<1> QED
  BY <1>4, <1>5, <1>6, <1>7, <1>8 DEF ScalerInv

\* A step that changes nothing keeps the invariant and drains nobody.
LEMMA ScalerStutter ==
  ASSUME ScalerInv, UNCHANGED scalerVars
  PROVE  ScalerInv'
  BY DEF scalerVars, ScalerInv, ScalerTypeOK, ReadyServes, WithinMax, WarmFloor, LowTracked,
         InState, ready, starting

\* simulate() keeps the invariant of the pool for every configuration.
THEOREM ScalerInvariant == PoolSpec => []ScalerInv
<1>1. PoolInit => ScalerInv
  BY ScalerAssumption, PolicyAssumption, ScalerStart
<1>2. ScalerInv /\ [PoolTick \/ Done]_scalerVars => ScalerInv'
  BY ScalerAssumption, PolicyAssumption, TickStep, ScalerStutter DEF Done
<1> QED
  BY <1>1, <1>2, PTL DEF PoolSpec

\* Serving and loading replicas never exceed max_replicas, however many cold
\* starts overlap.
THEOREM NeverAboveMax == PoolSpec => []WithinMax
<1>1. ScalerInv => WithinMax
  BY DEF ScalerInv
<1> QED
  BY <1>1, ScalerInvariant, PTL

\* The min_replicas replicas the pool starts with always serve.
THEOREM FloorAlwaysServes == PoolSpec => []WarmFloor
<1>1. ScalerInv => WarmFloor
  BY DEF ScalerInv
<1> QED
  BY <1>1, ScalerInvariant, PTL

\* Every scale-down follows a whole stabilization window of low signal without
\* a scale-up in it: the policy does not flap.
THEOREM DrainsAreSustained == PoolSpec => ScaleDownSustained
<1>1. ScalerInv /\ [PoolTick \/ Done]_scalerVars => [DrainIsSustained]_scalerVars
  BY ScalerAssumption, PolicyAssumption, TickStep DEF Done
<1> QED
  BY <1>1, ScalerInvariant, PTL DEF PoolSpec, ScaleDownSustained

-----------------------------------------------------------------------------
(***************************************************************************)
(* The control loop lowers a Deployment it has read only after a whole     *)
(* stabilization window of over-provisioned polls, for every policy and    *)
(* every load, whatever fails.                                             *)
(*                                                                         *)
(* The window the loop measures, low_age, and the run of low polls that    *)
(* really was, low_run, are different things when kubectl lies: what       *)
(* relates them is that a false reading is 1, which the policy never finds *)
(* too many, so that it resets the window instead of extending it.         *)
(***************************************************************************)

\* What the loop remembers of time: its window is no longer than the run.
WindowIsRun == low_age # None => low_run # None /\ low_run >= low_age

ControlInv ==
  /\ ControlTypeOK
  /\ waiting \in Loads /\ kv_full \in BOOLEAN /\ alive \in BOOLEAN /\ read_ok \in BOOLEAN
  /\ WindowIsRun

-----------------------------------------------------------------------------
\* The constants are numbers.
LEMMA ControlConstants ==
  /\ MinReplicas \in Nat /\ MaxReplicas \in Nat /\ MinReplicas >= 1 /\ MinReplicas <= MaxReplicas
  /\ UpCooldown \in Nat /\ DownCooldown \in Nat /\ Stabilization \in Nat
  /\ Stabilization >= 1
  /\ \A w \in Loads : w \in Nat
  /\ QueueTarget \in Nat /\ QueueTarget >= 1
  /\ \A d \in InitialReplicas : d \in Nat
  BY ControlAssumption, PolicyAssumption

\* The Deployment's size is a number.
LEMMA DeployedIsNat ==
  ASSUME ControlTypeOK PROVE deployed \in Nat
  BY ControlConstants DEF ControlTypeOK

\* The age of None is None; any other age grows by one up to its cap.
LEMMA AgedType ==
  ASSUME NEW cap \in Nat, NEW age \in {None} \cup 0..cap
  PROVE  /\ Aged(age, cap) \in {None} \cup 0..cap
         /\ age = None => Aged(age, cap) = None
         /\ age # None => Aged(age, cap) \in 0..cap
  BY DEF Aged, Lower, None

\* Ageing keeps the order of two ages.
LEMMA AgedMonotone ==
  ASSUME NEW cap \in Nat, NEW x \in 0..cap, NEW y \in 0..cap, x <= y
  PROVE  Aged(x, cap) <= Aged(y, cap)
  BY DEF Aged, Lower, None

\* A run that just began, or goes on.
LEMMA RunType ==
  ASSUME NEW cap \in Nat, NEW age \in {None} \cup 0..cap
  PROVE  Higher(age, 0) \in 0..cap
  BY DEF Higher, None

\* Queue length over target, rounded up, is a number.
LEMMA CeilDivNat ==
  ASSUME NEW w \in Nat, NEW u \in Nat, u >= 1 PROVE CeilDiv(w, u) \in Nat
  BY DEF CeilDiv

\* Whatever the loop has read, it wants a number of replicas within its bounds.
LEMMA WantInBounds ==
  ASSUME ControlInv, NEW c \in Nat
  PROVE  Want(c) \in MinReplicas..MaxReplicas
<1> DEFINE ask == IF c = 0 THEN 0 ELSE CeilDiv(waiting, QueueTarget)
           want == Clamp(ask)
<1>1. ask \in Nat
  BY ControlConstants, CeilDivNat DEF ControlInv
<1>2. want \in MinReplicas..MaxReplicas
  BY <1>1, ControlConstants DEF Clamp, Lower, Higher
<1>3. Want(c) = IF kv_full /\ want <= c THEN Lower(c + 1, MaxReplicas) ELSE want
  BY DEF Want
<1> HIDE DEF want
<1>4. kv_full /\ want <= c => Lower(c + 1, MaxReplicas) \in MinReplicas..MaxReplicas
  BY <1>2, ControlConstants DEF Lower
<1> QED
  BY <1>2, <1>3, <1>4

\* A false reading is 1, and 1 is never too many.
LEMMA FalseReadIsNotLow ==
  ASSUME ControlInv, NEW c \in Reads, c # deployed
  PROVE  c = 1 /\ Want(c) >= c
<1>1. c = 1
  BY DEF Reads
<1> QED
  BY <1>1, WantInBounds, ControlConstants

-----------------------------------------------------------------------------
\* The ages after a poll are ages again.
LEMMA ClocksType ==
  ASSUME NEW up \in 0..UpCooldown, NEW down \in 0..DownCooldown,
         NEW low \in {None} \cup 0..Stabilization, Clocks(up, down, low)
  PROVE  /\ up_age' \in 0..UpCooldown /\ down_age' \in 0..DownCooldown
         /\ low_age' \in {None} \cup 0..Stabilization
         /\ low_age' = Aged(low, Stabilization)
<1>1. up # None /\ down # None
  BY ControlConstants DEF None
<1> QED
  BY <1>1, AgedType, ControlConstants DEF Clocks

\* What a poll does to the Deployment, the clocks and the run.
LEMMA PollKeeps ==
  ASSUME ControlInv, Poll PROVE ControlInv'
<1>1. PICK c \in Reads :
        /\ Up(c) \/ Down(c) \/ WaitLow(c) \/ Keep(c)
        /\ read_ok' = (c = deployed)
  BY DEF Poll
<1>2. /\ low_run' = IF Want(deployed) < deployed THEN Aged(Higher(low_run, 0), Stabilization) ELSE None
      /\ UNCHANGED <<waiting, kv_full, alive>>
  BY DEF Poll, world
<1>3. deployed \in Nat /\ c \in Nat
  BY DeployedIsNat DEF Reads, ControlInv
<1>4. /\ Want(c) \in MinReplicas..MaxReplicas /\ Want(deployed) \in MinReplicas..MaxReplicas
  BY <1>3, WantInBounds
<1>5. /\ low_age \in {None} \cup 0..Stabilization /\ low_run \in {None} \cup 0..Stabilization
      /\ up_age \in 0..UpCooldown /\ down_age \in 0..DownCooldown
      /\ 0 \in 0..UpCooldown /\ 0 \in 0..DownCooldown
      /\ Stabilization \in Nat
  BY ControlConstants DEF ControlInv, ControlTypeOK
<1>6. low_run' \in {None} \cup 0..Stabilization
  <2>1. Higher(low_run, 0) \in {None} \cup 0..Stabilization
    BY <1>5, RunType
  <2> QED
    BY <1>2, <1>5, <2>1, AgedType
<1>7. deployed' \in InitialReplicas \cup MinReplicas..MaxReplicas
  BY <1>1, <1>4 DEF Up, Down, WaitLow, Keep, ScaledTo, ControlInv, ControlTypeOK
<1>8. PICK up \in 0..UpCooldown, down \in 0..DownCooldown, low \in {None} \cup 0..Stabilization :
        /\ Clocks(up, down, low)
        /\ low = None \/ (WaitLow(c) /\ low = Higher(low_age, 0))
  <2>1. CASE Up(c)
    BY <2>1, <1>5 DEF Up
  <2>2. CASE Down(c)
    BY <2>2, <1>5 DEF Down
  <2>3. CASE WaitLow(c)
    <3>1. Higher(low_age, 0) \in 0..Stabilization
      BY <1>5, RunType
    <3> QED
      BY <2>3, <3>1, <1>5 DEF WaitLow
  <2>4. CASE Keep(c)
    BY <2>4, <1>5 DEF Keep
  <2> QED
    BY <1>1, <2>1, <2>2, <2>3, <2>4
<1>9. /\ up_age' \in 0..UpCooldown /\ down_age' \in 0..DownCooldown
      /\ low_age' \in {None} \cup 0..Stabilization
      /\ low_age' = Aged(low, Stabilization)
  BY <1>8, ClocksType
<1>10. WindowIsRun'
  <2>1. CASE low = None
    <3>1. low_age' = None
      BY <2>1, <1>5, <1>9, AgedType
    <3> QED
      BY <3>1 DEF WindowIsRun
  <2>2. CASE WaitLow(c) /\ low = Higher(low_age, 0)
    <3>1. c = deployed
      BY <2>2, <1>3, <1>4, FalseReadIsNotLow, ControlConstants DEF WaitLow
    <3>2. low_run' = Aged(Higher(low_run, 0), Stabilization)
      BY <2>2, <3>1, <1>2 DEF WaitLow
    <3>3. Higher(low_age, 0) <= Higher(low_run, 0)
      BY <1>5 DEF ControlInv, WindowIsRun, Higher, None
    <3>4. Higher(low_age, 0) \in 0..Stabilization /\ Higher(low_run, 0) \in 0..Stabilization
      BY <1>5, RunType
    <3>5. low_age' <= low_run'
      BY <2>2, <3>2, <3>3, <3>4, <1>5, <1>9, AgedMonotone
    <3>6. low_run' \in 0..Stabilization
      <4>1. Higher(low_run, 0) # None
        BY <3>4, <1>5 DEF None
      <4> QED
        BY <3>2, <3>4, <4>1, <1>5, AgedType
    <3> QED
      BY <3>5, <3>6, <1>9, <1>5 DEF WindowIsRun, None
  <2> QED
    BY <1>8, <2>1, <2>2
<1>11. read_ok' \in BOOLEAN
  BY <1>1
<1>12. waiting' \in Loads /\ kv_full' \in BOOLEAN /\ alive' \in BOOLEAN
  BY <1>2 DEF ControlInv
<1> QED
  BY <1>6, <1>7, <1>9, <1>10, <1>11, <1>12 DEF ControlInv, ControlTypeOK

\* Without metrics both ages grow alike.
LEMMA NoMetricsKeeps ==
  ASSUME ControlInv, NoMetrics PROVE ControlInv'
<1>1. /\ low_age \in {None} \cup 0..Stabilization /\ low_run \in {None} \cup 0..Stabilization
      /\ up_age \in 0..UpCooldown /\ down_age \in 0..DownCooldown
      /\ Stabilization \in Nat
  BY ControlConstants DEF ControlInv, ControlTypeOK
<1>2. /\ up_age' \in 0..UpCooldown /\ down_age' \in 0..DownCooldown
      /\ low_age' \in {None} \cup 0..Stabilization
      /\ low_age' = Aged(low_age, Stabilization)
  BY <1>1, ClocksType DEF NoMetrics
<1>3. /\ low_run' = Aged(low_run, Stabilization)
      /\ UNCHANGED <<deployed, waiting, kv_full, alive, read_ok>>
  BY DEF NoMetrics, world
<1>4. low_run' \in {None} \cup 0..Stabilization
  BY <1>1, <1>3, AgedType
<1>5. WindowIsRun'
  <2>1. CASE low_age = None
    BY <2>1, <1>1, <1>2, AgedType DEF WindowIsRun
  <2>2. CASE low_age # None
    <3>1. low_run # None /\ low_age <= low_run
      BY <2>2, <1>1 DEF ControlInv, WindowIsRun, None
    <3>2. low_age \in 0..Stabilization /\ low_run \in 0..Stabilization
      BY <2>2, <3>1, <1>1
    <3>3. low_age' <= low_run'
      BY <3>1, <3>2, <1>1, <1>2, <1>3, AgedMonotone
    <3>4. low_run' \in 0..Stabilization /\ low_age' \in 0..Stabilization
      BY <2>2, <3>1, <1>1, <1>2, <1>3, AgedType
    <3> QED
      BY <3>3, <3>4, <1>1 DEF WindowIsRun, None
  <2> QED
    BY <2>1, <2>2
<1> QED
  BY <1>2, <1>3, <1>4, <1>5 DEF ControlInv, ControlTypeOK

\* A timeout may leave the Deployment at what was wanted, and ends the loop.
LEMMA TimeoutKeeps ==
  ASSUME ControlInv, KubectlTimeout PROVE ControlInv'
<1>1. \A c \in Reads : c \in Nat
  BY DeployedIsNat DEF Reads, ControlInv
<1>2. \A c \in Reads : Want(c) \in MinReplicas..MaxReplicas
  BY <1>1, WantInBounds
<1>3. deployed' \in InitialReplicas \cup MinReplicas..MaxReplicas
  BY <1>2 DEF KubectlTimeout, ControlInv, ControlTypeOK
<1>4. /\ alive' = FALSE
      /\ UNCHANGED <<waiting, kv_full, up_age, down_age, low_age, low_run, read_ok>>
  BY DEF KubectlTimeout, world
<1> QED
  BY <1>3, <1>4 DEF ControlInv, ControlTypeOK, WindowIsRun

\* The world changes nothing the loop remembers.
LEMMA WorldKeeps ==
  ASSUME ControlInv, WorldChanges PROVE ControlInv'
  BY DEF WorldChanges, loop, ControlInv, ControlTypeOK, WindowIsRun

\* The loop starts with no window.
LEMMA ControlInitially ==
  ASSUME ControlInit PROVE ControlInv
<1>1. UpCooldown \in 0..UpCooldown /\ DownCooldown \in 0..DownCooldown
  BY ControlConstants
<1>2. ControlTypeOK
  BY <1>1 DEF ControlInit, ControlTypeOK
<1>3. alive \in BOOLEAN /\ read_ok \in BOOLEAN /\ kv_full \in BOOLEAN
  BY DEF ControlInit
<1> QED
  BY <1>2, <1>3 DEF ControlInit, ControlInv, WindowIsRun

\* The inductive invariant of the control loop, for every policy, every set of
\* loads and every Deployment it may be started on.
THEOREM ControlInvariant == ControlSpec => []ControlInv
<1>1. ControlInv /\ [ControlNext]_controlVars => ControlInv'
  <2> SUFFICES ASSUME ControlInv, [ControlNext]_controlVars PROVE ControlInv'
    OBVIOUS
  <2>1. CASE Poll
    BY <2>1, PollKeeps
  <2>2. CASE NoMetrics
    BY <2>2, NoMetricsKeeps
  <2>3. CASE KubectlTimeout
    BY <2>3, TimeoutKeeps
  <2>4. CASE WorldChanges
    BY <2>4, WorldKeeps
  <2>5. CASE UNCHANGED controlVars
    BY <2>5 DEF controlVars, world, loop, ControlInv, ControlTypeOK, WindowIsRun
  <2> QED
    BY <2>1, <2>2, <2>3, <2>4, <2>5 DEF ControlNext
<1> QED
  BY <1>1, ControlInitially, PTL DEF ControlSpec

\* The Deployment stays within the bounds of the policy or what it was found
\* with, and the ages within their windows.
THEOREM ControlTypes == ControlSpec => []ControlTypeOK
<1>1. ControlInv => ControlTypeOK
  BY DEF ControlInv
<1> QED
  BY <1>1, ControlInvariant, PTL

\* A step that lowers a Deployment the loop has read, and that it survives, is
\* the decision to go down at the end of a window.
LEMMA ShrinkAfterWindow ==
  ASSUME ControlInv, [ControlNext]_controlVars, Shrinks, alive', read_ok'
  PROVE  low_run >= Stabilization
<1>1. deployed \in Nat /\ deployed' # deployed
  <2>1. deployed \in Nat
    BY DeployedIsNat DEF ControlInv
  <2> QED
    BY <2>1 DEF Shrinks
<1>2. Poll
  BY <1>1 DEF ControlNext, controlVars, NoMetrics, KubectlTimeout, WorldChanges
<1>3. PICK c \in Reads :
        /\ Up(c) \/ Down(c) \/ WaitLow(c) \/ Keep(c)
        /\ read_ok' = (c = deployed)
  BY <1>2 DEF Poll
<1>4. c = deployed
  BY <1>3
<1>5. Want(deployed) \in MinReplicas..MaxReplicas
  BY <1>1, WantInBounds
<1>6. ~Up(c)
  <2> SUFFICES ASSUME Up(c) PROVE FALSE
    OBVIOUS
  <2>1. Want(deployed) > deployed /\ deployed' \in {Want(deployed), deployed}
    BY <1>4 DEF Up, UpDue, ScaledTo
  <2> QED
    BY <2>1, <1>1, <1>5, ControlConstants DEF Shrinks
<1>7. Down(c)
  BY <1>1, <1>3, <1>6 DEF WaitLow, Keep
<1>8. low_age # None /\ low_age >= Stabilization
  BY <1>7 DEF Down, DownDue, LowForWindow
<1> QED
  BY <1>8, ControlConstants DEF ControlInv, ControlTypeOK, WindowIsRun, None

\* The loop lowers a Deployment whose replicas it has read only after every
\* poll of a whole stabilization window saw it over-provisioned, for every
\* policy and load, however kubectl and the metrics fail.
THEOREM ShrinksAreStabilized == ControlSpec => ReadShrinkStabilized
<1>1. ControlInv /\ [ControlNext]_controlVars
        => [Shrinks /\ alive' /\ read_ok' => low_run >= Stabilization]_controlVars
  BY ShrinkAfterWindow
<1> QED
  BY <1>1, ControlInvariant, PTL DEF ControlSpec, ReadShrinkStabilized

=============================================================================
