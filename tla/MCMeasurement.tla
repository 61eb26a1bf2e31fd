--------------------------- MODULE MCMeasurement ---------------------------
(***************************************************************************)
(* The way of a number: the workload's streams, the drivers that send the  *)
(* load, the client that reads one stream, the summary of three records,   *)
(* the bill of two, the memory budget of a deployment, and the runs of     *)
(* three configurations, two with one description, up to the published     *)
(* report; a chaos experiment, the injectors of a suite, the fused         *)
(* kernels on two rows, and a quantised endpoint held against another.     *)
(* The initial state says which one moves.                                 *)
(***************************************************************************)
EXTENDS Load, Client, Reports, Chaos, Injectors, Figures

VARIABLE part

MCArrival == <<0, 1, 1, 3, 5, 6>>
Config(d, simulated, gpus, known) ==
  [description |-> d, simulated |-> simulated, gpus |-> gpus, model |-> TRUE, engine |-> known]
MCConfigs == <<Config("a", FALSE, TRUE, TRUE), Config("a", TRUE, FALSE, TRUE), Config("b", FALSE, FALSE, FALSE)>>
Outcome(meets, few, warned) == [meets |-> meets, few |-> few, warned |-> warned]
MCOutcomes == {Outcome(TRUE, FALSE, FALSE), Outcome(TRUE, TRUE, FALSE), Outcome(FALSE, FALSE, TRUE)}
MCSuite == <<"correlated", "partition", "replica_kill", "provider_outage", "traffic_spike", "gpu_throttle">>
MCTexts == {<<>>, <<"x", "x">>, <<"x", "x", "x", "x", "x">>, <<"x", "x", "x", "x", "y">>, <<"y", "x", "x", "x">>}
MCLogits == {NegInf, 0, 3}
Line(t, k, p, c, o, s, e) ==
  [tenant |-> t, ok |-> k, prompt |-> p, cached |-> c, output |-> o, send |-> s, done |-> e]
MCBilled == {Line(t, k, p, c, o, s, e) : t \in {"t1", "t2"}, k \in BOOLEAN, p \in {2, 3},
                                         c \in {0, 2}, o \in {0, 1}, s \in {1, 2}, e \in {UnsetTime, 3}}

MCVars == <<part, loadVars, clientVars, statVars, reportVars, chaosVars, injectorVars, workloadVars, kernelVars, billed, budgetVars, qualityVars>>
MCInit ==
  /\ part \in {"workload", "drivers", "client", "summary", "costs", "budget", "reports", "chaos", "suite", "kernels", "quality"}
  /\ IF part = "summary" THEN StatInit
     ELSE warm = 0 /\ records = <<>>
  /\ IF part = "costs" THEN CostsInit ELSE billed = <<>>
  /\ IF part = "budget" THEN BudgetInit
     ELSE /\ model = [heads |-> 1, layers |-> 1, window |-> 0, weights |-> 0]
          /\ usable = 0 /\ block_size = 1 /\ target = [len |-> 1, concurrency |-> 1]
  /\ IF part = "kernels" THEN KernelsInit
     ELSE Launch("rmsnorm", [a \in Cells |-> 0])
  /\ LoadInit /\ (part # "drivers" => driver = "closed")
  /\ ClientInit /\ WorkloadInit /\ QualityInit /\ ChaosInit /\ (part # "chaos" => ~blocking)
  /\ ReportsInit /\ (part # "reports" => ~tree_dirty)
  /\ InjectorsInit /\ (part # "suite" => world.present = {"p1", "p2"})

\* A step of one part leaves the others alone.
Alone(name, others) == part = name /\ UNCHANGED part /\ UNCHANGED others
Driving == Alone("drivers", <<clientVars, statVars, reportVars, chaosVars, injectorVars, workloadVars, kernelVars, billed, budgetVars, qualityVars>>)
Reading == Alone("client", <<loadVars, statVars, reportVars, chaosVars, injectorVars, workloadVars, kernelVars, billed, budgetVars, qualityVars>>)
Reporting == Alone("reports", <<loadVars, clientVars, statVars, chaosVars, injectorVars, workloadVars, kernelVars, billed, budgetVars, qualityVars>>)
Judging == Alone("chaos", <<loadVars, clientVars, statVars, reportVars, injectorVars, workloadVars, kernelVars, billed, budgetVars, qualityVars>>)
Injecting == Alone("suite", <<loadVars, clientVars, statVars, reportVars, chaosVars, workloadVars, kernelVars, billed, budgetVars, qualityVars>>)
Generating == Alone("workload", <<loadVars, clientVars, statVars, reportVars, chaosVars, injectorVars, kernelVars, billed, budgetVars, qualityVars>>)
Launching == Alone("kernels", <<loadVars, clientVars, statVars, reportVars, chaosVars, injectorVars, workloadVars, billed, budgetVars, qualityVars>>)
Comparing == Alone("quality", <<loadVars, clientVars, statVars, reportVars, chaosVars, injectorVars, workloadVars, kernelVars, billed, budgetVars>>)
MCNext == \/ Driving /\ LoadNext
          \/ Reading /\ ClientNext
          \/ Reporting /\ ReportsNext
          \/ Judging /\ ChaosNext
          \/ Injecting /\ InjectorsNext
          \/ Generating /\ WorkloadNext
          \/ Launching /\ KernelsNext
          \/ Comparing /\ QualityNext

\* The drivers' fairness, over the variables of this module.
MCSpec ==
  /\ MCInit /\ [][MCNext]_MCVars
  /\ \A w \in Workers : WF_MCVars(Driving /\ WorkerTurn(w))
  /\ WF_MCVars(Driving /\ Gathered) /\ WF_MCVars(Driving /\ Dispatch)
  /\ WF_MCVars(Driving /\ EndDrain) /\ WF_MCVars(Driving /\ Elapse)

\* DriverEnds where the drivers move.
BothEnd == part = "drivers" => DriverEnds
=============================================================================
