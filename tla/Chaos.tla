------------------------------- MODULE Chaos -------------------------------
(***************************************************************************)
(* One chaos experiment: run_scenario, drive_load with its sampler, and    *)
(* analyse of projects/14-chaos-suite/chaos_run.py.  What its injectors do *)
(* to their targets is in Injectors; here a fault is there or not.  The    *)
(* load, the injection and the clearing are three tasks; the sampler is    *)
(* cancelled when the load is over.                                        *)
(*                                                                         *)
(* An injector takes as long as it takes: its timeouts are per operation,  *)
(* and --fault-duration may be shorter than any of them.  Whether an       *)
(* answer meets the SLO is a choice (the fault does not have to show).  An *)
(* answer that never comes is one that stays out.                          *)
(* X_Y is a wrong variant of X, unused by the model.                       *)
(***************************************************************************)
EXTENDS Queues, FiniteSetsExt

CONSTANTS
  FaultStart, FaultEnd, RunTime, \* fault_start_s, fault_end_s, total
  SampleEvery, LastWait,       \* sample_s, and the 60 s of the last wait
  ThresholdPercent, Sustained, \* slo_violation_threshold, sustained_samples
  BudgetPercent,               \* budget_ratio of the SLOTarget
  MaxOut, MaxFired             \* bounds: requests in the air, and in all

ASSUME ChaosAssumption ==
  /\ {FaultStart, FaultEnd, RunTime, LastWait, ThresholdPercent} \subseteq Nat
  /\ {SampleEvery, Sustained, BudgetPercent, MaxOut, MaxFired} \subseteq Nat \ {0}

VARIABLES
  elapsed_s,                   \* seconds since t0
  load_task,                   \* "driving", "draining", "over"
  fired, in_air,               \* requests sent, and not answered yet
  bucket,                      \* [n, viol] since the last sample
  samples,                     \* result.samples: [t, n, viol]
  next_sample,
  inject, clear,               \* the two at() tasks: "waiting", "acting", "done"
  blocking,                    \* whether the injector calls subprocess.run
  fault,                       \* whether the target is faulty
  outcome                      \* "running", "crashed", "analysed"

chaosVars == <<elapsed_s, load_task, fired, in_air, bucket, samples, next_sample, inject, clear, blocking, fault, outcome>>
Empty == [n |-> 0, viol |-> 0]

\* httpx awaits; subprocess.run holds the loop until the command is done.
LoopHeld == blocking /\ "acting" \in {inject, clear}
Runs == outcome = "running" /\ ~LoopHeld

-----------------------------------------------------------------------------
\* drive_load: fire until the end, after each sleep, the one that outlasts the
\* end too; then wait for the last answers.
Fire ==
  /\ Runs /\ load_task = "driving" /\ in_air < MaxOut /\ fired < MaxFired
  /\ fired' = fired + 1 /\ in_air' = in_air + 1
  /\ load_task' = IF elapsed_s < RunTime THEN "driving" ELSE "draining"
  /\ UNCHANGED <<elapsed_s, bucket, samples, next_sample, inject, clear, fault, outcome, blocking>>

Answered ==
  /\ outcome # "crashed" /\ ~LoopHeld /\ in_air > 0
  /\ in_air' = in_air - 1
  /\ \E v \in 0..1 : bucket' = [n |-> bucket.n + 1, viol |-> bucket.viol + v]
  /\ UNCHANGED <<elapsed_s, load_task, fired, samples, next_sample, inject, clear, fault, outcome, blocking>>

\* The sampler swaps the bucket out under the lock.
Swapped == Empty
Sample ==
  /\ Runs /\ load_task # "over" /\ elapsed_s >= next_sample
  /\ samples' = Append(samples, [t |-> elapsed_s, n |-> bucket.n, viol |-> bucket.viol])
  /\ bucket' = Swapped
  /\ next_sample' = elapsed_s + SampleEvery
  /\ UNCHANGED <<elapsed_s, load_task, fired, in_air, inject, clear, fault, outcome, blocking>>

LoadEnds ==
  /\ Runs
  /\ \/ load_task = "driving" /\ elapsed_s >= RunTime /\ load_task' = "draining"
     \/ load_task = "draining" /\ (in_air = 0 \/ elapsed_s >= RunTime + LastWait) /\ load_task' = "over"
  /\ UNCHANGED <<elapsed_s, fired, in_air, bucket, samples, next_sample, inject, clear, fault, outcome, blocking>>

\* at(ts, coro): an injector acts some time after it was started, or raises;
\* then the gather raises and the other tasks are cancelled.
ClearStarts == elapsed_s >= FaultEnd
Inject ==
  /\ outcome = "running"
  /\ \/ inject = "waiting" /\ elapsed_s >= FaultStart /\ Runs /\ inject' = "acting" /\ UNCHANGED <<fault, outcome>>
     \/ inject = "acting" /\ inject' = "done" /\ fault' = TRUE /\ UNCHANGED outcome
     \/ inject = "acting" /\ outcome' = "crashed" /\ fault' \in BOOLEAN /\ UNCHANGED inject
  /\ UNCHANGED <<elapsed_s, load_task, fired, in_air, bucket, samples, next_sample, clear, blocking>>
Clear ==
  /\ outcome = "running"
  /\ \/ clear = "waiting" /\ ClearStarts /\ Runs /\ clear' = "acting" /\ UNCHANGED <<fault, outcome>>
     \/ clear = "acting" /\ clear' = "done" /\ fault' = FALSE /\ UNCHANGED outcome
     \/ clear = "acting" /\ outcome' = "crashed" /\ fault' \in {fault, FALSE} /\ UNCHANGED clear
  /\ UNCHANGED <<elapsed_s, load_task, fired, in_air, bucket, samples, next_sample, inject, blocking>>

\* All three are over: analyse judges the samples.
Analyse ==
  /\ Runs /\ load_task = "over" /\ inject = "done" /\ clear = "done"
  /\ outcome' = "analysed"
  /\ UNCHANGED <<elapsed_s, load_task, fired, in_air, bucket, samples, next_sample, inject, clear, fault, blocking>>

\* Sleeping tasks wake on time, unless an injector's subprocess.run blocks the
\* loop they are to wake on.
OnTime ==
  /\ load_task # "over" => elapsed_s < next_sample
  /\ inject = "waiting" => elapsed_s < FaultStart
  /\ clear = "waiting" => elapsed_s < FaultEnd
Second ==
  /\ outcome = "running" /\ elapsed_s < RunTime + LastWait
  /\ LoopHeld \/ OnTime
  /\ elapsed_s' = elapsed_s + 1
  /\ UNCHANGED <<load_task, fired, in_air, bucket, samples, next_sample, inject, clear, fault, outcome, blocking>>

ChaosInit ==
  /\ elapsed_s = 0 /\ load_task = "driving" /\ fired = 0 /\ in_air = 0 /\ bucket = Empty
  /\ samples = <<>> /\ next_sample = SampleEvery
  /\ inject = "waiting" /\ clear = "waiting" /\ blocking \in BOOLEAN /\ fault = FALSE /\ outcome = "running"

ChaosNext == Fire \/ Answered \/ Sample \/ LoadEnds \/ Inject \/ Clear \/ Analyse \/ Second
ChaosSpec == ChaosInit /\ [][ChaosNext]_chaosVars

-----------------------------------------------------------------------------
\* analyse.  Samples without answers are passed over.
Healthy(q) == q.viol * 100 <= q.n * ThresholdPercent
judged == Total([i \in DOMAIN samples |-> samples[i].n])

Counted == Those(samples, {q \in [t : Nat, n : Nat, viol : Nat] : q.t >= FaultEnd /\ q.n > 0})
run_NoReset[i \in 0..Len(Counted)] ==
  IF i = 0 THEN 0 ELSE run_NoReset[i - 1] + (IF Healthy(Counted[i]) THEN 1 ELSE 0)
Run_NoReset(i) == run_NoReset[i]
run[i \in 0..Len(Counted)] ==
  IF i = 0 THEN 0 ELSE IF Healthy(Counted[i]) THEN run[i - 1] + 1 ELSE 0
Run(i) == run[i]
Recoveries == {i \in 1..Len(Counted) : Run(i) >= Sustained}
Recovered == Recoveries # {}
recover_s == Counted[Min(Recoveries)].t

\* The first such sample is the time of detection.
Detections == {i \in DOMAIN samples : samples[i].t >= FaultStart /\ samples[i].n > 0 /\ ~Healthy(samples[i])}
Detected == Detections # {}

\* summary: the burn rate is that of the whole run, without what no sample took.
Violating(from) == Total([i \in DOMAIN samples |-> IF samples[i].t >= from THEN samples[i].viol ELSE 0])
slo_violating == Violating(0)
BurnAtLeast(rate) == slo_violating * 100 >= rate * Max({judged, 1}) * BudgetPercent

-----------------------------------------------------------------------------
\* "After the fault was cleared": no experiment reports a recovery and leaves
\* its fault on.  Injection and clearing are tasks that do not wait for each
\* other, and analyse counts from the time the clearing was planned for: a
\* late injection breaks this.
NoRecoveryUnderFault == (outcome = "analysed" /\ Recovered) => ~fault

\* "Measure continuously": each answer is judged in exactly one sample, or came
\* after the last one.
JudgedOnce == fired = judged + bucket.n + in_air

\* "A single good sample is noise": a recovery is reported at the first sample
\* that ends a run of healthy answers, Sustained samples long, with no
\* violating sample since its start.
RecoveryIsSustained ==
  (outcome = "analysed" /\ Recovered) =>
    LET after == {i \in DOMAIN samples : samples[i].t >= FaultEnd /\ samples[i].t <= recover_s
                                         /\ samples[i].n > 0}
        lastBad == Max({0} \cup {i \in after : ~Healthy(samples[i])})
    IN Cardinality({i \in after : i > lastBad}) = Sustained

\* A fault that is not detected burned the error budget no faster than the
\* threshold of detection allows, if the stack was healthy before it.
UndetectedBurnsSlowly ==
  (outcome = "analysed" /\ ~Detected /\ slo_violating = Violating(FaultStart)) =>
    ~BurnAtLeast(ThresholdPercent \div BudgetPercent + 1)

\* What an experiment says of a stack is what its samples show, in whatever
\* order its tasks ran and however long its injectors held them up.
ExperimentIsSound == JudgedOnce /\ RecoveryIsSustained /\ UndetectedBurnsSlowly
=============================================================================
