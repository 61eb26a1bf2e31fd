-------------------------------- MODULE Load --------------------------------
(***************************************************************************)
(* The load drivers of llmkit/load.py.  The closed loop keeps a number of  *)
(* workers on one shared iterator; the open loop fires requests on an      *)
(* absolute schedule whatever becomes of the earlier ones.  The requests   *)
(* are those of a stream (module Workload); here only their order matters. *)
(*                                                                         *)
(* An action is one turn of a coroutine, between two awaits.  The sender   *)
(* is StreamingClient.send (module Client): it answers every request, with *)
(* a timeout record at worst.                                              *)
(* X_Y is a wrong variant of X, unused by the model.                       *)
(***************************************************************************)
EXTENDS Integers, FiniteSets, Workload

CONSTANTS
  NumRequests,                 \* the length of the request iterator
  Concurrency, MaxRequests,
  DefaultWarmUp,               \* --warmup-requests
  Duration,                    \* duration_s
  Arrival,                     \* i-th arrival time of the open loop
  MaxInflight, DrainTimeout,
  MaxClock                     \* bound: the clock goes on only for a drain

ASSUME LoadAssumption ==
  /\ {NumRequests, Concurrency, MaxInflight, Duration} \subseteq Nat \ {0}
  /\ {MaxRequests, DefaultWarmUp, DrainTimeout, MaxClock} \subseteq Nat
  /\ Arrival \in [1..NumRequests + 1 -> Nat] /\ Arrival[1] = 0
  /\ \A i \in 1..NumRequests : Arrival[i] <= Arrival[i + 1]

VARIABLES
  driver,                      \* "closed" or "open"
  clock,
  scheduled,                   \* the iterator is past this request
  worker,                      \* request a worker sends, 0 at its start, Gone
  request,                     \* "new", "waiting" (semaphore), "sent", "recorded"
  peak,                        \* _InflightTracker.peak
  wake,                        \* when the dispatcher's sleep ends, Gone after its loop
  drain,                       \* when draining began, Gone before
  ended,                       \* when the driver returned, Gone before
  crowd                        \* history: requests in flight when a worker sent this one

loadVars == <<driver, clock, scheduled, worker, request, peak, wake, drain, ended, crowd>>

Gone == -1
Workers == 1..Concurrency
All == 1..NumRequests
In(s) == {r \in All : request[r] = s}
Peak(n) == IF n > peak THEN n ELSE peak
MayTake == clock < Duration /\ scheduled < MaxRequests /\ scheduled < NumRequests

-----------------------------------------------------------------------------
\* A worker's turn: it records the answer it waited for, then takes the next
\* request or leaves.  The lock is never contended: nothing awaits inside it.
\* gather starts all workers before any answer can be there.
Recorded(w) == IF worker[w] = 0 THEN request ELSE [request EXCEPT ![worker[w]] = "recorded"]
WorkerTurn(w) ==
  /\ driver = "closed" /\ worker[w] # Gone
  /\ worker[w] # 0 => \A v \in Workers : worker[v] # 0
  /\ IF MayTake
     THEN /\ scheduled' = scheduled + 1
          /\ worker' = [worker EXCEPT ![w] = scheduled + 1]
          /\ request' = [Recorded(w) EXCEPT ![scheduled + 1] = "sent"]
          /\ LET n == Cardinality(In("sent") \ {worker[w]}) + 1
             IN peak' = Peak(n) /\ crowd' = [crowd EXCEPT ![scheduled + 1] = n]
     ELSE /\ worker' = [worker EXCEPT ![w] = Gone]
          /\ request' = Recorded(w)
          /\ UNCHANGED <<scheduled, peak, crowd>>
  /\ UNCHANGED <<driver, clock, wake, drain, ended>>

Gathered ==
  /\ driver = "closed" /\ ended = Gone /\ \A w \in Workers : worker[w] = Gone
  /\ ended' = clock
  /\ UNCHANGED <<driver, clock, scheduled, worker, request, peak, wake, drain, crowd>>

-----------------------------------------------------------------------------
\* The dispatcher sleeps until the next arrival, or yields when it is late.
NextArrival_Relative(n) == clock + Arrival[n + 1] - (IF n = 0 THEN 0 ELSE Arrival[n])
NextArrival(n) == Arrival[n + 1]
SleepFor(n) ==
  LET at == NextArrival(n)
  IN IF at >= Duration
     THEN wake' = Gone /\ drain' = clock
     ELSE wake' = (IF at > clock THEN at ELSE clock) /\ UNCHANGED drain

\* It wakes, fires one request, and sleeps again.
Dispatch ==
  /\ driver = "open" /\ wake # Gone /\ clock >= wake
  /\ IF scheduled = NumRequests
     THEN /\ wake' = Gone /\ drain' = clock
          /\ UNCHANGED <<scheduled, request>>
     ELSE /\ scheduled' = scheduled + 1
          /\ request' = [request EXCEPT ![scheduled + 1] = "waiting"]
          /\ SleepFor(scheduled + 1)
  /\ UNCHANGED <<driver, clock, worker, peak, ended, crowd>>

\* A fired task gets the semaphore, in order.
SemaphoreFree == Cardinality(In("sent")) < MaxInflight
Acquire ==
  /\ driver = "open" /\ SemaphoreFree
  /\ \E r \in In("waiting") :
       /\ \A q \in In("waiting") : r <= q
       /\ request' = [request EXCEPT ![r] = "sent"]
  /\ peak' = Peak(Cardinality(In("sent")) + 1)
  /\ UNCHANGED <<driver, clock, scheduled, worker, wake, drain, ended, crowd>>

\* The answer of a task, also after the driver has returned.
Answer ==
  /\ driver = "open"
  /\ \E r \in In("sent") : request' = [request EXCEPT ![r] = "recorded"]
  /\ UNCHANGED <<driver, clock, scheduled, worker, peak, wake, drain, ended, crowd>>

\* asyncio.wait(tasks, timeout): all tasks are over, or it is late.
TimedOut_Never == FALSE
TimedOut == drain # Gone /\ clock >= drain + DrainTimeout
AllAnswered_First == In("recorded") # {}
AllAnswered == In("waiting") \cup In("sent") = {}
EndDrain ==
  /\ driver = "open" /\ drain # Gone /\ ended = Gone
  /\ AllAnswered \/ TimedOut
  /\ ended' = clock
  /\ UNCHANGED <<driver, clock, scheduled, worker, request, peak, wake, drain, crowd>>

\* Turns take time, and a busy event loop oversleeps.
Elapse ==
  /\ clock < MaxClock \/ (drain # Gone /\ clock < drain + DrainTimeout)
  /\ clock' = clock + 1
  /\ UNCHANGED <<driver, scheduled, worker, request, peak, wake, drain, ended, crowd>>

LoadInit ==
  /\ driver \in {"closed", "open"}
  /\ clock = 0 /\ scheduled = 0 /\ peak = 0
  /\ worker = [w \in Workers |-> IF driver = "closed" THEN 0 ELSE Gone]
  /\ request = [r \in All |-> "new"]
  /\ wake = (IF driver = "open" THEN Arrival[1] ELSE Gone)
  /\ drain = Gone /\ ended = Gone /\ crowd = [r \in All |-> 0]

LoadNext ==
  \/ \E w \in Workers : WorkerTurn(w)
  \/ Gathered \/ Dispatch \/ Acquire \/ Answer \/ EndDrain \/ Elapse

\* The event loop runs what is ready, and time passes.  The closed loop waits
\* for its answers (WorkerTurn); the open loop must not need them.
LoadFairness ==
  /\ \A w \in Workers : WF_loadVars(WorkerTurn(w))
  /\ WF_loadVars(Gathered) /\ WF_loadVars(Dispatch) /\ WF_loadVars(EndDrain) /\ WF_loadVars(Elapse)

LoadSpec == LoadInit /\ [][LoadNext]_loadVars /\ LoadFairness

-----------------------------------------------------------------------------
\* "a slow dispatch loop cannot silently stretch the intended rate": when the
\* dispatcher waits for a later arrival it is behind with none, and when its
\* loop is over it fired every request due within the run.
DueBy(t) == {i \in All : Arrival[i] <= t /\ Arrival[i] < Duration}
ScheduleAbsolute ==
  driver = "open" =>
    /\ (wake > clock => scheduled = Cardinality(DueBy(clock)))
    /\ (drain # Gone => scheduled = Cardinality(DueBy(Duration)))

\* bench.py warms up with a whole wave and summarize leaves the first requests
\* sent out, "so every measured request starts against an already-busy engine":
\* all other workers had a request in flight when it was sent.
WarmUp_Fixed == DefaultWarmUp
WarmUp == IF Concurrency > DefaultWarmUp THEN Concurrency ELSE DefaultWarmUp
MeasuredWhileBusy == \A r \in All : r > WarmUp /\ crowd[r] # 0 => crowd[r] = Concurrency

\* The load sent is the load planned: the arrivals keep to their schedule, what
\* is measured was sent to a busy engine, and conversations stay whole.
LoadAsPlanned == ScheduleAbsolute /\ MeasuredWhileBusy /\ SessionsGrow

\* A result that was returned changes no more, except by the stragglers of a
\* drain that timed out.
ResultFinal == [][ended # Gone => (request' = request \/ TimedOut)]_loadVars

\* Both drivers return; the open loop even when no request is ever answered.
DriverEnds == <>(ended # Gone)
=============================================================================
