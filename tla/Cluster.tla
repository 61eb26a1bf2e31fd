------------------------------- MODULE Cluster -------------------------------
(***************************************************************************)
(* The cluster simulator of llmkit/cluster.py: a prefill pool, a transfer  *)
(* and a decode pool (run_disaggregated), or workers that do both phases   *)
(* under one token budget (run_colocated, chunked or not).                 *)
(*                                                                         *)
(* A step of the cost model takes any of StepTimes; an action is one       *)
(* iteration of a loop.  Requests are numbered in order of arrival.        *)
(* X_Y is a wrong variant of X, unused by the model.                       *)
(***************************************************************************)
EXTENDS Integers, Sequences, FiniteSetsExt, Queues

CONSTANTS
  N,                           \* requests
  Arrivals, Prompts, Outputs,  \* what their arrival times, prompts, outputs may be
  PrefillPool, DecodePools,    \* workers of each pool, numbered from 1
  MaxBatch, Budgets,           \* Budgets: max_num_batched_tokens
  StepTimes, TransferTime

ASSUME ClusterAssumption ==
  /\ {N, MaxBatch, PrefillPool} \subseteq Nat \ {0}
  /\ Prompts \cup Outputs \cup StepTimes \cup DecodePools \cup Budgets \subseteq Nat \ {0}
  /\ Arrivals \subseteq Nat /\ TransferTime \in Nat

VARIABLES
  topology,                    \* "disaggregated", "chunked", "unchunked"
  n_decode, max_num_batched_tokens,
  arrival_ms, prompt_tokens, output_tokens,
  stage,                       \* "prefill", "assign", "work", "done"
  free_p,                      \* when each prefill worker is free
  prefill_start, prefill_done, transfer_done, first_token, finish,
  owner,                       \* decode_worker, 0 before
  turn, now_ms,                \* the worker being simulated and its clock
  active, prefilling,          \* its batch, and its prefills in order
  done_tok, remaining

stamps == <<prefill_start, prefill_done, transfer_done, first_token, finish>>
input == <<topology, n_decode, max_num_batched_tokens, arrival_ms, prompt_tokens, output_tokens>>
batch == <<active, prefilling, done_tok, remaining>>
clusterVars == <<input, stage, free_p, stamps, owner, turn, now_ms, batch>>

R == 1..N
NotYet == -1
Disaggregated == topology = "disaggregated"
Later(x, y) == IF x >= y THEN x ELSE y

-----------------------------------------------------------------------------
\* run_disaggregated, stage 1: the next request on the worker free first.
Prefill ==
  /\ stage = "prefill"
  /\ \E r \in R :
       /\ prefill_start[r] = NotYet /\ \A q \in 1..r - 1 : prefill_start[q] # NotYet
       /\ \E w \in 1..PrefillPool, dur \in StepTimes :
            LET start == Later(free_p[w], arrival_ms[r])
            IN /\ \A v \in 1..PrefillPool : free_p[w] < free_p[v] \/ (free_p[w] = free_p[v] /\ w <= v)
               /\ prefill_start' = [prefill_start EXCEPT ![r] = start]
               /\ prefill_done' = [prefill_done EXCEPT ![r] = start + dur]
               /\ transfer_done' = [transfer_done EXCEPT ![r] = start + dur + TransferTime]
               /\ free_p' = [free_p EXCEPT ![w] = start + dur]
       /\ stage' = IF r = N THEN "assign" ELSE stage
  /\ UNCHANGED <<input, first_token, finish, owner, turn, now_ms, batch>>

\* When a worker may admit a request, and which comes first.
ReadyAt_Prefilled(r) == IF Disaggregated THEN prefill_done[r] ELSE arrival_ms[r]
ReadyAt(r) == IF Disaggregated THEN transfer_done[r] ELSE arrival_ms[r]
Before(q, r) == ReadyAt(q) < ReadyAt(r) \/ (ReadyAt(q) = ReadyAt(r) /\ q < r)

\* Stage 2: each goes to the worker that was given the fewest.  The colocated
\* pool deals requests out in turn, which is the same.
Given(w) == Cardinality({r \in R : owner[r] = w})
Assign ==
  /\ stage = "assign"
  /\ \E r \in R, w \in 1..n_decode :
       /\ owner[r] = 0 /\ \A q \in R : owner[q] = 0 => ~Before(q, r)
       /\ \A v \in 1..n_decode : Given(w) < Given(v) \/ (Given(w) = Given(v) /\ w <= v)
       /\ owner' = [owner EXCEPT ![r] = w]
       /\ stage' = IF \A q \in R \ {r} : owner[q] # 0 THEN "work" ELSE stage
  /\ UNCHANGED <<input, free_p, stamps, turn, now_ms, batch>>

-----------------------------------------------------------------------------
\* What the worker whose turn it is has not begun, and what it may begin now.
InBatch == active \cup {prefilling[i] : i \in DOMAIN prefilling}
Pending == {r \in R : owner[r] = turn /\ finish[r] = NotYet /\ r \notin InBatch}
Due == {r \in Pending : ReadyAt(r) <= now_ms}
Admitted ==
  {r \in Due : Cardinality({q \in Due : Before(q, r)}) < MaxBatch - Cardinality(InBatch)}
Idle == InBatch \cup Admitted = {}

\* The worker is idle: its clock jumps to its next request, or it is the next
\* worker's turn.
Jump ==
  /\ stage = "work" /\ Idle
  /\ IF Pending # {}
     THEN now_ms' = Min({ReadyAt(r) : r \in Pending}) /\ UNCHANGED <<stage, turn>>
     ELSE /\ turn' = turn + 1 /\ now_ms' = 0
          /\ stage' = IF turn = n_decode THEN "done" ELSE stage
  /\ UNCHANGED <<input, free_p, stamps, owner, batch>>

\* _decode_worker: one step of the batch gives each request a token.
DecodeStep ==
  /\ stage = "work" /\ Disaggregated /\ ~Idle
  /\ \E d \in StepTimes :
       LET act == active \cup Admitted
           over == {r \in act : remaining[r] = 1}
       IN /\ now_ms' = now_ms + d
          /\ first_token' = [r \in R |-> IF r \in act /\ first_token[r] = NotYet
                                         THEN now_ms + d ELSE first_token[r]]
          /\ remaining' = [r \in R |-> IF r \in act THEN remaining[r] - 1 ELSE remaining[r]]
          /\ finish' = [r \in R |-> IF r \in over THEN now_ms + d ELSE finish[r]]
          /\ active' = act \ over
  /\ UNCHANGED <<input, stage, free_p, prefill_start, prefill_done, transfer_done, owner, turn,
                 prefilling, done_tok>>

\* Prefills share what the decodes leave of the budget, first come first.
Budget == IF topology = "chunked" THEN max_num_batched_tokens - Cardinality(active) ELSE max_num_batched_tokens
Need(r) == prompt_tokens[r] - done_tok[r]
NeedBefore(q, i) == Total([j \in 1..i - 1 |-> Need(q[j])])
Take(q, i) == Later(0, Min({Need(q[i]), Budget - NeedBefore(q, i)}))

\* A colocated worker admits requests in the order they arrived.
Arrived(S) == Those([r \in R |-> r], S)

\* Decodes of a chunked worker ride along with the chunks.
Decoding_Alone(chunks) == IF chunks THEN {} ELSE active
Decoding(chunks) == IF topology = "chunked" \/ ~chunks THEN active ELSE {}

\* _colocated_worker: one mixed, prefill or decode step.  A request whose
\* prompt is complete gets its first token in that step.
MixedStep ==
  /\ stage = "work" /\ ~Disaggregated /\ ~Idle
  /\ \E d \in StepTimes :
       LET q == prefilling \o Arrived(Admitted)
           take == [i \in DOMAIN q |-> Take(q, i)]
           newly == {q[i] : i \in {j \in DOMAIN q : take[j] >= Need(q[j])}}
           dec == Decoding(\E i \in DOMAIN q : take[i] > 0)
           over == {r \in dec \cup newly : remaining[r] = 1}
           t == now_ms + d
       IN /\ now_ms' = t
          /\ prefill_start' = [r \in R |-> IF r \in Admitted THEN now_ms ELSE prefill_start[r]]
          /\ done_tok' = [r \in R |-> IF \E i \in DOMAIN q : q[i] = r
                                      THEN done_tok[r] + take[CHOOSE i \in DOMAIN q : q[i] = r]
                                      ELSE done_tok[r]]
          /\ prefilling' = Those(q, R \ newly)
          /\ prefill_done' = [r \in R |-> IF r \in newly THEN t ELSE prefill_done[r]]
          /\ transfer_done' = [r \in R |-> IF r \in newly THEN t ELSE transfer_done[r]]
          /\ first_token' = [r \in R |-> IF r \in newly THEN t ELSE first_token[r]]
          /\ remaining' = [r \in R |-> IF r \in dec \cup newly THEN remaining[r] - 1 ELSE remaining[r]]
          /\ finish' = [r \in R |-> IF r \in over THEN t ELSE finish[r]]
          /\ active' = (active \cup newly) \ over
  /\ UNCHANGED <<input, stage, free_p, owner, turn>>

-----------------------------------------------------------------------------
ClusterInit ==
  /\ topology \in {"disaggregated", "chunked", "unchunked"}
  /\ n_decode \in DecodePools /\ max_num_batched_tokens \in Budgets
  /\ arrival_ms \in {a \in [R -> Arrivals] : \A q, r \in R : q < r => a[q] <= a[r]}
  /\ prompt_tokens \in [R -> Prompts] /\ output_tokens \in [R -> Outputs]
  /\ stage = (IF Disaggregated THEN "prefill" ELSE "assign")
  /\ free_p = [w \in 1..PrefillPool |-> 0]
  /\ prefill_start = [r \in R |-> NotYet] /\ prefill_done = prefill_start
  /\ transfer_done = prefill_start /\ first_token = prefill_start /\ finish = prefill_start
  /\ owner = [r \in R |-> 0] /\ turn = 1 /\ now_ms = 0
  /\ active = {} /\ prefilling = <<>>
  /\ done_tok = [r \in R |-> 0] /\ remaining = output_tokens

ClusterNext == Prefill \/ Assign \/ Jump \/ DecodeStep \/ MixedStep

ClusterSpec == ClusterInit /\ [][ClusterNext]_clusterVars

-----------------------------------------------------------------------------
\* Each phase of a request waits for the one before it, on whatever worker it
\* runs, and nobody is forgotten: when the run is over all have finished, with
\* every token.
PhasesInOrder ==
  /\ \A r \in R : first_token[r] # NotYet =>
       /\ arrival_ms[r] <= prefill_start[r] /\ prefill_start[r] < prefill_done[r]
       /\ prefill_done[r] <= transfer_done[r] /\ transfer_done[r] <= first_token[r]
       /\ finish[r] # NotYet => first_token[r] <= finish[r] /\ remaining[r] = 0
  /\ stage = "done" => \A r \in R : finish[r] # NotYet

\* "Decode never stalls behind a prefill step": in a decode pool and in a
\* chunked worker, every step gives every decoding request a token - however
\* many prefills it carries - and no step exceeds the batch; and when decodes
\* take the whole budget, prefills wait without stopping the worker.
DecodeNeverStalls ==
  [][(turn' = turn /\ now_ms' > now_ms /\ InBatch # {}) =>
       /\ topology # "unchunked" => \A r \in active : remaining'[r] = remaining[r] - 1
       /\ Cardinality(InBatch') <= MaxBatch
       /\ \E r \in R : remaining'[r] < remaining[r] \/ done_tok'[r] > done_tok[r]]_clusterVars
=============================================================================
