------------------------------- MODULE Engine -------------------------------
(***************************************************************************)
(* The continuous-batching engine of llmkit/simulator/engine.py, on top of *)
(* the block allocator.  EngineSim.step is one pass through the stages     *)
(*                                                                         *)
(*   idle -> admit -> (restore) -> grow -> apply -> finish -> idle         *)
(*                                                                         *)
(* where every call into the allocator runs step by step.  The simulated   *)
(* clock is left out: a pending request may have arrived at the start of   *)
(* any step, and has when the engine would otherwise be idle.              *)
(* As in PagedKVCache, X_Y is a wrong variant of X, unused by the model.   *)
(***************************************************************************)
EXTENDS PagedKVCache, Queues

CONSTANTS
  Workloads,             \* what may be submitted: functions from Seqs to requests
  Configs,               \* the configurations the engine may be built with
  MaxBurst               \* the most tokens a step emits for a sequence

SimRequest == [prompt : Prompt, output_tokens : Nat \ {0}, priority : Nat, arrival : Nat]

\* EngineConfig; a threshold of 0 stands for none.
EngineConfig ==
  [max_num_seqs : Nat \ {0}, max_num_batched_tokens : Nat \ {0},
   enable_chunked_prefill : BOOLEAN, long_prefill_token_threshold : Nat,
   preemption_mode : {"recompute", "swap"}, scheduling : {"fcfs", "priority"},
   spec_draft_tokens : Nat]

NTokens(p) == Len(p.chunks) * BlockSize + p.rem

ASSUME EngineAssumption ==
  /\ Workloads \subseteq [Seqs -> SimRequest]
  /\ \A w \in Workloads, s \in Seqs :
       /\ w[s].prompt \in Prompts /\ NBlocks(w[s].prompt) > 0
       /\ \A n \in 0..w[s].output_tokens : NTokens(w[s].prompt) + n \in Lens
  /\ Configs \subseteq EngineConfig
  /\ MaxBurst \in Nat /\ \A c \in Configs : c.spec_draft_tokens < MaxBurst

VARIABLES
  cfg,           \* the engine's configuration
  req,           \* the workload submitted
  pending, waiting, running, swapped, finished,   \* the engine's queues
  prefilled, generated, cached_tokens, first_token,   \* per sequence
  stage,         \* where step() stands
  token_budget, prefills, decodes, survivors, admitted,   \* its local variables
  computed       \* blocks whose KV has been computed (what the GPU would hold)

inputs == <<cfg, req>>
queues == <<pending, waiting, running, swapped, finished>>
seqVars == <<prefilled, generated, cached_tokens, first_token>>
stepVars == <<token_budget, prefills, decodes, survivors, admitted>>
engineVars == <<inputs, queues, seqVars, stage, stepVars, computed>>
vars == <<kvVars, engineVars>>

-----------------------------------------------------------------------------
prompt_tokens(s) == NTokens(req[s].prompt)
total_len(s) == prompt_tokens(s) + generated[s]
prefill_done(s) == prefilled[s] >= prompt_tokens(s)
done_OffByOne(s) == generated[s] > req[s].output_tokens
done(s) == generated[s] >= req[s].output_tokens
CeilBlocks(n) == (n + BlockSize - 1) \div BlockSize
Least(S) == CHOOSE x \in S : \A y \in S : x <= y

\* waiting.sort(key=(priority, arrival)): only under priority scheduling.
SortWaiting(q) ==
  IF cfg.scheduling = "priority"
  THEN Sorted(q, {p \in Seqs \X Seqs :
                    LET r == req[p[1]]
                        u == req[p[2]]
                    IN \/ r.priority < u.priority
                       \/ r.priority = u.priority /\ r.arrival < u.arrival})
  ELSE q

\* The chunk a sequence may prefill with this much budget left.
Threshold(budget) ==
  IF cfg.long_prefill_token_threshold = 0 THEN budget ELSE cfg.long_prefill_token_threshold
ChunkOf(remaining, budget) == Least({remaining, budget, Threshold(budget)})

\* The loop over the partly prefilled sequences, oldest first.
ChunkNext(acc, s) ==
  IF acc.budget <= 0 THEN acc
  ELSE LET c == ChunkOf(prompt_tokens(s) - prefilled[s], acc.budget)
       IN [budget |-> acc.budget - c,
           prefills |-> Append(acc.prefills, [seq |-> s, chunk |-> c])]
PartialChunks(partial, budget) ==
  LET after[i \in 0..Len(partial)] ==
        IF i = 0 THEN [budget |-> budget, prefills |-> <<>>]
        ELSE ChunkNext(after[i - 1], partial[i])
  IN after[Len(partial)]

Ready(q) == Those(q, {s \in Seqs : prefill_done(s)})
Partial(q) == Those(q, {s \in Seqs : ~prefill_done(s)})

-----------------------------------------------------------------------------
(***************************************************************************)
(* step: admit the requests that have arrived, sort, and open the token    *)
(* budget.  With chunked prefill the running sequences take theirs first.  *)
(***************************************************************************)
BeginStep ==
  /\ stage = "idle"
  /\ <<pending, waiting, running, swapped>> # <<<<>>, <<>>, <<>>, <<>>>>
  /\ \E k \in 0..Len(pending) :
       /\ <<waiting, running, swapped>> = <<<<>>, <<>>, <<>>>> => k > 0
       /\ waiting' = SortWaiting(waiting \o SubSeq(pending, 1, k))
       /\ pending' = SubSeq(pending, k + 1, Len(pending))
  /\ LET ready == IF cfg.enable_chunked_prefill THEN Ready(running) ELSE <<>>
         chunks == IF cfg.enable_chunked_prefill
                   THEN PartialChunks(Partial(running), cfg.max_num_batched_tokens - Len(ready))
                   ELSE [budget |-> cfg.max_num_batched_tokens, prefills |-> <<>>]
     IN /\ decodes' = ready
        /\ prefills' = chunks.prefills
        /\ token_budget' = chunks.budget
  /\ survivors' = <<>>
  /\ admitted' = FALSE
  /\ stage' = "admit"
  /\ UNCHANGED <<kvVars, inputs, running, swapped, finished, seqVars, computed>>

\* Room for one more sequence in the batch.
RoomToAdmit_OffByOne ==
  Len(running) + (IF cfg.enable_chunked_prefill THEN Len(prefills) ELSE 0) <= cfg.max_num_seqs
RoomToAdmit ==
  Len(running) + (IF cfg.enable_chunked_prefill THEN Len(prefills) ELSE 0) < cfg.max_num_seqs

\* The conditions under which the admission loop tries the head of the queue.
AdmitNext ==
  /\ waiting # <<>> /\ token_budget > 0
  /\ RoomToAdmit
  /\ ~cfg.enable_chunked_prefill =>
       LET s == Head(waiting)
       IN ~(prompt_tokens(s) - cached_tokens[s] > token_budget /\ admitted)
  /\ can_allocate(NBlocks(req[Head(waiting)].prompt))

\* _allocate: the block table of the head of the queue.  A table it already
\* holds (see GrowOne) is overwritten without being freed.
AdmitAllocate ==
  /\ stage = "admit" /\ AdmitNext
  /\ LET s == Head(waiting)
     IN IF pc[s] = "held" THEN Overwrite(s) /\ UNCHANGED stage
                          ELSE AllocatePrompt(s, req[s].prompt) /\ stage' = "admitting"
  /\ UNCHANGED <<inputs, queues, seqVars, stepVars, computed>>

\* allocate_prompt running on behalf of _allocate or of a swap-in.
AllocStep ==
  /\ stage \in {"admitting", "restoring"}
  /\ \E s \in Seqs :
       \/ (HitBlock(s) \/ RaiseOutOfBlocks(s) \/ AllocateReturn(s)) /\ UNCHANGED computed
       \/ (MissBlock(s) \/ TailBlock(s)) /\ computed' = computed \ {Last(tables'[s])}
  /\ UNCHANGED <<inputs, queues, seqVars, stage, stepVars>>

CachedTokens_OffByOne(s) == Least({prompt_tokens(s), (hits[s] + 1) * BlockSize})
CachedTokens(s) == hits[s] * BlockSize

\* _allocate succeeded: the sequence joins running with the chunk it may prefill.
AdmitRunning ==
  /\ stage = "admitting" /\ Idle
  /\ LET s == Head(waiting)
         cached == CachedTokens(s)
         remaining == prompt_tokens(s) - cached
         chunk == IF cfg.enable_chunked_prefill
                  THEN ChunkOf(remaining, token_budget) ELSE remaining
     IN /\ pc[s] = "held"
        /\ waiting' = Tail(waiting)
        /\ running' = Append(running, s)
        /\ cached_tokens' = [cached_tokens EXCEPT ![s] = cached]
        /\ prefilled' = [prefilled EXCEPT ![s] = cached]
        /\ IF remaining > 0
           THEN /\ prefills' = Append(prefills, [seq |-> s, chunk |-> chunk])
                /\ token_budget' = token_budget - chunk
           ELSE UNCHANGED <<prefills, token_budget>>
  /\ admitted' = TRUE
  /\ stage' = "admit"
  /\ UNCHANGED <<kvVars, inputs, pending, swapped, finished, generated, first_token,
                 decodes, survivors, computed>>

\* The admission loop ends: nothing to admit, no room, or _allocate caught
\* OutOfBlocks.  A prefill-priority step with a prefill decodes nothing.
EndAdmit ==
  /\ \/ stage = "admit" /\ ~AdmitNext
     \/ stage = "admitting" /\ Idle /\ pc[Head(waiting)] = "out"
  /\ stage' = IF cfg.enable_chunked_prefill THEN "grow"
              ELSE IF prefills # <<>> THEN "apply" ELSE "restore"
  /\ UNCHANGED <<kvVars, inputs, queues, seqVars, stepVars, computed>>

-----------------------------------------------------------------------------
\* Swap-ins, only reached by a prefill-priority step without prefills.  The
\* table is allocated for token_ids[:total_len], which is the prompt.
RestoreNext ==
  /\ swapped # <<>> /\ Len(running) < cfg.max_num_seqs
  /\ can_allocate(CeilBlocks(total_len(Head(swapped))))

RestoreAllocate ==
  /\ stage = "restore" /\ RestoreNext
  /\ LET s == Head(swapped)
     IN IF pc[s] = "held" THEN Overwrite(s) /\ UNCHANGED stage
                          ELSE AllocatePrompt(s, req[s].prompt) /\ stage' = "restoring"
  /\ UNCHANGED <<inputs, queues, seqVars, stepVars, computed>>

RestoreRunning ==
  /\ stage = "restoring" /\ Idle
  /\ pc[Head(swapped)] = "held"
  /\ swapped' = Tail(swapped)
  /\ running' = Append(running, Head(swapped))
  /\ computed' = computed \cup Range(tables[Head(swapped)])
  /\ stage' = "restore"
  /\ UNCHANGED <<kvVars, inputs, pending, waiting, finished, seqVars, stepVars>>

\* A swap-in that meets OutOfBlocks has no handler: run() dies of it.
RestoreCrash ==
  /\ stage = "restoring" /\ Idle
  /\ pc[Head(swapped)] = "out"
  /\ swapped' = Tail(swapped)
  /\ stage' = "crashed"
  /\ UNCHANGED <<kvVars, inputs, pending, waiting, running, finished, seqVars, stepVars,
                 computed>>

EndRestore ==
  /\ stage = "restore" /\ ~RestoreNext
  /\ decodes' = Ready(running)
  /\ stage' = "grow"
  /\ UNCHANGED <<kvVars, inputs, queues, seqVars, token_budget, prefills, survivors,
                 admitted, computed>>

-----------------------------------------------------------------------------
(***************************************************************************)
(* _grow_or_preempt: append one token's slot for each decoding sequence,   *)
(* freeing other sequences' blocks when there is none.  decodes is         *)
(* consumed from its head; a sequence preempted by an earlier iteration is *)
(* still in it.                                                            *)
(***************************************************************************)
NeedsBlock(s) ==
  \/ total_len(s) % BlockSize = 0
  \/ tables[s] # <<>> /\ ref_count[Last(tables[s])] > 1

\* A copy of a computed block is computed; a new block is not.
CopyComputed(s) ==
  computed' = IF /\ tables[s] # <<>> /\ Last(tables[s]) \in computed
                 /\ Len(tables'[s]) = Len(tables[s])
              THEN computed \cup {Last(tables'[s])} ELSE computed \ {Last(tables'[s])}

GrowOne ==
  /\ stage = "grow" /\ decodes # <<>>
  /\ append_token(Head(decodes), total_len(Head(decodes)))
  /\ CopyComputed(Head(decodes))
  /\ decodes' = Tail(decodes)
  /\ survivors' = Append(survivors, Head(decodes))
  /\ UNCHANGED <<inputs, queues, seqVars, stage, token_budget, prefills, admitted>>

\* table[-1] of an empty table.
GrowCrash ==
  /\ stage = "grow" /\ decodes # <<>>
  /\ total_len(Head(decodes)) % BlockSize # 0
  /\ tables[Head(decodes)] = <<>>
  /\ stage' = "crashed"
  /\ UNCHANGED <<kvVars, inputs, queues, seqVars, stepVars, computed>>

\* The newest running sequence other than s; s itself if there is none.
Victim(s) ==
  LET others == Those(running, Seqs \ {s})
  IN IF others = <<>> THEN s ELSE Last(others)

PreemptFree_NoFree ==
  /\ stage = "grow" /\ decodes # <<>>
  /\ NeedsBlock(Head(decodes)) /\ TakeFreeBlock = {}
  /\ LET v == Victim(Head(decodes))
     IN /\ tables' = [tables EXCEPT ![v] = <<>>]
        /\ pc' = [pc EXCEPT ![v] = "out"]
  /\ stage' = "preempt"
  /\ UNCHANGED <<poolVars, prompt, matching, hits, next, dropped,
                 inputs, queues, seqVars, stepVars, computed>>

\* OutOfBlocks: _preempt starts by freeing the victim's table.
PreemptFree ==
  /\ stage = "grow" /\ decodes # <<>>
  /\ NeedsBlock(Head(decodes)) /\ TakeFreeBlock = {}
  /\ LET v == Victim(Head(decodes))
     IN IF pc[v] = "held" THEN Free(v) ELSE UNCHANGED kvVars
  /\ stage' = "preempt"
  /\ UNCHANGED <<inputs, queues, seqVars, stepVars, computed>>

\* free running on behalf of _preempt or of the finish loop.
FreeStep ==
  /\ stage \in {"preempt", "finishing"}
  /\ \E s \in Seqs : Release(s) \/ FreeReturn(s)
  /\ UNCHANGED engineVars

\* waiting.insert(0, victim).
Requeue(v) == <<v>> \o waiting
\* swapped.append(victim).
SwapOut(v) == Append(swapped, v)

\* The rest of _preempt, and of the iteration that called it.  When s evicts
\* itself its iteration is over; a victim loses its place among the survivors.
Preempt ==
  /\ stage = "preempt" /\ Idle
  /\ LET s == Head(decodes)
         v == Victim(s)
     IN /\ IF cfg.preemption_mode = "swap"
           THEN /\ swapped' = SwapOut(v)
                /\ UNCHANGED <<waiting, prefilled, generated, first_token>>
           ELSE /\ waiting' = Requeue(v)
                /\ prefilled' = [prefilled EXCEPT ![v] = 0]
                /\ generated' = [generated EXCEPT ![v] = 0]
                /\ first_token' = [first_token EXCEPT ![v] = FALSE]
                /\ UNCHANGED swapped
        /\ IF Contains(running, v)
           THEN /\ running' = RemoveFirst(running, v)
                /\ stage' = "grow"
           ELSE stage' = "crashed" /\ UNCHANGED running
        /\ decodes' = IF v = s THEN Tail(decodes) ELSE decodes
        /\ survivors' = IF v = s THEN survivors ELSE RemoveFirst(survivors, v)
  /\ UNCHANGED <<kvVars, inputs, pending, finished, cached_tokens, token_budget, prefills,
                 admitted, computed>>

\* Every decode placed.  A step left with no work is a stall: the clock ticks.
EndGrow ==
  /\ stage = "grow" /\ decodes = <<>>
  /\ stage' = IF prefills = <<>> /\ survivors = <<>> THEN "idle" ELSE "apply"
  /\ UNCHANGED <<kvVars, inputs, queues, seqVars, stepVars, computed>>

-----------------------------------------------------------------------------
\* Tokens a decode emits: no more than the request still wants.
Emitted_Unclamped(s, tokens_this_step) == tokens_this_step
Emitted(s, tokens_this_step) ==
  Least({tokens_this_step, req[s].output_tokens - generated[s]})

\* The prompt tokens this step computed for s, the sequences whose prefill they
\* complete, and the blocks whose KV they fill.
PrefillChunk(s) ==
  IF \E i \in DOMAIN prefills : prefills[i].seq = s
  THEN prefills[CHOOSE i \in DOMAIN prefills : prefills[i].seq = s].chunk ELSE 0
FirstNow == {s \in Seqs : /\ PrefillChunk(s) > 0 /\ ~first_token[s]
                          /\ prefilled[s] + PrefillChunk(s) >= prompt_tokens(s)}
Filled(s) == {tables[s][j] : j \in {i \in DOMAIN tables[s] :
                /\ prefilled[s] < i * BlockSize
                /\ i * BlockSize <= prefilled[s] + PrefillChunk(s)}}

\* Apply the step's results: prefill progress, one token per decode (up to
\* 1 + cfg.spec_draft_tokens of them in a decode-only step), the first token of a
\* sequence whose prefill just ended.
Apply ==
  /\ stage = "apply"
  /\ \E accepted \in 0..(IF survivors # <<>> /\ prefills = <<>>
                         THEN cfg.spec_draft_tokens ELSE 0) :
       LET emitted == [s \in Seqs |-> IF Contains(survivors, s)
                                      THEN Emitted(s, accepted + 1) ELSE 0]
       IN /\ generated' = [s \in Seqs |-> IF s \in FirstNow THEN 1
                                          ELSE generated[s] + emitted[s]]
          /\ first_token' = [s \in Seqs |-> \/ first_token[s] \/ s \in FirstNow
                                            \/ emitted[s] > 0]
  /\ prefilled' = [s \in Seqs |-> prefilled[s] + PrefillChunk(s)]
  /\ computed' = computed \cup UNION {Filled(s) : s \in {t \in Seqs : PrefillChunk(t) > 0}}
  /\ stage' = "finish"
  /\ UNCHANGED <<kvVars, inputs, queues, cached_tokens, stepVars>>

\* for s in list(running): the finished ones, in order.
FinishNext == Those(running, {s \in Seqs : done(s)})

FinishFree_NoFree ==
  /\ stage = "finish" /\ FinishNext # <<>>
  /\ stage' = "finishing"
  /\ UNCHANGED <<kvVars, inputs, queues, seqVars, stepVars, computed>>
FinishFree ==
  /\ stage = "finish" /\ FinishNext # <<>>
  /\ Free(Head(FinishNext))
  /\ stage' = "finishing"
  /\ UNCHANGED <<inputs, queues, seqVars, stepVars, computed>>

Finish ==
  /\ stage = "finishing" /\ Idle
  /\ LET s == Head(FinishNext)
     IN /\ running' = RemoveFirst(running, s)
        /\ finished' = Append(finished, s)
  /\ stage' = "finish"
  /\ UNCHANGED <<kvVars, inputs, pending, waiting, swapped, seqVars, stepVars, computed>>

EndStep ==
  /\ stage = "finish" /\ FinishNext = <<>>
  /\ stage' = "idle"
  /\ token_budget' = 0 /\ prefills' = <<>> /\ survivors' = <<>> /\ admitted' = FALSE
  /\ UNCHANGED <<kvVars, inputs, queues, seqVars, decodes, computed>>

\* step() returned None: run() is over.
Terminated ==
  /\ stage = "crashed" \/ /\ stage = "idle"
                          /\ <<pending, waiting, running, swapped>> = <<<<>>, <<>>, <<>>, <<>>>>
  /\ UNCHANGED vars
-----------------------------------------------------------------------------
\* A workload is submitted; the heap hands it out by arrival time.
Init ==
  /\ KVInit
  /\ cfg \in Configs
  /\ req \in Workloads
  /\ pending = Sorted(SetToSeq(Seqs),
                      {p \in Seqs \X Seqs : req[p[1]].arrival < req[p[2]].arrival})
  /\ waiting = <<>> /\ running = <<>> /\ swapped = <<>> /\ finished = <<>>
  /\ prefilled = [s \in Seqs |-> 0]
  /\ generated = [s \in Seqs |-> 0]
  /\ cached_tokens = [s \in Seqs |-> 0]
  /\ first_token = [s \in Seqs |-> FALSE]
  /\ stage = "idle"
  /\ token_budget = 0 /\ prefills = <<>> /\ decodes = <<>> /\ survivors = <<>>
  /\ admitted = FALSE
  /\ computed = {}

Step ==
  \/ BeginStep
  \/ AdmitAllocate \/ AllocStep \/ AdmitRunning \/ EndAdmit
  \/ RestoreAllocate \/ RestoreRunning \/ RestoreCrash \/ EndRestore
  \/ GrowOne \/ GrowCrash \/ PreemptFree \/ FreeStep \/ Preempt \/ EndGrow
  \/ Apply \/ FinishFree \/ Finish \/ EndStep

Next == Step \/ Terminated

Spec == Init /\ [][Next]_vars

\* run() calls step() until it returns None.
FairSpec == Spec /\ WF_vars(Step)

-----------------------------------------------------------------------------
\* Every variable has its type.
EngineTypeOK ==
  /\ KVTypeOK
  /\ cfg \in Configs /\ req \in [Seqs -> SimRequest]
  /\ \A q \in {pending, waiting, running, swapped, finished, decodes, survivors} :
       q \in Seq(Seqs)
  /\ prefilled \in [Seqs -> Nat] /\ generated \in [Seqs -> Nat]
  /\ cached_tokens \in [Seqs -> Nat] /\ first_token \in [Seqs -> BOOLEAN]
  /\ stage \in {"idle", "admit", "admitting", "restore", "restoring", "grow", "preempt",
                "apply", "finish", "finishing", "crashed"}
  /\ token_budget \in Int /\ admitted \in BOOLEAN
  /\ prefills \in Seq([seq : Seqs, chunk : Nat \ {0}])
  /\ computed \subseteq Block

\* Whatever was preempted, swapped or re-admitted, every request is in exactly
\* one of the engine's queues, once: none is lost and none runs twice.
OneQueue ==
  stage # "crashed" =>
    LET all == pending \o waiting \o running \o swapped \o finished
    IN IsInjective(all) /\ Range(all) = Seqs

Chunks(q) == [i \in DOMAIN q |-> q[i].chunk]

\* The batch never holds more sequences than max_num_seqs, and a chunked step's
\* decodes and prefill chunks together stay in the token budget.
BatchBounded ==
  /\ Len(running) <= cfg.max_num_seqs
  /\ (cfg.enable_chunked_prefill /\ stage = "apply" /\ prefills # <<>>) =>
       Len(survivors) + Total(Chunks(prefills)) <= cfg.max_num_batched_tokens

\* The pool has room for a full batch of the longest requests, whatever blocks
\* it has lost (see UnreferencedIsReclaimable).
BatchNeeds(s) == cfg.max_num_seqs * CeilBlocks(prompt_tokens(s) + req[s].output_tokens)
PoolCoversBatch ==
  \A s \in Seqs : BatchNeeds(s) + watermark_blocks + Cardinality(Stranded) <= NumBlocks

\* Between two steps only running sequences own blocks, and each owns enough
\* for its prompt, as long as no preemption meets the grow loop's stale list
\* (see NeverCrashes).
OnlyRunningOwn ==
  (stage = "idle" /\ PoolCoversBatch) =>
    /\ \A s \in Seqs : pc[s] = "held" <=> Contains(running, s)
    /\ \A i \in DOMAIN running :
         Len(tables[running[i]]) >= NBlocks(req[running[i]].prompt)

\* What the scheduler keeps of every sequence: its place, its batch, its blocks.
PlacesAreSound == EngineTypeOK /\ OneQueue /\ BatchBounded /\ OnlyRunningOwn

\* Between two steps, the prompt tokens a sequence counts as prefilled have
\* their KV computed (engine.py: "prompt tokens whose KV is computed").
PrefilledIsComputed ==
  stage = "idle" =>
    \A i \in DOMAIN running :
      LET s == running[i]
      IN \A j \in 1..(prefilled[s] \div BlockSize) : tables[s][j] \in computed

\* An allocation that OutOfBlocks ends half-way has already entered its blocks
\* in the cache, and the references of its lost table keep them there.
LostPrefix == {b \in Block : dropped[b] > 0 /\ content_hash[b] # NoHash}

\* Without chunked prefill a prompt hit in the cache is always computed, as long
\* as no table of full blocks was lost.
WholePrefillComputed ==
  (~cfg.enable_chunked_prefill /\ LostPrefix = {}) => PrefilledIsComputed

\* When the engine runs out of blocks it does not crash, it preempts.
NeverCrashes == stage # "crashed"

\* When the pool has room for a full batch of the longest requests, every
\* submitted request finishes, whatever chunks, hits and priorities delay it.
Unserved == IF PoolCoversBatch THEN Seqs \ Range(finished) ELSE {}
AllFinish == <>[](Unserved = {})

\* A swapped sequence comes back to the batch, unless the engine dies first.
SwappedReturns ==
  \A s \in Seqs : Contains(swapped, s) ~> (Contains(running, s) \/ stage = "crashed")

\* The allocator's own promises, whatever the engine makes of its answers.
EngineUsesKV == KVSpec

\* Where a sequence is, seen from outside the engine.
StatusOf(s) == IF Contains(finished, s) THEN "finished"
               ELSE IF Contains(running, s) THEN "running" ELSE "queued"

\* Seen through its queues and token counts the engine is a TokenSource:
\* tokens are lost only by leaving the batch, no request emits more than it
\* asked for or than a burst allows in a step, and none finishes short or twice.
Source == INSTANCE TokenSource WITH
  Burst <- MaxBurst,
  want <- [s \in Seqs |-> req[s].output_tokens],
  status <- [s \in Seqs |-> StatusOf(s)],
  alive <- stage # "crashed"
EngineIsTokenSource == Source!SourceSpec
=============================================================================
