---------------------------- MODULE EngineProofs ----------------------------
(***************************************************************************)
(* The scheduler's safety for any pool, workload and configuration.        *)
(*                                                                         *)
(* EngineInv joins the allocator's invariant, which the engine's calls     *)
(* keep because each is a step of the allocator, with what the scheduler   *)
(* knows: its lists name every sequence once (Placed), what a step has     *)
(* planned is still true when it is carried out (Planned, Batched), and    *)
(* how far the call into the allocator has come (Coupled).                 *)
(***************************************************************************)
EXTENDS Engine, PagedKVCacheProofs, QueueFacts

\* The engine's own variables have their types.
Typed ==
  /\ cfg \in Configs /\ req \in Workloads
  /\ pending \in Seq(Seqs) /\ waiting \in Seq(Seqs) /\ running \in Seq(Seqs)
  /\ swapped \in Seq(Seqs) /\ finished \in Seq(Seqs)
  /\ decodes \in Seq(Seqs) /\ survivors \in Seq(Seqs)
  /\ prefilled \in [Seqs -> Nat] /\ generated \in [Seqs -> Nat]
  /\ cached_tokens \in [Seqs -> Nat] /\ first_token \in [Seqs -> BOOLEAN]
  /\ stage \in {"idle", "admit", "admitting", "restore", "restoring", "grow", "preempt",
                "apply", "finish", "finishing", "crashed"}
  /\ token_budget \in Int /\ admitted \in BOOLEAN
  /\ prefills \in Seq([seq : Seqs, chunk : Nat \ {0}])
  /\ computed \subseteq Block

\* No sequence has emitted more than it asked for; one that has emitted
\* something has its first token.
Counted ==
  \A s \in Seqs : /\ generated[s] <= req[s].output_tokens
                  /\ generated[s] > 0 => first_token[s]

\* The sequences the step has planned a prefill chunk for.
PrefillSeqs == {prefills[i].seq : i \in DOMAIN prefills}

\* The five queues partition the workload.
Placed ==
  stage # "crashed" =>
    /\ IsInjective(pending) /\ IsInjective(waiting) /\ IsInjective(running)
    /\ IsInjective(swapped) /\ IsInjective(finished)
    /\ Range(pending) \cap (Range(waiting) \cup Range(running) \cup Range(swapped) \cup Range(finished)) = {}
    /\ Range(waiting) \cap (Range(running) \cup Range(swapped) \cup Range(finished)) = {}
    /\ Range(running) \cap (Range(swapped) \cup Range(finished)) = {}
    /\ Range(swapped) \cap Range(finished) = {}
    /\ Seqs = Range(pending) \cup Range(waiting) \cup Range(running) \cup Range(swapped) \cup Range(finished)

\* What a step has planned it does to sequences that have not finished.
Planned ==
  /\ stage \in {"admit", "admitting", "grow", "preempt"} =>
       Range(decodes) \cap Range(finished) = {}
  /\ stage \in {"admit", "admitting", "restore", "restoring", "grow", "preempt", "apply"} =>
       (Range(survivors) \cup PrefillSeqs) \cap Range(finished) = {}

\* A stage is entered only with something to work on and room for it.
Coupled ==
  /\ stage = "admitting" => waiting # <<>> /\ token_budget > 0 /\ RoomToAdmit
  /\ stage \in {"restore", "restoring"} => ~cfg.enable_chunked_prefill /\ prefills = <<>>
  /\ stage = "restoring" => swapped # <<>> /\ Len(running) < cfg.max_num_seqs
  /\ stage = "preempt" => decodes # <<>>
  /\ stage = "finishing" => FinishNext # <<>>

\* What is planned and what is left of the budget stay below the budget.
Batched ==
  /\ Len(running) <= cfg.max_num_seqs
  /\ (cfg.enable_chunked_prefill /\
        stage \in {"admit", "admitting", "grow", "preempt", "apply"}) =>
       /\ Len(decodes) + Len(survivors) + Total(Chunks(prefills)) + token_budget
            <= cfg.max_num_batched_tokens
       /\ prefills # <<>> => token_budget >= 0

\* A sequence preempted by recomputation while it was still to be grown has
\* lost its tokens.
Stale ==
  (cfg.preemption_mode = "recompute" /\ stage \in {"admit", "admitting", "grow", "preempt"}) =>
    \A s \in Range(decodes) \ Range(running) : generated[s] = 0

\* What the scheduler keeps, without the allocator's part.
SchedInv == Typed /\ Counted /\ Placed /\ Planned /\ Coupled /\ Batched /\ Stale

EngineInv == KVInv /\ SchedInv

-----------------------------------------------------------------------------
\* What the constants say of a request and of a configuration.
LEMMA RequestFacts ==
  ASSUME req \in Workloads, NEW s \in Seqs
  PROVE  /\ req \in [Seqs -> SimRequest]
         /\ req[s].prompt \in Prompts /\ req[s].prompt \in Prompt
         /\ req[s].output_tokens \in Nat \ {0}
         /\ req[s].priority \in Nat /\ req[s].arrival \in Nat
         /\ NBlocks(req[s].prompt) > 0
         /\ prompt_tokens(s) \in Nat
         /\ \A n \in 0..req[s].output_tokens : prompt_tokens(s) + n \in Lens
<1>1. req \in [Seqs -> SimRequest]
  BY EngineAssumption
<1>2. req[s] \in SimRequest
  BY <1>1
<1>3. /\ req[s].prompt \in Prompt /\ req[s].output_tokens \in Nat \ {0}
      /\ req[s].priority \in Nat /\ req[s].arrival \in Nat
  BY <1>2 DEF SimRequest
<1>4. /\ req[s].prompt \in Prompts /\ NBlocks(req[s].prompt) > 0
      /\ \A n \in 0..req[s].output_tokens : NTokens(req[s].prompt) + n \in Lens
  BY EngineAssumption
<1>5. NTokens(req[s].prompt) \in Nat
  <2>1. /\ req[s].prompt.chunks \in Seq(Chunk) /\ req[s].prompt.rem \in 0..(BlockSize - 1)
        /\ BlockSize \in Nat \ {0}
    BY <1>3, KVAssumption DEF Prompt
  <2>2. Len(req[s].prompt.chunks) \in Nat /\ req[s].prompt.rem \in Nat
    BY <2>1
  <2>3. \A m, n, r \in Nat : m * n + r \in Nat
    OBVIOUS
  <2> QED
    BY <2>1, <2>2, <2>3 DEF NTokens
<1> QED
  BY <1>1, <1>3, <1>4, <1>5 DEF prompt_tokens

\* The length _grow_or_preempt reports is one the allocator expects.
LEMMA TotalLenFits ==
  ASSUME Typed, Counted, NEW s \in Seqs
  PROVE  total_len(s) \in Lens
<1>1. generated[s] \in 0..req[s].output_tokens
  BY RequestFacts DEF Typed, Counted
<1> QED
  BY <1>1, RequestFacts DEF Typed, total_len

\* The head of a nonempty queue of sequences is a sequence.
LEMMA HeadIsSeq ==
  ASSUME NEW q \in Seq(Seqs), q # <<>>
  PROVE  Head(q) \in Seqs
  OBVIOUS

\* So is a preemption victim.
LEMMA VictimIsSeq ==
  ASSUME Typed, NEW s \in Seqs
  PROVE  /\ Victim(s) \in Seqs
         /\ Victim(s) # s => Victim(s) \in Range(running)
         /\ Victim(s) = s => \A u \in Range(running) : u = s
<1> DEFINE others == Those(running, Seqs \ {s})
<1>1. /\ others \in Seq(Seqs)
      /\ Range(others) = Range(running) \cap (Seqs \ {s})
  BY ThoseKept DEF Typed
<1>2. Range(running) \subseteq Seqs
  BY ContainsIsIn DEF Typed
<1>3. CASE others = <<>>
  <2>1. Victim(s) = s
    BY <1>3 DEF Victim
  <2>2. Range(others) = {}
    BY <1>1, <1>3, ContainsIsIn
  <2> QED
    BY <1>1, <1>2, <2>1, <2>2
<1>4. CASE others # <<>>
  <2> HIDE DEF others
  <2>1. Len(others) \in 1..Len(others) /\ Range(others) = {others[i] : i \in 1..Len(others)}
    BY <1>1, <1>4, ContainsIsIn
  <2>2. Last(others) \in Range(others)
    BY <2>1 DEF Last
  <2>3. Victim(s) = Last(others)
    BY <1>4 DEF Victim, others
  <2> QED
    BY <1>1, <1>2, <2>2, <2>3
<1> QED
  BY <1>3, <1>4

\* Every step of the engine is a step of the allocator or leaves it alone.
LEMMA StepUsesKV ==
  ASSUME Typed, Counted, [Next]_vars
  PROVE  [KVNext]_kvVars
<1> USE DEF Typed
<1>1. CASE AdmitAllocate
  <2> DEFINE s == Head(waiting)
  <2>1. s \in Seqs
    BY <1>1, HeadIsSeq DEF AdmitAllocate, AdmitNext
  <2>2. CASE pc[s] = "held"
    <3>1. Overwrite(s)
      BY <1>1, <2>2 DEF AdmitAllocate
    <3> QED
      BY <2>1, <3>1 DEF KVNext
  <2>3. CASE pc[s] # "held"
    <3>1. AllocatePrompt(s, req[s].prompt) /\ req[s].prompt \in Prompts
      BY <1>1, <2>1, <2>3, RequestFacts DEF AdmitAllocate
    <3> QED
      BY <2>1, <3>1 DEF KVNext, allocate_prompt
  <2> QED
    BY <2>2, <2>3
<1>2. CASE RestoreAllocate
  <2> DEFINE s == Head(swapped)
  <2>1. s \in Seqs
    BY <1>2, HeadIsSeq DEF RestoreAllocate, RestoreNext
  <2>2. CASE pc[s] = "held"
    <3>1. Overwrite(s)
      BY <1>2, <2>2 DEF RestoreAllocate
    <3> QED
      BY <2>1, <3>1 DEF KVNext
  <2>3. CASE pc[s] # "held"
    <3>1. AllocatePrompt(s, req[s].prompt) /\ req[s].prompt \in Prompts
      BY <1>2, <2>1, <2>3, RequestFacts DEF RestoreAllocate
    <3> QED
      BY <2>1, <3>1 DEF KVNext, allocate_prompt
  <2> QED
    BY <2>2, <2>3
<1>3. CASE AllocStep
  <2>1. PICK s \in Seqs : \/ HitBlock(s) \/ RaiseOutOfBlocks(s) \/ AllocateReturn(s)
                          \/ MissBlock(s) \/ TailBlock(s)
    BY <1>3 DEF AllocStep
  <2> QED
    BY <2>1 DEF KVNext, allocate_prompt
<1>4. CASE GrowOne
  <2>1. /\ Head(decodes) \in Seqs /\ total_len(Head(decodes)) \in Lens
        /\ append_token(Head(decodes), total_len(Head(decodes)))
    BY <1>4, HeadIsSeq, TotalLenFits DEF GrowOne
  <2> QED
    BY <2>1 DEF KVNext
<1>5. CASE PreemptFree
  <2>1. Victim(Head(decodes)) \in Seqs
    BY <1>5, HeadIsSeq, VictimIsSeq DEF PreemptFree
  <2>2. CASE pc[Victim(Head(decodes))] = "held"
    <3>1. Free(Victim(Head(decodes)))
      BY <1>5, <2>2 DEF PreemptFree
    <3> QED
      BY <2>1, <3>1 DEF KVNext, free
  <2>3. CASE pc[Victim(Head(decodes))] # "held"
    BY <1>5, <2>3 DEF PreemptFree
  <2> QED
    BY <2>2, <2>3
<1>6. CASE FreeStep
  <2>1. PICK s \in Seqs : Release(s) \/ FreeReturn(s)
    BY <1>6 DEF FreeStep
  <2> QED
    BY <2>1 DEF KVNext, free
<1>7. CASE FinishFree
  <2>1. FinishNext \in Seq(Seqs)
    BY ThoseKept DEF FinishNext
  <2>2. Head(FinishNext) \in Seqs /\ Free(Head(FinishNext))
    BY <1>7, <2>1, HeadIsSeq DEF FinishFree
  <2> QED
    BY <2>2 DEF KVNext, free
<1>8. CASE \/ BeginStep \/ AdmitRunning \/ EndAdmit \/ RestoreRunning \/ RestoreCrash
           \/ EndRestore \/ GrowCrash \/ Preempt \/ EndGrow \/ Apply \/ Finish \/ EndStep
  BY <1>8 DEF BeginStep, AdmitRunning, EndAdmit, RestoreRunning, RestoreCrash, EndRestore,
              GrowCrash, Preempt, EndGrow, Apply, Finish, EndStep
<1>9. CASE Terminated \/ UNCHANGED vars
  BY <1>9 DEF Terminated, vars
<1> QED
  BY <1>1, <1>2, <1>3, <1>4, <1>5, <1>6, <1>7, <1>8, <1>9 DEF Next, Step

-----------------------------------------------------------------------------
(***************************************************************************)
(* Every step of the engine keeps SchedInv.                                *)
(***************************************************************************)

\* A step that leaves the scheduler's variables alone keeps what it keeps.
LEMMA SameSched ==
  ASSUME SchedInv, UNCHANGED <<inputs, queues, seqVars, stage, stepVars>>,
         computed' \subseteq Block
  PROVE  SchedInv'
<1> USE DEF SchedInv, inputs, queues, seqVars, stepVars
<1>1. Typed'
  BY DEF Typed
<1>2. Counted'
  BY DEF Counted
<1>3. Placed'
  BY DEF Placed
<1>4. Planned'
  BY DEF Planned, PrefillSeqs
<1>5. Coupled'
  BY DEF Coupled, RoomToAdmit, FinishNext, done
<1>6. Batched'
  BY DEF Batched
<1>7. Stale'
  BY DEF Stale
<1> QED
  BY <1>1, <1>2, <1>3, <1>4, <1>5, <1>6, <1>7

\* A step that only moves the stage keeps it, when what the new stage asks
\* for holds.
LEMMA OnlyStage ==
  ASSUME SchedInv, UNCHANGED <<inputs, queues, seqVars, stepVars, computed>>,
         NEW t, stage' = t,
         stage # "crashed",
         t \in {"idle", "admit", "admitting", "restore", "restoring", "grow", "preempt",
                "apply", "finish", "finishing", "crashed"},
         t \in {"admit", "admitting", "grow", "preempt"} =>
           stage \in {"admit", "admitting", "grow", "preempt"},
         t \in {"restore", "restoring", "apply"} =>
           stage \in {"admit", "admitting", "restore", "restoring", "grow", "preempt"},
         (t = "apply" /\ cfg.enable_chunked_prefill) =>
           stage \in {"admit", "admitting", "grow", "preempt"},
         t = "admitting" => waiting # <<>> /\ token_budget > 0 /\ RoomToAdmit,
         t \in {"restore", "restoring"} => ~cfg.enable_chunked_prefill /\ prefills = <<>>,
         t = "restoring" => swapped # <<>> /\ Len(running) < cfg.max_num_seqs,
         t = "preempt" => decodes # <<>>,
         t = "finishing" => FinishNext # <<>>
  PROVE  SchedInv'
<1> USE DEF SchedInv, inputs, queues, seqVars, stepVars
<1>1. Typed'
  BY DEF Typed
<1>2. Counted'
  BY DEF Counted
<1>3. Placed'
  BY DEF Placed
<1>4. Planned'
  BY DEF Planned, PrefillSeqs
<1>5. Coupled'
  BY DEF Coupled, RoomToAdmit, FinishNext, done
<1>6. Batched'
  BY DEF Batched
<1>7. Stale'
  BY DEF Stale
<1> QED
  BY <1>1, <1>2, <1>3, <1>4, <1>5, <1>6, <1>7

-----------------------------------------------------------------------------
(***************************************************************************)
(* Chunks: what a prefill takes of the token budget.                       *)
(***************************************************************************)
ChunkRecord == [seq : Seqs, chunk : Nat \ {0}]

LEMMA LeastOf ==
  /\ \A x, y \in Int : Least({x, y}) \in {x, y} /\ Least({x, y}) <= x /\ Least({x, y}) <= y
  /\ \A x, y, z \in Int : /\ Least({x, y, z}) \in {x, y, z}
                          /\ Least({x, y, z}) <= x /\ Least({x, y, z}) <= y
                          /\ Least({x, y, z}) <= z
<1>1. ASSUME NEW S, NEW m \in S, \A y \in S : m <= y
      PROVE  Least(S) \in S /\ \A y \in S : Least(S) <= y
  BY <1>1 DEF Least
<1>2. ASSUME NEW x \in Int, NEW y \in Int
      PROVE  Least({x, y}) \in {x, y} /\ Least({x, y}) <= x /\ Least({x, y}) <= y
  <2>1. \E m \in {x, y} : \A u \in {x, y} : m <= u
    OBVIOUS
  <2> QED
    BY <1>1, <2>1
<1>3. ASSUME NEW x \in Int, NEW y \in Int, NEW z \in Int
      PROVE  /\ Least({x, y, z}) \in {x, y, z}
             /\ Least({x, y, z}) <= x /\ Least({x, y, z}) <= y /\ Least({x, y, z}) <= z
  <2>1. \E m \in {x, y, z} : \A u \in {x, y, z} : m <= u
    OBVIOUS
  <2> QED
    BY <1>1, <2>1
<1> QED
  BY <1>2, <1>3

\* A chunk is at least one token, and within what remains and the budget.
LEMMA ChunkFits ==
  ASSUME cfg \in Configs, NEW remaining \in Nat \ {0}, NEW budget \in Nat \ {0}
  PROVE  /\ ChunkOf(remaining, budget) \in Nat \ {0}
         /\ ChunkOf(remaining, budget) <= remaining
         /\ ChunkOf(remaining, budget) <= budget
<1>1. cfg.long_prefill_token_threshold \in Nat
  BY EngineAssumption DEF EngineConfig
<1> DEFINE t == Threshold(budget)
<1>2. t \in Nat \ {0}
  BY <1>1 DEF Threshold
<1>3. ChunkOf(remaining, budget) = Least({remaining, budget, t})
  BY DEF ChunkOf
<1> HIDE DEF t
<1>4. remaining \in Int /\ budget \in Int /\ t \in Int
  BY <1>2
<1>5. /\ Least({remaining, budget, t}) \in {remaining, budget, t}
      /\ Least({remaining, budget, t}) <= remaining /\ Least({remaining, budget, t}) <= budget
  BY <1>4, LeastOf
<1> QED
  BY <1>2, <1>3, <1>5

\* Planning one more chunk adds its tokens.
LEMMA ChunksOfAppend ==
  /\ Total(Chunks(<<>>)) = 0
  /\ \A q \in Seq(ChunkRecord) : Chunks(q) \in Seq(Nat) /\ Total(Chunks(q)) \in Nat
  /\ \A q \in Seq(ChunkRecord), r \in ChunkRecord :
       Total(Chunks(Append(q, r))) = Total(Chunks(q)) + r.chunk
<1>1. Chunks(<<>>) = <<>>
  BY DEF Chunks
<1>2. ASSUME NEW q \in Seq(ChunkRecord)
      PROVE  /\ Chunks(q) \in Seq(Nat) /\ Len(Chunks(q)) = Len(q)
             /\ \A i \in 1..Len(q) : Chunks(q)[i] = q[i].chunk
  <2>1. DOMAIN q = 1..Len(q) /\ Len(q) \in Nat /\ \A i \in 1..Len(q) : q[i] \in ChunkRecord
    OBVIOUS
  <2>2. \A i \in 1..Len(q) : q[i].chunk \in Nat
    BY <2>1 DEF ChunkRecord
  <2> QED
    BY <2>1, <2>2 DEF Chunks
<1>3. ASSUME NEW q \in Seq(ChunkRecord), NEW r \in ChunkRecord
      PROVE  Chunks(Append(q, r)) = Append(Chunks(q), r.chunk)
  <2>1. r.chunk \in Nat
    BY DEF ChunkRecord
  <2>2. /\ Append(q, r) \in Seq(ChunkRecord) /\ Len(Append(q, r)) = Len(q) + 1
        /\ \A i \in 1..(Len(q) + 1) : Append(q, r)[i] = IF i = Len(q) + 1 THEN r ELSE q[i]
    OBVIOUS
  <2>3. /\ Chunks(Append(q, r)) \in Seq(Nat) /\ Len(Chunks(Append(q, r))) = Len(q) + 1
        /\ \A i \in 1..(Len(q) + 1) : Chunks(Append(q, r))[i] = Append(q, r)[i].chunk
    BY <1>2, <2>2
  <2>4. /\ Append(Chunks(q), r.chunk) \in Seq(Nat)
        /\ Len(Append(Chunks(q), r.chunk)) = Len(q) + 1
        /\ \A i \in 1..(Len(q) + 1) :
             Append(Chunks(q), r.chunk)[i] = IF i = Len(q) + 1 THEN r.chunk ELSE q[i].chunk
    BY <1>2, <2>1
  <2>5. \A i \in 1..(Len(q) + 1) : Chunks(Append(q, r))[i] = Append(Chunks(q), r.chunk)[i]
    BY <2>2, <2>3, <2>4
  <2> QED
    BY <2>3, <2>4, <2>5
<1>4. \A r \in ChunkRecord : r.chunk \in Nat
  BY DEF ChunkRecord
<1> QED
  BY <1>1, <1>2, <1>3, <1>4, TotalOfAppend

\* What planning the chunks of some sequences in order may lead to: the budget
\* is split between them and what is left, and is not overdrawn.
Plans(q, budget) ==
  {acc \in [budget : Int, prefills : Seq(ChunkRecord)] :
     /\ Total(Chunks(acc.prefills)) + acc.budget = budget
     /\ acc.prefills # <<>> => acc.budget >= 0
     /\ \A i \in DOMAIN acc.prefills : acc.prefills[i].seq \in Range(q)}

LEMMA ChunkNextPlans ==
  ASSUME Typed, NEW q \in Seq(Seqs), \A s \in Range(q) : ~prefill_done(s),
         NEW budget \in Int, NEW acc \in Plans(q, budget), NEW s \in Range(q)
  PROVE  ChunkNext(acc, s) \in Plans(q, budget)
<1>1. /\ acc.budget \in Int /\ acc.prefills \in Seq(ChunkRecord)
      /\ Total(Chunks(acc.prefills)) + acc.budget = budget
      /\ \A i \in DOMAIN acc.prefills : acc.prefills[i].seq \in Range(q)
  BY DEF Plans
<1>2. CASE acc.budget <= 0
  BY <1>2 DEF ChunkNext
<1>3. CASE acc.budget > 0
  <2> DEFINE m == prompt_tokens(s) - prefilled[s]
             c == ChunkOf(m, acc.budget)
             r == [seq |-> s, chunk |-> c]
             p == Append(acc.prefills, r)
  <2>1. s \in Seqs
    BY ContainsIsIn
  <2>2. m \in Nat \ {0} /\ acc.budget \in Nat \ {0} /\ cfg \in Configs
    <3>1. cfg \in Configs /\ prefilled[s] \in Nat /\ req \in Workloads
      BY <2>1 DEF Typed
    <3>2. prompt_tokens(s) \in Nat
      BY <2>1, <3>1, RequestFacts
    <3>3. ~(prefilled[s] >= prompt_tokens(s))
      BY DEF prefill_done
    <3> QED
      BY <1>1, <1>3, <3>1, <3>2, <3>3
  <2>4. ChunkNext(acc, s) = [budget |-> acc.budget - c, prefills |-> p]
    BY <1>1, <1>3 DEF ChunkNext
  <2> HIDE DEF m
  <2>3. c \in Nat \ {0} /\ c <= acc.budget
    BY <2>2, ChunkFits
  <2> HIDE DEF c
  <2>5. r \in ChunkRecord /\ r.chunk = c /\ r.seq = s
    BY <2>1, <2>3 DEF ChunkRecord
  <2> HIDE DEF r
  <2>6. /\ p \in Seq(ChunkRecord) /\ DOMAIN p = 1..(Len(acc.prefills) + 1)
        /\ \A i \in 1..(Len(acc.prefills) + 1) :
             p[i] = IF i = Len(acc.prefills) + 1 THEN r ELSE acc.prefills[i]
        /\ DOMAIN acc.prefills = 1..Len(acc.prefills) /\ Len(acc.prefills) \in Nat
    BY <1>1, <2>5
  <2>7. Total(Chunks(p)) = Total(Chunks(acc.prefills)) + c /\ Total(Chunks(acc.prefills)) \in Nat
    BY <1>1, <2>5, ChunksOfAppend
  <2> HIDE DEF p
  <2>8. \A i \in DOMAIN p : p[i].seq \in Range(q)
    BY <1>1, <2>5, <2>6
  <2>9. /\ Total(Chunks(p)) + (acc.budget - c) = budget
        /\ acc.budget - c >= 0 /\ acc.budget - c \in Int
    BY <1>1, <2>3, <2>7
  <2> QED
    BY <2>4, <2>6, <2>8, <2>9 DEF Plans
<1> QED
  BY <1>1, <1>2, <1>3

\* The loop over the partly prefilled sequences splits the budget.
LEMMA PartialChunksPlan ==
  ASSUME Typed, NEW q \in Seq(Seqs), \A s \in Range(q) : ~prefill_done(s),
         NEW budget \in Int
  PROVE  PartialChunks(q, budget) \in Plans(q, budget)
<1> DEFINE n == Len(q)
           V == Plans(q, budget)
           v == [budget |-> budget, prefills |-> <<>>]
           G == [p \in (1..n) \X V |-> ChunkNext(p[2], q[p[1]])]
           Eq(k) == k = [i \in 0..n |-> IF i = 0 THEN v ELSE ChunkNext(k[i - 1], q[i])]
<1>1. n \in Nat /\ \A i \in 1..n : q[i] \in Range(q)
  BY DEF Range
<1>2. v \in V
  <2>1. /\ v.budget = budget /\ v.prefills = <<>> /\ <<>> \in Seq(ChunkRecord)
        /\ v \in [budget : Int, prefills : Seq(ChunkRecord)]
    OBVIOUS
  <2>2. Total(Chunks(v.prefills)) + v.budget = budget
    BY <2>1, ChunksOfAppend
  <2>3. DOMAIN v.prefills = {}
    BY <2>1
  <2> QED
    BY <2>1, <2>2, <2>3 DEF Plans
<1>3. G \in [(1..n) \X V -> V]
  <2>1. ASSUME NEW p \in (1..n) \X V PROVE ChunkNext(p[2], q[p[1]]) \in V
    <3>1. p[2] \in V /\ q[p[1]] \in Range(q)
      BY <1>1
    <3> QED
      BY <3>1, ChunkNextPlans
  <2> QED
    BY <2>1
<1> HIDE DEF n, V, G, v
<1>4. PICK f : f \in [0..n -> V] /\ f[0] = v /\ \A i \in 1..n : f[i] = G[<<i, f[i - 1]>>]
  <2>1. PICK f : Iterates(f, n, V, v, G)
    BY <1>1, <1>2, <1>3, IterationExists
  <2> QED
    BY <2>1 DEF Iterates
<1>5. \A i \in 1..n : f[i] = ChunkNext(f[i - 1], q[i])
  <2>1. ASSUME NEW i \in 1..n PROVE f[i] = ChunkNext(f[i - 1], q[i])
    <3>1. i - 1 \in 0..n /\ f[i - 1] \in V
      BY <1>1, <1>4
    <3>2. <<i, f[i - 1]>> \in (1..n) \X V
      BY <3>1
    <3> QED
      BY <1>4, <3>2 DEF G
  <2> QED
    BY <2>1
<1>6. Eq(f)
  <2>1. f = [i \in 0..n |-> f[i]]
    BY <1>4
  <2>2. ASSUME NEW i \in 0..n
        PROVE  f[i] = IF i = 0 THEN v ELSE ChunkNext(f[i - 1], q[i])
    BY <1>1, <1>4, <1>5
  <2> QED
    BY <2>1, <2>2
<1> DEFINE k == CHOOSE g : Eq(g)
<1>7. Eq(k)
  BY <1>6
<1>8. PartialChunks(q, budget) = k[n]
  BY DEF PartialChunks, n, v
<1> HIDE DEF k
<1>9. k[0] = v /\ \A i \in 1..n : k[i] = ChunkNext(k[i - 1], q[i])
  <2>1. k[0] = v
    BY <1>1, <1>7
  <2>2. ASSUME NEW i \in 1..n PROVE k[i] = ChunkNext(k[i - 1], q[i])
    <3>1. i \in 0..n /\ i # 0
      BY <1>1
    <3> QED
      BY <1>7, <3>1
  <2> QED
    BY <2>1, <2>2
<1> DEFINE T == {i \in 0..n : k[i] = f[i]}
<1>10. 0 \in T
  BY <1>1, <1>4, <1>9
<1>11. ASSUME NEW i \in 1..n, i - 1 \in T PROVE i \in T
  BY <1>1, <1>5, <1>9, <1>11
<1> HIDE DEF T
<1>12. 0..n \subseteq T
  BY <1>1, <1>10, <1>11, InductionUpTo
<1>13. k[n] = f[n] /\ f[n] \in V
  BY <1>1, <1>4, <1>12 DEF T
<1> QED
  BY <1>8, <1>13 DEF V

-----------------------------------------------------------------------------
(***************************************************************************)
(* One lemma for every action that changes what the scheduler keeps.       *)
(***************************************************************************)

\* Comparing numbers orders whatever they are the keys of.
LEMMA ArrivalOrder ==
  ASSUME req \in Workloads
  PROVE  /\ KeyOrder({p \in Seqs \X Seqs :
                        LET r == req[p[1]]
                            u == req[p[2]]
                        IN \/ r.priority < u.priority
                           \/ r.priority = u.priority /\ r.arrival < u.arrival}, Seqs)
         /\ KeyOrder({p \in Seqs \X Seqs : req[p[1]].arrival < req[p[2]].arrival}, Seqs)
<1>1. \A s \in Seqs : req[s].priority \in Nat /\ req[s].arrival \in Nat
  BY RequestFacts
<1> DEFINE P == {p \in Seqs \X Seqs :
                   LET r == req[p[1]]
                       u == req[p[2]]
                   IN \/ r.priority < u.priority
                      \/ r.priority = u.priority /\ r.arrival < u.arrival}
           A == {p \in Seqs \X Seqs : req[p[1]].arrival < req[p[2]].arrival}
<1>2. \A x, y \in Seqs : /\ <<x, y>> \in P <=>
                              \/ req[x].priority < req[y].priority
                              \/ req[x].priority = req[y].priority /\ req[x].arrival < req[y].arrival
                         /\ <<x, y>> \in A <=> req[x].arrival < req[y].arrival
  OBVIOUS
<1> HIDE DEF P, A
<1>3. KeyOrder(P, Seqs)
  BY <1>1, <1>2 DEF KeyOrder
<1>4. KeyOrder(A, Seqs)
  BY <1>1, <1>2 DEF KeyOrder
<1> QED
  BY <1>3, <1>4 DEF P, A

LEMMA SortWaitingKeeps ==
  ASSUME req \in Workloads, NEW q \in Seq(Seqs)
  PROVE  /\ SortWaiting(q) \in Seq(Seqs)
         /\ Range(SortWaiting(q)) = Range(q)
         /\ Len(SortWaiting(q)) = Len(q)
         /\ IsInjective(q) => IsInjective(SortWaiting(q))
  BY ArrivalOrder, SortedKeeps DEF SortWaiting

\* Ready and Partial divide the batch.
LEMMA ReadyAndPartial ==
  ASSUME NEW q \in Seq(Seqs)
  PROVE  /\ Ready(q) \in Seq(Seqs) /\ Range(Ready(q)) \subseteq Range(q)
         /\ IsInjective(q) => IsInjective(Ready(q))
         /\ Len(Ready(q)) <= Len(q)
         /\ \A s \in Range(Ready(q)) : prefill_done(s)
         /\ Partial(q) \in Seq(Seqs) /\ Range(Partial(q)) \subseteq Range(q)
         /\ \A s \in Range(Partial(q)) : ~prefill_done(s)
<1>1. Range(q) \subseteq Seqs
  BY ContainsIsIn
<1>2. /\ Ready(q) \in Seq(Seqs) /\ Range(Ready(q)) = Range(q) \cap {s \in Seqs : prefill_done(s)}
      /\ IsInjective(q) => IsInjective(Ready(q))
      /\ Len(Ready(q)) <= Len(q)
  BY ThoseKept DEF Ready
<1>3. /\ Partial(q) \in Seq(Seqs)
      /\ Range(Partial(q)) = Range(q) \cap {s \in Seqs : ~prefill_done(s)}
  BY ThoseKept DEF Partial
<1> QED
  BY <1>1, <1>2, <1>3

\* What a configuration says of itself.
LEMMA ConfigFacts ==
  ASSUME cfg \in Configs
  PROVE  /\ cfg.max_num_seqs \in Nat \ {0} /\ cfg.max_num_batched_tokens \in Nat \ {0}
         /\ cfg.enable_chunked_prefill \in BOOLEAN
         /\ cfg.preemption_mode \in {"recompute", "swap"}
         /\ cfg.spec_draft_tokens \in Nat /\ cfg.spec_draft_tokens < MaxBurst
         /\ MaxBurst \in Nat
  BY EngineAssumption DEF EngineConfig

LEMMA EmptyQueue ==
  <<>> \in Seq(Seqs) /\ Len(<<>>) = 0 /\ Range(<<>>) = {} /\ IsInjective(<<>>)
  BY DEF Range, IsInjective

LEMMA BeginStepKeeps ==
  ASSUME SchedInv, BeginStep
  PROVE  SchedInv'
<1> USE DEF SchedInv
<1>1. PICK k \in 0..Len(pending) :
        /\ waiting' = SortWaiting(waiting \o SubSeq(pending, 1, k))
        /\ pending' = SubSeq(pending, k + 1, Len(pending))
  BY DEF BeginStep
<1> DEFINE p == SubSeq(pending, 1, k)
           q == waiting \o p
           ready == IF cfg.enable_chunked_prefill THEN Ready(running) ELSE <<>>
           budget == cfg.max_num_batched_tokens - Len(ready)
           chunks == IF cfg.enable_chunked_prefill
                     THEN PartialChunks(Partial(running), budget)
                     ELSE [budget |-> cfg.max_num_batched_tokens, prefills |-> <<>>]
<1>2. /\ UNCHANGED <<cfg, req, running, swapped, finished, prefilled, generated,
                     cached_tokens, first_token, computed>>
      /\ stage = "idle" /\ stage' = "admit" /\ survivors' = <<>> /\ admitted' = FALSE
      /\ decodes' = ready /\ prefills' = chunks.prefills /\ token_budget' = chunks.budget
  BY DEF BeginStep, inputs, seqVars
<1>3. /\ p \in Seq(Seqs) /\ pending' \in Seq(Seqs) /\ pending = p \o pending'
      /\ q \in Seq(Seqs) /\ Range(q) = Range(waiting) \cup Range(p)
      /\ Range(pending) = Range(p) \cup Range(pending')
      /\ IsInjective(pending) => /\ IsInjective(p) /\ IsInjective(pending')
                                 /\ Range(p) \cap Range(pending') = {}
      /\ IsInjective(q) <=> /\ IsInjective(waiting) /\ IsInjective(p)
                            /\ Range(waiting) \cap Range(p) = {}
  <2>1. /\ p \in Seq(Seqs) /\ pending' \in Seq(Seqs) /\ pending = p \o pending'
        /\ waiting \in Seq(Seqs)
    BY <1>1, SplitQueue DEF Typed
  <2> HIDE DEF p
  <2>2. /\ Range(pending) = Range(p) \cup Range(pending')
        /\ IsInjective(pending) <=> /\ IsInjective(p) /\ IsInjective(pending')
                                    /\ Range(p) \cap Range(pending') = {}
    BY <2>1, ConcatOfQueues
  <2>3. /\ q \in Seq(Seqs) /\ Range(q) = Range(waiting) \cup Range(p)
        /\ IsInjective(q) <=> /\ IsInjective(waiting) /\ IsInjective(p)
                              /\ Range(waiting) \cap Range(p) = {}
    BY <2>1, ConcatOfQueues
  <2> QED
    BY <2>1, <2>2, <2>3
<1>4. /\ waiting' \in Seq(Seqs) /\ Range(waiting') = Range(q)
      /\ IsInjective(q) => IsInjective(waiting')
  BY <1>1, <1>3, SortWaitingKeeps DEF Typed
<1>5. /\ ready \in Seq(Seqs) /\ Range(ready) \subseteq Range(running) /\ Len(ready) \in Nat
      /\ budget \in Int
  <2>1. ready \in Seq(Seqs) /\ Range(ready) \subseteq Range(running)
    BY ReadyAndPartial, EmptyQueue DEF Typed
  <2>2. cfg.max_num_batched_tokens \in Nat
    BY ConfigFacts DEF Typed
  <2> HIDE DEF ready
  <2>3. Len(ready) \in Nat
    BY <2>1
  <2> QED
    BY <2>1, <2>2, <2>3
<1>6. /\ chunks.prefills \in Seq(ChunkRecord) /\ chunks.budget \in Int
      /\ cfg.enable_chunked_prefill =>
           /\ Total(Chunks(chunks.prefills)) + chunks.budget = budget
           /\ chunks.prefills # <<>> => chunks.budget >= 0
      /\ \A i \in DOMAIN chunks.prefills : chunks.prefills[i].seq \in Range(running)
  <2>1. CASE cfg.enable_chunked_prefill
    <3>1. chunks \in Plans(Partial(running), budget)
      BY <1>5, <2>1, ReadyAndPartial, PartialChunksPlan DEF Typed
    <3>2. Range(Partial(running)) \subseteq Range(running)
      BY ReadyAndPartial DEF Typed
    <3> QED
      BY <3>1, <3>2 DEF Plans
  <2>2. CASE ~cfg.enable_chunked_prefill
    BY <2>2, ConfigFacts DEF Typed
  <2> QED
    BY <2>1, <2>2
<1> HIDE DEF p, q, ready, chunks
<1>7. Typed'
  BY <1>2, <1>3, <1>4, <1>5, <1>6, EmptyQueue DEF Typed, ChunkRecord
<1>8. Counted'
  BY <1>2 DEF Counted
<1>9. Placed'
  BY <1>2, <1>3, <1>4 DEF Placed
<1>10. Planned'
  <2>1. Range(running) \cap Range(finished) = {}
    BY <1>2 DEF Placed
  <2>2. PrefillSeqs' \subseteq Range(running)
    BY <1>2, <1>6 DEF PrefillSeqs
  <2> QED
    BY <1>2, <1>5, <2>1, <2>2, EmptyQueue DEF Planned
<1>11. Coupled'
  BY <1>2 DEF Coupled
<1>12. Batched'
  <2>1. Len(running') <= cfg'.max_num_seqs
    BY <1>2 DEF Batched
  <2>2. ASSUME cfg.enable_chunked_prefill
        PROVE  /\ Len(decodes') + Len(survivors') + Total(Chunks(prefills')) + token_budget'
                    <= cfg.max_num_batched_tokens
               /\ prefills' # <<>> => token_budget' >= 0
    <3>1. Total(Chunks(prefills')) + token_budget' = cfg.max_num_batched_tokens - Len(decodes')
      BY <1>2, <1>6, <2>2
    <3>2. Total(Chunks(prefills')) \in Nat /\ Len(decodes') \in Nat /\ token_budget' \in Int
      BY <1>2, <1>5, <1>6, ChunksOfAppend
    <3>3. Len(survivors') = 0
      BY <1>2
    <3>4. cfg.max_num_batched_tokens \in Nat
      BY ConfigFacts DEF Typed
    <3>5. prefills' # <<>> => token_budget' >= 0
      BY <1>2, <1>6, <2>2
    <3> QED
      BY <3>1, <3>2, <3>3, <3>4, <3>5
  <2> QED
    BY <1>2, <2>1, <2>2 DEF Batched, Chunks
<1>13. Stale'
  BY <1>2, <1>5 DEF Stale
<1> QED
  BY <1>7, <1>8, <1>9, <1>10, <1>11, <1>12, <1>13

LEMMA AdmitRunningKeeps ==
  ASSUME SchedInv, KVTypeOK, AdmitRunning
  PROVE  SchedInv'
<1> USE DEF SchedInv
<1> DEFINE s == Head(waiting)
           cached == CachedTokens(s)
           remaining == prompt_tokens(s) - cached
           chunk == IF cfg.enable_chunked_prefill
                    THEN ChunkOf(remaining, token_budget) ELSE remaining
           r == [seq |-> s, chunk |-> chunk]
<1>1. /\ UNCHANGED <<cfg, req, pending, swapped, finished, generated, first_token,
                     decodes, survivors, computed>>
      /\ stage = "admitting" /\ stage' = "admit" /\ admitted' = TRUE
      /\ waiting' = Tail(waiting) /\ running' = Append(running, s)
      /\ cached_tokens' = [cached_tokens EXCEPT ![s] = cached]
      /\ prefilled' = [prefilled EXCEPT ![s] = cached]
  BY DEF AdmitRunning, inputs
<1>2. /\ remaining > 0 => /\ prefills' = Append(prefills, r)
                          /\ token_budget' = token_budget - chunk
      /\ ~(remaining > 0) => prefills' = prefills /\ token_budget' = token_budget
  BY DEF AdmitRunning
<1>3. waiting # <<>> /\ token_budget > 0 /\ RoomToAdmit
  BY <1>1 DEF Coupled
<1>4. /\ s \in Seqs /\ s \in Range(waiting) /\ waiting' \in Seq(Seqs)
      /\ Range(waiting) = Range(waiting') \cup {s}
      /\ IsInjective(waiting) => IsInjective(waiting') /\ s \notin Range(waiting')
  BY <1>1, <1>3, TailOfQueue DEF Typed
<1>5. /\ running' \in Seq(Seqs) /\ Len(running') = Len(running) + 1
      /\ Range(running') = Range(running) \cup {s}
      /\ IsInjective(running) /\ s \notin Range(running) => IsInjective(running')
  <2> HIDE DEF s
  <2> QED
    BY <1>1, <1>4, AppendToQueue DEF Typed
<1>6. cached \in Nat /\ remaining \in Int /\ token_budget \in Int
  <2>1. hits[s] \in Nat /\ BlockSize \in Nat /\ prompt_tokens(s) \in Nat
    BY <1>4, KVAssumption, RequestFacts DEF KVTypeOK, Typed
  <2>2. \A m, n \in Nat : m * n \in Nat
    OBVIOUS
  <2>3. cached \in Nat
    BY <2>1, <2>2 DEF CachedTokens
  <2> HIDE DEF s, cached
  <2> QED
    BY <2>1, <2>3 DEF Typed
<1> HIDE DEF s, cached, remaining
<1>7. remaining > 0 => /\ chunk \in Nat \ {0}
                       /\ cfg.enable_chunked_prefill => chunk <= token_budget
  <2> SUFFICES ASSUME remaining > 0
               PROVE  /\ chunk \in Nat \ {0}
                      /\ cfg.enable_chunked_prefill => chunk <= token_budget
    OBVIOUS
  <2>1. remaining \in Nat \ {0} /\ token_budget \in Nat \ {0} /\ cfg \in Configs
    BY <1>3, <1>6 DEF Typed
  <2>2. /\ ChunkOf(remaining, token_budget) \in Nat \ {0}
        /\ ChunkOf(remaining, token_budget) <= token_budget
    BY <2>1, ChunkFits
  <2> QED
    BY <2>1, <2>2
<1> HIDE DEF chunk
<1>8. remaining > 0 => r \in ChunkRecord /\ r.chunk = chunk /\ r.seq = s
  BY <1>4, <1>7 DEF ChunkRecord
<1> HIDE DEF r
<1>9. prefills \in Seq(ChunkRecord)
  BY DEF Typed, ChunkRecord
<1>10. /\ prefills' \in Seq(ChunkRecord) /\ token_budget' \in Int
       /\ PrefillSeqs' \subseteq PrefillSeqs \cup {s}
  <2>1. CASE remaining > 0
    <3>1. /\ prefills' \in Seq(ChunkRecord)
          /\ \A i \in DOMAIN prefills' :
               (i \in DOMAIN prefills /\ prefills'[i] = prefills[i]) \/ prefills'[i] = r
      BY <1>2, <1>8, <1>9, <2>1
    <3> QED
      BY <1>2, <1>6, <1>7, <1>8, <2>1, <3>1 DEF PrefillSeqs
  <2>2. CASE ~(remaining > 0)
    BY <1>2, <1>6, <1>9, <2>2 DEF PrefillSeqs
  <2> QED
    BY <2>1, <2>2
<1>11. Typed'
  BY <1>1, <1>4, <1>5, <1>6, <1>10 DEF Typed, ChunkRecord
<1>12. Counted'
  BY <1>1 DEF Counted
<1>13. Placed'
  BY <1>1, <1>4, <1>5 DEF Placed
<1>14. Planned'
  <2>1. s \notin Range(finished)
    BY <1>1, <1>4 DEF Placed
  <2> QED
    BY <1>1, <1>10, <2>1 DEF Planned
<1>15. Coupled'
  BY <1>1 DEF Coupled
<1>16. Batched'
  <2>1. Len(running') <= cfg.max_num_seqs
    <3>1. Len(running) \in Nat /\ Len(prefills) \in Nat /\ cfg.max_num_seqs \in Nat
      BY <1>9, ConfigFacts DEF Typed
    <3>2. Len(running) < cfg.max_num_seqs
      BY <1>3, <3>1 DEF RoomToAdmit
    <3> QED
      BY <1>5, <3>1, <3>2
  <2>2. ASSUME cfg.enable_chunked_prefill
        PROVE  /\ Len(decodes') + Len(survivors') + Total(Chunks(prefills')) + token_budget'
                    <= cfg.max_num_batched_tokens
               /\ prefills' # <<>> => token_budget' >= 0
    <3>1. /\ Len(decodes) + Len(survivors) + Total(Chunks(prefills)) + token_budget
               <= cfg.max_num_batched_tokens
      BY <1>1, <2>2 DEF Batched
    <3>2. /\ Len(decodes) \in Nat /\ Len(survivors) \in Nat /\ Total(Chunks(prefills)) \in Nat
          /\ cfg.max_num_batched_tokens \in Nat
      BY <1>9, ConfigFacts, ChunksOfAppend DEF Typed
    <3>3. CASE remaining > 0
      <4>1. Total(Chunks(prefills')) = Total(Chunks(prefills)) + chunk
        BY <1>2, <1>8, <1>9, <3>3, ChunksOfAppend
      <4>2. token_budget' = token_budget - chunk /\ chunk \in Nat /\ chunk <= token_budget
        BY <1>2, <1>7, <2>2, <3>3
      <4> QED
        BY <1>1, <1>6, <3>1, <3>2, <4>1, <4>2
    <3>4. CASE ~(remaining > 0)
      BY <1>1, <1>2, <1>3, <1>6, <3>1, <3>2, <3>4
    <3> QED
      BY <3>3, <3>4
  <2> QED
    BY <1>1, <2>1, <2>2 DEF Batched, Chunks
<1>17. Stale'
  BY <1>1, <1>5 DEF Stale
<1> QED
  BY <1>11, <1>12, <1>13, <1>14, <1>15, <1>16, <1>17

\* A swapped sequence that joins or leaves: the same queues, one element moved.
LEMMA RestoreRunningKeeps ==
  ASSUME SchedInv, KVTypeOK, RestoreRunning
  PROVE  SchedInv'
<1> USE DEF SchedInv
<1> DEFINE s == Head(swapped)
<1>1. /\ UNCHANGED <<cfg, req, pending, waiting, finished, prefilled, generated,
                     cached_tokens, first_token, token_budget, prefills, decodes,
                     survivors, admitted>>
      /\ stage = "restoring" /\ stage' = "restore"
      /\ swapped' = Tail(swapped) /\ running' = Append(running, s)
      /\ computed' = computed \cup Range(tables[s])
  BY DEF RestoreRunning, inputs, seqVars, stepVars
<1>2. swapped # <<>> /\ Len(running) < cfg.max_num_seqs /\ ~cfg.enable_chunked_prefill
      /\ prefills = <<>>
  BY <1>1 DEF Coupled
<1>3. /\ s \in Seqs /\ s \in Range(swapped) /\ swapped' \in Seq(Seqs)
      /\ Range(swapped) = Range(swapped') \cup {s}
      /\ IsInjective(swapped) => IsInjective(swapped') /\ s \notin Range(swapped')
  BY <1>1, <1>2, TailOfQueue DEF Typed
<1>4. /\ running' \in Seq(Seqs) /\ Len(running') = Len(running) + 1
      /\ Range(running') = Range(running) \cup {s}
      /\ IsInjective(running) /\ s \notin Range(running) => IsInjective(running')
  <2>1. running \in Seq(Seqs) /\ running' = Append(running, s) /\ s \in Seqs
    BY <1>1, <1>3 DEF Typed
  <2> HIDE DEF s
  <2> QED
    BY <2>1, AppendToQueue
<1>5. Range(tables[s]) \subseteq Block
  BY <1>3, ContainsIsIn DEF KVTypeOK
<1> HIDE DEF s
<1>6. Typed'
  BY <1>1, <1>3, <1>4, <1>5 DEF Typed
<1>7. Counted'
  BY <1>1 DEF Counted
<1>8. Placed'
  BY <1>1, <1>3, <1>4 DEF Placed
<1>9. Planned'
  BY <1>1 DEF Planned, PrefillSeqs
<1>10. Coupled'
  BY <1>1, <1>2 DEF Coupled
<1>11. Batched'
  <2>1. Len(running) \in Nat /\ cfg.max_num_seqs \in Nat
    BY ConfigFacts DEF Typed
  <2> QED
    BY <1>1, <1>2, <1>4, <2>1 DEF Batched
<1>12. Stale'
  BY <1>1 DEF Stale
<1> QED
  BY <1>6, <1>7, <1>8, <1>9, <1>10, <1>11, <1>12

LEMMA RestoreCrashKeeps ==
  ASSUME SchedInv, RestoreCrash
  PROVE  SchedInv'
<1> USE DEF SchedInv
<1>1. /\ UNCHANGED <<cfg, req, pending, waiting, running, finished, prefilled, generated,
                     cached_tokens, first_token, token_budget, prefills, decodes,
                     survivors, admitted, computed>>
      /\ stage = "restoring" /\ stage' = "crashed" /\ swapped' = Tail(swapped)
  BY DEF RestoreCrash, inputs, seqVars, stepVars
<1>2. swapped' \in Seq(Seqs)
  BY <1>1, TailOfQueue DEF Coupled, Typed
<1> QED
  BY <1>1, <1>2 DEF Typed, Counted, Placed, Planned, Coupled, Batched, Stale

LEMMA EndRestoreKeeps ==
  ASSUME SchedInv, EndRestore
  PROVE  SchedInv'
<1> USE DEF SchedInv
<1>1. /\ UNCHANGED <<cfg, req, pending, waiting, running, swapped, finished, prefilled,
                     generated, cached_tokens, first_token, token_budget, prefills,
                     survivors, admitted, computed>>
      /\ stage = "restore" /\ stage' = "grow" /\ decodes' = Ready(running)
  BY DEF EndRestore, inputs, queues, seqVars
<1>2. decodes' \in Seq(Seqs) /\ Range(decodes') \subseteq Range(running)
  BY <1>1, ReadyAndPartial DEF Typed
<1>3. ~cfg.enable_chunked_prefill /\ prefills = <<>>
  BY <1>1 DEF Coupled
<1>4. Typed'
  BY <1>1, <1>2 DEF Typed
<1>5. Counted'
  BY <1>1 DEF Counted
<1>6. Placed'
  BY <1>1 DEF Placed
<1>7. Planned'
  BY <1>1, <1>2 DEF Planned, Placed, PrefillSeqs
<1>8. Coupled'
  BY <1>1 DEF Coupled
<1>9. Batched'
  BY <1>1, <1>3 DEF Batched
<1>10. Stale'
  BY <1>1, <1>2 DEF Stale
<1> QED
  BY <1>4, <1>5, <1>6, <1>7, <1>8, <1>9, <1>10

LEMMA GrowOneKeeps ==
  ASSUME SchedInv, KVTypeOK, KVTypeOK', GrowOne
  PROVE  SchedInv'
<1> USE DEF SchedInv
<1> DEFINE s == Head(decodes)
           n == total_len(s)
<1>1. /\ UNCHANGED <<cfg, req, pending, waiting, running, swapped, finished, prefilled,
                     generated, cached_tokens, first_token, token_budget, prefills, admitted>>
      /\ stage = "grow" /\ stage' = "grow" /\ decodes # <<>>
      /\ decodes' = Tail(decodes) /\ survivors' = Append(survivors, s)
      /\ append_token(s, n) /\ CopyComputed(s)
  BY DEF GrowOne, inputs, queues, seqVars
<1>2. /\ s \in Seqs /\ s \in Range(decodes) /\ decodes' \in Seq(Seqs)
      /\ Len(decodes') = Len(decodes) - 1
      /\ Range(decodes) = Range(decodes') \cup {s}
  BY <1>1, TailOfQueue DEF Typed
<1> HIDE DEF s, n
<1>3. /\ survivors' \in Seq(Seqs) /\ Len(survivors') = Len(survivors) + 1
      /\ Range(survivors') = Range(survivors) \cup {s}
  BY <1>1, <1>2, AppendToQueue DEF Typed
<1>4. tables'[s] \in Seq(Block) /\ tables'[s] # <<>>
  <2>1. tables[s] \in Seq(Block) /\ tables'[s] \in Seq(Block)
    BY <1>2 DEF KVTypeOK
  <2>2. CASE GrowTable(s, n)
    <3>1. PICK x : tables' = [tables EXCEPT ![s] = Append(tables[s], x)]
      BY <2>2 DEF GrowTable
    <3>2. tables'[s] = Append(tables[s], x)
      BY <1>2, <3>1 DEF KVTypeOK
    <3> QED
      BY <2>1, <3>2
  <2>3. CASE WriteTail(s, n)
    BY <2>1, <2>3 DEF WriteTail
  <2>4. CASE CopyOnWrite(s, n)
    <3>1. PICK x : tables' = [tables EXCEPT ![s][Len(tables[s])] = x]
      BY <2>4 DEF CopyOnWrite
    <3>2. tables'[s] = [tables[s] EXCEPT ![Len(tables[s])] = x] /\ tables[s] # <<>>
      BY <1>2, <2>4, <3>1 DEF KVTypeOK, CopyOnWrite
    <3>3. DOMAIN tables'[s] = DOMAIN tables[s]
      BY <3>2
    <3> QED
      BY <2>1, <3>2, <3>3
  <2> QED
    BY <1>1, <2>1, <2>2, <2>3, <2>4 DEF append_token
<1>5. computed' \subseteq Block
  <2>1. Last(tables'[s]) \in Block
    BY <1>4 DEF Last
  <2> QED
    BY <1>1, <2>1 DEF CopyComputed, Typed
<1>6. Typed'
  BY <1>1, <1>2, <1>3, <1>5 DEF Typed
<1>7. Counted'
  BY <1>1 DEF Counted
<1>8. Placed'
  BY <1>1 DEF Placed
<1>9. Planned'
  BY <1>1, <1>2, <1>3 DEF Planned, PrefillSeqs
<1>10. Coupled'
  BY <1>1 DEF Coupled
<1>11. Batched'
  <2>1. /\ Len(decodes) \in Nat /\ Len(survivors) \in Nat /\ token_budget \in Int
        /\ cfg.max_num_batched_tokens \in Nat
        /\ prefills \in Seq(ChunkRecord)
    BY ConfigFacts DEF Typed, ChunkRecord
  <2>2. Total(Chunks(prefills)) \in Nat
    BY <2>1, ChunksOfAppend
  <2>3. Len(decodes') + Len(survivors') = Len(decodes) + Len(survivors)
    BY <1>2, <1>3, <2>1
  <2> HIDE DEF s
  <2> QED
    BY <1>1, <2>1, <2>2, <2>3 DEF Batched, Chunks
<1>12. Stale'
  BY <1>1, <1>2 DEF Stale
<1> QED
  BY <1>6, <1>7, <1>8, <1>9, <1>10, <1>11, <1>12

\* A victim leaves the batch for the head of waiting or the end of swapped; if
\* it is not in the batch the engine dies.
LEMMA PreemptKeeps ==
  ASSUME SchedInv, Preempt
  PROVE  SchedInv'
<1> USE DEF SchedInv
<1> DEFINE s == Head(decodes)
           v == Victim(s)
<1>1. /\ UNCHANGED <<cfg, req, pending, finished, cached_tokens, token_budget, prefills,
                     admitted, computed>>
      /\ stage = "preempt"
      /\ cfg.preemption_mode = "swap" =>
           /\ swapped' = Append(swapped, v)
           /\ UNCHANGED <<waiting, prefilled, generated, first_token>>
      /\ cfg.preemption_mode # "swap" =>
           /\ waiting' = <<v>> \o waiting
           /\ prefilled' = [prefilled EXCEPT ![v] = 0]
           /\ generated' = [generated EXCEPT ![v] = 0]
           /\ first_token' = [first_token EXCEPT ![v] = FALSE]
           /\ UNCHANGED swapped
      /\ Contains(running, v) => running' = RemoveFirst(running, v) /\ stage' = "grow"
      /\ ~Contains(running, v) => stage' = "crashed" /\ UNCHANGED running
      /\ v = s => decodes' = Tail(decodes) /\ survivors' = survivors
      /\ v # s => decodes' = decodes /\ survivors' = RemoveFirst(survivors, v)
  BY DEF Preempt, inputs, Requeue, SwapOut
<1>2. decodes # <<>>
  BY <1>1 DEF Coupled
<1>3. /\ s \in Seqs /\ s \in Range(decodes) /\ Tail(decodes) \in Seq(Seqs)
      /\ Len(Tail(decodes)) = Len(decodes) - 1
      /\ Range(decodes) = Range(Tail(decodes)) \cup {s}
  BY <1>2, TailOfQueue DEF Typed
<1> HIDE DEF s
<1>4. v \in Seqs /\ (v # s => v \in Range(running))
  BY <1>3, VictimIsSeq
<1> HIDE DEF v
<1>5. Contains(running, v) <=> v \in Range(running)
  BY ContainsIsIn DEF Typed
<1>6. /\ waiting' \in Seq(Seqs) /\ swapped' \in Seq(Seqs)
      /\ \/ /\ waiting' = waiting /\ Range(swapped') = Range(swapped) \cup {v}
            /\ IsInjective(swapped) /\ v \notin Range(swapped) => IsInjective(swapped')
         \/ /\ swapped' = swapped /\ Range(waiting') = Range(waiting) \cup {v}
            /\ IsInjective(waiting) /\ v \notin Range(waiting) => IsInjective(waiting')
  <2>1. CASE cfg.preemption_mode = "swap"
    <3>1. swapped' = Append(swapped, v) /\ waiting' = waiting /\ swapped \in Seq(Seqs)
          /\ waiting \in Seq(Seqs)
      BY <1>1, <2>1 DEF Typed
    <3>2. /\ swapped' \in Seq(Seqs) /\ Range(swapped') = Range(swapped) \cup {v}
          /\ IsInjective(swapped) /\ v \notin Range(swapped) => IsInjective(swapped')
      BY <1>4, <3>1, AppendToQueue
    <3> QED
      BY <3>1, <3>2
  <2>2. CASE cfg.preemption_mode # "swap"
    <3>1. <<v>> \in Seq(Seqs) /\ Range(<<v>>) = {v} /\ IsInjective(<<v>>)
      BY <1>4, OneElement
    <3> DEFINE one == <<v>>
    <3>2. waiting' = one \o waiting /\ swapped' = swapped
      BY <1>1, <2>2
    <3>3. one \in Seq(Seqs) /\ Range(one) = {v} /\ IsInjective(one)
      BY <3>1
    <3> HIDE DEF one
    <3>4. /\ waiting' \in Seq(Seqs) /\ Range(waiting') = Range(one) \cup Range(waiting)
          /\ IsInjective(waiting') <=> /\ IsInjective(one) /\ IsInjective(waiting)
                                       /\ Range(one) \cap Range(waiting) = {}
      BY <3>2, <3>3, ConcatOfQueues DEF Typed
    <3> QED
      BY <3>2, <3>3, <3>4 DEF Typed
  <2> QED
    BY <2>1, <2>2
<1>7. /\ generated' \in [Seqs -> Nat] /\ prefilled' \in [Seqs -> Nat]
      /\ first_token' \in [Seqs -> BOOLEAN]
      /\ \A u \in Seqs : /\ generated'[u] \in {generated[u], 0}
                         /\ generated'[u] = 0 \/ first_token'[u] = first_token[u]
      /\ cfg.preemption_mode = "recompute" => generated'[v] = 0
      /\ \A u \in Seqs \ {v} : generated'[u] = generated[u]
  <2>1. /\ generated \in [Seqs -> Nat] /\ prefilled \in [Seqs -> Nat]
        /\ first_token \in [Seqs -> BOOLEAN]
    BY DEF Typed
  <2>2. CASE cfg.preemption_mode = "swap"
    BY <1>1, <2>1, <2>2
  <2>3. CASE cfg.preemption_mode # "swap"
    <3>1. /\ prefilled' = [prefilled EXCEPT ![v] = 0]
          /\ generated' = [generated EXCEPT ![v] = 0]
          /\ first_token' = [first_token EXCEPT ![v] = FALSE]
      BY <1>1, <2>3
    <3>2. generated' \in [Seqs -> Nat] /\ prefilled' \in [Seqs -> Nat]
      BY <1>4, <2>1, <3>1
    <3>3. first_token' \in [Seqs -> BOOLEAN]
      BY <1>4, <2>1, <3>1
    <3>4. \A u \in Seqs : /\ generated'[u] = IF u = v THEN 0 ELSE generated[u]
                          /\ u # v => first_token'[u] = first_token[u]
      BY <1>4, <2>1, <3>1
    <3> QED
      BY <1>4, <3>2, <3>3, <3>4
  <2> QED
    BY <2>2, <2>3
<1>8. /\ running' \in Seq(Seqs) /\ Len(running') <= Len(running)
      /\ v \in Range(running) => /\ Range(running) = Range(running') \cup {v}
                                 /\ IsInjective(running) => /\ IsInjective(running')
                                                            /\ v \notin Range(running')
  <2>1. running \in Seq(Seqs) /\ Len(running) \in Nat
    BY DEF Typed
  <2>2. CASE v \in Range(running)
    <3>1. running' = RemoveFirst(running, v)
      BY <1>1, <1>5, <2>2
    <3> QED
      BY <2>1, <2>2, <3>1, RemoveFromQueue
  <2>3. CASE v \notin Range(running)
    BY <1>1, <1>5, <2>1, <2>3
  <2> QED
    BY <2>2, <2>3
<1>9. /\ decodes' \in Seq(Seqs) /\ Range(decodes') \subseteq Range(decodes)
      /\ Len(decodes') <= Len(decodes)
  <2>1. decodes \in Seq(Seqs) /\ Len(decodes) \in Nat
    BY DEF Typed
  <2>2. CASE v = s
    <3>1. decodes' = Tail(decodes)
      BY <1>1, <2>2
    <3> QED
      BY <1>3, <2>1, <3>1
  <2>3. CASE v # s
    <3>1. decodes' = decodes
      BY <1>1, <2>3
    <3> QED
      BY <2>1, <3>1
  <2> QED
    BY <2>2, <2>3
<1>10. /\ survivors' \in Seq(Seqs) /\ Range(survivors') \subseteq Range(survivors)
       /\ Len(survivors') <= Len(survivors)
  <2>1. CASE v = s
    BY <1>1, <2>1 DEF Typed
  <2>2. CASE v # s /\ v \in Range(survivors)
    <3>1. survivors' = RemoveFirst(survivors, v)
      BY <1>1, <2>2
    <3>2. /\ RemoveFirst(survivors, v) \in Seq(Seqs)
          /\ Len(RemoveFirst(survivors, v)) = Len(survivors) - 1
          /\ Range(survivors) = Range(RemoveFirst(survivors, v)) \cup {v}
      BY <2>2, RemoveFromQueue DEF Typed
    <3> QED
      BY <3>1, <3>2
  <2>3. CASE v # s /\ v \notin Range(survivors)
    <3>1. ~\E i \in 1..Len(survivors) : survivors[i] = v
      <4>1. DOMAIN survivors = 1..Len(survivors)
        BY DEF Typed
      <4> QED
        BY <2>3, <4>1 DEF Range
    <3>2. survivors' = survivors
      BY <1>1, <2>3, <3>1 DEF RemoveFirst
    <3> QED
      BY <3>2 DEF Typed
  <2> QED
    BY <2>1, <2>2, <2>3
<1>11. stage' = IF v \in Range(running) THEN "grow" ELSE "crashed"
  BY <1>1, <1>5
<1>12. Typed'
  BY <1>1, <1>6, <1>7, <1>8, <1>9, <1>10 DEF Typed
<1>13. Counted'
  <2> SUFFICES ASSUME NEW u \in Seqs
               PROVE  /\ generated'[u] <= req[u].output_tokens
                      /\ generated'[u] > 0 => first_token'[u]
    BY <1>1 DEF Counted
  <2>1. req[u].output_tokens \in Nat
    BY RequestFacts DEF Typed
  <2> QED
    BY <1>7, <2>1 DEF Counted
<1>14. Placed'
  BY <1>1, <1>6, <1>8, <1>11 DEF Placed
<1>15. Planned'
  BY <1>1, <1>9, <1>10, <1>11 DEF Planned, PrefillSeqs
<1>16. Coupled'
  BY <1>11 DEF Coupled
<1>17. Batched'
  <2>1. /\ Len(decodes) \in Nat /\ Len(survivors) \in Nat /\ token_budget \in Int
        /\ Len(running) \in Nat
        /\ cfg.max_num_batched_tokens \in Nat /\ cfg.max_num_seqs \in Nat
        /\ prefills \in Seq(ChunkRecord)
    BY ConfigFacts DEF Typed, ChunkRecord
  <2>4. Len(decodes') \in Nat /\ Len(survivors') \in Nat /\ Len(running') \in Nat
    BY <1>8, <1>9, <1>10
  <2>2. Total(Chunks(prefills)) \in Nat
    BY <2>1, ChunksOfAppend
  <2>3. UNCHANGED <<cfg, prefills, token_budget>> /\ stage = "preempt"
    BY <1>1
  <2>5. PICK d, z, l, b : d = Len(decodes) /\ z = Len(survivors) /\ l = Len(running)
                           /\ b = Total(Chunks(prefills))
    OBVIOUS
  <2>6. PICK d2, z2, l2 : d2 = Len(decodes') /\ z2 = Len(survivors') /\ l2 = Len(running')
    OBVIOUS
  <2>7. /\ d \in Nat /\ z \in Nat /\ l \in Nat /\ b \in Nat
        /\ d2 \in Nat /\ z2 \in Nat /\ l2 \in Nat
        /\ d2 <= d /\ z2 <= z /\ l2 <= l
    BY <1>8, <1>9, <1>10, <2>1, <2>2, <2>4, <2>5, <2>6
  <2>8. l <= cfg.max_num_seqs
    BY <2>5 DEF Batched
  <2>9. l2 <= cfg.max_num_seqs
    BY <2>1, <2>7, <2>8
  <2>10. ASSUME cfg.enable_chunked_prefill
         PROVE  /\ d2 + z2 + b + token_budget <= cfg.max_num_batched_tokens
                /\ prefills # <<>> => token_budget >= 0
    <3>1. /\ d + z + b + token_budget <= cfg.max_num_batched_tokens
          /\ prefills # <<>> => token_budget >= 0
      BY <2>3, <2>5, <2>10 DEF Batched
    <3>2. PICK m : m = cfg.max_num_batched_tokens
      OBVIOUS
    <3>3. m \in Nat /\ token_budget \in Int /\ d + z + b + token_budget <= m
      BY <2>1, <3>1, <3>2
    <3>4. d2 + z2 + b + token_budget <= m
      BY <2>7, <3>3
    <3> QED
      BY <3>1, <3>2, <3>4
  <2>11. Total(Chunks(prefills')) = b
    BY <2>3, <2>5
  <2> QED
    BY <2>3, <2>6, <2>9, <2>10, <2>11 DEF Batched
<1>18. Stale'
  <2> SUFFICES ASSUME cfg.preemption_mode = "recompute", v \in Range(running),
                      NEW u \in Range(decodes') \ Range(running')
               PROVE  generated'[u] = 0
    BY <1>1, <1>11 DEF Stale
  <2>1. u \in Seqs /\ u \in Range(decodes)
    BY <1>9, ContainsIsIn
  <2>2. CASE u = v
    BY <1>7, <2>2
  <2>3. CASE u # v
    <3>1. u \notin Range(running)
      BY <1>8, <2>3
    <3>2. generated[u] = 0
      BY <1>1, <2>1, <3>1 DEF Stale
    <3> QED
      BY <1>7, <2>1, <2>3, <3>2
  <2> QED
    BY <2>2, <2>3
<1> QED
  BY <1>12, <1>13, <1>14, <1>15, <1>16, <1>17, <1>18

\* What a step emits for a sequence, and what it prefills of it.
LEMMA EmittedFits ==
  ASSUME Typed, Counted, NEW s \in Seqs, NEW k \in Nat \ {0}
  PROVE  /\ Emitted(s, k) \in Nat /\ Emitted(s, k) <= k
         /\ generated[s] + Emitted(s, k) <= req[s].output_tokens
<1>1. /\ generated[s] \in Nat /\ req[s].output_tokens \in Nat
      /\ generated[s] <= req[s].output_tokens
  BY RequestFacts DEF Typed, Counted
<1> DEFINE wanted == req[s].output_tokens - generated[s]
<1>2. wanted \in Nat
  BY <1>1
<1>3. /\ Least({k, wanted}) \in {k, wanted}
      /\ Least({k, wanted}) <= k /\ Least({k, wanted}) <= wanted
  <2> HIDE DEF wanted
  <2> QED
    BY <1>2, LeastOf
<1> QED
  BY <1>1, <1>2, <1>3 DEF Emitted

LEMMA PrefillChunkType ==
  ASSUME Typed, NEW s \in Seqs
  PROVE  /\ PrefillChunk(s) \in Nat
         /\ PrefillChunk(s) > 0 => s \in PrefillSeqs
<1>1. CASE \E i \in DOMAIN prefills : prefills[i].seq = s
  <2> DEFINE j == CHOOSE i \in DOMAIN prefills : prefills[i].seq = s
  <2>1. j \in DOMAIN prefills /\ prefills[j].seq = s /\ PrefillChunk(s) = prefills[j].chunk
    BY <1>1 DEF PrefillChunk
  <2> HIDE DEF j
  <2>2. prefills \in Seq(ChunkRecord)
    BY DEF Typed, ChunkRecord
  <2>3. prefills[j] \in ChunkRecord
    BY <2>1, <2>2
  <2>4. PrefillChunk(s) \in Nat
    BY <2>1, <2>3 DEF ChunkRecord
  <2> QED
    BY <2>1, <2>4 DEF PrefillSeqs
<1>2. CASE ~\E i \in DOMAIN prefills : prefills[i].seq = s
  BY <1>2 DEF PrefillChunk
<1> QED
  BY <1>1, <1>2

\* What Apply emits for each sequence is within its wants and the burst.
LEMMA ApplyEmits ==
  ASSUME SchedInv, Apply
  PROVE  /\ generated' \in [Seqs -> Nat] /\ first_token' \in [Seqs -> BOOLEAN]
         /\ \A s \in Seqs :
              /\ generated[s] <= generated'[s] /\ generated'[s] <= req[s].output_tokens
              /\ generated'[s] - generated[s] <= MaxBurst
              /\ generated'[s] > 0 => first_token'[s]
              /\ s \in Range(finished) => generated'[s] = generated[s]
<1> USE DEF SchedInv
<1>1. PICK accepted \in 0..(IF survivors # <<>> /\ prefills = <<>>
                            THEN cfg.spec_draft_tokens ELSE 0) :
        LET emitted == [s \in Seqs |-> IF Contains(survivors, s)
                                       THEN Emitted(s, accepted + 1) ELSE 0]
        IN /\ generated' = [s \in Seqs |-> IF s \in FirstNow THEN 1
                                           ELSE generated[s] + emitted[s]]
           /\ first_token' = [s \in Seqs |-> \/ first_token[s] \/ s \in FirstNow
                                             \/ emitted[s] > 0]
  BY DEF Apply
<1> DEFINE e(s) == IF Contains(survivors, s) THEN Emitted(s, accepted + 1) ELSE 0
<1>2. /\ generated' = [s \in Seqs |-> IF s \in FirstNow THEN 1 ELSE generated[s] + e(s)]
      /\ first_token' = [s \in Seqs |-> first_token[s] \/ s \in FirstNow \/ e(s) > 0]
  BY <1>1
<1>3. accepted + 1 \in Nat \ {0} /\ accepted + 1 <= MaxBurst
  <2>1. /\ cfg.spec_draft_tokens \in Nat /\ cfg.spec_draft_tokens < MaxBurst
        /\ MaxBurst \in Nat
    BY ConfigFacts DEF Typed
  <2>2. accepted \in 0..cfg.spec_draft_tokens
    BY <2>1
  <2> QED
    BY <2>1, <2>2
<1>4. ASSUME NEW s \in Seqs
      PROVE  /\ e(s) \in Nat /\ e(s) <= MaxBurst
             /\ generated[s] + e(s) <= req[s].output_tokens
             /\ s \in Range(finished) => e(s) = 0 /\ s \notin FirstNow
             /\ s \in FirstNow => generated[s] = 0
             /\ generated[s] \in Nat /\ req[s].output_tokens \in Nat \ {0}
             /\ generated[s] > 0 => first_token[s]
  <2>1. /\ generated[s] \in Nat /\ req[s].output_tokens \in Nat \ {0}
        /\ generated[s] <= req[s].output_tokens
        /\ generated[s] > 0 => first_token[s]
    BY RequestFacts DEF Typed, Counted
  <2> DEFINE k == accepted + 1
  <2>2. /\ Emitted(s, k) \in Nat /\ Emitted(s, k) <= k /\ k \in Nat /\ k <= MaxBurst
        /\ generated[s] + Emitted(s, k) <= req[s].output_tokens
    <3>1. k \in Nat \ {0} /\ k <= MaxBurst
      BY <1>3
    <3> HIDE DEF k, e
    <3>2. /\ Emitted(s, k) \in Nat /\ Emitted(s, k) <= k
          /\ generated[s] + Emitted(s, k) <= req[s].output_tokens
      BY <3>1, EmittedFits
    <3> QED
      BY <3>1, <3>2
  <2>3. e(s) \in Nat /\ e(s) <= MaxBurst /\ generated[s] + e(s) <= req[s].output_tokens
    <3>1. MaxBurst \in Nat
      BY ConfigFacts DEF Typed
    <3>2. CASE Contains(survivors, s)
      <4>1. e(s) = Emitted(s, k)
        BY <3>2
      <4> HIDE DEF e, k
      <4> QED
        BY <2>2, <3>1, <4>1
    <3>3. CASE ~Contains(survivors, s)
      <4>1. e(s) = 0
        BY <3>3
      <4>2. 0 \in Nat /\ 0 <= MaxBurst /\ generated[s] + 0 <= req[s].output_tokens
        BY <2>1, <3>1
      <4> QED
        BY <4>1, <4>2
    <3> QED
      BY <3>2, <3>3
  <2>4. (Range(survivors) \cup PrefillSeqs) \cap Range(finished) = {}
    BY DEF Apply, Planned
  <2>5. s \in Range(finished) => e(s) = 0 /\ s \notin FirstNow
    BY <2>4, PrefillChunkType, ContainsIsIn DEF FirstNow, Typed
  <2>6. s \in FirstNow => generated[s] = 0
    BY <2>1 DEF FirstNow
  <2> QED
    BY <2>1, <2>3, <2>5, <2>6
<1> HIDE DEF e
<1>6. MaxBurst \in Nat /\ MaxBurst > 0
  BY <1>3, ConfigFacts DEF Typed
<1>7. generated' \in [Seqs -> Nat]
  BY <1>2, <1>4
<1>8. first_token' \in [Seqs -> BOOLEAN]
  BY <1>2 DEF Typed
<1>9. ASSUME NEW s \in Seqs
      PROVE  /\ generated[s] <= generated'[s] /\ generated'[s] <= req[s].output_tokens
             /\ generated'[s] - generated[s] <= MaxBurst
             /\ generated'[s] > 0 => first_token'[s]
             /\ s \in Range(finished) => generated'[s] = generated[s]
  <2>1. CASE s \in FirstNow
    <3>1. generated'[s] = 1 /\ first_token'[s]
      BY <1>2, <2>1
    <3> QED
      BY <1>4, <1>6, <2>1, <3>1
  <2>2. CASE s \notin FirstNow
    <3>1. generated'[s] = generated[s] + e(s)
      BY <1>2, <2>2
    <3>2. first_token'[s] <=> first_token[s] \/ e(s) > 0
      BY <1>2, <2>2
    <3> QED
      BY <1>4, <1>6, <3>1, <3>2
  <2> QED
    BY <2>1, <2>2
<1> QED
  BY <1>7, <1>8, <1>9

LEMMA ApplyKeeps ==
  ASSUME SchedInv, KVTypeOK, Apply
  PROVE  SchedInv'
<1> USE DEF SchedInv
<1>1. /\ UNCHANGED <<cfg, req, pending, waiting, running, swapped, finished,
                     cached_tokens, token_budget, prefills, decodes, survivors, admitted>>
      /\ stage = "apply" /\ stage' = "finish"
      /\ prefilled' = [s \in Seqs |-> prefilled[s] + PrefillChunk(s)]
      /\ computed' = computed \cup UNION {Filled(s) : s \in {t \in Seqs : PrefillChunk(t) > 0}}
  BY DEF Apply, inputs, queues, stepVars
<1>2. /\ generated' \in [Seqs -> Nat] /\ first_token' \in [Seqs -> BOOLEAN]
      /\ \A s \in Seqs : /\ generated'[s] <= req[s].output_tokens
                         /\ generated'[s] > 0 => first_token'[s]
  BY ApplyEmits
<1>3. prefilled' \in [Seqs -> Nat]
  <2>1. \A s \in Seqs : prefilled[s] \in Nat /\ PrefillChunk(s) \in Nat
    BY PrefillChunkType DEF Typed
  <2> QED
    BY <1>1, <2>1
<1>4. computed' \subseteq Block
  <2>1. \A s \in Seqs : Filled(s) \subseteq Block
    BY DEF Filled, KVTypeOK
  <2> QED
    BY <1>1, <2>1 DEF Typed
<1>5. Typed'
  BY <1>1, <1>2, <1>3, <1>4 DEF Typed
<1>6. Counted'
  BY <1>1, <1>2 DEF Counted
<1>7. Placed'
  BY <1>1 DEF Placed
<1>8. Planned' /\ Coupled' /\ Stale'
  BY <1>1 DEF Planned, Coupled, Stale
<1>9. Batched'
  BY <1>1 DEF Batched
<1> QED
  BY <1>5, <1>6, <1>7, <1>8, <1>9

\* The sequences the finish loop has still to free are in the batch.
LEMMA FinishNextFacts ==
  ASSUME Typed
  PROVE  /\ FinishNext \in Seq(Seqs)
         /\ Range(FinishNext) = {s \in Range(running) : done(s)}
         /\ FinishNext # <<>> => /\ Head(FinishNext) \in Range(running)
                                 /\ Head(FinishNext) \in Seqs
                                 /\ done(Head(FinishNext))
<1>1. /\ FinishNext \in Seq(Seqs)
      /\ Range(FinishNext) = Range(running) \cap {s \in Seqs : done(s)}
  BY ThoseKept DEF FinishNext, Typed
<1>2. Range(running) \subseteq Seqs
  BY ContainsIsIn DEF Typed
<1>3. FinishNext # <<>> => Head(FinishNext) \in Range(FinishNext)
  BY <1>1, TailOfQueue
<1> QED
  BY <1>1, <1>2, <1>3

LEMMA FinishKeeps ==
  ASSUME SchedInv, Finish
  PROVE  SchedInv'
<1> USE DEF SchedInv
<1> DEFINE s == Head(FinishNext)
<1>1. /\ UNCHANGED <<cfg, req, pending, waiting, swapped, prefilled, generated,
                     cached_tokens, first_token, token_budget, prefills, decodes,
                     survivors, admitted, computed>>
      /\ stage = "finishing" /\ stage' = "finish"
      /\ running' = RemoveFirst(running, s) /\ finished' = Append(finished, s)
  BY DEF Finish, inputs, seqVars, stepVars
<1>2. s \in Range(running) /\ s \in Seqs
  BY <1>1, FinishNextFacts DEF Coupled
<1> HIDE DEF s
<1>3. /\ running' \in Seq(Seqs) /\ Len(running') = Len(running) - 1
      /\ Range(running) = Range(running') \cup {s}
      /\ IsInjective(running) => IsInjective(running') /\ s \notin Range(running')
  <2>1. running \in Seq(Seqs) /\ running' = RemoveFirst(running, s)
    BY <1>1 DEF Typed
  <2> QED
    BY <1>2, <2>1, RemoveFromQueue
<1>4. /\ finished' \in Seq(Seqs) /\ Range(finished') = Range(finished) \cup {s}
      /\ IsInjective(finished) /\ s \notin Range(finished) => IsInjective(finished')
  BY <1>1, <1>2, AppendToQueue DEF Typed
<1>5. Typed'
  BY <1>1, <1>3, <1>4 DEF Typed
<1>6. Counted'
  BY <1>1 DEF Counted
<1>7. Placed'
  BY <1>1, <1>2, <1>3, <1>4 DEF Placed
<1>8. Planned' /\ Coupled' /\ Stale'
  BY <1>1 DEF Planned, Coupled, Stale
<1>9. Batched'
  <2>1. Len(running) \in Nat /\ cfg.max_num_seqs \in Nat
    BY ConfigFacts DEF Typed
  <2> QED
    BY <1>1, <1>3, <2>1 DEF Batched
<1> QED
  BY <1>5, <1>6, <1>7, <1>8, <1>9

LEMMA EndStepKeeps ==
  ASSUME SchedInv, EndStep
  PROVE  SchedInv'
<1> USE DEF SchedInv
<1>1. /\ UNCHANGED <<cfg, req, pending, waiting, running, swapped, finished, prefilled,
                     generated, cached_tokens, first_token, decodes, computed>>
      /\ stage = "finish" /\ stage' = "idle"
      /\ token_budget' = 0 /\ prefills' = <<>> /\ survivors' = <<>> /\ admitted' = FALSE
  BY DEF EndStep, inputs, queues, seqVars
<1>2. Typed'
  <2>1. /\ prefills' \in Seq([seq : Seqs, chunk : Nat \ {0}]) /\ survivors' \in Seq(Seqs)
        /\ token_budget' \in Int /\ admitted' \in BOOLEAN
    <3>1. \A T : <<>> \in Seq(T)
      OBVIOUS
    <3>2. prefills' \in Seq([seq : Seqs, chunk : Nat \ {0}])
      BY <1>1, <3>1, Zenon
    <3>3. survivors' \in Seq(Seqs)
      BY <1>1, <3>1, Zenon
    <3>4. token_budget' \in Int
      BY <1>1
    <3>5. admitted' \in BOOLEAN
      BY <1>1
    <3> QED
      BY <3>2, <3>3, <3>4, <3>5
  <2>2. /\ UNCHANGED <<cfg, req, pending, waiting, running, swapped, finished, prefilled,
                       generated, cached_tokens, first_token, decodes, computed>>
        /\ stage' = "idle"
    BY <1>1
  <2> QED
    BY <2>1, <2>2 DEF Typed
<1>3. Counted' /\ Placed'
  BY <1>1 DEF Counted, Placed
<1>4. Planned' /\ Coupled' /\ Stale'
  BY <1>1 DEF Planned, Coupled, Stale
<1>5. Batched'
  BY <1>1 DEF Batched
<1> QED
  BY <1>2, <1>3, <1>4, <1>5

\* The steps that call the allocator or decide what comes next move the stage only.
LEMMA StageMovesKeep ==
  ASSUME SchedInv,
         \/ AdmitAllocate \/ EndAdmit \/ RestoreAllocate \/ GrowCrash \/ PreemptFree
         \/ EndGrow \/ FinishFree
  PROVE  SchedInv'
<1>1. CASE AdmitAllocate
  <2>1. /\ UNCHANGED <<inputs, queues, seqVars, stepVars, computed>> /\ stage = "admit"
        /\ waiting # <<>> /\ token_budget > 0 /\ RoomToAdmit
        /\ stage' = "admit" \/ stage' = "admitting"
    BY <1>1 DEF AdmitAllocate, AdmitNext
  <2>2. CASE stage' = "admit"
    BY <2>1, <2>2, OnlyStage
  <2>3. CASE stage' = "admitting"
    BY <2>1, <2>3, OnlyStage
  <2> QED
    BY <2>1, <2>2, <2>3
<1>2. CASE EndAdmit
  <2>1. /\ UNCHANGED <<inputs, queues, seqVars, stepVars, computed>>
        /\ stage \in {"admit", "admitting"}
        /\ stage' = IF cfg.enable_chunked_prefill THEN "grow"
                    ELSE IF prefills # <<>> THEN "apply" ELSE "restore"
    BY <1>2 DEF EndAdmit
  <2>2. CASE cfg.enable_chunked_prefill
    <3>1. stage' = "grow"
      BY <2>1, <2>2
    <3> QED
      BY <2>1, <3>1, OnlyStage
  <2>3. CASE ~cfg.enable_chunked_prefill /\ prefills # <<>>
    <3>1. stage' = "apply"
      BY <2>1, <2>3
    <3> QED
      BY <2>1, <2>3, <3>1, OnlyStage
  <2>4. CASE ~cfg.enable_chunked_prefill /\ prefills = <<>>
    <3>1. stage' = "restore"
      BY <2>1, <2>4
    <3> QED
      BY <2>1, <2>4, <3>1, OnlyStage
  <2> QED
    BY <2>2, <2>3, <2>4
<1>3. CASE RestoreAllocate
  <2>1. /\ UNCHANGED <<inputs, queues, seqVars, stepVars, computed>> /\ stage = "restore"
        /\ swapped # <<>> /\ Len(running) < cfg.max_num_seqs
        /\ stage' = "restore" \/ stage' = "restoring"
    BY <1>3 DEF RestoreAllocate, RestoreNext
  <2>2. ~cfg.enable_chunked_prefill /\ prefills = <<>>
    BY <2>1 DEF SchedInv, Coupled
  <2>3. CASE stage' = "restore"
    BY <2>1, <2>2, <2>3, OnlyStage
  <2>4. CASE stage' = "restoring"
    BY <2>1, <2>2, <2>4, OnlyStage
  <2> QED
    BY <2>1, <2>3, <2>4
<1>4. CASE GrowCrash
  <2>1. /\ UNCHANGED <<inputs, queues, seqVars, stepVars, computed>>
        /\ stage = "grow" /\ stage' = "crashed"
    BY <1>4 DEF GrowCrash
  <2> QED
    BY <2>1, OnlyStage
<1>5. CASE PreemptFree
  <2>1. /\ UNCHANGED <<inputs, queues, seqVars, stepVars, computed>>
        /\ stage = "grow" /\ stage' = "preempt" /\ decodes # <<>>
    BY <1>5 DEF PreemptFree
  <2> QED
    BY <2>1, OnlyStage
<1>6. CASE EndGrow
  <2>1. /\ UNCHANGED <<inputs, queues, seqVars, stepVars, computed>>
        /\ stage = "grow" /\ (stage' = "idle" \/ stage' = "apply")
    BY <1>6 DEF EndGrow
  <2>2. CASE stage' = "idle"
    BY <2>1, <2>2, OnlyStage
  <2>3. CASE stage' = "apply"
    BY <2>1, <2>3, OnlyStage
  <2> QED
    BY <2>1, <2>2, <2>3
<1>7. CASE FinishFree
  <2>1. /\ UNCHANGED <<inputs, queues, seqVars, stepVars, computed>>
        /\ stage = "finish" /\ stage' = "finishing" /\ FinishNext # <<>>
    BY <1>7 DEF FinishFree
  <2> QED
    BY <2>1, OnlyStage
<1> QED
  BY <1>1, <1>2, <1>3, <1>4, <1>5, <1>6, <1>7

LEMMA AllocStepKeeps ==
  ASSUME SchedInv, KVTypeOK, AllocStep
  PROVE  SchedInv'
<1>1. UNCHANGED <<inputs, queues, seqVars, stage, stepVars>>
  BY DEF AllocStep
<1>2. computed' \subseteq Block
  BY DEF AllocStep, SchedInv, Typed
<1> QED
  BY <1>1, <1>2, SameSched

-----------------------------------------------------------------------------
\* Every step of the engine keeps its inductive invariant.
LEMMA EngineStepKeeps ==
  ASSUME EngineInv, [Next]_vars
  PROVE  EngineInv'
<1>1. KVInv'
  BY StepUsesKV, NextInv DEF EngineInv, SchedInv
<1>2. SchedInv /\ KVTypeOK /\ KVTypeOK'
  BY <1>1 DEF EngineInv, KVInv
<1>3. CASE FreeStep \/ Terminated \/ UNCHANGED vars
  <2>1. UNCHANGED <<inputs, queues, seqVars, stage, stepVars>> /\ computed' = computed
    BY <1>3 DEF FreeStep, Terminated, vars, engineVars
  <2>2. computed' \subseteq Block
    BY <1>2, <2>1 DEF SchedInv, Typed
  <2> QED
    BY <1>1, <1>2, <2>1, <2>2, SameSched DEF EngineInv
<1>4. CASE \/ AdmitAllocate \/ EndAdmit \/ RestoreAllocate \/ GrowCrash \/ PreemptFree
           \/ EndGrow \/ FinishFree
  BY <1>1, <1>2, <1>4, StageMovesKeep DEF EngineInv
<1>5. CASE BeginStep \/ AllocStep \/ AdmitRunning
  BY <1>1, <1>2, <1>5, BeginStepKeeps, AllocStepKeeps, AdmitRunningKeeps DEF EngineInv
<1>6. CASE RestoreRunning \/ RestoreCrash \/ EndRestore
  BY <1>1, <1>2, <1>6, RestoreRunningKeeps, RestoreCrashKeeps, EndRestoreKeeps DEF EngineInv
<1>7. CASE GrowOne \/ Preempt
  BY <1>1, <1>2, <1>7, GrowOneKeeps, PreemptKeeps DEF EngineInv
<1>8. CASE Apply \/ Finish \/ EndStep
  BY <1>1, <1>2, <1>8, ApplyKeeps, FinishKeeps, EndStepKeeps DEF EngineInv
<1> QED
  BY <1>3, <1>4, <1>5, <1>6, <1>7, <1>8 DEF Next, Step

\* The workload as a queue names every sequence once.
LEMMA SetToSeqKeeps ==
  /\ SetToSeq(Seqs) \in Seq(Seqs)
  /\ Range(SetToSeq(Seqs)) = Seqs
  /\ IsInjective(SetToSeq(Seqs))
<1> DEFINE n == Cardinality(Seqs)
           f == CHOOSE f \in [1..n -> Seqs] : IsInjective(f)
<1>1. IsFiniteSet(Seqs) /\ n \in Nat /\ ExistsBijection(1..n, Seqs)
  BY KVAssumption, FS_CardinalityType
<1>2. \E g \in [1..n -> Seqs] : IsInjective(g)
  BY <1>1 DEF ExistsBijection, Bijection, Injection
<1>3. f \in [1..n -> Seqs] /\ IsInjective(f)
  BY <1>2
<1>4. SetToSeq(Seqs) = f
  BY DEF SetToSeq
<1> HIDE DEF f
<1>5. IsFiniteSet(1..n) /\ Cardinality(1..n) = n
  BY <1>1, FS_Interval
<1>6. f \in Injection(1..n, Seqs)
  BY <1>3 DEF Injection
<1>7. f \in Surjection(1..n, Seqs)
  BY <1>1, <1>5, <1>6, FS_Injection
<1>8. Range(f) = Seqs
  BY <1>3, <1>7 DEF Surjection, Range
<1>9. f \in Seq(Seqs)
  BY <1>1, <1>3
<1> QED
  BY <1>3, <1>4, <1>8, <1>9

LEMMA EngineInitInv == Init => EngineInv
<1> SUFFICES ASSUME Init PROVE EngineInv
  OBVIOUS
<1>1. KVInv
  BY InitInv DEF Init
<1>2. cfg \in Configs /\ req \in Workloads /\ stage = "idle"
  BY DEF Init
<1>3. /\ waiting = <<>> /\ running = <<>> /\ swapped = <<>> /\ finished = <<>>
      /\ decodes = <<>> /\ survivors = <<>> /\ prefills = <<>>
      /\ token_budget = 0 /\ admitted = FALSE /\ computed = {}
  BY DEF Init
<1>4. pending \in Seq(Seqs) /\ Range(pending) = Seqs /\ IsInjective(pending)
  BY <1>2, ArrivalOrder, SetToSeqKeeps, SortedKeeps DEF Init
<1>5. /\ prefilled \in [Seqs -> Nat] /\ generated \in [Seqs -> Nat]
      /\ cached_tokens \in [Seqs -> Nat] /\ first_token \in [Seqs -> BOOLEAN]
      /\ \A s \in Seqs : generated[s] = 0
  BY DEF Init
<1>6. Typed
  <2>1. \A T : <<>> \in Seq(T)
    OBVIOUS
  <2>2. /\ waiting \in Seq(Seqs) /\ running \in Seq(Seqs) /\ swapped \in Seq(Seqs)
        /\ finished \in Seq(Seqs) /\ decodes \in Seq(Seqs) /\ survivors \in Seq(Seqs)
        /\ prefills \in Seq([seq : Seqs, chunk : Nat \ {0}])
    BY <1>3, <2>1, Zenon
  <2>3. token_budget \in Int /\ computed \subseteq Block
    BY <1>3
  <2>4. admitted \in BOOLEAN
    BY <1>3
  <2> QED
    BY <1>2, <1>4, <1>5, <2>2, <2>3, <2>4 DEF Typed
<1>7. Counted
  <2>1. \A s \in Seqs : req[s].output_tokens \in Nat
    BY <1>2, RequestFacts
  <2> QED
    BY <1>5, <2>1 DEF Counted
<1>8. Placed
  BY <1>3, <1>4, EmptyQueue DEF Placed
<1>9. Planned /\ Coupled /\ Stale
  BY <1>2 DEF Planned, Coupled, Stale
<1>10. Batched
  BY <1>2, <1>3, ConfigFacts DEF Batched
<1> QED
  BY <1>1, <1>6, <1>7, <1>8, <1>9, <1>10 DEF EngineInv, SchedInv

\* The engine's inductive invariant holds always.
THEOREM EngineInvariant == Spec => []EngineInv
<1> QED
  BY EngineInitInv, EngineStepKeeps, PTL DEF Spec

\* Whatever the scheduler does, it calls the allocator only in ways the
\* allocator allows, one call at a time: what is proved of KVSpec holds of the
\* engine's blocks.
THEOREM EngineCallsAllocator == Spec => EngineUsesKV
<1>1. Init => KVInit
  BY DEF Init
<1>2. EngineInv /\ [Next]_vars => [KVNext]_kvVars
  BY StepUsesKV DEF EngineInv, SchedInv
<1> QED
  BY <1>1, <1>2, EngineInvariant, PTL DEF Spec, EngineUsesKV, KVSpec

-----------------------------------------------------------------------------
\* Every variable of the engine has its type.
LEMMA TypeFromInv == EngineInv => EngineTypeOK
<1> SUFFICES ASSUME EngineInv PROVE EngineTypeOK
  OBVIOUS
<1>1. KVTypeOK /\ Typed
  BY DEF EngineInv, SchedInv, KVInv
<1>2. req \in [Seqs -> SimRequest]
  BY <1>1, EngineAssumption DEF Typed
<1>3. \A q \in {pending, waiting, running, swapped, finished, decodes, survivors} :
        q \in Seq(Seqs)
  BY <1>1 DEF Typed
<1>4. /\ prefilled \in [Seqs -> Nat] /\ generated \in [Seqs -> Nat]
      /\ cached_tokens \in [Seqs -> Nat] /\ first_token \in [Seqs -> BOOLEAN]
      /\ stage \in {"idle", "admit", "admitting", "restore", "restoring", "grow", "preempt",
                    "apply", "finish", "finishing", "crashed"}
      /\ token_budget \in Int /\ admitted \in BOOLEAN
      /\ prefills \in Seq([seq : Seqs, chunk : Nat \ {0}])
      /\ computed \subseteq Block /\ cfg \in Configs
  BY <1>1 DEF Typed
<1> QED
  BY <1>1, <1>2, <1>3, <1>4 DEF EngineTypeOK

LEMMA OneQueueFromInv == EngineInv => OneQueue
<1> SUFFICES ASSUME EngineInv, stage # "crashed"
             PROVE  LET all == pending \o waiting \o running \o swapped \o finished
                    IN IsInjective(all) /\ Range(all) = Seqs
  BY DEF OneQueue
<1> DEFINE q2 == pending \o waiting
           q3 == q2 \o running
           q4 == q3 \o swapped
           q5 == q4 \o finished
<1>1. /\ pending \in Seq(Seqs) /\ waiting \in Seq(Seqs) /\ running \in Seq(Seqs)
      /\ swapped \in Seq(Seqs) /\ finished \in Seq(Seqs)
  BY DEF EngineInv, SchedInv, Typed
<1>2. /\ IsInjective(pending) /\ IsInjective(waiting) /\ IsInjective(running)
      /\ IsInjective(swapped) /\ IsInjective(finished)
      /\ Range(pending) \cap (Range(waiting) \cup Range(running) \cup Range(swapped)
                                \cup Range(finished)) = {}
      /\ Range(waiting) \cap (Range(running) \cup Range(swapped) \cup Range(finished)) = {}
      /\ Range(running) \cap (Range(swapped) \cup Range(finished)) = {}
      /\ Range(swapped) \cap Range(finished) = {}
      /\ Seqs = Range(pending) \cup Range(waiting) \cup Range(running) \cup Range(swapped)
                  \cup Range(finished)
  BY DEF EngineInv, SchedInv, Placed
<1>3. q2 \in Seq(Seqs) /\ IsInjective(q2) /\ Range(q2) = Range(pending) \cup Range(waiting)
  BY <1>1, <1>2, ConcatOfQueues
<1> HIDE DEF q2
<1>4. q3 \in Seq(Seqs) /\ IsInjective(q3) /\ Range(q3) = Range(q2) \cup Range(running)
  BY <1>1, <1>2, <1>3, ConcatOfQueues
<1> HIDE DEF q3
<1>5. q4 \in Seq(Seqs) /\ IsInjective(q4) /\ Range(q4) = Range(q3) \cup Range(swapped)
  BY <1>1, <1>2, <1>3, <1>4, ConcatOfQueues
<1> HIDE DEF q4
<1>6. q5 \in Seq(Seqs) /\ IsInjective(q5) /\ Range(q5) = Range(q4) \cup Range(finished)
  BY <1>1, <1>2, <1>3, <1>4, <1>5, ConcatOfQueues
<1> HIDE DEF q5
<1>7. IsInjective(q5) /\ Range(q5) = Seqs
  BY <1>2, <1>3, <1>4, <1>5, <1>6
<1> QED
  BY <1>7 DEF q2, q3, q4, q5

LEMMA BatchFromInv == EngineInv => BatchBounded
<1> SUFFICES ASSUME EngineInv PROVE BatchBounded
  OBVIOUS
<1>1. Batched /\ Typed
  BY DEF EngineInv, SchedInv
<1>2. Len(running) <= cfg.max_num_seqs
  BY <1>1 DEF Batched
<1>3. ASSUME cfg.enable_chunked_prefill, stage = "apply", prefills # <<>>
      PROVE  Len(survivors) + Total(Chunks(prefills)) <= cfg.max_num_batched_tokens
  <2>1. /\ Len(decodes) + Len(survivors) + Total(Chunks(prefills)) + token_budget
             <= cfg.max_num_batched_tokens
        /\ token_budget >= 0
    BY <1>1, <1>3 DEF Batched
  <2>2. /\ Len(decodes) \in Nat /\ Len(survivors) \in Nat /\ token_budget \in Int
        /\ cfg.max_num_batched_tokens \in Nat
    BY <1>1, ConfigFacts DEF Typed
  <2>3. Total(Chunks(prefills)) \in Nat
    BY <1>1, ChunksOfAppend DEF Typed, ChunkRecord
  <2> QED
    BY <2>1, <2>2, <2>3
<1> QED
  BY <1>2, <1>3 DEF BatchBounded

-----------------------------------------------------------------------------
(***************************************************************************)
(* The engine as a token source: one lemma for each of its actions.        *)
(***************************************************************************)
Wanted == [s \in Seqs |-> req[s].output_tokens]
Standing == [s \in Seqs |-> StatusOf(s)]
Alive == stage # "crashed"

LEMMA StatusIs ==
  ASSUME running \in Seq(Seqs), finished \in Seq(Seqs), NEW s \in Seqs
  PROVE  StatusOf(s) = IF s \in Range(finished) THEN "finished"
                       ELSE IF s \in Range(running) THEN "running" ELSE "queued"
  BY ContainsIsIn DEF StatusOf

\* The same after a step.
LEMMA StandingAfter ==
  ASSUME running' \in Seq(Seqs), finished' \in Seq(Seqs)
  PROVE  Standing' = [s \in Seqs |-> IF s \in Range(finished') THEN "finished"
                                     ELSE IF s \in Range(running') THEN "running"
                                     ELSE "queued"]
<1>1. \A s \in Seqs : /\ Contains(running', s) <=> s \in Range(running')
                      /\ Contains(finished', s) <=> s \in Range(finished')
  BY ContainsIsIn
<1> QED
  BY <1>1 DEF Standing, StatusOf

LEMMA StandingNow ==
  ASSUME running \in Seq(Seqs), finished \in Seq(Seqs)
  PROVE  Standing = [s \in Seqs |-> IF s \in Range(finished) THEN "finished"
                                    ELSE IF s \in Range(running) THEN "running"
                                    ELSE "queued"]
  BY StatusIs DEF Standing

\* A step that leaves the batch, the finished and the token counts alone is a
\* stutter of the source, or its death.
LEMMA QuietStep ==
  ASSUME UNCHANGED <<req, running, finished, generated>>,
         Alive \/ ~Alive'
  PROVE  [Source!SourceNext]_(Source!sourceVars)
<1>1. Wanted' = Wanted /\ Standing' = Standing /\ generated' = generated
  BY DEF Wanted, Standing, StatusOf
<1>2. CASE Alive' = Alive
  BY <1>1, <1>2 DEF Source!sourceVars, Wanted, Standing, Alive
<1>3. CASE Alive' # Alive
  <2>1. Alive /\ ~Alive'
    BY <1>3 DEF Alive
  <2>2. Source!Crash
    BY <1>1, <2>1 DEF Source!Crash, Wanted, Standing, Alive
  <2> QED
    BY <2>2 DEF Source!SourceNext
<1> QED
  BY <1>2, <1>3

\* A queued sequence joins the batch.
LEMMA JoinStep ==
  ASSUME SchedInv, NEW s \in Range(waiting) \cup Range(swapped),
         stage # "crashed", stage' # "crashed",
         running' \in Seq(Seqs), Range(running') = Range(running) \cup {s},
         UNCHANGED <<req, finished, generated>>
  PROVE  [Source!SourceNext]_(Source!sourceVars)
<1>1. /\ s \in Seqs /\ s \notin Range(running) /\ s \notin Range(finished)
      /\ running \in Seq(Seqs) /\ finished \in Seq(Seqs)
  BY ContainsIsIn DEF SchedInv, Placed, Typed
<1>2. Standing[s] = "queued"
  BY <1>1, StandingNow
<1>3. Standing' = [Standing EXCEPT ![s] = "running"]
  BY <1>1, StandingNow, StandingAfter
<1>4. Wanted' = Wanted
  BY DEF Wanted
<1>5. Source!Admit(s)
  BY <1>2, <1>3, <1>4 DEF Source!Admit, Wanted, Standing
<1> QED
  BY <1>1, <1>5 DEF Source!SourceNext

LEMMA PreemptStep ==
  ASSUME SchedInv, Preempt
  PROVE  [Source!SourceNext]_(Source!sourceVars)
<1> DEFINE v == Victim(Head(decodes))
<1>1. /\ UNCHANGED <<cfg, req, finished>> /\ stage = "preempt"
      /\ generated' \in {generated, [generated EXCEPT ![v] = 0]}
      /\ generated' # generated => cfg.preemption_mode # "swap"
      /\ Contains(running, v) => running' = RemoveFirst(running, v) /\ stage' = "grow"
      /\ ~Contains(running, v) => stage' = "crashed" /\ UNCHANGED running
  BY DEF Preempt, inputs
<1>2. decodes # <<>>
  BY <1>1 DEF SchedInv, Coupled
<1>3. Head(decodes) \in Seqs /\ Head(decodes) \in Range(decodes)
  BY <1>2, TailOfQueue DEF SchedInv, Typed
<1>4. v \in Seqs /\ (v # Head(decodes) => v \in Range(running))
  BY <1>3, VictimIsSeq DEF SchedInv
<1>5. v \notin Range(running) => v \in Range(decodes)
  BY <1>3, <1>4
<1> HIDE DEF v
<1>6. /\ running \in Seq(Seqs) /\ finished \in Seq(Seqs)
      /\ generated \in [Seqs -> Nat]
      /\ Contains(running, v) <=> v \in Range(running)
  BY ContainsIsIn DEF SchedInv, Typed
<1>7. Wanted' = Wanted
  BY <1>1 DEF Wanted
<1>8. CASE v \in Range(running)
  <2>1. /\ running' \in Seq(Seqs) /\ Range(running) = Range(running') \cup {v}
        /\ IsInjective(running) => v \notin Range(running')
    <3>1. running' = RemoveFirst(running, v)
      BY <1>1, <1>6, <1>8
    <3> QED
      BY <1>6, <1>8, <3>1, RemoveFromQueue
  <2>2. v \notin Range(running') /\ v \notin Range(finished)
    BY <1>1, <1>8, <2>1 DEF SchedInv, Placed
  <2>3. Standing[v] = "running"
    BY <1>4, <1>6, <1>8, <2>2, StandingNow
  <2>4. Standing' = [Standing EXCEPT ![v] = "queued"]
    BY <1>1, <1>4, <1>6, <2>1, <2>2, StandingNow, StandingAfter
  <2>5. \E kept \in {0, generated[v]} : generated' = [generated EXCEPT ![v] = kept]
    BY <1>1, <1>4, <1>6
  <2>6. Alive /\ Alive'
    BY <1>1, <1>6, <1>8 DEF Alive
  <2>7. Source!Evict(v)
    BY <1>7, <2>3, <2>4, <2>5, <2>6 DEF Source!Evict, Wanted, Standing, Alive
  <2> QED
    BY <1>4, <2>7 DEF Source!SourceNext
<1>9. CASE v \notin Range(running)
  <2>1. generated' = generated
    <3>1. CASE generated' # generated
      <4>1. cfg.preemption_mode = "recompute"
        BY <1>1, <3>1, ConfigFacts DEF SchedInv, Typed
      <4>2. generated[v] = 0
        BY <1>1, <1>5, <1>9, <4>1 DEF SchedInv, Stale
      <4> QED
        BY <1>1, <1>4, <1>6, <4>2
    <3> QED
      BY <3>1
  <2>2. UNCHANGED <<req, running, finished, generated>> /\ Alive
    BY <1>1, <1>6, <1>9, <2>1 DEF Alive
  <2> QED
    BY <2>2, QuietStep
<1> QED
  BY <1>8, <1>9

LEMMA ApplyStep ==
  ASSUME SchedInv, Apply
  PROVE  [Source!SourceNext]_(Source!sourceVars)
<1>1. UNCHANGED <<req, running, finished>> /\ stage = "apply" /\ stage' = "finish"
  BY DEF Apply, inputs, queues
<1>2. /\ Wanted' = Wanted /\ Standing' = Standing /\ Alive /\ Alive'
  BY <1>1 DEF Wanted, Standing, StatusOf, Alive
<1>3. /\ generated' \in [Seqs -> Nat] /\ generated \in [Seqs -> Nat]
      /\ \A s \in Seqs :
           /\ generated[s] <= generated'[s] /\ generated'[s] <= req[s].output_tokens
           /\ generated'[s] - generated[s] <= MaxBurst
           /\ s \in Range(finished) => generated'[s] = generated[s]
  BY ApplyEmits DEF SchedInv, Typed
<1> DEFINE D == {s \in Seqs : Standing[s] \in {"queued", "running"}}
           n == [s \in D |-> generated'[s] - generated[s]]
<1>4. \A s \in Seqs \ D : generated'[s] = generated[s]
  <2>1. \A s \in Seqs : s \notin Range(finished) => Standing[s] \in {"queued", "running"}
    BY StandingNow DEF SchedInv, Typed
  <2> QED
    BY <1>3, <2>1
<1>5. MaxBurst \in Nat
  BY EngineAssumption
<1>6. n \in [D -> 0..MaxBurst]
  BY <1>3, <1>5
<1>7. \A s \in D : generated[s] + n[s] = generated'[s] /\ generated'[s] <= Wanted[s]
  BY <1>3 DEF Wanted
<1>8. generated' = [s \in Seqs |-> IF s \in D THEN generated[s] + n[s] ELSE generated[s]]
  BY <1>3, <1>4, <1>7
<1>9. DOMAIN n = D
  OBVIOUS
<1> HIDE DEF n
<1>10. Source!Emit
  <2>1. \A s \in DOMAIN n : generated[s] + n[s] <= Wanted[s]
    BY <1>7, <1>9
  <2>2. generated' = [s \in Seqs |-> IF s \in DOMAIN n THEN generated[s] + n[s]
                                     ELSE generated[s]]
    BY <1>8, <1>9
  <2> QED
    BY <1>2, <1>6, <2>1, <2>2 DEF Source!Emit, Wanted, Standing, Alive
<1> QED
  BY <1>10 DEF Source!SourceNext

LEMMA FinishStep ==
  ASSUME SchedInv, Finish
  PROVE  [Source!SourceNext]_(Source!sourceVars)
<1> DEFINE s == Head(FinishNext)
<1>1. /\ UNCHANGED <<req, generated>> /\ stage = "finishing" /\ stage' = "finish"
      /\ running' = RemoveFirst(running, s) /\ finished' = Append(finished, s)
  BY DEF Finish, inputs, seqVars
<1>2. s \in Range(running) /\ s \in Seqs /\ done(s)
  BY <1>1, FinishNextFacts DEF SchedInv, Coupled
<1> HIDE DEF s
<1>3. running \in Seq(Seqs) /\ finished \in Seq(Seqs)
  BY DEF SchedInv, Typed
<1>4. /\ running' \in Seq(Seqs) /\ Range(running) = Range(running') \cup {s}
      /\ finished' \in Seq(Seqs) /\ Range(finished') = Range(finished) \cup {s}
      /\ s \notin Range(finished)
  BY <1>1, <1>2, <1>3, RemoveFromQueue, AppendToQueue DEF SchedInv, Placed
<1>5. Standing[s] = "running"
  BY <1>2, <1>3, <1>4, StandingNow
<1>6. Standing' = [Standing EXCEPT ![s] = "finished"]
  BY <1>2, <1>3, <1>4, StandingNow, StandingAfter
<1>7. Wanted' = Wanted /\ generated[s] >= Wanted[s]
  BY <1>1, <1>2 DEF Wanted, done
<1>8. Source!Finish(s)
  BY <1>1, <1>5, <1>6, <1>7 DEF Source!Finish, Wanted, Standing
<1> QED
  BY <1>2, <1>8 DEF Source!SourceNext

LEMMA StepIsSource ==
  ASSUME EngineInv, [Next]_vars
  PROVE  [Source!SourceNext]_(Source!sourceVars)
<1>0. SchedInv
  BY DEF EngineInv
<1>1. CASE AdmitRunning
  <2> DEFINE s == Head(waiting)
  <2>1. /\ stage = "admitting" /\ stage' = "admit" /\ running' = Append(running, s)
        /\ UNCHANGED <<req, finished, generated>>
    BY <1>1 DEF AdmitRunning, inputs
  <2>2. waiting # <<>> /\ waiting \in Seq(Seqs) /\ running \in Seq(Seqs)
    BY <1>0, <2>1 DEF SchedInv, Coupled, Typed
  <2>3. s \in Range(waiting) /\ s \in Seqs
    BY <2>2, TailOfQueue
  <2> HIDE DEF s
  <2>4. running' \in Seq(Seqs) /\ Range(running') = Range(running) \cup {s}
    BY <2>1, <2>2, <2>3, AppendToQueue
  <2> QED
    BY <1>0, <2>1, <2>3, <2>4, JoinStep
<1>2. CASE RestoreRunning
  <2> DEFINE s == Head(swapped)
  <2>1. /\ stage = "restoring" /\ stage' = "restore" /\ running' = Append(running, s)
        /\ UNCHANGED <<req, finished, generated>>
    BY <1>2 DEF RestoreRunning, inputs, seqVars
  <2>2. swapped # <<>> /\ swapped \in Seq(Seqs) /\ running \in Seq(Seqs)
    BY <1>0, <2>1 DEF SchedInv, Coupled, Typed
  <2>3. s \in Range(swapped) /\ s \in Seqs
    BY <2>2, TailOfQueue
  <2> HIDE DEF s
  <2>4. running' \in Seq(Seqs) /\ Range(running') = Range(running) \cup {s}
    BY <2>1, <2>2, <2>3, AppendToQueue
  <2> QED
    BY <1>0, <2>1, <2>3, <2>4, JoinStep
<1>3. CASE Preempt \/ Apply \/ Finish
  BY <1>0, <1>3, PreemptStep, ApplyStep, FinishStep
<1>4. CASE \/ BeginStep \/ AdmitAllocate \/ AllocStep \/ EndAdmit \/ RestoreAllocate
           \/ RestoreCrash \/ EndRestore \/ GrowOne \/ GrowCrash \/ PreemptFree \/ EndGrow
           \/ FinishFree \/ EndStep
  <2>1. UNCHANGED <<req, running, finished, generated>> /\ stage # "crashed"
    BY <1>4 DEF BeginStep, AdmitAllocate, AllocStep, EndAdmit, RestoreAllocate, RestoreCrash,
                EndRestore, GrowOne, GrowCrash, PreemptFree, EndGrow, FinishFree, EndStep,
                inputs, queues, seqVars
  <2> QED
    BY <2>1, QuietStep DEF Alive
<1>5. CASE FreeStep \/ Terminated \/ UNCHANGED vars
  <2>1. UNCHANGED <<req, running, finished, generated, stage>>
    BY <1>5 DEF FreeStep, Terminated, vars, engineVars, inputs, queues, seqVars
  <2> QED
    BY <2>1, QuietStep DEF Alive
<1> QED
  BY <1>1, <1>2, <1>3, <1>4, <1>5 DEF Next, Step

\* Seen from outside, the engine is the abstract token source: tokens are lost
\* only by eviction or by the engine's death, nobody is given more than it
\* asked for, and only the batch finishes, in full and once.
THEOREM EngineRefinesSource == Spec => EngineIsTokenSource
<1>1. Init => Source!SourceInit
  <2> SUFFICES ASSUME Init PROVE Source!SourceInit
    OBVIOUS
  <2>1. req \in Workloads /\ running = <<>> /\ finished = <<>> /\ stage = "idle"
        /\ generated = [s \in Seqs |-> 0]
    BY DEF Init
  <2>2. Wanted \in [Seqs -> Nat \ {0}]
    BY <2>1, RequestFacts DEF Wanted
  <2>3. \A T : <<>> \in Seq(T)
    OBVIOUS
  <2>4. running \in Seq(Seqs) /\ finished \in Seq(Seqs)
    BY <2>1, <2>3, Zenon
  <2>5. Standing \in [Seqs -> {"out", "queued"}]
    BY <2>1, <2>4, EmptyQueue, StandingNow
  <2>6. Alive = TRUE
    BY <2>1 DEF Alive
  <2> QED
    BY <2>1, <2>2, <2>5, <2>6 DEF Source!SourceInit, Wanted, Standing, Alive
<1>2. EngineInv /\ [Next]_vars => [Source!SourceNext]_(Source!sourceVars)
  BY StepIsSource
<1> QED
  BY <1>1, <1>2, EngineInvariant, PTL DEF Spec, EngineIsTokenSource, Source!SourceSpec

-----------------------------------------------------------------------------
(***************************************************************************)
(* A pool with room for the batch.  Under PoolCoversBatch no allocation of *)
(* the engine meets OutOfBlocks: the holders are at most max_num_seqs      *)
(* sequences, none of which holds more than its longest length needs, and  *)
(* every other block can be handed out, except those stranded before the   *)
(* engine started its step.  From this, that no sequence is ever swapped   *)
(* out or lost to an exception, and that every sequence is in exactly one  *)
(* place with a batch within its limits.  Then the blocks whose KV is      *)
(* computed: without chunked prefill, those that a prompt hits are.        *)
(***************************************************************************)
\* CeilBlocks is how many blocks so many tokens take.
LEMMA CeilBlocksCovers ==
  ASSUME NEW n \in Nat, NEW k \in Nat, (k - 1) * BlockSize < n
  PROVE  CeilBlocks(n) \in Nat /\ k <= CeilBlocks(n)
<1> DEFINE q == CeilBlocks(n)
<1>0. BlockSize \in Nat \ {0}
  BY KVAssumption
<1>1. q \in Nat /\ n + BlockSize - 1 < (q + 1) * BlockSize
  BY <1>0 DEF CeilBlocks
<1>2. (q + 1) * BlockSize = q * BlockSize + BlockSize
  BY <1>0, <1>1
<1> HIDE DEF q
<1>3. n <= q * BlockSize
  BY <1>0, <1>1, <1>2
<1>4. k <= q
  <2> SUFFICES ASSUME q + 1 <= k PROVE FALSE
    BY <1>1
  <2>1. q <= k - 1 /\ k - 1 \in Nat
    BY <1>1
  <2>2. q * BlockSize <= (k - 1) * BlockSize /\ (k - 1) * BlockSize \in Nat /\ q * BlockSize \in Nat
    BY <1>0, <1>1, <2>1, TimesKeepsOrder
  <2> QED
    BY <1>3, <2>2
<1> QED
  BY <1>1, <1>4 DEF q

\* So many sets of so many elements each have at most the product.
LEMMA UnionCount ==
  ASSUME NEW H, IsFiniteSet(H), NEW L \in Nat, NEW F,
         \A h \in H : IsFiniteSet(F[h]) /\ Cardinality(F[h]) <= L
  PROVE  /\ IsFiniteSet(UNION {F[h] : h \in H})
         /\ Cardinality(UNION {F[h] : h \in H}) <= Cardinality(H) * L
<1> DEFINE U(G) == UNION {F[h] : h \in G}
           T == {n \in Nat : \A G \in SUBSET H : Cardinality(G) = n =>
                               IsFiniteSet(U(G)) /\ Cardinality(U(G)) <= n * L}
<1>0. \A G \in SUBSET H : IsFiniteSet(G) /\ Cardinality(G) \in Nat
  BY FS_Subset, FS_CardinalityType
<1>1. 0 \in T
  <2> SUFFICES ASSUME NEW G \in SUBSET H, Cardinality(G) = 0
               PROVE  IsFiniteSet(U(G)) /\ Cardinality(U(G)) <= 0 * L
    OBVIOUS
  <2>1. G = {}
    BY <1>0, FS_EmptySet
  <2>2. U(G) = {} /\ 0 * L = 0
    BY <2>1
  <2> QED
    BY <2>2, FS_EmptySet
<1>2. ASSUME NEW n \in Nat, n \in T
      PROVE  n + 1 \in T
  <2> SUFFICES ASSUME NEW G \in SUBSET H, Cardinality(G) = n + 1
               PROVE  IsFiniteSet(U(G)) /\ Cardinality(U(G)) <= (n + 1) * L
    OBVIOUS
  <2>1. G # {}
    BY <1>0, FS_EmptySet
  <2>2. PICK x : x \in G
    BY <2>1
  <2> DEFINE R == G \ {x}
  <2>3. R \in SUBSET H /\ Cardinality(R) = n
    <3>1. IsFiniteSet(G) /\ Cardinality(G) = n + 1 /\ R \subseteq H
      BY <1>0
    <3>2. Cardinality(R) = Cardinality(G) - 1
      BY <2>2, <3>1, FS_RemoveElement
    <3> QED
      BY <3>1, <3>2
  <2>4. IsFiniteSet(U(R)) /\ Cardinality(U(R)) <= n * L
    BY <1>2, <2>3
  <2>5. U(G) = U(R) \cup F[x]
    BY <2>2
  <2> HIDE DEF U, R, T
  <2>6. IsFiniteSet(F[x]) /\ Cardinality(F[x]) <= L
    BY <2>2
  <2>7. IsFiniteSet(U(G)) /\ Cardinality(U(G)) <= Cardinality(U(R)) + Cardinality(F[x])
    <3>1. /\ IsFiniteSet(U(R) \cup F[x])
          /\ Cardinality(U(R) \cup F[x]) =
               Cardinality(U(R)) + Cardinality(F[x]) - Cardinality(U(R) \cap F[x])
      BY <2>4, <2>6, FS_Union
    <3>2. IsFiniteSet(U(R) \cap F[x])
      BY <2>4, FS_Intersection
    <3>3. /\ Cardinality(U(R)) \in Nat /\ Cardinality(F[x]) \in Nat
          /\ Cardinality(U(R) \cap F[x]) \in Nat
      BY <2>4, <2>6, <3>2, FS_CardinalityType
    <3> QED
      BY <2>5, <3>1, <3>3
  <2>8. /\ Cardinality(U(G)) \in Nat /\ Cardinality(U(R)) \in Nat /\ Cardinality(F[x]) \in Nat
    BY <2>4, <2>6, <2>7, FS_CardinalityType
  <2>9. (n + 1) * L = n * L + L /\ n * L \in Nat
    OBVIOUS
  <2> QED
    BY <2>4, <2>6, <2>7, <2>8, <2>9
<1> HIDE DEF T, U
<1>3. Nat \subseteq T
  BY <1>1, <1>2, Induction
<1>4. Cardinality(H) \in T
  BY <1>0, <1>3
<1> QED
  BY <1>4 DEF T, U

\* The blocks a request needs at its longest.
Need(s) == CeilBlocks(prompt_tokens(s) + req[s].output_tokens)

\* What the sizes of the pool are, and which blocks count.
LEMMA PoolFacts ==
  /\ IsFiniteSet(Block) /\ Cardinality(Block) = NumBlocks
  /\ IsFiniteSet(Stranded) /\ Cardinality(Stranded) \in Nat
  /\ watermark_blocks \in Nat \ {0}
<1>0. NumBlocks \in Nat \ {0}
  BY KVAssumption
<1>1. IsFiniteSet(Block) /\ Cardinality(Block) = NumBlocks
  <2>1. IsFiniteSet(0..(NumBlocks - 1)) /\ Cardinality(0..(NumBlocks - 1)) = NumBlocks - 1 - 0 + 1
    BY <1>0, FS_Interval
  <2> QED
    BY <1>0, <2>1 DEF Block
<1>2. IsFiniteSet(Stranded) /\ Cardinality(Stranded) \in Nat
  BY <1>1, FS_Subset, FS_CardinalityType DEF Stranded
<1>3. watermark_blocks \in Nat \ {0}
  BY <1>0 DEF watermark_blocks
<1> QED
  BY <1>1, <1>2, <1>3

\* What a sequence needs at most is a positive number of blocks.
LEMMA NeedType ==
  ASSUME req \in Workloads, NEW s \in Seqs
  PROVE  Need(s) \in Nat
<1>1. prompt_tokens(s) + req[s].output_tokens \in Nat
  BY RequestFacts
<1> DEFINE n == prompt_tokens(s) + req[s].output_tokens
<1>2. (n + BlockSize - 1) \div BlockSize \in Nat
  <2>1. n \in Nat
    BY <1>1
  <2> HIDE DEF n
  <2>2. BlockSize \in Nat /\ BlockSize > 0
    BY KVAssumption
  <2>3. PICK a : a = n + BlockSize - 1
    OBVIOUS
  <2>4. a \in Nat
    BY <2>1, <2>2, <2>3
  <2>5. a \div BlockSize \in Nat
    BY <2>2, <2>4
  <2> QED
    BY <2>3, <2>5
<1> QED
  BY <1>2 DEF Need, CeilBlocks

\* One request needs the most, and the pool has room for a batch of those.
LEMMA LongestNeed ==
  ASSUME req \in Workloads, cfg \in Configs, PoolCoversBatch, Seqs # {}
  PROVE  \E L \in Nat : /\ \A s \in Seqs : Need(s) <= L
                        /\ cfg.max_num_seqs * L + watermark_blocks + Cardinality(Stranded)
                             <= NumBlocks
<1> DEFINE M == cfg.max_num_seqs
           T == {n \in Nat : \A s \in Seqs : Need(s) <= n}
           lost == watermark_blocks + Cardinality(Stranded)
<1>0. /\ M \in Nat \ {0} /\ lost \in Nat /\ NumBlocks \in Nat
      /\ \A s \in Seqs : Need(s) \in Nat
  BY ConfigFacts, PoolFacts, NeedType, KVAssumption
<1>1. \A s \in Seqs : M * Need(s) + lost <= NumBlocks
  <2>1. \A s \in Seqs : BatchNeeds(s) = M * Need(s)
    BY DEF BatchNeeds, Need
  <2>2. \A s \in Seqs : M * Need(s) + watermark_blocks + Cardinality(Stranded) <= NumBlocks
    BY <2>1 DEF PoolCoversBatch
  <2>3. \A s \in Seqs : M * Need(s) \in Nat
    BY <1>0
  <2> QED
    BY <2>2, <2>3, PoolFacts
<1> HIDE DEF lost, M
<1>2. NumBlocks \in T
  <2> SUFFICES ASSUME NEW s \in Seqs PROVE Need(s) <= NumBlocks
    BY <1>0
  <2>1. Need(s) \in Nat /\ M * Need(s) + lost <= NumBlocks
    BY <1>0, <1>1
  <2>2. 1 * Need(s) <= M * Need(s) /\ M * Need(s) \in Nat
    BY <1>0, <2>1, TimesKeepsOrder
  <2> QED
    BY <1>0, <2>1, <2>2
<1>3. PICK L \in T : \A n \in T : L <= n
  <2>1. T \subseteq Nat /\ T # {}
    BY <1>2
  <2> HIDE DEF T
  <2> QED
    BY <2>1, LeastElement
<1>4. \E s \in Seqs : Need(s) = L
  <2> SUFFICES ASSUME \A s \in Seqs : Need(s) # L PROVE FALSE
    OBVIOUS
  <2>1. \A s \in Seqs : Need(s) <= L - 1 /\ L - 1 \in Nat
    BY <1>0
  <2>2. L - 1 \in T
    BY <2>1
  <2> QED
    BY <1>3, <2>2
<1>5. M * L + lost <= NumBlocks
  BY <1>1, <1>4
<1>6. L \in Nat /\ \A s \in Seqs : Need(s) <= L
  OBVIOUS
<1>7. M * L + watermark_blocks + Cardinality(Stranded) <= NumBlocks
  BY <1>0, <1>5, <1>6, PoolFacts DEF lost
<1> QED
  BY <1>6, <1>7 DEF M

\* A queue has no more elements than places.
LEMMA ElementsOfQueue ==
  ASSUME NEW A, NEW q \in Seq(A)
  PROVE  IsFiniteSet(Range(q)) /\ Cardinality(Range(q)) <= Len(q)
<1>1. /\ IsFiniteSet(1..Len(q)) /\ Cardinality(1..Len(q)) = Len(q) /\ DOMAIN q = 1..Len(q)
      /\ Len(q) \in Nat
  <2>1. DOMAIN q = 1..Len(q) /\ Len(q) \in Nat
    OBVIOUS
  <2> DEFINE k == Len(q)
  <2>2. k \in Nat
    BY <2>1
  <2> HIDE DEF k
  <2>3. IsFiniteSet(1..k) /\ Cardinality(1..k) = IF 1 > k THEN 0 ELSE k - 1 + 1
    BY <2>2, FS_Interval
  <2>4. Cardinality(1..k) = k
    BY <2>2, <2>3
  <2> QED
    BY <2>1, <2>3, <2>4 DEF k
<1>2. Range(q) = {q[i] : i \in DOMAIN q}
  BY DEF Range
<1>3. q \in Surjection(DOMAIN q, Range(q))
  BY <1>1, <1>2 DEF Surjection
<1>4. IsFiniteSet(Range(q)) /\ Cardinality(Range(q)) <= Cardinality(DOMAIN q)
  BY <1>1, <1>3, FS_Surjection
<1> QED
  BY <1>1, <1>4

\* With that room there is always a block to take.
LEMMA RoomToTake ==
  ASSUME EngineInv, LruCovers, PoolCoversBatch,
         \A x \in Block : dropped[x] = 0,
         NEW H \in SUBSET Seqs, Seqs # {}, Cardinality(H) <= cfg.max_num_seqs,
         \A s \in Seqs \ H : tables[s] = <<>>,
         \A s \in H : Len(tables[s]) <= Need(s)
  PROVE  TakeFreeBlock # {}
<1> SUFFICES ASSUME TakeFreeBlock = {} PROVE FALSE
  OBVIOUS
<1>0. /\ req \in Workloads /\ cfg \in Configs /\ cfg.max_num_seqs \in Nat
      /\ tables \in [Seqs -> Seq(Block)] /\ KVInv
  BY ConfigFacts DEF EngineInv, SchedInv, Typed, KVInv, KVTypeOK
<1>1. PICK L \in Nat : /\ \A s \in Seqs : Need(s) <= L
                       /\ cfg.max_num_seqs * L + watermark_blocks + Cardinality(Stranded)
                            <= NumBlocks
  BY <1>0, LongestNeed
<1> DEFINE F == [s \in Seqs |-> Range(tables[s])]
           held == UNION {F[s] : s \in H}
<1>2. IsFiniteSet(H) /\ Cardinality(H) \in Nat
  BY KVAssumption, FS_Subset, FS_CardinalityType
<1>3. \A s \in H : IsFiniteSet(F[s]) /\ Cardinality(F[s]) <= L
  <2> SUFFICES ASSUME NEW s \in H
               PROVE  IsFiniteSet(F[s]) /\ Cardinality(F[s]) <= L
    OBVIOUS
  <2>1. tables[s] \in Seq(Block) /\ Len(tables[s]) \in Nat /\ F[s] = Range(tables[s])
    BY <1>0
  <2>2. IsFiniteSet(F[s]) /\ Cardinality(F[s]) <= Len(tables[s])
    BY <2>1, ElementsOfQueue
  <2>3. Len(tables[s]) <= Need(s) /\ Need(s) <= L /\ Need(s) \in Nat
    BY <1>0, <1>1, NeedType
  <2>4. Cardinality(F[s]) \in Nat
    BY <2>2, FS_CardinalityType
  <2> QED
    BY <2>1, <2>2, <2>3, <2>4
<1>4. Block \subseteq Stranded \cup held
  <2> SUFFICES ASSUME NEW x \in Block, x \notin Stranded PROVE x \in held
    OBVIOUS
  <2>1. ref_count[x] > 0
    BY <1>0, NothingToTake
  <2>2. Holders(x) # {}
    <3>1. ref_count[x] = Cardinality(Holders(x)) + 0
      BY <1>0 DEF KVInv, RefCountExact
    <3>2. Cardinality({}) = 0
      BY FS_EmptySet
    <3>3. ref_count[x] # 0 + 0
      BY <2>1
    <3> QED
      BY <3>1, <3>2, <3>3
  <2>3. PICK s \in Seqs : \E i \in Owned(s) : tables[s][i] = x
    BY <2>2 DEF Holders
  <2>4. x \in Range(tables[s]) /\ tables[s] # <<>>
    <3>1. Owned(s) \subseteq DOMAIN tables[s]
      BY <1>0, OwnedPositions DEF KVInv
    <3> QED
      BY <2>3, <3>1 DEF Range
  <2> QED
    BY <2>4
<1> HIDE DEF F
<1>5. /\ IsFiniteSet(held) /\ Cardinality(held) \in Nat
      /\ Cardinality(held) <= Cardinality(H) * L
  <2>1. IsFiniteSet(held) /\ Cardinality(held) <= Cardinality(H) * L
    BY <1>2, <1>3, UnionCount
  <2> QED
    BY <2>1, FS_CardinalityType
<1> HIDE DEF held
<1>6. NumBlocks <= Cardinality(Stranded) + Cardinality(held)
  <2>1. /\ IsFiniteSet(Stranded \cup held)
        /\ Cardinality(Stranded \cup held) <= Cardinality(Stranded) + Cardinality(held)
    <3>1. IsFiniteSet(Stranded \cap held)
      BY <1>5, FS_Intersection
    <3>2. /\ Cardinality(Stranded \cap held) \in Nat
          /\ Cardinality(Stranded \cup held) =
               Cardinality(Stranded) + Cardinality(held) - Cardinality(Stranded \cap held)
          /\ IsFiniteSet(Stranded \cup held)
      BY <1>5, <3>1, PoolFacts, FS_Union, FS_CardinalityType
    <3> QED
      BY <1>5, <3>2, PoolFacts
  <2>2. Cardinality(Block) <= Cardinality(Stranded \cup held)
    BY <1>4, <2>1, FS_Subset
  <2>3. Cardinality(Stranded \cup held) \in Nat
    BY <2>1, FS_CardinalityType
  <2> QED
    BY <1>5, <2>1, <2>2, <2>3, PoolFacts, KVAssumption
<1>7. /\ Cardinality(H) * L \in Nat /\ cfg.max_num_seqs * L \in Nat
      /\ Cardinality(H) * L <= cfg.max_num_seqs * L
  BY <1>0, <1>2, TimesKeepsOrder
<1> QED
  BY <1>1, <1>5, <1>6, <1>7, PoolFacts, KVAssumption

-----------------------------------------------------------------------------
\* Only running sequences own blocks, but for the one being admitted; each
\* running one owns its table, but for the one being finished.
Owners ==
  /\ \A s \in Seqs : pc[s] # "out" =>
       s \in Range(running) \/ (stage = "admitting" /\ s = Head(waiting))
  /\ \A s \in Range(running) :
       pc[s] = "held" \/ (stage = "finishing" /\ s = Head(FinishNext))
  /\ stage = "admitting" =>
       LET s == Head(waiting)
       IN /\ pc[s] \in {"alloc", "held"} /\ prompt[s] = req[s].prompt
          /\ Len(tables[s]) <= NBlocks(req[s].prompt)
          /\ pc[s] = "held" => Len(tables[s]) = NBlocks(req[s].prompt)
  /\ stage = "finishing" => pc[Head(FinishNext)] \in {"free", "out"}

\* A running sequence owns its prompt's blocks, and no more than its tokens
\* and the one about to be emitted take.
Slots(s) ==
  total_len(s) + (IF s \in Range(survivors) /\ stage \in {"grow", "apply"} THEN 1 ELSE 0)
Fitting ==
  \A s \in Range(running) : pc[s] = "held" =>
    /\ Len(tables[s]) >= NBlocks(req[s].prompt)
    /\ (Len(tables[s]) - 1) * BlockSize < Slots(s)

\* What a step has planned is about running sequences, and grows each once.
Lists ==
  /\ stage \in {"admit", "admitting", "grow"} =>
       /\ Range(decodes) \subseteq Range(running) /\ IsInjective(decodes)
       /\ Range(decodes) \cap Range(survivors) = {}
  /\ stage \in {"admit", "admitting", "restore"} => survivors = <<>>
  /\ stage \in {"admit", "admitting", "restore", "grow", "apply"} =>
       Range(survivors) \cup PrefillSeqs \subseteq Range(running)

\* What has not run has no tokens; what runs wants more, until it is finished.
Tokens ==
  /\ \A s \in Range(waiting) \cup Range(pending) : generated[s] = 0
  /\ stage \notin {"finish", "finishing"} =>
       \A s \in Range(running) : generated[s] < req[s].output_tokens

\* Nothing is preempted, nothing raises, no table is lost.
Untroubled ==
  /\ swapped = <<>> /\ stage \notin {"restoring", "preempt", "crashed"}
  /\ \A x \in Block : dropped[x] = 0

Roomy == Owners /\ Fitting /\ Lists /\ Tokens /\ Untroubled

RoomInv == EngineInv /\ LruCovers /\ (PoolCoversBatch => Roomy)

\* The blocks of a prompt hold its tokens with less than a block to spare.
LEMMA PromptBlocksFit ==
  ASSUME req \in Workloads, NEW s \in Seqs, NEW n \in Nat
  PROVE  /\ NBlocks(req[s].prompt) \in Nat \ {0}
         /\ (NBlocks(req[s].prompt) - 1) * BlockSize < prompt_tokens(s) + n
<1> DEFINE p == req[s].prompt
           k == Len(p.chunks)
<1>1. /\ p \in Prompt /\ NBlocks(p) > 0 /\ BlockSize \in Nat \ {0}
      /\ prompt_tokens(s) = k * BlockSize + p.rem
  BY RequestFacts, KVAssumption DEF prompt_tokens, NTokens
<1>2. k \in Nat /\ p.rem \in Nat /\ NBlocks(p) = k + (IF p.rem > 0 THEN 1 ELSE 0)
  BY <1>1 DEF Prompt, NBlocks
<1> HIDE DEF p, k
<1>3. CASE p.rem > 0
  <2>1. NBlocks(p) - 1 = k /\ k * BlockSize \in Nat /\ NBlocks(p) \in Nat \ {0}
    BY <1>1, <1>2, <1>3
  <2>2. (NBlocks(p) - 1) * BlockSize < prompt_tokens(s) + n
    BY <1>1, <1>2, <1>3, <2>1
  <2> QED
    BY <2>1, <2>2 DEF p
<1>4. CASE p.rem = 0
  <2>1. NBlocks(p) = k /\ k \in Nat \ {0}
    BY <1>1, <1>2, <1>4
  <2>2. (k - 1) * BlockSize = k * BlockSize - BlockSize /\ k * BlockSize \in Nat
    BY <1>1, <2>1
  <2>3. (NBlocks(p) - 1) * BlockSize < prompt_tokens(s) + n
    BY <1>1, <1>4, <2>1, <2>2
  <2> QED
    BY <2>1, <2>3 DEF p
<1> QED
  BY <1>2, <1>3, <1>4

\* A running sequence holds no more than it will need.
LEMMA HeldFitsNeed ==
  ASSUME EngineInv, Roomy, stage \notin {"finish", "finishing"}, NEW s \in Range(running)
  PROVE  s \in Seqs /\ pc[s] = "held" /\ Len(tables[s]) <= Need(s)
<1>1. /\ s \in Seqs /\ req \in Workloads /\ generated \in [Seqs -> Nat]
      /\ tables \in [Seqs -> Seq(Block)]
  BY ContainsIsIn DEF EngineInv, SchedInv, Typed, KVInv, KVTypeOK
<1>2. pc[s] = "held" /\ generated[s] < req[s].output_tokens
  BY DEF Roomy, Owners, Tokens
<1>3. (Len(tables[s]) - 1) * BlockSize < Slots(s)
  BY <1>2 DEF Roomy, Fitting
<1>4. /\ Slots(s) <= prompt_tokens(s) + req[s].output_tokens /\ Slots(s) \in Nat
      /\ prompt_tokens(s) + req[s].output_tokens \in Nat
  <2>1. /\ prompt_tokens(s) \in Nat /\ generated[s] \in Nat /\ req[s].output_tokens \in Nat
    BY <1>1, RequestFacts
  <2> QED
    BY <1>2, <2>1 DEF Slots, total_len
<1> DEFINE n == prompt_tokens(s) + req[s].output_tokens
           k == Len(tables[s])
<1>5. n \in Nat /\ k \in Nat /\ (k - 1) * BlockSize < n
  <2>1. k \in Nat
    BY <1>1
  <2>2. (k - 1) * BlockSize \in Int
    BY <2>1, KVAssumption
  <2> QED
    BY <1>3, <1>4, <2>1, <2>2
<1> HIDE DEF n, k
<1>6. k <= CeilBlocks(n)
  BY <1>5, CeilBlocksCovers
<1> QED
  BY <1>1, <1>2, <1>6 DEF n, k, Need

\* A sequence that owns nothing has no table.
LEMMA OutHasNoTable ==
  ASSUME KVInv, NEW s \in Seqs, pc[s] = "out"
  PROVE  tables[s] = <<>>
  BY DEF KVInv, Lifecycle

\* There is a block for every sequence to be grown, and for the one admitted.
LEMMA RoomToGrow ==
  ASSUME RoomInv, PoolCoversBatch, stage = "grow", Seqs # {}
  PROVE  TakeFreeBlock # {}
<1> DEFINE H == Range(running)
<1>1. EngineInv /\ LruCovers /\ Roomy /\ running \in Seq(Seqs)
  BY DEF RoomInv, EngineInv, SchedInv, Typed
<1>2. H \subseteq Seqs /\ Cardinality(H) <= cfg.max_num_seqs
  <2>1. Range(running) \subseteq Seqs
    BY <1>1, ContainsIsIn
  <2>2. IsFiniteSet(Range(running)) /\ Cardinality(Range(running)) <= Len(running)
    BY <1>1, ElementsOfQueue
  <2>3. Cardinality(Range(running)) \in Nat
    BY <2>2, FS_CardinalityType
  <2>4. Len(running) \in Nat /\ Len(running) <= cfg.max_num_seqs
    BY <1>1 DEF EngineInv, SchedInv, Batched
  <2>5. cfg.max_num_seqs \in Nat
    BY <1>1, ConfigFacts DEF EngineInv, SchedInv, Typed
  <2> QED
    BY <2>1, <2>2, <2>3, <2>4, <2>5
<1>3. \A s \in Seqs \ H : tables[s] = <<>>
  BY <1>1, OutHasNoTable DEF Roomy, Owners, EngineInv
<1>4. \A s \in H : Len(tables[s]) <= Need(s)
  BY <1>1, HeldFitsNeed
<1>5. \A x \in Block : dropped[x] = 0
  BY <1>1 DEF Roomy, Untroubled
<1> HIDE DEF H
<1> QED
  BY <1>1, <1>2, <1>3, <1>4, <1>5, RoomToTake

\* The same for every block of the prompt being allocated.
LEMMA RoomToAllocate ==
  ASSUME RoomInv, PoolCoversBatch, stage = "admitting"
  PROVE  TakeFreeBlock # {}
<1> DEFINE w == Head(waiting)
           H == Range(running) \cup {w}
<1>1. /\ EngineInv /\ LruCovers /\ Roomy /\ running \in Seq(Seqs) /\ waiting \in Seq(Seqs)
      /\ req \in Workloads /\ tables \in [Seqs -> Seq(Block)]
  BY DEF RoomInv, EngineInv, SchedInv, Typed, KVInv, KVTypeOK
<1>2. waiting # <<>> /\ RoomToAdmit
  BY <1>1 DEF EngineInv, SchedInv, Coupled
<1>3. w \in Seqs
  BY <1>1, <1>2, HeadIsSeq
<1>4. H \subseteq Seqs /\ Cardinality(H) <= cfg.max_num_seqs
  <2>1. Range(running) \subseteq Seqs
    BY <1>1, ContainsIsIn
  <2>2. IsFiniteSet(Range(running)) /\ Cardinality(Range(running)) <= Len(running)
    BY <1>1, ElementsOfQueue
  <2>3. /\ Cardinality(Range(running)) \in Nat /\ Len(running) \in Nat
        /\ Len(prefills) \in Nat /\ cfg.max_num_seqs \in Nat
    BY <1>1, <2>2, FS_CardinalityType, ConfigFacts DEF EngineInv, SchedInv, Typed
  <2>4. Len(running) + 1 <= cfg.max_num_seqs
    BY <1>2, <2>3 DEF RoomToAdmit
  <2>5. Cardinality(H) \in Nat /\ Cardinality(H) <= Cardinality(Range(running)) + 1
    <3>1. Cardinality(H) = IF w \in Range(running) THEN Cardinality(Range(running))
                           ELSE Cardinality(Range(running)) + 1
      BY <2>2, FS_AddElement
    <3> QED
      BY <2>3, <3>1
  <2> QED
    BY <1>3, <2>1, <2>2, <2>3, <2>4, <2>5
<1>5. \A s \in Seqs \ H : tables[s] = <<>>
  BY <1>1, OutHasNoTable DEF Roomy, Owners, EngineInv
<1>6. \A s \in H : Len(tables[s]) <= Need(s)
  <2>1. \A s \in Range(running) : Len(tables[s]) <= Need(s)
    BY <1>1, HeldFitsNeed
  <2>2. Len(tables[w]) <= Need(w)
    <3> HIDE DEF w
    <3>1. Len(tables[w]) <= NBlocks(req[w].prompt)
      BY <1>1 DEF Roomy, Owners, w
    <3> DEFINE k == NBlocks(req[w].prompt)
               n == prompt_tokens(w) + req[w].output_tokens
    <3>2. k \in Nat /\ n \in Nat /\ (k - 1) * BlockSize < n
      <4>1. req[w].output_tokens \in Nat /\ prompt_tokens(w) \in Nat
        BY <1>1, <1>3, RequestFacts
      <4>2. /\ NBlocks(req[w].prompt) \in Nat
            /\ (NBlocks(req[w].prompt) - 1) * BlockSize
                 < prompt_tokens(w) + req[w].output_tokens
        BY <1>1, <1>3, <4>1, PromptBlocksFit
      <4> QED
        BY <4>1, <4>2
    <3> HIDE DEF k, n
    <3>3. k <= CeilBlocks(n) /\ CeilBlocks(n) \in Nat
      BY <3>2, CeilBlocksCovers
    <3>4. Len(tables[w]) \in Nat
      BY <1>1, <1>3
    <3>5. Len(tables[w]) <= k /\ Need(w) = CeilBlocks(n)
      BY <3>1 DEF k, n, Need
    <3> QED
      BY <3>2, <3>3, <3>4, <3>5
  <2> QED
    BY <2>1, <2>2
<1>7. \A x \in Block : dropped[x] = 0
  BY <1>1 DEF Roomy, Untroubled
<1>8. Seqs # {}
  BY <1>3
<1> HIDE DEF H
<1> QED
  BY <1>1, <1>4, <1>5, <1>6, <1>7, <1>8, RoomToTake

-----------------------------------------------------------------------------
\* A step from one stage to the next that moves no sequence.
LEMMA StageMoveRoomy ==
  ASSUME EngineInv, Roomy,
         UNCHANGED <<kvVars, cfg, req, running, swapped, generated>>,
         stage \notin {"admitting", "finishing"},
         stage' \in {"idle", "admit", "restore", "grow", "apply"},
         Range(waiting') \cup Range(pending') \subseteq Range(waiting) \cup Range(pending),
         stage \in {"grow", "apply"} =>
           \A s \in Range(survivors) : s \in Range(survivors') /\ stage' \in {"grow", "apply"},
         stage = "finish" => FinishNext = <<>>,
         Lists'
  PROVE  Roomy'
<1> USE DEF Roomy, EngineInv
<1>1. Owners'
  BY DEF Owners, kvVars
<1>2. Fitting'
  <2> SUFFICES ASSUME NEW s \in Range(running), pc[s] = "held"
               PROVE  /\ Len(tables[s]) >= NBlocks(req[s].prompt)
                      /\ (Len(tables[s]) - 1) * BlockSize < Slots(s)'
    BY DEF Fitting, kvVars
  <2>1. /\ Len(tables[s]) >= NBlocks(req[s].prompt)
        /\ (Len(tables[s]) - 1) * BlockSize < Slots(s)
    BY DEF Fitting
  <2>2. total_len(s)' = total_len(s)
    BY DEF total_len, prompt_tokens
  <2>3. s \in Seqs /\ total_len(s) \in Nat /\ Len(tables[s]) \in Nat
    <3>1. s \in Seqs
      BY ContainsIsIn DEF SchedInv, Typed
    <3>2. total_len(s) \in Lens
      BY <3>1, TotalLenFits DEF SchedInv
    <3> QED
      BY <3>1, <3>2, KVAssumption DEF KVInv, KVTypeOK
  <2>4. Slots(s) <= Slots(s)' /\ Slots(s) \in Nat /\ Slots(s)' \in Nat
    BY <2>2, <2>3 DEF Slots
  <2>5. (Len(tables[s]) - 1) * BlockSize \in Int
    BY <2>3, KVAssumption
  <2> QED
    BY <2>1, <2>4, <2>5
<1>3. Tokens'
  <2>1. \A s \in Range(waiting') \cup Range(pending') : generated'[s] = 0
    BY DEF Tokens
  <2>2. ASSUME NEW s \in Range(running)
        PROVE  generated[s] < req[s].output_tokens
    <3>1. CASE stage = "finish"
      <4>1. /\ FinishNext \in Seq(Seqs) /\ FinishNext = <<>>
            /\ Range(FinishNext) = {u \in Range(running) : done(u)}
        BY <3>1, FinishNextFacts DEF SchedInv
      <4>2. Range(FinishNext) = {}
        BY <4>1 DEF Range
      <4>3. ~done(s)
        BY <4>1, <4>2
      <4>4. s \in Seqs /\ generated \in [Seqs -> Nat] /\ req \in Workloads
        BY ContainsIsIn DEF SchedInv, Typed
      <4> QED
        BY <4>3, <4>4, RequestFacts DEF done
    <3>2. CASE stage # "finish"
      BY <3>2 DEF Tokens
    <3> QED
      BY <3>1, <3>2
  <2> QED
    BY <2>1, <2>2 DEF Tokens
<1>4. Untroubled'
  BY DEF Untroubled, kvVars
<1> QED
  BY <1>1, <1>2, <1>3, <1>4

\* Arrivals only join the waiting queue.
LEMMA BeginStepRoomy ==
  ASSUME EngineInv, Roomy, BeginStep
  PROVE  Roomy'
<1> DEFINE ready == IF cfg.enable_chunked_prefill THEN Ready(running) ELSE <<>>
           chunks == IF cfg.enable_chunked_prefill
                     THEN PartialChunks(Partial(running),
                                        cfg.max_num_batched_tokens - Len(ready))
                     ELSE [budget |-> cfg.max_num_batched_tokens, prefills |-> <<>>]
<1>0. SchedInv /\ Typed /\ Placed
  BY DEF EngineInv, SchedInv
<1>1. /\ UNCHANGED <<kvVars, cfg, req, running, swapped, finished, prefilled, generated,
                     cached_tokens, first_token, computed>>
      /\ stage = "idle" /\ stage' = "admit"
      /\ decodes' = ready /\ prefills' = chunks.prefills /\ survivors' = <<>>
  BY DEF BeginStep, inputs, seqVars
<1>2. PICK k \in 0..Len(pending) :
        /\ waiting' = SortWaiting(waiting \o SubSeq(pending, 1, k))
        /\ pending' = SubSeq(pending, k + 1, Len(pending))
  BY DEF BeginStep
<1>3. running \in Seq(Seqs) /\ waiting \in Seq(Seqs) /\ pending \in Seq(Seqs)
      /\ req \in Workloads /\ cfg \in Configs /\ IsInjective(running)
  BY <1>0, <1>1 DEF Typed, Placed
<1>4. Range(waiting') \cup Range(pending') \subseteq Range(waiting) \cup Range(pending)
  <2> DEFINE p == SubSeq(pending, 1, k)
             q == SubSeq(pending, k + 1, Len(pending))
  <2>1. p \in Seq(Seqs) /\ q \in Seq(Seqs) /\ pending = p \o q
    BY <1>3, SplitQueue
  <2> HIDE DEF p, q
  <2>2. Range(pending) = Range(p) \cup Range(q)
    BY <2>1, ConcatOfQueues
  <2>3. /\ waiting \o p \in Seq(Seqs)
        /\ Range(waiting \o p) = Range(waiting) \cup Range(p)
    BY <1>3, <2>1, ConcatOfQueues
  <2>4. Range(SortWaiting(waiting \o p)) = Range(waiting \o p)
    BY <1>3, <2>3, SortWaitingKeeps
  <2> QED
    BY <1>2, <2>2, <2>3, <2>4 DEF p, q
<1>5. /\ ready \in Seq(Seqs) /\ Range(ready) \subseteq Range(running) /\ IsInjective(ready)
  BY <1>3, ReadyAndPartial, EmptyQueue
<1>6. \A i \in DOMAIN chunks.prefills : chunks.prefills[i].seq \in Range(running)
  <2>1. CASE cfg.enable_chunked_prefill
    <3> DEFINE partial == Partial(running)
               budget == cfg.max_num_batched_tokens - Len(ready)
    <3>1. /\ partial \in Seq(Seqs) /\ Range(partial) \subseteq Range(running)
          /\ \A s \in Range(partial) : ~prefill_done(s)
      BY <1>3, ReadyAndPartial
    <3>2. budget \in Int
      <4>1. cfg.max_num_batched_tokens \in Int /\ Len(ready) \in Int
        BY <1>3, <1>5, ConfigFacts
      <4> QED
        BY <4>1
    <3> HIDE DEF partial, budget
    <3>3. PartialChunks(partial, budget) \in Plans(partial, budget)
      BY <1>0, <3>1, <3>2, PartialChunksPlan
    <3>4. chunks = PartialChunks(partial, budget)
      BY <2>1 DEF partial, budget
    <3> QED
      BY <3>1, <3>3, <3>4 DEF Plans
  <2>2. CASE ~cfg.enable_chunked_prefill
    BY <2>2
  <2> QED
    BY <2>1, <2>2
<1> HIDE DEF ready, chunks
<1>7. Lists'
  <2>1. PrefillSeqs' \subseteq Range(running)
    BY <1>1, <1>6 DEF PrefillSeqs
  <2>2. Range(survivors') = {}
    BY <1>1 DEF Range
  <2> QED
    BY <1>1, <1>5, <2>1, <2>2 DEF Lists
<1> QED
  BY <1>1, <1>4, <1>7, StageMoveRoomy

\* The steps that move from one stage to the next and touch no block.
LEMMA StageStepsRoomy ==
  ASSUME EngineInv, Roomy, EndAdmit \/ EndRestore \/ EndGrow \/ EndStep
  PROVE  Roomy'
<1>0. running \in Seq(Seqs) /\ (stage # "crashed" => IsInjective(running))
  BY DEF EngineInv, SchedInv, Typed, Placed
<1>1. CASE EndAdmit
  <2>1. /\ UNCHANGED <<kvVars, cfg, req, pending, waiting, running, swapped, generated,
                       prefills, decodes, survivors>>
        /\ stage = "admit" \/ (stage = "admitting" /\ pc[Head(waiting)] = "out")
        /\ stage' \in {"grow", "apply", "restore"}
    BY <1>1 DEF EndAdmit, inputs, queues, seqVars, stepVars
  <2>2. stage = "admit"
    BY <2>1 DEF Roomy, Owners
  <2>3. Lists'
    BY <2>1, <2>2 DEF Roomy, Lists, PrefillSeqs
  <2> QED
    BY <2>1, <2>2, <2>3, StageMoveRoomy
<1>2. CASE EndRestore
  <2>1. /\ UNCHANGED <<kvVars, cfg, req, pending, waiting, running, swapped, generated,
                       prefills, survivors>>
        /\ stage = "restore" /\ stage' = "grow" /\ decodes' = Ready(running)
    BY <1>2 DEF EndRestore, inputs, queues, seqVars
  <2>2. Range(decodes') \subseteq Range(running) /\ IsInjective(decodes')
    BY <1>0, <2>1, ReadyAndPartial
  <2>3. survivors = <<>> /\ Range(survivors) = {}
    BY <2>1 DEF Roomy, Lists, Range
  <2>4. Lists'
    BY <2>1, <2>2, <2>3 DEF Roomy, Lists, PrefillSeqs, Coupled
  <2> QED
    BY <2>1, <2>4, StageMoveRoomy
<1>3. CASE EndGrow
  <2>1. /\ UNCHANGED <<kvVars, cfg, req, pending, waiting, running, swapped, generated,
                       prefills, decodes, survivors>>
        /\ stage = "grow"
        /\ stage' = "apply" \/ (stage' = "idle" /\ survivors = <<>>)
    BY <1>3 DEF EndGrow, inputs, queues, seqVars, stepVars
  <2>2. survivors = <<>> => Range(survivors) = {}
    BY DEF Range
  <2>3. Lists'
    BY <2>1 DEF Roomy, Lists, PrefillSeqs
  <2> QED
    BY <2>1, <2>2, <2>3, StageMoveRoomy
<1>4. CASE EndStep
  <2>1. /\ UNCHANGED <<kvVars, cfg, req, pending, waiting, running, swapped, generated>>
        /\ stage = "finish" /\ stage' = "idle" /\ FinishNext = <<>>
    BY <1>4 DEF EndStep, inputs, queues, seqVars
  <2>2. Lists'
    BY <2>1 DEF Lists
  <2> QED
    BY <2>1, <2>2, StageMoveRoomy
<1> QED
  BY <1>1, <1>2, <1>3, <1>4

\* What Apply emits, sequence by sequence: every survivor gets a token, no
\* sequence outside the step's lists gets any.
LEMMA ApplyFeeds ==
  ASSUME SchedInv, Apply, NEW s \in Seqs
  PROVE  /\ s \notin Range(survivors) \cup PrefillSeqs => generated'[s] = generated[s]
         /\ s \in Range(survivors) /\ generated[s] < req[s].output_tokens =>
              generated[s] + 1 <= generated'[s]
<1> USE DEF SchedInv
<1>1. PICK accepted \in 0..(IF survivors # <<>> /\ prefills = <<>>
                            THEN cfg.spec_draft_tokens ELSE 0) :
        LET emitted == [u \in Seqs |-> IF Contains(survivors, u)
                                       THEN Emitted(u, accepted + 1) ELSE 0]
        IN generated' = [u \in Seqs |-> IF u \in FirstNow THEN 1
                                        ELSE generated[u] + emitted[u]]
  BY DEF Apply
<1> DEFINE e == IF Contains(survivors, s) THEN Emitted(s, accepted + 1) ELSE 0
<1>2. /\ generated'[s] = IF s \in FirstNow THEN 1 ELSE generated[s] + e
      /\ generated[s] \in Nat /\ req[s].output_tokens \in Nat \ {0}
      /\ generated[s] > 0 => first_token[s]
      /\ Contains(survivors, s) <=> s \in Range(survivors)
  <2>1. /\ generated \in [Seqs -> Nat] /\ req[s].output_tokens \in Nat \ {0}
        /\ survivors \in Seq(Seqs) /\ generated[s] > 0 => first_token[s]
    BY RequestFacts DEF Typed, Counted
  <2>2. Contains(survivors, s) <=> s \in Range(survivors)
    BY <2>1, ContainsIsIn DEF Typed
  <2>3. generated'[s] = IF s \in FirstNow THEN 1 ELSE generated[s] + e
    BY <1>1
  <2> QED
    BY <2>1, <2>2, <2>3 DEF Counted
<1>3. s \in FirstNow => s \in PrefillSeqs /\ generated[s] = 0
  BY <1>2, PrefillChunkType DEF FirstNow
<1>4. ASSUME s \notin Range(survivors) \cup PrefillSeqs
      PROVE  generated'[s] = generated[s]
  <2>1. s \notin FirstNow /\ e = 0
    BY <1>2, <1>3, <1>4
  <2> HIDE DEF e
  <2> QED
    BY <1>2, <2>1
<1>5. ASSUME s \in Range(survivors), generated[s] < req[s].output_tokens
      PROVE  generated[s] + 1 <= generated'[s]
  <2>1. accepted + 1 \in Nat \ {0}
    <3>1. cfg.spec_draft_tokens \in Nat
      BY ConfigFacts DEF Typed
    <3> QED
      BY <3>1
  <2> DEFINE k == accepted + 1
             wanted == req[s].output_tokens - generated[s]
  <2>2. k \in Nat /\ k >= 1 /\ wanted \in Nat /\ wanted >= 1
    BY <1>2, <1>5, <2>1
  <2>3. e = Least({k, wanted})
    BY <1>2, <1>5 DEF Emitted
  <2> HIDE DEF e, k, wanted
  <2>4. e \in Nat /\ e >= 1
    BY <2>2, <2>3, LeastOf
  <2> QED
    BY <1>2, <1>3, <2>4
<1> QED
  BY <1>4, <1>5

\* The results of a batch lengthen only sequences that hold the slots for it.
LEMMA ApplyRoomy ==
  ASSUME EngineInv, Roomy, Apply
  PROVE  Roomy'
<1> USE DEF Roomy
<1>0. /\ SchedInv /\ req \in Workloads /\ generated \in [Seqs -> Nat]
      /\ tables \in [Seqs -> Seq(Block)]
      /\ \A s \in Seqs : Range(running) \subseteq Seqs
      /\ waiting \in Seq(Seqs) /\ pending \in Seq(Seqs) /\ running \in Seq(Seqs)
  BY ContainsIsIn DEF EngineInv, SchedInv, Typed, KVInv, KVTypeOK
<1>1. /\ UNCHANGED <<kvVars, cfg, req, pending, waiting, running, swapped, finished,
                     survivors, prefills, decodes>>
      /\ stage = "apply" /\ stage' = "finish"
  BY DEF Apply, inputs, queues, stepVars
<1>2. /\ generated' \in [Seqs -> Nat]
      /\ \A s \in Seqs : generated[s] <= generated'[s]
  BY <1>0, ApplyEmits
<1>3. Owners' /\ Lists' /\ Untroubled'
  BY <1>1 DEF Owners, Lists, Untroubled, kvVars
<1>4. Fitting'
  <2> SUFFICES ASSUME NEW s \in Range(running), pc[s] = "held"
               PROVE  /\ Len(tables[s]) >= NBlocks(req[s].prompt)
                      /\ (Len(tables[s]) - 1) * BlockSize < Slots(s)'
    BY <1>1 DEF Fitting, kvVars
  <2>1. /\ Len(tables[s]) >= NBlocks(req[s].prompt)
        /\ (Len(tables[s]) - 1) * BlockSize < Slots(s)
    BY DEF Fitting
  <2>2. s \in Seqs
    BY <1>0, ContainsIsIn
  <2>3. /\ prompt_tokens(s) \in Nat /\ prompt_tokens(s)' = prompt_tokens(s)
        /\ generated[s] \in Nat /\ generated'[s] \in Nat /\ req[s].output_tokens \in Nat
    BY <1>0, <1>1, <1>2, <2>2, RequestFacts DEF prompt_tokens
  <2>4. generated[s] < req[s].output_tokens
    BY <1>1 DEF Tokens
  <2>5. Slots(s)' = prompt_tokens(s) + generated'[s]
    BY <1>1, <2>3 DEF Slots, total_len
  <2>6. Slots(s) = prompt_tokens(s) + generated[s] + (IF s \in Range(survivors) THEN 1 ELSE 0)
    BY <1>1 DEF Slots, total_len
  <2>7. generated[s] + (IF s \in Range(survivors) THEN 1 ELSE 0) <= generated'[s]
    BY <1>0, <1>2, <2>2, <2>3, <2>4, ApplyFeeds
  <2>8. (Len(tables[s]) - 1) * BlockSize \in Int
    BY <1>0, <2>2, KVAssumption
  <2> QED
    BY <2>1, <2>3, <2>5, <2>6, <2>7, <2>8
<1>5. Tokens'
  <2> SUFFICES ASSUME NEW s \in Range(waiting) \cup Range(pending)
               PROVE  generated'[s] = 0
    BY <1>1 DEF Tokens
  <2>1. s \in Seqs /\ s \notin Range(running)
    BY <1>0, <1>1, ContainsIsIn DEF SchedInv, Placed
  <2>2. s \notin Range(survivors) \cup PrefillSeqs
    BY <1>1, <2>1 DEF Lists
  <2> QED
    BY <1>0, <2>1, <2>2, ApplyFeeds DEF Tokens
<1> QED
  BY <1>3, <1>4, <1>5

\* The finish loop: the sequence being freed, and only it, loses its blocks.
LEMMA FinishStepsRoomy ==
  ASSUME EngineInv, EngineInv', Roomy,
         FinishFree \/ Finish \/ (stage = "finishing" /\ FreeStep)
  PROVE  Roomy'
<1> DEFINE v == Head(FinishNext)
<1> USE DEF Roomy
<1>0. /\ SchedInv /\ Typed /\ Typed' /\ running \in Seq(Seqs) /\ Range(running) \subseteq Seqs
      /\ running' \in Seq(Seqs) /\ Range(running') \subseteq Seqs
      /\ pc \in [Seqs -> {"out", "alloc", "held", "free"}]
      /\ tables \in [Seqs -> Seq(Block)]
  BY ContainsIsIn DEF EngineInv, SchedInv, Typed, KVInv, KVTypeOK
<1>1. /\ UNCHANGED <<req, cfg, pending, waiting, swapped, generated, survivors, prefilled>>
      /\ stage \in {"finish", "finishing"} /\ stage' \in {"finish", "finishing"}
  BY DEF FinishFree, Finish, FreeStep, engineVars, inputs, queues, seqVars, stepVars
<1>2. FinishNext # <<>> /\ v \in Range(running) /\ v \in Seqs
  <2>1. FinishNext # <<>>
    BY DEF FinishFree, Finish, FreeStep, EngineInv, SchedInv, Coupled
  <2> QED
    BY <1>0, <2>1, FinishNextFacts
<1> HIDE DEF v
<1>3. Lists'
  BY <1>1 DEF Lists
<1>4. CASE FinishFree
  <2>1. /\ pc' = [pc EXCEPT ![v] = "free"] /\ UNCHANGED <<tables, dropped, running>>
        /\ stage = "finish" /\ stage' = "finishing"
    BY <1>4 DEF FinishFree, Free, queues, v
  <2>2. FinishNext' = FinishNext
    BY <1>1, <2>1 DEF FinishNext, done
  <2>3. Owners'
    <3>1. \A s \in Seqs : pc'[s] # "out" => s \in Range(running)
      BY <1>0, <1>2, <2>1 DEF Owners
    <3>2. \A s \in Range(running) : pc'[s] = "held" \/ s = v
      BY <1>0, <1>2, <2>1 DEF Owners
    <3>3. pc'[v] = "free"
      BY <1>0, <1>2, <2>1
    <3> QED
      BY <2>1, <2>2, <3>1, <3>2, <3>3 DEF Owners, v
  <2>4. Fitting'
    <3>1. \A s \in Range(running) : pc'[s] = "held" => pc[s] = "held"
      BY <1>0, <1>2, <2>1
    <3> QED
      BY <1>1, <2>1, <3>1 DEF Fitting, Slots, total_len, prompt_tokens
  <2>5. Tokens' /\ Untroubled'
    BY <1>1, <2>1 DEF Tokens, Untroubled
  <2> QED
    BY <1>3, <2>3, <2>4, <2>5
<1>5. CASE Finish
  <2>1. /\ running' = RemoveFirst(running, v) /\ UNCHANGED kvVars /\ Idle
        /\ stage = "finishing" /\ stage' = "finish"
    BY <1>5 DEF Finish, v
  <2>2. Range(running) = Range(running') \cup {v} /\ v \notin Range(running')
    BY <1>0, <1>2, <2>1, RemoveFromQueue DEF SchedInv, Placed
  <2>3. pc[v] = "out"
    BY <1>2, <2>1 DEF Owners, Idle, v
  <2>4. Owners'
    <3>1. \A s \in Seqs : pc[s] # "out" => s \in Range(running')
      BY <2>1, <2>2, <2>3 DEF Owners
    <3>2. \A s \in Range(running') : pc[s] = "held"
      BY <2>1, <2>2 DEF Owners, v
    <3> QED
      BY <2>1, <3>1, <3>2 DEF Owners, kvVars
  <2>5. Fitting'
    BY <1>1, <2>1, <2>2 DEF Fitting, Slots, total_len, prompt_tokens, kvVars
  <2>6. Tokens' /\ Untroubled'
    BY <1>1, <2>1, <2>2 DEF Tokens, Untroubled, kvVars
  <2> QED
    BY <1>3, <2>4, <2>5, <2>6
<1>6. CASE stage = "finishing" /\ FreeStep
  <2>1. UNCHANGED engineVars
    BY <1>6 DEF FreeStep
  <2>2. FinishNext' = FinishNext
    BY <2>1 DEF FinishNext, done, engineVars, queues, seqVars, inputs
  <2>3. PICK u \in Seqs : Release(u) \/ FreeReturn(u)
    BY <1>6 DEF FreeStep
  <2>4. u = v
    <3>1. pc[u] = "free"
      BY <2>3 DEF Release, FreeReturn
    <3> QED
      BY <1>6, <3>1 DEF Owners, v
  <2>5. /\ \A s \in Seqs \ {v} : pc'[s] = pc[s] /\ tables'[s] = tables[s]
        /\ pc'[v] \in {"free", "out"} /\ dropped' = dropped
    <3>1. CASE Release(u)
      <4>1. UNCHANGED <<pc, tables, dropped>> /\ pc[v] = "free"
        BY <2>4, <3>1 DEF Release
      <4> QED
        BY <4>1
    <3>2. CASE FreeReturn(u)
      <4>1. /\ pc' = [pc EXCEPT ![v] = "out"] /\ tables' = [tables EXCEPT ![v] = <<>>]
            /\ dropped' = dropped
        BY <2>4, <3>2 DEF FreeReturn
      <4> QED
        BY <1>0, <1>2, <4>1
    <3> QED
      BY <2>3, <3>1, <3>2
  <2>6. /\ running' = running /\ stage' = "finishing" /\ stage = "finishing"
    BY <1>6, <2>1 DEF engineVars, queues
  <2>7. Owners'
    <3>1. \A s \in Seqs : pc'[s] # "out" => s \in Range(running)
      BY <1>2, <2>5, <2>6 DEF Owners
    <3>2. \A s \in Range(running) : pc'[s] = "held" \/ s = v
      BY <1>0, <2>5, <2>6 DEF Owners, v
    <3> QED
      BY <2>2, <2>5, <2>6, <3>1, <3>2 DEF Owners, v
  <2>8. Fitting'
    <3>1. \A s \in Range(running) : pc'[s] = "held" =>
            s # v /\ s \in Seqs /\ pc[s] = "held" /\ tables'[s] = tables[s]
      BY <1>0, <2>5
    <3> QED
      BY <1>1, <2>6, <3>1 DEF Fitting, Slots, total_len, prompt_tokens
  <2>9. Tokens' /\ Untroubled'
    BY <1>1, <2>5, <2>6 DEF Tokens, Untroubled
  <2> QED
    BY <1>3, <2>7, <2>8, <2>9
<1> QED
  BY <1>4, <1>5, <1>6

-----------------------------------------------------------------------------
\* The head of the queue starts its allocation, and nothing raises in it.
LEMMA AdmitAllocateRoomy ==
  ASSUME EngineInv, Roomy, AdmitAllocate
  PROVE  Roomy'
<1> DEFINE w == Head(waiting)
<1> USE DEF Roomy
<1>0. /\ SchedInv /\ waiting \in Seq(Seqs) /\ running \in Seq(Seqs)
      /\ pc \in [Seqs -> {"out", "alloc", "held", "free"}]
      /\ tables \in [Seqs -> Seq(Block)] /\ prompt \in [Seqs -> Prompt]
      /\ req \in Workloads /\ Range(running) \subseteq Seqs
  BY ContainsIsIn DEF EngineInv, SchedInv, Typed, KVInv, KVTypeOK
<1>1. /\ UNCHANGED <<cfg, req, pending, waiting, running, swapped, finished, generated,
                     prefills, decodes, survivors>>
      /\ stage = "admit" /\ waiting # <<>>
      /\ pc[w] = "held" => Overwrite(w) /\ stage' = stage
      /\ pc[w] # "held" => AllocatePrompt(w, req[w].prompt) /\ stage' = "admitting"
  BY DEF AdmitAllocate, AdmitNext, inputs, queues, seqVars, stepVars
<1>2. w \in Seqs /\ w \in Range(waiting) /\ w \notin Range(running)
  BY <1>0, <1>1, TailOfQueue DEF SchedInv, Placed
<1>3. pc[w] = "out"
  BY <1>1, <1>2 DEF Owners
<1> HIDE DEF w
<1>4. /\ pc' = [pc EXCEPT ![w] = "alloc"] /\ prompt' = [prompt EXCEPT ![w] = req[w].prompt]
      /\ tables' = [tables EXCEPT ![w] = <<>>] /\ dropped' = dropped /\ stage' = "admitting"
  BY <1>1, <1>3 DEF AllocatePrompt
<1>5. /\ \A s \in Seqs \ {w} : pc'[s] = pc[s] /\ tables'[s] = tables[s]
      /\ pc'[w] = "alloc" /\ prompt'[w] = req[w].prompt /\ tables'[w] = <<>>
  BY <1>0, <1>2, <1>4
<1>6. Owners'
  <2>1. Len(tables'[w]) <= NBlocks(req[w].prompt)
    <3>1. Len(tables'[w]) = 0
      BY <1>5
    <3> QED
      BY <1>0, <1>2, <3>1, RequestFacts, PromptBlocksFit
  <2>2. \A s \in Seqs : pc'[s] # "out" => s \in Range(running) \/ s = w
    BY <1>1, <1>5 DEF Owners
  <2>3. \A s \in Range(running) : pc'[s] = "held"
    BY <1>0, <1>1, <1>2, <1>5 DEF Owners
  <2> QED
    BY <1>1, <1>4, <1>5, <2>1, <2>2, <2>3 DEF Owners, w
<1>7. Fitting'
  <2>1. \A s \in Range(running) : pc'[s] = pc[s] /\ tables'[s] = tables[s]
    BY <1>0, <1>2, <1>5
  <2> QED
    BY <1>1, <1>4, <2>1 DEF Fitting, Slots, total_len, prompt_tokens
<1>8. Lists' /\ Tokens' /\ Untroubled'
  BY <1>1, <1>4 DEF Lists, PrefillSeqs, Tokens, Untroubled
<1> QED
  BY <1>6, <1>7, <1>8

\* What allocate_prompt does to its caller's table.
LEMMA AllocationAdds ==
  ASSUME KVInv, KVInv', NEW s \in Seqs, HitBlock(s) \/ MissBlock(s) \/ TailBlock(s)
  PROVE  /\ UNCHANGED <<pc, prompt, dropped>> /\ pc[s] = "alloc"
         /\ Len(tables'[s]) = Len(tables[s]) + 1
         /\ Len(tables[s]) < NBlocks(prompt[s])
         /\ \A u \in Seqs \ {s} : tables'[u] = tables[u]
<1>0. /\ tables \in [Seqs -> Seq(Block)] /\ prompt \in [Seqs -> Prompt]
      /\ tables' \in [Seqs -> Seq(Block)]
  BY DEF KVInv, KVTypeOK
<1>1. UNCHANGED <<pc, prompt, dropped>> /\ pc[s] = "alloc"
  BY DEF HitBlock, MissBlock, TailBlock
<1>2. PICK x : tables' = [tables EXCEPT ![s] = Append(@, x)]
  BY DEF HitBlock, MissBlock, TailBlock
<1>3. tables'[s] = Append(tables[s], x) /\ \A u \in Seqs \ {s} : tables'[u] = tables[u]
  BY <1>0, <1>2
<1>4. Len(tables'[s]) = Len(tables[s]) + 1
  <2> DEFINE l == tables[s]
  <2>1. l \in Seq(Block) /\ tables'[s] = Append(l, x)
    BY <1>0, <1>3
  <2> HIDE DEF l
  <2>2. Len(Append(l, x)) = Len(l) + 1
    BY <2>1
  <2> QED
    BY <2>1, <2>2 DEF l
<1>5. Len(tables[s]) < NBlocks(prompt[s])
  <2>1. /\ Len(tables[s]) \in Nat /\ Len(prompt[s].chunks) \in Nat
        /\ prompt[s].rem \in Nat
    BY <1>0, KVAssumption DEF Prompt
  <2>2. \/ Len(tables[s]) < Len(prompt[s].chunks)
        \/ Len(tables[s]) = Len(prompt[s].chunks) /\ prompt[s].rem > 0
    BY DEF HitBlock, MissBlock, TailBlock, NFull
  <2> DEFINE k == Len(tables[s])
             n == Len(prompt[s].chunks)
             r == prompt[s].rem
  <2>3. NBlocks(prompt[s]) = n + (IF r > 0 THEN 1 ELSE 0)
    BY DEF NBlocks
  <2>4. k \in Nat /\ n \in Nat /\ r \in Nat /\ (k < n \/ (k = n /\ r > 0))
    BY <2>1, <2>2
  <2> HIDE DEF k, n, r
  <2>5. k < n + (IF r > 0 THEN 1 ELSE 0)
    BY <2>4
  <2> QED
    BY <2>3, <2>5 DEF k
<1> QED
  BY <1>1, <1>3, <1>4, <1>5

\* One block, or the return, of the allocation of the head of the queue.
LEMMA AllocStepRoomy ==
  ASSUME RoomInv, PoolCoversBatch, KVInv', AllocStep
  PROVE  Roomy'
<1> DEFINE w == Head(waiting)
<1>0. EngineInv /\ Roomy
  BY DEF RoomInv
<1> USE DEF Roomy
<1>1. /\ SchedInv /\ waiting \in Seq(Seqs) /\ running \in Seq(Seqs) /\ KVInv
      /\ pc \in [Seqs -> {"out", "alloc", "held", "free"}]
      /\ tables \in [Seqs -> Seq(Block)] /\ prompt \in [Seqs -> Prompt]
      /\ req \in Workloads /\ Range(running) \subseteq Seqs
  BY <1>0, ContainsIsIn DEF EngineInv, SchedInv, Typed, KVInv, KVTypeOK
<1>2. /\ UNCHANGED <<cfg, req, pending, waiting, running, swapped, finished, generated,
                     prefills, decodes, survivors, stage>>
      /\ stage = "admitting"
  BY <1>0 DEF AllocStep, Untroubled, inputs, queues, seqVars, stepVars
<1>3. w \in Seqs /\ w \in Range(waiting) /\ w \notin Range(running)
  BY <1>1, <1>2, TailOfQueue DEF SchedInv, Placed, Coupled
<1>4. PICK s \in Seqs : \/ HitBlock(s) \/ MissBlock(s) \/ TailBlock(s)
                        \/ RaiseOutOfBlocks(s) \/ AllocateReturn(s)
  BY DEF AllocStep
<1>5. s = w
  <2>1. pc[s] = "alloc"
    BY <1>4 DEF HitBlock, MissBlock, TailBlock, RaiseOutOfBlocks, AllocateReturn
  <2> QED
    BY <1>0, <1>2, <2>1 DEF Owners
<1>6. ~RaiseOutOfBlocks(w)
  BY <1>2, RoomToAllocate DEF RaiseOutOfBlocks
<1> HIDE DEF w
<1>7. /\ \A u \in Seqs \ {w} : pc'[u] = pc[u] /\ tables'[u] = tables[u]
      /\ pc'[w] \in {"alloc", "held"} /\ prompt' = prompt /\ dropped' = dropped
      /\ Len(tables'[w]) <= NBlocks(req[w].prompt)
      /\ pc'[w] = "held" => Len(tables'[w]) = NBlocks(req[w].prompt)
  <2>0. prompt[w] = req[w].prompt
    BY <1>0, <1>2 DEF Owners, w
  <2>1. CASE AllocateReturn(w)
    <3>1. /\ Len(tables[w]) = NBlocks(prompt[w]) /\ pc' = [pc EXCEPT ![w] = "held"]
          /\ UNCHANGED <<tables, prompt, dropped>>
      BY <2>1 DEF AllocateReturn
    <3>2. Len(tables[w]) \in Nat
      BY <1>1, <1>3
    <3> QED
      BY <1>1, <1>3, <2>0, <3>1, <3>2
  <2>2. CASE HitBlock(w) \/ MissBlock(w) \/ TailBlock(w)
    <3>1. /\ UNCHANGED <<pc, prompt, dropped>> /\ pc[w] = "alloc"
          /\ Len(tables'[w]) = Len(tables[w]) + 1
          /\ Len(tables[w]) < NBlocks(prompt[w])
          /\ \A u \in Seqs \ {w} : tables'[u] = tables[u]
      BY <1>1, <1>3, <2>2, AllocationAdds
    <3>2. Len(tables[w]) \in Nat /\ NBlocks(req[w].prompt) \in Nat
      BY <1>1, <1>3, PromptBlocksFit
    <3>3. Len(tables'[w]) <= NBlocks(req[w].prompt)
      BY <2>0, <3>1, <3>2
    <3> QED
      BY <3>1, <3>3
  <2> QED
    BY <1>4, <1>5, <1>6, <2>1, <2>2
<1>8. Owners'
  <2>1. \A u \in Seqs : pc'[u] # "out" => u \in Range(running) \/ u = w
    BY <1>0, <1>2, <1>7 DEF Owners, w
  <2>2. \A u \in Range(running) : pc'[u] = "held"
    BY <1>0, <1>1, <1>2, <1>3, <1>7 DEF Owners
  <2>3. prompt'[w] = req[w].prompt
    BY <1>0, <1>2, <1>7 DEF Owners, w
  <2> QED
    BY <1>2, <1>7, <2>1, <2>2, <2>3 DEF Owners, w
<1>9. Fitting'
  <2>1. \A u \in Range(running) : pc'[u] = pc[u] /\ tables'[u] = tables[u]
    BY <1>1, <1>3, <1>7
  <2> QED
    BY <1>0, <1>2, <2>1 DEF Fitting, Slots, total_len, prompt_tokens
<1>10. Lists' /\ Tokens' /\ Untroubled'
  BY <1>0, <1>2, <1>7 DEF Lists, PrefillSeqs, Tokens, Untroubled
<1> QED
  BY <1>8, <1>9, <1>10

\* It joins the batch with the blocks of its prompt.
LEMMA AdmitRunningRoomy ==
  ASSUME EngineInv, EngineInv', Roomy, AdmitRunning
  PROVE  Roomy'
<1> DEFINE w == Head(waiting)
           remaining == prompt_tokens(w) - CachedTokens(w)
           chunk == IF cfg.enable_chunked_prefill
                    THEN ChunkOf(remaining, token_budget) ELSE remaining
<1> USE DEF Roomy
<1>0. /\ SchedInv /\ waiting \in Seq(Seqs) /\ running \in Seq(Seqs) /\ pending \in Seq(Seqs)
      /\ tables \in [Seqs -> Seq(Block)] /\ generated \in [Seqs -> Nat]
      /\ req \in Workloads /\ Range(running) \subseteq Seqs
      /\ prefills \in Seq(ChunkRecord) /\ prefills' \in Seq(ChunkRecord)
  BY ContainsIsIn DEF EngineInv, SchedInv, Typed, KVInv, KVTypeOK, ChunkRecord
<1>1. /\ UNCHANGED <<kvVars, cfg, req, pending, swapped, finished, generated, decodes,
                     survivors>>
      /\ stage = "admitting" /\ stage' = "admit" /\ pc[w] = "held"
      /\ waiting' = Tail(waiting) /\ running' = Append(running, w)
      /\ \/ prefills' = prefills
         \/ prefills' = Append(prefills, [seq |-> w, chunk |-> chunk])
  BY DEF AdmitRunning, inputs
<1>2. /\ w \in Seqs /\ w \in Range(waiting) /\ w \notin Range(running)
      /\ Range(waiting) = Range(waiting') \cup {w}
  BY <1>0, <1>1, TailOfQueue DEF SchedInv, Placed, Coupled
<1>3. Range(running') = Range(running) \cup {w}
  <2> HIDE DEF w
  <2> QED
    BY <1>0, <1>1, <1>2, AppendToQueue
<1>4. PrefillSeqs' \subseteq PrefillSeqs \cup {w}
  <2>1. CASE prefills' = prefills
    BY <2>1 DEF PrefillSeqs
  <2>2. CASE prefills' = Append(prefills, [seq |-> w, chunk |-> chunk])
    <3> HIDE DEF w, chunk
    <3>1. /\ DOMAIN prefills' = 1..(Len(prefills) + 1) /\ DOMAIN prefills = 1..Len(prefills)
          /\ \A i \in 1..Len(prefills) : prefills'[i] = prefills[i]
          /\ prefills'[Len(prefills) + 1].seq = w /\ Len(prefills) \in Nat
      BY <1>0, <2>2
    <3> QED
      BY <3>1 DEF PrefillSeqs
  <2> QED
    BY <1>1, <2>1, <2>2
<1> HIDE DEF w, chunk, remaining
<1>5. generated[w] = 0 /\ req[w].output_tokens \in Nat \ {0}
  BY <1>0, <1>2, RequestFacts DEF Tokens
<1>6. Owners'
  <2>1. \A s \in Seqs : pc[s] # "out" => s \in Range(running')
    BY <1>1, <1>3 DEF Owners, w
  <2>2. \A s \in Range(running') : pc[s] = "held"
    BY <1>1, <1>3 DEF Owners
  <2> QED
    BY <1>1, <2>1, <2>2 DEF Owners, kvVars
<1>7. Fitting'
  <2> SUFFICES ASSUME NEW s \in Range(running'), pc[s] = "held"
               PROVE  /\ Len(tables[s]) >= NBlocks(req[s].prompt)
                      /\ (Len(tables[s]) - 1) * BlockSize < Slots(s)'
    BY <1>1 DEF Fitting, kvVars
  <2>1. Slots(s)' = prompt_tokens(s) + generated[s] + 0
    BY <1>1 DEF Slots, total_len, prompt_tokens
  <2>2. s \in Seqs /\ prompt_tokens(s) \in Nat /\ generated[s] \in Nat
    BY <1>0, <1>2, <1>3, RequestFacts
  <2>3. CASE s = w
    <3>1. Len(tables[w]) = NBlocks(req[w].prompt)
      BY <1>1 DEF Owners, w
    <3>2. /\ NBlocks(req[w].prompt) \in Nat
          /\ (NBlocks(req[w].prompt) - 1) * BlockSize < prompt_tokens(w) + 0
      BY <1>0, <1>2, PromptBlocksFit
    <3> QED
      BY <1>5, <2>1, <2>2, <2>3, <3>1, <3>2
  <2>4. CASE s # w
    <3>1. s \in Range(running)
      BY <1>3, <2>4
    <3>2. Slots(s) = prompt_tokens(s) + generated[s] + 0
      BY <1>1 DEF Slots, total_len
    <3> QED
      BY <2>1, <3>1, <3>2 DEF Fitting
  <2> QED
    BY <2>3, <2>4
<1>8. Lists'
  BY <1>1, <1>3, <1>4 DEF Lists
<1>9. Tokens'
  <2>1. \A s \in Range(waiting') \cup Range(pending') : generated'[s] = 0
    BY <1>1, <1>2 DEF Tokens
  <2>2. \A s \in Range(running') : generated'[s] < req'[s].output_tokens
    BY <1>1, <1>3, <1>5 DEF Tokens
  <2> QED
    BY <2>1, <2>2 DEF Tokens
<1>10. Untroubled'
  BY <1>1 DEF Untroubled, kvVars
<1> QED
  BY <1>6, <1>7, <1>8, <1>9, <1>10

\* append_token makes the table longer at a block boundary only.
LEMMA AppendLengths ==
  ASSUME KVInv, KVInv', NEW s \in Seqs, NEW n \in Nat, append_token(s, n), pc[s] = "held"
  PROVE  /\ UNCHANGED <<pc, prompt, dropped>>
         /\ \A u \in Seqs \ {s} : tables'[u] = tables[u]
         /\ \/ Len(tables'[s]) = Len(tables[s])
            \/ Len(tables'[s]) = Len(tables[s]) + 1 /\ n % BlockSize = 0
<1>0. /\ tables \in [Seqs -> Seq(Block)] /\ tables' \in [Seqs -> Seq(Block)]
      /\ pc \in [Seqs -> {"out", "alloc", "held", "free"}]
  BY DEF KVInv, KVTypeOK
<1> DEFINE l == tables[s]
<1>1. l \in Seq(Block)
  BY <1>0
<1>2. CASE GrowTable(s, n)
  <2>1. PICK x : tables' = [tables EXCEPT ![s] = Append(@, x)]
    BY <1>2 DEF GrowTable
  <2>2. tables'[s] = Append(l, x) /\ \A u \in Seqs \ {s} : tables'[u] = tables[u]
    BY <1>0, <2>1
  <2>3. pc' = [pc EXCEPT ![s] = "held"] /\ UNCHANGED <<prompt, dropped>> /\ n % BlockSize = 0
    BY <1>2 DEF GrowTable, offset
  <2>4. pc' = pc
    BY <1>0, <2>3
  <2> HIDE DEF l
  <2>5. Len(Append(l, x)) = Len(l) + 1
    BY <1>1
  <2> QED
    BY <2>2, <2>3, <2>4, <2>5 DEF l
<1>3. CASE WriteTail(s, n)
  BY <1>3 DEF WriteTail
<1>4. CASE CopyOnWrite(s, n)
  <2>1. PICK x : tables' = [tables EXCEPT ![s][Len(tables[s])] = x]
    BY <1>4 DEF CopyOnWrite
  <2>2. tables'[s] = [l EXCEPT ![Len(l)] = x] /\ \A u \in Seqs \ {s} : tables'[u] = tables[u]
    BY <1>0, <2>1
  <2>3. tables'[s] \in Seq(Block) /\ DOMAIN tables'[s] = DOMAIN l
    BY <1>0, <2>2
  <2> HIDE DEF l
  <2>4. Len(tables'[s]) = Len(l)
    BY <1>1, <2>3
  <2> QED
    BY <1>4, <2>2, <2>4 DEF CopyOnWrite, l
<1> QED
  BY <1>2, <1>3, <1>4 DEF append_token

\* A table that falls short of a multiple of the block size, falls short by a
\* block, and has room for one more.
LEMMA BoundaryFits ==
  ASSUME NEW k \in Nat, NEW n \in Nat, (k - 1) * BlockSize < n, n % BlockSize = 0
  PROVE  k * BlockSize < n + 1
<1>0. BlockSize \in Nat \ {0}
  BY KVAssumption
<1> DEFINE q == n \div BlockSize
<1>1. q \in Nat /\ n = q * BlockSize
  BY <1>0
<1> HIDE DEF q
<1>2. k <= q
  <2> SUFFICES ASSUME q + 1 <= k PROVE FALSE
    BY <1>1
  <2>1. q <= k - 1 /\ k - 1 \in Nat
    BY <1>1
  <2>2. q * BlockSize <= (k - 1) * BlockSize /\ (k - 1) * BlockSize \in Nat
    BY <1>0, <1>1, <2>1, TimesKeepsOrder
  <2> QED
    BY <1>1, <2>2
<1>3. k * BlockSize <= q * BlockSize /\ k * BlockSize \in Nat
  BY <1>0, <1>1, <1>2, TimesKeepsOrder
<1> QED
  BY <1>1, <1>3

\* A decoding sequence gets its slot.
LEMMA GrowOneRoomy ==
  ASSUME EngineInv, EngineInv', Roomy, GrowOne
  PROVE  Roomy'
<1> DEFINE v == Head(decodes)
           n == total_len(v)
<1> USE DEF Roomy
<1>0. /\ SchedInv /\ KVInv /\ KVInv' /\ running \in Seq(Seqs) /\ decodes \in Seq(Seqs)
      /\ survivors \in Seq(Seqs)
      /\ tables \in [Seqs -> Seq(Block)] /\ tables' \in [Seqs -> Seq(Block)]
      /\ generated \in [Seqs -> Nat] /\ req \in Workloads /\ Range(running) \subseteq Seqs
  BY ContainsIsIn DEF EngineInv, SchedInv, Typed, KVInv, KVTypeOK
<1>1. /\ UNCHANGED <<cfg, req, pending, waiting, running, swapped, finished, generated,
                     prefills>>
      /\ stage = "grow" /\ stage' = "grow" /\ decodes # <<>>
      /\ decodes' = Tail(decodes) /\ survivors' = Append(survivors, v)
      /\ append_token(v, n)
  BY DEF GrowOne, inputs, queues, seqVars
<1>2. /\ v \in Seqs /\ v \in Range(decodes) /\ Range(decodes) = Range(decodes') \cup {v}
      /\ v \notin Range(decodes') /\ IsInjective(decodes')
      /\ Range(survivors') = Range(survivors) \cup {v}
  <2>1. /\ v \in Seqs /\ v \in Range(decodes) /\ Range(decodes) = Range(decodes') \cup {v}
        /\ v \notin Range(decodes') /\ IsInjective(decodes')
    BY <1>0, <1>1, TailOfQueue DEF Lists
  <2> HIDE DEF v
  <2> QED
    BY <1>0, <1>1, <2>1, AppendToQueue
<1>3. v \in Range(running) /\ pc[v] = "held" /\ v \notin Range(survivors)
  BY <1>1, <1>2 DEF Lists, Owners
<1>4. n \in Nat
  BY <1>0, <1>2, TotalLenFits, KVAssumption DEF SchedInv
<1> HIDE DEF v, n
<1>5. /\ UNCHANGED <<pc, prompt, dropped>>
      /\ \A u \in Seqs \ {v} : tables'[u] = tables[u]
      /\ \/ Len(tables'[v]) = Len(tables[v])
         \/ Len(tables'[v]) = Len(tables[v]) + 1 /\ n % BlockSize = 0
  BY <1>0, <1>1, <1>2, <1>3, <1>4, AppendLengths
<1>6. Owners'
  BY <1>1, <1>5 DEF Owners
<1>7. Fitting'
  <2> SUFFICES ASSUME NEW s \in Range(running), pc[s] = "held"
               PROVE  /\ Len(tables'[s]) >= NBlocks(req[s].prompt)
                      /\ (Len(tables'[s]) - 1) * BlockSize < Slots(s)'
    BY <1>1, <1>5 DEF Fitting
  <2>1. /\ Len(tables[s]) >= NBlocks(req[s].prompt)
        /\ (Len(tables[s]) - 1) * BlockSize < Slots(s)
    BY DEF Fitting
  <2>2. s \in Seqs /\ total_len(s) \in Nat /\ total_len(s)' = total_len(s)
    BY <1>0, <1>1, TotalLenFits, KVAssumption DEF SchedInv, total_len, prompt_tokens
  <2>3. CASE s = v
    <3> DEFINE k == Len(tables[v])
               m == Len(tables'[v])
    <3>1. Slots(s) = n /\ Slots(s)' = n + 1
      BY <1>1, <1>2, <1>3, <1>4, <2>2, <2>3 DEF Slots, n
    <3>2. /\ k \in Nat /\ m \in Nat /\ NBlocks(req[v].prompt) \in Nat
          /\ NBlocks(req[v].prompt) <= k
          /\ m = k \/ (m = k + 1 /\ n % BlockSize = 0)
      BY <1>0, <1>2, <1>5, <2>1, <2>3, PromptBlocksFit
    <3>3. (k - 1) * BlockSize < n
      BY <2>1, <2>3, <3>1
    <3> HIDE DEF k, m
    <3>4. (k - 1) * BlockSize \in Int
      BY <3>2, KVAssumption
    <3>5. (m - 1) * BlockSize < n + 1
      <4>1. CASE m = k
        BY <1>4, <3>3, <3>4, <4>1
      <4>2. CASE m = k + 1 /\ n % BlockSize = 0
        <5>1. k * BlockSize < n + 1
          BY <1>4, <3>2, <3>3, <4>2, BoundaryFits
        <5>2. m - 1 = k
          BY <3>2, <4>2
        <5> QED
          BY <5>1, <5>2
      <4> QED
        BY <3>2, <4>1, <4>2
    <3>6. m >= NBlocks(req[v].prompt)
      BY <3>2
    <3> QED
      BY <2>3, <3>1, <3>5, <3>6 DEF m
  <2>4. CASE s # v
    <3>1. tables'[s] = tables[s]
      BY <1>5, <2>2, <2>4
    <3>2. Slots(s)' = Slots(s)
      BY <1>1, <1>2, <2>2, <2>4 DEF Slots
    <3> QED
      BY <2>1, <3>1, <3>2
  <2> QED
    BY <2>3, <2>4
<1>8. Lists'
  BY <1>1, <1>2, <1>3 DEF Lists, PrefillSeqs
<1>9. Tokens' /\ Untroubled'
  BY <1>1, <1>5 DEF Tokens, Untroubled
<1> QED
  BY <1>6, <1>7, <1>8, <1>9

-----------------------------------------------------------------------------
\* The configuration and the requests never change.
LEMMA InputsStay ==
  ASSUME [Next]_vars
  PROVE  UNCHANGED <<cfg, req>>
<1> USE DEF inputs
<1>1. CASE BeginStep \/ AdmitAllocate \/ AllocStep \/ AdmitRunning \/ EndAdmit
  BY <1>1 DEF BeginStep, AdmitAllocate, AllocStep, AdmitRunning, EndAdmit
<1>2. CASE RestoreAllocate \/ RestoreRunning \/ RestoreCrash \/ EndRestore
  BY <1>2 DEF RestoreAllocate, RestoreRunning, RestoreCrash, EndRestore
<1>3. CASE \/ GrowOne \/ GrowCrash \/ PreemptFree \/ FreeStep \/ Preempt \/ EndGrow
  BY <1>3 DEF GrowOne, GrowCrash, PreemptFree, FreeStep, Preempt, EndGrow, engineVars
<1>4. CASE Apply \/ FinishFree \/ Finish \/ EndStep
  BY <1>4 DEF Apply, FinishFree, Finish, EndStep
<1>5. CASE Terminated \/ UNCHANGED vars
  BY <1>5 DEF Terminated, vars, engineVars
<1> QED
  BY <1>1, <1>2, <1>3, <1>4, <1>5 DEF Next, Step

\* The pool never comes to cover a batch it did not cover: what it has lost it
\* does not get back.
LEMMA CoverOnlyShrinks ==
  ASSUME KVInv, req \in Workloads, cfg \in Configs, UNCHANGED <<cfg, req>>,
         [KVNext]_kvVars, PoolCoversBatch'
  PROVE  PoolCoversBatch
<1>1. Stranded \subseteq Stranded'
  BY StepKeepsPool
<1>2. Stranded' \subseteq Block
  BY DEF Stranded
<1>3. /\ Cardinality(Stranded) <= Cardinality(Stranded')
      /\ Cardinality(Stranded) \in Nat /\ Cardinality(Stranded') \in Nat
  <2>1. IsFiniteSet(Stranded')
    BY <1>2, PoolFacts, FS_Subset
  <2> QED
    BY <1>1, <2>1, FS_Subset, FS_CardinalityType, PoolFacts
<1>4. SUFFICES ASSUME NEW s \in Seqs
               PROVE  BatchNeeds(s) + watermark_blocks + Cardinality(Stranded) <= NumBlocks
  BY DEF PoolCoversBatch
<1>5. BatchNeeds(s) + watermark_blocks + Cardinality(Stranded') <= NumBlocks
  <2>1. BatchNeeds(s)' = BatchNeeds(s)
    BY DEF BatchNeeds, prompt_tokens
  <2> QED
    BY <2>1 DEF PoolCoversBatch
<1>6. BatchNeeds(s) \in Int
  <2>1. cfg.max_num_seqs \in Nat /\ Need(s) \in Nat
    BY ConfigFacts, NeedType
  <2> QED
    BY <2>1 DEF BatchNeeds, Need
<1> QED
  BY <1>3, <1>5, <1>6, PoolFacts, KVAssumption

\* Every step of the engine keeps the room.
LEMMA RoomStepKeeps ==
  ASSUME RoomInv, [Next]_vars
  PROVE  RoomInv'
<1>0. EngineInv /\ LruCovers /\ KVInv /\ SchedInv /\ Typed /\ Counted
  BY DEF RoomInv, EngineInv, SchedInv
<1>1. EngineInv' /\ KVInv'
  BY <1>0, EngineStepKeeps DEF EngineInv
<1>2. [KVNext]_kvVars
  BY <1>0, StepUsesKV
<1>3. LruCovers'
  BY <1>0, <1>2, StepKeepsPool
<1>4. ASSUME PoolCoversBatch'
      PROVE  Roomy'
  <2>1. PoolCoversBatch
    BY <1>0, <1>2, <1>4, InputsStay, CoverOnlyShrinks DEF Typed
  <2>2. Roomy
    BY <2>1 DEF RoomInv
  <2>3. swapped = <<>> /\ stage \notin {"restoring", "preempt", "crashed"}
    BY <2>2 DEF Roomy, Untroubled
  <2>4. CASE BeginStep
    BY <1>0, <2>2, <2>4, BeginStepRoomy
  <2>5. CASE AdmitAllocate
    BY <1>0, <2>2, <2>5, AdmitAllocateRoomy
  <2>6. CASE AllocStep
    BY <1>1, <2>1, <2>6, AllocStepRoomy
  <2>7. CASE AdmitRunning
    BY <1>0, <1>1, <2>2, <2>7, AdmitRunningRoomy
  <2>8. CASE EndAdmit \/ EndRestore \/ EndGrow \/ EndStep
    BY <1>0, <2>2, <2>8, StageStepsRoomy
  <2>9. ~(RestoreAllocate \/ RestoreRunning \/ RestoreCrash \/ Preempt)
    BY <2>3 DEF RestoreAllocate, RestoreNext, RestoreRunning, RestoreCrash, Preempt
  <2>10. CASE GrowOne
    BY <1>0, <1>1, <2>2, <2>10, GrowOneRoomy
  <2>11. ~GrowCrash
    <3> SUFFICES ASSUME GrowCrash PROVE FALSE
      OBVIOUS
    <3> DEFINE v == Head(decodes)
    <3>1. stage = "grow" /\ decodes # <<>> /\ tables[v] = <<>>
      BY DEF GrowCrash
    <3>2. v \in Range(decodes) /\ v \in Seqs
      BY <1>0, <3>1, TailOfQueue DEF Typed
    <3>3. v \in Range(running) /\ pc[v] = "held"
      BY <2>2, <3>1, <3>2 DEF Roomy, Lists, Owners
    <3>4. Len(tables[v]) >= NBlocks(req[v].prompt) /\ NBlocks(req[v].prompt) \in Nat \ {0}
      BY <1>0, <2>2, <3>2, <3>3, PromptBlocksFit DEF Roomy, Fitting, Typed
    <3> QED
      BY <3>1, <3>4
  <2>12. ~PreemptFree
    <3> SUFFICES ASSUME PreemptFree PROVE FALSE
      OBVIOUS
    <3>1. stage = "grow" /\ decodes # <<>> /\ TakeFreeBlock = {}
      BY DEF PreemptFree
    <3>2. Seqs # {}
      BY <1>0, <3>1, HeadIsSeq DEF Typed
    <3> QED
      BY <2>1, <3>1, <3>2, RoomToGrow
  <2>13. CASE FreeStep
    <3>1. stage = "finishing"
      BY <2>3, <2>13 DEF FreeStep
    <3> QED
      BY <1>0, <1>1, <2>2, <2>13, <3>1, FinishStepsRoomy
  <2>14. CASE Apply
    BY <1>0, <2>2, <2>14, ApplyRoomy
  <2>15. CASE FinishFree \/ Finish
    BY <1>0, <1>1, <2>2, <2>15, FinishStepsRoomy
  <2>16. CASE Terminated \/ UNCHANGED vars
    <3>1. /\ UNCHANGED <<pc, prompt, matching, tables, hits, dropped, ref_count, lru, cache, free_ids>>
          /\ UNCHANGED <<next, content_hash, n_tokens, req, cfg, stage>>
          /\ UNCHANGED <<pending, waiting, running, swapped, generated>>
          /\ UNCHANGED <<prefills, decodes, survivors>>
      BY <2>16 DEF Terminated, vars, engineVars, kvVars, inputs, queues, seqVars, stepVars
    <3>2. FinishNext' = FinishNext /\ PrefillSeqs' = PrefillSeqs
      BY <3>1 DEF FinishNext, PrefillSeqs, done
    <3>3. \A s \in Seqs : Slots(s)' = Slots(s)
      BY <3>1 DEF Slots, total_len, prompt_tokens
    <3>4. Owners' /\ Fitting'
      BY <2>2, <3>1, <3>2 DEF Roomy, Owners, Fitting, Slots, total_len, prompt_tokens
    <3>5. Lists' /\ Tokens' /\ Untroubled'
      BY <2>2, <3>1, <3>2 DEF Roomy, Lists, Tokens, Untroubled
    <3> QED
      BY <3>4, <3>5 DEF Roomy
  <2> QED
    BY <2>4, <2>5, <2>6, <2>7, <2>8, <2>9, <2>10, <2>11, <2>12, <2>13, <2>14, <2>15, <2>16
       DEF Next, Step
<1> QED
  BY <1>1, <1>3, <1>4 DEF RoomInv

\* A fresh engine holds nothing.
LEMMA RoomInit == Init => RoomInv
<1> SUFFICES ASSUME Init PROVE RoomInv
  OBVIOUS
<1>1. EngineInv
  BY EngineInitInv
<1>2. LruCovers
  BY PoolInit DEF Init
<1>3. /\ pc = [s \in Seqs |-> "out"] /\ running = <<>> /\ swapped = <<>> /\ waiting = <<>>
      /\ stage = "idle" /\ generated = [s \in Seqs |-> 0]
      /\ dropped = [x \in Block |-> 0] /\ pending \in Seq(Seqs)
  BY <1>1 DEF Init, KVInit, EngineInv, SchedInv, Typed
<1>4. Range(running) = {} /\ Range(waiting) = {} /\ Range(pending) \subseteq Seqs
  BY <1>3, ContainsIsIn, EmptyQueue
<1>5. Owners /\ Fitting /\ Lists /\ Tokens /\ Untroubled
  BY <1>3, <1>4 DEF Owners, Fitting, Lists, Tokens, Untroubled
<1> QED
  BY <1>1, <1>2, <1>5 DEF RoomInv, Roomy

\* With room, who owns blocks is running or being allocated to.
LEMMA OwnFromRoom == RoomInv => OnlyRunningOwn
<1> SUFFICES ASSUME RoomInv, stage = "idle", PoolCoversBatch
             PROVE  /\ \A s \in Seqs : pc[s] = "held" <=> Contains(running, s)
                    /\ \A i \in DOMAIN running :
                         Len(tables[running[i]]) >= NBlocks(req[running[i]].prompt)
  BY DEF OnlyRunningOwn
<1>1. Roomy /\ running \in Seq(Seqs)
  BY DEF RoomInv, EngineInv, SchedInv, Typed
<1>2. \A s \in Seqs : Contains(running, s) <=> s \in Range(running)
  BY <1>1, ContainsIsIn
<1>3. \A s \in Seqs : pc[s] = "held" <=> s \in Range(running)
  BY <1>1 DEF Roomy, Owners
<1>4. \A i \in DOMAIN running : running[i] \in Range(running) /\ running[i] \in Seqs
  BY <1>1 DEF Range
<1>5. \A s \in Range(running) : pc[s] = "held" => Len(tables[s]) >= NBlocks(req[s].prompt)
  BY <1>1 DEF Roomy, Fitting
<1> QED
  BY <1>2, <1>3, <1>4, <1>5

\* Every sequence is in one place, the batch is in its bounds, and on a pool
\* with room for a full batch only running sequences own blocks between steps,
\* each at least its prompt's.
THEOREM EngineKeepsPlaces == Spec => []PlacesAreSound
<1>1. RoomInv => PlacesAreSound
  BY TypeFromInv, OneQueueFromInv, BatchFromInv, OwnFromRoom DEF PlacesAreSound, RoomInv
<1> QED
  BY <1>1, RoomInit, RoomStepKeeps, PTL DEF Spec

\* On a pool that has room for a full batch the engine never preempts, to
\* recompute or to swap - every preemption passes through the stage of that name -
\* and so restores nothing; it never raises and loses no table.
THEOREM AmpleNeverTroubles ==
  Spec => [](PoolCoversBatch => /\ stage # "preempt" /\ stage # "restoring"
                               /\ swapped = <<>>
                               /\ NeverCrashes
                               /\ \A x \in Block : dropped[x] = 0)
<1>1. RoomInv => (PoolCoversBatch => /\ stage # "preempt" /\ stage # "restoring"
                                     /\ swapped = <<>>
                                     /\ NeverCrashes
                                     /\ \A x \in Block : dropped[x] = 0)
  BY DEF RoomInv, Roomy, Untroubled, NeverCrashes
<1> QED
  BY <1>1, RoomInit, RoomStepKeeps, PTL DEF Spec

-----------------------------------------------------------------------------
(***************************************************************************)
(* Without chunked prefill, a cache hit is a block whose KV is computed.   *)
(*                                                                         *)
(* A block is entered in the cache when it is allocated, and computed only *)
(* when its step is applied; in between, other prompts may hit it.  They   *)
(* can because nothing else runs first: a prefill takes the whole prompt,  *)
(* so every hashed block is computed, or awaited by a chunk of this step,  *)
(* or in the table still being built (HashedComputed) - unless a table was *)
(* lost half-way, which leaves its blocks in the cache for good.           *)
(***************************************************************************)
NChunks(s) == Len(req[s].prompt.chunks)

\* The full blocks of its prompt that a sequence's chunk has still to compute.
AwaitedBy(s) ==
  {tables[s][j] : j \in {i \in DOMAIN tables[s] : prefilled[s] < i * BlockSize /\ i <= NChunks(s)}}
Awaited == UNION {AwaitedBy(s) : s \in PrefillSeqs}
Certain == computed \cup Awaited

\* The sequence a table is being built for, and the one whose table is freed.
Being == CASE stage = "admitting" -> {Head(waiting)}
           [] stage = "restoring" -> {Head(swapped)}
           [] OTHER -> {}
Freed == CASE stage = "finishing" -> {Head(FinishNext)}
           [] stage = "preempt" -> {Victim(Head(decodes))}
           [] OTHER -> {}

\* The allocator runs on behalf of the stage's sequence only, and a running
\* sequence keeps its table until it is freed.
OneCall ==
  /\ \A s \in Seqs : /\ pc[s] = "alloc" => s \in Being
                     /\ pc[s] = "free" => s \in Freed
  /\ \A s \in Range(running) : pc[s] = "held" \/ s \in Freed

\* A chunk is all that is left of its prompt.
PlannedWhole ==
  /\ \A s \in Seqs : prefilled[s] <= prompt_tokens(s)
  /\ stage \in {"idle", "restore", "restoring", "grow", "preempt"} => prefills = <<>>
  /\ stage \in {"admit", "admitting", "apply"} =>
       \A i \in DOMAIN prefills :
         /\ prefills[i].seq \in Range(running)
         /\ prefilled[prefills[i].seq] + prefills[i].chunk = prompt_tokens(prefills[i].seq)
  /\ stage \in {"finish", "finishing"} =>
       \A s \in PrefillSeqs : prefilled[s] = prompt_tokens(s)

\* The allocation under way is of the prompt, and has hit blocks from its start.
HitsBounded(s) ==
  /\ prompt[s] = req[s].prompt
  /\ pc[s] = "held" => Len(tables[s]) = NBlocks(req[s].prompt)
  /\ hits[s] <= NChunks(s) /\ hits[s] <= Len(tables[s])
  /\ (pc[s] = "alloc" /\ matching /\ Len(tables[s]) <= NChunks(s)) => hits[s] = Len(tables[s])
Matched == \A s \in Being : pc[s] # "out" => HitsBounded(s)

WholeCalls == stage # "crashed" => OneCall /\ PlannedWhole /\ Matched

\* The prompt of s has its blocks, computed or about to be.
Prompted(s) ==
  /\ Len(tables[s]) >= NBlocks(req[s].prompt)
  /\ \A j \in 1..NChunks(s) : tables[s][j] \in Certain
RunningComputed == \A s \in Range(running) : pc[s] = "held" => Prompted(s)

\* So have the blocks hit so far by the allocation under way.
HitsComputed ==
  \A s \in Being : pc[s] # "out" => \A j \in 1..hits[s] : tables[s][j] \in Certain

\* And every block with a hash, but for those just taken from the pool.
HashedComputed ==
  \A x \in Block : Hashed(x) => x \in Certain \cup UNION {Range(tables[s]) : s \in Being}

BlocksComputed == RunningComputed /\ HitsComputed /\ HashedComputed
HeldComputed == (stage # "crashed" /\ LostPrefix = {}) => BlocksComputed

ComputedInv == ~cfg.enable_chunked_prefill => WholeCalls /\ HeldComputed

-----------------------------------------------------------------------------
\* How many full blocks a prompt has, and how many tokens those hold.
LEMMA PromptSizes ==
  ASSUME req \in Workloads, NEW s \in Seqs
  PROVE  /\ NChunks(s) \in Nat /\ NBlocks(req[s].prompt) \in Nat
         /\ NChunks(s) <= NBlocks(req[s].prompt)
         /\ prompt_tokens(s) \in Nat /\ BlockSize \in Nat \ {0}
         /\ \A j \in Nat : j <= NChunks(s) <=> j * BlockSize <= prompt_tokens(s)
<1> DEFINE p == req[s].prompt
           k == Len(p.chunks)
           r == p.rem
<1>1. /\ p \in Prompt /\ BlockSize \in Nat \ {0} /\ prompt_tokens(s) \in Nat
      /\ prompt_tokens(s) = k * BlockSize + r
  BY RequestFacts, KVAssumption DEF prompt_tokens, NTokens
<1>2. k \in Nat /\ r \in 0..(BlockSize - 1) /\ NBlocks(p) = k + (IF r > 0 THEN 1 ELSE 0)
  BY <1>1 DEF Prompt, NBlocks
<1>3. NChunks(s) = k
  BY DEF NChunks
<1> HIDE DEF p, k, r
<1>4. ASSUME NEW j \in Nat
      PROVE  j <= k <=> j * BlockSize <= prompt_tokens(s)
  <2>1. CASE j <= k
    <3>1. j * BlockSize <= k * BlockSize /\ j * BlockSize \in Nat /\ k * BlockSize \in Nat
      BY <1>1, <1>2, <2>1, TimesKeepsOrder
    <3> QED
      BY <1>1, <1>2, <2>1, <3>1
  <2>2. CASE k < j
    <3>1. (k + 1) * BlockSize <= j * BlockSize /\ j * BlockSize \in Nat
      BY <1>1, <1>2, <2>2, TimesKeepsOrder
    <3>2. (k + 1) * BlockSize = k * BlockSize + BlockSize /\ k * BlockSize \in Nat
      BY <1>1, <1>2
    <3> QED
      BY <1>1, <1>2, <2>2, <3>1, <3>2
  <2> QED
    BY <1>2, <2>1, <2>2
<1>5. NBlocks(p) \in Nat /\ k <= NBlocks(p)
  BY <1>2
<1> QED
  BY <1>1, <1>2, <1>3, <1>4, <1>5 DEF p

\* What is in a table of a call that is not free, the table owns.
LEMMA TableOwned ==
  ASSUME KVInv, NEW s \in Seqs, pc[s] # "free", NEW j \in 1..Len(tables[s])
  PROVE  /\ j \in Owned(s) /\ j \in DOMAIN tables[s]
         /\ tables[s][j] \in Block /\ tables[s][j] \in Range(tables[s])
         /\ \A t \in TakeFreeBlock : tables[s][j] # t.bid
<1>1. j \in Owned(s) /\ j \in DOMAIN tables[s] /\ tables[s][j] \in Block
  BY OwnedPositions DEF KVInv
<1>2. \A t \in TakeFreeBlock : tables[s][j] # t.bid
  BY <1>1, TakeFacts DEF Takes
<1> QED
  BY <1>1, <1>2 DEF Range

\* A block whose content was lost in the cache is so for ever.
LEMMA LostPrefixGrows ==
  ASSUME KVInv, [KVNext]_kvVars
  PROVE  LostPrefix \subseteq LostPrefix'
<1> SUFFICES ASSUME NEW x \in Block, dropped[x] > 0, content_hash[x] # NoHash
             PROVE  dropped'[x] > 0 /\ content_hash'[x] # NoHash
  BY DEF LostPrefix
<1>1. KVInv'
  BY NextInv
<1>2. /\ ref_count[x] > 0 /\ dropped \in [Block -> Nat] /\ content_hash \in [Block -> Hash]
      /\ ref_count \in [Block -> Nat]
  BY DroppedIsReferenced DEF KVInv, KVTypeOK
<1>3. \A t \in TakeFreeBlock : t.bid # x
  BY <1>2, TakeFacts DEF Takes
<1>4. CASE UNCHANGED kvVars
  BY <1>4 DEF kvVars
<1>5. ASSUME NEW s \in Seqs, Overwrite(s) \/ RaiseOutOfBlocks(s)
      PROVE  dropped'[x] > 0 /\ content_hash'[x] # NoHash
  <2>1. dropped' = [b \in Block |-> dropped[b] + (IF Contains(tables[s], b) THEN 1 ELSE 0)]
    BY <1>5 DEF Overwrite, RaiseOutOfBlocks, DropTable
  <2>2. content_hash' = content_hash
    BY <1>5 DEF Overwrite, RaiseOutOfBlocks, poolVars
  <2> QED
    BY <1>2, <2>1, <2>2
<1>6. ASSUME NEW s \in Seqs, Release(s)
      PROVE  dropped'[x] > 0 /\ content_hash'[x] # NoHash
  <2> DEFINE y == tables[s][next]
  <2>1. dropped' = dropped
    BY <1>6 DEF Release
  <2>2. ref_count'[x] > 0
    <3>1. Holders(x)' \subseteq Seqs
      BY DEF Holders
    <3>2. Cardinality(Holders(x)') \in Nat
      BY <3>1, KVAssumption, FS_Subset, FS_CardinalityType
    <3>3. ref_count'[x] = Cardinality(Holders(x)') + dropped'[x]
      BY <1>1 DEF KVInv, RefCountExact
    <3> QED
      BY <1>2, <2>1, <3>2, <3>3
  <2>3. /\ ref_count' = [ref_count EXCEPT ![y] = Released(y)]
        /\ \/ content_hash' = content_hash
           \/ content_hash' = [content_hash EXCEPT ![y] = NoHash] /\ Released(y) = 0
    BY <1>6 DEF Release, Released
  <2> HIDE DEF y
  <2> QED
    BY <1>2, <2>1, <2>2, <2>3
<1>7. ASSUME NEW s \in Seqs, HitBlock(s)
      PROVE  dropped'[x] > 0 /\ content_hash'[x] # NoHash
  BY <1>7 DEF HitBlock
<1>8. ASSUME NEW s \in Seqs, MissBlock(s)
      PROVE  dropped'[x] > 0 /\ content_hash'[x] # NoHash
  <2>1. PICK t \in TakeFreeBlock : content_hash' = [content_hash EXCEPT ![t.bid] = NextHash(s)]
    BY <1>8 DEF MissBlock
  <2>2. dropped' = dropped
    BY <1>8 DEF MissBlock
  <2> QED
    BY <1>2, <1>3, <2>1, <2>2
<1>9. ASSUME NEW s \in Seqs, NEW n, TailBlock(s) \/ GrowTable(s, n) \/ CopyOnWrite(s, n)
      PROVE  dropped'[x] > 0 /\ content_hash'[x] # NoHash
  <2>1. PICK t \in TakeFreeBlock : content_hash' = [content_hash EXCEPT ![t.bid] = NoHash]
    BY <1>9 DEF TailBlock, GrowTable, CopyOnWrite, TakeUnhashed
  <2>2. dropped' = dropped
    BY <1>9 DEF TailBlock, GrowTable, CopyOnWrite
  <2> QED
    BY <1>2, <1>3, <2>1, <2>2
<1>10. ASSUME NEW s \in Seqs, NEW n, NEW p,
              AllocatePrompt(s, p) \/ AllocateReturn(s) \/ WriteTail(s, n) \/ Free(s) \/ FreeReturn(s)
       PROVE  dropped'[x] > 0 /\ content_hash'[x] # NoHash
  BY <1>10 DEF AllocatePrompt, AllocateReturn, WriteTail, Free, FreeReturn, poolVars
<1> QED
  BY <1>4, <1>5, <1>6, <1>7, <1>8, <1>9, <1>10
     DEF KVNext, allocate_prompt, append_token, free


-----------------------------------------------------------------------------
\* What every step below starts from.
WholeInv ==
  EngineInv /\ ~cfg.enable_chunked_prefill /\ WholeCalls /\ HeldComputed

\* The types the steps below use.
LEMMA EngineTypes ==
  ASSUME EngineInv
  PROVE  /\ KVInv /\ SchedInv /\ Typed /\ req \in Workloads
         /\ waiting \in Seq(Seqs) /\ running \in Seq(Seqs) /\ swapped \in Seq(Seqs)
         /\ decodes \in Seq(Seqs) /\ Range(running) \subseteq Seqs
         /\ PrefillSeqs \subseteq Seqs
         /\ pc \in [Seqs -> {"out", "alloc", "held", "free"}]
         /\ tables \in [Seqs -> Seq(Block)] /\ content_hash \in [Block -> Hash]
         /\ prompt \in [Seqs -> Prompt] /\ hits \in [Seqs -> Nat]
         /\ prefilled \in [Seqs -> Nat] /\ computed \subseteq Block
<1>1. KVInv /\ SchedInv /\ Typed /\ KVTypeOK
  BY DEF EngineInv, SchedInv, KVInv
<1>2. Range(running) \subseteq Seqs
  BY <1>1, ContainsIsIn DEF Typed
<1>3. PrefillSeqs \subseteq Seqs
  <2>1. prefills \in Seq(ChunkRecord)
    BY <1>1 DEF Typed, ChunkRecord
  <2>2. \A i \in DOMAIN prefills : prefills[i] \in ChunkRecord
    BY <2>1
  <2> QED
    BY <2>2 DEF PrefillSeqs, ChunkRecord
<1> QED
  BY <1>1, <1>2, <1>3 DEF Typed, KVTypeOK

\* A step without chunks awaits nothing.
LEMMA NothingPlanned ==
  /\ prefills = <<>> => PrefillSeqs = {} /\ Awaited = {} /\ Certain = computed
  /\ prefills' = <<>> => PrefillSeqs' = {} /\ Awaited' = {} /\ Certain' = computed'
  BY DEF PrefillSeqs, Awaited, Certain

\* What a chunk has to compute stays what it is while its sequence keeps its table.
LEMMA AwaitedKept ==
  ASSUME req' = req, PrefillSeqs \subseteq PrefillSeqs',
         \A u \in PrefillSeqs : tables'[u] = tables[u] /\ prefilled'[u] = prefilled[u]
  PROVE  Awaited \subseteq Awaited'
<1>1. \A u \in PrefillSeqs : AwaitedBy(u)' = AwaitedBy(u)
  BY DEF AwaitedBy, NChunks
<1> QED
  BY <1>1 DEF Awaited

\* A whole prompt awaits nothing.
LEMMA WholeAwaitsNothing ==
  ASSUME req \in Workloads, PrefillSeqs \subseteq Seqs, tables \in [Seqs -> Seq(Block)],
         \A s \in PrefillSeqs : prefilled[s] = prompt_tokens(s)
  PROVE  Awaited = {}
<1>1. ASSUME NEW s \in PrefillSeqs, NEW i \in DOMAIN tables[s],
             prefilled[s] < i * BlockSize, i <= NChunks(s)
      PROVE  FALSE
  <2>1. i \in Nat /\ s \in Seqs
    BY <1>1
  <2>2. i * BlockSize <= prompt_tokens(s) /\ prompt_tokens(s) \in Nat /\ BlockSize \in Nat
    BY <1>1, <2>1, PromptSizes
  <2>3. i * BlockSize \in Nat
    BY <2>1, <2>2
  <2> QED
    BY <1>1, <2>2, <2>3
<1>2. \A s \in PrefillSeqs : AwaitedBy(s) = {}
  BY <1>1 DEF AwaitedBy
<1> QED
  BY <1>2 DEF Awaited

\* A step that gives nobody a block, and computes or plans what is awaited.
Quiet ==
  /\ \A s \in Range(running') : pc'[s] = "held" =>
       s \in Range(running) /\ pc[s] = "held" /\ tables'[s] = tables[s]
  /\ \A x \in Block : Hashed(x)' => Hashed(x)
  /\ Certain \subseteq Certain'
  /\ Being' = {} /\ \A s \in Being : tables[s] = <<>>

LEMMA QuietComputed ==
  ASSUME EngineInv, HeldComputed, stage # "crashed", req' = req,
         LostPrefix \subseteq LostPrefix', stage' # "crashed" => Quiet
  PROVE  HeldComputed' /\ (stage' # "crashed" => Matched')
<1>0. stage' # "crashed" => Matched'
  BY DEF Matched, Quiet
<1> SUFFICES ASSUME stage' # "crashed", LostPrefix' = {}
             PROVE  RunningComputed' /\ HitsComputed' /\ HashedComputed'
  BY <1>0 DEF HeldComputed, BlocksComputed
<1>1. RunningComputed /\ HashedComputed /\ Quiet
  BY DEF HeldComputed, BlocksComputed
<1> USE DEF Quiet
<1>2. RunningComputed'
  <2> SUFFICES ASSUME NEW s \in Range(running'), pc'[s] = "held"
               PROVE  Prompted(s)'
    BY DEF RunningComputed
  <2>1. Prompted(s) /\ tables'[s] = tables[s]
    BY <1>1 DEF RunningComputed
  <2> QED
    BY <1>1, <2>1 DEF Prompted, NChunks
<1>3. HitsComputed'
  BY <1>1 DEF HitsComputed
<1>4. HashedComputed'
  <2> SUFFICES ASSUME NEW x \in Block, Hashed(x)' PROVE x \in Certain'
    BY DEF HashedComputed
  <2>1. \A s \in Being : Range(tables[s]) = {}
    BY <1>1 DEF Range
  <2> QED
    BY <1>1, <2>1 DEF HashedComputed
<1> QED
  BY <1>2, <1>3, <1>4

\* step() opens with a decode list or the whole budget.
LEMMA BeginStepComputed ==
  ASSUME WholeInv, LostPrefix \subseteq LostPrefix', BeginStep
  PROVE  WholeCalls' /\ HeldComputed'
<1> USE DEF WholeInv
<1>1. /\ UNCHANGED <<cfg, req, running, prefilled, computed>> /\ UNCHANGED kvVars
      /\ stage = "idle" /\ stage' = "admit" /\ prefills' = <<>>
  BY DEF BeginStep, inputs, seqVars
<1>2. OneCall /\ PlannedWhole /\ prefills = <<>>
  BY <1>1 DEF WholeCalls, PlannedWhole
<1>3. Being = {} /\ Being' = {} /\ Freed = {} /\ Freed' = {}
  BY <1>1 DEF Being, Freed
<1>4. OneCall'
  BY <1>1, <1>2, <1>3 DEF OneCall, kvVars
<1>5. PlannedWhole'
  BY <1>1, <1>2, NothingPlanned DEF PlannedWhole, prompt_tokens
<1>6. Quiet
  BY <1>1, <1>2, <1>3, NothingPlanned DEF Quiet, kvVars, Hashed
<1> QED
  BY <1>1, <1>4, <1>5, <1>6, QuietComputed DEF WholeCalls

\* The moves from stage to stage that touch neither blocks nor the batch.
LEMMA StageMovesComputed ==
  ASSUME WholeInv, LostPrefix \subseteq LostPrefix',
         EndAdmit \/ EndRestore \/ EndGrow \/ EndStep \/ GrowCrash \/ RestoreCrash
  PROVE  WholeCalls' /\ HeldComputed'
<1> USE DEF WholeInv
<1>0. KVInv /\ req \in Workloads /\ PrefillSeqs \subseteq Seqs /\ waiting \in Seq(Seqs)
      /\ tables \in [Seqs -> Seq(Block)] /\ SchedInv /\ Range(running) \subseteq Seqs
  BY EngineTypes
<1>1. /\ UNCHANGED <<cfg, req, running, prefilled, computed>> /\ UNCHANGED kvVars
      /\ stage # "crashed"
  BY DEF EndAdmit, EndRestore, EndGrow, EndStep, GrowCrash, RestoreCrash, inputs, queues, seqVars,
         stepVars
<1>2. OneCall /\ PlannedWhole
  BY <1>1 DEF WholeCalls
<1>3. CASE GrowCrash \/ RestoreCrash
  <2>1. stage' = "crashed"
    BY <1>3 DEF GrowCrash, RestoreCrash
  <2> QED
    BY <2>1 DEF WholeCalls, HeldComputed
<1>4. CASE EndAdmit
  <2>1. /\ prefills' = prefills /\ stage \in {"admit", "admitting"}
        /\ \/ stage' = "apply"
           \/ stage' = "restore" /\ prefills = <<>>
        /\ stage = "admitting" => Idle /\ pc[Head(waiting)] = "out"
    BY <1>4 DEF EndAdmit, stepVars
  <2>2. Being' = {} /\ Freed = {} /\ Freed' = {}
    BY <2>1 DEF Being, Freed
  <2>3. \A s \in Seqs : pc[s] # "alloc"
    BY <1>2, <2>1 DEF OneCall, Being, Idle
  <2>4. OneCall'
    BY <1>1, <1>2, <2>2, <2>3 DEF OneCall, kvVars
  <2>5. PlannedWhole'
    BY <1>1, <1>2, <2>1 DEF PlannedWhole, prompt_tokens
  <2>6. \A s \in Being : tables[s] = <<>>
    <3>1. CASE stage = "admit"
      BY <3>1 DEF Being
    <3>2. CASE stage = "admitting"
      <4>1. Head(waiting) \in Seqs /\ Being = {Head(waiting)}
        BY <1>0, <3>2, HeadIsSeq DEF SchedInv, Coupled, Being
      <4> QED
        BY <1>0, <2>1, <3>2, <4>1, OutHasNoTable
    <3> QED
      BY <2>1, <3>1, <3>2
  <2>7. Certain \subseteq Certain'
    BY <1>1, <2>1, AwaitedKept DEF Certain, PrefillSeqs, kvVars
  <2>8. Quiet
    BY <1>1, <2>2, <2>6, <2>7 DEF Quiet, kvVars, Hashed
  <2> QED
    BY <1>1, <2>4, <2>5, <2>8, QuietComputed DEF WholeCalls
<1>5. CASE EndRestore \/ EndGrow \/ EndStep
  <2>1. /\ \/ stage \in {"restore", "grow"} /\ prefills' = prefills
           \/ stage = "finish" /\ prefills' = <<>>
        /\ stage' \in {"grow", "idle", "apply"}
    BY <1>5 DEF EndRestore, EndGrow, EndStep, stepVars
  <2>2. Being = {} /\ Being' = {} /\ Freed = {} /\ Freed' = {}
    BY <2>1 DEF Being, Freed
  <2>3. OneCall'
    BY <1>1, <1>2, <2>2 DEF OneCall, kvVars
  <2>4. prefills' = <<>> /\ Awaited = {}
    <3>1. CASE stage = "finish"
      BY <1>0, <1>2, <2>1, <3>1, WholeAwaitsNothing DEF PlannedWhole
    <3>2. CASE stage # "finish"
      BY <1>2, <2>1, <3>2, NothingPlanned DEF PlannedWhole
    <3> QED
      BY <3>1, <3>2
  <2>5. PlannedWhole'
    BY <1>1, <1>2, <2>4, NothingPlanned DEF PlannedWhole, prompt_tokens
  <2>6. Certain \subseteq Certain'
    BY <1>1, <2>4 DEF Certain
  <2>7. Quiet
    BY <1>1, <2>2, <2>6 DEF Quiet, kvVars, Hashed
  <2> QED
    BY <1>1, <2>3, <2>5, <2>7, QuietComputed DEF WholeCalls
<1> QED
  BY <1>3, <1>4, <1>5


\* The results of a step: what its chunks awaited is computed now.
LEMMA ApplyComputed ==
  ASSUME WholeInv, LostPrefix \subseteq LostPrefix', Apply
  PROVE  WholeCalls' /\ HeldComputed'
<1> USE DEF WholeInv
<1>0. /\ Typed /\ req \in Workloads /\ PrefillSeqs \subseteq Seqs
      /\ tables \in [Seqs -> Seq(Block)] /\ prefilled \in [Seqs -> Nat]
  BY EngineTypes
<1>1. /\ UNCHANGED <<cfg, req, running, prefills>> /\ UNCHANGED kvVars
      /\ stage = "apply" /\ stage' = "finish"
      /\ prefilled' = [s \in Seqs |-> prefilled[s] + PrefillChunk(s)]
      /\ computed' = computed \cup UNION {Filled(s) : s \in {t \in Seqs : PrefillChunk(t) > 0}}
  BY DEF Apply, inputs, queues, stepVars
<1>2. OneCall /\ PlannedWhole
  BY <1>1 DEF WholeCalls
<1>3. Being = {} /\ Being' = {} /\ Freed = {} /\ Freed' = {}
  BY <1>1 DEF Being, Freed
<1>4. OneCall'
  BY <1>1, <1>2, <1>3 DEF OneCall, kvVars
<1>5. ASSUME NEW s \in PrefillSeqs
      PROVE  PrefillChunk(s) > 0 /\ prefilled[s] + PrefillChunk(s) = prompt_tokens(s)
  <2> DEFINE j == CHOOSE i \in DOMAIN prefills : prefills[i].seq = s
  <2>1. \E i \in DOMAIN prefills : prefills[i].seq = s
    BY <1>5 DEF PrefillSeqs
  <2>2. j \in DOMAIN prefills /\ prefills[j].seq = s /\ PrefillChunk(s) = prefills[j].chunk
    BY <2>1 DEF PrefillChunk
  <2> HIDE DEF j
  <2>3. prefills \in Seq(ChunkRecord)
    BY <1>0 DEF Typed, ChunkRecord
  <2>4. prefills[j] \in ChunkRecord
    BY <2>2, <2>3
  <2>5. prefills[j].chunk \in Nat /\ prefills[j].chunk > 0
    BY <2>4 DEF ChunkRecord
  <2>6. prefilled[s] + prefills[j].chunk = prompt_tokens(s)
    BY <1>1, <1>2, <2>2 DEF PlannedWhole
  <2> QED
    BY <2>2, <2>5, <2>6
<1>6. ASSUME NEW s \in Seqs
      PROVE  /\ prefilled'[s] = prefilled[s] + PrefillChunk(s)
             /\ s \in PrefillSeqs => prefilled'[s] = prompt_tokens(s)
             /\ prefilled'[s] <= prompt_tokens(s)
  <2>1. prefilled'[s] = prefilled[s] + PrefillChunk(s)
    BY <1>1
  <2>2. CASE s \in PrefillSeqs
    BY <1>0, <1>5, <2>1, <2>2, PromptSizes
  <2>3. CASE s \notin PrefillSeqs
    <3>1. PrefillChunk(s) = 0
      BY <2>3 DEF PrefillChunk, PrefillSeqs
    <3>2. prefilled'[s] = prefilled[s]
      BY <1>0, <2>1, <3>1
    <3> QED
      BY <1>2, <2>1, <2>3, <3>2 DEF PlannedWhole
  <2> QED
    BY <2>2, <2>3
<1>7. PlannedWhole'
  <2>1. PrefillSeqs' = PrefillSeqs /\ \A s \in Seqs : prompt_tokens(s)' = prompt_tokens(s)
    BY <1>1 DEF PrefillSeqs, prompt_tokens
  <2> QED
    BY <1>0, <1>1, <1>6, <2>1 DEF PlannedWhole
<1>8. Certain \subseteq Certain'
  <2>1. SUFFICES ASSUME NEW s \in PrefillSeqs, NEW i \in DOMAIN tables[s],
                        prefilled[s] < i * BlockSize, i <= NChunks(s)
                 PROVE  tables[s][i] \in computed'
    BY <1>1 DEF Certain, Awaited, AwaitedBy
  <2>2. s \in Seqs /\ i \in Nat /\ PrefillChunk(s) > 0
    BY <1>0, <1>5
  <2>3. i * BlockSize <= prefilled[s] + PrefillChunk(s)
    BY <1>0, <1>5, <2>1, <2>2, PromptSizes
  <2>4. tables[s][i] \in Filled(s)
    BY <2>1, <2>3 DEF Filled
  <2> QED
    BY <1>1, <2>2, <2>4
<1>9. Quiet
  BY <1>1, <1>3, <1>8 DEF Quiet, kvVars, Hashed
<1> QED
  BY <1>1, <1>4, <1>7, <1>9, QuietComputed DEF WholeCalls

\* A call of free on behalf of a preemption or of a finished sequence.
LEMMA FreeingComputed ==
  ASSUME WholeInv, LostPrefix \subseteq LostPrefix', PreemptFree \/ FinishFree \/ FreeStep
  PROVE  WholeCalls' /\ HeldComputed'
<1> USE DEF WholeInv
<1>0. /\ Typed /\ SchedInv /\ req \in Workloads /\ PrefillSeqs \subseteq Seqs
      /\ Range(running) \subseteq Seqs /\ decodes \in Seq(Seqs)
      /\ pc \in [Seqs -> {"out", "alloc", "held", "free"}]
      /\ tables \in [Seqs -> Seq(Block)] /\ content_hash \in [Block -> Hash]
  BY EngineTypes
<1>1. /\ UNCHANGED <<cfg, req, running, decodes, generated, prefilled, prefills, computed>>
      /\ stage \in {"grow", "preempt", "finish", "finishing"}
      /\ stage' \in {"preempt", "finishing"}
      /\ stage' = "preempt" <=> stage \in {"grow", "preempt"}
  BY DEF PreemptFree, FinishFree, FreeStep, inputs, queues, seqVars, stepVars, engineVars
<1>2. OneCall /\ PlannedWhole
  BY <1>1 DEF WholeCalls
<1>3. /\ Being = {} /\ Being' = {}
      /\ Freed' = IF stage' = "preempt" THEN {Victim(Head(decodes))} ELSE {Head(FinishNext)}
      /\ Freed = IF stage \in {"grow", "finish"} THEN {} ELSE Freed'
  BY <1>1 DEF Being, Freed, Victim, FinishNext, done
<1>4. Awaited = {} /\ prefills = prefills'
  <2>1. CASE stage \in {"finish", "finishing"}
    BY <1>0, <1>1, <1>2, <2>1, WholeAwaitsNothing DEF PlannedWhole
  <2>2. CASE stage \in {"grow", "preempt"}
    BY <1>1, <1>2, <2>2, NothingPlanned DEF PlannedWhole
  <2> QED
    BY <1>1, <2>1, <2>2
<1>5. PlannedWhole'
  <2>1. PrefillSeqs' = PrefillSeqs /\ \A s \in Seqs : prompt_tokens(s)' = prompt_tokens(s)
    BY <1>1 DEF PrefillSeqs, prompt_tokens
  <2> QED
    BY <1>0, <1>1, <1>2, <2>1 DEF PlannedWhole
\* The sequence whose pc moves is the one being freed, and it holds no more.
<1>6. /\ OneCall'
      /\ \A s \in Seqs : pc'[s] = "held" => pc[s] = "held" /\ tables'[s] = tables[s]
      /\ \A x \in Block : Hashed(x)' => Hashed(x)
  <2>1. CASE FreeStep
    <3>1. PICK s \in Seqs : Release(s) \/ FreeReturn(s)
      BY <2>1 DEF FreeStep
    <3>2. Freed' = Freed /\ pc[s] = "free" /\ s \in Freed
      BY <1>2, <1>3, <2>1, <3>1 DEF FreeStep, Release, FreeReturn, OneCall
    <3>3. /\ \A u \in Seqs : u # s => pc'[u] = pc[u] /\ tables'[u] = tables[u]
          /\ pc'[s] \in {"free", "out"}
      BY <1>0, <3>1, <3>2 DEF Release, FreeReturn
    <3>4. \A x \in Block : Hashed(x)' => Hashed(x)
      <4>1. \/ content_hash' = content_hash
            \/ \E y : content_hash' = [content_hash EXCEPT ![y] = NoHash]
        BY <3>1 DEF Release, FreeReturn, poolVars
      <4> QED
        BY <1>0, <4>1 DEF Hashed
    <3>5. OneCall'
      BY <1>0, <1>1, <1>2, <1>3, <3>2, <3>3 DEF OneCall
    <3> QED
      BY <3>2, <3>3, <3>4, <3>5
  <2>2. ASSUME NEW v \in Seqs, Freed' = {v}, Freed = {},
               Free(v) \/ (pc[v] # "held" /\ UNCHANGED kvVars)
        PROVE  /\ OneCall'
               /\ \A s \in Seqs : pc'[s] = "held" => pc[s] = "held" /\ tables'[s] = tables[s]
               /\ \A x \in Block : Hashed(x)' => Hashed(x)
    <3>1. /\ tables' = tables /\ content_hash' = content_hash
          /\ pc' = [pc EXCEPT ![v] = "free"] \/ pc' = pc
      BY <2>2 DEF Free, poolVars, kvVars
    <3>2. OneCall'
      BY <1>0, <1>1, <1>2, <1>3, <2>2, <3>1 DEF OneCall
    <3> QED
      BY <1>0, <3>1, <3>2 DEF Hashed
  <2>3. CASE PreemptFree
    <3>1. Victim(Head(decodes)) \in Seqs
      BY <1>0, <2>3, HeadIsSeq, VictimIsSeq DEF PreemptFree
    <3>2. \/ Free(Victim(Head(decodes)))
          \/ pc[Victim(Head(decodes))] # "held" /\ UNCHANGED kvVars
      BY <2>3 DEF PreemptFree
    <3>3. Freed' = {Victim(Head(decodes))} /\ Freed = {}
      BY <1>1, <1>3, <2>3 DEF PreemptFree
    <3> QED
      BY <2>2, <3>1, <3>2, <3>3
  <2>4. CASE FinishFree
    <3>1. Head(FinishNext) \in Seqs /\ Free(Head(FinishNext))
      BY <1>0, <2>4, FinishNextFacts DEF FinishFree
    <3>2. Freed' = {Head(FinishNext)} /\ Freed = {}
      BY <1>1, <1>3, <2>4 DEF FinishFree
    <3> QED
      BY <2>2, <3>1, <3>2
  <2> QED
    BY <2>1, <2>3, <2>4
<1>7. Quiet
  <2>1. Certain \subseteq Certain'
    BY <1>1, <1>4 DEF Certain
  <2> QED
    BY <1>0, <1>1, <1>3, <1>6, <2>1 DEF Quiet
<1> QED
  BY <1>1, <1>5, <1>6, <1>7, QuietComputed DEF WholeCalls

\* The sequence that was freed leaves the batch.
LEMMA LeavingComputed ==
  ASSUME WholeInv, LostPrefix \subseteq LostPrefix', Preempt \/ Finish
  PROVE  WholeCalls' /\ HeldComputed'
<1> USE DEF WholeInv
<1> DEFINE v == IF stage = "preempt" THEN Victim(Head(decodes)) ELSE Head(FinishNext)
<1>0. /\ Typed /\ SchedInv /\ req \in Workloads /\ PrefillSeqs \subseteq Seqs
      /\ Range(running) \subseteq Seqs /\ decodes \in Seq(Seqs) /\ running \in Seq(Seqs)
      /\ pc \in [Seqs -> {"out", "alloc", "held", "free"}]
      /\ tables \in [Seqs -> Seq(Block)] /\ prefilled \in [Seqs -> Nat]
  BY EngineTypes
<1>1. /\ UNCHANGED <<cfg, req, prefills, computed>> /\ UNCHANGED kvVars
      /\ stage = "preempt" \/ stage = "finishing"
      /\ Idle
  BY DEF Preempt, Finish, inputs, seqVars, stepVars
<1>2. /\ stage' # "crashed" =>
           /\ running' = RemoveFirst(running, v) /\ v \in Range(running)
           /\ stage' = IF stage = "preempt" THEN "grow" ELSE "finish"
      /\ \/ prefilled' = prefilled
         \/ stage = "preempt" /\ prefilled' = [prefilled EXCEPT ![v] = 0]
  <2>1. CASE Preempt
    BY <1>0, <2>1, ContainsIsIn DEF Preempt
  <2>2. CASE Finish
    BY <1>0, <2>2, FinishNextFacts DEF Finish, SchedInv, Coupled, seqVars
  <2> QED
    BY <2>1, <2>2
<1>3. SUFFICES ASSUME stage' # "crashed" PROVE OneCall' /\ PlannedWhole' /\ Matched' /\ HeldComputed'
  BY DEF WholeCalls, HeldComputed
<1>4. OneCall /\ PlannedWhole
  BY <1>1 DEF WholeCalls
<1>5. Being = {} /\ Being' = {} /\ Freed = {v} /\ Freed' = {}
  BY <1>1, <1>2, <1>3 DEF Being, Freed
<1> HIDE DEF v
<1>6. Range(running) = Range(running') \cup {v} /\ v \notin Range(running')
  <2>1. IsInjective(running)
    BY <1>0, <1>1 DEF SchedInv, Placed
  <2>2. v \in Range(running) /\ running' = RemoveFirst(running, v)
    BY <1>2, <1>3
  <2> QED
    BY <1>0, <2>1, <2>2, RemoveFromQueue
<1>7. OneCall'
  BY <1>0, <1>1, <1>4, <1>5, <1>6 DEF OneCall, Idle, kvVars
<1>8. Awaited = {} /\ PlannedWhole'
  <2>1. /\ PrefillSeqs' = PrefillSeqs
        /\ \A s \in Seqs : prompt_tokens(s)' = prompt_tokens(s) /\ prompt_tokens(s) \in Nat
    BY <1>0, <1>1, RequestFacts DEF PrefillSeqs, prompt_tokens
  <2>2. ASSUME NEW s \in Seqs PROVE prefilled'[s] <= prompt_tokens(s)
    <3>1. prefilled[s] <= prompt_tokens(s) /\ prefilled[s] \in Nat
      BY <1>0, <1>4 DEF PlannedWhole
    <3>2. prefilled'[s] \in {prefilled[s], 0}
      BY <1>0, <1>2
    <3> QED
      BY <2>1, <3>1, <3>2
  <2>3. CASE stage = "preempt"
    BY <1>1, <1>2, <1>3, <1>4, <2>1, <2>2, <2>3, NothingPlanned DEF PlannedWhole
  <2>4. CASE stage = "finishing"
    <3>1. Awaited = {} /\ prefilled' = prefilled /\ stage' = "finish"
      BY <1>0, <1>2, <1>3, <1>4, <2>4, WholeAwaitsNothing DEF PlannedWhole
    <3> QED
      BY <1>0, <1>4, <2>1, <2>2, <2>4, <3>1 DEF PlannedWhole
  <2> QED
    BY <1>1, <2>3, <2>4
<1>9. Quiet
  <2>1. Certain \subseteq Certain'
    BY <1>1, <1>8 DEF Certain
  <2> QED
    BY <1>1, <1>5, <1>6, <2>1 DEF Quiet, kvVars, Hashed
<1> QED
  BY <1>1, <1>3, <1>7, <1>8, <1>9, QuietComputed


\* Blocks that are not just taken from the pool stay certain, and so do the
\* tables of the batch.
BatchKept(s, X) ==
  /\ Certain \ X \subseteq Certain'
  /\ \A u \in Seqs : pc[u] # "free" => Range(tables[u]) \cap X = {}
  /\ \A u \in Seqs \ {s} : pc[u] # "free" /\ Prompted(u) => Prompted(u)'
LEMMA BatchStays ==
  ASSUME EngineInv, UNCHANGED <<req, prefills, prefilled>>, NEW s \in Seqs, s \notin PrefillSeqs,
         \A u \in Seqs \ {s} : tables'[u] = tables[u],
         NEW X, X = {} \/ \E t \in TakeFreeBlock : X = {t.bid}, computed \ X \subseteq computed'
  PROVE  BatchKept(s, X)
<1>0. KVInv /\ PrefillSeqs \subseteq Seqs /\ req \in Workloads /\ tables \in [Seqs -> Seq(Block)]
  BY EngineTypes
<1>1. Certain \ X \subseteq Certain'
  <2>1. Awaited \subseteq Awaited'
    BY <1>0, AwaitedKept DEF PrefillSeqs
  <2> QED
    BY <2>1 DEF Certain
<1>2. ASSUME NEW u \in Seqs, pc[u] # "free", NEW j \in DOMAIN tables[u]
      PROVE  tables[u][j] \notin X
  <2>1. j \in 1..Len(tables[u])
    BY <1>0, <1>2
  <2> QED
    BY <1>0, <1>2, <2>1, TableOwned
<1>3. ASSUME NEW u \in Seqs \ {s}, pc[u] # "free", Prompted(u)
      PROVE  Prompted(u)'
  <2>1. /\ NChunks(u) \in Nat /\ NBlocks(req[u].prompt) \in Nat
        /\ NChunks(u) <= NBlocks(req[u].prompt) /\ Len(tables[u]) \in Nat
        /\ DOMAIN tables[u] = 1..Len(tables[u])
    BY <1>0, PromptSizes
  <2>2. tables'[u] = tables[u] /\ NChunks(u)' = NChunks(u)
    BY DEF NChunks
  <2>3. ASSUME NEW j \in 1..NChunks(u) PROVE tables[u][j] \in Certain'
    <3>1. j \in DOMAIN tables[u] /\ tables[u][j] \in Certain
      BY <1>3, <2>1 DEF Prompted
    <3> QED
      BY <1>1, <1>2, <1>3, <3>1
  <2> QED
    BY <1>3, <2>2, <2>3 DEF Prompted
<1> QED
  BY <1>1, <1>2, <1>3 DEF BatchKept, Range

\* _allocate, or a swap-in, starts: the table is lost, or a new one begun.
LEMMA StartComputed ==
  ASSUME WholeInv, LostPrefix \subseteq LostPrefix', AdmitAllocate \/ RestoreAllocate
  PROVE  WholeCalls' /\ HeldComputed'
<1> USE DEF WholeInv
<1>a. PICK s : s = IF stage = "admit" THEN Head(waiting) ELSE Head(swapped)
  OBVIOUS
<1>0. /\ KVInv /\ SchedInv /\ req \in Workloads /\ PrefillSeqs \subseteq Seqs
      /\ waiting \in Seq(Seqs) /\ swapped \in Seq(Seqs) /\ Range(running) \subseteq Seqs
      /\ pc \in [Seqs -> {"out", "alloc", "held", "free"}] /\ hits \in [Seqs -> Nat]
      /\ tables \in [Seqs -> Seq(Block)] /\ prompt \in [Seqs -> Prompt]
  BY EngineTypes
<1>1. /\ UNCHANGED <<cfg, req, running, waiting, swapped, prefilled, prefills, computed>>
      /\ stage \in {"admit", "restore"}
      /\ \/ Overwrite(s) /\ stage' = stage
         \/ AllocatePrompt(s, req[s].prompt)
            /\ stage' = IF stage = "admit" THEN "admitting" ELSE "restoring"
  BY <1>a DEF AdmitAllocate, RestoreAllocate, inputs, queues, seqVars, stepVars
<1>2. s \in Seqs /\ s \notin Range(running)
  <2>1. CASE AdmitAllocate
    BY <1>a, <1>0, <2>1, TailOfQueue DEF AdmitAllocate, AdmitNext, SchedInv, Placed
  <2>2. CASE RestoreAllocate
    BY <1>a, <1>0, <2>2, TailOfQueue DEF RestoreAllocate, RestoreNext, SchedInv, Placed
  <2> QED
    BY <2>1, <2>2
<1>3. OneCall /\ PlannedWhole /\ (LostPrefix = {} => RunningComputed /\ HashedComputed)
  BY <1>1 DEF WholeCalls, HeldComputed, BlocksComputed
<1>4. /\ Being = {} /\ Freed = {} /\ Freed' = {}
      /\ Being' = IF stage' = stage THEN {} ELSE {s}
  BY <1>a, <1>1 DEF Being, Freed
<1>5. PrefillSeqs \subseteq Range(running)
  BY <1>1, <1>3, NothingPlanned DEF PlannedWhole, PrefillSeqs
<1>6. PlannedWhole'
  BY <1>1, <1>3 DEF PlannedWhole, prompt_tokens
<1>7. \A u \in Seqs \ {s} : pc'[u] = pc[u] /\ tables'[u] = tables[u]
  BY <1>0, <1>1 DEF Overwrite, DropTable, AllocatePrompt
<1>8. UNCHANGED content_hash
  BY <1>1 DEF Overwrite, AllocatePrompt, poolVars
<1>9. CASE Overwrite(s) /\ stage' = stage
  <2>1. pc' = [pc EXCEPT ![s] = "out"]
    BY <1>9 DEF Overwrite, DropTable
  <2>2. OneCall'
    BY <1>0, <1>1, <1>2, <1>3, <1>4, <1>7, <1>9, <2>1 DEF OneCall
  <2>3. Certain \subseteq Certain'
    <3>1. BatchKept(s, {})
      BY <1>0, <1>1, <1>2, <1>5, <1>7, BatchStays
    <3> QED
      BY <3>1 DEF BatchKept
  <2>4. Quiet
    BY <1>0, <1>1, <1>2, <1>4, <1>7, <1>8, <1>9, <2>3 DEF Quiet, Hashed
  <2> QED
    BY <1>1, <1>6, <2>2, <2>4, QuietComputed DEF WholeCalls
<1>10. CASE AllocatePrompt(s, req[s].prompt) /\ stage' # stage
  <2>1. /\ pc'[s] = "alloc" /\ prompt'[s] = req[s].prompt /\ tables'[s] = <<>> /\ hits'[s] = 0
        /\ \A u \in Seqs \ {s} : pc'[u] = pc[u]
    BY <1>0, <1>2, <1>10 DEF AllocatePrompt
  <2>2. OneCall'
    BY <1>0, <1>1, <1>2, <1>3, <1>4, <1>10, <2>1 DEF OneCall
  <2>3. Matched'
    <3>1. NChunks(s)' = NChunks(s) /\ NChunks(s) \in Nat
      BY <1>0, <1>1, <1>2, PromptSizes DEF NChunks
    <3>2. HitsBounded(s)'
      BY <1>1, <2>1, <3>1 DEF HitsBounded
    <3> QED
      BY <1>4, <1>10, <3>2 DEF Matched
  <2>4. SUFFICES ASSUME LostPrefix' = {}
                 PROVE  RunningComputed' /\ HitsComputed' /\ HashedComputed'
    BY <1>6, <2>2, <2>3 DEF WholeCalls, HeldComputed, BlocksComputed
  <2>5. RunningComputed /\ HashedComputed
    BY <1>3, <2>4
  <2>6. /\ Certain \subseteq Certain'
        /\ \A u \in Seqs \ {s} : pc[u] # "free" /\ Prompted(u) => Prompted(u)'
    <3>1. BatchKept(s, {})
      BY <1>0, <1>1, <1>2, <1>5, <1>7, BatchStays
    <3> QED
      BY <3>1 DEF BatchKept
  <2>7. RunningComputed'
    BY <1>0, <1>1, <1>2, <1>7, <2>5, <2>6 DEF RunningComputed
  <2>8. HitsComputed'
    BY <1>4, <1>10, <2>1 DEF HitsComputed
  <2>9. HashedComputed'
    BY <1>4, <1>8, <2>5, <2>6 DEF HashedComputed, Hashed
  <2> QED
    BY <2>7, <2>9, <2>8
<1> QED
  BY <1>1, <1>9, <1>10


\* What every iteration of allocate_prompt finds: one sequence is being
\* allocated to, and it is outside the batch.
Building(s) ==
  /\ s \in Seqs /\ Being = {s} /\ Freed = {}
  /\ s \notin Range(running) /\ s \notin PrefillSeqs
  /\ \A u \in Range(running) : pc[u] = "held"
  /\ \A u \in Seqs \ {s} : pc[u] \notin {"alloc", "free"}

LEMMA BuildingFacts ==
  ASSUME WholeInv, stage \in {"admitting", "restoring"}
  PROVE  \E s \in Seqs : /\ Building(s)
                         /\ s = IF stage = "admitting" THEN Head(waiting) ELSE Head(swapped)
<1> USE DEF WholeInv
<1>0. /\ SchedInv /\ waiting \in Seq(Seqs) /\ swapped \in Seq(Seqs)
  BY EngineTypes
<1>a. PICK s : s = IF stage = "admitting" THEN Head(waiting) ELSE Head(swapped)
  OBVIOUS
<1>1. s \in Seqs /\ s \notin Range(running)
  <2>1. CASE stage = "admitting"
    BY <1>0, <1>a, <2>1, TailOfQueue DEF SchedInv, Coupled, Placed
  <2>2. CASE stage = "restoring"
    BY <1>0, <1>a, <2>2, TailOfQueue DEF SchedInv, Coupled, Placed
  <2> QED
    BY <2>1, <2>2
<1>2. OneCall /\ PlannedWhole /\ Being = {s} /\ Freed = {}
  BY <1>a DEF WholeCalls, Being, Freed
<1>3. PrefillSeqs \subseteq Range(running)
  BY <1>2, NothingPlanned DEF PlannedWhole, PrefillSeqs
<1> QED
  BY <1>a, <1>1, <1>2, <1>3 DEF Building, OneCall

\* A new block in the table: taken from the pool, with nothing computed in it.
LEMMA TakingComputed ==
  ASSUME WholeInv, stage \in {"admitting", "restoring"}, stage' = stage,
         NEW s \in Seqs, Building(s), Being' = {s}, pc[s] = "alloc", pc' = pc,
         UNCHANGED <<req, running, prefills, prefilled, prompt, hits>>,
         NEW t \in TakeFreeBlock, NEW h,
         tables' = [tables EXCEPT ![s] = Append(@, t.bid)],
         content_hash' = [content_hash EXCEPT ![t.bid] = h],
         computed' = computed \ {t.bid},
         matching' = FALSE \/ Len(tables[s]) = NFull(s), Matched
  PROVE  Matched' /\ (BlocksComputed => BlocksComputed')
<1>0. /\ KVInv /\ req \in Workloads /\ Range(running) \subseteq Seqs
      /\ tables \in [Seqs -> Seq(Block)] /\ content_hash \in [Block -> Hash]
      /\ prompt \in [Seqs -> Prompt] /\ hits \in [Seqs -> Nat]
  BY EngineTypes DEF WholeInv
<1> DEFINE x == t.bid
           l == tables[s]
<1>1. x \in Block /\ l \in Seq(Block)
  BY <1>0, TakeFacts DEF Takes
<1>2. tables'[s] = Append(l, x) /\ \A u \in Seqs \ {s} : tables'[u] = tables[u]
  BY <1>0
<1>3. /\ Certain \ {x} \subseteq Certain'
      /\ \A u \in Seqs : pc[u] # "free" => Range(tables[u]) \cap {x} = {}
      /\ \A u \in Seqs \ {s} : pc[u] # "free" /\ Prompted(u) => Prompted(u)'
  <2>1. EngineInv /\ s \notin PrefillSeqs /\ computed \ {x} \subseteq computed'
    BY DEF WholeInv, Building
  <2>2. UNCHANGED <<req, prefills, prefilled>> /\ \A u \in Seqs \ {s} : tables'[u] = tables[u]
    BY <1>2
  <2>3. BatchKept(s, {x})
    BY <2>1, <2>2, BatchStays
  <2> QED
    BY <2>3 DEF BatchKept
<1>4. /\ Len(tables'[s]) = Len(l) + 1 /\ Len(l) \in Nat /\ tables'[s][Len(l) + 1] = x
      /\ \A j \in 1..Len(l) : tables'[s][j] = l[j] /\ l[j] \in Range(l) \ {x}
      /\ Range(tables'[s]) = Range(l) \cup {x}
  <2>1. Range(l) \cap {x} = {}
    BY <1>3
  <2> HIDE DEF l, x
  <2>2. /\ Len(Append(l, x)) = Len(l) + 1 /\ Len(l) \in Nat /\ Append(l, x)[Len(l) + 1] = x
        /\ \A j \in 1..Len(l) : Append(l, x)[j] = l[j] /\ l[j] \in Range(l)
    BY <1>1 DEF Range
  <2>3. Range(Append(l, x)) = Range(l) \cup {x}
    BY <1>1, AppendToQueue
  <2> QED
    BY <1>2, <2>1, <2>2, <2>3
<1> HIDE DEF l, x
<1>5. HitsBounded(s) /\ hits[s] \in Nat /\ hits[s] <= Len(l)
  BY <1>0 DEF Matched, Building, HitsBounded, l
<1>6. Matched'
  <2>1. NChunks(s)' = NChunks(s) /\ NChunks(s) \in Nat /\ NFull(s) = NChunks(s)
    BY <1>0, <1>5, PromptSizes DEF NChunks, NFull, HitsBounded
  <2>2. ~matching' \/ Len(tables'[s]) > NChunks(s)
    BY <1>4, <2>1 DEF l
  <2>3. hits[s] <= Len(tables'[s])
    BY <1>4, <1>5
  <2>4. HitsBounded(s)'
    BY <1>4, <1>5, <2>1, <2>2, <2>3 DEF HitsBounded
  <2> QED
    BY <2>4 DEF Matched
<1>7. SUFFICES ASSUME BlocksComputed PROVE BlocksComputed'
  BY <1>6
<1>8. RunningComputed /\ HitsComputed /\ HashedComputed
  BY <1>7 DEF BlocksComputed
<1>9. RunningComputed'
  BY <1>0, <1>3, <1>8 DEF RunningComputed, Building
<1>10. HitsComputed'
  <2>1. \A j \in 1..hits[s] : l[j] \in Certain
    BY <1>8 DEF HitsComputed, Building, l
  <2>2. \A j \in 1..hits[s] : tables'[s][j] \in Certain'
    BY <1>3, <1>4, <1>5, <2>1
  <2> QED
    BY <2>2 DEF HitsComputed
<1>11. HashedComputed'
  <2> SUFFICES ASSUME NEW y \in Block, Hashed(y)'
               PROVE  y \in Certain' \cup Range(tables'[s])
    BY DEF HashedComputed
  <2>1. CASE y = x
    BY <1>4, <2>1
  <2>2. CASE y # x
    <3>1. Hashed(y)
      BY <1>0, <2>2 DEF Hashed, x
    <3>2. y \in Certain \cup Range(l)
      BY <1>8, <3>1 DEF HashedComputed, Building, l
    <3> QED
      BY <1>3, <1>4, <2>2, <3>2
  <2> QED
    BY <2>1, <2>2
<1> QED
  BY <1>9, <1>10, <1>11 DEF BlocksComputed

\* A hit: what the cache names is computed, or awaited by this very step.
LEMMA HittingComputed ==
  ASSUME WholeInv, stage \in {"admitting", "restoring"}, stage' = stage,
         NEW s \in Seqs, Building(s), Being' = {s}, HitBlock(s),
         UNCHANGED <<req, running, prefills, prefilled, computed>>, Matched
  PROVE  Matched' /\ (BlocksComputed => BlocksComputed')
<1>0. /\ KVInv /\ KVTypeOK /\ req \in Workloads /\ Range(running) \subseteq Seqs
      /\ tables \in [Seqs -> Seq(Block)] /\ content_hash \in [Block -> Hash]
      /\ prompt \in [Seqs -> Prompt] /\ hits \in [Seqs -> Nat]
  BY EngineTypes DEF WholeInv, KVInv
<1>a. PICK x : x = cache[NextHash(s)]
  OBVIOUS
<1> DEFINE l == tables[s]
<1>1. /\ pc[s] = "alloc" /\ pc' = pc /\ Len(l) < NFull(s) /\ matching /\ matching' = matching
      /\ NextHash(s) \in DOMAIN cache /\ content_hash' = content_hash /\ prompt' = prompt
      /\ tables' = [tables EXCEPT ![s] = Append(@, x)]
      /\ hits' = [hits EXCEPT ![s] = @ + 1]
  BY <1>a DEF HitBlock, Hit
<1>2. /\ x \in Block /\ content_hash[x] = NextHash(s) /\ Len(content_hash[x]) = Len(l) + 1
      /\ Hashed(x)
  <2>1. Len(NextHash(s)) = Len(l) + 1 /\ NextHash(s) # NoHash
    BY <1>0, <1>1, NextHashIsPrefix
  <2>2. x \in Block /\ content_hash[x] = NextHash(s)
    BY <1>0, <1>1, <1>a DEF KVInv, CacheNamesHash, KVTypeOK
  <2> QED
    BY <2>1, <2>2 DEF Hashed
<1>3. l \in Seq(Block) /\ tables'[s] = Append(l, x) /\ \A u \in Seqs \ {s} : tables'[u] = tables[u]
  BY <1>0, <1>1
<1>4. x \notin Range(l)
  <2> SUFFICES ASSUME NEW j \in 1..Len(l), l[j] = x PROVE FALSE
    BY <1>3 DEF Range
  <2>1. j \in Owned(s)
    BY <1>0, <1>1, TableOwned
  <2>2. Len(content_hash[x]) = j
    BY <1>0, <1>2, <2>1, HashIsPrefix
  <2> QED
    BY <1>2, <1>3, <2>2
<1>5. HashedComputed => x \in Certain
  BY <1>2, <1>4 DEF HashedComputed, Building
<1>6. /\ Certain \subseteq Certain'
      /\ \A u \in Seqs \ {s} : pc[u] # "free" /\ Prompted(u) => Prompted(u)'
  <2>1. EngineInv /\ s \notin PrefillSeqs /\ computed \ {} \subseteq computed'
    BY DEF WholeInv, Building
  <2>2. /\ Certain \ {} \subseteq Certain'
        /\ \A u \in Seqs \ {s} : pc[u] # "free" /\ Prompted(u) => Prompted(u)'
    <3>1. BatchKept(s, {})
      BY <1>3, <2>1, BatchStays
    <3> QED
      BY <3>1 DEF BatchKept
  <2> QED
    BY <2>2
<1>7. /\ Len(tables'[s]) = Len(l) + 1 /\ Len(l) \in Nat /\ tables'[s][Len(l) + 1] = x
      /\ \A j \in 1..Len(l) : tables'[s][j] = l[j]
      /\ Range(tables'[s]) = Range(l) \cup {x}
  <2> HIDE DEF l
  <2>1. /\ Len(Append(l, x)) = Len(l) + 1 /\ Len(l) \in Nat /\ Append(l, x)[Len(l) + 1] = x
        /\ \A j \in 1..Len(l) : Append(l, x)[j] = l[j]
    BY <1>3
  <2>2. Range(Append(l, x)) = Range(l) \cup {x}
    BY <1>2, <1>3, AppendToQueue
  <2> QED
    BY <1>3, <2>1, <2>2
<1>8. /\ HitsBounded(s) /\ hits[s] = Len(l) /\ hits'[s] = Len(l) + 1
      /\ NChunks(s)' = NChunks(s) /\ NChunks(s) \in Nat /\ NFull(s) = NChunks(s)
  <2>1. HitsBounded(s)
    BY <1>1 DEF Matched, Building
  <2>2. NChunks(s)' = NChunks(s) /\ NChunks(s) \in Nat /\ NFull(s) = NChunks(s)
    BY <1>0, <2>1, PromptSizes DEF NChunks, NFull, HitsBounded
  <2>3. hits[s] = Len(l)
    BY <1>1, <1>7, <2>1, <2>2 DEF HitsBounded
  <2> QED
    BY <1>0, <1>1, <2>1, <2>2, <2>3
<1>9. Matched'
  <2>1. hits'[s] <= NChunks(s) /\ hits'[s] = Len(tables'[s])
    BY <1>1, <1>7, <1>8
  <2>2. HitsBounded(s)'
    BY <1>1, <1>8, <2>1 DEF HitsBounded
  <2> QED
    BY <2>2 DEF Matched
<1>10. SUFFICES ASSUME BlocksComputed PROVE BlocksComputed'
  BY <1>9
<1>11. RunningComputed /\ HitsComputed /\ HashedComputed /\ x \in Certain
  BY <1>5, <1>10 DEF BlocksComputed
<1>12. RunningComputed'
  BY <1>0, <1>1, <1>6, <1>11 DEF RunningComputed, Building
<1>13. HitsComputed'
  <2>1. \A j \in 1..Len(l) : l[j] \in Certain
    BY <1>1, <1>8, <1>11 DEF HitsComputed, Building
  <2> HIDE DEF l
  <2>2. ASSUME NEW j \in 1..(Len(l) + 1) PROVE tables'[s][j] \in Certain'
    <3>1. CASE j = Len(l) + 1
      BY <1>6, <1>7, <1>11, <3>1
    <3>2. CASE j # Len(l) + 1
      <4>1. j \in 1..Len(l)
        BY <1>7, <3>2
      <4> QED
        BY <1>6, <1>7, <2>1, <4>1
    <3> QED
      BY <3>1, <3>2
  <2> QED
    BY <1>8, <2>2 DEF HitsComputed
<1>14. HashedComputed'
  <2> SUFFICES ASSUME NEW y \in Block, Hashed(y)'
               PROVE  y \in Certain' \cup Range(tables'[s])
    BY DEF HashedComputed
  <2>1. y \in Certain \cup Range(l)
    BY <1>1, <1>11 DEF HashedComputed, Building, Hashed
  <2> QED
    BY <1>6, <1>7, <2>1
<1> QED
  BY <1>12, <1>13, <1>14 DEF BlocksComputed


\* OutOfBlocks: what the lost table had entered in the cache makes it a LostPrefix.
LEMMA RaisingComputed ==
  ASSUME WholeInv, stage \in {"admitting", "restoring"}, stage' = stage,
         NEW s \in Seqs, Building(s), Being' = {s}, RaiseOutOfBlocks(s),
         UNCHANGED <<req, running, prefills, prefilled, computed>>
  PROVE  Matched' /\ (BlocksComputed /\ LostPrefix' = {} => BlocksComputed')
<1>0. /\ KVInv /\ req \in Workloads /\ Range(running) \subseteq Seqs
      /\ tables \in [Seqs -> Seq(Block)] /\ dropped \in [Block -> Nat]
      /\ pc \in [Seqs -> {"out", "alloc", "held", "free"}]
  BY EngineTypes DEF WholeInv, KVInv, KVTypeOK
<1>1. /\ dropped' = [b \in Block |-> dropped[b] + (IF Contains(tables[s], b) THEN 1 ELSE 0)]
      /\ tables' = [tables EXCEPT ![s] = <<>>]
      /\ pc' = [pc EXCEPT ![s] = "out"]
      /\ content_hash' = content_hash
  BY DEF RaiseOutOfBlocks, DropTable, poolVars
<1>2. /\ pc'[s] = "out"
      /\ \A u \in Seqs \ {s} : tables'[u] = tables[u] /\ pc'[u] = pc[u]
  BY <1>0, <1>1
<1>3. /\ Certain \subseteq Certain'
      /\ \A u \in Seqs \ {s} : pc[u] # "free" /\ Prompted(u) => Prompted(u)'
  <2>1. EngineInv /\ s \notin PrefillSeqs /\ computed \ {} \subseteq computed'
    BY DEF WholeInv, Building
  <2>2. /\ Certain \ {} \subseteq Certain'
        /\ \A u \in Seqs \ {s} : pc[u] # "free" /\ Prompted(u) => Prompted(u)'
    <3>1. BatchKept(s, {})
      BY <1>2, <2>1, BatchStays
    <3> QED
      BY <3>1 DEF BatchKept
  <2> QED
    BY <2>2
<1>4. Matched' /\ HitsComputed'
  BY <1>2 DEF Matched, HitsComputed
<1>a. SUFFICES ASSUME BlocksComputed, LostPrefix' = {} PROVE BlocksComputed'
  BY <1>4
<1>b. RunningComputed /\ HashedComputed
  BY <1>a DEF BlocksComputed
<1>5. RunningComputed'
  BY <1>0, <1>2, <1>3, <1>b DEF RunningComputed, Building
<1>6. HashedComputed'
  <2> SUFFICES ASSUME NEW x \in Block, Hashed(x)' PROVE x \in Certain'
    BY DEF HashedComputed
  <2>1. Hashed(x) /\ dropped'[x] = 0
    <3>1. dropped'[x] \in Nat
      BY <1>0, <1>1
    <3>2. ~(dropped'[x] > 0)
      BY <1>a DEF LostPrefix, Hashed
    <3> QED
      BY <1>1, <3>1, <3>2 DEF Hashed
  <2>2. ~Contains(tables[s], x)
    BY <1>0, <1>1, <2>1
  <2>3. x \notin Range(tables[s])
    BY <1>0, <2>2, ContainsIsIn
  <2> QED
    BY <1>3, <1>b, <2>1, <2>3 DEF HashedComputed, Building
<1> QED
  BY <1>4, <1>5, <1>6 DEF BlocksComputed

\* allocate_prompt returns the table.
LEMMA ReturningComputed ==
  ASSUME WholeInv, stage \in {"admitting", "restoring"}, stage' = stage,
         NEW s \in Seqs, Building(s), Being' = {s}, AllocateReturn(s),
         UNCHANGED <<req, running, prefills, prefilled, computed>>, Matched
  PROVE  Matched' /\ (BlocksComputed => BlocksComputed')
<1>0. /\ KVInv /\ req \in Workloads /\ Range(running) \subseteq Seqs
      /\ pc \in [Seqs -> {"out", "alloc", "held", "free"}]
  BY EngineTypes DEF WholeInv
<1>1. /\ pc[s] = "alloc" /\ Len(tables[s]) = NBlocks(prompt[s])
      /\ pc' = [pc EXCEPT ![s] = "held"]
      /\ UNCHANGED <<tables, prompt, hits, content_hash>>
  BY DEF AllocateReturn, poolVars
<1>2. pc'[s] = "held" /\ \A u \in Seqs \ {s} : pc'[u] = pc[u]
  BY <1>0, <1>1
<1>3. /\ PrefillSeqs' = PrefillSeqs /\ Certain' = Certain
      /\ \A u \in Seqs : NChunks(u)' = NChunks(u)
  BY <1>1 DEF Certain, Awaited, AwaitedBy, PrefillSeqs, NChunks
<1>4. Matched'
  <2>1. HitsBounded(s)
    BY <1>1 DEF Matched, Building
  <2>2. HitsBounded(s)'
    BY <1>1, <1>2, <1>3, <2>1 DEF HitsBounded
  <2> QED
    BY <2>2 DEF Matched
<1>5. RunningComputed => RunningComputed'
  BY <1>0, <1>1, <1>2, <1>3 DEF RunningComputed, Building, Prompted
<1>6. HitsComputed => HitsComputed'
  BY <1>1, <1>2, <1>3 DEF HitsComputed, Building
<1>7. HashedComputed => HashedComputed'
  BY <1>1, <1>3 DEF HashedComputed, Building, Hashed
<1> QED
  BY <1>4, <1>5, <1>6, <1>7 DEF BlocksComputed

\* One iteration of allocate_prompt, whatever it finds.
LEMMA AllocStepComputed ==
  ASSUME WholeInv, LostPrefix \subseteq LostPrefix', AllocStep
  PROVE  WholeCalls' /\ HeldComputed'
<1>0. /\ KVInv /\ req \in Workloads /\ Range(running) \subseteq Seqs
      /\ pc \in [Seqs -> {"out", "alloc", "held", "free"}]
      /\ tables \in [Seqs -> Seq(Block)]
  BY EngineTypes DEF WholeInv
<1>1. /\ UNCHANGED <<cfg, req, waiting, running, swapped, prefilled, prefills, stage>>
      /\ stage \in {"admitting", "restoring"}
  BY DEF AllocStep, inputs, queues, seqVars, stepVars
<1>2. PICK w \in Seqs : /\ Building(w)
                        /\ w = IF stage = "admitting" THEN Head(waiting) ELSE Head(swapped)
  BY <1>1, BuildingFacts
<1>3. PICK s \in Seqs : \/ (HitBlock(s) \/ RaiseOutOfBlocks(s) \/ AllocateReturn(s))
                           /\ UNCHANGED computed
                        \/ (MissBlock(s) \/ TailBlock(s)) /\ computed' = computed \ {Last(tables'[s])}
  BY DEF AllocStep
<1>4. /\ pc[s] = "alloc"
      /\ pc' = pc \/ \E c \in {"held", "out"} : pc' = [pc EXCEPT ![s] = c]
  BY <1>3 DEF HitBlock, RaiseOutOfBlocks, AllocateReturn, MissBlock, TailBlock, DropTable
<1>5. s = w /\ Being = {s} /\ Being' = {s} /\ Freed = {} /\ Freed' = {}
  BY <1>1, <1>2, <1>4 DEF Building, Being, Freed
<1>6. OneCall /\ PlannedWhole /\ Matched /\ (LostPrefix = {} => BlocksComputed)
  BY <1>1 DEF WholeInv, WholeCalls, HeldComputed
<1>7. OneCall'
  BY <1>0, <1>1, <1>2, <1>4, <1>5, <1>6 DEF OneCall, Building
<1>8. PlannedWhole'
  BY <1>1, <1>6 DEF PlannedWhole, prompt_tokens, PrefillSeqs
<1>9. SUFFICES Matched' /\ (BlocksComputed /\ LostPrefix' = {} => BlocksComputed')
  BY <1>6, <1>7, <1>8 DEF WholeCalls, HeldComputed
<1>10. CASE (HitBlock(s) \/ RaiseOutOfBlocks(s) \/ AllocateReturn(s)) /\ UNCHANGED computed
  BY <1>1, <1>2, <1>5, <1>6, <1>10, HittingComputed, RaisingComputed, ReturningComputed
<1>11. CASE (MissBlock(s) \/ TailBlock(s)) /\ computed' = computed \ {Last(tables'[s])}
  <2>1. PICK t \in TakeFreeBlock :
          /\ tables' = [tables EXCEPT ![s] = Append(@, t.bid)]
          /\ \E h : content_hash' = [content_hash EXCEPT ![t.bid] = h]
    BY <1>11 DEF MissBlock, TailBlock, TakeUnhashed
  <2>2. /\ UNCHANGED <<pc, prompt, hits>>
        /\ matching' = FALSE \/ Len(tables[s]) = NFull(s)
    BY <1>11 DEF MissBlock, TailBlock
  <2>3. Last(tables'[s]) = t.bid
    <3>1. tables'[s] = Append(tables[s], t.bid) /\ tables[s] \in Seq(Block) /\ t.bid \in Block
      BY <1>0, <2>1, TakeFacts DEF Takes
    <3> DEFINE l == tables[s]
               x == t.bid
    <3> HIDE DEF l, x
    <3>2. l \in Seq(Block) /\ x \in Block
      BY <3>1 DEF l, x
    <3>3. Last(Append(l, x)) = x
      BY <3>2 DEF Last
    <3> QED
      BY <3>1, <3>3 DEF l, x
  <2>4. PICK h : content_hash' = [content_hash EXCEPT ![t.bid] = h]
    BY <2>1
  <2>5. computed' = computed \ {t.bid}
    BY <1>11, <2>3
  <2>6. Building(s) /\ pc[s] = "alloc" /\ pc' = pc /\ stage' = stage
        /\ UNCHANGED <<req, running, prefills, prefilled, prompt, hits>>
    BY <1>1, <1>2, <1>4, <1>5, <2>2
  <2> QED
    BY <1>1, <1>5, <1>6, <2>1, <2>2, <2>4, <2>5, <2>6, TakingComputed
<1> QED
  BY <1>3, <1>10, <1>11


\* An admitted sequence joins the batch: what it did not hit is in its chunk.
LEMMA AdmitRunningComputed ==
  ASSUME WholeInv, LostPrefix \subseteq LostPrefix', AdmitRunning
  PROVE  WholeCalls' /\ HeldComputed'
<1>0. /\ KVInv /\ Typed /\ req \in Workloads /\ Range(running) \subseteq Seqs
      /\ running \in Seq(Seqs) /\ PrefillSeqs \subseteq Seqs
      /\ pc \in [Seqs -> {"out", "alloc", "held", "free"}]
      /\ tables \in [Seqs -> Seq(Block)] /\ hits \in [Seqs -> Nat]
      /\ prefilled \in [Seqs -> Nat]
  BY EngineTypes DEF WholeInv
<1>1. stage = "admitting" /\ stage' = "admit" /\ Idle /\ UNCHANGED kvVars
      /\ UNCHANGED <<cfg, req, computed>>
  BY DEF AdmitRunning, inputs
<1>2. PICK s \in Seqs : Building(s) /\ s = Head(waiting)
  BY <1>1, BuildingFacts
<1>a. PICK rest : rest = prompt_tokens(s) - CachedTokens(s)
  OBVIOUS
<1>3. /\ pc[s] = "held" /\ running' = Append(running, s)
      /\ prefilled' = [prefilled EXCEPT ![s] = CachedTokens(s)]
      /\ IF rest > 0 THEN prefills' = Append(prefills, [seq |-> s, chunk |-> rest])
                     ELSE prefills' = prefills
  BY <1>a, <1>2 DEF AdmitRunning, WholeInv
<1>4. OneCall /\ PlannedWhole /\ Matched /\ (LostPrefix = {} => BlocksComputed)
  BY <1>1 DEF WholeInv, WholeCalls, HeldComputed
<1>5. Being = {s} /\ Being' = {} /\ Freed = {} /\ Freed' = {}
  BY <1>1, <1>2 DEF Being, Freed
<1>6. Range(running') = Range(running) \cup {s} /\ s \notin Range(running) /\ s \notin PrefillSeqs
  BY <1>0, <1>2, <1>3, AppendToQueue DEF Building
<1>7. OneCall' /\ Matched'
  <2>1. \A u \in Seqs : pc[u] \in {"out", "held"}
    BY <1>1 DEF Idle
  <2> QED
    BY <1>0, <1>1, <1>2, <1>3, <1>5, <1>6, <2>1 DEF OneCall, Matched, Building, kvVars
<1>8. /\ hits[s] \in Nat /\ hits[s] <= NChunks(s) /\ prompt[s] = req[s].prompt
      /\ Len(tables[s]) = NBlocks(req[s].prompt)
      /\ NChunks(s) \in Nat /\ NBlocks(req[s].prompt) \in Nat
      /\ NChunks(s) <= NBlocks(req[s].prompt)
      /\ prompt_tokens(s) \in Nat /\ BlockSize \in Nat \ {0}
  BY <1>0, <1>3, <1>4, <1>5, PromptSizes DEF Matched, HitsBounded
<1>b. ASSUME NEW j \in Nat
      PROVE  /\ j <= NChunks(s) <=> j * BlockSize <= prompt_tokens(s)
             /\ j * BlockSize \in Nat /\ (j + 1) * BlockSize = j * BlockSize + BlockSize
  <2>1. j <= NChunks(s) <=> j * BlockSize <= prompt_tokens(s)
    BY <1>0, PromptSizes
  <2>2. \A m, n \in Nat : m * n \in Nat /\ (m + 1) * n = m * n + n
    OBVIOUS
  <2> QED
    BY <1>8, <2>1, <2>2
<1>9. /\ CachedTokens(s) = hits[s] * BlockSize /\ CachedTokens(s) \in Nat
      /\ rest \in Nat /\ CachedTokens(s) + rest = prompt_tokens(s)
      /\ rest = 0 => NChunks(s) <= hits[s]
  <2>1. CachedTokens(s) = hits[s] * BlockSize /\ CachedTokens(s) \in Nat
    BY <1>8, <1>b DEF CachedTokens
  <2>2. CachedTokens(s) <= prompt_tokens(s)
    BY <1>8, <1>b, <2>1
  <2>3. rest \in Nat /\ CachedTokens(s) + rest = prompt_tokens(s)
    <3>1. PICK c, p : c = CachedTokens(s) /\ p = prompt_tokens(s)
      OBVIOUS
    <3>2. c \in Nat /\ p \in Nat /\ c <= p /\ rest = p - c
      BY <1>a, <1>8, <2>1, <2>2, <3>1
    <3>3. rest \in Nat /\ c + rest = p
      BY <3>2
    <3> QED
      BY <3>1, <3>3
  <2>4. ASSUME rest = 0 PROVE NChunks(s) <= hits[s]
    <3> DEFINE k == hits[s] + 1
               m == k * BlockSize
    <3>1. k \in Nat /\ m = CachedTokens(s) + BlockSize
      <4>1. (hits[s] + 1) * BlockSize = hits[s] * BlockSize + BlockSize
        BY <1>8, <1>b
      <4>2. m = CachedTokens(s) + BlockSize
        BY <2>1, <4>1, Zenon
      <4> QED
        BY <1>8, <4>2
    <3> HIDE DEF k, m
    <3>2. ~(k <= NChunks(s))
      <4>1. ~(m <= prompt_tokens(s))
        BY <1>8, <2>1, <2>3, <2>4, <3>1
      <4> QED
        BY <1>b, <3>1, <4>1 DEF m
    <3> QED
      BY <1>8, <3>2 DEF k
  <2> QED
    BY <2>1, <2>3, <2>4
<1>10. /\ prefilled'[s] = hits[s] * BlockSize
       /\ \A u \in Seqs \ {s} : prefilled'[u] = prefilled[u]
       /\ \A u \in Seqs : prompt_tokens(u)' = prompt_tokens(u) /\ NChunks(u)' = NChunks(u)
  BY <1>0, <1>1, <1>3, <1>9 DEF prompt_tokens, NChunks
<1>11. /\ DOMAIN prefills \subseteq DOMAIN prefills'
       /\ \A i \in DOMAIN prefills : prefills'[i] = prefills[i]
       /\ \A i \in DOMAIN prefills' \ DOMAIN prefills : prefills'[i] = [seq |-> s, chunk |-> rest]
       /\ PrefillSeqs \subseteq PrefillSeqs' /\ (rest > 0 => s \in PrefillSeqs')
  <2>1. prefills \in Seq(ChunkRecord)
    BY <1>0 DEF Typed, ChunkRecord
  <2>2. CASE rest > 0
    <3> DEFINE r == [seq |-> s, chunk |-> rest]
    <3>0. prefills' = Append(prefills, r) /\ r.seq = s
      BY <1>3, <2>2
    <3> HIDE DEF r
    <3>1. /\ DOMAIN prefills' = 1..(Len(prefills) + 1) /\ DOMAIN prefills = 1..Len(prefills)
          /\ \A i \in 1..Len(prefills) : prefills'[i] = prefills[i]
          /\ prefills'[Len(prefills) + 1] = r /\ Len(prefills) \in Nat
      BY <2>1, <3>0
    <3>2. \A i \in DOMAIN prefills' \ DOMAIN prefills : prefills'[i] = r
      BY <3>1
    <3> QED
      BY <3>0, <3>1, <3>2 DEF PrefillSeqs, r
  <2>3. CASE ~(rest > 0)
    BY <1>3, <2>3 DEF PrefillSeqs
  <2> QED
    BY <2>2, <2>3
<1>12. PlannedWhole'
  <2>1. \A u \in Seqs : prefilled'[u] <= prompt_tokens(u)
    <3>1. prefilled'[s] <= prompt_tokens(s)
      <4>1. prefilled'[s] = CachedTokens(s)
        BY <1>9, <1>10
      <4> QED
        BY <1>8, <1>9, <4>1
    <3>2. \A u \in Seqs \ {s} : prefilled'[u] <= prompt_tokens(u)
      BY <1>4, <1>10 DEF PlannedWhole
    <3> QED
      BY <3>1, <3>2
  <2>2. ASSUME NEW i \in DOMAIN prefills'
        PROVE  /\ prefills'[i].seq \in Range(running')
               /\ prefilled'[prefills'[i].seq] + prefills'[i].chunk = prompt_tokens(prefills'[i].seq)
               /\ prefills'[i].seq \in Seqs
    <3>1. CASE i \in DOMAIN prefills
      <4>1. /\ prefills[i].seq \in Range(running) /\ prefills[i].seq \in Seqs
            /\ prefilled[prefills[i].seq] + prefills[i].chunk = prompt_tokens(prefills[i].seq)
        BY <1>0, <1>1, <1>4, <3>1 DEF PlannedWhole
      <4> QED
        BY <1>6, <1>10, <1>11, <3>1, <4>1
    <3>2. CASE i \notin DOMAIN prefills
      <4>1. prefills'[i].seq = s /\ prefills'[i].chunk = rest
        BY <1>11, <3>2
      <4> QED
        BY <1>6, <1>9, <1>10, <4>1
    <3> QED
      BY <3>1, <3>2
  <2> QED
    BY <1>1, <1>10, <2>1, <2>2 DEF PlannedWhole
<1>13. SUFFICES ASSUME BlocksComputed PROVE BlocksComputed'
  BY <1>4, <1>7, <1>12 DEF WholeCalls, HeldComputed
<1>14. RunningComputed /\ HitsComputed /\ HashedComputed
  BY <1>13 DEF BlocksComputed
<1>15. Certain \subseteq Certain'
  <2>1. Awaited \subseteq Awaited'
    BY <1>0, <1>1, <1>6, <1>10, <1>11, AwaitedKept DEF kvVars
  <2> QED
    BY <1>1, <2>1 DEF Certain
<1>16. \A j \in 1..NChunks(s) : j \in DOMAIN tables[s] /\ tables[s][j] \in Certain'
  <2> SUFFICES ASSUME NEW j \in 1..NChunks(s)
               PROVE  j \in DOMAIN tables[s] /\ tables[s][j] \in Certain'
    OBVIOUS
  <2>1. j \in DOMAIN tables[s] /\ j \in Nat
    BY <1>0, <1>8
  <2>2. CASE j <= hits[s]
    <3>1. j \in 1..hits[s] /\ s \in Being /\ pc[s] # "out"
      BY <1>3, <1>5, <1>8, <2>2
    <3> QED
      BY <1>14, <1>15, <2>1, <3>1 DEF HitsComputed
  <2>3. CASE hits[s] < j
    <3>1. rest > 0
      BY <1>8, <1>9, <2>1, <2>3
    <3>2. prefilled'[s] < j * BlockSize
      <4>1. (hits[s] + 1) * BlockSize <= j * BlockSize /\ j * BlockSize \in Nat
        <5>1. hits[s] + 1 \in Nat /\ hits[s] + 1 <= j
          BY <1>8, <2>1, <2>3
        <5> QED
          BY <1>8, <2>1, <5>1, TimesKeepsOrder
      <4>2. (hits[s] + 1) * BlockSize = hits[s] * BlockSize + BlockSize /\ hits[s] * BlockSize \in Nat
        BY <1>8, <1>b
      <4>3. PICK a, z, y : a = hits[s] * BlockSize /\ z = j * BlockSize
                           /\ y = (hits[s] + 1) * BlockSize
        OBVIOUS
      <4>4. a \in Nat /\ z \in Nat /\ y <= z /\ y = a + BlockSize
        BY <4>1, <4>2, <4>3
      <4>5. a < z
        BY <1>8, <4>4
      <4>6. prefilled'[s] = a
        BY <1>10, <4>3
      <4> QED
        BY <4>3, <4>5, <4>6
    <3>3. tables[s][j] \in AwaitedBy(s)'
      BY <1>1, <1>10, <2>1, <3>2 DEF AwaitedBy, kvVars
    <3>4. s \in PrefillSeqs'
      BY <1>11, <3>1
    <3> QED
      BY <2>1, <3>3, <3>4 DEF Certain, Awaited
  <2> QED
    BY <1>8, <2>1, <2>2, <2>3
<1>17. RunningComputed'
  <2> SUFFICES ASSUME NEW u \in Range(running'), pc'[u] = "held" PROVE Prompted(u)'
    BY DEF RunningComputed
  <2>1. CASE u = s
    BY <1>1, <1>8, <1>10, <1>16, <2>1 DEF Prompted, kvVars
  <2>2. CASE u # s
    <3>1. u \in Range(running) /\ pc[u] = "held" /\ u \in Seqs
      BY <1>0, <1>1, <1>6, <2>2 DEF kvVars
    <3>2. Prompted(u)
      BY <1>14, <3>1 DEF RunningComputed
    <3> QED
      BY <1>1, <1>10, <1>15, <3>1, <3>2 DEF Prompted, kvVars
  <2> QED
    BY <2>1, <2>2
<1>18. HitsComputed'
  BY <1>5 DEF HitsComputed
<1>19. HashedComputed'
  <2> SUFFICES ASSUME NEW x \in Block, Hashed(x)' PROVE x \in Certain'
    BY DEF HashedComputed
  <2>1. Hashed(x)
    BY <1>1 DEF Hashed, kvVars
  <2>2. CASE x \in Certain
    BY <1>15, <2>2
  <2>3. CASE x \notin Certain
    <3>1. x \in Range(tables[s])
      BY <1>5, <1>14, <2>1, <2>3 DEF HashedComputed
    <3>2. PICK j \in 1..Len(tables[s]) : tables[s][j] = x
      BY <1>0, <3>1 DEF Range
    <3>3. j \in Owned(s)
      BY <1>0, <1>3, <3>2, TableOwned
    <3>4. j \in 1..NFull(s) /\ NFull(s) = NChunks(s)
      BY <1>0, <1>8, <2>1, <3>2, <3>3, HashIsPrefix DEF NFull, NChunks
    <3> QED
      BY <1>16, <3>2, <3>4
  <2> QED
    BY <2>2, <2>3
<1> QED
  BY <1>17, <1>18, <1>19 DEF BlocksComputed


\* A swapped sequence joins the batch with its blocks copied back in.
LEMMA RestoreRunningComputed ==
  ASSUME WholeInv, LostPrefix \subseteq LostPrefix', RestoreRunning
  PROVE  WholeCalls' /\ HeldComputed'
<1>0. /\ req \in Workloads /\ Range(running) \subseteq Seqs /\ running \in Seq(Seqs)
      /\ pc \in [Seqs -> {"out", "alloc", "held", "free"}] /\ tables \in [Seqs -> Seq(Block)]
  BY EngineTypes DEF WholeInv
<1>1. /\ stage = "restoring" /\ stage' = "restore" /\ Idle /\ UNCHANGED kvVars
      /\ UNCHANGED <<cfg, req, prefills, prefilled>>
  BY DEF RestoreRunning, inputs, seqVars, stepVars
<1>2. PICK s \in Seqs : Building(s) /\ s = Head(swapped)
  BY <1>1, BuildingFacts
<1>3. /\ pc[s] = "held" /\ running' = Append(running, s)
      /\ computed' = computed \cup Range(tables[s])
  BY <1>2 DEF RestoreRunning
<1>4. OneCall /\ PlannedWhole /\ Matched /\ (LostPrefix = {} => BlocksComputed)
  BY <1>1 DEF WholeInv, WholeCalls, HeldComputed
<1>5. Being = {s} /\ Being' = {} /\ Freed = {} /\ Freed' = {}
  BY <1>1, <1>2 DEF Being, Freed
<1>6. Range(running') = Range(running) \cup {s}
  BY <1>0, <1>2, <1>3, AppendToQueue
<1>7. OneCall' /\ Matched'
  <2>1. \A u \in Seqs : pc[u] \in {"out", "held"}
    BY <1>1 DEF Idle
  <2> QED
    BY <1>0, <1>1, <1>2, <1>3, <1>5, <1>6, <2>1 DEF OneCall, Matched, Building, kvVars
<1>8. PlannedWhole' /\ Certain = computed /\ Certain' = computed'
  BY <1>1, <1>4, NothingPlanned DEF PlannedWhole, prompt_tokens
<1>9. SUFFICES ASSUME BlocksComputed PROVE BlocksComputed'
  BY <1>4, <1>7, <1>8 DEF WholeCalls, HeldComputed
<1>10. RunningComputed /\ HashedComputed
  BY <1>9 DEF BlocksComputed
<1>11. Prompted(s)'
  <2>1. /\ Len(tables[s]) = NBlocks(req[s].prompt) /\ NChunks(s) \in Nat
        /\ NBlocks(req[s].prompt) \in Nat /\ NChunks(s) <= NBlocks(req[s].prompt)
    BY <1>0, <1>3, <1>4, <1>5, PromptSizes DEF Matched, HitsBounded
  <2>2. \A j \in 1..NChunks(s) : tables[s][j] \in Range(tables[s])
    BY <1>0, <2>1 DEF Range
  <2>3. NChunks(s)' = NChunks(s) /\ Len(tables[s]) >= NBlocks(req[s].prompt)
    BY <1>1, <2>1 DEF NChunks
  <2> QED
    BY <1>1, <1>3, <1>8, <2>2, <2>3 DEF Prompted, kvVars
<1>12. RunningComputed'
  <2>1. \A u \in Seqs : Prompted(u) => Prompted(u)'
    BY <1>1, <1>3, <1>8 DEF Prompted, NChunks, kvVars
  <2> QED
    BY <1>0, <1>1, <1>6, <1>10, <1>11, <2>1 DEF RunningComputed, kvVars
<1>13. HitsComputed'
  BY <1>5 DEF HitsComputed
<1>14. HashedComputed'
  BY <1>1, <1>3, <1>5, <1>8, <1>10 DEF HashedComputed, Hashed, kvVars
<1> QED
  BY <1>12, <1>13, <1>14 DEF BlocksComputed

\* A decoding sequence gets its slot: in a new block, or in a computed copy.
LEMMA GrowOneComputed ==
  ASSUME WholeInv, LostPrefix \subseteq LostPrefix', GrowOne
  PROVE  WholeCalls' /\ HeldComputed'
<1>0. /\ KVInv /\ req \in Workloads /\ Range(running) \subseteq Seqs /\ decodes \in Seq(Seqs)
      /\ pc \in [Seqs -> {"out", "alloc", "held", "free"}] /\ tables \in [Seqs -> Seq(Block)]
      /\ content_hash \in [Block -> Hash] /\ EngineInv
  BY EngineTypes DEF WholeInv
<1>1. /\ stage = "grow" /\ stage' = "grow"
      /\ UNCHANGED <<cfg, req, running, prefills, prefilled>>
  BY DEF GrowOne, inputs, queues, seqVars
<1>a. PICK s : s = Head(decodes)
  OBVIOUS
<1>b. PICK n : n = total_len(s)
  OBVIOUS
<1>2. s \in Seqs /\ append_token(s, n) /\ CopyComputed(s)
  BY <1>0, <1>a, <1>b, HeadIsSeq DEF GrowOne
<1>3. OneCall /\ PlannedWhole /\ (LostPrefix = {} => BlocksComputed)
  BY <1>1 DEF WholeInv, WholeCalls, HeldComputed
<1>4. Being = {} /\ Being' = {} /\ Freed = {} /\ Freed' = {}
  BY <1>1 DEF Being, Freed
<1>5. /\ PlannedWhole' /\ Matched' /\ s \notin PrefillSeqs
      /\ Certain = computed /\ Certain' = computed'
  BY <1>1, <1>3, <1>4, NothingPlanned DEF PlannedWhole, Matched, prompt_tokens
<1>6. /\ \A u \in Seqs : pc[u] \in {"out", "held"}
      /\ pc' = [pc EXCEPT ![s] = "held"]
  BY <1>0, <1>2 DEF append_token, GrowTable, WriteTail, CopyOnWrite, Idle
<1>7. OneCall'
  BY <1>0, <1>1, <1>2, <1>3, <1>4, <1>6 DEF OneCall
<1>8. SUFFICES ASSUME BlocksComputed PROVE BlocksComputed'
  BY <1>3, <1>5, <1>7 DEF WholeCalls, HeldComputed
<1>9. RunningComputed /\ HashedComputed
  BY <1>8 DEF BlocksComputed
<1>c. PICK l : l = tables[s]
  OBVIOUS
<1>10. /\ \A u \in Range(running) : pc[u] = "held" /\ Prompted(u)
       /\ \A x \in Block : Hashed(x) => x \in computed
  BY <1>3, <1>4, <1>5, <1>9 DEF OneCall, RunningComputed, HashedComputed
\* A new block t.bid in place i of the table, which was its last or is one more.
<1>11. ASSUME NEW t \in TakeFreeBlock, NEW m \in Seq(Block),
              tables' = [tables EXCEPT ![s] = m],
              content_hash' = [content_hash EXCEPT ![t.bid] = NoHash],
              computed \ {t.bid} \subseteq computed', Len(m) >= Len(l),
              \A j \in 1..Len(l) : m[j] = l[j] \/ m[j] \in computed' \/ l[j] \notin computed
       PROVE  BlocksComputed'
  <2>1. tables'[s] = m /\ \A u \in Seqs \ {s} : tables'[u] = tables[u]
    BY <1>0, <1>2, <1>11
  <2>2. /\ \A u \in Seqs : pc[u] # "free" => Range(tables[u]) \cap {t.bid} = {}
        /\ \A u \in Seqs \ {s} : pc[u] # "free" /\ Prompted(u) => Prompted(u)'
    <3>1. PICK X : X = {t.bid}
      OBVIOUS
    <3>2. /\ X = {} \/ \E v \in TakeFreeBlock : X = {v.bid}
          /\ computed \ X \subseteq computed' /\ UNCHANGED <<req, prefills, prefilled>>
      BY <1>1, <1>11, <3>1
    <3>3. /\ \A u \in Seqs : pc[u] # "free" => Range(tables[u]) \cap X = {}
          /\ \A u \in Seqs \ {s} : pc[u] # "free" /\ Prompted(u) => Prompted(u)'
      <4>1. BatchKept(s, X)
        BY <1>0, <1>2, <1>5, <2>1, <3>2, BatchStays
      <4> QED
        BY <4>1 DEF BatchKept
    <3> QED
      BY <3>1, <3>3
  <2>3. ASSUME s \in Range(running) PROVE Prompted(s)'
    <3>1. Prompted(s) /\ NChunks(s)' = NChunks(s)
      BY <1>1, <1>10, <2>3 DEF NChunks
    <3>2. /\ NChunks(s) \in Nat /\ NBlocks(req[s].prompt) \in Nat /\ Len(l) \in Nat
          /\ NChunks(s) <= NBlocks(req[s].prompt) /\ NBlocks(req[s].prompt) <= Len(l)
          /\ Len(m) \in Nat
      <4>1. NBlocks(req[s].prompt) <= Len(l)
        BY <1>c, <3>1 DEF Prompted
      <4>2. l \in Seq(Block)
        BY <1>0, <1>2, <1>c
      <4>3. /\ NChunks(s) \in Nat /\ NBlocks(req[s].prompt) \in Nat
            /\ NChunks(s) <= NBlocks(req[s].prompt)
        BY <1>0, <1>2, PromptSizes
      <4> QED
        BY <1>11, <4>1, <4>2, <4>3
    <3>3. ASSUME NEW j \in 1..NChunks(s) PROVE m[j] \in computed'
      <4>1. j \in 1..Len(l) /\ j \in DOMAIN l /\ l[j] \in computed
        BY <1>0, <1>2, <1>5, <1>c, <3>1, <3>2 DEF Prompted
      <4>2. l[j] \in Range(l) /\ pc[s] # "free"
        BY <1>2, <1>6, <4>1 DEF Range
      <4>3. l[j] # t.bid
        BY <1>2, <1>c, <2>2, <4>2
      <4> QED
        BY <1>11, <4>1, <4>3
    <3>4. Len(m) >= NBlocks(req[s].prompt)
      BY <1>11, <3>2
    <3> QED
      BY <1>1, <1>5, <2>1, <3>1, <3>3, <3>4 DEF Prompted
  <2>4. RunningComputed'
    BY <1>0, <1>1, <1>6, <1>10, <2>2, <2>3 DEF RunningComputed
  <2>5. HashedComputed'
    <3> SUFFICES ASSUME NEW x \in Block, Hashed(x)' PROVE x \in computed'
      BY <1>5 DEF HashedComputed
    <3>1. x # t.bid /\ Hashed(x)
      <4>1. t.bid \in Block
        BY <1>0, TakeFacts DEF Takes
      <4> QED
        BY <1>0, <1>11, <4>1 DEF Hashed
    <3> QED
      BY <1>10, <1>11, <3>1
  <2>6. HitsComputed'
    BY <1>4 DEF HitsComputed
  <2> QED
    BY <2>4, <2>5, <2>6 DEF BlocksComputed
<1>12. l \in Seq(Block) /\ Len(l) \in Nat
  BY <1>0, <1>2, <1>c
<1>13. CASE GrowTable(s, n)
  <2>1. PICK t \in TakeFreeBlock : /\ tables' = [tables EXCEPT ![s] = Append(@, t.bid)]
                                   /\ content_hash' = [content_hash EXCEPT ![t.bid] = NoHash]
    BY <1>13 DEF GrowTable, TakeUnhashed
  <2>a. PICK x : x = t.bid
    OBVIOUS
  <2>b. PICK m : m = Append(l, x)
    OBVIOUS
  <2>2. x \in Block
    BY <1>0, <2>a, TakeFacts DEF Takes
  <2>3. tables' = [tables EXCEPT ![s] = m] /\ tables'[s] = m
    BY <1>0, <1>2, <1>c, <2>1, <2>a, <2>b
  <2>4. /\ m \in Seq(Block) /\ Len(m) = Len(l) + 1 /\ Last(m) = x
        /\ \A j \in 1..Len(l) : m[j] = l[j]
    BY <1>12, <2>2, <2>b DEF Last
  <2>5. computed' = computed \ {x}
    <3>1. Len(tables'[s]) # Len(tables[s])
      BY <1>12, <1>c, <2>3, <2>4
    <3>2. Last(tables'[s]) = x
      BY <2>3, <2>4
    <3> QED
      BY <1>2, <3>1, <3>2 DEF CopyComputed
  <2> QED
    <3>1. /\ content_hash' = [content_hash EXCEPT ![t.bid] = NoHash]
          /\ computed \ {t.bid} \subseteq computed' /\ Len(m) >= Len(l)
      BY <1>12, <2>1, <2>4, <2>5, <2>a
    <3> QED
      BY <1>11, <2>3, <2>4, <3>1
<1>14. CASE WriteTail(s, n)
  <2>1. tables' = tables /\ content_hash' = content_hash
    BY <1>14 DEF WriteTail
  <2>2. computed \subseteq computed'
    BY <1>2, <1>14, <2>1 DEF CopyComputed, WriteTail
  <2>3. \A u \in Range(running) : Prompted(u)'
    BY <1>1, <1>5, <1>10, <2>1, <2>2 DEF Prompted, NChunks
  <2> QED
    BY <1>1, <1>4, <1>5, <1>10, <2>1, <2>2, <2>3
       DEF BlocksComputed, RunningComputed, HitsComputed, HashedComputed, Hashed
<1>15. CASE CopyOnWrite(s, n)
  <2>1. PICK t \in TakeFreeBlock :
          /\ tables' = [tables EXCEPT ![s][Len(tables[s])] = t.bid]
          /\ content_hash' = [content_hash EXCEPT ![t.bid] = NoHash]
    BY <1>15 DEF CopyOnWrite, TakeUnhashed
  <2>a. PICK x : x = t.bid
    OBVIOUS
  <2>b. PICK k : k = Len(l)
    OBVIOUS
  <2>c. PICK m : m = [l EXCEPT ![k] = x]
    OBVIOUS
  <2>2. x \in Block /\ l # <<>>
    BY <1>0, <1>15, <1>c, <2>a, TakeFacts DEF Takes, CopyOnWrite
  <2>3. tables' = [tables EXCEPT ![s] = m] /\ tables'[s] = m
    BY <1>0, <1>2, <1>c, <2>1, <2>a, <2>b, <2>c
  <2>4. /\ m \in Seq(Block) /\ Len(m) = k /\ Last(m) = x /\ Last(l) = l[k] /\ k \in 1..k
        /\ \A j \in 1..k : m[j] = IF j = k THEN x ELSE l[j]
    BY <1>12, <2>2, <2>b, <2>c DEF Last
  <2>5. computed' = IF l[k] \in computed THEN computed \cup {x} ELSE computed \ {x}
    <3>1. Len(tables'[s]) = Len(tables[s]) /\ Last(tables'[s]) = x
      BY <1>c, <2>3, <2>4, <2>b
    <3>2. tables[s] # <<>> /\ Last(tables[s]) = l[k]
      BY <1>c, <2>2, <2>4
    <3> QED
      BY <1>2, <3>1, <3>2 DEF CopyComputed
  <2>6. \A j \in 1..k : m[j] = l[j] \/ m[j] \in computed' \/ l[j] \notin computed
    BY <2>4, <2>5
  <2> QED
    <3>1. /\ content_hash' = [content_hash EXCEPT ![t.bid] = NoHash]
          /\ computed \ {t.bid} \subseteq computed' /\ Len(m) >= Len(l)
      BY <1>12, <2>1, <2>4, <2>5, <2>a, <2>b
    <3> QED
      BY <1>11, <2>3, <2>4, <2>6, <2>b, <3>1
<1> QED
  BY <1>2, <1>13, <1>14, <1>15 DEF append_token

-----------------------------------------------------------------------------
\* Nothing is computed, held or planned at first.
LEMMA ComputedInit == Init => ComputedInv
<1> SUFFICES ASSUME Init PROVE ComputedInv
  OBVIOUS
<1>1. /\ stage = "idle" /\ running = <<>> /\ prefills = <<>> /\ req \in Workloads
      /\ \A s \in Seqs : pc[s] = "out" /\ prefilled[s] = 0
      /\ \A x \in Block : content_hash[x] = NoHash
  BY DEF Init, KVInit
<1>2. Being = {} /\ Freed = {} /\ Range(running) = {}
  BY <1>1 DEF Being, Freed, Range
<1>3. \A s \in Seqs : prompt_tokens(s) \in Nat
  BY <1>1, RequestFacts
<1>4. OneCall /\ PlannedWhole /\ Matched
  BY <1>1, <1>2, <1>3 DEF OneCall, PlannedWhole, Matched
<1>5. BlocksComputed
  BY <1>1, <1>2 DEF BlocksComputed, RunningComputed, HitsComputed, HashedComputed, Hashed
<1> QED
  BY <1>4, <1>5 DEF ComputedInv, WholeCalls, HeldComputed

\* Every step of the engine keeps what is computed.
LEMMA ComputedStepKeeps ==
  ASSUME EngineInv, ComputedInv, [Next]_vars
  PROVE  ComputedInv'
<1> SUFFICES ASSUME ~cfg'.enable_chunked_prefill
             PROVE  WholeCalls' /\ HeldComputed'
  BY DEF ComputedInv
<1>1. WholeInv
  BY InputsStay DEF WholeInv, ComputedInv
<1>2. LostPrefix \subseteq LostPrefix'
  BY StepUsesKV, LostPrefixGrows DEF EngineInv, SchedInv
<1>3. CASE BeginStep \/ AdmitAllocate \/ AllocStep \/ AdmitRunning
  BY <1>1, <1>2, <1>3, BeginStepComputed, StartComputed, AllocStepComputed, AdmitRunningComputed
<1>4. CASE EndAdmit \/ EndRestore \/ EndGrow \/ EndStep \/ GrowCrash \/ RestoreCrash
  BY <1>1, <1>2, <1>4, StageMovesComputed
<1>5. CASE RestoreAllocate \/ RestoreRunning \/ GrowOne
  BY <1>1, <1>2, <1>5, StartComputed, RestoreRunningComputed, GrowOneComputed
<1>6. CASE PreemptFree \/ FinishFree \/ FreeStep \/ Preempt \/ Finish
  BY <1>1, <1>2, <1>6, FreeingComputed, LeavingComputed
<1>7. CASE Apply
  BY <1>1, <1>2, <1>7, ApplyComputed
<1>8. CASE Terminated \/ UNCHANGED vars
  <2>1. UNCHANGED vars
    BY <1>8 DEF Terminated
  <2>2. WholeCalls /\ HeldComputed
    BY <1>1 DEF WholeInv
  <2>3. UNCHANGED <<kvVars, engineVars>>
    BY <2>1 DEF vars
  <2>4. /\ Being' = Being /\ Freed' = Freed /\ Certain' = Certain /\ LostPrefix' = LostPrefix
        /\ PrefillSeqs' = PrefillSeqs
    BY <2>3 DEF Being, Freed, Certain, Awaited, AwaitedBy, NChunks, PrefillSeqs, LostPrefix,
                Victim, FinishNext, done, kvVars, engineVars, inputs, queues, seqVars, stepVars
  <2>5. WholeCalls'
    BY <2>2, <2>3, <2>4 DEF WholeCalls, OneCall, PlannedWhole, Matched, HitsBounded, NChunks,
                prompt_tokens, kvVars, engineVars, inputs, queues, seqVars, stepVars
  <2>6. HeldComputed'
    BY <2>2, <2>3, <2>4 DEF HeldComputed, BlocksComputed, RunningComputed, Prompted, HitsComputed,
                HashedComputed, Hashed, NChunks, kvVars, engineVars, inputs, queues, seqVars
  <2> QED
    BY <2>5, <2>6
<1> QED
  BY <1>3, <1>4, <1>5, <1>6, <1>7, <1>8 DEF Next, Step

\* What the run checks follows: the prefilled blocks of a running sequence are
\* those of its prompt, and all of them are computed.
LEMMA WholeFromComputed == EngineInv /\ ComputedInv => WholePrefillComputed
<1> SUFFICES ASSUME EngineInv, ComputedInv, ~cfg.enable_chunked_prefill, LostPrefix = {},
                    stage = "idle", NEW i \in DOMAIN running,
                    NEW j \in 1..(prefilled[running[i]] \div BlockSize)
             PROVE  tables[running[i]][j] \in computed
  BY DEF WholePrefillComputed, PrefilledIsComputed
<1>a. PICK s : s = running[i]
  OBVIOUS
<1>1. /\ running \in Seq(Seqs) /\ Range(running) \subseteq Seqs /\ req \in Workloads
      /\ prefilled \in [Seqs -> Nat]
  BY EngineTypes
<1>2. s \in Range(running) /\ s \in Seqs
  BY <1>a, <1>1 DEF Range
<1>3. OneCall /\ PlannedWhole /\ RunningComputed
  BY DEF ComputedInv, WholeCalls, HeldComputed, BlocksComputed
<1>4. Freed = {} /\ Certain = computed
  BY <1>3, NothingPlanned DEF Freed, PlannedWhole
<1>5. Prompted(s)
  BY <1>2, <1>3, <1>4 DEF OneCall, RunningComputed
<1>6. /\ prefilled[s] \in Nat /\ prefilled[s] <= prompt_tokens(s) /\ prompt_tokens(s) \in Nat
      /\ BlockSize \in Nat \ {0} /\ NChunks(s) \in Nat
  BY <1>1, <1>2, <1>3, PromptSizes DEF PlannedWhole
<1>7. j \in Nat /\ j >= 1 /\ j * BlockSize \in Nat /\ j * BlockSize <= prefilled[s]
  <2> DEFINE p == prefilled[s]
             q == p \div BlockSize
  <2>1. p \in Nat /\ BlockSize \in Nat \ {0} /\ j \in 1..q
    BY <1>a, <1>6
  <2> HIDE DEF p
  <2>2. q \in Nat /\ q * BlockSize <= p /\ q * BlockSize \in Nat
    BY <2>1
  <2> HIDE DEF q
  <2>3. j \in Nat /\ j >= 1 /\ j <= q
    BY <2>1, <2>2
  <2>4. j * BlockSize \in Nat /\ j * BlockSize <= q * BlockSize
    BY <2>1, <2>2, <2>3, TimesKeepsOrder
  <2> QED
    BY <2>1, <2>2, <2>3, <2>4 DEF p
<1>8. j * BlockSize <= prompt_tokens(s)
  BY <1>6, <1>7
<1>9. j \in 1..NChunks(s)
  BY <1>1, <1>2, <1>6, <1>7, <1>8, PromptSizes
<1> QED
  BY <1>a, <1>4, <1>5, <1>9 DEF Prompted

\* Without chunked prefill, and unless a half-built table was lost, the prompt
\* tokens that cache hits count as prefilled have their KV computed, for any
\* pool, workload and configuration.
THEOREM HitsAreComputed == Spec => []WholePrefillComputed
<1>1. EngineInv /\ ComputedInv /\ [Next]_vars => ComputedInv'
  BY ComputedStepKeeps
<1> QED
  BY <1>1, ComputedInit, WholeFromComputed, EngineInvariant, PTL DEF Spec
=============================================================================
