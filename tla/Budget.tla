------------------------------- MODULE Budget -------------------------------
(***************************************************************************)
(* The KV cache budget of a deployment: compute_budget, what its result    *)
(* answers, and required_gpus of llmkit/kvcache.py.                        *)
(*                                                                         *)
(* Memory is counted in units of one head's keys and values of one token   *)
(* in one layer.  There is one pipeline stage, so that the world is the    *)
(* tensor parallel group; a window covers all layers or none.              *)
(* X_Y is a wrong variant of X, unused by the model.                       *)
(***************************************************************************)
EXTENDS Integers, FiniteSets, FiniteSetsExt

CONSTANTS
  KVHeads, Layers,             \* what the model may have
  SlidingWindows,              \* its sliding_window, 0 for none
  Weights, Usable,             \* weight_bytes; vram * gpu_memory_utilization
  Intermediates,               \* the part of the activation estimate that is sharded
  Overhead, NCCLBuffers,       \* what each rank needs: always; in a world of several
  BlockSizes,                  \* block_size
  Degrees, MaxTP,              \* tensor parallel degrees tried, up to max_tp
  SeqLens, Concurrencies       \* what may be asked for

ASSUME BudgetAssumption ==
  /\ KVHeads \cup Layers \cup BlockSizes \cup Degrees \cup SeqLens \cup Concurrencies \subseteq Nat \ {0}
  /\ SlidingWindows \cup Weights \cup Usable \subseteq Nat
  /\ {Intermediates, Overhead, NCCLBuffers, MaxTP} \subseteq Nat

VARIABLES
  model,                       \* [heads, layers, window, weights]
  usable, block_size,
  target                       \* [len, concurrency]

budgetVars == <<model, usable, block_size, target>>

-----------------------------------------------------------------------------
CeilDiv(a, b) == (a + b - 1) \div b

\* compute_budget: heads are sharded, and replicated beyond one per rank.
KVHeadsPerGPU(tp) == IF tp <= model.heads THEN Max({model.heads \div tp, 1}) ELSE 1
Rejected(tp) == tp <= model.heads /\ model.heads % tp # 0
KVBytesPerToken(tp) == model.layers * KVHeadsPerGPU(tp)
KVCache(tp) ==
  usable - CeilDiv(model.weights + Intermediates, tp) - Overhead - (IF tp > 1 THEN NCCLBuffers ELSE 0)
NumBlocks(tp) == Max({KVCache(tp), 0}) \div (block_size * KVBytesPerToken(tp))
CachedTokens(tp) == NumBlocks(tp) * block_size
Fits(tp) == KVCache(tp) > 0 /\ CachedTokens(tp) >= target.len

\* What the budget answers.
EffectiveLen(len) == IF model.window = 0 THEN len ELSE Min({len, model.window})
BlocksPerSeq_Floor(len) == EffectiveLen(len) \div block_size
BlocksPerSeq(len) == CeilDiv(EffectiveLen(len), block_size)
MaxConcurrentSeqs(tp, len) == NumBlocks(tp) \div Max({BlocksPerSeq(len), 1})
MaxSeqLen(tp, concurrency) == (NumBlocks(tp) \div concurrency) * block_size
EnoughHeadroom(tp) == NumBlocks(tp) >= Max({target.concurrency * BlocksPerSeq(target.len), 1})

\* required_gpus: the first degree that serves the target, 0 for none.
Serves(tp) == Fits(tp) /\ EnoughHeadroom(tp)
RequiredTP ==
  LET serving == {tp \in Degrees : tp <= MaxTP /\ Serves(tp)}
  IN IF serving = {} THEN 0 ELSE Min(serving)

BudgetInit ==
  /\ model \in [heads : KVHeads, layers : Layers, window : SlidingWindows, weights : Weights]
  /\ usable \in Usable /\ block_size \in BlockSizes
  /\ target \in [len : SeqLens, concurrency : Concurrencies]
BudgetSpec == BudgetInit /\ [][FALSE]_budgetVars

-----------------------------------------------------------------------------
\* A paged pool of whole blocks: sequences of these lengths all find their
\* blocks at once.
Placed(tp, len, n) == n * CeilDiv(EffectiveLen(len), block_size) <= NumBlocks(tp)

\* The keys and values the ranks hold are those of every head.
HeadsHeld(tp) == tp * KVHeadsPerGPU(tp) >= model.heads

\* "Predict before you OOM": the degree that required_gpus returns gives a pool
\* in which the target's sequences all find their blocks at once, and no
\* smaller degree tried does unless a full-length sequence overflows it; what
\* the budget says of concurrency and length it can keep, and one more of
\* either it cannot.  Each rank holds its share of every head, except for a
\* degree that does not divide the heads: required_gpus returns that one too,
\* with "vLLM will reject this configuration" among its problems.
BudgetIsSound ==
  /\ RequiredTP # 0 =>
       /\ Placed(RequiredTP, target.len, target.concurrency)
       /\ ~Rejected(RequiredTP) => HeadsHeld(RequiredTP)
       /\ \A tp \in Degrees : tp < RequiredTP /\ Placed(tp, target.len, target.concurrency) =>
            CachedTokens(tp) < target.len
  /\ \A tp \in Degrees :
       /\ \A n \in 1..target.concurrency + 2 :
            Placed(tp, target.len, n) <=> n <= MaxConcurrentSeqs(tp, target.len)
       /\ LET len == MaxSeqLen(tp, target.concurrency)
          IN /\ len > 0 => Placed(tp, len, target.concurrency)
             /\ model.window = 0 => ~Placed(tp, len + 1, target.concurrency)
=============================================================================
