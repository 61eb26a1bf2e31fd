------------------------------ MODULE MCEngine ------------------------------
(***************************************************************************)
(* Instances of the engine: three requests, in the order of their names    *)
(* (priority scheduling may reverse it), on pools of a few blocks.         *)
(***************************************************************************)
EXTENDS Engine

CONSTANTS a, b, s1, s2, s3

Rank(s) == CASE s = s1 -> 1 [] s = s2 -> 2 [] OTHER -> 3
P(chunks, rem) == [chunks |-> chunks, rem |-> rem]
R(s, p, out) == [prompt |-> p, output_tokens |-> out, priority |-> 3 - Rank(s),
                 arrival |-> Rank(s)]
Chain(n, c) == [i \in 1..n |-> c]

\* Every mix of a few short shapes: with and without a partial tail, with a
\* shared first block, finishing at once or after some decoding.
ShortPrompts == {P(<<a>>, 0), P(<<a>>, 1), P(<<a, b>>, 0), P(<<b>>, 1)}
ShortWorkloads ==
  {[s \in Seqs |-> R(s, p[s], o[s])] :
     p \in [Seqs -> ShortPrompts], o \in [Seqs -> {1, 3}]}

\* A long shared prefix, a neighbour that grows block by block and evicts part
\* of it, and a third request that asks for the prefix again.
LongPrompts == {P(Chain(n, a), r) : n \in 0..4, r \in 0..1}
LongWorkloads ==
  {[s \in Seqs |-> CASE s = s1 -> R(s, P(Chain(n, a), r1), o1)
                     [] s = s2 -> R(s, P(<<>>, 1), o2)
                     [] OTHER  -> R(s, P(Chain(m, a), r3), o3)] :
     n \in {3, 4}, r1 \in {1}, o1 \in {1, 5}, o2 \in {6, 9},
     m \in {2, 4}, r3 \in {0, 1}, o3 \in {1, 2}}

\* The same on a pool so small that the neighbour evicts a sequence the grow
\* loop has yet to come to.
GrowWorkloads ==
  {[s \in Seqs |-> CASE s = s1 -> R(s, P(Chain(3, a), r1), 5)
                     [] s = s2 -> R(s, P(<<>>, 1), 6)
                     [] OTHER  -> R(s, P(<<a>>, r3), o3)] :
     r1 \in {0, 1}, r3 \in {0, 1}, o3 \in {1, 4}}

\* The configurations of the runs.
Config(seqs, tokens, threshold, mode, order, drafts) ==
  [max_num_seqs |-> seqs, max_num_batched_tokens |-> tokens,
   enable_chunked_prefill |-> threshold # -1,
   long_prefill_token_threshold |-> IF threshold = -1 THEN 0 ELSE threshold,
   preemption_mode |-> mode, scheduling |-> order, spec_draft_tokens |-> drafts]
Whole == -1                      \* no chunked prefill

AmpleConfigs == {Config(2, 3, Whole, "recompute", "priority", 0),
                 Config(2, 2, 2, "recompute", "fcfs", 0)}
PressureConfigs == {Config(3, 20, Whole, "recompute", "fcfs", 1),
                    Config(3, 20, Whole, "swap", "fcfs", 0)}
PassConfigs == AmpleConfigs \cup PressureConfigs
PassPrompts == ShortPrompts \cup LongPrompts
PassWorkloads == ShortWorkloads \cup LongWorkloads
RecomputeConfig == {Config(3, 20, Whole, "recompute", "fcfs", 0)}
ChunkedSwapConfig == {Config(3, 6, 0, "swap", "fcfs", 0)}
ChunkedConfig == {Config(3, 3, 1, "recompute", "fcfs", 0)}
\* Short requests on the ample configurations, long ones under pressure.
MCInit == Init /\ (cfg \in AmpleConfigs <=> req \in ShortWorkloads)
MCSpec == MCInit /\ [][Next]_vars /\ WF_vars(Step)
=============================================================================
