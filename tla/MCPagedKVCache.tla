--------------------------- MODULE MCPagedKVCache ---------------------------
EXTENDS PagedKVCache

CONSTANTS a, b, s1, s2

\* Two chains that share their first block, a shorter one, and a tail.
MCPrompts == { [chunks |-> <<a, a>>, rem |-> 0],
               [chunks |-> <<a, b>>, rem |-> 1],
               [chunks |-> <<b>>, rem |-> 1] }

\* Bound: a block's lost references, the only counter that can grow forever.
MaxDropped == 1
MCNext == KVNext /\ \A x \in Block : dropped'[x] <= MaxDropped
MCSpec == KVInit /\ [][MCNext]_kvVars

Symmetry == Permutations(Seqs)
=============================================================================
