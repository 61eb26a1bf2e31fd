---------------------------- MODULE PagedKVCache ----------------------------
(***************************************************************************)
(* The PagedAttention block allocator of llmkit/simulator/paged.py: a pool *)
(* of fixed-size blocks, one block table per sequence, content-addressed   *)
(* prefix sharing with reference counts, copy-on-write, LRU eviction of    *)
(* unreferenced cached blocks.                                             *)
(*                                                                         *)
(* allocate_prompt and free are loops over blocks; each iteration is one   *)
(* step here, and no other call starts until the running one returns (the  *)
(* allocator is called from one thread).  The caller is left open: any     *)
(* sequence may be allocated, grown at any length it reports, and freed.   *)
(*                                                                         *)
(* A block's hash is the sequence of the chunks from the start of the      *)
(* prompt to that block: the chained blake2b digest without collisions.    *)
(*                                                                         *)
(* X_Y is a deliberately wrong variant of X, never used by the model: with *)
(* it in X's place some property of the module fails.                      *)
(***************************************************************************)
EXTENDS Integers, FiniteSets, Sequences, SequencesExt

CONSTANTS
  Seqs,                 \* the sequences that may hold a block table
  Chunk,                \* contents of one full block of tokens
  Prompts,              \* prompts: [chunks |-> full blocks, rem |-> tail tokens]
  NumBlocks,
  BlockSize,
  EnablePrefixCaching,
  Lens                  \* sequence lengths the caller may report to append_token

ASSUME KVAssumption ==
  /\ IsFiniteSet(Seqs)
  /\ NumBlocks \in Nat \ {0}
  /\ BlockSize \in Nat \ {0}
  /\ EnablePrefixCaching \in BOOLEAN
  /\ Lens \subseteq Nat
  /\ Prompts \subseteq [chunks : Seq(Chunk), rem : 0..(BlockSize - 1)]

VARIABLES
  free_ids,       \* stack of free block ids, taken from and returned to its end
  ref_count,      \* [Block -> Nat]
  content_hash,   \* [Block -> Hash], NoHash for None
  n_tokens,       \* [Block -> Nat]
  cache,          \* the keys and values of the OrderedDict hash -> block id
  lru,            \* its order, least recently used first
  tables,         \* the block table each sequence holds, or is being given
  prompt,         \* the prompt a table was allocated for, NoPrompt without one
  pc,             \* where each sequence stands: out, alloc, held, free
  matching,       \* allocate_prompt's flag: no miss so far
  hits,           \* blocks taken from the cache by the last allocate_prompt
  next,           \* free's loop position
  dropped         \* references held by tables that were lost unfreed

poolVars == <<free_ids, ref_count, content_hash, n_tokens, cache, lru>>
kvVars == <<free_ids, ref_count, content_hash, n_tokens, cache, lru, tables,
            prompt, pc, matching, hits, next, dropped>>

Block == 0..(NumBlocks - 1)
Hash == Seq(Chunk)
NoHash == <<>>
Prompt == [chunks : Seq(Chunk), rem : 0..(BlockSize - 1)]
NoPrompt == [chunks |-> <<>>, rem |-> 0]

hash_block_Unchained(prev_hash, chunk) == <<chunk>>
hash_block(prev_hash, chunk) == Append(prev_hash, chunk)

watermark_blocks == IF NumBlocks \div 100 > 1 THEN NumBlocks \div 100 ELSE 1
num_free == Len(free_ids)
Evictable == {h \in DOMAIN cache : ref_count[cache[h]] = 0}
num_evictable == Cardinality(Evictable)
can_allocate(n) == num_free + num_evictable >= n + watermark_blocks

-----------------------------------------------------------------------------
(***************************************************************************)
(* Deleting key h of the OrderedDict: its entry and its place in the order. *)
(***************************************************************************)
Uncache(c, h) == [k \in DOMAIN c \ {h} |-> c[k]]
DelKey(l, h) == IF \E i \in DOMAIN l : l[i] = h
                THEN RemoveAt(l, CHOOSE i \in DOMAIN l : l[i] = h)
                ELSE l

(***************************************************************************)
(* _evict_one scans the cache in LRU order for the first unreferenced      *)
(* block; _take_free_block pops the free list, after one eviction if it is *)
(* empty.  Both return a set: empty stands for the OutOfBlocks exception.  *)
(***************************************************************************)
EvictOne_AnyBlock == {i \in DOMAIN lru : i = 1}
EvictOne == {i \in DOMAIN lru : /\ lru[i] \in Evictable
                                /\ \A j \in 1..(i - 1) : lru[j] \notin Evictable}

TakeFreeBlock ==
  IF free_ids # <<>>
  THEN {[bid |-> Last(free_ids), free_ids |-> Front(free_ids),
         cache |-> cache, lru |-> lru]}
  ELSE {[bid |-> cache[lru[i]], free_ids |-> <<>>,
         cache |-> Uncache(cache, lru[i]),
         lru |-> DelKey(lru, lru[i])] : i \in EvictOne}

\* Whether a release leaves the block unreferenced, and whether it then stays.
LastReference_TooEarly(bid) == ref_count[bid] - 1 <= 1
LastReference(bid) == ref_count[bid] - 1 <= 0
Resident(bid) == EnablePrefixCaching /\ content_hash[bid] # NoHash
Released_NoDecrement(bid) == IF LastReference(bid) THEN 0 ELSE ref_count[bid]
Released(bid) == IF LastReference(bid) THEN 0 ELSE ref_count[bid] - 1

Idle == \A s \in Seqs : pc[s] \in {"out", "held"}

NFull(s) == Len(prompt[s].chunks)
NBlocks(p) == Len(p.chunks) + (IF p.rem > 0 THEN 1 ELSE 0)
NextHash(s) == hash_block(SubSeq(prompt[s].chunks, 1, Len(tables[s])),
                          prompt[s].chunks[Len(tables[s]) + 1])
Hit_OnlyIdle(s) ==
  /\ matching /\ NextHash(s) \in DOMAIN cache
  /\ ref_count[cache[NextHash(s)]] = 0
Hit(s) == matching /\ NextHash(s) \in DOMAIN cache

-----------------------------------------------------------------------------
AllocatePrompt(s, p) ==
  /\ Idle
  /\ pc[s] = "out"
  /\ pc' = [pc EXCEPT ![s] = "alloc"]
  /\ prompt' = [prompt EXCEPT ![s] = p]
  /\ tables' = [tables EXCEPT ![s] = <<>>]
  /\ hits' = [hits EXCEPT ![s] = 0]
  /\ matching' = EnablePrefixCaching
  /\ UNCHANGED <<poolVars, next, dropped>>

\* The block's content is cached and so is everything before it: share it.
HitBlock(s) ==
  /\ pc[s] = "alloc" /\ Len(tables[s]) < NFull(s)
  /\ Hit(s)
  /\ LET bh == NextHash(s)
         bid == cache[bh]
     IN /\ free_ids' = IF ref_count[bid] = 0 /\ Contains(free_ids, bid)
                       THEN RemoveFirst(free_ids, bid) ELSE free_ids
        /\ ref_count' = [ref_count EXCEPT ![bid] = @ + 1]
        /\ lru' = Append(DelKey(lru, bh), bh)
        /\ tables' = [tables EXCEPT ![s] = Append(@, bid)]
  /\ hits' = [hits EXCEPT ![s] = @ + 1]
  /\ UNCHANGED <<content_hash, n_tokens, cache, prompt, pc, matching, next, dropped>>

\* First miss and every full block after it: a fresh block, entered in the
\* cache over whatever the hash named before.
MissBlock(s) ==
  /\ pc[s] = "alloc" /\ Len(tables[s]) < NFull(s)
  /\ ~Hit(s)
  /\ \E t \in TakeFreeBlock :
       LET bh == NextHash(s)
       IN /\ free_ids' = t.free_ids
          /\ ref_count' = [ref_count EXCEPT ![t.bid] = 1]
          /\ n_tokens' = [n_tokens EXCEPT ![t.bid] = BlockSize]
          /\ content_hash' = [content_hash EXCEPT ![t.bid] = bh]
          /\ IF EnablePrefixCaching
             THEN /\ cache' = [h \in DOMAIN t.cache \cup {bh} |->
                                 IF h = bh THEN t.bid ELSE t.cache[h]]
                  /\ lru' = IF bh \in DOMAIN t.cache THEN t.lru ELSE Append(t.lru, bh)
             ELSE cache' = t.cache /\ lru' = t.lru
          /\ tables' = [tables EXCEPT ![s] = Append(@, t.bid)]
  /\ matching' = FALSE
  /\ UNCHANGED <<prompt, pc, hits, next, dropped>>

\* The fresh, unhashed block t.bid, holding n tokens, owned by one table.
TakeUnhashed(t, n) ==
  /\ free_ids' = t.free_ids
  /\ n_tokens' = [n_tokens EXCEPT ![t.bid] = n]
  /\ content_hash' = [content_hash EXCEPT ![t.bid] = NoHash]
  /\ cache' = t.cache
  /\ lru' = t.lru

\* The partial tail block: never cached.
TailBlock(s) ==
  /\ pc[s] = "alloc" /\ Len(tables[s]) = NFull(s)
  /\ prompt[s].rem > 0
  /\ \E t \in TakeFreeBlock :
       /\ TakeUnhashed(t, prompt[s].rem)
       /\ ref_count' = [ref_count EXCEPT ![t.bid] = 1]
       /\ tables' = [tables EXCEPT ![s] = Append(@, t.bid)]
  /\ UNCHANGED <<prompt, pc, matching, hits, next, dropped>>

\* The table of s is lost: the blocks it names keep their reference.
DropTable(s) ==
  /\ dropped' = [b \in Block |-> dropped[b] + (IF Contains(tables[s], b) THEN 1 ELSE 0)]
  /\ tables' = [tables EXCEPT ![s] = <<>>]
  /\ pc' = [pc EXCEPT ![s] = "out"]
  /\ prompt' = [prompt EXCEPT ![s] = NoPrompt]
  /\ hits' = [hits EXCEPT ![s] = 0]

\* OutOfBlocks leaves allocate_prompt and with it the local table.
RaiseOutOfBlocks(s) ==
  /\ pc[s] = "alloc" /\ Len(tables[s]) < NBlocks(prompt[s])
  /\ ~(Len(tables[s]) < NFull(s) /\ Hit(s))
  /\ TakeFreeBlock = {}
  /\ DropTable(s)
  /\ matching' = FALSE
  /\ UNCHANGED <<poolVars, next>>

AllocateReturn(s) ==
  /\ pc[s] = "alloc" /\ Len(tables[s]) = NBlocks(prompt[s])
  /\ pc' = [pc EXCEPT ![s] = "held"]
  /\ matching' = FALSE
  /\ UNCHANGED <<poolVars, tables, prompt, hits, next, dropped>>

-----------------------------------------------------------------------------
(***************************************************************************)
(* append_token(table, seq_len): three ways to place one token.  When a    *)
(* block is needed and TakeFreeBlock = {} the call raises and changes      *)
(* nothing, so that case is no step.                                       *)
(***************************************************************************)
offset(seq_len) == seq_len % BlockSize

GrowTable(s, seq_len) ==
  /\ Idle
  /\ offset(seq_len) = 0
  /\ \E t \in TakeFreeBlock :
       /\ TakeUnhashed(t, 1)
       /\ ref_count' = [ref_count EXCEPT ![t.bid] = 1]
       /\ tables' = [tables EXCEPT ![s] = Append(@, t.bid)]
  /\ pc' = [pc EXCEPT ![s] = "held"]
  /\ UNCHANGED <<prompt, matching, hits, next, dropped>>

WriteTail(s, seq_len) ==
  /\ Idle /\ pc[s] = "held"
  /\ offset(seq_len) # 0
  /\ tables[s] # <<>>
  /\ ref_count[Last(tables[s])] <= 1
  /\ n_tokens' = [n_tokens EXCEPT ![Last(tables[s])] = offset(seq_len) + 1]
  /\ UNCHANGED <<free_ids, ref_count, content_hash, cache, lru, tables, prompt, pc,
                 matching, hits, next, dropped>>

\* The tail is shared: move the write to a copy and release one reference of
\* the original, which keeps at least one.
CopyOnWrite(s, seq_len) ==
  /\ Idle /\ pc[s] = "held"
  /\ offset(seq_len) # 0
  /\ tables[s] # <<>>
  /\ LET tail == Last(tables[s])
     IN /\ ref_count[tail] > 1
        /\ \E t \in TakeFreeBlock :
             /\ TakeUnhashed(t, offset(seq_len) + 1)
             /\ ref_count' = [ref_count EXCEPT ![t.bid] = 1, ![tail] = Released(tail)]
             /\ tables' = [tables EXCEPT ![s][Len(tables[s])] = t.bid]
  /\ UNCHANGED <<prompt, pc, matching, hits, next, dropped>>

-----------------------------------------------------------------------------
\* The caller overwrites the table it holds without freeing it.
Overwrite(s) ==
  /\ Idle /\ pc[s] = "held"
  /\ DropTable(s)
  /\ UNCHANGED <<poolVars, matching, next>>

Free(s) ==
  /\ Idle /\ pc[s] = "held"
  /\ pc' = [pc EXCEPT ![s] = "free"]
  /\ next' = 1
  /\ UNCHANGED <<poolVars, tables, prompt, matching, hits, dropped>>

\* _release of one block: a cached block nobody references stays resident.
Release(s) ==
  /\ pc[s] = "free" /\ next <= Len(tables[s])
  /\ LET bid == tables[s][next]
     IN /\ ref_count' = [ref_count EXCEPT ![bid] = Released(bid)]
        /\ IF LastReference(bid) /\ ~Resident(bid)
           THEN /\ free_ids' = Append(free_ids, bid)
                /\ content_hash' = [content_hash EXCEPT ![bid] = NoHash]
                /\ cache' = Uncache(cache, content_hash[bid])
                /\ lru' = DelKey(lru, content_hash[bid])
           ELSE UNCHANGED <<free_ids, content_hash, cache, lru>>
  /\ next' = next + 1
  /\ UNCHANGED <<n_tokens, tables, prompt, pc, matching, hits, dropped>>

FreeReturn(s) ==
  /\ pc[s] = "free" /\ next > Len(tables[s])
  /\ pc' = [pc EXCEPT ![s] = "out"]
  /\ tables' = [tables EXCEPT ![s] = <<>>]
  /\ prompt' = [prompt EXCEPT ![s] = NoPrompt]
  /\ hits' = [hits EXCEPT ![s] = 0]
  /\ next' = 0
  /\ UNCHANGED <<poolVars, matching, dropped>>
-----------------------------------------------------------------------------
KVInit ==
  /\ free_ids = [i \in 1..NumBlocks |-> i - 1]
  /\ ref_count = [b \in Block |-> 0]
  /\ content_hash = [b \in Block |-> NoHash]
  /\ n_tokens = [b \in Block |-> 0]
  /\ cache = <<>>
  /\ lru = <<>>
  /\ tables = [s \in Seqs |-> <<>>]
  /\ prompt = [s \in Seqs |-> NoPrompt]
  /\ pc = [s \in Seqs |-> "out"]
  /\ matching = FALSE
  /\ hits = [s \in Seqs |-> 0]
  /\ next = 0
  /\ dropped = [b \in Block |-> 0]

allocate_prompt(s) ==
  \/ \E p \in Prompts : AllocatePrompt(s, p)
  \/ HitBlock(s)
  \/ MissBlock(s)
  \/ TailBlock(s)
  \/ RaiseOutOfBlocks(s)
  \/ AllocateReturn(s)

append_token(s, n) ==
  \/ GrowTable(s, n)
  \/ WriteTail(s, n)
  \/ CopyOnWrite(s, n)

free(s) ==
  \/ Free(s)
  \/ Release(s)
  \/ FreeReturn(s)

KVNext == \E s \in Seqs : \/ allocate_prompt(s)
                          \/ \E n \in Lens : append_token(s, n)
                          \/ free(s)
                          \/ Overwrite(s)

KVSpec == KVInit /\ [][KVNext]_kvVars

-----------------------------------------------------------------------------
\* Every variable has its type.
KVTypeOK ==
  /\ free_ids \in Seq(Block)
  /\ ref_count \in [Block -> Nat]
  /\ content_hash \in [Block -> Hash]
  /\ n_tokens \in [Block -> 0..BlockSize]
  /\ DOMAIN cache \subseteq Hash
  /\ cache \in [DOMAIN cache -> Block]
  /\ lru \in Seq(Hash)
  /\ tables \in [Seqs -> Seq(Block)]
  /\ prompt \in [Seqs -> Prompt]
  /\ pc \in [Seqs -> {"out", "alloc", "held", "free"}]
  /\ matching \in BOOLEAN
  /\ hits \in [Seqs -> Nat]
  /\ next \in Nat
  /\ dropped \in [Block -> Nat]

\* The positions of its table a sequence still owns: while free runs, the ones
\* it has not released yet.
Owned(s) == (IF pc[s] = "free" THEN next ELSE 1)..Len(tables[s])
Holders(b) == {s \in Seqs : \E i \in Owned(s) : tables[s][i] = b}

\* A block's reference count is the number of sequences whose table holds it,
\* plus the references of tables lost unfreed: _release, hits and
\* copy-on-write never count one twice or miss one.
RefCountExact ==
  \A b \in Block : ref_count[b] = Cardinality(Holders(b)) + dropped[b]

\* The free list names each block once, and only blocks that nobody holds and
\* the cache does not name: _take_free_block cannot hand out a block in use.
FreeListSound ==
  /\ IsInjective(free_ids)
  /\ \A i \in DOMAIN free_ids : /\ ref_count[free_ids[i]] = 0
                                /\ content_hash[free_ids[i]] = NoHash

\* Two tables share a block only at the same position and only when the two
\* prompts are identical up to and including it (hash_block chains the hashes).
SharedPrefixIdentical ==
  \A s, t \in Seqs : \A i \in Owned(s), j \in Owned(t) :
    (<<s, i>> # <<t, j>> /\ tables[s][i] = tables[t][j]) =>
      /\ i = j
      /\ SubSeq(prompt[s].chunks, 1, i) = SubSeq(prompt[t].chunks, 1, i)
      /\ i <= NFull(s)

\* A full block someone references is the one the cache names for its hash:
\* an overwrite of a cache entry never takes the entry of a block in use.
ReferencedStaysCached ==
  EnablePrefixCaching =>
    \A b \in Block :
      ref_count[b] > 0 /\ content_hash[b] # NoHash =>
        /\ content_hash[b] \in DOMAIN cache
        /\ cache[content_hash[b]] = b

\* While a sequence keeps its table, no step of another sequence's call gives
\* one of its blocks a new content.
HeldStays ==
  \A s \in Seqs : pc[s] = "held" /\ pc'[s] = "held" /\ tables'[s] = tables[s] =>
    \A i \in DOMAIN tables[s] :
      content_hash'[tables[s][i]] = content_hash[tables[s][i]]
HeldContentStable == [][HeldStays]_kvVars

\* Blocks that nobody references and that no allocation can reach any more.
Stranded ==
  {b \in Block : /\ ref_count[b] = 0
                 /\ ~Contains(free_ids, b)
                 /\ \A h \in DOMAIN cache : cache[h] # b}

\* A block nobody references is on the free list or can be evicted: the pool
\* never shrinks (paged.py: "A cached block stays resident and evictable").
UnreferencedIsReclaimable == Stranded = {}

-----------------------------------------------------------------------------
\* The parts of the inductive invariant behind the properties above.

\* A table names a block once: what is hit or taken is never already in it.
TablesOnce ==
  \A s \in Seqs : \A i, j \in DOMAIN tables[s] : tables[s][i] = tables[s][j] => i = j

CacheNamesHash ==
  \A h \in DOMAIN cache : h # NoHash /\ content_hash[cache[h]] = h

\* At most one call is running; free's loop stays within its table.
Lifecycle ==
  /\ \A s, t \in Seqs : pc[s] \in {"alloc", "free"} /\ pc[t] \in {"alloc", "free"} => s = t
  /\ \A s \in Seqs : /\ pc[s] = "out" => tables[s] = <<>>
                     /\ pc[s] = "free" => next \in 1..(Len(tables[s]) + 1)

\* A hashed block sits at the position its hash's length says, in tables whose
\* prompt begins with that hash.
HashedByPosition ==
  \A s \in Seqs : \A i \in Owned(s) :
    content_hash[tables[s][i]] # NoHash =>
      /\ i <= NFull(s)
      /\ content_hash[tables[s][i]] = SubSeq(prompt[s].chunks, 1, i)

\* An unhashed block (a tail, a grown block, a copy) has one holder.
UnhashedPrivate ==
  \A s, t \in Seqs : \A i \in Owned(s), j \in Owned(t) :
    tables[s][i] = tables[t][j] /\ content_hash[tables[s][i]] = NoHash => s = t

\* Every call of the allocator keeps all of these together: the reference
\* counts and the free list are right because tables do not repeat a block and
\* only full, equal prefixes are shared.
KVInv ==
  /\ KVTypeOK
  /\ RefCountExact
  /\ FreeListSound
  /\ CacheNamesHash
  /\ TablesOnce
  /\ Lifecycle
  /\ HashedByPosition
  /\ UnhashedPrivate
=============================================================================
