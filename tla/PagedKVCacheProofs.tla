------------------------- MODULE PagedKVCacheProofs -------------------------
(***************************************************************************)
(* The allocator's safety for any pool, block size and set of sequences.   *)
(*                                                                         *)
(* KVInv is inductive.  The two facts every step rests on: a block that    *)
(* _take_free_block hands out is in nobody's table (TakeFacts), and a      *)
(* cached block that allocate_prompt hits is not yet in the caller's own   *)
(* table, because its hash has the length of its position (HitBlockInv).   *)
(* FillKeepsInv then serves every step that adds a block to a table,       *)
(* ReleasedBlock the ones that give a reference back.  Then: what the pool *)
(* can still hand out and what it has lost; and why the cache always knows *)
(* the blocks in use.                                                      *)
(***************************************************************************)
EXTENDS PagedKVCache, QueueFacts, FiniteSetTheorems, SequenceTheorems, TLAPS

\* What a sequence owns of its table are positions of the table.
LEMMA OwnedPositions ==
  ASSUME KVTypeOK, Lifecycle, NEW s \in Seqs
  PROVE  /\ Owned(s) \subseteq DOMAIN tables[s]
         /\ DOMAIN tables[s] = 1..Len(tables[s])
         /\ Len(tables[s]) \in Nat
         /\ \A i \in DOMAIN tables[s] : tables[s][i] \in Block
         /\ pc[s] # "free" => Owned(s) = DOMAIN tables[s]
  BY DEF KVTypeOK, Lifecycle, Owned

\* Deleting a key of the OrderedDict leaves an order of hashes.
LEMMA DelKeyType ==
  ASSUME NEW l \in Seq(Hash), NEW h
  PROVE  DelKey(l, h) \in Seq(Hash)
<1>1. CASE \E i \in DOMAIN l : l[i] = h
  <2> DEFINE k == CHOOSE i \in DOMAIN l : l[i] = h
  <2>1. k \in 1..Len(l)
    BY <1>1
  <2> HIDE DEF k
  <2>2. SubSeq(l, 1, k - 1) \in Seq(Hash) /\ SubSeq(l, k + 1, Len(l)) \in Seq(Hash)
    BY <2>1
  <2>3. RemoveAt(l, k) \in Seq(Hash)
    BY <2>2, ConcatProperties DEF RemoveAt
  <2> QED
    BY <1>1, <2>3 DEF DelKey, k
<1>2. CASE ~\E i \in DOMAIN l : l[i] = h
  BY <1>2 DEF DelKey
<1> QED
  BY <1>1, <1>2

\* A block in somebody's table has a reference count above zero.
LEMMA HeldIsReferenced ==
  ASSUME KVInv, NEW s \in Seqs, NEW i \in Owned(s)
  PROVE  ref_count[tables[s][i]] > 0
<1> DEFINE x == tables[s][i]
<1>1. x \in Block
  BY OwnedPositions DEF KVInv
<1>2. s \in Holders(x)
  BY DEF Holders
<1>3. IsFiniteSet(Holders(x))
  BY KVAssumption, FS_Subset DEF Holders
<1>4. Cardinality(Holders(x)) \in Nat /\ Cardinality(Holders(x)) # 0
  BY <1>2, <1>3, FS_CardinalityType, FS_EmptySet
<1>5. dropped[x] \in Nat /\ ref_count[x] = Cardinality(Holders(x)) + dropped[x]
  BY <1>1 DEF KVInv, RefCountExact, KVTypeOK
<1> QED
  BY <1>4, <1>5

\* What a caller of _take_free_block relies on: the block is referenced by no
\* one, and neither the free list nor the cache names it any longer.
Takes(t) ==
  /\ t.bid \in Block
  /\ ref_count[t.bid] = 0
  /\ \A s \in Seqs : \A i \in Owned(s) : tables[s][i] # t.bid
  /\ t.free_ids \in Seq(Block)
  /\ \A i, j \in DOMAIN t.free_ids : t.free_ids[i] = t.free_ids[j] => i = j
  /\ \A i \in DOMAIN t.free_ids : /\ t.free_ids[i] # t.bid
                                  /\ ref_count[t.free_ids[i]] = 0
                                  /\ content_hash[t.free_ids[i]] = NoHash
  /\ DOMAIN t.cache \subseteq DOMAIN cache
  /\ t.cache \in [DOMAIN t.cache -> Block]
  /\ \A h \in DOMAIN t.cache : t.cache[h] = cache[h] /\ t.cache[h] # t.bid
  /\ t.lru \in Seq(Hash)

\* _take_free_block, with or without an eviction, returns such a block.
LEMMA TakeFacts ==
  ASSUME KVInv, NEW t \in TakeFreeBlock
  PROVE  Takes(t)
<1> USE DEF KVInv
<1>1. \A x \in Block : ref_count[x] = 0 =>
        \A s \in Seqs : \A i \in Owned(s) : tables[s][i] # x
  BY HeldIsReferenced
<1>2. CASE free_ids # <<>>
  <2>1. t = [bid |-> Last(free_ids), free_ids |-> Front(free_ids),
             cache |-> cache, lru |-> lru]
    BY <1>2 DEF TakeFreeBlock
  <2>2. Len(free_ids) \in Nat \ {0} /\ free_ids \in Seq(Block)
    BY <1>2 DEF KVTypeOK
  <2>3. t.bid = free_ids[Len(free_ids)] /\ t.bid \in Block
    BY <2>1, <2>2 DEF Last
  <2>4. ref_count[t.bid] = 0 /\ content_hash[t.bid] = NoHash
    BY <2>2, <2>3 DEF FreeListSound
  <2>5. /\ t.free_ids \in Seq(Block)
        /\ DOMAIN t.free_ids = 1..(Len(free_ids) - 1)
        /\ \A i \in DOMAIN t.free_ids : t.free_ids[i] = free_ids[i]
    BY <2>1, <2>2 DEF Front
  <2>6. \A i \in DOMAIN t.free_ids : /\ t.free_ids[i] # t.bid
                                     /\ ref_count[t.free_ids[i]] = 0
                                     /\ content_hash[t.free_ids[i]] = NoHash
    BY <2>2, <2>3, <2>5 DEF FreeListSound, IsInjective
  <2>7. \A i, j \in DOMAIN t.free_ids : t.free_ids[i] = t.free_ids[j] => i = j
    BY <2>2, <2>5 DEF FreeListSound, IsInjective
  <2>8. \A h \in DOMAIN t.cache : t.cache[h] = cache[h] /\ t.cache[h] # t.bid
    BY <2>1, <2>4 DEF CacheNamesHash
  <2>9. t.cache = cache /\ t.lru = lru
    BY <2>1
  <2> QED
    BY <1>1, <2>3, <2>4, <2>5, <2>6, <2>7, <2>8, <2>9 DEF Takes, KVTypeOK
<1>3. CASE free_ids = <<>>
  <2>1. PICK i \in EvictOne :
          t = [bid |-> cache[lru[i]], free_ids |-> <<>>,
               cache |-> Uncache(cache, lru[i]), lru |-> DelKey(lru, lru[i])]
    BY <1>3 DEF TakeFreeBlock
  <2> DEFINE h == lru[i]
  <2>2. h \in DOMAIN cache /\ ref_count[cache[h]] = 0
    BY DEF EvictOne, Evictable
  <2>3. t.bid = cache[h] /\ t.bid \in Block
    BY <2>1, <2>2 DEF KVTypeOK
  <2>4. t.free_ids = <<>> /\ t.free_ids \in Seq(Block) /\ DOMAIN t.free_ids = {}
    BY <2>1
  <2>5. /\ DOMAIN t.cache = DOMAIN cache \ {h}
        /\ \A k \in DOMAIN t.cache : t.cache[k] = cache[k]
        /\ t.cache \in [DOMAIN t.cache -> Block]
    BY <2>1 DEF Uncache, KVTypeOK
  <2>6. \A k \in DOMAIN t.cache : t.cache[k] # t.bid
    BY <2>2, <2>3, <2>5 DEF CacheNamesHash
  <2>7. t.lru \in Seq(Hash)
    BY <2>1, DelKeyType DEF KVTypeOK
  <2> QED
    BY <1>1, <2>2, <2>3, <2>4, <2>5, <2>6, <2>7 DEF Takes
<1> QED
  BY <1>2, <1>3

\* The holders of a block can be counted.
LEMMA HoldersFinite ==
  ASSUME NEW x
  PROVE  IsFiniteSet(Holders(x)) /\ Cardinality(Holders(x)) \in Nat
  BY KVAssumption, FS_Subset, FS_CardinalityType DEF Holders

\* The first i chunks of a prompt are i.
LEMMA FirstChunks ==
  ASSUME KVTypeOK, NEW s \in Seqs, NEW i \in 1..NFull(s)
  PROVE  Len(SubSeq(prompt[s].chunks, 1, i)) = i
<1>1. PICK c : c = prompt[s].chunks
  OBVIOUS
<1>2. c \in Seq(Chunk) /\ i \in 1..Len(c)
  BY <1>1 DEF KVTypeOK, Prompt, NFull
<1> QED
  BY <1>1, <1>2

\* The chained hash of the next block is the prompt up to and including it.
LEMMA NextHashIsPrefix ==
  ASSUME KVTypeOK, NEW s \in Seqs, Len(tables[s]) < NFull(s)
  PROVE  /\ NextHash(s) = SubSeq(prompt[s].chunks, 1, Len(tables[s]) + 1)
         /\ NextHash(s) \in Hash
         /\ Len(NextHash(s)) = Len(tables[s]) + 1
         /\ NextHash(s) # NoHash
<1> DEFINE c == prompt[s].chunks
           k == Len(tables[s])
<1>1. c \in Seq(Chunk) /\ k \in Nat /\ k < Len(c)
  BY DEF KVTypeOK, Prompt, NFull
<1> HIDE DEF c, k
<1>2. Append(SubSeq(c, 1, k), c[k + 1]) = SubSeq(c, 1, k + 1)
  BY <1>1
<1>3. SubSeq(c, 1, k + 1) \in Seq(Chunk) /\ Len(SubSeq(c, 1, k + 1)) = k + 1
  BY <1>1
<1>4. SubSeq(c, 1, k + 1) # <<>>
  BY <1>1, <1>3
<1> QED
  BY <1>2, <1>3, <1>4 DEF NextHash, hash_block, Hash, NoHash, c, k

\* Appending a block to a table and counting one reference keeps the counts
\* exact and the table without repetition.
LEMMA AppendBlock ==
  ASSUME KVInv, NEW s \in Seqs, NEW x \in Block,
         \A i \in Owned(s) : tables[s][i] # x,
         tables' = [tables EXCEPT ![s] = Append(@, x)],
         ref_count' = [ref_count EXCEPT ![x] = ref_count[x] + 1],
         pc[s] # "free", pc'[s] # "free",
         \A u \in Seqs \ {s} : pc'[u] = pc[u],
         next' = next, dropped' = dropped
  PROVE  /\ tables' \in [Seqs -> Seq(Block)]
         /\ ref_count' \in [Block -> Nat]
         /\ RefCountExact'
         /\ TablesOnce'
         /\ Owned(s)' = Owned(s) \cup {Len(tables[s]) + 1}
         /\ tables'[s][Len(tables[s]) + 1] = x
         /\ \A i \in Owned(s) : i <= Len(tables[s]) /\ tables'[s][i] = tables[s][i]
         /\ \A u \in Seqs \ {s} : Owned(u)' = Owned(u) /\ tables'[u] = tables[u]
<1> USE DEF KVInv
<1>1. /\ tables \in [Seqs -> Seq(Block)]
      /\ ref_count \in [Block -> Nat]
      /\ dropped \in [Block -> Nat]
  BY DEF KVTypeOK
<1>2. tables[s] \in Seq(Block) /\ Len(tables[s]) \in Nat
  BY <1>1
<1>3. tables'[s] = Append(tables[s], x) /\ \A u \in Seqs \ {s} : tables'[u] = tables[u]
  BY <1>1
<1>4. /\ Len(tables'[s]) = Len(tables[s]) + 1
      /\ DOMAIN tables'[s] = 1..(Len(tables[s]) + 1)
      /\ tables'[s][Len(tables[s]) + 1] = x
      /\ \A i \in 1..Len(tables[s]) : tables'[s][i] = tables[s][i]
  BY <1>2, <1>3
<1>5. tables' \in [Seqs -> Seq(Block)] /\ ref_count' \in [Block -> Nat]
  BY <1>1, <1>2
<1>6. Owned(s) = 1..Len(tables[s]) /\ Owned(s)' = 1..(Len(tables[s]) + 1)
  BY <1>4 DEF Owned
<1>7. Owned(s)' = Owned(s) \cup {Len(tables[s]) + 1}
  BY <1>2, <1>6
<1>8. \A u \in Seqs \ {s} : Owned(u)' = Owned(u)
  BY <1>3 DEF Owned
<1>9. TablesOnce'
  <2>1. \A i, j \in DOMAIN tables'[s] : tables'[s][i] = tables'[s][j] => i = j
    BY <1>2, <1>4, <1>6 DEF TablesOnce
  <2> QED
    BY <1>3, <2>1 DEF TablesOnce
<1>10. RefCountExact'
  <2> SUFFICES ASSUME NEW y \in Block
               PROVE  ref_count'[y] = Cardinality(Holders(y)') + dropped'[y]
    BY DEF RefCountExact
  <2>1. ref_count[y] = Cardinality(Holders(y)) + dropped[y]
    BY DEF RefCountExact
  <2>2. CASE y = x
    <3>1. s \notin Holders(x)
      BY DEF Holders
    <3>2. Holders(x)' = Holders(x) \cup {s}
      BY <1>3, <1>4, <1>7, <1>8 DEF Holders
    <3>3. Cardinality(Holders(x)') = Cardinality(Holders(x)) + 1
      BY <3>1, <3>2, HoldersFinite, FS_AddElement
    <3> QED
      BY <1>1, <2>1, <2>2, <3>3, HoldersFinite
  <2>3. CASE y # x
    <3>1. \A u \in Seqs : (\E i \in Owned(u)' : tables'[u][i] = y)
                          <=> (\E i \in Owned(u) : tables[u][i] = y)
      <4> SUFFICES ASSUME NEW u \in Seqs
                   PROVE  (\E i \in Owned(u)' : tables'[u][i] = y)
                          <=> (\E i \in Owned(u) : tables[u][i] = y)
        OBVIOUS
      <4>1. CASE u = s
        BY <4>1, <1>2, <1>4, <1>6, <1>7, <2>3
      <4>2. CASE u # s
        BY <4>2, <1>3, <1>8
      <4> QED
        BY <4>1, <4>2
    <3>2. Holders(y)' = Holders(y)
      BY <3>1 DEF Holders
    <3> QED
      BY <1>1, <2>1, <2>3, <3>2
  <2> QED
    BY <2>2, <2>3
<1> QED
  BY <1>3, <1>4, <1>5, <1>6, <1>7, <1>8, <1>9, <1>10

\* A step that appends block x, carrying hash bh, to the table of s.
Fills(s, x, bh) ==
  /\ \A i \in Owned(s) : tables[s][i] # x
  /\ tables' = [tables EXCEPT ![s] = Append(@, x)]
  /\ ref_count' = [ref_count EXCEPT ![x] = ref_count[x] + 1]
  /\ content_hash' = [content_hash EXCEPT ![x] = bh]
  /\ pc[s] # "free" /\ pc' \in [Seqs -> {"out", "alloc", "held", "free"}]
  /\ pc'[s] \in {"alloc", "held"} /\ (pc'[s] = "alloc" => pc[s] = "alloc")
  /\ \A u \in Seqs \ {s} : pc'[u] = pc[u]
  /\ next' = next /\ dropped' = dropped /\ prompt' = prompt
  /\ free_ids' \in Seq(Block)
  /\ \A i, j \in DOMAIN free_ids' : free_ids'[i] = free_ids'[j] => i = j
  /\ \A i \in DOMAIN free_ids' : /\ free_ids'[i] # x
                                 /\ ref_count[free_ids'[i]] = 0
                                 /\ content_hash[free_ids'[i]] = NoHash
  /\ n_tokens' \in [Block -> 0..BlockSize]
  /\ DOMAIN cache' \subseteq Hash /\ cache' \in [DOMAIN cache' -> Block]
  /\ \A h \in DOMAIN cache' : h # NoHash /\ content_hash'[cache'[h]] = h
  /\ lru' \in Seq(Hash) /\ matching' \in BOOLEAN /\ hits' \in [Seqs -> Nat]
  /\ bh # NoHash => /\ Len(tables[s]) < NFull(s)
                    /\ bh = SubSeq(prompt[s].chunks, 1, Len(tables[s]) + 1)
  /\ \/ \A u \in Seqs : \A i \in Owned(u) : tables[u][i] # x
     \/ bh # NoHash /\ content_hash[x] = bh

\* Giving a table one more block keeps the invariant, when the block is new to
\* everybody or already carries the hash of that position.
LEMMA FillKeepsInv ==
  ASSUME KVInv, NEW s \in Seqs, NEW x \in Block, NEW bh \in Hash, Fills(s, x, bh)
  PROVE  KVInv'
<1>1. /\ tables' \in [Seqs -> Seq(Block)]
      /\ ref_count' \in [Block -> Nat]
      /\ RefCountExact'
      /\ TablesOnce'
      /\ Owned(s)' = Owned(s) \cup {Len(tables[s]) + 1}
      /\ tables'[s][Len(tables[s]) + 1] = x
      /\ \A i \in Owned(s) : i <= Len(tables[s]) /\ tables'[s][i] = tables[s][i]
      /\ \A u \in Seqs \ {s} : Owned(u)' = Owned(u) /\ tables'[u] = tables[u]
  <2>1. /\ \A i \in Owned(s) : tables[s][i] # x
        /\ tables' = [tables EXCEPT ![s] = Append(@, x)]
        /\ ref_count' = [ref_count EXCEPT ![x] = ref_count[x] + 1]
        /\ pc[s] # "free" /\ pc'[s] # "free"
        /\ \A u \in Seqs \ {s} : pc'[u] = pc[u]
        /\ next' = next /\ dropped' = dropped
    BY DEF Fills
  <2> QED
    BY <2>1, AppendBlock
<1> USE DEF KVInv
<1>2. \A u \in Seqs : /\ Owned(u) \subseteq DOMAIN tables[u]
                      /\ \A i \in Owned(u) : tables[u][i] \in Block
                      /\ Len(tables[u]) \in Nat
                      /\ Owned(u) \subseteq Nat
  BY OwnedPositions
<1>3. content_hash \in [Block -> Hash] /\ content_hash' \in [Block -> Hash]
  BY DEF KVTypeOK, Fills
<1>0. content_hash'[x] = bh /\ \A y \in Block : y # x => content_hash'[y] = content_hash[y]
  BY <1>3 DEF Fills
<1>4. KVTypeOK'
  BY <1>1, <1>3 DEF KVTypeOK, Fills
<1>5. FreeListSound'
  <2>1. \A y \in Block : y # x => ref_count'[y] = ref_count[y]
    BY DEF Fills, KVTypeOK
  <2>2. \A i \in DOMAIN free_ids' : /\ free_ids'[i] \in Block /\ free_ids'[i] # x
                                    /\ ref_count[free_ids'[i]] = 0
                                    /\ content_hash[free_ids'[i]] = NoHash
    BY DEF Fills
  <2>3. \A i \in DOMAIN free_ids' : /\ ref_count'[free_ids'[i]] = 0
                                    /\ content_hash'[free_ids'[i]] = NoHash
    BY <1>0, <2>1, <2>2
  <2> QED
    BY <2>3 DEF FreeListSound, IsInjective, Fills
<1>6. CacheNamesHash'
  BY DEF CacheNamesHash, Fills
<1>7. Lifecycle'
  <2>1. \A u, v \in Seqs : pc'[u] \in {"alloc", "free"} /\ pc'[v] \in {"alloc", "free"} => u = v
    BY DEF Lifecycle, Fills
  <2>2. \A u \in Seqs : /\ pc'[u] = "out" => tables'[u] = <<>>
                        /\ pc'[u] = "free" => next' \in 1..(Len(tables'[u]) + 1)
    <3>1. \A u \in Seqs : u # s =>
            /\ pc'[u] = "out" => tables[u] = <<>>
            /\ pc'[u] = "free" => next \in 1..(Len(tables[u]) + 1)
      BY DEF Lifecycle, Fills
    <3>2. pc'[s] # "out" /\ pc'[s] # "free" /\ next' = next
      BY DEF Fills
    <3>3. \A u \in Seqs : u # s => tables'[u] = tables[u]
      BY <1>1
    <3> SUFFICES ASSUME NEW u \in Seqs
                 PROVE  /\ pc'[u] = "out" => tables'[u] = <<>>
                        /\ pc'[u] = "free" => next' \in 1..(Len(tables'[u]) + 1)
      OBVIOUS
    <3>4. CASE u = s
      BY <3>2, <3>4
    <3>5. CASE u # s
      BY <3>1, <3>2, <3>3, <3>5
    <3> QED
      BY <3>4, <3>5
  <2> QED
    BY <2>1, <2>2 DEF Lifecycle
<1>8. HashedByPosition'
  <2> SUFFICES ASSUME NEW u \in Seqs, NEW i \in Owned(u)',
                      content_hash'[tables'[u][i]] # NoHash
               PROVE  /\ i <= NFull(u)'
                      /\ content_hash'[tables'[u][i]] = SubSeq(prompt'[u].chunks, 1, i)
    BY DEF HashedByPosition
  <2>1. CASE u = s /\ i = Len(tables[s]) + 1
    <3>1. /\ tables'[u][i] = x /\ content_hash'[x] = bh /\ bh # NoHash
          /\ prompt' = prompt /\ Len(tables[s]) \in Nat
      BY <2>1, <1>0, <1>1, <1>2 DEF Fills
    <3>2. Len(tables[s]) < NFull(s) /\ bh = SubSeq(prompt[s].chunks, 1, i)
      BY <2>1, <3>1 DEF Fills
    <3>3. NFull(s) \in Nat
      BY DEF NFull, KVTypeOK, Prompt
    <3> QED
      BY <2>1, <3>1, <3>2, <3>3 DEF NFull
  <2>2. CASE ~(u = s /\ i = Len(tables[s]) + 1)
    <3>1. i \in Owned(u) /\ tables'[u][i] = tables[u][i] /\ tables[u][i] \in Block
      BY <2>2, <1>1, <1>2
    <3>2. content_hash'[tables[u][i]] = content_hash[tables[u][i]]
      BY <3>1, <1>0, <2>2, <1>1 DEF Fills
    <3>3. prompt' = prompt
      BY DEF Fills
    <3> QED
      BY <3>1, <3>2, <3>3 DEF HashedByPosition, NFull
  <2> QED
    BY <2>1, <2>2
<1>9. UnhashedPrivate'
  <2> SUFFICES ASSUME NEW u \in Seqs, NEW v \in Seqs,
                      NEW i \in Owned(u)', NEW j \in Owned(v)',
                      tables'[u][i] = tables'[v][j],
                      content_hash'[tables'[u][i]] = NoHash
               PROVE  u = v
    BY DEF UnhashedPrivate
  <2>1. CASE tables'[u][i] = x
    <3>1. bh = NoHash
      BY <2>1, <1>0
    <3>2. \A w \in Seqs : \A k \in Owned(w) : tables[w][k] # x
      BY <3>1 DEF Fills
    <3>3. ASSUME NEW w \in Seqs, w # s, NEW k \in Owned(w)' PROVE tables'[w][k] # x
      <4>1. Owned(w)' = Owned(w) /\ tables'[w] = tables[w]
        BY <1>1, <3>3
      <4> QED
        BY <3>2, <4>1
    <3>4. u = s /\ v = s
      BY <3>3, <2>1 DEF Owned
    <3> QED
      BY <3>4
  <2>2. CASE tables'[u][i] # x
    <3>1. \A w \in Seqs : \A k \in Owned(w)' : tables'[w][k] # x =>
            k \in Owned(w) /\ tables'[w][k] = tables[w][k] /\ tables[w][k] \in Block
      BY <1>1, <1>2
    <3>2. /\ i \in Owned(u) /\ tables'[u][i] = tables[u][i] /\ tables[u][i] \in Block
          /\ j \in Owned(v) /\ tables'[v][j] = tables[v][j]
      BY <3>1, <2>2 DEF Owned
    <3>3. content_hash'[tables[u][i]] = content_hash[tables[u][i]]
      BY <3>2, <2>2, <1>0
    <3> QED
      BY <3>2, <3>3 DEF UnhashedPrivate
  <2> QED
    BY <2>1, <2>2
<1> QED
  BY <1>1, <1>4, <1>5, <1>6, <1>7, <1>8, <1>9

\* allocate_prompt's cache hit keeps the invariant.
LEMMA HitBlockInv ==
  ASSUME KVInv, NEW s \in Seqs, HitBlock(s)
  PROVE  KVInv'
<1> DEFINE bh == NextHash(s)
           x == cache[bh]
<1> USE DEF KVInv
<1>1. /\ bh = SubSeq(prompt[s].chunks, 1, Len(tables[s]) + 1)
      /\ bh \in Hash /\ bh # NoHash
      /\ Len(bh) = Len(tables[s]) + 1
  BY NextHashIsPrefix DEF HitBlock
<1>2. /\ bh \in DOMAIN cache /\ x \in Block /\ content_hash[x] = bh
      /\ pc[s] = "alloc" /\ Len(tables[s]) < NFull(s)
  BY DEF HitBlock, Hit, CacheNamesHash, KVTypeOK
<1>3. \A i \in Owned(s) : tables[s][i] # x
  <2> SUFFICES ASSUME NEW i \in Owned(s), tables[s][i] = x PROVE FALSE
    OBVIOUS
  <2>1. i \in 1..Len(tables[s]) /\ Len(tables[s]) \in Nat
    BY OwnedPositions
  <2>2. bh = SubSeq(prompt[s].chunks, 1, i) /\ i <= NFull(s)
    BY <1>1, <1>2 DEF HashedByPosition
  <2>3. Len(SubSeq(prompt[s].chunks, 1, i)) = i
    BY <2>1, <2>2 DEF NFull, KVTypeOK, Prompt
  <2> QED
    BY <1>1, <2>1, <2>2, <2>3
<1> HIDE DEF bh, x
<1>4. ~Contains(free_ids, x)
  <2>1. \A i \in DOMAIN free_ids : free_ids[i] # x
    BY <1>1, <1>2 DEF FreeListSound
  <2>2. DOMAIN free_ids = 1..Len(free_ids)
    BY DEF KVTypeOK
  <2> QED
    BY <2>1, <2>2 DEF Contains
<1>5. /\ free_ids' = free_ids
      /\ ref_count' = [ref_count EXCEPT ![x] = ref_count[x] + 1]
      /\ lru' = Append(DelKey(lru, bh), bh)
      /\ tables' = [tables EXCEPT ![s] = Append(@, x)]
      /\ hits' = [hits EXCEPT ![s] = @ + 1]
      /\ UNCHANGED <<content_hash, n_tokens, cache, prompt, pc, matching, next, dropped>>
  BY <1>4 DEF HitBlock, bh, x
<1>6. content_hash' = [content_hash EXCEPT ![x] = bh]
  BY <1>2, <1>5 DEF KVTypeOK
<1>7. lru' \in Seq(Hash) /\ hits' \in [Seqs -> Nat]
  BY <1>1, <1>5, DelKeyType DEF KVTypeOK
<1>8. \A i \in DOMAIN free_ids' : /\ free_ids'[i] # x
                                  /\ ref_count[free_ids'[i]] = 0
                                  /\ content_hash[free_ids'[i]] = NoHash
  BY <1>1, <1>2, <1>5 DEF FreeListSound
<1>9. \A i, j \in DOMAIN free_ids' : free_ids'[i] = free_ids'[j] => i = j
  BY <1>5 DEF FreeListSound, IsInjective
<1>10. /\ pc' \in [Seqs -> {"out", "alloc", "held", "free"}]
       /\ n_tokens' \in [Block -> 0..BlockSize]
       /\ DOMAIN cache' \subseteq Hash /\ cache' \in [DOMAIN cache' -> Block]
       /\ matching' \in BOOLEAN /\ free_ids' \in Seq(Block)
       /\ pc[s] # "free" /\ pc'[s] = "alloc" /\ pc[s] = "alloc"
       /\ \A u \in Seqs \ {s} : pc'[u] = pc[u]
       /\ next' = next /\ dropped' = dropped /\ prompt' = prompt
  BY <1>2, <1>5 DEF KVTypeOK
<1>11. \A h \in DOMAIN cache' : h # NoHash /\ content_hash'[cache'[h]] = h
  BY <1>5 DEF CacheNamesHash
<1>12. /\ tables' = [tables EXCEPT ![s] = Append(@, x)]
       /\ ref_count' = [ref_count EXCEPT ![x] = ref_count[x] + 1]
  BY <1>5
<1>13. Fills(s, x, bh)
  BY <1>1, <1>2, <1>3, <1>6, <1>7, <1>8, <1>9, <1>10, <1>11, <1>12 DEF Fills
<1> HIDE DEF KVInv
<1> QED
  BY <1>1, <1>2, <1>13, FillKeepsInv

\* allocate_prompt's miss keeps the invariant, also when it overwrites an entry.
LEMMA MissBlockInv ==
  ASSUME KVInv, NEW s \in Seqs, MissBlock(s)
  PROVE  KVInv'
<1> DEFINE bh == NextHash(s)
<1> USE DEF KVInv
<1>1. /\ bh = SubSeq(prompt[s].chunks, 1, Len(tables[s]) + 1)
      /\ bh \in Hash /\ bh # NoHash
      /\ pc[s] = "alloc" /\ Len(tables[s]) < NFull(s)
  BY NextHashIsPrefix DEF MissBlock
<1> HIDE DEF bh
<1>2. PICK t \in TakeFreeBlock :
        /\ free_ids' = t.free_ids
        /\ ref_count' = [ref_count EXCEPT ![t.bid] = 1]
        /\ n_tokens' = [n_tokens EXCEPT ![t.bid] = BlockSize]
        /\ content_hash' = [content_hash EXCEPT ![t.bid] = bh]
        /\ IF EnablePrefixCaching
           THEN /\ cache' = [h \in DOMAIN t.cache \cup {bh} |->
                               IF h = bh THEN t.bid ELSE t.cache[h]]
                /\ lru' = IF bh \in DOMAIN t.cache THEN t.lru ELSE Append(t.lru, bh)
           ELSE cache' = t.cache /\ lru' = t.lru
        /\ tables' = [tables EXCEPT ![s] = Append(@, t.bid)]
  BY DEF MissBlock, bh
<1>3. matching' = FALSE /\ UNCHANGED <<prompt, pc, hits, next, dropped>>
  BY DEF MissBlock
<1>4. Takes(t)
  BY TakeFacts
<1> DEFINE x == t.bid
<1>5. /\ x \in Block /\ ref_count[x] = 0
      /\ \A u \in Seqs : \A i \in Owned(u) : tables[u][i] # x
      /\ free_ids' \in Seq(Block)
      /\ \A i, j \in DOMAIN free_ids' : free_ids'[i] = free_ids'[j] => i = j
      /\ \A i \in DOMAIN free_ids' : /\ free_ids'[i] # x
                                     /\ ref_count[free_ids'[i]] = 0
                                     /\ content_hash[free_ids'[i]] = NoHash
  BY <1>2, <1>4 DEF Takes
<1>6. /\ DOMAIN t.cache \subseteq Hash /\ t.cache \in [DOMAIN t.cache -> Block]
      /\ \A h \in DOMAIN t.cache :
           h # NoHash /\ t.cache[h] # x /\ content_hash[t.cache[h]] = h
      /\ t.lru \in Seq(Hash)
  BY <1>4 DEF Takes, CacheNamesHash, KVTypeOK
<1>7. /\ ref_count' = [ref_count EXCEPT ![x] = ref_count[x] + 1]
      /\ content_hash' = [content_hash EXCEPT ![x] = bh]
      /\ tables' = [tables EXCEPT ![s] = Append(@, x)]
  BY <1>2, <1>5
<1>8. n_tokens' \in [Block -> 0..BlockSize]
  <2>1. n_tokens \in [Block -> 0..BlockSize] /\ BlockSize \in 0..BlockSize
    BY KVAssumption DEF KVTypeOK
  <2>2. n_tokens' = [n_tokens EXCEPT ![x] = BlockSize]
    BY <1>2
  <2> QED
    BY <2>1, <2>2
<1>9. lru' \in Seq(Hash)
  <2>1. lru' = t.lru \/ lru' = Append(t.lru, bh)
    BY <1>2
  <2>2. bh \in Hash /\ t.lru \in Seq(Hash)
    BY <1>1, <1>6
  <2>3. Append(t.lru, bh) \in Seq(Hash)
    BY <2>2, AppendProperties
  <2> QED
    BY <2>1, <2>2, <2>3
<1>10. content_hash'[x] = bh /\ \A y \in Block : y # x => content_hash'[y] = content_hash[y]
  BY <1>5, <1>7 DEF KVTypeOK
<1>11. /\ DOMAIN cache' \subseteq Hash /\ cache' \in [DOMAIN cache' -> Block]
       /\ \A h \in DOMAIN cache' : h # NoHash /\ content_hash'[cache'[h]] = h
  <2>1. CASE EnablePrefixCaching
    <3>1. cache' = [h \in DOMAIN t.cache \cup {bh} |-> IF h = bh THEN x ELSE t.cache[h]]
      BY <1>2, <2>1
    <3> QED
      BY <3>1, <1>1, <1>5, <1>6, <1>10
  <2>2. CASE ~EnablePrefixCaching
    BY <2>2, <1>2, <1>6, <1>10
  <2> QED
    BY <2>1, <2>2
<1>12. /\ pc' \in [Seqs -> {"out", "alloc", "held", "free"}]
       /\ matching' \in BOOLEAN /\ hits' \in [Seqs -> Nat]
       /\ pc[s] # "free" /\ pc'[s] = "alloc" /\ pc[s] = "alloc"
       /\ \A u \in Seqs \ {s} : pc'[u] = pc[u]
       /\ next' = next /\ dropped' = dropped /\ prompt' = prompt
  BY <1>1, <1>3 DEF KVTypeOK
<1> HIDE DEF x
<1>13. Fills(s, x, bh)
  BY <1>1, <1>5, <1>7, <1>8, <1>9, <1>11, <1>12 DEF Fills
<1> HIDE DEF KVInv
<1> QED
  BY <1>1, <1>5, <1>13, FillKeepsInv

\* Adding a fresh block without a hash keeps the invariant.
LEMMA UnhashedBlockInv ==
  ASSUME KVInv, NEW s \in Seqs, NEW t \in TakeFreeBlock, NEW n \in 0..BlockSize,
         TakeUnhashed(t, n),
         NEW x \in Block, x = t.bid,
         ref_count' = [ref_count EXCEPT ![x] = ref_count[x] + 1],
         tables' = [tables EXCEPT ![s] = Append(@, x)],
         pc[s] # "free", pc' \in [Seqs -> {"out", "alloc", "held", "free"}],
         pc'[s] \in {"alloc", "held"}, pc'[s] = "alloc" => pc[s] = "alloc",
         \A u \in Seqs \ {s} : pc'[u] = pc[u],
         UNCHANGED <<prompt, matching, hits, next, dropped>>
  PROVE  KVInv'
<1> DEFINE bh == NoHash
<1> USE DEF KVInv
<1>1. Takes(t)
  BY TakeFacts
<1>2. /\ free_ids' = t.free_ids /\ n_tokens' = [n_tokens EXCEPT ![t.bid] = n]
      /\ content_hash' = [content_hash EXCEPT ![t.bid] = NoHash]
      /\ cache' = t.cache /\ lru' = t.lru
  BY DEF TakeUnhashed
<1>3. /\ x \in Block /\ ref_count[x] = 0
      /\ \A u \in Seqs : \A i \in Owned(u) : tables[u][i] # x
      /\ free_ids' \in Seq(Block)
      /\ \A i, j \in DOMAIN free_ids' : free_ids'[i] = free_ids'[j] => i = j
      /\ \A i \in DOMAIN free_ids' : /\ free_ids'[i] # x
                                     /\ ref_count[free_ids'[i]] = 0
                                     /\ content_hash[free_ids'[i]] = NoHash
  BY <1>1, <1>2 DEF Takes
<1>4. /\ DOMAIN cache' \subseteq Hash /\ cache' \in [DOMAIN cache' -> Block]
      /\ \A h \in DOMAIN cache' :
           h # NoHash /\ cache'[h] # x /\ content_hash[cache'[h]] = h
      /\ lru' \in Seq(Hash)
  BY <1>1, <1>2 DEF Takes, CacheNamesHash, KVTypeOK
<1>5. \A y \in Block : y # x => content_hash'[y] = content_hash[y]
  BY <1>2, <1>3 DEF KVTypeOK
<1>6. \A h \in DOMAIN cache' : h # NoHash /\ content_hash'[cache'[h]] = h
  BY <1>4, <1>5
<1>7. /\ content_hash' = [content_hash EXCEPT ![x] = bh]
      /\ bh \in Hash
  BY <1>2, <1>3 DEF NoHash, Hash
<1>8. /\ n_tokens' \in [Block -> 0..BlockSize]
      /\ matching' \in BOOLEAN /\ hits' \in [Seqs -> Nat]
      /\ next' = next /\ dropped' = dropped /\ prompt' = prompt
  BY <1>2 DEF KVTypeOK
<1>9. bh # NoHash => FALSE
  OBVIOUS
<1>10. \A i \in Owned(s) : tables[s][i] # x
  BY <1>3
<1> HIDE DEF bh, KVInv
<1>11. Fills(s, x, bh)
  BY <1>3, <1>4, <1>6, <1>7, <1>8, <1>9, <1>10 DEF Fills
<1> QED
  BY <1>7, <1>11, FillKeepsInv

\* allocate_prompt's partial tail block keeps the invariant.
LEMMA TailBlockInv ==
  ASSUME KVInv, NEW s \in Seqs, TailBlock(s)
  PROVE  KVInv'
<1>1. PICK t \in TakeFreeBlock :
        /\ TakeUnhashed(t, prompt[s].rem)
        /\ ref_count' = [ref_count EXCEPT ![t.bid] = 1]
        /\ tables' = [tables EXCEPT ![s] = Append(@, t.bid)]
  BY DEF TailBlock
<1>2. prompt[s].rem \in 0..BlockSize
  BY KVAssumption DEF KVInv, KVTypeOK, Prompt
<1>3. /\ pc[s] = "alloc" /\ pc' = pc
      /\ UNCHANGED <<prompt, matching, hits, next, dropped>>
      /\ pc \in [Seqs -> {"out", "alloc", "held", "free"}]
  BY DEF TailBlock, KVInv, KVTypeOK
<1>4. /\ t.bid \in Block
      /\ ref_count' = [ref_count EXCEPT ![t.bid] = ref_count[t.bid] + 1]
  <2>1. t.bid \in Block /\ ref_count[t.bid] = 0
    BY TakeFacts DEF Takes
  <2> QED
    BY <1>1, <2>1
<1>5. /\ t \in TakeFreeBlock /\ TakeUnhashed(t, prompt[s].rem)
      /\ tables' = [tables EXCEPT ![s] = Append(@, t.bid)]
  BY <1>1
<1> QED
  BY <1>2, <1>3, <1>4, <1>5, UnhashedBlockInv

\* append_token on a block boundary keeps the invariant.
LEMMA GrowTableInv ==
  ASSUME KVInv, NEW s \in Seqs, NEW n \in Lens, GrowTable(s, n)
  PROVE  KVInv'
<1>1. PICK t \in TakeFreeBlock :
        /\ TakeUnhashed(t, 1)
        /\ ref_count' = [ref_count EXCEPT ![t.bid] = 1]
        /\ tables' = [tables EXCEPT ![s] = Append(@, t.bid)]
  BY DEF GrowTable
<1>2. 1 \in 0..BlockSize
  BY KVAssumption
<1>3. /\ pc[s] # "free" /\ pc' = [pc EXCEPT ![s] = "held"]
      /\ UNCHANGED <<prompt, matching, hits, next, dropped>>
      /\ pc \in [Seqs -> {"out", "alloc", "held", "free"}]
  BY DEF GrowTable, Idle, KVInv, KVTypeOK
<1>4. /\ pc' \in [Seqs -> {"out", "alloc", "held", "free"}] /\ pc'[s] = "held"
      /\ \A u \in Seqs \ {s} : pc'[u] = pc[u]
  BY <1>3
<1>5. /\ t.bid \in Block
      /\ ref_count' = [ref_count EXCEPT ![t.bid] = ref_count[t.bid] + 1]
  <2>1. t.bid \in Block /\ ref_count[t.bid] = 0
    BY TakeFacts DEF Takes
  <2> QED
    BY <1>1, <2>1
<1>6. /\ t \in TakeFreeBlock /\ TakeUnhashed(t, 1)
      /\ tables' = [tables EXCEPT ![s] = Append(@, t.bid)]
  BY <1>1
<1> QED
  BY <1>2, <1>3, <1>4, <1>5, <1>6, UnhashedBlockInv

\* Losing a table keeps the invariant: its references are counted as dropped.
LEMMA DropTableInv ==
  ASSUME KVInv, NEW s \in Seqs, pc[s] # "free", DropTable(s), matching' \in BOOLEAN,
         UNCHANGED <<free_ids, ref_count, content_hash, n_tokens, cache, lru, next>>
  PROVE  KVInv'
<1> USE DEF KVInv
<1>1. /\ tables \in [Seqs -> Seq(Block)] /\ dropped \in [Block -> Nat]
      /\ prompt \in [Seqs -> Prompt] /\ NoPrompt \in Prompt
  BY KVAssumption DEF KVTypeOK, NoPrompt, Prompt
<1>2. /\ tables' \in [Seqs -> Seq(Block)] /\ tables'[s] = <<>>
      /\ \A u \in Seqs : u # s => tables'[u] = tables[u]
  BY <1>1 DEF DropTable
<1>3. /\ pc' \in [Seqs -> {"out", "alloc", "held", "free"}] /\ pc'[s] = "out"
      /\ \A u \in Seqs : u # s => pc'[u] = pc[u] /\ prompt'[u] = prompt[u]
      /\ prompt' \in [Seqs -> Prompt] /\ hits' \in [Seqs -> Nat]
  BY <1>1 DEF DropTable, KVTypeOK
<1>4. Owned(s)' = {} /\ \A u \in Seqs : u # s => Owned(u)' = Owned(u)
  BY <1>2, <1>3 DEF Owned
<1>5. dropped' \in [Block -> Nat]
  BY <1>1 DEF DropTable
<1>6. KVTypeOK'
  BY <1>2, <1>3, <1>5 DEF KVTypeOK
<1>7. RefCountExact'
  <2> SUFFICES ASSUME NEW y \in Block
               PROVE  ref_count'[y] = Cardinality(Holders(y)') + dropped'[y]
    BY DEF RefCountExact
  <2>1. ref_count[y] = Cardinality(Holders(y)) + dropped[y]
    BY DEF RefCountExact
  <2>2. Holders(y)' = Holders(y) \ {s}
    BY <1>2, <1>4 DEF Holders
  <2>3. s \in Holders(y) <=> Contains(tables[s], y)
    BY <1>1 DEF Holders, Owned, Contains
  <2>4. IsFiniteSet(Holders(y)) /\ Cardinality(Holders(y)) \in Nat /\ dropped[y] \in Nat
    BY <1>1, HoldersFinite
  <2>5. CASE s \in Holders(y)
    <3>1. Cardinality(Holders(y)') = Cardinality(Holders(y)) - 1
      BY <2>2, <2>4, <2>5, FS_RemoveElement
    <3>2. dropped'[y] = dropped[y] + 1
      BY <2>3, <2>5 DEF DropTable
    <3> QED
      BY <2>1, <2>4, <3>1, <3>2
  <2>6. CASE s \notin Holders(y)
    <3>1. Holders(y)' = Holders(y)
      BY <2>2, <2>6
    <3>2. dropped'[y] = dropped[y]
      BY <2>3, <2>4, <2>6 DEF DropTable
    <3> QED
      BY <2>1, <3>1, <3>2
  <2> QED
    BY <2>5, <2>6
<1>8. FreeListSound' /\ CacheNamesHash'
  BY DEF FreeListSound, CacheNamesHash
<1>9. TablesOnce' /\ Lifecycle'
  <2>1. TablesOnce'
    <3> SUFFICES ASSUME NEW u \in Seqs, NEW i \in DOMAIN tables'[u],
                        NEW j \in DOMAIN tables'[u], tables'[u][i] = tables'[u][j]
                 PROVE  i = j
      BY DEF TablesOnce
    <3>1. u # s
      BY <1>2
    <3> QED
      BY <3>1, <1>2 DEF TablesOnce
  <2>2. \A u \in Seqs : pc'[u] \in {"alloc", "free"} => u # s /\ pc[u] = pc'[u]
    BY <1>3
  <2>3. \A u, v \in Seqs :
          pc'[u] \in {"alloc", "free"} /\ pc'[v] \in {"alloc", "free"} => u = v
    BY <2>2 DEF Lifecycle
  <2>4. \A u \in Seqs : pc'[u] = "out" => tables'[u] = <<>>
    BY <1>2, <1>3 DEF Lifecycle
  <2>5. \A u \in Seqs : pc'[u] = "free" => next' \in 1..(Len(tables'[u]) + 1)
    BY <1>2, <2>2 DEF Lifecycle
  <2> QED
    BY <2>1, <2>3, <2>4, <2>5 DEF Lifecycle
<1>10. \A u \in Seqs : \A i \in Owned(u)' : u # s /\ i \in Owned(u) /\ tables'[u] = tables[u]
  BY <1>2, <1>4
<1>11. HashedByPosition'
  <2>1. \A u \in Seqs : u # s => NFull(u)' = NFull(u)
    BY <1>3 DEF NFull
  <2> SUFFICES ASSUME NEW u \in Seqs, NEW i \in Owned(u)',
                      content_hash'[tables'[u][i]] # NoHash
               PROVE  /\ i <= NFull(u)'
                      /\ content_hash'[tables'[u][i]] = SubSeq(prompt'[u].chunks, 1, i)
    BY DEF HashedByPosition
  <2>2. u # s /\ i \in Owned(u) /\ tables'[u] = tables[u]
    BY <1>10 DEF Owned
  <2>3. prompt'[u] = prompt[u] /\ NFull(u)' = NFull(u)
    BY <1>3, <2>1, <2>2 DEF NFull
  <2> QED
    BY <2>2, <2>3 DEF HashedByPosition
<1>12. UnhashedPrivate'
  BY <1>10 DEF UnhashedPrivate
<1> QED
  BY <1>6, <1>7, <1>8, <1>9, <1>11, <1>12

\* Steps that move no block and no reference keep the invariant.
LEMMA SamePoolInv ==
  ASSUME KVInv, NEW s \in Seqs,
         UNCHANGED <<free_ids, ref_count, content_hash, cache, lru, dropped>>,
         tables' = tables, n_tokens' \in [Block -> 0..BlockSize],
         pc' \in [Seqs -> {"out", "alloc", "held", "free"}],
         \A u \in Seqs : u # s => pc'[u] = pc[u] /\ prompt'[u] = prompt[u],
         prompt'[s] = prompt[s] \/ tables[s] = <<>>,
         prompt' \in [Seqs -> Prompt], matching' \in BOOLEAN,
         hits' \in [Seqs -> Nat], next' \in Nat,
         \A u \in Seqs : Owned(u)' = Owned(u),
         Lifecycle'
  PROVE  KVInv'
<1> USE DEF KVInv
<1>1. KVTypeOK'
  BY DEF KVTypeOK
<1>2. RefCountExact'
  BY DEF RefCountExact, Holders
<1>3. FreeListSound' /\ CacheNamesHash' /\ TablesOnce'
  BY DEF FreeListSound, CacheNamesHash, TablesOnce
<1>4. HashedByPosition'
  <2> SUFFICES ASSUME NEW u \in Seqs, NEW i \in Owned(u)', content_hash'[tables'[u][i]] # NoHash
               PROVE  /\ i <= NFull(u)'
                      /\ content_hash'[tables'[u][i]] = SubSeq(prompt'[u].chunks, 1, i)
    BY DEF HashedByPosition
  <2>1. tables[s] = <<>> => Owned(s) = {}
    BY OwnedPositions
  <2>2. i \in Owned(u) /\ content_hash[tables[u][i]] # NoHash
    OBVIOUS
  <2>3. prompt'[u] = prompt[u]
    BY <2>1, <2>2
  <2>4. i <= NFull(u) /\ content_hash[tables[u][i]] = SubSeq(prompt[u].chunks, 1, i)
    BY <2>2 DEF HashedByPosition
  <2> QED
    BY <2>3, <2>4 DEF NFull
<1>5. UnhashedPrivate'
  BY DEF UnhashedPrivate
<1> QED
  BY <1>1, <1>2, <1>3, <1>4, <1>5

\* The call of allocate_prompt keeps the invariant.
LEMMA AllocatePromptInv ==
  ASSUME KVInv, NEW s \in Seqs, NEW p \in Prompts, AllocatePrompt(s, p)
  PROVE  KVInv'
<1>1. /\ pc \in [Seqs -> {"out", "alloc", "held", "free"}]
      /\ prompt \in [Seqs -> Prompt] /\ tables \in [Seqs -> Seq(Block)]
      /\ hits \in [Seqs -> Nat] /\ next \in Nat /\ n_tokens \in [Block -> 0..BlockSize]
  BY DEF KVInv, KVTypeOK
<1>2. Idle /\ pc[s] = "out" /\ tables[s] = <<>>
  BY DEF AllocatePrompt, KVInv, Lifecycle
<1>3. tables' = tables
  BY <1>1, <1>2 DEF AllocatePrompt
<1>4. /\ pc' = [pc EXCEPT ![s] = "alloc"] /\ prompt' = [prompt EXCEPT ![s] = p]
      /\ hits' = [hits EXCEPT ![s] = 0] /\ matching' = EnablePrefixCaching
      /\ UNCHANGED <<free_ids, ref_count, content_hash, n_tokens, cache, lru, next, dropped>>
  BY DEF AllocatePrompt, poolVars
<1>5. /\ pc' \in [Seqs -> {"out", "alloc", "held", "free"}] /\ pc'[s] = "alloc"
      /\ \A u \in Seqs : u # s => pc'[u] = pc[u] /\ prompt'[u] = prompt[u]
      /\ prompt' \in [Seqs -> Prompt] /\ hits' \in [Seqs -> Nat] /\ matching' \in BOOLEAN
  BY <1>1, <1>4, KVAssumption DEF Prompt
<1>6. \A u \in Seqs : pc[u] # "free" /\ pc'[u] # "free"
  BY <1>2, <1>5 DEF Idle
<1>7. \A u \in Seqs : Owned(u)' = Owned(u)
  BY <1>3, <1>6 DEF Owned
<1>8. Lifecycle'
  <2>1. \A u \in Seqs : pc'[u] \in {"alloc", "free"} => u = s
    BY <1>2, <1>5 DEF Idle
  <2> QED
    BY <1>3, <1>5, <1>6, <2>1 DEF KVInv, Lifecycle
<1> QED
  BY <1>1, <1>2, <1>3, <1>4, <1>5, <1>7, <1>8, SamePoolInv

\* The return of allocate_prompt keeps the invariant.
LEMMA AllocateReturnInv ==
  ASSUME KVInv, NEW s \in Seqs, AllocateReturn(s)
  PROVE  KVInv'
<1>1. /\ pc \in [Seqs -> {"out", "alloc", "held", "free"}]
      /\ prompt \in [Seqs -> Prompt] /\ n_tokens \in [Block -> 0..BlockSize]
      /\ hits \in [Seqs -> Nat] /\ next \in Nat
  BY DEF KVInv, KVTypeOK
<1>2. /\ pc[s] = "alloc" /\ pc' = [pc EXCEPT ![s] = "held"] /\ matching' = FALSE
      /\ UNCHANGED <<free_ids, ref_count, content_hash, n_tokens, cache, lru,
                     tables, prompt, hits, next, dropped>>
  BY DEF AllocateReturn, poolVars
<1>3. /\ pc' \in [Seqs -> {"out", "alloc", "held", "free"}] /\ pc'[s] = "held"
      /\ \A u \in Seqs : u # s => pc'[u] = pc[u] /\ prompt'[u] = prompt[u]
  BY <1>1, <1>2
<1>4. \A u \in Seqs : Owned(u)' = Owned(u)
  BY <1>2, <1>3 DEF Owned
<1>5. Lifecycle'
  BY <1>2, <1>3 DEF KVInv, Lifecycle
<1> QED
  BY <1>1, <1>2, <1>3, <1>4, <1>5, SamePoolInv

\* append_token into a private tail keeps the invariant.
LEMMA WriteTailInv ==
  ASSUME KVInv, NEW s \in Seqs, NEW n \in Lens, WriteTail(s, n)
  PROVE  KVInv'
<1>1. /\ pc \in [Seqs -> {"out", "alloc", "held", "free"}]
      /\ prompt \in [Seqs -> Prompt] /\ n_tokens \in [Block -> 0..BlockSize]
      /\ hits \in [Seqs -> Nat] /\ next \in Nat /\ matching \in BOOLEAN
  BY DEF KVInv, KVTypeOK
<1>2. UNCHANGED <<free_ids, ref_count, content_hash, cache, lru, tables, prompt, pc,
                  matching, hits, next, dropped>>
  BY DEF WriteTail
<1>3. offset(n) + 1 \in 0..BlockSize
  BY KVAssumption DEF offset
<1>4. n_tokens' \in [Block -> 0..BlockSize]
  BY <1>1, <1>3 DEF WriteTail
<1>5. \A u \in Seqs : Owned(u)' = Owned(u)
  BY <1>2 DEF Owned
<1>6. Lifecycle'
  BY <1>2 DEF KVInv, Lifecycle
<1> QED
  BY <1>1, <1>2, <1>4, <1>5, <1>6, SamePoolInv

\* The call of free keeps the invariant.
LEMMA FreeInv ==
  ASSUME KVInv, NEW s \in Seqs, Free(s)
  PROVE  KVInv'
<1>1. /\ pc \in [Seqs -> {"out", "alloc", "held", "free"}]
      /\ prompt \in [Seqs -> Prompt] /\ n_tokens \in [Block -> 0..BlockSize]
      /\ hits \in [Seqs -> Nat] /\ matching \in BOOLEAN
  BY DEF KVInv, KVTypeOK
<1>2. /\ Idle /\ pc[s] = "held" /\ pc' = [pc EXCEPT ![s] = "free"] /\ next' = 1
      /\ UNCHANGED <<free_ids, ref_count, content_hash, n_tokens, cache, lru,
                     tables, prompt, matching, hits, dropped>>
  BY DEF Free, poolVars
<1>3. /\ pc' \in [Seqs -> {"out", "alloc", "held", "free"}] /\ pc'[s] = "free"
      /\ \A u \in Seqs : u # s => pc'[u] = pc[u] /\ pc[u] \in {"out", "held"}
  BY <1>1, <1>2 DEF Idle
<1>4. \A u \in Seqs : Owned(u)' = Owned(u)
  BY <1>2, <1>3 DEF Owned
<1>5. Lifecycle'
  <2>1. \A u \in Seqs : pc'[u] \in {"alloc", "free"} => u = s
    BY <1>3
  <2>2. Len(tables[s]) \in Nat
    BY OwnedPositions DEF KVInv
  <2> QED
    BY <1>2, <1>3, <2>1, <2>2 DEF KVInv, Lifecycle
<1> QED
  BY <1>1, <1>2, <1>3, <1>4, <1>5, SamePoolInv

\* The return of free keeps the invariant.
LEMMA FreeReturnInv ==
  ASSUME KVInv, NEW s \in Seqs, FreeReturn(s)
  PROVE  KVInv'
<1> USE DEF KVInv
<1>1. /\ pc \in [Seqs -> {"out", "alloc", "held", "free"}]
      /\ prompt \in [Seqs -> Prompt] /\ NoPrompt \in Prompt
      /\ hits \in [Seqs -> Nat] /\ tables \in [Seqs -> Seq(Block)] /\ next \in Nat
  BY KVAssumption DEF KVTypeOK, NoPrompt, Prompt
<1>2. /\ pc[s] = "free" /\ next > Len(tables[s]) /\ next' = 0
      /\ UNCHANGED <<free_ids, ref_count, content_hash, n_tokens, cache, lru,
                     matching, dropped>>
  BY DEF FreeReturn, poolVars
<1>3. /\ pc' \in [Seqs -> {"out", "alloc", "held", "free"}] /\ pc'[s] = "out"
      /\ prompt' \in [Seqs -> Prompt] /\ hits' \in [Seqs -> Nat]
      /\ tables' \in [Seqs -> Seq(Block)] /\ tables'[s] = <<>>
      /\ \A u \in Seqs : u # s => /\ pc'[u] = pc[u] /\ prompt'[u] = prompt[u]
                                  /\ tables'[u] = tables[u]
  BY <1>1 DEF FreeReturn
<1>4. \A u \in Seqs : u # s => pc[u] \notin {"alloc", "free"}
  BY <1>2 DEF Lifecycle
<1>5. Owned(s) = {} /\ Owned(s)' = {}
  BY <1>1, <1>2, <1>3 DEF Owned
<1>6. \A u \in Seqs : u # s => Owned(u)' = Owned(u)
  BY <1>3, <1>4 DEF Owned
<1>7. \A u \in Seqs : \A i \in Owned(u)' :
        u # s /\ i \in Owned(u) /\ tables'[u] = tables[u]
  BY <1>3, <1>5, <1>6
<1>8. KVTypeOK'
  BY <1>2, <1>3 DEF KVTypeOK
<1>9. RefCountExact'
  <2>1. ASSUME NEW y \in Block PROVE Holders(y)' = Holders(y)
    <3>1. \A u \in Seqs : (\E i \in Owned(u)' : tables'[u][i] = y)
                          <=> (\E i \in Owned(u) : tables[u][i] = y)
      BY <1>3, <1>5, <1>6
    <3> QED
      BY <3>1 DEF Holders
  <2> QED
    BY <1>2, <2>1 DEF RefCountExact
<1>10. FreeListSound' /\ CacheNamesHash'
  BY <1>2 DEF FreeListSound, CacheNamesHash
<1>11. TablesOnce'
  <2> SUFFICES ASSUME NEW u \in Seqs, NEW i \in DOMAIN tables'[u],
                      NEW j \in DOMAIN tables'[u], tables'[u][i] = tables'[u][j]
               PROVE  i = j
    BY DEF TablesOnce
  <2>1. u # s
    BY <1>3
  <2> QED
    BY <2>1, <1>3 DEF TablesOnce
<1>12. Lifecycle'
  BY <1>3, <1>4 DEF Lifecycle
<1>13. HashedByPosition'
  <2>1. \A u \in Seqs : u # s => NFull(u)' = NFull(u)
    BY <1>3 DEF NFull
  <2> SUFFICES ASSUME NEW u \in Seqs, NEW i \in Owned(u)',
                      content_hash'[tables'[u][i]] # NoHash
               PROVE  /\ i <= NFull(u)'
                      /\ content_hash'[tables'[u][i]] = SubSeq(prompt'[u].chunks, 1, i)
    BY DEF HashedByPosition
  <2>2. u # s /\ i \in Owned(u) /\ tables'[u] = tables[u]
    BY <1>7 DEF Owned
  <2>3. content_hash' = content_hash /\ prompt'[u] = prompt[u]
    BY <1>2, <1>3, <2>2
  <2> QED
    BY <2>2, <2>3 DEF HashedByPosition, NFull
<1>14. UnhashedPrivate'
  BY <1>2, <1>7 DEF UnhashedPrivate
<1> QED
  BY <1>8, <1>9, <1>10, <1>11, <1>12, <1>13, <1>14

\* _release takes back exactly one reference, and a block it leaves without
\* references is in no table.
LEMMA ReleasedBlock ==
  ASSUME KVInv, NEW s \in Seqs, Release(s), NEW x, x = tables[s][next]
  PROVE  /\ x \in Block
         /\ ref_count[x] \in Nat \ {0}
         /\ ref_count' = [ref_count EXCEPT ![x] = ref_count[x] - 1]
         /\ ref_count' \in [Block -> Nat]
         /\ RefCountExact'
         /\ \A u \in Seqs : Owned(u)' \subseteq Owned(u)
         /\ ref_count'[x] = 0 =>
              \A u \in Seqs : \A i \in Owned(u)' : tables[u][i] # x
<1> USE DEF KVInv
<1>1. /\ tables \in [Seqs -> Seq(Block)] /\ next \in Nat
      /\ ref_count \in [Block -> Nat] /\ dropped \in [Block -> Nat]
  BY DEF KVTypeOK
<1>2. /\ pc[s] = "free" /\ next <= Len(tables[s]) /\ next' = next + 1
      /\ tables' = tables /\ pc' = pc /\ dropped' = dropped
      /\ ref_count' = [ref_count EXCEPT ![x] = Released(x)]
  BY DEF Release
<1>3. next \in DOMAIN tables[s] /\ Owned(s) = next..Len(tables[s])
  BY <1>1, <1>2 DEF Lifecycle, Owned
<1>4. next \in Owned(s) /\ x \in Block
  BY <1>1, <1>2, <1>3
<1>5. ref_count[x] \in Nat /\ ref_count[x] > 0
  BY <1>1, <1>4, HeldIsReferenced
<1>6. ref_count' = [ref_count EXCEPT ![x] = ref_count[x] - 1]
  <2>1. Released(x) = ref_count[x] - 1
    BY <1>5 DEF Released, LastReference
  <2> QED
    BY <1>2, <2>1
<1>7. \A u \in Seqs : u # s => pc[u] \notin {"alloc", "free"}
  BY <1>2 DEF Lifecycle
<1>8. Owned(s)' = Owned(s) \ {next} /\ \A u \in Seqs : u # s => Owned(u)' = Owned(u)
  BY <1>1, <1>2, <1>3, <1>7 DEF Owned
<1>9. \A i \in Owned(s)' : tables[s][i] # x
  <2>1. Owned(s) \subseteq DOMAIN tables[s]
    BY OwnedPositions
  <2> QED
    BY <1>3, <1>8, <2>1 DEF TablesOnce
<1>10. Holders(x)' = Holders(x) \ {s} /\ s \in Holders(x)
  BY <1>2, <1>4, <1>8, <1>9 DEF Holders
<1>11. \A y \in Block : y # x => Holders(y)' = Holders(y)
  <2> SUFFICES ASSUME NEW y \in Block, y # x PROVE Holders(y)' = Holders(y)
    OBVIOUS
  <2>1. \A u \in Seqs : (\E i \in Owned(u)' : tables[u][i] = y)
                        <=> (\E i \in Owned(u) : tables[u][i] = y)
    BY <1>8
  <2> QED
    BY <1>2, <2>1 DEF Holders
<1>12. Cardinality(Holders(x)') = Cardinality(Holders(x)) - 1
  <2>1. IsFiniteSet(Holders(x))
    BY HoldersFinite
  <2>2. Cardinality(Holders(x) \ {s}) = Cardinality(Holders(x)) - 1
    BY <1>10, <2>1, FS_RemoveElement
  <2> QED
    BY <1>10, <2>2
<1>13. ref_count' \in [Block -> Nat]
  <2>1. ref_count[x] - 1 \in Nat
    BY <1>5
  <2> QED
    BY <1>1, <1>6, <2>1
<1>14. RefCountExact'
  <2> SUFFICES ASSUME NEW y \in Block
               PROVE  ref_count'[y] = Cardinality(Holders(y)') + dropped'[y]
    BY DEF RefCountExact
  <2>1. ref_count[y] = Cardinality(Holders(y)) + dropped[y]
    BY DEF RefCountExact
  <2>2. Cardinality(Holders(y)) \in Nat /\ dropped[y] \in Nat
    BY <1>1, HoldersFinite
  <2>3. CASE y = x
    <3>1. ref_count'[x] = ref_count[x] - 1
      BY <1>1, <1>4, <1>6
    <3>2. dropped'[x] = dropped[x]
      BY <1>2
    <3>3. Cardinality(Holders(x)') = Cardinality(Holders(x)) - 1
      BY <1>12
    <3> QED
      BY <2>1, <2>2, <2>3, <3>1, <3>2, <3>3
  <2>4. CASE y # x
    BY <2>1, <2>4, <1>1, <1>2, <1>6, <1>11
  <2> QED
    BY <2>3, <2>4
<1>15. ref_count'[x] = 0 => \A u \in Seqs : \A i \in Owned(u)' : tables[u][i] # x
  <2> SUFFICES ASSUME ref_count'[x] = 0 PROVE Holders(x)' = {}
    BY <1>2 DEF Holders
  <2>1. Cardinality(Holders(x)') + dropped'[x] = 0
    BY <1>4, <1>14 DEF RefCountExact
  <2>2. IsFiniteSet(Holders(x)')
    BY <1>10, HoldersFinite, FS_Subset
  <2>3. Cardinality(Holders(x)') \in Nat /\ dropped'[x] \in Nat
    BY <2>2, <1>1, <1>2, <1>4, FS_CardinalityType
  <2>4. Cardinality(Holders(x)') = 0
    BY <2>1, <2>3
  <2> QED
    BY <2>2, <2>4, FS_EmptySet
<1> QED
  BY <1>4, <1>5, <1>6, <1>8, <1>13, <1>14, <1>15

\* _release keeps the invariant, whether the block stays cached or is freed.
LEMMA ReleaseInv ==
  ASSUME KVInv, NEW s \in Seqs, Release(s)
  PROVE  KVInv'
<1>0. PICK x : x = tables[s][next]
  OBVIOUS
<1> USE DEF KVInv
<1>1. /\ tables \in [Seqs -> Seq(Block)] /\ ref_count \in [Block -> Nat]
      /\ content_hash \in [Block -> Hash] /\ free_ids \in Seq(Block) /\ next \in Nat
  BY DEF KVTypeOK
<1>2. /\ pc[s] = "free" /\ next <= Len(tables[s]) /\ next' = next + 1
      /\ UNCHANGED <<n_tokens, tables, prompt, pc, matching, hits, dropped>>
  BY DEF Release
<1>3. /\ x \in Block /\ ref_count[x] \in Nat \ {0}
      /\ ref_count' = [ref_count EXCEPT ![x] = ref_count[x] - 1]
      /\ ref_count' \in [Block -> Nat] /\ RefCountExact'
      /\ \A u \in Seqs : Owned(u)' \subseteq Owned(u)
      /\ ref_count'[x] = 0 => \A u \in Seqs : \A i \in Owned(u)' : tables[u][i] # x
  BY <1>0, ReleasedBlock
<1>4. TablesOnce' /\ Lifecycle'
  <2>1. TablesOnce'
    BY <1>2 DEF TablesOnce
  <2>2. \A u \in Seqs : pc[u] = "free" => u = s
    BY <1>2 DEF Lifecycle
  <2>3. next' \in 1..(Len(tables[s]) + 1)
    BY <1>1, <1>2
  <2> QED
    BY <1>2, <2>1, <2>2, <2>3 DEF Lifecycle
<1>5. \A i \in DOMAIN free_ids : free_ids[i] \in Block /\ free_ids[i] # x
  BY <1>1, <1>3 DEF FreeListSound
<1>6. CASE LastReference(x) /\ ~Resident(x)
  <2>1. /\ free_ids' = Append(free_ids, x)
        /\ content_hash' = [content_hash EXCEPT ![x] = NoHash]
        /\ cache' = Uncache(cache, content_hash[x])
        /\ lru' = DelKey(lru, content_hash[x])
    BY <1>0, <1>6 DEF Release
  <2>2. ref_count'[x] = 0
    BY <1>1, <1>3, <1>6 DEF LastReference
  <2>3. \A u \in Seqs : \A i \in Owned(u)' : tables[u][i] # x
    BY <1>3, <2>2
  <2>4. /\ content_hash' \in [Block -> Hash] /\ content_hash'[x] = NoHash
        /\ \A y \in Block : y # x => content_hash'[y] = content_hash[y]
    BY <1>1, <1>3, <2>1 DEF NoHash, Hash
  <2>5. /\ free_ids' \in Seq(Block) /\ DOMAIN free_ids' = 1..(Len(free_ids) + 1)
        /\ free_ids'[Len(free_ids) + 1] = x
        /\ \A i \in 1..Len(free_ids) : free_ids'[i] = free_ids[i]
        /\ DOMAIN free_ids = 1..Len(free_ids) /\ Len(free_ids) \in Nat
    BY <1>1, <1>3, <2>1
  <2>6. /\ DOMAIN cache' \subseteq DOMAIN cache /\ cache' \in [DOMAIN cache' -> Block]
        /\ DOMAIN cache' \subseteq Hash
        /\ \A h \in DOMAIN cache' : cache'[h] = cache[h] /\ cache[h] # x
    BY <2>1 DEF Uncache, KVTypeOK, CacheNamesHash
  <2>7. CacheNamesHash'
    BY <2>4, <2>6 DEF CacheNamesHash
  <2>8. lru' \in Seq(Hash)
    BY <2>1, DelKeyType DEF KVTypeOK
  <2>9. KVTypeOK'
    <3>1. next' \in Nat
      BY <1>1, <1>2
    <3>2. free_ids' \in Seq(Block) /\ ref_count' \in [Block -> Nat]
      BY <1>3, <2>5
    <3>3. content_hash' \in [Block -> Hash]
      BY <2>4
    <3> QED
      BY <3>1, <3>2, <3>3, <1>2, <2>6, <2>8 DEF KVTypeOK
  <2>10. FreeListSound'
    <3>1. \A i \in DOMAIN free_ids' : /\ ref_count'[free_ids'[i]] = 0
                                      /\ content_hash'[free_ids'[i]] = NoHash
      <4>1. \A y \in Block : y # x => ref_count'[y] = ref_count[y]
        BY <1>1, <1>3
      <4>2. \A i \in DOMAIN free_ids : /\ ref_count'[free_ids[i]] = 0
                                       /\ content_hash'[free_ids[i]] = NoHash
        BY <4>1, <1>5, <2>4 DEF FreeListSound
      <4>3. \A i \in 1..Len(free_ids) : /\ ref_count'[free_ids'[i]] = 0
                                        /\ content_hash'[free_ids'[i]] = NoHash
        BY <4>2, <2>5
      <4> QED
        BY <4>3, <2>2, <2>4, <2>5
    <3>2. \A i, j \in DOMAIN free_ids' : free_ids'[i] = free_ids'[j] => i = j
      BY <1>5, <2>5 DEF FreeListSound, IsInjective
    <3> QED
      BY <3>1, <3>2 DEF FreeListSound, IsInjective
  <2>11. \A u \in Seqs : \A i \in Owned(u)' :
           i \in Owned(u) /\ content_hash'[tables[u][i]] = content_hash[tables[u][i]]
    <3>1. \A u \in Seqs : \A i \in Owned(u) : tables[u][i] \in Block
      BY OwnedPositions
    <3> QED
      BY <1>3, <2>3, <2>4, <3>1
  <2>12. HashedByPosition' /\ UnhashedPrivate'
    BY <1>2, <2>11 DEF HashedByPosition, UnhashedPrivate, NFull
  <2> QED
    BY <1>3, <1>4, <2>7, <2>9, <2>10, <2>12
<1>7. CASE ~(LastReference(x) /\ ~Resident(x))
  <2>1. UNCHANGED <<free_ids, content_hash, cache, lru>>
    BY <1>0, <1>7 DEF Release
  <2>2. KVTypeOK'
    <3>1. next' \in Nat
      BY <1>1, <1>2
    <3>2. ref_count' \in [Block -> Nat]
      BY <1>3
    <3> QED
      BY <3>1, <3>2, <1>2, <2>1 DEF KVTypeOK
  <2>3. FreeListSound' /\ CacheNamesHash'
    BY <1>1, <1>3, <1>5, <2>1 DEF FreeListSound, CacheNamesHash
  <2>4. HashedByPosition' /\ UnhashedPrivate'
    BY <1>2, <1>3, <2>1 DEF HashedByPosition, UnhashedPrivate, NFull
  <2> QED
    BY <1>3, <1>4, <2>2, <2>3, <2>4
<1> QED
  BY <1>6, <1>7

\* append_token's copy-on-write keeps the invariant: one reference moves from
\* the shared tail to the copy.
LEMMA CopyOnWriteInv ==
  ASSUME KVInv, NEW s \in Seqs, NEW n \in Lens, CopyOnWrite(s, n)
  PROVE  KVInv'
<1> USE DEF KVInv
<1>1. /\ tables \in [Seqs -> Seq(Block)] /\ ref_count \in [Block -> Nat]
      /\ content_hash \in [Block -> Hash] /\ dropped \in [Block -> Nat]
  BY DEF KVTypeOK
<1>2. /\ Idle /\ pc[s] = "held" /\ tables[s] # <<>>
      /\ UNCHANGED <<prompt, pc, matching, hits, next, dropped>>
  BY DEF CopyOnWrite
<1>3. PICK k : k = Len(tables[s])
  OBVIOUS
<1>4. PICK y : y = tables[s][k]
  OBVIOUS
<1>5. k \in Nat \ {0} /\ k \in DOMAIN tables[s] /\ DOMAIN tables[s] = 1..k /\ y \in Block
  BY <1>1, <1>2, <1>3, <1>4
<1>6. PICK t \in TakeFreeBlock :
        /\ TakeUnhashed(t, offset(n) + 1)
        /\ ref_count' = [ref_count EXCEPT ![t.bid] = 1, ![y] = Released(y)]
        /\ tables' = [tables EXCEPT ![s][k] = t.bid]
  BY <1>3, <1>4 DEF CopyOnWrite, Last
<1>7. ref_count[y] > 1 /\ ref_count[y] \in Nat
  BY <1>1, <1>3, <1>4, <1>5 DEF CopyOnWrite, Last
<1>8. Takes(t)
  BY TakeFacts
<1>9. PICK x : x = t.bid
  OBVIOUS
<1>10. /\ x \in Block /\ ref_count[x] = 0 /\ x # y
       /\ \A u \in Seqs : \A i \in Owned(u) : tables[u][i] # x
  BY <1>7, <1>8, <1>9 DEF Takes
<1>11. Released(y) = ref_count[y] - 1
  BY <1>7 DEF Released, LastReference
<1>12. /\ ref_count' \in [Block -> Nat]
       /\ ref_count'[x] = 1 /\ ref_count'[y] = ref_count[y] - 1
       /\ \A z \in Block : z # x /\ z # y => ref_count'[z] = ref_count[z]
  <2>1. ref_count' = [ref_count EXCEPT ![x] = 1, ![y] = ref_count[y] - 1]
    BY <1>6, <1>9, <1>11
  <2>2. ref_count[y] - 1 \in Nat
    BY <1>7
  <2> QED
    BY <2>1, <2>2, <1>1, <1>5, <1>10
<1>13. /\ tables'[s] = [tables[s] EXCEPT ![k] = x]
       /\ \A u \in Seqs : u # s => tables'[u] = tables[u]
       /\ DOMAIN tables' = Seqs
  BY <1>1, <1>6, <1>9
<1>14. /\ tables'[s] \in Seq(Block) /\ Len(tables'[s]) = k /\ DOMAIN tables'[s] = 1..k
       /\ tables'[s][k] = x
       /\ \A i \in 1..k : i # k => tables'[s][i] = tables[s][i]
  BY <1>1, <1>3, <1>5, <1>10, <1>13
<1>15. tables' \in [Seqs -> Seq(Block)]
  <2>1. \A u \in Seqs : tables'[u] \in Seq(Block)
    BY <1>1, <1>13, <1>14
  <2>2. tables' = [u \in Seqs |-> tables'[u]]
    BY <1>1, <1>6
  <2> QED
    BY <2>1, <2>2
<1>16. /\ Owned(s) = 1..k /\ Owned(s)' = 1..k
       /\ \A u \in Seqs : Owned(u)' = Owned(u)
  BY <1>2, <1>3, <1>13, <1>14 DEF Owned, Idle
<1>17. \A i \in 1..k : i # k => tables[s][i] # y
  BY <1>4, <1>5 DEF TablesOnce
<1>18. /\ free_ids' = t.free_ids /\ n_tokens' = [n_tokens EXCEPT ![x] = offset(n) + 1]
       /\ content_hash' = [content_hash EXCEPT ![x] = NoHash]
       /\ cache' = t.cache /\ lru' = t.lru
  BY <1>6, <1>9 DEF TakeUnhashed
<1>19. /\ content_hash' \in [Block -> Hash] /\ content_hash'[x] = NoHash
       /\ \A z \in Block : z # x => content_hash'[z] = content_hash[z]
  BY <1>1, <1>10, <1>18 DEF NoHash, Hash
<1>20. n_tokens' \in [Block -> 0..BlockSize]
  <2>1. offset(n) + 1 \in 0..BlockSize
    BY KVAssumption DEF offset
  <2> QED
    BY <1>18, <2>1 DEF KVTypeOK
<1>21. /\ DOMAIN cache' \subseteq Hash /\ cache' \in [DOMAIN cache' -> Block]
       /\ \A h \in DOMAIN cache' :
            h # NoHash /\ cache'[h] # x /\ content_hash[cache'[h]] = h
       /\ lru' \in Seq(Hash)
  BY <1>8, <1>9, <1>18 DEF Takes, CacheNamesHash, KVTypeOK
<1>22. /\ free_ids' \in Seq(Block)
       /\ \A i, j \in DOMAIN free_ids' : free_ids'[i] = free_ids'[j] => i = j
       /\ \A i \in DOMAIN free_ids' : /\ free_ids'[i] # x
                                      /\ ref_count[free_ids'[i]] = 0
                                      /\ content_hash[free_ids'[i]] = NoHash
  BY <1>8, <1>9, <1>18 DEF Takes
<1>23. KVTypeOK'
  BY <1>2, <1>12, <1>15, <1>19, <1>20, <1>21, <1>22 DEF KVTypeOK
<1>24. FreeListSound'
  <2>1. \A i \in DOMAIN free_ids' : free_ids'[i] \in Block /\ free_ids'[i] # y
    BY <1>7, <1>22
  <2>2. \A i \in DOMAIN free_ids' : /\ ref_count'[free_ids'[i]] = 0
                                    /\ content_hash'[free_ids'[i]] = NoHash
    BY <2>1, <1>12, <1>19, <1>22
  <2> QED
    BY <2>2, <1>22 DEF FreeListSound, IsInjective
<1>25. CacheNamesHash'
  BY <1>19, <1>21 DEF CacheNamesHash
<1>26. TablesOnce'
  <2>1. \A i, j \in 1..k : tables'[s][i] = tables'[s][j] => i = j
    BY <1>5, <1>10, <1>14, <1>16 DEF TablesOnce
  <2> QED
    BY <1>13, <1>14, <2>1 DEF TablesOnce
<1>27. Lifecycle'
  BY <1>2, <1>13 DEF Lifecycle, Idle
<1>28. RefCountExact'
  <2> SUFFICES ASSUME NEW z \in Block
               PROVE  ref_count'[z] = Cardinality(Holders(z)') + dropped'[z]
    BY DEF RefCountExact
  <2>1. ref_count[z] = Cardinality(Holders(z)) + dropped[z]
    BY DEF RefCountExact
  <2>2. IsFiniteSet(Holders(z)) /\ Cardinality(Holders(z)) \in Nat /\ dropped[z] \in Nat
    BY <1>1, HoldersFinite
  <2>3. CASE z = x
    <3>1. Holders(z) = {}
      BY <2>3, <1>10 DEF Holders
    <3>2. Holders(z)' = {s}
      BY <2>3, <1>5, <1>10, <1>13, <1>14, <1>16 DEF Holders
    <3>3. Cardinality(Holders(z)') = 1 /\ Cardinality(Holders(z)) = 0
      BY <3>1, <3>2, FS_Singleton, FS_EmptySet
    <3> QED
      BY <2>1, <2>2, <2>3, <3>3, <1>2, <1>10, <1>12
  <2>4. CASE z = y
    <3>1. Holders(z)' = Holders(z) \ {s} /\ s \in Holders(z)
      BY <2>4, <1>4, <1>5, <1>10, <1>13, <1>14, <1>16, <1>17 DEF Holders
    <3>2. Cardinality(Holders(z)') = Cardinality(Holders(z)) - 1
      BY <2>2, <3>1, FS_RemoveElement
    <3> QED
      BY <2>1, <2>2, <2>4, <3>2, <1>2, <1>12
  <2>5. CASE z # x /\ z # y
    <3>1. \A u \in Seqs : (\E i \in Owned(u)' : tables'[u][i] = z)
                          <=> (\E i \in Owned(u) : tables[u][i] = z)
      <4> SUFFICES ASSUME NEW u \in Seqs
                   PROVE  (\E i \in Owned(u)' : tables'[u][i] = z)
                          <=> (\E i \in Owned(u) : tables[u][i] = z)
        OBVIOUS
      <4>1. CASE u = s
        BY <4>1, <2>5, <1>4, <1>14, <1>16
      <4>2. CASE u # s
        BY <4>2, <1>13, <1>16
      <4> QED
        BY <4>1, <4>2
    <3>2. Holders(z)' = Holders(z)
      BY <3>1 DEF Holders
    <3> QED
      BY <2>1, <2>5, <3>2, <1>2, <1>12
  <2> QED
    BY <2>3, <2>4, <2>5
<1>29. \A u \in Seqs : \A i \in Owned(u)' :
         \/ u = s /\ i = k /\ tables'[u][i] = x
         \/ /\ i \in Owned(u) /\ tables'[u][i] = tables[u][i]
            /\ tables[u][i] # x /\ content_hash'[tables[u][i]] = content_hash[tables[u][i]]
  <2>1. \A u \in Seqs : \A i \in Owned(u) : tables[u][i] \in Block
    BY OwnedPositions
  <2>2. \A u \in Seqs : \A i \in Owned(u) :
          tables[u][i] # x /\ content_hash'[tables[u][i]] = content_hash[tables[u][i]]
    BY <2>1, <1>10, <1>19
  <2> QED
    BY <2>2, <1>13, <1>14, <1>16
<1>30. HashedByPosition'
  BY <1>2, <1>19, <1>29 DEF HashedByPosition, NFull
<1>31. UnhashedPrivate'
  BY <1>29 DEF UnhashedPrivate
<1> QED
  BY <1>23, <1>24, <1>25, <1>26, <1>27, <1>28, <1>30, <1>31

\* OutOfBlocks in the middle of allocate_prompt keeps the invariant.
LEMMA RaiseOutOfBlocksInv ==
  ASSUME KVInv, NEW s \in Seqs, RaiseOutOfBlocks(s)
  PROVE  KVInv'
<1>1. /\ pc[s] # "free" /\ DropTable(s) /\ matching' \in BOOLEAN
      /\ UNCHANGED <<free_ids, ref_count, content_hash, n_tokens, cache, lru, next>>
  BY DEF RaiseOutOfBlocks, poolVars
<1> QED
  BY <1>1, DropTableInv

\* A caller that overwrites its table keeps the invariant.
LEMMA OverwriteInv ==
  ASSUME KVInv, NEW s \in Seqs, Overwrite(s)
  PROVE  KVInv'
<1>1. /\ pc[s] # "free" /\ DropTable(s) /\ matching' \in BOOLEAN
      /\ UNCHANGED <<free_ids, ref_count, content_hash, n_tokens, cache, lru, next>>
  BY DEF Overwrite, poolVars, KVInv, KVTypeOK
<1> QED
  BY <1>1, DropTableInv

\* The invariant holds of the pool __init__ builds.
LEMMA InitInv == KVInit => KVInv
<1> SUFFICES ASSUME KVInit PROVE KVInv
  OBVIOUS
<1> USE DEF KVInit
<1>1. NumBlocks \in Nat \ {0} /\ BlockSize \in Nat \ {0} /\ NoHash \in Hash
  BY KVAssumption DEF NoHash, Hash
<1>2. /\ free_ids \in Seq(Block) /\ DOMAIN free_ids = 1..NumBlocks
      /\ \A i \in 1..NumBlocks : free_ids[i] = i - 1 /\ free_ids[i] \in Block
  BY <1>1 DEF Block
<1>3. \A s \in Seqs : Owned(s) = {}
  BY DEF Owned
<1>4. cache \in [DOMAIN cache -> Block] /\ DOMAIN cache = {} /\ lru \in Seq(Hash)
  OBVIOUS
<1>5. prompt \in [Seqs -> Prompt]
  BY <1>1 DEF NoPrompt, Prompt
<1>6. KVTypeOK
  <2>1. /\ ref_count \in [Block -> Nat] /\ content_hash \in [Block -> Hash]
        /\ n_tokens \in [Block -> 0..BlockSize] /\ dropped \in [Block -> Nat]
        /\ tables \in [Seqs -> Seq(Block)] /\ hits \in [Seqs -> Nat]
    BY <1>1
  <2>2. pc \in [Seqs -> {"out", "alloc", "held", "free"}] /\ next \in Nat
        /\ matching \in BOOLEAN
    OBVIOUS
  <2>3. DOMAIN cache \subseteq Hash
    BY <1>4
  <2> HIDE DEF KVInit
  <2> QED
    BY <1>2, <1>4, <1>5, <2>1, <2>2, <2>3 DEF KVTypeOK
<1>7. RefCountExact
  <2> SUFFICES ASSUME NEW y \in Block
               PROVE  ref_count[y] = Cardinality(Holders(y)) + dropped[y]
    BY DEF RefCountExact
  <2>1. Holders(y) = {}
    BY <1>3 DEF Holders
  <2>2. Cardinality(Holders(y)) = 0
    BY <2>1, FS_EmptySet
  <2> QED
    BY <2>2
<1>8. FreeListSound
  BY <1>1, <1>2 DEF FreeListSound, IsInjective
<1>9. CacheNamesHash
  BY <1>4 DEF CacheNamesHash
<1>10. TablesOnce /\ Lifecycle
  BY DEF TablesOnce, Lifecycle
<1>11. HashedByPosition /\ UnhashedPrivate
  BY <1>3 DEF HashedByPosition, UnhashedPrivate
<1> QED
  BY <1>6, <1>7, <1>8, <1>9, <1>10, <1>11 DEF KVInv

\* Every step of every call keeps the invariant.
LEMMA NextInv == KVInv /\ [KVNext]_kvVars => KVInv'
<1> SUFFICES ASSUME KVInv, [KVNext]_kvVars PROVE KVInv'
  OBVIOUS
<1>1. CASE KVNext
  <2>1. PICK s \in Seqs : \/ allocate_prompt(s)
                          \/ \E n \in Lens : append_token(s, n)
                          \/ free(s)
                          \/ Overwrite(s)
    BY <1>1 DEF KVNext
  <2>2. CASE allocate_prompt(s)
    BY <2>2, AllocatePromptInv, HitBlockInv, MissBlockInv, TailBlockInv,
       RaiseOutOfBlocksInv, AllocateReturnInv DEF allocate_prompt
  <2>3. CASE \E n \in Lens : append_token(s, n)
    BY <2>3, GrowTableInv, WriteTailInv, CopyOnWriteInv DEF append_token
  <2>4. CASE free(s)
    BY <2>4, FreeInv, ReleaseInv, FreeReturnInv DEF free
  <2>5. CASE Overwrite(s)
    BY <2>5, OverwriteInv
  <2> QED
    BY <2>1, <2>2, <2>3, <2>4, <2>5
<1>2. CASE UNCHANGED kvVars
  <2>1. \A s \in Seqs : Owned(s)' = Owned(s)
    BY <1>2 DEF kvVars, Owned
  <2>2. \A y : Holders(y)' = Holders(y)
    BY <1>2 DEF kvVars, Holders, Owned
  <2> QED
    BY <1>2, <2>1, <2>2 DEF kvVars, KVInv, KVTypeOK, RefCountExact, FreeListSound,
       CacheNamesHash, TablesOnce, Lifecycle, HashedByPosition, UnhashedPrivate, NFull
<1> QED
  BY <1>1, <1>2

\* The inductive invariant holds always.
THEOREM KVInvariant == KVSpec => []KVInv
<1> QED
  BY InitInv, NextInv, PTL DEF KVSpec

\* The allocator's state is always well typed.
THEOREM TypeCorrect == KVSpec => []KVTypeOK
<1>1. KVInv => KVTypeOK
  BY DEF KVInv
<1> QED
  BY <1>1, KVInvariant, PTL

\* Reference counts are always the number of holders plus the lost references.
THEOREM RefCountsExact == KVSpec => []RefCountExact
<1>1. KVInv => RefCountExact
  BY DEF KVInv
<1> QED
  BY <1>1, KVInvariant, PTL

\* The free list never names a block in use or in the cache, nor one twice.
THEOREM FreeListIsSound == KVSpec => []FreeListSound
<1>1. KVInv => FreeListSound
  BY DEF KVInv
<1> QED
  BY <1>1, KVInvariant, PTL

\* Blocks at equal hashes sit at equal positions of equal prefixes.
LEMMA SharingFromInv == KVInv => SharedPrefixIdentical
<1> SUFFICES ASSUME KVInv, NEW s \in Seqs, NEW t \in Seqs,
                    NEW i \in Owned(s), NEW j \in Owned(t),
                    <<s, i>> # <<t, j>>, tables[s][i] = tables[t][j]
             PROVE  /\ i = j
                    /\ SubSeq(prompt[s].chunks, 1, i) = SubSeq(prompt[t].chunks, 1, i)
                    /\ i <= NFull(s)
  BY DEF SharedPrefixIdentical
<1> USE DEF KVInv
<1>1. /\ i \in DOMAIN tables[s] /\ j \in DOMAIN tables[t]
      /\ i \in Nat /\ j \in Nat /\ i > 0 /\ j > 0
  BY OwnedPositions
<1>2. s # t
  BY <1>1 DEF TablesOnce
<1>3. content_hash[tables[s][i]] # NoHash
  BY <1>2 DEF UnhashedPrivate
<1>4. /\ i <= NFull(s) /\ content_hash[tables[s][i]] = SubSeq(prompt[s].chunks, 1, i)
      /\ j <= NFull(t) /\ content_hash[tables[s][i]] = SubSeq(prompt[t].chunks, 1, j)
  BY <1>3 DEF HashedByPosition
<1>5. \A c \in Seq(Chunk) : \A k \in Nat : k > 0 /\ k <= Len(c) => Len(SubSeq(c, 1, k)) = k
  OBVIOUS
<1>6. prompt[s].chunks \in Seq(Chunk) /\ prompt[t].chunks \in Seq(Chunk)
  BY DEF KVTypeOK, Prompt
<1>7. /\ Len(SubSeq(prompt[s].chunks, 1, i)) = i
      /\ Len(SubSeq(prompt[t].chunks, 1, j)) = j
  BY <1>1, <1>4, <1>5, <1>6 DEF NFull
<1> QED
  BY <1>4, <1>7

\* Two tables only ever share a block of an identical prompt prefix.
THEOREM SharingIsPrefixIdentity == KVSpec => []SharedPrefixIdentical
<1> QED
  BY SharingFromInv, KVInvariant, PTL

\* Overwriting the hash of a block just taken touches nobody's content.
LEMMA FreshBlockStable ==
  ASSUME KVInv, NEW t \in TakeFreeBlock, NEW h,
         content_hash' = [content_hash EXCEPT ![t.bid] = h]
  PROVE  HeldStays
<1> SUFFICES ASSUME NEW u \in Seqs, pc[u] = "held", NEW i \in DOMAIN tables[u]
             PROVE  content_hash'[tables[u][i]] = content_hash[tables[u][i]]
  BY DEF HeldStays
<1>1. i \in Owned(u) /\ tables[u][i] \in Block
  BY OwnedPositions DEF KVInv
<1>2. tables[u][i] # t.bid
  BY <1>1, TakeFacts DEF Takes
<1>3. content_hash \in [Block -> Hash]
  BY DEF KVInv, KVTypeOK
<1> QED
  BY <1>1, <1>2, <1>3

\* _release clears the hash only of a block that nobody else holds.
LEMMA ReleaseStable ==
  ASSUME KVInv, NEW s \in Seqs, Release(s)
  PROVE  HeldStays
<1> SUFFICES ASSUME NEW u \in Seqs, pc[u] = "held", NEW i \in DOMAIN tables[u]
             PROVE  content_hash'[tables[u][i]] = content_hash[tables[u][i]]
  BY DEF HeldStays
<1>0. PICK x : x = tables[s][next]
  OBVIOUS
<1>1. tables[u][i] \in Block /\ Owned(u) = DOMAIN tables[u]
  BY OwnedPositions DEF KVInv
<1>2. content_hash \in [Block -> Hash] /\ ref_count \in [Block -> Nat]
  BY DEF KVInv, KVTypeOK
<1>3. CASE LastReference(x) /\ ~Resident(x)
  <2>1. content_hash' = [content_hash EXCEPT ![x] = NoHash] /\ pc' = pc /\ tables' = tables
    BY <1>0, <1>3 DEF Release
  <2>2. /\ x \in Block /\ ref_count[x] \in Nat \ {0}
        /\ ref_count' = [ref_count EXCEPT ![x] = ref_count[x] - 1]
        /\ ref_count'[x] = 0 => \A v \in Seqs : \A j \in Owned(v)' : tables[v][j] # x
    BY <1>0, ReleasedBlock
  <2>3. ref_count'[x] = 0
    BY <1>2, <1>3, <2>2 DEF LastReference
  <2>4. Owned(u)' = DOMAIN tables[u]
    BY <1>1, <2>1 DEF Owned
  <2>5. tables[u][i] # x
    BY <2>2, <2>3, <2>4 DEF Owned
  <2> QED
    BY <1>1, <1>2, <2>1, <2>5
<1>4. CASE ~(LastReference(x) /\ ~Resident(x))
  BY <1>0, <1>4 DEF Release
<1> QED
  BY <1>3, <1>4

\* No call changes the content of a block that a sequence keeps in its table.
THEOREM ContentIsStable == KVSpec => HeldContentStable
<1>1. ASSUME KVInv, [KVNext]_kvVars PROVE [HeldStays]_kvVars
  <2> SUFFICES ASSUME KVNext PROVE HeldStays
    BY <1>1
  <2>1. PICK s \in Seqs : \/ allocate_prompt(s)
                          \/ \E n \in Lens : append_token(s, n)
                          \/ free(s)
                          \/ Overwrite(s)
    BY DEF KVNext
  <2>2. CASE UNCHANGED content_hash
    BY <2>2 DEF HeldStays
  <2>3. CASE MissBlock(s)
    BY <1>1, <2>3, FreshBlockStable DEF MissBlock
  <2>4. CASE TailBlock(s)
    BY <1>1, <2>4, FreshBlockStable DEF TailBlock, TakeUnhashed
  <2>5. CASE \E n \in Lens : GrowTable(s, n) \/ CopyOnWrite(s, n)
    BY <1>1, <2>5, FreshBlockStable DEF GrowTable, CopyOnWrite, TakeUnhashed
  <2>6. CASE Release(s)
    BY <1>1, <2>6, ReleaseStable
  <2>7. \/ UNCHANGED content_hash \/ MissBlock(s) \/ TailBlock(s) \/ Release(s)
        \/ \E n \in Lens : GrowTable(s, n) \/ CopyOnWrite(s, n)
    BY <2>1 DEF allocate_prompt, append_token, free, AllocatePrompt, HitBlock,
       RaiseOutOfBlocks, AllocateReturn, WriteTail, Free, FreeReturn, Overwrite, poolVars
  <2> QED
    BY <2>2, <2>3, <2>4, <2>5, <2>6, <2>7
<1> QED
  BY <1>1, KVInvariant, PTL DEF KVSpec, HeldContentStable

-----------------------------------------------------------------------------
(***************************************************************************)
(* Blocks lost to the pool.  A cache entry overwritten by MissBlock leaves *)
(* its old block to nobody; no step finds such a block again, and when     *)
(* _take_free_block has nothing to give, every other block is referenced.  *)
(***************************************************************************)

\* Every cache entry has its place in the eviction order.
LruCovers == DOMAIN cache \subseteq Range(lru)

\* Deleting a key leaves every other key its place.
LEMMA DelKeyLeaves ==
  ASSUME NEW l \in Seq(Hash), NEW h
  PROVE  Range(l) \subseteq Range(DelKey(l, h)) \cup {h}
<1>1. CASE \E i \in DOMAIN l : l[i] = h
  <2> DEFINE k == CHOOSE i \in DOMAIN l : l[i] = h
             p == SubSeq(l, 1, k - 1)
             q == SubSeq(l, k + 1, Len(l))
  <2>1. k \in 1..Len(l) /\ l[k] = h /\ Len(l) \in Nat
    BY <1>1
  <2>2. DelKey(l, h) = p \o q
    BY <1>1 DEF DelKey, RemoveAt
  <2> HIDE DEF k
  <2>3. /\ p \in Seq(Hash) /\ Len(p) = k - 1
        /\ \A j \in 1..(k - 1) : p[j] = l[j]
    BY <2>1
  <2>4. /\ q \in Seq(Hash) /\ Len(q) = Len(l) - k
        /\ \A j \in 1..(Len(l) - k) : q[j] = l[j + k]
    BY <2>1
  <2> HIDE DEF p, q
  <2>5. /\ p \o q \in Seq(Hash) /\ Len(p \o q) = Len(l) - 1
        /\ \A j \in 1..(k - 1) : (p \o q)[j] = l[j]
        /\ \A j \in 1..(Len(l) - k) : (p \o q)[j + k - 1] = l[j + k]
    <3>1. Len(p \o q) = Len(l) - 1 /\ p \o q \in Seq(Hash)
      <4>1. p \o q \in Seq(Hash) /\ Len(p \o q) = Len(p) + Len(q)
        BY <2>3, <2>4, ConcatProperties
      <4> QED
        BY <2>1, <2>3, <2>4, <4>1
    <3>2. ASSUME NEW j \in 1..(k - 1)
          PROVE  (p \o q)[j] = l[j]
      <4>1. j \in 1..(Len(p) + Len(q)) /\ j <= Len(p)
        BY <2>1, <2>3, <2>4
      <4> QED
        BY <2>3, <2>4, <4>1
    <3>3. ASSUME NEW j \in 1..(Len(l) - k)
          PROVE  (p \o q)[j + k - 1] = l[j + k]
      <4>1. /\ j + k - 1 \in 1..(Len(p) + Len(q)) /\ ~(j + k - 1 <= Len(p))
            /\ j + k - 1 - Len(p) = j
        BY <2>1, <2>3, <2>4
      <4> QED
        BY <2>3, <2>4, <4>1
    <3> QED
      BY <3>1, <3>2, <3>3
  <2>6. ASSUME NEW j \in 1..Len(l), l[j] # h
        PROVE  \E m \in 1..Len(p \o q) : (p \o q)[m] = l[j]
    <3>1. CASE j < k
      BY <2>1, <2>5, <3>1
    <3>2. CASE j > k
      <4> DEFINE m == j - k
      <4>1. m \in 1..(Len(l) - k) /\ m + k = j /\ m + k - 1 \in 1..Len(p \o q)
        BY <2>1, <2>5, <3>2
      <4> HIDE DEF m
      <4> QED
        BY <2>5, <4>1
    <3> QED
      BY <2>1, <2>6, <3>1, <3>2
  <2> DEFINE r == p \o q
  <2>7. /\ r \in Seq(Hash) /\ DelKey(l, h) = r
        /\ \A j \in 1..Len(l) : l[j] # h => \E m \in 1..Len(r) : r[m] = l[j]
    BY <2>2, <2>5, <2>6
  <2> HIDE DEF r
  <2> QED
    BY <2>7 DEF Range
<1>2. CASE ~\E i \in DOMAIN l : l[i] = h
  BY <1>2 DEF DelKey
<1> QED
  BY <1>1, <1>2

\* What _take_free_block hands out was not lost, and it loses nothing itself.
LEMMA TakesNoStranded ==
  ASSUME KVInv, NEW t \in TakeFreeBlock
  PROVE  /\ t.bid \in Block /\ t.bid \notin Stranded
         /\ Range(t.free_ids) \subseteq Range(free_ids)
         /\ \A h \in DOMAIN t.cache : h \in DOMAIN cache /\ t.cache[h] = cache[h]
         /\ t.lru \in Seq(Hash)
         /\ LruCovers => DOMAIN t.cache \subseteq Range(t.lru)
<1>1. Takes(t)
  BY TakeFacts
<1>2. free_ids \in Seq(Block) /\ lru \in Seq(Hash)
  BY DEF KVInv, KVTypeOK
<1>3. CASE free_ids # <<>>
  <2>1. t = [bid |-> Last(free_ids), free_ids |-> Front(free_ids),
             cache |-> cache, lru |-> lru]
    BY <1>3 DEF TakeFreeBlock
  <2>2. Len(free_ids) \in 1..Len(free_ids) /\ DOMAIN free_ids = 1..Len(free_ids)
    BY <1>2, <1>3
  <2>3. t.bid = free_ids[Len(free_ids)] /\ t.cache = cache /\ t.lru = lru
    BY <2>1 DEF Last
  <2>4. Contains(free_ids, t.bid)
    BY <2>2, <2>3 DEF Contains
  <2>5. Range(t.free_ids) \subseteq Range(free_ids)
    BY <1>2, <2>1, <2>2 DEF Front, Range
  <2> QED
    BY <1>1, <2>3, <2>4, <2>5 DEF Takes, Stranded, LruCovers
<1>4. CASE free_ids = <<>>
  <2>1. PICK i \in EvictOne :
          t = [bid |-> cache[lru[i]], free_ids |-> <<>>,
               cache |-> Uncache(cache, lru[i]), lru |-> DelKey(lru, lru[i])]
    BY <1>4 DEF TakeFreeBlock
  <2>2. lru[i] \in DOMAIN cache
    BY DEF EvictOne, Evictable
  <2> DEFINE h == lru[i]
  <2>3. /\ t.bid = cache[h] /\ t.free_ids = <<>> /\ t.lru = DelKey(lru, h)
        /\ t.cache = Uncache(cache, h) /\ h \in DOMAIN cache
    BY <2>1, <2>2
  <2> HIDE DEF h
  <2>4. DOMAIN t.cache = DOMAIN cache \ {h} /\ \A g \in DOMAIN t.cache : t.cache[g] = cache[g]
    BY <2>3 DEF Uncache
  <2>5. Range(lru) \subseteq Range(t.lru) \cup {h}
    BY <1>2, <2>3, DelKeyLeaves
  <2>6. Range(t.free_ids) \subseteq Range(free_ids)
    BY <1>4, <2>3
  <2> QED
    BY <1>1, <2>3, <2>4, <2>5, <2>6 DEF Takes, Stranded, LruCovers
<1> QED
  BY <1>3, <1>4

\* A step that touches no lost block, and neither frees nor caches one, keeps
\* the lost blocks lost.
LEMMA UntouchedStaysStranded ==
  ASSUME KVTypeOK, KVTypeOK', NEW B, B \cap Stranded = {},
         \A x \in Block \ B : ref_count'[x] = ref_count[x],
         Range(free_ids') \subseteq Range(free_ids) \cup B,
         \A h \in DOMAIN cache' : cache'[h] \in B \/ \E g \in DOMAIN cache : cache'[h] = cache[g]
  PROVE  Stranded \subseteq Stranded'
<1> SUFFICES ASSUME NEW x \in Stranded
             PROVE  x \in Stranded'
  OBVIOUS
<1>1. x \in Block /\ x \notin B /\ ref_count[x] = 0
  BY DEF Stranded
<1>2. ref_count'[x] = 0
  BY <1>1
<1>3. ~Contains(free_ids', x)
  <2>1. ~Contains(free_ids, x)
    BY DEF Stranded
  <2> QED
    BY <1>1, <2>1 DEF Range, Contains
<1>4. \A h \in DOMAIN cache' : cache'[h] # x
  BY <1>1 DEF Stranded
<1> QED
  BY <1>1, <1>2, <1>3, <1>4 DEF Stranded

\* A step that takes a block, unhashed, and gives back a reference at most.
LEMMA TakeKeepsPool ==
  ASSUME KVInv, KVTypeOK', NEW t \in TakeFreeBlock, NEW y, y \notin Stranded,
         \A x \in Block \ {t.bid, y} : ref_count'[x] = ref_count[x],
         free_ids' = t.free_ids, cache' = t.cache, lru' = t.lru
  PROVE  (LruCovers => LruCovers') /\ Stranded \subseteq Stranded'
<1>1. /\ t.bid \notin Stranded
      /\ Range(t.free_ids) \subseteq Range(free_ids)
      /\ \A h \in DOMAIN t.cache : h \in DOMAIN cache /\ t.cache[h] = cache[h]
      /\ LruCovers => DOMAIN t.cache \subseteq Range(t.lru)
  BY TakesNoStranded
<1>2. LruCovers => LruCovers'
  BY <1>1 DEF LruCovers
<1> DEFINE B == {t.bid, y}
<1>3. B \cap Stranded = {} /\ \A x \in Block \ B : ref_count'[x] = ref_count[x]
  BY <1>1
<1>4. Range(free_ids') \subseteq Range(free_ids) \cup B
  BY <1>1
<1>5. \A h \in DOMAIN cache' : cache'[h] \in B \/ \E g \in DOMAIN cache : cache'[h] = cache[g]
  BY <1>1
<1> HIDE DEF B
<1>6. Stranded \subseteq Stranded'
  BY <1>3, <1>4, <1>5, UntouchedStaysStranded DEF KVInv
<1> QED
  BY <1>2, <1>6

\* allocate_prompt's hit: the block was cached, and becomes the youngest.
LEMMA HitBlockKeepsPool ==
  ASSUME KVInv, KVTypeOK', NEW s \in Seqs, HitBlock(s)
  PROVE  (LruCovers => LruCovers') /\ Stranded \subseteq Stranded'
<1> DEFINE bh == NextHash(s)
           x == cache[bh]
<1>1. /\ bh \in DOMAIN cache /\ x \in Block /\ content_hash[x] = bh /\ bh # NoHash
      /\ bh \in Hash
  BY DEF HitBlock, Hit, CacheNamesHash, KVTypeOK, KVInv
<1> HIDE DEF bh, x
<1>2. ~Contains(free_ids, x)
  <2>1. \A i \in DOMAIN free_ids : free_ids[i] # x
    BY <1>1 DEF FreeListSound, KVInv
  <2>2. DOMAIN free_ids = 1..Len(free_ids)
    BY DEF KVInv, KVTypeOK
  <2> QED
    BY <2>1, <2>2 DEF Contains
<1>3. /\ free_ids' = free_ids /\ cache' = cache
      /\ ref_count' = [ref_count EXCEPT ![x] = ref_count[x] + 1]
      /\ lru' = Append(DelKey(lru, bh), bh)
  BY <1>2 DEF HitBlock, bh, x
<1>4. LruCovers => LruCovers'
  <2>1. DelKey(lru, bh) \in Seq(Hash) /\ lru \in Seq(Hash)
    BY DelKeyType DEF KVInv, KVTypeOK
  <2>2. Range(lru) \subseteq Range(DelKey(lru, bh)) \cup {bh}
    BY <2>1, DelKeyLeaves
  <2> DEFINE l == DelKey(lru, bh)
  <2>3. lru' = Append(l, bh) /\ l \in Seq(Hash) /\ Range(lru) \subseteq Range(l) \cup {bh}
    BY <1>3, <2>1, <2>2
  <2> HIDE DEF l
  <2>4. Range(l) \cup {bh} \subseteq Range(lru')
    <3>1. /\ DOMAIN lru' = 1..(Len(l) + 1) /\ DOMAIN l = 1..Len(l) /\ Len(l) \in Nat
          /\ lru'[Len(l) + 1] = bh /\ \A i \in 1..Len(l) : lru'[i] = l[i]
      BY <1>1, <2>3
    <3> QED
      BY <3>1 DEF Range
  <2> QED
    BY <1>3, <2>3, <2>4 DEF LruCovers
<1>5. {x} \cap Stranded = {}
  BY <1>1 DEF Stranded, x
<1>6. \A y \in Block \ {x} : ref_count'[y] = ref_count[y]
  BY <1>3 DEF KVInv, KVTypeOK
<1>7. Stranded \subseteq Stranded'
  BY <1>3, <1>5, <1>6, UntouchedStaysStranded DEF KVInv
<1> QED
  BY <1>4, <1>7

\* allocate_prompt's miss: the fresh block gets the entry, whose old block may
\* be lost, and a place in the order when the entry is new.
LEMMA MissBlockKeepsPool ==
  ASSUME KVInv, KVTypeOK', NEW s \in Seqs, MissBlock(s)
  PROVE  (LruCovers => LruCovers') /\ Stranded \subseteq Stranded'
<1> DEFINE bh == NextHash(s)
<1>1. bh \in Hash
  BY NextHashIsPrefix DEF MissBlock, KVInv
<1> HIDE DEF bh
<1>2. PICK t \in TakeFreeBlock :
        /\ free_ids' = t.free_ids
        /\ ref_count' = [ref_count EXCEPT ![t.bid] = 1]
        /\ EnablePrefixCaching =>
             /\ cache' = [h \in DOMAIN t.cache \cup {bh} |->
                            IF h = bh THEN t.bid ELSE t.cache[h]]
             /\ lru' = IF bh \in DOMAIN t.cache THEN t.lru ELSE Append(t.lru, bh)
        /\ ~EnablePrefixCaching => cache' = t.cache /\ lru' = t.lru
  BY DEF MissBlock, bh
<1>3. /\ t.bid \in Block /\ t.bid \notin Stranded
      /\ Range(t.free_ids) \subseteq Range(free_ids)
      /\ \A h \in DOMAIN t.cache : h \in DOMAIN cache /\ t.cache[h] = cache[h]
      /\ t.lru \in Seq(Hash)
      /\ LruCovers => DOMAIN t.cache \subseteq Range(t.lru)
  BY TakesNoStranded
<1>4. \A x \in Block \ {t.bid} : ref_count'[x] = ref_count[x]
  BY <1>2 DEF KVInv, KVTypeOK
<1>5. CASE ~EnablePrefixCaching
  <2>1. \A x \in Block \ {t.bid, t.bid} : ref_count'[x] = ref_count[x]
    BY <1>4
  <2> QED
    BY <1>2, <1>3, <1>5, <2>1, TakeKeepsPool
<1>6. CASE EnablePrefixCaching
  <2>1. /\ cache' = [h \in DOMAIN t.cache \cup {bh} |->
                       IF h = bh THEN t.bid ELSE t.cache[h]]
        /\ bh \in DOMAIN t.cache => lru' = t.lru
        /\ bh \notin DOMAIN t.cache => lru' = Append(t.lru, bh)
    BY <1>2, <1>6
  <2>2. Range(t.lru) \cup (IF bh \in DOMAIN t.cache THEN {} ELSE {bh}) \subseteq Range(lru')
    <3>1. CASE bh \in DOMAIN t.cache
      BY <2>1, <3>1
    <3>2. CASE bh \notin DOMAIN t.cache
      <4> DEFINE l == t.lru
      <4>1. lru' = Append(l, bh) /\ l \in Seq(Hash)
        BY <1>3, <2>1, <3>2
      <4> HIDE DEF l
      <4>2. /\ DOMAIN lru' = 1..(Len(l) + 1) /\ DOMAIN l = 1..Len(l) /\ Len(l) \in Nat
            /\ lru'[Len(l) + 1] = bh /\ \A i \in 1..Len(l) : lru'[i] = l[i]
        BY <1>1, <4>1
      <4>3. Range(l) \cup {bh} \subseteq Range(lru')
        BY <4>2 DEF Range
      <4> QED
        BY <3>2, <4>3 DEF l
    <3> QED
      BY <3>1, <3>2
  <2>3. LruCovers => LruCovers'
    BY <1>3, <2>1, <2>2 DEF LruCovers
  <2>4. \A h \in DOMAIN cache' :
          cache'[h] \in {t.bid} \/ \E g \in DOMAIN cache : cache'[h] = cache[g]
    BY <1>3, <2>1
  <2>5. {t.bid} \cap Stranded = {} /\ Range(free_ids') \subseteq Range(free_ids) \cup {t.bid}
    BY <1>2, <1>3
  <2>6. Stranded \subseteq Stranded'
    BY <1>4, <2>4, <2>5, UntouchedStaysStranded DEF KVInv
  <2> QED
    BY <2>3, <2>6
<1> QED
  BY <1>5, <1>6

\* A release: the block had a holder.
LEMMA ReleaseKeepsPool ==
  ASSUME KVInv, KVTypeOK', NEW s \in Seqs, Release(s)
  PROVE  (LruCovers => LruCovers') /\ Stranded \subseteq Stranded'
<1> DEFINE x == tables[s][next]
<1>1. /\ x \in Block /\ ref_count[x] \in Nat \ {0}
      /\ ref_count' = [ref_count EXCEPT ![x] = ref_count[x] - 1]
  BY ReleasedBlock
<1>2. /\ LastReference(x) /\ ~Resident(x) =>
           /\ free_ids' = Append(free_ids, x)
           /\ cache' = Uncache(cache, content_hash[x])
           /\ lru' = DelKey(lru, content_hash[x])
      /\ ~(LastReference(x) /\ ~Resident(x)) => UNCHANGED <<free_ids, cache, lru>>
  BY DEF Release
<1> HIDE DEF x
<1>3. {x} \cap Stranded = {} /\ \A y \in Block \ {x} : ref_count'[y] = ref_count[y]
  BY <1>1 DEF Stranded, KVInv, KVTypeOK
<1>4. CASE ~(LastReference(x) /\ ~Resident(x))
  <2>1. UNCHANGED <<free_ids, cache, lru>>
    BY <1>2, <1>4
  <2>2. Stranded \subseteq Stranded'
    BY <1>3, <2>1, UntouchedStaysStranded DEF KVInv
  <2> QED
    BY <2>1, <2>2 DEF LruCovers
<1>5. CASE LastReference(x) /\ ~Resident(x)
  <2> DEFINE h == content_hash[x]
  <2>1. /\ free_ids' = Append(free_ids, x) /\ lru' = DelKey(lru, h)
        /\ DOMAIN cache' = DOMAIN cache \ {h}
        /\ \A g \in DOMAIN cache' : cache'[g] = cache[g]
    BY <1>2, <1>5 DEF Uncache
  <2> HIDE DEF h
  <2>2. lru \in Seq(Hash) /\ free_ids \in Seq(Block)
    BY DEF KVInv, KVTypeOK
  <2>3. Range(lru) \subseteq Range(lru') \cup {h}
    BY <2>1, <2>2, DelKeyLeaves
  <2>4. LruCovers => LruCovers'
    BY <2>1, <2>3 DEF LruCovers
  <2>5. Range(free_ids') \subseteq Range(free_ids) \cup {x}
    <3>1. /\ DOMAIN free_ids' = 1..(Len(free_ids) + 1) /\ DOMAIN free_ids = 1..Len(free_ids)
          /\ free_ids'[Len(free_ids) + 1] = x /\ Len(free_ids) \in Nat
          /\ \A i \in 1..Len(free_ids) : free_ids'[i] = free_ids[i]
      BY <1>1, <2>1, <2>2
    <3> QED
      BY <3>1 DEF Range
  <2>6. \A g \in DOMAIN cache' :
          cache'[g] \in {x} \/ \E f \in DOMAIN cache : cache'[g] = cache[f]
    BY <2>1
  <2>7. Stranded \subseteq Stranded'
    BY <1>3, <2>5, <2>6, UntouchedStaysStranded DEF KVInv
  <2> QED
    BY <2>4, <2>7
<1> QED
  BY <1>4, <1>5

\* append_token's copy: the shared tail keeps a reference.
LEMMA CopyOnWriteKeepsPool ==
  ASSUME KVInv, KVTypeOK', NEW s \in Seqs, NEW n \in Lens, CopyOnWrite(s, n)
  PROVE  (LruCovers => LruCovers') /\ Stranded \subseteq Stranded'
<1> DEFINE y == Last(tables[s])
<1>1. PICK t \in TakeFreeBlock :
        /\ TakeUnhashed(t, offset(n) + 1)
        /\ ref_count' = [ref_count EXCEPT ![t.bid] = 1, ![y] = Released(y)]
  BY DEF CopyOnWrite
<1>2. ref_count[y] > 1
  BY DEF CopyOnWrite
<1> HIDE DEF y
<1>3. y \notin Stranded
  BY <1>2 DEF Stranded
<1>4. \A x \in Block \ {t.bid, y} : ref_count'[x] = ref_count[x]
  BY <1>1 DEF KVInv, KVTypeOK
<1>5. free_ids' = t.free_ids /\ cache' = t.cache /\ lru' = t.lru
  BY <1>1 DEF TakeUnhashed
<1> QED
  BY <1>3, <1>4, <1>5, TakeKeepsPool

\* A tail block or a grown one: a block taken, unhashed.
LEMMA UnhashedKeepsPool ==
  ASSUME KVInv, KVTypeOK', NEW s \in Seqs,
         TailBlock(s) \/ \E n \in Lens : GrowTable(s, n)
  PROVE  (LruCovers => LruCovers') /\ Stranded \subseteq Stranded'
<1>1. PICK t \in TakeFreeBlock :
        /\ \E n : TakeUnhashed(t, n)
        /\ ref_count' = [ref_count EXCEPT ![t.bid] = 1]
  BY DEF TailBlock, GrowTable
<1>2. t.bid \notin Stranded
  BY TakesNoStranded
<1>3. \A x \in Block \ {t.bid, t.bid} : ref_count'[x] = ref_count[x]
  BY <1>1 DEF KVInv, KVTypeOK
<1>4. free_ids' = t.free_ids /\ cache' = t.cache /\ lru' = t.lru
  BY <1>1 DEF TakeUnhashed
<1> QED
  BY <1>2, <1>3, <1>4, TakeKeepsPool

\* Every call keeps the order of eviction complete and finds no lost block.
LEMMA StepKeepsPool ==
  ASSUME KVInv, [KVNext]_kvVars
  PROVE  (LruCovers => LruCovers') /\ Stranded \subseteq Stranded'
<1>1. KVTypeOK'
  BY NextInv DEF KVInv
<1>2. CASE KVNext
  <2>1. PICK s \in Seqs : \/ allocate_prompt(s)
                          \/ \E n \in Lens : append_token(s, n)
                          \/ free(s)
                          \/ Overwrite(s)
    BY <1>2 DEF KVNext
  <2>2. CASE HitBlock(s)
    BY <1>1, <2>2, HitBlockKeepsPool
  <2>3. CASE MissBlock(s)
    BY <1>1, <2>3, MissBlockKeepsPool
  <2>4. CASE TailBlock(s) \/ \E n \in Lens : GrowTable(s, n)
    BY <1>1, <2>4, UnhashedKeepsPool
  <2>5. CASE \E n \in Lens : CopyOnWrite(s, n)
    BY <1>1, <2>5, CopyOnWriteKeepsPool
  <2>6. CASE Release(s)
    BY <1>1, <2>6, ReleaseKeepsPool
  <2>7. CASE UNCHANGED <<free_ids, ref_count, cache, lru>>
    BY <2>7 DEF LruCovers, Stranded
  <2>8. \/ HitBlock(s) \/ MissBlock(s) \/ TailBlock(s)
        \/ (\E n \in Lens : GrowTable(s, n)) \/ (\E n \in Lens : CopyOnWrite(s, n))
        \/ Release(s) \/ UNCHANGED <<free_ids, ref_count, cache, lru>>
    BY <2>1 DEF allocate_prompt, append_token, free, AllocatePrompt, RaiseOutOfBlocks,
       AllocateReturn, WriteTail, Free, FreeReturn, Overwrite, poolVars
  <2> QED
    BY <2>2, <2>3, <2>4, <2>5, <2>6, <2>7, <2>8
<1>3. CASE UNCHANGED kvVars
  BY <1>3 DEF kvVars, LruCovers, Stranded
<1> QED
  BY <1>2, <1>3

\* When _take_free_block raises, every block is in use or lost: an eviction is
\* found whenever a cached block is unreferenced.
LEMMA NothingToTake ==
  ASSUME KVInv, LruCovers, TakeFreeBlock = {}, NEW x \in Block, x \notin Stranded
  PROVE  ref_count[x] > 0
<1> SUFFICES ASSUME ref_count[x] = 0 PROVE FALSE
  BY DEF KVInv, KVTypeOK
<1>1. free_ids = <<>>
  <2>1. free_ids # <<>> => TakeFreeBlock # {}
    BY DEF TakeFreeBlock
  <2> QED
    BY <2>1
<1>2. EvictOne = {}
  <2> SUFFICES ASSUME NEW i \in EvictOne PROVE TakeFreeBlock # {}
    OBVIOUS
  <2> QED
    BY <1>1 DEF TakeFreeBlock
<1>3. PICK h \in DOMAIN cache : cache[h] = x
  <2>1. ~Contains(free_ids, x)
    BY <1>1 DEF Contains
  <2> QED
    BY <2>1 DEF Stranded
<1>4. h \in Evictable /\ h \in Range(lru) /\ lru \in Seq(Hash)
  BY <1>3 DEF Evictable, LruCovers, KVInv, KVTypeOK
<1> DEFINE T == {i \in DOMAIN lru : lru[i] \in Evictable}
<1>5. T \subseteq Nat /\ T # {}
  BY <1>4 DEF Range
<1>6. PICK i \in T : \A j \in T : i <= j
  <2> HIDE DEF T
  <2> QED
    BY <1>5, LeastElement
<1>7. \A j \in 1..(i - 1) : lru[j] \notin Evictable
  <2> SUFFICES ASSUME NEW j \in 1..(i - 1), lru[j] \in Evictable PROVE FALSE
    OBVIOUS
  <2>1. DOMAIN lru = 1..Len(lru) /\ Len(lru) \in Nat /\ i \in 1..Len(lru)
    BY <1>4
  <2>2. j \in T /\ j \in Int /\ j < i
    BY <2>1
  <2>3. i <= j
    BY <1>6, <2>2
  <2> QED
    BY <2>1, <2>2, <2>3
<1> QED
  BY <1>2, <1>6, <1>7 DEF EvictOne

\* The pool's own invariant: the eviction order covers the cache.
LEMMA PoolInit == KVInit => LruCovers
  BY DEF KVInit, LruCovers

\* _take_free_block raises OutOfBlocks only when no block is left to give:
\* each one is referenced, or was lost to an overwritten cache entry.
THEOREM OutOfBlocksIsHonest ==
  KVSpec => [](TakeFreeBlock = {} => \A x \in Block : ref_count[x] > 0 \/ x \in Stranded)
<1>1. KVInit => KVInv /\ LruCovers
  BY InitInv, PoolInit
<1>2. KVInv /\ LruCovers /\ [KVNext]_kvVars => KVInv' /\ LruCovers'
  BY NextInv, StepKeepsPool
<1>3. KVInv /\ LruCovers =>
        (TakeFreeBlock = {} => \A x \in Block : ref_count[x] > 0 \/ x \in Stranded)
  BY NothingToTake
<1> QED
  BY <1>1, <1>2, <1>3, PTL DEF KVSpec

\* A block lost to the pool stays lost: no call finds it again.
THEOREM LostStaysLost == KVSpec => [][Stranded \subseteq Stranded']_kvVars
<1>1. KVInit => KVInv
  BY InitInv
<1>2. KVInv /\ [KVNext]_kvVars => KVInv'
  BY NextInv
<1>3. KVInv /\ [KVNext]_kvVars => [Stranded \subseteq Stranded']_kvVars
  BY StepKeepsPool
<1> QED
  BY <1>1, <1>2, <1>3, PTL DEF KVSpec

-----------------------------------------------------------------------------
(***************************************************************************)
(* Why a miss may overwrite a cache entry without losing a block in use,   *)
(* for any pool and any set of sequences.                                  *)
(*                                                                         *)
(* allocate_prompt stops looking at the cache after its first miss, and    *)
(* enters every further block over whatever the hash named.  That takes    *)
(* the entry of a block in use unless no block in use carries such a hash. *)
(* None does, because the blocks in use are closed under prefixes: a table *)
(* that holds a block holds every block of the prompt before it, also when *)
(* the table was lost, so the first missed hash would be in use - hence in *)
(* the cache - if any longer one were.                                     *)
(***************************************************************************)

Hashed(b) == content_hash[b] # NoHash

\* What a table owns is hashed up to some position; while it is being built,
\* all its full blocks are.
HashedFirst(u) ==
  /\ \A i, j \in Owned(u) : i <= j /\ Hashed(tables[u][j]) => Hashed(tables[u][i])
  /\ pc[u] = "alloc" => \A i \in Owned(u) : i <= NFull(u) => Hashed(tables[u][i])
TablesHashedFirst == \A u \in Seqs : HashedFirst(u)

\* The blocks of lost tables are closed under prefixes.
DroppedClosed ==
  \A x \in Block : dropped[x] > 0 =>
    \A m \in 1..Len(content_hash[x]) :
      \E y \in Block : dropped[y] > 0 /\ content_hash[y] = SubSeq(content_hash[x], 1, m)

\* After the first miss, nothing in use goes on where the prompt goes on.
NoneBeyond ==
  EnablePrefixCaching =>
    \A s \in Seqs : pc[s] = "alloc" /\ ~matching =>
      \A x \in Block : \A n \in (Len(tables[s]) + 1)..NFull(s) :
        ref_count[x] > 0 => content_hash[x] # SubSeq(prompt[s].chunks, 1, n)

PrefixInv ==
  /\ KVInv
  /\ ReferencedStaysCached
  /\ TablesHashedFirst
  /\ DroppedClosed
  /\ NoneBeyond

-----------------------------------------------------------------------------
\* A lost reference is a reference.
LEMMA DroppedIsReferenced ==
  ASSUME KVInv, NEW x \in Block, dropped[x] > 0
  PROVE  ref_count[x] > 0
<1>1. dropped[x] \in Nat /\ ref_count[x] = Cardinality(Holders(x)) + dropped[x]
  BY DEF KVInv, KVTypeOK, RefCountExact
<1> QED
  BY <1>1, HoldersFinite

\* A referenced block is in a table, or in a lost one.
LEMMA ReferencedIsHeld ==
  ASSUME KVInv, NEW x \in Block, ref_count[x] > 0
  PROVE  dropped[x] > 0 \/ \E u \in Seqs : \E i \in Owned(u) : tables[u][i] = x
<1>1. dropped[x] \in Nat /\ ref_count[x] = Cardinality(Holders(x)) + dropped[x]
  BY DEF KVInv, KVTypeOK, RefCountExact
<1>2. CASE Holders(x) = {}
  BY <1>1, <1>2, FS_EmptySet
<1>3. CASE Holders(x) # {}
  BY <1>3 DEF Holders
<1> QED
  BY <1>2, <1>3

\* Where a hash is, the length of the prefix is.
LEMMA HashIsPrefix ==
  ASSUME KVInv, NEW u \in Seqs, NEW i \in Owned(u), Hashed(tables[u][i])
  PROVE  /\ i \in 1..NFull(u) /\ NFull(u) \in Nat
         /\ prompt[u].chunks \in Seq(Chunk) /\ NFull(u) = Len(prompt[u].chunks)
         /\ content_hash[tables[u][i]] = SubSeq(prompt[u].chunks, 1, i)
         /\ Len(content_hash[tables[u][i]]) = i
<1>1. i \in 1..Len(tables[u]) /\ Len(tables[u]) \in Nat
  BY OwnedPositions DEF KVInv
<1>2. prompt[u].chunks \in Seq(Chunk) /\ NFull(u) = Len(prompt[u].chunks) /\ NFull(u) \in Nat
  BY DEF KVInv, KVTypeOK, Prompt, NFull
<1>3. i <= NFull(u) /\ content_hash[tables[u][i]] = SubSeq(prompt[u].chunks, 1, i)
  BY DEF KVInv, HashedByPosition, Hashed
<1> QED
  BY <1>1, <1>2, <1>3

\* A prefix of a prefix of a prompt.
LEMMA PrefixOfPrefix ==
  ASSUME NEW c \in Seq(Chunk), NEW n \in 1..Len(c), NEW m \in 1..n
  PROVE  SubSeq(SubSeq(c, 1, n), 1, m) = SubSeq(c, 1, m)
  OBVIOUS

\* While no table is being freed, the blocks in use are closed under prefixes.
LEMMA UsedIsPrefixClosed ==
  ASSUME PrefixInv, \A u \in Seqs : pc[u] # "free",
         NEW x \in Block, ref_count[x] > 0, NEW m \in 1..Len(content_hash[x])
  PROVE  \E y \in Block : ref_count[y] > 0 /\ content_hash[y] = SubSeq(content_hash[x], 1, m)
<1> USE DEF PrefixInv
<1>1. CASE dropped[x] > 0
  BY <1>1, DroppedIsReferenced DEF DroppedClosed
<1>2. CASE ~(dropped[x] > 0)
  <2>0. PICK u \in Seqs : \E i \in Owned(u) : tables[u][i] = x
    BY <1>2, ReferencedIsHeld
  <2>1. PICK i \in Owned(u) : tables[u][i] = x
    BY <2>0
  <2>2. Hashed(x)
    <3>1. content_hash[x] = NoHash => Len(content_hash[x]) = 0
      BY DEF NoHash
    <3> QED
      BY <3>1 DEF Hashed
  <2>3. /\ i \in 1..NFull(u) /\ NFull(u) \in Nat
        /\ prompt[u].chunks \in Seq(Chunk) /\ NFull(u) = Len(prompt[u].chunks)
        /\ content_hash[x] = SubSeq(prompt[u].chunks, 1, i) /\ Len(content_hash[x]) = i
    BY <2>1, <2>2, HashIsPrefix
  <2>4. Owned(u) = 1..Len(tables[u]) /\ Len(tables[u]) \in Nat
    BY OwnedPositions DEF KVInv
  <2>5. m \in Owned(u) /\ m <= i
    BY <2>3, <2>4
  <2>6. Hashed(tables[u][m])
    BY <2>1, <2>2, <2>5 DEF TablesHashedFirst, HashedFirst
  <2>7. content_hash[tables[u][m]] = SubSeq(prompt[u].chunks, 1, m)
    BY <2>5, <2>6, HashIsPrefix
  <2>8. content_hash[tables[u][m]] = SubSeq(content_hash[x], 1, m)
    BY <2>3, <2>7, PrefixOfPrefix
  <2>9. tables[u][m] \in Block /\ ref_count[tables[u][m]] > 0
    BY <2>5, OwnedPositions, HeldIsReferenced DEF KVInv
  <2> QED
    BY <2>8, <2>9
<1> QED
  BY <1>1, <1>2

\* So a missed prefix, and every prompt that goes on from it, is not in use:
\* at the first miss because the cache would name it, and from then on because
\* nothing of the kind was allocated since.
LEMMA MissedIsUnused ==
  ASSUME PrefixInv, EnablePrefixCaching, NEW s \in Seqs, MissBlock(s),
         NEW x \in Block, ref_count[x] > 0, NEW n \in (Len(tables[s]) + 1)..NFull(s)
  PROVE  content_hash[x] # SubSeq(prompt[s].chunks, 1, n)
<1> USE DEF PrefixInv
<1>1. pc[s] = "alloc" /\ Len(tables[s]) < NFull(s) /\ ~Hit(s)
  BY DEF MissBlock
<1>2. CASE ~matching
  BY <1>1, <1>2 DEF NoneBeyond
<1>3. CASE matching
  <2> DEFINE c == prompt[s].chunks
             k == Len(tables[s]) + 1
  <2>1. /\ c \in Seq(Chunk) /\ NFull(s) = Len(c) /\ k \in 1..n /\ n \in 1..Len(c)
    BY <1>1 DEF KVInv, KVTypeOK, Prompt, NFull
  <2>2. NextHash(s) = SubSeq(c, 1, k) /\ NextHash(s) # NoHash
    BY <1>1, NextHashIsPrefix DEF KVInv
  <2>3. NextHash(s) \notin DOMAIN cache
    BY <1>1, <1>3 DEF Hit
  <2> HIDE DEF c, k
  <2>4. SUFFICES ASSUME content_hash[x] = SubSeq(c, 1, n) PROVE FALSE
    BY DEF c
  <2>5. Len(content_hash[x]) = n /\ SubSeq(content_hash[x], 1, k) = SubSeq(c, 1, k)
    BY <2>1, <2>4, PrefixOfPrefix
  <2>6. \A u \in Seqs : pc[u] # "free"
    BY <1>1 DEF KVInv, Lifecycle
  <2>7. PICK y \in Block : ref_count[y] > 0 /\ content_hash[y] = SubSeq(content_hash[x], 1, k)
    BY <2>1, <2>5, <2>6, UsedIsPrefixClosed
  <2> QED
    BY <2>2, <2>3, <2>5, <2>7 DEF ReferencedStaysCached
<1> QED
  BY <1>2, <1>3

\* _take_free_block evicts no entry of a block in use.
LEMMA TakeKeepsReferenced ==
  ASSUME KVInv, NEW t \in TakeFreeBlock, NEW h \in DOMAIN cache, ref_count[cache[h]] > 0
  PROVE  h \in DOMAIN t.cache /\ t.cache[h] = cache[h]
<1>1. CASE free_ids # <<>>
  BY <1>1 DEF TakeFreeBlock
<1>2. CASE free_ids = <<>>
  <2>1. PICK i \in EvictOne : t.cache = Uncache(cache, lru[i])
    BY <1>2 DEF TakeFreeBlock
  <2>2. lru[i] # h
    BY DEF EvictOne, Evictable, KVInv, KVTypeOK
  <2> QED
    BY <2>1, <2>2 DEF Uncache
<1> QED
  BY <1>1, <1>2

-----------------------------------------------------------------------------
\* A table that only shrinks at its head, with the same contents.
Kept(u) ==
  /\ tables'[u] = tables[u] /\ prompt'[u] = prompt[u] /\ Owned(u)' \subseteq Owned(u)
  /\ pc'[u] = "alloc" => pc[u] = "alloc"
  /\ \A i \in Owned(u)' : content_hash'[tables[u][i]] = content_hash[tables[u][i]]

LEMMA KeptTable ==
  ASSUME NEW u \in Seqs, HashedFirst(u), Kept(u)
  PROVE  HashedFirst(u)'
  BY DEF HashedFirst, Kept, Hashed, NFull

\* Lost tables stay closed when what they name keeps its content.
LEMMA DroppedStay ==
  ASSUME KVInv, DroppedClosed, dropped' = dropped,
         \A x \in Block : ref_count[x] > 0 => content_hash'[x] = content_hash[x]
  PROVE  DroppedClosed'
  BY DroppedIsReferenced DEF DroppedClosed

\* Without a running allocate_prompt there is no miss to remember.
LEMMA NoCallNoneBeyond ==
  ASSUME \A u \in Seqs : pc'[u] # "alloc"
  PROVE  NoneBeyond'
  BY DEF NoneBeyond

-----------------------------------------------------------------------------
\* Only one call runs at a time.
LEMMA OnlyCaller ==
  ASSUME KVInv, NEW s \in Seqs, pc[s] \in {"alloc", "free"}, NEW u \in Seqs, u # s
  PROVE  pc[u] \notin {"alloc", "free"}
  BY DEF KVInv, Lifecycle

\* The block s gets: fresh for all, or with the content it has already.
Added(s, x, bh) ==
  /\ x \in Block /\ pc[s] # "free"
  /\ tables' = [tables EXCEPT ![s] = Append(@, x)]
  /\ ref_count' = [ref_count EXCEPT ![x] = ref_count[x] + 1]
  /\ content_hash' = [content_hash EXCEPT ![x] = bh]
  /\ ref_count[x] = 0 \/ content_hash[x] = bh
  /\ pc'[s] \in {"alloc", "held"} /\ (pc'[s] = "alloc" => pc[s] = "alloc")
  /\ \A u \in Seqs \ {s} : pc'[u] = pc[u]
  /\ next' = next /\ dropped' = dropped /\ prompt' = prompt
  /\ \/ bh # NoHash /\ pc[s] = "alloc" /\ Len(tables[s]) < NFull(s)
     \/ bh = NoHash /\ (pc[s] = "alloc" => Len(tables[s]) = NFull(s))

LEMMA AddedKeeps ==
  ASSUME PrefixInv, NEW s \in Seqs, NEW x, NEW bh, Added(s, x, bh)
  PROVE  /\ TablesHashedFirst' /\ DroppedClosed'
         /\ content_hash'[x] = bh
         /\ \A y \in Block : ref_count[y] > 0 => content_hash'[y] = content_hash[y]
         /\ \A y \in Block \ {x} : /\ ref_count'[y] = ref_count[y]
                                   /\ content_hash'[y] = content_hash[y]
<1> USE DEF PrefixInv
<1>1. /\ content_hash \in [Block -> Hash] /\ ref_count \in [Block -> Nat]
      /\ tables \in [Seqs -> Seq(Block)]
  BY DEF KVInv, KVTypeOK
<1>2. /\ content_hash'[x] = bh
      /\ \A y \in Block \ {x} : ref_count'[y] = ref_count[y] /\ content_hash'[y] = content_hash[y]
      /\ \A y \in Block : ref_count[y] > 0 => content_hash'[y] = content_hash[y]
  BY <1>1 DEF Added
<1>3. DroppedClosed'
  BY <1>2, DroppedStay DEF Added
<1>4. \A u \in Seqs : \A i \in Owned(u) :
        tables[u][i] \in Block /\ content_hash'[tables[u][i]] = content_hash[tables[u][i]]
  BY <1>2, HeldIsReferenced, OwnedPositions DEF KVInv
<1>5. ASSUME NEW u \in Seqs, u # s PROVE HashedFirst(u)'
  <2>1. tables'[u] = tables[u] /\ Owned(u)' = Owned(u) /\ prompt' = prompt
    BY <1>1, <1>5 DEF Added, Owned
  <2>2. Kept(u)
    BY <1>4, <1>5, <2>1 DEF Kept, Added
  <2> QED
    BY <2>2, KeptTable DEF TablesHashedFirst
<1>6. HashedFirst(s)'
  <2> DEFINE k == Len(tables[s])
  <2>0. k \in Nat /\ \A i \in 1..(k + 1) : i \in 1..k \/ i = k + 1
    BY <1>1
  <2>1. tables[s] \in Seq(Block) /\ tables'[s] = Append(tables[s], x)
    BY <1>1 DEF Added
  <2>2. Owned(s) = 1..k /\ Owned(s)' = 1..(k + 1)
    BY <1>1, <2>0, <2>1 DEF Added, Owned
  <2>3. tables'[s][k + 1] = x /\ \A i \in 1..k : tables'[s][i] = tables[s][i]
    BY <2>0, <2>1
  <2>4. \A i \in 1..k : content_hash'[tables'[s][i]] = content_hash[tables[s][i]]
    BY <1>4, <2>2, <2>3
  <2>5. NFull(s)' = NFull(s) /\ NFull(s) \in Nat
    BY DEF Added, NFull, KVInv, KVTypeOK, Prompt
  <2>6. HashedFirst(s)
    BY DEF TablesHashedFirst
  <2> HIDE DEF k
  <2>7. CASE bh # NoHash
    <3>1. pc[s] = "alloc" /\ \A i \in 1..k : Hashed(tables[s][i])
      BY <2>0, <2>2, <2>5, <2>6, <2>7 DEF Added, HashedFirst, k
    <3>2. \A i \in 1..(k + 1) : content_hash'[tables'[s][i]] # NoHash
      BY <1>2, <2>0, <2>3, <2>4, <2>7, <3>1 DEF Hashed
    <3> QED
      BY <2>2, <3>2 DEF HashedFirst, Hashed
  <2>8. CASE bh = NoHash
    <3>1. \A i, j \in 1..(k + 1) :
            i <= j /\ content_hash'[tables'[s][j]] # NoHash => content_hash'[tables'[s][i]] # NoHash
      BY <1>2, <2>0, <2>2, <2>3, <2>4, <2>6, <2>8 DEF HashedFirst, Hashed
    <3>2. pc'[s] = "alloc" => \A i \in 1..(k + 1) : i <= NFull(s) => content_hash'[tables'[s][i]] # NoHash
      <4>1. pc'[s] = "alloc" => pc[s] = "alloc" /\ k = NFull(s)
        BY <2>8 DEF Added, k
      <4> QED
        BY <4>1, <2>0, <2>2, <2>3, <2>4, <2>6 DEF HashedFirst, Hashed
    <3> QED
      BY <2>2, <2>5, <3>1, <3>2 DEF HashedFirst, Hashed
  <2> QED
    BY <2>7, <2>8
<1> QED
  BY <1>2, <1>3, <1>5, <1>6 DEF TablesHashedFirst

\* A cache hit adds a reference to the block the cache names.
LEMMA HitBlockKeeps ==
  ASSUME PrefixInv, NEW s \in Seqs, HitBlock(s)
  PROVE  PrefixInv'
<1> USE DEF PrefixInv
<1> DEFINE bh == NextHash(s)
           x == cache[bh]
<1>1. /\ pc[s] = "alloc" /\ Len(tables[s]) < NFull(s) /\ bh \in DOMAIN cache /\ matching
      /\ UNCHANGED <<content_hash, cache, prompt, pc, matching, next, dropped>>
  BY DEF HitBlock, Hit
<1>2. x \in Block /\ content_hash[x] = bh /\ bh # NoHash /\ content_hash \in [Block -> Hash]
  BY <1>1 DEF KVInv, CacheNamesHash, KVTypeOK
<1>3. /\ tables' = [tables EXCEPT ![s] = Append(@, x)]
      /\ ref_count' = [ref_count EXCEPT ![x] = ref_count[x] + 1]
  BY DEF HitBlock
<1> HIDE DEF bh, x
<1>4. Added(s, x, bh)
  BY <1>1, <1>2, <1>3 DEF Added
<1>5. ReferencedStaysCached'
  <2>1. \A y \in Block \ {x} : ref_count'[y] = ref_count[y]
    BY <1>4, AddedKeeps
  <2> QED
    BY <1>1, <1>2, <2>1 DEF ReferencedStaysCached, x
<1>6. NoneBeyond'
  <2>1. \A u \in Seqs : ~(pc'[u] = "alloc" /\ ~matching')
    BY <1>1
  <2> QED
    BY <2>1 DEF NoneBeyond
<1> QED
  BY <1>4, <1>5, <1>6, AddedKeeps, HitBlockInv

\* A miss may overwrite an entry: not one of a block in use.
LEMMA MissBlockKeeps ==
  ASSUME PrefixInv, NEW s \in Seqs, MissBlock(s)
  PROVE  PrefixInv'
<1> USE DEF PrefixInv
<1> DEFINE bh == NextHash(s)
           k == Len(tables[s])
<1>1. /\ pc[s] = "alloc" /\ k < NFull(s) /\ k \in Nat /\ NFull(s) \in Nat
      /\ UNCHANGED <<prompt, pc, next, dropped>>
  BY DEF MissBlock, KVInv, KVTypeOK, Prompt, NFull
<1>2. bh = SubSeq(prompt[s].chunks, 1, k + 1) /\ bh # NoHash /\ Len(bh) = k + 1
  BY <1>1, NextHashIsPrefix DEF KVInv
<1>3. PICK t \in TakeFreeBlock :
        /\ ref_count' = [ref_count EXCEPT ![t.bid] = 1]
        /\ content_hash' = [content_hash EXCEPT ![t.bid] = bh]
        /\ EnablePrefixCaching =>
             cache' = [h \in DOMAIN t.cache \cup {bh} |-> IF h = bh THEN t.bid ELSE t.cache[h]]
        /\ tables' = [tables EXCEPT ![s] = Append(@, t.bid)]
  BY DEF MissBlock
<1> DEFINE x == t.bid
<1>4. x \in Block /\ ref_count[x] = 0 /\ ref_count \in [Block -> Nat]
  BY TakeFacts DEF Takes, KVInv, KVTypeOK
<1> HIDE DEF bh, k, x
<1>5. Added(s, x, bh)
  <2>1. ref_count' = [ref_count EXCEPT ![x] = ref_count[x] + 1]
    BY <1>3, <1>4 DEF x
  <2>2. content_hash' = [content_hash EXCEPT ![x] = bh]
    BY <1>3 DEF x
  <2>3. tables' = [tables EXCEPT ![s] = Append(@, x)]
    BY <1>3 DEF x
  <2> QED
    BY <1>1, <1>2, <1>4, <2>1, <2>2, <2>3 DEF Added, k
<1>6. /\ content_hash'[x] = bh
      /\ \A y \in Block \ {x} : ref_count'[y] = ref_count[y] /\ content_hash'[y] = content_hash[y]
  BY <1>5, AddedKeeps
<1>7. ReferencedStaysCached'
  <2> SUFFICES ASSUME EnablePrefixCaching, NEW y \in Block,
                      ref_count'[y] > 0, content_hash'[y] # NoHash
               PROVE  content_hash'[y] \in DOMAIN cache' /\ cache'[content_hash'[y]] = y
    BY DEF ReferencedStaysCached
  <2>1. cache' = [h \in DOMAIN t.cache \cup {bh} |-> IF h = bh THEN x ELSE t.cache[h]]
    BY <1>3 DEF x
  <2>2. CASE y = x
    BY <1>6, <2>1, <2>2
  <2>3. CASE y # x
    <3>1. ref_count[y] > 0 /\ content_hash'[y] = content_hash[y] /\ content_hash[y] # NoHash
      BY <1>6, <2>3
    <3>2. content_hash[y] # bh
      <4>1. Len(tables[s]) + 1 \in (Len(tables[s]) + 1)..NFull(s)
        BY <1>1 DEF k
      <4>2. content_hash[y] # SubSeq(prompt[s].chunks, 1, Len(tables[s]) + 1)
        BY <3>1, <4>1, MissedIsUnused
      <4> QED
        BY <1>2, <4>2 DEF k
    <3>3. content_hash[y] \in DOMAIN cache /\ cache[content_hash[y]] = y
      BY <3>1 DEF ReferencedStaysCached
    <3>4. content_hash[y] \in DOMAIN t.cache /\ t.cache[content_hash[y]] = y
      <4>1. PICK g : g = content_hash[y]
        OBVIOUS
      <4>2. g \in DOMAIN cache /\ cache[g] = y /\ ref_count[cache[g]] > 0
        BY <3>1, <3>3, <4>1
      <4>3. g \in DOMAIN t.cache /\ t.cache[g] = cache[g]
        BY <4>2, TakeKeepsReferenced
      <4> QED
        BY <4>1, <4>2, <4>3
    <3> QED
      BY <2>1, <3>1, <3>2, <3>4
  <2> QED
    BY <2>2, <2>3
<1>8. NoneBeyond'
  <2> SUFFICES ASSUME EnablePrefixCaching, NEW u \in Seqs, pc'[u] = "alloc",
                      NEW y \in Block, NEW n \in (Len(tables'[u]) + 1)..NFull(u)', ref_count'[y] > 0
               PROVE  content_hash'[y] # SubSeq(prompt'[u].chunks, 1, n)
    BY DEF NoneBeyond
  <2>1. u = s
    BY <1>1, OnlyCaller
  <2>2. Len(tables'[s]) = k + 1 /\ NFull(s)' = NFull(s)
    BY <1>1, <1>3 DEF NFull, KVInv, KVTypeOK, k
  <2>3. n \in (k + 1)..NFull(s) /\ n # k + 1
    BY <1>1, <2>1, <2>2
  <2>4. CASE y = x
    <3>1. Len(SubSeq(prompt[s].chunks, 1, n)) = n
      <4>1. KVTypeOK /\ n \in 1..NFull(s)
        BY <1>1, <2>3 DEF KVInv
      <4> QED
        BY <4>1, FirstChunks
    <3> QED
      BY <1>1, <1>2, <1>6, <2>1, <2>3, <2>4, <3>1
  <2>5. CASE y # x
    BY <1>1, <1>6, <2>1, <2>3, <2>5, MissedIsUnused DEF k
  <2> QED
    BY <2>4, <2>5
<1> QED
  BY <1>5, <1>7, <1>8, AddedKeeps, MissBlockInv

\* A block without a hash takes no entry but that of an unreferenced block.
LEMMA UnhashedStaysCached ==
  ASSUME PrefixInv, NEW t \in TakeFreeBlock, NEW n, TakeUnhashed(t, n),
         \A y \in Block \ {t.bid} : ref_count'[y] > 0 => ref_count[y] > 0
  PROVE  /\ ReferencedStaysCached'
         /\ content_hash'[t.bid] = NoHash
         /\ \A y \in Block \ {t.bid} : content_hash'[y] = content_hash[y]
<1> USE DEF PrefixInv
<1>1. t.bid \in Block /\ content_hash \in [Block -> Hash]
  BY TakeFacts DEF Takes, KVInv, KVTypeOK
<1>2. /\ content_hash'[t.bid] = NoHash
      /\ \A y \in Block \ {t.bid} : content_hash'[y] = content_hash[y]
      /\ cache' = t.cache
  BY <1>1 DEF TakeUnhashed
<1>3. ASSUME EnablePrefixCaching, NEW y \in Block, ref_count'[y] > 0, content_hash'[y] # NoHash
      PROVE  content_hash'[y] \in DOMAIN cache' /\ cache'[content_hash'[y]] = y
  <2>1. ref_count[y] > 0 /\ content_hash'[y] = content_hash[y] /\ content_hash[y] # NoHash
    BY <1>2, <1>3
  <2>2. content_hash[y] \in DOMAIN cache /\ cache[content_hash[y]] = y
    BY <1>3, <2>1 DEF ReferencedStaysCached
  <2> QED
    BY <1>2, <2>1, <2>2, TakeKeepsReferenced
<1> QED
  BY <1>2, <1>3 DEF ReferencedStaysCached

\* The tail of a prompt and a grown block.
LEMMA UnhashedBlockKeeps ==
  ASSUME PrefixInv, NEW s \in Seqs, TailBlock(s) \/ \E n \in Lens : GrowTable(s, n)
  PROVE  PrefixInv'
<1> USE DEF PrefixInv
<1>1. PICK t \in TakeFreeBlock, n \in {prompt[s].rem, 1} :
        /\ TakeUnhashed(t, n)
        /\ ref_count' = [ref_count EXCEPT ![t.bid] = 1]
        /\ tables' = [tables EXCEPT ![s] = Append(@, t.bid)]
  BY DEF TailBlock, GrowTable
<1>2. /\ UNCHANGED <<prompt, next, dropped>> /\ pc \in [Seqs -> {"out", "alloc", "held", "free"}]
      /\ \/ pc[s] = "alloc" /\ pc' = pc /\ Len(tables[s]) = NFull(s)
         \/ Idle /\ pc' = [pc EXCEPT ![s] = "held"]
  BY DEF TailBlock, GrowTable, KVInv, KVTypeOK
<1> DEFINE x == t.bid
<1>3. x \in Block /\ ref_count[x] = 0 /\ ref_count \in [Block -> Nat]
  BY TakeFacts DEF Takes, KVInv, KVTypeOK
<1>4. /\ ref_count' = [ref_count EXCEPT ![x] = ref_count[x] + 1]
      /\ content_hash' = [content_hash EXCEPT ![x] = NoHash]
      /\ tables' = [tables EXCEPT ![s] = Append(@, x)]
  BY <1>1, <1>3 DEF TakeUnhashed
<1>5. ReferencedStaysCached'
  BY <1>1, <1>3, UnhashedStaysCached
<1> HIDE DEF x
<1>6. Added(s, x, NoHash)
  BY <1>2, <1>3, <1>4 DEF Added, Idle
<1>7. NoneBeyond'
  <2>1. CASE pc[s] = "alloc" /\ pc' = pc /\ Len(tables[s]) = NFull(s)
    <3>1. Len(tables'[s]) = Len(tables[s]) + 1 /\ Len(tables[s]) \in Nat /\ NFull(s)' = NFull(s)
      BY <1>2, <1>4 DEF KVInv, KVTypeOK, NFull
    <3>2. (Len(tables'[s]) + 1)..NFull(s)' = {}
      BY <2>1, <3>1
    <3>3. \A u \in Seqs : pc'[u] = "alloc" => u = s
      BY <2>1, OnlyCaller
    <3> QED
      BY <3>2, <3>3 DEF NoneBeyond
  <2>2. CASE Idle /\ pc' = [pc EXCEPT ![s] = "held"]
    BY <1>2, <2>2, NoCallNoneBeyond DEF Idle
  <2> QED
    BY <1>2, <2>1, <2>2
<1>8. KVInv'
  BY TailBlockInv, GrowTableInv
<1> QED
  BY <1>5, <1>6, <1>7, <1>8, AddedKeeps

\* Copy-on-write puts an unhashed block in the last place of a table.
LEMMA CopyOnWriteKeeps ==
  ASSUME PrefixInv, NEW s \in Seqs, NEW n \in Lens, CopyOnWrite(s, n)
  PROVE  PrefixInv'
<1> USE DEF PrefixInv
<1> DEFINE k == Len(tables[s])
<1>1. /\ Idle /\ pc[s] = "held" /\ UNCHANGED <<prompt, pc, next, dropped>>
      /\ tables \in [Seqs -> Seq(Block)] /\ ref_count \in [Block -> Nat]
      /\ tables[s] \in Seq(Block) /\ tables[s] # <<>>
  BY DEF CopyOnWrite, KVInv, KVTypeOK
<1>2. k \in Nat \ {0} /\ DOMAIN tables[s] = 1..k /\ tables[s][k] = Last(tables[s]) /\ tables[s][k] \in Block
  BY <1>1 DEF Last
<1>3. PICK t \in TakeFreeBlock :
        /\ TakeUnhashed(t, offset(n) + 1)
        /\ ref_count' = [ref_count EXCEPT ![t.bid] = 1, ![tables[s][k]] = Released(tables[s][k])]
        /\ tables' = [tables EXCEPT ![s][k] = t.bid]
  BY <1>2 DEF CopyOnWrite
<1>4. ref_count[tables[s][k]] > 1
  BY <1>2 DEF CopyOnWrite
<1> HIDE DEF k
<1>5. t.bid \in Block /\ ref_count[t.bid] = 0 /\ \A u \in Seqs : \A i \in Owned(u) : tables[u][i] # t.bid
  BY TakeFacts DEF Takes
<1>6. /\ ReferencedStaysCached' /\ content_hash'[t.bid] = NoHash
      /\ \A y \in Block \ {t.bid} : content_hash'[y] = content_hash[y]
  <2>1. \A y \in Block \ {t.bid} : ref_count'[y] > 0 => ref_count[y] > 0
    BY <1>1, <1>2, <1>3, <1>4
  <2> QED
    BY <1>3, <2>1, UnhashedStaysCached
<1>7. DroppedClosed'
  BY <1>1, <1>5, <1>6, DroppedStay
<1>8. \A u \in Seqs : \A i \in Owned(u) : content_hash'[tables[u][i]] = content_hash[tables[u][i]]
  BY <1>5, <1>6, OwnedPositions DEF KVInv
<1>9. ASSUME NEW u \in Seqs, u # s PROVE HashedFirst(u)'
  <2>1. tables'[u] = tables[u] /\ Owned(u)' = Owned(u)
    BY <1>1, <1>3, <1>9 DEF Owned
  <2>2. Kept(u)
    BY <1>1, <1>8, <2>1 DEF Kept
  <2> QED
    BY <2>2, KeptTable DEF TablesHashedFirst
<1>10. HashedFirst(s)'
  <2>1. tables'[s] = [tables[s] EXCEPT ![k] = t.bid]
    BY <1>1, <1>3
  <2>2. /\ Len(tables'[s]) = k /\ tables'[s][k] = t.bid
        /\ \A i \in 1..k : i # k => tables'[s][i] = tables[s][i]
    BY <1>1, <1>2, <1>5, <2>1
  <2>3. Owned(s) = 1..k /\ Owned(s)' = 1..k /\ pc'[s] # "alloc"
    BY <1>1, <2>2 DEF Owned, k
  <2>4. \A i \in 1..k : i # k => content_hash'[tables'[s][i]] = content_hash[tables[s][i]]
    BY <1>8, <2>2, <2>3
  <2>5. \A i, j \in 1..k : i <= j /\ j # k => i # k
    BY <1>2
  <2>6. HashedFirst(s) /\ content_hash'[tables'[s][k]] = NoHash
    BY <1>6, <2>2 DEF TablesHashedFirst
  <2> QED
    BY <2>3, <2>4, <2>5, <2>6 DEF HashedFirst, Hashed
<1>11. NoneBeyond'
  BY <1>1, NoCallNoneBeyond DEF Idle
<1> QED
  BY <1>6, <1>7, <1>9, <1>10, <1>11, CopyOnWriteInv DEF TablesHashedFirst

\* A released block stays cached while it is in use; one that is not and cannot
\* stay has no hash.
LEMMA ReleaseKeeps ==
  ASSUME PrefixInv, NEW s \in Seqs, Release(s)
  PROVE  PrefixInv'
<1> USE DEF PrefixInv
<1>0. PICK x : x = tables[s][next]
  OBVIOUS
<1>1. /\ pc[s] = "free" /\ UNCHANGED <<tables, prompt, pc, dropped>>
      /\ content_hash \in [Block -> Hash] /\ ref_count \in [Block -> Nat]
  BY DEF Release, KVInv, KVTypeOK
<1>2. /\ x \in Block /\ ref_count[x] \in Nat \ {0}
      /\ ref_count' = [ref_count EXCEPT ![x] = ref_count[x] - 1]
      /\ \A u \in Seqs : Owned(u)' \subseteq Owned(u)
      /\ ref_count'[x] = 0 => \A u \in Seqs : \A i \in Owned(u)' : tables[u][i] # x
  BY <1>0, ReleasedBlock
<1>3. \/ /\ LastReference(x) /\ ~Resident(x)
         /\ content_hash' = [content_hash EXCEPT ![x] = NoHash]
         /\ cache' = Uncache(cache, content_hash[x])
      \/ UNCHANGED <<content_hash, cache>>
  BY <1>0 DEF Release
<1>4. LastReference(x) => ref_count'[x] = 0
  BY <1>1, <1>2 DEF LastReference
<1>5. \A y \in Block : y # x \/ ref_count'[y] > 0 => content_hash'[y] = content_hash[y]
  BY <1>1, <1>2, <1>3, <1>4
<1>6. ReferencedStaysCached'
  <2> SUFFICES ASSUME EnablePrefixCaching, NEW y \in Block, ref_count'[y] > 0, content_hash'[y] # NoHash
               PROVE  content_hash'[y] \in DOMAIN cache' /\ cache'[content_hash'[y]] = y
    BY DEF ReferencedStaysCached
  <2>1. ref_count[y] > 0 /\ content_hash'[y] = content_hash[y]
    BY <1>1, <1>2, <1>5
  <2>2. content_hash[y] \in DOMAIN cache /\ cache[content_hash[y]] = y
    BY <2>1 DEF ReferencedStaysCached
  <2>3. cache' = cache \/ cache' = Uncache(cache, NoHash)
    BY <1>3 DEF Resident
  <2> QED
    BY <2>1, <2>2, <2>3 DEF Uncache
<1>7. DroppedClosed'
  <2>1. \A y \in Block : dropped[y] > 0 => content_hash'[y] = content_hash[y]
    <3>1. \A y \in Block : dropped'[y] > 0 => ref_count'[y] > 0
      <4>1. KVInv'
        BY ReleaseInv
      <4>2. \A y \in Block : /\ dropped'[y] \in Nat /\ ref_count'[y] \in Nat
                             /\ ref_count'[y] = Cardinality(Holders(y)') + dropped'[y]
        BY <4>1 DEF KVInv, KVTypeOK, RefCountExact
      <4>3. \A y \in Block : Cardinality(Holders(y)') \in Nat
        <5> TAKE y \in Block
        <5>1. Holders(y)' \subseteq Seqs
          BY DEF Holders
        <5> QED
          BY <5>1, KVAssumption, FS_Subset, FS_CardinalityType
      <4> QED
        BY <4>2, <4>3
    <3> QED
      BY <1>1, <1>5, <3>1
  <2> QED
    BY <1>1, <2>1 DEF DroppedClosed
<1>8. TablesHashedFirst'
  <2> SUFFICES ASSUME NEW u \in Seqs PROVE HashedFirst(u)'
    BY DEF TablesHashedFirst
  <2>1. \A i \in Owned(u)' : tables[u][i] \in Block /\ content_hash'[tables[u][i]] = content_hash[tables[u][i]]
    <3> TAKE i \in Owned(u)'
    <3>1. tables[u][i] \in Block
      BY <1>2, OwnedPositions DEF KVInv
    <3> QED
      BY <1>2, <1>3, <1>4, <1>5, <3>1
  <2>2. Kept(u)
    BY <1>1, <1>2, <2>1 DEF Kept
  <2> QED
    BY <2>2, KeptTable DEF TablesHashedFirst
<1>9. NoneBeyond'
  BY <1>1, OnlyCaller, NoCallNoneBeyond
<1> QED
  BY <1>6, <1>7, <1>8, <1>9, ReleaseInv

\* A table that is lost leaves whole prefixes behind.
LEMMA DropTableKeeps ==
  ASSUME PrefixInv, NEW s \in Seqs, RaiseOutOfBlocks(s) \/ Overwrite(s)
  PROVE  PrefixInv'
<1> USE DEF PrefixInv
<1>1. /\ UNCHANGED <<ref_count, content_hash, cache, next>>
      /\ dropped' = [b \in Block |-> dropped[b] + (IF Contains(tables[s], b) THEN 1 ELSE 0)]
      /\ tables' = [tables EXCEPT ![s] = <<>>] /\ pc' = [pc EXCEPT ![s] = "out"]
      /\ prompt' = [prompt EXCEPT ![s] = NoPrompt]
      /\ pc[s] = "alloc" \/ (Idle /\ pc[s] = "held")
  <2>1. CASE RaiseOutOfBlocks(s)
    BY <2>1 DEF RaiseOutOfBlocks, DropTable, poolVars
  <2>2. CASE Overwrite(s)
    BY <2>2 DEF Overwrite, DropTable, poolVars
  <2> QED
    BY <2>1, <2>2
<1>2. /\ pc \in [Seqs -> {"out", "alloc", "held", "free"}] /\ tables \in [Seqs -> Seq(Block)]
      /\ prompt \in [Seqs -> Prompt] /\ dropped \in [Block -> Nat]
  BY DEF KVInv, KVTypeOK
<1>3. ReferencedStaysCached'
  BY <1>1 DEF ReferencedStaysCached
<1>4. ASSUME NEW u \in Seqs PROVE HashedFirst(u)'
  <2>1. CASE u = s
    <3>1. tables'[s] = <<>> /\ pc'[s] = "out"
      BY <1>1, <1>2
    <3>2. Owned(s)' = {}
      BY <3>1 DEF Owned
    <3> QED
      BY <2>1, <3>1, <3>2 DEF HashedFirst
  <2>2. CASE u # s
    <3>1. tables'[u] = tables[u] /\ prompt'[u] = prompt[u] /\ pc'[u] = pc[u]
      BY <1>1, <1>2, <2>2
    <3>2. Owned(u)' = Owned(u)
      BY <1>1, <3>1 DEF Owned
    <3>3. Kept(u)
      BY <1>1, <3>1, <3>2 DEF Kept
    <3> QED
      BY <3>3, KeptTable DEF TablesHashedFirst
  <2> QED
    BY <2>1, <2>2
<1>5. DroppedClosed'
  <2> SUFFICES ASSUME NEW x \in Block, dropped'[x] > 0, NEW m \in 1..Len(content_hash[x])
               PROVE  \E y \in Block : dropped'[y] > 0 /\ content_hash[y] = SubSeq(content_hash[x], 1, m)
    BY <1>1 DEF DroppedClosed
  <2>1. CASE dropped[x] > 0
    <3>1. PICK y \in Block : dropped[y] > 0 /\ content_hash[y] = SubSeq(content_hash[x], 1, m)
      BY <2>1 DEF DroppedClosed
    <3>2. dropped'[y] > 0
      BY <1>1, <1>2, <3>1
    <3> QED
      BY <3>1, <3>2
  <2>2. CASE ~(dropped[x] > 0)
    <3>1. Contains(tables[s], x)
      BY <1>1, <1>2, <2>2
    <3>2. Owned(s) = 1..Len(tables[s]) /\ Len(tables[s]) \in Nat /\ tables[s] \in Seq(Block)
      BY <1>1, <1>2 DEF Owned
    <3>3. PICK i \in Owned(s) : tables[s][i] = x
      BY <3>1, <3>2 DEF Contains
    <3>4. Hashed(x)
      <4>1. content_hash[x] = NoHash => Len(content_hash[x]) = 0
        BY DEF NoHash
      <4> QED
        BY <4>1 DEF Hashed
    <3>5. /\ i \in 1..NFull(s) /\ NFull(s) \in Nat
          /\ prompt[s].chunks \in Seq(Chunk) /\ NFull(s) = Len(prompt[s].chunks)
          /\ content_hash[x] = SubSeq(prompt[s].chunks, 1, i) /\ Len(content_hash[x]) = i
      BY <3>3, <3>4, HashIsPrefix
    <3>6. m \in Owned(s) /\ m <= i
      BY <3>2, <3>5
    <3>7. Hashed(tables[s][m])
      BY <3>3, <3>4, <3>6 DEF TablesHashedFirst, HashedFirst
    <3>8. content_hash[tables[s][m]] = SubSeq(prompt[s].chunks, 1, m)
      BY <3>6, <3>7, HashIsPrefix
    <3>9. content_hash[tables[s][m]] = SubSeq(content_hash[x], 1, m)
      BY <3>5, <3>6, <3>8, PrefixOfPrefix
    <3>10. tables[s][m] \in Block /\ Contains(tables[s], tables[s][m])
      BY <3>2, <3>6 DEF Contains
    <3>11. dropped'[tables[s][m]] > 0
      BY <1>1, <1>2, <3>10
    <3> QED
      BY <3>9, <3>10, <3>11
  <2> QED
    BY <2>1, <2>2
<1>6. \A u \in Seqs : pc'[u] # "alloc"
  BY <1>1, <1>2, OnlyCaller DEF Idle
<1> QED
  BY <1>3, <1>4, <1>5, <1>6, NoCallNoneBeyond, RaiseOutOfBlocksInv, OverwriteInv DEF TablesHashedFirst

\* The steps that take and release no block.
LEMMA QuietKeeps ==
  ASSUME PrefixInv, NEW s \in Seqs,
         \/ \E p \in Prompts : AllocatePrompt(s, p)
         \/ AllocateReturn(s) \/ (\E n \in Lens : WriteTail(s, n)) \/ Free(s) \/ FreeReturn(s)
  PROVE  PrefixInv'
<1> USE DEF PrefixInv
<1>1. /\ UNCHANGED <<ref_count, content_hash, cache, dropped>>
      /\ \A u \in Seqs \ {s} : pc'[u] = pc[u] /\ tables'[u] = tables[u] /\ prompt'[u] = prompt[u]
      /\ pc \in [Seqs -> {"out", "alloc", "held", "free"}]
  BY DEF AllocatePrompt, AllocateReturn, WriteTail, Free, FreeReturn, poolVars, KVInv, KVTypeOK
<1>2. ReferencedStaysCached' /\ DroppedClosed'
  BY <1>1 DEF ReferencedStaysCached, DroppedClosed
<1>3. ASSUME NEW u \in Seqs, u # s PROVE HashedFirst(u)'
  <2>1. pc[u] # "free" \/ next' = next
    BY <1>3, OnlyCaller DEF Idle, AllocatePrompt, AllocateReturn, WriteTail, Free, FreeReturn, poolVars
  <2>2. Owned(u)' = Owned(u)
    BY <1>1, <1>3, <2>1 DEF Owned
  <2>3. Kept(u)
    BY <1>1, <1>3, <2>2 DEF Kept
  <2> QED
    BY <2>3, KeptTable DEF TablesHashedFirst
<1>4. HashedFirst(s)'
  <2>1. CASE tables'[s] = <<>>
    <3>1. Owned(s)' = {}
      <4>1. pc'[s] = "free" => next' = 1
        BY <1>1 DEF AllocatePrompt, AllocateReturn, WriteTail, Free, FreeReturn
      <4> QED
        BY <2>1, <4>1 DEF Owned
    <3> QED
      BY <3>1 DEF HashedFirst
  <2>2. CASE tables'[s] # <<>>
    <3>1. /\ pc[s] # "free" /\ pc'[s] # "alloc" /\ tables' = tables /\ prompt' = prompt
          /\ pc'[s] = "free" => next' = 1
      BY <1>1, <2>2 DEF AllocatePrompt, AllocateReturn, WriteTail, Free, FreeReturn, poolVars, KVInv, KVTypeOK
    <3>2. Owned(s)' = Owned(s)
      BY <3>1 DEF Owned
    <3>3. Kept(s)
      BY <1>1, <3>1, <3>2 DEF Kept
    <3> QED
      BY <3>3, KeptTable DEF TablesHashedFirst
  <2> QED
    BY <2>1, <2>2
<1>5. NoneBeyond'
  <2>1. CASE \E p \in Prompts : AllocatePrompt(s, p)
    BY <2>1 DEF AllocatePrompt, NoneBeyond
  <2>2. CASE AllocateReturn(s) \/ (\E n \in Lens : WriteTail(s, n)) \/ Free(s) \/ FreeReturn(s)
    <3>1. \A u \in Seqs : pc'[u] # "alloc"
      BY <1>1, <2>2, OnlyCaller DEF AllocateReturn, WriteTail, Free, FreeReturn, Idle
    <3> QED
      BY <3>1, NoCallNoneBeyond
  <2> QED
    BY <2>1, <2>2
<1>6. KVInv'
  BY AllocatePromptInv, AllocateReturnInv, WriteTailInv, FreeInv, FreeReturnInv
<1> QED
  BY <1>2, <1>3, <1>4, <1>5, <1>6 DEF TablesHashedFirst

LEMMA PrefixInitially == KVInit => PrefixInv
<1> SUFFICES ASSUME KVInit PROVE PrefixInv
  OBVIOUS
<1>1. \A u \in Seqs : Owned(u) = {} /\ pc[u] = "out"
  BY DEF KVInit, Owned
<1>2. ReferencedStaysCached /\ DroppedClosed
  BY DEF KVInit, ReferencedStaysCached, DroppedClosed
<1> QED
  BY <1>1, <1>2, InitInv DEF PrefixInv, TablesHashedFirst, HashedFirst, NoneBeyond

\* The invariant behind overwriting cache entries, for any pool, prompts and
\* sequences, tables lost to OutOfBlocks included.
THEOREM PrefixInvariant == KVSpec => []PrefixInv
<1>1. PrefixInv /\ [KVNext]_kvVars => PrefixInv'
  <2> SUFFICES ASSUME PrefixInv, [KVNext]_kvVars PROVE PrefixInv'
    OBVIOUS
  <2>1. CASE UNCHANGED kvVars
    <3>1. KVInv'
      BY <2>1, NextInv DEF PrefixInv
    <3>2. ReferencedStaysCached' /\ DroppedClosed' /\ NoneBeyond'
      BY <2>1 DEF kvVars, PrefixInv, ReferencedStaysCached, DroppedClosed, NoneBeyond, NFull
    <3>3. TablesHashedFirst'
      BY <2>1 DEF kvVars, PrefixInv, TablesHashedFirst, HashedFirst, Hashed, Owned, NFull
    <3> QED
      BY <3>1, <3>2, <3>3 DEF PrefixInv
  <2>2. CASE KVNext
    <3>1. PICK s \in Seqs : \/ allocate_prompt(s)
                            \/ \E n \in Lens : append_token(s, n)
                            \/ free(s)
                            \/ Overwrite(s)
      BY <2>2 DEF KVNext
    <3>2. CASE allocate_prompt(s)
      BY <3>2, HitBlockKeeps, MissBlockKeeps, UnhashedBlockKeeps, DropTableKeeps, QuietKeeps
         DEF allocate_prompt
    <3>3. CASE \E n \in Lens : append_token(s, n)
      BY <3>3, UnhashedBlockKeeps, QuietKeeps, CopyOnWriteKeeps DEF append_token
    <3>4. CASE free(s)
      BY <3>4, QuietKeeps, ReleaseKeeps DEF free
    <3> QED
      BY <3>1, <3>2, <3>3, <3>4, DropTableKeeps
  <2> QED
    BY <2>1, <2>2
<1> QED
  BY <1>1, PrefixInitially, PTL DEF KVSpec

\* A full block in use is the one the cache names for its hash: no miss takes
\* the entry of a block that a table, lost or not, still references.
THEOREM UsedBlocksStayCached == KVSpec => []ReferencedStaysCached
<1>1. PrefixInv => ReferencedStaysCached
  BY DEF PrefixInv
<1> QED
  BY <1>1, PrefixInvariant, PTL
=============================================================================
