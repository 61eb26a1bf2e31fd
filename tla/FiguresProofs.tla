--------------------------- MODULE FiguresProofs ---------------------------
(***************************************************************************)
(* The figures computed from data are exact: the budget of a deployment,   *)
(* the bills of a window, the verdict on a quantised model, the summary of *)
(* a load point, and the rows of the fused kernels.                        *)
(***************************************************************************)
EXTENDS Figures, QueueFacts

-----------------------------------------------------------------------------
(***************************************************************************)
(* Division of naturals, and the greatest and the least of numbers.        *)
(***************************************************************************)
LEMMA Division ==
  ASSUME NEW a \in Nat, NEW b \in Nat \ {0}
  PROVE  /\ a \div b \in Nat /\ b * (a \div b) <= a /\ a < b * (a \div b) + b
         /\ a = b * (a \div b) + (a % b) /\ a % b \in 0..(b - 1)
<1>1. a \div b \in Int /\ b * (a \div b) <= a /\ a < b * (a \div b) + b
  OBVIOUS
<1>2. a = b * (a \div b) + (a % b) /\ a % b \in 0..(b - 1)
  OBVIOUS
<1>3. a \div b >= 0
  OBVIOUS
<1> QED
  BY <1>1, <1>2, <1>3

LEMMA MaxOfTwo ==
  ASSUME NEW x \in Int, NEW y \in Int
  PROVE  Max({x, y}) = IF x >= y THEN x ELSE y
<1>1. \E m \in {x, y} : \A z \in {x, y} : m >= z
  OBVIOUS
<1>2. Max({x, y}) \in {x, y} /\ \A z \in {x, y} : Max({x, y}) >= z
  BY <1>1 DEF Max
<1> QED
  BY <1>2

LEMMA MinOfTwo ==
  ASSUME NEW x \in Int, NEW y \in Int
  PROVE  Min({x, y}) = IF x <= y THEN x ELSE y
<1>1. \E m \in {x, y} : \A z \in {x, y} : m <= z
  OBVIOUS
<1>2. Min({x, y}) \in {x, y} /\ \A z \in {x, y} : Min({x, y}) <= z
  BY <1>1 DEF Min
<1> QED
  BY <1>2

LEMMA FiniteExtremes ==
  ASSUME NEW S, IsFiniteSet(S), S \subseteq Int, S # {}
  PROVE  /\ Max(S) \in S /\ \A x \in S : x <= Max(S)
         /\ Min(S) \in S /\ \A x \in S : Min(S) <= x
<1> DEFINE Bounded(T) == /\ \E m \in T : \A x \in T : m >= x
                         /\ \E m \in T : \A x \in T : m <= x
           P == {T \in SUBSET S : T = {} \/ Bounded(T)}
<1>1. {} \in P
  OBVIOUS
<1>2. ASSUME NEW T \in SUBSET S, NEW y \in S \ T, T \in P PROVE T \cup {y} \in P
  <2>1. CASE T = {}
    <3>1. T \cup {y} = {y} /\ y \in Int
      BY <2>1
    <3>2. Bounded({y})
      BY <3>1
    <3> QED
      BY <3>1, <3>2
  <2>2. CASE T # {}
    <3>1. PICK m \in T : \A x \in T : m >= x
      BY <1>2, <2>2
    <3>2. PICK l \in T : \A x \in T : l <= x
      BY <1>2, <2>2
    <3>3. m \in Int /\ l \in Int /\ y \in Int /\ \A x \in T : x \in Int
      OBVIOUS
    <3>4. \E k \in T \cup {y} : \A x \in T \cup {y} : k >= x
      <4>1. CASE m >= y
        BY <3>1, <4>1
      <4>2. CASE ~(m >= y)
        BY <3>1, <3>3, <4>2
      <4> QED
        BY <4>1, <4>2
    <3>5. \E k \in T \cup {y} : \A x \in T \cup {y} : k <= x
      <4>1. CASE l <= y
        BY <3>2, <4>1
      <4>2. CASE ~(l <= y)
        BY <3>2, <3>3, <4>2
      <4> QED
        BY <4>1, <4>2
    <3> QED
      BY <3>4, <3>5
  <2> QED
    BY <2>1, <2>2
<1> HIDE DEF P
<1>3. S \in P
  BY <1>1, <1>2, OneMoreEach
<1>4. Bounded(S)
  BY <1>3 DEF P
<1> QED
  BY <1>4 DEF Max, Min

-----------------------------------------------------------------------------
(***************************************************************************)
(* The budget of a deployment.                                             *)
(***************************************************************************)
BudgetTypeOK ==
  /\ model \in [heads : Nat \ {0}, layers : Nat \ {0}, window : Nat, weights : Nat]
  /\ usable \in Nat /\ block_size \in Nat \ {0}
  /\ target \in [len : Nat \ {0}, concurrency : Nat \ {0}]

\* As many sequences as a multiple of their blocks are in the pool.
LEMMA QuotientFits ==
  ASSUME NEW n \in Nat, NEW b \in Nat \ {0}, NEW k \in Nat
  PROVE  k * b <= n <=> k <= n \div b
<1>1. PICK q \in Nat : q = n \div b /\ b * q <= n /\ n < b * q + b
  BY Division
<1>2. CASE k <= q
  <2>1. k * b <= q * b
    BY <1>2, TimesKeepsOrder
  <2>2. q * b = b * q /\ k * b \in Nat /\ b * q \in Nat
    OBVIOUS
  <2> QED
    BY <1>1, <1>2, <2>1, <2>2
<1>3. CASE k > q
  <2>1. (q + 1) * b <= k * b
    BY <1>1, <1>3, TimesKeepsOrder
  <2>2. (q + 1) * b = b * q + b /\ k * b \in Nat /\ b * q \in Nat
    BY <1>1
  <2> QED
    BY <1>1, <1>3, <2>1, <2>2
<1> QED
  BY <1>1, <1>2, <1>3

\* Rounding up: the least number of whole blocks that hold so much.
LEMMA RoundedUp ==
  ASSUME NEW a \in Nat, NEW b \in Nat \ {0}
  PROVE  /\ CeilDiv(a, b) \in Nat
         /\ \A k \in Nat : CeilDiv(a, b) <= k <=> a <= k * b
<1>1. PICK q \in Nat : q = (a + b - 1) \div b /\ b * q <= a + b - 1 /\ a + b - 1 < b * q + b
  <2>1. a + b - 1 \in Nat
    OBVIOUS
  <2> QED
    BY <2>1, Division
<1>2. CeilDiv(a, b) = q
  BY <1>1 DEF CeilDiv
<1>3. ASSUME NEW k \in Nat PROVE q <= k <=> a <= k * b
  <2>1. k * b \in Nat /\ b * q \in Nat /\ q * b = b * q
    BY <1>1
  <2>2. CASE q <= k
    <3>1. q * b <= k * b
      BY <1>1, <2>2, TimesKeepsOrder
    <3> QED
      BY <1>1, <2>1, <2>2, <3>1
  <2>3. CASE q > k
    <3>1. (k + 1) * b <= q * b
      BY <1>1, <2>3, TimesKeepsOrder
    <3>2. (k + 1) * b = k * b + b
      OBVIOUS
    <3> QED
      BY <1>1, <2>1, <2>3, <3>1, <3>2
  <2> QED
    BY <1>1, <2>2, <2>3
<1> QED
  BY <1>1, <1>2, <1>3

\* A division by a product, and of nothing.
LEMMA BlocksOfMemory ==
  ASSUME BudgetTypeOK, NEW tp \in Nat \ {0}
  PROVE  /\ KVHeadsPerGPU(tp) \in Nat \ {0}
         /\ ~Rejected(tp) => HeadsHeld(tp)
         /\ KVCache(tp) \in Int /\ NumBlocks(tp) \in Nat
         /\ KVCache(tp) <= 0 => NumBlocks(tp) = 0
<1>1. PICK hs \in Nat \ {0} : hs = model.heads
  BY DEF BudgetTypeOK
<1>2. PICK d \in Nat : d = hs \div tp /\ hs = tp * d + (hs % tp)
  BY Division
<1>3. Max({d, 1}) = IF d >= 1 THEN d ELSE 1
  BY MaxOfTwo
<1>4. KVHeadsPerGPU(tp) = IF tp <= hs THEN Max({d, 1}) ELSE 1
  BY <1>1, <1>2 DEF KVHeadsPerGPU
<1>5. KVHeadsPerGPU(tp) \in Nat \ {0}
  BY <1>3, <1>4
<1>6. ASSUME ~Rejected(tp) PROVE HeadsHeld(tp)
  <2>1. tp <= hs => hs % tp = 0
    BY <1>1, <1>6 DEF Rejected
  <2>2. CASE tp <= hs
    <3>1. hs = tp * d
      BY <1>2, <2>1, <2>2
    <3>2. d >= 1
      <4>1. d = 0 => tp * d = 0
        OBVIOUS
      <4> QED
        BY <1>1, <3>1, <4>1
    <3>3. KVHeadsPerGPU(tp) = d
      BY <1>3, <1>4, <2>2, <3>2
    <3> QED
      BY <1>1, <3>1, <3>3 DEF HeadsHeld
  <2>3. CASE tp > hs
    <3>1. KVHeadsPerGPU(tp) = 1
      BY <1>4, <2>3
    <3>2. tp * 1 >= hs
      BY <2>3
    <3> QED
      BY <1>1, <3>1, <3>2 DEF HeadsHeld
  <2> QED
    BY <2>2, <2>3
<1>7. PICK per \in Nat \ {0} : per = KVBytesPerToken(tp)
  <2>1. \A x, y \in Nat \ {0} : x * y \in Nat \ {0}
    OBVIOUS
  <2>2. model.layers \in Nat \ {0}
    BY DEF BudgetTypeOK
  <2> QED
    BY <1>5, <2>1, <2>2 DEF KVBytesPerToken
<1>8. PICK bytes \in Nat \ {0} : bytes = block_size * per
  <2>1. \A x, y \in Nat \ {0} : x * y \in Nat \ {0}
    OBVIOUS
  <2> QED
    BY <2>1 DEF BudgetTypeOK
<1>9. KVCache(tp) \in Int
  <2>1. PICK share \in Nat : share = CeilDiv(model.weights + Intermediates, tp)
    <3>1. model.weights + Intermediates \in Nat
      BY BudgetAssumption DEF BudgetTypeOK
    <3> QED
      BY <3>1, RoundedUp
  <2>2. PICK nccl \in Nat : nccl = IF tp > 1 THEN NCCLBuffers ELSE 0
    BY BudgetAssumption
  <2>3. usable \in Nat /\ Overhead \in Nat
    BY BudgetAssumption DEF BudgetTypeOK
  <2>4. KVCache(tp) = usable - share - Overhead - nccl
    BY <2>1, <2>2 DEF KVCache
  <2> QED
    BY <2>3, <2>4
<1>10. PICK m \in Nat : m = Max({KVCache(tp), 0}) /\ (KVCache(tp) <= 0 => m = 0)
  <2>1. PICK c \in Int : c = KVCache(tp)
    BY <1>9
  <2>2. Max({c, 0}) = IF c >= 0 THEN c ELSE 0
    BY MaxOfTwo
  <2> QED
    BY <2>1, <2>2
<1>11. NumBlocks(tp) = m \div bytes
  BY <1>7, <1>8, <1>10 DEF NumBlocks
<1>12. m \div bytes \in Nat /\ (m = 0 => m \div bytes = 0)
  BY Division
<1> QED
  BY <1>5, <1>6, <1>9, <1>10, <1>11, <1>12

\* The blocks of one sequence.
LEMMA BlocksOfSequence ==
  ASSUME BudgetTypeOK, NEW len \in Nat
  PROVE  /\ EffectiveLen(len) \in Nat /\ EffectiveLen(len) <= len
         /\ model.window = 0 => EffectiveLen(len) = len
         /\ BlocksPerSeq(len) \in Nat
         /\ BlocksPerSeq(len) = CeilDiv(EffectiveLen(len), block_size)
         /\ len > 0 => BlocksPerSeq(len) > 0
<1>1. PICK w \in Nat : w = model.window
  BY DEF BudgetTypeOK
<1>2. Min({len, w}) = IF len <= w THEN len ELSE w
  BY MinOfTwo
<1>3. PICK e \in Nat : e = EffectiveLen(len) /\ e <= len /\ (w = 0 => e = len) /\ (len > 0 => e > 0)
  <2>1. EffectiveLen(len) = IF w = 0 THEN len ELSE Min({len, w})
    BY <1>1 DEF EffectiveLen
  <2> QED
    BY <1>1, <1>2, <2>1
<1>4. block_size \in Nat \ {0}
  BY DEF BudgetTypeOK
<1>5. CeilDiv(e, block_size) \in Nat /\ (CeilDiv(e, block_size) <= 0 <=> e <= 0 * block_size)
  BY <1>3, <1>4, RoundedUp
<1>6. BlocksPerSeq(len) = CeilDiv(e, block_size)
  BY <1>3 DEF BlocksPerSeq
<1>7. 0 * block_size = 0
  BY <1>4
<1> QED
  BY <1>1, <1>3, <1>5, <1>6, <1>7

LEMMA RequiredIsLeast ==
  /\ RequiredTP # 0 => RequiredTP \in Degrees /\ Serves(RequiredTP) /\ RequiredTP <= MaxTP
  /\ \A tp \in Degrees : tp < RequiredTP => ~Serves(tp)
<1> DEFINE serving == {tp \in Degrees : tp <= MaxTP /\ Serves(tp)}
<1>1. Degrees \subseteq Nat \ {0} /\ MaxTP \in Nat
  BY BudgetAssumption
<1>2. RequiredTP = IF serving = {} THEN 0 ELSE Min(serving)
  BY DEF RequiredTP
<1>3. CASE serving = {}
  BY <1>1, <1>2, <1>3
<1>4. CASE serving # {}
  <2>1. serving \subseteq Nat
    BY <1>1
  <2>2. \E m \in serving : \A n \in serving : m <= n
    BY <1>4, <2>1, LeastElement
  <2>3. Min(serving) \in serving /\ \A n \in serving : Min(serving) <= n
    <3> HIDE DEF serving
    <3> QED
      BY <2>2 DEF Min
  <2>4. PICK m : m = Min(serving)
    OBVIOUS
  <2>5. m = RequiredTP /\ m \in Degrees /\ m <= MaxTP /\ Serves(m) /\ \A n \in serving : m <= n
    BY <1>2, <1>4, <2>3, <2>4
  <2>6. ASSUME NEW tp \in Degrees, tp < m PROVE ~Serves(tp)
    <3>1. tp \notin serving
      BY <1>1, <2>5, <2>6
    <3>2. tp <= MaxTP
      BY <1>1, <2>5, <2>6
    <3> QED
      BY <3>1, <3>2
  <2> QED
    BY <2>5, <2>6
<1> QED
  BY <1>3, <1>4

\* A degree that serves gives every sequence its blocks; one that gives them
\* and does not serve caches less than one sequence.
LEMMA ServingIsPlacing ==
  ASSUME BudgetTypeOK, NEW tp \in Nat \ {0}
  PROVE  /\ Serves(tp) => Placed(tp, target.len, target.concurrency)
         /\ Placed(tp, target.len, target.concurrency) /\ ~Serves(tp) =>
              CachedTokens(tp) < target.len
<1>1. PICK len \in Nat \ {0}, c \in Nat \ {0}, bs \in Nat \ {0} :
        len = target.len /\ c = target.concurrency /\ bs = block_size
  BY DEF BudgetTypeOK
<1>2. PICK b \in Nat : b = BlocksPerSeq(len) /\ b = CeilDiv(EffectiveLen(len), block_size)
  BY <1>1, BlocksOfSequence
<1>3. PICK n \in Nat : n = NumBlocks(tp) /\ (KVCache(tp) <= 0 => n = 0)
  BY BlocksOfMemory
<1>4. c * b \in Nat
  OBVIOUS
<1>5. Placed(tp, len, c) <=> c * b <= n
  BY <1>2, <1>3 DEF Placed
<1>6. EnoughHeadroom(tp) <=> n >= Max({c * b, 1})
  BY <1>1, <1>2, <1>3 DEF EnoughHeadroom
<1>7. Max({c * b, 1}) = IF c * b >= 1 THEN c * b ELSE 1
  BY <1>4, MaxOfTwo
<1>8. CachedTokens(tp) = n * bs
  BY <1>1, <1>3 DEF CachedTokens
<1>9. n = 0 => n * bs = 0
  OBVIOUS
<1>10. Serves(tp) <=> KVCache(tp) > 0 /\ CachedTokens(tp) >= len /\ EnoughHeadroom(tp)
  BY <1>1 DEF Serves, Fits
<1>11. Serves(tp) => Placed(tp, len, c)
  BY <1>4, <1>5, <1>6, <1>7, <1>10
<1>12. ASSUME Placed(tp, len, c), ~Serves(tp) PROVE CachedTokens(tp) < len
  <2>1. KVCache(tp) \in Int /\ n * bs \in Nat
    BY BlocksOfMemory
  <2>2. CASE ~(KVCache(tp) > 0)
    BY <1>1, <1>3, <1>8, <1>9, <2>1, <2>2
  <2>3. CASE ~(CachedTokens(tp) >= len)
    BY <1>1, <1>8, <2>1, <2>3
  <2>4. CASE ~EnoughHeadroom(tp)
    BY <1>1, <1>4, <1>5, <1>6, <1>7, <1>8, <1>9, <1>12, <2>4
  <2> QED
    BY <1>10, <1>12, <2>2, <2>3, <2>4
<1> QED
  BY <1>1, <1>11, <1>12

\* What the budget says of concurrency.
LEMMA ConcurrencyIsExact ==
  ASSUME BudgetTypeOK, NEW tp \in Nat \ {0}, NEW len \in Nat \ {0}, NEW n \in Nat
  PROVE  Placed(tp, len, n) <=> n <= MaxConcurrentSeqs(tp, len)
<1>1. PICK b \in Nat \ {0} : b = BlocksPerSeq(len) /\ b = CeilDiv(EffectiveLen(len), block_size)
  BY BlocksOfSequence
<1>2. PICK m \in Nat : m = NumBlocks(tp)
  BY BlocksOfMemory
<1>3. Max({b, 1}) = b
  BY MaxOfTwo
<1>4. n * b <= m <=> n <= m \div b
  BY QuotientFits
<1> QED
  BY <1>1, <1>2, <1>3, <1>4 DEF Placed, MaxConcurrentSeqs

\* The longest that so many sequences may be.
LEMMA LengthIsExact ==
  ASSUME BudgetTypeOK, NEW tp \in Nat \ {0}, NEW c \in Nat \ {0}
  PROVE  /\ MaxSeqLen(tp, c) \in Nat
         /\ Placed(tp, MaxSeqLen(tp, c), c)
         /\ model.window = 0 => ~Placed(tp, MaxSeqLen(tp, c) + 1, c)
<1>1. PICK m \in Nat, bs \in Nat \ {0} : m = NumBlocks(tp) /\ bs = block_size
  BY BlocksOfMemory DEF BudgetTypeOK
<1>2. PICK q \in Nat : q = m \div c /\ c * q <= m /\ m < c * q + c
  BY Division
<1>3. PICK len \in Nat : len = MaxSeqLen(tp, c) /\ len = q * bs
  BY <1>1, <1>2 DEF MaxSeqLen
<1>4. Placed(tp, len, c)
  <2>1. PICK e \in Nat : e = EffectiveLen(len) /\ e <= len
    BY BlocksOfSequence
  <2>2. PICK k \in Nat : k = CeilDiv(e, bs) /\ k <= q
    BY <1>1, <1>2, <1>3, <2>1, RoundedUp
  <2>3. k * c <= q * c
    BY <2>2, TimesKeepsOrder
  <2>4. k * c = c * k /\ q * c = c * q /\ k * c \in Nat /\ q * c \in Nat
    OBVIOUS
  <2>5. c * k <= m
    BY <1>2, <2>3, <2>4
  <2> QED
    BY <1>1, <2>1, <2>2, <2>5 DEF Placed
<1>5. ASSUME model.window = 0 PROVE ~Placed(tp, len + 1, c)
  <2>1. len + 1 \in Nat /\ EffectiveLen(len + 1) = len + 1
    BY <1>5, BlocksOfSequence
  <2>2. PICK k \in Nat : k = CeilDiv(len + 1, bs) /\ ~(k <= q)
    <3>1. ~(len + 1 <= q * bs)
      BY <1>3
    <3>2. CeilDiv(len + 1, bs) \in Nat /\ (CeilDiv(len + 1, bs) <= q <=> len + 1 <= q * bs)
      BY <2>1, RoundedUp
    <3> QED
      BY <3>1, <3>2
  <2>3. (q + 1) * c <= k * c
    BY <2>2, TimesKeepsOrder
  <2>4. (q + 1) * c = c * q + c /\ k * c = c * k /\ c * k \in Nat /\ c * q \in Nat
    BY <2>2
  <2>5. ~(c * k <= m)
    BY <1>2, <2>3, <2>4
  <2> QED
    BY <1>1, <2>1, <2>2, <2>5 DEF Placed
<1> QED
  BY <1>3, <1>4, <1>5

LEMMA SoundBudget ==
  ASSUME BudgetTypeOK PROVE BudgetIsSound
<1>1. PICK len \in Nat \ {0}, c \in Nat \ {0} : len = target.len /\ c = target.concurrency
  BY DEF BudgetTypeOK
<1>2. Degrees \subseteq Nat \ {0} /\ MaxTP \in Nat
  BY BudgetAssumption
<1>3. ASSUME RequiredTP # 0
      PROVE  /\ Placed(RequiredTP, target.len, target.concurrency)
             /\ ~Rejected(RequiredTP) => HeadsHeld(RequiredTP)
             /\ \A tp \in Degrees : tp < RequiredTP /\ Placed(tp, target.len, target.concurrency) =>
                  CachedTokens(tp) < target.len
  <2>1. RequiredTP \in Nat \ {0} /\ Serves(RequiredTP)
    BY <1>2, <1>3, RequiredIsLeast
  <2>2. \A tp \in Degrees : tp < RequiredTP => ~Serves(tp)
    BY <1>3, RequiredIsLeast
  <2> QED
    BY <1>2, <2>1, <2>2, ServingIsPlacing, BlocksOfMemory
<1>4. ASSUME NEW tp \in Degrees
      PROVE  /\ \A n \in 1..target.concurrency + 2 :
                  Placed(tp, target.len, n) <=> n <= MaxConcurrentSeqs(tp, target.len)
             /\ LET l == MaxSeqLen(tp, target.concurrency)
                IN /\ l > 0 => Placed(tp, l, target.concurrency)
                   /\ model.window = 0 => ~Placed(tp, l + 1, target.concurrency)
  <2>1. tp \in Nat \ {0} /\ \A n \in 1..target.concurrency + 2 : n \in Nat
    BY <1>1, <1>2
  <2> QED
    BY <1>1, <2>1, ConcurrencyIsExact, LengthIsExact
<1> QED
  BY <1>3, <1>4 DEF BudgetIsSound

\* Whatever the model and the deployment, the degree that required_gpus returns
\* finds every sequence of the target its blocks, and the concurrency and the
\* length that the budget answers with fit while one more does not.
THEOREM BudgetsAreSound == BudgetSpec => []BudgetIsSound
<1>1. BudgetInit => BudgetTypeOK
  BY BudgetAssumption DEF BudgetInit, BudgetTypeOK
<1>2. BudgetTypeOK /\ [FALSE]_budgetVars => BudgetTypeOK'
  BY DEF BudgetTypeOK, budgetVars
<1>3. BudgetSpec => []BudgetTypeOK
  BY <1>1, <1>2, PTL DEF BudgetSpec
<1> QED
  BY <1>3, SoundBudget, PTL

-----------------------------------------------------------------------------
(***************************************************************************)
(* The bills of a window: record after record, the tenants' usage adds up  *)
(* to that of the answered records so far.                                 *)
(***************************************************************************)
CostsTypeOK == billed \in [1..NumBilled -> Billed]

Usage == [requests : Nat, errors : Nat, prompt : Nat, cached : Nat, output : Nat, weight : Nat]

LEMMA BilledFacts ==
  ASSUME CostsTypeOK
  PROVE  /\ NumBilled \in Nat /\ DOMAIN billed = 1..NumBilled /\ Len(billed) = NumBilled
         /\ IsFiniteSet(Tenants) /\ IsFiniteSet(1..NumBilled)
         /\ \A i \in 1..NumBilled :
              /\ billed[i].tenant \in Tenants /\ billed[i].ok \in BOOLEAN
              /\ billed[i].prompt \in Nat /\ billed[i].cached \in Nat /\ billed[i].output \in Nat
              /\ billed[i].cached <= billed[i].prompt
              /\ billed[i].send \in Nat \cup {UnsetTime} /\ billed[i].done \in Nat \cup {UnsetTime}
              /\ Weight(billed[i]) \in Nat
<1>1. NumBilled \in Nat /\ IsFiniteSet(Tenants)
  BY CostsAssumption
<1>2. DOMAIN billed = 1..NumBilled /\ Len(billed) = NumBilled /\ IsFiniteSet(1..NumBilled)
  BY <1>1, FS_Interval DEF CostsTypeOK
<1>3. ASSUME NEW i \in 1..NumBilled
      PROVE  /\ billed[i].tenant \in Tenants /\ billed[i].ok \in BOOLEAN
             /\ billed[i].prompt \in Nat /\ billed[i].cached \in Nat /\ billed[i].output \in Nat
             /\ billed[i].cached <= billed[i].prompt
             /\ billed[i].send \in Nat \cup {UnsetTime} /\ billed[i].done \in Nat \cup {UnsetTime}
  <2>1. billed[i] \in Billed
    BY DEF CostsTypeOK
  <2> QED
    BY <2>1, CostsAssumption
<1>4. ASSUME NEW i \in 1..NumBilled PROVE Weight(billed[i]) \in Nat
  <2>1. PICK p \in Nat, c \in Nat, o \in Nat :
          p = billed[i].prompt /\ c = billed[i].cached /\ o = billed[i].output /\ c <= p
    BY <1>3
  <2>2. WeightPrompt \in Nat /\ WeightCached \in Nat /\ WeightOutput \in Nat
    BY CostsAssumption
  <2>3. \A a, b \in Nat : a * b \in Nat
    OBVIOUS
  <2>4. WeightPrompt * (p - c) \in Nat /\ WeightCached * c \in Nat /\ WeightOutput * o \in Nat
    BY <2>1, <2>2, <2>3
  <2>5. WeightPrompt * p + (WeightCached - WeightPrompt) * c + WeightOutput * o
          = WeightPrompt * (p - c) + WeightCached * c + WeightOutput * o
    BY <2>2
  <2> QED
    BY <2>1, <2>4, <2>5 DEF Weight
<1> QED
  BY <1>1, <1>2, <1>3, <1>4

\* What one record adds to the usage of its tenant.
LEMMA UsedAdds ==
  ASSUME CostsTypeOK, NEW i \in 1..NumBilled, NEW r, r = billed[i], NEW u \in Usage, NEW v, v = Used(u, r)
  PROVE  /\ v \in Usage
         /\ v.requests = u.requests + 1
         /\ v.weight = u.weight + (IF r.ok THEN Weight(r) ELSE 0)
         /\ v.output = u.output + (IF r.ok THEN r.output ELSE 0)
         /\ u.cached <= u.prompt => v.cached <= v.prompt
<1>1. PICK w : w = Weight(r)
  OBVIOUS
<1>2. /\ r.ok \in BOOLEAN /\ r.prompt \in Nat /\ r.cached \in Nat /\ r.output \in Nat
      /\ r.cached <= r.prompt /\ w \in Nat
  BY <1>1, BilledFacts
<1>3. Used(u, r) =
        IF ~r.ok THEN [requests |-> u.requests + 1, errors |-> u.errors + 1, prompt |-> u.prompt,
                       cached |-> u.cached, output |-> u.output, weight |-> u.weight]
        ELSE [requests |-> u.requests + 1, errors |-> u.errors, prompt |-> u.prompt + r.prompt,
              cached |-> u.cached + r.cached, output |-> u.output + r.output, weight |-> u.weight + w]
  <2>1. CASE ~r.ok
    <3>1. Used(u, r) = [u EXCEPT !.requests = @ + 1, !.errors = @ + 1]
      BY <2>1 DEF Used
    <3> QED
      BY <2>1, <3>1 DEF Usage
  <2>2. CASE r.ok
    <3>1. Used(u, r) = [u EXCEPT !.requests = @ + 1, !.prompt = @ + r.prompt, !.cached = @ + r.cached,
                                 !.output = @ + r.output, !.weight = @ + w]
      BY <1>1, <2>2 DEF Used
    <3> QED
      BY <2>2, <3>1 DEF Usage
  <2> QED
    BY <2>1, <2>2
<1>4. /\ u.requests \in Nat /\ u.errors \in Nat /\ u.prompt \in Nat /\ u.cached \in Nat
      /\ u.output \in Nat /\ u.weight \in Nat
  BY DEF Usage
<1>5. CASE r.ok
  <2>1. v = [requests |-> u.requests + 1, errors |-> u.errors, prompt |-> u.prompt + r.prompt,
             cached |-> u.cached + r.cached, output |-> u.output + r.output, weight |-> u.weight + w]
    BY <1>3, <1>5
  <2>2. v \in Usage
    BY <1>2, <1>4, <2>1 DEF Usage
  <2>3. /\ v.requests = u.requests + 1 /\ v.weight = u.weight + w /\ v.output = u.output + r.output
        /\ v.cached = u.cached + r.cached /\ v.prompt = u.prompt + r.prompt
    BY <2>1
  <2>4. u.cached <= u.prompt => v.cached <= v.prompt
    BY <1>2, <1>4, <2>3
  <2>5. (IF r.ok THEN Weight(r) ELSE 0) = w /\ (IF r.ok THEN r.output ELSE 0) = r.output
    BY <1>1, <1>5
  <2> QED
    BY <2>2, <2>3, <2>4, <2>5
<1>6. CASE ~r.ok
  <2>1. v = [requests |-> u.requests + 1, errors |-> u.errors + 1, prompt |-> u.prompt,
             cached |-> u.cached, output |-> u.output, weight |-> u.weight]
    BY <1>3, <1>6
  <2>2. v \in Usage
    BY <1>4, <2>1 DEF Usage
  <2>3. /\ v.requests = u.requests + 1 /\ v.weight = u.weight + 0 /\ v.output = u.output + 0
        /\ v.cached = u.cached /\ v.prompt = u.prompt
    BY <1>4, <2>1
  <2> QED
    BY <1>1, <1>6, <2>2, <2>3
<1> QED
  BY <1>5, <1>6

\* The usage of the tenants as it is computed, one record at a time.
UsageSteps(k) ==
  /\ k \in [0..NumBilled -> [Tenants -> Usage]]
  /\ k[0] = [t \in Tenants |-> NoUsage]
  /\ \A i \in 1..NumBilled : k[i] = [k[i - 1] EXCEPT ![billed[i].tenant] = Used(@, billed[i])]
  /\ by = k[NumBilled]

LEMMA UsageByRecord ==
  ASSUME CostsTypeOK PROVE \E k : UsageSteps(k)
<1> DEFINE n == NumBilled
           V == [Tenants -> Usage]
           v == [t \in Tenants |-> NoUsage]
           Next1(i, m) == [m EXCEPT ![billed[i].tenant] = Used(@, billed[i])]
           G == [p \in (1..n) \X V |-> Next1(p[1], p[2])]
           Eq(k) == k = [i \in 0..n |-> IF i = 0 THEN v ELSE Next1(i, k[i - 1])]
<1>1. n \in Nat /\ Len(billed) = n
  BY BilledFacts
<1>2. v \in V
  BY DEF Usage, NoUsage
<1>3. ASSUME NEW i \in 1..n, NEW m \in V PROVE Next1(i, m) \in V
  <2>1. billed[i].tenant \in Tenants
    BY BilledFacts
  <2>2. Used(m[billed[i].tenant], billed[i]) \in Usage
    BY <2>1, UsedAdds
  <2> QED
    BY <2>1, <2>2
<1> HIDE DEF n, V, v, Next1
<1>4. G \in [(1..n) \X V -> V]
  <2>1. ASSUME NEW p \in (1..n) \X V PROVE Next1(p[1], p[2]) \in V
    <3>1. p[1] \in 1..n /\ p[2] \in V
      OBVIOUS
    <3> QED
      BY <1>3, <3>1
  <2> QED
    BY <2>1
<1> HIDE DEF G
<1>5. PICK f : f \in [0..n -> V] /\ f[0] = v /\ \A i \in 1..n : f[i] = G[<<i, f[i - 1]>>]
  <2>1. PICK f : Iterates(f, n, V, v, G)
    BY <1>1, <1>2, <1>4, IterationExists
  <2> QED
    BY <2>1 DEF Iterates
<1>6. ASSUME NEW i \in 1..n PROVE f[i] = Next1(i, f[i - 1])
  <2>1. i - 1 \in 0..n /\ f[i - 1] \in V
    BY <1>1, <1>5
  <2>2. <<i, f[i - 1]>> \in (1..n) \X V
    BY <2>1
  <2> QED
    BY <1>5, <2>2 DEF G
<1>7. Eq(f)
  <2>1. f = [i \in 0..n |-> f[i]]
    BY <1>5
  <2>2. ASSUME NEW i \in 0..n PROVE f[i] = IF i = 0 THEN v ELSE Next1(i, f[i - 1])
    <3>1. CASE i = 0
      BY <1>5, <3>1
    <3>2. CASE i # 0
      <4>1. i \in 1..n
        BY <1>1, <3>2
      <4> QED
        BY <1>6, <3>2, <4>1
    <3> QED
      BY <3>1, <3>2
  <2> QED
    BY <2>1, <2>2
<1> DEFINE k == CHOOSE g : Eq(g)
<1>8. Eq(k)
  BY <1>7
<1>9. by = k[n]
  BY <1>1 DEF by, n, v, Next1
<1> HIDE DEF k
<1>10. k[0] = v /\ DOMAIN k = 0..n
  BY <1>1, <1>8
<1>11. ASSUME NEW i \in 1..n PROVE k[i] = Next1(i, k[i - 1])
  <2>1. i \in 0..n /\ i # 0
    BY <1>1
  <2> QED
    BY <1>8, <2>1
<1>12. \A i \in 0..n : k[i] \in V
  <2> DEFINE T == {i \in 0..n : k[i] \in V}
  <2>1. 0 \in T
    BY <1>1, <1>2, <1>10
  <2>2. ASSUME NEW i \in 1..n, i - 1 \in T PROVE i \in T
    BY <1>1, <1>3, <1>11, <2>2
  <2> HIDE DEF T
  <2>3. 0..n \subseteq T
    BY <1>1, <2>1, <2>2, InductionUpTo
  <2> QED
    BY <2>3 DEF T
<1>13. k \in [0..n -> V]
  <2>1. k = [i \in 0..n |-> k[i]]
    BY <1>8
  <2> QED
    BY <1>12, <2>1
<1> QED
  BY <1>9, <1>10, <1>11, <1>13 DEF n, V, v, Next1, UsageSteps

\* The answered records among the first i.
AnsweredBy(i, ts) == {j \in 1..i : billed[j].ok /\ billed[j].tenant \in ts}
BilledWeights == [j \in 1..NumBilled |-> Weight(billed[j])]
Outputs == [j \in 1..NumBilled |-> billed[j].output]
Figure(m, field) == [t \in Tenants |-> m[t][field]]

LEMMA OneMoreRecord ==
  ASSUME CostsTypeOK, NEW i \in 1..NumBilled, NEW ts \in SUBSET Tenants
  PROVE  /\ AnsweredBy(i - 1, ts) \in SUBSET (1..NumBilled) /\ i \notin AnsweredBy(i - 1, ts)
         /\ AnsweredBy(i, ts) = IF billed[i].ok /\ billed[i].tenant \in ts
                                THEN AnsweredBy(i - 1, ts) \cup {i} ELSE AnsweredBy(i - 1, ts)
<1>1. i \in 1..i /\ i \in Nat /\ NumBilled \in Nat /\ i \notin 1..(i - 1) /\ 1..(i - 1) \subseteq 1..NumBilled
  BY BilledFacts
<1>2. 1..i = (1..(i - 1)) \cup {i}
  BY <1>1
<1> DEFINE N == 1..NumBilled
           J == 1..(i - 1)
<1>3. i \notin J /\ J \subseteq N /\ 1..i = J \cup {i}
  BY <1>1, <1>2
<1>4. /\ AnsweredBy(i - 1, ts) = {j \in J : billed[j].ok /\ billed[j].tenant \in ts}
      /\ AnsweredBy(i, ts) = {j \in J \cup {i} : billed[j].ok /\ billed[j].tenant \in ts}
  BY <1>3 DEF AnsweredBy
<1> HIDE DEF J
<1>5. AnsweredBy(i - 1, ts) \in SUBSET N /\ i \notin AnsweredBy(i - 1, ts)
  BY <1>3, <1>4
<1>6. CASE billed[i].ok /\ billed[i].tenant \in ts
  <2>1. {j \in J \cup {i} : billed[j].ok /\ billed[j].tenant \in ts}
          = {j \in J : billed[j].ok /\ billed[j].tenant \in ts} \cup {i}
    BY <1>6
  <2> QED
    BY <1>4, <1>5, <1>6, <2>1
<1>7. CASE ~(billed[i].ok /\ billed[i].tenant \in ts)
  <2>1. {j \in J \cup {i} : billed[j].ok /\ billed[j].tenant \in ts}
          = {j \in J : billed[j].ok /\ billed[j].tenant \in ts}
    BY <1>7
  <2>2. AnsweredBy(i, ts) = AnsweredBy(i - 1, ts)
    BY <1>4, <2>1
  <2> QED
    BY <1>5, <1>7, <2>2
<1> QED
  BY <1>6, <1>7

\* A sum over the answered records grows with an answered record.
LEMMA OneMoreAnswer ==
  ASSUME CostsTypeOK, NEW i \in 1..NumBilled, NEW ts \in SUBSET Tenants,
         NEW f, Summable(f, 1..NumBilled)
  PROVE  /\ SumFunctionOnSet(f, AnsweredBy(i - 1, ts)) \in Nat /\ f[i] \in Nat
         /\ SumFunctionOnSet(f, AnsweredBy(i, ts)) =
              SumFunctionOnSet(f, AnsweredBy(i - 1, ts)) +
                (IF billed[i].ok /\ billed[i].tenant \in ts THEN f[i] ELSE 0)
<1> DEFINE A == AnsweredBy(i - 1, ts)
           N == 1..NumBilled
<1>1. A \in SUBSET N /\ i \in N \ A /\ AnsweredBy(i, ts) = IF billed[i].ok /\ billed[i].tenant \in ts
                                                          THEN A \cup {i} ELSE A
  BY OneMoreRecord
<1> HIDE DEF A, N
<1>2. Summable(f, N)
  BY DEF N
<1>3. SumFunctionOnSet(f, A) \in Nat /\ SumFunctionOnSet(f, A \cup {i}) = SumFunctionOnSet(f, A) + f[i]
  <2>1. A \in SUBSET N
    BY <1>1
  <2>2. SumFunctionOnSet(f, A) \in Nat
        /\ \A x \in N \ A : SumFunctionOnSet(f, A \cup {x}) = SumFunctionOnSet(f, A) + f[x]
    BY <1>2, <2>1, SumOfPart
  <2> QED
    BY <1>1, <2>2
<1>4. f[i] \in Nat
  BY <1>1, <1>2 DEF Summable
<1>5. CASE billed[i].ok /\ billed[i].tenant \in ts
  <2>1. AnsweredBy(i, ts) = A \cup {i}
    BY <1>1, <1>5
  <2> QED
    BY <1>3, <1>4, <1>5, <2>1 DEF A
<1>6. CASE ~(billed[i].ok /\ billed[i].tenant \in ts)
  <2>1. AnsweredBy(i, ts) = A
    BY <1>1, <1>6
  <2> QED
    BY <1>3, <1>4, <1>6, <2>1 DEF A
<1> QED
  BY <1>5, <1>6

UsageAddsUp(i, m) ==
  /\ \A t \in Tenants : /\ m[t].weight = SumFunctionOnSet(BilledWeights, AnsweredBy(i, {t}))
                        /\ m[t].cached <= m[t].prompt
  /\ SumFunctionOnSet(Figure(m, "requests"), Tenants) = i
  /\ SumFunctionOnSet(Figure(m, "weight"), Tenants) = SumFunctionOnSet(BilledWeights, AnsweredBy(i, Tenants))
  /\ SumFunctionOnSet(Figure(m, "output"), Tenants) = SumFunctionOnSet(Outputs, AnsweredBy(i, Tenants))

LEMMA FiguresSum ==
  ASSUME CostsTypeOK, NEW m \in [Tenants -> Usage]
  PROVE  /\ Summable(Figure(m, "requests"), Tenants) /\ Summable(Figure(m, "weight"), Tenants)
         /\ Summable(Figure(m, "output"), Tenants) /\ Summable(Figure(m, "cached"), Tenants)
         /\ Summable(Figure(m, "prompt"), Tenants)
         /\ \A t \in Tenants : /\ Figure(m, "requests")[t] = m[t].requests /\ Figure(m, "weight")[t] = m[t].weight
                               /\ Figure(m, "output")[t] = m[t].output /\ Figure(m, "cached")[t] = m[t].cached
                               /\ Figure(m, "prompt")[t] = m[t].prompt
<1>1. IsFiniteSet(Tenants)
  BY BilledFacts
<1>2. \A t \in Tenants : m[t] \in Usage
  OBVIOUS
<1>3. ASSUME NEW t \in Tenants
      PROVE  /\ m[t].requests \in Nat /\ m[t].weight \in Nat /\ m[t].output \in Nat
             /\ m[t].cached \in Nat /\ m[t].prompt \in Nat
  BY <1>2 DEF Usage
<1>4. ASSUME NEW t \in Tenants
      PROVE  /\ Figure(m, "requests")[t] = m[t].requests /\ Figure(m, "weight")[t] = m[t].weight
             /\ Figure(m, "output")[t] = m[t].output /\ Figure(m, "cached")[t] = m[t].cached
             /\ Figure(m, "prompt")[t] = m[t].prompt
  BY DEF Figure
<1> QED
  BY <1>1, <1>3, <1>4 DEF Summable

LEMMA AnswersSum ==
  ASSUME CostsTypeOK
  PROVE  Summable(BilledWeights, 1..NumBilled) /\ Summable(Outputs, 1..NumBilled)
<1>1. /\ IsFiniteSet(1..NumBilled)
      /\ \A j \in 1..NumBilled : billed[j].output \in Nat /\ Weight(billed[j]) \in Nat
  BY BilledFacts
<1>2. \A j \in 1..NumBilled : BilledWeights[j] = Weight(billed[j])
  BY DEF BilledWeights
<1>3. \A j \in 1..NumBilled : Outputs[j] = billed[j].output
  BY DEF Outputs
<1> QED
  BY <1>1, <1>2, <1>3 DEF Summable

\* A figure of all the tenants grows with that of one of them.
Replaced(m2, m, t, v) == m2 = [m EXCEPT ![t] = v]
Grown(v, u, field, d) == d \in Nat /\ v[field] = u[field] + d
LEMMA FigureGrows ==
  ASSUME NEW m \in [Tenants -> Usage], NEW field, Summable(Figure(m, field), Tenants), NEW tn \in Tenants,
         NEW v, NEW d, Grown(v, m[tn], field, d), NEW m2, Replaced(m2, m, tn, v)
  PROVE  SumFunctionOnSet(Figure(m2, field), Tenants) = SumFunctionOnSet(Figure(m, field), Tenants) + d
<1> DEFINE f == Figure(m, field)
           g == Figure(m2, field)
<1>1. \A t \in Tenants : f[t] = m[t][field] /\ g[t] = m2[t][field]
  BY DEF Figure
<1>2. g[tn] = f[tn] + d /\ \A t \in Tenants \ {tn} : g[t] = f[t]
  <2>1. m2[tn] = v /\ \A t \in Tenants \ {tn} : m2[t] = m[t]
    BY DEF Replaced
  <2>2. v[field] = m[tn][field] + d
    BY DEF Grown
  <2> QED
    BY <1>1, <2>1, <2>2
<1> HIDE DEF f, g
<1>3. Summable(f, Tenants)
  BY DEF f
<1>4. SumFunctionOnSet(g, Tenants) = SumFunctionOnSet(f, Tenants) + d
  BY <1>2, <1>3, SumOfGrown DEF Grown
<1> QED
  BY <1>4 DEF f, g

LEMMA RecordAddsUp ==
  ASSUME CostsTypeOK, NEW i \in 1..NumBilled, NEW m \in [Tenants -> Usage], UsageAddsUp(i - 1, m),
         NEW m2, m2 = [m EXCEPT ![billed[i].tenant] = Used(@, billed[i])]
  PROVE  UsageAddsUp(i, m2)
<1>1. PICK r, tn, v : r = billed[i] /\ tn = billed[i].tenant /\ v = Used(m[tn], r)
  OBVIOUS
<1>2. tn \in Tenants /\ m[tn] \in Usage /\ r.ok \in BOOLEAN
  BY <1>1, BilledFacts
<1>3. /\ v \in Usage /\ v.requests = m[tn].requests + 1
      /\ v.weight = m[tn].weight + (IF r.ok THEN Weight(r) ELSE 0)
      /\ v.output = m[tn].output + (IF r.ok THEN r.output ELSE 0)
      /\ m[tn].cached <= m[tn].prompt => v.cached <= v.prompt
  BY <1>1, <1>2, UsedAdds
<1>4. Replaced(m2, m, tn, v) /\ \A t \in Tenants : m2[t] = IF t = tn THEN v ELSE m[t]
  BY <1>1, <1>2 DEF Replaced
<1>5. PICK w, o : w = (IF r.ok THEN Weight(r) ELSE 0) /\ o = (IF r.ok THEN r.output ELSE 0)
  OBVIOUS
<1>6. w \in Nat /\ o \in Nat
  BY <1>1, <1>5, BilledFacts
<1>7. BilledWeights[i] = Weight(r) /\ Outputs[i] = r.output
  BY <1>1 DEF BilledWeights, Outputs
<1>8. ASSUME NEW t \in Tenants
      PROVE  m2[t].weight = SumFunctionOnSet(BilledWeights, AnsweredBy(i, {t})) /\ m2[t].cached <= m2[t].prompt
  <2>1. PICK s : s = SumFunctionOnSet(BilledWeights, AnsweredBy(i - 1, {t}))
    OBVIOUS
  <2>2. /\ s \in Nat
        /\ SumFunctionOnSet(BilledWeights, AnsweredBy(i, {t})) =
             s + (IF r.ok /\ tn \in {t} THEN BilledWeights[i] ELSE 0)
    BY <1>1, <2>1, AnswersSum, OneMoreAnswer
  <2>3. m[t].weight = s /\ m[t].cached <= m[t].prompt
    BY <2>1 DEF UsageAddsUp
  <2>4. CASE t = tn
    <3>1. (IF r.ok /\ tn \in {t} THEN BilledWeights[i] ELSE 0) = w
      BY <1>5, <1>7, <2>4
    <3>2. m2[t] = v /\ v.weight = s + w
      BY <1>3, <1>4, <1>5, <2>3, <2>4
    <3> QED
      BY <1>3, <2>2, <2>3, <2>4, <3>1, <3>2
  <2>5. CASE t # tn
    <3>1. (IF r.ok /\ tn \in {t} THEN BilledWeights[i] ELSE 0) = 0
      BY <2>5
    <3>2. m2[t] = m[t]
      BY <1>4, <2>5
    <3> QED
      BY <2>2, <2>3, <3>1, <3>2
  <2> QED
    BY <2>4, <2>5
<1>9. SumFunctionOnSet(Figure(m2, "requests"), Tenants) = i
  <2>1. SumFunctionOnSet(Figure(m2, "requests"), Tenants) = SumFunctionOnSet(Figure(m, "requests"), Tenants) + 1
    <3>1. Summable(Figure(m, "requests"), Tenants) /\ Grown(v, m[tn], "requests", 1)
      BY <1>3, FiguresSum DEF Grown
    <3> QED
      BY <1>2, <1>4, <3>1, FigureGrows
  <2>2. SumFunctionOnSet(Figure(m, "requests"), Tenants) = i - 1
    BY DEF UsageAddsUp
  <2> QED
    BY <2>1, <2>2
<1>10. SumFunctionOnSet(Figure(m2, "weight"), Tenants) = SumFunctionOnSet(BilledWeights, AnsweredBy(i, Tenants))
  <2>1. SumFunctionOnSet(Figure(m2, "weight"), Tenants) = SumFunctionOnSet(Figure(m, "weight"), Tenants) + w
    <3>1. Summable(Figure(m, "weight"), Tenants) /\ Grown(v, m[tn], "weight", w)
      BY <1>3, <1>5, <1>6, FiguresSum DEF Grown
    <3> QED
      BY <1>2, <1>4, <3>1, FigureGrows
  <2>2. SumFunctionOnSet(Figure(m, "weight"), Tenants) = SumFunctionOnSet(BilledWeights, AnsweredBy(i - 1, Tenants))
    BY DEF UsageAddsUp
  <2>3. SumFunctionOnSet(BilledWeights, AnsweredBy(i, Tenants)) =
          SumFunctionOnSet(BilledWeights, AnsweredBy(i - 1, Tenants)) + (IF r.ok /\ tn \in Tenants THEN BilledWeights[i] ELSE 0)
    BY <1>1, AnswersSum, OneMoreAnswer
  <2>4. (IF r.ok /\ tn \in Tenants THEN BilledWeights[i] ELSE 0) = w
    BY <1>2, <1>5, <1>7
  <2> QED
    BY <2>1, <2>2, <2>3, <2>4
<1>11. SumFunctionOnSet(Figure(m2, "output"), Tenants) = SumFunctionOnSet(Outputs, AnsweredBy(i, Tenants))
  <2>1. SumFunctionOnSet(Figure(m2, "output"), Tenants) = SumFunctionOnSet(Figure(m, "output"), Tenants) + o
    <3>1. Summable(Figure(m, "output"), Tenants) /\ Grown(v, m[tn], "output", o)
      BY <1>3, <1>5, <1>6, FiguresSum DEF Grown
    <3> QED
      BY <1>2, <1>4, <3>1, FigureGrows
  <2>2. SumFunctionOnSet(Figure(m, "output"), Tenants) = SumFunctionOnSet(Outputs, AnsweredBy(i - 1, Tenants))
    BY DEF UsageAddsUp
  <2>3. SumFunctionOnSet(Outputs, AnsweredBy(i, Tenants)) =
          SumFunctionOnSet(Outputs, AnsweredBy(i - 1, Tenants)) + (IF r.ok /\ tn \in Tenants THEN Outputs[i] ELSE 0)
    BY <1>1, AnswersSum, OneMoreAnswer
  <2>4. (IF r.ok /\ tn \in Tenants THEN Outputs[i] ELSE 0) = o
    BY <1>2, <1>5, <1>7
  <2> QED
    BY <2>1, <2>2, <2>3, <2>4
<1> QED
  BY <1>8, <1>9, <1>10, <1>11 DEF UsageAddsUp

\* The usage of the tenants is that of the answered records.
LEMMA ByAddsUp ==
  ASSUME CostsTypeOK
  PROVE  by \in [Tenants -> Usage] /\ UsageAddsUp(NumBilled, by)
<1>1. PICK k : UsageSteps(k)
  BY UsageByRecord
<1>2. PICK n \in Nat : n = NumBilled
  BY BilledFacts
<1>3. /\ k \in [0..n -> [Tenants -> Usage]] /\ k[0] = [t \in Tenants |-> NoUsage] /\ by = k[n]
      /\ \A i \in 1..n : k[i] = [k[i - 1] EXCEPT ![billed[i].tenant] = Used(@, billed[i])]
  BY <1>1, <1>2 DEF UsageSteps
<1>4. UsageAddsUp(0, k[0])
  <2>1. PICK m : m = k[0]
    OBVIOUS
  <2>2. m \in [Tenants -> Usage] /\ IsFiniteSet(Tenants)
    BY <1>2, <1>3, <2>1, BilledFacts
  <2>3. \A t \in Tenants : m[t].requests = 0 /\ m[t].weight = 0 /\ m[t].output = 0 /\ m[t].cached <= m[t].prompt
    BY <1>3, <2>1 DEF NoUsage
  <2>4. \A i \in Tenants : /\ Figure(m, "requests")[i] = 0 /\ Figure(m, "weight")[i] = 0
                           /\ Figure(m, "output")[i] = 0
    BY <2>2, <2>3, FiguresSum
  <2>5. /\ SumFunctionOnSet(Figure(m, "requests"), Tenants) = 0
        /\ SumFunctionOnSet(Figure(m, "weight"), Tenants) = 0
        /\ SumFunctionOnSet(Figure(m, "output"), Tenants) = 0
    BY <2>2, <2>4, SumOfZeros
  <2>6. \A ts : AnsweredBy(0, ts) = {}
    BY DEF AnsweredBy
  <2>7. \A f : SumFunctionOnSet(f, {}) = 0
    BY SumOverSet
  <2> QED
    BY <2>1, <2>3, <2>5, <2>6, <2>7 DEF UsageAddsUp
<1> DEFINE T == {i \in 0..n : UsageAddsUp(i, k[i])}
<1>5. 0 \in T
  BY <1>2, <1>4
<1>6. ASSUME NEW i \in 1..n, i - 1 \in T PROVE i \in T
  <2>1. UsageAddsUp(i - 1, k[i - 1]) /\ k[i - 1] \in [Tenants -> Usage] /\ i \in 0..n
    BY <1>2, <1>3, <1>6
  <2>2. UsageAddsUp(i, k[i])
    BY <1>2, <1>3, <2>1, RecordAddsUp
  <2> QED
    BY <2>1, <2>2
<1> HIDE DEF T
<1>7. 0..n \subseteq T
  BY <1>2, <1>5, <1>6, InductionUpTo
<1>8. n \in T
  BY <1>2, <1>7
<1> QED
  BY <1>2, <1>3, <1>8 DEF T

\* The window of a report, of the times that are known.
LEMMA KnownTimes ==
  ASSUME CostsTypeOK, NEW field, \A i \in 1..NumBilled : billed[i][field] \in Nat \cup {UnsetTime}
  PROVE  IsFiniteSet(Known(field)) /\ Known(field) \subseteq Nat
<1> DEFINE N == 1..NumBilled
           f == [i \in N |-> billed[i][field]]
           All == {billed[i][field] : i \in N}
<1>1. IsFiniteSet(N) /\ DOMAIN billed = N
  BY BilledFacts
<1>2. Known(field) = All \ {UnsetTime} /\ \A i \in N : billed[i][field] \in Nat \cup {UnsetTime}
  BY <1>1 DEF Known
<1> HIDE DEF N
<1>3. f \in Surjection(N, All)
  BY DEF Surjection
<1> HIDE DEF f
<1>4. IsFiniteSet(All)
  BY <1>1, <1>3, FS_Surjection
<1>5. IsFiniteSet(All \ {UnsetTime})
  BY <1>4, FS_RemoveElement
<1> QED
  BY <1>2, <1>5

LEMMA WindowFacts ==
  ASSUME CostsTypeOK
  PROVE  /\ Window \in Nat
         /\ \A i \in 1..NumBilled : billed[i].send # UnsetTime => WindowFrom <= billed[i].send
<1>1. PICK S : S = Known("send")
  OBVIOUS
<1>2. PICK E : E = Known("done")
  OBVIOUS
<1>3. IsFiniteSet(S) /\ S \subseteq Nat
  <2>1. PICK field : field = "send"
    OBVIOUS
  <2>2. \A i \in 1..NumBilled : billed[i][field] \in Nat \cup {UnsetTime}
    BY <2>1, BilledFacts
  <2> QED
    BY <1>1, <2>1, <2>2, KnownTimes
<1>4. IsFiniteSet(E) /\ E \subseteq Nat
  <2>1. PICK field : field = "done"
    OBVIOUS
  <2>2. \A i \in 1..NumBilled : billed[i][field] \in Nat \cup {UnsetTime}
    BY <2>1, BilledFacts
  <2> QED
    BY <1>2, <2>1, <2>2, KnownTimes
<1>5. PICK S1 : S1 = S \cup (IF S = {} THEN {0} ELSE {})
  OBVIOUS
<1>6. IsFiniteSet(S1) /\ S1 \subseteq Int /\ S1 \subseteq Nat /\ S1 # {} /\ S \subseteq S1
  <2>1. CASE S = {}
    <3>1. S1 = {0}
      BY <1>5, <2>1
    <3> QED
      BY <2>1, <3>1, FS_Singleton
  <2>2. CASE S # {}
    <3>1. S1 = S
      BY <1>5, <2>2
    <3> QED
      BY <1>3, <2>2, <3>1
  <2> QED
    BY <2>1, <2>2
<1>7. WindowFrom = Min(S1)
  BY <1>1, <1>5 DEF WindowFrom
<1>8. WindowFrom \in S1 /\ \A x \in S1 : WindowFrom <= x
  BY <1>6, <1>7, FiniteExtremes
<1>9. PICK a \in Nat : a = WindowFrom
  BY <1>6, <1>8
<1>10. PICK E1 : E1 = E \cup (IF E = {} THEN {a} ELSE {})
  OBVIOUS
<1>11. IsFiniteSet(E1) /\ E1 \subseteq Int /\ E1 \subseteq Nat /\ E1 # {}
  <2>1. CASE E = {}
    <3>1. E1 = {a}
      BY <1>10, <2>1
    <3> QED
      BY <2>1, <3>1, FS_Singleton
  <2>2. CASE E # {}
    <3>1. E1 = E
      BY <1>10, <2>2
    <3> QED
      BY <1>4, <2>2, <3>1
  <2> QED
    BY <2>1, <2>2
<1>12. WindowTo = Max(E1)
  BY <1>2, <1>9, <1>10 DEF WindowTo
<1>13. PICK b \in Nat : b = WindowTo
  <2>1. Max(E1) \in E1
    BY <1>11, FiniteExtremes
  <2> QED
    BY <1>11, <1>12, <2>1
<1>14. Window \in Nat
  <2>1. b - a \in Int /\ Window = Max({b - a, 0})
    BY <1>9, <1>13 DEF Window
  <2>2. Max({b - a, 0}) = IF b - a >= 0 THEN b - a ELSE 0
    BY <2>1, MaxOfTwo
  <2> QED
    BY <2>1, <2>2
<1>15. ASSUME NEW i \in 1..NumBilled, billed[i].send # UnsetTime PROVE WindowFrom <= billed[i].send
  <2>1. billed[i].send \in Known("send")
    BY <1>15, BilledFacts DEF Known
  <2> QED
    BY <1>1, <1>6, <1>8, <2>1
<1> QED
  BY <1>14, <1>15

LEMMA BilledExactly ==
  ASSUME CostsTypeOK PROVE BillsAddUp
<1>1. by \in [Tenants -> Usage] /\ UsageAddsUp(NumBilled, by)
  BY ByAddsUp
<1>2. PICK w \in Nat : w = Window
  BY WindowFacts
<1>3. ASSUME NEW ts \in SUBSET Tenants
      PROVE  /\ Answers(ts) = AnsweredBy(NumBilled, ts) /\ Answers(ts) \in SUBSET (1..NumBilled)
             /\ WeightOfAnswers(ts) = SumFunctionOnSet(BilledWeights, AnsweredBy(NumBilled, ts))
             /\ WeightOfAnswers(ts) \in Nat
             /\ OfAnswers(LAMBDA r : r.output, ts) = SumFunctionOnSet(Outputs, AnsweredBy(NumBilled, ts))
  <2> DEFINE A == Answers(ts)
             N == 1..NumBilled
             ws == [i \in A |-> Weight(billed[i])]
             os == [i \in A |-> billed[i].output]
  <2>1. A = AnsweredBy(NumBilled, ts) /\ A \in SUBSET N
    BY BilledFacts DEF Answers, AnsweredBy
  <2>2. WeightOfAnswers(ts) = SumFunctionOnSet(ws, A)
    BY DEF WeightOfAnswers, OfAnswers
  <2>3. OfAnswers(LAMBDA r : r.output, ts) = SumFunctionOnSet(os, A)
    BY DEF OfAnswers
  <2> HIDE DEF A
  <2>4. \A i \in A : BilledWeights[i] = ws[i] /\ Outputs[i] = os[i]
    BY <2>1 DEF BilledWeights, Outputs
  <2> HIDE DEF ws, os, N
  <2>5. Summable(BilledWeights, N) /\ Summable(Outputs, N)
    BY AnswersSum DEF N
  <2>6. Summable(BilledWeights, A) /\ Summable(Outputs, A) /\ SumFunctionOnSet(BilledWeights, A) \in Nat
    BY <2>1, <2>5, SumOfPart
  <2>7. SumFunctionOnSet(BilledWeights, A) = SumFunctionOnSet(ws, A)
    BY <2>4, <2>6, SumOverSet
  <2>8. SumFunctionOnSet(Outputs, A) = SumFunctionOnSet(os, A)
    BY <2>4, <2>6, SumOverSet
  <2> QED
    BY <2>1, <2>2, <2>3, <2>6, <2>7, <2>8 DEF A, N
<1>4. \A field : Fleet(field) = SumFunctionOnSet(Figure(by, field), Tenants)
  BY DEF Fleet, Figure
<1>5. PICK all \in Nat : all = WeightOfAnswers(Tenants) /\ all = total_weighted
  BY <1>1, <1>3, <1>4 DEF UsageAddsUp, total_weighted
<1>6. BillsOf(Tenants) = all * w
  <2> DEFINE bills == [t \in Tenants |-> Bill(t)]
             f == Figure(by, "weight")
  <2>1. \A t \in Tenants : f[t] = by[t].weight
    BY <1>1, FiguresSum
  <2>2. \A t \in Tenants : bills[t] = f[t] * w
    BY <1>2, <2>1 DEF Bill
  <2>3. BillsOf(Tenants) = SumFunctionOnSet(bills, Tenants)
    BY DEF BillsOf
  <2>4. SumFunctionOnSet(f, Tenants) = all
    BY <1>4, <1>5 DEF total_weighted
  <2>5. Summable(f, Tenants)
    BY <1>1, FiguresSum
  <2> HIDE DEF bills, f
  <2>6. SumFunctionOnSet(bills, Tenants) = SumFunctionOnSet(f, Tenants) * w
    BY <2>2, <2>5, SumOfMultiples
  <2> QED
    BY <2>3, <2>4, <2>6
<1>7. ASSUME NEW t \in Tenants
      PROVE  /\ Bill(t) * all = WeightOfAnswers({t}) * w * all
             /\ 0 <= Bill(t) /\ (Answers({t}) = {} => Bill(t) = 0)
  <2>1. {t} \in SUBSET Tenants
    OBVIOUS
  <2>2. PICK a \in Nat : a = WeightOfAnswers({t}) /\ a = SumFunctionOnSet(BilledWeights, Answers({t}))
    BY <1>3, <2>1
  <2>3. Bill(t) = a * w
    BY <1>1, <1>2, <1>3, <2>1, <2>2 DEF Bill, UsageAddsUp
  <2>4. Answers({t}) = {} => a = 0
    BY <2>2, SumOverSet
  <2>5. a * w \in Nat /\ (a = 0 => a * w = 0)
    OBVIOUS
  <2>6. Bill(t) * all = WeightOfAnswers({t}) * w * all
    BY <2>2, <2>3, Zenon
  <2>7. 0 <= Bill(t)
    BY <2>3, <2>5
  <2>8. Answers({t}) = {} => Bill(t) = 0
    BY <2>3, <2>4, <2>5
  <2> QED
    BY <2>6, <2>7, <2>8
<1>8. Fleet("requests") = Len(billed)
  BY <1>1, <1>4, BilledFacts DEF UsageAddsUp
<1>9. Fleet("output") = OfAnswers(LAMBDA r : r.output, Tenants)
  BY <1>1, <1>3, <1>4 DEF UsageAddsUp
<1>10. Fleet("cached") <= Fleet("prompt")
  <2> DEFINE f == Figure(by, "cached")
             g == Figure(by, "prompt")
  <2>1. Summable(f, Tenants) /\ Summable(g, Tenants) /\ \A t \in Tenants : f[t] <= g[t]
    BY <1>1, FiguresSum DEF UsageAddsUp
  <2>2. Fleet("cached") = SumFunctionOnSet(f, Tenants) /\ Fleet("prompt") = SumFunctionOnSet(g, Tenants)
    BY <1>4
  <2> HIDE DEF f, g
  <2> QED
    BY <2>1, <2>2, SumsCompare
<1>11. \A i \in Answers(Tenants) : billed[i].send # UnsetTime => WindowFrom <= billed[i].send
  BY <1>3, WindowFacts
<1>12. BillsOf(Tenants) = WeightOfAnswers(Tenants) * Window
  BY <1>2, <1>5, <1>6
<1>13. \A t \in Tenants : Bill(t) * WeightOfAnswers(Tenants) = WeightOfAnswers({t}) * Window * total_weighted
  BY <1>2, <1>5, <1>7
<1> QED
  BY <1>7, <1>8, <1>9, <1>10, <1>11, <1>12, <1>13 DEF BillsAddUp

\* The bills of a window add up: each tenant pays in proportion to its
\* answered requests, and the fleet's figures are those of the answered ones.
THEOREM BillsAlwaysAddUp == CostsSpec => []BillsAddUp
<1>1. CostsInit => CostsTypeOK
  BY DEF CostsInit, CostsTypeOK
<1>2. CostsTypeOK /\ [FALSE]_billed => CostsTypeOK'
  BY DEF CostsTypeOK
<1>3. CostsSpec => []CostsTypeOK
  BY <1>1, <1>2, PTL DEF CostsSpec
<1> QED
  BY <1>3, BilledExactly, PTL

-----------------------------------------------------------------------------
(***************************************************************************)
(* The verdict on a quantised model.                                       *)
(***************************************************************************)
LEMMA LeastIsMin ==
  ASSUME NEW S, S \subseteq Nat, S # {}
  PROVE  Min(S) \in S /\ \A x \in S : Min(S) <= x
<1>1. \E n \in S : \A m \in S : n <= m
  BY LeastElement
<1> QED
  BY <1>1 DEF Min

\* The position of the first difference is the length of the common prefix.
LEMMA DivergenceIsShared ==
  ASSUME NEW ta \in Seq(STRING), NEW tb \in Seq(STRING)
  PROVE  Divergence(ta, tb) \in Nat /\ Shared(<<ta, tb>>) = Divergence(ta, tb)
<1>1. PICK la \in Nat, lb \in Nat : la = Len(ta) /\ lb = Len(tb) /\ DOMAIN ta = 1..la /\ DOMAIN tb = 1..lb
  OBVIOUS
<1>2. PICK m \in Nat : m = IF la <= lb THEN la ELSE lb
  OBVIOUS
<1> DEFINE D == DOMAIN ta \cap DOMAIN tb
           Wrong == {j \in D : ta[j] # tb[j]}
           S == {Len(ta), Len(tb)} \cup {i - 1 : i \in Wrong}
<1>3. D = 1..m /\ Wrong \subseteq 1..m
  BY <1>1, <1>2
<1>4. S \subseteq Nat /\ la \in S /\ lb \in S
  <2>1. \A i \in Wrong : i - 1 \in Nat
    BY <1>2, <1>3
  <2> QED
    BY <1>1, <2>1
<1>5. Divergence(ta, tb) = Min(S)
  BY DEF Divergence
<1>6. Min(S) \in S /\ \A x \in S : Min(S) <= x
  BY <1>4, LeastIsMin
<1>7. PICK d \in Nat : d = Min(S)
  BY <1>4, <1>6
<1>8. /\ d = la \/ d = lb \/ \E i \in Wrong : d = i - 1
      /\ d <= la /\ d <= lb /\ \A i \in Wrong : d <= i - 1
  <2>1. \A i \in Wrong : i - 1 \in S
    OBVIOUS
  <2> QED
    BY <1>1, <1>4, <1>6, <1>7, <2>1
<1> DEFINE K == {k \in DOMAIN ta : k \in DOMAIN tb /\ SubSeq(ta, 1, k) = SubSeq(tb, 1, k)}
<1>9. Shared(<<ta, tb>>) = Cardinality(K)
  BY DEF Shared
<1>10. K = 1..d
  <2>1. ASSUME NEW k \in 1..d PROVE k \in K
    <3>1. k \in 1..la /\ k \in 1..lb /\ k \in 1..m
      BY <1>2, <1>8
    <3>2. \A i \in 1..k : ta[i] = tb[i]
      <4>1. ASSUME NEW i \in 1..k, ta[i] # tb[i] PROVE FALSE
        <5>1. i \in D
          BY <1>3, <3>1
        <5>2. i \in Wrong
          BY <4>1, <5>1
        <5> QED
          BY <1>8, <5>2
      <4> QED
        BY <4>1
    <3>3. SubSeq(ta, 1, k) = [i \in 1..k |-> ta[i]] /\ SubSeq(tb, 1, k) = [i \in 1..k |-> tb[i]]
      BY <1>1, <3>1
    <3> QED
      BY <1>1, <3>1, <3>2, <3>3
  <2>2. ASSUME NEW k \in K PROVE k \in 1..d
    <3>1. k \in 1..la /\ k \in 1..lb /\ SubSeq(ta, 1, k) = SubSeq(tb, 1, k)
      BY <1>1
    <3>2. SUFFICES ASSUME ~(k <= d) PROVE FALSE
      BY <3>1
    <3>3. PICK i \in Wrong : d = i - 1
      BY <1>8, <3>1, <3>2
    <3>4. i \in 1..k /\ ta[i] # tb[i]
      BY <1>2, <1>3, <3>1, <3>2, <3>3
    <3>5. SubSeq(ta, 1, k)[i] = ta[i] /\ SubSeq(tb, 1, k)[i] = tb[i]
      BY <1>1, <3>1, <3>4
    <3> QED
      BY <3>1, <3>4, <3>5
  <2> QED
    BY <2>1, <2>2
<1>11. Cardinality(1..d) = d
  <2>1. 1 \in Int /\ d \in Int
    OBVIOUS
  <2>2. Cardinality(1..d) = IF 1 > d THEN 0 ELSE d - 1 + 1
    BY <2>1, FS_Interval
  <2> QED
    BY <2>2
<1> QED
  BY <1>5, <1>7, <1>9, <1>10, <1>11

\* What was measured so far: of every pair of answers, where they part.
AgreementKept ==
  /\ pairs \in Seq(Texts \X Texts)
  /\ agree \in [n : Nat, exact_match : Nat, divergence_positions : Seq(Nat)]
  /\ agree.n = Len(pairs) /\ Len(agree.divergence_positions) = Len(pairs)
  /\ \A i \in DOMAIN pairs : agree.divergence_positions[i] = Divergence(pairs[i][1], pairs[i][2])
  /\ IsFiniteSet(Differing) /\ agree.exact_match + Cardinality(Differing) = Len(pairs)

\* And of every task asked of an endpoint, whether it was solved.
Measurements == {"agreement", "kl", "baseline", "candidate", "over"}
TasksKept ==
  /\ measuring \in Measurements /\ asked \in Nat /\ right \in [Endpoint -> Nat]
  /\ tasks \in [Endpoint -> [total : Nat, correct : Nat]]
  /\ \A e \in Endpoint : tasks[e].correct = right[e]
  /\ measuring \in {"agreement", "kl"} => tasks["baseline"].total = 0 /\ tasks["candidate"].total = 0
  /\ measuring = "baseline" => tasks["baseline"].total = asked /\ tasks["candidate"].total = 0
  /\ measuring = "candidate" => tasks["baseline"].total = NumTasks /\ tasks["candidate"].total = asked
  /\ measuring = "over" => tasks["baseline"].total = NumTasks /\ tasks["candidate"].total = NumTasks

LEMMA QualityStarts ==
  ASSUME QualityInit PROVE AgreementKept /\ TasksKept
<1>1. pairs = <<>> /\ agree = [n |-> 0, exact_match |-> 0, divergence_positions |-> <<>>]
  BY DEF QualityInit
<1>2. Differing = {} /\ IsFiniteSet(Differing) /\ Cardinality(Differing) = 0
  <2>1. Differing = {}
    BY <1>1 DEF Differing
  <2> QED
    BY <2>1, FS_EmptySet
<1>3. AgreementKept
  <2>1. /\ agree \in [n : Nat, exact_match : Nat, divergence_positions : Seq(Nat)]
        /\ agree.n = 0 /\ agree.exact_match = 0 /\ agree.divergence_positions = <<>>
    BY <1>1
  <2>2. pairs \in Seq(Texts \X Texts) /\ Len(pairs) = 0 /\ DOMAIN pairs = {} /\ Len(<<>>) = 0
    BY <1>1
  <2> QED
    BY <1>2, <2>1, <2>2 DEF AgreementKept
<1>4. TasksKept
  BY DEF QualityInit, TasksKept, Measurements, Endpoint
<1> QED
  BY <1>3, <1>4

\* What was measured stays so as long as nobody compares.
LEMMA AgreementUndisturbed ==
  ASSUME AgreementKept, UNCHANGED <<agree, pairs>> PROVE AgreementKept'
<1>1. Differing' = Differing
  BY DEF Differing
<1>2. IsFiniteSet(Differing') /\ agree'.exact_match + Cardinality(Differing') = Len(pairs')
  BY <1>1 DEF AgreementKept
<1>3. \A i \in DOMAIN pairs' :
        agree'.divergence_positions[i] = Divergence(pairs'[i][1], pairs'[i][2])
  BY DEF AgreementKept
<1>4. /\ pairs' \in Seq(Texts \X Texts)
      /\ agree' \in [n : Nat, exact_match : Nat, divergence_positions : Seq(Nat)]
      /\ agree'.n = Len(pairs') /\ Len(agree'.divergence_positions) = Len(pairs')
  BY DEF AgreementKept
<1> QED
  BY <1>2, <1>3, <1>4 DEF AgreementKept

LEMMA AgreementStep ==
  ASSUME AgreementKept, QualityNext PROVE AgreementKept'
<1>1. CASE UNCHANGED <<agree, pairs>>
  BY <1>1, AgreementUndisturbed
<1>2. ASSUME NEW ta \in Texts, NEW tb \in Texts, agree' = Compared(ta, tb), pairs' = Append(pairs, <<ta, tb>>)
      PROVE  AgreementKept'
  <2>1. PICK n \in Nat, e \in Nat, dp \in Seq(Nat) :
          n = Len(pairs) /\ e = agree.exact_match /\ dp = agree.divergence_positions /\ Len(dp) = n /\ agree.n = n
    BY DEF AgreementKept
  <2>2. PICK d \in Nat : d = Divergence(ta, tb)
    BY QualityAssumption, DivergenceIsShared
  <2>3. agree' = [n |-> n + 1, exact_match |-> e + (IF ta = tb THEN 1 ELSE 0), divergence_positions |-> Append(dp, d)]
    BY <1>2, <2>1, <2>2 DEF Compared
  <2>4. Append(dp, d) \in Seq(Nat) /\ Len(Append(dp, d)) = n + 1
        /\ Append(dp, d)[n + 1] = d /\ \A i \in 1..n : Append(dp, d)[i] = dp[i]
    BY <2>1
  <2>5. PICK pp : pp = <<ta, tb>>
    OBVIOUS
  <2>6. pp \in Texts \X Texts /\ pp[1] = ta /\ pp[2] = tb
    BY <2>5
  <2>7. /\ pairs' \in Seq(Texts \X Texts) /\ Len(pairs') = n + 1 /\ DOMAIN pairs' = 1..(n + 1) /\ DOMAIN pairs = 1..n
        /\ pairs'[n + 1] = pp /\ \A i \in 1..n : pairs'[i] = pairs[i]
    <3>1. pairs \in Seq(Texts \X Texts) /\ pairs' = Append(pairs, pp)
      BY <1>2, <2>5 DEF AgreementKept
    <3> QED
      BY <2>1, <2>6, <3>1
  <2>8. PICK ap \in Seq(Nat) : ap = Append(dp, d) /\ ap = agree.divergence_positions'
    BY <2>3, <2>4
  <2>9. agree' \in [n : Nat, exact_match : Nat, divergence_positions : Seq(Nat)] /\ agree.n' = n + 1
        /\ agree.exact_match' = e + (IF ta = tb THEN 1 ELSE 0)
    BY <2>3, <2>4
  <2>10. \A i \in DOMAIN pairs' : agree.divergence_positions'[i] = Divergence(pairs'[i][1], pairs'[i][2])
    <3>1. ASSUME NEW i \in 1..(n + 1) PROVE ap[i] = Divergence(pairs'[i][1], pairs'[i][2])
      <4>1. CASE i = n + 1
        BY <2>2, <2>4, <2>6, <2>7, <2>8, <4>1
      <4>2. CASE i # n + 1
        <5>1. i \in 1..n
          BY <4>2
        <5>2. dp[i] = Divergence(pairs[i][1], pairs[i][2])
          BY <2>1, <2>7, <5>1 DEF AgreementKept
        <5> QED
          BY <2>4, <2>7, <2>8, <5>1, <5>2
      <4> QED
        BY <4>1, <4>2
    <3> QED
      BY <2>7, <2>8, <3>1
  <2>11. IsFiniteSet(Differing') /\ Cardinality(Differing') = Cardinality(Differing) + (IF ta = tb THEN 0 ELSE 1)
    <3>1. IsFiniteSet(Differing) /\ Cardinality(Differing) \in Nat
      BY FS_CardinalityType DEF AgreementKept
    <3>2. n + 1 \notin Differing
      BY <2>7 DEF Differing
    <3>3. Differing' = IF ta = tb THEN Differing ELSE Differing \cup {n + 1}
      <4>1. Differing = {i \in 1..n : pairs[i][1] # pairs[i][2]}
        BY <2>7 DEF Differing
      <4>2. Differing' = {i \in 1..(n + 1) : pairs'[i][1] # pairs'[i][2]}
        BY <2>7 DEF Differing
      <4>3. 1..(n + 1) = (1..n) \cup {n + 1}
        OBVIOUS
      <4>4. \A i \in 1..n : i \in Differing' <=> i \in Differing
        BY <2>7, <4>1, <4>2, <4>3
      <4>5. n + 1 \in Differing' <=> ta # tb
        BY <2>6, <2>7, <4>2, <4>3
      <4>6. Differing' \subseteq (1..n) \cup {n + 1} /\ Differing \subseteq 1..n
        BY <4>1, <4>2, <4>3
      <4>7. PICK J, l, now, before : J = 1..n /\ l = n + 1 /\ now = Differing' /\ before = Differing
        OBVIOUS
      <4>8. /\ now \subseteq J \cup {l} /\ before \subseteq J /\ l \notin before
            /\ \A i \in J : i \in now <=> i \in before
            /\ l \in now <=> ta # tb
        BY <3>2, <4>4, <4>5, <4>6, <4>7
      <4>9. CASE ta = tb
        <5>1. now = before
          BY <4>8, <4>9
        <5> QED
          BY <4>7, <4>9, <5>1
      <4>10. CASE ta # tb
        <5>1. now = before \cup {l}
          BY <4>8, <4>10
        <5> QED
          BY <4>7, <4>10, <5>1
      <4> QED
        BY <4>9, <4>10
    <3>4. IsFiniteSet(Differing \cup {n + 1}) /\ Cardinality(Differing \cup {n + 1}) = Cardinality(Differing) + 1
      BY <3>1, <3>2, FS_AddElement
    <3>5. CASE ta = tb
      BY <3>1, <3>3, <3>5
    <3>6. CASE ta # tb
      BY <3>3, <3>4, <3>6
    <3> QED
      BY <3>5, <3>6
  <2>12. PICK x \in Nat : x = Cardinality(Differing) /\ e + x = n
    BY <2>1, FS_CardinalityType DEF AgreementKept
  <2>13. agree.exact_match' + Cardinality(Differing') = n + 1
    BY <2>9, <2>11, <2>12
  <2>14. Len(agree.divergence_positions') = n + 1
    BY <2>3, <2>4
  <2> QED
    BY <2>7, <2>9, <2>10, <2>11, <2>13, <2>14 DEF AgreementKept
<1> QED
  BY <1>1, <1>2 DEF QualityNext, Compare, CompareLogprobs, Solve, NextMeasurement

LEMMA TasksStep ==
  ASSUME TasksKept, QualityNext PROVE TasksKept'
<1>1. NumTasks \in Nat
  BY QualityAssumption
<1>2. CASE Compare \/ CompareLogprobs
  BY <1>2 DEF TasksKept, Compare, CompareLogprobs
<1>3. CASE Solve
  <2>1. PICK e \in Endpoint, outcome \in {"solved", "wrong", "failed"}, r \in [total : Nat, correct : Nat] :
          /\ e = measuring /\ r = tasks[e] /\ asked' = asked + 1
          /\ tasks' = [tasks EXCEPT ![e] =
                         IF outcome = "failed" THEN Failed(r)
                         ELSE [total |-> r.total + 1, correct |-> r.correct + (IF outcome = "solved" THEN 1 ELSE 0)]]
          /\ right' = [right EXCEPT ![e] = @ + (IF outcome = "solved" THEN 1 ELSE 0)]
    BY <1>3 DEF Solve, TasksKept
  <2>2. PICK c \in {0, 1} : c = (IF outcome = "solved" THEN 1 ELSE 0)
    OBVIOUS
  <2>3. PICK r2 : r2 = [total |-> r.total + 1, correct |-> r.correct + c]
    OBVIOUS
  <2>4. tasks' = [tasks EXCEPT ![e] = r2]
    <3>1. CASE outcome = "failed"
      <4>1. Failed(r) = [total |-> r.total + 1, correct |-> r.correct]
        BY DEF Failed
      <4>2. Failed(r) = r2
        BY <2>2, <2>3, <3>1, <4>1
      <4> QED
        BY <2>1, <3>1, <4>2
    <3>2. CASE outcome # "failed"
      BY <2>1, <2>2, <2>3, <3>2
    <3> QED
      BY <3>1, <3>2
  <2>5. r2 \in [total : Nat, correct : Nat] /\ r2.total = r.total + 1 /\ r2.correct = r.correct + c
    BY <2>3
  <2>6. right' = [right EXCEPT ![e] = right[e] + c]
    BY <2>1, <2>2
  <2>7. r.correct = right[e] /\ right[e] \in Nat
    BY <2>1 DEF TasksKept
  <2>8. /\ tasks' \in [Endpoint -> [total : Nat, correct : Nat]] /\ right' \in [Endpoint -> Nat]
        /\ tasks'[e] = r2 /\ right'[e] = right[e] + c
        /\ \A f \in Endpoint : f # e => tasks'[f] = tasks[f] /\ right'[f] = right[f]
    BY <2>4, <2>5, <2>6, <2>7 DEF TasksKept
  <2>9. \A f \in Endpoint : tasks'[f].correct = right'[f]
    <3>1. \A f \in Endpoint : tasks[f].correct = right[f]
      BY DEF TasksKept
    <3> QED
      BY <2>5, <2>7, <2>8, <3>1
  <2>10. measuring' = measuring /\ measuring \in Measurements /\ asked \in Nat
    BY <1>3 DEF Solve, TasksKept
  <2>11. CASE e = "baseline"
    <3>1. tasks["baseline"].total = asked /\ tasks["candidate"].total = 0
      BY <2>1, <2>11 DEF TasksKept
    <3>2. tasks'["baseline"].total = asked + 1 /\ tasks'["candidate"].total = 0
      BY <2>1, <2>5, <2>8, <2>11, <3>1 DEF Endpoint
    <3>3. asked' \in Nat
      BY <2>1, <2>10
    <3> QED
      BY <2>1, <2>8, <2>9, <2>10, <2>11, <3>2, <3>3 DEF TasksKept
  <2>12. CASE e = "candidate"
    <3>1. tasks["baseline"].total = NumTasks /\ tasks["candidate"].total = asked
      BY <2>1, <2>12 DEF TasksKept
    <3>2. tasks'["baseline"].total = NumTasks /\ tasks'["candidate"].total = asked + 1
      BY <2>1, <2>5, <2>8, <2>12, <3>1 DEF Endpoint
    <3>3. asked' \in Nat
      BY <2>1, <2>10
    <3> QED
      BY <2>1, <2>8, <2>9, <2>10, <2>12, <3>2, <3>3 DEF TasksKept
  <2> QED
    BY <2>11, <2>12 DEF Endpoint
<1>4. CASE NextMeasurement
  <2>1. measuring \in Measurements /\ asked' = 0 /\ UNCHANGED <<tasks, right>>
    BY <1>4 DEF NextMeasurement, TasksKept
  <2>2. CASE measuring = "agreement"
    BY <1>4, <2>1, <2>2 DEF NextMeasurement, TasksKept, Measurements
  <2>3. CASE measuring = "kl"
    BY <1>4, <2>1, <2>3 DEF NextMeasurement, TasksKept, Measurements
  <2>4. CASE measuring = "baseline"
    BY <1>4, <2>1, <2>4 DEF NextMeasurement, AllAsked, TasksKept, Measurements, Endpoint
  <2>5. CASE measuring = "candidate"
    BY <1>4, <2>1, <2>5 DEF NextMeasurement, AllAsked, TasksKept, Measurements, Endpoint
  <2>6. CASE measuring = "over"
    BY <1>4, <2>6 DEF NextMeasurement, AllAsked, Endpoint
  <2> QED
    BY <2>1, <2>2, <2>3, <2>4, <2>5, <2>6 DEF Measurements
<1> QED
  BY <1>2, <1>3, <1>4 DEF QualityNext

\* A ratio over positive numbers, without the division.
LEMMA RatioBounds ==
  ASSUME NEW x \in Int, NEW n \in Nat \ {0}, NEW k \in Nat
  PROVE  /\ (x * n) * 100 >= (0 - k) * n * n => x * 100 >= (0 - k) * n
         /\ x >= 0 => (x * n) * 100 >= (0 - k) * n * n
<1>1. PICK y \in Int : y = x * 100 + k * n
  OBVIOUS
<1>2. y * n = (x * n) * 100 + k * n * n
  BY <1>1
<1>3. (0 - k) * n * n = 0 - k * n * n /\ (0 - k) * n = 0 - k * n
  OBVIOUS
<1>4. y < 0 => y * n < 0
  <2>1. SUFFICES ASSUME y < 0 PROVE y * n < 0
    OBVIOUS
  <2>2. (0 - y) - 1 \in Nat /\ ((0 - y) - 1) * n \in Nat
    BY <2>1
  <2>3. ((0 - y) - 1) * n = 0 - y * n - n
    OBVIOUS
  <2> QED
    BY <2>2, <2>3
<1>5. x >= 0 => (x * n) \in Nat
  OBVIOUS
<1>6. k * n * n \in Nat /\ k * n \in Nat /\ x * n \in Int /\ y * n \in Int
  OBVIOUS
<1> QED
  BY <1>1, <1>2, <1>3, <1>4, <1>5, <1>6

LEMMA EarnedVerdict ==
  ASSUME AgreementKept, TasksKept PROVE VerdictIsEarned
<1> SUFFICES ASSUME measuring = "over"
             PROVE  /\ verdict # "loss" =>
                         /\ pairs # <<>>
                         /\ \/ Cardinality(Differing) * 100 <= 5 * Len(pairs)
                            \/ Total([i \in DOMAIN pairs |-> Shared(pairs[i])]) * 100 >= 80 * Len(pairs) * MaxTokens
                         /\ (right["candidate"] - right["baseline"]) * 100 >= -5 * NumTasks
                    /\ Differing = {} /\ pairs # <<>> /\ right["candidate"] >= right["baseline"] =>
                         verdict = "near-lossless"
  BY DEF VerdictIsEarned
<1>1. PICK n \in Nat, e \in Nat, x \in Nat :
        /\ n = Len(pairs) /\ e = agree.exact_match /\ x = Cardinality(Differing) /\ n = e + x /\ agree.n = n
        /\ Differing = {} => x = 0
  <2>1. IsFiniteSet(Differing) /\ Cardinality(Differing) \in Nat /\ (Differing = {} => Cardinality(Differing) = 0)
    BY FS_CardinalityType, FS_EmptySet DEF AgreementKept
  <2> QED
    BY <2>1 DEF AgreementKept
<1>2. n > 0 <=> pairs # <<>>
  <2>1. pairs \in Seq(Texts \X Texts)
    BY DEF AgreementKept
  <2>2. pairs = <<>> <=> Len(pairs) = 0
    BY <2>1, EmptySeq
  <2> QED
    BY <1>1, <2>2
<1>3. PICK m \in Nat \ {0}, b \in Nat, c \in Nat :
        m = NumTasks /\ b = right["baseline"] /\ c = right["candidate"]
  BY QualityAssumption DEF TasksKept, Endpoint
<1>4. PICK d \in Int : d = c - b
  OBVIOUS
<1>5. /\ tasks["baseline"].total = m /\ tasks["candidate"].total = m
      /\ tasks["baseline"].correct = b /\ tasks["candidate"].correct = c
  BY <1>3 DEF TasksKept, Endpoint
<1>6. \A percent \in Int : DeltaAtLeast(percent) <=> (c * m - b * m) * 100 >= percent * m * m
  BY <1>3, <1>5 DEF DeltaAtLeast
<1>7. c * m - b * m = d * m
  BY <1>3, <1>4
<1>8. /\ DeltaAtLeast(-2) => d * 100 >= (0 - 2) * m
      /\ DeltaAtLeast(-5) => d * 100 >= (0 - 5) * m
      /\ d >= 0 => DeltaAtLeast(-2)
  <2>1. \A k \in Nat : /\ (d * m) * 100 >= (0 - k) * m * m => d * 100 >= (0 - k) * m
                       /\ d >= 0 => (d * m) * 100 >= (0 - k) * m * m
    BY RatioBounds
  <2>2. -2 \in Int /\ -5 \in Int /\ -2 = 0 - 2 /\ -5 = 0 - 5 /\ 2 \in Nat /\ 5 \in Nat
    OBVIOUS
  <2>3. DeltaAtLeast(-2) <=> (d * m) * 100 >= (0 - 2) * m * m
    BY <1>6, <1>7, <2>2
  <2>4. DeltaAtLeast(-5) <=> (d * m) * 100 >= (0 - 5) * m * m
    BY <1>6, <1>7, <2>2
  <2> QED
    BY <2>1, <2>2, <2>3, <2>4
<1>9. ExactRateAtLeast(95) <=> n > 0 /\ e * 100 >= 95 * n
  BY <1>1 DEF ExactRateAtLeast
<1>10. ExactRateAtLeast(95) => x * 100 <= 5 * n
  BY <1>1, <1>9
<1>11. Total([i \in DOMAIN pairs |-> Shared(pairs[i])]) = Total(agree.divergence_positions)
  <2>1. PICK dp \in Seq(Nat) : dp = agree.divergence_positions /\ Len(dp) = n
    BY <1>1 DEF AgreementKept
  <2>2. DOMAIN pairs = 1..n /\ DOMAIN dp = 1..n /\ \A i \in 1..n : pairs[i] \in Texts \X Texts
    <3>1. PICK A : A = Texts \X Texts /\ pairs \in Seq(A)
      BY DEF AgreementKept
    <3>2. DOMAIN pairs = 1..n /\ \A i \in 1..n : pairs[i] \in A
      BY <1>1, <3>1, LenProperties
    <3>3. DOMAIN dp = 1..n
      BY <2>1
    <3> QED
      BY <3>1, <3>2, <3>3
  <2>3. ASSUME NEW i \in 1..n PROVE Shared(pairs[i]) = dp[i]
    <3>1. PICK ta \in Texts, tb \in Texts : pairs[i] = <<ta, tb>> /\ ta = pairs[i][1] /\ tb = pairs[i][2]
      BY <2>2
    <3>2. ta \in Seq(STRING) /\ tb \in Seq(STRING)
      BY QualityAssumption
    <3>3. Shared(<<ta, tb>>) = Divergence(ta, tb)
      BY <3>2, DivergenceIsShared
    <3>4. dp[i] = Divergence(ta, tb)
      BY <2>1, <2>2, <3>1 DEF AgreementKept
    <3> QED
      BY <3>1, <3>3, <3>4
  <2>4. dp = [i \in 1..n |-> dp[i]]
    <3>1. dp = [i \in DOMAIN dp |-> dp[i]]
      OBVIOUS
    <3> QED
      BY <2>2, <3>1
  <2>5. [i \in DOMAIN pairs |-> Shared(pairs[i])] = dp
    BY <2>2, <2>3, <2>4
  <2> QED
    BY <2>1, <2>5
<1>12. PrefixAtLeast(80) =>
         n > 0 /\ Total([i \in DOMAIN pairs |-> Shared(pairs[i])]) * 100 >= 80 * n * MaxTokens
  BY <1>1, <1>11 DEF PrefixAtLeast
<1>13. verdict # "loss" =>
         \/ ExactRateAtLeast(95) /\ DeltaAtLeast(-2)
         \/ PrefixAtLeast(80) /\ DeltaAtLeast(-5)
  BY DEF verdict
<1>14. ExactRateAtLeast(95) /\ DeltaAtLeast(-2) => verdict = "near-lossless"
  BY DEF verdict
<1>15. (right["candidate"] - right["baseline"]) * 100 = d * 100 /\ -5 * NumTasks = (0 - 5) * m
  BY <1>3, <1>4
<1>16. (0 - 2) * m >= (0 - 5) * m
  OBVIOUS
<1>17. verdict # "loss" => (right["candidate"] - right["baseline"]) * 100 >= -5 * NumTasks
  <2>1. verdict # "loss" => d * 100 >= (0 - 2) * m \/ d * 100 >= (0 - 5) * m
    BY <1>8, <1>13
  <2> QED
    BY <1>4, <1>15, <1>16, <2>1
<1>18. verdict # "loss" => pairs # <<>>
  BY <1>2, <1>9, <1>12, <1>13
<1>19. verdict # "loss" =>
         \/ Cardinality(Differing) * 100 <= 5 * Len(pairs)
         \/ Total([i \in DOMAIN pairs |-> Shared(pairs[i])]) * 100 >= 80 * Len(pairs) * MaxTokens
  BY <1>1, <1>10, <1>12, <1>13
<1>20. Differing = {} /\ pairs # <<>> /\ right["candidate"] >= right["baseline"] => verdict = "near-lossless"
  <2> SUFFICES ASSUME Differing = {}, pairs # <<>>, right["candidate"] >= right["baseline"]
               PROVE  verdict = "near-lossless"
    OBVIOUS
  <2>1. ExactRateAtLeast(95)
    <3>1. n > 0 /\ x = 0
      BY <1>1, <1>2
    <3>2. n > 0 /\ e * 100 >= 95 * n
      BY <1>1, <3>1
    <3> QED
      BY <1>9, <3>2
  <2>2. d >= 0
    BY <1>3, <1>4
  <2> QED
    BY <1>8, <1>14, <2>1, <2>2
<1> QED
  BY <1>17, <1>18, <1>19, <1>20

\* Whatever requests failed, the verdict on a quantised model is earned.
THEOREM VerdictsAreEarned == QualitySpec => []VerdictIsEarned
<1>1. AgreementKept /\ TasksKept /\ [QualityNext]_qualityVars => AgreementKept' /\ TasksKept'
  <2> SUFFICES ASSUME AgreementKept, TasksKept, UNCHANGED qualityVars PROVE AgreementKept' /\ TasksKept'
    BY AgreementStep, TasksStep
  <2>1. AgreementKept'
    <3>1. UNCHANGED <<agree, pairs>>
      BY DEF qualityVars
    <3> QED
      BY <3>1, AgreementUndisturbed
  <2>2. TasksKept'
    BY DEF TasksKept, qualityVars
  <2> QED
    BY <2>1, <2>2
<1>2. QualitySpec => [](AgreementKept /\ TasksKept)
  BY <1>1, QualityStarts, PTL DEF QualitySpec
<1> QED
  BY <1>2, EarnedVerdict, PTL

-----------------------------------------------------------------------------
(***************************************************************************)
(* The summary of a load point: sums of sequences first.                   *)
(***************************************************************************)
Adds(p, q, r) ==
  Len(p) = Len(r) /\ Len(q) = Len(r) /\ \A i \in 1..Len(r) : r[i] = p[i] + q[i]

LEMMA TotalsAdd ==
  ASSUME NEW p \in Seq(Nat), NEW q \in Seq(Nat), NEW r \in Seq(Nat),
         Adds(p, q, r)
  PROVE  Total(r) = Total(p) + Total(q)
<1>1. PICK n \in Nat : n = Len(r) /\ Len(p) = n /\ Len(q) = n /\ \A i \in 1..n : r[i] = p[i] + q[i]
  BY LenProperties DEF Adds
<1>2. PICK a, b, c : TotalSteps(a, p) /\ TotalSteps(b, q) /\ TotalSteps(c, r)
  BY TotalByElement
<1>3. /\ a[0] = 0 /\ b[0] = 0 /\ c[0] = 0
      /\ \A i \in 0..n : a[i] \in Nat /\ b[i] \in Nat /\ c[i] \in Nat
      /\ \A i \in 1..n : a[i] = a[i - 1] + p[i] /\ b[i] = b[i - 1] + q[i] /\ c[i] = c[i - 1] + r[i]
      /\ Total(p) = a[n] /\ Total(q) = b[n] /\ Total(r) = c[n]
  BY <1>1, <1>2 DEF TotalSteps
<1>4. \A i \in 1..n : p[i] \in Nat /\ q[i] \in Nat /\ r[i] \in Nat
  BY <1>1
<1> DEFINE T == {i \in 0..n : c[i] = a[i] + b[i]}
<1>5. 0 \in T
  BY <1>1, <1>3
<1>6. ASSUME NEW i \in 1..n, i - 1 \in T PROVE i \in T
  <2>1. i - 1 \in 0..n /\ i \in 0..n
    BY <1>1
  <2>2. PICK x \in Nat, y \in Nat, z \in Nat : x = a[i - 1] /\ y = b[i - 1] /\ z = c[i - 1] /\ z = x + y
    BY <1>3, <1>6, <2>1
  <2>3. c[i] = a[i] + b[i]
    <3>1. p[i] \in Nat /\ q[i] \in Nat /\ r[i] = p[i] + q[i]
      BY <1>1, <1>4
    <3>2. PICK u \in Nat, v \in Nat : u = p[i] /\ v = q[i] /\ r[i] = u + v
      BY <3>1
    <3>3. a[i] = x + u /\ b[i] = y + v /\ c[i] = z + (u + v)
      BY <1>3, <2>2, <3>2
    <3>4. (x + u) + (y + v) = (x + y) + (u + v)
      OBVIOUS
    <3> QED
      BY <2>2, <3>3, <3>4
  <2> QED
    BY <2>1, <2>3
<1> HIDE DEF T
<1>7. 0..n \subseteq T
  BY <1>1, <1>5, <1>6, InductionUpTo
<1>8. n \in T
  BY <1>1, <1>7
<1> QED
  BY <1>3, <1>8 DEF T

-----------------------------------------------------------------------------
(***************************************************************************)
(* The records of a load point.                                            *)
(***************************************************************************)
StatTypeOK == records \in [1..Records -> Record] /\ warm \in 0..Records

LEMMA RecordFacts ==
  ASSUME NEW r \in Record
  PROVE  /\ r.send \in Nat /\ r.done \in Nat /\ r.ok \in BOOLEAN /\ r.send \in Times /\ r.done \in Times
         /\ Latency(r) \in Nat /\ r.done = r.send + Latency(r)
<1>1. r.send \in Times /\ r.done \in Times /\ r.ok \in BOOLEAN /\ r.send <= r.done
  BY DEF Record
<1>2. r.send \in Nat /\ r.done \in Nat
  BY <1>1, StatisticsAssumption
<1>3. PICK s \in Nat, d \in Nat : s = r.send /\ d = r.done /\ s <= d
  BY <1>1, <1>2
<1>4. Latency(r) = d - s
  BY <1>3 DEF Latency
<1> QED
  BY <1>1, <1>3, <1>4

LEMMA RetainedFacts ==
  ASSUME StatTypeOK
  PROVE  Retained \in Seq(Record)
<1>1. PICK n \in Nat : n = Records
  BY StatisticsAssumption
<1>2. records \in Seq(Record) /\ Len(records) = n
  BY <1>1 DEF StatTypeOK
<1> DEFINE R == {p \in Record \X Record : p[1].send < p[2].send}
<1>3. \A x, y \in Record : <<x, y>> \in R <=> x.send < y.send
  OBVIOUS
<1>4. \A x \in Record : x.send \in Nat
  BY RecordFacts
<1> HIDE DEF R
<1>5. KeyOrder(R, Record)
  BY <1>3, <1>4 DEF KeyOrder
<1>6. Sorted(records, R) \in Seq(Record) /\ Len(Sorted(records, R)) = n
  BY <1>2, <1>5, SortedKeeps
<1>7. Ordered = Sorted(records, R)
  BY DEF Ordered, R
<1>8. PICK o \in Seq(Record) : o = Ordered /\ Len(o) = n
  BY <1>6, <1>7
<1>9. PICK w \in Nat : w = warm
  BY <1>1 DEF StatTypeOK
<1>10. Retained = SubSeq(o, w + 1, n)
  BY <1>8, <1>9 DEF Retained
<1>11. SubSeq(o, w + 1, n) \in Seq(Record)
  BY <1>1, <1>8, <1>9
<1> QED
  BY <1>10, <1>11

LEMMA LatenciesFacts ==
  ASSUME NEW q \in Seq(Record)
  PROVE  /\ Latencies(q) \in Seq(Nat) /\ Len(Latencies(q)) = Len(q)
         /\ \A i \in 1..Len(q) : Latencies(q)[i] = Latency(q[i])
         /\ \A r \in Record : Latencies(Append(q, r)) = Append(Latencies(q), Latency(r))
<1>1. PICK n \in Nat : n = Len(q) /\ DOMAIN q = 1..n /\ \A i \in 1..n : q[i] \in Record
  OBVIOUS
<1>2. Latencies(q) = [i \in 1..n |-> Latency(q[i])]
  BY <1>1 DEF Latencies
<1>3. \A i \in 1..n : Latency(q[i]) \in Nat
  BY <1>1, RecordFacts
<1>4. Latencies(q) \in Seq(Nat) /\ Len(Latencies(q)) = n /\ \A i \in 1..n : Latencies(q)[i] = Latency(q[i])
  BY <1>2, <1>3
<1>5. ASSUME NEW r \in Record PROVE Latencies(Append(q, r)) = Append(Latencies(q), Latency(r))
  <2>1. PICK a \in Seq(Record) : /\ a = Append(q, r) /\ DOMAIN a = 1..(n + 1) /\ a[n + 1] = r
                                 /\ \A i \in 1..n : a[i] = q[i]
    <3>1. Append(q, r) \in Seq(Record) /\ Len(Append(q, r)) = n + 1 /\ Append(q, r)[n + 1] = r
      BY <1>1, AppendProperties
    <3>2. \A i \in 1..n : Append(q, r)[i] = q[i]
      BY <1>1, AppendProperties
    <3>3. DOMAIN Append(q, r) = 1..(n + 1)
      BY <3>1, LenProperties
    <3> QED
      BY <3>1, <3>2, <3>3
  <2>2. PICK l \in Seq(Nat) : l = Latencies(q) /\ Len(l) = n /\ \A i \in 1..n : l[i] = Latency(q[i])
    BY <1>4
  <2>3. PICK x \in Nat : x = Latency(r)
    BY RecordFacts
  <2>4. Latencies(a) = [i \in 1..(n + 1) |-> Latency(a[i])]
    BY <2>1 DEF Latencies
  <2>5. Append(l, x) = [i \in 1..(n + 1) |-> IF i = n + 1 THEN x ELSE l[i]]
    <3>1. PICK m \in Seq(Nat) : m = Append(l, x) /\ Len(m) = n + 1 /\ m[n + 1] = x /\ \A i \in 1..n : m[i] = l[i]
      <4>1. Append(l, x) \in Seq(Nat) /\ Len(Append(l, x)) = n + 1 /\ Append(l, x)[n + 1] = x
        BY <2>2, AppendProperties
      <4>2. \A i \in 1..n : Append(l, x)[i] = l[i]
        BY <2>2, AppendProperties
      <4> QED
        BY <4>1, <4>2
    <3>2. m = [i \in 1..(n + 1) |-> m[i]]
      BY <3>1, LenProperties
    <3>3. \A i \in 1..(n + 1) : m[i] = IF i = n + 1 THEN x ELSE l[i]
      BY <3>1
    <3> QED
      BY <3>1, <3>2, <3>3
  <2>6. \A i \in 1..(n + 1) : Latency(a[i]) = IF i = n + 1 THEN x ELSE l[i]
    BY <1>1, <2>1, <2>2, <2>3
  <2> QED
    BY <2>1, <2>2, <2>3, <2>4, <2>5, <2>6
<1> QED
  BY <1>1, <1>4, <1>5

\* The time of all the requests is that of the answered and of the failed ones.
LEMMA TimeOfAll ==
  ASSUME NEW q \in Seq(Record)
  PROVE  LET answered == Those(q, {r \in Record : r.ok})
             failed == Those(q, {r \in Record : ~r.ok})
         IN Total(Latencies(q)) = Total(Latencies(answered)) + Total(Latencies(failed))
<1> DEFINE S == {r \in Record : r.ok}
           F == {r \in Record : ~r.ok}
<1>1. \A r \in Record : r \in S <=> r \notin F
  OBVIOUS
<1> HIDE DEF S, F
<1>0. PICK l \in Seq(Nat) : l = Latencies(q) /\ Len(l) = Len(q)
  BY LatenciesFacts
<1>2. PICK a, b, c : ThoseSteps(a, Record, S, q) /\ ThoseSteps(b, Record, F, q) /\ TotalSteps(c, l)
  BY ThoseByElement, TotalByElement
<1>3. PICK n \in Nat : n = Len(q) /\ Len(l) = n
  BY <1>0, LenProperties
<1>4. /\ a[0] = <<>> /\ b[0] = <<>> /\ c[0] = 0
      /\ \A i \in 0..n : a[i] \in Seq(Record) /\ b[i] \in Seq(Record) /\ c[i] \in Nat
      /\ \A i \in 1..n : /\ q[i] \in S => a[i] = Append(a[i - 1], q[i])
                         /\ q[i] \notin S => a[i] = a[i - 1]
                         /\ q[i] \in F => b[i] = Append(b[i - 1], q[i])
                         /\ q[i] \notin F => b[i] = b[i - 1]
                         /\ c[i] = c[i - 1] + l[i] /\ l[i] = Latency(q[i])
      /\ Those(q, S) = a[n] /\ Those(q, F) = b[n] /\ Total(l) = c[n]
  <2>1. \A T : Record \cap T \subseteq Record
    OBVIOUS
  <2>2. \A i \in 0..n : a[i] \in Seq(Record \cap S) /\ b[i] \in Seq(Record \cap F) /\ c[i] \in Nat
    BY <1>2, <1>3 DEF ThoseSteps, TotalSteps
  <2>3. \A i \in 0..n : a[i] \in Seq(Record) /\ b[i] \in Seq(Record)
    BY <2>2
  <2>4. \A i \in 1..n : l[i] = Latency(q[i])
    BY <1>0, <1>3, LatenciesFacts
  <2> QED
    BY <1>2, <1>3, <2>2, <2>3, <2>4 DEF ThoseSteps, TotalSteps
<1> DEFINE T == {i \in 0..n : c[i] = Total(Latencies(a[i])) + Total(Latencies(b[i]))}
<1>5. \A s \in Seq(Record) : Total(Latencies(s)) \in Nat
  BY LatenciesFacts, TotalOfAppend
<1>6. \A s \in Seq(Record), r \in Record : Total(Latencies(Append(s, r))) = Total(Latencies(s)) + Latency(r)
  <2>1. ASSUME NEW s \in Seq(Record), NEW r \in Record
        PROVE  Total(Latencies(Append(s, r))) = Total(Latencies(s)) + Latency(r)
    <3>1. Latencies(s) \in Seq(Nat) /\ Latency(r) \in Nat
      BY LatenciesFacts, RecordFacts
    <3>2. Latencies(Append(s, r)) = Append(Latencies(s), Latency(r))
      BY LatenciesFacts
    <3> QED
      BY <3>1, <3>2, TotalOfAppend
  <2> QED
    BY <2>1
<1>7. 0 \in T
  <2>1. Latencies(<<>>) = <<>>
    BY DEF Latencies
  <2>2. Total(<<>>) = 0
    BY TotalOfAppend
  <2>3. Total(Latencies(a[0])) = 0 /\ Total(Latencies(b[0])) = 0 /\ c[0] = 0 /\ 0 \in 0..n
    BY <1>3, <1>4, <2>1, <2>2
  <2> QED
    BY <2>3
<1>8. ASSUME NEW i \in 1..n, i - 1 \in T PROVE i \in T
  <2>1. i - 1 \in 0..n /\ i \in 0..n /\ q[i] \in Record
    BY <1>3
  <2>2. PICK s \in Seq(Record), t \in Seq(Record) : s = a[i - 1] /\ t = b[i - 1]
    BY <1>4, <2>1
  <2>3. PICK r \in Record, x \in Nat : r = q[i] /\ x = Latency(r)
    BY <2>1, RecordFacts
  <2>4. PICK y \in Nat, z \in Nat : y = Total(Latencies(s)) /\ z = Total(Latencies(t)) /\ c[i - 1] = y + z
    BY <1>5, <1>8, <2>2
  <2>5. c[i] = (y + z) + x
    BY <1>4, <2>3, <2>4
  <2>6. CASE r \in S
    <3>1. a[i] = Append(s, r) /\ b[i] = t
      BY <1>1, <1>4, <2>2, <2>3, <2>6
    <3>2. Total(Latencies(a[i])) = y + x /\ Total(Latencies(b[i])) = z
      BY <1>6, <2>3, <2>4, <3>1
    <3> QED
      BY <2>1, <2>5, <3>2
  <2>7. CASE r \notin S
    <3>1. a[i] = s /\ b[i] = Append(t, r)
      BY <1>1, <1>4, <2>2, <2>3, <2>7
    <3>2. Total(Latencies(a[i])) = y /\ Total(Latencies(b[i])) = z + x
      BY <1>6, <2>3, <2>4, <3>1
    <3> QED
      BY <2>1, <2>5, <3>2
  <2> QED
    BY <2>6, <2>7
<1> HIDE DEF T
<1>9. 0..n \subseteq T
  BY <1>3, <1>7, <1>8, InductionUpTo
<1>10. n \in T
  BY <1>3, <1>9
<1> QED
  BY <1>0, <1>4, <1>10 DEF T, S, F

-----------------------------------------------------------------------------
(***************************************************************************)
(* The integral of the requests in flight, one event after the other.      *)
(***************************************************************************)
Sweeps == [area : Int, cur : Int, prev : Int]
SweepSteps(k, es) ==
  /\ k \in [0..Len(es) -> Sweeps]
  /\ k[0] = [area |-> 0, cur |-> 0, prev |-> WindowStart]
  /\ \A i \in 1..Len(es) : k[i] = Swept(k[i - 1], es[i])
  /\ Area = k[Len(es)].area

LEMMA EventFacts ==
  ASSUME NEW e \in Event
  PROVE  e.t \in Nat /\ (e.delta = 1 \/ e.delta = -1)
  BY StatisticsAssumption DEF Event

LEMMA SweptFacts ==
  ASSUME NEW a \in Sweeps, NEW e \in Event
  PROVE  /\ Swept(a, e) \in Sweeps
         /\ Swept(a, e).area = a.area + a.cur * (e.t - a.prev)
         /\ Swept(a, e).cur = a.cur + e.delta /\ Swept(a, e).prev = e.t
<1>1. PICK x \in Int, c \in Int, p \in Int : x = a.area /\ c = a.cur /\ p = a.prev
  BY DEF Sweeps
<1>2. PICK t \in Int, d \in Int : t = e.t /\ d = e.delta
  BY EventFacts
<1>3. PICK y \in Int : y = x + c * (t - p)
  OBVIOUS
<1>4. Swept(a, e) = [area |-> y, cur |-> c + d, prev |-> t]
  BY <1>1, <1>2, <1>3 DEF Swept
<1>5. [area |-> y, cur |-> c + d, prev |-> t] \in Sweeps
  BY DEF Sweeps
<1> QED
  BY <1>1, <1>2, <1>3, <1>4, <1>5

LEMMA AreaByEvent ==
  ASSUME NEW es \in Seq(Event), es = Events, WindowStart \in Int
  PROVE  \E k : SweepSteps(k, es)
<1> DEFINE n == Len(es)
           v == [area |-> 0, cur |-> 0, prev |-> WindowStart]
           G == [p \in (1..n) \X Sweeps |-> Swept(p[2], es[p[1]])]
           Eq(k) == k = [i \in 0..n |-> IF i = 0 THEN v ELSE Swept(k[i - 1], es[i])]
<1>1. n \in Nat /\ \A i \in 1..n : es[i] \in Event
  OBVIOUS
<1>2. v \in Sweeps
  BY DEF Sweeps
<1> HIDE DEF n, v
<1>3. G \in [(1..n) \X Sweeps -> Sweeps]
  <2>1. ASSUME NEW p \in (1..n) \X Sweeps PROVE Swept(p[2], es[p[1]]) \in Sweeps
    <3>1. p[1] \in 1..n /\ p[2] \in Sweeps
      OBVIOUS
    <3> QED
      BY <1>1, <3>1, SweptFacts
  <2> QED
    BY <2>1
<1> HIDE DEF G
<1>4. PICK f : f \in [0..n -> Sweeps] /\ f[0] = v /\ \A i \in 1..n : f[i] = G[<<i, f[i - 1]>>]
  <2>1. PICK f : Iterates(f, n, Sweeps, v, G)
    BY <1>1, <1>2, <1>3, IterationExists
  <2> QED
    BY <2>1 DEF Iterates
<1>5. ASSUME NEW i \in 1..n PROVE f[i] = Swept(f[i - 1], es[i])
  <2>1. i - 1 \in 0..n /\ f[i - 1] \in Sweeps
    BY <1>1, <1>4
  <2>2. <<i, f[i - 1]>> \in (1..n) \X Sweeps
    BY <2>1
  <2> QED
    BY <1>4, <2>2 DEF G
<1>6. Eq(f)
  <2>1. f = [i \in 0..n |-> f[i]]
    BY <1>4
  <2>2. ASSUME NEW i \in 0..n PROVE f[i] = IF i = 0 THEN v ELSE Swept(f[i - 1], es[i])
    <3>1. CASE i = 0
      BY <1>4, <3>1
    <3>2. CASE i # 0
      <4>1. i \in 1..n
        BY <1>1, <3>2
      <4> QED
        BY <1>5, <3>2, <4>1
    <3> QED
      BY <3>1, <3>2
  <2> QED
    BY <2>1, <2>2
<1> DEFINE k == CHOOSE g : Eq(g)
<1>7. Eq(k)
  BY <1>6
<1>8. Area = k[n].area
  BY DEF Area, n, v
<1> HIDE DEF k
<1>9. k[0] = v /\ DOMAIN k = 0..n
  BY <1>1, <1>7
<1>10. ASSUME NEW i \in 1..n PROVE k[i] = Swept(k[i - 1], es[i])
  <2>1. i \in 0..n /\ i # 0
    BY <1>1
  <2> QED
    BY <1>7, <2>1
<1>11. \A i \in 0..n : k[i] \in Sweeps
  <2> DEFINE T == {i \in 0..n : k[i] \in Sweeps}
  <2>1. 0 \in T
    BY <1>1, <1>2, <1>9
  <2>2. ASSUME NEW i \in 1..n, i - 1 \in T PROVE i \in T
    <3>1. i \in 0..n /\ es[i] \in Event /\ k[i - 1] \in Sweeps
      BY <1>1, <2>2
    <3>2. k[i] \in Sweeps
      BY <1>10, <3>1, SweptFacts
    <3> QED
      BY <3>1, <3>2
  <2> HIDE DEF T
  <2>3. 0..n \subseteq T
    BY <1>1, <2>1, <2>2, InductionUpTo
  <2> QED
    BY <2>3 DEF T
<1>12. k \in [0..n -> Sweeps]
  <2>1. k = [i \in 0..n |-> k[i]]
    BY <1>7
  <2> QED
    BY <1>11, <2>1
<1> QED
  BY <1>8, <1>9, <1>10, <1>12 DEF n, v, SweepSteps

\* How many starts and ends there are among events, and the sums of their times.
Ups == [e \in Event |-> IF e.delta = 1 THEN 1 ELSE 0]
Downs == [e \in Event |-> IF e.delta = 1 THEN 0 ELSE 1]
UpTimes == [e \in Event |-> IF e.delta = 1 THEN e.t ELSE 0]
DownTimes == [e \in Event |-> IF e.delta = 1 THEN 0 ELSE e.t]
Applied(g, q) == [i \in 1..Len(q) |-> g[q[i]]]

LEMMA EventSums ==
  /\ Ups \in [Event -> Nat] /\ Downs \in [Event -> Nat]
  /\ UpTimes \in [Event -> Nat] /\ DownTimes \in [Event -> Nat]
  /\ \A e \in Event : e.delta = 1 => Ups[e] = 1 /\ Downs[e] = 0 /\ UpTimes[e] = e.t /\ DownTimes[e] = 0
  /\ \A e \in Event : e.delta # 1 => Ups[e] = 0 /\ Downs[e] = 1 /\ UpTimes[e] = 0 /\ DownTimes[e] = e.t
<1>1. \A e \in Event : e.t \in Nat
  BY EventFacts
<1> QED
  BY <1>1 DEF Ups, Downs, UpTimes, DownTimes

LEMMA AppliedFacts ==
  ASSUME NEW A, NEW g \in [A -> Nat], NEW q \in Seq(A)
  PROVE  /\ Applied(g, q) \in Seq(Nat) /\ Len(Applied(g, q)) = Len(q)
         /\ \A i \in 1..Len(q) : Applied(g, q)[i] = g[q[i]] /\ g[q[i]] \in Nat
<1>1. \A i \in 1..Len(q) : g[q[i]] \in Nat
  OBVIOUS
<1>2. Len(q) \in Nat
  OBVIOUS
<1> QED
  BY <1>1, <1>2 DEF Applied

AppliedTo(a, g, q) ==
  /\ a \in Seq(Nat) /\ a = Applied(g, q) /\ Len(a) = Len(q)
  /\ \A i \in 1..Len(q) : a[i] = g[q[i]]

LEMMA AppliedExists ==
  ASSUME NEW A, NEW g \in [A -> Nat], NEW q \in Seq(A)
  PROVE  \E a : AppliedTo(a, g, q)
  BY AppliedFacts DEF AppliedTo

\* The order makes no difference to a sum.
LEMMA TotalOfSorted ==
  ASSUME NEW A, NEW q \in Seq(A), NEW R, KeyOrder(R, A), NEW g \in [A -> Nat]
  PROVE  Total(Applied(g, Sorted(q, R))) = Total(Applied(g, q))
<1>1. PICK before : AppliedTo(before, g, q)
  BY AppliedExists
<1>2. PICK after : AppliedTo(after, g, Sorted(q, R))
  <2>1. Sorted(q, R) \in Seq(A)
    BY SortedKeeps
  <2> QED
    BY <2>1, AppliedExists
<1>3. /\ before \in Seq(Nat) /\ Len(before) = Len(q) /\ \A i \in 1..Len(q) : before[i] = g[q[i]]
      /\ after \in Seq(Nat) /\ Len(after) = Len(q) /\ \A i \in 1..Len(q) : after[i] = g[Sorted(q, R)[i]]
      /\ before = Applied(g, q) /\ after = Applied(g, Sorted(q, R))
  <2>1. Len(Sorted(q, R)) = Len(q)
    BY SortedKeeps
  <2> QED
    BY <1>1, <1>2, <2>1 DEF AppliedTo
<1>4. PICK n, D : n \in Nat /\ n = Len(q) /\ D = 1..n
  OBVIOUS
<1>5. PICK f : SortedFrom(f, q, R)
  BY SortedPlaces
<1>6. /\ \A k \in D : f[k] \in D
      /\ \A k, m \in D : f[k] = f[m] => k = m
      /\ \A i \in D : \E k \in D : f[k] = i
      /\ \A k \in D : Sorted(q, R)[k] = q[f[k]]
  BY <1>4, <1>5 DEF SortedFrom
<1>7. /\ Summable(before, D) /\ Total(before) = SumFunctionOnSet(before, D)
      /\ Total(after) = SumFunctionOnSet(after, D)
  <2>1. 1..Len(before) = D /\ 1..Len(after) = D
    BY <1>3, <1>4
  <2> QED
    BY <1>3, <2>1, TotalIsSum
<1>8. \A k \in D : f[k] \in D /\ after[k] = before[f[k]]
  <2>1. ASSUME NEW k \in D PROVE f[k] \in D /\ after[k] = before[f[k]]
    <3>1. f[k] \in D /\ Sorted(q, R)[k] = q[f[k]]
      BY <1>6
    <3>2. after[k] = g[Sorted(q, R)[k]] /\ before[f[k]] = g[q[f[k]]]
      BY <1>3, <1>4, <3>1
    <3> QED
      BY <3>1, <3>2
  <2> QED
    BY <2>1
<1>9. IsFiniteSet(D)
  <2>1. 1 \in Int /\ n \in Int
    BY <1>4
  <2> QED
    BY <1>4, <2>1, FS_Interval
<1>10. SumFunctionOnSet(after, D) = SumFunctionOnSet(before, D)
  <2>1. IsFiniteSet(D) /\ Summable(before, D)
    BY <1>7, <1>9
  <2>2. Renaming(f, D, D)
    BY <1>6 DEF Renaming
  <2>3. Renamed(after, f, before, D)
    BY <1>8 DEF Renamed
  <2> QED
    BY <2>1, <2>2, <2>3, SumRenamed
<1> QED
  BY <1>3, <1>7, <1>10

AppliedSteps(k, g, q) ==
  /\ k[0] = 0 /\ \A i \in 0..Len(q) : k[i] \in Nat
  /\ \A i \in 1..Len(q) : k[i] = k[i - 1] + g[q[i]]
  /\ Total(Applied(g, q)) = k[Len(q)]

LEMMA AppliedByElement ==
  ASSUME NEW A, NEW g \in [A -> Nat], NEW q \in Seq(A)
  PROVE  \E k : AppliedSteps(k, g, q)
<1>1. PICK s \in Seq(Nat) : s = Applied(g, q) /\ Len(s) = Len(q) /\ \A i \in 1..Len(q) : s[i] = g[q[i]]
  BY AppliedFacts
<1>2. PICK k : TotalSteps(k, s)
  BY TotalByElement
<1> QED
  BY <1>1, <1>2 DEF TotalSteps, AppliedSteps

\* After any number of events: how many are in flight, and the integral.
LEMMA SweptSoFar ==
  ASSUME NEW es \in Seq(Event), NEW k, SweepSteps(k, es)
  PROVE  \E c, t \in Int :
           /\ c = Total(Applied(Ups, es)) - Total(Applied(Downs, es))
           /\ Area = c * t - Total(Applied(UpTimes, es)) + Total(Applied(DownTimes, es))
<1>1. PICK n \in Nat : n = Len(es)
  OBVIOUS
<1>2. /\ \A i \in 0..n : k[i] \in Sweeps
      /\ k[0] = [area |-> 0, cur |-> 0, prev |-> WindowStart]
      /\ \A i \in 1..n : k[i] = Swept(k[i - 1], es[i])
      /\ Area = k[n].area
  BY <1>1 DEF SweepSteps
<1>3. PICK u, d, ut, dt : /\ AppliedSteps(u, Ups, es) /\ AppliedSteps(d, Downs, es)
                          /\ AppliedSteps(ut, UpTimes, es) /\ AppliedSteps(dt, DownTimes, es)
  <2>1. \A g \in [Event -> Nat] : \E x : AppliedSteps(x, g, es)
    BY AppliedByElement
  <2> QED
    BY <2>1, EventSums
<1>5. /\ u[0] = 0 /\ d[0] = 0 /\ ut[0] = 0 /\ dt[0] = 0
      /\ \A i \in 0..n : u[i] \in Nat /\ d[i] \in Nat /\ ut[i] \in Nat /\ dt[i] \in Nat
      /\ Total(Applied(Ups, es)) = u[n] /\ Total(Applied(Downs, es)) = d[n]
      /\ Total(Applied(UpTimes, es)) = ut[n] /\ Total(Applied(DownTimes, es)) = dt[n]
  BY <1>1, <1>3 DEF AppliedSteps
<1>6. \A i \in 1..n : /\ u[i] = u[i - 1] + Ups[es[i]] /\ d[i] = d[i - 1] + Downs[es[i]]
                      /\ ut[i] = ut[i - 1] + UpTimes[es[i]] /\ dt[i] = dt[i - 1] + DownTimes[es[i]]
  BY <1>1, <1>3 DEF AppliedSteps
<1> DEFINE T == {i \in 0..n : /\ k[i].cur = u[i] - d[i]
                              /\ k[i].area = k[i].cur * k[i].prev - ut[i] + dt[i]}
<1>7. 0 \in T
  <2>1. PICK p \in Int : p = k[0].prev
    BY <1>1, <1>2 DEF Sweeps
  <2>2. k[0].area = 0 /\ k[0].cur = 0 /\ 0 \in 0..n
    BY <1>1, <1>2
  <2>3. 0 = 0 * p - 0 + 0 /\ 0 = 0 - 0
    OBVIOUS
  <2> QED
    BY <1>5, <2>1, <2>2, <2>3
<1>8. ASSUME NEW i \in 1..n, i - 1 \in T PROVE i \in T
  <2>1. i - 1 \in 0..n /\ i \in 0..n /\ es[i] \in Event
    BY <1>1
  <2>2. PICK a \in Sweeps, e \in Event : a = k[i - 1] /\ e = es[i]
    BY <1>2, <2>1
  <2>3. PICK x \in Int, c \in Int, p \in Int : x = a.area /\ c = a.cur /\ p = a.prev
    BY DEF Sweeps
  <2>4. PICK t \in Nat : t = e.t
    BY EventFacts
  <2>5. /\ k[i].area = x + c * (t - p) /\ k[i].prev = t /\ k[i].cur = c + e.delta
    <3>1. k[i] = Swept(a, e)
      BY <1>2, <2>2
    <3> QED
      BY <2>3, <2>4, <3>1, SweptFacts
  <2>6. PICK m \in Nat, w \in Nat, y \in Nat, z \in Nat :
           m = u[i - 1] /\ w = d[i - 1] /\ y = ut[i - 1] /\ z = dt[i - 1]
    BY <1>5, <2>1
  <2>7. c = m - w /\ x = c * p - y + z
    BY <1>8, <2>2, <2>3, <2>6
  <2>8. x + c * (t - p) = c * t - y + z
    <3>1. c * (t - p) = c * t - c * p /\ c * t \in Int /\ c * p \in Int
      OBVIOUS
    <3> QED
      BY <2>7, <3>1
  <2>9. CASE e.delta = 1
    <3>1. u[i] = m + 1 /\ d[i] = w /\ ut[i] = y + t /\ dt[i] = z
      <4>1. Ups[e] = 1 /\ Downs[e] = 0 /\ UpTimes[e] = t /\ DownTimes[e] = 0
        BY <2>4, <2>9, EventSums
      <4>2. u[i] = m + Ups[e] /\ d[i] = w + Downs[e] /\ ut[i] = y + UpTimes[e] /\ dt[i] = z + DownTimes[e]
        BY <1>6, <2>2, <2>6
      <4> QED
        BY <4>1, <4>2
    <3>2. (c + 1) * t = c * t + t /\ c * t \in Int
      OBVIOUS
    <3>3. k[i].cur = u[i] - d[i] /\ k[i].area = (c + 1) * t - ut[i] + dt[i]
      BY <2>5, <2>7, <2>8, <2>9, <3>1, <3>2
    <3> QED
      BY <2>1, <2>5, <2>9, <3>3
  <2>10. CASE e.delta = -1
    <3>1. u[i] = m /\ d[i] = w + 1 /\ ut[i] = y /\ dt[i] = z + t
      <4>1. e.delta # 1
        BY <2>10
      <4>2. Ups[e] = 0 /\ Downs[e] = 1 /\ UpTimes[e] = 0 /\ DownTimes[e] = t
        BY <2>4, <4>1, EventSums
      <4>3. u[i] = m + Ups[e] /\ d[i] = w + Downs[e] /\ ut[i] = y + UpTimes[e] /\ dt[i] = z + DownTimes[e]
        BY <1>6, <2>2, <2>6
      <4> QED
        BY <4>2, <4>3
    <3>2. (c - 1) * t = c * t - t /\ c * t \in Int /\ c + e.delta = c - 1
      BY <2>10
    <3>3. k[i].cur = u[i] - d[i] /\ k[i].area = (c - 1) * t - ut[i] + dt[i] /\ k[i].cur = c - 1
      BY <2>5, <2>7, <2>8, <3>1, <3>2
    <3> QED
      BY <2>1, <2>5, <3>3
  <2> QED
    BY <2>9, <2>10, EventFacts
<1> HIDE DEF T
<1>9. 0..n \subseteq T
  BY <1>1, <1>7, <1>8, InductionUpTo
<1>10. n \in T
  BY <1>1, <1>9
<1>11. k[n].cur \in Int /\ k[n].prev \in Int
  BY <1>1, <1>2 DEF Sweeps
<1> QED
  BY <1>2, <1>5, <1>10, <1>11 DEF T

\* Every request starts once and ends once.
LEMMA StartsAndEndsFacts ==
  ASSUME StatTypeOK, NEW rs \in Seq(Record), rs = Retained, NEW m \in Nat, m = Len(rs)
  PROVE  /\ StartsAndEnds \in Seq(Event) /\ Len(StartsAndEnds) = 2 * m
         /\ \A j \in 1..m : /\ StartsAndEnds[2 * j - 1] = [t |-> rs[j].send, delta |-> 1]
                            /\ StartsAndEnds[2 * j] = [t |-> rs[j].done, delta |-> -1]
<1>1. \A j \in 1..m : rs[j] \in Record
  OBVIOUS
<1>2. StartsAndEnds = [i \in 1..2 * m |-> StartOrEnd(rs[(i + 1) \div 2], i)]
  BY DEF StartsAndEnds
<1>3. \A i \in 1..2 * m : (i + 1) \div 2 \in 1..m
  OBVIOUS
<1>4. \A r \in Record, i \in Nat : StartOrEnd(r, i) \in Event
  BY RecordFacts DEF StartOrEnd, Event
<1>5. \A i \in 1..2 * m : StartOrEnd(rs[(i + 1) \div 2], i) \in Event
  <2>1. ASSUME NEW i \in 1..2 * m PROVE StartOrEnd(rs[(i + 1) \div 2], i) \in Event
    <3>1. PICK r \in Record : r = rs[(i + 1) \div 2]
      BY <1>1, <1>3
    <3>2. i \in Nat
      OBVIOUS
    <3> QED
      BY <1>4, <3>1, <3>2
  <2> QED
    BY <2>1
<1>6. PICK n \in Nat : n = 2 * m
  OBVIOUS
<1>7. StartsAndEnds \in Seq(Event) /\ Len(StartsAndEnds) = n
  BY <1>2, <1>5, <1>6
<1>8. ASSUME NEW j \in 1..m
      PROVE  /\ StartsAndEnds[2 * j - 1] = [t |-> rs[j].send, delta |-> 1]
             /\ StartsAndEnds[2 * j] = [t |-> rs[j].done, delta |-> -1]
  <2>1. PICK a, b : a = 2 * j - 1 /\ b = 2 * j
    OBVIOUS
  <2>2. /\ a \in 1..2 * m /\ b \in 1..2 * m /\ a % 2 = 1 /\ b % 2 # 1
        /\ (a + 1) \div 2 = j /\ (b + 1) \div 2 = j
    BY <2>1
  <2>3. StartsAndEnds[a] = StartOrEnd(rs[j], a) /\ StartsAndEnds[b] = StartOrEnd(rs[j], b)
    BY <1>2, <2>2
  <2>4. /\ StartOrEnd(rs[j], a) = [t |-> rs[j].send, delta |-> 1]
        /\ StartOrEnd(rs[j], b) = [t |-> rs[j].done, delta |-> -1]
    BY <2>2 DEF StartOrEnd
  <2> QED
    BY <2>1, <2>3, <2>4
<1> QED
  BY <1>6, <1>7, <1>8

Sends == [r \in Record |-> r.send]
Dones == [r \in Record |-> r.done]

LEMMA EventTotals ==
  ASSUME StatTypeOK, NEW rs \in Seq(Record), rs = Retained, NEW m \in Nat, m = Len(rs),
         NEW q \in Seq(Event), q = StartsAndEnds
  PROVE  /\ Total(Applied(Ups, q)) = m /\ Total(Applied(Downs, q)) = m
         /\ Total(Applied(UpTimes, q)) = Total(Applied(Sends, rs))
         /\ Total(Applied(DownTimes, q)) = Total(Applied(Dones, rs))
<1>1. Sends \in [Record -> Nat] /\ Dones \in [Record -> Nat]
  BY RecordFacts DEF Sends, Dones
<1>2. PICK u, d, ut, dt, s, e :
        /\ AppliedSteps(u, Ups, q) /\ AppliedSteps(d, Downs, q)
        /\ AppliedSteps(ut, UpTimes, q) /\ AppliedSteps(dt, DownTimes, q)
        /\ AppliedSteps(s, Sends, rs) /\ AppliedSteps(e, Dones, rs)
  <2>1. \A g \in [Event -> Nat] : \E x : AppliedSteps(x, g, q)
    BY AppliedByElement
  <2>2. \A g \in [Record -> Nat] : \E x : AppliedSteps(x, g, rs)
    BY AppliedByElement
  <2> QED
    BY <1>1, <2>1, <2>2, EventSums
<1>3. PICK n \in Nat : n = 2 * m /\ n = Len(q)
  BY StartsAndEndsFacts
<1>4. /\ u[0] = 0 /\ d[0] = 0 /\ ut[0] = 0 /\ dt[0] = 0 /\ s[0] = 0 /\ e[0] = 0
      /\ \A i \in 0..n : u[i] \in Nat /\ d[i] \in Nat /\ ut[i] \in Nat /\ dt[i] \in Nat
      /\ \A j \in 0..m : s[j] \in Nat /\ e[j] \in Nat
      /\ Total(Applied(Ups, q)) = u[n] /\ Total(Applied(Downs, q)) = d[n]
      /\ Total(Applied(UpTimes, q)) = ut[n] /\ Total(Applied(DownTimes, q)) = dt[n]
      /\ Total(Applied(Sends, rs)) = s[m] /\ Total(Applied(Dones, rs)) = e[m]
  BY <1>2, <1>3 DEF AppliedSteps
<1>5. \A i \in 1..n : /\ u[i] = u[i - 1] + Ups[q[i]] /\ d[i] = d[i - 1] + Downs[q[i]]
                      /\ ut[i] = ut[i - 1] + UpTimes[q[i]] /\ dt[i] = dt[i - 1] + DownTimes[q[i]]
  BY <1>2, <1>3 DEF AppliedSteps
<1>6. \A j \in 1..m : s[j] = s[j - 1] + rs[j].send /\ e[j] = e[j - 1] + rs[j].done
  <2>1. \A j \in 1..m : s[j] = s[j - 1] + Sends[rs[j]] /\ e[j] = e[j - 1] + Dones[rs[j]]
    BY <1>2 DEF AppliedSteps
  <2>2. \A j \in 1..m : rs[j] \in Record
    OBVIOUS
  <2> QED
    BY <2>1, <2>2 DEF Sends, Dones
<1> DEFINE T == {j \in 0..m : u[2 * j] = j /\ d[2 * j] = j /\ ut[2 * j] = s[j] /\ dt[2 * j] = e[j]}
<1>7. 0 \in T
  <2>1. 2 * 0 = 0 /\ 0 \in 0..m
    OBVIOUS
  <2> QED
    BY <1>4, <2>1
<1>8. ASSUME NEW j \in 1..m, j - 1 \in T PROVE j \in T
  <2>1. PICK a, b : a = 2 * j - 1 /\ b = 2 * j
    OBVIOUS
  <2>2. /\ a \in 1..n /\ b \in 1..n /\ b - 1 = a /\ a - 1 = 2 * (j - 1) /\ a - 1 \in 0..n
        /\ j \in 0..m /\ j - 1 \in 0..m /\ j - 1 \in Nat
    BY <1>3, <2>1
  <2>3. PICK x \in Nat, y \in Nat : x = rs[j].send /\ y = rs[j].done
    BY RecordFacts
  <2>4. PICK f \in Event, g \in Event : /\ f = q[a] /\ g = q[b] /\ f = [t |-> x, delta |-> 1]
                                        /\ g = [t |-> y, delta |-> -1]
    <3>1. q[a] \in Event /\ q[b] \in Event
      BY <1>3, <2>2
    <3>2. q[a] = [t |-> x, delta |-> 1] /\ q[b] = [t |-> y, delta |-> -1]
      BY <2>1, <2>3, StartsAndEndsFacts
    <3> QED
      BY <3>1, <3>2
  <2>5. f.t = x /\ f.delta = 1 /\ g.t = y /\ g.delta # 1
    BY <2>4
  <2>6. /\ Ups[f] = 1 /\ Downs[f] = 0 /\ UpTimes[f] = x /\ DownTimes[f] = 0
        /\ Ups[g] = 0 /\ Downs[g] = 1 /\ UpTimes[g] = 0 /\ DownTimes[g] = y
    BY <2>5, EventSums
  <2>7. PICK p \in Nat, r \in Nat : p = s[j - 1] /\ r = e[j - 1]
    BY <1>4, <2>2
  <2>8. u[a - 1] = j - 1 /\ d[a - 1] = j - 1 /\ ut[a - 1] = p /\ dt[a - 1] = r
    BY <1>8, <2>2, <2>7
  <2>9. u[a] = (j - 1) + Ups[f] /\ d[a] = (j - 1) + Downs[f] /\ ut[a] = p + UpTimes[f] /\ dt[a] = r + DownTimes[f]
    BY <1>5, <2>2, <2>4, <2>8
  <2>10. u[b] = u[a] + Ups[g] /\ d[b] = d[a] + Downs[g] /\ ut[b] = ut[a] + UpTimes[g] /\ dt[b] = dt[a] + DownTimes[g]
    BY <1>5, <2>2, <2>4
  <2>11. s[j] = p + x /\ e[j] = r + y
    BY <1>6, <2>3, <2>7
  <2>12. u[b] = j /\ d[b] = j /\ ut[b] = p + x /\ dt[b] = r + y
    BY <2>2, <2>6, <2>9, <2>10
  <2> QED
    BY <2>1, <2>2, <2>11, <2>12
<1> HIDE DEF T
<1>9. 0..m \subseteq T
  BY <1>7, <1>8, InductionUpTo
<1>10. m \in T
  BY <1>9
<1> QED
  BY <1>3, <1>4, <1>10 DEF T

LEMMA EventsAreOrdered == KeyOrder(EarlierEvent, Event)
<1>1. \A x, y \in Event : <<x, y>> \in EarlierEvent <=> x.t < y.t \/ (x.t = y.t /\ x.delta < y.delta)
  BY DEF EarlierEvent
<1>2. \A x \in Event : x.t \in Int /\ x.delta \in Int
  BY EventFacts
<1> QED
  BY <1>1, <1>2 DEF KeyOrder

\* The two sides of Little's law differ by the time of the failed requests.
LEMMA IntegralIsTime ==
  ASSUME StatTypeOK PROVE LittlesLawSeesFailures
<1> SUFFICES ASSUME Retained # <<>>
             PROVE  Area - Predicted = Total(Latencies(Those(Retained, {r \in Record : ~r.ok})))
  BY DEF LittlesLawSeesFailures
<1>1. PICK rs \in Seq(Record), m \in Nat : rs = Retained /\ m = Len(rs) /\ m > 0
  BY RetainedFacts, EmptySeq
<1>2. PICK q \in Seq(Event) : q = StartsAndEnds /\ Len(q) = 2 * m
  BY <1>1, StartsAndEndsFacts
<1>3. /\ Total(Applied(Ups, q)) = m /\ Total(Applied(Downs, q)) = m
      /\ Total(Applied(UpTimes, q)) = Total(Applied(Sends, rs))
      /\ Total(Applied(DownTimes, q)) = Total(Applied(Dones, rs))
  BY <1>1, <1>2, EventTotals
<1>4. PICK es \in Seq(Event) : es = Events /\ es = Sorted(q, EarlierEvent) /\ Len(es) = Len(q)
  BY <1>2, EventsAreOrdered, SortedKeeps DEF Events
<1>5. \A g \in [Event -> Nat] : Total(Applied(g, es)) = Total(Applied(g, q))
  <2>1. ASSUME NEW g \in [Event -> Nat] PROVE Total(Applied(g, es)) = Total(Applied(g, q))
    BY <1>4, EventsAreOrdered, TotalOfSorted
  <2> QED
    BY <2>1
<1>6. WindowStart \in Int
  <2>1. PICK D : D = DOMAIN rs /\ D # {} /\ \A i \in D : rs[i] \in Record
    <3>1. 1 \in DOMAIN rs /\ \A i \in DOMAIN rs : rs[i] \in Record
      BY <1>1
    <3> QED
      BY <3>1
  <2>2. Sent = {rs[i].send : i \in D}
    BY <1>1, <2>1 DEF Sent
  <2>3. \A i \in D : rs[i].send \in Nat
    BY <2>1, RecordFacts
  <2>4. Sent \subseteq Nat /\ Sent # {}
    BY <2>1, <2>2, <2>3
  <2>5. PICK x \in Nat : x = Min(Sent)
    BY <2>4, LeastIsMin
  <2> QED
    BY <2>5 DEF WindowStart
<1>7. PICK k : SweepSteps(k, es)
  BY <1>4, <1>6, AreaByEvent
<1>8. PICK c \in Int, t \in Int :
        /\ c = Total(Applied(Ups, es)) - Total(Applied(Downs, es))
        /\ Area = c * t - Total(Applied(UpTimes, es)) + Total(Applied(DownTimes, es))
  BY <1>7, SweptSoFar
<1>9. PICK s \in Seq(Nat), d \in Seq(Nat), l \in Seq(Nat) :
        /\ s = Applied(Sends, rs) /\ d = Applied(Dones, rs) /\ l = Latencies(rs)
        /\ Len(s) = m /\ Len(d) = m /\ Len(l) = m
        /\ \A i \in 1..m : d[i] = s[i] + l[i]
  <2>1. Sends \in [Record -> Nat] /\ Dones \in [Record -> Nat]
    BY RecordFacts DEF Sends, Dones
  <2>2. PICK s \in Seq(Nat) : s = Applied(Sends, rs) /\ Len(s) = m /\ \A i \in 1..m : s[i] = Sends[rs[i]]
    <3>1. PICK s : AppliedTo(s, Sends, rs)
      BY <2>1, AppliedExists
    <3> QED
      BY <1>1, <3>1 DEF AppliedTo
  <2>3. PICK d \in Seq(Nat) : d = Applied(Dones, rs) /\ Len(d) = m /\ \A i \in 1..m : d[i] = Dones[rs[i]]
    <3>1. PICK d : AppliedTo(d, Dones, rs)
      BY <2>1, AppliedExists
    <3> QED
      BY <1>1, <3>1 DEF AppliedTo
  <2>4. PICK l \in Seq(Nat) : l = Latencies(rs) /\ Len(l) = m /\ \A i \in 1..m : l[i] = Latency(rs[i])
    BY <1>1, LatenciesFacts
  <2>5. \A i \in 1..m : rs[i] \in Record
    BY <1>1
  <2>6. \A i \in 1..m : Sends[rs[i]] = rs[i].send /\ Dones[rs[i]] = rs[i].done
    BY <2>5 DEF Sends, Dones
  <2>7. \A i \in 1..m : rs[i].done = rs[i].send + Latency(rs[i])
    BY <2>5, RecordFacts
  <2>8. ASSUME NEW i \in 1..m PROVE d[i] = s[i] + l[i]
    <3>1. d[i] = rs[i].done
      BY <2>3, <2>6
    <3>2. s[i] = rs[i].send
      BY <2>2, <2>6
    <3>3. l[i] = Latency(rs[i])
      BY <2>4
    <3> QED
      BY <2>7, <3>1, <3>2, <3>3
  <2> QED
    BY <2>2, <2>3, <2>4, <2>8
<1>10. Total(d) = Total(s) + Total(l) /\ Total(d) \in Nat /\ Total(s) \in Nat /\ Total(l) \in Nat
  <2>1. Adds(s, l, d)
    BY <1>9 DEF Adds
  <2> QED
    BY <2>1, TotalsAdd, TotalOfAppend
<1>11. c = 0 /\ Area = c * t - Total(s) + Total(d)
  <2>1. /\ Total(Applied(Ups, es)) = m /\ Total(Applied(Downs, es)) = m
        /\ Total(Applied(UpTimes, es)) = Total(s) /\ Total(Applied(DownTimes, es)) = Total(d)
    BY <1>3, <1>5, <1>9, EventSums
  <2> QED
    BY <1>1, <1>8, <2>1
<1>12. Area = Total(l)
  BY <1>10, <1>11
<1>13. Total(l) = Total(Latencies(Those(rs, {r \in Record : r.ok}))) + Total(Latencies(Those(rs, {r \in Record : ~r.ok})))
  BY <1>1, <1>9, TimeOfAll
<1>14. Predicted = Total(Latencies(Those(rs, {r \in Record : r.ok})))
  BY <1>1 DEF Predicted, Ok
<1>15. PICK a, b : /\ a = Total(Latencies(Those(rs, {r \in Record : r.ok})))
                   /\ b = Total(Latencies(Those(rs, {r \in Record : ~r.ok})))
  OBVIOUS
<1>16. a \in Nat /\ b \in Nat
  <2>1. /\ Those(rs, {r \in Record : r.ok}) \in Seq(Record)
        /\ Those(rs, {r \in Record : ~r.ok}) \in Seq(Record)
    BY <1>1, ThoseKept
  <2>2. \A s1 \in Seq(Record) : Total(Latencies(s1)) \in Nat
    BY LatenciesFacts, TotalOfAppend
  <2> QED
    BY <1>15, <2>1, <2>2
<1>17. Area = a + b /\ Predicted = a
  BY <1>12, <1>13, <1>14, <1>15, Zenon
<1>18. (a + b) - a = b
  BY <1>16
<1> QED
  BY <1>1, <1>15, <1>17, <1>18, Zenon

-----------------------------------------------------------------------------
(***************************************************************************)
(* The percentiles: of the sorted numbers, as many do not exceed the one   *)
(* at a place as the place says, or more, and fewer a smaller one.         *)
(***************************************************************************)
\* The first n places, differently arranged, in the order of their numbers.
Apart(f, n) == f \in [1..n -> 1..n] /\ \A k, m \in 1..n : f[k] = f[m] => k = m
Arranged(f, xs, n) ==
  /\ Apart(f, n)
  /\ \A i \in 1..n : \E k \in 1..n : f[k] = i
  /\ \A k \in 1..n : SortedUp(xs)[k] = xs[f[k]]
  /\ \A k, m \in 1..n : k <= m => xs[f[k]] <= xs[f[m]]
Firsts(f, j) == {f[l] : l \in 1..j}

\* As many places as a set of them that f tells apart.
LEMMA ImageCounts ==
  ASSUME NEW n \in Nat, NEW j \in 0..n, NEW f, Apart(f, n)
  PROVE  IsFiniteSet(Firsts(f, j)) /\ Cardinality(Firsts(f, j)) = j
<1>1. PICK D : D = 1..j /\ IsFiniteSet(D) /\ Cardinality(D) = j
  <2>1. 1 \in Int /\ j \in Int
    OBVIOUS
  <2>2. IsFiniteSet(1..j) /\ Cardinality(1..j) = IF 1 > j THEN 0 ELSE j - 1 + 1
    BY <2>1, FS_Interval
  <2> QED
    BY <2>2
<1>2. \A l \in D : l \in 1..n
  BY <1>1
<1>3. PICK I : I = Firsts(f, j) /\ I = {f[l] : l \in D}
  BY <1>1 DEF Firsts
<1>4. PICK g : g = [l \in D |-> f[l]]
  OBVIOUS
<1>5. g \in [D -> I] /\ \A l \in D : g[l] = f[l]
  BY <1>3, <1>4
<1>6. \A y \in I : \E l \in D : g[l] = y
  BY <1>3, <1>5
<1>7. \A k, m \in D : g[k] = g[m] => k = m
  BY <1>2, <1>5 DEF Apart
<1>8. g \in Surjection(D, I) /\ g \in Injection(D, I)
  BY <1>5, <1>6, <1>7 DEF Surjection, Injection, IsInjective
<1>9. IsFiniteSet(I) /\ Cardinality(I) = Cardinality(D)
  BY <1>1, <1>8, FS_Surjection
<1> QED
  BY <1>1, <1>3, <1>9

LEMMA NumbersInOrder ==
  ASSUME NEW xs \in Seq(Nat), NEW n \in Nat, n = Len(xs)
  PROVE  \E f : Arranged(f, xs, n)
<1> DEFINE R == {p \in Nat \X Nat : p[1] < p[2]}
<1>1. \A x, y \in Nat : <<x, y>> \in R <=> x < y
  OBVIOUS
<1>6. SortedUp(xs) = Sorted(xs, R)
  BY DEF SortedUp
<1> HIDE DEF R
<1>2. KeyOrder(R, Nat)
  BY <1>1 DEF KeyOrder
<1>3. PICK f : SortedFrom(f, xs, R)
  BY <1>2, SortedPlaces
<1>4. /\ f \in [1..n -> 1..n]
      /\ \A k, m \in 1..n : f[k] = f[m] => k = m
      /\ \A i \in 1..n : \E k \in 1..n : f[k] = i
      /\ \A k \in 1..n : Sorted(xs, R)[k] = xs[f[k]]
      /\ \A k, m \in 1..n : k < m => Precedes(xs, R, f[k], f[m])
  BY <1>3 DEF SortedFrom
<1>5. ASSUME NEW k \in 1..n, NEW m \in 1..n, k <= m PROVE xs[f[k]] <= xs[f[m]]
  <2>1. f[k] \in 1..n /\ f[m] \in 1..n
    BY <1>4
  <2>2. PICK x \in Nat, y \in Nat : x = xs[f[k]] /\ y = xs[f[m]]
    BY <2>1
  <2>3. CASE k = m
    BY <2>2, <2>3
  <2>4. CASE k # m
    <3>1. Precedes(xs, R, f[k], f[m])
      <4>1. k < m
        BY <1>5, <2>4
      <4> QED
        BY <1>4, <4>1
    <3>2. <<x, y>> \in R \/ <<y, x>> \notin R
      BY <2>2, <3>1 DEF Precedes
    <3>3. x <= y
      <4>1. (<<x, y>> \in R <=> x < y) /\ (<<y, x>> \in R <=> y < x)
        BY <1>1
      <4>2. x < y \/ ~(y < x)
        BY <3>2, <4>1
      <4> QED
        BY <4>2
    <3> QED
      BY <2>2, <3>3
  <2> QED
    BY <2>3, <2>4
<1>7. Apart(f, n)
  BY <1>4 DEF Apart
<1>8. \A k \in 1..n : SortedUp(xs)[k] = xs[f[k]]
  BY <1>4, <1>6
<1>9. Arranged(f, xs, n)
  BY <1>4, <1>5, <1>7, <1>8 DEF Arranged
<1> QED
  BY <1>9

LEMMA RankIsExact ==
  ASSUME NEW p \in 1..100, NEW n \in Nat \ {0}
  PROVE  /\ Rank(p, n) \in 1..n /\ Max({1, Rank(p, n)}) = Rank(p, n)
         /\ \A k \in Nat : Rank(p, n) <= k <=> k * 100 >= p * n
<1>1. PICK a \in Nat : a = p * n /\ a > 0 /\ a <= n * 100
  <2>1. p * n = (p - 1) * n + n /\ (p - 1) * n \in Nat /\ n * 100 = p * n + (100 - p) * n /\ (100 - p) * n \in Nat
    OBVIOUS
  <2>2. p * n > 0 /\ p * n <= n * 100 /\ p * n \in Nat
    BY <2>1
  <2> QED
    BY <2>2
<1>2. PICK r \in Nat : r = CeilDiv(a, 100)
  <2>1. 100 \in Nat \ {0}
    OBVIOUS
  <2>2. CeilDiv(a, 100) \in Nat
    BY <2>1, RoundedUp
  <2> QED
    BY <2>2
<1>7. \A k \in Nat : r <= k <=> a <= k * 100
  <2>1. 100 \in Nat \ {0}
    OBVIOUS
  <2>2. \A k \in Nat : CeilDiv(a, 100) <= k <=> a <= k * 100
    BY <2>1, RoundedUp
  <2> QED
    BY <1>2, <2>2
<1>3. Rank(p, n) = r
  BY <1>1, <1>2 DEF Rank, CeilDiv
<1>4. r <= n
  BY <1>1, <1>7
<1>5. ~(r <= 0)
  BY <1>1, <1>7
<1>6. Max({1, r}) = r
  BY <1>5, MaxOfTwo
<1> QED
  BY <1>1, <1>3, <1>4, <1>5, <1>6, <1>7

\* The places whose number is no more than x, and those where that is enough.
NoMore(xs, x) == {i \in DOMAIN xs : xs[i] <= x}
Enough(xs, p) == {i \in DOMAIN xs : AtMost(xs, xs[i]) * 100 >= p * Len(xs)}

LEMMA NoMoreCounts ==
  ASSUME NEW xs \in Seq(Nat), NEW x
  PROVE  /\ IsFiniteSet(NoMore(xs, x)) /\ Cardinality(NoMore(xs, x)) \in Nat
         /\ AtMost(xs, x) = Cardinality(NoMore(xs, x))
<1>1. PICK n \in Nat : n = Len(xs) /\ DOMAIN xs = 1..n
  OBVIOUS
<1>2. IsFiniteSet(1..n)
  <2>1. 1 \in Int /\ n \in Int
    OBVIOUS
  <2> QED
    BY <2>1, FS_Interval
<1>3. NoMore(xs, x) \in SUBSET (1..n)
  BY <1>1 DEF NoMore
<1>4. AtMost(xs, x) = Cardinality(NoMore(xs, x))
  BY DEF AtMost, NoMore
<1>5. IsFiniteSet(NoMore(xs, x))
  BY <1>2, <1>3, FS_Subset
<1> QED
  BY <1>4, <1>5, FS_CardinalityType

LEMMA NearestRank ==
  ASSUME NEW xs \in Seq(Nat), Len(xs) > 0, NEW p \in 1..100
  PROVE  Percentile(xs, p) = Min({xs[i] : i \in Enough(xs, p)})
<1>1. PICK n \in Nat \ {0} : n = Len(xs) /\ DOMAIN xs = 1..n /\ \A i \in 1..n : xs[i] \in Nat
  OBVIOUS
<1>2. PICK f : Arranged(f, xs, n)
  BY <1>1, NumbersInOrder
<1>3. /\ f \in [1..n -> 1..n] /\ Apart(f, n)
      /\ \A i \in 1..n : \E k \in 1..n : f[k] = i
      /\ \A k \in 1..n : SortedUp(xs)[k] = xs[f[k]]
      /\ \A k, m \in 1..n : k <= m => xs[f[k]] <= xs[f[m]]
  BY <1>2 DEF Arranged, Apart
<1>4. PICK r \in 1..n : /\ r = Rank(p, n) /\ r = Max({1, Rank(p, n)})
                        /\ \A k \in Nat : r <= k <=> k * 100 >= p * n
  <2>1. Rank(p, n) \in 1..n /\ Max({1, Rank(p, n)}) = Rank(p, n)
    BY RankIsExact
  <2>2. \A k \in Nat : Rank(p, n) <= k <=> k * 100 >= p * n
    BY RankIsExact
  <2> QED
    BY <2>1, <2>2
<1>5. f[r] \in 1..n
  BY <1>3
<1>6. PICK v \in Nat : v = xs[f[r]]
  BY <1>1, <1>5
<1>7. Percentile(xs, p) = v
  <2>1. Percentile(xs, p) = SortedUp(xs)[r]
    BY <1>1, <1>4 DEF Percentile
  <2>2. SortedUp(xs)[r] = xs[f[r]]
    BY <1>3
  <2> QED
    BY <2>1, <2>2, <1>6
<1>8. \A i \in 1..n : i \in Enough(xs, p) <=> r <= Cardinality(NoMore(xs, xs[i]))
  <2>1. ASSUME NEW i \in 1..n PROVE i \in Enough(xs, p) <=> r <= Cardinality(NoMore(xs, xs[i]))
    <3>1. PICK k \in Nat : k = Cardinality(NoMore(xs, xs[i])) /\ AtMost(xs, xs[i]) = k
      BY NoMoreCounts
    <3>2. i \in Enough(xs, p) <=> k * 100 >= p * n
      BY <1>1, <3>1 DEF Enough
    <3> QED
      BY <1>4, <3>1, <3>2
  <2> QED
    BY <2>1
<1>9. Enough(xs, p) \subseteq 1..n
  BY <1>1 DEF Enough
<1>10. f[r] \in Enough(xs, p)
  <2>1. r \in 0..n
    BY <1>4
  <2>2. Cardinality(Firsts(f, r)) = r
    BY <1>3, <2>1, ImageCounts
  <2>3. Firsts(f, r) \subseteq NoMore(xs, v)
    <3>1. ASSUME NEW l \in 1..r PROVE f[l] \in NoMore(xs, v)
      <4>1. l \in 1..n /\ l <= r
        BY <1>4
      <4>2. f[l] \in 1..n
        BY <1>3, <4>1
      <4>3. xs[f[l]] <= v
        BY <1>3, <1>6, <4>1
      <4> QED
        BY <1>1, <4>2, <4>3 DEF NoMore
    <3> QED
      BY <3>1 DEF Firsts
  <2>4. Firsts(f, r) \in SUBSET NoMore(xs, v)
    BY <2>3
  <2>5. IsFiniteSet(NoMore(xs, v)) /\ Cardinality(NoMore(xs, v)) \in Nat
    BY NoMoreCounts
  <2>6. Cardinality(Firsts(f, r)) <= Cardinality(NoMore(xs, v))
    BY <2>4, <2>5, FS_Subset
  <2>7. r <= Cardinality(NoMore(xs, xs[f[r]]))
    BY <1>6, <2>2, <2>6
  <2> QED
    BY <1>5, <1>8, <2>7
<1>11. ASSUME NEW i \in Enough(xs, p) PROVE v <= xs[i] /\ xs[i] \in Nat
  <2>1. PICK x \in Nat : x = xs[i] /\ i \in 1..n
    BY <1>1, <1>9
  <2>2. SUFFICES ASSUME ~(v <= x) PROVE FALSE
    BY <2>1
  <2>3. PICK j \in 0..n : j = r - 1
    BY <1>4
  <2>4. Cardinality(Firsts(f, j)) = j /\ IsFiniteSet(Firsts(f, j))
    BY <1>3, ImageCounts
  <2>5. NoMore(xs, x) \subseteq Firsts(f, j)
    <3>1. ASSUME NEW y \in NoMore(xs, x) PROVE y \in Firsts(f, j)
      <4>1. y \in 1..n /\ xs[y] <= x /\ xs[y] \in Nat
        BY <1>1 DEF NoMore
      <4>2. PICK k \in 1..n : f[k] = y
        BY <1>3, <4>1
      <4>3. ~(r <= k)
        <5>1. SUFFICES ASSUME r <= k PROVE FALSE
          OBVIOUS
        <5>2. xs[f[r]] <= xs[f[k]]
          BY <1>3, <5>1
        <5> QED
          BY <1>6, <2>2, <4>1, <4>2, <5>2
      <4>4. k \in 1..j
        BY <1>4, <2>3, <4>3
      <4> QED
        BY <4>2, <4>4 DEF Firsts
    <3> QED
      BY <3>1
  <2>6. r <= Cardinality(NoMore(xs, x))
    BY <1>8, <2>1
  <2>7. NoMore(xs, x) \in SUBSET Firsts(f, j)
    BY <2>5
  <2>8. Cardinality(NoMore(xs, x)) <= Cardinality(Firsts(f, j))
    BY <2>4, <2>7, FS_Subset
  <2>9. Cardinality(NoMore(xs, x)) \in Nat
    BY NoMoreCounts
  <2> QED
    BY <1>4, <2>3, <2>4, <2>6, <2>8, <2>9
<1>12. PICK S : S = {xs[i] : i \in Enough(xs, p)}
  OBVIOUS
<1>13. v \in S /\ S \subseteq Nat /\ \A x \in S : v <= x
  BY <1>6, <1>10, <1>11, <1>12
<1>14. \E m \in S : \A z \in S : m <= z
  BY <1>13
<1>15. Min(S) \in S /\ \A x \in S : Min(S) <= x
  BY <1>14 DEF Min
<1>16. Min(S) = v
  <2>1. PICK m \in Nat : m = Min(S)
    BY <1>13, <1>15
  <2> QED
    BY <1>13, <1>15, <2>1
<1> QED
  BY <1>7, <1>12, <1>16

LEMMA PercentilesAreExact ==
  StatTypeOK => PercentileIsNearestRank
<1>1. SUFFICES ASSUME StatTypeOK, Ok # <<>>, NEW p \in Percentiles
      PROVE  Percentile(Latencies(Ok), p)
               = Min({Latencies(Ok)[i] : i \in Enough(Latencies(Ok), p)})
  BY DEF PercentileIsNearestRank, Enough
<1>2. Ok \in Seq(Record)
  <2>1. Retained \in Seq(Record)
    BY <1>1, RetainedFacts
  <2> QED
    BY <2>1, ThoseKept DEF Ok
<1>3. Len(Ok) > 0
  <2>1. Len(Ok) \in Nat
    BY <1>2
  <2>2. Len(Ok) # 0
    BY <1>1, <1>2, EmptySeq
  <2> QED
    BY <2>1, <2>2
<1>4. Latencies(Ok) \in Seq(Nat) /\ Len(Latencies(Ok)) = Len(Ok)
  BY <1>2, LatenciesFacts
<1>5. p \in 1..100
  BY StatisticsAssumption
<1>6. PICK xs \in Seq(Nat) : xs = Latencies(Ok) /\ Len(xs) > 0
  BY <1>3, <1>4
<1>7. Percentile(xs, p) = Min({xs[i] : i \in Enough(xs, p)})
  BY <1>5, <1>6, NearestRank
<1> QED
  BY <1>6, <1>7

\* Whatever the records and the warm-up, every percentile that is asked for is
\* the nearest rank, and the integral of the requests in flight differs from
\* what Little's law predicts by the time of the failed ones alone.
THEOREM SummariesAreExact == StatSpec => []SummaryIsExact
<1>1. StatInit => StatTypeOK
  BY DEF StatInit, StatTypeOK
<1>2. StatTypeOK /\ [FALSE]_statVars => StatTypeOK'
  BY DEF StatTypeOK, statVars
<1>3. StatTypeOK => SummaryIsExact
  BY PercentilesAreExact, IntegralIsTime DEF SummaryIsExact
<1> QED
  BY <1>1, <1>2, <1>3, PTL DEF StatSpec
-----------------------------------------------------------------------------
(***************************************************************************)
(* The kernels: the powers of two they weigh with, what a program holds of *)
(* the columns it has read, and what it has written of them.               *)
(***************************************************************************)
\* The powers of two, step by step.
LEMMA PowerSteps ==
  ASSUME NEW n \in Nat
  PROVE  \E k : /\ k[0] = 1 /\ \A i \in 1..n : k[i] = 2 * k[i - 1]
                /\ \A i \in 0..n : k[i] \in Nat /\ Pow2(n) = k[n]
<1> DEFINE G == [p \in (1..n) \X Nat |-> 2 * p[2]]
           Eq(k) == k = [i \in 0..n |-> IF i = 0 THEN 1 ELSE 2 * k[i - 1]]
<1>1. G \in [(1..n) \X Nat -> Nat] /\ \A i \in 1..n, x \in Nat : G[<<i, x>>] = 2 * x
  OBVIOUS
<1> HIDE DEF G
<1>2. PICK f : f \in [0..n -> Nat] /\ f[0] = 1 /\ \A i \in 1..n : f[i] = G[<<i, f[i - 1]>>]
  <2>1. PICK f : Iterates(f, n, Nat, 1, G)
    BY <1>1, IterationExists
  <2> QED
    BY <2>1 DEF Iterates
<1>3. \A i \in 1..n : f[i] = 2 * f[i - 1]
  <2>1. \A i \in 1..n : i - 1 \in 0..n
    OBVIOUS
  <2> QED
    BY <1>1, <1>2, <2>1
<1>4. Eq(f)
  <2>1. f = [i \in 0..n |-> f[i]]
    BY <1>2
  <2>2. \A i \in 0..n : f[i] = IF i = 0 THEN 1 ELSE 2 * f[i - 1]
    BY <1>2, <1>3
  <2> QED
    BY <2>1, <2>2
<1> DEFINE k == CHOOSE g : Eq(g)
<1>5. Eq(k)
  BY <1>4
<1>6. Pow2(n) = k[n]
  BY DEF Pow2
<1> HIDE DEF k
<1>7. k[0] = 1
  BY <1>5
<1>8. ASSUME NEW i \in 1..n PROVE k[i] = 2 * k[i - 1]
  <2>1. i \in 0..n /\ i # 0
    OBVIOUS
  <2> QED
    BY <1>5, <2>1
<1>9. \A i \in 0..n : k[i] \in Nat
  <2> DEFINE T == {i \in 0..n : k[i] \in Nat}
  <2>1. 0 \in T
    BY <1>7
  <2>2. ASSUME NEW i \in 1..n, i - 1 \in T PROVE i \in T
    BY <1>8, <2>2
  <2> HIDE DEF T
  <2>3. 0..n \subseteq T
    BY <2>1, <2>2, InductionUpTo
  <2> QED
    BY <2>3 DEF T
<1> QED
  BY <1>6, <1>7, <1>8, <1>9

LEMMA PowerOfTwo ==
  /\ Pow2(0) = 1
  /\ \A n \in Nat : Pow2(n + 1) = 2 * Pow2(n) /\ Pow2(n) \in Nat
<1>1. Pow2(0) = 1
  <2>1. PICK k : k[0] = 1 /\ \A i \in 0..0 : k[i] \in Nat /\ Pow2(0) = k[0]
    BY PowerSteps
  <2> QED
    BY <2>1
<1>2. ASSUME NEW n \in Nat PROVE Pow2(n + 1) = 2 * Pow2(n) /\ Pow2(n) \in Nat
  <2>1. PICK k : /\ k[0] = 1 /\ \A i \in 1..n : k[i] = 2 * k[i - 1]
                 /\ \A i \in 0..n : k[i] \in Nat /\ Pow2(n) = k[n]
    BY PowerSteps
  <2>2. PICK m \in Nat : m = n + 1
    OBVIOUS
  <2>3. PICK h : /\ h[0] = 1 /\ \A i \in 1..m : h[i] = 2 * h[i - 1]
                 /\ \A i \in 0..m : h[i] \in Nat /\ Pow2(m) = h[m]
    BY PowerSteps
  <2> DEFINE T == {i \in 0..n : h[i] = k[i]}
  <2>4. 0 \in T
    BY <2>1, <2>3
  <2>5. ASSUME NEW i \in 1..n, i - 1 \in T PROVE i \in T
    <3>1. i \in 1..m /\ i \in 0..n
      BY <2>2
    <3>2. h[i] = 2 * h[i - 1] /\ k[i] = 2 * k[i - 1]
      BY <2>1, <2>3, <3>1
    <3>3. h[i - 1] = k[i - 1]
      BY <2>5
    <3> QED
      BY <3>1, <3>2, <3>3
  <2> HIDE DEF T
  <2>6. 0..n \subseteq T
    BY <2>4, <2>5, InductionUpTo
  <2>7. h[n] = k[n]
    BY <2>6 DEF T
  <2>8. m \in 1..m /\ m - 1 = n /\ n \in 0..n /\ m \in 0..m
    BY <2>2
  <2>9. h[m] = 2 * h[n]
    BY <2>3, <2>8
  <2>10. Pow2(m) = h[m] /\ Pow2(n) = k[n] /\ k[n] \in Nat
    BY <2>1, <2>3, <2>8
  <2> QED
    BY <2>2, <2>7, <2>9, <2>10
<1> QED
  BY <1>1, <1>2

\* They are positive, they outgrow their exponents, and they multiply.
LEMMA PowersMultiply ==
  /\ \A n \in Nat : Pow2(n) \in Nat \ {0} /\ Pow2(n) > n
  /\ \A n, m \in Nat : Pow2(n + m) = Pow2(n) * Pow2(m)
<1>1. \A n \in Nat : Pow2(n) \in Nat \ {0} /\ Pow2(n) > n
  <2> DEFINE T == {n \in Nat : Pow2(n) > n}
  <2>1. 0 \in T
    BY PowerOfTwo
  <2>2. ASSUME NEW n \in Nat, n \in T PROVE n + 1 \in T
    BY <2>2, PowerOfTwo
  <2> HIDE DEF T
  <2>3. Nat \subseteq T
    BY <2>1, <2>2, Induction
  <2> QED
    BY <2>3, PowerOfTwo DEF T
<1>2. ASSUME NEW n \in Nat PROVE \A m \in Nat : Pow2(n + m) = Pow2(n) * Pow2(m)
  <2> DEFINE T == {m \in Nat : Pow2(n + m) = Pow2(n) * Pow2(m)}
  <2>1. 0 \in T
    <3>1. n + 0 = n /\ Pow2(n) \in Nat
      BY PowerOfTwo
    <3>2. Pow2(n) * 1 = Pow2(n)
      BY <3>1
    <3> QED
      BY <3>1, <3>2, PowerOfTwo
  <2>2. ASSUME NEW m \in Nat, m \in T PROVE m + 1 \in T
    <3>1. PICK a \in Nat, b \in Nat : a = Pow2(n) /\ b = Pow2(m)
      BY PowerOfTwo
    <3>2. Pow2(n + m) = a * b
      BY <2>2, <3>1
    <3>3. n + m \in Nat /\ n + (m + 1) = (n + m) + 1
      OBVIOUS
    <3>4. Pow2(n + (m + 1)) = 2 * Pow2(n + m)
      BY <3>3, PowerOfTwo
    <3>5. Pow2(m + 1) = 2 * b
      BY <3>1, PowerOfTwo
    <3>6. 2 * (a * b) = a * (2 * b)
      OBVIOUS
    <3>7. Pow2(n + (m + 1)) = Pow2(n) * Pow2(m + 1)
      BY <3>1, <3>2, <3>4, <3>5, <3>6, Zenon
    <3> QED
      BY <3>7
  <2> HIDE DEF T
  <2>3. Nat \subseteq T
    BY <2>1, <2>2, Induction
  <2> QED
    BY <2>3 DEF T
<1> QED
  BY <1>1, <1>2

\* The greatest value of a function.
LEMMA GreatestValue ==
  ASSUME NEW D, IsFiniteSet(D), D # {}, NEW f, \A x \in D : f[x] \in Int
  PROVE  \E x \in D : \A y \in D : f[y] <= f[x]
<1> DEFINE P == {T \in SUBSET D : T = {} \/ \E x \in T : \A y \in T : f[y] <= f[x]}
<1>1. {} \in P
  OBVIOUS
<1>2. ASSUME NEW T \in SUBSET D, NEW z \in D \ T, T \in P PROVE T \cup {z} \in P
  <2>1. CASE T = {}
    <3>1. \A y \in T \cup {z} : f[y] <= f[z]
      BY <2>1
    <3> QED
      BY <3>1
  <2>2. CASE T # {}
    <3>1. PICK x \in T : \A y \in T : f[y] <= f[x]
      BY <1>2, <2>2
    <3>2. f[x] \in Int /\ f[z] \in Int /\ \A y \in T : f[y] \in Int
      OBVIOUS
    <3>3. CASE f[z] <= f[x]
      <4>1. \A y \in T \cup {z} : f[y] <= f[x]
        BY <3>1, <3>3
      <4> QED
        BY <4>1
    <3>4. CASE ~(f[z] <= f[x])
      <4>1. \A y \in T \cup {z} : f[y] <= f[z]
        BY <3>1, <3>2, <3>4
      <4> QED
        BY <4>1
    <3> QED
      BY <3>3, <3>4
  <2> QED
    BY <2>1, <2>2
<1> HIDE DEF P
<1>3. D \in P
  BY <1>1, <1>2, OneMoreEach
<1> QED
  BY <1>3 DEF P

Exponential == kernel \in {"softmax", "online"}
Logit == Logits \cup {NegInf}
Read(r) == IF pass_no[r] = 1 THEN {c \in Cols : c < offset[r]} ELSE Cols
Written(r) == CASE pass_no[r] = 1 -> {} [] pass_no[r] = 2 -> {c \in Cols : c < offset[r]} [] pass_no[r] = 3 -> Cols
New(r, c) == Row(r)[c] + (IF kernel = "add_rmsnorm" THEN Residual ELSE 0)
Value(r, c) == IF Exponential THEN Exp(Row(r)[c], row_max[r]) ELSE New(r, c)
Term(r, c) == IF Exponential THEN Exp(Row(r)[c], row_max[r]) ELSE New(r, c) * New(r, c)

\* The program is somewhere in its row.
AtTile(r) ==
  /\ pass_no[r] \in 1..3 /\ offset[r] \in Nat /\ (offset[r] = 0 \/ offset[r] >= BlockSize)

\* The maximum is that of the columns it has read.
MaxKept(r) ==
  /\ row_max[r] \in Logit
  /\ \A c \in Read(r) : Row(r)[c] <= row_max[r]
  /\ row_max[r] = NegInf \/ \E c \in Read(r) : row_max[r] = Row(r)[c]
  /\ r \notin not_numbers /\ Read(r) # {} => row_max[r] # NegInf
  /\ r \in not_numbers => \A c \in Cols : c < BlockSize => Row(r)[c] = NegInf

\* The sum is that of the columns it has read, under that maximum.
SumKept(r) ==
  r \notin not_numbers => row_sum[r] = SumFunctionOnSet([c \in Cols |-> Term(r, c)], Read(r))

\* What it has written is what it will read, and what the sum is made of.
ResidKept(r) ==
  kernel = "add_rmsnorm" => \A c \in Read(r) : resid_out[Address(r, c)] = New(r, c)
OutKept(r) ==
  /\ pass_no[r] = 1 => \A c \in Cols : out[Address(r, c)] = Unset
  /\ \A c \in Written(r) : out[Address(r, c)] = [num |-> Value(r, c), den |-> row_sum[r]]

RowKept(r) ==
  /\ AtTile(r) /\ SumKept(r) /\ ResidKept(r) /\ OutKept(r)
  /\ IF Exponential THEN MaxKept(r) ELSE r \notin not_numbers

KernelsTypeOK ==
  /\ kernel \in {"softmax", "online", "rmsnorm", "add_rmsnorm"}
  /\ input \in [Cells -> IF Exponential THEN Logits ELSE Numbers]
  /\ pass_no = [r \in Rows |-> pass_no[r]] /\ offset = [r \in Rows |-> offset[r]]
  /\ row_max = [r \in Rows |-> row_max[r]] /\ row_sum = [r \in Rows |-> row_sum[r]]
  /\ resid_out = [a \in Cells |-> resid_out[a]] /\ out = [a \in Cells |-> out[a]]
KernelsInv == KernelsTypeOK /\ \A r \in Rows : RowKept(r)

\* The columns of the tile the program is at.
Tile(r) == {c \in Cols : c \in Lanes(r)}

LEMMA BlockIsPositive == BlockSize \in Nat \ {0}
<1>1. Block \in Nat \ {0} /\ NumCols \in Nat \ {0}
  BY KernelsAssumption
<1> DEFINE S == {n \in 0..NumCols : Pow2(n) >= NumCols}
<1>2. NumCols \in S
  BY <1>1, PowersMultiply
<1>3. S \subseteq Nat /\ S # {}
  BY <1>2
<1>4. Min(S) \in Nat
  <2> HIDE DEF S
  <2> QED
    BY <1>3, LeastIsMin
<1> QED
  BY <1>1, <1>4, PowersMultiply DEF BlockSize

LEMMA Addresses ==
  /\ \A r \in Rows, c \in Cols : Address(r, c) \in Cells /\ Address(r, c) - Address(r, 0) = c
  /\ \A r, s \in Rows, c, d \in Cols : Address(r, c) = Address(s, d) => r = s /\ c = d
<1>1. PICK n \in Nat \ {0} : n = NumCols
  BY KernelsAssumption
<1>2. Rows \subseteq Nat /\ Cols \subseteq 0..(n - 1)
  BY <1>1, KernelsAssumption DEF Rows, Cols
<1>3. ASSUME NEW r \in Rows, NEW c \in Cols
      PROVE  Address(r, c) \in Cells /\ Address(r, c) - Address(r, 0) = c
  <2>1. Address(r, c) \in Cells
    BY DEF Cells
  <2>2. r * n \in Int /\ c \in Int /\ Address(r, c) = r * n + c /\ Address(r, 0) = r * n + 0
    BY <1>1, <1>2 DEF Address
  <2> QED
    BY <2>1, <2>2
<1>4. ASSUME NEW r \in Nat, NEW s \in Nat, NEW c \in 0..(n - 1), NEW d \in 0..(n - 1), r < s
      PROVE  r * n + c # s * n + d
  <2>1. PICK k \in Nat : s = r + 1 + k
    <3>1. s - r - 1 \in Nat /\ s = r + 1 + (s - r - 1)
      BY <1>4
    <3> QED
      BY <3>1
  <2>2. s * n = r * n + n + k * n /\ r * n \in Nat /\ k * n \in Nat
    BY <2>1
  <2> QED
    BY <2>2
<1>5. ASSUME NEW r \in Rows, NEW s \in Rows, NEW c \in Cols, NEW d \in Cols, Address(r, c) = Address(s, d)
      PROVE  r = s /\ c = d
  <2>1. r \in Nat /\ s \in Nat /\ c \in 0..(n - 1) /\ d \in 0..(n - 1)
    BY <1>2
  <2>2. r * n + c = s * n + d
    BY <1>1, <1>5 DEF Address
  <2>3. ~(r < s) /\ ~(s < r)
    BY <1>4, <2>1, <2>2
  <2>4. r = s
    BY <2>1, <2>3
  <2>5. r * n \in Nat
    BY <2>1
  <2> QED
    BY <2>1, <2>2, <2>4, <2>5
<1> QED
  BY <1>3, <1>5

LEMMA TileFacts ==
  ASSUME NEW r \in Rows, offset[r] \in Nat
  PROVE  /\ IsFiniteSet(Lanes(r)) /\ Lanes(r) # {} /\ Lanes(r) \subseteq Nat
         /\ Tile(r) \subseteq Lanes(r) /\ Tile(r) \subseteq Cols
         /\ \A c \in Lanes(r) : Mask(c) <=> c \in Tile(r)
         /\ \A c \in Cols : Mask(c)
<1>1. PICK o \in Nat, b \in Nat \ {0}, n \in Nat \ {0} :
        o = offset[r] /\ b = BlockSize /\ n = NumCols /\ Lanes(r) = o..(o + b - 1) /\ Cols = 0..(n - 1)
  BY BlockIsPositive, KernelsAssumption DEF Lanes, Cols
<1>2. IsFiniteSet(o..(o + b - 1))
  <2>1. o \in Int /\ o + b - 1 \in Int
    OBVIOUS
  <2> QED
    BY <2>1, FS_Interval
<1>3. o \in o..(o + b - 1)
  OBVIOUS
<1> QED
  BY <1>1, <1>2, <1>3 DEF Tile, Mask

LEMMA StoredFacts ==
  ASSUME NEW r \in Rows, offset[r] \in Nat, NEW mem, NEW tile
  PROVE  /\ Stored(mem, r, tile) = [a \in Cells |-> Stored(mem, r, tile)[a]]
         /\ \A c \in Tile(r) : Stored(mem, r, tile)[Address(r, c)] = tile[c]
         /\ \A c \in Cols \ Tile(r) : Stored(mem, r, tile)[Address(r, c)] = mem[Address(r, c)]
         /\ \A s \in Rows \ {r}, c \in Cols : Stored(mem, r, tile)[Address(s, c)] = mem[Address(s, c)]
<1> DEFINE Mine(a) == \E c \in Lanes(r) : Mask(c) /\ a = Address(r, c)
<1>1. \A s \in Rows, c \in Cols :
        Stored(mem, r, tile)[Address(s, c)]
          = IF Mine(Address(s, c)) THEN tile[Address(s, c) - Address(r, 0)] ELSE mem[Address(s, c)]
  BY Addresses DEF Stored
<1>2. \A s \in Rows, c \in Cols : Mine(Address(s, c)) <=> s = r /\ c \in Tile(r)
  <2>1. ASSUME NEW s \in Rows, NEW c \in Cols, Mine(Address(s, c)) PROVE s = r /\ c \in Tile(r)
    <3>1. PICK d \in Lanes(r) : Mask(d) /\ Address(s, c) = Address(r, d)
      BY <2>1
    <3>2. d \in Tile(r) /\ d \in Cols
      BY <3>1, TileFacts
    <3> QED
      BY <3>1, <3>2, Addresses
  <2>2. ASSUME NEW c \in Tile(r) PROVE Mine(Address(r, c))
    BY TileFacts
  <2> QED
    BY <2>1, <2>2
<1> HIDE DEF Mine
<1>3. \A c \in Tile(r) : c \in Cols /\ Address(r, c) - Address(r, 0) = c
  BY Addresses, TileFacts
<1>4. Stored(mem, r, tile) = [a \in Cells |-> Stored(mem, r, tile)[a]]
  BY DEF Stored
<1> QED
  BY <1>1, <1>2, <1>3, <1>4

\* The masked lanes add nothing.
LEMMA SumOverTile ==
  ASSUME NEW r \in Rows, offset[r] \in Nat, NEW g, Summable(g, Lanes(r)),
         \A c \in Lanes(r) : c \notin Tile(r) => g[c] = 0
  PROVE  SumFunctionOnSet(g, Lanes(r)) = SumFunctionOnSet(g, Tile(r))
<1>1. PICK A, B : A = Tile(r) /\ B = Lanes(r) \ Tile(r)
  OBVIOUS
<1>2. /\ A \in SUBSET Lanes(r) /\ B \in SUBSET Lanes(r) /\ A \cap B = {} /\ Lanes(r) = A \cup B
      /\ \A c \in B : g[c] = 0
  BY <1>1, TileFacts
<1>3. SumFunctionOnSet(g, A \cup B) = SumFunctionOnSet(g, A) + SumFunctionOnSet(g, B)
  BY <1>2, SumOfParts
<1>4. SumFunctionOnSet(g, B) = 0
  <2>1. IsFiniteSet(B)
    BY <1>2, FS_Subset DEF Summable
  <2> QED
    BY <1>2, <2>1, SumOfZeros
<1>5. SumFunctionOnSet(g, A) \in Nat
  BY <1>2, SumOfPart
<1>6. PICK x, y : x = SumFunctionOnSet(g, A) /\ y = SumFunctionOnSet(g, B)
  OBVIOUS
<1>7. SumFunctionOnSet(g, Lanes(r)) = x + y
  BY <1>2, <1>3, <1>6, Zenon
<1>8. x + y = x
  BY <1>4, <1>5, <1>6
<1> QED
  BY <1>1, <1>6, <1>7, <1>8, Zenon

\* A power of two under each maximum, and under a greater one as many times less.
LEMMA ExpFacts ==
  /\ NegInf \in Int /\ \A a \in Logit : a \in Int /\ a >= NegInf
  /\ \A top : Exp(NegInf, top) = 0
  /\ \A a, top \in Logit : a <= top => Exp(a, top) \in Nat
  /\ \A a, low, top \in Logit : a <= low /\ low <= top /\ low # NegInf =>
       Exp(a, low) = Exp(a, top) * Pow2(top - low) /\ Pow2(top - low) \in Nat \ {0}
<1>1. NegInf \in Int /\ \A a \in Logit : a \in Int /\ a >= NegInf
  BY KernelsAssumption DEF Logit, NegInf
<1>2. PICK s \in Nat : s = Scale
  BY KernelsAssumption
<1>3. \A a, top \in Logit : a # NegInf /\ a <= top => top # NegInf /\ top - a <= s
  <2>1. ASSUME NEW a \in Logit, NEW top \in Logit, a # NegInf, a <= top PROVE top # NegInf /\ top - a <= s
    <3>1. top # NegInf
      BY <1>1, <2>1
    <3> QED
      BY <1>2, <2>1, <3>1, KernelsAssumption DEF Logit
  <2> QED
    BY <2>1
<1>4. \A top : Exp(NegInf, top) = 0
  BY DEF Exp
<1>5. ASSUME NEW a \in Logit, NEW top \in Logit, a <= top, a # NegInf
      PROVE  s + a - top \in Nat /\ Exp(a, top) = Pow2(s + a - top) /\ Exp(a, top) \in Nat
  <2>1. s + a - top \in Nat
    BY <1>1, <1>3, <1>5
  <2> QED
    BY <1>2, <1>5, <2>1, PowersMultiply DEF Exp
<1>6. \A a, top \in Logit : a <= top => Exp(a, top) \in Nat
  BY <1>4, <1>5
<1>7. ASSUME NEW a \in Logit, NEW low \in Logit, NEW top \in Logit, a <= low, low <= top, low # NegInf
      PROVE  Exp(a, low) = Exp(a, top) * Pow2(top - low) /\ Pow2(top - low) \in Nat \ {0}
  <2>1. a \in Int /\ low \in Int /\ top \in Int /\ a <= top /\ top - low \in Nat
    BY <1>1, <1>7
  <2>2. Pow2(top - low) \in Nat \ {0}
    BY <2>1, PowersMultiply
  <2>3. CASE a = NegInf
    <3>1. Exp(a, low) = 0 /\ Exp(a, top) = 0
      BY <1>4, <2>3
    <3> QED
      BY <2>2, <3>1
  <2>4. CASE a # NegInf
    <3>1. /\ s + a - low \in Nat /\ Exp(a, low) = Pow2(s + a - low)
          /\ s + a - top \in Nat /\ Exp(a, top) = Pow2(s + a - top)
      BY <1>5, <1>7, <2>1, <2>4
    <3>2. s + a - low = (s + a - top) + (top - low)
      BY <2>1
    <3>3. Pow2((s + a - top) + (top - low)) = Pow2(s + a - top) * Pow2(top - low)
      BY <2>1, <3>1, PowersMultiply
    <3>4. Exp(a, low) = Exp(a, top) * Pow2(top - low)
      BY <3>1, <3>2, <3>3, Zenon
    <3> QED
      BY <2>2, <3>4
  <2> QED
    BY <2>3, <2>4
<1> QED
  BY <1>1, <1>4, <1>6, <1>7

\* What is loaded: the row, and under the mask nothing that counts.
LEMMA LoadFacts ==
  ASSUME KernelsTypeOK, NEW r \in Rows
  PROVE  /\ \A c \in Cols : /\ Row(r)[c] = input[Address(r, c)]
                            /\ Exponential => Row(r)[c] \in Logit
                            /\ ~Exponential => Row(r)[c] \in Int /\ New(r, c) \in Int
         /\ \A c : ~Mask(c) => Load(input, r, c) = IF Exponential THEN NegInf ELSE 0
         /\ \A c \in Cols : Mask(c) => Load(input, r, c) = Row(r)[c]
         /\ ~Exponential => \A c : ~Mask(c) => Added(r, c) = 0
         /\ ~Exponential => \A c \in Cols : Mask(c) => Added(r, c) = New(r, c)
<1>1. \A c \in Cols : Row(r)[c] = input[Address(r, c)] /\ Address(r, c) \in Cells
  BY Addresses DEF Row
<1>2. \A c \in Cols : Exponential => Row(r)[c] \in Logit
  BY <1>1 DEF KernelsTypeOK, Logit
<1>3. \A c \in Cols : ~Exponential => Row(r)[c] \in Int
  BY <1>1, KernelsAssumption DEF KernelsTypeOK
<1>4. \A c \in Cols : ~Exponential => New(r, c) \in Int
  <2>1. (IF kernel = "add_rmsnorm" THEN Residual ELSE 0) \in Int
    BY KernelsAssumption
  <2> QED
    BY <1>3, <2>1 DEF New
<1>5. \A c : ~Mask(c) => Load(input, r, c) = IF Exponential THEN NegInf ELSE 0
  BY DEF Load, Other, Exponential
<1>6. \A c \in Cols : Mask(c) => Load(input, r, c) = Row(r)[c]
  BY <1>1 DEF Load
<1>7. ~Exponential => \A c : ~Mask(c) => Added(r, c) = 0
  BY <1>5 DEF Added
<1>8. \A c \in Cols : Mask(c) => Added(r, c) = New(r, c)
  BY <1>6 DEF Added, New
<1> QED
  BY <1>1, <1>2, <1>3, <1>4, <1>5, <1>6, <1>7, <1>8

\* A reduction reads the columns of its tile, a write writes them.
LEMMA ReadGrows ==
  ASSUME KernelsTypeOK, NEW r \in Rows, AtTile(r), Reduce(r)
  PROVE  /\ pass_no[r] = 1 /\ Read(r)' = Read(r) \cup Tile(r) /\ Read(r) \cap Tile(r) = {}
         /\ \A c \in Cols : c < BlockSize => c \in Read(r) \cup Tile(r)
         /\ AtTile(r)' /\ Written(r)' = {}
<1>1. PICK o \in Nat, b \in Nat \ {0}, n \in Nat \ {0} :
        /\ o = offset[r] /\ b = BlockSize /\ n = NumCols /\ Lanes(r) = o..(o + b - 1) /\ Cols = 0..(n - 1)
        /\ LastTile(r) <=> o + b >= n
  BY BlockIsPositive, KernelsAssumption DEF Lanes, Cols, AtTile, LastTile
<1>2. Tile(r) = {c \in 0..(n - 1) : o <= c /\ c < o + b}
  BY <1>1 DEF Tile
<1>3. /\ pass_no[r] = 1 /\ pass_no'[r] = (IF o + b >= n THEN 2 ELSE 1)
      /\ offset'[r] = (IF o + b >= n THEN 0 ELSE o + b)
  BY <1>1 DEF Reduce, KernelsTypeOK
<1>4. BlockSize' = BlockSize
  BY DEF Reduce, BlockSize
<1>5. Read(r) = {c \in 0..(n - 1) : c < o}
  BY <1>1, <1>3 DEF Read
<1>6. Read(r)' = IF o + b >= n THEN 0..(n - 1) ELSE {c \in 0..(n - 1) : c < o + b}
  <2>1. CASE o + b >= n
    <3>1. pass_no'[r] # 1
      BY <1>3, <2>1
    <3> QED
      BY <1>1, <2>1, <3>1 DEF Read
  <2>2. CASE ~(o + b >= n)
    <3>1. pass_no'[r] = 1 /\ offset'[r] = o + b
      BY <1>3, <2>2
    <3> QED
      BY <1>1, <2>2, <3>1 DEF Read
  <2> QED
    BY <2>1, <2>2
<1>7. AtTile(r)'
  BY <1>1, <1>3, <1>4 DEF AtTile
<1>8. Written(r)' = {}
  <2>1. CASE o + b >= n
    <3>1. pass_no'[r] = 2 /\ offset'[r] = 0
      BY <1>3, <2>1
    <3>2. \A c \in Cols : ~(c < 0)
      BY <1>1
    <3> QED
      BY <3>1, <3>2 DEF Written
  <2>2. CASE ~(o + b >= n)
    BY <1>3, <2>2 DEF Written
  <2> QED
    BY <2>1, <2>2
<1>9. Read(r)' = Read(r) \cup Tile(r)
  <2>1. CASE o + b >= n
    BY <1>2, <1>5, <1>6, <2>1
  <2>2. CASE ~(o + b >= n)
    BY <1>2, <1>5, <1>6, <2>2
  <2> QED
    BY <2>1, <2>2
<1>10. Read(r) \cap Tile(r) = {}
  BY <1>2, <1>5
<1>11. \A c \in Cols : c < BlockSize => c \in Read(r) \cup Tile(r)
  BY <1>1, <1>2, <1>5
<1> QED
  BY <1>3, <1>7, <1>8, <1>9, <1>10, <1>11

LEMMA WrittenGrows ==
  ASSUME KernelsTypeOK, NEW r \in Rows, AtTile(r), Write(r)
  PROVE  /\ pass_no'[r] # 1 /\ Read(r)' = Cols /\ Read(r) = Cols
         /\ Written(r)' = Written(r) \cup Tile(r) /\ AtTile(r)'
<1>1. PICK o \in Nat, b \in Nat \ {0}, n \in Nat \ {0} :
        /\ o = offset[r] /\ b = BlockSize /\ n = NumCols /\ Lanes(r) = o..(o + b - 1) /\ Cols = 0..(n - 1)
        /\ LastTile(r) <=> o + b >= n
  BY BlockIsPositive, KernelsAssumption DEF Lanes, Cols, AtTile, LastTile
<1>2. Tile(r) = {c \in 0..(n - 1) : o <= c /\ c < o + b}
  BY <1>1 DEF Tile
<1>3. /\ pass_no[r] = 2 /\ pass_no'[r] = (IF o + b >= n THEN 3 ELSE 2)
      /\ offset'[r] = (IF o + b >= n THEN 0 ELSE o + b)
  BY <1>1 DEF Write, KernelsTypeOK
<1>4. BlockSize' = BlockSize
  BY DEF Write, BlockSize
<1>5. Written(r) = {c \in 0..(n - 1) : c < o}
  BY <1>1, <1>3 DEF Written
<1>6. Written(r)' = IF o + b >= n THEN 0..(n - 1) ELSE {c \in 0..(n - 1) : c < o + b}
  <2>1. CASE o + b >= n
    <3>1. pass_no'[r] = 3
      BY <1>3, <2>1
    <3> QED
      BY <1>1, <2>1, <3>1 DEF Written
  <2>2. CASE ~(o + b >= n)
    <3>1. pass_no'[r] = 2 /\ offset'[r] = o + b
      BY <1>3, <2>2
    <3> QED
      BY <1>1, <2>2, <3>1 DEF Written
  <2> QED
    BY <2>1, <2>2
<1>7. AtTile(r)'
  BY <1>1, <1>3, <1>4 DEF AtTile
<1>8. Written(r)' = Written(r) \cup Tile(r)
  <2>1. CASE o + b >= n
    BY <1>2, <1>5, <1>6, <2>1
  <2>2. CASE ~(o + b >= n)
    BY <1>2, <1>5, <1>6, <2>2
  <2> QED
    BY <2>1, <2>2
<1>9. pass_no[r] # 1 /\ pass_no'[r] # 1
  BY <1>3
<1>10. Read(r) = Cols /\ Read(r)' = Cols
  BY <1>9 DEF Read
<1> QED
  BY <1>7, <1>8, <1>9, <1>10

\* The greatest logit so far.
LEMMA NewMaximum ==
  ASSUME KernelsTypeOK, Exponential, NEW r \in Rows, offset[r] \in Nat, row_max[r] \in Logit
  PROVE  LET m == Max({row_max[r]} \cup {Load(input, r, c) : c \in Lanes(r)})
         IN /\ m \in Logit /\ row_max[r] <= m /\ \A c \in Tile(r) : Row(r)[c] <= m
            /\ m = row_max[r] \/ m = NegInf \/ \E c \in Tile(r) : m = Row(r)[c]
<1>1. PICK L, f : L = Lanes(r) /\ f = [c \in L |-> Load(input, r, c)]
  OBVIOUS
<1>2. /\ IsFiniteSet(L) /\ L # {} /\ Tile(r) \subseteq L
      /\ \A c \in L : f[c] = IF c \in Tile(r) THEN Row(r)[c] ELSE NegInf
  <2>1. /\ IsFiniteSet(L) /\ L # {} /\ Tile(r) \subseteq L
        /\ \A c \in L : Mask(c) <=> c \in Tile(r)
        /\ Tile(r) \subseteq Cols
    BY <1>1, TileFacts
  <2>2. ASSUME NEW c \in L PROVE f[c] = IF c \in Tile(r) THEN Row(r)[c] ELSE NegInf
    <3>1. f[c] = Load(input, r, c)
      BY <1>1
    <3>2. CASE c \in Tile(r)
      BY <2>1, <3>1, <3>2, LoadFacts
    <3>3. CASE c \notin Tile(r)
      BY <2>1, <3>1, <3>3, LoadFacts
    <3> QED
      BY <3>2, <3>3
  <2> QED
    BY <2>1, <2>2
<1>3. NegInf \in Logit /\ \A c \in Tile(r) : Row(r)[c] \in Logit
  <2>1. \A c \in Cols : Row(r)[c] \in Logit
    BY LoadFacts
  <2> QED
    BY <2>1 DEF Tile, Logit
<1>4. \A c \in L : f[c] \in Logit /\ f[c] \in Int
  BY <1>2, <1>3, ExpFacts
<1>5. PICK x \in L : \A y \in L : f[y] <= f[x]
  BY <1>2, <1>4, GreatestValue
<1>6. PICK S : S = {row_max[r]} \cup {Load(input, r, c) : c \in Lanes(r)} /\ S = {row_max[r]} \cup {f[c] : c \in L}
  BY <1>1
<1>7. \A a \in S : a \in Int
  BY <1>4, <1>6, ExpFacts
<1>8. \E a \in S : \A b \in S : a >= b
  <2>0. PICK y : y = row_max[r]
    OBVIOUS
  <2>1. f[x] \in Int /\ y \in Int
    BY <1>4, <2>0, ExpFacts
  <2>4. y \in S /\ f[x] \in S /\ \A b \in S : b = y \/ \E c \in L : b = f[c]
    BY <1>6, <2>0
  <2>2. CASE y >= f[x]
    <3>1. \A c \in L : y >= f[c]
      BY <1>4, <1>5, <2>1, <2>2
    <3> QED
      BY <2>1, <2>4, <3>1
  <2>3. CASE ~(y >= f[x])
    <3>1. f[x] >= y /\ \A c \in L : f[x] >= f[c]
      BY <1>4, <1>5, <2>1, <2>3
    <3> QED
      BY <2>4, <3>1
  <2> QED
    BY <2>2, <2>3
<1>9. PICK m : m = Max(S) /\ m \in S /\ \A b \in S : m >= b
  BY <1>8 DEF Max
<1>10. m \in Logit /\ m \in Int /\ row_max[r] <= m /\ \A c \in L : f[c] <= m
  BY <1>4, <1>6, <1>7, <1>9
<1>11. m = row_max[r] \/ m = NegInf \/ \E c \in Tile(r) : m = Row(r)[c]
  BY <1>2, <1>6, <1>9
<1>12. \A c \in Tile(r) : Row(r)[c] <= m
  BY <1>2, <1>10
<1> QED
  BY <1>6, <1>9, <1>10, <1>11, <1>12

\* What the columns weigh under a maximum none of them exceeds.
Weighed(r, top) == [c \in Cols |-> Exp(Row(r)[c], top)]
Below(r, A, top) == top \in Logit /\ \A c \in A : Row(r)[c] <= top

LEMMA WeightsAddUp ==
  ASSUME KernelsTypeOK, Exponential, NEW r \in Rows, NEW A \in SUBSET Cols, NEW top, Below(r, A, top)
  PROVE  Summable(Weighed(r, top), A)
<1>1. IsFiniteSet(Cols)
  <2>1. 0 \in Int /\ NumCols - 1 \in Int
    BY KernelsAssumption
  <2> QED
    BY <2>1, FS_Interval DEF Cols
<1>2. IsFiniteSet(A)
  BY <1>1, FS_Subset
<1>3. ASSUME NEW c \in A PROVE Weighed(r, top)[c] \in Nat
  <2>1. Row(r)[c] \in Logit /\ Row(r)[c] <= top /\ top \in Logit
    BY LoadFacts DEF Below
  <2> QED
    BY <2>1, ExpFacts DEF Weighed
<1> QED
  BY <1>2, <1>3 DEF Summable

\* Dividing the sum by what the maximum rose is exact.
LEMMA Rescaling ==
  ASSUME KernelsTypeOK, Exponential, NEW r \in Rows, NEW A \in SUBSET Cols,
         NEW low, Below(r, A, low), NEW top \in Logit, low <= top, low # NegInf
  PROVE  Rescaled(SumFunctionOnSet(Weighed(r, low), A), low, top) = SumFunctionOnSet(Weighed(r, top), A)
<1>1. /\ low \in Logit /\ low \in Int /\ top \in Int
      /\ \A c \in A : Row(r)[c] \in Logit /\ Row(r)[c] \in Int /\ Row(r)[c] <= low
  BY LoadFacts, ExpFacts DEF Below
<1>2. \A c \in A : Row(r)[c] <= top
  BY <1>1
<1>3. Below(r, A, top)
  BY <1>2 DEF Below
<1>4. PICK k \in Nat \ {0} : k = Pow2(top - low)
  <2>1. low <= low
    BY <1>1
  <2>2. Pow2(top - low) \in Nat \ {0}
    BY <1>1, <2>1, ExpFacts
  <2> QED
    BY <2>2
<1>5. PICK f, g : f = Weighed(r, top) /\ g = Weighed(r, low)
  OBVIOUS
<1>6. Summable(f, A)
  BY <1>3, <1>5, WeightsAddUp
<1>7. ASSUME NEW c \in A PROVE g[c] = f[c] * k
  <2>1. PICK a \in Logit : a = Row(r)[c]
    BY <1>1
  <2>2. g[c] = Exp(a, low) /\ f[c] = Exp(a, top)
    BY <1>5, <2>1 DEF Weighed
  <2>3. Exp(a, low) = Exp(a, top) * Pow2(top - low)
    BY <1>1, <2>1, ExpFacts
  <2> QED
    BY <1>4, <2>2, <2>3, Zenon
<1>8. SumFunctionOnSet(g, A) = SumFunctionOnSet(f, A) * k
  BY <1>6, <1>7, SumOfMultiples
<1>9. PICK s \in Nat : s = SumFunctionOnSet(f, A)
  BY <1>6, SumOverSet
<1>10. SumFunctionOnSet(g, A) = s * k
  BY <1>8, <1>9, Zenon
<1>11. (s * k) \div k = s
  <2>1. PICK x \in Nat : x = s * k
    OBVIOUS
  <2>2. PICK q \in Nat : q = x \div k /\ k * q <= x /\ x < k * q + k
    BY Division
  <2>3. s = q
    <3>1. CASE q < s
      <4>1. PICK d \in Nat : s = q + 1 + d
        <5>1. s - q - 1 \in Nat /\ s = q + 1 + (s - q - 1)
          BY <3>1
        <5> QED
          BY <5>1
      <4>2. s * k = k * q + k + d * k /\ d * k \in Nat
        BY <4>1
      <4> QED
        BY <2>1, <2>2, <4>2
    <3>2. CASE s < q
      <4>1. PICK d \in Nat : q = s + 1 + d
        <5>1. q - s - 1 \in Nat /\ q = s + 1 + (q - s - 1)
          BY <3>2
        <5> QED
          BY <5>1
      <4>2. k * q = s * k + k + k * d /\ k * d \in Nat
        BY <4>1
      <4> QED
        BY <2>1, <2>2, <4>2
    <3> QED
      BY <3>1, <3>2
  <2> QED
    BY <2>1, <2>2, <2>3
<1>12. Rescaled(SumFunctionOnSet(g, A), low, top) = SumFunctionOnSet(g, A) \div Pow2(top - low)
  BY DEF Rescaled
<1>13. Rescaled(SumFunctionOnSet(g, A), low, top) = s
  BY <1>4, <1>10, <1>11, <1>12, Zenon
<1> QED
  BY <1>5, <1>9, <1>13, Zenon

\* The sum over a tile is that of its columns.
LEMMA TileWeighs ==
  ASSUME KernelsTypeOK, Exponential, NEW r \in Rows, offset[r] \in Nat, NEW top, Below(r, Tile(r), top)
  PROVE  SumExp(r, top) = SumFunctionOnSet(Weighed(r, top), Tile(r))
<1>1. PICK L, A, g : /\ L = Lanes(r) /\ A = Tile(r)
                     /\ g = [c \in L |-> Exp(Load(input, r, c), top)]
  OBVIOUS
<1>2. IsFiniteSet(L) /\ A \in SUBSET L /\ A \in SUBSET Cols /\ \A c \in L : Mask(c) <=> c \in A
  BY <1>1, TileFacts
<1>3. SumExp(r, top) = SumFunctionOnSet(g, L)
  BY <1>1 DEF SumExp
<1>4. PICK f : f = Weighed(r, top) /\ Summable(f, A)
  BY <1>1, <1>2, WeightsAddUp
<1>5. \A c \in A : f[c] = g[c]
  <2>1. ASSUME NEW c \in A PROVE f[c] = g[c]
    <3>1. c \in Cols /\ c \in L /\ Mask(c)
      BY <1>2
    <3>2. Load(input, r, c) = Row(r)[c]
      BY <3>1, LoadFacts
    <3> QED
      BY <1>1, <1>4, <3>1, <3>2 DEF Weighed
  <2> QED
    BY <2>1
<1>6. \A c \in L : c \notin A => g[c] = 0
  <2>1. ASSUME NEW c \in L, c \notin A PROVE g[c] = 0
    <3>1. Load(input, r, c) = NegInf
      BY <1>2, <2>1, LoadFacts
    <3> QED
      BY <1>1, <3>1, ExpFacts
  <2> QED
    BY <2>1
<1>7. Summable(g, L)
  <2>1. \A c \in A : f[c] \in Nat
    BY <1>4 DEF Summable
  <2>2. \A c \in L : g[c] \in Nat
    BY <1>5, <1>6, <2>1
  <2> QED
    BY <1>2, <2>2 DEF Summable
<1>8. SumFunctionOnSet(g, L) = SumFunctionOnSet(g, A)
  BY <1>1, <1>6, <1>7, SumOverTile
<1>9. SumFunctionOnSet(f, A) = SumFunctionOnSet(g, A)
  BY <1>4, <1>5, SumOverSet
<1> QED
  BY <1>1, <1>3, <1>4, <1>8, <1>9, Zenon

\* A tile of a softmax.
LEMMA MaximumStep ==
  ASSUME KernelsTypeOK, Exponential, NEW r \in Rows, AtTile(r), MaxKept(r), SumKept(r), Reduce(r)
  PROVE  MaxKept(r)' /\ SumKept(r)'
<1>1. PICK old, m : /\ old = row_max[r] /\ m = Max({row_max[r]} \cup {Load(input, r, c) : c \in Lanes(r)})
                    /\ row_max'[r] = m
                    /\ row_sum'[r] = Rescaled(row_sum[r], old, m) + SumExp(r, m)
                    /\ not_numbers' = (IF m = NegInf THEN not_numbers \cup {r} ELSE not_numbers)
  <2>1. PICK m : m = Max({row_max[r]} \cup {Load(input, r, c) : c \in Lanes(r)})
    OBVIOUS
  <2>2. ReduceMax(r)
    BY DEF Reduce, Exponential
  <2>3. /\ row_max' = [row_max EXCEPT ![r] = m]
        /\ row_sum' = [row_sum EXCEPT ![r] = Rescaled(row_sum[r], row_max[r], m) + SumExp(r, m)]
        /\ not_numbers' = (IF m = NegInf THEN not_numbers \cup {r} ELSE not_numbers)
    BY <2>1, <2>2, Zenon DEF ReduceMax
  <2>4. DOMAIN row_max = Rows /\ DOMAIN row_sum = Rows
    BY DEF KernelsTypeOK
  <2>5. row_max'[r] = m
    BY <2>3, <2>4
  <2>6. row_sum'[r] = Rescaled(row_sum[r], row_max[r], m) + SumExp(r, m)
    BY <2>3, <2>4
  <2> QED
    BY <2>1, <2>3, <2>5, <2>6
<1>2. /\ m \in Logit /\ old \in Logit /\ old <= m /\ \A c \in Tile(r) : Row(r)[c] <= m
      /\ m = old \/ m = NegInf \/ \E c \in Tile(r) : m = Row(r)[c]
  BY <1>1, NewMaximum DEF AtTile, MaxKept
<1>3. PICK A, T : /\ A = Read(r) /\ T = Tile(r) /\ Read(r)' = A \cup T /\ A \cap T = {}
                  /\ A \in SUBSET Cols /\ T \in SUBSET Cols
                  /\ \A c \in Cols : c < BlockSize => c \in A \cup T
  BY ReadGrows DEF Tile, Read
<1>4. BlockSize' = BlockSize /\ Row(r)' = Row(r) /\ Exponential' /\ Weighed(r, m)' = Weighed(r, m)
  BY DEF Reduce, BlockSize, Row, Exponential, Weighed
<1>5. /\ \A c \in A : Row(r)[c] <= old
      /\ old = NegInf \/ \E c \in A : old = Row(r)[c]
      /\ r \notin not_numbers /\ A # {} => old # NegInf
      /\ r \in not_numbers => \A c \in Cols : c < BlockSize => Row(r)[c] = NegInf
  BY <1>1, <1>3 DEF MaxKept
<1>6. /\ old \in Int /\ m \in Int /\ old >= NegInf /\ NegInf \in Int
      /\ \A c \in Cols : Row(r)[c] \in Int /\ Row(r)[c] >= NegInf
  BY <1>2, LoadFacts, ExpFacts
<1>7. \A c \in A \cup T : Row(r)[c] <= m
  <2>1. \A c \in A : Row(r)[c] <= m
    BY <1>2, <1>3, <1>5, <1>6
  <2> QED
    BY <1>2, <1>3, <2>1
<1>8. m = NegInf \/ \E c \in A \cup T : m = Row(r)[c]
  BY <1>2, <1>3, <1>5
<1>9. r \notin not_numbers' => m # NegInf /\ r \notin not_numbers
  BY <1>1
<1>10. r \in not_numbers' => \A c \in Cols : c < BlockSize => Row(r)[c] = NegInf
  <2>1. CASE r \in not_numbers
    BY <1>5, <2>1
  <2>2. CASE m = NegInf
    BY <1>3, <1>6, <1>7, <2>2
  <2> QED
    BY <1>1, <2>1, <2>2
<1>11. MaxKept(r)'
  BY <1>1, <1>2, <1>3, <1>4, <1>7, <1>8, <1>9, <1>10 DEF MaxKept, Logit
<1>12. ASSUME r \notin not_numbers' PROVE row_sum'[r] = SumFunctionOnSet(Weighed(r, m), A \cup T)
  <2>1. Below(r, A, m) /\ Below(r, T, m) /\ Below(r, A \cup T, m) /\ Below(r, A, old)
    BY <1>2, <1>5, <1>7 DEF Below
  <2>2. SumExp(r, m) = SumFunctionOnSet(Weighed(r, m), T)
    BY <1>3, <2>1, TileWeighs DEF AtTile
  <2>3. row_sum[r] = SumFunctionOnSet(Weighed(r, old), A)
    BY <1>1, <1>3, <1>9, <1>12 DEF SumKept, Term, Weighed
  <2>4. Rescaled(row_sum[r], old, m) = SumFunctionOnSet(Weighed(r, m), A)
    <3>1. CASE old = NegInf
      <4>1. A = {}
        BY <1>5, <1>9, <1>12, <3>1
      <4> QED
        BY <3>1, <4>1, SumOverSet DEF Rescaled
    <3>2. CASE old # NegInf
      BY <1>2, <1>3, <2>1, <2>3, <3>2, Rescaling
    <3> QED
      BY <3>1, <3>2
  <2>5. SumFunctionOnSet(Weighed(r, m), A \cup T) = SumFunctionOnSet(Weighed(r, m), A) + SumFunctionOnSet(Weighed(r, m), T)
    <3>1. A \cup T \in SUBSET Cols
      BY <1>3
    <3>2. Summable(Weighed(r, m), A \cup T)
      BY <2>1, <3>1, WeightsAddUp
    <3>3. A \in SUBSET (A \cup T) /\ T \in SUBSET (A \cup T)
      OBVIOUS
    <3> QED
      BY <1>3, <3>2, <3>3, SumOfParts
  <2> QED
    BY <1>1, <2>2, <2>4, <2>5, Zenon
<1>13. [c \in Cols |-> Term(r, c)]' = Weighed(r, m)
  BY <1>1, <1>4 DEF Term, Weighed, Cols
<1>14. SumKept(r)'
  BY <1>3, <1>12, <1>13 DEF SumKept
<1> QED
  BY <1>11, <1>14

\* A tile of a norm.
Squares(r) == [c \in Cols |-> New(r, c) * New(r, c)]

LEMMA SquaresStep ==
  ASSUME KernelsTypeOK, ~Exponential, NEW r \in Rows, AtTile(r), SumKept(r), r \notin not_numbers, Reduce(r)
  PROVE  SumKept(r)' /\ r \notin not_numbers'
<1>1. ReduceSquares(r)
  BY DEF Reduce, Exponential
<1>2. PICK A, T, L, f, g :
        /\ A = Read(r) /\ T = Tile(r) /\ L = Lanes(r) /\ Read(r)' = A \cup T /\ A \cap T = {}
        /\ A \cup T \in SUBSET Cols
        /\ f = Squares(r) /\ g = [c \in L |-> Added(r, c) * Added(r, c)]
  BY ReadGrows DEF Tile, Read
<1>3. row_sum'[r] = row_sum[r] + SumFunctionOnSet(g, L)
  <2>1. row_sum' = [row_sum EXCEPT ![r] = row_sum[r] + SumFunctionOnSet(g, L)]
    BY <1>1, <1>2 DEF ReduceSquares
  <2> QED
    BY <2>1 DEF KernelsTypeOK
<1>4. row_sum[r] = SumFunctionOnSet(f, A)
  BY <1>2 DEF SumKept, Term, Squares
<1>5. \A c \in Cols : f[c] \in Nat
  <2>1. ASSUME NEW c \in Cols PROVE f[c] \in Nat
    <3>1. PICK x \in Int : x = New(r, c)
      BY LoadFacts
    <3>2. x * x \in Nat
      OBVIOUS
    <3> QED
      BY <1>2, <3>1, <3>2 DEF Squares
  <2> QED
    BY <2>1
<1>6. Summable(f, A \cup T)
  <2>1. IsFiniteSet(Cols)
    <3>1. 0 \in Int /\ NumCols - 1 \in Int
      BY KernelsAssumption
    <3> QED
      BY <3>1, FS_Interval DEF Cols
  <2>2. IsFiniteSet(A \cup T)
    BY <1>2, <2>1, FS_Subset
  <2> QED
    BY <1>2, <1>5, <2>2 DEF Summable
<1>7. /\ IsFiniteSet(L) /\ T \in SUBSET L /\ \A c \in L : Mask(c) <=> c \in T
  BY <1>2, TileFacts DEF AtTile
<1>8. \A c \in T : f[c] = g[c]
  <2>1. ASSUME NEW c \in T PROVE f[c] = g[c]
    <3>1. c \in Cols /\ c \in L /\ Mask(c)
      BY <1>2, <1>7
    <3>2. Added(r, c) = New(r, c)
      BY <3>1, LoadFacts
    <3> QED
      BY <1>2, <3>1, <3>2 DEF Squares
  <2> QED
    BY <2>1
<1>9. \A c \in L : c \notin T => g[c] = 0
  <2>1. ASSUME NEW c \in L, c \notin T PROVE g[c] = 0
    <3>1. Added(r, c) = 0
      BY <1>7, <2>1, LoadFacts
    <3>2. g[c] = 0 * 0
      BY <1>2, <3>1
    <3> QED
      BY <3>2
  <2> QED
    BY <2>1
<1>10. Summable(g, L)
  <2>1. \A c \in L : g[c] \in Nat
    BY <1>2, <1>5, <1>8, <1>9
  <2> QED
    BY <1>7, <2>1 DEF Summable
<1>11. SumFunctionOnSet(g, L) = SumFunctionOnSet(g, T)
  BY <1>2, <1>9, <1>10, SumOverTile DEF AtTile
<1>12. SumFunctionOnSet(f, T) = SumFunctionOnSet(g, T)
  <2>1. T \in SUBSET (A \cup T)
    OBVIOUS
  <2>2. Summable(f, T)
    BY <1>6, <2>1, SumOfPart
  <2> QED
    BY <1>8, <2>2, SumOverSet
<1>13. SumFunctionOnSet(f, A \cup T) = SumFunctionOnSet(f, A) + SumFunctionOnSet(f, T)
  <2>1. T \in SUBSET (A \cup T) /\ A \in SUBSET (A \cup T)
    OBVIOUS
  <2> QED
    BY <1>2, <1>6, <2>1, SumOfParts
<1>14. row_sum'[r] = SumFunctionOnSet(f, A \cup T)
  BY <1>3, <1>4, <1>11, <1>12, <1>13, Zenon
<1>15. [c \in Cols |-> Term(r, c)]' = f
  BY <1>2 DEF Term, Squares, New, Row, Cols, Reduce, Exponential
<1>16. SumKept(r)'
  BY <1>2, <1>14, <1>15 DEF SumKept
<1>17. r \notin not_numbers'
  BY <1>1 DEF ReduceSquares
<1> QED
  BY <1>16, <1>17

\* The residual of a tile is written as it is read.
LEMMA ResidualStep ==
  ASSUME KernelsTypeOK, NEW r \in Rows, AtTile(r), ResidKept(r), Reduce(r)
  PROVE  /\ ResidKept(r)' /\ resid_out' = [a \in Cells |-> resid_out'[a]]
         /\ \A s \in Rows \ {r}, c \in Cols : resid_out'[Address(s, c)] = resid_out[Address(s, c)]
<1>1. CASE kernel = "add_rmsnorm"
  <2>1. PICK tile : tile = [c \in Lanes(r) |-> Added(r, c)]
    OBVIOUS
  <2>2. resid_out' = Stored(resid_out, r, tile) /\ ~Exponential
    BY <1>1, <2>1 DEF Reduce, ReduceSquares, Exponential
  <2>3. /\ resid_out' = [a \in Cells |-> resid_out'[a]]
        /\ \A c \in Tile(r) : resid_out'[Address(r, c)] = tile[c]
        /\ \A c \in Cols \ Tile(r) : resid_out'[Address(r, c)] = resid_out[Address(r, c)]
        /\ \A s \in Rows \ {r}, c \in Cols : resid_out'[Address(s, c)] = resid_out[Address(s, c)]
    BY <2>2, StoredFacts DEF AtTile
  <2>4. \A c \in Tile(r) : tile[c] = New(r, c)
    <3>1. ASSUME NEW c \in Tile(r) PROVE tile[c] = New(r, c)
      <4>1. c \in Cols /\ c \in Lanes(r) /\ Mask(c)
        BY TileFacts DEF AtTile
      <4> QED
        BY <2>1, <2>2, <4>1, LoadFacts
    <3> QED
      BY <3>1
  <2>5. Read(r)' = Read(r) \cup Tile(r) /\ Read(r) \subseteq Cols
    BY ReadGrows DEF Read
  <2>6. \A c \in Cols : New(r, c)' = New(r, c)
    BY DEF New, Row, Reduce
  <2>7. \A c \in Read(r) \cup Tile(r) : resid_out'[Address(r, c)] = New(r, c)
    BY <1>1, <2>3, <2>4, <2>5 DEF ResidKept
  <2>8. Tile(r) \subseteq Cols
    BY DEF Tile
  <2>9. ResidKept(r)'
    BY <2>5, <2>6, <2>7, <2>8 DEF ResidKept
  <2> QED
    BY <2>3, <2>9
<1>2. CASE kernel # "add_rmsnorm"
  <2>1. resid_out' = resid_out /\ kernel' = kernel
    BY <1>2 DEF Reduce, ReduceMax, ReduceSquares
  <2> QED
    BY <1>2, <2>1 DEF ResidKept, KernelsTypeOK
<1> QED
  BY <1>1, <1>2

\* A tile of the result.
LEMMA OutputStep ==
  ASSUME KernelsTypeOK, NEW r \in Rows, AtTile(r), ResidKept(r), OutKept(r), Write(r)
  PROVE  /\ OutKept(r)' /\ out' = [a \in Cells |-> out'[a]]
         /\ \A s \in Rows \ {r}, c \in Cols : out'[Address(s, c)] = out[Address(s, c)]
<1>1. PICK tile : tile = [c \in Lanes(r) |-> Result(r, c)] /\ out' = Stored(out, r, tile)
  BY DEF Write
<1>2. /\ out' = [a \in Cells |-> out'[a]]
      /\ \A c \in Tile(r) : out'[Address(r, c)] = tile[c]
      /\ \A c \in Cols \ Tile(r) : out'[Address(r, c)] = out[Address(r, c)]
      /\ \A s \in Rows \ {r}, c \in Cols : out'[Address(s, c)] = out[Address(s, c)]
  BY <1>1, StoredFacts DEF AtTile
<1>3. /\ pass_no'[r] # 1 /\ Read(r) = Cols /\ Written(r)' = Written(r) \cup Tile(r)
  BY WrittenGrows
<1>4. \A c \in Tile(r) : tile[c] = [num |-> Value(r, c), den |-> row_sum[r]]
  <2>1. ASSUME NEW c \in Tile(r) PROVE tile[c] = [num |-> Value(r, c), den |-> row_sum[r]]
    <3>1. c \in Cols /\ c \in Lanes(r) /\ Mask(c)
      BY TileFacts DEF AtTile
    <3>2. Load(input, r, c) = Row(r)[c]
      BY <3>1, LoadFacts
    <3>3. kernel = "add_rmsnorm" => Load(resid_out, r, c) = New(r, c)
      BY <1>3, <3>1 DEF ResidKept, Load
    <3>4. kernel = "rmsnorm" => New(r, c) = Row(r)[c]
      <4>1. ASSUME kernel = "rmsnorm" PROVE New(r, c) = Row(r)[c]
        <5>1. Row(r)[c] \in Int
          BY <3>1, <4>1, LoadFacts DEF Exponential
        <5> QED
          BY <4>1, <5>1 DEF New
      <4> QED
        BY <4>1
    <3>5. Result(r, c).num = Value(r, c) /\ Result(r, c) = [num |-> Result(r, c).num, den |-> row_sum[r]]
      <4>1. CASE Exponential
        BY <3>2, <4>1 DEF Result, Value, Exponential
      <4>2. CASE kernel = "rmsnorm"
        BY <3>2, <3>4, <4>2 DEF Result, Value, Exponential
      <4>3. CASE kernel = "add_rmsnorm"
        BY <3>3, <4>3 DEF Result, Value, Exponential
      <4> QED
        BY <4>1, <4>2, <4>3 DEF KernelsTypeOK, Exponential
    <3> QED
      BY <1>1, <3>1, <3>5
  <2> QED
    BY <2>1
<1>5. Written(r) \subseteq Cols /\ Tile(r) \subseteq Cols
  BY DEF Written, Tile, OutKept, Write
<1>6. \A c \in Written(r) \cup Tile(r) : out'[Address(r, c)] = [num |-> Value(r, c), den |-> row_sum[r]]
  BY <1>2, <1>4, <1>5 DEF OutKept
<1>7. \A c \in Cols : Value(r, c)' = Value(r, c) /\ row_sum'[r] = row_sum[r]
  BY DEF Value, New, Row, Exponential, Write
<1>8. OutKept(r)'
  BY <1>3, <1>5, <1>6, <1>7 DEF OutKept
<1> QED
  BY <1>2, <1>8

\* A program does not touch the row of another.
Untouched(s) ==
  /\ pass_no'[s] = pass_no[s] /\ offset'[s] = offset[s] /\ row_max'[s] = row_max[s] /\ row_sum'[s] = row_sum[s]
  /\ s \in not_numbers' <=> s \in not_numbers
  /\ \A c \in Cols : resid_out'[Address(s, c)] = resid_out[Address(s, c)] /\ out'[Address(s, c)] = out[Address(s, c)]

LEMMA OthersKept ==
  ASSUME NEW s \in Rows, RowKept(s), Untouched(s), UNCHANGED <<kernel, input>>
  PROVE  RowKept(s)'
<1>1. /\ BlockSize' = BlockSize /\ Row(s)' = Row(s) /\ Exponential' = Exponential
      /\ Read(s)' = Read(s) /\ Written(s)' = Written(s) /\ Read(s) \subseteq Cols
  BY DEF BlockSize, Row, Exponential, Read, Written, Untouched
<1>2. /\ \A c \in Cols : New(s, c)' = New(s, c) /\ Value(s, c)' = Value(s, c) /\ Term(s, c)' = Term(s, c)
      /\ [c \in Cols |-> Term(s, c)]' = [c \in Cols |-> Term(s, c)]
  BY DEF Untouched, New, Value, Term, Row, Exponential, Cols
<1>3. AtTile(s)'
  BY <1>1 DEF AtTile, Untouched, RowKept
<1>4. Exponential => MaxKept(s)'
  BY <1>1 DEF MaxKept, Untouched, RowKept, Logit
<1>5. SumKept(s)'
  BY <1>1, <1>2 DEF SumKept, Untouched, RowKept
<1>6. ResidKept(s)'
  BY <1>1, <1>2 DEF ResidKept, Untouched, RowKept
<1>7. Written(s) \subseteq Cols
  <2>1. pass_no[s] \in 1..3
    BY DEF RowKept, AtTile
  <2> QED
    BY <2>1 DEF Written
<1>8. OutKept(s)'
  BY <1>1, <1>2, <1>7 DEF OutKept, Untouched, RowKept
<1>9. ~Exponential => s \notin not_numbers'
  BY DEF Untouched, RowKept
<1> QED
  BY <1>1, <1>3, <1>4, <1>5, <1>6, <1>8, <1>9 DEF RowKept

\* Each step of a program.
LEMMA ReduceKeeps ==
  ASSUME KernelsInv, NEW r \in Rows, Reduce(r)
  PROVE  KernelsInv'
<1>1. /\ KernelsTypeOK /\ RowKept(r) /\ AtTile(r) /\ SumKept(r) /\ ResidKept(r) /\ OutKept(r)
      /\ IF Exponential THEN MaxKept(r) ELSE r \notin not_numbers
  BY DEF KernelsInv, RowKept
<1>2. /\ pass_no[r] = 1 /\ AtTile(r)' /\ Written(r)' = {}
  BY <1>1, ReadGrows
<1>3. /\ ResidKept(r)' /\ resid_out' = [a \in Cells |-> resid_out'[a]]
      /\ \A s \in Rows \ {r}, c \in Cols : resid_out'[Address(s, c)] = resid_out[Address(s, c)]
  BY <1>1, ResidualStep
<1>4. SumKept(r)' /\ (IF Exponential THEN MaxKept(r)' ELSE r \notin not_numbers')
  BY <1>1, MaximumStep, SquaresStep
<1>5. kernel' = kernel /\ input' = input /\ out' = out /\ Exponential' = Exponential
  BY DEF Reduce, Exponential
<1>6. OutKept(r)'
  BY <1>1, <1>2, <1>5 DEF OutKept
<1>7. RowKept(r)'
  BY <1>2, <1>3, <1>4, <1>5, <1>6 DEF RowKept
<1>8. /\ \A s \in Rows \ {r} : /\ pass_no'[s] = pass_no[s] /\ offset'[s] = offset[s]
                               /\ row_max'[s] = row_max[s] /\ row_sum'[s] = row_sum[s]
                               /\ s \in not_numbers' <=> s \in not_numbers
      /\ DOMAIN pass_no' = Rows /\ DOMAIN offset' = Rows /\ DOMAIN row_max' = Rows /\ DOMAIN row_sum' = Rows
  <2>1. PICK p, o : pass_no' = [pass_no EXCEPT ![r] = p] /\ offset' = [offset EXCEPT ![r] = o]
    BY DEF Reduce
  <2>2. PICK w, m, S : row_sum' = [row_sum EXCEPT ![r] = w] /\ (row_max' = row_max \/ row_max' = [row_max EXCEPT ![r] = m])
                    /\ not_numbers' = S /\ (S = not_numbers \/ S = not_numbers \cup {r})
    BY DEF Reduce, ReduceMax, ReduceSquares
  <2>3. /\ DOMAIN pass_no = Rows /\ DOMAIN offset = Rows /\ DOMAIN row_max = Rows /\ DOMAIN row_sum = Rows
    BY <1>1 DEF KernelsTypeOK
  <2>4. \A s \in Rows \ {r} : pass_no'[s] = pass_no[s] /\ offset'[s] = offset[s]
    BY <2>1, <2>3
  <2>5. \A s \in Rows \ {r} : row_max'[s] = row_max[s] /\ row_sum'[s] = row_sum[s]
    BY <2>2, <2>3
  <2>6. \A s \in Rows \ {r} : s \in not_numbers' <=> s \in not_numbers
    BY <2>2
  <2>7. DOMAIN pass_no' = Rows /\ DOMAIN offset' = Rows
    BY <2>1, <2>3
  <2>8. DOMAIN row_max' = Rows /\ DOMAIN row_sum' = Rows
    BY <2>2, <2>3
  <2> QED
    BY <2>4, <2>5, <2>6, <2>7, <2>8
<1>9. ASSUME NEW s \in Rows, s # r PROVE RowKept(s)'
  <2>1. Untouched(s)
    BY <1>3, <1>5, <1>8, <1>9 DEF Untouched
  <2>2. RowKept(s)
    BY DEF KernelsInv
  <2> QED
    BY <1>5, <2>1, <2>2, OthersKept
<1>10. KernelsTypeOK'
  <2>1. /\ pass_no' = [s \in Rows |-> pass_no'[s]] /\ offset' = [s \in Rows |-> offset'[s]]
        /\ row_max' = [s \in Rows |-> row_max'[s]] /\ row_sum' = [s \in Rows |-> row_sum'[s]]
    <3>1. \A f, S, x, e : DOMAIN [f EXCEPT ![x] = e] = S => [f EXCEPT ![x] = e] = [y \in S |-> [f EXCEPT ![x] = e][y]]
      OBVIOUS
    <3>2. PICK p, o : pass_no' = [pass_no EXCEPT ![r] = p] /\ offset' = [offset EXCEPT ![r] = o]
      BY DEF Reduce
    <3>3. PICK w, m : row_sum' = [row_sum EXCEPT ![r] = w] /\ (row_max' = row_max \/ row_max' = [row_max EXCEPT ![r] = m])
      BY DEF Reduce, ReduceMax, ReduceSquares
    <3>4. pass_no' = [s \in Rows |-> pass_no'[s]] /\ offset' = [s \in Rows |-> offset'[s]]
      BY <1>8, <3>1, <3>2
    <3>5. row_sum' = [s \in Rows |-> row_sum'[s]]
      BY <1>8, <3>1, <3>3
    <3>6. row_max' = [s \in Rows |-> row_max'[s]]
      BY <1>1, <1>8, <3>1, <3>3 DEF KernelsTypeOK
    <3> QED
      BY <3>4, <3>5, <3>6
  <2>2. out' = [a \in Cells |-> out'[a]] /\ resid_out' = [a \in Cells |-> resid_out'[a]]
    BY <1>1, <1>3, <1>5 DEF KernelsTypeOK
  <2>3. kernel' \in {"softmax", "online", "rmsnorm", "add_rmsnorm"}
    BY <1>1, <1>5 DEF KernelsTypeOK
  <2>4. input' \in [Cells -> IF Exponential' THEN Logits ELSE Numbers]
    BY <1>1, <1>5 DEF KernelsTypeOK
  <2> QED
    BY <2>1, <2>2, <2>3, <2>4 DEF KernelsTypeOK, Exponential
<1> QED
  BY <1>7, <1>9, <1>10 DEF KernelsInv

LEMMA WriteKeeps ==
  ASSUME KernelsInv, NEW r \in Rows, Write(r)
  PROVE  KernelsInv'
<1>1. /\ KernelsTypeOK /\ RowKept(r) /\ AtTile(r) /\ SumKept(r) /\ ResidKept(r) /\ OutKept(r)
      /\ IF Exponential THEN MaxKept(r) ELSE r \notin not_numbers
  BY DEF KernelsInv, RowKept
<1>2. Read(r) = Cols /\ Read(r)' = Cols /\ AtTile(r)'
  BY <1>1, WrittenGrows
<1>3. /\ OutKept(r)' /\ out' = [a \in Cells |-> out'[a]]
      /\ \A s \in Rows \ {r}, c \in Cols : out'[Address(s, c)] = out[Address(s, c)]
  BY <1>1, OutputStep
<1>4. UNCHANGED <<kernel, input, row_max, row_sum, not_numbers, resid_out>>
  BY DEF Write
<1>5. /\ BlockSize' = BlockSize /\ Row(r)' = Row(r) /\ Exponential' = Exponential
      /\ \A c \in Cols : New(r, c)' = New(r, c)
      /\ [c \in Cols |-> Term(r, c)]' = [c \in Cols |-> Term(r, c)]
  BY <1>4 DEF BlockSize, Row, Exponential, New, Term
<1>6. SumKept(r)'
  BY <1>1, <1>2, <1>4, <1>5 DEF SumKept
<1>7. ResidKept(r)'
  BY <1>1, <1>2, <1>4, <1>5 DEF ResidKept
<1>8. Exponential => MaxKept(r)'
  BY <1>1, <1>2, <1>4, <1>5 DEF MaxKept
<1>9. RowKept(r)'
  BY <1>1, <1>2, <1>3, <1>4, <1>5, <1>6, <1>7, <1>8 DEF RowKept
<1>10. /\ pass_no' = [s \in Rows |-> pass_no'[s]] /\ offset' = [s \in Rows |-> offset'[s]]
       /\ \A s \in Rows \ {r} : pass_no'[s] = pass_no[s] /\ offset'[s] = offset[s]
  <2>1. PICK p, o : pass_no' = [pass_no EXCEPT ![r] = p] /\ offset' = [offset EXCEPT ![r] = o]
    BY DEF Write
  <2>2. pass_no = [s \in Rows |-> pass_no[s]] /\ offset = [s \in Rows |-> offset[s]]
    BY <1>1 DEF KernelsTypeOK
  <2> QED
    BY <2>1, <2>2
<1>11. ASSUME NEW s \in Rows, s # r PROVE RowKept(s)'
  <2>1. Untouched(s)
    BY <1>3, <1>4, <1>10, <1>11 DEF Untouched
  <2>2. RowKept(s)
    BY DEF KernelsInv
  <2> QED
    BY <1>4, <2>1, <2>2, OthersKept
<1>12. KernelsTypeOK'
  BY <1>1, <1>3, <1>4, <1>5, <1>10 DEF KernelsTypeOK
<1> QED
  BY <1>9, <1>11, <1>12 DEF KernelsInv

\* A launch has read nothing and written nothing.
LEMMA LaunchKeeps == KernelsInit => KernelsInv
<1>1. SUFFICES ASSUME KernelsInit PROVE KernelsInv
  OBVIOUS
<1>2. PICK k, xs : /\ Launch(k, xs) /\ k \in {"softmax", "online", "rmsnorm", "add_rmsnorm"}
                   /\ xs \in [Cells -> IF k \in {"softmax", "online"} THEN Logits ELSE Numbers]
  BY <1>1 DEF KernelsInit
<1>3. KernelsTypeOK
  BY <1>2 DEF Launch, KernelsTypeOK, Exponential
<1>4. ASSUME NEW r \in Rows PROVE RowKept(r)
  <2>1. /\ pass_no[r] = 1 /\ offset[r] = 0 /\ row_max[r] = NegInf /\ row_sum[r] = 0 /\ not_numbers = {}
        /\ \A c \in Cols : out[Address(r, c)] = Unset
    BY <1>2, Addresses DEF Launch
  <2>2. Read(r) = {} /\ Written(r) = {}
    BY <2>1, KernelsAssumption DEF Read, Written, Cols
  <2>3. AtTile(r)
    BY <2>1 DEF AtTile
  <2>4. SumKept(r)
    BY <2>1, <2>2, SumOverSet DEF SumKept
  <2>5. ResidKept(r) /\ OutKept(r)
    BY <2>1, <2>2 DEF ResidKept, OutKept
  <2>6. MaxKept(r)
    BY <2>1, <2>2 DEF MaxKept, Logit
  <2> QED
    BY <2>1, <2>3, <2>4, <2>5, <2>6 DEF RowKept
<1> QED
  BY <1>3, <1>4 DEF KernelsInv

\* Once a row is read as a whole, its maximum and its sum are the reference's.
LEMMA AnswersAsReference ==
  ASSUME KernelsInv, NEW r \in Rows, r \notin not_numbers, Read(r) = Cols, NEW c \in Cols
  PROVE  Reference(r, c) = [num |-> Value(r, c), den |-> row_sum[r]]
<1>1. KernelsTypeOK /\ SumKept(r) /\ (Exponential => MaxKept(r))
  BY DEF KernelsInv, RowKept
<1>2. row_sum[r] = SumFunctionOnSet([k \in Cols |-> Term(r, k)], Cols)
  BY <1>1 DEF SumKept
<1>3. CASE Exponential
  <2>1. PICK m : m = row_max[r] /\ m \in Logit /\ (\A k \in Cols : Row(r)[k] <= m) /\ \E k \in Cols : m = Row(r)[k]
    BY <1>1, <1>3 DEF MaxKept
  <2>2. \A k \in Cols : Row(r)[k] \in Int
    BY <1>1, <1>3, LoadFacts, ExpFacts
  <2>3. PICK S : S = {Row(r)[k] : k \in Cols}
    OBVIOUS
  <2>4. m \in S /\ \A x \in S : x \in Int /\ m >= x
    BY <2>1, <2>2, <2>3
  <2>5. Max(S) \in S /\ \A x \in S : Max(S) >= x
    BY <2>4 DEF Max
  <2>6. Max(S) = m
    BY <2>4, <2>5
  <2>7. Top(r) = m
    BY <2>3, <2>6 DEF Top
  <2>8. [k \in Cols |-> Exp(Row(r)[k], Top(r))] = [k \in Cols |-> Term(r, k)]
    BY <1>3, <2>1, <2>7 DEF Term
  <2>9. Value(r, c) = Exp(Row(r)[c], Top(r))
    BY <1>3, <2>1, <2>7 DEF Value
  <2> QED
    BY <1>2, <1>3, <2>8, <2>9 DEF Reference, Softmax, Exponential
<1>4. CASE ~Exponential
  <2>1. PICK s : s = [k \in Cols |-> Row(r)[k] + (IF kernel = "add_rmsnorm" THEN Residual ELSE 0)]
    OBVIOUS
  <2>2. \A k \in Cols : s[k] = New(r, k)
    BY <2>1 DEF New
  <2>3. [k \in Cols |-> s[k] * s[k]] = [k \in Cols |-> Term(r, k)]
    BY <1>4, <2>2 DEF Term
  <2>4. Reference(r, c) = [num |-> s[c], den |-> SumFunctionOnSet([k \in Cols |-> s[k] * s[k]], Cols)]
    BY <1>4, <2>1, Zenon DEF Reference, RmsNorm, Exponential
  <2>5. Value(r, c) = s[c]
    BY <1>4, <2>2 DEF Value
  <2> QED
    BY <1>2, <2>3, <2>4, <2>5, Zenon
<1> QED
  BY <1>3, <1>4

LEMMA RowsAreExact == KernelsInv => KernelsExact
<1>1. SUFFICES ASSUME KernelsInv, NEW r \in Rows
      PROVE  /\ r \notin not_numbers /\ pass_no[r] = 3 => \A c \in Cols : out[Address(r, c)] = Reference(r, c)
             /\ kernel = "add_rmsnorm" /\ pass_no[r] = 3 =>
                  \A c \in Cols : resid_out[Address(r, c)] = Row(r)[c] + Residual
             /\ pass_no[r] = 1 => \A c \in Cols : out[Address(r, c)] = Unset
             /\ r \in not_numbers => \A c \in Cols : c < BlockSize => Row(r)[c] = NegInf
  BY DEF KernelsExact
<1>2. OutKept(r) /\ ResidKept(r) /\ IF Exponential THEN MaxKept(r) ELSE r \notin not_numbers
  BY <1>1 DEF KernelsInv, RowKept
<1>3. ASSUME r \notin not_numbers, pass_no[r] = 3, NEW c \in Cols PROVE out[Address(r, c)] = Reference(r, c)
  <2>1. Read(r) = Cols /\ Written(r) = Cols
    BY <1>3 DEF Read, Written
  <2>2. out[Address(r, c)] = [num |-> Value(r, c), den |-> row_sum[r]]
    BY <1>2, <2>1 DEF OutKept
  <2>3. Reference(r, c) = [num |-> Value(r, c), den |-> row_sum[r]]
    BY <1>1, <1>3, <2>1, AnswersAsReference
  <2> QED
    BY <2>2, <2>3
<1>4. ASSUME kernel = "add_rmsnorm", pass_no[r] = 3, NEW c \in Cols
      PROVE  resid_out[Address(r, c)] = Row(r)[c] + Residual
  BY <1>2, <1>4 DEF ResidKept, Read, New
<1>5. pass_no[r] = 1 => \A c \in Cols : out[Address(r, c)] = Unset
  BY <1>2 DEF OutKept
<1>6. r \in not_numbers => \A c \in Cols : c < BlockSize => Row(r)[c] = NegInf
  BY <1>2 DEF MaxKept
<1> QED
  BY <1>3, <1>4, <1>5, <1>6

\* Whatever the rows, the block and the order in which the programs take their
\* tiles, a program that is over has written what the reference computes of its
\* row, unless that is not a number, and no program writes before it has read.
THEOREM KernelsAreExact == KernelsSpec => []KernelsExact
<1>1. KernelsInv /\ [KernelsNext]_kernelVars => KernelsInv'
  <2>1. SUFFICES ASSUME KernelsInv, [KernelsNext]_kernelVars PROVE KernelsInv'
    OBVIOUS
  <2>2. CASE KernelsNext
    BY <2>1, <2>2, ReduceKeeps, WriteKeeps DEF KernelsNext
  <2>3. CASE UNCHANGED kernelVars
    <3>1. \A s \in Rows : RowKept(s) /\ Untouched(s)
      BY <2>1, <2>3 DEF kernelVars, KernelsInv, Untouched
    <3>2. UNCHANGED <<kernel, input>>
      BY <2>3 DEF kernelVars
    <3>3. \A s \in Rows : RowKept(s)'
      BY <3>1, <3>2, OthersKept
    <3>4. KernelsTypeOK'
      BY <2>1, <2>3 DEF kernelVars, KernelsInv, KernelsTypeOK, Exponential
    <3> QED
      BY <3>3, <3>4 DEF KernelsInv
  <2> QED
    BY <2>1, <2>2, <2>3
<1> QED
  BY <1>1, LaunchKeeps, RowsAreExact, PTL DEF KernelsSpec

-----------------------------------------------------------------------------
(***************************************************************************)
(* The figures, all of them.                                               *)
(***************************************************************************)
\* Whatever the data and the order in which it came, the summary, the bill,
\* the budget, the rows of a kernel and the verdict are those of their
\* definitions: each component's specification keeps its own.
THEOREM FiguresAreRight ==
  StatSpec /\ CostsSpec /\ BudgetSpec /\ KernelsSpec /\ QualitySpec => []FiguresAreExact
<1>1. SummaryIsExact /\ BillsAddUp /\ BudgetIsSound /\ KernelsExact /\ VerdictIsEarned => FiguresAreExact
  BY DEF FiguresAreExact
<1> QED
  BY <1>1, SummariesAreExact, BillsAlwaysAddUp, BudgetsAreSound, KernelsAreExact, VerdictsAreEarned, PTL
=============================================================================
