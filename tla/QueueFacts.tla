----------------------------- MODULE QueueFacts -----------------------------
(***************************************************************************)
(* What the queue operations of the schedulers do to the elements of a     *)
(* queue and to their number, and what sums are.  Induction is by the      *)
(* least element of a set of naturals: the library's induction rules take  *)
(* the formula to prove as a parameter, which the provers cannot           *)
(* instantiate, but its theorem that a well-founded relation has minimal   *)
(* elements takes a set.                                                   *)
(***************************************************************************)
EXTENDS Queues, SequencesExt, FiniteSetTheorems, SequenceTheorems, WellFoundedInduction, TLAPS

\* Every nonempty set of naturals has a least element.
LEMMA LeastElement ==
  ASSUME NEW T, T \subseteq Nat, T # {}
  PROVE  \E n \in T : \A m \in T : n <= m
<1>1. IsWellFoundedOn(OpToRel(<, Nat), Nat)
  BY NatLessThanWellFounded
<1>2. PICK x \in T : \A y \in T : ~ (<<y, x>> \in OpToRel(<, Nat))
  BY <1>1, WFMin
<1>3. \A y \in T : ~(y < x)
  BY <1>2 DEF OpToRel
<1> QED
  BY <1>3

\* A set that holds 0, and n + 1 with every n, holds every natural number.
LEMMA Induction ==
  ASSUME NEW T, 0 \in T, \A n \in Nat : n \in T => n + 1 \in T
  PROVE  Nat \subseteq T
<1> SUFFICES ASSUME Nat \ T # {} PROVE FALSE
  OBVIOUS
<1>1. PICK n \in Nat \ T : \A m \in Nat \ T : n <= m
  BY LeastElement
<1>2. n - 1 \in Nat /\ n - 1 \in T
  BY <1>1
<1> QED
  BY <1>1, <1>2

\* The same for the numbers up to some n.
LEMMA InductionUpTo ==
  ASSUME NEW n \in Nat, NEW T, 0 \in T, \A i \in 1..n : i - 1 \in T => i \in T
  PROVE  0..n \subseteq T
<1> DEFINE U == T \cup {i \in Nat : i > n}
<1>1. 0 \in U
  OBVIOUS
<1>2. ASSUME NEW i \in Nat, i \in U PROVE i + 1 \in U
  <2>1. CASE i + 1 > n
    BY <2>1
  <2>2. CASE i + 1 <= n
    <3>1. i + 1 \in 1..n /\ (i + 1) - 1 = i /\ i \in T
      BY <1>2, <2>2
    <3> QED
      BY <3>1
  <2> QED
    BY <2>1, <2>2
<1>3. Nat \subseteq U
  BY <1>1, <1>2, Induction
<1> QED
  BY <1>3

\* Multiplication is monotone.
LEMMA TimesKeepsOrder ==
  ASSUME NEW i \in Nat, NEW j \in Nat, NEW k \in Nat, i <= j
  PROVE  i * k \in Nat /\ j * k \in Nat /\ i * k <= j * k
<1>1. j * k = i * k + (j - i) * k /\ (j - i) \in Nat
  OBVIOUS
<1>2. (j - i) * k \in Nat /\ i * k \in Nat /\ j * k \in Nat
  BY <1>1
<1> QED
  BY <1>1, <1>2

-----------------------------------------------------------------------------
(***************************************************************************)
(* A recursive function over 0..n exists: it starts from some value and    *)
(* every step G takes it from one value of V to the next.                  *)
(***************************************************************************)
Iterates(f, n, V, v, G) ==
  f \in [0..n -> V] /\ f[0] = v /\ \A i \in 1..n : f[i] = G[<<i, f[i - 1]>>]

LEMMA IterationExists ==
  ASSUME NEW n \in Nat, NEW V, NEW v \in V, NEW G \in [(1..n) \X V -> V]
  PROVE  \E f : Iterates(f, n, V, v, G)
<1> DEFINE Upto(m) == {f \in [0..m -> V] : /\ f[0] = v
                                           /\ \A i \in 1..m : f[i] = G[<<i, f[i - 1]>>]}
           T == {m \in 0..n : Upto(m) # {}}
<1>1. 0 \in T
  <2>1. [i \in 0..0 |-> v] \in Upto(0)
    OBVIOUS
  <2> QED
    BY <2>1
<1>2. ASSUME NEW m \in 1..n, m - 1 \in T PROVE m \in T
  <2>1. PICK f \in [0..(m - 1) -> V] :
           f[0] = v /\ \A i \in 1..(m - 1) : f[i] = G[<<i, f[i - 1]>>]
    BY <1>2
  <2>2. f[m - 1] \in V /\ G[<<m, f[m - 1]>>] \in V
    BY <2>1
  <2> DEFINE g == [i \in 0..m |-> IF i < m THEN f[i] ELSE G[<<m, f[m - 1]>>]]
  <2>3. g \in [0..m -> V]
    BY <2>1, <2>2
  <2>4. g[0] = v
    BY <2>1
  <2>5. ASSUME NEW i \in 1..m PROVE g[i] = G[<<i, g[i - 1]>>]
    <3>1. i \in 0..m /\ i - 1 \in 0..m /\ g[i - 1] = f[i - 1]
      OBVIOUS
    <3>2. CASE i < m
      <4>1. i \in 1..(m - 1) /\ g[i] = f[i]
        BY <3>2
      <4> QED
        BY <2>1, <3>1, <4>1
    <3>3. CASE i = m
      BY <3>1, <3>3
    <3> QED
      BY <3>2, <3>3
  <2> HIDE DEF g
  <2>6. g \in Upto(m)
    BY <2>3, <2>4, <2>5
  <2> QED
    BY <2>6
<1> HIDE DEF T
<1>3. 0..n \subseteq T
  BY <1>1, <1>2, InductionUpTo
<1>4. n \in T
  BY <1>3
<1>5. Upto(n) # {}
  BY <1>4 DEF T
<1> QED
  BY <1>5 DEF Iterates

-----------------------------------------------------------------------------
\* Those as it is computed, one element of the queue at a time.
ThoseSteps(k, A, S, q) ==
  /\ k \in [0..Len(q) -> Seq(A \cap S)]
  /\ k[0] = <<>>
  /\ \A i \in 1..Len(q) :
       k[i] = IF q[i] \in S THEN Append(k[i - 1], q[i]) ELSE k[i - 1]
  /\ Those(q, S) = k[Len(q)]

LEMMA ThoseByElement ==
  ASSUME NEW A, NEW S, NEW q \in Seq(A)
  PROVE  \E k : ThoseSteps(k, A, S, q)
<1> DEFINE n == Len(q)
           V == Seq(A \cap S)
           G == [p \in (1..n) \X V |-> IF q[p[1]] \in S THEN Append(p[2], q[p[1]]) ELSE p[2]]
           Eq(k) == k = [i \in 0..n |->
                           IF i = 0 THEN <<>>
                           ELSE IF q[i] \in S THEN Append(k[i - 1], q[i]) ELSE k[i - 1]]
<1>1. n \in Nat /\ <<>> \in V
  OBVIOUS
<1>2. G \in [(1..n) \X V -> V]
  <2>1. ASSUME NEW p \in (1..n) \X V
        PROVE  (IF q[p[1]] \in S THEN Append(p[2], q[p[1]]) ELSE p[2]) \in V
    <3>1. p[1] \in 1..n /\ p[2] \in V /\ q[p[1]] \in A
      BY <2>1
    <3> QED
      BY <3>1
  <2> QED
    BY <2>1
<1> DEFINE v == <<>>
<1> HIDE DEF n, V, G, v
<1>3. PICK f : f \in [0..n -> V] /\ f[0] = v /\ \A i \in 1..n : f[i] = G[<<i, f[i - 1]>>]
  <2>1. PICK f : Iterates(f, n, V, v, G)
    <3>1. v \in V
      BY <1>1 DEF v
    <3> QED
      BY <1>1, <1>2, <3>1, IterationExists
  <2> QED
    BY <2>1 DEF Iterates
<1>4. \A i \in 1..n : f[i] = IF q[i] \in S THEN Append(f[i - 1], q[i]) ELSE f[i - 1]
  <2>1. ASSUME NEW i \in 1..n
        PROVE  f[i] = IF q[i] \in S THEN Append(f[i - 1], q[i]) ELSE f[i - 1]
    <3>1. i - 1 \in 0..n /\ f[i - 1] \in V
      BY <1>1, <1>3
    <3>2. <<i, f[i - 1]>> \in (1..n) \X V
      BY <3>1
    <3> QED
      BY <1>3, <3>2 DEF G
  <2> QED
    BY <2>1
<1>5. Eq(f)
  <2>1. f = [i \in 0..n |-> f[i]]
    BY <1>3
  <2>2. ASSUME NEW i \in 0..n
        PROVE  f[i] = IF i = 0 THEN <<>>
                      ELSE IF q[i] \in S THEN Append(f[i - 1], q[i]) ELSE f[i - 1]
    <3>1. CASE i = 0
      BY <1>3, <3>1 DEF v
    <3>2. CASE i # 0
      <4>1. i \in 1..n
        BY <1>1, <3>2
      <4> QED
        BY <1>4, <3>2, <4>1
    <3> QED
      BY <3>1, <3>2
  <2> QED
    BY <2>1, <2>2
<1> DEFINE k == CHOOSE g : Eq(g)
<1>6. Eq(k)
  BY <1>5
<1>7. Those(q, S) = k[n]
  BY DEF Those, n
<1> HIDE DEF k
<1>8. k[0] = <<>> /\ DOMAIN k = 0..n
  BY <1>1, <1>6
<1>9. ASSUME NEW i \in 1..n
      PROVE  k[i] = IF q[i] \in S THEN Append(k[i - 1], q[i]) ELSE k[i - 1]
  <2>1. i \in 0..n /\ i # 0
    BY <1>1
  <2> QED
    BY <1>6, <2>1
<1>10. \A i \in 0..n : k[i] = f[i]
  <2> DEFINE T == {i \in 0..n : k[i] = f[i]}
  <2>1. 0 \in T
    BY <1>1, <1>3, <1>8 DEF v
  <2>2. ASSUME NEW i \in 1..n, i - 1 \in T PROVE i \in T
    BY <1>1, <1>4, <1>9, <2>2
  <2> HIDE DEF T
  <2>3. 0..n \subseteq T
    BY <1>1, <2>1, <2>2, InductionUpTo
  <2> QED
    BY <2>3 DEF T
<1>11. k \in [0..n -> V]
  <2>1. k = [i \in 0..n |-> k[i]]
    BY <1>6
  <2>2. \A i \in 0..n : k[i] \in V
    BY <1>3, <1>10
  <2> QED
    BY <2>1, <2>2
<1> QED
  BY <1>7, <1>8, <1>9, <1>11 DEF n, V, ThoseSteps

\* Those keeps exactly the elements of S, each as often as before.
LEMMA ThoseKept ==
  ASSUME NEW A, NEW S, NEW q \in Seq(A)
  PROVE  /\ Those(q, S) \in Seq(A)
         /\ Range(Those(q, S)) = Range(q) \cap S
         /\ Len(Those(q, S)) <= Len(q)
         /\ IsInjective(q) => IsInjective(Those(q, S))
<1>0. PICK k : ThoseSteps(k, A, S, q)
  BY ThoseByElement
<1>1. /\ k \in [0..Len(q) -> Seq(A \cap S)]
      /\ k[0] = <<>>
      /\ \A i \in 1..Len(q) :
           k[i] = IF q[i] \in S THEN Append(k[i - 1], q[i]) ELSE k[i - 1]
      /\ Those(q, S) = k[Len(q)]
  BY <1>0 DEF ThoseSteps
<1> DEFINE n == Len(q)
           Sound(i) == /\ Range(k[i]) = {q[j] : j \in 1..i} \cap S
                       /\ Len(k[i]) <= i
                       /\ IsInjective(q) => IsInjective(k[i])
           T == {i \in 0..n : Sound(i)}
<1>2. n \in Nat /\ DOMAIN q = 1..n
  OBVIOUS
<1>3. 0 \in T
  <2>1. k[0] = <<>> /\ DOMAIN <<>> = {}
    BY <1>1
  <2> QED
    BY <1>2, <2>1 DEF Range, IsInjective
<1>4. ASSUME NEW i \in 1..n, i - 1 \in T PROVE i \in T
  <2> DEFINE b == k[i - 1]
             x == q[i]
  <2>1. b \in Seq(A \cap S) /\ x \in A
    BY <1>1, <1>2
  <2>2. /\ Range(b) = {q[j] : j \in 1..(i - 1)} \cap S
        /\ Len(b) <= i - 1
        /\ IsInjective(q) => IsInjective(b)
    BY <1>4
  <2>3. {q[j] : j \in 1..i} = {q[j] : j \in 1..(i - 1)} \cup {x}
    OBVIOUS
  <2>4. CASE x \notin S
    <3>1. k[i] = b
      BY <1>1, <2>4
    <3> QED
      BY <1>2, <2>1, <2>2, <2>3, <2>4, <3>1
  <2>5. CASE x \in S
    <3>1. k[i] = Append(b, x)
      BY <1>1, <2>5
    <3> HIDE DEF b, x
    <3>2. /\ Len(k[i]) = Len(b) + 1 /\ DOMAIN k[i] = 1..(Len(b) + 1)
          /\ k[i][Len(b) + 1] = x
          /\ \A j \in 1..Len(b) : k[i][j] = b[j]
          /\ Len(b) \in Nat /\ DOMAIN b = 1..Len(b)
      BY <2>1, <2>5, <3>1
    <3>3. Range(k[i]) = Range(b) \cup {x}
      <4>1. Range(k[i]) = {k[i][j] : j \in 1..(Len(b) + 1)} /\ Range(b) = {b[j] : j \in 1..Len(b)}
        BY <3>2 DEF Range
      <4>2. 1..(Len(b) + 1) = (1..Len(b)) \cup {Len(b) + 1}
        BY <3>2
      <4>3. Range(k[i]) = {k[i][j] : j \in 1..Len(b)} \cup {k[i][Len(b) + 1]}
        BY <4>1, <4>2
      <4>4. {k[i][j] : j \in 1..Len(b)} = {b[j] : j \in 1..Len(b)}
        BY <3>2
      <4> QED
        BY <3>2, <4>1, <4>3, <4>4
    <3>4. IsInjective(q) => x \notin Range(b)
      <4>1. SUFFICES ASSUME IsInjective(q), x \in Range(b) PROVE FALSE
        OBVIOUS
      <4>2. PICK j \in 1..(i - 1) : q[j] = x
        BY <2>2, <4>1
      <4>3. j \in DOMAIN q /\ i \in DOMAIN q /\ q[i] = x
        BY <1>2 DEF x
      <4> QED
        BY <4>1, <4>2, <4>3 DEF IsInjective
    <3>5. IsInjective(q) => IsInjective(k[i])
      <4>1. SUFFICES ASSUME IsInjective(q), NEW a \in 1..(Len(b) + 1), NEW c \in 1..(Len(b) + 1),
                            k[i][a] = k[i][c]
                     PROVE  a = c
        BY <3>2 DEF IsInjective
      <4>2. \A j \in 1..Len(b) : b[j] # x
        BY <3>2, <3>4, <4>1 DEF Range
      <4>3. CASE a <= Len(b) /\ c <= Len(b)
        <5>1. a \in DOMAIN b /\ c \in DOMAIN b /\ b[a] = b[c]
          BY <3>2, <4>1, <4>3
        <5> QED
          BY <2>2, <4>1, <5>1 DEF IsInjective
      <4>4. CASE a > Len(b) \/ c > Len(b)
        BY <3>2, <4>1, <4>2, <4>4
      <4> QED
        BY <3>2, <4>3, <4>4
    <3>6. Range(k[i]) = {q[j] : j \in 1..i} \cap S
      BY <2>2, <2>3, <2>5, <3>3
    <3>7. Len(k[i]) <= i
      BY <1>2, <2>2, <3>2
    <3> QED
      BY <1>2, <3>5, <3>6, <3>7
  <2> QED
    BY <2>4, <2>5
<1> HIDE DEF T
<1>5. 0..n \subseteq T
  BY <1>2, <1>3, <1>4, InductionUpTo
<1>6. Sound(n)
  <2>1. n \in T
    BY <1>2, <1>5
  <2> HIDE DEF Sound
  <2> QED
    BY <2>1 DEF T
<1>7. {q[j] : j \in 1..n} = Range(q)
  BY <1>2 DEF Range
<1>8. k[n] \in Seq(A)
  BY <1>1, <1>2
<1> QED
  BY <1>1, <1>6, <1>7, <1>8

-----------------------------------------------------------------------------
(***************************************************************************)
(* Those of a longer queue, of a selection, and for a larger set.          *)
(***************************************************************************)
LEMMA ThoseOfAppend ==
  ASSUME NEW A, NEW S, NEW q \in Seq(A), NEW x \in A
  PROVE  /\ Those(<<>>, S) = <<>>
         /\ Those(Append(q, x), S) = IF x \in S THEN Append(Those(q, S), x) ELSE Those(q, S)
<1> DEFINE r == Append(q, x)
           n == Len(q)
<1>1. /\ r \in Seq(A) /\ Len(r) = n + 1 /\ r[n + 1] = x /\ n \in Nat
      /\ \A i \in 1..n : r[i] = q[i]
  OBVIOUS
<1>2. <<>> \in Seq(A) /\ Len(<<>>) = 0
  OBVIOUS
<1>3. Those(<<>>, S) = <<>>
  <2>1. PICK e : ThoseSteps(e, A, S, <<>>)
    BY <1>2, ThoseByElement
  <2> QED
    BY <1>2, <2>1 DEF ThoseSteps
<1> HIDE DEF r
<1>4. PICK k : ThoseSteps(k, A, S, q)
  BY ThoseByElement
<1>5. PICK m : ThoseSteps(m, A, S, r)
  BY <1>1, ThoseByElement
<1> DEFINE T == {i \in 0..n : k[i] = m[i]}
<1>6. 0 \in T
  BY <1>1, <1>4, <1>5 DEF ThoseSteps
<1>7. ASSUME NEW i \in 1..n, i - 1 \in T PROVE i \in T
  <2>1. i \in 1..Len(r) /\ r[i] = q[i]
    BY <1>1
  <2>2. k[i] = IF q[i] \in S THEN Append(k[i - 1], q[i]) ELSE k[i - 1]
    BY <1>4 DEF ThoseSteps
  <2>3. m[i] = IF r[i] \in S THEN Append(m[i - 1], r[i]) ELSE m[i - 1]
    BY <1>5, <2>1 DEF ThoseSteps
  <2> QED
    BY <1>1, <1>7, <2>1, <2>2, <2>3
<1> HIDE DEF T
<1>8. 0..n \subseteq T
  BY <1>1, <1>6, <1>7, InductionUpTo
<1>9. k[n] = m[n]
  BY <1>1, <1>8 DEF T
<1>10. m[n + 1] = IF x \in S THEN Append(m[n], x) ELSE m[n]
  <2>1. n + 1 \in 1..Len(r) /\ (n + 1) - 1 = n
    BY <1>1
  <2> QED
    BY <1>1, <1>5, <2>1 DEF ThoseSteps
<1>11. Those(q, S) = k[n] /\ Those(r, S) = m[n + 1]
  BY <1>1, <1>4, <1>5 DEF ThoseSteps
<1>12. Those(r, S) = IF x \in S THEN Append(Those(q, S), x) ELSE Those(q, S)
  BY <1>9, <1>10, <1>11
<1> QED
  BY <1>3, <1>12 DEF r

\* Where the kept elements were: c says of each its place in the queue.
Places(c, S, q) ==
  /\ Len(c) = Len(Those(q, S))
  /\ \A k \in 1..Len(c) : c[k] \in 1..Len(q) /\ q[c[k]] \in S /\ Those(q, S)[k] = q[c[k]]
  /\ \A i \in 1..Len(q) : q[i] \in S => \E k \in 1..Len(c) : c[k] = i
  /\ \A k, l \in 1..Len(c) : k < l => c[k] < c[l]

LEMMA PlacesOfAppend ==
  ASSUME NEW A, NEW S, NEW q \in Seq(A), NEW x \in A, NEW c \in Seq(Nat), Places(c, S, q)
  PROVE  \E d \in Seq(Nat) : Places(d, S, Append(q, x))
<1> DEFINE r == Append(q, x)
           t == Those(q, S)
           u == Those(r, S)
<1>1. /\ r \in Seq(A) /\ Len(r) = Len(q) + 1 /\ r[Len(q) + 1] = x /\ Len(q) \in Nat
      /\ \A i \in 1..Len(q) : r[i] = q[i]
  OBVIOUS
<1>2. t \in Seq(A) /\ u = IF x \in S THEN Append(t, x) ELSE t
  BY ThoseKept, ThoseOfAppend
<1>3. /\ Len(c) = Len(t) /\ Len(c) \in Nat
      /\ \A k \in 1..Len(c) : c[k] \in 1..Len(q) /\ q[c[k]] \in S /\ t[k] = q[c[k]]
      /\ \A i \in 1..Len(q) : q[i] \in S => \E k \in 1..Len(c) : c[k] = i
      /\ \A k, l \in 1..Len(c) : k < l => c[k] < c[l]
  BY DEF Places
<1> HIDE DEF r, t, u
<1>4. \A k \in 1..Len(c) : c[k] \in 1..Len(r) /\ r[c[k]] = q[c[k]]
  BY <1>1, <1>3
<1>5. \A i \in 1..Len(r) : i \in 1..Len(q) \/ i = Len(q) + 1
  BY <1>1
<1>6. CASE x \notin S
  <2>1. u = t
    BY <1>2, <1>6
  <2>2. \A i \in 1..Len(r) : r[i] \in S => i \in 1..Len(q) /\ q[i] \in S
    BY <1>1, <1>5, <1>6
  <2>3. Places(c, S, r)
    BY <1>3, <1>4, <2>1, <2>2 DEF Places, u
  <2> QED
    BY <2>3 DEF r
<1>7. CASE x \in S
  <2> DEFINE d == Append(c, Len(q) + 1)
  <2>1. /\ d \in Seq(Nat) /\ Len(d) = Len(c) + 1 /\ d[Len(c) + 1] = Len(q) + 1
        /\ \A k \in 1..Len(c) : d[k] = c[k]
    BY <1>1, <1>3
  <2> HIDE DEF d
  <2>2. /\ Len(u) = Len(t) + 1 /\ u[Len(t) + 1] = x
        /\ \A k \in 1..Len(t) : u[k] = t[k]
    BY <1>2, <1>7
  <2>3. \A k \in 1..Len(d) : k \in 1..Len(c) \/ k = Len(c) + 1
    BY <1>3, <2>1
  <2>4. ASSUME NEW k \in 1..Len(d) PROVE d[k] \in 1..Len(r) /\ r[d[k]] \in S /\ u[k] = r[d[k]]
    <3>1. CASE k \in 1..Len(c)
      <4>1. /\ c[k] \in 1..Len(q) /\ q[c[k]] \in S /\ t[k] = q[c[k]]
            /\ d[k] = c[k]
        BY <1>3, <2>1, <3>1
      <4>2. u[k] = t[k]
        BY <1>3, <2>2, <3>1
      <4>3. r[c[k]] = q[c[k]] /\ c[k] \in 1..Len(r)
        BY <1>1, <4>1
      <4> QED
        BY <4>1, <4>2, <4>3
    <3>2. CASE k = Len(c) + 1
      BY <1>1, <1>3, <1>7, <2>1, <2>2, <3>2
    <3> QED
      BY <2>3, <3>1, <3>2
  <2>5. ASSUME NEW i \in 1..Len(r), r[i] \in S PROVE \E k \in 1..Len(d) : d[k] = i
    <3>1. CASE i \in 1..Len(q)
      <4>1. PICK k \in 1..Len(c) : c[k] = i
        <5>1. q[i] \in S
          BY <1>1, <2>5, <3>1
        <5> QED
          BY <1>3, <3>1, <5>1
      <4>2. k \in 1..Len(d) /\ d[k] = i
        BY <1>3, <2>1, <4>1
      <4> QED
        BY <4>2
    <3>2. CASE i = Len(q) + 1
      <4>1. Len(c) + 1 \in 1..Len(d) /\ d[Len(c) + 1] = i
        BY <1>3, <2>1, <3>2
      <4> QED
        BY <4>1
    <3> QED
      BY <1>5, <3>1, <3>2
  <2>6. ASSUME NEW k \in 1..Len(d), NEW l \in 1..Len(d), k < l PROVE d[k] < d[l]
    <3>1. k \in 1..Len(c)
      BY <1>3, <2>1, <2>6
    <3>2. CASE l \in 1..Len(c)
      <4>1. c[k] < c[l]
        BY <1>3, <2>6, <3>1, <3>2
      <4>2. d[k] = c[k] /\ d[l] = c[l]
        BY <2>1, <3>1, <3>2
      <4> QED
        BY <4>1, <4>2
    <3>3. CASE l = Len(c) + 1
      <4>1. c[k] \in 1..Len(q)
        BY <1>3, <3>1
      <4>2. d[k] = c[k] /\ d[l] = Len(q) + 1
        BY <2>1, <3>1, <3>3
      <4> QED
        BY <1>1, <4>1, <4>2
    <3> QED
      BY <2>3, <3>2, <3>3
  <2>7. Len(d) = Len(u)
    BY <1>3, <2>1, <2>2
  <2>8. Places(d, S, r)
    BY <2>4, <2>5, <2>6, <2>7 DEF Places, u
  <2> QED
    BY <2>1, <2>8 DEF r
<1> QED
  BY <1>6, <1>7

LEMMA ThoseByPlace ==
  ASSUME NEW A, NEW S, NEW q \in Seq(A)
  PROVE  \E c \in Seq(Nat) : Places(c, S, q)
<1> DEFINE T == {n \in Nat : \A p \in Seq(A) : Len(p) = n => \E c \in Seq(Nat) : Places(c, S, p)}
<1>1. 0 \in T
  <2> SUFFICES ASSUME NEW p \in Seq(A), Len(p) = 0 PROVE \E c \in Seq(Nat) : Places(c, S, p)
    OBVIOUS
  <2>1. p = <<>> /\ <<>> \in Seq(Nat) /\ Len(<<>>) = 0
    OBVIOUS
  <2>2. Those(p, S) = <<>>
    <3>1. Those(p, S) \in Seq(A) /\ Len(Those(p, S)) <= Len(p)
      BY ThoseKept
    <3>2. PICK t : t = Those(p, S)
      OBVIOUS
    <3>3. t \in Seq(A) /\ Len(t) <= 0
      BY <2>1, <3>1, <3>2
    <3>4. t = <<>>
      BY <3>3
    <3> QED
      BY <3>2, <3>4
  <2>3. Places(<<>>, S, p)
    BY <2>1, <2>2 DEF Places
  <2> QED
    BY <2>1, <2>3
<1>2. ASSUME NEW n \in Nat, n \in T PROVE n + 1 \in T
  <2> SUFFICES ASSUME NEW p \in Seq(A), Len(p) = n + 1 PROVE \E c \in Seq(Nat) : Places(c, S, p)
    OBVIOUS
  <2> DEFINE f == SubSeq(p, 1, n)
  <2>1. f \in Seq(A) /\ Len(f) = n /\ p[n + 1] \in A
    OBVIOUS
  <2>2. p = Append(f, p[n + 1])
    OBVIOUS
  <2> HIDE DEF f
  <2>3. PICK c \in Seq(Nat) : Places(c, S, f)
    BY <1>2, <2>1
  <2>4. \E d \in Seq(Nat) : Places(d, S, Append(f, p[n + 1]))
    BY <2>1, <2>3, PlacesOfAppend
  <2> QED
    BY <2>2, <2>4
<1> HIDE DEF T
<1>3. Len(q) \in T
  BY <1>1, <1>2, Induction
<1> QED
  BY <1>3 DEF T

\* Selecting twice is selecting once, from the larger set first.
LEMMA ThoseOfThose ==
  ASSUME NEW A, NEW S, NEW R, R \subseteq S, NEW q \in Seq(A)
  PROVE  Those(Those(q, S), R) = Those(q, R)
<1> DEFINE n == Len(q)
<1>0. n \in Nat /\ \A i \in 1..n : q[i] \in A
  OBVIOUS
<1>1. PICK k : ThoseSteps(k, A, S, q)
  BY ThoseByElement
<1>2. PICK m : ThoseSteps(m, A, R, q)
  BY ThoseByElement
<1>3. \A i \in 0..n : k[i] \in Seq(A \cap S)
  BY <1>1 DEF ThoseSteps
<1> DEFINE T == {i \in 0..n : Those(k[i], R) = m[i]}
<1>4. 0 \in T
  <2>1. k[0] = <<>> /\ m[0] = <<>>
    BY <1>1, <1>2 DEF ThoseSteps
  <2>2. Those(<<>>, R) = <<>>
    <3>1. CASE n = 0
      <4>1. q = <<>> /\ Those(q, R) = m[0]
        BY <1>2, <3>1 DEF ThoseSteps
      <4> QED
        BY <2>1, <4>1
    <3>2. CASE n # 0
      <4>1. q[1] \in A
        BY <1>0, <3>2
      <4> QED
        BY <4>1, ThoseOfAppend
    <3> QED
      BY <3>1, <3>2
  <2> QED
    BY <1>0, <2>1, <2>2
<1>5. ASSUME NEW i \in 1..n, i - 1 \in T PROVE i \in T
  <2>1. i - 1 \in 0..n /\ q[i] \in A /\ Those(k[i - 1], R) = m[i - 1]
    BY <1>0, <1>5
  <2>2. k[i] = IF q[i] \in S THEN Append(k[i - 1], q[i]) ELSE k[i - 1]
    BY <1>1 DEF ThoseSteps
  <2>3. m[i] = IF q[i] \in R THEN Append(m[i - 1], q[i]) ELSE m[i - 1]
    BY <1>2 DEF ThoseSteps
  <2>4. CASE q[i] \in S
    <3>1. q[i] \in A \cap S /\ k[i - 1] \in Seq(A \cap S)
      BY <1>3, <2>1, <2>4
    <3>2. Those(Append(k[i - 1], q[i]), R)
            = IF q[i] \in R THEN Append(Those(k[i - 1], R), q[i]) ELSE Those(k[i - 1], R)
      <4> DEFINE B == A \cap S
                 p == k[i - 1]
                 x == q[i]
      <4>1. x \in B /\ p \in Seq(B)
        BY <3>1
      <4> HIDE DEF B, p, x
      <4>2. Those(Append(p, x), R) = IF x \in R THEN Append(Those(p, R), x) ELSE Those(p, R)
        BY <4>1, ThoseOfAppend
      <4> QED
        BY <4>2 DEF p, x
    <3>3. Those(k[i], R) = m[i]
      BY <2>1, <2>2, <2>3, <2>4, <3>2
    <3> QED
      BY <1>0, <3>3
  <2>5. CASE q[i] \notin S
    <3>1. q[i] \notin R
      BY <2>5
    <3>2. Those(k[i], R) = m[i]
      BY <2>1, <2>2, <2>3, <2>5, <3>1
    <3> QED
      BY <1>0, <3>2
  <2> QED
    BY <2>4, <2>5
<1> HIDE DEF T
<1>6. 0..n \subseteq T
  BY <1>0, <1>4, <1>5, InductionUpTo
<1>7. Those(k[n], R) = m[n]
  BY <1>0, <1>6 DEF T
<1> QED
  BY <1>1, <1>2, <1>7 DEF ThoseSteps

\* A larger set keeps at least as many.
LEMMA ThoseGrow ==
  ASSUME NEW A, NEW S, NEW R, R \subseteq S, NEW q \in Seq(A)
  PROVE  /\ Len(Those(q, R)) \in Nat /\ Len(Those(q, S)) \in Nat
         /\ Len(Those(q, R)) <= Len(Those(q, S))
<1>1. Those(q, S) \in Seq(A) /\ Those(q, R) \in Seq(A)
  BY ThoseKept
<1>2. Len(Those(Those(q, S), R)) <= Len(Those(q, S))
  BY <1>1, ThoseKept
<1>3. Those(Those(q, S), R) = Those(q, R)
  BY ThoseOfThose
<1> QED
  BY <1>1, <1>2, <1>3

-----------------------------------------------------------------------------
\* R orders the elements of A the way comparing their keys does.
KeyOrder(R, A) ==
  /\ \A x, y \in A : <<x, y>> \in R => <<y, x>> \notin R
  /\ \A x, y, z \in A : <<x, y>> \in R => <<x, z>> \in R \/ <<z, y>> \in R

\* Positions are ordered totally, ties by where they are.
LEMMA PrecedesTotally ==
  ASSUME NEW A, NEW q \in Seq(A), NEW R, KeyOrder(R, A),
         NEW i \in DOMAIN q, NEW j \in DOMAIN q, NEW l \in DOMAIN q
  PROVE  /\ ~Precedes(q, R, i, i)
         /\ i # j => Precedes(q, R, i, j) \/ Precedes(q, R, j, i)
         /\ Precedes(q, R, i, j) /\ Precedes(q, R, j, l) => Precedes(q, R, i, l)
<1>1. DOMAIN q = 1..Len(q) /\ Len(q) \in Nat
  OBVIOUS
<1>2. q[i] \in A /\ q[j] \in A /\ q[l] \in A /\ i \in Int /\ j \in Int /\ l \in Int
  BY <1>1
<1>3. ~Precedes(q, R, i, i)
  BY <1>2 DEF Precedes, KeyOrder
<1>4. i # j => Precedes(q, R, i, j) \/ Precedes(q, R, j, i)
  BY <1>2 DEF Precedes, KeyOrder
<1>5. Precedes(q, R, i, j) /\ Precedes(q, R, j, l) => Precedes(q, R, i, l)
  BY <1>2 DEF Precedes, KeyOrder
<1> QED
  BY <1>3, <1>4, <1>5

\* Each position has its own number of positions before it.
LEMMA EarlierCounts ==
  ASSUME NEW A, NEW q \in Seq(A), NEW R, KeyOrder(R, A)
  PROVE  /\ \A i \in DOMAIN q : /\ Cardinality(Earlier(q, R, i)) \in 0..(Len(q) - 1)
                                /\ IsFiniteSet(Earlier(q, R, i))
         /\ \A i, j \in DOMAIN q :
              Cardinality(Earlier(q, R, i)) = Cardinality(Earlier(q, R, j)) => i = j
         /\ \A i, j \in DOMAIN q :
              Precedes(q, R, i, j) => Cardinality(Earlier(q, R, i)) < Cardinality(Earlier(q, R, j))
<1>1. /\ DOMAIN q = 1..Len(q) /\ Len(q) \in Nat
      /\ IsFiniteSet(DOMAIN q) /\ Cardinality(DOMAIN q) = Len(q)
  <2>1. DOMAIN q = 1..Len(q) /\ Len(q) \in Nat
    OBVIOUS
  <2>2. PICK n : n = Len(q)
    OBVIOUS
  <2>3. n \in Nat /\ IsFiniteSet(1..n) /\ Cardinality(1..n) = n
    <3>1. n \in Nat
      BY <2>1, <2>2
    <3>2. IsFiniteSet(1..n) /\ Cardinality(1..n) = IF 1 > n THEN 0 ELSE n - 1 + 1
      BY <3>1, FS_Interval
    <3> QED
      BY <3>1, <3>2
  <2> QED
    BY <2>1, <2>2, <2>3
<1>2. ASSUME NEW i \in DOMAIN q
      PROVE  /\ Cardinality(Earlier(q, R, i)) \in 0..(Len(q) - 1)
             /\ IsFiniteSet(Earlier(q, R, i))
  <2>1. Earlier(q, R, i) \subseteq DOMAIN q \ {i}
    BY PrecedesTotally DEF Earlier
  <2>2. IsFiniteSet(DOMAIN q \ {i}) /\ Cardinality(DOMAIN q \ {i}) = Len(q) - 1
    BY <1>1, FS_RemoveElement
  <2>3. /\ IsFiniteSet(Earlier(q, R, i))
        /\ Cardinality(Earlier(q, R, i)) <= Len(q) - 1
    BY <2>1, <2>2, FS_Subset
  <2>4. Cardinality(Earlier(q, R, i)) \in Nat
    BY <2>3, FS_CardinalityType
  <2> QED
    BY <1>1, <2>3, <2>4
<1>3. ASSUME NEW i \in DOMAIN q, NEW j \in DOMAIN q, Precedes(q, R, i, j)
      PROVE  Cardinality(Earlier(q, R, i)) < Cardinality(Earlier(q, R, j))
  <2>1. Earlier(q, R, i) \subseteq Earlier(q, R, j)
    BY <1>3, PrecedesTotally DEF Earlier
  <2>2. i \in Earlier(q, R, j) /\ i \notin Earlier(q, R, i)
    BY <1>3, PrecedesTotally DEF Earlier
  <2>3. /\ Cardinality(Earlier(q, R, i)) <= Cardinality(Earlier(q, R, j))
        /\ Cardinality(Earlier(q, R, i)) # Cardinality(Earlier(q, R, j))
    BY <1>2, <2>1, <2>2, FS_Subset
  <2> QED
    BY <1>2, <2>3
<1>4. ASSUME NEW i \in DOMAIN q, NEW j \in DOMAIN q, i # j
      PROVE  Cardinality(Earlier(q, R, i)) # Cardinality(Earlier(q, R, j))
  <2>1. Precedes(q, R, i, j) \/ Precedes(q, R, j, i)
    BY <1>4, PrecedesTotally
  <2> QED
    BY <1>1, <1>2, <1>3, <2>1
<1> QED
  BY <1>2, <1>3, <1>4

\* Where the sorted elements were: f says of each its place in the queue.
SortedFrom(f, q, R) ==
  LET D == 1..Len(q)
  IN /\ f \in [D -> D]
     /\ \A k, m \in D : f[k] = f[m] => k = m
     /\ \A i \in D : \E k \in D : f[k] = i
     /\ \A k \in D : Sorted(q, R)[k] = q[f[k]]
     /\ \A k, m \in D : k < m => Precedes(q, R, f[k], f[m])
     /\ DOMAIN Sorted(q, R) = D

LEMMA SortedPlaces ==
  ASSUME NEW A, NEW q \in Seq(A), NEW R, KeyOrder(R, A)
  PROVE  \E f : SortedFrom(f, q, R)
<1> DEFINE n == Len(q)
           D == 1..n
           place == [i \in D |-> Cardinality(Earlier(q, R, i)) + 1]
           at(k) == CHOOSE i \in D : Cardinality(Earlier(q, R, i)) = k - 1
<1>1. DOMAIN q = D /\ n \in Nat /\ IsFiniteSet(D)
  <2>1. DOMAIN q = D /\ n \in Nat
    OBVIOUS
  <2> QED
    BY <2>1, FS_Interval
<1>2. /\ \A i \in D : Cardinality(Earlier(q, R, i)) \in 0..(n - 1)
      /\ \A i, j \in D :
           Cardinality(Earlier(q, R, i)) = Cardinality(Earlier(q, R, j)) => i = j
  BY <1>1, EarlierCounts
<1>3. place \in [D -> D]
  BY <1>1, <1>2
<1>4. place \in Injection(D, D)
  <2>1. IsInjective(place)
    <3>1. SUFFICES ASSUME NEW i \in D, NEW j \in D, place[i] = place[j] PROVE i = j
      BY <1>3 DEF IsInjective
    <3>2. Cardinality(Earlier(q, R, i)) = Cardinality(Earlier(q, R, j))
      BY <1>2, <3>1
    <3> QED
      BY <1>2, <3>2
  <2> HIDE DEF place
  <2> QED
    BY <1>3, <2>1 DEF Injection
<1>5. place \in Surjection(D, D)
  <2> HIDE DEF place, D
  <2> QED
    BY <1>1, <1>4, FS_Injection
<1>6. ASSUME NEW k \in D
      PROVE  /\ at(k) \in D
             /\ Cardinality(Earlier(q, R, at(k))) = k - 1
  <2>1. \E i \in D : place[i] = k
    <3> HIDE DEF place, D
    <3> QED
      BY <1>5 DEF Surjection
  <2>2. \E i \in D : Cardinality(Earlier(q, R, i)) = k - 1
    BY <1>2, <2>1
  <2> QED
    BY <2>2
<1>7. Sorted(q, R) = [k \in D |-> q[at(k)]]
  BY <1>1 DEF Sorted
<1> HIDE DEF at, place
<1>10. ASSUME NEW i \in D PROVE \E k \in D : at(k) = i
  <2>1. Cardinality(Earlier(q, R, i)) + 1 \in D
    BY <1>1, <1>2
  <2>2. Cardinality(Earlier(q, R, at(Cardinality(Earlier(q, R, i)) + 1)))
          = Cardinality(Earlier(q, R, i))
    BY <1>2, <1>6, <2>1
  <2> QED
    BY <1>2, <1>6, <2>1, <2>2
<1>11. PICK f : f = [k \in D |-> at(k)]
  OBVIOUS
<1>12. f \in [D -> D] /\ \A k \in D : f[k] = at(k)
  BY <1>6, <1>11
<1>13. ASSUME NEW k \in D, NEW m \in D, f[k] = f[m] PROVE k = m
  <2>1. k - 1 = m - 1
    BY <1>6, <1>12, <1>13
  <2> QED
    BY <1>1, <2>1
<1>14. ASSUME NEW k \in D, NEW m \in D, k < m PROVE Precedes(q, R, f[k], f[m])
  <2>1. f[k] \in DOMAIN q /\ f[m] \in DOMAIN q /\ f[k] # f[m]
    BY <1>1, <1>12, <1>13, <1>14
  <2>2. Precedes(q, R, f[k], f[m]) \/ Precedes(q, R, f[m], f[k])
    BY <2>1, PrecedesTotally
  <2>3. Precedes(q, R, f[m], f[k]) => m - 1 < k - 1
    <3>1. Precedes(q, R, f[m], f[k])
            => Cardinality(Earlier(q, R, f[m])) < Cardinality(Earlier(q, R, f[k]))
      BY <2>1, EarlierCounts
    <3>2. /\ Cardinality(Earlier(q, R, f[m])) = m - 1
          /\ Cardinality(Earlier(q, R, f[k])) = k - 1
      BY <1>6, <1>12
    <3> QED
      BY <3>1, <3>2
  <2> QED
    BY <1>1, <1>14, <2>2, <2>3
<1>15. \A k \in D : Sorted(q, R)[k] = q[f[k]]
  BY <1>7, <1>12
<1>16. \A i \in D : \E k \in D : f[k] = i
  BY <1>10, <1>12
<1>17. DOMAIN Sorted(q, R) = D
  BY <1>7
<1> HIDE DEF n
<1> QED
  BY <1>12, <1>13, <1>14, <1>15, <1>16, <1>17 DEF SortedFrom, n

\* Sorting moves the elements and changes nothing else.
LEMMA SortedKeeps ==
  ASSUME NEW A, NEW q \in Seq(A), NEW R, KeyOrder(R, A)
  PROVE  /\ Sorted(q, R) \in Seq(A)
         /\ Len(Sorted(q, R)) = Len(q)
         /\ Range(Sorted(q, R)) = Range(q)
         /\ IsInjective(q) => IsInjective(Sorted(q, R))
<1>1. PICK f : SortedFrom(f, q, R)
  BY SortedPlaces
<1> DEFINE n == Len(q)
           D == 1..n
<1>2. DOMAIN q = D /\ n \in Nat
  OBVIOUS
<1>3. /\ \A k \in D : f[k] \in D /\ Sorted(q, R)[k] = q[f[k]]
      /\ \A k, m \in D : f[k] = f[m] => k = m
      /\ \A i \in D : \E k \in D : f[k] = i
      /\ DOMAIN Sorted(q, R) = D
  BY <1>1 DEF SortedFrom
<1>4. PICK s : s = Sorted(q, R)
  OBVIOUS
<1>5. /\ DOMAIN s = D /\ DOMAIN q = D
      /\ \A k \in D : f[k] \in D /\ s[k] = q[f[k]]
      /\ \A k, m \in D : f[k] = f[m] => k = m
      /\ \A i \in D : \E k \in D : f[k] = i
  BY <1>2, <1>3, <1>4
<1>6. s = [k \in D |-> s[k]]
  <2>1. s = [k \in D |-> q[CHOOSE i \in D : Cardinality(Earlier(q, R, i)) = k - 1]]
    BY <1>2, <1>4 DEF Sorted
  <2> QED
    BY <2>1
<1>7. \A k \in D : s[k] \in A
  <2>1. \A i \in D : q[i] \in A
    BY <1>2
  <2> QED
    BY <1>5, <2>1
<1> HIDE DEF D
<1>8. s \in [D -> A]
  BY <1>6, <1>7
<1> HIDE DEF n
<1>9. s \in Seq(A) /\ Len(s) = n
  <2>1. s \in [1..n -> A]
    BY <1>8 DEF D
  <2> QED
    BY <1>2, <2>1
<1>10. Range(s) = Range(q)
  <2>1. Range(s) = {s[k] : k \in D} /\ Range(q) = {q[i] : i \in D}
    BY <1>5 DEF Range
  <2>2. \A i \in D : \E k \in D : s[k] = q[i]
    BY <1>5
  <2>3. \A k \in D : \E i \in D : s[k] = q[i]
    BY <1>5
  <2> QED
    BY <2>1, <2>2, <2>3
<1>11. ASSUME IsInjective(q) PROVE IsInjective(s)
  <2>1. ASSUME NEW k \in D, NEW m \in D, s[k] = s[m] PROVE k = m
    <3>1. q[f[k]] = q[f[m]] /\ f[k] \in DOMAIN q /\ f[m] \in DOMAIN q
      BY <1>5, <2>1
    <3>2. f[k] = f[m]
      BY <1>11, <3>1 DEF IsInjective
    <3> QED
      BY <1>5, <3>2
  <2> QED
    BY <1>5, <2>1 DEF IsInjective
<1> QED
  BY <1>4, <1>9, <1>10, <1>11 DEF n

-----------------------------------------------------------------------------
\* Total as it is computed.
TotalSteps(k, q) ==
  /\ k \in [0..Len(q) -> Nat] /\ k[0] = 0
  /\ \A i \in 1..Len(q) : k[i] = k[i - 1] + q[i]
  /\ Total(q) = k[Len(q)]

LEMMA TotalByElement ==
  ASSUME NEW q \in Seq(Nat)
  PROVE  \E k : TotalSteps(k, q)
<1> DEFINE n == Len(q)
           G == [p \in (1..n) \X Nat |-> p[2] + q[p[1]]]
           Eq(k) == k = [i \in 0..n |-> IF i = 0 THEN 0 ELSE k[i - 1] + q[i]]
<1>1. n \in Nat /\ \A i \in 1..n : q[i] \in Nat
  OBVIOUS
<1>2. G \in [(1..n) \X Nat -> Nat]
  <2>1. ASSUME NEW p \in (1..n) \X Nat PROVE p[2] + q[p[1]] \in Nat
    BY <1>1
  <2> QED
    BY <2>1
<1> HIDE DEF n, G
<1>3. PICK f : f \in [0..n -> Nat] /\ f[0] = 0 /\ \A i \in 1..n : f[i] = G[<<i, f[i - 1]>>]
  <2>1. PICK f : Iterates(f, n, Nat, 0, G)
    BY <1>1, <1>2, IterationExists
  <2> QED
    BY <2>1 DEF Iterates
<1>4. ASSUME NEW i \in 1..n PROVE f[i] = f[i - 1] + q[i]
  <2>1. i - 1 \in 0..n /\ f[i - 1] \in Nat
    BY <1>1, <1>3
  <2>2. <<i, f[i - 1]>> \in (1..n) \X Nat
    BY <2>1
  <2> QED
    BY <1>3, <2>2 DEF G
<1>5. Eq(f)
  <2>1. f = [i \in 0..n |-> f[i]]
    BY <1>3
  <2>2. ASSUME NEW i \in 0..n PROVE f[i] = IF i = 0 THEN 0 ELSE f[i - 1] + q[i]
    <3>1. CASE i = 0
      BY <1>3, <3>1
    <3>2. CASE i # 0
      <4>1. i \in 1..n
        BY <1>1, <3>2
      <4> QED
        BY <1>4, <3>2, <4>1
    <3> QED
      BY <3>1, <3>2
  <2> QED
    BY <2>1, <2>2
<1> DEFINE k == CHOOSE g : Eq(g)
<1>6. Eq(k)
  BY <1>5
<1>7. Total(q) = k[n]
  BY DEF Total, n
<1> HIDE DEF k
<1>8. k[0] = 0 /\ DOMAIN k = 0..n
  BY <1>1, <1>6
<1>9. ASSUME NEW i \in 1..n PROVE k[i] = k[i - 1] + q[i]
  <2>1. i \in 0..n /\ i # 0
    BY <1>1
  <2> QED
    BY <1>6, <2>1
<1>10. \A i \in 0..n : k[i] \in Nat
  <2> DEFINE T == {i \in 0..n : k[i] \in Nat}
  <2>1. 0 \in T
    BY <1>1, <1>8
  <2>2. ASSUME NEW i \in 1..n, i - 1 \in T PROVE i \in T
    BY <1>1, <1>9, <2>2
  <2> HIDE DEF T
  <2>3. 0..n \subseteq T
    BY <1>1, <2>1, <2>2, InductionUpTo
  <2> QED
    BY <2>3 DEF T
<1>11. k \in [0..n -> Nat]
  <2>1. k = [i \in 0..n |-> k[i]]
    BY <1>6
  <2> QED
    BY <1>10, <2>1
<1> QED
  BY <1>7, <1>8, <1>9, <1>11 DEF n, TotalSteps

\* The sum of a queue of naturals, and of one more.
LEMMA TotalOfAppend ==
  /\ Total(<<>>) = 0
  /\ \A q \in Seq(Nat) : Total(q) \in Nat
  /\ \A q \in Seq(Nat), x \in Nat : Total(Append(q, x)) = Total(q) + x
<1>1. Total(<<>>) = 0
  <2>1. <<>> \in Seq(Nat) /\ Len(<<>>) = 0
    OBVIOUS
  <2>2. PICK k : TotalSteps(k, <<>>)
    BY <2>1, TotalByElement
  <2> QED
    BY <2>1, <2>2 DEF TotalSteps
<1>2. ASSUME NEW q \in Seq(Nat) PROVE Total(q) \in Nat
  <2>1. PICK k : TotalSteps(k, q)
    BY TotalByElement
  <2> QED
    BY <2>1 DEF TotalSteps
<1>3. ASSUME NEW q \in Seq(Nat), NEW x \in Nat PROVE Total(Append(q, x)) = Total(q) + x
  <2> DEFINE r == Append(q, x)
             n == Len(q)
  <2>1. /\ r \in Seq(Nat) /\ Len(r) = n + 1 /\ r[n + 1] = x /\ n \in Nat
        /\ \A i \in 1..n : r[i] = q[i]
    OBVIOUS
  <2> HIDE DEF r
  <2>2. PICK k : TotalSteps(k, q)
    BY TotalByElement
  <2>3. PICK m : TotalSteps(m, r)
    BY <2>1, TotalByElement
  <2> DEFINE T == {i \in 0..n : k[i] = m[i]}
  <2>4. 0 \in T
    BY <2>1, <2>2, <2>3 DEF TotalSteps
  <2>5. ASSUME NEW i \in 1..n, i - 1 \in T PROVE i \in T
    BY <2>1, <2>2, <2>3, <2>5 DEF TotalSteps
  <2> HIDE DEF T
  <2>6. 0..n \subseteq T
    BY <2>1, <2>4, <2>5, InductionUpTo
  <2>7. k[n] = m[n]
    BY <2>1, <2>6 DEF T
  <2>8. m[n + 1] = m[n] + x
    <3>1. n + 1 \in 1..Len(r) /\ (n + 1) - 1 = n
      BY <2>1
    <3> QED
      BY <2>1, <2>3, <3>1 DEF TotalSteps
  <2> QED
    BY <2>1, <2>2, <2>3, <2>7, <2>8 DEF TotalSteps, r
<1> QED
  BY <1>1, <1>2, <1>3

LEMMA ScaledSum ==
  ASSUME NEW x \in Nat, NEW u \in Nat, NEW y \in Nat, NEW v \in Nat, NEW a \in Nat, NEW b \in Nat,
         x * a <= y * b, u * a <= v * b
  PROVE  (x + u) * a <= (y + v) * b
<1>1. (x + u) * a = x * a + u * a /\ (y + v) * b = y * b + v * b
  OBVIOUS
<1>2. x * a \in Nat /\ u * a \in Nat /\ y * b \in Nat /\ v * b \in Nat
  OBVIOUS
<1>3. x * a + u * a <= y * b + v * b
  BY <1>2
<1> QED
  BY <1>1, <1>3

\* What holds of every element, up to factors, holds of the sums.
LEMMA TotalsCompare ==
  ASSUME NEW p \in Seq(Nat), NEW q \in Seq(Nat), Len(p) = Len(q), NEW a \in Nat, NEW b \in Nat,
         \A i \in 1..Len(p) : p[i] * a <= q[i] * b
  PROVE  Total(p) * a <= Total(q) * b
<1> DEFINE n == Len(p)
<1>0. n \in Nat /\ n = Len(q) /\ \A i \in 1..n : p[i] \in Nat /\ q[i] \in Nat
  OBVIOUS
<1>1. PICK k : TotalSteps(k, p)
  BY TotalByElement
<1>2. PICK m : TotalSteps(m, q)
  BY TotalByElement
<1>7. /\ k[0] = 0 /\ \A i \in 0..n : k[i] \in Nat
      /\ \A i \in 1..n : k[i] = k[i - 1] + p[i]
      /\ Total(p) = k[n]
  BY <1>0, <1>1 DEF TotalSteps
<1>8. /\ m[0] = 0 /\ \A i \in 0..n : m[i] \in Nat
      /\ \A i \in 1..n : m[i] = m[i - 1] + q[i]
      /\ Total(q) = m[n]
  BY <1>0, <1>2 DEF TotalSteps
<1>9. \A i \in 1..n : p[i] * a <= q[i] * b
  OBVIOUS
<1> HIDE DEF n
<1> DEFINE T == {i \in 0..n : k[i] * a <= m[i] * b}
<1> HIDE DEF T
<1>3. 0 \in T
  BY <1>0, <1>7, <1>8 DEF T
<1>4. ASSUME NEW i \in 1..n, i - 1 \in T PROVE i \in T
  <2>0. i - 1 \in 0..n /\ i \in 0..n
    BY <1>0
  <2>1. /\ k[i] = k[i - 1] + p[i] /\ k[i - 1] \in Nat /\ p[i] \in Nat
        /\ m[i] = m[i - 1] + q[i] /\ m[i - 1] \in Nat /\ q[i] \in Nat
    BY <1>0, <1>7, <1>8, <2>0
  <2>2. k[i - 1] * a <= m[i - 1] * b
    BY <1>4 DEF T
  <2>3. p[i] * a <= q[i] * b
    BY <1>9
  <2>4. (k[i - 1] + p[i]) * a <= (m[i - 1] + q[i]) * b
    BY <2>1, <2>2, <2>3, ScaledSum
  <2>5. k[i] * a <= m[i] * b
    BY <2>1, <2>4
  <2> QED
    BY <2>0, <2>5 DEF T
<1>5. 0..n \subseteq T
  BY <1>0, <1>3, <1>4, InductionUpTo
<1>6. n \in T
  BY <1>0, <1>5
<1> QED
  BY <1>6, <1>7, <1>8 DEF T

-----------------------------------------------------------------------------
(***************************************************************************)
(* Queues without repetitions, as sets.                                    *)
(***************************************************************************)
LEMMA ContainsIsIn ==
  ASSUME NEW A, NEW q \in Seq(A), NEW x
  PROVE  /\ Contains(q, x) <=> x \in Range(q)
         /\ Range(q) \subseteq A
         /\ q # <<>> <=> Range(q) # {}
         /\ Range(q) = {q[i] : i \in 1..Len(q)}
<1>1. DOMAIN q = 1..Len(q) /\ Len(q) \in Nat
  OBVIOUS
<1>2. Range(q) = {q[i] : i \in 1..Len(q)}
  BY <1>1 DEF Range
<1>3. q # <<>> <=> Range(q) # {}
  <2>1. q # <<>> <=> Len(q) > 0
    OBVIOUS
  <2>2. Len(q) > 0 <=> 1 \in 1..Len(q)
    BY <1>1
  <2> QED
    BY <1>1, <1>2, <2>1, <2>2
<1> QED
  BY <1>1, <1>2, <1>3 DEF Contains

LEMMA AppendToQueue ==
  ASSUME NEW A, NEW q \in Seq(A), NEW x \in A
  PROVE  /\ Append(q, x) \in Seq(A)
         /\ Len(Append(q, x)) = Len(q) + 1
         /\ Range(Append(q, x)) = Range(q) \cup {x}
         /\ IsInjective(q) /\ x \notin Range(q) => IsInjective(Append(q, x))
<1> DEFINE r == Append(q, x)
           n == Len(q)
<1>1. /\ r \in Seq(A) /\ Len(r) = n + 1 /\ DOMAIN r = 1..(n + 1) /\ r[n + 1] = x
      /\ n \in Nat /\ DOMAIN q = 1..n /\ \A i \in 1..n : r[i] = q[i]
  OBVIOUS
<1> HIDE DEF r
<1>2. Range(r) = Range(q) \cup {x}
  <2>1. Range(r) = {r[i] : i \in 1..(n + 1)} /\ Range(q) = {q[i] : i \in 1..n}
    BY <1>1 DEF Range
  <2>2. 1..(n + 1) = (1..n) \cup {n + 1}
    BY <1>1
  <2> QED
    BY <1>1, <2>1, <2>2
<1>3. IsInjective(q) /\ x \notin Range(q) => IsInjective(r)
  <2>1. SUFFICES ASSUME IsInjective(q), x \notin Range(q),
                        NEW a \in 1..(n + 1), NEW c \in 1..(n + 1), r[a] = r[c]
                 PROVE  a = c
    BY <1>1 DEF IsInjective
  <2>2. \A i \in 1..n : q[i] # x
    BY <1>1, <2>1 DEF Range
  <2>3. CASE a <= n /\ c <= n
    <3>1. a \in DOMAIN q /\ c \in DOMAIN q /\ q[a] = q[c]
      BY <1>1, <2>1, <2>3
    <3> QED
      BY <2>1, <3>1 DEF IsInjective
  <2>4. CASE a > n \/ c > n
    BY <1>1, <2>1, <2>2, <2>4
  <2> QED
    BY <1>1, <2>3, <2>4
<1> QED
  BY <1>1, <1>2, <1>3 DEF r

LEMMA TailOfQueue ==
  ASSUME NEW A, NEW q \in Seq(A), q # <<>>
  PROVE  /\ Head(q) \in A /\ Head(q) \in Range(q)
         /\ Tail(q) \in Seq(A)
         /\ Len(Tail(q)) = Len(q) - 1
         /\ Range(q) = Range(Tail(q)) \cup {Head(q)}
         /\ IsInjective(q) => IsInjective(Tail(q)) /\ Head(q) \notin Range(Tail(q))
<1> DEFINE r == Tail(q)
           n == Len(q)
<1>1. /\ r \in Seq(A) /\ Len(r) = n - 1 /\ DOMAIN r = 1..(n - 1) /\ Head(q) = q[1]
      /\ n \in Nat /\ n > 0 /\ DOMAIN q = 1..n /\ \A i \in 1..(n - 1) : r[i] = q[i + 1]
      /\ q[1] \in A
  OBVIOUS
<1> HIDE DEF r
<1>2. Range(q) = Range(r) \cup {q[1]}
  <2>1. Range(r) = {q[i + 1] : i \in 1..(n - 1)} /\ Range(q) = {q[i] : i \in 1..n}
    BY <1>1 DEF Range
  <2>2. \A i \in 1..n : i = 1 \/ (i - 1 \in 1..(n - 1) /\ (i - 1) + 1 = i)
    BY <1>1
  <2>3. \A i \in 1..(n - 1) : i + 1 \in 1..n
    BY <1>1
  <2>4. 1 \in 1..n
    BY <1>1
  <2> QED
    BY <2>1, <2>2, <2>3, <2>4
<1>3. IsInjective(q) => IsInjective(r) /\ q[1] \notin Range(r)
  <2>1. SUFFICES ASSUME IsInjective(q)
                 PROVE  IsInjective(r) /\ q[1] \notin Range(r)
    OBVIOUS
  <2>2. ASSUME NEW a \in 1..(n - 1), NEW c \in 1..(n - 1), r[a] = r[c]
        PROVE  a = c
    <3>1. a + 1 \in DOMAIN q /\ c + 1 \in DOMAIN q /\ q[a + 1] = q[c + 1]
      BY <1>1, <2>2
    <3>2. a + 1 = c + 1
      BY <2>1, <3>1 DEF IsInjective
    <3> QED
      BY <1>1, <3>2
  <2>3. ASSUME NEW a \in 1..(n - 1) PROVE r[a] # q[1]
    <3>1. a + 1 \in DOMAIN q /\ 1 \in DOMAIN q /\ a + 1 # 1 /\ r[a] = q[a + 1]
      BY <1>1
    <3> QED
      BY <2>1, <3>1 DEF IsInjective
  <2> QED
    BY <1>1, <2>2, <2>3 DEF IsInjective, Range
<1> QED
  BY <1>1, <1>2, <1>3 DEF r

LEMMA ConcatOfQueues ==
  ASSUME NEW A, NEW p \in Seq(A), NEW q \in Seq(A)
  PROVE  /\ p \o q \in Seq(A)
         /\ Len(p \o q) = Len(p) + Len(q)
         /\ Range(p \o q) = Range(p) \cup Range(q)
         /\ IsInjective(p \o q) <=> /\ IsInjective(p) /\ IsInjective(q)
                                    /\ Range(p) \cap Range(q) = {}
<1> DEFINE r == p \o q
           m == Len(p)
           n == Len(q)
<1>1. /\ r \in Seq(A) /\ Len(r) = m + n /\ DOMAIN r = 1..(m + n)
      /\ m \in Nat /\ n \in Nat /\ DOMAIN p = 1..m /\ DOMAIN q = 1..n
      /\ \A i \in 1..m : r[i] = p[i]
      /\ \A i \in 1..n : r[m + i] = q[i]
  OBVIOUS
<1>2. Range(r) = Range(p) \cup Range(q)
  BY RangeConcatenation
<1> HIDE DEF r
<1>3. ASSUME IsInjective(r)
      PROVE  IsInjective(p) /\ IsInjective(q) /\ Range(p) \cap Range(q) = {}
  <2>1. IsInjective(p)
    <3>1. \A i \in 1..m : i \in DOMAIN r
      BY <1>1
    <3> QED
      BY <1>1, <1>3, <3>1 DEF IsInjective
  <2>2. IsInjective(q)
    <3>1. SUFFICES ASSUME NEW a \in 1..n, NEW c \in 1..n, q[a] = q[c] PROVE a = c
      BY <1>1 DEF IsInjective
    <3>2. m + a \in DOMAIN r /\ m + c \in DOMAIN r /\ r[m + a] = r[m + c]
      BY <1>1, <3>1
    <3>3. m + a = m + c
      BY <1>3, <3>2 DEF IsInjective
    <3> QED
      BY <1>1, <3>3
  <2>3. ASSUME NEW a \in 1..m, NEW c \in 1..n PROVE p[a] # q[c]
    <3>1. a \in DOMAIN r /\ m + c \in DOMAIN r /\ a # m + c /\ r[a] = p[a] /\ r[m + c] = q[c]
      BY <1>1
    <3> QED
      BY <1>3, <3>1 DEF IsInjective
  <2> QED
    BY <1>1, <2>1, <2>2, <2>3 DEF Range
<1>4. ASSUME IsInjective(p), IsInjective(q), Range(p) \cap Range(q) = {}
      PROVE  IsInjective(r)
  <2>1. SUFFICES ASSUME NEW a \in 1..(m + n), NEW c \in 1..(m + n), r[a] = r[c] PROVE a = c
    BY <1>1 DEF IsInjective
  <2>2. ASSUME NEW i \in 1..m, NEW j \in 1..n PROVE p[i] # q[j]
    <3>1. p[i] \in Range(p) /\ q[j] \in Range(q)
      BY <1>1 DEF Range
    <3> QED
      BY <1>4, <3>1
  <2>3. \A i \in 1..(m + n) : i \in 1..m \/ (i - m \in 1..n /\ m + (i - m) = i)
    BY <1>1
  <2>4. CASE a \in 1..m /\ c \in 1..m
    BY <1>1, <1>4, <2>1, <2>4 DEF IsInjective
  <2>5. CASE a - m \in 1..n /\ c - m \in 1..n
    <3>1. q[a - m] = q[c - m]
      BY <1>1, <2>1, <2>3, <2>5
    <3>2. a - m = c - m
      BY <1>1, <1>4, <2>5, <3>1 DEF IsInjective
    <3> QED
      BY <1>1, <3>2
  <2>6. CASE a \in 1..m /\ c - m \in 1..n
    <3>1. r[a] = p[a] /\ r[c] = q[c - m]
      <4>1. r[a] = p[a]
        BY <1>1, <2>6
      <4>2. r[m + (c - m)] = q[c - m]
        BY <1>1, <2>6
      <4>3. m + (c - m) = c
        BY <1>1
      <4> QED
        BY <4>1, <4>2, <4>3
    <3>2. p[a] # q[c - m]
      BY <2>2, <2>6
    <3> QED
      BY <2>1, <3>1, <3>2
  <2>7. CASE a - m \in 1..n /\ c \in 1..m
    <3>1. r[c] = p[c] /\ r[a] = q[a - m]
      BY <1>1, <2>3, <2>7
    <3> QED
      BY <2>1, <2>2, <2>7, <3>1
  <2> QED
    BY <2>3, <2>4, <2>5, <2>6, <2>7
<1> QED
  BY <1>1, <1>2, <1>3, <1>4 DEF r

LEMMA OneElement ==
  ASSUME NEW A, NEW x \in A
  PROVE  <<x>> \in Seq(A) /\ Len(<<x>>) = 1 /\ Range(<<x>>) = {x} /\ IsInjective(<<x>>)
<1>1. <<x>> \in Seq(A) /\ Len(<<x>>) = 1 /\ DOMAIN <<x>> = {1} /\ <<x>>[1] = x
  OBVIOUS
<1> QED
  BY <1>1 DEF Range, IsInjective

LEMMA SplitQueue ==
  ASSUME NEW A, NEW q \in Seq(A), NEW k \in 0..Len(q)
  PROVE  /\ SubSeq(q, 1, k) \in Seq(A) /\ SubSeq(q, k + 1, Len(q)) \in Seq(A)
         /\ q = SubSeq(q, 1, k) \o SubSeq(q, k + 1, Len(q))
<1>1. /\ SubSeq(q, 1, k) \in Seq(A) /\ SubSeq(q, k + 1, Len(q)) \in Seq(A)
  OBVIOUS
<1>2. SubSeq(q, 1, k) \o SubSeq(q, k + 1, Len(q)) = SubSeq(q, 1, Len(q))
  <2> DEFINE m == 1
             n == Len(q)
  <2>1. m \in 1..Len(q) + 1 /\ k \in (m - 1)..Len(q) /\ n \in k..Len(q)
    OBVIOUS
  <2> HIDE DEF m, n
  <2>2. SubSeq(q, m, k) \o SubSeq(q, k + 1, n) = SubSeq(q, m, n)
    BY <2>1, ConcatAdjacentSubSeq
  <2> QED
    BY <2>2 DEF m, n
<1> QED
  BY <1>1, <1>2, SubSeqFull

\* list.remove: the first of its occurrences leaves the queue.
LEMMA RemoveFromQueue ==
  ASSUME NEW A, NEW q \in Seq(A), NEW x \in Range(q)
  PROVE  /\ RemoveFirst(q, x) \in Seq(A)
         /\ Len(RemoveFirst(q, x)) = Len(q) - 1
         /\ Range(q) = Range(RemoveFirst(q, x)) \cup {x}
         /\ IsInjective(q) => /\ IsInjective(RemoveFirst(q, x))
                              /\ x \notin Range(RemoveFirst(q, x))
<1> DEFINE n == Len(q)
           I == {i \in 1..n : q[i] = x}
<1>1. n \in Nat /\ DOMAIN q = 1..n /\ I # {} /\ I \subseteq Nat
  BY DEF Range
<1>2. PICK i \in I : \A j \in I : i <= j
  BY <1>1, LeastElement
<1>3. Min(I) \in I
  BY <1>2 DEF Min
<1> DEFINE k == Min(I)
           l == SubSeq(q, 1, k - 1)
           m == SubSeq(q, k, n)
<1>4. RemoveFirst(q, x) = l \o SubSeq(q, k + 1, n)
  BY <1>1, <1>3 DEF RemoveFirst, SelectInSeq, RemoveAt
<1> HIDE DEF k
<1>5. k \in 1..n /\ q[k] = x
  BY <1>3 DEF k
<1>6. /\ l \in Seq(A) /\ Len(l) = k - 1 /\ m \in Seq(A) /\ Len(m) = n - k + 1 /\ m # <<>>
      /\ Head(m) = x /\ Tail(m) = SubSeq(q, k + 1, n)
  BY <1>1, <1>5
<1>7. q = l \o m
  <2>1. k - 1 \in 0..n /\ (k - 1) + 1 = k
    BY <1>1, <1>5
  <2> QED
    BY <2>1, SplitQueue
<1> HIDE DEF l, m
<1>8. RemoveFirst(q, x) = l \o Tail(m)
  BY <1>4, <1>6
<1>9. /\ Tail(m) \in Seq(A) /\ Len(Tail(m)) = n - k
      /\ Range(m) = Range(Tail(m)) \cup {x}
      /\ IsInjective(m) => IsInjective(Tail(m)) /\ x \notin Range(Tail(m))
  BY <1>1, <1>5, <1>6, TailOfQueue
<1>10. /\ l \o m \in Seq(A) /\ Range(l \o m) = Range(l) \cup Range(m)
       /\ IsInjective(l \o m) <=> /\ IsInjective(l) /\ IsInjective(m)
                                  /\ Range(l) \cap Range(m) = {}
  BY <1>6, ConcatOfQueues
<1> DEFINE u == Tail(m)
<1> HIDE DEF u
<1>11. /\ l \o u \in Seq(A) /\ Range(l \o u) = Range(l) \cup Range(u)
       /\ Len(l \o u) = Len(l) + Len(u)
       /\ IsInjective(l \o u) <=> /\ IsInjective(l) /\ IsInjective(u)
                                        /\ Range(l) \cap Range(u) = {}
  <2>1. u \in Seq(A) /\ l \in Seq(A)
    BY <1>6, <1>9 DEF u
  <2> QED
    BY <2>1, ConcatOfQueues
<1>12. Len(l \o u) = n - 1
  <2>1. Len(u) = n - k
    BY <1>9 DEF u
  <2>2. Len(l \o u) = Len(l) + Len(u) /\ Len(l) = k - 1
    BY <1>6, <1>11
  <2> QED
    BY <1>1, <1>5, <2>1, <2>2
<1> QED
  BY <1>7, <1>8, <1>9, <1>10, <1>11, <1>12 DEF u
-----------------------------------------------------------------------------
(***************************************************************************)
(* A sum over a set does not depend on the order it is taken in.  The      *)
(* library takes it one chosen element at a time, by a recursion over the  *)
(* subsets: such a function exists because each subset needs only smaller  *)
(* ones.                                                                   *)
(***************************************************************************)
Some(T) == CHOOSE x \in T : TRUE
SumSteps(g, f, S) ==
  /\ g \in [SUBSET S -> Nat]
  /\ \A T \in SUBSET S : g[T] = IF T = {} THEN 0 ELSE f[Some(T)] + g[T \ {Some(T)}]
Summable(f, S) == IsFiniteSet(S) /\ \A x \in S : f[x] \in Nat

LEMMA SmallerSets ==
  ASSUME NEW S, IsFiniteSet(S), NEW T \in SUBSET S
  PROVE  /\ IsFiniteSet(T) /\ Cardinality(T) \in Nat /\ (Cardinality(T) = 0 <=> T = {})
         /\ T # {} => Some(T) \in T
         /\ \A x \in T : /\ T \ {x} \in SUBSET S
                         /\ Cardinality(T \ {x}) = Cardinality(T) - 1
<1>1. IsFiniteSet(T)
  BY FS_Subset
<1>2. Cardinality(T) \in Nat /\ (Cardinality(T) = 0 <=> T = {})
  BY <1>1, FS_CardinalityType, FS_EmptySet
<1>3. \A x \in T : Cardinality(T \ {x}) = Cardinality(T) - 1
  BY <1>1, FS_RemoveElement
<1> QED
  BY <1>1, <1>2, <1>3 DEF Some

\* A sum of the subsets of at most n elements.
Upto(S, n) == {T \in SUBSET S : Cardinality(T) <= n}
SumStep(h, f, T) == IF T = {} THEN 0 ELSE f[Some(T)] + h[T \ {Some(T)}]
Sums(f, S, n) == {h \in [Upto(S, n) -> Nat] : \A T \in Upto(S, n) : h[T] = SumStep(h, f, T)}

LEMMA SumStepsExist ==
  ASSUME NEW S, NEW f, Summable(f, S)
  PROVE  \E g : SumSteps(g, f, S)
<1> DEFINE m == Cardinality(S)
           M == {n \in 0..m : Sums(f, S, n) # {}}
<1>0. /\ IsFiniteSet(S) /\ m \in Nat /\ \A x \in S : f[x] \in Nat
  BY FS_CardinalityType DEF Summable
<1> HIDE DEF m
<1>1. ASSUME NEW T \in SUBSET S
      PROVE  /\ Cardinality(T) \in Nat /\ (Cardinality(T) = 0 <=> T = {})
             /\ T # {} => /\ Some(T) \in T /\ T \ {Some(T)} \in SUBSET S
                          /\ f[Some(T)] \in Nat
                          /\ Cardinality(T \ {Some(T)}) = Cardinality(T) - 1
  BY <1>0, SmallerSets
<1>2. Sums(f, S, 0) # {}
  <2> DEFINE h == [T \in Upto(S, 0) |-> 0]
  <2>1. \A T \in Upto(S, 0) : T = {}
    <3>1. ASSUME NEW T \in Upto(S, 0) PROVE T = {}
      <4>1. T \in SUBSET S /\ Cardinality(T) <= 0
        BY DEF Upto
      <4>2. Cardinality(T) \in Nat
        BY <1>1, <4>1
      <4>3. Cardinality(T) = 0
        BY <4>1, <4>2
      <4> QED
        BY <1>1, <4>1, <4>3
    <3> QED
      BY <3>1
  <2>2. h \in Sums(f, S, 0)
    BY <2>1 DEF Sums, SumStep
  <2> QED
    BY <2>2
<1>3. ASSUME NEW n \in 1..m, Sums(f, S, n - 1) # {} PROVE Sums(f, S, n) # {}
  <2>0. n \in Nat /\ n - 1 \in Nat
    BY <1>0
  <2>1. PICK h \in [Upto(S, n - 1) -> Nat] : \A T \in Upto(S, n - 1) : h[T] = SumStep(h, f, T)
    BY <1>3 DEF Sums
  <2> DEFINE g == [T \in Upto(S, n) |-> IF T \in Upto(S, n - 1) THEN h[T] ELSE SumStep(h, f, T)]
  <2>2. ASSUME NEW T \in Upto(S, n), T # {}
        PROVE  T \ {Some(T)} \in Upto(S, n - 1) /\ f[Some(T)] \in Nat
    <3>1. T \in SUBSET S /\ Cardinality(T) <= n /\ Cardinality(T) \in Nat
      BY <1>1 DEF Upto
    <3>2. /\ T \ {Some(T)} \in SUBSET S /\ f[Some(T)] \in Nat
          /\ Cardinality(T \ {Some(T)}) = Cardinality(T) - 1
      BY <1>1, <2>2, <3>1
    <3>3. Cardinality(T \ {Some(T)}) <= n - 1
      BY <2>0, <3>1, <3>2
    <3> QED
      BY <3>2, <3>3 DEF Upto
  <2>3. ASSUME NEW T \in Upto(S, n) PROVE SumStep(h, f, T) \in Nat
    <3>1. T # {} => h[T \ {Some(T)}] \in Nat /\ f[Some(T)] \in Nat
      BY <2>1, <2>2
    <3> QED
      BY <3>1 DEF SumStep
  <2>4. g \in [Upto(S, n) -> Nat]
    BY <2>1, <2>3
  <2>5. ASSUME NEW T \in Upto(S, n - 1) PROVE T \in Upto(S, n) /\ g[T] = h[T]
    <3>1. T \in SUBSET S /\ Cardinality(T) <= n - 1 /\ Cardinality(T) \in Nat
      BY <1>1 DEF Upto
    <3>2. Cardinality(T) <= n
      BY <2>0, <3>1
    <3>3. T \in Upto(S, n)
      BY <3>1, <3>2 DEF Upto
    <3> QED
      BY <3>3
  <2>6. ASSUME NEW T \in Upto(S, n) PROVE g[T] = SumStep(g, f, T)
    <3>1. g[T] = SumStep(h, f, T)
      BY <2>1
    <3>2. T # {} => g[T \ {Some(T)}] = h[T \ {Some(T)}]
      BY <2>2, <2>5
    <3> HIDE DEF g
    <3> QED
      BY <3>1, <3>2 DEF SumStep
  <2> HIDE DEF g
  <2>7. g \in Sums(f, S, n)
    BY <2>4, <2>6 DEF Sums
  <2> QED
    BY <2>7
<1>4. 0 \in M /\ \A n \in 1..m : n - 1 \in M => n \in M
  BY <1>0, <1>2, <1>3
<1> HIDE DEF M
<1>5. 0..m \subseteq M
  BY <1>0, <1>4, InductionUpTo
<1>6. Sums(f, S, m) # {}
  BY <1>0, <1>5 DEF M
<1>7. Upto(S, m) = SUBSET S
  <2>1. \A T \in SUBSET S : Cardinality(T) <= m
    BY <1>0, FS_Subset DEF m
  <2> QED
    BY <2>1 DEF Upto
<1> QED
  BY <1>6, <1>7 DEF Sums, SumSteps, SumStep

LEMMA SumIsStepwise ==
  ASSUME NEW S, NEW f, Summable(f, S)
  PROVE  \E g : SumSteps(g, f, S) /\ SumFunctionOnSet(f, S) = g[S]
<1> DEFINE Eq(g) == g = [s \in SUBSET S |->
                           IF s = {} THEN 0
                           ELSE LET x == CHOOSE x \in s : TRUE IN f[x] + g[s \ {x}]]
           k == CHOOSE g : Eq(g)
<1>1. SumFunctionOnSet(f, S) = k[S]
  BY DEF SumFunctionOnSet, FoldFunctionOnSet, MapThenFoldSet
<1>2. PICK g : SumSteps(g, f, S)
  BY SumStepsExist
<1>3. Eq(g)
  <2>1. g = [s \in SUBSET S |-> g[s]]
    BY <1>2 DEF SumSteps
  <2>2. \A s \in SUBSET S : g[s] = IF s = {} THEN 0
                           ELSE LET x == CHOOSE x \in s : TRUE IN f[x] + g[s \ {x}]
    BY <1>2 DEF SumSteps, Some
  <2> QED
    BY <2>1, <2>2
<1>4. Eq(k)
  BY <1>3
<1> HIDE DEF k
<1>5. \A T \in SUBSET S : k[T] = IF T = {} THEN 0 ELSE f[Some(T)] + k[T \ {Some(T)}]
  BY <1>4 DEF Some
<1>6. \A T \in SUBSET S : k[T] = g[T]
  <2> DEFINE Size == Cardinality(S)
             M == {n \in 0..Size : \A T \in SUBSET S : Cardinality(T) = n => k[T] = g[T]}
  <2>0. IsFiniteSet(S) /\ Size \in Nat /\ \A T \in SUBSET S : Cardinality(T) \in 0..Size
    <3>1. IsFiniteSet(S) /\ Size \in Nat
      BY FS_CardinalityType DEF Summable
    <3>2. \A T \in SUBSET S : Cardinality(T) \in Nat /\ Cardinality(T) <= Size
      BY <3>1, FS_Subset, FS_CardinalityType
    <3> QED
      BY <3>1, <3>2
  <2>1. 0 \in M
    BY <1>2, <1>5, <2>0, SmallerSets DEF SumSteps
  <2>2. ASSUME NEW n \in 1..Size, n - 1 \in M PROVE n \in M
    <3>1. ASSUME NEW T \in SUBSET S, Cardinality(T) = n PROVE k[T] = g[T]
      <4>1. T # {} /\ Some(T) \in T /\ T \ {Some(T)} \in SUBSET S
            /\ Cardinality(T \ {Some(T)}) = n - 1
        BY <2>0, <3>1, SmallerSets
      <4>2. k[T \ {Some(T)}] = g[T \ {Some(T)}]
        BY <2>2, <4>1
      <4> QED
        BY <1>2, <1>5, <4>1, <4>2 DEF SumSteps
    <3> QED
      BY <3>1
  <2> HIDE DEF M
  <2>3. 0..Size \subseteq M
    BY <2>0, <2>1, <2>2, InductionUpTo
  <2> QED
    BY <2>0, <2>3 DEF M
<1>7. SumSteps(k, f, S)
  <2>1. k = [T \in SUBSET S |-> k[T]]
    BY <1>4
  <2>2. \A T \in SUBSET S : k[T] \in Nat
    BY <1>2, <1>6 DEF SumSteps
  <2>3. k \in [SUBSET S -> Nat]
    BY <2>1, <2>2
  <2> QED
    BY <1>5, <2>3 DEF SumSteps
<1> QED
  BY <1>1, <1>7

\* Any element may be taken first.
LEMMA AnyFirst ==
  ASSUME NEW S, NEW f, Summable(f, S), NEW g, SumSteps(g, f, S)
  PROVE  \A T \in SUBSET S : \A x \in T : g[T] = f[x] + g[T \ {x}]
<1> DEFINE m == Cardinality(S)
           M == {n \in 0..m : \A T \in SUBSET S : Cardinality(T) = n =>
                                \A x \in T : g[T] = f[x] + g[T \ {x}]}
<1>0. /\ IsFiniteSet(S) /\ m \in Nat /\ \A x \in S : f[x] \in Nat
  BY FS_CardinalityType DEF Summable
<1>1. \A T \in SUBSET S : Cardinality(T) \in 0..m
  <2>1. \A T \in SUBSET S : Cardinality(T) \in Nat /\ Cardinality(T) <= m
    BY <1>0, FS_Subset, FS_CardinalityType
  <2> QED
    BY <1>0, <2>1
<1>2. /\ \A T \in SUBSET S : g[T] \in Nat
      /\ \A T \in SUBSET S : T # {} => g[T] = f[Some(T)] + g[T \ {Some(T)}]
  BY DEF SumSteps
<1> HIDE DEF m
<1>3. 0 \in M
  BY <1>0, SmallerSets
<1>4. ASSUME NEW n \in 1..m, n - 1 \in M PROVE n \in M
  <2>1. ASSUME NEW T \in SUBSET S, Cardinality(T) = n, NEW x \in T
        PROVE  g[T] = f[x] + g[T \ {x}]
    <3> DEFINE c == Some(T)
    <3>1. T # {} /\ c \in T
      BY <1>0, SmallerSets
    <3> HIDE DEF c
    <3>2. g[T] = f[c] + g[T \ {c}]
      BY <1>2, <3>1 DEF c
    <3>3. CASE x = c
      BY <3>2, <3>3
    <3>4. CASE x # c
      <4>1. /\ T \ {x} \in SUBSET S /\ Cardinality(T \ {x}) = n - 1 /\ c \in T \ {x}
            /\ T \ {c} \in SUBSET S /\ Cardinality(T \ {c}) = n - 1 /\ x \in T \ {c}
        BY <1>0, <2>1, <3>1, <3>4, SmallerSets
      <4>2. g[T \ {x}] = f[c] + g[(T \ {x}) \ {c}]
        BY <1>4, <4>1
      <4>3. g[T \ {c}] = f[x] + g[(T \ {c}) \ {x}]
        BY <1>4, <4>1
      <4>4. (T \ {x}) \ {c} = (T \ {c}) \ {x} /\ (T \ {x}) \ {c} \in SUBSET S
        BY <4>1
      <4> DEFINE z == g[(T \ {x}) \ {c}]
      <4>5. z \in Nat /\ f[x] \in Nat /\ f[c] \in Nat
        BY <1>0, <1>2, <3>1, <4>4
      <4> HIDE DEF z
      <4>6. g[T] = f[c] + (f[x] + z) /\ g[T \ {x}] = f[c] + z
        BY <3>2, <4>2, <4>3, <4>4 DEF z
      <4> QED
        BY <4>5, <4>6
    <3> QED
      BY <3>3, <3>4
  <2> QED
    BY <2>1
<1> HIDE DEF M
<1>5. 0..m \subseteq M
  BY <1>0, <1>3, <1>4, InductionUpTo
<1> QED
  BY <1>1, <1>5 DEF M

\* Sums of functions that agree, over sets that need not be the same.
LEMMA SumsAgree ==
  ASSUME NEW S, NEW f, Summable(f, S), NEW g, SumSteps(g, f, S),
         NEW Others, NEW e, Summable(e, Others), NEW h, SumSteps(h, e, Others)
  PROVE  \A T \in SUBSET (S \cap Others) : (\A x \in T : f[x] = e[x]) => g[T] = h[T]
<1> DEFINE m == Cardinality(S)
           M == {n \in 0..m : \A T \in SUBSET (S \cap Others) :
                   Cardinality(T) = n /\ (\A x \in T : f[x] = e[x]) => g[T] = h[T]}
<1>0. IsFiniteSet(S) /\ m \in Nat
  BY FS_CardinalityType DEF Summable
<1>1. \A T \in SUBSET S : Cardinality(T) \in 0..m
  <2>1. \A T \in SUBSET S : Cardinality(T) \in Nat /\ Cardinality(T) <= m
    BY <1>0, FS_Subset, FS_CardinalityType
  <2> QED
    BY <1>0, <2>1
<1>2. \A T \in SUBSET (S \cap Others) :
        /\ T \in SUBSET S /\ T \in SUBSET Others
        /\ g[T] = IF T = {} THEN 0 ELSE f[Some(T)] + g[T \ {Some(T)}]
        /\ h[T] = IF T = {} THEN 0 ELSE e[Some(T)] + h[T \ {Some(T)}]
  BY DEF SumSteps
<1> HIDE DEF m
<1>3. 0 \in M
  BY <1>0, <1>2, SmallerSets
<1>4. ASSUME NEW n \in 1..m, n - 1 \in M PROVE n \in M
  <2>1. ASSUME NEW T \in SUBSET (S \cap Others), Cardinality(T) = n, \A x \in T : f[x] = e[x]
        PROVE  g[T] = h[T]
    <3>1. /\ T # {} /\ Some(T) \in T /\ T \ {Some(T)} \in SUBSET (S \cap Others)
          /\ Cardinality(T \ {Some(T)}) = n - 1
      BY <1>0, <1>2, <2>1, SmallerSets
    <3>2. g[T \ {Some(T)}] = h[T \ {Some(T)}]
      BY <1>4, <2>1, <3>1
    <3> QED
      BY <1>2, <2>1, <3>1, <3>2
  <2> QED
    BY <2>1
<1> HIDE DEF M
<1>5. 0..m \subseteq M
  BY <1>0, <1>3, <1>4, InductionUpTo
<1> QED
  BY <1>1, <1>2, <1>5 DEF M

\* The sum over a set, and over one element more.
LEMMA SumOverSet ==
  /\ \A f : SumFunctionOnSet(f, {}) = 0
  /\ \A S, f : Summable(f, S) => SumFunctionOnSet(f, S) \in Nat
  /\ \A S, f, e : Summable(f, S) /\ (\A x \in S : f[x] = e[x]) =>
       SumFunctionOnSet(f, S) = SumFunctionOnSet(e, S)
  /\ \A S, f, x : Summable(f, S) /\ x \in S =>
       SumFunctionOnSet(f, S) = f[x] + SumFunctionOnSet(f, S \ {x})
<1>1. ASSUME NEW f PROVE SumFunctionOnSet(f, {}) = 0
  <2>1. Summable(f, {})
    BY FS_EmptySet DEF Summable
  <2>2. PICK g : SumSteps(g, f, {}) /\ SumFunctionOnSet(f, {}) = g[{}]
    BY <2>1, SumIsStepwise
  <2>3. {} \in SUBSET {}
    OBVIOUS
  <2> QED
    BY <2>2, <2>3 DEF SumSteps
<1>2. ASSUME NEW S, NEW f, Summable(f, S) PROVE SumFunctionOnSet(f, S) \in Nat
  <2>1. PICK g : SumSteps(g, f, S) /\ SumFunctionOnSet(f, S) = g[S]
    BY <1>2, SumIsStepwise
  <2>2. S \in SUBSET S
    OBVIOUS
  <2> QED
    BY <2>1, <2>2 DEF SumSteps
<1>3. ASSUME NEW S, NEW f, NEW e, Summable(f, S), \A x \in S : f[x] = e[x]
      PROVE  SumFunctionOnSet(f, S) = SumFunctionOnSet(e, S)
  <2>1. Summable(e, S)
    BY <1>3 DEF Summable
  <2>2. PICK g : SumSteps(g, f, S) /\ SumFunctionOnSet(f, S) = g[S]
    BY <1>3, SumIsStepwise
  <2>3. PICK h : SumSteps(h, e, S) /\ SumFunctionOnSet(e, S) = h[S]
    BY <2>1, SumIsStepwise
  <2>4. S \in SUBSET (S \cap S)
    OBVIOUS
  <2> QED
    BY <1>3, <2>1, <2>2, <2>3, <2>4, SumsAgree
<1>4. ASSUME NEW S, NEW f, NEW x, Summable(f, S), x \in S
      PROVE  SumFunctionOnSet(f, S) = f[x] + SumFunctionOnSet(f, S \ {x})
  <2> DEFINE Others == S \ {x}
  <2>1. Summable(f, Others)
    <3>1. IsFiniteSet(Others)
      BY <1>4, FS_Subset DEF Summable
    <3> QED
      BY <1>4, <3>1 DEF Summable
  <2> HIDE DEF Others
  <2>2. PICK g : SumSteps(g, f, S) /\ SumFunctionOnSet(f, S) = g[S]
    BY <1>4, SumIsStepwise
  <2>3. PICK h : SumSteps(h, f, Others) /\ SumFunctionOnSet(f, Others) = h[Others]
    BY <2>1, SumIsStepwise
  <2>4. g[S] = f[x] + g[Others]
    <3>1. S \in SUBSET S
      OBVIOUS
    <3> QED
      BY <1>4, <2>2, <3>1, AnyFirst DEF Others
  <2>5. g[Others] = h[Others]
    <3>1. Others \in SUBSET (S \cap Others)
      BY DEF Others
    <3> QED
      BY <1>4, <2>1, <2>2, <2>3, <3>1, SumsAgree
  <2> QED
    BY <2>2, <2>3, <2>4, <2>5 DEF Others
<1> QED
  BY <1>1, <1>2, <1>3, <1>4

LEMMA SumWithout ==
  ASSUME NEW S, NEW f, Summable(f, S), NEW x \in S
  PROVE  SumFunctionOnSet(f, S) = f[x] + SumFunctionOnSet(f, S \ {x})
<1> QED
  BY SumOverSet

\* A sum of at least so much each.
LEMMA SumAtLeast ==
  ASSUME NEW S, NEW f, Summable(f, S), NEW w \in Nat, \A x \in S : w <= f[x]
  PROVE  w * Cardinality(S) <= SumFunctionOnSet(f, S)
<1> DEFINE m == Cardinality(S)
           M == {n \in 0..m : \A T \in SUBSET S : Cardinality(T) = n =>
                                w * n <= SumFunctionOnSet(f, T)}
<1>0. IsFiniteSet(S) /\ m \in Nat
  BY FS_CardinalityType DEF Summable
<1>1. \A T \in SUBSET S : Summable(f, T) /\ SumFunctionOnSet(f, T) \in Nat
  <2>1. \A T \in SUBSET S : Summable(f, T)
    BY FS_Subset DEF Summable
  <2> QED
    BY <2>1, SumOverSet
<1> HIDE DEF m
<1>2. 0 \in M
  <2>1. \A T \in SUBSET S : 0 <= SumFunctionOnSet(f, T)
    BY <1>1
  <2>2. w * 0 = 0
    OBVIOUS
  <2> QED
    BY <1>0, <2>1, <2>2
<1>3. ASSUME NEW n \in 1..m, n - 1 \in M PROVE n \in M
  <2>1. ASSUME NEW T \in SUBSET S, Cardinality(T) = n
        PROVE  w * n <= SumFunctionOnSet(f, T)
    <3> DEFINE c == Some(T)
               U == T \ {c}
    <3>1. /\ c \in T /\ U \in SUBSET S /\ Cardinality(U) = n - 1
      BY <1>0, <2>1, SmallerSets
    <3> HIDE DEF c, U
    <3>2. w * (n - 1) <= SumFunctionOnSet(f, U)
      BY <1>3, <3>1
    <3>3. SumFunctionOnSet(f, T) = f[c] + SumFunctionOnSet(f, U)
      <4>1. Summable(f, T) /\ c \in T
        BY <1>1, <3>1
      <4>2. SumFunctionOnSet(f, T) = f[c] + SumFunctionOnSet(f, T \ {c})
        BY <4>1, SumOverSet
      <4> QED
        BY <4>2 DEF U
    <3>4. f[c] \in Nat /\ w <= f[c] /\ SumFunctionOnSet(f, U) \in Nat
      BY <1>1, <3>1 DEF Summable
    <3>5. w * n = w * (n - 1) + w /\ w * (n - 1) \in Nat
      BY <1>0
    <3> QED
      BY <3>2, <3>3, <3>4, <3>5
  <2> QED
    BY <2>1
<1> HIDE DEF M
<1>4. 0..m \subseteq M
  BY <1>0, <1>2, <1>3, InductionUpTo
<1>5. m \in M /\ S \in SUBSET S
  BY <1>0, <1>4
<1> QED
  BY <1>5 DEF M, m

-----------------------------------------------------------------------------
(***************************************************************************)
(* Sums over a set grow by one element, and what is true of every element  *)
(* that is added is true of the sum.                                       *)
(***************************************************************************)
LEMMA OneMoreEach ==
  ASSUME NEW S, IsFiniteSet(S), NEW P, {} \in P,
         \A T \in SUBSET S : \A x \in S \ T : T \in P => T \cup {x} \in P
  PROVE  S \in P
<1> DEFINE m == Cardinality(S)
           M == {n \in 0..m : \A T \in SUBSET S : Cardinality(T) = n => T \in P}
<1>0. m \in Nat
  BY FS_CardinalityType
<1>1. 0 \in M
  <2>1. \A T \in SUBSET S : Cardinality(T) = 0 => T = {}
    BY SmallerSets
  <2> QED
    BY <1>0, <2>1
<1>2. ASSUME NEW n \in 1..m, n - 1 \in M PROVE n \in M
  <2>1. ASSUME NEW T \in SUBSET S, Cardinality(T) = n PROVE T \in P
    <3>1. PICK x \in T : TRUE
      BY <1>0, <2>1, SmallerSets
    <3>2. T \ {x} \in SUBSET S /\ Cardinality(T \ {x}) = n - 1
      BY <2>1, SmallerSets
    <3>3. T \ {x} \in P
      BY <1>2, <3>2
    <3>4. x \in S \ (T \ {x}) /\ T = (T \ {x}) \cup {x}
      BY <3>1
    <3> QED
      BY <3>2, <3>3, <3>4
  <2> QED
    BY <2>1
<1> HIDE DEF M
<1>3. 0..m \subseteq M
  BY <1>0, <1>1, <1>2, InductionUpTo
<1>4. m \in M
  BY <1>0, <1>3
<1> QED
  BY <1>4 DEF M

LEMMA SumOfOneMore ==
  ASSUME NEW S, NEW x, x \notin S, NEW f, Summable(f, S), f[x] \in Nat
  PROVE  /\ Summable(f, S \cup {x})
         /\ SumFunctionOnSet(f, S) \in Nat
         /\ SumFunctionOnSet(f, S \cup {x}) = SumFunctionOnSet(f, S) + f[x]
<1>1. Summable(f, S \cup {x})
  BY FS_AddElement DEF Summable
<1>2. SumFunctionOnSet(f, S) \in Nat
  BY SumOverSet
<1>3. SumFunctionOnSet(f, S \cup {x}) = f[x] + SumFunctionOnSet(f, (S \cup {x}) \ {x})
  BY <1>1, SumOverSet
<1>4. (S \cup {x}) \ {x} = S
  OBVIOUS
<1> QED
  BY <1>1, <1>2, <1>3, <1>4

\* A part of a set, and its elements one more.
LEMMA SumOfPart ==
  ASSUME NEW S, NEW f, Summable(f, S), NEW T \in SUBSET S
  PROVE  /\ Summable(f, T) /\ SumFunctionOnSet(f, T) \in Nat
         /\ \A x \in S \ T : SumFunctionOnSet(f, T \cup {x}) = SumFunctionOnSet(f, T) + f[x]
<1>1. Summable(f, T)
  BY FS_Subset DEF Summable
<1>2. ASSUME NEW x \in S \ T
      PROVE  SumFunctionOnSet(f, T \cup {x}) = SumFunctionOnSet(f, T) + f[x]
  <2>1. x \notin T /\ f[x] \in Nat
    BY DEF Summable
  <2> QED
    BY <1>1, <2>1, SumOfOneMore
<1> QED
  BY <1>1, <1>2, SumOverSet

\* One value that grows.
LEMMA SumOfGrown ==
  ASSUME NEW S, NEW f, Summable(f, S), NEW x \in S, NEW d \in Nat,
         NEW g, g[x] = f[x] + d, \A y \in S \ {x} : g[y] = f[y]
  PROVE  Summable(g, S) /\ SumFunctionOnSet(g, S) = SumFunctionOnSet(f, S) + d
<1> DEFINE T == S \ {x}
<1>1. Summable(g, S)
  BY DEF Summable
<1>2. Summable(f, T) /\ SumFunctionOnSet(f, T) \in Nat /\ Summable(g, T)
  BY <1>1, SumOfPart
<1>3. SumFunctionOnSet(f, T) = SumFunctionOnSet(g, T)
  BY <1>2, SumOverSet
<1>4. SumFunctionOnSet(f, S) = f[x] + SumFunctionOnSet(f, T)
  BY SumOverSet
<1>5. SumFunctionOnSet(g, S) = g[x] + SumFunctionOnSet(g, T)
  BY <1>1, SumOverSet
<1>6. f[x] \in Nat
  BY DEF Summable
<1> HIDE DEF T
<1> QED
  BY <1>1, <1>2, <1>3, <1>4, <1>5, <1>6

\* Values that are each k times others.
LEMMA SumOfMultiples ==
  ASSUME NEW S, NEW f, Summable(f, S), NEW k \in Nat, NEW g, \A x \in S : g[x] = f[x] * k
  PROVE  /\ Summable(g, S)
         /\ SumFunctionOnSet(g, S) = SumFunctionOnSet(f, S) * k
<1> DEFINE P == {T \in SUBSET S : SumFunctionOnSet(g, T) = SumFunctionOnSet(f, T) * k}
<1>0. IsFiniteSet(S) /\ \A x \in S : f[x] \in Nat /\ f[x] * k \in Nat
  BY DEF Summable
<1>1. Summable(g, S)
  BY <1>0 DEF Summable
<1>2. {} \in P
  BY SumOverSet
<1>3. ASSUME NEW T \in SUBSET S, NEW x \in S \ T, T \in P PROVE T \cup {x} \in P
  <2>1. PICK a, b : a = SumFunctionOnSet(f, T) /\ b = f[x]
    OBVIOUS
  <2>2. a \in Nat /\ b \in Nat /\ SumFunctionOnSet(f, T \cup {x}) = a + b
    BY <1>0, <2>1, SumOfPart
  <2>3. SumFunctionOnSet(g, T \cup {x}) = SumFunctionOnSet(g, T) + g[x]
    BY <1>1, SumOfPart
  <2>4. SumFunctionOnSet(g, T) = a * k /\ g[x] = b * k
    BY <1>3, <2>1
  <2>5. (a + b) * k = a * k + b * k
    BY <2>2
  <2> QED
    BY <2>2, <2>3, <2>4, <2>5
<1> HIDE DEF P
<1>4. S \in P
  BY <1>0, <1>2, <1>3, OneMoreEach
<1> QED
  BY <1>1, <1>4 DEF P

\* Two parts that have nothing in common.
LEMMA SumOfParts ==
  ASSUME NEW S, NEW f, Summable(f, S), NEW A \in SUBSET S, NEW B \in SUBSET S, A \cap B = {}
  PROVE  SumFunctionOnSet(f, A \cup B) = SumFunctionOnSet(f, A) + SumFunctionOnSet(f, B)
<1> DEFINE P == {T \in SUBSET B :
                   SumFunctionOnSet(f, A \cup T) = SumFunctionOnSet(f, A) + SumFunctionOnSet(f, T)}
<1>0. /\ IsFiniteSet(B) /\ \A x \in S : f[x] \in Nat
      /\ \A T \in SUBSET S : SumFunctionOnSet(f, T) \in Nat
  BY SumOfPart DEF Summable
<1>1. {} \in P
  <2>1. A \cup {} = A /\ SumFunctionOnSet(f, {}) = 0 /\ SumFunctionOnSet(f, A) \in Nat
    BY <1>0, SumOverSet
  <2> QED
    BY <2>1
<1>2. ASSUME NEW T \in SUBSET B, NEW x \in B \ T, T \in P PROVE T \cup {x} \in P
  <2>1. SumFunctionOnSet(f, T \cup {x}) = SumFunctionOnSet(f, T) + f[x]
    <3>1. T \in SUBSET S /\ x \in S \ T
      OBVIOUS
    <3> QED
      BY <3>1, SumOfPart
  <2>2. SumFunctionOnSet(f, (A \cup T) \cup {x}) = SumFunctionOnSet(f, A \cup T) + f[x]
    <3>1. A \cup T \in SUBSET S /\ x \in S \ (A \cup T)
      OBVIOUS
    <3> QED
      BY <3>1, SumOfPart
  <2>3. (A \cup T) \cup {x} = A \cup (T \cup {x})
    OBVIOUS
  <2>4. SumFunctionOnSet(f, A \cup T) = SumFunctionOnSet(f, A) + SumFunctionOnSet(f, T)
    BY <1>2
  <2>5. f[x] \in Nat /\ SumFunctionOnSet(f, A) \in Nat /\ SumFunctionOnSet(f, T) \in Nat
    <3>1. x \in S /\ T \in SUBSET S
      OBVIOUS
    <3> QED
      BY <1>0, <3>1
  <2>6. SumFunctionOnSet(f, A \cup (T \cup {x})) = SumFunctionOnSet(f, A) + SumFunctionOnSet(f, T \cup {x})
    <3>1. SumFunctionOnSet(f, A \cup (T \cup {x})) = SumFunctionOnSet(f, A \cup T) + f[x]
      BY <2>2, <2>3, Zenon
    <3>2. PICK a, t, d : a = SumFunctionOnSet(f, A) /\ t = SumFunctionOnSet(f, T) /\ d = f[x]
      OBVIOUS
    <3>3. SumFunctionOnSet(f, A \cup (T \cup {x})) = (a + t) + d
      BY <2>4, <3>1, <3>2, Zenon
    <3>4. SumFunctionOnSet(f, T \cup {x}) = t + d
      BY <2>1, <3>2, Zenon
    <3>5. (a + t) + d = a + (t + d)
      BY <2>5, <3>2
    <3> QED
      BY <3>2, <3>3, <3>4, <3>5, Zenon
  <2>7. PICK U : U = T \cup {x}
    OBVIOUS
  <2>8. U \in SUBSET B
    BY <2>7
  <2>9. SumFunctionOnSet(f, A \cup U) = SumFunctionOnSet(f, A) + SumFunctionOnSet(f, U)
    BY <2>6, <2>7
  <2>10. U \in P
    BY <2>8, <2>9
  <2> QED
    BY <2>7, <2>10
<1> HIDE DEF P
<1>3. B \in P
  BY <1>0, <1>1, <1>2, OneMoreEach
<1> QED
  BY <1>3 DEF P

\* A sum of nothing but zeros.
LEMMA SumOfZeros ==
  ASSUME NEW S, IsFiniteSet(S), NEW f, \A x \in S : f[x] = 0
  PROVE  SumFunctionOnSet(f, S) = 0
<1> DEFINE P == {T \in SUBSET S : SumFunctionOnSet(f, T) = 0}
<1>0. Summable(f, S)
  BY DEF Summable
<1>1. {} \in P
  BY SumOverSet
<1>2. ASSUME NEW T \in SUBSET S, NEW x \in S \ T, T \in P PROVE T \cup {x} \in P
  BY <1>0, <1>2, SumOfPart
<1> HIDE DEF P
<1>3. S \in P
  BY <1>1, <1>2, OneMoreEach
<1> QED
  BY <1>3 DEF P

\* Values none of which is greater than the other.
LEMMA SumsCompare ==
  ASSUME NEW S, NEW f, Summable(f, S), NEW g, Summable(g, S), \A x \in S : f[x] <= g[x]
  PROVE  SumFunctionOnSet(f, S) <= SumFunctionOnSet(g, S)
<1> DEFINE P == {T \in SUBSET S : SumFunctionOnSet(f, T) <= SumFunctionOnSet(g, T)}
<1>0. IsFiniteSet(S) /\ \A x \in S : f[x] \in Nat /\ g[x] \in Nat
  BY DEF Summable
<1>1. {} \in P
  BY SumOverSet
<1>2. ASSUME NEW T \in SUBSET S, NEW x \in S \ T, T \in P PROVE T \cup {x} \in P
  <2>1. PICK a, b : a = SumFunctionOnSet(f, T) /\ b = SumFunctionOnSet(g, T)
    OBVIOUS
  <2>2. /\ a \in Nat /\ SumFunctionOnSet(f, T \cup {x}) = a + f[x]
        /\ b \in Nat /\ SumFunctionOnSet(g, T \cup {x}) = b + g[x]
    BY <2>1, SumOfPart
  <2>3. a <= b /\ f[x] \in Nat /\ g[x] \in Nat /\ f[x] <= g[x]
    BY <1>0, <1>2, <2>1
  <2> QED
    BY <2>2, <2>3
<1> HIDE DEF P
<1>3. S \in P
  BY <1>0, <1>1, <1>2, OneMoreEach
<1> QED
  BY <1>3 DEF P

\* The elements under other names.
Renaming(at, S, R) ==
  /\ \A x \in S : at[x] \in R
  /\ \A x, y \in S : at[x] = at[y] => x = y
  /\ \A y \in R : \E x \in S : at[x] = y
Renamed(g, at, f, S) == \A x \in S : g[x] = f[at[x]]

LEMMA SumRenamed ==
  ASSUME NEW S, IsFiniteSet(S), NEW at, NEW R, Renaming(at, S, R),
         NEW f, Summable(f, R), NEW g, Renamed(g, at, f, S)
  PROVE  Summable(g, S) /\ SumFunctionOnSet(g, S) = SumFunctionOnSet(f, R)
<1> DEFINE Image(T) == {at[x] : x \in T}
           P == {T \in SUBSET S : SumFunctionOnSet(g, T) = SumFunctionOnSet(f, Image(T))}
<1>0. Summable(g, S)
  BY DEF Summable, Renaming, Renamed
<1>1. {} \in P
  <2>1. Image({}) = {}
    OBVIOUS
  <2> QED
    BY <2>1, SumOverSet
<1>2. ASSUME NEW T \in SUBSET S, NEW x \in S \ T, T \in P PROVE T \cup {x} \in P
  <2>1. Image(T \cup {x}) = Image(T) \cup {at[x]} /\ Image(T) \in SUBSET R /\ at[x] \in R \ Image(T)
    BY DEF Renaming
  <2> HIDE DEF Image
  <2>2. SumFunctionOnSet(f, Image(T) \cup {at[x]}) = SumFunctionOnSet(f, Image(T)) + f[at[x]]
    BY <2>1, SumOfPart
  <2>3. SumFunctionOnSet(g, T \cup {x}) = SumFunctionOnSet(g, T) + g[x]
    BY <1>0, SumOfPart
  <2>4. SumFunctionOnSet(g, T) = SumFunctionOnSet(f, Image(T)) /\ g[x] = f[at[x]]
    BY <1>2 DEF Renamed
  <2> QED
    BY <2>1, <2>2, <2>3, <2>4
<1>3. Image(S) = R
  BY DEF Renaming
<1> HIDE DEF P, Image
<1>4. S \in P
  BY <1>1, <1>2, OneMoreEach
<1> QED
  BY <1>0, <1>3, <1>4 DEF P

\* A list adds up to what its places do.
LEMMA TotalIsSum ==
  ASSUME NEW q \in Seq(Nat)
  PROVE  /\ Summable(q, 1..Len(q))
         /\ Total(q) = SumFunctionOnSet(q, 1..Len(q))
<1>1. PICK k, n : TotalSteps(k, q) /\ n = Len(q)
  BY TotalByElement
<1>2. /\ n \in Nat /\ k[0] = 0 /\ \A i \in 1..n : q[i] \in Nat /\ k[i] = k[i - 1] + q[i]
      /\ Total(q) = k[n]
  BY <1>1 DEF TotalSteps
<1>3. Summable(q, 1..n)
  <2>1. IsFiniteSet(1..n)
    BY <1>2, FS_Interval
  <2> QED
    BY <1>2, <2>1 DEF Summable
<1> DEFINE T == {i \in 0..n : k[i] = SumFunctionOnSet(q, 1..i)}
<1>4. 0 \in T
  <2>1. 1..0 = {}
    OBVIOUS
  <2> QED
    BY <1>2, <2>1, SumOverSet
<1>5. ASSUME NEW i \in 1..n, i - 1 \in T PROVE i \in T
  <2>1. 1..(i - 1) \in SUBSET (1..n) /\ i \in (1..n) \ (1..(i - 1)) /\ 1..i = (1..(i - 1)) \cup {i}
    BY <1>2
  <2>2. SumFunctionOnSet(q, (1..(i - 1)) \cup {i}) = SumFunctionOnSet(q, 1..(i - 1)) + q[i]
    <3>1. PICK A : A = 1..(i - 1)
      OBVIOUS
    <3>2. Summable(q, A)
      BY <1>3, <2>1, <3>1, SumOfPart
    <3>3. i \notin A /\ q[i] \in Nat
      BY <1>2, <2>1, <3>1
    <3>4. SumFunctionOnSet(q, A \cup {i}) = SumFunctionOnSet(q, A) + q[i]
      BY <3>2, <3>3, SumOfOneMore
    <3> QED
      BY <3>1, <3>4
  <2>3. k[i - 1] = SumFunctionOnSet(q, 1..(i - 1)) /\ i \in 0..n
    BY <1>2, <1>5
  <2> QED
    BY <1>2, <2>1, <2>2, <2>3
<1> HIDE DEF T
<1>6. 0..n \subseteq T
  BY <1>2, <1>4, <1>5, InductionUpTo
<1>7. n \in T
  BY <1>2, <1>6
<1> QED
  BY <1>1, <1>2, <1>3, <1>7 DEF T
=============================================================================
