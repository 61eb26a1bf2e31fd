-------------------------- MODULE MeasurementProofs -------------------------
(***************************************************************************)
(* The way of a number: the client that reads one streamed answer, the     *)
(* drivers that send the load, the workload they send, and the report that *)
(* is published of it; then the chaos suite, which measures a stack while  *)
(* it breaks it.                                                           *)
(***************************************************************************)
EXTENDS Client, Load, Reports, Chaos, Injectors, QueueFacts, FiniteSetTheorems, TLAPS

-----------------------------------------------------------------------------
(***************************************************************************)
(* The streaming client: one streamed answer and its record.  Sums are     *)
(* taken one element at a time, so each fact about them is an induction    *)
(* over the prefixes of the list.                                          *)
(***************************************************************************)
Event == [t : Nat, tokens : Nat]
Column(q) == [i \in DOMAIN q |-> q[i].tokens]

\* A sum with a known value after every element.
LEMMA TotalIs ==
  ASSUME NEW q \in Seq(Nat), NEW p, p[0] = 0, \A i \in 1..Len(q) : p[i] = p[i - 1] + q[i]
  PROVE  Total(q) = p[Len(q)]
<1>1. PICK k : TotalSteps(k, q)
  BY TotalByElement
<1>2. PICK n : n = Len(q)
  OBVIOUS
<1> DEFINE T == {i \in 0..n : k[i] = p[i]}
<1>3. n \in Nat /\ k[0] = 0 /\ (\A i \in 1..n : k[i] = k[i - 1] + q[i]) /\ Total(q) = k[n]
  BY <1>1, <1>2 DEF TotalSteps
<1>4. 0 \in T
  BY <1>3
<1>5. ASSUME NEW i \in 1..n, i - 1 \in T PROVE i \in T
  BY <1>2, <1>3, <1>5
<1> HIDE DEF T
<1>6. 0..n \subseteq T
  BY <1>3, <1>4, <1>5, InductionUpTo
<1>7. n \in T
  BY <1>3, <1>6
<1> QED
  BY <1>2, <1>3, <1>7 DEF T

\* The first element of a sum, and the others.
LEMMA TotalOfRest ==
  ASSUME NEW q \in Seq(Nat), q # <<>>
  PROVE  q[1] + Total([i \in 1..Len(q) - 1 |-> q[i + 1]]) = Total(q)
<1>1. PICK n, r : n = Len(q) /\ r = [i \in 1..n - 1 |-> q[i + 1]]
  OBVIOUS
<1>2. n \in Nat \ {0} /\ r \in Seq(Nat) /\ Len(r) = n - 1 /\ \A i \in 1..n - 1 : r[i] = q[i + 1]
  <2>1. n \in Nat \ {0} /\ \A i \in 1..n - 1 : q[i + 1] \in Nat
    BY <1>1
  <2> QED
    BY <1>1, <2>1
<1>3. PICK k : TotalSteps(k, q)
  BY TotalByElement
<1>4. /\ k \in [0..n -> Nat] /\ k[0] = 0 /\ \A i \in 1..n : k[i] = k[i - 1] + q[i]
      /\ Total(q) = k[n] /\ q[1] \in Nat /\ k[1] = q[1]
  <2>1. /\ k \in [0..n -> Nat] /\ k[0] = 0 /\ \A i \in 1..n : k[i] = k[i - 1] + q[i]
        /\ Total(q) = k[n]
    BY <1>1, <1>3 DEF TotalSteps
  <2>2. 1 \in 1..n /\ 1 - 1 = 0 /\ q[1] \in Nat
    BY <1>1, <1>2
  <2> QED
    BY <2>1, <2>2
<1>5. PICK p : p = [i \in 0..n - 1 |-> k[i + 1] - q[1]]
  OBVIOUS
<1>6. p[0] = 0
  <2>1. 0 \in 0..n - 1 /\ 0 + 1 = 1
    BY <1>2
  <2>2. p[0] = k[1] - q[1]
    BY <1>5, <2>1
  <2> QED
    BY <1>4, <2>2
<1>7. ASSUME NEW i \in 1..Len(r) PROVE p[i] = p[i - 1] + r[i]
  <2>1. /\ i \in 0..n - 1 /\ i - 1 \in 0..n - 1 /\ (i - 1) + 1 = i
        /\ i + 1 \in 1..n /\ (i + 1) - 1 = i /\ i \in 0..n /\ i + 1 \in 0..n
    BY <1>2
  <2>2. p[i] = k[i + 1] - q[1] /\ p[i - 1] = k[i] - q[1] /\ r[i] = q[i + 1]
    BY <1>2, <1>5, <2>1
  <2>3. k[i + 1] = k[i] + q[i + 1]
    BY <1>4, <2>1
  <2>4. k[i] \in Nat /\ q[i + 1] \in Nat
    <3>1. k[i] \in Nat
      BY <1>4, <2>1
    <3>2. q[i + 1] \in Nat
      BY <1>1, <2>1
    <3> QED
      BY <3>1, <3>2
  <2> QED
    BY <1>4, <2>2, <2>3, <2>4
<1>8. Total(r) = p[n - 1]
  BY <1>2, <1>6, <1>7, TotalIs
<1>9. p[n - 1] = k[n] - q[1] /\ k[n] \in Nat
  <2>1. n - 1 \in 0..n - 1 /\ (n - 1) + 1 = n /\ n \in 0..n
    BY <1>2
  <2> QED
    BY <1>4, <1>5, <2>1
<1> QED
  BY <1>1, <1>4, <1>8, <1>9

LEMMA NothingToKeep == \A S : Those(<<>>, S) = <<>>
<1> SUFFICES ASSUME NEW S PROVE Those(<<>>, S) = <<>>
  OBVIOUS
<1>1. <<>> \in Seq(Nat) /\ 0 \in Nat
  OBVIOUS
<1> QED
  BY <1>1, ThoseOfAppend

\* Leaving out the events without tokens changes neither the sum nor the first
\* one that has some, and nothing when all have some.
LEMMA LeavingOutEmpty ==
  ASSUME NEW q \in Seq(Event), NEW S, \A i \in 1..Len(q) : q[i] \in S <=> q[i].tokens > 0
  PROVE  /\ Those(q, S) \in Seq(Event)
         /\ Total(Column(Those(q, S))) = Total(Column(q))
         /\ (q # <<>> /\ q[1] \in S) => Those(q, S) # <<>> /\ Those(q, S)[1] = q[1]
         /\ (\A i \in 1..Len(q) : q[i] \in S) => Those(q, S) = q
<1> DEFINE Left(u) ==
             /\ Total(Column(Those(u, S))) = Total(Column(u))
             /\ (u # <<>> /\ u[1] \in S) => Those(u, S) # <<>> /\ Those(u, S)[1] = u[1]
             /\ (\A i \in 1..Len(u) : u[i] \in S) => Those(u, S) = u
           Sound(u) == \A i \in 1..Len(u) : u[i] \in S <=> u[i].tokens > 0
           T == {n \in 0..Len(q) : \A u \in Seq(Event) : Len(u) = n /\ Sound(u) => Left(u)}
<1>1. Column(<<>>) = <<>>
  BY DEF Column
<1>2. ASSUME NEW u \in Seq(Event)
      PROVE  Column(u) \in Seq(Nat) /\ Len(Column(u)) = Len(u)
  <2>1. ASSUME NEW i \in 1..Len(u) PROVE u[i].tokens \in Nat
    <3>1. u[i] \in Event
      OBVIOUS
    <3> QED
      BY <3>1 DEF Event
  <2>2. Len(u) \in Nat /\ DOMAIN u = 1..Len(u)
    OBVIOUS
  <2> QED
    BY <2>1, <2>2 DEF Column
<1>3. ASSUME NEW u \in Seq(Event), NEW x \in Event
      PROVE  Column(Append(u, x)) = Append(Column(u), x.tokens)
  <2>1. PICK a, b : a = Column(Append(u, x)) /\ b = Append(Column(u), x.tokens)
    OBVIOUS
  <2>2. x.tokens \in Nat
    BY DEF Event
  <2>3. /\ Append(u, x) \in Seq(Event) /\ Len(Append(u, x)) = Len(u) + 1
        /\ \A i \in 1..Len(u) : Append(u, x)[i] = u[i]
        /\ Append(u, x)[Len(u) + 1] = x
    OBVIOUS
  <2>4. /\ a \in Seq(Nat) /\ Len(a) = Len(u) + 1
        /\ \A i \in 1..Len(u) : a[i] = u[i].tokens
        /\ a[Len(u) + 1] = x.tokens
    <3>1. a \in Seq(Nat) /\ Len(a) = Len(u) + 1
      BY <1>2, <2>1, <2>3
    <3>2. ASSUME NEW i \in 1..Len(u) + 1 PROVE a[i] = Append(u, x)[i].tokens
      BY <2>1, <2>3 DEF Column
    <3>3. Len(u) \in Nat
      OBVIOUS
    <3> QED
      BY <2>3, <3>1, <3>2, <3>3
  <2>5. /\ b \in Seq(Nat) /\ Len(b) = Len(u) + 1
        /\ \A i \in 1..Len(u) : b[i] = u[i].tokens
        /\ b[Len(u) + 1] = x.tokens
    <3>1. Column(u) \in Seq(Nat) /\ Len(Column(u)) = Len(u) /\ \A i \in 1..Len(u) : Column(u)[i] = u[i].tokens
      BY <1>2 DEF Column
    <3> QED
      BY <2>1, <2>2, <3>1
  <2>6. ASSUME NEW i \in 1..Len(u) + 1 PROVE a[i] = b[i]
    <3>1. i \in 1..Len(u) \/ i = Len(u) + 1
      OBVIOUS
    <3> QED
      BY <2>4, <2>5, <3>1
  <2>7. DOMAIN a = 1..Len(u) + 1 /\ DOMAIN b = 1..Len(u) + 1
    BY <2>4, <2>5
  <2> QED
    <3>1. a = [i \in 1..Len(u) + 1 |-> a[i]] /\ b = [i \in 1..Len(u) + 1 |-> b[i]]
      BY <2>4, <2>5, <2>7
    <3> QED
      BY <2>1, <2>6, <3>1
<1>4. 0 \in T
  <2>1. ASSUME NEW u \in Seq(Event), Len(u) = 0 PROVE Left(u)
    <3>1. u = <<>>
      BY <2>1
    <3>2. Those(<<>>, S) = <<>>
      BY NothingToKeep
    <3>3. Those(u, S) = <<>>
      BY <3>1, <3>2
    <3> QED
      BY <3>1, <3>3
  <2> QED
    BY <2>1
<1>5. ASSUME NEW n \in 1..Len(q), n - 1 \in T PROVE n \in T
  <2>1. ASSUME NEW u \in Seq(Event), Len(u) = n, Sound(u) PROVE Left(u)
    <3>1. PICK v, x : v = SubSeq(u, 1, n - 1) /\ x = u[n]
      OBVIOUS
    <3>2. /\ v \in Seq(Event) /\ Len(v) = n - 1 /\ x \in Event /\ u = Append(v, x)
          /\ \A i \in 1..n - 1 : v[i] = u[i]
      BY <2>1, <3>1
    <3>3. Left(v) /\ (x \in S <=> x.tokens > 0)
      <4>1. \A i \in 1..n - 1 : i \in 1..n
        OBVIOUS
      <4>2. Sound(v)
        BY <2>1, <3>2, <4>1
      <4>3. n \in 1..n
        OBVIOUS
      <4> QED
        BY <1>5, <2>1, <3>1, <3>2, <4>2, <4>3
    <3>4. Those(u, S) = IF x \in S THEN Append(Those(v, S), x) ELSE Those(v, S)
      BY <3>2, ThoseOfAppend
    <3>5. PICK w \in Seq(Event) : w = Those(v, S)
      BY <3>2, ThoseKept
    <3>6. /\ x.tokens \in Nat /\ Total(Column(v)) \in Nat /\ Total(Column(w)) = Total(Column(v))
          /\ Total(Column(u)) = Total(Column(v)) + x.tokens
          /\ Total(Column(Append(w, x))) = Total(Column(w)) + x.tokens
      <4>1. x.tokens \in Nat
        BY <3>2 DEF Event
      <4>2. Column(v) \in Seq(Nat) /\ Column(w) \in Seq(Nat)
        BY <1>2, <3>2
      <4>3. Column(u) = Append(Column(v), x.tokens) /\ Column(Append(w, x)) = Append(Column(w), x.tokens)
        BY <1>3, <3>2
      <4> QED
        BY <3>3, <3>5, <4>1, <4>2, <4>3, TotalOfAppend
    <3>7. Total(Column(Those(u, S))) = Total(Column(u))
      <4>1. CASE x \in S
        BY <3>4, <3>5, <3>6, <4>1
      <4>2. CASE x \notin S
        BY <3>3, <3>4, <3>5, <3>6, <4>2
      <4> QED
        BY <4>1, <4>2
    <3>8. ASSUME u # <<>>, u[1] \in S PROVE Those(u, S) # <<>> /\ Those(u, S)[1] = u[1]
      <4>1. CASE n = 1
        <5>1. v = <<>> /\ x = u[1]
          BY <2>1, <3>1, <3>2, <4>1
        <5>2. w = <<>>
          BY <3>5, <5>1, NothingToKeep
        <5>3. Those(u, S) = Append(<<>>, x)
          BY <3>4, <3>5, <3>8, <5>1, <5>2
        <5> QED
          BY <5>1, <5>3
      <4>2. CASE n # 1
        <5>1. v # <<>> /\ v[1] = u[1]
          BY <3>2, <4>2
        <5>2. w # <<>> /\ w[1] = u[1]
          BY <3>3, <3>5, <3>8, <5>1
        <5>3. Append(w, x) # <<>> /\ Append(w, x)[1] = w[1]
          <6>1. w \in Seq(Event) /\ x \in Event /\ w # <<>>
            BY <3>2, <5>2
          <6>2. 1 \in 1..Len(w) /\ Len(Append(w, x)) = Len(w) + 1
            BY <6>1
          <6> QED
            BY <6>1, <6>2
        <5> QED
          BY <3>4, <3>5, <5>2, <5>3
      <4> QED
        BY <4>1, <4>2
    <3>9. ASSUME \A i \in 1..Len(u) : u[i] \in S PROVE Those(u, S) = u
      <4>1. /\ \A i \in 1..Len(v) : v[i] \in S
            /\ x \in S
        BY <2>1, <3>1, <3>2, <3>9
      <4> QED
        BY <3>2, <3>3, <3>4, <4>1
    <3> QED
      BY <3>7, <3>8, <3>9
  <2> QED
    BY <2>1
<1>6. Len(q) \in Nat /\ Len(q) \in 0..Len(q)
  OBVIOUS
<1>7. Left(q)
  <2> HIDE DEF T
  <2>1. 0..Len(q) \subseteq T
    BY <1>4, <1>5, <1>6, InductionUpTo
  <2>2. Len(q) \in T
    BY <1>6, <2>1
  <2> QED
    BY <2>2 DEF T
<1> QED
  BY <1>7, ThoseKept

\* Frames that carry several tokens each share them evenly.
SharedOut(q, total) ==
  \A i \in 1..Len(q) : q[i].tokens = total \div Len(q) + (IF i <= total % Len(q) THEN 1 ELSE 0)
InTime(q) == \A i \in 1..Len(q) - 1 : q[i].t <= q[i + 1].t

LEMMA EventFacts ==
  ASSUME NEW q \in Seq(Event)
  PROVE  /\ Len(q) \in Nat /\ DOMAIN q = 1..Len(q)
         /\ \A i \in 1..Len(q) : q[i] \in Event /\ q[i].t \in Nat /\ q[i].tokens \in Nat
<1>1. ASSUME NEW i \in 1..Len(q) PROVE q[i] \in Event /\ q[i].t \in Nat /\ q[i].tokens \in Nat
  <2>1. q[i] \in Event
    OBVIOUS
  <2> QED
    BY <2>1 DEF Event
<1> QED
  BY <1>1

LEMMA SharesAddUp ==
  ASSUME NEW q \in Seq(Event), q # <<>>, NEW total \in Nat, SharedOut(q, total)
  PROVE  /\ Total(Column(q)) = total
         /\ total > 0 => q[1].tokens > 0
         /\ total >= Len(q) => \A i \in 1..Len(q) : q[i].tokens > 0
<1>1. PICK n : n = Len(q)
  OBVIOUS
<1>2. n \in Nat \ {0}
  BY <1>1
<1>3. PICK a, b : a = total \div n /\ b = total % n
  OBVIOUS
<1>4. a \in Nat /\ b \in 0..n - 1 /\ total = n * a + b
  BY <1>2, <1>3
<1>5. ASSUME NEW i \in 1..n PROVE q[i].tokens = a + (IF i <= b THEN 1 ELSE 0)
  BY <1>1, <1>3 DEF SharedOut
<1>6. PICK c : c = Column(q)
  OBVIOUS
<1>7. c \in Seq(Nat) /\ Len(c) = n /\ \A i \in 1..n : c[i] = q[i].tokens
  <2>1. c = [i \in 1..n |-> q[i].tokens] /\ \A i \in 1..n : q[i].tokens \in Nat
    BY <1>1, <1>6, EventFacts DEF Column
  <2> QED
    BY <1>2, <2>1
<1>8. PICK p : p = [i \in 0..n |-> i * a + (IF i <= b THEN i ELSE b)]
  OBVIOUS
<1>9. p[0] = 0
  <2>1. 0 \in 0..n /\ 0 * a = 0 /\ 0 <= b
    BY <1>2, <1>4
  <2> QED
    BY <1>8, <2>1
<1>10. ASSUME NEW i \in 1..Len(c) PROVE p[i] = p[i - 1] + c[i]
  <2>1. i \in 1..n /\ i \in 0..n /\ i - 1 \in 0..n
    BY <1>2, <1>7
  <2>2. PICK x, y : x = i * a /\ y = (i - 1) * a
    OBVIOUS
  <2>3. x \in Nat /\ y \in Nat /\ x = y + a
    BY <1>4, <2>1, <2>2
  <2>4. p[i] = x + (IF i <= b THEN i ELSE b) /\ p[i - 1] = y + (IF i - 1 <= b THEN i - 1 ELSE b)
    BY <1>8, <2>1, <2>2
  <2>5. c[i] = a + (IF i <= b THEN 1 ELSE 0)
    BY <1>5, <1>7, <2>1
  <2> QED
    BY <1>4, <2>1, <2>3, <2>4, <2>5
<1>11. Total(c) = p[n]
  BY <1>7, <1>9, <1>10, TotalIs
<1>12. p[n] = total
  <2>1. n \in 0..n /\ ~(n <= b)
    BY <1>2, <1>4
  <2> QED
    BY <1>4, <1>8, <2>1
<1>13. total > 0 => q[1].tokens > 0
  <2>1. 1 \in 1..n
    BY <1>2
  <2>2. CASE a = 0
    <3>1. n * a = 0
      BY <1>2, <2>2
    <3> QED
      BY <1>4, <1>5, <2>1, <2>2, <3>1
  <2>3. CASE a # 0
    BY <1>4, <1>5, <2>1, <2>3
  <2> QED
    BY <2>2, <2>3
<1>14. total >= n => \A i \in 1..n : q[i].tokens > 0
  <2>1. CASE a = 0
    <3>1. n * a = 0
      BY <1>2, <2>1
    <3> QED
      BY <1>2, <1>4, <3>1
  <2>2. CASE a # 0
    BY <1>4, <1>5, <2>2
  <2> QED
    BY <2>1, <2>2
<1> QED
  BY <1>1, <1>6, <1>11, <1>12, <1>13, <1>14

\* The gaps add up to the time from the first event to the last.
LEMMA GapsAddUp ==
  ASSUME NEW q \in Seq(Event), q # <<>>, InTime(q)
  PROVE  Total([i \in 1..Len(q) - 1 |-> q[i + 1].t - q[i].t]) = q[Len(q)].t - q[1].t
<1>1. PICK n, g : n = Len(q) /\ g = [i \in 1..n - 1 |-> q[i + 1].t - q[i].t]
  OBVIOUS
<1>2. n \in Nat \ {0} /\ \A i \in 1..n : q[i].t \in Nat
  BY <1>1, EventFacts
<1>3. \A i \in 1..n - 1 : q[i + 1].t - q[i].t \in Nat
  <2> SUFFICES ASSUME NEW i \in 1..n - 1 PROVE q[i + 1].t - q[i].t \in Nat
    OBVIOUS
  <2>1. i \in 1..n /\ i + 1 \in 1..n
    BY <1>2
  <2>2. q[i].t <= q[i + 1].t
    BY <1>1 DEF InTime
  <2> QED
    BY <1>2, <2>1, <2>2
<1>4. g \in Seq(Nat) /\ Len(g) = n - 1 /\ \A i \in 1..n - 1 : g[i] = q[i + 1].t - q[i].t
  BY <1>1, <1>2, <1>3
<1>5. PICK p : p = [i \in 0..n - 1 |-> q[i + 1].t - q[1].t]
  OBVIOUS
<1>6. 1 \in 1..n /\ n \in 1..n
  BY <1>2
<1>7. p[0] = 0
  <2>1. 0 \in 0..n - 1 /\ 0 + 1 = 1
    BY <1>2
  <2>2. p[0] = q[1].t - q[1].t
    BY <1>5, <2>1
  <2> QED
    BY <1>2, <1>6, <2>2
<1>8. ASSUME NEW i \in 1..Len(g) PROVE p[i] = p[i - 1] + g[i]
  <2>1. i \in 1..n - 1 /\ i \in 0..n - 1 /\ i - 1 \in 0..n - 1 /\ (i - 1) + 1 = i /\ i \in 1..n /\ i + 1 \in 1..n
    BY <1>2, <1>4
  <2>2. p[i] = q[i + 1].t - q[1].t /\ p[i - 1] = q[i].t - q[1].t /\ g[i] = q[i + 1].t - q[i].t
    BY <1>4, <1>5, <2>1
  <2>3. q[i + 1].t \in Nat /\ q[i].t \in Nat /\ q[1].t \in Nat
    BY <1>2, <1>6, <2>1
  <2> QED
    BY <2>2, <2>3
<1>9. Total(g) = p[n - 1]
  BY <1>4, <1>7, <1>8, TotalIs
<1>10. p[n - 1] = q[n].t - q[1].t
  <2>1. n - 1 \in 0..n - 1 /\ (n - 1) + 1 = n
    BY <1>2
  <2> QED
    BY <1>5, <2>1
<1> QED
  BY <1>1, <1>9, <1>10

Stamps == Nat \cup {UNSET}
ClientInv ==
  /\ phase \in {"connecting", "streaming", "over"} /\ at \in Nat
  /\ first_chunk \in Stamps /\ first_chunk <= at /\ done_at \in Stamps
  /\ first_token \in Stamps /\ last_token \in Stamps
  /\ events \in Seq(Event) /\ InTime(events)
  /\ usage \in Stamps /\ output \in Nat
  /\ events = <<>> => first_token = UNSET
  /\ events # <<>> =>
       /\ first_token = events[1].t /\ last_token = events[Len(events)].t
       /\ first_chunk # UNSET /\ first_chunk <= first_token /\ last_token <= at
  /\ done_at # UNSET => phase = "over" /\ done_at = at
  /\ phase # "over" => \A i \in 1..Len(events) : events[i].tokens = 1
  /\ ok /\ events # <<>> /\ output > 0 => SharedOut(events, output)

LEMMA RecordIsHonest == ASSUME ClientInv PROVE RecordHonest
<1>1. TtftHonest
  <2>1. events # <<>> => first_token \in Nat
    <3> SUFFICES ASSUME events # <<>> PROVE first_token \in Nat
      OBVIOUS
    <3>1. events \in Seq(Event) /\ first_token = events[1].t
      BY DEF ClientInv
    <3>2. 1 \in 1..Len(events)
      BY <3>1
    <3> QED
      BY <3>1, <3>2, EventFacts
  <2> QED
    BY <2>1 DEF ClientInv, TtftHonest, UNSET
<1>2. TokensHonest
  <2> SUFFICES ASSUME ok, output > 0, events # <<>>
               PROVE  /\ TokenSum(events) = output
                      /\ TokenSum(Itls) = output - events[1].tokens
                      /\ output >= Len(events) => GapSum(Itls) = last_token - first_token
    BY DEF TokensHonest
  <2>1. /\ events \in Seq(Event) /\ output \in Nat /\ SharedOut(events, output) /\ InTime(events)
        /\ first_token = events[1].t /\ last_token = events[Len(events)].t
    BY DEF ClientInv
  <2>2. PICK n : n = Len(events)
    OBVIOUS
  <2>3. n \in Nat \ {0} /\ 1 \in 1..n /\ \A i \in 1..n : events[i] \in Event
    BY <2>1, <2>2
  <2>4. Total(Column(events)) = output /\ events[1].tokens > 0
    BY <2>1, SharesAddUp
  <2>5. TokenSum(events) = output
    BY <2>4 DEF TokenSum, Column
  <2>6. PICK S : S = {e \in Range(events) : e.tokens > 0}
    OBVIOUS
  <2>7. \A i \in 1..n : events[i] \in S <=> events[i].tokens > 0
    BY <2>1, <2>2, <2>6 DEF Range
  <2>8. PICK evs : evs = Those(events, S)
    OBVIOUS
  <2>9. /\ evs \in Seq(Event) /\ Total(Column(evs)) = output
        /\ evs # <<>> /\ evs[1] = events[1]
        /\ (\A i \in 1..n : events[i] \in S) => evs = events
    BY <2>1, <2>2, <2>3, <2>4, <2>7, <2>8, LeavingOutEmpty
  <2>10. PICK m : m = Len(evs)
    OBVIOUS
  <2>11. m \in Nat \ {0} /\ DOMAIN evs = 1..m
    BY <2>9, <2>10
  <2>12. Itls = [i \in 1..m - 1 |-> [gap |-> evs[i + 1].t - evs[i].t, tokens |-> evs[i + 1].tokens]]
    BY <2>6, <2>8, <2>10 DEF Itls
  <2>13. TokenSum(Itls) = output - events[1].tokens
    <3>1. PICK c : c = Column(evs)
      OBVIOUS
    <3>2. c = [i \in 1..m |-> evs[i].tokens] /\ \A i \in 1..m : evs[i].tokens \in Nat
      BY <2>9, <2>10, <2>11, <3>1, EventFacts DEF Column
    <3>3. c \in Seq(Nat) /\ Len(c) = m /\ c # <<>> /\ \A i \in 1..m : c[i] = evs[i].tokens
      BY <2>11, <3>2
    <3>4. c[1] + Total([i \in 1..m - 1 |-> c[i + 1]]) = output
      BY <2>9, <3>1, <3>3, TotalOfRest
    <3>5. [i \in DOMAIN Itls |-> Itls[i].tokens] = [i \in 1..m - 1 |-> c[i + 1]]
      <4>1. \A i \in 1..m - 1 : i + 1 \in 1..m
        BY <2>11
      <4>2. \A i \in 1..m - 1 : Itls[i].tokens = c[i + 1]
        BY <2>12, <3>3, <4>1
      <4>3. DOMAIN Itls = 1..m - 1
        BY <2>12
      <4> QED
        BY <4>2, <4>3
    <3>6. PICK t : t = Total([i \in 1..m - 1 |-> c[i + 1]])
      OBVIOUS
    <3>7. t \in Nat
      <4>1. [i \in 1..m - 1 |-> c[i + 1]] \in Seq(Nat)
        <5>1. \A i \in 1..m - 1 : c[i + 1] \in Nat
          BY <2>11, <3>3
        <5>2. m - 1 \in Nat
          BY <2>11
        <5> QED
          BY <5>1, <5>2
      <4> QED
        BY <3>6, <4>1, TotalOfAppend
    <3>8. TokenSum(Itls) = t /\ c[1] + t = output
      BY <3>4, <3>5, <3>6 DEF TokenSum
    <3>9. c[1] = events[1].tokens /\ c[1] \in Nat
      BY <2>9, <2>11, <3>3
    <3> QED
      BY <2>1, <3>7, <3>8, <3>9
  <2>14. ASSUME output >= n PROVE GapSum(Itls) = last_token - first_token
    <3>1. evs = events /\ m = n
      BY <2>1, <2>2, <2>7, <2>9, <2>10, <2>14, SharesAddUp
    <3>2. Itls = [i \in 1..n - 1 |-> [gap |-> events[i + 1].t - events[i].t, tokens |-> events[i + 1].tokens]]
      BY <2>12, <3>1
    <3>3. [i \in DOMAIN Itls |-> Itls[i].gap] = [i \in 1..n - 1 |-> events[i + 1].t - events[i].t]
      <4>1. \A i \in 1..n - 1 : Itls[i].gap = events[i + 1].t - events[i].t
        BY <3>2
      <4>2. DOMAIN Itls = 1..n - 1
        BY <3>2
      <4> QED
        BY <4>1, <4>2
    <3> QED
      BY <2>1, <2>2, <3>3, GapsAddUp DEF GapSum
  <2> QED
    BY <2>2, <2>5, <2>13, <2>14
<1> QED
  BY <1>1, <1>2 DEF RecordHonest

\* Events with one token each are shared out as well, if the count is theirs.
LEMMA OneEachIsShared ==
  ASSUME NEW q \in Seq(Event), q # <<>>, \A i \in 1..Len(q) : q[i].tokens = 1
  PROVE  SharedOut(q, Len(q))
<1>1. PICK n : n = Len(q)
  OBVIOUS
<1>2. n \in Nat \ {0}
  BY <1>1
<1>3. n \div n = 1 /\ n % n = 0
  BY <1>2
<1>4. \A i \in 1..n : ~(i <= 0)
  BY <1>2
<1> QED
  BY <1>1, <1>3, <1>4 DEF SharedOut

\* Without text or stamps nothing about the events changes.
LEMMA SameEvents ==
  ASSUME ClientInv, UNCHANGED <<first_chunk, first_token, last_token, events, usage>>,
         at' \in Nat, at <= at', output' \in Nat, phase # "over",
         \/ phase' \in {"connecting", "streaming"} /\ done_at' = done_at
         \/ phase' = "over" /\ done_at' = at',
         ~ok'
  PROVE  ClientInv'
<1>1. /\ at \in Nat /\ first_chunk \in Stamps /\ first_chunk <= at /\ first_token \in Stamps
      /\ last_token \in Stamps /\ (events # <<>> => last_token <= at)
      /\ done_at = UNSET /\ UNSET = -1 /\ Stamps = Nat \cup {-1}
  BY DEF ClientInv, Stamps, UNSET
<1>2. first_chunk <= at' /\ (events # <<>> => last_token <= at')
  BY <1>1
<1>3. done_at' \in Stamps /\ (done_at' # UNSET => phase' = "over" /\ done_at' = at')
  BY <1>1
<1>4. InTime(events)'
  BY DEF ClientInv, InTime
<1> QED
  BY <1>2, <1>3, <1>4 DEF ClientInv

LEMMA FrameKeeps == ASSUME ClientInv, Frame PROVE ClientInv'
<1>1. /\ at \in Nat /\ first_chunk \in Stamps /\ first_chunk <= at /\ first_token \in Stamps
      /\ last_token \in Stamps /\ usage \in Stamps /\ events \in Seq(Event) /\ InTime(events)
      /\ UNSET = -1 /\ Stamps = Nat \cup {-1} /\ phase = "streaming" /\ done_at = UNSET
      /\ events = <<>> => first_token = UNSET
      /\ events # <<>> =>
           /\ first_token = events[1].t /\ last_token = events[Len(events)].t
           /\ first_chunk # UNSET /\ first_chunk <= first_token /\ last_token <= at
      /\ \A i \in 1..Len(events) : events[i].tokens = 1
      /\ output \in Nat
  BY DEF ClientInv, Frame, Stamps, UNSET
<1>2. UNCHANGED <<phase, at, done_at, output, reason>> /\ first_chunk' = Stamp(first_chunk)
  BY DEF Frame
<1>3. first_chunk' \in Stamps /\ first_chunk' <= at /\ first_chunk' # UNSET
      /\ (first_chunk # UNSET => first_chunk' = first_chunk)
  BY <1>1, <1>2 DEF Stamp
<1>4. PICK text \in BOOLEAN, u \in Usages \cup {UNSET} :
        /\ usage' = IF u = UNSET THEN usage ELSE u
        /\ first_token' = FirstToken(text)
        /\ last_token' = IF text THEN at ELSE last_token
        /\ events' = IF text THEN Append(events, [t |-> at, tokens |-> 1]) ELSE events
  BY DEF Frame
<1>5. usage' \in Stamps
  BY <1>1, <1>4, ClientAssumption
<1>6. ~ok'
  BY <1>1, <1>2 DEF ok
<1>7. CASE ~text
  <2>1. UNCHANGED <<first_token, last_token, events>>
    BY <1>4, <1>7 DEF FirstToken
  <2>2. InTime(events)'
    BY <1>1, <2>1 DEF InTime
  <2> QED
    BY <1>1, <1>2, <1>3, <1>5, <1>6, <2>1, <2>2 DEF ClientInv
<1>8. CASE text
  <2>1. PICK e \in Event : e = [t |-> at, tokens |-> 1] /\ e.t = at /\ e.tokens = 1
    <3>1. [t |-> at, tokens |-> 1] \in Event
      BY <1>1 DEF Event
    <3> QED
      BY <3>1
  <2>2. PICK n : n = Len(events)
    OBVIOUS
  <2>3. /\ events' = Append(events, e) /\ last_token' = at /\ first_token' = Stamp(first_token)
    BY <1>4, <1>8, <2>1 DEF FirstToken
  <2>4. /\ n \in Nat /\ events' \in Seq(Event) /\ Len(events') = n + 1 /\ events' # <<>>
        /\ events'[n + 1] = e /\ \A i \in 1..n : events'[i] = events[i]
    BY <1>1, <2>2, <2>3
  <2>5. first_token' = events'[1].t /\ first_chunk' <= first_token' /\ first_token' \in Nat
    <3>1. CASE events = <<>>
      <4>1. n = 0 /\ first_token' = at
        BY <1>1, <2>2, <2>3, <3>1 DEF Stamp
      <4> QED
        BY <1>1, <1>3, <2>1, <2>4, <4>1
    <3>2. CASE events # <<>>
      <4>1. 1 \in 1..n /\ events[1].t \in Nat
        BY <1>1, <2>2, <3>2, EventFacts
      <4>2. first_token' = first_token
        BY <1>1, <2>3, <3>2, <4>1 DEF Stamp
      <4> QED
        BY <1>1, <1>3, <2>4, <3>2, <4>1, <4>2
    <3> QED
      BY <3>1, <3>2
  <2>6. InTime(events')
    <3> SUFFICES ASSUME NEW i \in 1..(n + 1) - 1 PROVE events'[i].t <= events'[i + 1].t
      BY <2>4 DEF InTime
    <3>1. CASE i = n
      <4>1. n \in 1..n /\ events # <<>>
        BY <1>1, <2>2, <2>4, <3>1
      <4> QED
        BY <1>1, <2>1, <2>2, <2>4, <3>1, <4>1
    <3>2. CASE i # n
      <4>1. i \in 1..n - 1 /\ i \in 1..n /\ i + 1 \in 1..n
        BY <2>4, <3>2
      <4> QED
        BY <1>1, <2>2, <2>4, <4>1 DEF InTime
    <3> QED
      BY <3>1, <3>2
  <2>7. \A i \in 1..n + 1 : events'[i].tokens = 1
    <3>1. \A i \in 1..n + 1 : i \in 1..n \/ i = n + 1
      BY <2>4
    <3> QED
      BY <1>1, <2>1, <2>2, <2>4, <3>1
  <2>8. last_token' = events'[Len(events')].t /\ last_token' <= at' /\ last_token' \in Stamps
    BY <1>1, <1>2, <2>1, <2>3, <2>4
  <2> QED
    BY <1>1, <1>2, <1>3, <1>5, <1>6, <2>4, <2>5, <2>6, <2>7, <2>8 DEF ClientInv
<1> QED
  BY <1>7, <1>8

LEMMA EndKeeps == ASSUME ClientInv, EndOfStream PROVE ClientInv'
<1>1. /\ at \in Nat /\ usage \in Stamps /\ events \in Seq(Event) /\ InTime(events)
      /\ phase = "streaming" /\ done_at = UNSET /\ Stamps = Nat \cup {-1} /\ UNSET = -1
      /\ \A i \in 1..Len(events) : events[i].tokens = 1
  BY DEF ClientInv, EndOfStream, Stamps, UNSET
<1>2. PICK out : out = IF usage # UNSET THEN usage ELSE Len(events)
  OBVIOUS
<1>3. /\ phase' = "over" /\ done_at' = at /\ output' = out
      /\ events' = IF out > 0 /\ events # <<>> /\ out # Len(events) THEN Rebalanced(out) ELSE events
      /\ UNCHANGED <<at, frames, first_chunk, first_token, last_token, usage>>
  BY <1>2 DEF EndOfStream, Complete
<1>4. out \in Nat
  BY <1>1, <1>2
<1>5. PICK n : n = Len(events)
  OBVIOUS
<1>6. /\ events' \in Seq(Event) /\ Len(events') = n
      /\ \A i \in 1..n : events'[i].t = events[i].t
      /\ out > 0 /\ events # <<>> => SharedOut(events', out)
  <2>1. CASE out > 0 /\ events # <<>> /\ out # Len(events)
    <3>1. n \in Nat \ {0}
      BY <1>1, <1>5, <2>1
    <3>2. PICK f : f = [i \in 1..n |-> out \div n + (IF i <= out % n THEN 1 ELSE 0)]
      OBVIOUS
    <3>3. \A i \in 1..n : f[i] \in Nat /\ f[i] = out \div n + (IF i <= out % n THEN 1 ELSE 0)
      BY <1>4, <3>1, <3>2
    <3>4. events' = [i \in 1..n |-> [events[i] EXCEPT !.tokens = f[i]]]
      BY <1>3, <1>5, <2>1, <3>3 DEF Rebalanced
    <3>5. ASSUME NEW i \in 1..n
          PROVE  events'[i] \in Event /\ events'[i].t = events[i].t /\ events'[i].tokens = f[i]
      <4>1. events'[i] = [events[i] EXCEPT !.tokens = f[i]]
        BY <3>4
      <4>2. events[i] \in Event /\ f[i] \in Nat
        BY <1>1, <1>5, <3>3
      <4> QED
        BY <4>1, <4>2 DEF Event
    <3>6. events' \in Seq(Event) /\ Len(events') = n
      <4>1. events' = [i \in 1..n |-> events'[i]]
        BY <3>4
      <4> QED
        BY <3>1, <3>5, <4>1
    <3> QED
      BY <3>3, <3>5, <3>6 DEF SharedOut
  <2>2. CASE ~(out > 0 /\ events # <<>> /\ out # Len(events))
    <3>1. events' = events
      BY <1>3, <2>2
    <3>2. out > 0 /\ events # <<>> => SharedOut(events, out)
      BY <1>1, <2>2, OneEachIsShared
    <3> QED
      BY <1>1, <1>5, <3>1, <3>2
  <2> QED
    BY <2>1, <2>2
<1>7. InTime(events')
  <2> SUFFICES ASSUME NEW i \in 1..n - 1 PROVE events'[i].t <= events'[i + 1].t
    BY <1>6 DEF InTime
  <2>1. i \in 1..n /\ i + 1 \in 1..n
    BY <1>1, <1>5
  <2> QED
    BY <1>1, <1>5, <1>6, <2>1 DEF InTime
<1>8. /\ (events' = <<>> <=> events = <<>>)
      /\ events # <<>> => events'[1].t = events[1].t /\ events'[Len(events')].t = events[Len(events)].t
  <2>1. events' = <<>> <=> events = <<>>
    BY <1>1, <1>5, <1>6
  <2>2. events # <<>> => 1 \in 1..n /\ n \in 1..n
    BY <1>1, <1>5
  <2> QED
    BY <1>5, <1>6, <2>1, <2>2
<1>9. done_at' \in Stamps
  BY <1>1, <1>3
<1> QED
  BY <1>1, <1>3, <1>4, <1>6, <1>7, <1>8, <1>9 DEF ClientInv

\* The record of a streamed answer (RecordHonest): the tokens the latencies are
\* computed over are those the server bills, the gaps add up to the decode time,
\* and the stamps of every record, broken or not, are in order.
THEOREM RecordsAreHonest == ClientSpec => []RecordHonest
<1>1. ClientInit => ClientInv
  <2> SUFFICES ASSUME ClientInit PROVE ClientInv
    OBVIOUS
  <2>1. <<>> \in Seq(Event) /\ Len(<<>>) = 0 /\ InTime(<<>>) /\ \A i \in 1..0 : FALSE
    BY DEF InTime
  <2> QED
    BY <2>1 DEF ClientInit, ClientInv, Stamps, UNSET
<1>2. ASSUME ClientInv, [ClientNext]_clientVars PROVE ClientInv'
  <2>1. CASE Connect
    <3>1. at \in Nat /\ at <= at /\ output \in Nat
      BY <1>2 DEF ClientInv
    <3> QED
      BY <1>2, <2>1, <3>1, SameEvents DEF Connect, ok
  <2>2. CASE Break
    <3>1. at \in Nat /\ at <= at /\ output \in Nat
      BY <1>2 DEF ClientInv
    <3> QED
      BY <1>2, <2>2, <3>1, SameEvents DEF Break, ok
  <2>3. CASE Wait
    <3>1. at' \in Nat /\ at <= at' /\ output \in Nat /\ phase \in {"connecting", "streaming"}
      BY <1>2, <2>3 DEF ClientInv, Wait
    <3> QED
      BY <1>2, <2>3, <3>1, SameEvents DEF Wait, ok
  <2>4. CASE UNCHANGED clientVars
    <3>1. ok' = ok /\ InTime(events)' = InTime(events) /\ SharedOut(events, output)' = SharedOut(events, output)
      BY <2>4 DEF clientVars, ok, InTime, SharedOut
    <3> QED
      BY <1>2, <2>4, <3>1 DEF clientVars, ClientInv
  <2> QED
    BY <1>2, <2>1, <2>2, <2>3, <2>4, FrameKeeps, EndKeeps DEF ClientNext
<1> QED
  BY <1>1, <1>2, RecordIsHonest, PTL DEF ClientSpec

-----------------------------------------------------------------------------
(***************************************************************************)
(* The load drivers.  The closed loop: a request is out exactly when one   *)
(* worker waits for it.  The open loop: what was fired is what was due.    *)
(***************************************************************************)
LoadTypeOK ==
  /\ driver \in {"closed", "open"} /\ clock \in Nat /\ scheduled \in 0..NumRequests
  /\ worker \in [Workers -> (0..NumRequests) \cup {Gone}]
  /\ request \in [All -> {"new", "waiting", "sent", "recorded"}]
  /\ {wake, drain, ended} \subseteq Nat \cup {Gone}
  /\ crowd \in [All -> Nat]

\* The workers that wait for an answer, and those who took a request at all:
\* while one has not started, no other has taken its second.
Sending == {w \in Workers : worker[w] \in All}
OneEach ==
  /\ \A r \in All : /\ request[r] = "sent" <=> \E w \in Workers : worker[w] = r
                    /\ r > scheduled => request[r] = "new"
  /\ \A v, w \in Workers : worker[v] = worker[w] /\ worker[v] \in All => v = w
  /\ (\E w \in Workers : worker[w] = Gone) => ~MayTake
  /\ (\E w \in Workers : worker[w] = 0) => scheduled = Cardinality(Sending)
ClosedInv ==
  /\ wake = Gone /\ drain = Gone
  /\ OneEach
  /\ ended # Gone => \A w \in Workers : worker[w] = Gone
OpenInv ==
  /\ \A w \in Workers : worker[w] = Gone
  /\ \A r \in All : crowd[r] = 0
  /\ wake # Gone =>
       /\ drain = Gone
       /\ Arrival[scheduled + 1] <= wake /\ Arrival[scheduled + 1] < Duration
       /\ wake = Arrival[scheduled + 1] \/ wake <= clock
       /\ \A i \in 1..scheduled : Arrival[i] <= clock
  /\ wake = Gone => drain # Gone /\ \A i \in All : Arrival[i] < Duration <=> i <= scheduled
  /\ ended # Gone => drain # Gone /\ (AllAnswered \/ TimedOut)
LoadInv ==
  /\ LoadTypeOK
  /\ driver = "closed" => ClosedInv
  /\ driver = "open" => OpenInv
  /\ MeasuredWhileBusy

LEMMA LoadConstants ==
  /\ NumRequests \in Nat \ {0} /\ Concurrency \in Nat \ {0} /\ Duration \in Nat \ {0}
  /\ MaxRequests \in Nat /\ DefaultWarmUp \in Nat /\ DrainTimeout \in Nat
  /\ \A i \in 1..NumRequests + 1 : Arrival[i] \in Nat
  /\ Arrival[1] = 0 /\ \A i \in 1..NumRequests : Arrival[i] <= Arrival[i + 1]
  /\ WarmUp \in Nat /\ Concurrency <= WarmUp
<1>1. /\ NumRequests \in Nat \ {0} /\ Concurrency \in Nat \ {0} /\ Duration \in Nat \ {0}
      /\ MaxRequests \in Nat /\ DefaultWarmUp \in Nat /\ DrainTimeout \in Nat
  BY LoadAssumption
<1>2. /\ \A i \in 1..NumRequests + 1 : Arrival[i] \in Nat
      /\ Arrival[1] = 0 /\ \A i \in 1..NumRequests : Arrival[i] <= Arrival[i + 1]
  BY LoadAssumption
<1>3. WarmUp \in Nat /\ Concurrency <= WarmUp
  BY <1>1 DEF WarmUp
<1> QED
  BY <1>1, <1>2, <1>3

LEMMA CrowdsFinite ==
  /\ IsFiniteSet(Workers) /\ Cardinality(Workers) = Concurrency
  /\ \A S : IsFiniteSet(In("sent") \ S)
<1>1. 1 \in Int /\ Concurrency \in Int /\ Concurrency > 0 /\ NumRequests \in Int
  BY LoadConstants
<1>2. IsFiniteSet(1..Concurrency) /\ Cardinality(1..Concurrency) = Concurrency /\ IsFiniteSet(1..NumRequests)
  BY <1>1, FS_Interval
<1>3. ASSUME NEW S PROVE IsFiniteSet(In("sent") \ S)
  <2>1. In("sent") \ S \subseteq 1..NumRequests
    BY DEF In, All
  <2> QED
    BY <1>2, <2>1, FS_Subset
<1> QED
  BY <1>2, <1>3 DEF Workers

LEMMA LoadInitInv == LoadInit => LoadInv
<1> SUFFICES ASSUME LoadInit PROVE LoadInv
  OBVIOUS
<1>1. LoadTypeOK
  BY LoadConstants DEF LoadInit, LoadTypeOK, Workers, All, Gone
<1>2. MeasuredWhileBusy
  BY DEF LoadInit, MeasuredWhileBusy
<1>3. ASSUME driver = "closed" PROVE ClosedInv
  <2>1. /\ \A w \in Workers : worker[w] = 0
        /\ \A r \in All : request[r] = "new" /\ r # 0
        /\ wake = Gone /\ drain = Gone /\ ended = Gone /\ scheduled = 0
    BY <1>3 DEF LoadInit, All
  <2>2. Sending = {}
    BY <2>1 DEF Sending
  <2>3. Cardinality(Sending) = 0
    BY <2>2, FS_EmptySet
  <2> QED
    BY <2>1, <2>3 DEF ClosedInv, OneEach, Gone
<1>4. ASSUME driver = "open" PROVE OpenInv
  BY <1>4, LoadConstants DEF LoadInit, OpenInv, Gone
<1> QED
  BY <1>1, <1>2, <1>3, <1>4 DEF LoadInv

\* When nobody is new and nobody has left, as many requests are out as there
\* are workers.
LEMMA FullHouse ==
  ASSUME LoadTypeOK, OneEach, \A v \in Workers : worker[v] \in All
  PROVE  Cardinality(In("sent")) = Concurrency
<1>1. /\ \A r \in All : request[r] = "sent" <=> \E v \in Workers : worker[v] = r
      /\ \A v, u \in Workers : worker[v] = worker[u] => v = u
  BY DEF OneEach
<1>2. worker \in [Workers -> In("sent")]
  BY <1>1 DEF LoadTypeOK, In
<1>3. worker \in Injection(Workers, In("sent"))
  BY <1>1, <1>2 DEF Injection, IsInjective, LoadTypeOK
<1>4. worker \in Surjection(Workers, In("sent"))
  BY <1>1, <1>2 DEF Surjection, In
<1>5. ExistsBijection(Workers, In("sent"))
  BY <1>3, <1>4 DEF ExistsBijection, Bijection
<1> QED
  BY <1>5, CrowdsFinite, FS_Bijection

\* A worker takes a request beyond the warm-up: all others wait for one.
LEMMA TakenWhileBusy ==
  ASSUME LoadInv, driver = "closed", MayTake, NEW w \in Workers, scheduled + 1 > WarmUp,
         worker[w] # 0 => \A v \in Workers : worker[v] # 0
  PROVE  Cardinality(In("sent") \ {worker[w]}) + 1 = Concurrency
<1>1. LoadTypeOK /\ OneEach
  BY DEF LoadInv, ClosedInv
<1>2. scheduled \in Nat /\ worker \in [Workers -> (0..NumRequests) \cup {Gone}]
  BY <1>1, LoadConstants DEF LoadTypeOK
<1>3. worker[w] # 0
  <2> SUFFICES ASSUME worker[w] = 0 PROVE FALSE
    OBVIOUS
  <2>1. scheduled = Cardinality(Sending) /\ Sending \subseteq Workers \ {w}
    BY <1>1 DEF OneEach, Sending, All
  <2>2. /\ IsFiniteSet(Workers \ {w})
        /\ Cardinality(Workers \ {w}) = Concurrency - 1
    BY CrowdsFinite, FS_RemoveElement
  <2>3. Cardinality(Sending) <= Concurrency - 1
    BY <2>1, <2>2, FS_Subset
  <2> QED
    BY <1>2, <2>1, <2>3, LoadConstants
<1>4. \A v \in Workers : worker[v] \in All
  <2> SUFFICES ASSUME NEW v \in Workers PROVE worker[v] \in All
    OBVIOUS
  <2>1. worker[v] # 0 /\ worker[v] # Gone
    BY <1>1, <1>3 DEF OneEach
  <2> QED
    BY <1>2, <2>1, LoadConstants DEF All
<1>5. Cardinality(In("sent")) = Concurrency
  BY <1>1, <1>4, FullHouse
<1>6. worker[w] \in In("sent") /\ IsFiniteSet(In("sent"))
  <2>1. worker[w] \in In("sent")
    BY <1>1, <1>4 DEF OneEach, In
  <2>2. IsFiniteSet(In("sent") \ {}) /\ In("sent") \ {} = In("sent")
    BY CrowdsFinite
  <2> QED
    BY <2>1, <2>2
<1>7. Cardinality(In("sent") \ {worker[w]}) = Concurrency - 1
  BY <1>5, <1>6, FS_RemoveElement
<1> QED
  BY <1>7, LoadConstants

LEMMA WorkerTakes ==
  ASSUME LoadInv, NEW w \in Workers, WorkerTurn(w), MayTake
  PROVE  LoadInv'
<1> DEFINE n == scheduled + 1
           k == Cardinality(In("sent") \ {worker[w]}) + 1
<1>1. LoadTypeOK /\ driver = "closed" /\ ClosedInv /\ OneEach /\ MeasuredWhileBusy
  BY DEF LoadInv, WorkerTurn, ClosedInv
<1>2. /\ scheduled' = n
      /\ worker' = [worker EXCEPT ![w] = n]
      /\ request' = [Recorded(w) EXCEPT ![n] = "sent"]
      /\ crowd' = [crowd EXCEPT ![n] = k]
      /\ UNCHANGED <<driver, clock, wake, drain, ended>>
      /\ worker[w] # 0 => \A v \in Workers : worker[v] # 0
  BY DEF WorkerTurn
<1>3. /\ n \in All /\ scheduled \in Nat /\ n <= NumRequests
      /\ worker \in [Workers -> (0..NumRequests) \cup {Gone}]
      /\ request \in [All -> {"new", "waiting", "sent", "recorded"}] /\ crowd \in [All -> Nat]
      /\ Gone \notin 0..NumRequests
  BY <1>1, LoadConstants DEF LoadTypeOK, MayTake, All, Gone
<1>4. ASSUME NEW v \in Workers PROVE worker[v] # Gone /\ worker[v] \in 0..scheduled
  <2>1. worker[v] # Gone
    BY <1>1 DEF OneEach
  <2>2. worker[v] \in All => request[worker[v]] = "sent"
    BY <1>1 DEF OneEach
  <2>3. worker[v] \in All => worker[v] <= scheduled
    <3>1. worker[v] \in All /\ worker[v] > scheduled => request[worker[v]] = "new"
      BY <1>1 DEF OneEach
    <3> QED
      BY <1>3, <2>2, <3>1 DEF All
  <2> QED
    BY <1>3, <2>1, <2>3 DEF All
<1>5. /\ Recorded(w) \in [All -> {"new", "waiting", "sent", "recorded"}]
      /\ \A r \in All : Recorded(w)[r] = IF worker[w] = r THEN "recorded" ELSE request[r]
  BY <1>3, <1>4 DEF Recorded, All
<1>6. /\ request' \in [All -> {"new", "waiting", "sent", "recorded"}]
      /\ request'[n] = "sent"
      /\ \A r \in All \ {n} : request'[r] = IF worker[w] = r THEN "recorded" ELSE request[r]
  BY <1>2, <1>3, <1>5
<1>7. /\ worker' \in [Workers -> (0..NumRequests) \cup {Gone}]
      /\ worker'[w] = n /\ \A v \in Workers \ {w} : worker'[v] = worker[v]
  BY <1>2, <1>3 DEF All
<1>8. k \in Nat
  <2>1. IsFiniteSet(In("sent") \ {worker[w]})
    BY CrowdsFinite
  <2> QED
    BY <2>1, FS_CardinalityType
<1>9. /\ crowd' \in [All -> Nat] /\ crowd'[n] = k
      /\ \A r \in All \ {n} : crowd'[r] = crowd[r]
  BY <1>2, <1>3, <1>8
<1>10. LoadTypeOK'
  BY <1>1, <1>2, <1>3, <1>6, <1>7, <1>9 DEF LoadTypeOK, All
<1>11. n > WarmUp => k = Concurrency
  BY <1>1, <1>2, TakenWhileBusy
<1>12. MeasuredWhileBusy'
  BY <1>1, <1>9, <1>11 DEF MeasuredWhileBusy
<1>13. ASSUME NEW r \in All
       PROVE  /\ request'[r] = "sent" <=> \E v \in Workers : worker'[v] = r
              /\ r > n => request'[r] = "new"
  <2>1. CASE r = n
    BY <1>3, <1>6, <1>7, <2>1
  <2>2. CASE r # n
    <3>1. request[r] = "sent" <=> \E v \in Workers : worker[v] = r
      BY <1>1 DEF OneEach
    <3>2. worker[w] = r => \A v \in Workers \ {w} : worker[v] # r
      BY <1>1 DEF OneEach
    <3>3. request'[r] = "sent" <=> \E v \in Workers \ {w} : worker[v] = r
      BY <1>6, <2>2, <3>1, <3>2
    <3>4. request'[r] = "sent" <=> \E v \in Workers : worker'[v] = r
      BY <1>7, <2>2, <3>3
    <3>5. r > scheduled => request[r] = "new" /\ worker[w] # r
      BY <1>1, <1>3, <1>4 DEF OneEach, All
    <3>6. r > n => r > scheduled
      BY <1>3 DEF All
    <3> QED
      BY <1>6, <2>2, <3>4, <3>5, <3>6
  <2> QED
    BY <2>1, <2>2
<1>14. ASSUME NEW u \in Workers, NEW v \in Workers, worker'[u] = worker'[v], worker'[u] \in All
       PROVE  u = v
  <2>1. \A x \in Workers : worker[x] # n
    BY <1>3, <1>4
  <2>2. worker[u] = worker[v] /\ worker[u] \in All => u = v
    BY <1>1 DEF OneEach
  <2> QED
    BY <1>7, <1>14, <2>1, <2>2
<1>15. \A v \in Workers : worker'[v] # Gone
  BY <1>3, <1>4, <1>7 DEF All
<1>16. ASSUME NEW v \in Workers, worker'[v] = 0 PROVE scheduled' = Cardinality(Sending')
  <2>1. worker[v] = 0 /\ worker[w] = 0
    BY <1>2, <1>3, <1>7, <1>16 DEF All
  <2>2. scheduled = Cardinality(Sending) /\ w \notin Sending
    BY <1>1, <2>1 DEF OneEach, Sending, All
  <2>3. Sending' = Sending \cup {w}
    <3>1. \A x \in Workers : worker'[x] \in All <=> (worker[x] \in All \/ x = w)
      BY <1>3, <1>7
    <3> QED
      BY <3>1 DEF Sending
  <2>4. IsFiniteSet(Sending)
    BY CrowdsFinite, FS_Subset DEF Sending
  <2> QED
    BY <1>2, <2>2, <2>3, <2>4, FS_AddElement
<1>17. OneEach'
  BY <1>2, <1>13, <1>14, <1>15, <1>16 DEF OneEach
<1>18. ClosedInv'
  BY <1>1, <1>2, <1>4, <1>17 DEF ClosedInv
<1> QED
  BY <1>1, <1>2, <1>10, <1>12, <1>18 DEF LoadInv

LEMMA WorkerLeaves ==
  ASSUME LoadInv, NEW w \in Workers, WorkerTurn(w), ~MayTake
  PROVE  LoadInv'
<1>1. LoadTypeOK /\ driver = "closed" /\ ClosedInv /\ OneEach /\ MeasuredWhileBusy
  BY DEF LoadInv, WorkerTurn, ClosedInv
<1>2. /\ worker' = [worker EXCEPT ![w] = Gone]
      /\ request' = Recorded(w)
      /\ UNCHANGED <<scheduled, crowd, driver, clock, wake, drain, ended>>
      /\ worker[w] # 0 => \A v \in Workers : worker[v] # 0
      /\ worker[w] # Gone
  BY DEF WorkerTurn
<1>3. /\ worker \in [Workers -> (0..NumRequests) \cup {Gone}]
      /\ request \in [All -> {"new", "waiting", "sent", "recorded"}]
      /\ Gone \notin 0..NumRequests
  BY <1>1, LoadConstants DEF LoadTypeOK, Gone
<1>4. /\ request' \in [All -> {"new", "waiting", "sent", "recorded"}]
      /\ \A r \in All : request'[r] = IF worker[w] = r THEN "recorded" ELSE request[r]
  BY <1>2, <1>3 DEF Recorded, All
<1>5. /\ worker' \in [Workers -> (0..NumRequests) \cup {Gone}]
      /\ worker'[w] = Gone /\ \A v \in Workers \ {w} : worker'[v] = worker[v]
  BY <1>2, <1>3
<1>6. LoadTypeOK'
  BY <1>1, <1>2, <1>4, <1>5 DEF LoadTypeOK
<1>7. MeasuredWhileBusy'
  BY <1>1, <1>2 DEF MeasuredWhileBusy
<1>8. ASSUME NEW r \in All
      PROVE  /\ request'[r] = "sent" <=> \E v \in Workers : worker'[v] = r
             /\ r > scheduled => request'[r] = "new"
  <2>1. request[r] = "sent" <=> \E v \in Workers : worker[v] = r
    BY <1>1 DEF OneEach
  <2>2. worker[w] = r => \A v \in Workers \ {w} : worker[v] # r
    BY <1>1 DEF OneEach
  <2>3. request'[r] = "sent" <=> \E v \in Workers \ {w} : worker[v] = r
    BY <1>4, <2>1, <2>2
  <2>4. r # Gone
    BY <1>3 DEF All
  <2>5. r > scheduled => request[r] = "new" /\ worker[w] # r
    BY <1>1, <2>1 DEF OneEach
  <2> QED
    BY <1>4, <1>5, <2>3, <2>4, <2>5
<1>9. ASSUME NEW u \in Workers, NEW v \in Workers, worker'[u] = worker'[v], worker'[u] \in All
      PROVE  u = v
  <2>1. Gone \notin All
    BY <1>3 DEF All
  <2>2. worker[u] = worker[v] /\ worker[u] \in All => u = v
    BY <1>1 DEF OneEach
  <2> QED
    BY <1>5, <1>9, <2>1, <2>2
<1>10. ASSUME NEW v \in Workers, worker'[v] = 0 PROVE scheduled = Cardinality(Sending')
  <2>1. worker[v] = 0 /\ worker[w] = 0
    BY <1>2, <1>5, <1>10 DEF Gone
  <2>2. 0 \notin All /\ Gone \notin All
    BY <1>3 DEF All
  <2>3. Sending' = Sending
    <3>1. \A x \in Workers : worker'[x] \in All <=> worker[x] \in All
      BY <1>5, <2>1, <2>2
    <3> QED
      BY <3>1 DEF Sending
  <2> QED
    BY <1>1, <2>1, <2>3 DEF OneEach
<1>11. ~MayTake'
  BY <1>2 DEF MayTake
<1>12. OneEach'
  BY <1>2, <1>8, <1>9, <1>10, <1>11 DEF OneEach
<1>13. ClosedInv'
  BY <1>1, <1>2, <1>5, <1>12 DEF ClosedInv
<1> QED
  BY <1>1, <1>2, <1>6, <1>7, <1>13 DEF LoadInv

LEMMA GatheredKeeps == ASSUME LoadInv, Gathered PROVE LoadInv'
<1>1. LoadTypeOK /\ driver = "closed" /\ ClosedInv /\ MeasuredWhileBusy
  BY DEF LoadInv, Gathered
<1>2. /\ UNCHANGED <<driver, clock, scheduled, worker, request, wake, drain, crowd>>
      /\ ended' = clock /\ \A w \in Workers : worker[w] = Gone
  BY DEF Gathered
<1>3. LoadTypeOK'
  BY <1>1, <1>2 DEF LoadTypeOK
<1>4. ClosedInv'
  BY <1>1, <1>2 DEF ClosedInv, OneEach, Sending, MayTake
<1> QED
  BY <1>1, <1>2, <1>3, <1>4 DEF LoadInv, MeasuredWhileBusy

\* Arrivals in order.
LEMMA ArrivalsAscend ==
  ASSUME NEW i \in 1..NumRequests + 1
  PROVE  \A j \in i..NumRequests + 1 : Arrival[i] <= Arrival[j]
<1> DEFINE T == {m \in 0..NumRequests + 1 - i : Arrival[i] <= Arrival[i + m]}
<1>1. i \in Nat /\ NumRequests + 1 - i \in Nat /\ i >= 1 /\ NumRequests \in Nat
  BY LoadConstants
<1>2. 0 \in T
  BY <1>1, LoadConstants
<1>3. ASSUME NEW m \in 1..NumRequests + 1 - i, m - 1 \in T PROVE m \in T
  <2>1. i + (m - 1) \in 1..NumRequests /\ (i + (m - 1)) + 1 = i + m /\ i + m \in 1..NumRequests + 1
    BY <1>1
  <2>2. Arrival[i] <= Arrival[i + (m - 1)] /\ Arrival[i + (m - 1)] <= Arrival[(i + (m - 1)) + 1]
    BY <1>3, <2>1, LoadConstants
  <2>3. i + (m - 1) \in 1..NumRequests + 1
    BY <1>1
  <2>4. Arrival[i] \in Nat /\ Arrival[i + (m - 1)] \in Nat /\ Arrival[i + m] \in Nat
    BY <1>1, <2>1, <2>3, LoadConstants
  <2> QED
    BY <2>1, <2>2, <2>4
<1> HIDE DEF T
<1>4. 0..NumRequests + 1 - i \subseteq T
  BY <1>1, <1>2, <1>3, InductionUpTo
<1>5. ASSUME NEW j \in i..NumRequests + 1 PROVE Arrival[i] <= Arrival[j]
  <2>1. j - i \in 0..NumRequests + 1 - i /\ i + (j - i) = j
    BY <1>1
  <2>2. Arrival[i] <= Arrival[i + (j - i)]
    BY <1>4, <2>1 DEF T
  <2> QED
    BY <2>1, <2>2
<1> QED
  BY <1>5

LEMMA DispatchKeeps == ASSUME LoadInv, Dispatch PROVE LoadInv'
<1>1. LoadTypeOK /\ driver = "open" /\ OpenInv /\ MeasuredWhileBusy
  BY DEF LoadInv, Dispatch
<1>2. UNCHANGED <<driver, clock, worker, ended, crowd>> /\ wake # Gone /\ clock >= wake
  BY DEF Dispatch
<1>3. /\ clock \in Nat /\ wake \in Nat /\ scheduled \in 0..NumRequests /\ scheduled + 1 \in 1..NumRequests + 1
      /\ drain = Gone /\ ended = Gone
      /\ Arrival[scheduled + 1] <= clock /\ Arrival[scheduled + 1] < Duration
      /\ \A i \in 1..scheduled : Arrival[i] <= clock
  <2>1. clock \in Nat /\ wake \in Nat /\ scheduled \in 0..NumRequests /\ scheduled + 1 \in 1..NumRequests + 1
    BY <1>1, <1>2, LoadConstants DEF LoadTypeOK
  <2>2. /\ drain = Gone /\ ended = Gone /\ Arrival[scheduled + 1] <= wake
        /\ Arrival[scheduled + 1] < Duration
        /\ \A i \in 1..scheduled : Arrival[i] <= clock
    BY <1>1, <1>2 DEF OpenInv
  <2>3. Arrival[scheduled + 1] \in Nat
    BY <2>1, LoadConstants
  <2> QED
    BY <1>2, <2>1, <2>2, <2>3
<1>4. \A i \in 1..scheduled + 1 : Arrival[i] < Duration /\ Arrival[i] <= clock
  <2> SUFFICES ASSUME NEW i \in 1..scheduled + 1 PROVE Arrival[i] < Duration /\ Arrival[i] <= clock
    OBVIOUS
  <2>1. i \in 1..NumRequests + 1 /\ scheduled + 1 \in i..NumRequests + 1
    BY <1>3, LoadConstants
  <2>2. Arrival[i] <= Arrival[scheduled + 1]
    BY <2>1, ArrivalsAscend
  <2>3. Arrival[i] \in Nat /\ Arrival[scheduled + 1] \in Nat
    BY <1>3, <2>1, LoadConstants
  <2> QED
    BY <1>3, <2>2, <2>3, LoadConstants
<1>5. CASE scheduled = NumRequests
  <2>1. wake' = Gone /\ drain' = clock /\ UNCHANGED <<scheduled, request>>
    BY <1>5 DEF Dispatch
  <2>2. LoadTypeOK'
    BY <1>1, <1>2, <1>3, <2>1 DEF LoadTypeOK
  <2>3. \A i \in All : Arrival[i] < Duration <=> i <= scheduled
    BY <1>4, <1>5, LoadConstants DEF All
  <2>4. OpenInv'
    BY <1>1, <1>2, <1>3, <2>1, <2>3 DEF OpenInv, Gone
  <2> QED
    BY <1>1, <1>2, <2>2, <2>4 DEF LoadInv, MeasuredWhileBusy
<1>6. CASE scheduled # NumRequests
  <2> DEFINE n == scheduled + 1
  <2>1. /\ scheduled' = n /\ request' = [request EXCEPT ![n] = "waiting"]
        /\ SleepFor(n)
    BY <1>6 DEF Dispatch
  <2>2. n \in All /\ n \in Nat /\ n + 1 \in 1..NumRequests + 1 /\ Arrival[n + 1] \in Nat
    BY <1>3, <1>6, LoadConstants DEF All
  <2>3. /\ request' \in [All -> {"new", "waiting", "sent", "recorded"}] /\ scheduled' \in 0..NumRequests
    BY <1>1, <2>1, <2>2 DEF LoadTypeOK, All
  <2>4. CASE Arrival[n + 1] >= Duration
    <3>1. wake' = Gone /\ drain' = clock
      BY <2>1, <2>4 DEF SleepFor, NextArrival
    <3>2. LoadTypeOK'
      BY <1>1, <1>2, <1>3, <2>3, <3>1 DEF LoadTypeOK
    <3>3. ASSUME NEW i \in All PROVE Arrival[i] < Duration <=> i <= n
      <4>1. CASE i <= n
        BY <1>3, <1>4, <4>1 DEF All
      <4>2. CASE ~(i <= n)
        <5>1. i \in n + 1..NumRequests + 1 /\ i \in 1..NumRequests + 1
          BY <2>2, <4>2, LoadConstants DEF All
        <5>2. Arrival[n + 1] <= Arrival[i] /\ Arrival[i] \in Nat
          BY <2>2, <5>1, ArrivalsAscend, LoadConstants
        <5> QED
          BY <2>2, <2>4, <4>2, <5>2, LoadConstants
      <4> QED
        BY <4>1, <4>2
    <3>4. OpenInv'
      BY <1>1, <1>2, <1>3, <2>1, <3>1, <3>3 DEF OpenInv, Gone
    <3> QED
      BY <1>1, <1>2, <3>2, <3>4 DEF LoadInv, MeasuredWhileBusy
  <2>5. CASE ~(Arrival[n + 1] >= Duration)
    <3>1. /\ wake' = (IF Arrival[n + 1] > clock THEN Arrival[n + 1] ELSE clock)
          /\ drain' = drain
      BY <2>1, <2>5 DEF SleepFor, NextArrival
    <3>2. wake' \in Nat
      BY <1>3, <2>2, <3>1
    <3>3. LoadTypeOK'
      BY <1>1, <1>2, <1>3, <2>3, <3>1, <3>2 DEF LoadTypeOK
    <3>4. /\ Arrival[n + 1] <= wake' /\ Arrival[n + 1] < Duration
          /\ wake' = Arrival[n + 1] \/ wake' <= clock
      BY <1>3, <2>2, <2>5, <3>1, LoadConstants
    <3>5. wake' # Gone
      BY <3>2 DEF Gone
    <3>6. OpenInv'
      BY <1>1, <1>2, <1>3, <1>4, <2>1, <3>1, <3>4, <3>5 DEF OpenInv
    <3> QED
      BY <1>1, <1>2, <3>3, <3>6 DEF LoadInv, MeasuredWhileBusy
  <2> QED
    BY <2>4, <2>5
<1> QED
  BY <1>5, <1>6

\* The tasks of the open loop: nothing is left for them when all answered.
LEMMA TasksKeep == ASSUME LoadInv, Acquire \/ Answer PROVE LoadInv'
<1>1. LoadTypeOK /\ driver = "open" /\ OpenInv /\ MeasuredWhileBusy
  BY DEF LoadInv, Acquire, Answer
<1>2. UNCHANGED <<driver, clock, scheduled, worker, wake, drain, ended, crowd>>
  BY DEF Acquire, Answer
<1>3. PICK r \in All, x \in {"sent", "recorded"} :
        r \in In("waiting") \cup In("sent") /\ request' = [request EXCEPT ![r] = x]
  <2>1. CASE Acquire
    BY <2>1 DEF Acquire, In
  <2>2. CASE Answer
    BY <2>2 DEF Answer, In
  <2> QED
    BY <2>1, <2>2
<1>4. LoadTypeOK'
  BY <1>1, <1>2, <1>3 DEF LoadTypeOK
<1>5. ~AllAnswered
  BY <1>3 DEF AllAnswered
<1>6. ended # Gone => TimedOut'
  BY <1>1, <1>2, <1>5 DEF OpenInv, TimedOut
<1>7. OpenInv'
  BY <1>1, <1>2, <1>6 DEF OpenInv
<1> QED
  BY <1>1, <1>2, <1>4, <1>7 DEF LoadInv, MeasuredWhileBusy

LEMMA EndDrainKeeps == ASSUME LoadInv, EndDrain PROVE LoadInv'
<1>1. LoadTypeOK /\ driver = "open" /\ OpenInv /\ MeasuredWhileBusy
  BY DEF LoadInv, EndDrain
<1>2. /\ UNCHANGED <<driver, clock, scheduled, worker, request, wake, drain, crowd>>
      /\ ended' = clock /\ drain # Gone /\ (AllAnswered \/ TimedOut)
  BY DEF EndDrain
<1>3. LoadTypeOK'
  BY <1>1, <1>2 DEF LoadTypeOK
<1>4. (AllAnswered \/ TimedOut)'
  BY <1>2 DEF AllAnswered, TimedOut, In
<1>5. OpenInv'
  BY <1>1, <1>2, <1>4 DEF OpenInv
<1> QED
  BY <1>1, <1>2, <1>3, <1>5 DEF LoadInv, MeasuredWhileBusy

LEMMA ElapseKeeps == ASSUME LoadInv, Elapse PROVE LoadInv'
<1>1. LoadTypeOK /\ MeasuredWhileBusy
  BY DEF LoadInv
<1>2. /\ UNCHANGED <<driver, scheduled, worker, request, wake, drain, ended, crowd>>
      /\ clock' = clock + 1 /\ clock \in Nat /\ clock' \in Nat
  BY <1>1 DEF Elapse, LoadTypeOK
<1>3. LoadTypeOK'
  BY <1>1, <1>2 DEF LoadTypeOK
<1>4. ASSUME driver = "closed" PROVE ClosedInv'
  <2>1. ClosedInv
    BY <1>4 DEF LoadInv
  <2>2. ~MayTake => ~MayTake'
    BY <1>2, LoadConstants DEF MayTake
  <2>3. OneEach'
    BY <1>2, <2>1, <2>2 DEF ClosedInv, OneEach, Sending
  <2> QED
    BY <1>2, <2>1, <2>3 DEF ClosedInv
<1>5. ASSUME driver = "open" PROVE OpenInv'
  <2>1. OpenInv
    BY <1>5 DEF LoadInv
  <2>2. wake <= clock => wake <= clock'
    BY <1>1, <1>2 DEF LoadTypeOK, Gone
  <2>3. \A i \in 1..scheduled : Arrival[i] <= clock => Arrival[i] <= clock'
    <3> SUFFICES ASSUME NEW i \in 1..scheduled PROVE Arrival[i] <= clock => Arrival[i] <= clock'
      OBVIOUS
    <3>1. i \in 1..NumRequests + 1
      BY <1>1, LoadConstants DEF LoadTypeOK
    <3>2. Arrival[i] \in Nat
      BY <3>1, LoadConstants
    <3> QED
      BY <1>2, <3>2
  <2>4. AllAnswered' <=> AllAnswered
    BY <1>2 DEF AllAnswered, In
  <2>5. TimedOut => TimedOut'
    BY <1>1, <1>2, LoadConstants DEF TimedOut, LoadTypeOK
  <2> QED
    BY <1>2, <2>1, <2>2, <2>3, <2>4, <2>5 DEF OpenInv
<1> QED
  BY <1>1, <1>2, <1>3, <1>4, <1>5 DEF LoadInv, MeasuredWhileBusy

LEMMA LoadStepKeeps == LoadInv /\ [LoadNext]_loadVars => LoadInv'
<1> SUFFICES ASSUME LoadInv, [LoadNext]_loadVars PROVE LoadInv'
  OBVIOUS
<1>1. CASE UNCHANGED loadVars
  BY <1>1 DEF loadVars, LoadInv, LoadTypeOK, ClosedInv, OpenInv, OneEach, Sending, MayTake,
              MeasuredWhileBusy, AllAnswered, TimedOut, In
<1>2. ASSUME NEW w \in Workers, WorkerTurn(w) PROVE LoadInv'
  BY <1>2, WorkerTakes, WorkerLeaves
<1> QED
  BY <1>1, <1>2, GatheredKeeps, DispatchKeeps, TasksKeep, EndDrainKeeps, ElapseKeeps DEF LoadNext

\* What a driver has sent, recorded and scheduled fits together, whatever the
\* order of its coroutines' turns.
THEOREM LoadInvariant == LoadSpec => []LoadInv
<1>1. LoadInit => LoadInv
  BY LoadInitInv
<1> QED
  BY <1>1, LoadStepKeeps, PTL DEF LoadSpec

\* The arrivals due by then are those fired, counted.
LEMMA ScheduleKept == LoadInv => ScheduleAbsolute
<1> SUFFICES ASSUME LoadInv, driver = "open"
    PROVE  /\ wake > clock => scheduled = Cardinality(DueBy(clock))
           /\ drain # Gone => scheduled = Cardinality(DueBy(Duration))
  BY DEF ScheduleAbsolute
<1>1. LoadTypeOK /\ OpenInv
  BY DEF LoadInv
<1>2. scheduled \in 0..NumRequests /\ clock \in Nat /\ wake \in Nat \cup {Gone}
  BY <1>1 DEF LoadTypeOK
<1>3. Cardinality(1..scheduled) = scheduled
  BY <1>2, FS_Interval, LoadConstants
<1>4. ASSUME wake > clock PROVE DueBy(clock) = 1..scheduled
  <2>1. wake # Gone /\ wake \in Nat
    BY <1>2, <1>4 DEF Gone
  <2>2. /\ wake = Arrival[scheduled + 1] /\ wake < Duration
        /\ \A i \in 1..scheduled : Arrival[i] <= clock
    BY <1>1, <1>2, <1>4, <2>1 DEF OpenInv
  <2>3. ASSUME NEW i \in All PROVE (Arrival[i] <= clock /\ Arrival[i] < Duration) <=> i <= scheduled
    <3>1. i \in 1..NumRequests + 1 /\ Arrival[i] \in Nat
      BY LoadConstants DEF All
    <3>2. CASE i <= scheduled
      <4>1. i \in 1..scheduled
        BY <1>2, <3>1, <3>2
      <4>2. Arrival[i] <= clock
        BY <2>2, <4>1
      <4> QED
        BY <1>2, <1>4, <2>1, <2>2, <3>1, <3>2, <4>2, LoadConstants
    <3>3. CASE ~(i <= scheduled)
      <4>1. scheduled + 1 \in 1..NumRequests + 1 /\ i \in scheduled + 1..NumRequests + 1
        BY <1>2, <3>1, <3>3, LoadConstants
      <4>2. Arrival[scheduled + 1] <= Arrival[i]
        BY <4>1, ArrivalsAscend
      <4> QED
        BY <1>2, <1>4, <2>1, <2>2, <3>1, <3>3, <4>2
    <3> QED
      BY <3>2, <3>3
  <2> QED
    BY <1>2, <2>3, LoadConstants DEF DueBy, All
<1>5. ASSUME drain # Gone PROVE DueBy(Duration) = 1..scheduled
  <2>1. \A i \in All : Arrival[i] < Duration <=> i <= scheduled
    BY <1>1, <1>5 DEF OpenInv
  <2>2. \A i \in All : Arrival[i] < Duration => Arrival[i] <= Duration
    BY LoadConstants DEF All
  <2> QED
    BY <1>2, <2>1, <2>2, LoadConstants DEF DueBy, All
<1> QED
  BY <1>3, <1>4, <1>5

\* A result that was returned changes no more, except by the stragglers of a
\* drain that timed out.
THEOREM ResultsAreFinal == LoadSpec => ResultFinal
<1>1. LoadInv /\ [LoadNext]_loadVars => [ended # Gone => (request' = request \/ TimedOut)]_loadVars
  <2> SUFFICES ASSUME LoadInv, LoadNext, ended # Gone, ~TimedOut PROVE request' = request
    BY DEF ResultFinal
  <2>1. ASSUME NEW w \in Workers, WorkerTurn(w) PROVE FALSE
    BY <2>1 DEF WorkerTurn, LoadInv, ClosedInv
  <2>2. ASSUME Acquire \/ Answer PROVE FALSE
    <3>1. OpenInv
      BY <2>2 DEF Acquire, Answer, LoadInv
    <3>2. AllAnswered
      BY <3>1 DEF OpenInv
    <3> QED
      BY <2>2, <3>2 DEF Acquire, Answer, AllAnswered
  <2>3. ASSUME Dispatch PROVE FALSE
    BY <2>3 DEF Dispatch, LoadInv, OpenInv
  <2> QED
    BY <2>1, <2>2, <2>3 DEF LoadNext, Gathered, EndDrain, Elapse
<1> QED
  BY <1>1, LoadInvariant, PTL DEF LoadSpec, ResultFinal

-----------------------------------------------------------------------------
(***************************************************************************)
(* The workload.  Numbers once drawn are below `draws`, and sessions once  *)
(* begun below `counter`, so what a turn adds is new to every stream; a    *)
(* stream that is in a session goes on from the last request it gave.      *)
(***************************************************************************)
Gives == [sid : Nat, system : SystemPrompts, tenant : TenantNames, prompt : Seq(Nat)]
States == [left : Nat, sid : Int, turn : Nat, history : Seq(Nat),
           system : SystemPrompts \cup {""}, tenant : TenantNames \cup {""}]
\* All of a request was drawn before.
Drawn(q, d, c) == q.sid < c /\ \A k \in 1..Len(q.prompt) : q.prompt[k] < d
\* The session of a stream is that of its last request.
InSession(cur, q) ==
  cur.sid >= 0 =>
    /\ q # <<>> /\ cur.sid = q[Len(q)].sid /\ cur.system = q[Len(q)].system
    /\ cur.tenant = q[Len(q)].tenant /\ cur.history = q[Len(q)].prompt
\* Two requests of one stream, the first earlier.
Extends(q, i, j) ==
  IF q[i].sid = q[j].sid
  THEN /\ \A k \in i..j : q[k].sid = q[i].sid
       /\ q[i].system = q[j].system /\ q[i].tenant = q[j].tenant
       /\ IsStrictPrefix(q[i].prompt, q[j].prompt)
  ELSE ToSet(q[i].prompt) \cap ToSet(q[j].prompt) = {}
\* Of two streams.
Strangers(a, b) == a.sid # b.sid /\ ToSet(a.prompt) \cap ToSet(b.prompt) = {}
WorkloadInv ==
  /\ draws \in Nat /\ counter \in Nat
  /\ stream \in [Streams -> States] /\ sent \in [Streams -> Seq(Gives)]
  /\ \A s \in Streams : InSession(stream[s], sent[s]) /\ \A i \in 1..Len(sent[s]) : Drawn(sent[s][i], draws, counter)
  /\ \A s \in Streams : \A i, j \in 1..Len(sent[s]) : i < j => Extends(sent[s], i, j)
  /\ \A s, o \in Streams : s # o =>
       \A i \in 1..Len(sent[s]), j \in 1..Len(sent[o]) : Strangers(sent[s][i], sent[o][j])

LEMMA GrowIsInvariant == WorkloadInv => SessionsGrow
<1> SUFFICES ASSUME WorkloadInv PROVE SessionsGrow
  OBVIOUS
<1>1. \A s \in Streams : DOMAIN sent[s] = 1..Len(sent[s])
  BY DEF WorkloadInv
<1>2. ASSUME NEW s \in Streams, NEW i \in DOMAIN sent[s], NEW j \in DOMAIN sent[s], i < j
      PROVE  Extends(sent[s], i, j)
  BY <1>1, <1>2 DEF WorkloadInv
<1>3. ASSUME NEW s \in Streams, NEW o \in Streams, s # o, NEW i \in DOMAIN sent[s], NEW j \in DOMAIN sent[o]
      PROVE  Strangers(sent[s][i], sent[o][j])
  BY <1>1, <1>3 DEF WorkloadInv
<1> QED
  BY <1>2, <1>3 DEF SessionsGrow, Extends, Strangers

LEMMA PrefixIs ==
  ASSUME NEW p \in Seq(Nat), NEW q \in Seq(Nat)
  PROVE  IsStrictPrefix(p, q) <=> Len(p) < Len(q) /\ \A k \in 1..Len(p) : p[k] = q[k]
<1>1. Len(p) \in Nat /\ Len(q) \in Nat
  OBVIOUS
<1>2. SubSeq(p, 1, Len(p)) = p
  OBVIOUS
<1>3. ASSUME Len(p) <= Len(q)
      PROVE  SubSeq(q, 1, Len(p)) = p <=> \A k \in 1..Len(p) : p[k] = q[k]
  <2>1. /\ SubSeq(q, 1, Len(p)) \in Seq(Nat) /\ Len(SubSeq(q, 1, Len(p))) = Len(p)
        /\ \A k \in 1..Len(p) : SubSeq(q, 1, Len(p))[k] = q[k]
    BY <1>1, <1>3
  <2>2. ASSUME \A k \in 1..Len(p) : p[k] = q[k] PROVE SubSeq(q, 1, Len(p)) = p
    BY <2>1, <2>2
  <2> QED
    BY <2>1, <2>2
<1>4. ASSUME Len(p) = Len(q) PROVE p = q <=> \A k \in 1..Len(p) : p[k] = q[k]
  BY <1>1, <1>4
<1>5. p = q => Len(p) = Len(q)
  OBVIOUS
<1> QED
  BY <1>1, <1>2, <1>3, <1>4, <1>5 DEF IsStrictPrefix, IsPrefix

\* A prompt made of a history and new numbers.
LEMMA Longer ==
  ASSUME NEW d \in Nat, NEW past \in Seq(Nat), \A k \in 1..Len(past) : past[k] < d
  PROVE  LET p == (past \o <<d>>) \o <<d + 1>>
         IN  /\ p \in Seq(Nat) /\ Len(p) = Len(past) + 2
             /\ \A k \in 1..Len(past) : p[k] = past[k]
             /\ \A k \in Len(past) + 1..Len(p) : p[k] >= d
             /\ \A k \in 1..Len(p) : p[k] < d + 2
<1> DEFINE p == (past \o <<d>>) \o <<d + 1>>
<1>1. p \in Seq(Nat) /\ Len(p) = Len(past) + 2 /\ Len(past) \in Nat
  OBVIOUS
<1>2. /\ \A k \in 1..Len(past) : p[k] = past[k] /\ past[k] \in Nat
      /\ p[Len(past) + 1] = d /\ p[Len(past) + 2] = d + 1
  OBVIOUS
<1> HIDE DEF p
<1>3. \A k \in Len(past) + 1..Len(p) : p[k] >= d /\ p[k] < d + 2
  <2> SUFFICES ASSUME NEW k \in Len(past) + 1..Len(p) PROVE p[k] >= d /\ p[k] < d + 2
    OBVIOUS
  <2>1. k = Len(past) + 1 \/ k = Len(past) + 2
    BY <1>1
  <2> QED
    BY <1>2, <2>1
<1>4. \A k \in 1..Len(p) : p[k] < d + 2
  <2> SUFFICES ASSUME NEW k \in 1..Len(p) PROVE p[k] < d + 2
    OBVIOUS
  <2>1. CASE k \in 1..Len(past)
    <3>1. p[k] = past[k] /\ past[k] \in Nat
      BY <1>2, <2>1
    <3>2. past[k] < d
      BY <2>1
    <3> QED
      BY <3>1, <3>2
  <2>2. CASE k \in Len(past) + 1..Len(p)
    BY <1>3, <2>2
  <2> QED
    BY <1>1, <2>1, <2>2
<1>5. /\ p \in Seq(Nat) /\ Len(p) = Len(past) + 2
      /\ \A k \in 1..Len(past) : p[k] = past[k]
      /\ \A k \in Len(past) + 1..Len(p) : p[k] >= d
      /\ \A k \in 1..Len(p) : p[k] < d + 2
  BY <1>1, <1>2, <1>3, <1>4
<1> QED
  BY <1>5 DEF p

\* A new request opens a session of a new number, with new texts only, or
\* extends the prompt of the last one by new texts.
Novel(x) == x.sid >= counter /\ \A k \in 1..Len(x.prompt) : x.prompt[k] >= draws
Continues(y, x) ==
  /\ x.sid = y.sid /\ x.system = y.system /\ x.tenant = y.tenant
  /\ Len(y.prompt) < Len(x.prompt)
  /\ \A k \in 1..Len(y.prompt) : x.prompt[k] = y.prompt[k]
  /\ \A k \in Len(y.prompt) + 1..Len(x.prompt) : x.prompt[k] >= draws

LEMMA GivesFacts ==
  ASSUME NEW x \in Gives
  PROVE  /\ x.sid \in Nat /\ x.prompt \in Seq(Nat) /\ Len(x.prompt) \in Nat
         /\ \A k \in 1..Len(x.prompt) : x.prompt[k] \in Nat
         /\ ToSet(x.prompt) = {x.prompt[k] : k \in 1..Len(x.prompt)}
<1>1. x.sid \in Nat /\ x.prompt \in Seq(Nat)
  BY DEF Gives
<1>2. PICK p \in Seq(Nat) : p = x.prompt
  BY <1>1
<1>3. /\ Len(p) \in Nat /\ DOMAIN p = 1..Len(p) /\ \A k \in 1..Len(p) : p[k] \in Nat
  OBVIOUS
<1>4. ToSet(p) = {p[k] : k \in 1..Len(p)}
  BY <1>3 DEF ToSet
<1> QED
  BY <1>1, <1>2, <1>3, <1>4

\* What is new is a stranger to every request there was.
LEMMA NovelIsStrange ==
  ASSUME WorkloadInv, NEW z \in Gives, Drawn(z, draws, counter), NEW x \in Gives, Novel(x)
  PROVE  Strangers(z, x) /\ Strangers(x, z)
<1>1. z.sid < counter /\ x.sid >= counter /\ z.sid \in Nat /\ x.sid \in Nat /\ counter \in Nat /\ draws \in Nat
  BY GivesFacts DEF Drawn, Novel, WorkloadInv
<1>2. ASSUME NEW i \in 1..Len(z.prompt), NEW k \in 1..Len(x.prompt) PROVE z.prompt[i] # x.prompt[k]
  <2>1. z.prompt[i] < draws /\ x.prompt[k] >= draws
    BY DEF Drawn, Novel
  <2>2. z.prompt[i] \in Nat /\ x.prompt[k] \in Nat
    BY GivesFacts
  <2> QED
    BY <1>1, <2>1, <2>2
<1>3. ToSet(z.prompt) \cap ToSet(x.prompt) = {}
  <2>1. ToSet(z.prompt) = {z.prompt[k] : k \in 1..Len(z.prompt)}
    BY GivesFacts
  <2>2. ToSet(x.prompt) = {x.prompt[k] : k \in 1..Len(x.prompt)}
    BY GivesFacts
  <2> QED
    BY <1>2, <2>1, <2>2
<1> QED
  BY <1>1, <1>3 DEF Strangers

\* So is what continues a stranger.
LEMMA ContinuationIsStrange ==
  ASSUME WorkloadInv, NEW z \in Gives, Drawn(z, draws, counter), NEW x \in Gives, NEW y \in Gives,
         Continues(y, x), Strangers(z, y)
  PROVE  Strangers(z, x) /\ Strangers(x, z)
<1>1. draws \in Nat /\ x.sid = y.sid /\ z.sid # y.sid /\ Len(y.prompt) \in Nat /\ Len(x.prompt) \in Nat
  BY GivesFacts DEF Continues, Strangers, WorkloadInv
<1>2. ASSUME NEW i \in 1..Len(z.prompt), NEW k \in 1..Len(x.prompt) PROVE z.prompt[i] # x.prompt[k]
  <2>1. z.prompt[i] < draws /\ z.prompt[i] \in Nat /\ x.prompt[k] \in Nat
    BY GivesFacts DEF Drawn
  <2>2. CASE k <= Len(y.prompt)
    <3>1. k \in 1..Len(y.prompt) /\ x.prompt[k] = y.prompt[k]
      BY <1>1, <2>2 DEF Continues
    <3>2. y.prompt[k] \in ToSet(y.prompt) /\ z.prompt[i] \in ToSet(z.prompt)
      BY <3>1, GivesFacts
    <3> QED
      BY <3>1, <3>2 DEF Strangers
  <2>3. CASE ~(k <= Len(y.prompt))
    <3>1. k \in Len(y.prompt) + 1..Len(x.prompt)
      BY <1>1, <2>3
    <3>2. x.prompt[k] >= draws
      BY <3>1 DEF Continues
    <3> QED
      BY <1>1, <2>1, <3>2
  <2> QED
    BY <2>2, <2>3
<1>3. ToSet(z.prompt) \cap ToSet(x.prompt) = {}
  <2>1. ToSet(z.prompt) = {z.prompt[k] : k \in 1..Len(z.prompt)}
    BY GivesFacts
  <2>2. ToSet(x.prompt) = {x.prompt[k] : k \in 1..Len(x.prompt)}
    BY GivesFacts
  <2> QED
    BY <1>2, <2>1, <2>2
<1> QED
  BY <1>1, <1>3 DEF Strangers

\* Within its stream, the new request follows on every one of its session.
LEMMA LastExtends ==
  ASSUME WorkloadInv, NEW s \in Streams, NEW x \in Gives, NEW q,
         q = Append(sent[s], x),
         Novel(x) \/ (sent[s] # <<>> /\ Continues(sent[s][Len(sent[s])], x)),
         NEW i \in 1..Len(sent[s])
  PROVE  Extends(q, i, Len(sent[s]) + 1)
<1> DEFINE n == Len(sent[s])
<1>1. /\ sent[s] \in Seq(Gives) /\ n \in Nat /\ q[n + 1] = x /\ q[i] = sent[s][i]
      /\ \A k \in 1..n : q[k] = sent[s][k] /\ sent[s][k] \in Gives
      /\ n \in 1..n /\ i <= n
  <2>1. sent[s] \in Seq(Gives)
    BY DEF WorkloadInv
  <2> QED
    BY <2>1
<1>2. \A k \in 1..n : Drawn(sent[s][k], draws, counter)
  BY DEF WorkloadInv
<1>3. PICK z \in Gives : z = sent[s][i]
  BY <1>1
<1>4. PICK y \in Gives : y = sent[s][n]
  BY <1>1
<1>5. Drawn(z, draws, counter)
  BY <1>2, <1>3
<1>6. CASE Novel(x)
  <2>1. Strangers(z, x)
    BY <1>5, <1>6, NovelIsStrange
  <2> QED
    BY <1>1, <1>3, <2>1 DEF Extends, Strangers
<1>7. CASE Continues(y, x)
  <2>1. i # n => Extends(sent[s], i, n)
    BY <1>1 DEF WorkloadInv
  <2>2. CASE z.sid # y.sid
    <3>1. Strangers(z, y)
      BY <1>3, <1>4, <2>1, <2>2 DEF Extends, Strangers
    <3>2. Strangers(z, x)
      BY <1>5, <1>7, <3>1, ContinuationIsStrange
    <3> QED
      BY <1>1, <1>3, <3>2 DEF Extends, Strangers
  <2>3. CASE z.sid = y.sid
    <3>1. /\ \A k \in i..n : sent[s][k].sid = z.sid
          /\ z.system = y.system /\ z.tenant = y.tenant
      <4>1. CASE i = n
        BY <1>1, <1>3, <1>4, <4>1
      <4>2. CASE i # n
        BY <1>3, <1>4, <2>1, <2>3, <4>2 DEF Extends
      <4> QED
        BY <4>1, <4>2
    <3>2. Len(z.prompt) <= Len(y.prompt) /\ \A k \in 1..Len(z.prompt) : z.prompt[k] = y.prompt[k]
      <4>1. CASE i = n
        BY <1>3, <1>4, <4>1, GivesFacts
      <4>2. CASE i # n
        <5>1. IsStrictPrefix(z.prompt, y.prompt)
          BY <1>3, <1>4, <2>1, <2>3, <4>2 DEF Extends
        <5>2. /\ z.prompt \in Seq(Nat) /\ y.prompt \in Seq(Nat)
              /\ Len(z.prompt) \in Nat /\ Len(y.prompt) \in Nat
          BY GivesFacts
        <5>3. Len(z.prompt) < Len(y.prompt) /\ \A k \in 1..Len(z.prompt) : z.prompt[k] = y.prompt[k]
          BY <5>1, <5>2, PrefixIs
        <5> QED
          BY <5>2, <5>3
      <4> QED
        BY <4>1, <4>2
    <3>3. Len(z.prompt) < Len(x.prompt) /\ \A k \in 1..Len(z.prompt) : z.prompt[k] = x.prompt[k]
      <4>1. Len(z.prompt) \in Nat /\ Len(y.prompt) \in Nat /\ Len(x.prompt) \in Nat
        BY GivesFacts
      <4>2. \A k \in 1..Len(z.prompt) : k \in 1..Len(y.prompt)
        BY <3>2, <4>1
      <4>3. Len(y.prompt) < Len(x.prompt) /\ \A k \in 1..Len(y.prompt) : x.prompt[k] = y.prompt[k]
        BY <1>7 DEF Continues
      <4>4. ASSUME NEW k \in 1..Len(z.prompt) PROVE z.prompt[k] = x.prompt[k]
        <5>1. z.prompt[k] = y.prompt[k]
          BY <3>2
        <5>2. x.prompt[k] = y.prompt[k]
          BY <4>2, <4>3
        <5> QED
          BY <5>1, <5>2
      <4>5. Len(z.prompt) < Len(x.prompt)
        BY <3>2, <4>1, <4>3
      <4> QED
        BY <4>4, <4>5
    <3>4. IsStrictPrefix(z.prompt, x.prompt)
      BY <3>3, GivesFacts, PrefixIs
    <3>5. x.sid = y.sid /\ x.system = y.system /\ x.tenant = y.tenant
      BY <1>7 DEF Continues
    <3>6. \A k \in i..n + 1 : q[k].sid = z.sid
      <4> SUFFICES ASSUME NEW k \in i..n + 1 PROVE q[k].sid = z.sid
        OBVIOUS
      <4>1. k = n + 1 \/ (k \in i..n /\ k \in 1..n)
        BY <1>1
      <4> QED
        BY <1>1, <2>3, <3>1, <3>5, <4>1
    <3> QED
      BY <1>1, <1>3, <2>3, <3>1, <3>4, <3>5, <3>6 DEF Extends
  <2> QED
    BY <2>2, <2>3
<1> QED
  BY <1>4, <1>6, <1>7

LEMMA RequestGiven ==
  ASSUME WorkloadInv, NEW s \in Streams, NEW x \in Gives, NEW cur \in States,
         draws' \in Nat, draws <= draws', counter' \in Nat, counter <= counter',
         sent' = [sent EXCEPT ![s] = Append(@, x)], stream' = [stream EXCEPT ![s] = cur],
         Drawn(x, draws', counter'),
         Novel(x) \/ (sent[s] # <<>> /\ Continues(sent[s][Len(sent[s])], x)),
         cur.sid = x.sid /\ cur.system = x.system /\ cur.tenant = x.tenant /\ cur.history = x.prompt
  PROVE  WorkloadInv'
<1> DEFINE n == Len(sent[s])
           q == Append(sent[s], x)
<1>1. /\ sent \in [Streams -> Seq(Gives)] /\ stream \in [Streams -> States]
      /\ draws \in Nat /\ counter \in Nat /\ sent[s] \in Seq(Gives)
  BY DEF WorkloadInv
<1>2. /\ q \in Seq(Gives) /\ Len(q) = n + 1 /\ n \in Nat /\ q[n + 1] = x /\ q # <<>>
      /\ \A i \in 1..n : q[i] = sent[s][i]
  <2>1. PICK b \in Seq(Gives) : b = sent[s]
    BY <1>1
  <2>2. /\ Append(b, x) \in Seq(Gives) /\ Len(Append(b, x)) = Len(b) + 1 /\ Len(b) \in Nat
        /\ Append(b, x)[Len(b) + 1] = x /\ Append(b, x) # <<>>
        /\ \A i \in 1..Len(b) : Append(b, x)[i] = b[i]
    OBVIOUS
  <2> QED
    BY <2>1, <2>2
<1>3. /\ sent' \in [Streams -> Seq(Gives)] /\ stream' \in [Streams -> States]
      /\ sent'[s] = q /\ stream'[s] = cur
      /\ \A o \in Streams \ {s} : sent'[o] = sent[o] /\ stream'[o] = stream[o]
  BY <1>1, <1>2
<1> HIDE DEF q
<1>4. ASSUME NEW o \in Streams, NEW i \in 1..Len(sent[o])
      PROVE  /\ sent[o][i] \in Gives /\ Drawn(sent[o][i], draws, counter)
             /\ Drawn(sent[o][i], draws', counter')
  <2>1. sent[o] \in Seq(Gives)
    BY <1>1
  <2>2. PICK z \in Gives : z = sent[o][i]
    BY <2>1
  <2>3. Drawn(z, draws, counter)
    BY <2>2 DEF WorkloadInv
  <2>4. z.sid < counter' /\ \A k \in 1..Len(z.prompt) : z.prompt[k] < draws'
    <3>1. z.sid \in Nat /\ \A k \in 1..Len(z.prompt) : z.prompt[k] \in Nat
      BY GivesFacts
    <3>2. z.sid < counter /\ \A k \in 1..Len(z.prompt) : z.prompt[k] < draws
      BY <2>3 DEF Drawn
    <3>3. \A a \in Nat : (a < counter => a < counter') /\ (a < draws => a < draws')
      BY <1>1
    <3> QED
      BY <3>1, <3>2, <3>3
  <2> QED
    BY <2>2, <2>3, <2>4 DEF Drawn
<1>5. \A i \in 1..n + 1 : i \in 1..n \/ i = n + 1
  BY <1>2
<1>6. ASSUME NEW o \in Streams PROVE InSession(stream'[o], sent'[o])
  <2>1. CASE o = s
    BY <1>2, <1>3, <2>1 DEF InSession
  <2>2. CASE o # s
    BY <1>3, <2>2 DEF WorkloadInv
  <2> QED
    BY <2>1, <2>2
<1>7. ASSUME NEW o \in Streams, NEW i \in 1..Len(sent'[o]) PROVE Drawn(sent'[o][i], draws', counter')
  BY <1>2, <1>3, <1>4, <1>5
<1>8. ASSUME NEW o \in Streams, NEW i \in 1..Len(sent'[o]), NEW j \in 1..Len(sent'[o]), i < j
      PROVE  Extends(sent'[o], i, j)
  <2>1. CASE o # s
    BY <1>3, <1>8, <2>1 DEF WorkloadInv
  <2>2. CASE o = s /\ j = n + 1
    <3>1. i \in 1..n
      BY <1>2, <1>3, <1>8, <2>2
    <3> QED
      BY <1>3, <2>2, <3>1, LastExtends DEF q
  <2>3. CASE o = s /\ j # n + 1
    <3>1. i \in 1..n /\ j \in 1..n /\ i..j \subseteq 1..n
      BY <1>2, <1>3, <1>8, <2>3
    <3>2. Extends(sent[s], i, j)
      BY <1>8, <3>1 DEF WorkloadInv
    <3>3. q[i] = sent[s][i] /\ q[j] = sent[s][j] /\ \A k \in i..j : q[k] = sent[s][k]
      BY <1>2, <3>1
    <3> QED
      BY <1>3, <2>3, <3>2, <3>3 DEF Extends
  <2> QED
    BY <2>1, <2>2, <2>3
<1>9. ASSUME NEW o \in Streams \ {s}, NEW i \in 1..Len(sent[o])
      PROVE  Strangers(sent[o][i], x) /\ Strangers(x, sent[o][i])
  <2>1. PICK z \in Gives : z = sent[o][i]
    BY <1>4
  <2>2. Drawn(z, draws, counter)
    BY <1>4, <2>1
  <2>3. CASE Novel(x)
    BY <2>1, <2>2, <2>3, NovelIsStrange
  <2>4. CASE sent[s] # <<>> /\ Continues(sent[s][n], x)
    <3>1. n \in 1..n
      BY <1>1, <1>2, <2>4
    <3>2. PICK y \in Gives : y = sent[s][n]
      BY <1>4, <3>1
    <3>3. Strangers(z, y)
      BY <2>1, <3>1, <3>2 DEF WorkloadInv
    <3> QED
      BY <2>1, <2>2, <2>4, <3>2, <3>3, ContinuationIsStrange
  <2> QED
    BY <2>3, <2>4
<1>10. ASSUME NEW o \in Streams, NEW u \in Streams, o # u, NEW i \in 1..Len(sent'[o]), NEW j \in 1..Len(sent'[u])
       PROVE  Strangers(sent'[o][i], sent'[u][j])
  <2>1. CASE o # s /\ u # s
    BY <1>3, <1>10, <2>1 DEF WorkloadInv
  <2>2. CASE o = s
    <3>1. u # s /\ sent'[u] = sent[u] /\ sent'[o] = q /\ j \in 1..Len(sent[u])
      BY <1>3, <1>10, <2>2
    <3>2. CASE i \in 1..n
      <4>1. Strangers(sent[s][i], sent[u][j])
        BY <3>1, <3>2 DEF WorkloadInv
      <4> QED
        BY <1>2, <3>1, <3>2, <4>1
    <3>3. CASE i = n + 1
      BY <1>2, <1>9, <3>1, <3>3
    <3> QED
      BY <1>2, <1>5, <3>1, <3>2, <3>3
  <2>3. CASE u = s
    <3>1. o # s /\ sent'[o] = sent[o] /\ sent'[u] = q /\ i \in 1..Len(sent[o])
      BY <1>3, <1>10, <2>3
    <3>2. CASE j \in 1..n
      <4>1. Strangers(sent[o][i], sent[s][j])
        BY <3>1, <3>2 DEF WorkloadInv
      <4> QED
        BY <1>2, <3>1, <3>2, <4>1
    <3>3. CASE j = n + 1
      BY <1>2, <1>9, <3>1, <3>3
    <3> QED
      BY <1>2, <1>5, <3>1, <3>2, <3>3
  <2> QED
    BY <2>1, <2>2, <2>3
<1> QED
  BY <1>3, <1>6, <1>7, <1>8, <1>10 DEF WorkloadInv

\* The next turn of a session.
LEMMA TurnGiven ==
  ASSUME WorkloadInv, NEW s \in Streams, stream[s].left > 0, stream[s].sid >= 0,
         Turn(s, stream[s], FALSE), counter' = counter
  PROVE  WorkloadInv'
<1>1. /\ sent[s] \in Seq(Gives) /\ stream[s] \in States
      /\ draws \in Nat /\ counter \in Nat /\ InSession(stream[s], sent[s])
      /\ \A i \in 1..Len(sent[s]) : Drawn(sent[s][i], draws, counter)
  BY DEF WorkloadInv
<1>2. PICK q \in States : q = stream[s]
  BY <1>1
<1>3. Len(sent[s]) \in 1..Len(sent[s]) /\ sent[s] # <<>>
  BY <1>1 DEF InSession
<1>4. PICK y \in Gives : y = sent[s][Len(sent[s])]
  BY <1>1, <1>3
<1>5. PICK past \in Seq(Nat) : past = y.prompt
  BY GivesFacts
<1>6. /\ q.sid = y.sid /\ q.system = y.system /\ q.tenant = y.tenant /\ q.history = past
      /\ Drawn(y, draws, counter)
  BY <1>1, <1>2, <1>3, <1>4, <1>5 DEF InSession
<1>7. PICK p : p = (past \o <<draws>>) \o <<draws + 1>>
  OBVIOUS
<1>8. /\ p \in Seq(Nat) /\ Len(p) = Len(past) + 2
      /\ \A k \in 1..Len(past) : p[k] = past[k]
      /\ \A k \in Len(past) + 1..Len(p) : p[k] >= draws
      /\ \A k \in 1..Len(p) : p[k] < draws + 2
  <2>1. \A k \in 1..Len(past) : past[k] < draws
    BY <1>5, <1>6 DEF Drawn
  <2> QED
    BY <1>1, <1>7, <2>1, Longer
<1> DEFINE x == [sid |-> q.sid, system |-> q.system, tenant |-> q.tenant, prompt |-> p]
           cur == [q EXCEPT !.left = @ - 1, !.turn = @ + 1, !.history = p]
<1>9. /\ draws' = draws + 2
      /\ stream' = [stream EXCEPT ![s] = cur]
      /\ sent' = [sent EXCEPT ![s] = Append(@, x)]
  <2>1. /\ draws' = draws + 1 + 1
        /\ LET w == History(q, q.history, draws) \o <<draws + 1>>
           IN /\ stream' = [stream EXCEPT ![s] = [q EXCEPT !.left = @ - 1, !.turn = @ + 1, !.history = w]]
              /\ sent' = [sent EXCEPT ![s] = Append(@, [sid |-> q.sid, system |-> q.system,
                                                       tenant |-> q.tenant, prompt |-> w])]
    BY <1>2 DEF Turn
  <2>2. History(q, q.history, draws) \o <<draws + 1>> = p
    BY <1>6, <1>7 DEF History
  <2>3. draws' = draws + 2
    BY <1>1, <2>1
  <2>4. /\ stream' = [stream EXCEPT ![s] = [q EXCEPT !.left = @ - 1, !.turn = @ + 1, !.history = p]]
        /\ sent' = [sent EXCEPT ![s] = Append(@, [sid |-> q.sid, system |-> q.system,
                                                 tenant |-> q.tenant, prompt |-> p])]
    BY <2>1, <2>2
  <2> QED
    BY <2>3, <2>4
<1>10. x \in Gives
  BY <1>4, <1>6, <1>8 DEF Gives
<1>11. cur \in States /\ cur.sid = q.sid /\ cur.system = q.system /\ cur.tenant = q.tenant /\ cur.history = p
  <2>1. q.left \in Nat /\ q.left > 0 /\ q.turn \in Nat
    BY <1>2 DEF States
  <2>2. q.left - 1 \in Nat /\ q.turn + 1 \in Nat
    BY <2>1
  <2> QED
    BY <1>8, <2>2 DEF States
<1>12. Drawn(x, draws', counter')
  BY <1>1, <1>6, <1>8, <1>9 DEF Drawn
<1>13. Continues(y, x)
  <2>1. Len(past) \in Nat
    OBVIOUS
  <2> QED
    BY <1>5, <1>6, <1>8, <2>1 DEF Continues
<1>14. /\ x.sid = q.sid /\ x.system = q.system /\ x.tenant = q.tenant /\ x.prompt = p
       /\ draws' \in Nat /\ draws <= draws' /\ counter' \in Nat /\ counter <= counter'
  BY <1>1, <1>9
<1> HIDE DEF x, cur
<1> QED
  BY <1>3, <1>4, <1>9, <1>10, <1>11, <1>12, <1>13, <1>14, RequestGiven

\* The first of a new session.
LEMMA SessionOpened ==
  ASSUME WorkloadInv, NEW s \in Streams, stream[s].left > 0, counter' = counter + 1,
         NEW y \in SystemPrompts, NEW t \in TenantNames,
         Turn(s, [stream[s] EXCEPT !.sid = counter, !.turn = 0, !.system = y, !.tenant = t], TRUE)
  PROVE  WorkloadInv'
<1>1. stream[s] \in States /\ draws \in Nat /\ counter \in Nat
  BY DEF WorkloadInv
<1>2. PICK q : q = [stream[s] EXCEPT !.sid = counter, !.turn = 0, !.system = y, !.tenant = t]
  OBVIOUS
<1>3. /\ q \in States /\ q.sid = counter /\ q.system = y /\ q.tenant = t /\ q.left > 0
  <2>1. PICK old \in States : old = stream[s]
    BY <1>1
  <2>2. q = [left |-> old.left, sid |-> counter, turn |-> 0, history |-> old.history,
             system |-> y, tenant |-> t]
    BY <1>2, <2>1 DEF States
  <2>3. old.left \in Nat /\ old.history \in Seq(Nat)
    BY DEF States
  <2>4. q \in States
    <3>1. counter \in Int /\ 0 \in Nat
      BY <1>1
    <3>2. y \in SystemPrompts \cup {""} /\ t \in TenantNames \cup {""}
      OBVIOUS
    <3> QED
      BY <2>2, <2>3, <3>1, <3>2 DEF States
  <2>5. q.left = old.left /\ old.left > 0
    BY <2>1, <2>2
  <2>6. q.sid = counter /\ q.system = y /\ q.tenant = t
    BY <2>2
  <2> QED
    BY <2>4, <2>5, <2>6
<1>4. PICK r \in 0..1 : r = IF stream[s].sid >= 0 THEN 1 ELSE 0
  OBVIOUS
<1>5. PICK p : p = <<>> \o <<draws + r>>
  OBVIOUS
<1>6. p \in Seq(Nat) /\ Len(p) = 1 /\ p[1] = draws + r
  BY <1>1, <1>5
<1> DEFINE x == [sid |-> q.sid, system |-> q.system, tenant |-> q.tenant, prompt |-> p]
           cur == [q EXCEPT !.left = @ - 1, !.turn = @ + 1, !.history = p]
<1>7. /\ draws' = draws + r + 1
      /\ stream' = [stream EXCEPT ![s] = cur]
      /\ sent' = [sent EXCEPT ![s] = Append(@, x)]
  BY <1>2, <1>4, <1>5 DEF Turn
<1>8. x \in Gives
  BY <1>1, <1>3, <1>6 DEF Gives
<1>9. cur \in States /\ cur.sid = q.sid /\ cur.system = q.system /\ cur.tenant = q.tenant /\ cur.history = p
  <2>1. q.left \in Nat /\ q.left > 0 /\ q.turn \in Nat
    BY <1>3 DEF States
  <2>2. q.left - 1 \in Nat /\ q.turn + 1 \in Nat
    BY <2>1
  <2> QED
    BY <1>3, <1>6, <2>2 DEF States
<1>10. Drawn(x, draws', counter') /\ Novel(x)
  <2>1. \A k \in 1..Len(p) : p[k] = draws + r
    BY <1>6
  <2> QED
    BY <1>1, <1>3, <1>7, <2>1 DEF Drawn, Novel
<1>11. /\ x.sid = q.sid /\ x.system = q.system /\ x.tenant = q.tenant /\ x.prompt = p
       /\ draws' \in Nat /\ draws <= draws' /\ counter' \in Nat /\ counter <= counter'
  BY <1>1, <1>7
<1> HIDE DEF x, cur
<1> QED
  BY <1>7, <1>8, <1>9, <1>10, <1>11, RequestGiven

LEMMA StreamOpened == ASSUME WorkloadInv, NEW s \in Streams, Open(s) PROVE WorkloadInv'
<1>1. PICK n \in Lengths : stream' = [stream EXCEPT ![s] = [NotOpen EXCEPT !.left = n]]
  BY DEF Open
<1>2. PICK cur : cur = [NotOpen EXCEPT !.left = n]
  OBVIOUS
<1>3. cur \in States /\ cur.sid = -1
  <2>1. n \in Nat
    BY WorkloadAssumption
  <2>2. cur = [left |-> n, sid |-> -1, turn |-> 0, history |-> <<>>, system |-> "", tenant |-> ""]
    BY <1>2 DEF NotOpen
  <2>3. -1 \in Int /\ 0 \in Nat /\ <<>> \in Seq(Nat)
    OBVIOUS
  <2>4. cur \in States
    BY <2>1, <2>2, <2>3 DEF States
  <2> QED
    BY <2>2, <2>4
<1>4. /\ sent' = [sent EXCEPT ![s] = <<>>] /\ UNCHANGED <<draws, counter>>
      /\ stream' = [stream EXCEPT ![s] = cur]
  BY <1>1, <1>2 DEF Open
<1>5. /\ sent \in [Streams -> Seq(Gives)] /\ stream \in [Streams -> States]
      /\ draws \in Nat /\ counter \in Nat
  BY DEF WorkloadInv
<1>6. /\ sent' \in [Streams -> Seq(Gives)] /\ stream' \in [Streams -> States]
      /\ sent'[s] = <<>> /\ stream'[s].sid = -1 /\ 1..Len(sent'[s]) = {}
      /\ \A o \in Streams \ {s} : sent'[o] = sent[o] /\ stream'[o] = stream[o]
  BY <1>3, <1>4, <1>5
<1>7. ASSUME NEW o \in Streams
      PROVE  /\ InSession(stream'[o], sent'[o])
             /\ \A i \in 1..Len(sent'[o]) : Drawn(sent'[o][i], draws, counter)
             /\ \A i, j \in 1..Len(sent'[o]) : i < j => Extends(sent'[o], i, j)
  <2>1. CASE o = s
    BY <1>6, <2>1 DEF InSession
  <2>2. CASE o # s
    BY <1>6, <2>2 DEF WorkloadInv
  <2> QED
    BY <2>1, <2>2
<1>8. ASSUME NEW o \in Streams, NEW u \in Streams, o # u, NEW i \in 1..Len(sent'[o]), NEW j \in 1..Len(sent'[u])
      PROVE  Strangers(sent'[o][i], sent'[u][j])
  <2>1. o # s /\ u # s
    BY <1>6
  <2> QED
    BY <1>6, <1>8, <2>1 DEF WorkloadInv
<1> QED
  BY <1>4, <1>5, <1>6, <1>7, <1>8 DEF WorkloadInv

LEMMA StreamDropped == ASSUME WorkloadInv, NEW s \in Streams, Drop(s) PROVE WorkloadInv'
<1>1. stream' = [stream EXCEPT ![s] = NotOpen] /\ UNCHANGED <<draws, counter, sent>>
  BY DEF Drop
<1>2. NotOpen \in States /\ NotOpen.sid = -1
  BY DEF NotOpen, States
<1>3. stream \in [Streams -> States]
  BY DEF WorkloadInv
<1>4. /\ stream' \in [Streams -> States] /\ stream'[s].sid = -1
      /\ \A o \in Streams \ {s} : stream'[o] = stream[o]
  BY <1>1, <1>2, <1>3
<1>5. ASSUME NEW o \in Streams PROVE InSession(stream'[o], sent[o])
  BY <1>4 DEF WorkloadInv, InSession
<1> QED
  BY <1>1, <1>4, <1>5 DEF WorkloadInv

LEMMA WorkloadStepKeeps == WorkloadInv /\ [WorkloadNext]_workloadVars => WorkloadInv'
<1> SUFFICES ASSUME WorkloadInv, [WorkloadNext]_workloadVars PROVE WorkloadInv'
  OBVIOUS
<1>1. CASE UNCHANGED workloadVars
  BY <1>1 DEF workloadVars, WorkloadInv
<1>2. ASSUME NEW s \in Streams, Next_Request(s) PROVE WorkloadInv'
  <2>1. CASE stream[s].sid >= 0 /\ stream[s].turn < Turns
    BY <1>2, <2>1, TurnGiven DEF Next_Request
  <2>2. CASE ~(stream[s].sid >= 0 /\ stream[s].turn < Turns)
    <3>1. stream[s].left > 0 /\ counter' = counter + 1
      BY <1>2, <2>2 DEF Next_Request
    <3>2. PICK y \in SystemPrompts, t \in TenantNames :
            Turn(s, [stream[s] EXCEPT !.sid = counter, !.turn = 0, !.system = y, !.tenant = t], TRUE)
      BY <1>2, <2>2 DEF Next_Request
    <3> QED
      BY <3>1, <3>2, SessionOpened
  <2> QED
    BY <2>1, <2>2
<1> QED
  BY <1>1, <1>2, StreamOpened, StreamDropped DEF WorkloadNext

\* Numbers and sessions are given out once, and each stream goes on from the
\* last request it gave.
THEOREM WorkloadInvariant == WorkloadSpec => []WorkloadInv
<1>1. WorkloadInit => WorkloadInv
  <2> SUFFICES ASSUME WorkloadInit PROVE WorkloadInv
    OBVIOUS
  <2>1. NotOpen \in States /\ NotOpen.sid = -1
    BY DEF NotOpen, States
  <2>2. /\ draws = 0 /\ counter = 0 /\ stream \in [Streams -> States] /\ sent \in [Streams -> Seq(Gives)]
        /\ \A s \in Streams : stream[s].sid = -1 /\ 1..Len(sent[s]) = {}
    BY <2>1 DEF WorkloadInit
  <2> QED
    BY <2>2 DEF WorkloadInv, InSession
<1> QED
  BY <1>1, WorkloadStepKeeps, PTL DEF WorkloadSpec

\* The load sent is the load planned: the arrivals keep to their schedule, what
\* is measured was sent to a busy engine, and conversations stay whole.
THEOREM LoadIsAsPlanned == LoadSpec /\ WorkloadSpec => []LoadAsPlanned
<1>1. LoadInv /\ WorkloadInv => LoadAsPlanned
  BY ScheduleKept, GrowIsInvariant DEF LoadInv, LoadAsPlanned
<1> QED
  BY <1>1, LoadInvariant, WorkloadInvariant, PTL

-----------------------------------------------------------------------------
(***************************************************************************)
(* The published report.  What is honest about a site stays so when one    *)
(* more run is entered: a run without caveats replaces numbers only, and   *)
(* what stays of the caveats there were is more than it needs.             *)
(***************************************************************************)
HonestSite(s) ==
  \A d \in DOMAIN s.shown :
    LET f == s.shown[d]
    IN /\ CaveatsOf(f) # {} => d \in DOMAIN s.caveats /\ CaveatsOf(f) \subseteq s.caveats[d]
       /\ Configs[f.config].simulated => s.watermark
\* The sites made of the runs of F.
Descriptions(F) == {Described(f) : f \in F}
Dicts(F, V) == UNION {[D -> V] : D \in SUBSET Descriptions(F)}
Sites(F) ==
  {s \in [shown : Dicts(F, F), caveats : Dicts(F, {CaveatsOf(f) : f \in F}), watermark : BOOLEAN] :
     HonestSite(s)}
ReportsInv == (\E F : files \in Seq(F)) /\ PublishedWithCaveats

Enters(e, m, k, v) ==
  DOMAIN e = DOMAIN m \cup {k} /\ e[k] = v /\ \A x \in DOMAIN m \ {k} : e[x] = m[x]
LEMMA EnteredInDict ==
  ASSUME NEW F, NEW k \in Descriptions(F), NEW V, NEW v \in V, NEW m \in Dicts(F, V)
  PROVE  Entered(m, k, v) \in Dicts(F, V) /\ Enters(Entered(m, k, v), m, k, v)
<1>1. PICK D \in SUBSET Descriptions(F) : m \in [D -> V]
  BY DEF Dicts
<1>2. Entered(m, k, v) = [x \in D \cup {k} |-> IF x = k THEN v ELSE m[x]]
  BY <1>1 DEF Entered
<1>3. Entered(m, k, v) \in [D \cup {k} -> V]
  BY <1>1, <1>2
<1>4. D \cup {k} \in SUBSET Descriptions(F)
  OBVIOUS
<1>5. Entered(m, k, v) \in Dicts(F, V)
  BY <1>3, <1>4 DEF Dicts
<1>6. /\ DOMAIN Entered(m, k, v) = DOMAIN m \cup {k} /\ Entered(m, k, v)[k] = v
      /\ \A x \in DOMAIN m \ {k} : Entered(m, k, v)[x] = m[x]
  BY <1>1, <1>2
<1> QED
  BY <1>5, <1>6 DEF Enters

LEMMA RunEntered ==
  ASSUME NEW F, NEW f \in F, NEW s \in Sites(F)
  PROVE  WithRun(s, f) \in Sites(F)
<1> DEFINE C == {CaveatsOf(g) : g \in F}
           w == WithRun(s, f)
<1>1. PICK sh \in Dicts(F, F), cv \in Dicts(F, C), b \in BOOLEAN :
        sh = s.shown /\ cv = s.caveats /\ b = s.watermark
  BY DEF Sites
<1>2. HonestSite(s)
  BY DEF Sites
<1>3. PICK k, c, m : k = Described(f) /\ c = CaveatsOf(f) /\ m = Marked(s, f)
  OBVIOUS
<1>4. c \in C /\ k \in Descriptions(F)
  BY <1>3 DEF Descriptions
<1>5. PICK sh2 : sh2 = Entered(sh, k, f)
  OBVIOUS
<1>6. /\ sh2 \in Dicts(F, F) /\ DOMAIN sh2 = DOMAIN sh \cup {k} /\ sh2[k] = f
      /\ \A x \in DOMAIN sh \ {k} : sh2[x] = sh[x]
  <2>1. Entered(sh, k, f) \in Dicts(F, F) /\ Enters(Entered(sh, k, f), sh, k, f)
    BY <1>4, EnteredInDict
  <2> QED
    BY <1>5, <2>1 DEF Enters
<1>7. PICK ce : ce = Entered(cv, k, c)
  OBVIOUS
<1>8. /\ ce \in Dicts(F, C) /\ DOMAIN ce = DOMAIN cv \cup {k} /\ ce[k] = c
      /\ \A x \in DOMAIN cv \ {k} : ce[x] = cv[x]
  <2> HIDE DEF C
  <2>1. Entered(cv, k, c) \in Dicts(F, C) /\ Enters(Entered(cv, k, c), cv, k, c)
    BY <1>4, EnteredInDict
  <2> QED
    BY <1>7, <2>1 DEF Enters
<1>9. PICK cv2 : cv2 = IF c = {} THEN cv ELSE ce
  OBVIOUS
<1>10. /\ w = [shown |-> sh2, caveats |-> cv2, watermark |-> m]
       /\ w.shown = sh2 /\ w.caveats = cv2 /\ w.watermark = m
  BY <1>1, <1>3, <1>5, <1>7, <1>9 DEF WithRun, Caveats
<1>11. cv2 \in Dicts(F, C)
  <2> HIDE DEF C
  <2> QED
    BY <1>8, <1>9
<1>12. m \in BOOLEAN /\ (b => m) /\ (Configs[f.config].simulated => m)
  BY <1>1, <1>3 DEF Marked
<1>13. HonestSite(w)
  <2> SUFFICES ASSUME NEW d \in DOMAIN w.shown, NEW g, g = w.shown[d]
      PROVE  /\ CaveatsOf(g) # {} => d \in DOMAIN w.caveats /\ CaveatsOf(g) \subseteq w.caveats[d]
             /\ Configs[g.config].simulated => w.watermark
    BY DEF HonestSite
  <2> HIDE DEF w
  <2>1. d \in DOMAIN sh2 /\ g = sh2[d]
    BY <1>10
  <2>2. CASE d = k
    <3>1. g = f
      BY <1>6, <2>1, <2>2
    <3>2. c # {} => d \in DOMAIN cv2 /\ cv2[d] = c
      BY <1>8, <1>9, <2>2
    <3> QED
      BY <1>3, <1>10, <1>12, <3>1, <3>2
  <2>3. CASE d # k
    <3>1. d \in DOMAIN sh /\ g = sh[d]
      BY <1>6, <2>1, <2>3
    <3>2. /\ CaveatsOf(g) # {} => d \in DOMAIN cv /\ CaveatsOf(g) \subseteq cv[d]
          /\ Configs[g.config].simulated => b
      BY <1>1, <1>2, <3>1 DEF HonestSite
    <3>3. d \in DOMAIN cv => d \in DOMAIN cv2 /\ cv2[d] = cv[d]
      BY <1>8, <1>9, <2>3
    <3> QED
      BY <1>10, <1>12, <3>2, <3>3
  <2> QED
    BY <2>2, <2>3
<1> QED
  BY <1>6, <1>10, <1>11, <1>12, <1>13 DEF Sites

LEMMA NothingIsHonest == \A F : Nothing \in Sites(F)
<1> SUFFICES ASSUME NEW F PROVE Nothing \in Sites(F)
  OBVIOUS
<1>1. DOMAIN <<>> = {}
  OBVIOUS
<1>2. HonestSite(Nothing)
  BY <1>1 DEF HonestSite, Nothing
<1>3. \A V : <<>> \in [{} -> V]
  BY <1>1
<1>4. \A V : <<>> \in Dicts(F, V)
  BY <1>3 DEF Dicts
<1> QED
  BY <1>2, <1>4 DEF Sites, Nothing

\* The site publish makes, run by run.
LEMMA PublishedIsHonest ==
  ASSUME NEW F, NEW q \in Seq(F)
  PROVE  HonestSite(SiteOf(q))
<1> DEFINE n == Len(q)
           V == Sites(F)
           G == [p \in (1..n) \X V |-> WithRun(p[2], q[p[1]])]
           Eq(k) == k = [i \in 0..n |-> IF i = 0 THEN Nothing ELSE WithRun(k[i - 1], q[i])]
<1>1. n \in Nat /\ \A i \in 1..n : q[i] \in F
  OBVIOUS
<1>2. G \in [(1..n) \X V -> V]
  <2>1. ASSUME NEW p \in (1..n) \X V PROVE WithRun(p[2], q[p[1]]) \in V
    <3>1. p[2] \in V /\ q[p[1]] \in F
      BY <1>1
    <3> QED
      BY <3>1, RunEntered
  <2> QED
    BY <2>1
<1>3. Nothing \in V
  BY NothingIsHonest
<1> HIDE DEF n, G, V
<1>4. PICK f : f \in [0..n -> V] /\ f[0] = Nothing /\ \A i \in 1..n : f[i] = G[<<i, f[i - 1]>>]
  <2>1. PICK f : Iterates(f, n, V, Nothing, G)
    BY <1>1, <1>2, <1>3, IterationExists
  <2> QED
    BY <2>1 DEF Iterates
<1>5. ASSUME NEW i \in 1..n PROVE f[i] = WithRun(f[i - 1], q[i])
  <2>1. i - 1 \in 0..n /\ f[i - 1] \in V
    BY <1>1, <1>4
  <2>2. <<i, f[i - 1]>> \in (1..n) \X V
    BY <2>1
  <2> QED
    BY <1>4, <2>2 DEF G
<1>6. Eq(f)
  <2>1. f = [i \in 0..n |-> f[i]]
    BY <1>4
  <2>2. ASSUME NEW i \in 0..n PROVE f[i] = IF i = 0 THEN Nothing ELSE WithRun(f[i - 1], q[i])
    <3>1. CASE i = 0
      BY <1>4, <3>1
    <3>2. CASE i # 0
      <4>1. i \in 1..n
        BY <1>1, <3>2
      <4> QED
        BY <1>5, <3>2, <4>1
    <3> QED
      BY <3>1, <3>2
  <2> QED
    BY <2>1, <2>2
<1> DEFINE k == CHOOSE g : Eq(g)
<1>7. Eq(k)
  BY <1>6
<1>8. SiteOf(q) = k[n]
  BY DEF SiteOf, n
<1> HIDE DEF k
<1>9. k[0] = Nothing /\ DOMAIN k = 0..n
  BY <1>1, <1>7
<1>10. ASSUME NEW i \in 1..n PROVE k[i] = WithRun(k[i - 1], q[i])
  <2>1. i \in 0..n /\ i # 0
    BY <1>1
  <2> QED
    BY <1>7, <2>1
<1> DEFINE T == {i \in 0..n : k[i] \in V}
<1>11. 0 \in T
  BY <1>1, <1>3, <1>9
<1>12. ASSUME NEW i \in 1..n, i - 1 \in T PROVE i \in T
  <2>1. i \in 0..n /\ q[i] \in F
    BY <1>1 DEF n
  <2>2. k[i - 1] \in Sites(F)
    BY <1>12 DEF V
  <2>3. WithRun(k[i - 1], q[i]) \in Sites(F)
    BY <2>1, <2>2, RunEntered
  <2> QED
    BY <1>10, <2>1, <2>3 DEF V
<1> HIDE DEF T
<1>13. 0..n \subseteq T
  BY <1>1, <1>11, <1>12, InductionUpTo
<1>14. k[n] \in V
  BY <1>1, <1>13 DEF T
<1> QED
  BY <1>8, <1>14 DEF V, Sites

LEMMA SaveKeepsFiles ==
  ASSUME NEW F, files \in Seq(F), Save
  PROVE  \E E : files' \in Seq(E)
<1> DEFINE mine(source, git) ==
             [config |-> config, problems |-> Problems(config, git, source),
              warned |-> \E i \in DOMAIN points : points[i].warned,
              few |-> \E i \in DOMAIN points : points[i].few,
              knee |-> IF command = "rate" THEN 0 ELSE Knee(points)]
           L == {i \in DOMAIN files : files[i].config <= config}
<1>1. PICK source, git : files' = InsertAt(files, Cardinality(L) + 1, mine(source, git))
  BY DEF Save
<1>2. PICK x : x = mine(source, git)
  OBVIOUS
<1>3. PICK a : a = Cardinality(L)
  OBVIOUS
<1>4. a \in Nat /\ a <= Len(files)
  <2>1. Len(files) \in Nat /\ L \subseteq 1..Len(files)
    OBVIOUS
  <2>2. IsFiniteSet(1..Len(files)) /\ Cardinality(1..Len(files)) = Len(files)
    <3>1. PICK n \in Nat : n = Len(files)
      BY <2>1
    <3>2. IsFiniteSet(1..n) /\ Cardinality(1..n) = n
      BY FS_Interval
    <3> QED
      BY <3>1, <3>2
  <2>3. IsFiniteSet(L) /\ Cardinality(L) <= Len(files)
    BY <2>1, <2>2, FS_Subset
  <2> QED
    BY <1>3, <2>3, FS_CardinalityType
<1> DEFINE E == F \cup {x}
<1>5. files \in Seq(E) /\ <<x>> \in Seq(E)
  OBVIOUS
<1>6. SubSeq(files, 1, a) \in Seq(E) /\ SubSeq(files, a + 1, Len(files)) \in Seq(E)
  BY <1>4, <1>5
<1>7. files' = SubSeq(files, 1, a) \o <<x>> \o SubSeq(files, a + 1, Len(files))
  <2>1. files' = InsertAt(files, a + 1, x) /\ (a + 1) - 1 = a
    BY <1>1, <1>2, <1>3, <1>4
  <2> QED
    BY <2>1 DEF InsertAt
<1>8. files' \in Seq(E)
  BY <1>5, <1>6, <1>7
<1> QED
  BY <1>8

\* The numbers on the site carry every problem and warning of the very run they
\* are from, whatever runs share its description.
THEOREM SitesAreHonest == ReportsSpec => []PublishedWithCaveats
<1>1. ReportsInit => ReportsInv
  <2> SUFFICES ASSUME ReportsInit PROVE ReportsInv
    OBVIOUS
  <2>1. files \in Seq({})
    BY DEF ReportsInit
  <2>2. site.shown = <<>> /\ DOMAIN <<>> = {}
    BY DEF ReportsInit, Nothing
  <2> QED
    BY <2>1, <2>2 DEF ReportsInv, PublishedWithCaveats
<1>2. ReportsInv /\ [ReportsNext]_reportVars => ReportsInv'
  <2> SUFFICES ASSUME ReportsInv, [ReportsNext]_reportVars PROVE ReportsInv'
    OBVIOUS
  <2>1. PICK F : files \in Seq(F)
    BY DEF ReportsInv
  <2>2. UNCHANGED site => PublishedWithCaveats'
    BY DEF ReportsInv, PublishedWithCaveats
  <2>3. CASE Save
    BY <2>1, <2>2, <2>3, SaveKeepsFiles DEF Save, ReportsInv
  <2>4. CASE Publish
    <3>1. site' = SiteOf(files) /\ files' = files
      BY <2>4 DEF Publish
    <3>2. HonestSite(site')
      BY <2>1, <3>1, PublishedIsHonest
    <3>3. PublishedWithCaveats'
      BY <3>2 DEF HonestSite, PublishedWithCaveats
    <3> QED
      BY <2>1, <3>1, <3>3 DEF ReportsInv
  <2>5. CASE UNCHANGED <<files, site>>
    BY <2>1, <2>2, <2>5 DEF ReportsInv
  <2> QED
    BY <2>3, <2>4, <2>5 DEF ReportsNext, Start, MeasurePoint, Abort, Edit, Verify, reportVars
<1>3. ReportsInv => PublishedWithCaveats
  BY DEF ReportsInv
<1> QED
  BY <1>1, <1>2, <1>3, PTL DEF ReportsSpec

-----------------------------------------------------------------------------
(***************************************************************************)
(* A chaos experiment.  However long an injector holds the loop up, the    *)
(* samples come one after the other and count each answer once             *)
(* (SampledOnce), which is all the verdict needs.                          *)
(***************************************************************************)
Samples == [t : Nat, n : Nat, viol : Nat]
ChaosTypeOK ==
  /\ elapsed_s \in Nat /\ load_task \in {"driving", "draining", "over"}
  /\ fired \in Nat /\ in_air \in Nat /\ next_sample \in Nat
  /\ bucket \in [n : Nat, viol : Nat] /\ samples \in Seq(Samples)
  /\ {inject, clear} \subseteq {"waiting", "acting", "done"} /\ {fault, blocking} \subseteq BOOLEAN
  /\ outcome \in {"running", "crashed", "analysed"}
\* No sample twice, and none violates more than it counts.
SampledOnce ==
  /\ \A i, j \in 1..Len(samples) : i < j => samples[i].t < samples[j].t
  /\ \A i \in 1..Len(samples) : samples[i].t < next_sample /\ samples[i].viol <= samples[i].n
  /\ bucket.viol <= bucket.n
ChaosInv == ChaosTypeOK /\ SampledOnce /\ JudgedOnce

LEMMA SamplesAre ==
  ASSUME samples \in Seq(Samples), NEW i \in 1..Len(samples)
  PROVE  /\ samples[i] \in Samples
         /\ samples[i].t \in Nat /\ samples[i].n \in Nat /\ samples[i].viol \in Nat
<1>1. samples[i] \in Samples
  OBVIOUS
<1> QED
  BY <1>1 DEF Samples

\* The sum over all samples, and over one more.
LEMMA JudgedMore ==
  ASSUME ChaosTypeOK
  PROVE  /\ judged \in Nat
         /\ \A s \in Samples : samples' = Append(samples, s) => judged' = judged + s.n
<1> DEFINE ns == [i \in DOMAIN samples |-> samples[i].n]
<1>1. ns \in Seq(Nat) /\ Len(ns) = Len(samples) /\ Len(samples) \in Nat
  <2>1. samples \in Seq(Samples) /\ Len(samples) \in Nat /\ DOMAIN samples = 1..Len(samples)
    BY DEF ChaosTypeOK
  <2>2. ASSUME NEW i \in 1..Len(samples) PROVE samples[i].n \in Nat
    BY <2>1, SamplesAre
  <2> QED
    BY <2>1, <2>2
<1>2. judged = Total(ns)
  BY DEF judged
<1>3. ASSUME NEW s \in Samples, samples' = Append(samples, s) PROVE judged' = judged + s.n
  <2> DEFINE ms == [i \in DOMAIN samples' |-> samples'[i].n]
  <2>1. samples \in Seq(Samples) /\ s.n \in Nat
    BY DEF ChaosTypeOK, Samples
  <2>2. ms = Append(ns, s.n)
    <3>1. /\ DOMAIN samples' = 1..(Len(samples) + 1) /\ samples'[Len(samples) + 1] = s
          /\ \A i \in 1..Len(samples) : samples'[i] = samples[i]
      BY <1>3, <2>1
    <3>2. ms = [i \in 1..(Len(samples) + 1) |-> samples'[i].n]
      BY <3>1
    <3>3. /\ Append(ns, s.n) = [i \in 1..(Len(samples) + 1) |-> Append(ns, s.n)[i]]
          /\ Append(ns, s.n)[Len(samples) + 1] = s.n
          /\ \A i \in 1..Len(samples) : Append(ns, s.n)[i] = samples[i].n
      <4>1. \A i \in 1..Len(samples) : ns[i] = samples[i].n
        BY <2>1
      <4> HIDE DEF ns
      <4> QED
        BY <1>1, <2>1, <4>1
    <3> HIDE DEF ns, ms
    <3>4. \A i \in 1..(Len(samples) + 1) : samples'[i].n = Append(ns, s.n)[i]
      <4> SUFFICES ASSUME NEW i \in 1..(Len(samples) + 1) PROVE samples'[i].n = Append(ns, s.n)[i]
        OBVIOUS
      <4>1. CASE i \in 1..Len(samples)
        BY <3>1, <3>3, <4>1
      <4>2. CASE i = Len(samples) + 1
        BY <3>1, <3>3, <4>2
      <4> QED
        BY <1>1, <4>1, <4>2
    <3> QED
      BY <3>2, <3>3, <3>4
  <2>3. judged' = Total(ms)
    BY DEF judged
  <2> HIDE DEF ns, ms
  <2> QED
    BY <1>1, <1>2, <2>1, <2>2, <2>3, TotalOfAppend
<1> HIDE DEF ns
<1> QED
  BY <1>1, <1>2, <1>3, TotalOfAppend

LEMMA ChaosStarts == ChaosInit => ChaosInv
<1> SUFFICES ASSUME ChaosInit PROVE ChaosInv
  OBVIOUS
<1>1. ChaosTypeOK
  <2>1. <<>> \in Seq(Samples) /\ Empty \in [n : Nat, viol : Nat] /\ SampleEvery \in Nat
    BY ChaosAssumption DEF Empty
  <2> QED
    BY <2>1 DEF ChaosInit, ChaosTypeOK
<1>2. SampledOnce
  BY ChaosAssumption DEF ChaosInit, SampledOnce, Empty
<1>3. judged = 0
  <2>1. [i \in DOMAIN samples |-> samples[i].n] = <<>>
    BY DEF ChaosInit
  <2> QED
    BY <2>1, TotalOfAppend DEF judged
<1>4. JudgedOnce
  BY <1>3 DEF ChaosInit, JudgedOnce, Empty
<1> QED
  BY <1>1, <1>2, <1>4 DEF ChaosInv

LEMMA ChaosStepKeeps == ChaosInv /\ [ChaosNext]_chaosVars => ChaosInv'
<1> SUFFICES ASSUME ChaosInv, [ChaosNext]_chaosVars PROVE ChaosInv'
  OBVIOUS
<1>1. ChaosTypeOK /\ SampledOnce /\ JudgedOnce /\ judged \in Nat
  BY JudgedMore DEF ChaosInv
<1>2. UNCHANGED samples => UNCHANGED judged
  BY DEF judged
<1>3. CASE Fire
  <2>1. /\ UNCHANGED <<elapsed_s, bucket, samples, next_sample, inject, clear, fault, outcome, blocking>>
        /\ fired' = fired + 1 /\ in_air' = in_air + 1 /\ load_task' \in {"driving", "draining"}
    BY <1>3 DEF Fire
  <2>2. ChaosTypeOK' /\ SampledOnce'
    BY <1>1, <2>1 DEF ChaosTypeOK, SampledOnce
  <2>3. JudgedOnce'
    BY <1>1, <1>2, <2>1 DEF JudgedOnce, ChaosTypeOK
  <2> QED
    BY <2>2, <2>3 DEF ChaosInv
<1>4. CASE Answered
  <2>1. PICK v \in 0..1 : /\ bucket' = [n |-> bucket.n + 1, viol |-> bucket.viol + v]
                          /\ in_air > 0 /\ in_air' = in_air - 1
                          /\ UNCHANGED <<elapsed_s, load_task, fired, samples, next_sample, inject, clear, fault, outcome, blocking>>
    BY <1>4 DEF Answered
  <2>2. bucket'.n = bucket.n + 1 /\ bucket'.viol = bucket.viol + v /\ bucket.n \in Nat /\ bucket.viol \in Nat
    BY <1>1, <2>1 DEF ChaosTypeOK
  <2>3. ChaosTypeOK'
    BY <1>1, <2>1, <2>2 DEF ChaosTypeOK
  <2>4. SampledOnce'
    BY <1>1, <2>1, <2>2 DEF SampledOnce
  <2>5. JudgedOnce'
    BY <1>1, <1>2, <2>1, <2>2 DEF JudgedOnce, ChaosTypeOK
  <2> QED
    BY <2>3, <2>4, <2>5 DEF ChaosInv
<1>5. CASE Sample
  <2> DEFINE s == [t |-> elapsed_s, n |-> bucket.n, viol |-> bucket.viol]
  <2>1. /\ samples' = Append(samples, s) /\ bucket' = [n |-> 0, viol |-> 0]
        /\ next_sample' = elapsed_s + SampleEvery /\ elapsed_s >= next_sample
        /\ UNCHANGED <<elapsed_s, load_task, fired, in_air, inject, clear, fault, outcome, blocking>>
    BY <1>5 DEF Sample, Swapped, Empty
  <2>2. s \in Samples /\ SampleEvery \in Nat \ {0} /\ s.t = elapsed_s /\ s.n = bucket.n /\ s.viol = bucket.viol
    BY <1>1, ChaosAssumption DEF ChaosTypeOK, Samples
  <2> HIDE DEF s
  <2>3. /\ samples' \in Seq(Samples) /\ Len(samples') = Len(samples) + 1 /\ Len(samples) \in Nat
        /\ samples'[Len(samples) + 1] = s /\ \A i \in 1..Len(samples) : samples'[i] = samples[i]
    BY <1>1, <2>1, <2>2 DEF ChaosTypeOK
  <2>4. bucket'.n = 0 /\ bucket'.viol = 0
    BY <2>1
  <2>5. ChaosTypeOK'
    BY <1>1, <2>1, <2>2, <2>3 DEF ChaosTypeOK
  <2>6. \A i \in 1..Len(samples) : samples[i].t \in Nat /\ samples[i].t < elapsed_s /\ samples[i].viol <= samples[i].n
    <3> SUFFICES ASSUME NEW i \in 1..Len(samples)
                 PROVE  samples[i].t \in Nat /\ samples[i].t < elapsed_s /\ samples[i].viol <= samples[i].n
      OBVIOUS
    <3>1. samples[i].t \in Nat
      BY <1>1, SamplesAre DEF ChaosTypeOK
    <3>2. samples[i].t < next_sample /\ samples[i].viol <= samples[i].n
      BY <1>1 DEF SampledOnce
    <3>3. next_sample <= elapsed_s /\ next_sample \in Nat /\ elapsed_s \in Nat
      BY <1>1, <2>1 DEF ChaosTypeOK
    <3> QED
      BY <3>1, <3>2, <3>3
  <2>7. SampledOnce'
    <3>1. ASSUME NEW i \in 1..Len(samples'), NEW j \in 1..Len(samples'), i < j
          PROVE  samples'[i].t < samples'[j].t
      <4>1. i \in 1..Len(samples)
        BY <2>3, <3>1
      <4>2. CASE j \in 1..Len(samples)
        BY <1>1, <2>3, <3>1, <4>1, <4>2 DEF SampledOnce
      <4>3. CASE j = Len(samples) + 1
        BY <2>2, <2>3, <2>6, <4>1, <4>3
      <4> QED
        BY <2>3, <4>2, <4>3
    <3>2. ASSUME NEW i \in 1..Len(samples')
          PROVE  samples'[i].t < next_sample' /\ samples'[i].viol <= samples'[i].n
      <4>1. CASE i \in 1..Len(samples)
        <5>1. samples'[i] = samples[i] /\ samples[i].t \in Nat /\ samples[i].t < elapsed_s
              /\ samples[i].viol <= samples[i].n
          BY <2>3, <2>6, <4>1
        <5> QED
          BY <1>1, <2>1, <2>2, <5>1 DEF ChaosTypeOK
      <4>2. CASE i = Len(samples) + 1
        <5>1. samples'[i] = s
          BY <2>3, <4>2
        <5> QED
          BY <1>1, <2>1, <2>2, <5>1 DEF ChaosTypeOK, SampledOnce
      <4> QED
        BY <2>3, <4>1, <4>2
    <3> QED
      BY <2>4, <3>1, <3>2 DEF SampledOnce
  <2>8. judged' = judged + bucket.n
    BY <1>1, <2>1, <2>2, JudgedMore
  <2>9. JudgedOnce'
    BY <1>1, <2>1, <2>4, <2>8 DEF JudgedOnce, ChaosTypeOK
  <2> QED
    BY <2>5, <2>7, <2>9 DEF ChaosInv
<1>6. CASE LoadEnds
  <2>1. /\ load_task' \in {"draining", "over"}
        /\ UNCHANGED <<elapsed_s, fired, in_air, bucket, samples, next_sample, inject, clear, fault, outcome, blocking>>
    BY <1>6 DEF LoadEnds
  <2>2. ChaosTypeOK'
    BY <1>1, <2>1 DEF ChaosTypeOK
  <2>3. SampledOnce'
    BY <1>1, <2>1 DEF SampledOnce
  <2>4. JudgedOnce'
    BY <1>1, <1>2, <2>1 DEF JudgedOnce
  <2> QED
    BY <2>2, <2>3, <2>4 DEF ChaosInv
<1>7. CASE Inject
  <2>1. UNCHANGED <<elapsed_s, load_task, fired, in_air, bucket, samples, next_sample, clear, blocking>>
    BY <1>7 DEF Inject
  <2>2. SampledOnce' /\ JudgedOnce'
    BY <1>1, <1>2, <2>1 DEF SampledOnce, JudgedOnce
  <2>3. ChaosTypeOK'
    BY <1>1, <1>7, <2>1 DEF Inject, ChaosTypeOK
  <2> QED
    BY <2>2, <2>3 DEF ChaosInv
<1>8. CASE Clear
  <2>1. UNCHANGED <<elapsed_s, load_task, fired, in_air, bucket, samples, next_sample, inject, blocking>>
    BY <1>8 DEF Clear
  <2>2. SampledOnce' /\ JudgedOnce'
    BY <1>1, <1>2, <2>1 DEF SampledOnce, JudgedOnce
  <2>3. ChaosTypeOK'
    BY <1>1, <1>8, <2>1 DEF Clear, ChaosTypeOK
  <2> QED
    BY <2>2, <2>3 DEF ChaosInv
<1>9. CASE Analyse
  <2>1. /\ outcome' = "analysed"
        /\ UNCHANGED <<elapsed_s, load_task, fired, in_air, bucket, samples, next_sample, inject, clear, fault, blocking>>
    BY <1>9 DEF Analyse
  <2> QED
    BY <1>1, <1>2, <2>1 DEF ChaosInv, ChaosTypeOK, SampledOnce, JudgedOnce
<1>10. CASE Second
  <2>1. /\ elapsed_s' = elapsed_s + 1
        /\ UNCHANGED <<load_task, fired, in_air, bucket, samples, next_sample, inject, clear, fault, outcome, blocking>>
    BY <1>10 DEF Second
  <2> QED
    BY <1>1, <1>2, <2>1 DEF ChaosInv, ChaosTypeOK, SampledOnce, JudgedOnce
<1>11. CASE UNCHANGED chaosVars
  BY <1>1, <1>2, <1>11 DEF chaosVars, ChaosInv, ChaosTypeOK, SampledOnce, JudgedOnce
<1> QED
  BY <1>3, <1>4, <1>5, <1>6, <1>7, <1>8, <1>9, <1>10, <1>11 DEF ChaosNext

\* Undetected, every sample since the fault violates at most the threshold.
LEMMA BurnsSlowly == ChaosInv => UndetectedBurnsSlowly
<1> SUFFICES ASSUME ChaosInv, ~Detected, slo_violating = Violating(FaultStart)
             PROVE  ~BurnAtLeast(ThresholdPercent \div BudgetPercent + 1)
  BY DEF UndetectedBurnsSlowly
<1> DEFINE n == Len(samples)
           vs == [i \in DOMAIN samples |-> IF samples[i].t >= FaultStart THEN samples[i].viol ELSE 0]
           ns == [i \in DOMAIN samples |-> samples[i].n]
<1>1. /\ samples \in Seq(Samples) /\ n \in Nat /\ DOMAIN samples = 1..n
      /\ \A i \in 1..n : samples[i].viol <= samples[i].n
  BY DEF ChaosInv, ChaosTypeOK, SampledOnce
<1>2. ThresholdPercent \in Nat /\ BudgetPercent \in Nat \ {0} /\ FaultStart \in Nat
  BY ChaosAssumption
<1>3. \A i \in 1..n : samples[i].t \in Nat /\ samples[i].n \in Nat /\ samples[i].viol \in Nat
  BY <1>1, SamplesAre
<1> HIDE DEF n
<1>4. vs \in Seq(Nat) /\ Len(vs) = n /\ ns \in Seq(Nat) /\ Len(ns) = n
  <2>1. vs \in [1..n -> Nat] /\ ns \in [1..n -> Nat]
    BY <1>1, <1>3
  <2> HIDE DEF vs, ns
  <2> QED
    BY <1>1, <2>1
<1>5. ASSUME NEW i \in 1..n PROVE vs[i] * 100 <= ns[i] * ThresholdPercent
  <2>1. vs[i] = IF samples[i].t >= FaultStart THEN samples[i].viol ELSE 0
    BY <1>1
  <2>2. ns[i] = samples[i].n /\ samples[i].n \in Nat /\ samples[i].viol \in Nat /\ samples[i].t \in Nat
        /\ samples[i].viol <= samples[i].n
    BY <1>1, <1>3
  <2> HIDE DEF vs, ns
  <2>3. ns[i] * ThresholdPercent \in Nat
    BY <1>2, <2>2
  <2>4. CASE samples[i].t < FaultStart \/ samples[i].n = 0
    <3>1. vs[i] = 0
      BY <1>2, <2>1, <2>2, <2>4
    <3> QED
      BY <2>3, <3>1
  <2>5. CASE samples[i].t >= FaultStart /\ samples[i].n > 0
    <3>1. i \notin Detections
      BY DEF Detected
    <3>2. Healthy(samples[i])
      BY <1>1, <2>5, <3>1 DEF Detections
    <3> QED
      BY <2>1, <2>2, <2>5, <3>2 DEF Healthy
  <2> QED
    BY <1>2, <2>2, <2>4, <2>5
<1>6. Violating(FaultStart) = Total(vs) /\ judged = Total(ns)
  BY DEF Violating, judged
<1> HIDE DEF vs, ns
<1>7. Total(vs) * 100 <= Total(ns) * ThresholdPercent /\ Total(vs) \in Nat /\ Total(ns) \in Nat
  BY <1>2, <1>4, <1>5, TotalsCompare, TotalOfAppend
<1>8. PICK v \in Nat, j \in Nat : v = slo_violating /\ j = judged /\ v * 100 <= j * ThresholdPercent
  BY <1>6, <1>7
<1>9. PICK m \in Nat : m = Max({judged, 1}) /\ j <= m /\ 1 <= m
  <2>1. \E x \in {j, 1} : \A y \in {j, 1} : x >= y
    <3>1. j >= 1 \/ 1 >= j
      BY <1>8
    <3> QED
      BY <1>8, <3>1
  <2>2. Max({j, 1}) \in {j, 1} /\ \A y \in {j, 1} : Max({j, 1}) >= y
    BY <2>1 DEF Max
  <2> QED
    BY <1>8, <2>2
<1>10. PICK q \in Nat : q = ThresholdPercent \div BudgetPercent /\ ThresholdPercent < (q + 1) * BudgetPercent
  BY <1>2
<1>11. j * ThresholdPercent <= m * ThresholdPercent
  BY <1>2, <1>8, <1>9, TimesKeepsOrder
<1>12. m * ThresholdPercent < m * ((q + 1) * BudgetPercent)
  <2>1. PICK d \in Nat : (q + 1) * BudgetPercent = ThresholdPercent + d /\ d >= 1
    <3>1. (q + 1) * BudgetPercent \in Nat
      BY <1>2
    <3>2. (q + 1) * BudgetPercent - ThresholdPercent \in Nat
      BY <1>2, <1>10, <3>1
    <3> QED
      BY <1>2, <1>10, <3>1, <3>2
  <2>2. m * (ThresholdPercent + d) = m * ThresholdPercent + m * d
    BY <1>2
  <2>3. 1 * d <= m * d /\ m * d \in Nat /\ m * ThresholdPercent \in Nat
    BY <1>2, <1>9, TimesKeepsOrder
  <2> QED
    BY <2>1, <2>2, <2>3
<1>13. m * ((q + 1) * BudgetPercent) = (q + 1) * m * BudgetPercent
  BY <1>2
<1>14. v * 100 < (q + 1) * m * BudgetPercent
  <2>1. {v * 100, j * ThresholdPercent, m * ThresholdPercent, (q + 1) * m * BudgetPercent} \subseteq Nat
    BY <1>2
  <2> QED
    BY <1>8, <1>11, <1>12, <1>13, <2>1
<1>15. BurnAtLeast(ThresholdPercent \div BudgetPercent + 1) = (v * 100 >= (q + 1) * m * BudgetPercent)
  BY <1>8, <1>9, <1>10 DEF BurnAtLeast
<1>16. (q + 1) * m * BudgetPercent \in Nat /\ v * 100 \in Nat
  BY <1>2
<1>17. ~(v * 100 >= (q + 1) * m * BudgetPercent)
  BY <1>14, <1>16
<1> QED
  BY <1>15, <1>17

\* The samples that count: those with answers since the fault should end.
CountedSamples == {q \in [t : Nat, n : Nat, viol : Nat] : q.t >= FaultEnd /\ q.n > 0}

\* The length of the healthy run that ends at a sample.
LEMMA RunByElement ==
  ASSUME Counted \in Seq(Samples)
  PROVE  /\ run[0] = 0
         /\ \A i \in 0..Len(Counted) : run[i] \in Nat
         /\ \A i \in 1..Len(Counted) :
              run[i] = IF Healthy(Counted[i]) THEN run[i - 1] + 1 ELSE 0
<1> DEFINE n == Len(Counted)
           G == [p \in (1..n) \X Nat |-> IF Healthy(Counted[p[1]]) THEN p[2] + 1 ELSE 0]
           Eq(k) == k = [i \in 0..n |-> IF i = 0 THEN 0 ELSE IF Healthy(Counted[i]) THEN k[i - 1] + 1 ELSE 0]
<1>1. n \in Nat
  OBVIOUS
<1>2. G \in [(1..n) \X Nat -> Nat]
  OBVIOUS
<1> HIDE DEF n, G
<1>3. PICK f : f \in [0..n -> Nat] /\ f[0] = 0 /\ \A i \in 1..n : f[i] = G[<<i, f[i - 1]>>]
  <2>1. PICK f : Iterates(f, n, Nat, 0, G)
    BY <1>1, <1>2, IterationExists
  <2> QED
    BY <2>1 DEF Iterates
<1>4. ASSUME NEW i \in 1..n PROVE f[i] = IF Healthy(Counted[i]) THEN f[i - 1] + 1 ELSE 0
  <2>1. i - 1 \in 0..n /\ f[i - 1] \in Nat
    BY <1>1, <1>3
  <2>2. <<i, f[i - 1]>> \in (1..n) \X Nat
    BY <2>1
  <2> QED
    BY <1>3, <2>2 DEF G
<1>5. Eq(f)
  <2>1. f = [i \in 0..n |-> f[i]]
    BY <1>3
  <2>2. ASSUME NEW i \in 0..n
        PROVE  f[i] = IF i = 0 THEN 0 ELSE IF Healthy(Counted[i]) THEN f[i - 1] + 1 ELSE 0
    <3>1. CASE i = 0
      BY <1>3, <3>1
    <3>2. CASE i # 0
      <4>1. i \in 1..n
        BY <1>1, <3>2
      <4> QED
        BY <1>4, <3>2, <4>1
    <3> QED
      BY <3>1, <3>2
  <2> QED
    BY <2>1, <2>2
<1> DEFINE k == CHOOSE g : Eq(g)
<1>6. Eq(k)
  BY <1>5
<1>7. run = k
  BY DEF run, n
<1> HIDE DEF k
<1>8. k[0] = 0 /\ DOMAIN k = 0..n
  BY <1>1, <1>6
<1>9. ASSUME NEW i \in 1..n PROVE k[i] = IF Healthy(Counted[i]) THEN k[i - 1] + 1 ELSE 0
  <2>1. i \in 0..n /\ i # 0
    BY <1>1
  <2> QED
    BY <1>6, <2>1
<1>10. \A i \in 0..n : k[i] \in Nat
  <2> DEFINE T == {i \in 0..n : k[i] \in Nat}
  <2>1. 0 \in T
    BY <1>1, <1>8
  <2>2. ASSUME NEW i \in 1..n, i - 1 \in T PROVE i \in T
    BY <1>1, <1>9, <2>2
  <2> HIDE DEF T
  <2>3. 0..n \subseteq T
    BY <1>1, <2>1, <2>2, InductionUpTo
  <2> QED
    BY <2>3 DEF T
<1> QED
  BY <1>7, <1>8, <1>9, <1>10 DEF n

\* Those of a run are healthy, and the one before them is not.
LEMMA RunIsHealthy ==
  ASSUME Counted \in Seq(Samples), NEW i \in 0..Len(Counted)
  PROVE  /\ run[i] \in 0..i
         /\ \A j \in 1..i : j > i - run[i] => Healthy(Counted[j])
         /\ run[i] < i => ~Healthy(Counted[i - run[i]])
<1> DEFINE n == Len(Counted)
           P(x) == /\ run[x] \in 0..x
                   /\ \A j \in 1..x : j > x - run[x] => Healthy(Counted[j])
                   /\ run[x] < x => ~Healthy(Counted[x - run[x]])
           T == {x \in 0..n : P(x)}
<1>1. n \in Nat /\ run[0] = 0
      /\ \A x \in 1..n : run[x] = IF Healthy(Counted[x]) THEN run[x - 1] + 1 ELSE 0
  BY RunByElement
<1>2. 0 \in T
  BY <1>1
<1>3. ASSUME NEW x \in 1..n, x - 1 \in T PROVE x \in T
  <2>1. P(x - 1) /\ x \in 0..n /\ x - 1 \in Nat
    BY <1>1, <1>3
  <2>2. CASE Healthy(Counted[x])
    <3>1. run[x] = run[x - 1] + 1 /\ run[x - 1] \in 0..(x - 1) /\ x - run[x] = (x - 1) - run[x - 1]
      BY <1>1, <2>1, <2>2
    <3>2. \A j \in 1..x : j > x - run[x] => Healthy(Counted[j])
      <4> SUFFICES ASSUME NEW j \in 1..x, j > x - run[x] PROVE Healthy(Counted[j])
        OBVIOUS
      <4>1. CASE j = x
        BY <2>2, <4>1
      <4>2. CASE j # x
        <5>1. j \in 1..(x - 1) /\ j > (x - 1) - run[x - 1]
          BY <3>1, <4>2
        <5> QED
          BY <2>1, <5>1
      <4> QED
        BY <4>1, <4>2
    <3>3. run[x] < x => ~Healthy(Counted[x - run[x]])
      BY <2>1, <3>1
    <3>4. run[x] \in 0..x
      BY <2>1, <3>1
    <3> QED
      BY <2>1, <3>2, <3>3, <3>4
  <2>3. CASE ~Healthy(Counted[x])
    <3>1. run[x] = 0 /\ x - run[x] = x
      BY <1>1, <2>3
    <3> QED
      BY <2>1, <2>3, <3>1
  <2> QED
    BY <2>2, <2>3
<1> HIDE DEF T
<1>4. 0..n \subseteq T
  BY <1>1, <1>2, <1>3, InductionUpTo
<1> QED
  BY <1>4 DEF T

\* The least and the greatest of a set of numbers, if there is one.
LEMMA LeastIs ==
  ASSUME NEW S, NEW x \in S, S \subseteq Nat
  PROVE  Min(S) \in S /\ \A y \in S : Min(S) <= y
<1>1. \E m \in S : \A y \in S : m <= y
  BY LeastElement
<1> QED
  BY <1>1 DEF Min
LEMMA GreatestIs ==
  ASSUME NEW S, NEW x \in S, S \subseteq Nat, \A y \in S : y <= x
  PROVE  Max(S) = x
<1>1. Max(S) \in S /\ \A y \in S : Max(S) >= y
  BY DEF Max
<1>2. Max(S) >= x /\ x >= Max(S) /\ x \in Nat /\ Max(S) \in Nat
  BY <1>1
<1> QED
  BY <1>2

\* The values of an increasing list between two places.
LEMMA Between ==
  ASSUME NEW c \in Seq(Nat), \A k, l \in 1..Len(c) : k < l => c[k] < c[l],
         NEW b \in Nat, NEW m \in 0..Len(c), b <= m
  PROVE  Cardinality({c[k] : k \in (b + 1)..m}) = m - b
<1> DEFINE D == (b + 1)..m
           R == {c[k] : k \in D}
           f == [k \in D |-> c[k]]
<1>1. IsFiniteSet(D) /\ Cardinality(D) = m - b
  <2>1. b + 1 \in Int /\ m \in Int /\ Len(c) \in Nat
    OBVIOUS
  <2>2. IsFiniteSet((b + 1)..m) /\ Cardinality((b + 1)..m) = IF b + 1 > m THEN 0 ELSE m - (b + 1) + 1
    BY <2>1, FS_Interval
  <2> QED
    BY <2>1, <2>2
<1>2. D \subseteq 1..Len(c) /\ \A k \in D : c[k] \in Nat
  OBVIOUS
<1>3. \A k, l \in D : f[k] = f[l] => k = l
  <2> SUFFICES ASSUME NEW k \in D, NEW l \in D, c[k] = c[l] PROVE k = l
    OBVIOUS
  <2>1. ~(k < l) /\ ~(l < k)
    BY <1>2
  <2> QED
    BY <1>2, <2>1
<1>4. f \in Bijection(D, R)
  <2>1. f \in [D -> R] /\ \A y \in R : \E k \in D : f[k] = y
    OBVIOUS
  <2> QED
    BY <1>3, <2>1 DEF Bijection, Injection, Surjection, IsInjective
<1> HIDE DEF D, R, f
<1>5. ExistsBijection(D, R)
  BY <1>4 DEF ExistsBijection
<1>6. Cardinality(R) = m - b
  BY <1>1, <1>5, FS_Bijection
<1> QED
  BY <1>6 DEF R, D

\* The recovery is at the first sample of the counted ones that ends a run of
\* Sustained, so the run is exactly that long.
LEMMA RecoversSoundly == ChaosInv => RecoveryIsSustained
<1> DEFINE after == {i \in DOMAIN samples : samples[i].t >= FaultEnd /\ samples[i].t <= recover_s
                                            /\ samples[i].n > 0}
           bad == {0} \cup {i \in after : ~Healthy(samples[i])}
<1> SUFFICES ASSUME ChaosInv, Recovered
             PROVE  Cardinality({i \in after : i > Max(bad)}) = Sustained
  BY DEF RecoveryIsSustained
<1>1. /\ samples \in Seq(Samples) /\ DOMAIN samples = 1..Len(samples) /\ Len(samples) \in Nat
      /\ \A i, j \in 1..Len(samples) : i < j => samples[i].t < samples[j].t
      /\ \A i \in 1..Len(samples) : samples[i].t \in Nat /\ samples[i].n \in Nat
  <2>1. samples \in Seq(Samples)
    BY DEF ChaosInv, ChaosTypeOK
  <2>2. \A i \in 1..Len(samples) : samples[i].t \in Nat /\ samples[i].n \in Nat
    BY <2>1, SamplesAre
  <2> QED
    BY <2>1, <2>2 DEF ChaosInv, SampledOnce
<1>2. Counted = Those(samples, CountedSamples)
  BY DEF Counted, CountedSamples
<1>3. Counted \in Seq(Samples)
  BY <1>1, <1>2, ThoseKept
<1>4. PICK c \in Seq(Nat) :
        /\ Len(c) = Len(Counted)
        /\ \A k \in 1..Len(c) : c[k] \in 1..Len(samples) /\ samples[c[k]] \in CountedSamples
                                /\ Counted[k] = samples[c[k]]
        /\ \A i \in 1..Len(samples) : samples[i] \in CountedSamples => \E k \in 1..Len(c) : c[k] = i
        /\ \A k, l \in 1..Len(c) : k < l => c[k] < c[l]
  <2>1. PICK c \in Seq(Nat) : Places(c, CountedSamples, samples)
    BY <1>1, ThoseByPlace
  <2> QED
    BY <1>2, <2>1 DEF Places
<1>5. Sustained \in Nat \ {0} /\ FaultEnd \in Nat
  BY ChaosAssumption
<1>6. /\ run[0] = 0 /\ Len(c) \in Nat
      /\ \A i \in 0..Len(c) : run[i] \in 0..i
      /\ \A i \in 1..Len(c) : run[i] <= run[i - 1] + 1
  <2>1. \A i \in 0..Len(c) : run[i] \in 0..i
    BY <1>3, <1>4, RunIsHealthy
  <2>2. \A i \in 1..Len(c) : run[i] = IF Healthy(Counted[i]) THEN run[i - 1] + 1 ELSE 0
    BY <1>3, <1>4, RunByElement
  <2>3. ASSUME NEW i \in 1..Len(c) PROVE run[i] <= run[i - 1] + 1
    <3>1. PICK v : v = run[i - 1]
      OBVIOUS
    <3>2. v \in Nat
      <4>1. i - 1 \in 0..Len(c)
        BY <1>3, <1>4
      <4>2. v \in 0..(i - 1)
        BY <2>1, <3>1, <4>1
      <4> QED
        BY <4>2
    <3>3. run[i] = v + 1 \/ run[i] = 0
      BY <2>2, <3>1
    <3>4. run[i] <= v + 1
      BY <3>2, <3>3
    <3> QED
      BY <3>1, <3>4
  <2> QED
    BY <1>3, <2>1, <2>3, RunByElement
<1> DEFINE m == Min(Recoveries)
<1>7. m \in 1..Len(c) /\ run[m] = Sustained /\ recover_s = Counted[m].t
  <2>1. PICK r : r \in Recoveries
    BY DEF Recovered
  <2>2. Recoveries = {i \in 1..Len(c) : run[i] >= Sustained}
    BY <1>4 DEF Recoveries, Run
  <2>3. m \in Recoveries /\ \A y \in Recoveries : m <= y
    <3>1. Recoveries \subseteq Nat
      BY <2>2
    <3> QED
      BY <2>1, <3>1, LeastIs
  <2> HIDE DEF m
  <2>4. m \in 1..Len(c) /\ run[m] >= Sustained /\ m - 1 \in 0..Len(c) /\ m - 1 \notin Recoveries
    BY <2>2, <2>3
  <2>5. run[m - 1] < Sustained
    <3>1. CASE m = 1
      BY <1>5, <1>6, <3>1
    <3>2. CASE m # 1
      <4>1. m - 1 \in 1..Len(c) /\ run[m - 1] \in Nat
        BY <1>6, <2>4, <3>2
      <4> QED
        BY <1>5, <2>2, <2>4, <4>1
    <3> QED
      BY <3>1, <3>2
  <2>6. run[m] <= run[m - 1] + 1 /\ run[m] \in Nat /\ run[m - 1] \in Nat
    BY <1>6, <2>4
  <2>7. run[m] = Sustained
    BY <1>5, <2>4, <2>5, <2>6
  <2>8. recover_s = Counted[m].t
    BY DEF recover_s, m
  <2> QED
    BY <2>4, <2>7, <2>8
<1> HIDE DEF m
<1> DEFINE b == m - Sustained
<1>8. /\ b \in 0..m /\ b < m /\ m \in 0..Len(c)
      /\ \A j \in 1..m : j > b => Healthy(Counted[j])
      /\ b > 0 => ~Healthy(Counted[b])
  <2>1. /\ run[m] \in 0..m /\ \A j \in 1..m : j > m - run[m] => Healthy(Counted[j])
        /\ run[m] < m => ~Healthy(Counted[m - run[m]])
    BY <1>3, <1>4, <1>7, RunIsHealthy
  <2> QED
    BY <1>5, <1>7, <2>1
<1> HIDE DEF b
\* The samples up to the recovery, by their place among the counted ones.
<1>9. after = {c[k] : k \in 1..m}
  <2>1. \A k \in 1..m : k \in 1..Len(c)
    BY <1>7
  <2>2. ASSUME NEW k \in 1..m PROVE c[k] \in after
    <3>1. /\ c[k] \in 1..Len(samples) /\ samples[c[k]] \in CountedSamples
          /\ c[m] \in 1..Len(samples) /\ Counted[m] = samples[c[m]]
      BY <1>4, <1>7, <2>1
    <3>2. samples[c[k]].t >= FaultEnd /\ samples[c[k]].n > 0
      BY <3>1 DEF CountedSamples
    <3>3. samples[c[k]].t <= samples[c[m]].t
      <4>1. CASE k = m
        BY <1>1, <3>1, <4>1
      <4>2. CASE k # m
        <5>1. c[k] < c[m]
          BY <1>4, <1>7, <2>1, <4>2
        <5>2. samples[c[k]].t < samples[c[m]].t
          BY <1>1, <3>1, <5>1
        <5> QED
          BY <1>1, <3>1, <5>2
      <4> QED
        BY <4>1, <4>2
    <3> QED
      BY <1>1, <1>7, <3>1, <3>2, <3>3
  <2>3. ASSUME NEW i \in after PROVE \E k \in 1..m : c[k] = i
    <3>1. i \in 1..Len(samples) /\ samples[i].t >= FaultEnd /\ samples[i].n > 0 /\ samples[i].t <= Counted[m].t
      BY <1>1, <1>7
    <3>2. samples[i] \in CountedSamples
      <4>1. samples[i] \in Samples
        BY <1>1, <3>1, SamplesAre
      <4> QED
        BY <3>1, <4>1 DEF CountedSamples, Samples
    <3>3. PICK k \in 1..Len(c) : c[k] = i
      BY <1>4, <3>1, <3>2
    <3>4. k <= m
      <4> SUFFICES ASSUME m < k PROVE FALSE
        BY <1>7
      <4>1. c[m] < c[k] /\ c[m] \in 1..Len(samples) /\ Counted[m] = samples[c[m]]
        BY <1>4, <1>7, <3>3
      <4>2. samples[c[m]].t < samples[i].t
        BY <1>1, <3>1, <3>3, <4>1
      <4> QED
        BY <1>1, <3>1, <4>1, <4>2
    <3> QED
      BY <1>7, <3>3, <3>4
  <2> QED
    BY <2>2, <2>3
<1> HIDE DEF after
<1>10. \A k \in 1..m : /\ k \in 1..Len(c) /\ c[k] \in Nat \ {0}
                       /\ Healthy(samples[c[k]]) <=> Healthy(Counted[k])
                       /\ k > b => Healthy(Counted[k])
  BY <1>1, <1>4, <1>7, <1>8
<1> DEFINE last == IF b = 0 THEN 0 ELSE c[b]
<1>11. Max(bad) = last
  <2>1. last \in bad
    BY <1>8, <1>9, <1>10
  <2>2. bad \subseteq Nat
    BY <1>9, <1>10
  <2>3. ASSUME NEW y \in bad PROVE y <= last
    <3>1. CASE y = 0
      BY <2>1, <2>2, <3>1
    <3>2. CASE y # 0
      <4>1. PICK k \in 1..m : y = c[k] /\ ~Healthy(Counted[k])
        BY <1>9, <1>10, <3>2
      <4>2. k <= b
        BY <1>8, <1>10, <4>1
      <4>3. b \in 1..Len(c) /\ last = c[b]
        BY <1>8, <4>2
      <4> QED
        BY <1>4, <1>10, <4>1, <4>2, <4>3
    <3> QED
      BY <3>1, <3>2
  <2> HIDE DEF bad, last
  <2> QED
    BY <2>1, <2>2, <2>3, GreatestIs
<1> HIDE DEF bad
<1>12. {i \in after : i > last} = {c[k] : k \in (b + 1)..m}
  <2>1. ASSUME NEW k \in 1..m PROVE c[k] > last <=> k > b
    <3>1. CASE b = 0
      BY <1>8, <1>10, <3>1
    <3>2. CASE b # 0
      <4>1. b \in 1..Len(c) /\ b \in 1..m /\ last = c[b] /\ c[b] \in Nat /\ c[k] \in Nat /\ k \in 1..Len(c)
        BY <1>8, <1>10, <3>2
      <4>2. /\ k < b => c[k] < c[b]
            /\ b < k => c[b] < c[k]
        BY <1>4, <4>1
      <4>3. k = b => c[k] = c[b]
        OBVIOUS
      <4> QED
        BY <1>8, <4>1, <4>2, <4>3
    <3> QED
      BY <3>1, <3>2
  <2>2. \A k \in (b + 1)..m : k \in 1..m /\ k > b
    BY <1>8
  <2>3. \A k \in 1..m : k > b => k \in (b + 1)..m
    BY <1>8
  <2> HIDE DEF last
  <2> QED
    BY <1>9, <2>1, <2>2, <2>3
<1>13. Cardinality({c[k] : k \in (b + 1)..m}) = m - b
  <2>1. b \in Nat /\ b <= m
    BY <1>7, <1>8
  <2> QED
    BY <1>4, <1>8, <2>1, Between
<1>14. m - b = Sustained
  BY <1>5, <1>7 DEF b
<1> QED
  BY <1>11, <1>12, <1>13, <1>14

LEMMA ExperimentSound == ChaosInv => ExperimentIsSound
<1> QED
  BY BurnsSlowly, RecoversSoundly DEF ChaosInv, ExperimentIsSound

-----------------------------------------------------------------------------
(***************************************************************************)
(* The injectors of a suite.  What a scenario may change on the world is   *)
(* confined to the targets of its faults (Confined); a fault that is being *)
(* cleared still has the call to make that undoes it, or is undone         *)
(* (Undone); and all a call may do is what its fault planned               *)
(* (CallsPlanned).                                                         *)
(***************************************************************************)
OnServers == {"throttle", "full_speed", "pause", "errors"}
OnPods == {"kill", "partition"}
Applying == {"fault", "relieve", "open", "delete", "label", "limit"}
Clearing == {"heal", "close", "unlabel", "limit"}
Worlds == [faults : [Servers -> SUBSET {"throttle", "pause", "errors"}], breaker_open : BOOLEAN,
           present : SUBSET Pods, partitioned : SUBSET Pods, limit : Nat]
Calls == [do : Applying \cup Clearing, on : Servers \cup Pods \cup {"gateway", "device"},
          with : {"throttle", "pause", "errors", ""} \cup Nat]
Busy == stage \in {"applying", "faulty", "clearing", "cleared"}

InjectorsTypeOK ==
  /\ scenario \in 1..Len(Suite)
  /\ stage \in {"steady", "applying", "faulty", "clearing", "cleared", "aborted"}
  /\ world \in Worlds /\ before \in Worlds /\ refused \in Nat
  /\ stage # "steady" =>
       /\ DOMAIN calls = DOMAIN Faults /\ DOMAIN affected = DOMAIN Faults /\ DOMAIN original = DOMAIN Faults
       /\ \A i \in DOMAIN Faults : affected[i] \in Seq(Pods) /\ Len(affected[i]) <= MaxPods

\* What a call of a fault may be.
Legit(i, c) ==
  /\ c.do \in {"fault", "relieve", "heal"} => Faults[i].kind \in OnServers /\ c.on = Faults[i].on
  /\ c.do = "fault" => c.with \in {"throttle", "pause", "errors"}
  /\ c.do \in {"open", "close"} => Faults[i].kind = "outage"
  /\ c.do \in {"delete", "label", "unlabel"} => Faults[i].kind \in OnPods /\ c.on \in Range(affected[i])
  /\ c.do = "label" => Faults[i].kind = "partition"
  /\ c.do = "limit" => original[i] # NoLimit /\ c.with \in Nat
  /\ stage = "applying" => c.do \in Applying
  /\ stage = "clearing" => c.do \in Clearing /\ (c.do = "limit" => c.with = Limited(original[i]))
CallsPlanned ==
  /\ stage # "steady" => \A i \in DOMAIN Faults :
       /\ original[i] # NoLimit => Faults[i].kind = "gpu" /\ original[i] = WholeWatts(before.limit)
       /\ calls[i] \in Seq(Calls)
       /\ \A k \in 1..Len(calls[i]) : Legit(i, calls[i][k])
  /\ stage \notin {"applying", "clearing"} => \A i \in DOMAIN calls : calls[i] = <<>>

\* The world differs from what it was where the faults are, and nowhere else.
Confined(w) ==
  /\ \A s \in Servers :
       \/ w.faults[s] \subseteq before.faults[s]
       \/ \E i \in DOMAIN Faults : Faults[i].kind \in OnServers /\ Faults[i].on = s
  /\ w.limit = before.limit \/ \E i \in DOMAIN Faults : original[i] # NoLimit
  /\ \A p \in w.partitioned :
       p \in before.partitioned \/ \E i \in DOMAIN Faults : Faults[i].kind = "partition" /\ p \in Range(affected[i])
  /\ w.breaker_open => before.breaker_open \/ \E i \in DOMAIN Faults : Faults[i].kind = "outage"

\* With the calls left in q, no fault stays.
Undone(w, q) ==
  \A i \in DOMAIN Faults :
    /\ Faults[i].kind \in OnServers => q[i] # <<>> \/ w.faults[Faults[i].on] = {}
    /\ Faults[i].kind = "outage" => q[i] # <<>> \/ ~w.breaker_open
    /\ original[i] # NoLimit => q[i] # <<>> \/ w.limit = Limited(original[i])
    /\ Faults[i].kind = "partition" =>
         \A p \in Range(affected[i]) \cap w.partitioned :
           p \in before.partitioned \/ \E k \in 1..Len(q[i]) : q[i][k].on = p

\* Who was acted on had been listed.
TouchedListed ==
  IF stage = "steady" THEN touched = {}
  ELSE \A p \in touched : \E i \in DOMAIN Faults : Faults[i].kind \in OnPods /\ p \in Range(affected[i])

InjectorsInv ==
  /\ InjectorsTypeOK /\ CallsPlanned /\ TouchedListed
  /\ Busy => Confined(world)
  /\ stage \in {"clearing", "cleared"} /\ refused = 0 => Undone(world, calls)

\* The table of scenarios: one fault, or two on servers.
LEMMA FaultsKnown ==
  ASSUME scenario \in 1..Len(Suite)
  PROVE  \/ \E f \in [kind : OnServers, on : Servers] : Faults = <<f>>
         \/ \E f, g \in [kind : OnServers, on : Servers] : Faults = <<f, g>>
         \/ \E f \in [kind : OnPods, on : {"pods"}] : Faults = <<f>>
         \/ Faults = <<[kind |-> "outage", on |-> "gateway"]>>
         \/ Faults = <<[kind |-> "gpu", on |-> "device"]>>
<1> DEFINE F(k, o) == [kind |-> k, on |-> o]
           S == [kind : OnServers, on : Servers]
           P == [kind : OnPods, on : {"pods"}]
<1>1. Suite[scenario] \in Names /\ Victim \in Servers /\ Victim2 \in Servers
  <2>1. Suite \in Seq(Names) /\ {Victim, Victim2} \subseteq Servers
    BY InjectorsAssumption
  <2> QED
    BY <2>1
<1>2. /\ F("throttle", Victim) \in S /\ F("pause", Victim) \in S /\ F("errors", Victim) \in S
      /\ F("errors", Victim2) \in S /\ F("full_speed", Victim) \in S
      /\ F("kill", "pods") \in P /\ F("partition", "pods") \in P
  BY <1>1 DEF OnServers, OnPods
<1>3. CASE Suite[scenario] = "partition"
  <2>1. Faults = <<F("partition", "pods")>>
    BY <1>3 DEF Faults, Fault
  <2> HIDE DEF F, S
  <2> QED
    BY <1>2, <2>1
<1>4. CASE Suite[scenario] = "gray_failure"
  <2>1. Faults = <<F("throttle", Victim)>>
    BY <1>4 DEF Faults, Fault, SCENARIOS
  <2> HIDE DEF F, P
  <2> QED
    BY <1>2, <2>1
<1>5. CASE Suite[scenario] = "replica_kill"
  <2>1. Faults = <<IF Namespace THEN F("kill", "pods") ELSE F("pause", Victim)>>
    BY <1>5 DEF Faults, Fault, SCENARIOS
  <2>2. CASE Namespace
    <3>1. Faults = <<F("kill", "pods")>>
      BY <2>1, <2>2
    <3> HIDE DEF F, S
    <3> QED
      BY <1>2, <3>1
  <2>3. CASE ~Namespace
    <3>1. Faults = <<F("pause", Victim)>>
      BY <2>1, <2>3
    <3> HIDE DEF F, P
    <3> QED
      BY <1>2, <3>1
  <2> QED
    BY <2>2, <2>3
<1>6. CASE Suite[scenario] = "error_storm"
  <2>1. Faults = <<F("errors", Victim)>>
    BY <1>6 DEF Faults, Fault, SCENARIOS
  <2> HIDE DEF F, P
  <2> QED
    BY <1>2, <2>1
<1>7. CASE Suite[scenario] = "provider_outage"
  BY <1>7 DEF Faults, Fault, SCENARIOS
<1>8. CASE Suite[scenario] = "traffic_spike"
  <2>1. Faults = <<F("full_speed", Victim)>>
    BY <1>8 DEF Faults, Fault, SCENARIOS
  <2> HIDE DEF F, P
  <2> QED
    BY <1>2, <2>1
<1>9. CASE Suite[scenario] = "gpu_throttle"
  BY <1>9 DEF Faults, Fault, SCENARIOS
<1>10. CASE Suite[scenario] = "correlated"
  <2>1. Faults = <<F("throttle", Victim), F("errors", Victim2)>>
    BY <1>10 DEF Faults, Fault, SCENARIOS
  <2> HIDE DEF F, P
  <2> QED
    BY <1>2, <2>1
<1> QED
  BY <1>1, <1>3, <1>4, <1>5, <1>6, <1>7, <1>8, <1>9, <1>10 DEF Names

LEMMA FaultsAre ==
  ASSUME scenario \in 1..Len(Suite), NEW i \in DOMAIN Faults
  PROVE  /\ Faults[i].kind \in OnServers \cup OnPods \cup {"outage", "gpu"}
         /\ Faults[i].kind \in OnServers => Faults[i].on \in Servers
         /\ Faults[i].kind = "outage" => Faults[i].on = "gateway"
         /\ Faults[i].kind = "gpu" => Faults[i].on = "device"
         /\ Faults[i].kind \in OnPods => DOMAIN Faults = {i}
<1> DEFINE Is(f) ==
         /\ f.kind \in OnServers \cup OnPods \cup {"outage", "gpu"}
         /\ f.kind \in OnServers => f.on \in Servers
         /\ f.kind = "outage" => f.on = "gateway"
         /\ f.kind = "gpu" => f.on = "device"
<1>1. \A f \in [kind : OnServers, on : Servers] : Is(f) /\ f.kind \notin OnPods
  BY DEF OnServers, OnPods
<1>2. \A f \in [kind : OnPods, on : {"pods"}] : Is(f)
  BY DEF OnServers, OnPods
<1>3. Is([kind |-> "outage", on |-> "gateway"]) /\ Is([kind |-> "gpu", on |-> "device"])
  BY DEF OnServers, OnPods
<1> HIDE DEF Is
<1>4. Is(Faults[i]) /\ (Faults[i].kind \in OnPods => DOMAIN Faults = {i})
  <2>1. CASE \E f \in [kind : OnServers, on : Servers] : Faults = <<f>>
    BY <1>1, <2>1
  <2>2. CASE \E f, g \in [kind : OnServers, on : Servers] : Faults = <<f, g>>
    <3>1. PICK f \in [kind : OnServers, on : Servers], g \in [kind : OnServers, on : Servers] : Faults = <<f, g>>
      BY <2>2
    <3>2. Faults[i] = f \/ Faults[i] = g
      BY <3>1
    <3> QED
      BY <1>1, <3>2
  <2>3. CASE \E f \in [kind : OnPods, on : {"pods"}] : Faults = <<f>>
    <3>1. PICK f \in [kind : OnPods, on : {"pods"}] : Faults = <<f>>
      BY <2>3
    <3>2. Faults[i] = f /\ DOMAIN Faults = {i}
      BY <3>1
    <3> QED
      BY <1>2, <3>2
  <2>4. CASE Faults = <<[kind |-> "outage", on |-> "gateway"]>>
    BY <1>3, <2>4
  <2>5. CASE Faults = <<[kind |-> "gpu", on |-> "device"]>>
    BY <1>3, <2>5
  <2> QED
    BY <2>1, <2>2, <2>3, <2>4, <2>5, FaultsKnown
<1> QED
  BY <1>4 DEF Is

-----------------------------------------------------------------------------
\* What a call changes, field by field.
EffectIs(c, w) ==
  /\ w.faults = CASE c.do = "fault" -> [world.faults EXCEPT ![c.on] = @ \cup {c.with}]
                  [] c.do = "relieve" -> [world.faults EXCEPT ![c.on] = @ \ {c.with}]
                  [] c.do = "heal" -> [world.faults EXCEPT ![c.on] = {}]
                  [] OTHER -> world.faults
  /\ w.breaker_open = (c.do = "open" \/ (c.do # "close" /\ world.breaker_open))
  /\ w.present = IF c.do = "delete" THEN world.present \ {c.on} ELSE world.present
  /\ w.partitioned = CASE c.do \in {"delete", "unlabel"} -> world.partitioned \ {c.on}
                       [] c.do = "label" -> world.partitioned \cup ({c.on} \cap world.present)
                       [] OTHER -> world.partitioned
  /\ w.limit = IF c.do = "limit" THEN c.with ELSE world.limit
  /\ w = [faults |-> w.faults, breaker_open |-> w.breaker_open, present |-> w.present,
          partitioned |-> w.partitioned, limit |-> w.limit]

LEMMA EffectFields ==
  ASSUME world \in Worlds, NEW c, c.do \in Applying \cup Clearing
  PROVE  EffectIs(c, Effect(c))
<1>0. /\ world = [faults |-> world.faults, breaker_open |-> world.breaker_open, present |-> world.present,
                  partitioned |-> world.partitioned, limit |-> world.limit]
      /\ world.breaker_open \in BOOLEAN
  BY DEF Worlds
<1>1. CASE c.do = "fault"
  BY <1>0, <1>1 DEF Effect, EffectIs
<1>2. CASE c.do = "relieve"
  BY <1>0, <1>2 DEF Effect, EffectIs
<1>3. CASE c.do = "heal"
  BY <1>0, <1>3 DEF Effect, EffectIs
<1>4. CASE c.do = "open"
  BY <1>0, <1>4 DEF Effect, EffectIs
<1>5. CASE c.do = "close"
  BY <1>0, <1>5 DEF Effect, EffectIs
<1>6. CASE c.do = "delete"
  BY <1>0, <1>6 DEF Effect, EffectIs
<1>7. CASE c.do = "label"
  BY <1>0, <1>7 DEF Effect, EffectIs
<1>8. CASE c.do = "unlabel"
  BY <1>0, <1>8 DEF Effect, EffectIs
<1>9. CASE c.do = "limit"
  BY <1>0, <1>9 DEF Effect, EffectIs
<1> QED
  BY <1>1, <1>2, <1>3, <1>4, <1>5, <1>6, <1>7, <1>8, <1>9 DEF Applying, Clearing

LEMMA EffectIsWorld ==
  ASSUME world \in Worlds, scenario \in 1..Len(Suite), NEW i \in DOMAIN Faults, NEW c \in Calls, Legit(i, c)
  PROVE  Effect(c) \in Worlds
<1> DEFINE w == Effect(c)
           Kinds == {"throttle", "pause", "errors"}
<1>1. EffectIs(c, w) /\ c.do \in Applying \cup Clearing
  <2>1. c.do \in Applying \cup Clearing
    BY DEF Calls
  <2> QED
    BY <2>1, EffectFields
<1>2. /\ world.faults \in [Servers -> SUBSET Kinds] /\ world.breaker_open \in BOOLEAN
      /\ world.present \subseteq Pods /\ world.partitioned \subseteq Pods /\ world.limit \in Nat
  BY DEF Worlds
<1>3. c.do \in {"fault", "relieve", "heal"} => c.on \in Servers
  BY FaultsAre DEF Legit
<1>4. /\ c.do = "fault" => c.with \in Kinds
      /\ c.do = "limit" => c.with \in Nat
  BY DEF Legit
<1> HIDE DEF w, Kinds
<1>5. w.faults \in [Servers -> SUBSET Kinds]
  <2>1. CASE c.do = "fault"
    BY <1>1, <1>2, <1>3, <1>4, <2>1 DEF EffectIs
  <2>2. CASE c.do = "relieve"
    BY <1>1, <1>2, <1>3, <2>2 DEF EffectIs
  <2>3. CASE c.do = "heal"
    BY <1>1, <1>2, <1>3, <2>3 DEF EffectIs
  <2>4. CASE c.do \notin {"fault", "relieve", "heal"}
    BY <1>1, <1>2, <2>4 DEF EffectIs
  <2> QED
    BY <2>1, <2>2, <2>3, <2>4
<1>6. w.breaker_open \in BOOLEAN
  BY <1>1, <1>2 DEF EffectIs
<1>7. w.present \subseteq Pods /\ w.partitioned \subseteq Pods
  BY <1>1, <1>2 DEF EffectIs
<1>8. w.limit \in Nat
  BY <1>1, <1>2, <1>4 DEF EffectIs
<1>9. w = [faults |-> w.faults, breaker_open |-> w.breaker_open, present |-> w.present,
           partitioned |-> w.partitioned, limit |-> w.limit]
  BY <1>1 DEF EffectIs
<1>10. w \in Worlds
  BY <1>5, <1>6, <1>7, <1>8, <1>9 DEF Worlds, Kinds
<1> QED
  BY <1>10 DEF w

LEMMA EffectConfined ==
  ASSUME world \in Worlds, scenario \in 1..Len(Suite), NEW i \in DOMAIN Faults, NEW c \in Calls, Legit(i, c),
         stage \in {"applying", "clearing"}, Confined(world)
  PROVE  Confined(Effect(c))
<1> DEFINE w == Effect(c)
<1>1. EffectIs(c, w) /\ c.do \in Applying \cup Clearing
  <2>1. c.do \in Applying \cup Clearing
    BY DEF Calls
  <2> QED
    BY <2>1, EffectFields
<1>2. world.faults \in [Servers -> SUBSET {"throttle", "pause", "errors"}] /\ world.partitioned \subseteq Pods
  BY DEF Worlds
<1> HIDE DEF w
<1>3. ASSUME NEW s \in Servers
      PROVE  \/ w.faults[s] \subseteq before.faults[s]
             \/ \E j \in DOMAIN Faults : Faults[j].kind \in OnServers /\ Faults[j].on = s
  <2>1. CASE c.do \in {"fault", "relieve", "heal"} /\ c.on = s
    BY <2>1 DEF Legit
  <2>2. CASE ~(c.do \in {"fault", "relieve", "heal"} /\ c.on = s)
    <3>1. w.faults[s] = world.faults[s]
      BY <1>1, <1>2, <2>2 DEF EffectIs
    <3> QED
      BY <3>1 DEF Confined
  <2> QED
    BY <2>1, <2>2
<1>4. w.limit = before.limit \/ \E j \in DOMAIN Faults : original[j] # NoLimit
  BY <1>1 DEF EffectIs, Legit, Confined
<1>5. ASSUME NEW p \in w.partitioned
      PROVE  p \in before.partitioned \/ \E j \in DOMAIN Faults : Faults[j].kind = "partition" /\ p \in Range(affected[j])
  <2>1. CASE p \in world.partitioned
    BY <2>1 DEF Confined
  <2>2. CASE p \notin world.partitioned
    <3>1. c.do = "label" /\ p = c.on
      BY <1>1, <1>5, <2>2 DEF EffectIs
    <3> QED
      BY <3>1 DEF Legit
  <2> QED
    BY <2>1, <2>2
<1>6. w.breaker_open => before.breaker_open \/ \E j \in DOMAIN Faults : Faults[j].kind = "outage"
  <2>1. CASE c.do = "open"
    BY <2>1 DEF Legit
  <2>2. CASE c.do # "open"
    BY <1>1, <2>2 DEF EffectIs, Confined
  <2> QED
    BY <2>1, <2>2
<1>7. Confined(w)
  BY <1>3, <1>4, <1>5, <1>6 DEF Confined
<1> QED
  BY <1>7 DEF w

\* A call that clears takes away what its fault had left, and nothing comes back.
LEMMA EffectUndoes ==
  ASSUME InjectorsTypeOK, CallsPlanned, stage = "clearing", Undone(world, calls),
         NEW i \in DOMAIN Faults, calls[i] # <<>>
  PROVE  Undone(Effect(Head(calls[i])), [calls EXCEPT ![i] = Tail(@)])
<1> DEFINE c == Head(calls[i])
           w == Effect(c)
           q == [calls EXCEPT ![i] = Tail(@)]
<1>1. /\ DOMAIN calls = DOMAIN Faults /\ world \in Worlds /\ scenario \in 1..Len(Suite)
      /\ calls[i] \in Seq(Calls) /\ \A k \in 1..Len(calls[i]) : Legit(i, calls[i][k])
      /\ \A j \in DOMAIN Faults : original[j] # NoLimit => original[j] = WholeWatts(before.limit)
  BY DEF InjectorsTypeOK, CallsPlanned
<1>2. c \in Calls /\ Legit(i, c) /\ c = calls[i][1] /\ Tail(calls[i]) \in Seq(Calls)
      /\ Len(calls[i]) \in Nat /\ Len(Tail(calls[i])) = Len(calls[i]) - 1
      /\ \A k \in 1..Len(Tail(calls[i])) : Tail(calls[i])[k] = calls[i][k + 1]
  BY <1>1
<1>3. c.do \in Clearing /\ (c.do = "limit" => c.with = Limited(original[i]))
      /\ (c.do = "heal" => Faults[i].kind \in OnServers /\ c.on = Faults[i].on)
      /\ (c.do = "close" => Faults[i].kind = "outage")
      /\ (c.do = "unlabel" => Faults[i].kind \in OnPods)
      /\ (c.do = "limit" => original[i] # NoLimit)
  BY <1>2 DEF Legit
<1>4. EffectIs(c, w)
  <2>1. c.do \in Applying \cup Clearing
    BY <1>3
  <2> QED
    BY <1>1, <2>1, EffectFields
<1>5. q[i] = Tail(calls[i]) /\ \A j \in DOMAIN Faults : j # i => q[j] = calls[j]
  BY <1>1
<1>6. world.faults \in [Servers -> SUBSET {"throttle", "pause", "errors"}]
  BY <1>1 DEF Worlds
<1> HIDE DEF c, w, q
<1> SUFFICES ASSUME NEW j \in DOMAIN Faults
             PROVE  /\ Faults[j].kind \in OnServers => q[j] # <<>> \/ w.faults[Faults[j].on] = {}
                    /\ Faults[j].kind = "outage" => q[j] # <<>> \/ ~w.breaker_open
                    /\ original[j] # NoLimit => q[j] # <<>> \/ w.limit = Limited(original[j])
                    /\ Faults[j].kind = "partition" =>
                         \A p \in Range(affected[j]) \cap w.partitioned :
                           p \in before.partitioned \/ \E k \in 1..Len(q[j]) : q[j][k].on = p
  BY DEF Undone, q, w, c
<1>7. /\ Faults[i].kind \in OnServers => Faults[i].on \in Servers
      /\ Faults[j].kind \in OnServers => Faults[j].on \in Servers
      /\ Faults[i].kind \in OnServers \cup OnPods \cup {"outage", "gpu"}
      /\ Faults[j].kind \in OnPods => j = i
      /\ original[i] # NoLimit => Faults[i].kind = "gpu"
  BY <1>1, FaultsAre DEF CallsPlanned
<1>8. c.do \in {"heal", "close", "unlabel", "limit"}
  BY <1>3 DEF Clearing
<1>9. ASSUME Faults[j].kind \in OnServers PROVE q[j] # <<>> \/ w.faults[Faults[j].on] = {}
  <2>1. CASE c.do = "heal" /\ c.on = Faults[j].on
    BY <1>4, <1>6, <1>7, <1>9, <2>1 DEF EffectIs
  <2>2. CASE ~(c.do = "heal" /\ c.on = Faults[j].on)
    <3>1. w.faults[Faults[j].on] = world.faults[Faults[j].on]
      BY <1>4, <1>6, <1>7, <1>8, <1>9, <2>2 DEF EffectIs
    <3>2. j # i
      <4> SUFFICES ASSUME j = i PROVE FALSE
        OBVIOUS
      <4>1. Faults[i].kind \in OnServers
        BY <1>9
      <4>2. Faults[i].kind # "outage" /\ Faults[i].kind # "gpu" /\ Faults[i].kind \notin OnPods
        BY <4>1 DEF OnServers, OnPods
      <4>3. c.do = "heal" /\ c.on = Faults[i].on
        BY <1>3, <1>7, <1>8, <4>2
      <4> QED
        BY <2>2, <4>3
    <3> QED
      BY <1>5, <1>9, <3>1, <3>2 DEF Undone
  <2> QED
    BY <2>1, <2>2
<1>10. ASSUME Faults[j].kind = "outage" PROVE q[j] # <<>> \/ ~w.breaker_open
  <2>1. CASE c.do = "close"
    BY <1>4, <2>1 DEF EffectIs
  <2>2. CASE c.do # "close"
    <3>1. w.breaker_open => world.breaker_open
      <4>1. w.breaker_open = (c.do = "open" \/ (c.do # "close" /\ world.breaker_open)) /\ c.do # "open"
        BY <1>4, <1>8 DEF EffectIs
      <4> QED
        BY <4>1
    <3>2. j # i
      BY <1>3, <1>7, <1>8, <1>10, <2>2 DEF OnServers, OnPods
    <3>3. q[j] = calls[j]
      BY <1>5, <3>2
    <3>4. calls[j] # <<>> \/ ~world.breaker_open
      BY <1>10 DEF Undone
    <3> QED
      BY <3>1, <3>3, <3>4
  <2> QED
    BY <2>1, <2>2
<1>11. ASSUME original[j] # NoLimit PROVE q[j] # <<>> \/ w.limit = Limited(original[j])
  <2>1. CASE c.do = "limit"
    BY <1>1, <1>3, <1>4, <1>11, <2>1 DEF EffectIs
  <2>2. CASE c.do # "limit"
    <3>1. w.limit = world.limit
      BY <1>4, <2>2 DEF EffectIs
    <3>2. Faults[j].kind = "gpu"
      BY <1>11 DEF CallsPlanned
    <3>3. j # i
      BY <1>3, <1>8, <2>2, <3>2 DEF OnServers, OnPods
    <3> QED
      BY <1>5, <1>11, <3>1, <3>3 DEF Undone
  <2> QED
    BY <2>1, <2>2
<1>12. ASSUME Faults[j].kind = "partition", NEW p \in Range(affected[j]) \cap w.partitioned
       PROVE  p \in before.partitioned \/ \E k \in 1..Len(q[j]) : q[j][k].on = p
  <2>1. j = i
    BY <1>7, <1>12 DEF OnPods
  <2>2. c.do = "unlabel"
    BY <1>3, <1>7, <1>8, <1>12, <2>1 DEF OnServers, OnPods
  <2>3. p \in world.partitioned /\ p # c.on
    BY <1>4, <1>12, <2>2 DEF EffectIs
  <2>4. CASE p \in before.partitioned
    BY <2>4
  <2>5. CASE \E k \in 1..Len(calls[j]) : calls[j][k].on = p
    <3>1. PICK k \in 1..Len(calls[i]) : calls[i][k].on = p
      BY <2>1, <2>5
    <3>2. k # 1
      BY <1>2, <2>3, <3>1
    <3>3. k - 1 \in 1..Len(Tail(calls[i])) /\ Tail(calls[i])[k - 1] = calls[i][k]
      BY <1>2, <3>2
    <3>4. k - 1 \in 1..Len(q[j]) /\ q[j][k - 1].on = p
      BY <1>5, <2>1, <3>1, <3>3
    <3> QED
      BY <3>4
  <2> QED
    BY <1>12, <2>3, <2>4, <2>5 DEF Undone
<1> QED
  BY <1>9, <1>10, <1>11, <1>12
-----------------------------------------------------------------------------
LEMMA SameFaults == scenario' = scenario => Faults' = Faults
BY DEF Faults, SCENARIOS, Fault

\* kubectl's answer names no more than max_pods pods.
LEMMA ListingIs ==
  ASSUME world \in Worlds, NEW ps \in Listing
  PROVE  ps \in Seq(Pods) /\ Len(ps) <= MaxPods
<1> DEFINE n == Cardinality(world.present)
           up == world.present
<1>1. up \subseteq Pods /\ IsFiniteSet(Pods) /\ MaxPods \in Nat
  BY InjectorsAssumption DEF Worlds
<1>2. n \in Nat
  <2>1. IsFiniteSet(up)
    BY <1>1, FS_Subset
  <2> QED
    BY <2>1, FS_CardinalityType
<1>3. PICK t \in [1..n -> up] : ps = SubSeq(t, 1, Min({MaxPods, Len(t)}))
  BY DEF Listing, SetToSeqs
<1> HIDE DEF n, up
<1>4. t \in Seq(Pods) /\ Len(t) = n
  BY <1>1, <1>2, <1>3
<1> DEFINE m == Min({MaxPods, Len(t)})
<1>5. m \in Nat /\ m <= MaxPods /\ m <= n
  <2>1. \E x \in {MaxPods, n} : \A y \in {MaxPods, n} : x <= y
    BY <1>1, <1>2
  <2>2. m \in {MaxPods, n} /\ \A y \in {MaxPods, n} : m <= y
    BY <1>4, <2>1 DEF Min
  <2> QED
    BY <1>1, <1>2, <2>2
<1> HIDE DEF m
<1>6. ps = SubSeq(t, 1, m)
  BY <1>3 DEF m
<1> QED
  BY <1>1, <1>4, <1>5, <1>6

LEMMA EachOfIs ==
  ASSUME NEW do \in {"delete", "label", "unlabel"}, NEW pods \in Seq(Pods)
  PROVE  /\ EachOf(do, pods) \in Seq(Calls) /\ Len(EachOf(do, pods)) = Len(pods)
         /\ \A k \in 1..Len(pods) : EachOf(do, pods)[k] = Ask(do, pods[k], "") /\ pods[k] \in Range(pods)
<1>1. ASSUME NEW p \in Pods PROVE Ask(do, p, "") \in Calls
  BY DEF Ask, Calls, Applying, Clearing
<1>2. EachOf(do, pods) = [k \in 1..Len(pods) |-> Ask(do, pods[k], "")] /\ DOMAIN pods = 1..Len(pods)
  BY DEF EachOf
<1>3. \A k \in 1..Len(pods) : Ask(do, pods[k], "") \in Calls
  <2>1. \A k \in 1..Len(pods) : pods[k] \in Pods
    OBVIOUS
  <2> QED
    BY <1>1, <2>1
<1> DEFINE a(k) == Ask(do, pods[k], "")
           q == [k \in 1..Len(pods) |-> a(k)]
<1>4. Len(pods) \in Nat /\ \A k \in 1..Len(pods) : pods[k] \in Range(pods)
  BY DEF Range
<1> HIDE DEF a
<1>5. q \in Seq(Calls) /\ Len(q) = Len(pods) /\ \A k \in 1..Len(pods) : q[k] = a(k)
  <2>1. \A k \in 1..Len(pods) : a(k) \in Calls
    BY <1>3 DEF a
  <2> QED
    BY <1>4, <2>1
<1>6. EachOf(do, pods) = q
  BY <1>2 DEF a
<1> HIDE DEF q
<1> QED
  BY <1>4, <1>5, <1>6 DEF a

LEMMA InjectorsStart == InjectorsInit => InjectorsInv
<1> SUFFICES ASSUME InjectorsInit PROVE InjectorsInv
  OBVIOUS
<1>1. Len(Suite) \in Nat /\ 1 <= Len(Suite)
  BY InjectorsAssumption
<1>2. world \in Worlds
  <2>1. PowerLimits \subseteq Nat
    BY InjectorsAssumption
  <2> QED
    BY <2>1 DEF InjectorsInit, Worlds
<1>3. InjectorsTypeOK /\ CallsPlanned /\ TouchedListed /\ stage = "steady"
  BY <1>1, <1>2 DEF InjectorsInit, InjectorsTypeOK, CallsPlanned, TouchedListed
<1> QED
  BY <1>3 DEF InjectorsInv, Busy

\* What a fault does to start and to end are calls it may make.
LEMMA CallsToApply ==
  ASSUME InjectorsTypeOK, scenario' = scenario, stage' = "applying", NEW pods \in Seq(Pods), NEW read,
         NEW i \in DOMAIN Faults,
         affected'[i] = IF Faults[i].kind \in OnPods THEN pods ELSE <<>>,
         original'[i] = IF Faults[i].kind = "gpu" THEN read ELSE NoLimit,
         NEW q, q = ApplyCalls(Faults[i], pods, read)
  PROVE  q \in Seq(Calls) /\ \A k \in 1..Len(q) : Legit(i, q[k])'
<1> DEFINE Is(r) == r \in Seq(Calls) /\ \A k \in 1..Len(r) : Legit(i, r[k])'
<1>0. PICK f : f = Faults[i]
  OBVIOUS
<1>1. Faults' = Faults /\ (f.kind \in OnServers => f.on \in Servers) /\ (f.kind = "gpu" => f.on = "device")
      /\ (f.kind = "outage" => f.on = "gateway") /\ f.kind \in OnServers \cup OnPods \cup {"outage", "gpu"}
  <2>1. scenario \in 1..Len(Suite)
    BY DEF InjectorsTypeOK
  <2> QED
    BY <1>0, <2>1, SameFaults, FaultsAre
<1>2. ASSUME NEW c, c \in Calls, Legit(i, c)' PROVE Is(<<c>>)
  BY <1>2, OneElement
<1>3. Is(<<>>)
  OBVIOUS
<1> HIDE DEF Is
<1>4. CASE f.kind \in {"throttle", "pause", "errors"}
  <2>0. PICK c : c = Ask("fault", f.on, f.kind)
    OBVIOUS
  <2>1. c \in Calls
    BY <1>0, <1>1, <1>4, <2>0 DEF Ask, Calls, Applying, Clearing, OnServers
  <2>2. Legit(i, c)'
    BY <1>0, <1>1, <1>4, <2>0 DEF Legit, Ask, Applying, Clearing, OnServers
  <2>3. q = <<c>>
    BY <1>0, <1>4, <2>0 DEF ApplyCalls
  <2> QED
    BY <1>0, <1>2, <2>1, <2>2, <2>3 DEF Is
<1>5. CASE f.kind = "full_speed"
  <2>0. PICK c : c = Ask("relieve", f.on, "throttle")
    OBVIOUS
  <2>1. c \in Calls
    BY <1>0, <1>1, <1>5, <2>0 DEF Ask, Calls, Applying, Clearing, OnServers
  <2>2. Legit(i, c)'
    BY <1>0, <1>1, <1>5, <2>0 DEF Legit, Ask, Applying, Clearing, OnServers
  <2>3. q = <<c>>
    BY <1>0, <1>5, <2>0 DEF ApplyCalls
  <2> QED
    BY <1>0, <1>2, <2>1, <2>2, <2>3 DEF Is
<1>6. CASE f.kind = "outage"
  <2>0. PICK c : c = Ask("open", f.on, "")
    OBVIOUS
  <2>1. c \in Calls
    BY <1>0, <1>1, <1>6, <2>0 DEF Ask, Calls, Applying, Clearing
  <2>2. Legit(i, c)'
    BY <1>0, <1>1, <1>6, <2>0 DEF Legit, Ask, Applying, Clearing
  <2>3. q = <<c>>
    BY <1>0, <1>6, <2>0 DEF ApplyCalls
  <2> QED
    BY <1>0, <1>2, <2>1, <2>2, <2>3 DEF Is
<1>7. CASE f.kind \in OnPods
  <2>1. PICK do \in {"delete", "label"} : q = EachOf(do, pods) /\ (do = "label" => f.kind = "partition")
    BY <1>0, <1>7 DEF ApplyCalls, OnPods
  <2>2. affected'[i] = pods /\ f.kind = Faults'[i].kind
    BY <1>0, <1>1, <1>7
  <2>3. ASSUME NEW k \in 1..Len(pods) PROVE Legit(i, q[k])'
    <3>0. PICK c : c = Ask(do, pods[k], "")
      OBVIOUS
    <3>1. c.do = do /\ c.on = pods[k] /\ pods[k] \in Range(pods) /\ EachOf(do, pods)[k] = c
      BY <1>0, EachOfIs, <3>0 DEF Ask
    <3>2. Range(affected[i])' = Range(pods) /\ c.on \in Range(pods)
      BY <1>0, <2>2, <3>1 DEF Range
    <3>3. Legit(i, c)'
      BY <1>0, <1>1, <1>7, <2>1, <3>1, <3>2, <3>0 DEF Legit, Applying
    <3> QED
      BY <2>1, <3>1, <3>3
  <2>4. EachOf(do, pods) \in Seq(Calls) /\ Len(EachOf(do, pods)) = Len(pods)
    BY EachOfIs
  <2> QED
    BY <2>1, <2>3, <2>4 DEF Is
<1>8. CASE f.kind = "gpu"
  <2>1. CASE read = NoLimit
    BY <1>0, <1>3, <1>8, <2>1 DEF ApplyCalls, Is
  <2>2. CASE read # NoLimit
    <3>0. PICK c : c = Ask("limit", f.on, Limited(Watts))
      OBVIOUS
    <3>4. Limited(Watts) \in Nat
      BY InjectorsAssumption DEF Limited
    <3>1. c \in Calls
      BY <1>0, <1>1, <1>8, <3>0, <3>4 DEF Ask, Calls, Applying, Clearing
    <3>2. Legit(i, c)'
      BY <1>0, <1>1, <1>8, <2>2, <3>0, <3>4 DEF Legit, Ask, Applying, Clearing
    <3>3. q = <<c>>
      BY <1>0, <1>8, <2>2, <3>0 DEF ApplyCalls
    <3> QED
      BY <1>0, <1>2, <3>1, <3>2, <3>3 DEF Is
  <2> QED
    BY <2>1, <2>2
<1> QED
  BY <1>0, <1>1, <1>4, <1>5, <1>6, <1>7, <1>8 DEF OnServers, Is

LEMMA CallsToClear ==
  ASSUME InjectorsTypeOK, CallsPlanned, stage = "faulty", stage' = "clearing",
         UNCHANGED <<scenario, affected, original, before>>, NEW i \in DOMAIN Faults,
         NEW q, q = ClearCalls(i)
  PROVE  q \in Seq(Calls) /\ \A k \in 1..Len(q) : Legit(i, q[k])'
<1> DEFINE Is(r) == r \in Seq(Calls) /\ \A k \in 1..Len(r) : Legit(i, r[k])'
<1>0. PICK f : f = Faults[i]
  OBVIOUS
<1>1. Faults' = Faults /\ (f.kind \in OnServers => f.on \in Servers) /\ (f.kind = "gpu" => f.on = "device")
      /\ (f.kind = "outage" => f.on = "gateway") /\ f.kind \in OnServers \cup OnPods \cup {"outage", "gpu"}
  <2>1. scenario \in 1..Len(Suite)
    BY DEF InjectorsTypeOK
  <2> QED
    BY <1>0, <2>1, SameFaults, FaultsAre
<1>2. ASSUME NEW c, c \in Calls, Legit(i, c)' PROVE Is(<<c>>)
  BY <1>2, OneElement
<1>3. Is(<<>>)
  OBVIOUS
<1> HIDE DEF Is
<1>4. CASE f.kind \in OnServers
  <2>0. PICK c : c = Ask("heal", f.on, "")
    OBVIOUS
  <2>1. c \in Calls
    BY <1>0, <1>1, <1>4, <2>0 DEF Ask, Calls, Applying, Clearing
  <2>2. Legit(i, c)'
    BY <1>0, <1>1, <1>4, <2>0 DEF Legit, Ask, Applying, Clearing
  <2>3. q = <<c>>
    BY <1>0, <1>4, <2>0 DEF ClearCalls, OnServers
  <2> QED
    BY <1>0, <1>2, <2>1, <2>2, <2>3 DEF Is
<1>5. CASE f.kind = "outage"
  <2>0. PICK c : c = Ask("close", f.on, "")
    OBVIOUS
  <2>1. c \in Calls
    BY <1>0, <1>1, <1>5, <2>0 DEF Ask, Calls, Applying, Clearing
  <2>2. Legit(i, c)'
    BY <1>0, <1>1, <1>5, <2>0 DEF Legit, Ask, Applying, Clearing
  <2>3. q = <<c>>
    BY <1>0, <1>5, <2>0 DEF ClearCalls
  <2> QED
    BY <1>0, <1>2, <2>1, <2>2, <2>3 DEF Is
<1>6. CASE f.kind = "partition"
  <2>1. ClearCalls(i) = EachOf("unlabel", affected[i])
    BY <1>0, <1>6 DEF ClearCalls, Restored
  <2>2. affected[i] \in Seq(Pods) /\ affected'[i] = affected[i]
    BY <1>0 DEF InjectorsTypeOK
  <2>3. ASSUME NEW k \in 1..Len(affected[i]) PROVE Legit(i, q[k])'
    <3>0. PICK c : c = Ask("unlabel", affected[i][k], "")
      OBVIOUS
    <3>1. c.do = "unlabel" /\ c.on = affected[i][k] /\ c.on \in Range(affected[i]) /\ EachOf("unlabel", affected[i])[k] = c
      BY <1>0, <2>2, EachOfIs, <3>0 DEF Ask
    <3>2. Range(affected[i])' = Range(affected[i])
      BY <1>0, <2>2 DEF Range
    <3>3. Legit(i, c)'
      BY <1>0, <1>1, <1>6, <3>1, <3>2, <3>0 DEF Legit, Clearing, OnPods
    <3> QED
      BY <2>1, <3>1, <3>3
  <2> QED
    BY <2>1, <2>2, <2>3, EachOfIs DEF Is
<1>7. CASE f.kind = "kill"
  BY <1>0, <1>3, <1>7 DEF ClearCalls, Is
<1>8. CASE f.kind = "gpu"
  <2>1. CASE original[i] = NoLimit
    BY <1>0, <1>3, <1>8, <2>1 DEF ClearCalls, Is
  <2>2. CASE original[i] # NoLimit
    <3>0. PICK c : c = Ask("limit", f.on, Limited(original[i]))
      OBVIOUS
    <3>4. Limited(original[i]) \in Nat /\ original'[i] = original[i]
      <4>1. PICK limit \in Nat : limit = before.limit
        BY DEF InjectorsTypeOK, Worlds
      <4>2. original[i] = limit \div 2
        BY <2>2, <4>1 DEF CallsPlanned, WholeWatts
      <4> QED
        BY <4>2 DEF Limited
    <3>1. c \in Calls
      BY <1>0, <1>1, <1>8, <3>0, <3>4 DEF Ask, Calls, Applying, Clearing
    <3>2. Legit(i, c)'
      BY <1>0, <1>1, <1>8, <2>2, <3>0, <3>4 DEF Legit, Ask, Applying, Clearing
    <3>3. q = <<c>>
      BY <1>0, <1>8, <2>2, <3>0 DEF ClearCalls
    <3> QED
      BY <1>0, <1>2, <3>1, <3>2, <3>3 DEF Is
  <2> QED
    BY <2>1, <2>2
<1> QED
  BY <1>0, <1>1, <1>4, <1>5, <1>6, <1>7, <1>8 DEF OnPods, Is

\* A step that leaves the plan alone leaves what a call may be.
LEMMA PlanStands ==
  ASSUME UNCHANGED <<scenario, stage, affected, original, before>>, NEW i, NEW c, Legit(i, c)
  PROVE  Legit(i, c)'
<1>1. Faults' = Faults
  BY SameFaults
<1>2. Range(affected[i])' = Range(affected[i])
  BY DEF Range
<1> QED
  BY <1>1, <1>2 DEF Legit

LEMMA InjectsKeeps == InjectorsInv /\ Injects => InjectorsInv'
<1> SUFFICES ASSUME InjectorsInv, Injects PROVE InjectorsInv'
  OBVIOUS
<1>1. PICK pods \in Listing, read \in {NoLimit, WholeWatts(world.limit)} :
        /\ affected' = [i \in DOMAIN Faults |-> IF Faults[i].kind \in {"kill", "partition"} THEN pods ELSE <<>>]
        /\ original' = [i \in DOMAIN Faults |-> IF Faults[i].kind = "gpu" THEN read ELSE NoLimit]
        /\ calls' = [i \in DOMAIN Faults |-> ApplyCalls(Faults[i], pods, read)]
  BY DEF Injects
<1>2. /\ InjectorsTypeOK /\ stage' = "applying" /\ before' = world /\ refused' = 0 /\ touched' = {}
      /\ UNCHANGED <<scenario, world, suites>> /\ Faults' = Faults /\ world \in Worlds
  BY SameFaults DEF Injects, InjectorsInv, InjectorsTypeOK
<1>3. pods \in Seq(Pods) /\ Len(pods) <= MaxPods /\ MaxPods \in Nat
  <2>1. pods \in Seq(Pods) /\ Len(pods) <= MaxPods
    BY <1>2, ListingIs
  <2> QED
    BY <2>1, InjectorsAssumption
<1>4. ASSUME NEW i \in DOMAIN Faults
      PROVE  /\ affected'[i] = IF Faults[i].kind \in OnPods THEN pods ELSE <<>>
             /\ original'[i] = IF Faults[i].kind = "gpu" THEN read ELSE NoLimit
             /\ calls'[i] = ApplyCalls(Faults[i], pods, read)
  BY <1>1 DEF OnPods
<1>5. ASSUME NEW i \in DOMAIN Faults
      PROVE  calls'[i] \in Seq(Calls) /\ \A k \in 1..Len(calls'[i]) : Legit(i, calls[i][k])'
  <2>1. PICK q : q = ApplyCalls(Faults[i], pods, read)
    OBVIOUS
  <2>2. q \in Seq(Calls) /\ \A k \in 1..Len(q) : Legit(i, q[k])'
    BY <1>2, <1>3, <1>4, <2>1, CallsToApply
  <2>3. calls'[i] = q
    BY <1>4, <2>1
  <2> QED
    BY <2>2, <2>3
<1>6. InjectorsTypeOK'
  <2>1. scenario' \in 1..Len(Suite) /\ world' \in Worlds /\ before' \in Worlds /\ refused' \in Nat
    BY <1>2 DEF InjectorsTypeOK, Worlds
  <2>2. DOMAIN calls' = DOMAIN Faults /\ DOMAIN affected' = DOMAIN Faults /\ DOMAIN original' = DOMAIN Faults
    BY <1>1
  <2>3. \A i \in DOMAIN Faults : affected'[i] \in Seq(Pods) /\ Len(affected'[i]) <= MaxPods
    <3>1. <<>> \in Seq(Pods) /\ Len(<<>>) = 0 /\ 0 <= MaxPods
      BY <1>3
    <3> QED
      BY <1>3, <1>4, <3>1
  <2> QED
    BY <1>2, <2>1, <2>2, <2>3 DEF InjectorsTypeOK, Worlds
<1>7. CallsPlanned'
  <2>1. \A i \in DOMAIN Faults : original'[i] # NoLimit => Faults[i].kind = "gpu" /\ original'[i] = WholeWatts(before'.limit)
    BY <1>2, <1>4
  <2> QED
    BY <1>2, <1>5, <2>1 DEF CallsPlanned
<1>8. TouchedListed'
  BY <1>2 DEF TouchedListed
<1>9. Confined(world)'
  BY <1>2 DEF Confined, Worlds
<1> QED
  BY <1>2, <1>6, <1>7, <1>8, <1>9 DEF InjectorsInv, Busy

LEMMA ReturnsKeeps ==
  ASSUME InjectorsInv, NEW i \in DOMAIN calls, calls[i] # <<>>, CallReturns(i), stage \in {"applying", "clearing"},
         UNCHANGED <<scenario, affected, original, suites, before>>
  PROVE  InjectorsInv'
<1> USE DEF Busy
<1>1. /\ InjectorsTypeOK /\ CallsPlanned /\ TouchedListed /\ scenario \in 1..Len(Suite) /\ world \in Worlds
      /\ i \in DOMAIN Faults /\ Faults' = Faults /\ stage' = stage /\ Confined(world)
      /\ calls[i] \in Seq(Calls) /\ \A k \in 1..Len(calls[i]) : Legit(i, calls[i][k])
      /\ DOMAIN calls = DOMAIN Faults
  BY SameFaults DEF InjectorsInv, InjectorsTypeOK, CallsPlanned, CallReturns
<1>2. PICK c : c = Head(calls[i])
  OBVIOUS
<1>3. /\ c \in Calls /\ Legit(i, c) /\ Tail(calls[i]) \in Seq(Calls)
      /\ Len(Tail(calls[i])) = Len(calls[i]) - 1 /\ Len(calls[i]) \in Nat
      /\ \A k \in 1..Len(Tail(calls[i])) : Tail(calls[i])[k] = calls[i][k + 1] /\ k + 1 \in 1..Len(calls[i])
  BY <1>1, <1>2
<1>4. /\ \/ world' = Effect(c) /\ UNCHANGED refused
         \/ refused' = refused + 1 /\ UNCHANGED world
      /\ calls' = [calls EXCEPT ![i] = Tail(@)]
      /\ touched' = (IF c.do \in {"label", "delete"} THEN touched \cup {c.on} ELSE touched)
  BY <1>2 DEF CallReturns
<1>5. /\ DOMAIN calls' = DOMAIN Faults /\ calls'[i] = Tail(calls[i])
      /\ \A j \in DOMAIN Faults : j # i => calls'[j] = calls[j]
  BY <1>1, <1>4
<1>6. world' \in Worlds /\ refused' \in Nat
  <2>1. Effect(c) \in Worlds
    BY <1>1, <1>3, EffectIsWorld
  <2>2. refused \in Nat
    BY <1>1 DEF InjectorsTypeOK
  <2> QED
    BY <1>1, <1>4, <2>1, <2>2
<1>7. InjectorsTypeOK'
  BY <1>1, <1>5, <1>6 DEF InjectorsTypeOK, Worlds
<1>8. CallsPlanned'
  <2>1. ASSUME NEW j \in DOMAIN Faults
        PROVE  calls'[j] \in Seq(Calls) /\ \A k \in 1..Len(calls'[j]) : Legit(j, calls[j][k])'
    <3>1. PICK q : q = calls'[j]
      OBVIOUS
    <3>2. q \in Seq(Calls) /\ \A k \in 1..Len(q) : Legit(j, q[k])
      <4>1. CASE j = i
        BY <1>1, <1>3, <1>5, <3>1, <4>1
      <4>2. CASE j # i
        BY <1>1, <1>5, <3>1, <4>2 DEF CallsPlanned
      <4> QED
        BY <4>1, <4>2
    <3>3. \A k \in 1..Len(q) : Legit(j, q[k])'
      BY <1>1, <3>2, PlanStands
    <3> QED
      BY <3>1, <3>2, <3>3
  <2> QED
    BY <1>1, <2>1 DEF CallsPlanned
<1>9. TouchedListed'
  <2> SUFFICES ASSUME NEW p \in touched'
               PROVE  \E j \in DOMAIN Faults : Faults[j].kind \in OnPods /\ p \in Range(affected[j])
    BY <1>1 DEF TouchedListed, Range
  <2>1. CASE p \in touched
    BY <1>1, <2>1 DEF TouchedListed
  <2>2. CASE p \notin touched
    <3>1. c.do \in {"label", "delete"} /\ p = c.on
      BY <1>4, <2>2
    <3>2. Faults[i].kind \in OnPods /\ c.on \in Range(affected[i])
      BY <1>3, <3>1 DEF Legit
    <3> QED
      BY <1>1, <3>1, <3>2
  <2> QED
    BY <2>1, <2>2
<1>10. Confined(world)'
  <2>1. \A w : Confined(w) => Confined(w)'
    BY <1>1 DEF Confined, Range
  <2>2. PICK w : w = world' /\ Confined(w)
    BY <1>1, <1>3, <1>4, EffectConfined
  <2>3. Confined(w)'
    BY <2>1, <2>2
  <2> QED
    BY <2>2, <2>3 DEF Confined
<1>11. ASSUME stage' \in {"clearing", "cleared"}, refused' = 0 PROVE Undone(world, calls)'
  <2>1. refused = 0 /\ stage = "clearing" /\ world' = Effect(c)
    <3>1. refused \in Nat
      BY <1>1 DEF InjectorsTypeOK
    <3> QED
      BY <1>1, <1>4, <1>11, <3>1
  <2>2. Undone(world, calls)
    BY <1>1, <2>1 DEF InjectorsInv
  <2>3. PICK w, q : w = world' /\ q = calls'
    OBVIOUS
  <2>4. Undone(w, q)
    BY <1>1, <1>2, <1>4, <2>1, <2>2, <2>3, EffectUndoes
  <2>5. Undone(w, q)'
    BY <1>1, <2>4 DEF Undone, Range
  <2> QED
    BY <2>3, <2>5 DEF Undone
<1> QED
  BY <1>1, <1>7, <1>8, <1>9, <1>10, <1>11 DEF InjectorsInv

LEMMA RaisesKeeps ==
  ASSUME InjectorsInv, NEW i \in DOMAIN calls, calls[i] # <<>>, CallRaises(i), stage \in {"applying", "clearing"},
         UNCHANGED <<scenario, affected, original, suites, before>>
  PROVE  InjectorsInv'
<1>1. /\ InjectorsTypeOK /\ CallsPlanned /\ TouchedListed /\ scenario \in 1..Len(Suite) /\ world \in Worlds
      /\ i \in DOMAIN Faults /\ Faults' = Faults
      /\ calls[i] \in Seq(Calls) /\ \A k \in 1..Len(calls[i]) : Legit(i, calls[i][k])
      /\ DOMAIN calls = DOMAIN Faults
  BY SameFaults DEF InjectorsInv, InjectorsTypeOK, CallsPlanned
<1>2. /\ world' \in {world, Effect(Head(calls[i]))} /\ stage' = "aborted" /\ calls' = [j \in DOMAIN calls |-> <<>>]
      /\ UNCHANGED <<refused, touched>>
  BY DEF CallRaises
<1>3. world' \in Worlds
  <2>1. PICK c : c = Head(calls[i])
    OBVIOUS
  <2>2. c \in Calls /\ Legit(i, c)
    BY <1>1, <2>1
  <2>3. Effect(c) \in Worlds
    BY <1>1, <2>2, EffectIsWorld
  <2> QED
    BY <1>1, <1>2, <2>1, <2>3
<1>4. InjectorsTypeOK'
  BY <1>1, <1>2, <1>3 DEF InjectorsTypeOK, Worlds
<1>5. CallsPlanned'
  <2>1. \A j \in DOMAIN Faults : calls'[j] = <<>>
    BY <1>1, <1>2
  <2> QED
    BY <1>1, <1>2, <2>1 DEF CallsPlanned
<1>6. TouchedListed'
  BY <1>1, <1>2 DEF TouchedListed, Range
<1> QED
  BY <1>2, <1>4, <1>5, <1>6 DEF InjectorsInv, Busy

LEMMA GathersKeeps == InjectorsInv /\ Gathers => InjectorsInv'
<1> SUFFICES ASSUME InjectorsInv, Gathers PROVE InjectorsInv'
  OBVIOUS
<1>1. /\ InjectorsTypeOK /\ CallsPlanned /\ TouchedListed /\ Faults' = Faults
      /\ stage \in {"applying", "clearing"} /\ \A i \in DOMAIN calls : calls[i] = <<>>
      /\ stage' = (IF stage = "applying" THEN "faulty" ELSE "cleared")
      /\ UNCHANGED <<scenario, calls, affected, original, world, suites, before, refused, touched>>
      /\ Confined(world) /\ DOMAIN calls = DOMAIN Faults
  BY SameFaults DEF InjectorsInv, InjectorsTypeOK, Gathers, Busy
<1>2. InjectorsTypeOK'
  BY <1>1 DEF InjectorsTypeOK, Worlds
<1>3. CallsPlanned'
  BY <1>1 DEF CallsPlanned
<1>4. TouchedListed'
  BY <1>1 DEF TouchedListed, Range
<1>5. Confined(world)'
  BY <1>1 DEF Confined, Range
<1>6. stage' \in {"clearing", "cleared"} /\ refused' = 0 => Undone(world, calls)'
  <2> SUFFICES ASSUME stage' = "cleared", refused = 0 PROVE Undone(world, calls)'
    BY <1>1
  <2>1. Undone(world, calls)
    BY <1>1 DEF InjectorsInv
  <2> QED
    BY <1>1, <2>1 DEF Undone, Range
<1> QED
  BY <1>2, <1>3, <1>4, <1>5, <1>6 DEF InjectorsInv

LEMMA ClearsKeeps == InjectorsInv /\ Clears => InjectorsInv'
<1> SUFFICES ASSUME InjectorsInv, Clears PROVE InjectorsInv'
  OBVIOUS
<1>1. /\ InjectorsTypeOK /\ CallsPlanned /\ TouchedListed /\ Faults' = Faults /\ scenario \in 1..Len(Suite)
      /\ stage = "faulty" /\ stage' = "clearing" /\ calls' = [i \in DOMAIN Faults |-> ClearCalls(i)]
      /\ UNCHANGED <<scenario, affected, original, world, suites, before, refused, touched>>
      /\ Confined(world)
  BY SameFaults DEF InjectorsInv, InjectorsTypeOK, Clears, Busy
<1>2. InjectorsTypeOK'
  BY <1>1 DEF InjectorsTypeOK, Worlds
<1>3. CallsPlanned'
  <2>1. ASSUME NEW i \in DOMAIN Faults
        PROVE  calls'[i] \in Seq(Calls) /\ \A k \in 1..Len(calls'[i]) : Legit(i, calls[i][k])'
    <3>1. PICK q : q = ClearCalls(i)
      OBVIOUS
    <3>2. q \in Seq(Calls) /\ \A k \in 1..Len(q) : Legit(i, q[k])'
      BY <1>1, <3>1, CallsToClear
    <3>3. calls'[i] = q
      BY <1>1, <3>1
    <3> QED
      BY <3>2, <3>3
  <2> QED
    BY <1>1, <2>1 DEF CallsPlanned
<1>4. TouchedListed'
  BY <1>1 DEF TouchedListed, Range
<1>5. Confined(world)'
  BY <1>1 DEF Confined, Range
<1>6. Undone(world, calls)'
  <2>1. ASSUME NEW j \in DOMAIN Faults
        PROVE  /\ Faults[j].kind \in OnServers => calls'[j] # <<>>
               /\ Faults[j].kind = "outage" => calls'[j] # <<>>
               /\ original[j] # NoLimit => calls'[j] # <<>>
               /\ Faults[j].kind = "partition" =>
                    \A p \in Range(affected[j]) : \E k \in 1..Len(calls'[j]) : calls'[j][k].on = p
    <3>1. calls'[j] = ClearCalls(j) /\ \A x : <<x>> # <<>>
      BY <1>1
    <3>2. ASSUME Faults[j].kind \in OnServers PROVE calls'[j] # <<>>
      <4>1. ClearCalls(j) = <<Ask("heal", Faults[j].on, "")>>
        BY <3>2 DEF ClearCalls, OnServers
      <4> QED
        BY <3>1, <4>1
    <3>3. ASSUME Faults[j].kind = "outage" PROVE calls'[j] # <<>>
      <4>1. ClearCalls(j) = <<Ask("close", Faults[j].on, "")>>
        BY <3>3 DEF ClearCalls
      <4> QED
        BY <3>1, <4>1
    <3>4. ASSUME original[j] # NoLimit PROVE calls'[j] # <<>>
      <4>1. Faults[j].kind = "gpu"
        BY <1>1, <3>4 DEF CallsPlanned
      <4>2. ClearCalls(j) = <<Ask("limit", Faults[j].on, Limited(original[j]))>>
        BY <3>4, <4>1 DEF ClearCalls
      <4> QED
        BY <3>1, <4>2
    <3>5. ASSUME Faults[j].kind = "partition", NEW p \in Range(affected[j])
          PROVE  \E k \in 1..Len(calls'[j]) : calls'[j][k].on = p
      <4>1. PICK q : q = calls'[j]
        OBVIOUS
      <4>2. q = EachOf("unlabel", affected[j]) /\ affected[j] \in Seq(Pods)
        BY <1>1, <3>1, <3>5, <4>1 DEF ClearCalls, Restored, InjectorsTypeOK
      <4>3. PICK k \in 1..Len(affected[j]) : p = affected[j][k]
        BY <3>5, <4>2 DEF Range
      <4>4. k \in 1..Len(q) /\ q[k] = Ask("unlabel", p, "")
        BY <4>2, <4>3, EachOfIs
      <4>5. q[k].on = p
        <5>1. PICK c : c = Ask("unlabel", p, "")
          OBVIOUS
        <5>2. c.on = p
          BY <5>1 DEF Ask
        <5> QED
          BY <4>4, <5>1, <5>2
      <4>6. \E l \in 1..Len(q) : q[l].on = p
        BY <4>4, <4>5
      <4> QED
        BY <4>1, <4>6
    <3> QED
      BY <3>2, <3>3, <3>4, <3>5
  <2>2. PICK aff, org, q, F : aff = affected' /\ org = original' /\ q = calls' /\ F = Faults'
    OBVIOUS
  <2>3. ASSUME NEW i \in DOMAIN F
        PROVE  /\ F[i].kind \in OnServers \/ F[i].kind = "outage" \/ org[i] # NoLimit => q[i] # <<>>
               /\ F[i].kind = "partition" =>
                    \A p \in Range(aff[i]) : \E k \in 1..Len(q[i]) : q[i][k].on = p
    <3>1. aff = affected /\ org = original /\ F = Faults
      BY <1>1, <2>2
    <3> QED
      BY <2>1, <2>2, <3>1
  <2>4. ASSUME NEW w
        PROVE  \A i \in DOMAIN F :
                 /\ F[i].kind \in OnServers => q[i] # <<>> \/ w.faults[F[i].on] = {}
                 /\ F[i].kind = "outage" => q[i] # <<>> \/ ~w.breaker_open
                 /\ org[i] # NoLimit => q[i] # <<>> \/ w.limit = Limited(org[i])
                 /\ F[i].kind = "partition" =>
                      \A p \in Range(aff[i]) \cap w.partitioned :
                        p \in before'.partitioned \/ \E k \in 1..Len(q[i]) : q[i][k].on = p
    BY <2>3
  <2> DEFINE B == before'
             W == world'
  <2>5. \A i \in DOMAIN F :
          /\ F[i].kind \in OnServers => q[i] # <<>> \/ W.faults[F[i].on] = {}
          /\ F[i].kind = "outage" => q[i] # <<>> \/ ~W.breaker_open
          /\ org[i] # NoLimit => q[i] # <<>> \/ W.limit = Limited(org[i])
          /\ F[i].kind = "partition" =>
               \A p \in Range(aff[i]) \cap W.partitioned :
                 p \in B.partitioned \/ \E k \in 1..Len(q[i]) : q[i][k].on = p
    BY <2>4
  <2> QED
    BY <2>2, <2>5 DEF Undone, Range
<1> QED
  BY <1>2, <1>3, <1>4, <1>5, <1>6 DEF InjectorsInv

LEMMA ContinueKeeps == InjectorsInv /\ Continue => InjectorsInv'
<1> SUFFICES ASSUME InjectorsInv, Continue PROVE InjectorsInv'
  OBVIOUS
<1>1. Len(Suite) \in Nat /\ 1 <= Len(Suite)
  BY InjectorsAssumption
<1>2. /\ stage' = "steady" /\ calls' = <<>> /\ touched' = {} /\ refused' = 0 /\ before' = world /\ world' = world
      /\ world \in Worlds /\ scenario' \in 1..Len(Suite)
  BY <1>1 DEF Continue, InjectorsInv, InjectorsTypeOK
<1> QED
  BY <1>2 DEF InjectorsInv, InjectorsTypeOK, CallsPlanned, TouchedListed, Busy, Worlds

LEMMA WorldKeeps == InjectorsInv /\ World => InjectorsInv'
<1> SUFFICES ASSUME InjectorsInv, World PROVE InjectorsInv'
  OBVIOUS
<1>1. /\ InjectorsTypeOK /\ CallsPlanned /\ TouchedListed /\ Faults' = Faults /\ world \in Worlds
      /\ UNCHANGED <<scenario, stage, calls, affected, original, suites, before, refused, touched>>
  BY SameFaults DEF InjectorsInv, InjectorsTypeOK, World
<1>2. /\ world' \in Worlds /\ world'.faults = world.faults /\ world'.partitioned = world.partitioned
      /\ world'.limit = world.limit /\ (world'.breaker_open => world.breaker_open)
  <2>1. CASE \E p \in Pods \ world.present : world' = [world EXCEPT !.present = @ \cup {p}]
    BY <1>1, <2>1 DEF Worlds
  <2>2. CASE world.breaker_open /\ world' = [world EXCEPT !.breaker_open = FALSE]
    BY <1>1, <2>2 DEF Worlds
  <2> QED
    BY <2>1, <2>2 DEF World
<1>3. InjectorsTypeOK'
  BY <1>1, <1>2 DEF InjectorsTypeOK, Worlds
<1>4. CallsPlanned'
  <2>1. ASSUME stage # "steady", NEW j \in DOMAIN Faults
        PROVE  calls'[j] \in Seq(Calls) /\ \A k \in 1..Len(calls'[j]) : Legit(j, calls[j][k])'
    <3>1. PICK q : q = calls[j]
      OBVIOUS
    <3>2. q \in Seq(Calls) /\ \A k \in 1..Len(q) : Legit(j, q[k])
      BY <1>1, <2>1, <3>1 DEF CallsPlanned
    <3>3. \A k \in 1..Len(q) : Legit(j, q[k])'
      BY <1>1, <3>2, PlanStands
    <3> QED
      BY <1>1, <3>1, <3>2, <3>3
  <2> QED
    BY <1>1, <2>1 DEF CallsPlanned
<1>5. TouchedListed'
  BY <1>1 DEF TouchedListed, Range
<1>6. Busy' => Confined(world)'
  <2> SUFFICES ASSUME Busy PROVE Confined(world)'
    BY <1>1 DEF Busy
  <2>1. Confined(world)
    BY DEF InjectorsInv
  <2> QED
    BY <1>1, <1>2, <2>1 DEF Confined, Range
<1>7. stage' \in {"clearing", "cleared"} /\ refused' = 0 => Undone(world, calls)'
  <2> SUFFICES ASSUME stage \in {"clearing", "cleared"}, refused = 0 PROVE Undone(world, calls)'
    BY <1>1
  <2>1. Undone(world, calls)
    BY DEF InjectorsInv
  <2> QED
    BY <1>1, <1>2, <2>1 DEF Undone, Range
<1> QED
  BY <1>3, <1>4, <1>5, <1>6, <1>7 DEF InjectorsInv

LEMMA InjectorsStepKeeps == InjectorsInv /\ [InjectorsNext]_injectorVars => InjectorsInv'
<1> SUFFICES ASSUME InjectorsInv, [InjectorsNext]_injectorVars PROVE InjectorsInv'
  OBVIOUS
<1>1. CASE MakeCall
  BY <1>1, ReturnsKeeps, RaisesKeeps DEF MakeCall
<1>2. CASE UNCHANGED injectorVars
  <2>1. Faults' = Faults /\ UNCHANGED <<scenario, stage, calls, affected, original, world, before, refused, touched>>
    BY <1>2, SameFaults DEF injectorVars
  <2>2. InjectorsTypeOK'
    BY <2>1 DEF InjectorsInv, InjectorsTypeOK, Worlds
  <2>3. CallsPlanned'
    <3>1. \A i, c : Legit(i, c)' = Legit(i, c)
      BY <2>1 DEF Legit
    <3> QED
      BY <2>1, <3>1 DEF InjectorsInv, CallsPlanned
  <2>4. TouchedListed'
    BY <2>1 DEF InjectorsInv, TouchedListed
  <2>5. Busy' => Confined(world)'
    BY <2>1 DEF InjectorsInv, Busy, Confined
  <2>6. stage' \in {"clearing", "cleared"} /\ refused' = 0 => Undone(world, calls)'
    BY <2>1 DEF InjectorsInv, Undone
  <2> QED
    BY <2>2, <2>3, <2>4, <2>5, <2>6 DEF InjectorsInv
<1> QED
  BY <1>1, <1>2, InjectsKeeps, GathersKeeps, ClearsKeeps, ContinueKeeps, WorldKeeps DEF InjectorsNext

-----------------------------------------------------------------------------
LEMMA UndoneMeansUndone == InjectorsInv => FaultsAreUndone
<1> SUFFICES ASSUME InjectorsInv PROVE FaultsAreUndone
  OBVIOUS
<1>1. /\ InjectorsTypeOK /\ CallsPlanned /\ TouchedListed /\ scenario \in 1..Len(Suite)
  BY DEF InjectorsInv, InjectorsTypeOK
<1>2. ASSUME stage = "cleared", refused = 0
      PROVE  /\ \A s \in Servers : world.faults[s] \subseteq before.faults[s]
             /\ world.partitioned \subseteq before.partitioned
             /\ before.limit - world.limit \in {0, 1}
             /\ world.breaker_open => before.breaker_open
  <2>1. Confined(world) /\ Undone(world, calls) /\ \A i \in DOMAIN Faults : calls[i] = <<>>
    BY <1>1, <1>2 DEF InjectorsInv, Busy, CallsPlanned, InjectorsTypeOK
  <2>2. \A i \in DOMAIN Faults : original[i] # NoLimit => original[i] = WholeWatts(before.limit)
    BY <1>1, <1>2 DEF CallsPlanned
  <2>3. ASSUME NEW s \in Servers PROVE world.faults[s] \subseteq before.faults[s]
    BY <2>1 DEF Confined, Undone
  <2>4. world.partitioned \subseteq before.partitioned
    <3> SUFFICES ASSUME NEW p \in world.partitioned, p \notin before.partitioned PROVE FALSE
      OBVIOUS
    <3>1. PICK i \in DOMAIN Faults : Faults[i].kind = "partition" /\ p \in Range(affected[i])
      BY <2>1 DEF Confined
    <3>2. \E k \in 1..Len(calls[i]) : calls[i][k].on = p
      BY <2>1, <3>1 DEF Undone
    <3> QED
      BY <2>1, <3>2
  <2>5. before.limit - world.limit \in {0, 1}
    <3>1. PICK limit \in Nat : limit = before.limit
      BY <1>1 DEF InjectorsTypeOK, Worlds
    <3>2. world.limit = limit \/ world.limit = 2 * (limit \div 2)
      BY <2>1, <2>2, <3>1 DEF Confined, Undone, Limited, WholeWatts
    <3> QED
      BY <3>1, <3>2
  <2>6. world.breaker_open => before.breaker_open
    BY <2>1 DEF Confined, Undone
  <2> QED
    BY <2>3, <2>4, <2>5, <2>6
<1>3. Cardinality(touched) <= MaxPods
  <2>1. MaxPods \in Nat
    BY InjectorsAssumption
  <2>2. CASE touched = {}
    BY <2>1, <2>2, FS_EmptySet
  <2>3. CASE touched # {}
    <3>1. PICK p \in touched : TRUE
      BY <2>3
    <3>2. stage # "steady"
      BY <1>1, <2>3 DEF TouchedListed
    <3>3. PICK i \in DOMAIN Faults : Faults[i].kind \in OnPods /\ p \in Range(affected[i])
      BY <1>1, <3>2 DEF TouchedListed
    <3>4. DOMAIN Faults = {i}
      BY <1>1, <3>3, FaultsAre
    <3>5. affected[i] \in Seq(Pods) /\ Len(affected[i]) <= MaxPods
      BY <1>1, <3>2 DEF InjectorsTypeOK
    <3>6. touched \subseteq Range(affected[i])
      BY <1>1, <3>2, <3>4 DEF TouchedListed
    <3> DEFINE n == Len(affected[i])
               R == Range(affected[i])
    <3>7. n \in Nat /\ DOMAIN affected[i] = 1..n /\ n <= MaxPods
      BY <3>5
    <3>8. IsFiniteSet(R) /\ Cardinality(R) <= n
      <4>1. affected[i] \in Surjection(1..n, R)
        BY <3>5, <3>7 DEF Range, Surjection
      <4>2. IsFiniteSet(1..n) /\ Cardinality(1..n) = n
        <5>1. n \in Int /\ 1 \in Int
          BY <3>7
        <5> QED
          BY <3>7, <5>1, FS_Interval
      <4> HIDE DEF n, R
      <4> QED
        BY <4>1, <4>2, FS_Surjection
    <3>9. Cardinality(touched) <= Cardinality(R) /\ IsFiniteSet(touched)
      BY <3>6, <3>8, FS_Subset
    <3>10. Cardinality(touched) \in Nat /\ Cardinality(R) \in Nat
      BY <3>8, <3>9, FS_CardinalityType
    <3> HIDE DEF n, R
    <3> QED
      BY <2>1, <3>7, <3>8, <3>9, <3>10
  <2> QED
    BY <2>2, <2>3
<1> QED
  BY <1>2, <1>3 DEF FaultsAreUndone

\* What an experiment publishes follows from what it measured: each answer is
\* judged once, a recovery is sustained, and what goes undetected burns slowly,
\* in every run of cmd_run's tasks and however long an injector blocks them.
THEOREM ExperimentsAreSound == ChaosSpec => []ExperimentIsSound
<1>1. ChaosInit => ChaosInv
  BY ChaosStarts
<1>2. ChaosInv /\ [ChaosNext]_chaosVars => ChaosInv'
  BY ChaosStepKeeps
<1> QED
  BY <1>1, <1>2, ExperimentSound, PTL DEF ChaosSpec

\* What cmd_suite's injectors do to the stack is taken back by a clearing that
\* is not refused, whatever pods came and went and in whatever order the calls
\* of a composite fault were made.
THEOREM FaultsAreTakenBack == InjectorsSpec => []FaultsAreUndone
<1>1. InjectorsInit => InjectorsInv
  BY InjectorsStart
<1>2. InjectorsInv /\ [InjectorsNext]_injectorVars => InjectorsInv'
  BY InjectorsStepKeeps
<1> QED
  BY <1>1, <1>2, UndoneMeansUndone, PTL DEF InjectorsSpec
=============================================================================
