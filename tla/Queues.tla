------------------------------- MODULE Queues -------------------------------
(***************************************************************************)
(* Operations of Python lists the schedulers are written with: a list      *)
(* comprehension with a condition, list.sort with a key, and sum.  They    *)
(* are defined here so that they can be proved about: the provers know     *)
(* nothing of SelectSeq, and SortSeq says nothing of two elements with the *)
(* same key, which list.sort leaves in the order it found them.            *)
(***************************************************************************)
EXTENDS Integers, FiniteSets, Sequences

\* [x for x in q if x in S]
Those(q, S) ==
  LET kept[i \in 0..Len(q)] ==
        IF i = 0 THEN <<>>
        ELSE IF q[i] \in S THEN Append(kept[i - 1], q[i]) ELSE kept[i - 1]
  IN kept[Len(q)]

\* q.sort(), where R is the set of the pairs whose first is the smaller one.
Precedes(q, R, i, j) == <<q[i], q[j]>> \in R \/ (<<q[j], q[i]>> \notin R /\ i < j)
Earlier(q, R, i) == {j \in DOMAIN q : Precedes(q, R, j, i)}
Sorted(q, R) ==
  [k \in DOMAIN q |-> q[CHOOSE i \in DOMAIN q : Cardinality(Earlier(q, R, i)) = k - 1]]

\* sum(q)
Total(q) ==
  LET upto[i \in 0..Len(q)] == IF i = 0 THEN 0 ELSE upto[i - 1] + q[i]
  IN upto[Len(q)]
=============================================================================
