------------------------------ MODULE Quality ------------------------------
(***************************************************************************)
(* projects/05-quantization-lab/quality.py: a quantised endpoint held      *)
(* against the reference.  Agreement on prompts, divergence of logprobs,   *)
(* then the tasks on either endpoint, and a verdict.  Any request may fail.*)
(*                                                                         *)
(* A text is a sequence of words: measure_agreement asks for no logprobs.  *)
(* What kl_divergence makes of two distributions is left out, how many     *)
(* positions are compared is not.                                          *)
(* X_Y is a wrong variant of X, unused by the model.                       *)
(***************************************************************************)
EXTENDS Queues, FiniteSetsExt, SequencesExt

CONSTANTS
  NumPrompts, MaxTokens,       \* --n, --max-tokens
  Texts,                       \* what an endpoint may answer
  NumTasks                     \* len(TASKS)

ASSUME QualityAssumption ==
  /\ NumPrompts \in Nat /\ {MaxTokens, NumTasks} \subseteq Nat \ {0}
  /\ \A t \in Texts : t \in Seq(STRING) /\ Len(t) <= MaxTokens

VARIABLES
  measuring,                   \* "agreement", "kl", "baseline", "candidate", "over"
  asked,                       \* prompts or tasks asked in this measurement
  agree,                       \* [n, exact_match, divergence_positions]
  kls,                         \* positions compared; -1 when the measurement was given up
  tasks,                       \* of each endpoint: [total, correct]
  pairs, right                 \* history: the answers compared; tasks each solved

qualityVars == <<measuring, asked, agree, kls, tasks, pairs, right>>

Endpoint == {"baseline", "candidate"}
KLPrompts == Min({NumPrompts, Max({4, NumPrompts \div 4})})

-----------------------------------------------------------------------------
\* measure_agreement: the first position at which two texts differ; a prompt
\* that an endpoint did not answer is passed over.
Divergence(ta, tb) ==
  Min({Len(ta), Len(tb)} \cup {i - 1 : i \in {j \in DOMAIN ta \cap DOMAIN tb : ta[j] # tb[j]}})
Compared(ta, tb) ==
  [n |-> agree.n + 1,
   exact_match |-> agree.exact_match + (IF ta = tb THEN 1 ELSE 0),
   divergence_positions |-> Append(agree.divergence_positions, Divergence(ta, tb))]
Compare ==
  /\ measuring = "agreement" /\ asked < NumPrompts
  /\ asked' = asked + 1
  /\ \/ \E ta, tb \in Texts : agree' = Compared(ta, tb) /\ pairs' = Append(pairs, <<ta, tb>>)
     \/ UNCHANGED <<agree, pairs>>
  /\ UNCHANGED <<measuring, kls, tasks, right>>

\* measure_kl: the first request that fails ends the measurement.
CompareLogprobs ==
  /\ measuring = "kl" /\ asked < KLPrompts /\ kls >= 0
  /\ asked' = asked + 1
  /\ \/ \E n \in {Len(t) : t \in Texts} : kls' = kls + n
     \/ kls' = -1
  /\ UNCHANGED <<measuring, agree, tasks, pairs, right>>

\* measure_tasks: a request that fails is a task not solved.
Failed_Forgotten(r) == r
Failed(r) == [r EXCEPT !.total = @ + 1]
Solve ==
  /\ measuring \in Endpoint /\ asked < NumTasks
  /\ asked' = asked + 1
  /\ \E outcome \in {"solved", "wrong", "failed"} :
       LET r == tasks[measuring]
       IN /\ tasks' = [tasks EXCEPT ![measuring] =
                         IF outcome = "failed" THEN Failed(r)
                         ELSE [total |-> r.total + 1, correct |-> r.correct + (IF outcome = "solved" THEN 1 ELSE 0)]]
          /\ right' = [right EXCEPT ![measuring] = @ + (IF outcome = "solved" THEN 1 ELSE 0)]
  /\ UNCHANGED <<measuring, agree, kls, pairs>>

\* main: one measurement after the other, the second unless --skip-kl.
AllAsked ==
  CASE measuring = "agreement" -> asked = NumPrompts
    [] measuring = "kl" -> asked = KLPrompts \/ kls = -1
    [] measuring \in Endpoint -> asked = NumTasks
    [] measuring = "over" -> FALSE
NextMeasurement ==
  /\ AllAsked
  /\ asked' = 0
  /\ measuring' \in CASE measuring = "agreement" -> {"kl", "baseline"}
                      [] measuring = "kl" -> {"baseline"}
                      [] measuring = "baseline" -> {"candidate"}
                      [] measuring = "candidate" -> {"over"}
  /\ UNCHANGED <<agree, kls, tasks, pairs, right>>

QualityInit ==
  /\ measuring = "agreement" /\ asked = 0 /\ kls = 0
  /\ agree = [n |-> 0, exact_match |-> 0, divergence_positions |-> <<>>]
  /\ tasks = [e \in Endpoint |-> [total |-> 0, correct |-> 0]]
  /\ pairs = <<>> /\ right = [e \in Endpoint |-> 0]
QualityNext == Compare \/ CompareLogprobs \/ Solve \/ NextMeasurement
QualitySpec == QualityInit /\ [][QualityNext]_qualityVars

-----------------------------------------------------------------------------
\* The verdict.  A rate of nothing is NaN, which is not at least anything; a
\* mean of nothing is 0.
ExactRateAtLeast(percent) == agree.n > 0 /\ agree.exact_match * 100 >= percent * agree.n
PrefixAtLeast(percent) ==
  agree.n > 0 /\ Total(agree.divergence_positions) * 100 >= percent * agree.n * MaxTokens
DeltaAtLeast(percent) ==
  LET b == tasks["baseline"] c == tasks["candidate"]
  IN /\ b.total > 0 /\ c.total > 0
     /\ (c.correct * b.total - b.correct * c.total) * 100 >= percent * b.total * c.total
verdict ==
  IF ExactRateAtLeast(95) /\ DeltaAtLeast(-2) THEN "near-lossless"
  ELSE IF PrefixAtLeast(80) /\ DeltaAtLeast(-5) THEN "drift" ELSE "loss"

-----------------------------------------------------------------------------
\* The longest common prefix, and the pairs that differ.
Shared(p) == Cardinality({k \in DOMAIN p[1] : k \in DOMAIN p[2] /\ SubSeq(p[1], 1, k) = SubSeq(p[2], 1, k)})
Differing == {i \in DOMAIN pairs : pairs[i][1] # pairs[i][2]}

\* A quantised model is passed on evidence, whichever requests failed: some
\* prompt was answered by both endpoints, all but five percent of those answers
\* are the same or they share four fifths of the output allowed, and of the
\* tasks the candidate was asked it solved as many as the baseline, within five
\* percent: a request that failed was not solved - on either side, so that a
\* baseline whose requests failed is held to no more than it answered.
VerdictIsEarned ==
  measuring = "over" =>
    /\ verdict # "loss" =>
         /\ pairs # <<>>
         /\ \/ Cardinality(Differing) * 100 <= 5 * Len(pairs)
            \/ Total([i \in DOMAIN pairs |-> Shared(pairs[i])]) * 100 >= 80 * Len(pairs) * MaxTokens
         /\ (right["candidate"] - right["baseline"]) * 100 >= -5 * NumTasks
    /\ Differing = {} /\ pairs # <<>> /\ right["candidate"] >= right["baseline"] => verdict = "near-lossless"
=============================================================================
