------------------------------- MODULE Costs -------------------------------
(***************************************************************************)
(* Who pays for a window of GPU time: attribute_costs of llmkit/costs.py   *)
(* on the records that dashboard.py's report reads.                        *)
(*                                                                         *)
(* Weights are in tenths.  A share and a bill are left as their numerators *)
(* over the weight of all tenants; a GPU costs one per time unit.          *)
(* X_Y is a wrong variant of X, unused by the model.                       *)
(***************************************************************************)
EXTENDS Queues, FiniteSetsExt, SequencesExt

CONSTANTS
  Tenants,                     \* the keys tenant|model
  Billed,                      \* records: [tenant, ok, prompt, cached, output, send, done]
  NumBilled,                   \* how many there are
  WeightPrompt, WeightCached, WeightOutput

UnsetTime == -1
ASSUME CostsAssumption ==
  /\ IsFiniteSet(Tenants) /\ NumBilled \in Nat /\ {WeightPrompt, WeightCached, WeightOutput} \subseteq Nat
  /\ \A r \in Billed : /\ r.tenant \in Tenants /\ r.ok \in BOOLEAN
                       /\ {r.prompt, r.cached, r.output} \subseteq Nat /\ r.cached <= r.prompt
                       /\ {r.send, r.done} \subseteq Nat \cup {UnsetTime}

VARIABLE billed                \* the records, in the order of the file

-----------------------------------------------------------------------------
\* cmd_report: from the first sending to the last end, of those that are known.
Known(field) == {billed[i][field] : i \in DOMAIN billed} \ {UnsetTime}
WindowFrom == Min(Known("send") \cup (IF Known("send") = {} THEN {0} ELSE {}))
WindowTo == Max(Known("done") \cup (IF Known("done") = {} THEN {WindowFrom} ELSE {}))
Window == Max({WindowTo - WindowFrom, 0})

\* The loop over the records: failures are counted and weigh nothing.
Weight(r) == WeightPrompt * r.prompt + (WeightCached - WeightPrompt) * r.cached + WeightOutput * r.output
NoUsage == [requests |-> 0, errors |-> 0, prompt |-> 0, cached |-> 0, output |-> 0, weight |-> 0]
Used_Always(u, r) ==
  [requests |-> u.requests + 1, errors |-> u.errors + (IF r.ok THEN 0 ELSE 1), prompt |-> u.prompt + r.prompt,
   cached |-> u.cached + r.cached, output |-> u.output + r.output, weight |-> u.weight + Weight(r)]
Used(u, r) ==
  IF ~r.ok THEN [u EXCEPT !.requests = @ + 1, !.errors = @ + 1]
  ELSE [u EXCEPT !.requests = @ + 1, !.prompt = @ + r.prompt, !.cached = @ + r.cached,
                 !.output = @ + r.output, !.weight = @ + Weight(r)]
by ==
  LET after[i \in 0..Len(billed)] ==
        IF i = 0 THEN [t \in Tenants |-> NoUsage]
        ELSE [after[i - 1] EXCEPT ![billed[i].tenant] = Used(@, billed[i])]
  IN after[Len(billed)]
Fleet(field) == SumFunctionOnSet([t \in Tenants |-> by[t][field]], Tenants)
total_weighted == Fleet("weight")

Bill(t) == by[t].weight * Window
BillsOf(ts) == SumFunctionOnSet([t \in ts |-> Bill(t)], ts)

CostsInit == billed \in [1..NumBilled -> Billed]
CostsSpec == CostsInit /\ [][FALSE]_billed

-----------------------------------------------------------------------------
\* The bills of a window add up to what the window cost, if anything was
\* answered in it; a tenant pays in proportion to its answered requests and to
\* nothing else - not the tokens of a stream that broke, not the order of the
\* file - and the fleet's figures are those of the answered requests.
Answers(ts) == {i \in DOMAIN billed : billed[i].ok /\ billed[i].tenant \in ts}
OfAnswers(Of(_), ts) == SumFunctionOnSet([i \in Answers(ts) |-> Of(billed[i])], Answers(ts))
WeightOfAnswers(ts) == OfAnswers(Weight, ts)
BillsAddUp ==
  /\ BillsOf(Tenants) = WeightOfAnswers(Tenants) * Window
  /\ \A t \in Tenants : Bill(t) * WeightOfAnswers(Tenants) = WeightOfAnswers({t}) * Window * total_weighted
  /\ \A t \in Tenants : 0 <= Bill(t) /\ (Answers({t}) = {} => Bill(t) = 0)
  /\ Fleet("requests") = Len(billed)
  /\ Fleet("output") = OfAnswers(LAMBDA r : r.output, Tenants)
  /\ Fleet("cached") <= Fleet("prompt")
  /\ \A i \in Answers(Tenants) : billed[i].send # UnsetTime => WindowFrom <= billed[i].send
=============================================================================
