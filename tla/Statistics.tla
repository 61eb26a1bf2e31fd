----------------------------- MODULE Statistics -----------------------------
(***************************************************************************)
(* summarize() of llmkit/metrics.py: the percentiles of a load point, its  *)
(* measurement window, and the Little's law check against the integral of  *)
(* the requests in flight.  Times are whole; a quotient is left as its     *)
(* numerator over the window.                                              *)
(* X_Y is a wrong variant of X, unused by the model.                       *)
(***************************************************************************)
EXTENDS Queues, FiniteSetsExt, SequencesExt

CONSTANTS
  Times, Records,              \* what a stamp may be, and how many records there are
  Percentiles                  \* which are asked for

ASSUME StatisticsAssumption == Times \subseteq Nat /\ Records \in Nat /\ Percentiles \subseteq 1..100

VARIABLES records,             \* [send, done, ok] of each
          warm                 \* warmup_requests

statVars == <<records, warm>>

-----------------------------------------------------------------------------
Record == {r \in [send : Times, done : Times, ok : BOOLEAN] : r.send <= r.done}

\* percentile(), nearest rank, of numbers in a sequence.
SortedUp(xs) == Sorted(xs, {p \in Nat \X Nat : p[1] < p[2]})
Rank_Floor(p, n) == (p * n) \div 100
Rank(p, n) == (p * n + 99) \div 100
Percentile(xs, p) == SortedUp(xs)[Max({1, Rank(p, Len(xs))})]

\* The records that are kept: sorted by their sending, without the first ones.
Ordered == Sorted(records, {p \in Record \X Record : p[1].send < p[2].send})
Retained == SubSeq(Ordered, warm + 1, Len(Ordered))
Ok == Those(Retained, {r \in Record : r.ok})
Sent == {Retained[i].send : i \in DOMAIN Retained}
WindowStart == Min(Sent)

\* _integrate_concurrency: +1 and -1 events in order; the count in flight is
\* integrated between them.  (Clamping does nothing: all lie in the window.)
Event == [t : Times, delta : {1, -1}]
EarlierEvent == {p \in Event \X Event : p[1].t < p[2].t \/ (p[1].t = p[2].t /\ p[1].delta < p[2].delta)}
StartOrEnd(r, i) == IF i % 2 = 1 THEN [t |-> r.send, delta |-> 1] ELSE [t |-> r.done, delta |-> -1]
StartsAndEnds ==
  LET retained == Retained
  IN [i \in 1..2 * Len(retained) |-> StartOrEnd(retained[(i + 1) \div 2], i)]
Events == Sorted(StartsAndEnds, EarlierEvent)
Swept_After(a, e) == [area |-> a.area + (a.cur + e.delta) * (e.t - a.prev), cur |-> a.cur + e.delta, prev |-> e.t]
Swept(a, e) == [area |-> a.area + a.cur * (e.t - a.prev), cur |-> a.cur + e.delta, prev |-> e.t]
Area ==
  LET events == Events
      swept[i \in 0..Len(events)] ==
        IF i = 0 THEN [area |-> 0, cur |-> 0, prev |-> WindowStart] ELSE Swept(swept[i - 1], events[i])
  IN swept[Len(events)].area

\* X * R times the window: ok answers times their mean latency.
Latency(r) == r.done - r.send
Latencies(rs) == [i \in DOMAIN rs |-> Latency(rs[i])]
Predicted == Total(Latencies(Ok))

StatInit ==
  /\ records \in [1..Records -> Record]
  /\ warm \in 0..Records
StatSpec == StatInit /\ [][FALSE]_statVars

-----------------------------------------------------------------------------
\* The reported p99 "is a value that actually occurred": the least latency
\* that at least p percent of the answers do not exceed.
AtMost(xs, x) == Cardinality({i \in DOMAIN xs : xs[i] <= x})
PercentileIsNearestRank ==
  Ok # <<>> => \A p \in Percentiles :
    LET xs == Latencies(Ok)
        enough == {i \in DOMAIN xs : AtMost(xs, xs[i]) * 100 >= p * Len(xs)}
    IN Percentile(xs, p) = Min({xs[i] : i \in enough})

\* "agreement is a genuine cross-check of the harness": the integral is the
\* time all retained requests spent in flight, so that the two sides differ by
\* what the failed ones spent and by nothing else.
LittlesLawSeesFailures ==
  Retained # <<>> =>
    Area - Predicted = Total(Latencies(Those(Retained, {r \in Record : ~r.ok})))

\* The summary of a load point.
SummaryIsExact == PercentileIsNearestRank /\ LittlesLawSeesFailures
=============================================================================
