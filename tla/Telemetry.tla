----------------------------- MODULE Telemetry -----------------------------
(***************************************************************************)
(* What the operator's tools make of a server's counters: the live cost    *)
(* dashboard's poll with prom.py's CounterRate, the KV monitor of project  *)
(* 03 and, with a server of its own, the acceptance watch of project 06.   *)
(* The servers count, are restarted and fail to answer.                    *)
(* X_Y is a wrong variant of X, unused by the model.                       *)
(***************************************************************************)
EXTENDS Integers, Sequences, FiniteSetsExt, SequencesExt

CONSTANTS
  Endpoints, Watched,          \* the dashboard's endpoints, and the monitor's
  Gauges,                      \* [waiting, running, pinned, swapped] it may read
  History, LookBack,           \* deque(maxlen=window), and the 10 of history[-10]
  MaxCount, MaxTime            \* bounds: of a counter, and of the clock

ASSUME TelemetryAssumption ==
  /\ IsFiniteSet(Endpoints) /\ Watched \in Endpoints /\ {MaxCount, MaxTime} \subseteq Nat
  /\ History \in Nat /\ LookBack \in 2..History

VARIABLES
  counter,                     \* of each server: [tokens, preemptions]
  time,
  counted,                     \* CounterRate._last_value and ._last_t
  rate,                        \* CounterRate._rate: [tokens, seconds]
  history,                     \* Monitor.history: [preemptions, waiting, running]
  alerts,                      \* Monitor._fired
  produced, unread,            \* history: tokens since `counted`, endpoints it missed
  incidents                    \* history: what happened since the last sample

telemetryVars == <<counter, time, counted, rate, history, alerts, produced, unread, incidents>>
Never == [value |-> 0, t |-> -1]

-----------------------------------------------------------------------------
\* A server generates a token or preempts a sequence, or is started anew.
ServerCounts ==
  \E e \in Endpoints :
    \/ /\ counter[e].tokens < MaxCount /\ produced < MaxCount
       /\ counter' = [counter EXCEPT ![e].tokens = @ + 1]
       /\ produced' = produced + 1 /\ UNCHANGED incidents
    \/ /\ counter[e].preemptions < MaxCount
       /\ counter' = [counter EXCEPT ![e].preemptions = @ + 1]
       /\ incidents' = (IF e = Watched THEN incidents \cup {"preemption"} ELSE incidents)
       /\ UNCHANGED produced
    \/ /\ counter' = [counter EXCEPT ![e] = [tokens |-> 0, preemptions |-> 0]]
       /\ incidents' = (IF e = Watched THEN incidents \cup {"restart"} ELSE incidents)
       /\ UNCHANGED produced
Serve == ServerCounts /\ UNCHANGED <<time, counted, rate, history, alerts, unread>>

Ticks == /\ time < MaxTime /\ time' = time + 1
         /\ UNCHANGED <<counter, counted, rate, history, alerts, produced, unread, incidents>>

-----------------------------------------------------------------------------
\* scrape_sync answers {} for an endpoint it cannot reach: it counts as zero.
TokensOf(S) == SumFunctionOnSet([e \in Endpoints |-> counter[e].tokens], S)
Scraped(down) == TokensOf(Endpoints \ down)

\* CounterRate.update: the first value starts the window, a smaller one
\* restarts it and keeps the rate, and no time means no news.
IsReset_Never(value) == FALSE
IsReset(value) == value < counted.value
Updated(value) ==
  IF counted = Never \/ (time > counted.t /\ IsReset(value))
  THEN counted' = [value |-> value, t |-> time] /\ UNCHANGED rate
  ELSE IF time <= counted.t THEN UNCHANGED <<counted, rate>>
  ELSE /\ rate' = [tokens |-> value - counted.value, seconds |-> time - counted.t]
       /\ counted' = [value |-> value, t |-> time]

DashboardPoll ==
  /\ \E down \in SUBSET Endpoints :
       /\ Updated(Scraped(down))
       /\ IF counted' = counted THEN UNCHANGED <<produced, unread>>
          ELSE produced' = 0 /\ unread' = down
  /\ UNCHANGED <<counter, time, history, alerts, incidents>>

-----------------------------------------------------------------------------
\* Monitor._check, with the new sample already in the history.
PreemptionRises(h) == Len(h) >= 2 /\ Last(h).preemptions > h[Len(h) - 1].preemptions
QueueGrows(h) ==
  /\ Last(h).waiting > 0 /\ Len(h) >= LookBack
  /\ LET older == h[Len(h) - LookBack + 1]
     IN Last(h).waiting > older.waiting * 2 /\ Last(h).running <= older.running
Fired(h, g) ==
     (IF g.pinned >= 95 THEN {"kv95"} ELSE IF g.pinned >= 85 THEN {"kv85"} ELSE {})
  \cup (IF PreemptionRises(h) THEN {"preempt"} ELSE {})
  \cup (IF QueueGrows(h) THEN {"queue"} ELSE {})
  \cup (IF g.swapped > 0 THEN {"swap"} ELSE {})

\* A scrape that fails leaves no sample.
Scrape ==
  /\ \E g \in Gauges :
       LET s == [preemptions |-> counter[Watched].preemptions,
                 waiting |-> g.waiting, running |-> g.running]
       IN /\ history' = Append(IF Len(history) = History THEN Tail(history) ELSE history, s)
          /\ alerts' = alerts \cup Fired(history', g)
  /\ incidents' = {}
  /\ UNCHANGED <<counter, time, counted, rate, produced, unread>>

TelemetryInit ==
  /\ counter = [e \in Endpoints |-> [tokens |-> 0, preemptions |-> 0]] /\ time = 0
  /\ counted = Never /\ rate = [tokens |-> 0, seconds |-> 1]
  /\ history = <<>> /\ alerts = {}
  /\ produced = 0 /\ unread = {} /\ incidents = {}
TelemetryNext == Serve \/ Ticks \/ DashboardPoll \/ Scrape
TelemetrySpec == TelemetryInit /\ [][TelemetryNext]_telemetryVars

-----------------------------------------------------------------------------
\* "A counter that goes backwards means the process restarted": whatever the
\* restarts, a rate is never negative and never claims more tokens than were
\* produced since the poll it starts from - except that an endpoint this poll
\* could not read comes back with all it ever counted.
Recounted == TokensOf(unread)
RateIsHonest ==
  [][rate' # rate => 0 <= rate'.tokens /\ rate'.tokens <= produced + Recounted]_<<counter, time, counted, rate, unread>>

\* The monitor's preemption alert: every preemption between two samples of one
\* server raises it, however many scrapes failed in between, and only a
\* preemption does, also across restarts.
PreemptionAlerted ==
  [][/\ (history' # history /\ history # <<>> /\ incidents = {"preemption"}) => "preempt" \in alerts'
     /\ ("preempt" \in alerts' \ alerts) => "preemption" \in incidents]_<<history, alerts>>

\* What the tools report happened.
ReportsWhatHappened == RateIsHonest /\ PreemptionAlerted

-----------------------------------------------------------------------------
(***************************************************************************)
(* cmd_watch of projects/06-speculative-decoding/specdec.py: acceptance of *)
(* draft tokens in the window between two scrapes of a server, which       *)
(* drafts, verifies and may be started anew.                               *)
(***************************************************************************)
CONSTANTS DraftTokens, MaxDrafted  \* k; bound of the counter and the window

ASSUME SpecWatchAssumption == DraftTokens \in Nat \ {0} /\ MaxDrafted \in Nat

VARIABLES
  drafted, accepted,           \* the server's counters
  prev,                        \* [draft, acc] of the scrape before
  alpha,                       \* the last window that had drafts: [draft, acc]
  watching,                    \* FALSE when the endpoint shows no such metrics
  window                       \* history: [draft, acc, restarted] since prev

watchVars == <<drafted, accepted, prev, alpha, watching, window>>
NoScrape == [draft |-> -1, acc |-> -1]

-----------------------------------------------------------------------------
\* The target accepts a prefix of the draft.
VerifyDraft ==
  /\ Max({drafted, window.draft}) + DraftTokens <= MaxDrafted
  /\ \E a \in 0..DraftTokens :
       /\ accepted' = accepted + a
       /\ window' = [window EXCEPT !.draft = @ + DraftTokens, !.acc = @ + a]
  /\ drafted' = drafted + DraftTokens
  /\ UNCHANGED <<prev, alpha, watching>>
Restart ==
  /\ drafted' = 0 /\ accepted' = 0 /\ window' = [window EXCEPT !.restarted = TRUE]
  /\ UNCHANGED <<prev, alpha, watching>>

\* Without a scrape before, the window is empty.  A scrape that fails leaves
\* prev, and the window goes on.
Since_Start(value, before) == value - (IF before = -1 THEN 0 ELSE before)
Since(value, before) == value - (IF before = -1 THEN value ELSE before)
ScrapeDrafts ==
  /\ watching
  /\ LET d_draft == Since(drafted, prev.draft)
         d_acc == Since(accepted, prev.acc)
     IN alpha' = (IF d_draft # 0 THEN [draft |-> d_draft, acc |-> d_acc] ELSE alpha)
  /\ prev' = [draft |-> drafted, acc |-> accepted]
  /\ window' = [draft |-> 0, acc |-> 0, restarted |-> FALSE]
  /\ UNCHANGED <<drafted, accepted, watching>>
NotSpeculating == watching /\ watching' = FALSE /\ UNCHANGED <<drafted, accepted, prev, alpha, window>>

WatchInit ==
  /\ drafted \in {0, DraftTokens} /\ accepted \in 0..drafted
  /\ prev = NoScrape /\ alpha = [draft |-> 1, acc |-> 1] /\ watching = TRUE
  /\ window = [draft |-> 0, acc |-> 0, restarted |-> FALSE]
WatchNext == VerifyDraft \/ Restart \/ ScrapeDrafts \/ NotSpeculating
WatchSpec == WatchInit /\ [][WatchNext]_watchVars

-----------------------------------------------------------------------------
\* The acceptance shown for a window is that of the tokens drafted in it, of all
\* of them however many scrapes failed, and of nothing before the first scrape,
\* unless the server was restarted in the window.
AcceptanceIsHonest ==
  [][alpha' # alpha /\ ~window.restarted =>
       alpha' = [draft |-> window.draft, acc |-> window.acc]]_<<alpha, window>>

\* What the tools show of a server is what it did, whatever is restarted or
\* not reached between two looks: rates and alerts, and acceptance.
ToolsAreHonest == ReportsWhatHappened /\ AcceptanceIsHonest
=============================================================================
