------------------------------- MODULE Client -------------------------------
(***************************************************************************)
(* StreamingClient.send of llmkit/client.py: one streamed answer and the   *)
(* RequestRecord (llmkit/types.py) made of it, with the latencies that are *)
(* derived from the record.                                                *)
(*                                                                         *)
(* A frame is what the code looks at: does it parse, does it carry text,   *)
(* does it carry usage.  Time is the number of steps.                      *)
(* X_Y is a wrong variant of X, unused by the model.                       *)
(***************************************************************************)
EXTENDS Integers, Sequences, Functions, Queues

CONSTANTS
  Usages,                      \* completion_tokens a server may report
  MaxFrames, MaxGap            \* bounds: frames of a stream, steps between two

ASSUME ClientAssumption == Usages \subseteq Nat /\ {MaxFrames, MaxGap} \subseteq Nat \ {0}

VARIABLES
  phase,                       \* "connecting", "streaming", "over"
  at,                          \* the time
  frames,                      \* bound on the stream's length
  first_chunk, first_token, last_token, done_at,   \* rec.t_*_ns
  events,                      \* rec.token_events: [t, tokens]
  usage, output,               \* the server's count, rec.output_tokens
  reason                       \* rec.finish_reason

clientVars ==
  <<phase, at, frames, first_chunk, first_token, last_token, done_at, events, usage, output, reason>>

UNSET == -1
Stamp(t) == IF t = UNSET THEN at ELSE t

-----------------------------------------------------------------------------
\* _rebalance_token_events: the frames carry several tokens each.
Rebalanced_Even(total) == [i \in DOMAIN events |-> [events[i] EXCEPT !.tokens = total \div Len(events)]]
Rebalanced(total) ==
  LET n == Len(events)
  IN [i \in 1..n |-> [events[i] EXCEPT
        !.tokens = total \div n + (IF i <= total % n THEN 1 ELSE 0)]]

\* The stream is over: [DONE] or its end.  Usage wins over counting the text
\* (one token per frame here).
Complete ==
  LET out == IF usage # UNSET THEN usage ELSE Len(events)
  IN /\ phase' = "over" /\ done_at' = at
     /\ output' = out
     /\ events' = IF out > 0 /\ events # <<>> /\ out # Len(events)
                  THEN Rebalanced(out) ELSE events
     /\ reason' \in {"stop", "length"}

\* A connection error, a reset, a timeout or a 4xx: the record keeps the times.
Break ==
  /\ phase \in {"connecting", "streaming"}
  /\ phase' = "over" /\ done_at' = at
  /\ reason' \in {"error", "timeout"}
  /\ UNCHANGED <<at, frames, first_chunk, first_token, last_token, events, usage, output>>

Connect ==
  /\ phase = "connecting"
  /\ phase' = "streaming"
  /\ UNCHANGED <<at, frames, first_chunk, first_token, last_token, done_at, events, usage, output, reason>>

\* A frame is stamped first and parsed second: a role-only or unreadable one
\* counts as the first chunk, only text as a token.
FirstToken(text) == IF text THEN Stamp(first_token) ELSE first_token
Frame ==
  /\ phase = "streaming" /\ frames < MaxFrames
  /\ frames' = frames + 1
  /\ first_chunk' = Stamp(first_chunk)
  /\ \E text \in BOOLEAN, u \in Usages \cup {UNSET} :
       /\ usage' = IF u = UNSET THEN usage ELSE u
       /\ first_token' = FirstToken(text)
       /\ last_token' = IF text THEN at ELSE last_token
       /\ events' = IF text THEN Append(events, [t |-> at, tokens |-> 1]) ELSE events
  /\ UNCHANGED <<phase, at, done_at, output, reason>>

EndOfStream ==
  /\ phase = "streaming"
  /\ Complete
  /\ UNCHANGED <<at, frames, first_chunk, first_token, last_token, usage>>

\* Time between frames.
Wait ==
  /\ phase # "over" /\ at < MaxGap * (frames + 1)
  /\ at' = at + 1
  /\ UNCHANGED <<phase, frames, first_chunk, first_token, last_token, done_at, events, usage, output, reason>>

ClientInit ==
  /\ phase = "connecting" /\ at = 0 /\ frames = 0
  /\ first_chunk = UNSET /\ first_token = UNSET /\ last_token = UNSET /\ done_at = UNSET
  /\ events = <<>> /\ usage = UNSET /\ output = 0 /\ reason = "stop"

ClientNext == Connect \/ Frame \/ EndOfStream \/ Break \/ Wait

ClientSpec == ClientInit /\ [][ClientNext]_clientVars

-----------------------------------------------------------------------------
ok == phase = "over" /\ reason \in {"stop", "length"}

\* RequestRecord.itls_ms: the gap before an event is shared by its tokens; an
\* event without tokens is left out.
Itls ==
  LET evs == Those(events, {e \in Range(events) : e.tokens > 0})
  IN [i \in 1..Len(evs) - 1 |-> [gap |-> evs[i + 1].t - evs[i].t, tokens |-> evs[i + 1].tokens]]

TokenSum(q) == Total([i \in DOMAIN q |-> q[i].tokens])
GapSum(q) == Total([i \in DOMAIN q |-> q[i].gap])

\* The tokens the server bills are the tokens the latencies are computed over:
\* none is lost or invented when frames carry several, and the gaps add up to
\* the decode time.  (Fewer tokens than frames leave the last frames empty.)
TokensHonest ==
  (ok /\ output > 0 /\ events # <<>>) =>
    /\ TokenSum(events) = output
    /\ TokenSum(Itls) = output - events[1].tokens
    /\ (output >= Len(events) => GapSum(Itls) = last_token - first_token)

\* TTFT is measured to the first content: no role-only frame shortens it, and
\* the stamps of a record, broken or not, are in order.
TtftHonest ==
  /\ (first_token # UNSET) = (events # <<>>)
  /\ events # <<>> =>
       /\ first_token = events[1].t /\ last_token = events[Len(events)].t
       /\ UNSET # first_chunk /\ first_chunk <= first_token
       /\ done_at # UNSET => last_token <= done_at

\* What summaries and reports are made of.
RecordHonest == TokensHonest /\ TtftHonest
=============================================================================
