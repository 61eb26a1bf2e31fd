------------------------------ MODULE Workload ------------------------------
(***************************************************************************)
(* WorkloadGenerator of llmkit/workload.py: streams of requests that draw  *)
(* whole conversations from one generator.  Streams are Python generators: *)
(* each advances when its consumer asks, and those of one generator -      *)
(* warm_up's and a load point's, one per request in the chaos suite -      *)
(* share its random numbers and its session counter.  Nothing keeps a      *)
(* caller from holding two at a time.                                      *)
(*                                                                         *)
(* A text is the number of the random draw that seeded it: make_text is a  *)
(* function of the seed.  A prompt is the sequence of its texts.           *)
(* X_Y is a wrong variant of X, unused by the model.                       *)
(***************************************************************************)
EXTENDS Integers, Sequences, FiniteSets, SequencesExt

CONSTANTS
  Streams,                     \* generators in use at a time
  Lengths,                     \* requests a stream may be asked for
  Turns,                       \* spec.multi_turn
  SystemPrompts, TenantNames,  \* spec.n_prefix_variants, spec.tenants
  MaxSessions                  \* bound

ASSUME WorkloadAssumption ==
  /\ Turns \in Nat \ {0} /\ Lengths \subseteq Nat /\ MaxSessions \in Nat
  /\ SystemPrompts # {} /\ TenantNames # {}

VARIABLES
  draws, counter,              \* numbers drawn from rng; _counter
  stream,                      \* of each: [left, sid, turn, history, system, tenant]
  sent                         \* history: of each stream, the requests it gave

workloadVars == <<draws, counter, stream, sent>>

-----------------------------------------------------------------------------
NotOpen == [left |-> 0, sid |-> -1, turn |-> 0, history |-> <<>>, system |-> "", tenant |-> ""]

\* stream(n): nothing is drawn before the first request is asked for.
Open(s) ==
  /\ stream[s].left = 0
  /\ \E n \in Lengths : stream' = [stream EXCEPT ![s] = [NotOpen EXCEPT !.left = n]]
  /\ sent' = [sent EXCEPT ![s] = <<>>]
  /\ UNCHANGED <<draws, counter>>

\* One request of the session of a stream.  The reply that joins the history is
\* drawn when the next request is asked for, also after the last turn.
History_Fresh(q, prompt, reply) == <<reply>>
History(q, prompt, reply) == prompt \o <<reply>>
Turn(s, q, first) ==
  LET reply == IF stream[s].sid >= 0 THEN 1 ELSE 0
      prompt == (IF first THEN <<>> ELSE History(q, q.history, draws)) \o <<draws + reply>>
  IN /\ draws' = draws + reply + 1
     /\ stream' = [stream EXCEPT ![s] = [q EXCEPT !.left = @ - 1, !.turn = @ + 1, !.history = prompt]]
     /\ sent' = [sent EXCEPT ![s] = Append(@, [sid |-> q.sid, system |-> q.system,
                                              tenant |-> q.tenant, prompt |-> prompt])]

\* next() on a stream: the next turn of its session, or the first of a new one.
Next_Request(s) ==
  /\ stream[s].left > 0
  /\ IF stream[s].sid >= 0 /\ stream[s].turn < Turns
     THEN Turn(s, stream[s], FALSE) /\ UNCHANGED counter
     ELSE /\ counter < MaxSessions /\ counter' = counter + 1
          /\ \E y \in SystemPrompts, t \in TenantNames :
               Turn(s, [stream[s] EXCEPT !.sid = counter, !.turn = 0, !.system = y, !.tenant = t], TRUE)

\* Its consumer drops it: the driver's time is over, or it wanted one request.
Drop(s) ==
  /\ stream[s].left > 0
  /\ stream' = [stream EXCEPT ![s] = NotOpen]
  /\ UNCHANGED <<draws, counter, sent>>

WorkloadInit ==
  /\ draws = 0 /\ counter = 0
  /\ stream = [s \in Streams |-> NotOpen] /\ sent = [s \in Streams |-> <<>>]
WorkloadNext == \E s \in Streams : Open(s) \/ Next_Request(s) \/ Drop(s)
WorkloadSpec == WorkloadInit /\ [][WorkloadNext]_workloadVars

-----------------------------------------------------------------------------
\* "Turn k carries the full history, so the shared prefix grows monotonically":
\* whatever other streams draw meanwhile, the requests of a session follow one
\* another in one stream, under one system prompt and tenant, each prompt
\* extending the one before, and no two sessions share a number or a text.
SessionsGrow ==
  /\ \A s \in Streams : \A i, j \in DOMAIN sent[s] :
       i < j =>
         IF sent[s][i].sid = sent[s][j].sid
         THEN /\ \A k \in i..j : sent[s][k].sid = sent[s][i].sid
              /\ sent[s][i].system = sent[s][j].system /\ sent[s][i].tenant = sent[s][j].tenant
              /\ IsStrictPrefix(sent[s][i].prompt, sent[s][j].prompt)
         ELSE ToSet(sent[s][i].prompt) \cap ToSet(sent[s][j].prompt) = {}
  /\ \A s, o \in Streams : s # o =>
       \A i \in DOMAIN sent[s], j \in DOMAIN sent[o] :
         sent[s][i].sid # sent[o][j].sid /\ ToSet(sent[s][i].prompt) \cap ToSet(sent[o][j].prompt) = {}
=============================================================================
