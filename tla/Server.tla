------------------------------- MODULE Server -------------------------------
(***************************************************************************)
(* The mock inference server, projects/01-inference-server/mock_server.py: *)
(* one coroutine per HTTP request, and the loop that steps the engine (a   *)
(* TokenSource) and hands out its tokens, all in one event loop: an action *)
(* is what runs between two awaits, except that a step of the engine is    *)
(* several actions during which no handler runs.                           *)
(*                                                                         *)
(* A handler is named by its sequence; its Pending object likewise.  Token *)
(* texts, prompts, prices and durations are left out; a pause or a slow    *)
(* step may last longer than the 120 seconds a handler waits for a token.  *)
(* X_Y is a wrong variant of X, unused by the model.                       *)
(***************************************************************************)
EXTENDS TokenSource, Sequences, FiniteSets, SequencesExt

CONSTANTS
  Ids,                   \* x-request-id headers the requests may carry
  StreamSeqs,               \* the requests with "stream": true
  Wants,                 \* the max_tokens a request may ask for
  MaxNumSeqs,            \* the engine's batch
  Window,                \* finished sequences _drain looks at (256)
  MaxResets,             \* bound: calls of /sim/reset
  CanCrash               \* whether EngineSim.step may raise

Nobody == "nobody"

ASSUME ServerAssumption ==
  /\ Nobody \notin Seqs
  /\ StreamSeqs \subseteq Seqs /\ Wants \subseteq Nat \ {0}
  /\ MaxNumSeqs \in Nat \ {0} /\ Window \in Nat \ {0}
  /\ MaxResets \in Nat /\ CanCrash \in BOOLEAN

VARIABLES
  id_of,                 \* the id each request carries; nothing makes ids unique
  loop,                  \* the engine's task: before a step, in it, asleep after it
  paused,                \* FaultState.paused
  finished,              \* sim.finished
  pending, seen,         \* per id: ENGINE.pending and ENGINE._seen
  h,                     \* where a request's handler stands
  queue, done,           \* of its Pending: tokens not consumed yet, the event
  got,                   \* tokens its client has received
  resets,                \* how often the simulator was replaced
  first_use              \* history: the requests whose id was new to the simulator

tableVars == <<pending, seen, h, queue, done, got, first_use>>
engineVars == <<sourceVars, id_of, loop, paused, finished, resets>>
serverVars == <<engineVars, tableVars>>

Waiting == {"check", "get"}          \* inside the token loop of _non_streaming or _sse
Cut == "cut"                         \* answered after a timeout
Outside == loop \in {"idle", "sleep", "dead"}     \* the engine is not inside step()
Running == {s \in Seqs : status[s] = "running"}

-----------------------------------------------------------------------------
\* _handle refuses: an injected 503, or a prompt too long for the model.
Refuse(r) ==
  /\ h[r] = "new"
  /\ h' = [h EXCEPT ![r] = "refused"]
  /\ UNCHANGED <<engineVars, pending, seen, queue, done, got, first_use>>

\* An id nobody has used since the simulator was built.
Fresh(i) == /\ seen[i] = 0 /\ pending[i] = Nobody
            /\ \A s \in Seqs : id_of[s] = i => status[s] \in {"out", "dropped"}

\* _handle up to its first await: the request is in the simulator.
Accept(r) ==
  /\ h[r] = "new"
  /\ Submit(r)
  /\ pending' = [pending EXCEPT ![id_of[r]] = r]
  /\ h' = [h EXCEPT ![r] = IF r \in StreamSeqs THEN "opening" ELSE "check"]
  /\ first_use' = IF Fresh(id_of[r]) THEN first_use \cup {r} ELSE first_use \ {r}
  /\ UNCHANGED <<id_of, loop, paused, finished, seen, queue, done, got, resets>>

\* The role frame of a stream has been sent.
RoleFrame(r) ==
  /\ h[r] = "opening"
  /\ h' = [h EXCEPT ![r] = "check"]
  /\ UNCHANGED <<engineVars, pending, seen, queue, done, got, first_use>>

\* The loop's test: leave it, or wait for the next token.
IsOver_IgnoresQueue(r) == done[r]
IsOver(r) == done[r] /\ queue[r] = 0

\* ENGINE.pending.pop(rid, None), whoever's entry that is.
Popped_Kept(i) == pending
Popped(i) == [pending EXCEPT ![i] = Nobody]

Check(r) ==
  /\ h[r] = "check"
  /\ IF IsOver(r)
     THEN h' = [h EXCEPT ![r] = "answered"] /\ pending' = Popped(id_of[r])
     ELSE h' = [h EXCEPT ![r] = "get"] /\ UNCHANGED pending
  /\ UNCHANGED <<engineVars, seen, queue, done, got, first_use>>

Get(r) ==
  /\ h[r] = "get" /\ queue[r] > 0
  /\ queue' = [queue EXCEPT ![r] = @ - 1]
  /\ got' = [got EXCEPT ![r] = @ + 1]
  /\ h' = [h EXCEPT ![r] = "check"]
  /\ UNCHANGED <<engineVars, pending, seen, done, first_use>>

\* wait_for gives up after 120 s: the answer ends here, finish_reason "length".
Timeout_Never(r) == FALSE /\ UNCHANGED serverVars
Timeout(r) ==
  /\ h[r] = "get" /\ queue[r] = 0
  /\ h' = [h EXCEPT ![r] = Cut]
  /\ pending' = Popped(id_of[r])
  /\ UNCHANGED <<engineVars, seen, queue, done, got, first_use>>

\* The client of a stream disconnects.  A body that was never started has no
\* finally block to run.
Disconnect(r) ==
  /\ r \in StreamSeqs /\ h[r] \in Waiting \cup {"opening"}
  /\ pending' = IF h[r] = "opening" THEN pending ELSE Popped(id_of[r])
  /\ h' = [h EXCEPT ![r] = IF h[r] = "opening" THEN "unstarted" ELSE "gone"]
  /\ UNCHANGED <<engineVars, seen, queue, done, got, first_use>>

-----------------------------------------------------------------------------
\* step() returns None when the engine has nothing to do; nor does it run paused.
BeginStep ==
  /\ loop = "idle" /\ ~paused
  /\ \E s \in Seqs : status[s] \in {"queued", "running"}
  /\ loop' = "step"
  /\ UNCHANGED <<sourceVars, id_of, paused, finished, resets, tableVars>>

\* Inside step(): admissions and preemptions, then one round of tokens, then
\* the finished sequences in order.
EngineMoves ==
  /\ \/ /\ loop = "step"
        /\ \/ \E s \in Seqs : \/ Cardinality(Running) < MaxNumSeqs /\ Admit(s)
                              \/ Evict(s)
           \/ Emit
        /\ loop' = IF status' = status THEN "emitted" ELSE "step"
        /\ UNCHANGED finished
     \/ /\ loop = "emitted"
        /\ \E s \in Seqs : Finish(s) /\ finished' = Append(finished, s)
        /\ UNCHANGED loop
  /\ UNCHANGED <<id_of, paused, resets, tableVars>>

\* step() returns with no finished sequence left in the batch.
EndStep ==
  /\ loop = "emitted" /\ \A s \in Running : generated[s] < want[s]
  /\ loop' = "sleep"
  /\ UNCHANGED <<sourceVars, id_of, paused, finished, resets, tableVars>>

\* An exception in step() ends the task; /health goes on saying "ok".
StepRaises ==
  /\ CanCrash /\ loop = "step"
  /\ Crash
  /\ loop' = "dead"
  /\ UNCHANGED <<id_of, paused, finished, resets, tableVars>>

\* One iteration of _drain: the new tokens of s go to the Pending of its id.
DrainOne_FromZero(acc, s) ==
  LET i == id_of[s]
      p == pending[i]
  IN IF p = Nobody THEN acc
     ELSE [queue |-> [acc.queue EXCEPT ![p] = @ + generated[s]],
           seen |-> [acc.seen EXCEPT ![i] = generated[s]],
           done |-> IF generated[s] >= want[s] THEN acc.done \cup {p} ELSE acc.done]
DrainOne(acc, s) ==
  LET i == id_of[s]
      p == pending[i]
      new == IF generated[s] > acc.seen[i] THEN generated[s] - acc.seen[i] ELSE 0
  IN IF p = Nobody THEN acc
     ELSE [queue |-> [acc.queue EXCEPT ![p] = @ + new],
           seen |-> [acc.seen EXCEPT ![i] = @ + new],
           done |-> IF generated[s] >= want[s] THEN acc.done \cup {p} ELSE acc.done]

\* self.sim.finished[-256:]
Recent == IF Len(finished) <= Window THEN finished
          ELSE SubSeq(finished, Len(finished) - Window + 1, Len(finished))

Drained(order) ==
  LET after[k \in 0..Len(order)] ==
        IF k = 0 THEN [queue |-> queue, seen |-> seen, done |-> {s \in Seqs : done[s]}]
        ELSE DrainOne(after[k - 1], order[k])
  IN after[Len(order)]

\* The sleep is over.  The batch is drained in whatever order it is in.
Drain ==
  /\ loop = "sleep"
  /\ \E batch \in SetToSeqs(Running) :
       LET acc == Drained(batch \o Recent)
       IN /\ queue' = acc.queue
          /\ seen' = acc.seen
          /\ done' = [s \in Seqs |-> s \in acc.done]
  /\ loop' = "idle"
  /\ UNCHANGED <<sourceVars, id_of, paused, finished, pending, h, got, resets, first_use>>

\* /sim/fault
SetFault ==
  /\ Outside
  /\ paused' = ~paused
  /\ UNCHANGED <<sourceVars, id_of, loop, finished, resets, tableVars>>

\* /sim/reset: a new simulator under the handlers of the old one.
Reset ==
  /\ Outside /\ resets < MaxResets
  /\ status' = [s \in Seqs |-> IF status[s] = "out" THEN "out" ELSE "dropped"]
  /\ finished' = <<>>
  /\ pending' = [i \in Ids |-> Nobody]
  /\ seen' = [i \in Ids |-> 0]
  /\ resets' = resets + 1
  /\ UNCHANGED <<want, generated, alive, id_of, loop, paused, h, queue, done, got, first_use>>

-----------------------------------------------------------------------------
ServerInit ==
  /\ want \in [Seqs -> Wants] /\ status = [s \in Seqs |-> "out"] /\ SourceInit
  /\ id_of \in [Seqs -> Ids]
  /\ loop = "idle" /\ paused = FALSE /\ finished = <<>>
  /\ pending = [i \in Ids |-> Nobody] /\ seen = [i \in Ids |-> 0]
  /\ h = [r \in Seqs |-> "new"]
  /\ queue = [r \in Seqs |-> 0] /\ done = [r \in Seqs |-> FALSE]
  /\ got = [r \in Seqs |-> 0]
  /\ resets = 0 /\ first_use = {}

Handler(r) == RoleFrame(r) \/ Check(r) \/ Get(r) \/ Timeout(r)
Engine == BeginStep \/ EngineMoves \/ EndStep \/ Drain

ServerNext ==
  \/ /\ Outside
     /\ \E r \in Seqs : Refuse(r) \/ Accept(r) \/ Handler(r) \/ Disconnect(r)
  \/ Engine \/ StepRaises \/ SetFault \/ Reset

\* asyncio runs every ready callback whenever the engine's task sleeps, and
\* wait_for's timer fires.  The task sleeps again and again: it only skips its
\* sleep while the steps take longer than the time they simulate, and then
\* until the simulator is idle.  A step is ordinary code and returns.
ServerSpec ==
  /\ ServerInit /\ [][ServerNext]_serverVars
  /\ \A r \in Seqs : SF_serverVars(Outside /\ Handler(r))
  /\ WF_serverVars(EndStep) /\ WF_serverVars(EngineMoves /\ loop' = "emitted")

-----------------------------------------------------------------------------
\* Every variable has its type.
ServerTypeOK ==
  /\ want \in [Seqs -> Nat] /\ status \in [Seqs -> Status] /\ generated \in [Seqs -> Nat]
  /\ alive \in BOOLEAN /\ id_of \in [Seqs -> Ids] /\ paused \in BOOLEAN
  /\ loop \in {"idle", "step", "emitted", "sleep", "dead"}
  /\ finished \in Seq(Seqs)
  /\ pending \in [Ids -> Seqs \cup {Nobody}] /\ seen \in [Ids -> Nat]
  /\ h \in [Seqs -> {"new", "refused", "opening", "answered", "gone", "unstarted", Cut}
                  \cup Waiting]
  /\ queue \in [Seqs -> Nat] /\ done \in [Seqs -> BOOLEAN] /\ got \in [Seqs -> Nat]
  /\ resets \in 0..MaxResets /\ first_use \subseteq Seqs

\* A request whose id was new never receives more tokens than it asked for,
\* although preemption makes the engine produce some of them a second time, and
\* an answer that ended by itself is whole: neither a later request that takes
\* the id over, nor a reset, nor a preemption truncates it.
WholeAnswer ==
  \A r \in first_use : /\ got[r] + queue[r] <= want[r]
                       /\ h[r] = "answered" => got[r] = want[r]

\* Types hold, and every handler that ran to its end, answered, cut or left by
\* its client, has taken its entry out of ENGINE.pending: what is registered
\* belongs to a handler that still waits, or to a stream whose body the server
\* never started, whose entry stays for good.  And between two steps a registered
\* request that has finished knows it, as long as no more finish in one step
\* than _drain looks back at.
PendingIsLive ==
  /\ ServerTypeOK
  /\ \A i \in Ids :
       pending[i] # Nobody => h[pending[i]] \in Waiting \cup {"opening", "unstarted"}
  /\ (loop = "idle" /\ MaxNumSeqs <= Window) =>
       \A i \in DOMAIN finished :
         LET p == pending[id_of[finished[i]]]
         IN p = finished[i] => done[p]

\* Every request is answered, truncated or given up: a paused, dead or replaced
\* engine keeps no client for ever.
Responds == \A r \in Seqs : h[r] \in Waiting \cup {"opening"} ~>
              h[r] \in {"answered", Cut, "gone", "unstarted"}
=============================================================================
