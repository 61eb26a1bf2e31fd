----------------------------- MODULE TokenSource -----------------------------
(***************************************************************************)
(* What the rest of the program relies on of EngineSim: requests wait, run *)
(* in the batch, emit tokens there, may be thrown out of it and lose them, *)
(* and finish once, with what they asked for.  Engine implements it        *)
(* (EngineIsTokenSource) and Server is built on it.                        *)
(* X_Y is a wrong variant of X, unused by the model.                       *)
(***************************************************************************)
EXTENDS Naturals

CONSTANTS Seqs,      \* the requests that may be submitted to the engine
          Burst      \* tokens one step may emit for a sequence: 1 + spec_draft_tokens

ASSUME SourceAssumption == Burst \in Nat \ {0}

VARIABLES want,      \* SimRequest.output_tokens
          status,    \* which of the engine's queues holds the sequence
          generated, \* tokens emitted since its last admission
          alive      \* FALSE after an exception in step()

sourceVars == <<want, status, generated, alive>>
Status == {"out", "queued", "running", "finished", "dropped"}

\* submit
Submit(s) ==
  /\ status[s] = "out"
  /\ status' = [status EXCEPT ![s] = "queued"]
  /\ UNCHANGED <<want, generated, alive>>

\* waiting, or swapped, to running
Admit(s) ==
  /\ alive /\ status[s] = "queued"
  /\ status' = [status EXCEPT ![s] = "running"]
  /\ UNCHANGED <<want, generated, alive>>

\* One step's tokens: for any sequences of the batch and, as engine.py goes on
\* decoding a victim it has just preempted, for queued ones too; never more
\* than asked for.
Emit ==
  /\ alive
  /\ \E n \in [{s \in Seqs : status[s] \in {"queued", "running"}} -> 0..Burst] :
       /\ \A s \in DOMAIN n : generated[s] + n[s] <= want[s]
       /\ generated' = [s \in Seqs |-> IF s \in DOMAIN n THEN generated[s] + n[s]
                                       ELSE generated[s]]
  /\ UNCHANGED <<want, status, alive>>

\* Preemption, by recomputation (the tokens are lost) or by swapping.
Evict(s) ==
  /\ alive /\ status[s] = "running"
  /\ status' = [status EXCEPT ![s] = "queued"]
  /\ \E kept \in {0, generated[s]} : generated' = [generated EXCEPT ![s] = kept]
  /\ UNCHANGED <<want, alive>>

Finish(s) ==
  /\ alive /\ status[s] = "running" /\ generated[s] >= want[s]
  /\ status' = [status EXCEPT ![s] = "finished"]
  /\ UNCHANGED <<want, generated, alive>>

Crash == alive /\ alive' = FALSE /\ UNCHANGED <<want, status, generated>>

SourceInit ==
  /\ want \in [Seqs -> Nat \ {0}]
  /\ status \in [Seqs -> {"out", "queued"}]
  /\ generated = [s \in Seqs |-> 0]
  /\ alive = TRUE

SourceNext ==
  \/ \E s \in Seqs : Submit(s) \/ Admit(s) \/ Evict(s) \/ Finish(s)
  \/ Emit \/ Crash

SourceSpec == SourceInit /\ [][SourceNext]_sourceVars
=============================================================================
