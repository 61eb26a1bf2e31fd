------------------------------ MODULE MCFleet ------------------------------
(***************************************************************************)
(* What stands around the engine, one at a time, the initial state says    *)
(* which: the server with two requests that may share an id, one of them a *)
(* stream; the proxy with two replicas and three requests of one session   *)
(* that share the replica their prefixes hash to (two have one system      *)
(* prompt, one streams); the cluster simulator; the contiguous allocator;  *)
(* the dashboard over two servers; the KV monitor; the acceptance watch.   *)
(***************************************************************************)
EXTENDS Server, Proxy, Cluster, Contiguous, Telemetry

VARIABLE part

MCRing == <<2, 2, 1>>
MCPlace == [k1 |-> 1, k2 |-> 2, s1 |-> 3]
MCSystemKey == <<"k1", "k1", "k2">>
MCSessionKey == <<"s1", "none", "s1">>
MCTokens == <<1, 2, 1>>
Router(name, factor) == [name |-> name, factor |-> factor, turn |-> 0]
MCRouters == {Router("round_robin", 0), Router("prefix_affinity", 125), Router("session_affinity", 0)}
Gauge(w, r, p, s) == [waiting |-> w, running |-> r, pinned |-> p, swapped |-> s]
MCGauges == {Gauge(1, 1, 85, 0), Gauge(3, 1, 95, 1)}

MCInit ==
  /\ part \in {"server", "proxy", "cluster", "contiguous", "dashboard", "monitor", "watch"}
  /\ ServerInit /\ Init /\ ClusterInit /\ ContiguousInit /\ TelemetryInit /\ WatchInit
  /\ want["r1"] = 1 /\ want["r2"] = 2
  /\ id_of["r1"] = "x" /\ (part # "server" => id_of["r2"] = "x")
  /\ (part # "watch" => drafted = 0)
  /\ router = Router("prefix_affinity", 125)
  /\ arrival_ms[1] = 0
  /\ (part = "cluster" => output_tokens[1] = 2 /\ (~Disaggregated => prompt_tokens[1] = 3))
  /\ (Disaggregated => max_num_batched_tokens = 1 /\ \A r \in R : prompt_tokens[r] = 1)
  /\ (part # "cluster" =>
        /\ topology = "chunked" /\ n_decode = 1 /\ max_num_batched_tokens = 1
        /\ \A r \in R : arrival_ms[r] = 0 /\ prompt_tokens[r] = 1 /\ output_tokens[r] = 1)

\* The dashboard reads tokens and the monitor preemptions: neither part counts
\* what it does not read.
MCVars == <<part, serverVars, vars, clusterVars, slotVars, telemetryVars, watchVars>>
Answering == part = "server" /\ UNCHANGED <<part, vars, clusterVars, slotVars, telemetryVars, watchVars>>
MCNext ==
  \/ Answering /\ ServerNext
  \/ /\ UNCHANGED <<part, serverVars>>
     /\ \/ part = "proxy" /\ Next /\ UNCHANGED <<clusterVars, slotVars, telemetryVars, watchVars>>
        \/ part = "cluster" /\ ClusterNext /\ UNCHANGED <<vars, slotVars, telemetryVars, watchVars>>
        \/ part = "contiguous" /\ ContiguousNext /\ UNCHANGED <<vars, clusterVars, telemetryVars, watchVars>>
        \/ /\ \/ /\ part = "dashboard" /\ (Serve \/ Ticks \/ DashboardPoll)
                 /\ \A e \in Endpoints : counter'[e].preemptions = 0
              \/ part = "monitor" /\ (Serve \/ Scrape) /\ produced' = produced
           /\ UNCHANGED <<vars, clusterVars, slotVars, watchVars>>
        \/ part = "watch" /\ WatchNext /\ UNCHANGED <<vars, clusterVars, slotVars, telemetryVars>>

\* The fairness of ServerSpec.
MCSpec ==
  /\ MCInit /\ [][MCNext]_MCVars
  /\ \A r \in Seqs : SF_serverVars(Answering /\ Outside /\ Handler(r))
  /\ WF_serverVars(Answering /\ EndStep)
  /\ WF_serverVars(Answering /\ EngineMoves /\ loop' = "emitted")
=============================================================================
