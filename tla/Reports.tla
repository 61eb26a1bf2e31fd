------------------------------ MODULE Reports ------------------------------
(***************************************************************************)
(* From measurements to a publication: bench.py sweep and rate, and        *)
(* teardown.py run, measure load points and save runs; teardown.py verify  *)
(* is the gate, publish makes the site of the runs in the directory.       *)
(*                                                                         *)
(* A load point keeps what the gate looks at: does it meet the SLO, has it *)
(* fewer than 100 answers, did summarize or the command add a warning.     *)
(* X_Y is a wrong variant of X, unused by the model.                       *)
(***************************************************************************)
EXTENDS Integers, Sequences, FiniteSets, FiniteSetsExt, SequencesExt

CONSTANTS
  Configs,                     \* <<[description, simulated, gpus, model, engine], ...>>, by
                               \* name: the last three whether they are known
  Levels, Rates,               \* load points of the ladder; open-loop rates at the knee
  Outcomes,                    \* [meets, few, warned] a load point may turn out
  MaxFiles                     \* bound: saved runs

ASSUME ReportsAssumption ==
  /\ {Levels, MaxFiles} \subseteq Nat \ {0} /\ Rates \in Nat
  /\ Outcomes \subseteq [meets : BOOLEAN, few : BOOLEAN, warned : BOOLEAN]
  /\ \A i \in DOMAIN Configs :
       {Configs[i].simulated, Configs[i].gpus, Configs[i].model, Configs[i].engine} \subseteq BOOLEAN

VARIABLES
  command,                     \* "none", "sweep" or "rate" (bench.py), "run" (teardown.py)
  config,                      \* the configuration being measured
  points,                      \* its summaries so far
  tree_dirty,                  \* git status
  files,                       \* results/*.json, in the order glob sorts them
  gate,                        \* what verify said last: "none", "ok", "blocked"
  site                         \* the published report: what it shows per description

reportVars == <<command, config, points, tree_dirty, files, gate, site>>
Nothing == [shown |-> <<>>, caveats |-> <<>>, watermark |-> FALSE]

-----------------------------------------------------------------------------
\* find_knee: the highest concurrency whose goodput is enough, 0 without one.
Knee(ps) == Max({0} \cup {i \in 1..Len(ps) : i <= Levels /\ ps[i].meets})

\* The ladder (of rates, for rate), then - teardown only - the open loop around
\* the knee.
Planned == Levels + (IF command = "run" /\ Len(points) >= Levels /\ Knee(points) > 0 THEN Rates ELSE 0)
Measured == Len(points) >= Planned

\* The harness starts on a configuration whose endpoint answers.
Start ==
  /\ command = "none" /\ Len(files) < MaxFiles
  /\ command' \in {"sweep", "rate", "run"} /\ config' \in DOMAIN Configs
  /\ points' = <<>>
  /\ UNCHANGED <<tree_dirty, files, gate, site>>

\* Only the sweep warns of a sample that cannot carry a p99.
MeasurePoint ==
  /\ command # "none" /\ ~Measured
  /\ \E o \in Outcomes :
       points' = Append(points, [o EXCEPT !.warned = @ \/ (o.few /\ command = "sweep")])
  /\ UNCHANGED <<command, config, tree_dirty, files, gate, site>>

\* RunMeta is made after the last point: git_info reads what the tree is by
\* then, and a git command that fails reads as no SHA, or as a clean tree.
GitInfos == [sha : BOOLEAN, dirty : {FALSE, tree_dirty}]

\* validate: the reasons a run must not be published.
Problems(c, git, source) ==
       (IF ~Configs[c].model THEN {"no_model"} ELSE {})
  \cup (IF ~Configs[c].engine THEN {"no_engine"} ELSE {})
  \cup (IF ~git.sha THEN {"no_sha"} ELSE {})
  \cup (IF git.dirty THEN {"dirty"} ELSE {})
  \cup (IF source = "heuristic" THEN {"heuristic"} ELSE {})
  \cup (IF ~Configs[c].simulated /\ ~Configs[c].gpus THEN {"no_gpu"} ELSE {})

\* A run is saved under its configuration's name and the time.
Save ==
  /\ command # "none" /\ Measured
  /\ \E source \in {"server_usage", "heuristic", "heuristic,server_usage", ""}, git \in GitInfos :
       LET mine == [config |-> config,
                    problems |-> Problems(config, git, source),
                    warned |-> \E i \in DOMAIN points : points[i].warned,
                    few |-> \E i \in DOMAIN points : points[i].few,
                    knee |-> IF command = "rate" THEN 0 ELSE Knee(points)]
           at == Cardinality({i \in DOMAIN files : files[i].config <= config}) + 1
       IN files' = InsertAt(files, at, mine)
  /\ command' = "none" /\ points' = <<>>
  /\ UNCHANGED <<config, tree_dirty, gate, site>>

\* An exception or an interrupt ends the command: nothing is saved.
Abort ==
  /\ command # "none"
  /\ command' = "none" /\ points' = <<>>
  /\ UNCHANGED <<config, tree_dirty, files, gate, site>>

\* Somebody edits, or commits.
Edit == tree_dirty' = ~tree_dirty /\ UNCHANGED <<command, config, points, files, gate, site>>

-----------------------------------------------------------------------------
\* cmd_verify, without --allow-caveats.
Blocked(f) == f.problems # {} \/ f.warned \/ f.few
Verify ==
  /\ files # <<>>
  /\ gate' = (IF \E i \in DOMAIN files : Blocked(files[i]) THEN "blocked" ELSE "ok")
  /\ UNCHANGED <<command, config, points, tree_dirty, files, site>>

\* cmd_publish goes through the runs in order; a description is a key of both
\* dictionaries, and a run without caveats leaves the entry there is.
CaveatsOf(f) == f.problems \cup (IF f.warned THEN {"warning"} ELSE {})
Described(f) == Configs[f.config].description
Entered(dict, k, v) == [x \in DOMAIN dict \cup {k} |-> IF x = k THEN v ELSE dict[x]]
Caveats_First(s, f) ==
  IF CaveatsOf(f) = {} \/ Described(f) \in DOMAIN s.caveats THEN s.caveats
  ELSE Entered(s.caveats, Described(f), CaveatsOf(f))
Caveats(s, f) ==
  IF CaveatsOf(f) = {} THEN s.caveats ELSE Entered(s.caveats, Described(f), CaveatsOf(f))
Marked(s, f) == s.watermark \/ Configs[f.config].simulated
WithRun(s, f) ==
  [shown |-> Entered(s.shown, Described(f), f), caveats |-> Caveats(s, f), watermark |-> Marked(s, f)]
SiteOf(q) ==
  LET made[i \in 0..Len(q)] == IF i = 0 THEN Nothing ELSE WithRun(made[i - 1], q[i])
  IN made[Len(q)]
Publish ==
  /\ files # <<>>
  /\ site' = SiteOf(files)
  /\ UNCHANGED <<command, config, points, tree_dirty, files, gate>>

ReportsInit ==
  /\ command = "none" /\ config = 1 /\ points = <<>> /\ tree_dirty \in BOOLEAN
  /\ files = <<>> /\ gate = "none" /\ site = Nothing
ReportsNext == Start \/ MeasurePoint \/ Save \/ Abort \/ Edit \/ Verify \/ Publish
ReportsSpec == ReportsInit /\ [][ReportsNext]_reportVars

-----------------------------------------------------------------------------
\* "Re-run with --allow-caveats to publish these with the caveats printed in
\* the report body": the numbers on the site carry every problem and warning of
\* the very run they are from, whatever runs share its description, and stand
\* under the SIMULATED banner if that run was simulated.  (The samples verify
\* counts itself are no caveat of the site.)
PublishedWithCaveats ==
  \A d \in DOMAIN site.shown :
    LET f == site.shown[d]
    IN /\ CaveatsOf(f) # {} => d \in DOMAIN site.caveats /\ CaveatsOf(f) \subseteq site.caveats[d]
       /\ Configs[f.config].simulated => site.watermark
=============================================================================
