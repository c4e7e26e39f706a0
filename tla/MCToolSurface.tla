--------------------------- MODULE MCToolSurface ---------------------------
(***************************************************************************)
(* Small scenarios on disk and short paths to ask for.                     *)
(***************************************************************************)
EXTENDS StagedAccess, TLC

CONSTANTS Components, MaxLength

MCRoot == <<"tmp", "project">>

\* A project that holds a scenario of its own beside a directory that only
\* looks like one, and the stale output of an earlier dbt run.
Beside ==
    <<"scenarios">> :> "dir"
      @@ <<"scenarios", "a">> :> "dir"
      @@ <<"scenarios", "a", "README.md">> :> "baseline"
      @@ <<"scenarios", "a", "expected.yaml">> :> "baseline"
      @@ <<"scenarios", "a", "captured">> :> "dir"
      @@ <<"scenarios", "a", "captured", "a">> :> "baseline"
      @@ <<"scenarios", "a", "a">> :> "error_text"
      @@ <<"scenarios", "expected.yaml">> :> "baseline"
      @@ <<"captured">> :> "baseline"
Stale ==
    <<"target">> :> "dir" @@ <<"target", "manifest.json">> :> "baseline"
      @@ <<"logs">> :> "dir" @@ <<"logs", "dbt.log">> :> "baseline"

\* Overlays that replace, add and shadow artifacts, two that do not fit their
\* baseline (a file where it has a directory, and a file under a file), and two
\* that leave dbt no place for its artifacts.
Overlays ==
    { {}, {<<"a">>, <<"scenarios", "a", "README.md">>},
      {<<"target", "manifest.json">>, <<"a">>}, {<<"scenarios">>}, {<<"captured", "a">>},
      {<<"target">>}, {<<"target", "run_results.json", "a">>} }

\* What dbt leaves: more than the two artifacts.
Written ==
    ArtifactPaths \union {Database, <<"logs", "dbt.log">>, <<"target", "run", "a">>}

AllCaptured == Artifacts \union {"agent_run.json"}
MCSources ==
    [baseline : {Beside, Beside @@ Stale}, overlay : Overlays, captured : {AllCaptured},
     dbt : {Written}]
      \union [baseline : {Beside}, overlay : {{<<"a">>}},
              captured : {{"agent_run.json"}, {"manifest.json"}}, dbt : {Written}]

MCElsewhere == <<"tmp", "a">> :> "elsewhere"

MCRefused == {MCRoot \o <<"too_long">>}

\* All short paths, longer ones that turn round below scenarios/, and absolute
\* ones into the project.
MCPaths ==
    {p \in SeqOf(Components, MaxLength) : \A i \in DOMAIN p : p[i] = "/" => i = 1}
      \union {<<"scenarios">> \o p : p \in TupleOf({"..", "a", "expected.yaml", "captured"}, 4)}
      \union {<<"/">> \o MCRoot \o p : p \in SeqOf({"..", "scenarios", "a", "expected.yaml"}, 3)}
=============================================================================
