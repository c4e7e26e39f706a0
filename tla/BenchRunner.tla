---------------------------- MODULE BenchRunner ----------------------------
(***************************************************************************)
(* cli.cli, runner.run_all and runner.run_scenario: one invocation of      *)
(* ambesa-bench, from the flags to the exit code.  Scenarios are staged,   *)
(* run and graded one after the other; an exception in any of them leaves  *)
(* run_all and ends the process with a traceback and exit code 1.          *)
(*                                                                         *)
(* What the agent does and how its run grades is left open here (AgentLoop, *)
(* RecordReplay and Grader say): it returns or raises, and is green or not. *)
(***************************************************************************)
EXTENDS Naturals, Sequences, FiniteSets, SequencesExt

CONSTANTS
    Sites,             \* what may be on disk
    Invocations        \* flags and environment

Provenances == {"canonical_fixture", "public_incident_replay", "production_incident"}

\* A scenario directory: what it holds of what run_scenario looks for.
Scenario == [name : STRING,
             contract : {"valid", "invalid", "absent"},   \* expected.yaml
             provenance : Provenances,                    \* what a valid one says
             captured : BOOLEAN,                          \* captured/
             fits : BOOLEAN,                              \* overlay/ over the baseline
             artifacts : BOOLEAN,                         \* manifest + run_results
             recording : BOOLEAN]                         \* agent_run.json

\* What discover_scenarios takes for a scenario.
Discoverable == {s \in Scenario : s.contract # "absent"}

\* The scenarios root, its directories in sorted order, and the fixture root.
Site == [rootExists : BOOLEAN, dirs : Seq(Scenario),
         fixtureExists : BOOLEAN, baseline : BOOLEAN]

Modes == {"recording", "replay", "live"}

\* only is the set of --scenarios names, {} when the flag is not given; agent
\* says whether --agent was given and whether it resolves, rootGiven and
\* fixtureGiven whether --scenarios-root and --fixture-root were.
Invocation == [mode : Modes, strict : BOOLEAN, only : SUBSET STRING,
               rootGiven : BOOLEAN, fixtureGiven : BOOLEAN,
               agent : {"default", "custom", "unresolved"}, apiKey : BOOLEAN]

ASSUME BenchAssumption ==
    /\ \A site \in Sites :
          /\ site \in Site
          /\ site.baseline => site.fixtureExists
          /\ \A i, j \in DOMAIN site.dirs : site.dirs[i].name = site.dirs[j].name => i = j
    /\ Invocations \subseteq Invocation

VARIABLES
    site, invocation,  \* fixed for the run
    pc,                \* "start", "next" scenario, "staged", "loaded", "ran", "exited"
    todo,              \* the selected scenarios not yet graded, in order
    staged,            \* scenarios whose temporary tree is on disk
    ran,               \* scenarios an agent was run on, in order
    results,           \* the list run_all builds, [name, green]
    score,             \* the TOTAL row of the table, once it is printed
    exitCode           \* 0, 1 or 2; NotExited before

inputs == <<site, invocation>>
benchVars == <<inputs, pc, todo, staged, ran, results, score, exitCode>>

NotExited == 9
NoScore == [passed |-> 0, of |-> 0, printed |-> FALSE]

-----------------------------------------------------------------------------
\* The members of a finite set of numbers, one after the other.
InOrder(S) ==
    CHOOSE f \in [1 .. Cardinality(S) -> S] :
        \A i, j \in DOMAIN f : i < j => f[i] < f[j]

KeptByName(dirs, only) ==
    {i \in DOMAIN dirs :
        IF only = {} THEN dirs[i].contract # "absent" ELSE dirs[i].name \in only}

\* discover_scenarios keeps the directories with a contract; run_all those
\* that --scenarios names, if it names any.
Kept(dirs, only) ==
    {i \in DOMAIN dirs :
        dirs[i].contract # "absent" /\ (only = {} \/ dirs[i].name \in only)}

Selected(dirs, only) ==
    [k \in 1 .. Cardinality(Kept(dirs, only)) |-> dirs[InOrder(Kept(dirs, only))[k]]]

Exit(code) == pc' = "exited" /\ exitCode' = code

\* An exception nobody catches.
Crash == Exit(1) /\ UNCHANGED <<inputs, todo, results, score>>

\* load_agent runs, and may raise, and an agent is run on every scenario in
\* the modes that need one.
NeedsAgent == invocation.mode # "recording"

Init ==
    /\ site \in Sites
    /\ invocation \in Invocations
    /\ pc = "start"
    /\ todo = << >>
    /\ staged = {}
    /\ ran = << >>
    /\ results = << >>
    /\ score = NoScore
    /\ exitCode = NotExited

\* click wants a --scenarios-root and a --fixture-root that exist.
RootsExist ==
    /\ invocation.rootGiven => site.rootExists
    /\ invocation.fixtureGiven => site.fixtureExists

RefuseFlags ==
    /\ pc = "start"
    /\ ~RootsExist
    /\ Exit(2)
    /\ UNCHANGED <<inputs, todo, staged, ran, results, score>>

FlagsAccepted == pc = "start" /\ RootsExist

AgentUnresolved ==
    /\ FlagsAccepted
    /\ NeedsAgent /\ invocation.agent = "unresolved"
    /\ Crash
    /\ UNCHANGED <<staged, ran>>

AgentResolved == NeedsAgent => invocation.agent # "unresolved"

\* Live mode without a key is refused, whichever agent was given.
RefuseLive ==
    /\ FlagsAccepted /\ AgentResolved
    /\ invocation.mode = "live" /\ ~invocation.apiKey
    /\ Exit(2)
    /\ UNCHANGED <<inputs, todo, staged, ran, results, score>>

Accepted ==
    /\ FlagsAccepted /\ AgentResolved
    /\ invocation.mode = "live" => invocation.apiKey

\* get_provider needs the provider's library.
ClientRaises ==
    /\ Accepted
    /\ invocation.mode = "live"
    /\ Crash
    /\ UNCHANGED <<staged, ran>>

\* _default_scenarios_root may name a directory that is not there.
DiscoverRaises ==
    /\ Accepted
    /\ ~site.rootExists
    /\ Crash
    /\ UNCHANGED <<staged, ran>>

Discover ==
    /\ Accepted
    /\ site.rootExists
    /\ todo' = Selected(site.dirs, invocation.only)
    /\ pc' = "next"
    /\ UNCHANGED <<inputs, staged, ran, results, score, exitCode>>

\* What stage_project copies is there, and no file of it meets a directory.
Stages(s) == site.baseline /\ s.fits /\ s.artifacts

\* run_scenario up to stage_project, into a tree of the scenario's own.
Stage ==
    /\ pc = "next" /\ todo # << >>
    /\ Head(todo).captured /\ Stages(Head(todo))
    /\ staged' = staged \union {Head(todo).name}
    /\ pc' = "staged"
    /\ UNCHANGED <<inputs, todo, ran, results, score, exitCode>>

\* No captured/: raised before anything is staged.  Else raised by a copy of
\* stage_project, when the temporary directory is there.
StageRaises ==
    /\ pc = "next" /\ todo # << >>
    /\ \/ ~Head(todo).captured /\ UNCHANGED staged
       \/ /\ Head(todo).captured /\ ~Stages(Head(todo))
          /\ staged' = staged \union {Head(todo).name}
    /\ Crash
    /\ UNCHANGED ran

\* What every mode reads before it does anything else: live mode loads the
\* recording too.
Loads(s) == s.contract = "valid" /\ s.recording

LoadUnchecked ==
    /\ pc = "staged"
    /\ pc' = "loaded"
    /\ UNCHANGED <<inputs, todo, staged, ran, results, score, exitCode>>

Load ==
    /\ pc = "staged"
    /\ Loads(Head(todo))
    /\ pc' = "loaded"
    /\ UNCHANGED <<inputs, todo, staged, ran, results, score, exitCode>>

LoadRaises ==
    /\ pc = "staged"
    /\ ~Loads(Head(todo))
    /\ Crash
    /\ UNCHANGED <<staged, ran>>

\* _run_replay and _run_live await the agent; a recording is its own run.
RunAgent ==
    /\ pc = "loaded"
    /\ ran' = IF NeedsAgent THEN Append(ran, Head(todo).name) ELSE ran
    /\ pc' = "ran"
    /\ UNCHANGED <<inputs, todo, staged, results, score, exitCode>>

AgentRaises ==
    /\ pc = "loaded"
    /\ NeedsAgent
    /\ ran' = Append(ran, Head(todo).name)
    /\ Crash
    /\ UNCHANGED staged

GradeOutOfOrder(green) ==
    /\ pc = "ran"
    /\ results' = <<[name |-> Head(todo).name, green |-> green]>> \o results
    /\ todo' = Tail(todo)
    /\ pc' = "next"
    /\ UNCHANGED <<inputs, staged, ran, score, exitCode>>

\* The mode's runner returns a BenchResult.
Grade(green) ==
    /\ pc = "ran"
    /\ results' = Append(results, [name |-> Head(todo).name, green |-> green])
    /\ todo' = Tail(todo)
    /\ pc' = "next"
    /\ UNCHANGED <<inputs, staged, ran, score, exitCode>>

SkipScenario ==
    /\ pc = "ran"
    /\ todo' = Tail(todo)
    /\ pc' = "next"
    /\ UNCHANGED <<inputs, staged, ran, results, score, exitCode>>

RetryScenario ==
    /\ pc = "ran"
    /\ pc' = "staged"
    /\ ran' = IF NeedsAgent THEN Front(ran) ELSE ran
    /\ UNCHANGED <<inputs, todo, staged, results, score, exitCode>>

\* grade() raises when the fix validator cannot read the file a diff names.
GradeRaises ==
    /\ pc = "ran"
    /\ Crash
    /\ UNCHANGED <<staged, ran>>

Greens == {i \in DOMAIN results : results[i].green}
AnyRed == Greens # DOMAIN results

\* _format_markdown: the last row adds up all the others.
TotalRow == [passed |-> Cardinality(Greens), of |-> Len(results), printed |-> TRUE]

\* The table is printed, then --strict decides.
ReportLenient ==
    /\ pc = "next" /\ todo = << >>
    /\ score' = TotalRow
    /\ Exit(IF invocation.strict /\ Greens = {} THEN 1 ELSE 0)
    /\ UNCHANGED <<inputs, todo, staged, ran, results>>

Report ==
    /\ pc = "next" /\ todo = << >>
    /\ score' = TotalRow
    /\ Exit(IF invocation.strict /\ AnyRed THEN 1 ELSE 0)
    /\ UNCHANGED <<inputs, todo, staged, ran, results>>

Step ==
    \/ RefuseFlags
    \/ AgentUnresolved
    \/ RefuseLive
    \/ ClientRaises
    \/ DiscoverRaises
    \/ Discover
    \/ Stage
    \/ StageRaises
    \/ Load
    \/ LoadRaises
    \/ RunAgent
    \/ AgentRaises
    \/ \E green \in BOOLEAN : Grade(green)
    \/ GradeRaises
    \/ Report

Exited == pc = "exited" /\ UNCHANGED benchVars

Next == Step \/ Exited

\* One sequential process; agents return or raise.
Spec == Init /\ [][Next]_benchVars /\ WF_benchVars(Step)
-----------------------------------------------------------------------------
Names(seq) == [i \in DOMAIN seq |-> seq[i].name]
Suite == Selected(site.dirs, invocation.only)

\* The type invariant; only what discover_scenarios found is worked on.
TypeOK ==
    /\ site \in Sites /\ invocation \in Invocations
    /\ pc \in {"start", "next", "staged", "loaded", "ran", "exited"}
    /\ todo \in Seq(Discoverable)
    /\ staged \subseteq STRING
    /\ ran \in Seq(STRING)
    /\ results \in Seq([name : STRING, green : BOOLEAN])
    /\ score \in [passed : Nat, of : Nat, printed : BOOLEAN]
    /\ IF pc = "exited" THEN exitCode \in {0, 1, 2} ELSE exitCode = NotExited

Working == pc \in {"staged", "loaded", "ran"}

\* The suite is worked through in order and nothing is lost or left over on
\* the way: the trees on disk are those of the graded scenarios and of the one
\* worked on, at most one, also when it raised and ended the suite; and once
\* there is a tree, what is graded and what was still to do make up the
\* selection.
WorkedInOrder ==
    \E n \in {Len(results), Len(results) + 1} :
        /\ n =< Len(Suite)
        /\ staged = {Suite[i].name : i \in 1 .. n}
        /\ pc # "exited" => (n = Len(results) + 1 <=> Working)
        /\ n > 0 \/ Working \/ pc = "next" => Names(results) \o Names(todo) = Names(Suite)

\* What the agent's calls were paid for: it is run once on each scenario that
\* is graded, and on at most one that is not, which then ended the suite; and
\* never on a scenario whose contract or recording does not load.
NoAgentRunInVain ==
    /\ \A i \in DOMAIN ran : \E s \in Range(Suite) : s.name = ran[i] /\ Loads(s)
    /\ ran = IF ~NeedsAgent THEN << >>
             ELSE SubSeq(Names(Suite), 1, Len(ran))
    /\ NeedsAgent => Len(ran) - Len(results) \in {0, 1}
    /\ NeedsAgent /\ Len(ran) # Len(results) => pc = "ran" \/ exitCode = 1

\* What the exit code and the table tell a CI job: a table is always the whole
\* selection's, 0 means it was printed and under --strict that all is green,
\* 1 means a red scenario under --strict or a crash that printed nothing.
ExitCodeHonest ==
    LET allGreen == \A i \in DOMAIN results : results[i].green
    IN  /\ score.printed => Names(results) = Names(Suite)
        /\ exitCode = 0 => score.printed /\ (invocation.strict => allGreen)
        /\ exitCode = 1 => ~score.printed \/ (invocation.strict /\ ~allGreen)
        /\ exitCode = 2 => staged = {} /\ ran = << >>

\* Every invocation ends.
InvocationEnds == <>(pc = "exited")

\* The invocation implements the all-or-nothing report.
Promise == INSTANCE SuiteReport WITH
    suite <- Names(Suite), gate <- invocation.strict, graded <- Names(results),
    red <- \E i \in DOMAIN results : ~results[i].green,
    published <- score.printed, Running <- NotExited

ImplementsSuiteReport == Promise!Spec

\* contract.py on private scenarios (production_incident): they never
\* aggregate into the public score.
Public(s) == s.provenance # "production_incident"

PrivateNeverCounted ==
    score.printed => score.of = Cardinality({i \in DOMAIN Suite : Public(Suite[i])})
=============================================================================
