# A verification development of ambesa-bench

`ambesa-bench` measures agents that diagnose broken dbt runs. It stages a dbt
project that fails, lets an agent read it through a few tools, and grades the
record of the run (diagnosis, proposed diff, tool calls, cost) against a
contract. This directory holds TLA+ models of that program, the TLC
configurations that check them on small instances, and TLAPS proofs of what
holds for every instance. Paths below are relative to `src/python/`.

## 1. The system

| Component | State it keeps | Operations | Talks to |
|---|---|---|---|
| Agent loop (`ambesa_bench/.../reference_agent.py`, `run`) | conversation, `AgentRun` record (iterations, totals, verdict) | one turn: check caps, ask the model, bill, then submit / give up / dispatch tools | provider, tools |
| Tool surface (`ambesa_core/.../tools/`) | none (manifest cache) | `read_file` behind the lab filter and the root check, `read_manifest_node` | staged tree |
| LLM provider (`ambesa_core/.../llm.py`) | price table | `complete`: a completion with tokens and an estimated cost, or an exception | model vendor |
| Recordings and `MockProvider` (`ambesa_core/.../testing.py`, `record.py` of scenario 01) | saved run, queue of completions | record, save, rebuild completions and incident, pop | loop |
| Project staging (`stage_project` of `runner.py`; `setup.sh` for the recorder) | a project directory | copy the baseline, lay the overlay over it, plant the dbt artifacts | tools, grader |
| Bench runner and CLI (`ambesa_bench/.../runner.py`, `cli.py`) | selected scenarios, results, temporary trees, exit code | stage, run in mode recording / replay / live, grade, report | all of the above |
| Contract (`ambesa_core/.../eval/contract.py`) | none | `load_expected`: validate `expected.yaml` | grader, runner |
| Grader (`ambesa_core/.../eval/grader.py`) | none | `grade` | fix validator |
| Reports (`ambesa_core/.../eval/reporting.py`, table of `cli.py`) | none | rows, totals, lists of failures | grade reports |
| Fix validator (`ambesa_core/.../fix_validate.py`) | none across calls | `git apply --check`, rebuild a malformed diff, check again | git |
| Prompt text, fixture data | none | formatting, data | |

The process is one sequential program: there are no threads, and the `await`s
of the loop wait for one thing at a time. What makes it hard is elsewhere:

* The **environment is adversarial by nature**: a model may answer anything
  (several submissions, unknown tools, malformed arguments, nothing), the
  provider and the tools may raise, git may time out.
* **Order inside a turn**: the iteration is put on the record before the answer
  is looked at, the caps are checked before a call and never after, the
  diagnosis is charged a total that must already contain the call it came in.
* **Two runs related by a file**: a replay feeds the loop with completions
  rebuilt from the record of another run, under other caps, on another tree.
* **Exceptions that cross components**: one raising scenario ends the suite, and
  with it what the agents of earlier scenarios were paid for.
* **Two of everything**: two trees (the recorder's and the staged one), two
  grades of a scenario, two printers of a report, two totals (money, tokens),
  kept by code that is not shared.

What makes each part correct: the loop keeps a conversation the vendor accepts,
stays within its budget, bills once and ends; the record says what happened; a
replay is the recorded run again and is graded like it; money and tokens answer
to each other; the agent sees the project the recorder saw, apart from what dbt
had left in it, and by a plain path none of the answer keys; the grader fails
closed, no contract clause can make up for another and none is lost on the way from
the author; every reader of a report is told the same; the validator vouches only
for what git took and rebuilds a diff only where it has one reading; the exit code
and the table tell the truth.

`PROJECT.json` lists the hazards one by one with the line each bites at and the
properties that would catch it.

## 2. The modules

An arrow says "uses" (EXTENDS or INSTANCE).

```
StagedAccess --> StagedProject --> ToolSurface <--+
                                                  +-- AgentLoop --refines--> MeteredRun
                                      Provider <--+     ^
                                                        |
                  RecordReplay  (two INSTANCEs of AgentLoop: recording and replay)
                     ^
                GradedReplay --> Grader <-- Reports <--+
                                                       +-- GradedContract
                                           Contract <--+
BenchRunner --refines--> SuiteReport         FixValidate

AgentLoop      <-- AgentLoopProofs <-- BillingProofs
RecordReplay   <-- ReplayProofs <-- GradedReplayProofs (also over GradedReplay)
StagedAccess   <-- StagedAccessProofs        GradedContract <-- GradingProofs
BenchRunner    <-- BenchRunnerProofs         FixValidate    <-- FixValidateProofs
MC*: the instances TLC checks
```

**AgentLoop** is `run`. `pc` is where the coroutine stands: `"loop"` (head),
`"awaiting"` (inside `provider.complete`), `"done"` (returned), `"raised"` (an
exception left `run`). `iterN`, `messages`, `iterations`, `totalCost`,
`diagnosis`, `fix`, `stopReason` are the local variables and the fields of
`run_record`. The loop head is `CallModel`, `HitCostCap` or
`ExhaustIterations`. What follows the answer up to the next head is one action,
as nothing else runs in between: `SubmitDiagnosis`, `MalformedSubmit`, `GiveUp`,
`RunTools`, `RaiseInTools`; `ProviderRaises` is the call that does not return.
A message is its role and the tool-use ids it carries; a completion is its
calls, its token usage and its cost. Latencies are added up and decide nothing,
so they are left out.

**Provider** is what `AnthropicProvider.complete` does with an answer: its
`tool_use` blocks become calls in their order, its usage fields a `TokenUsage`,
and `_PRICING` an estimated cost, in a unit in which every rate is a natural
number. `PricingAssumption` is what the table has in common for all its models: a
cached token is no dearer than another.

**ToolSurface** gives the tools as operators from a tree and an argument to
`"content"`, `"error"` (an answer that starts with `<error>`) or `"raise"`.
Paths are sequences of components and `resolve()` is a recursive function over
them. There are no symbolic links in a staged tree. A component `bad_name` stands
for one no system call takes (with a NUL character), and `project.refused` for the
places the system refuses to look at (a name too long, no permission): both leave
`read_file` as exceptions, like a path that escapes.

**StagedProject** is `stage_project`: a tree says of every path that it is a
directory or where the file comes from. The overlay's files are copied one by
one in any order, as `rglob` promises none; `copy2` onto a directory copies into
it; a copy that cannot be made raises and leaves the half-made tree behind.
`RecordedTree` is the tree `setup.sh` and dbt leave for the recorder: `profiles.yml`
and everything dbt writes (`source.dbt`: the artifacts, the database, logs and
compiled SQL, whatever it is) over the overlaid baseline. `Recordable` says when
they can: the overlay fits the baseline, `profiles.yml` and each file of dbt has a
place, and dbt writes a database and both artifacts. Whether `captured/` comes from
the dbt run whose tree the recorder saw is not assumed; no code compares them.

**StagedAccess** is staging followed by one call of `read_file`: what was copied
and what can be read of it, in one behaviour.

**MeteredRun** is what the loop promises to whoever pays: at most so many
billed calls, none once the budget is spent, one final outcome.

**RecordReplay** composes the loop with itself. `Rec` and `Rep` are instances
over the *same* variables with different caps: `record.py` records a run,
`Save` writes the record, `StartReplay` (`_run_replay`) rebuilds the
completions and the incident and restarts the loop, `Deliver` is
`MockProvider.complete` followed by the rest of the turn, `Exhausted` its
`ConfigError`. The tree is chosen again for the replay, so it may have drifted.
`record.py` imports two packages that are not in the repository (the production
agent); the recording run is modelled as this repository's loop, under
`record.py`'s caps.

The incident of the recording is the failing node dbt reported; that of the
replay is rebuilt from the recording, and names nothing when the id looked up was
empty.

**GradedReplay** adds both grades: `_grade_recording`'s of the saved run and
`_run_replay`'s of the run that has just returned, each on the freshly staged
tree.

**Contract** takes a parsed YAML document to an `ExpectedOutcome`: required and
forbidden keys, ranges, defaults (which pydantic does not validate) and the
provenance rules, whose keys can be misspelt too. **Grader** is `grade` clause by
clause, as sets of checks with their severity. **Reports** holds the two printers: `eval.reporting`, over
pairs of reports, and the table of the command, over the reports of one mode.
**GradedContract** grades one run again and again while the author of its
`expected.yaml` edits the document: tightens a clause, leaves one out, misspells
a key, changes the provenance or spoils the file.

**FixValidate** is `validate_fix` and `_resynthesize_diff`; git is the
environment. Inside a hunk a line that starts with `+++` is an added one, to the
loop of the code as to a reader of unified diffs. A raising validator leaves
`grade` and ends the suite (`GradeRaises` of **BenchRunner**).

**BenchRunner** is one invocation from the flags to the exit code: refusals,
staging, loading, running the agent, grading, reporting. Either root may be
missing (a refusal when its flag was given, a crash later when it was not), the
provider's client may fail to be built, an overlay may clash with the baseline.
What the agent and the grader do is left open (they return or raise, green or red).
**SuiteReport** is what it promises to a CI job: the whole suite is published under an exit code
that says whether the gate holds, or nothing is.

## 3. What the runs check

Bounds are small because the code has few cases: what matters is that each
case, and each pair of consecutive ones, occurs. TLC's coverage shows that
every action of every next-state relation is taken.

| Run | Instance | What it shows |
|---|---|---|
| `agent_loop` | 3 iterations, cap 4, prices 0, 2 and 3, ten kinds of answers, one of them with more cached tokens than prompt tokens, a project with and one without a manifest | `ConversationMatchesTrace`: each tool_use is answered by its own tool_result in the next turn, errors included. `BudgetHeld`: a cap is overshot by at most the last call, stop reasons blame the right cap. `VerdictConsistent`: diagnosis, fix and stop reason fit together and the diagnosis is charged the whole run. `CostCoversUsage`, `PricedWithinRates`: the cost of a run never falls below the price of its tokens, and no token is billed twice. `BilledOnce`: no step rewrites the record. `RunEnds`. `ImplementsMeteredRun`: the refinement, with its fairness. Two calls of price 2 reach the cap, two of price 3 overshoot it; three free ones reach the iteration limit first, as an unpriced model does |
| `tool_surface` | a scenario is staged (two baselines, seven overlays, three captures, overlays copied in any order; two of the overlays leave dbt no place for what it writes, which is a database, the artifacts, a log and more); then one path of up to 4 components over 11 names, so that a scenario's `captured/` files are in reach, one of 5 that turns round below `scenarios/`, or an absolute one | `StagedLikeRecorded`: every staged file that neither `setup.sh` nor dbt wrote for the recorder is the one the recorder's tree had there, the two artifacts are those of `captured/`, only `profiles.yml` and what dbt left are missing, the recorded run is not among the files, and a scenario that could be recorded fails to stage only for want of an artifact. `ReadShowsExactlyTheProject`: a plain path (no `..`, no `/` in front) shows a file exactly when it is a readable file and no answer key; nothing outside the root is ever shown, and an answer key at most through a path that also climbs; only a path that is above the root on its way, has an impossible name or leads where the system refuses to look raises |
| `record_replay` | recording under cost cap 2, replay under 3 (0.30 and 0.50 in the code), the same iteration limit, three trees, answers of cost 0, 2 and 3 | `ReplayReproducesRun`: a replay that returns asks the same calls at the same cost and ends with the same verdict and fix, every completion used, whatever the tools answered; assumed is only that the cap a recording stopped at stops the replay too. `RecordingCoversReplay`: under that condition the mock never runs dry. `GradesAgree`: a green replay has a green recording, whatever the caps, and a green recording a green replay if its caps reach as far. `SavedRunsReplay`: a saved run is replayed; the tree of the recording answers the recorded calls (`ToolsAnswer`); on a tree that does, the replay returns with the recorded verdict, and on one that does not a tool ends it |
| `grader` | `GradedContract` with 72 runs and two drafts of a contract (laxest and usual), two changed keys at a time: tightened, left out, misspelt, another provenance, a spoilt file | `TighteningNeverHelps`: a stricter contract never turns red into green, although clauses are skipped when empty or without a diagnosis. `FailsClosed`: no green unless the run has all that the document demands, or the defaults where it is silent: class, confidence, columns and models mentioned, evidence calls, one of the alternatives, no forbidden tool, the expected files written, a fix that applies (with `fix_must_apply_cleanly: false` a fix is demanded only by the files it must touch). `NoClauseLost`: a green run is green against what the author meant, whatever was misspelt, and a public incident names its source. `ReadersAgree`: `passed`, the marks of both tables, the listed failures, the exit code and the totals tell the same |
| `fix_validate` | every body of up to 3 lines over two texts, under each kind of header, one inside the hunk included, against every file of up to 3 lines | `RebuildIsTheOnlyReading`: the rebuilt diff equals reading the body line by line at the one place where it fits (an independent definition). `VerdictIsGits`: a fix applies only if git took it, and `used_resynthesis` says which diff that was, time-outs included. `Decided` |
| `bench_runner` | two directories, each complete or lacking one thing, and four special sites (nothing in it, no scenarios root, no baseline, no fixture root); every flag combination | `WorkedInOrder`: graded and remaining scenarios make up the selection, and the trees on disk are those of the graded ones and of at most one more, also after a raise half way. `NoAgentRunInVain`: an agent runs once on each graded scenario, on at most one other, and never where contract or recording do not load. `ExitCodeHonest`: a table is always the whole selection's; 0 means it was printed and, under `--strict`, all green; 1 is a red suite or a crash that printed nothing; 2 is a refusal before anything was done. `InvocationEnds`. `ImplementsSuiteReport`: the refinement, with its fairness |

Every property has a mutant of the code in `PROJECT.json` (written beside the
definition it replaces) that breaks it.

Six runs state what a doc of the repository says and what the code does not do:

* `agent_returns`: `run`'s docstring promises an `AgentRun` "regardless of
  outcome"; a provider error, a malformed submission or a raising tool leaves
  as an exception and the record is lost.
* `mock_runs_out`: an exhausted mock is said to be a bug of the loop; a
  recording stopped by `record.py`'s lower cost cap exhausts it under `run`'s
  default cap with the loop as it is.
* `same_target`: the replay agent is said to diagnose the recording's target; it
  gets the first node the recorded model looked up, which may be another one.
* `private_counted`: private scenarios are said never to be added up in the
  public score, structurally; the command adds up all it ran and nothing reads
  `counts_toward_public_benchmark`.
* `grader_forbidden`: a diff that *deletes* a forbidden file passes
  `forbidden_files_touched`.
* `multi_file_refused`: multi-file diffs are said to be refused; a second file
  without a `+++` line (a pure rename) is dropped instead.

Seen while modelling, of the same kind, and too plain to need a model: live
mode reads `agent_run.json` unconditionally (`runner.py:259`, though "optional
for live mode"); live mode without a key is refused although a custom agent was
given (`cli.py:160`); nobody removes the staged trees (`runner.py:295`);
`grade` reads no tool result, so a replay notices a drift of the tools only
when one raises; a malformed contract is said to fail "before the harness runs"
(`contract.py:6-7`), but it is loaded scenario by scenario, after the agents of
earlier ones have run; `read_file` looks at the components of a path as they are
given and resolves `..` afterwards (`read_file.py:14-16`), so that
`scenarios/a/../a/expected.yaml` is not one of the paths the list in
`_lab_filter.py` denies: `ReadShowsExactlyTheProject` says how far the list reaches.

**Bounds.** `MaxIterations`, `MaxCost` are constants of the code itself. `MCCompletions`
bounds what a model says; `MaxLength` and `Components` the paths, and `MCRefused` the
places the system refuses to look at; the sets in
`MCDiffs` and `MCTrees` the diffs and files; `MCSources` the scenarios on disk;
`MCSites` and `MCInvocations` what the command is given; `MCContracts` what a
recording and its replay are graded against; `MCRuns`, `MCDrafts`, `MCWordings`
and `MCMisspelt` what is graded and how a contract may be written. `MaxChanges`
bounds how many keys of a contract differ from a draft: clauses interact in pairs
at most. Counters need no further bound: everything ends. For the safety
properties none of these bounds matters in the end: section 4 proves them for
every value of the constants.

**Fairness.** Weak fairness of the whole step relation, nothing finer: the
program is sequential, a provider call returns or raises (the SDK has its own
time-out), `git` is cut off after ten seconds. Deadlock is checked in every run
whose specification has an explicit final stutter (`Over`, `RROver`, `Exited`);
`grader` and `tool_surface` stop when there is nothing left to change or ask.

## 4. What is proved

Every safety invariant and every action property of section 3 is a theorem, for
all values of the constants that satisfy the assumptions named. Every proof
follows one plan: an inductive invariant stated as named conjuncts, one lemma or
step per action, and a lemma for each operator that is more than a formula.

| Module | Theorem | Property it states |
|---|---|---|
| `AgentLoopProofs` | `TypeCorrect`, `ConversationCorrect`, `BudgetCorrect`, `VerdictCorrect`, `BillingCorrect` | `TypeOK`, `ConversationMatchesTrace`, `BudgetHeld`, `VerdictConsistent`, `BilledOnce` |
| | `LoopImplementsMeteredRun` | safety part of `ImplementsMeteredRun` |
| `BillingProofs` | `CostCorrect`, `PricesCorrect` | `CostCoversUsage`, `PricedWithinRates` |
| `ReplayProofs` | `RecordingTypes`, `MockCoversReplay`, `ReplayIsTheRecordedRun` | `RRTypeOK`, `RecordingCoversReplay`, `ReplayReproducesRun` |
| `GradedReplayProofs` | `RowsAgree` | `GradesAgree` |
| `GradingProofs` | `EveryClauseCounts`, `ReportReadsAlike`, `AnySuiteReadsAlike`, `StricterContractsPassLess` | what `grade` and the printers do with any run, contract and suite |
| | `GradeFailsClosed`, `AuthorIsHeard`, `ReadersAreToldTheSame`, `StrictnessIsMonotone` | `FailsClosed`, `NoClauseLost`, `ReadersAgree`, `TighteningNeverHelps` |
| `StagedAccessProofs` | `StagedAsRecorded`, `ReadCorrect` | `StagedLikeRecorded`, `ReadShowsExactlyTheProject` |
| `FixValidateProofs` | `FixTypeCorrect`, `VerdictIsGitsHolds`, `RebuildIsOnlyReading` | `TypeOK`, `VerdictIsGits`, `RebuildIsTheOnlyReading` |
| `BenchRunnerProofs` | `SelectionIsWhatWasAsked` | what discovery and `--scenarios` select |
| | `TypeCorrect`, `SuiteInOrder`, `AgentRunsCount`, `ExitCodeCorrect` | `TypeOK`, `WorkedInOrder`, `NoAgentRunInVain`, `ExitCodeHonest` |
| | `BenchImplementsSuiteReport` | safety part of `ImplementsSuiteReport` |

**The loop** (`LoopAssumption`, `RootAssumption`: caps are naturals, completions
are well-typed and their calls carry the arguments the tool schemas demand, no
failure class is called `"none"`). The inductive invariant is the conjunction of
the four invariants, and no part is inductive alone: the budget needs
`Len(iterations) = iterN - 1` while the run is on, which the conversation gives;
a verdict is consistent only because no diagnosis exists before the last turn;
everything needs the types. `BilledOnce` follows from it and one lemma on
`Append`.

**Billing** (`PricingAssumption`, `PriceAssumption`: a cached token is no dearer,
completions carry the cost the provider estimates). The estimate of a sum of two
usages is at most the sum of the estimates, and equal to it where neither reports
more cached than prompt tokens (`EstimateAdds`). `BillingInv` adds that the totals
report no more cached than prompt tokens as long as no call did: without it
equality is not kept by a step.

**The replay** (`ReplayAssumption`). `RRIInv` relates two runs through the file
between them. `WellRecorded` is what `record.py` may have saved: an iteration
without calls is the last one, a run that is capped ends with a tool turn, the
running totals add up (`Ledger`) and stay under the recorder's cap. `Following` is
the replay under way: its iterations are a prefix of the recording's with the
same calls and costs, the queue is the rest, and its total is that of the
recording after as many iterations. `CutShort` is a replay that a cap of its own
ended. The recorder's and the replay's caps are different constants, and the
condition of `RecordingCoversReplay` is where they meet. `RowsAgree` adds that
the grade reads nothing that the two runs do not share.

**Grading** (`GradingAssumption`: numbers are naturals, no misspelling is a field's
name). `EveryClauseCounts` turns the sets of checks into the conjunction of the
clauses; `Stricter` compares two contracts clause by clause, and
`StricterContractsPassLess` follows. `GInv` says that the document is as an
author can write it and that the verdict is the one of the present document. The
columns of the tables are sums of any length: they are recursive functions, and
`TotalsAdd` relates the sum of pairs to the sums of the two halves.

**Staging and reading** (`RootAssumption`, `SourceAssumption`, `AccessAssumption`:
paths are sequences of names, `/` only in front, no file of an overlay is above
another, nothing else on the disk is inside the project). The heart of `AInv` is `LaidOut`: at any
time the staged tree is the baseline with those overlay files over it that have
been copied, which is why the order of the copies does not matter. For paths,
`PlainPathsGoDown` follows `resolve()` component by component and
`FilterKnowsTheKeys` compares the filter's window of three components with the
place of an answer key. `PathsBelowDoNotEscape` counts the steps up and down, and
`NoKeyWithoutClimbing` is why a key is in sight of climbing paths only: a path that
goes down only is resolved to itself, an absolute one to what the filter has seen.

**The fix validator** (`FixAssumption`). `Stage` gives the history of git's answers
at every point and `Validated` the one rebuilt file. That slicing and comparing
(the code) is the same as reading a hunk line by line (`ReadFrom`) is proved from
two invariants of the reader: where it stands after some lines, and what it has
put out by then (`ReaderMovesOn`, `ReaderMeetsOldPutsNew`).

**The bench runner** (`BenchAssumption`: directories have distinct names, a
baseline lies in a fixture root that exists). `IInv`:
what is graded is a prefix of the suite (`GradedPrefix`), the rest is to do
(`RestToDo`), the trees are those of the graded and of at most the current one, also
after a crash (`Trees`), the current one loads (`Current`), the
agents ran on a prefix at most one longer (`RanPrefix`), nothing is done before
acceptance (`Untouched`), and table and exit code agree (`Settled`).
`SelectionIsWhatWasAsked` needs that any bounded set of positive numbers is
listed by `InOrder`. The refinement maps a crash to aborting, a refusal to
refusing, a grade to grading the next, the report to publishing.

**How loops are proved.** The library's induction theorems take an operator as a
parameter, which the installed provers cannot instantiate. Where the code loops,
the model has a recursive function, and the proofs take the set of all numbers
for which the claim holds and show that it is `Nat` (`AllNumbers`, from the
well-foundedness of `<` on the naturals, as a set). A recursive function is not
known to be what its equation says until one exists: `LoopsRun` and `SumsCanBeRun`
supply it.

**Only model-checked.** Liveness, which is beyond the prover: `RunEnds`,
`SavedRunsReplay` (with the step formula in it that says that the tree of the
recording answers), `Decided`, `InvocationEnds`, and the fairness in
`ImplementsMeteredRun` and `ImplementsSuiteReport`. The six runs that expect a
violation rest on TLC's counterexamples.

## 5. What is not modelled

Prompt and tool descriptions, request building and the SDK call, the layout of
tables and of the JSON output, YAML syntax, the SQL and seeds of the fixtures:
formatting, I/O and data. Of the fixture scripts only those of scenario 01 are
modelled; the others are near copies of them, and `record.py` imports packages
that are not in the repository. `make_completion` and the
Pydantic models beyond the fields the control reads hold nothing that could go
wrong over several steps. What the SDK's client keeps from one event loop to the
next is not in the repository. A file too big to be shown whole is content like
any other. In `FixValidate` hunk headers are not interpreted (only git does
that), and the last newline is git's business.

## 6. Plan

Done, in this order: ToolSurface, AgentLoop, MeteredRun and their proofs;
RecordReplay; Grader; BenchRunner; FixValidate and the proof of its verdict;
token usage and prices with BillingProofs; SuiteReport and its refinement; the
grades of a replay; Contract and Reports; StagedProject; the proofs of
BenchRunner and its refinement, of RecordReplay and GradedReplay, of
GradedContract, of StagedAccess, and of the rebuilding in FixValidate.

Next: a theorem like `ReadCorrect` for `read_manifest_node`, on the staged tree's
own manifest; shorter proofs where three modules prove the same fact about numbers
(`AllNumbers`) and about sums, in a module of lemmas; a theorem that relates
`MeteredRun` and a replay (a replay is a metered run under its own caps).
