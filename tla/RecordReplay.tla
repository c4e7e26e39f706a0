---------------------------- MODULE RecordReplay ---------------------------
(***************************************************************************)
(* A recording and its replay: record.py drives the loop with a real       *)
(* provider and saves the AgentRun; runner._run_replay turns the saved run *)
(* back into completions, feeds them to the loop through a MockProvider,   *)
(* and lets the tools answer live from the tree it staged.                 *)
(*                                                                         *)
(* The two runs are the same loop, one after the other, over the same      *)
(* variables: the instance Rec runs it under record.py's caps, the         *)
(* instance Rep under the caps the replay uses.                            *)
(***************************************************************************)
EXTENDS Naturals, Sequences, SequencesExt

CONSTANTS
    ProjectRoot, Pricing, Model, Completions, Projects, FailureClasses, Fixes,
    RecMaxIterations, RecMaxCost,      \* the caps record.py passes
    RepMaxIterations, RepMaxCost,      \* the caps of the replaying call
    ModelPaths,                        \* paths that start with models/ and end with .sql
    Targets                            \* unique_ids of the nodes that may have failed

VARIABLES
    \* the loop that is running, and the record it is building
    project, pc, iterN, messages, iterations, totalCost, totalUsage, diagnosis, fix, stopReason,
    phase,             \* "recording", "saved", "replay"
    recording,         \* captured/agent_run.json
    queue,             \* MockProvider._queue
    incident           \* the Incident the running loop was handed

loop == <<project, pc, iterN, messages, iterations, totalCost, totalUsage,
          diagnosis, fix, stopReason>>
rrVars == <<loop, phase, recording, queue, incident>>

Rec == INSTANCE AgentLoop WITH MaxIterations <- RecMaxIterations, MaxCost <- RecMaxCost
Rep == INSTANCE AgentLoop WITH MaxIterations <- RepMaxIterations, MaxCost <- RepMaxCost


\* The id of a rebuilt submission.
ReplayId == "toolu_replay_submit"

\* What both loops assume of their caps and of the models; FailureClass.UNKNOWN
\* is a member of the enumeration.  The last conjunct is true of any literal;
\* the provers have no rule that says so.
ASSUME ReplayAssumption ==
    /\ RecMaxIterations \in Nat /\ RecMaxCost \in Nat
    /\ RepMaxIterations \in Nat /\ RepMaxCost \in Nat
    /\ Completions \subseteq Rep!Completion
    /\ \A c \in Completions : \A i \in DOMAIN c.calls : Rep!WellFormedCall(c.calls[i])
    /\ FailureClasses \subseteq STRING \ {"none"}
    /\ "unknown" \in FailureClasses
    /\ {ReplayId, Rep!SubmitTool} \subseteq STRING
-----------------------------------------------------------------------------
\* AgentRun.model_dump_json, as far as a later reader looks at it.
AgentRun == [iterations |-> iterations, totalCost |-> totalCost, totalUsage |-> totalUsage,
             diagnosis |-> diagnosis, fix |-> fix, stopReason |-> stopReason]

NoRun == [iterations |-> << >>, totalCost |-> 0, totalUsage |-> Rep!NoTokens, diagnosis |-> Rep!NoDiagnosis,
          fix |-> Rep!NoFix, stopReason |-> "none"]

Diagnosed(run) == run.diagnosis # Rep!NoDiagnosis

\* The submit_diagnosis call rebuilt from the recorded diagnosis and fix.
TerminalBlockWithoutFix(run) ==
    [id |-> ReplayId, name |-> Rep!SubmitTool,
     arg |-> <<run.diagnosis.class, Rep!NoFix>>]
TerminalBlock(run) ==
    [id |-> ReplayId, name |-> Rep!SubmitTool,
     arg |-> <<run.diagnosis.class, run.fix>>]

\* completions_from_agent_run: one completion per recorded iteration; the last
\* one carries the rebuilt submission unless the record holds one already.
RecordedCalls(run, k) ==
    LET calls == run.iterations[k].calls
    IN  IF /\ k = Len(run.iterations)
           /\ Diagnosed(run)
           /\ \A i \in DOMAIN calls : ~Rep!IsSubmit(calls[i])
        THEN Append(calls, TerminalBlock(run))
        ELSE calls

UnpricedCompletion(run, k) ==
    [calls |-> RecordedCalls(run, k), usage |-> run.iterations[k].usage, cost |-> 0]
RecordedCompletion(run, k) ==
    [calls |-> RecordedCalls(run, k),
     usage |-> run.iterations[k].usage, cost |-> run.iterations[k].cost]

CompletionsOfToolTurns(run) ==
    SelectSeq([k \in DOMAIN run.iterations |-> RecordedCompletion(run, k)],
              LAMBDA c : c.calls # << >>)

CompletionsFromRun(run) ==
    [k \in DOMAIN run.iterations |-> RecordedCompletion(run, k)]

\* _extract_unique_id scans the recorded calls in order: a manifest lookup
\* gives its id, but a read of models/...sql that comes first ends the scan
\* without one, and an empty id is as good as none.
UnknownId == "model.unknown.unknown"

AllCalls(run) == FlattenSeq([k \in DOMAIN run.iterations |-> run.iterations[k].calls])

IsLookup(call) == call.name = Rep!ReadManifestTool
ReadsModel(call) == call.name = Rep!ReadFileTool /\ call.arg \in ModelPaths

ExtractUniqueId(run) ==
    LET calls == AllCalls(run)
        hit == SelectInSeq(calls, LAMBDA c : IsLookup(c) \/ ReadsModel(c))
        id == IF hit # 0 /\ IsLookup(calls[hit]) THEN calls[hit].arg[1] ELSE ""
    IN  IF id = "" THEN UnknownId ELSE id

\* incident_from_recording: the class hint and the error text come from the
\* recorded diagnosis.
IncidentWithoutDefault(run) ==
    [uniqueId |-> ExtractUniqueId(run), hint |-> run.diagnosis.class]

IncidentFromRecording(run) ==
    [uniqueId |-> ExtractUniqueId(run),
     hint |-> IF Diagnosed(run) THEN run.diagnosis.class ELSE "unknown"]

\* record.py: the first failing model of run_results.json, as the dbt adapter
\* classifies it.
RecordedIncident == [uniqueId : Targets, hint : FailureClasses]
-----------------------------------------------------------------------------
RRInit ==
    /\ Rec!Init
    /\ phase = "recording"
    /\ recording = NoRun
    /\ queue = << >>
    /\ incident \in RecordedIncident

Record ==
    /\ phase = "recording"
    /\ Rec!Step
    /\ UNCHANGED <<phase, recording, queue, incident>>

\* record.py writes whatever run() returned; a run that raised leaves no file.
Save ==
    /\ phase = "recording"
    /\ pc = "done"
    /\ recording' = AgentRun
    /\ phase' = "saved"
    /\ UNCHANGED <<loop, queue, incident>>

\* A fresh call of run(): the initial state of the loop, on any tree.
Restart ==
    /\ project' \in Projects
    /\ pc' = "loop"
    /\ iterN' = 1
    /\ messages' = <<Rep!Message("user", << >>)>>
    /\ iterations' = << >>
    /\ totalCost' = 0
    /\ totalUsage' = Rep!NoTokens
    /\ diagnosis' = Rep!NoDiagnosis
    /\ fix' = Rep!NoFix
    /\ stopReason' = "none"

\* _run_replay: load the recording, queue its completions, build the incident
\* and start the agent on the staged tree, which may have drifted.
StartReplay ==
    /\ phase = "saved"
    /\ queue' = CompletionsFromRun(recording)
    /\ incident' = IncidentFromRecording(recording)
    /\ Restart
    /\ phase' = "replay"
    /\ UNCHANGED recording

ReplayHead ==
    /\ phase = "replay"
    /\ Rep!CallModel \/ Rep!HitCostCap \/ Rep!ExhaustIterations
    /\ UNCHANGED <<phase, recording, queue, incident>>

\* MockProvider.complete: pop the next completion, whatever was asked.
DeliverWithoutPop ==
    /\ phase = "replay"
    /\ queue # << >>
    /\ Rep!Receive(Head(queue))
    /\ UNCHANGED <<phase, recording, queue, incident>>

Deliver ==
    /\ phase = "replay"
    /\ queue # << >>
    /\ Rep!Receive(Head(queue))
    /\ queue' = Tail(queue)
    /\ UNCHANGED <<phase, recording, incident>>

\* MockProvider.complete on an empty queue raises ConfigError.
Exhausted ==
    /\ phase = "replay"
    /\ queue = << >>
    /\ Rep!ProviderRaises
    /\ UNCHANGED <<phase, recording, queue, incident>>

RRStep == Record \/ Save \/ StartReplay \/ ReplayHead \/ Deliver \/ Exhausted

\* A recording that raised, or a replay that ended: nothing is left to do.
RROver ==
    /\ pc = "raised" \/ (phase = "replay" /\ pc = "done")
    /\ UNCHANGED rrVars

RRNext == RRStep \/ RROver

\* Both runs are sequential code; the provider behind a recording returns or
\* raises.
RRSpec == RRInit /\ [][RRNext]_rrVars /\ WF_rrVars(RRStep)
-----------------------------------------------------------------------------
Replaying == phase = "replay"

\* The replay may go at least as far as the recording, and a recording that a
\* cap stopped runs into that cap again.
CapsCover == RecMaxIterations <= RepMaxIterations /\ RecMaxCost <= RepMaxCost
Replayable ==
    /\ CapsCover
    /\ recording.stopReason = "cost_cap" => recording.totalCost >= RepMaxCost
    /\ recording.stopReason = "max_iterations" => RecMaxIterations = RepMaxIterations

\* The type invariant of what lies between the two runs.
RRTypeOK ==
    /\ phase \in {"recording", "saved", "replay"}
    /\ recording.iterations \in Seq(Rep!Iteration)
    /\ recording.stopReason \in Rep!StopReasons \union {"none"}
    /\ queue \in Seq(Rep!Completion)
    /\ phase = "replay" => incident.hint \in FailureClasses

Asked(its) ==
    [k \in DOMAIN its |->
        [calls |-> its[k].calls, usage |-> its[k].usage, cost |-> its[k].cost]]

\* A replay that returns is the recorded run again: the same calls at the same
\* cost, the same verdict and fix, every completion used, on whatever tree the
\* tools ran; only the tool results may differ.
ReplayReproducesRun ==
    Replaying /\ pc = "done" /\ Replayable =>
        /\ Asked(iterations) = Asked(recording.iterations)
        /\ totalCost = recording.totalCost
        /\ totalUsage = recording.totalUsage
        /\ diagnosis = recording.diagnosis
        /\ fix = recording.fix
        /\ stopReason = recording.stopReason
        /\ queue = << >>

\* The mock never runs dry: if a replay raises, a tool raised on its tree.
RecordingCoversReplay ==
    Replaying /\ pc = "awaiting" /\ Replayable => queue # << >>

\* No call on the record raises on the tree of the replay.
ToolsAnswer ==
    \A k \in DOMAIN recording.iterations : ~Rep!ToolsRaise(recording.iterations[k])

\* A saved run is replayed, and a replay whose caps cover the recording returns
\* with the recorded verdict if its tree answers the recorded calls, as the tree
\* of the recording itself does; on any other tree it ends in the exception of a
\* tool.
SavedRunsReplay ==
    /\ phase = "saved" ~> Replaying
    /\ [][phase = "saved" /\ Replaying' /\ project' = project => ToolsAnswer']_rrVars
    /\ (Replaying /\ Replayable /\ ToolsAnswer)
          ~> (Replaying /\ pc = "done" /\ stopReason = recording.stopReason)
    /\ (Replaying /\ Replayable /\ ~ToolsAnswer) ~> (Replaying /\ pc = "raised")

\* MockProvider's docstring: an exhausted queue means that the loop made more
\* calls than the recording covers, "a real bug" in the loop.
MockNeverRunsOut == Replaying /\ pc = "awaiting" => queue # << >>

\* incident_from_recording's docstring: the replay agent "diagnoses the same
\* target the recording did", or an unknown one.
SameTargetStep ==
    phase = "saved" /\ phase' = "replay" =>
        incident'.uniqueId \in {incident.uniqueId, UnknownId}
SameTarget == [][SameTargetStep]_rrVars
=============================================================================
