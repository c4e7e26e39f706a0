---------------------------- MODULE GradedReplay ---------------------------
(***************************************************************************)
(* What replay mode is for: the grade of a replay beside the grade of the  *)
(* recording.  Both modes stage the scenario afresh and grade against the  *)
(* same contract on that tree, _grade_recording the saved AgentRun and     *)
(* _run_replay the one the loop has just returned.                         *)
(*                                                                         *)
(* A graded run is a view of an AgentRun.  What a diagnosis says beside    *)
(* its class, and what a diff edits, are facts of the class and of the fix *)
(* (Reading, DiffOf).                                                      *)
(***************************************************************************)
EXTENDS RecordReplay

CONSTANTS
    Contracts,         \* what expected.yaml may hold
    Reading,           \* failure class -> [confidence, mentions]
    DiffOf             \* fix -> the edits of its diff

Undiagnosed == [class |-> "none", confidence |-> 0, mentions |-> {}]
Unfixed == [edits |-> {}, applies |-> FALSE]

Grader == INSTANCE Grader WITH NoDiagnosis <- Undiagnosed, NoFix <- Unfixed

\* git apply --check on the staged tree: an edited file must be there.
AppliesTo(edits, tree) ==
    \A e \in edits : Rep!Candidate(e.path) \in DOMAIN tree.files

DiagnosisView(run) ==
    IF ~Diagnosed(run) THEN Undiagnosed
    ELSE [class |-> run.diagnosis.class,
          confidence |-> Reading[run.diagnosis.class].confidence,
          mentions |-> Reading[run.diagnosis.class].mentions]

FixView(run, tree) ==
    IF run.fix = Rep!NoFix THEN Unfixed
    ELSE [edits |-> DiffOf[run.fix], applies |-> AppliesTo(DiffOf[run.fix], tree)]

\* What grade() reads of an AgentRun: no tool result, no token count.
GradedView(run, tree) ==
    [diagnosis |-> DiagnosisView(run), fix |-> FixView(run, tree),
     tools |-> [i \in DOMAIN AllCalls(run) |-> AllCalls(run)[i].name],
     iterations |-> Len(run.iterations), cost |-> run.totalCost]

RecordingGreen(expected) == Grader!Passed(GradedView(recording, project), expected)
ReplayGreen(expected) == Grader!Passed(GradedView(AgentRun, project), expected)
-----------------------------------------------------------------------------
\* The two rows a scenario has in the report never contradict each other.  A
\* replay that returns is green only where the recording is, whatever the caps
\* of the two runs; under caps that reach as far as the recorder's, a green
\* recording is green again, whatever the tools answered this time.
GradesAgree ==
    Replaying /\ pc = "done" =>
        \A expected \in Contracts :
            /\ ReplayGreen(expected) => RecordingGreen(expected)
            /\ CapsCover /\ RecordingGreen(expected) => ReplayGreen(expected)
=============================================================================
