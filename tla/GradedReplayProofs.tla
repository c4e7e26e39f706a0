------------------------- MODULE GradedReplayProofs ------------------------
(***************************************************************************)
(* The two rows of a scenario agree, for every contract: what is graded of *)
(* a replay that ran to the recording's end is what is graded of the       *)
(* recording, and a replay that a cap cut short has no diagnosis to pass.  *)
(***************************************************************************)
EXTENDS GradedReplay, ReplayProofs

\* Without a diagnosis the failure_class check fails, and blocks.
LEMMA UndiagnosedIsRed ==
    ASSUME NEW run, NEW expected, Grader!Passed(run, expected)
    PROVE  run.diagnosis # Undiagnosed
  <1> DEFINE check == [name |-> "failure_class",
                       passed |-> /\ Grader!Diagnosed(run)
                                  /\ run.diagnosis.class = expected.expected_failure_class,
                       severity |-> "blocking"]
  <1>1. check \in Grader!DiagnosisChecks(run, expected)
    BY DEF Grader!DiagnosisChecks, Grader!Check, Grader!CheckOf
  <1>2. check.severity = "blocking"
    OBVIOUS
  <1>3. check.passed <=> /\ Grader!Diagnosed(run)
                         /\ run.diagnosis.class = expected.expected_failure_class
    OBVIOUS
  <1> HIDE DEF check
  <1>4. check \in Grader!Blocking(Grader!Checks(run, expected))
    BY <1>1, <1>2 DEF Grader!Checks, Grader!Blocking
  <1>5. check.passed
    BY <1>4 DEF Grader!Passed
  <1> QED
    BY <1>3, <1>5 DEF Grader!Diagnosed

\* grade() reads nothing else of a run.
LEMMA GradedViewReads ==
    ASSUME NEW a, NEW b, NEW tree,
           Asked(a.iterations) = Asked(b.iterations),
           Len(a.iterations) = Len(b.iterations),
           a.totalCost = b.totalCost, a.diagnosis = b.diagnosis, a.fix = b.fix
    PROVE  GradedView(a, tree) = GradedView(b, tree)
  <1>1. DOMAIN a.iterations = DOMAIN b.iterations
    BY DEF Asked
  <1>2. \A k \in DOMAIN a.iterations : a.iterations[k].calls = b.iterations[k].calls
    <2>1. TAKE k \in DOMAIN a.iterations
    <2>2. /\ Asked(a.iterations)[k].calls = a.iterations[k].calls
          /\ Asked(b.iterations)[k].calls = b.iterations[k].calls
      BY <1>1 DEF Asked
    <2> QED
      BY <2>2
  <1>3. AllCalls(a) = AllCalls(b)
    <2>1. [k \in DOMAIN a.iterations |-> a.iterations[k].calls]
             = [k \in DOMAIN b.iterations |-> b.iterations[k].calls]
      BY <1>1, <1>2
    <2> QED
      BY <2>1 DEF AllCalls
  <1>4. DiagnosisView(a) = DiagnosisView(b) /\ FixView(a, tree) = FixView(b, tree)
    BY DEF DiagnosisView, FixView, Diagnosed
  <1> QED
    BY <1>3, <1>4 DEF GradedView

\* _grade_recording and _run_replay never contradict each other: a replay that
\* returns is green only where the recording is, whatever the caps; and under
\* caps that reach as far as the recorder's, a green recording is green again.
THEOREM RowsAgree == RRSpec => []GradesAgree
  <1>1. RRIInv /\ ReplayReproducesRun => GradesAgree
    <2> SUFFICES ASSUME RRIInv, ReplayReproducesRun, Replaying, pc = "done",
                        NEW expected \in Contracts
                 PROVE  /\ ReplayGreen(expected) => RecordingGreen(expected)
                        /\ CapsCover /\ RecordingGreen(expected) => ReplayGreen(expected)
      BY DEF GradesAgree
    <2>1. /\ AgentRun.iterations = iterations /\ AgentRun.totalCost = totalCost
          /\ AgentRun.diagnosis = diagnosis /\ AgentRun.fix = fix
      BY DEF AgentRun
    <2>2. WellRecorded(recording)
      BY ReplayCounts
    <2>3. ASSUME Len(iterations) = Len(recording.iterations),
                 diagnosis = recording.diagnosis, fix = recording.fix
          PROVE  ReplayGreen(expected) <=> RecordingGreen(expected)
      <3>1. Asked(iterations) = Asked(recording.iterations)
        BY <2>3, ReplayAsksTheSame
      <3>2. totalCost = recording.totalCost
        BY <2>3, ReplayCounts
      <3>3. GradedView(AgentRun, project) = GradedView(recording, project)
        BY <2>1, <2>3, <3>1, <3>2, GradedViewReads
      <3> QED
        BY <3>3 DEF ReplayGreen, RecordingGreen
    <2>4. ReplayGreen(expected) => RecordingGreen(expected)
      <3> SUFFICES ASSUME ReplayGreen(expected) PROVE RecordingGreen(expected)
        OBVIOUS
      <3>1. DiagnosisView(AgentRun) # Undiagnosed
        <4>1. GradedView(AgentRun, project).diagnosis # Undiagnosed
          BY UndiagnosedIsRed DEF ReplayGreen
        <4> QED
          BY <4>1 DEF GradedView
      <3>2. diagnosis # Rep!NoDiagnosis
        BY <2>1, <3>1 DEF DiagnosisView, Diagnosed
      <3>3. ~CutShort
        BY <3>2 DEF CutShort, Undecided
      <3> QED
        BY <2>3, <3>3, ReplayReturns
    <2>5. CapsCover /\ RecordingGreen(expected) => ReplayGreen(expected)
      <3> SUFFICES ASSUME CapsCover, RecordingGreen(expected) PROVE ReplayGreen(expected)
        OBVIOUS
      <3>1. DiagnosisView(recording) # Undiagnosed
        <4>1. GradedView(recording, project).diagnosis # Undiagnosed
          BY UndiagnosedIsRed DEF RecordingGreen
        <4> QED
          BY <4>1 DEF GradedView
      <3>2. recording.diagnosis # Rep!NoDiagnosis
        BY <3>1 DEF DiagnosisView, Diagnosed
      <3>3. recording.stopReason = "diagnosis_submitted"
        BY <2>2, <3>2 DEF WellRecorded
      <3>4. Replayable
        BY <3>3 DEF Replayable
      <3>5. /\ Asked(iterations) = Asked(recording.iterations)
            /\ diagnosis = recording.diagnosis /\ fix = recording.fix
            /\ queue = << >>
        BY <3>4 DEF ReplayReproducesRun
      <3>6. Len(iterations) = Len(recording.iterations)
        <4>1. /\ Len(queue) = Len(recording.iterations) - Len(iterations)
              /\ Len(recording.iterations) \in Nat /\ Len(iterations) \in Nat
          BY ReplayCounts
        <4>2. Len(queue) = 0
          BY <3>5
        <4> QED
          BY <4>1, <4>2
      <3> QED
        BY <2>3, <3>5, <3>6
    <2> QED
      BY <2>4, <2>5
  <1> QED
    BY <1>1, RRInvariance, ReplayIsTheRecordedRun, PTL
=============================================================================
