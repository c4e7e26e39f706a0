------------------------------- MODULE Grader ------------------------------
(***************************************************************************)
(* eval.grader.grade: one AgentRun against one expected.yaml contract.     *)
(*                                                                         *)
(* A graded run: diagnosis (NoDiagnosis or [class, confidence, mentions]), *)
(* fix (NoFix or [edits, applies]), tools (the recorded calls' names, in   *)
(* order), iterations (how many) and cost.  Of the diagnosis text only the *)
(* names it mentions matter; of a diff, what it does to which path; whether *)
(* git apply --check takes the fix is a fact of the fix and the staged     *)
(* tree (module FixValidate's subject, given here).                        *)
(***************************************************************************)
EXTENDS Naturals, Sequences, FiniteSets, Functions

CONSTANTS NoDiagnosis, NoFix

SubmitTool == "submit_diagnosis"

\* The calls that gather evidence: all but the terminal one.
EvidenceCalls(run) == Cardinality({i \in DOMAIN run.tools : run.tools[i] # SubmitTool})

\* _files_in_diff reads the "+++ b/<path>" lines: a deletion has /dev/null
\* there and a pure rename has no such line.
Edits(run) == IF run.fix = NoFix THEN {} ELSE run.fix.edits
FilesInDiff(run) == {e.path : e \in {d \in Edits(run) : d.kind \in {"modify", "create"}}}

\* A fix without a diff never gets as far as git.
Applies(run) == Edits(run) # {} /\ run.fix.applies

-----------------------------------------------------------------------------
\* CheckResult; grade() leaves the severity at its default.
CheckOf(name, passed, severity) ==
    {[name |-> name, passed |-> passed, severity |-> severity]}
Check(name, passed) == CheckOf(name, passed, "blocking")

\* A clause that is asserted only when the contract states it.
CheckIf(stated, name, passed) == IF stated THEN Check(name, passed) ELSE {}

Diagnosed(run) == run.diagnosis # NoDiagnosis

\* Without a diagnosis both checks are there and fail.
ChecksOfDiagnosedOnly(run, expected) ==
    IF Diagnosed(run)
    THEN Check("failure_class", run.diagnosis.class = expected.expected_failure_class)
         \union Check("min_confidence", run.diagnosis.confidence >= expected.min_confidence)
    ELSE {}

DiagnosisChecks(run, expected) ==
    Check("failure_class",
          Diagnosed(run) /\ run.diagnosis.class = expected.expected_failure_class)
    \union
    Check("min_confidence",
          Diagnosed(run) /\ run.diagnosis.confidence >= expected.min_confidence)

ToolChecksAlwaysStated(run, expected) ==
    Check("min_evidence_calls", EvidenceCalls(run) >= expected.min_evidence_calls)
    \union
    Check("at_least_one_of", expected.at_least_one_of \intersect Range(run.tools) # {})
    \union
    CheckIf(expected.forbidden_tool_calls # {}, "forbidden_tool_calls",
            expected.forbidden_tool_calls \intersect Range(run.tools) = {})

ToolChecks(run, expected) ==
    Check("min_evidence_calls", EvidenceCalls(run) >= expected.min_evidence_calls)
    \union
    CheckIf(expected.at_least_one_of # {}, "at_least_one_of",
            expected.at_least_one_of \intersect Range(run.tools) # {})
    \union
    CheckIf(expected.forbidden_tool_calls # {}, "forbidden_tool_calls",
            expected.forbidden_tool_calls \intersect Range(run.tools) = {})

CeilingsAsInfo(run, expected) ==
    CheckOf("max_iterations", run.iterations <= expected.max_iterations, "info")
    \union
    CheckOf("max_cost_usd", run.cost <= expected.max_cost_usd, "info")

CeilingChecks(run, expected) ==
    Check("max_iterations", run.iterations <= expected.max_iterations)
    \union
    Check("max_cost_usd", run.cost <= expected.max_cost_usd)

DiffChecks(run, expected) ==
    CheckIf(expected.expected_files_touched # {}, "expected_files_touched",
            expected.expected_files_touched \subseteq FilesInDiff(run))
    \union
    CheckIf(expected.forbidden_files_touched # {}, "forbidden_files_touched",
            expected.forbidden_files_touched \intersect FilesInDiff(run) = {})
    \union
    CheckIf(expected.fix_must_apply_cleanly, "fix_must_apply_cleanly", Applies(run))

\* Mentions are asserted of a diagnosis only; without one they are left out.
MentionChecks(run, expected) ==
    IF Diagnosed(run)
    THEN UNION {Check(name, name \in run.diagnosis.mentions) :
                   name \in expected.must_mention_columns \union expected.must_mention_models}
    ELSE {}

Checks(run, expected) ==
    DiagnosisChecks(run, expected) \union ToolChecks(run, expected)
    \union CeilingChecks(run, expected) \union DiffChecks(run, expected)
    \union MentionChecks(run, expected)

Blocking(checks) == {check \in checks : check.severity = "blocking"}

\* GradeReport.passed: only BLOCKING checks count.
Passed(run, expected) == \A check \in Blocking(Checks(run, expected)) : check.passed

\* EvalMetrics, as far as a table shows them.
Metrics(run) ==
    [failure_class |-> IF Diagnosed(run) THEN run.diagnosis.class ELSE "none",
     cost_usd |-> run.cost, iterations |-> run.iterations]

\* The GradeReport of grade().
Grade(run, expected) ==
    [passed |-> Passed(run, expected), checks |-> Checks(run, expected),
     metrics |-> Metrics(run)]
=============================================================================
