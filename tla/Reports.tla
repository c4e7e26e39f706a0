------------------------------- MODULE Reports ------------------------------
(***************************************************************************)
(* What a reader is told of graded scenarios, by two printers that share   *)
(* no code: eval.reporting, over ScenarioResults (a recording and a replay *)
(* report of each scenario), and the table of the ambesa-bench command,    *)
(* over the reports of one mode.  A table is its rows, without layout.     *)
(***************************************************************************)
EXTENDS Grader

Cost(report) == report.metrics.cost_usd
Iters(report) == report.metrics.iterations

Total(numbers) ==
    LET upTo[i \in 0 .. Len(numbers)] == IF i = 0 THEN 0 ELSE upTo[i - 1] + numbers[i]
    IN  upTo[Len(numbers)]

SumOver(Value(_), list) == Total([i \in DOMAIN list |-> Value(list[i])])

AsNumber(truth) == IF truth THEN 1 ELSE 0

-----------------------------------------------------------------------------
(* eval.reporting                                                          *)

\* GradeReport.blocking_failures
BlockingFailures(report) == {check \in Blocking(report.checks) : ~check.passed}

\* A column of its own, "unasked" when the contract does not ask for it.
FixApplies(report) ==
    LET asked == {check \in report.checks : check.name = "fix_must_apply_cleanly"}
    IN  IF asked = {} THEN "unasked"
        ELSE IF \E check \in asked : check.passed THEN "yes" ELSE "no"

RowFromReport(report) ==
    [pass |-> report.passed, class |-> report.metrics.failure_class,
     cost |-> report.metrics.cost_usd, iters |-> report.metrics.iterations,
     fixApplies |-> FixApplies(report)]

\* Each scenario gives its recording row and its replay row.
BothReports(results) ==
    [place \in 1 .. 2 * Len(results) |->
        IF place % 2 = 1 THEN results[(place + 1) \div 2].recording
        ELSE results[place \div 2].replay]

\* The passes are counted over both reports, out of two for each result.
TotalOfRecordings(results) ==
    [passes |-> SumOver(LAMBDA r : AsNumber(r.recording.passed), results),
     of |-> 2 * Len(results),
     cost |-> SumOver(LAMBDA r : Cost(r.recording), results),
     iters |-> SumOver(LAMBDA r : Iters(r.recording), results)]
TotalRow(results) ==
    [passes |-> SumOver(LAMBDA r : AsNumber(r.recording.passed) + AsNumber(r.replay.passed),
                        results),
     of |-> 2 * Len(results),
     cost |-> SumOver(LAMBDA r : Cost(r.recording) + Cost(r.replay), results),
     iters |-> SumOver(LAMBDA r : Iters(r.recording) + Iters(r.replay), results)]

FormatTable(results) ==
    LET reports == BothReports(results)
    IN  [rows |-> [i \in DOMAIN reports |-> RowFromReport(reports[i])],
         total |-> TotalRow(results)]

\* format_failure_details: a block for each report with a blocking failure.
FormatFailureDetails(results) ==
    LET reports == BothReports(results)
        listed == {i \in DOMAIN reports : BlockingFailures(reports[i]) # {}}
    IN  {[place |-> i, failures |-> BlockingFailures(reports[i])] : i \in listed}

\* ScenarioResult.passed
ScenarioPassed(result) == result.recording.passed /\ result.replay.passed

-----------------------------------------------------------------------------
(* The ambesa-bench command                                                *)

\* The command asks for every check, whatever its severity.
CliGreen(report) == \A check \in report.checks : check.passed

CliTable(reports) ==
    [rows |-> [i \in DOMAIN reports |->
                  [pass |-> CliGreen(reports[i]), class |-> reports[i].metrics.failure_class,
                   cost |-> reports[i].metrics.cost_usd, iters |-> reports[i].metrics.iterations]],
     total |-> [passes |-> SumOver(LAMBDA r : AsNumber(CliGreen(r)), reports),
                of |-> Len(reports),
                cost |-> SumOver(Cost, reports),
                iters |-> SumOver(Iters, reports)]]

\* Under --strict the exit code.
CliStrictExit(reports) == IF \E i \in DOMAIN reports : ~CliGreen(reports[i]) THEN 1 ELSE 0
=============================================================================
