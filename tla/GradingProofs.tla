--------------------------- MODULE GradingProofs ---------------------------
(***************************************************************************)
(* What a grade means, for every run and every contract: which clauses it  *)
(* is the conjunction of, that a stricter contract never passes what a     *)
(* laxer one fails, and that no clause is lost between the author of an    *)
(* expected.yaml and the grade.                                            *)
(***************************************************************************)
EXTENDS GradedContract, FiniteSetTheorems, SequenceTheorems, WellFoundedInduction, TLAPS

-----------------------------------------------------------------------------
(* The checks of a grade                                                   *)

\* Every check that blocks has passed.
AllPass(checks) == \A check \in Blocking(checks) : check.passed

\* A check passes if what it checks holds.
LEMMA OneCheck ==
    ASSUME NEW name, NEW holds
    PROVE  AllPass(Check(name, holds)) <=> holds
  <1> DEFINE check == [name |-> name, passed |-> holds, severity |-> "blocking"]
  <1>1. check.severity = "blocking" /\ (check.passed <=> holds)
    OBVIOUS
  <1>2. Check(name, holds) = {check}
    BY DEF Check, CheckOf
  <1> HIDE DEF check
  <1> QED
    BY <1>1, <1>2 DEF AllPass, Blocking

LEMMA NoCheck == AllPass({})
  BY DEF AllPass, Blocking

LEMMA OptionalCheck ==
    ASSUME NEW stated, NEW name, NEW holds
    PROVE  AllPass(CheckIf(stated, name, holds)) <=> (stated => holds)
  BY OneCheck, NoCheck DEF CheckIf

LEMMA BothPass ==
    ASSUME NEW a, NEW b
    PROVE  AllPass(a \union b) <=> AllPass(a) /\ AllPass(b)
  BY DEF AllPass, Blocking

\* Every name of a clause about mentions is mentioned.
LEMMA NamesMentioned ==
    ASSUME NEW names, NEW mentions
    PROVE  AllPass(UNION {Check(name, name \in mentions) : name \in names})
              <=> names \subseteq mentions
  <1> DEFINE checks == UNION {Check(name, name \in mentions) : name \in names}
  <1>1. ASSUME AllPass(checks), NEW name \in names PROVE name \in mentions
    <2>1. Check(name, name \in mentions) \subseteq checks
      OBVIOUS
    <2>2. AllPass(Check(name, name \in mentions))
      BY <1>1, <2>1 DEF AllPass, Blocking
    <2> DEFINE mentioned == name \in mentions
    <2> HIDE DEF mentioned
    <2>3. AllPass(Check(name, mentioned)) <=> mentioned
      BY OneCheck
    <2> QED
      BY <2>2, <2>3 DEF mentioned
  <1>2. ASSUME names \subseteq mentions PROVE AllPass(checks)
    <2> SUFFICES ASSUME NEW check \in Blocking(checks) PROVE check.passed
      BY DEF AllPass
    <2>1. PICK name \in names : check \in Check(name, name \in mentions)
      BY DEF Blocking
    <2>2. check \in Blocking(Check(name, name \in mentions))
      BY <2>1 DEF Blocking
    <2> QED
      BY <1>2, <2>2, OneCheck DEF AllPass
  <1> QED
    BY <1>1, <1>2

\* The clauses of a contract, one by one.
DiagnosisClauses(r, e) ==
    /\ Diagnosed(r)
    /\ r.diagnosis.class = e.expected_failure_class
    /\ r.diagnosis.confidence >= e.min_confidence
    /\ e.must_mention_columns \union e.must_mention_models \subseteq r.diagnosis.mentions
ToolClauses(r, e) ==
    /\ EvidenceCalls(r) >= e.min_evidence_calls
    /\ e.at_least_one_of # {} => e.at_least_one_of \intersect Range(r.tools) # {}
    /\ e.forbidden_tool_calls # {} => e.forbidden_tool_calls \intersect Range(r.tools) = {}
CeilingClauses(r, e) == r.iterations <= e.max_iterations /\ r.cost <= e.max_cost_usd
DiffClauses(r, e) ==
    /\ e.expected_files_touched # {} => e.expected_files_touched \subseteq FilesInDiff(r)
    /\ e.forbidden_files_touched # {} => e.forbidden_files_touched \intersect FilesInDiff(r) = {}
    /\ e.fix_must_apply_cleanly => Applies(r)

\* grade() passes a run exactly if it has a diagnosis and every clause holds:
\* no clause makes up for another, and a clause that is skipped demands nothing.
THEOREM EveryClauseCounts ==
    ASSUME NEW r, NEW e
    PROVE  Passed(r, e) <=> /\ DiagnosisClauses(r, e)
                            /\ ToolClauses(r, e)
                            /\ CeilingClauses(r, e)
                            /\ DiffClauses(r, e)
  <1>1. Passed(r, e) <=> AllPass(Checks(r, e))
    BY DEF Passed, AllPass
  <1>2. AllPass(Checks(r, e)) <=>
           /\ AllPass(DiagnosisChecks(r, e)) /\ AllPass(ToolChecks(r, e))
           /\ AllPass(CeilingChecks(r, e)) /\ AllPass(DiffChecks(r, e))
           /\ AllPass(MentionChecks(r, e))
    <2> DEFINE dt == DiagnosisChecks(r, e) \union ToolChecks(r, e)
               dtc == dt \union CeilingChecks(r, e)
               dtcd == dtc \union DiffChecks(r, e)
    <2>1. Checks(r, e) = dtcd \union MentionChecks(r, e)
      BY DEF Checks
    <2>2. AllPass(dt) <=> AllPass(DiagnosisChecks(r, e)) /\ AllPass(ToolChecks(r, e))
      BY BothPass
    <2>3. AllPass(dtc) <=> AllPass(dt) /\ AllPass(CeilingChecks(r, e))
      BY BothPass
    <2>4. AllPass(dtcd) <=> AllPass(dtc) /\ AllPass(DiffChecks(r, e))
      BY BothPass
    <2> HIDE DEF dtcd
    <2>5. AllPass(Checks(r, e)) <=> AllPass(dtcd) /\ AllPass(MentionChecks(r, e))
      BY <2>1, BothPass
    <2> QED
      BY <2>2, <2>3, <2>4, <2>5
  <1>3. AllPass(DiagnosisChecks(r, e)) <=>
           /\ Diagnosed(r) /\ r.diagnosis.class = e.expected_failure_class
           /\ r.diagnosis.confidence >= e.min_confidence
    BY BothPass, OneCheck DEF DiagnosisChecks
  <1>4. AllPass(ToolChecks(r, e)) <=> ToolClauses(r, e)
    <2> DEFINE enough == EvidenceCalls(r) >= e.min_evidence_calls
               evidence == Check("min_evidence_calls", enough)
               oneOf == CheckIf(e.at_least_one_of # {}, "at_least_one_of",
                                e.at_least_one_of \intersect Range(r.tools) # {})
               none == CheckIf(e.forbidden_tool_calls # {}, "forbidden_tool_calls",
                               e.forbidden_tool_calls \intersect Range(r.tools) = {})
    <2>1. ToolChecks(r, e) = evidence \union oneOf \union none
      BY DEF ToolChecks
    <2> HIDE DEF enough
    <2>2. AllPass(evidence) <=> enough
      BY OneCheck
    <2>3. AllPass(oneOf) <=> (e.at_least_one_of # {} =>
                                 e.at_least_one_of \intersect Range(r.tools) # {})
      BY OptionalCheck
    <2>4. AllPass(none) <=> (e.forbidden_tool_calls # {} =>
                                 e.forbidden_tool_calls \intersect Range(r.tools) = {})
      BY OptionalCheck
    <2> HIDE DEF evidence, oneOf, none
    <2> QED
      BY <2>1, <2>2, <2>3, <2>4, BothPass DEF ToolClauses, enough
  <1>5. AllPass(CeilingChecks(r, e)) <=> CeilingClauses(r, e)
    <2> DEFINE short == r.iterations <= e.max_iterations
               cheap == r.cost <= e.max_cost_usd
               turns == Check("max_iterations", short)
               price == Check("max_cost_usd", cheap)
    <2>1. CeilingChecks(r, e) = turns \union price
      BY DEF CeilingChecks
    <2> HIDE DEF short, cheap
    <2>2. AllPass(turns) <=> short
      BY OneCheck
    <2>3. AllPass(price) <=> cheap
      BY OneCheck
    <2> HIDE DEF turns, price
    <2> QED
      BY <2>1, <2>2, <2>3, BothPass DEF CeilingClauses, short, cheap
  <1>6. AllPass(DiffChecks(r, e)) <=> DiffClauses(r, e)
    <2> DEFINE touched == CheckIf(e.expected_files_touched # {}, "expected_files_touched",
                                  e.expected_files_touched \subseteq FilesInDiff(r))
               untouched == CheckIf(e.forbidden_files_touched # {}, "forbidden_files_touched",
                                    e.forbidden_files_touched \intersect FilesInDiff(r) = {})
               clean == CheckIf(e.fix_must_apply_cleanly, "fix_must_apply_cleanly", Applies(r))
    <2>1. DiffChecks(r, e) = touched \union untouched \union clean
      BY DEF DiffChecks
    <2>2. AllPass(touched) <=> (e.expected_files_touched # {} =>
                                   e.expected_files_touched \subseteq FilesInDiff(r))
      BY OptionalCheck
    <2>3. AllPass(untouched) <=> (e.forbidden_files_touched # {} =>
                                     e.forbidden_files_touched \intersect FilesInDiff(r) = {})
      BY OptionalCheck
    <2>4. AllPass(clean) <=> (e.fix_must_apply_cleanly => Applies(r))
      BY OptionalCheck
    <2> HIDE DEF touched, untouched, clean
    <2> QED
      BY <2>1, <2>2, <2>3, <2>4, BothPass DEF DiffClauses
  <1>7. ASSUME Diagnosed(r)
        PROVE  AllPass(MentionChecks(r, e)) <=>
                  e.must_mention_columns \union e.must_mention_models
                     \subseteq r.diagnosis.mentions
    <2> DEFINE names == e.must_mention_columns \union e.must_mention_models
               mentions == r.diagnosis.mentions
    <2>1. MentionChecks(r, e) = UNION {Check(name, name \in mentions) : name \in names}
      BY <1>7 DEF MentionChecks
    <2> HIDE DEF names, mentions
    <2>2. AllPass(MentionChecks(r, e)) <=> names \subseteq mentions
      BY <2>1, NamesMentioned
    <2> QED
      BY <2>2 DEF names, mentions
  <1> QED
    BY <1>1, <1>2, <1>3, <1>4, <1>5, <1>6, <1>7 DEF DiagnosisClauses

\* Whoever reads a report is told the same: GradeReport.passed, the command's
\* mark and the list of blocking failures agree, and a report that passed does
\* not show a fix that fails to apply.
THEOREM ReportReadsAlike ==
    ASSUME NEW r, NEW e
    PROVE  LET report == Grade(r, e)
           IN  /\ report.passed <=> CliGreen(report)
               /\ report.passed <=> BlockingFailures(report) = {}
               /\ report.passed => RowFromReport(report).fixApplies # "no"
  <1> DEFINE report == Grade(r, e)
  <1>1. (report.passed <=> Passed(r, e)) /\ report.checks = Checks(r, e)
    BY DEF Grade
  <1>2. \A check \in Checks(r, e) : check.severity = "blocking"
    BY DEF Checks, DiagnosisChecks, ToolChecks, CeilingChecks, DiffChecks, MentionChecks,
           CheckIf, Check, CheckOf
  <1>3. Blocking(Checks(r, e)) = Checks(r, e)
    BY <1>2 DEF Blocking
  <1>4. Passed(r, e) <=> \A check \in Checks(r, e) : check.passed
    BY <1>3 DEF Passed
  <1>5. report.passed <=> CliGreen(report)
    BY <1>1, <1>4 DEF CliGreen
  <1>6. report.passed <=> BlockingFailures(report) = {}
    BY <1>1, <1>3, <1>4 DEF BlockingFailures
  <1>7. report.passed => RowFromReport(report).fixApplies # "no"
    <2> SUFFICES ASSUME report.passed PROVE FixApplies(report) # "no"
      BY DEF RowFromReport
    <2>1. \A check \in report.checks : check.passed
      BY <1>1, <1>4
    <2> QED
      BY <2>1 DEF FixApplies
  <1> QED
    BY <1>5, <1>6, <1>7

-----------------------------------------------------------------------------
(* Sums of a column                                                        *)

\* Induction, for a set of numbers.
LEMMA AllNumbers ==
    ASSUME NEW S, 0 \in S, \A n \in Nat : n \in S => n + 1 \in S
    PROVE  Nat \subseteq S
  <1> DEFINE Bad == Nat \ S
  <1> SUFFICES ASSUME Bad # {} PROVE FALSE
    OBVIOUS
  <1>1. PICK n \in Bad : \A k \in Bad : ~(<<k, n>> \in OpToRel(<, Nat))
    <2>1. Bad \subseteq Nat
      OBVIOUS
    <2> HIDE DEF Bad
    <2> QED
      BY <2>1, WFMin, NatLessThanWellFounded
  <1>2. n \in Nat /\ n \notin S /\ n # 0
    OBVIOUS
  <1>3. n - 1 \in Nat /\ n - 1 < n /\ (n - 1) + 1 = n
    BY <1>2
  <1>4. n - 1 \notin Bad
    BY <1>1, <1>2, <1>3 DEF OpToRel
  <1> QED
    BY <1>2, <1>3, <1>4

\* The running sums of some numbers, as far as place n.
RunningSums(numbers, n, g) ==
    /\ g \in [0 .. n -> Nat]
    /\ g[0] = 0
    /\ \A i \in 1 .. n : g[i] = g[i - 1] + numbers[i]

LEMMA SumsCanBeRun ==
    ASSUME NEW numbers \in Seq(Nat)
    PROVE  \E g : RunningSums(numbers, Len(numbers), g)
  <1> DEFINE S == {n \in Nat : n <= Len(numbers) => \E g : RunningSums(numbers, n, g)}
  <1>1. 0 \in S
    <2> DEFINE g == [i \in 0 .. 0 |-> 0]
    <2>1. RunningSums(numbers, 0, g)
      BY DEF RunningSums
    <2> QED
      BY <2>1
  <1>2. ASSUME NEW n \in Nat, n \in S PROVE n + 1 \in S
    <2> SUFFICES ASSUME n + 1 <= Len(numbers)
                 PROVE  \E h : RunningSums(numbers, n + 1, h)
      OBVIOUS
    <2>1. PICK g : RunningSums(numbers, n, g)
      BY <1>2
    <2> DEFINE h == [i \in 0 .. n + 1 |-> IF i = n + 1 THEN g[n] + numbers[n + 1] ELSE g[i]]
    <2>2. g[n] \in Nat /\ numbers[n + 1] \in Nat
      BY <2>1 DEF RunningSums
    <2>3. h \in [0 .. n + 1 -> Nat] /\ h[0] = 0
      BY <2>1, <2>2 DEF RunningSums
    <2>4. \A i \in 1 .. n + 1 : h[i] = h[i - 1] + numbers[i]
      <3> SUFFICES ASSUME NEW i \in 1 .. n + 1 PROVE h[i] = h[i - 1] + numbers[i]
        OBVIOUS
      <3>1. i - 1 \in 0 .. n /\ i - 1 # n + 1 /\ i \in 0 .. n + 1 /\ i - 1 \in 0 .. n + 1
        OBVIOUS
      <3>2. h[i - 1] = g[i - 1]
        BY <3>1
      <3>3. CASE i = n + 1
        BY <3>1, <3>2, <3>3
      <3>4. CASE i # n + 1
        BY <2>1, <3>1, <3>2, <3>4 DEF RunningSums
      <3> QED
        BY <3>3, <3>4
    <2> QED
      BY <2>3, <2>4 DEF RunningSums
  <1>3. Nat \subseteq S
    <2> HIDE DEF S
    <2> QED
      BY <1>1, <1>2, AllNumbers
  <1>4. Len(numbers) \in Nat
    OBVIOUS
  <1> QED
    BY <1>3, <1>4

\* Two functions that run the sums of the same numbers are the same.
LEMMA TotalRunsTheSum ==
    ASSUME NEW numbers \in Seq(Nat)
    PROVE  \E g : RunningSums(numbers, Len(numbers), g) /\ Total(numbers) = g[Len(numbers)]
  <1> DEFINE Follows(f) == f = [i \in 0 .. Len(numbers) |->
                                   IF i = 0 THEN 0 ELSE f[i - 1] + numbers[i]]
             chosen == CHOOSE f : Follows(f)
  <1>0. Len(numbers) \in Nat
    OBVIOUS
  <1>1. Total(numbers) = chosen[Len(numbers)]
    BY DEF Total
  <1>2. PICK g : RunningSums(numbers, Len(numbers), g)
    BY SumsCanBeRun
  <1>3. Follows(g)
    <2>1. \A i \in 0 .. Len(numbers) : i = 0 \/ i \in 1 .. Len(numbers)
      BY <1>0
    <2> QED
      BY <1>2, <2>1 DEF RunningSums
  <1>4. Follows(chosen)
    <2> HIDE DEF Follows
    <2> QED
      BY <1>3
  <1>5. /\ chosen[0] = 0
        /\ \A i \in 1 .. Len(numbers) : chosen[i] = chosen[i - 1] + numbers[i]
    <2>1. \A i \in 0 .. Len(numbers) :
             chosen[i] = IF i = 0 THEN 0 ELSE chosen[i - 1] + numbers[i]
      <3> HIDE DEF chosen
      <3> QED
        BY <1>4
    <2> HIDE DEF chosen
    <2> QED
      BY <1>0, <2>1
  <1> DEFINE S == {n \in Nat : n <= Len(numbers) => chosen[n] = g[n]}
  <1> HIDE DEF chosen, Follows
  <1>6. 0 \in S
    BY <1>2, <1>5 DEF RunningSums
  <1>7. ASSUME NEW n \in Nat, n \in S PROVE n + 1 \in S
    <2> SUFFICES ASSUME n + 1 <= Len(numbers) PROVE chosen[n + 1] = g[n + 1]
      OBVIOUS
    <2>1. n + 1 \in 1 .. Len(numbers) /\ (n + 1) - 1 = n /\ chosen[n] = g[n]
      BY <1>0, <1>7
    <2> QED
      BY <1>2, <1>5, <2>1 DEF RunningSums
  <1>8. Nat \subseteq S
    <2> HIDE DEF S
    <2> QED
      BY <1>6, <1>7, AllNumbers
  <1> QED
    BY <1>0, <1>1, <1>2, <1>8

\* A column that is the sum of two others has the sum of their totals.
LEMMA TotalsAdd ==
    ASSUME NEW a \in Seq(Nat), NEW b \in Seq(Nat), NEW c \in Seq(Nat),
           Len(a) = Len(c), Len(b) = Len(c), \A i \in 1 .. Len(c) : c[i] = a[i] + b[i]
    PROVE  Total(c) = Total(a) + Total(b)
  <1>0. Len(c) \in Nat
    OBVIOUS
  <1>1. PICK ga : RunningSums(a, Len(c), ga) /\ Total(a) = ga[Len(c)]
    BY TotalRunsTheSum
  <1>2. PICK gb : RunningSums(b, Len(c), gb) /\ Total(b) = gb[Len(c)]
    BY TotalRunsTheSum
  <1>3. PICK gc : RunningSums(c, Len(c), gc) /\ Total(c) = gc[Len(c)]
    BY TotalRunsTheSum
  <1> DEFINE S == {n \in Nat : n <= Len(c) => gc[n] = ga[n] + gb[n]}
  <1>4. 0 \in S
    BY <1>1, <1>2, <1>3 DEF RunningSums
  <1>5. ASSUME NEW n \in Nat, n \in S PROVE n + 1 \in S
    <2> SUFFICES ASSUME n + 1 <= Len(c) PROVE gc[n + 1] = ga[n + 1] + gb[n + 1]
      OBVIOUS
    <2>1. n + 1 \in 1 .. Len(c) /\ (n + 1) - 1 = n /\ n \in 0 .. Len(c)
      BY <1>0
    <2>2. gc[n + 1] = gc[n] + c[n + 1] /\ gc[n] = ga[n] + gb[n]
      BY <1>3, <1>5, <2>1 DEF RunningSums
    <2>3. ga[n + 1] = ga[n] + a[n + 1] /\ gb[n + 1] = gb[n] + b[n + 1]
      BY <1>1, <1>2, <2>1 DEF RunningSums
    <2>4. ga[n] \in Nat /\ gb[n] \in Nat
      BY <1>1, <1>2, <2>1 DEF RunningSums
    <2>5. a[n + 1] \in Nat /\ b[n + 1] \in Nat
      BY <2>1, ElementOfSeq
    <2>6. c[n + 1] = a[n + 1] + b[n + 1]
      BY <2>1
    <2> DEFINE p == ga[n]  q == gb[n]  s == a[n + 1]  t == b[n + 1]
    <2>7. p \in Nat /\ q \in Nat /\ s \in Nat /\ t \in Nat
      BY <2>4, <2>5
    <2>8. gc[n + 1] = (p + q) + (s + t) /\ ga[n + 1] = p + s /\ gb[n + 1] = q + t
      BY <2>2, <2>3, <2>6, Zenon
    <2> HIDE DEF p, q, s, t
    <2>9. (p + q) + (s + t) = (p + s) + (q + t)
      BY <2>7
    <2> QED
      BY <2>8, <2>9, Zenon
  <1>6. Nat \subseteq S
    <2> HIDE DEF S
    <2> QED
      BY <1>4, <1>5, AllNumbers
  <1> QED
    BY <1>0, <1>1, <1>2, <1>3, <1>6

-----------------------------------------------------------------------------
(* The readers of a suite                                                  *)

\* A report of which every printer makes the same.
WellGraded(report) ==
    /\ report.passed <=> CliGreen(report)
    /\ report.passed <=> BlockingFailures(report) = {}
    /\ report.passed => FixApplies(report) # "no"
    /\ Cost(report) \in Nat /\ Iters(report) \in Nat

LEMMA GradesAreWell ==
    ASSUME NEW r, NEW e, GradedRun(r)
    PROVE  WellGraded(Grade(r, e))
  <1>1. Cost(Grade(r, e)) = r.cost /\ Iters(Grade(r, e)) = r.iterations
    BY DEF Cost, Iters, Grade, Metrics
  <1>2. RowFromReport(Grade(r, e)).fixApplies = FixApplies(Grade(r, e))
    BY DEF RowFromReport
  <1> QED
    BY <1>1, <1>2, ReportReadsAlike DEF WellGraded, GradedRun

\* Where the reports of a scenario stand among the reports of both modes.
LEMMA PlaceOfReport ==
    ASSUME NEW T, NEW suite \in Seq(T), NEW i \in DOMAIN suite
    PROVE  /\ 2 * (i - 1) + 1 \in DOMAIN BothReports(suite)
           /\ 2 * (i - 1) + 2 \in DOMAIN BothReports(suite)
           /\ BothReports(suite)[2 * (i - 1) + 1] = suite[i].recording
           /\ BothReports(suite)[2 * (i - 1) + 2] = suite[i].replay
  <1> DEFINE first == 2 * (i - 1) + 1
             second == 2 * (i - 1) + 2
  <1>1. i \in 1 .. Len(suite) /\ Len(suite) \in Nat /\ i \in Nat
    OBVIOUS
  <1>2. /\ first \in 1 .. 2 * Len(suite) /\ second \in 1 .. 2 * Len(suite)
    BY <1>1
  <1>3. first % 2 = 1 /\ (first + 1) \div 2 = i
    BY <1>1
  <1>4. second % 2 # 1 /\ second \div 2 = i
    BY <1>1
  <1> HIDE DEF first, second
  <1>5. /\ first \in DOMAIN BothReports(suite) /\ second \in DOMAIN BothReports(suite)
        /\ BothReports(suite)[first] = suite[i].recording
        /\ BothReports(suite)[second] = suite[i].replay
    BY <1>2, <1>3, <1>4 DEF BothReports
  <1> QED
    BY <1>5 DEF first, second

\* The columns of the paired table add up the columns of the command's two.
LEMMA ColumnsAdd ==
    ASSUME NEW T, NEW suite \in Seq(T),
           NEW a, NEW b, NEW c,
           a = [i \in DOMAIN suite |-> a[i]], b = [i \in DOMAIN suite |-> b[i]],
           c = [i \in DOMAIN suite |-> c[i]],
           \A i \in DOMAIN suite : a[i] \in Nat /\ b[i] \in Nat /\ c[i] = a[i] + b[i]
    PROVE  Total(c) = Total(a) + Total(b)
  <1>1. DOMAIN suite = 1 .. Len(suite) /\ Len(suite) \in Nat
    OBVIOUS
  <1>2. \A i \in DOMAIN suite : c[i] \in Nat
    OBVIOUS
  <1>3. a \in [1 .. Len(suite) -> Nat] /\ b \in [1 .. Len(suite) -> Nat]
        /\ c \in [1 .. Len(suite) -> Nat]
    BY <1>1, <1>2
  <1>4. /\ a \in Seq(Nat) /\ b \in Seq(Nat) /\ c \in Seq(Nat)
        /\ Len(a) = Len(suite) /\ Len(b) = Len(suite) /\ Len(c) = Len(suite)
    BY <1>1, <1>3, IsASeq, LenProperties
  <1>5. \A i \in 1 .. Len(c) : c[i] = a[i] + b[i]
    BY <1>1, <1>4
  <1>6. a \in Seq(Nat) /\ b \in Seq(Nat) /\ c \in Seq(Nat) /\ Len(a) = Len(c) /\ Len(b) = Len(c)
    BY <1>4
  <1> QED
    BY <1>5, <1>6, TotalsAdd, Zenon

\* The mark the command gives a report, and the reports whose failures are listed.
LEMMA CommandsMark ==
    ASSUME NEW reports, NEW i \in DOMAIN reports
    PROVE  CliTable(reports).rows[i].pass <=> CliGreen(reports[i])
  <1> DEFINE green == [j \in DOMAIN reports |-> CliGreen(reports[j])]
             row(j) == [pass |-> green[j], class |-> reports[j].metrics.failure_class,
                        cost |-> reports[j].metrics.cost_usd,
                        iters |-> reports[j].metrics.iterations]
  <1>1. green[i] <=> CliGreen(reports[i])
    OBVIOUS
  <1>2. CliTable(reports).rows = [j \in DOMAIN reports |-> row(j)]
    BY DEF CliTable
  <1> HIDE DEF green
  <1> QED
    BY <1>1, <1>2

LEMMA ListedFailures ==
    ASSUME NEW suite, NEW place
    PROVE  place \in {block.place : block \in FormatFailureDetails(suite)} <=>
              /\ place \in DOMAIN BothReports(suite)
              /\ BlockingFailures(BothReports(suite)[place]) # {}
  <1> DEFINE reports == BothReports(suite)
             Block(i) == [place |-> i, failures |-> BlockingFailures(reports[i])]
             failing == {i \in DOMAIN reports : BlockingFailures(reports[i]) # {}}
  <1>1. FormatFailureDetails(suite) = {Block(i) : i \in failing}
    BY DEF FormatFailureDetails
  <1>2. \A i : Block(i).place = i
    OBVIOUS
  <1> HIDE DEF Block
  <1>3. {block.place : block \in FormatFailureDetails(suite)} = failing
    BY <1>1, <1>2
  <1> QED
    BY <1>3

\* Both tables, the listed failures and the exit code tell the same of any
\* suite, whatever its length.
THEOREM AnySuiteReadsAlike ==
    ASSUME NEW T, NEW suite \in Seq(T),
           \A i \in DOMAIN suite : WellGraded(suite[i].recording) /\ WellGraded(suite[i].replay)
    PROVE  ReadAlike(suite)
  <1> DEFINE paired == FormatTable(suite)
             recordings == [i \in DOMAIN suite |-> suite[i].recording]
             replays == [i \in DOMAIN suite |-> suite[i].replay]
             cli == <<CliTable(recordings), CliTable(replays)>>
             listed == {block.place : block \in FormatFailureDetails(suite)}
  <1>0. DOMAIN suite = 1 .. Len(suite) /\ Len(suite) \in Nat
    OBVIOUS
  <1>1. ASSUME NEW scenario \in DOMAIN suite, NEW mode \in 1 .. 2
        PROVE  LET place == 2 * (scenario - 1) + mode
                   row == paired.rows[place]
               IN  /\ row.pass <=> cli[mode].rows[scenario].pass
                   /\ row.pass <=> place \notin listed
                   /\ row.pass => row.fixApplies # "no"
    <2> DEFINE place == 2 * (scenario - 1) + mode
               report == BothReports(suite)[place]
               row == paired.rows[place]
    <2>1. /\ place \in DOMAIN BothReports(suite)
          /\ report = IF mode = 1 THEN suite[scenario].recording ELSE suite[scenario].replay
      BY PlaceOfReport
    <2>2. row.pass = report.passed /\ row.fixApplies = FixApplies(report)
      BY <2>1 DEF FormatTable, RowFromReport
    <2>3. cli[mode].rows[scenario].pass <=> CliGreen(report)
      <3>1. CASE mode = 1
        <4>1. /\ cli[mode] = CliTable(recordings) /\ recordings[scenario] = report
              /\ scenario \in DOMAIN recordings
          BY <2>1, <3>1
        <4> HIDE DEF cli, recordings, report
        <4> QED
          BY <4>1, CommandsMark
      <3>2. CASE mode = 2
        <4>1. /\ cli[mode] = CliTable(replays) /\ replays[scenario] = report
              /\ scenario \in DOMAIN replays
          BY <2>1, <3>2
        <4> HIDE DEF cli, replays, report
        <4> QED
          BY <4>1, CommandsMark
      <3> QED
        BY <3>1, <3>2
    <2>4. place \in listed <=> BlockingFailures(report) # {}
      BY <2>1, ListedFailures
    <2>5. WellGraded(report)
      BY <2>1
    <2> HIDE DEF place, report, row, paired, cli, listed
    <2> QED
      BY <2>2, <2>3, <2>4, <2>5 DEF WellGraded, place, row
  <1>2. /\ paired.total = TotalRow(suite)
        /\ cli[1].total = CliTable(recordings).total
        /\ cli[2].total = CliTable(replays).total
    BY DEF FormatTable
  <1>3. paired.total.passes = cli[1].total.passes + cli[2].total.passes
    <2> DEFINE a == [i \in DOMAIN recordings |-> AsNumber(CliGreen(recordings[i]))]
               b == [i \in DOMAIN replays |-> AsNumber(CliGreen(replays[i]))]
               c == [i \in DOMAIN suite |-> AsNumber(suite[i].recording.passed)
                                              + AsNumber(suite[i].replay.passed)]
    <2>1. /\ TotalRow(suite).passes = Total(c)
          /\ CliTable(recordings).total.passes = Total(a)
          /\ CliTable(replays).total.passes = Total(b)
      BY DEF TotalRow, CliTable, SumOver
    <2>2. \A i \in DOMAIN suite : a[i] \in Nat /\ b[i] \in Nat /\ c[i] = a[i] + b[i]
      BY DEF AsNumber, WellGraded
    <2> HIDE DEF paired, cli
    <2> QED
      BY <1>2, <2>1, <2>2, ColumnsAdd
  <1>4. paired.total.of = cli[1].total.of + cli[2].total.of
    <2>1. Len(recordings) = Len(suite) /\ Len(replays) = Len(suite)
      BY <1>0
    <2>2. /\ TotalRow(suite).of = 2 * Len(suite)
          /\ CliTable(recordings).total.of = Len(recordings)
          /\ CliTable(replays).total.of = Len(replays)
      BY DEF TotalRow, CliTable
    <2> HIDE DEF paired, cli, recordings, replays
    <2> QED
      BY <1>0, <1>2, <2>1, <2>2
  <1>5. paired.total.cost = cli[1].total.cost + cli[2].total.cost
    <2> DEFINE a == [i \in DOMAIN recordings |-> Cost(recordings[i])]
               b == [i \in DOMAIN replays |-> Cost(replays[i])]
               c == [i \in DOMAIN suite |-> Cost(suite[i].recording) + Cost(suite[i].replay)]
    <2>1. /\ TotalRow(suite).cost = Total(c)
          /\ CliTable(recordings).total.cost = Total(a)
          /\ CliTable(replays).total.cost = Total(b)
      BY DEF TotalRow, CliTable, SumOver
    <2>2. \A i \in DOMAIN suite : a[i] \in Nat /\ b[i] \in Nat /\ c[i] = a[i] + b[i]
      BY DEF WellGraded
    <2> HIDE DEF paired, cli
    <2> QED
      BY <1>2, <2>1, <2>2, ColumnsAdd
  <1>6. paired.total.iters = cli[1].total.iters + cli[2].total.iters
    <2> DEFINE a == [i \in DOMAIN recordings |-> Iters(recordings[i])]
               b == [i \in DOMAIN replays |-> Iters(replays[i])]
               c == [i \in DOMAIN suite |-> Iters(suite[i].recording) + Iters(suite[i].replay)]
    <2>1. /\ TotalRow(suite).iters = Total(c)
          /\ CliTable(recordings).total.iters = Total(a)
          /\ CliTable(replays).total.iters = Total(b)
      BY DEF TotalRow, CliTable, SumOver
    <2>2. \A i \in DOMAIN suite : a[i] \in Nat /\ b[i] \in Nat /\ c[i] = a[i] + b[i]
      BY DEF WellGraded
    <2> HIDE DEF paired, cli
    <2> QED
      BY <1>2, <2>1, <2>2, ColumnsAdd
  <1>7. (\A i \in DOMAIN suite : ScenarioPassed(suite[i])) <=>
           CliStrictExit(recordings) = 0 /\ CliStrictExit(replays) = 0
    BY DEF ScenarioPassed, CliStrictExit, WellGraded
  <1> HIDE DEF paired, recordings, replays, cli, listed
  <1>8. \A scenario \in DOMAIN suite, mode \in 1 .. 2 :
           LET place == 2 * (scenario - 1) + mode
               row == paired.rows[place]
           IN  /\ row.pass <=> cli[mode].rows[scenario].pass
               /\ row.pass <=> place \notin listed
               /\ row.pass => row.fixApplies # "no"
    BY <1>1
  <1> QED
    BY <1>3, <1>4, <1>5, <1>6, <1>7, <1>8
       DEF ReadAlike, paired, recordings, replays, cli, listed

-----------------------------------------------------------------------------
(* Stricter contracts                                                      *)

\* Every clause of one contract demands at least what that of another does.
Stricter(new, old) ==
    /\ new.expected_failure_class = old.expected_failure_class
    /\ new.min_confidence >= old.min_confidence
    /\ old.must_mention_columns \subseteq new.must_mention_columns
    /\ old.must_mention_models \subseteq new.must_mention_models
    /\ new.min_evidence_calls >= old.min_evidence_calls
    /\ old.at_least_one_of # {} =>
          new.at_least_one_of # {} /\ new.at_least_one_of \subseteq old.at_least_one_of
    /\ old.forbidden_tool_calls \subseteq new.forbidden_tool_calls
    /\ new.max_iterations <= old.max_iterations
    /\ new.max_cost_usd <= old.max_cost_usd
    /\ old.expected_files_touched \subseteq new.expected_files_touched
    /\ old.forbidden_files_touched \subseteq new.forbidden_files_touched
    /\ old.fix_must_apply_cleanly => new.fix_must_apply_cleanly

NumbersOf(e) ==
    /\ e.min_confidence \in Nat /\ e.min_evidence_calls \in Nat
    /\ e.max_iterations \in Nat /\ e.max_cost_usd \in Nat

LEMMA EvidenceIsANumber ==
    ASSUME NEW r, GradedRun(r)
    PROVE  EvidenceCalls(r) \in Nat
  <1>1. DOMAIN r.tools = 1 .. Len(r.tools) /\ Len(r.tools) \in Nat
    BY DEF GradedRun
  <1>2. IsFiniteSet(1 .. Len(r.tools))
    <2>1. Len(r.tools) \in Nat /\ Len(r.tools) \in Int /\ 1 \in Int
      BY <1>1
    <2> QED
      BY <2>1, FS_Interval
  <1>3. IsFiniteSet({i \in DOMAIN r.tools : r.tools[i] # SubmitTool})
    BY <1>1, <1>2, FS_Subset
  <1> QED
    BY <1>3, FS_CardinalityType DEF EvidenceCalls

\* A run that passes a contract passes every laxer one.
THEOREM StricterContractsPassLess ==
    ASSUME NEW r, GradedRun(r), NEW new, NEW old, NumbersOf(new), NumbersOf(old),
           Stricter(new, old), Passed(r, new)
    PROVE  Passed(r, old)
  <1>1. /\ DiagnosisClauses(r, new) /\ ToolClauses(r, new)
        /\ CeilingClauses(r, new) /\ DiffClauses(r, new)
    BY EveryClauseCounts
  <1>2. DiagnosisClauses(r, old)
    <2>1. r.diagnosis.confidence \in Nat
      BY <1>1 DEF DiagnosisClauses, Diagnosed, GradedRun
    <2>2. r.diagnosis.confidence >= old.min_confidence
      BY <1>1, <2>1 DEF DiagnosisClauses, Stricter, NumbersOf
    <2> QED
      BY <1>1, <2>2 DEF DiagnosisClauses, Stricter
  <1>3. ToolClauses(r, old)
    <2>1. EvidenceCalls(r) >= old.min_evidence_calls
      BY <1>1, EvidenceIsANumber DEF ToolClauses, Stricter, NumbersOf
    <2> QED
      BY <1>1, <2>1 DEF ToolClauses, Stricter
  <1>4. CeilingClauses(r, old)
    BY <1>1 DEF CeilingClauses, Stricter, NumbersOf, GradedRun
  <1>5. DiffClauses(r, old)
    BY <1>1 DEF DiffClauses, Stricter
  <1> QED
    BY <1>2, <1>3, <1>4, <1>5, EveryClauseCounts

-----------------------------------------------------------------------------
(* The document under the author's hands                                   *)

\* As long as the file is a mapping it is well written, and the verdict is
\* that of the document as it stands.
GInv ==
    /\ GradedRun(run)
    /\ verdict = Verdict(doc)
    /\ doc.top = "mapping" =>
          /\ doc = Mapping([f \in DOMAIN Keys |-> Keys[f]])
          /\ WellWritten(Keys)

LEMMA FieldsAre ==
    /\ RequiredFields = {"provenance", "expected_failure_class", "min_confidence"}
    /\ OptionalFields = {"min_evidence_calls", "at_least_one_of", "forbidden_tool_calls",
                         "max_iterations", "max_cost_usd", "expected_files_touched",
                         "forbidden_files_touched", "fix_must_apply_cleanly",
                         "must_mention_columns", "must_mention_models"}
    /\ SetFields = {"at_least_one_of", "forbidden_tool_calls", "expected_files_touched",
                    "forbidden_files_touched", "must_mention_columns", "must_mention_models"}
    /\ SetFields \subseteq ExpectedFields
  BY DEF RequiredFields, OptionalFields, SetFields, FieldDefaults, NumberFields, ExpectedFields

LEMMA WrittenIs ==
    ASSUME NEW keys, NEW field \in DOMAIN keys, NEW value
    PROVE  /\ DOMAIN [keys EXCEPT ![field] = value] = DOMAIN keys
           /\ [keys EXCEPT ![field] = value][field] = value
           /\ \A f \in DOMAIN keys \ {field} : [keys EXCEPT ![field] = value][f] = keys[f]
  OBVIOUS

\* What a draft has been turned into when one of its keys is written anew.
LEMMA WritingKeepsItWell ==
    ASSUME GInv, doc.top = "mapping", NEW field \in ExpectedFields, NEW value,
           Has(field), Write(field, value),
           field \in NumberFields => value \in Nat,
           field = "fix_must_apply_cleanly" => value \in BOOLEAN,
           field = "provenance" => value \in Origin
    PROVE  doc'.top = "mapping" /\ doc' = Mapping([f \in DOMAIN Keys' |-> Keys'[f]])
              /\ WellWritten(Keys')
  <1> DEFINE keys == [Keys EXCEPT ![field] = value]
  <1>1. doc' = Mapping(keys)
    BY DEF Write
  <1>2. doc'.top = "mapping" /\ Keys' = keys
    BY <1>1 DEF Mapping, Keys
  <1>3. DOMAIN keys = DOMAIN Keys /\ keys = [f \in DOMAIN keys |-> keys[f]]
    OBVIOUS
  <1>4. /\ keys[field] = value
        /\ \A f \in DOMAIN Keys \ {field} : keys[f] = Keys[f]
    BY DEF Has
  <1> HIDE DEF keys
  <1>5. WellWritten(keys)
    <2>1. WellWritten(Keys)
      BY DEF GInv
    <2>2. DOMAIN keys \subseteq ExpectedFields \union Range(Misspelt)
      BY <1>3, <2>1 DEF WellWritten
    <2>3. \A f \in DOMAIN keys \intersect NumberFields : keys[f] \in Nat
      BY <1>3, <1>4, <2>1 DEF WellWritten
    <2>4. "fix_must_apply_cleanly" \in DOMAIN keys => keys.fix_must_apply_cleanly \in BOOLEAN
      BY <1>3, <1>4, <2>1 DEF WellWritten
    <2>5. "provenance" \in DOMAIN keys => keys.provenance \in Origin
      BY <1>3, <1>4, <2>1 DEF WellWritten
    <2> QED
      BY <2>2, <2>3, <2>4, <2>5 DEF WellWritten
  <1> QED
    BY <1>1, <1>2, <1>3, <1>5

\* A value that demands at least as much of its field as another.
Tighter(field, new, old) ==
    /\ field \in {"min_confidence", "min_evidence_calls"} => new >= old
    /\ field \in {"max_iterations", "max_cost_usd"} => new <= old
    /\ field \in SetFields \ {"at_least_one_of"} => old \subseteq new
    /\ field = "at_least_one_of" => new # {} /\ (old # {} => new \subseteq old)
    /\ field = "fix_must_apply_cleanly" => new = TRUE

\* Tightening writes one clause, with a value of its type that demands more.
LEMMA TightenWritesOne ==
    ASSUME GInv, doc.top = "mapping", Tighten
    PROVE  \E field \in NumberFields \union SetFields \union {"fix_must_apply_cleanly"} : \E value :
              /\ Has(field) /\ Write(field, value)
              /\ field \in NumberFields => value \in Nat
              /\ field = "fix_must_apply_cleanly" => value \in BOOLEAN
              /\ Tighter(field, value, Keys[field])
  <1>1. \A f \in NumberFields : Has(f) => Keys[f] \in Nat
    BY DEF GInv, WellWritten, Has
  <1>2. ASSUME NEW field \in {"min_confidence", "min_evidence_calls"}, Raise(field)
        PROVE  /\ Has(field) /\ Write(field, Keys[field] + 1) /\ Keys[field] + 1 \in Nat
               /\ Tighter(field, Keys[field] + 1, Keys[field])
    <2>1. Has(field) /\ Write(field, Keys[field] + 1)
      BY <1>2 DEF Raise
    <2>2. Keys[field] \in Nat
      BY <1>1, <2>1 DEF NumberFields
    <2>3. Keys[field] + 1 \in Nat /\ Keys[field] + 1 >= Keys[field]
      BY <2>2
    <2> QED
      BY <2>1, <2>3, FieldsAre DEF Tighter
  <1>3. ASSUME NEW field \in {"max_iterations", "max_cost_usd"}, Lower(field)
        PROVE  /\ Has(field) /\ Write(field, Keys[field] - 1) /\ Keys[field] - 1 \in Nat
               /\ Tighter(field, Keys[field] - 1, Keys[field])
    <2>1. Has(field) /\ Write(field, Keys[field] - 1) /\ Keys[field] > 0
      BY <1>3 DEF Lower
    <2>2. Keys[field] \in Nat
      BY <1>1, <2>1 DEF NumberFields
    <2>3. Keys[field] - 1 \in Nat /\ Keys[field] - 1 <= Keys[field]
      BY <2>1, <2>2
    <2> QED
      BY <2>1, <2>3, FieldsAre DEF Tighter
  <1>4. ASSUME NEW field \in DOMAIN Wordings \ {"at_least_one_of"}, Demand(field)
        PROVE  /\ field \in SetFields
               /\ \E names : Has(field) /\ Write(field, names) /\ Tighter(field, names, Keys[field])
    BY <1>4, FieldsAre, GradingAssumption DEF Demand, Tighter
  <1>5. ASSUME NarrowAlternatives
        PROVE  \E names : /\ Has("at_least_one_of") /\ Write("at_least_one_of", names)
                          /\ Tighter("at_least_one_of", names, Keys["at_least_one_of"])
    BY <1>5, FieldsAre DEF NarrowAlternatives, Tighter
  <1>6. Tighter("fix_must_apply_cleanly", TRUE, Keys["fix_must_apply_cleanly"])
    BY FieldsAre DEF Tighter
  <1>7. CASE \E field \in {"min_confidence", "min_evidence_calls"} : Raise(field)
    BY <1>2, <1>7 DEF NumberFields
  <1>8. CASE \E field \in {"max_iterations", "max_cost_usd"} : Lower(field)
    BY <1>3, <1>8 DEF NumberFields
  <1>9. CASE \E field \in DOMAIN Wordings \ {"at_least_one_of"} : Demand(field)
    BY <1>4, <1>9, FieldsAre DEF NumberFields
  <1>10. CASE NarrowAlternatives
    BY <1>5, <1>10, FieldsAre DEF NumberFields
  <1>11. CASE Has("fix_must_apply_cleanly") /\ Write("fix_must_apply_cleanly", TRUE)
    BY <1>6, <1>11 DEF NumberFields
  <1> QED
    BY <1>7, <1>8, <1>9, <1>10, <1>11 DEF Tighten

\* The contract a document with well-written keys loads to has numbers where
\* numbers are compared.
LEMMA LoadedNumbers ==
    ASSUME NEW keys, WellWritten(keys), RequiredFields \subseteq DOMAIN keys
    PROVE  NumbersOf(WithDefaults(keys))
  <1> DEFINE e == WithDefaults(keys)
  <1>1. \A f \in NumberFields : f \in DOMAIN keys => keys[f] \in Nat
    BY DEF WellWritten
  <1>2. e.min_confidence = keys["min_confidence"] /\ "min_confidence" \in DOMAIN keys
    BY FieldsAre DEF WithDefaults, ExpectedFields
  <1>3. /\ e.min_evidence_calls = IF "min_evidence_calls" \in DOMAIN keys
                                  THEN keys["min_evidence_calls"] ELSE 1
        /\ e.max_iterations = IF "max_iterations" \in DOMAIN keys
                              THEN keys["max_iterations"] ELSE 12
        /\ e.max_cost_usd = IF "max_cost_usd" \in DOMAIN keys
                            THEN keys["max_cost_usd"] ELSE DefaultMaxCost
    BY FieldsAre DEF WithDefaults, ExpectedFields, FieldDefaults
  <1> HIDE DEF e
  <1>4. NumbersOf(e)
    BY <1>1, <1>2, <1>3, GradingAssumption DEF NumbersOf, NumberFields
  <1> QED
    BY <1>4 DEF e

\* Writing one clause tighter makes the contract stricter.
LEMMA TighterIsStricter ==
    ASSUME NEW new, NEW old, NumbersOf(new), NumbersOf(old),
           NEW field \in ExpectedFields \ {"provenance", "expected_failure_class"},
           \A f \in ExpectedFields \ {field} : new[f] = old[f],
           Tighter(field, new[field], old[field])
    PROVE  Stricter(new, old)
  <1>1. new.expected_failure_class = old.expected_failure_class
    BY FieldsAre DEF ExpectedFields
  <1>2. new.min_confidence >= old.min_confidence /\ new.min_evidence_calls >= old.min_evidence_calls
    BY FieldsAre DEF ExpectedFields, Tighter, NumbersOf
  <1>3. new.max_iterations <= old.max_iterations /\ new.max_cost_usd <= old.max_cost_usd
    BY FieldsAre DEF ExpectedFields, Tighter, NumbersOf
  <1>4. /\ old.must_mention_columns \subseteq new.must_mention_columns
        /\ old.must_mention_models \subseteq new.must_mention_models
        /\ old.forbidden_tool_calls \subseteq new.forbidden_tool_calls
        /\ old.expected_files_touched \subseteq new.expected_files_touched
        /\ old.forbidden_files_touched \subseteq new.forbidden_files_touched
    BY FieldsAre DEF ExpectedFields, Tighter
  <1>5. old.at_least_one_of # {} =>
          new.at_least_one_of # {} /\ new.at_least_one_of \subseteq old.at_least_one_of
    BY FieldsAre DEF ExpectedFields, Tighter
  <1>6. old.fix_must_apply_cleanly => new.fix_must_apply_cleanly
    BY FieldsAre DEF ExpectedFields, Tighter
  <1> QED
    BY <1>1, <1>2, <1>3, <1>4, <1>5, <1>6 DEF Stricter

-----------------------------------------------------------------------------
(* The theorems about a document in the making                             *)

LEMMA GradeInit == Init => GInv
  <1> SUFFICES ASSUME Init PROVE GInv
    OBVIOUS
  <1>1. PICK keys \in Drafts : doc = Mapping(keys)
    BY DEF Init
  <1>2. doc.top = "mapping" /\ Keys = keys
    BY <1>1 DEF Mapping, Keys
  <1>3. WellWritten(keys) /\ keys = [f \in DOMAIN keys |-> keys[f]]
    BY GradingAssumption DEF WellWritten
  <1> QED
    BY <1>1, <1>2, <1>3, GradingAssumption DEF GInv, Init

\* A mapping, or a file that is spoilt: every edit leaves one or the other.
LEMMA EditKeepsItWell ==
    ASSUME GInv, doc.top = "mapping", Tighten \/ LeaveOut \/ Misspell \/ SayWhereFrom \/ Spoil
    PROVE  doc'.top = "mapping" =>
              doc' = Mapping([f \in DOMAIN Keys' |-> Keys'[f]]) /\ WellWritten(Keys')
  <1>1. WellWritten(Keys)
    BY DEF GInv
  <1>2. CASE Tighten
    <2>0. PICK field \in NumberFields \union SetFields \union {"fix_must_apply_cleanly"} : \E value :
              /\ Has(field) /\ Write(field, value)
              /\ field \in NumberFields => value \in Nat
              /\ field = "fix_must_apply_cleanly" => value \in BOOLEAN
      BY <1>2, TightenWritesOne
    <2>1. PICK value :
              /\ Has(field) /\ Write(field, value)
              /\ field \in NumberFields => value \in Nat
              /\ field = "fix_must_apply_cleanly" => value \in BOOLEAN
      BY <2>0
    <2>2. field \in ExpectedFields /\ field # "provenance"
      BY FieldsAre DEF NumberFields, ExpectedFields
    <2> QED
      BY <2>1, <2>2, WritingKeepsItWell
  <1>3. CASE LeaveOut
    <2>1. PICK field \in ExpectedFields : doc' = Mapping(Restrict(Keys, DOMAIN Keys \ {field}))
      BY <1>3 DEF LeaveOut
    <2> DEFINE keys == Restrict(Keys, DOMAIN Keys \ {field})
    <2>2. Keys' = keys
      BY <2>1 DEF Mapping, Keys
    <2>3. /\ DOMAIN keys = DOMAIN Keys \ {field} /\ keys = [f \in DOMAIN keys |-> keys[f]]
          /\ \A f \in DOMAIN keys : keys[f] = Keys[f]
      BY DEF Restrict
    <2> HIDE DEF keys
    <2>4. WellWritten(keys)
      BY <1>1, <2>3 DEF WellWritten
    <2> QED
      BY <2>1, <2>2, <2>3, <2>4 DEF keys
  <1>4. CASE Misspell
    <2> DEFINE Keyed(field) ==
                 [f \in (DOMAIN Keys \ {field}) \union {Misspelt[field]} |->
                     IF f = Misspelt[field] THEN Keys[field] ELSE Keys[f]]
    <2>1. PICK field \in DOMAIN Misspelt : doc' = Mapping(Keyed(field))
      BY <1>4 DEF Misspell
    <2> DEFINE keys == Keyed(field)
    <2>2. Keys' = keys
      BY <2>1 DEF Mapping, Keys
    <2>3. Misspelt[field] \in Range(Misspelt) /\ Misspelt[field] \notin ExpectedFields
      BY GradingAssumption DEF Range
    <2>4. /\ DOMAIN keys = (DOMAIN Keys \ {field}) \union {Misspelt[field]}
          /\ keys = [f \in DOMAIN keys |-> keys[f]]
          /\ \A f \in DOMAIN keys \intersect ExpectedFields : keys[f] = Keys[f] /\ f \in DOMAIN Keys
      BY <2>3
    <2> HIDE DEF keys
    <2>5. NumberFields \subseteq ExpectedFields
          /\ {"fix_must_apply_cleanly", "provenance"} \subseteq ExpectedFields
      BY FieldsAre DEF NumberFields, ExpectedFields
    <2>6. WellWritten(keys)
      BY <1>1, <2>3, <2>4, <2>5 DEF WellWritten
    <2> QED
      BY <2>1, <2>2, <2>4, <2>6 DEF keys
  <1>5. CASE SayWhereFrom
    <2>1. Has("provenance") /\ Keys.provenance \in Origin
      BY <1>1, <1>5 DEF SayWhereFrom, Has, WellWritten
    <2>2. PICK value : value \in Origin /\ Write("provenance", value)
      BY <1>5, <2>1 DEF SayWhereFrom, Origin
    <2>3. "provenance" \in ExpectedFields /\ "provenance" \notin NumberFields
      BY FieldsAre DEF NumberFields, ExpectedFields
    <2> QED
      BY <2>1, <2>2, <2>3, WritingKeepsItWell
  <1>6. CASE Spoil
    BY <1>6 DEF Spoil
  <1> QED
    BY <1>2, <1>3, <1>4, <1>5, <1>6

LEMMA GradeStep == GInv /\ [Regrade]_gradeVars => GInv'
  <1> SUFFICES ASSUME GInv, [Regrade]_gradeVars PROVE GInv'
    OBVIOUS
  <1>1. CASE Regrade
    <2>1. Loads(doc)
      BY <1>1 DEF Regrade, GInv, Verdict
    <2>2. doc.top = "mapping"
      BY <2>1 DEF Loads
    <2>3. doc'.top = "mapping" =>
              doc' = Mapping([f \in DOMAIN Keys' |-> Keys'[f]]) /\ WellWritten(Keys')
      BY <1>1, <2>2, EditKeepsItWell DEF Regrade
    <2>4. run' = run /\ verdict' = Verdict(doc')
      BY <1>1 DEF Regrade
    <2>5. verdict' = Verdict(doc)'
      BY <2>4 DEF Verdict
    <2>6. GradedRun(run)'
      BY <2>4 DEF GInv
    <2> QED
      BY <2>3, <2>5, <2>6 DEF GInv
  <1>2. CASE UNCHANGED gradeVars
    BY <1>2 DEF gradeVars, GInv, Keys, Verdict
  <1> QED
    BY <1>1, <1>2

LEMMA GradeInvariance == Spec => []GInv
  BY GradeInit, GradeStep, PTL DEF Spec

\* A run that is green under a document was passed by the contract it loads to.
LEMMA GreenMeans ==
    ASSUME GInv, verdict = "green"
    PROVE  Loads(doc) /\ doc.top = "mapping" /\ Passed(run, expected)
  BY DEF GInv, Verdict, expected, Loads

\* What a document demands is what it loads to demands.
LEMMA DemandsAreLoaded ==
    /\ {"expected_failure_class", "min_confidence"} \subseteq DOMAIN Keys =>
          /\ expected.expected_failure_class = Keys.expected_failure_class
          /\ expected.min_confidence = Keys.min_confidence
    /\ \A f \in OptionalFields : Has(f) => expected[f] = Keys[f]
    /\ \A f \in SetFields : ~Has(f) => expected[f] = {}
    /\ ~Has("min_evidence_calls") => expected.min_evidence_calls = 1
    /\ ~Has("fix_must_apply_cleanly") => expected.fix_must_apply_cleanly = TRUE
  <1>1. /\ \A f \in ExpectedFields : Has(f) => expected[f] = Keys[f]
        /\ \A f \in ExpectedFields : ~Has(f) => expected[f] = FieldDefaults[f]
    BY DEF Has, Keys, expected, LoadExpected, WithDefaults
  <1>2. /\ \A f \in SetFields : FieldDefaults[f] = {}
        /\ FieldDefaults.min_evidence_calls = 1 /\ FieldDefaults.fix_must_apply_cleanly = TRUE
    BY FieldsAre DEF FieldDefaults
  <1>3. {"expected_failure_class", "min_confidence", "min_evidence_calls",
         "fix_must_apply_cleanly"} \subseteq ExpectedFields
          /\ OptionalFields \subseteq ExpectedFields
    BY FieldsAre DEF ExpectedFields
  <1>4. /\ Has("expected_failure_class") =>
              expected.expected_failure_class = Keys.expected_failure_class
        /\ Has("min_confidence") => expected.min_confidence = Keys.min_confidence
    BY <1>1, <1>3
  <1>5. \A f \in SetFields : ~Has(f) => expected[f] = {}
    BY <1>1, <1>2, FieldsAre
  <1>6. /\ ~Has("min_evidence_calls") => expected.min_evidence_calls = 1
        /\ ~Has("fix_must_apply_cleanly") => expected.fix_must_apply_cleanly = TRUE
    BY <1>1, <1>2, <1>3
  <1> QED
    BY <1>1, <1>3, <1>4, <1>5, <1>6 DEF Has

\* No run is green without everything its document demands, whatever is left out
\* or misspelt: diagnosis, mentions, evidence calls, tools, files and fix.
THEOREM GradeFailsClosed == Spec => []FailsClosed
  <1>1. GInv => FailsClosed
    <2> DEFINE Demanded(field, otherwise) == IF Has(field) THEN Keys[field] ELSE otherwise
               Evidence == {i \in DOMAIN run.tools : run.tools[i] # SubmitTool}
               Written == {e.path : e \in {d \in Edits(run) : d.kind \in {"modify", "create"}}}
    <2> SUFFICES ASSUME GInv, verdict = "green"
                 PROVE  /\ run.diagnosis # NoDiagnosis
                        /\ run.diagnosis.class = Keys.expected_failure_class
                        /\ run.diagnosis.confidence >= Keys.min_confidence
                        /\ Demanded("must_mention_columns", {}) \subseteq run.diagnosis.mentions
                        /\ Demanded("must_mention_models", {}) \subseteq run.diagnosis.mentions
                        /\ Cardinality(Evidence) >= Demanded("min_evidence_calls", 1)
                        /\ \/ Demanded("at_least_one_of", {}) = {}
                           \/ \E i \in DOMAIN run.tools : run.tools[i] \in Keys.at_least_one_of
                        /\ \A i \in DOMAIN run.tools :
                              run.tools[i] \notin Demanded("forbidden_tool_calls", {})
                        /\ Demanded("expected_files_touched", {}) \subseteq Written
                        /\ Demanded("forbidden_files_touched", {}) \intersect Written = {}
                        /\ Demanded("fix_must_apply_cleanly", TRUE)
                              => Edits(run) # {} /\ run.fix.applies
      BY DEF FailsClosed
    <2>1. /\ DiagnosisClauses(run, expected) /\ ToolClauses(run, expected)
          /\ CeilingClauses(run, expected) /\ DiffClauses(run, expected)
      BY GreenMeans, EveryClauseCounts
    <2>2. {"expected_failure_class", "min_confidence"} \subseteq DOMAIN Keys
      BY GreenMeans, FieldsAre DEF Loads, Keys
    <2>3. /\ expected.expected_failure_class = Keys.expected_failure_class
          /\ expected.min_confidence = Keys.min_confidence
      BY <2>2, DemandsAreLoaded
    <2>4. \A f \in SetFields : Demanded(f, {}) = expected[f]
      BY DemandsAreLoaded, FieldsAre
    <2>5. /\ Demanded("must_mention_columns", {}) = expected.must_mention_columns
          /\ Demanded("must_mention_models", {}) = expected.must_mention_models
          /\ Demanded("at_least_one_of", {}) = expected.at_least_one_of
          /\ Demanded("forbidden_tool_calls", {}) = expected.forbidden_tool_calls
          /\ Demanded("expected_files_touched", {}) = expected.expected_files_touched
          /\ Demanded("forbidden_files_touched", {}) = expected.forbidden_files_touched
      BY <2>4, FieldsAre
    <2>6. /\ Demanded("min_evidence_calls", 1) = expected.min_evidence_calls
          /\ Demanded("fix_must_apply_cleanly", TRUE) = expected.fix_must_apply_cleanly
      BY DemandsAreLoaded, FieldsAre
    <2>7. Has("at_least_one_of") \/ Demanded("at_least_one_of", {}) = {}
      OBVIOUS
    <2>8. Has("at_least_one_of") => Keys.at_least_one_of = expected.at_least_one_of
      BY DemandsAreLoaded, FieldsAre
    <2>9. Written = FilesInDiff(run) /\ Cardinality(Evidence) = EvidenceCalls(run)
      BY DEF FilesInDiff, EvidenceCalls
    <2> HIDE DEF Demanded, Written, Evidence
    <2>10. /\ run.diagnosis # NoDiagnosis
           /\ run.diagnosis.class = Keys.expected_failure_class
           /\ run.diagnosis.confidence >= Keys.min_confidence
           /\ Demanded("must_mention_columns", {}) \subseteq run.diagnosis.mentions
           /\ Demanded("must_mention_models", {}) \subseteq run.diagnosis.mentions
      BY <2>1, <2>3, <2>5 DEF DiagnosisClauses, Diagnosed
    <2>11. /\ Cardinality(Evidence) >= Demanded("min_evidence_calls", 1)
           /\ \/ Demanded("at_least_one_of", {}) = {}
              \/ \E i \in DOMAIN run.tools : run.tools[i] \in Keys.at_least_one_of
           /\ \A i \in DOMAIN run.tools : run.tools[i] \notin Demanded("forbidden_tool_calls", {})
      <3>1. EvidenceCalls(run) >= expected.min_evidence_calls
        BY <2>1 DEF ToolClauses
      <3>2. expected.at_least_one_of # {} =>
               \E i \in DOMAIN run.tools : run.tools[i] \in expected.at_least_one_of
        BY <2>1 DEF ToolClauses, Range
      <3>3. \A i \in DOMAIN run.tools : run.tools[i] \notin expected.forbidden_tool_calls
        BY <2>1 DEF ToolClauses, Range
      <3> QED
        BY <2>5, <2>6, <2>7, <2>8, <2>9, <3>1, <3>2, <3>3
    <2>12. /\ Demanded("expected_files_touched", {}) \subseteq Written
           /\ Demanded("forbidden_files_touched", {}) \intersect Written = {}
           /\ Demanded("fix_must_apply_cleanly", TRUE) => Edits(run) # {} /\ run.fix.applies
      BY <2>1, <2>5, <2>6, <2>9 DEF DiffClauses, Applies
    <2> QED
      BY <2>10, <2>11, <2>12
  <1> QED
    BY <1>1, GradeInvariance, PTL

\* No clause is lost between the author and the grade: a document that loads has
\* no misspelt key, so a green run is green against what its author meant.
THEOREM AuthorIsHeard == Spec => []NoClauseLost
  <1>1. GInv => NoClauseLost
    <2> SUFFICES ASSUME GInv, verdict = "green" PROVE NoClauseLost
      BY DEF NoClauseLost
    <2>1. Loads(doc) /\ doc.top = "mapping" /\ Passed(run, expected)
      BY GreenMeans
    <2>2. DOMAIN Keys \subseteq ExpectedFields /\ "provenance" \in DOMAIN Keys
          /\ ProvenanceValid(Keys.provenance)
      BY <2>1, FieldsAre DEF Loads, Keys
    <2>3. \A f \in DOMAIN Misspelt : ~Has(Misspelt[f])
      BY <2>2, GradingAssumption DEF Has, Range
    <2>4. {f \in ExpectedFields : Has(f) \/ (f \in DOMAIN Misspelt /\ Has(Misspelt[f]))} = DOMAIN Keys
      BY <2>2, <2>3 DEF Has
    <2>5. doc = Mapping([f \in DOMAIN Keys |-> Keys[f]])
      BY <2>1 DEF GInv
    <2>6. Meant = [f \in DOMAIN Keys |-> Keys[f]]
      BY <2>4 DEF Meant, Has
    <2>7. LoadExpected(Mapping(Meant)) = expected
      BY <2>5, <2>6 DEF expected
    <2>8. Meant.provenance = Keys.provenance /\ Keys.provenance \in Origin
      BY <2>1, <2>2, <2>6 DEF GInv, WellWritten
    <2>9. Keys.provenance.type = "public_incident_replay" =>
            Keys.provenance.source_pr = "url" /\ Keys.provenance.source_commit = "sha"
      BY <2>2, <2>8 DEF ProvenanceValid, Located, Origin
    <2>10. ~Keys.provenance.extra
      BY <2>2 DEF ProvenanceValid
    <2> QED
      BY <2>1, <2>7, <2>8, <2>9, <2>10 DEF NoClauseLost
  <1> QED
    BY <1>1, GradeInvariance, PTL

\* A stricter contract never turns red into green.
THEOREM StrictnessIsMonotone == Spec => TighteningNeverHelps
  <1>1. GInv /\ GInv' /\ [Regrade]_gradeVars
           => [Tighten /\ verdict' = "green" => verdict = "green"]_gradeVars
    <2> SUFFICES ASSUME GInv, GInv', Regrade, Tighten, verdict' = "green"
                 PROVE  verdict = "green"
      OBVIOUS
    <2>1. Loads(doc) /\ doc.top = "mapping"
      BY DEF Regrade, GInv, Verdict, Loads
    <2>0. PICK field \in NumberFields \union SetFields \union {"fix_must_apply_cleanly"} : \E value :
              /\ Has(field) /\ Write(field, value)
              /\ Tighter(field, value, Keys[field])
      BY <2>1, TightenWritesOne
    <2>2. PICK value : Has(field) /\ Write(field, value) /\ Tighter(field, value, Keys[field])
      BY <2>0
    <2>3. field \in ExpectedFields \ {"provenance", "expected_failure_class"}
      BY FieldsAre DEF NumberFields, ExpectedFields
    <2> DEFINE new == LoadExpected(doc') old == LoadExpected(doc)
    <2>4. run' = run /\ Loads(doc') /\ Passed(run, new)
      <3>1. run' = run /\ verdict' = Verdict(doc')
        BY DEF Regrade
      <3> QED
        BY <3>1 DEF Verdict
    <2>5. Keys' = [Keys EXCEPT ![field] = value]
      BY <2>2 DEF Write, Mapping, Keys
    <2>6. /\ DOMAIN Keys' = DOMAIN Keys /\ Keys'[field] = value
          /\ \A f \in DOMAIN Keys \ {field} : Keys'[f] = Keys[f]
      BY <2>2, <2>5 DEF Has
    <2>7. /\ \A f \in ExpectedFields \ {field} : new[f] = old[f]
          /\ new[field] = value /\ old[field] = Keys[field]
      BY <2>2, <2>3, <2>6 DEF LoadExpected, WithDefaults, Keys, Has
    <2>8. NumbersOf(old)
      BY <2>1, LoadedNumbers DEF GInv, LoadExpected, Keys, Loads
    <2>9. NumbersOf(new)
      <3>1. WellWritten(doc'.keys) /\ RequiredFields \subseteq DOMAIN doc'.keys
        BY <2>4 DEF GInv, Keys, Loads
      <3> QED
        BY <3>1, LoadedNumbers DEF LoadExpected
    <2> HIDE DEF new, old
    <2>10. Stricter(new, old)
      BY <2>2, <2>3, <2>7, <2>8, <2>9, TighterIsStricter
    <2>11. Passed(run, old)
      BY <2>4, <2>8, <2>9, <2>10, StricterContractsPassLess DEF GInv
    <2> QED
      BY <2>1, <2>11 DEF GInv, Verdict, old
  <1> QED
    BY <1>1, GradeInvariance, PTL DEF Spec, TighteningNeverHelps

\* GradeReport.passed, both tables, the listed failures and --strict agree on
\* every run under every contract.
THEOREM ReadersAreToldTheSame == Spec => []ReadersAgree
  <1>1. GInv => ReadersAgree
    <2> SUFFICES ASSUME GInv, verdict # "invalid" PROVE ReadersAgree
      BY DEF ReadersAgree
    <2> DEFINE suite == GradedSuite
    <2>1. GradedRun(run) /\ GradedRun(GaveUp)
      BY DEF GInv, GradedRun, GaveUp
    <2>2. /\ suite \in Seq({suite[1], suite[2]}) /\ DOMAIN suite = {1, 2}
          /\ suite[1].recording = Grade(run, expected) /\ suite[1].replay = Grade(GaveUp, expected)
          /\ suite[2].recording = Grade(run, expected) /\ suite[2].replay = Grade(run, expected)
      BY DEF GradedSuite, Pair
    <2>3. \A i \in DOMAIN suite : WellGraded(suite[i].recording) /\ WellGraded(suite[i].replay)
      BY <2>1, <2>2, GradesAreWell
    <2>4. ReadAlike(suite)
      <3> HIDE DEF suite
      <3> QED
        BY <2>2, <2>3, AnySuiteReadsAlike
    <2>5. FormatTable(suite).rows[1].pass <=> Passed(run, expected)
      <3>1. 2 * (1 - 1) + 1 = 1
        OBVIOUS
      <3>2. 1 \in DOMAIN BothReports(suite) /\ BothReports(suite)[1] = Grade(run, expected)
        <4> HIDE DEF suite
        <4>1. \A i \in DOMAIN suite : /\ 2 * (i - 1) + 1 \in DOMAIN BothReports(suite)
                                      /\ BothReports(suite)[2 * (i - 1) + 1] = suite[i].recording
          BY <2>2, PlaceOfReport
        <4>2. 1 \in DOMAIN suite
          BY <2>2
        <4> QED
          BY <2>2, <3>1, <4>1, <4>2, Zenon
      <3>3. FormatTable(suite).rows[1].pass = Grade(run, expected).passed
        BY <3>2 DEF FormatTable, RowFromReport
      <3> QED
        BY <3>3 DEF Grade
    <2>6. verdict = "green" <=> Passed(run, expected)
      BY DEF GInv, Verdict, expected
    <2> QED
      BY <2>4, <2>5, <2>6 DEF ReadersAgree
  <1> QED
    BY <1>1, GradeInvariance, PTL
=============================================================================
