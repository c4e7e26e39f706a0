--------------------------- MODULE GradedContract --------------------------
(***************************************************************************)
(* A run is graded while the author of its expected.yaml edits the         *)
(* document: tightens one clause after another, leaves a clause out,       *)
(* misspells a key, or says where the scenario comes from, until the       *)
(* document no longer loads.  The contract is loaded afresh for every      *)
(* grade.                                                                  *)
(***************************************************************************)
EXTENDS Contract, Reports

CONSTANTS
    Runs,          \* the runs that are graded
    Drafts,        \* the keys an author starts from
    Wordings,      \* for a clause about names, the sets an author may write
    Misspelt,      \* for a field, what may be written for it by mistake
    MaxChanges     \* how many keys an author changes

VARIABLES run, doc, verdict

gradeVars == <<run, doc, verdict>>

\* A draft states values of the fields' types.
Origin == [type : ProvenanceTypes, source_pr : {"none", "url", "not_a_url"},
           source_commit : {"none", "empty", "sha"}, extra : BOOLEAN]
NumberFields == {"min_confidence", "min_evidence_calls", "max_iterations", "max_cost_usd"}
SetFields == DOMAIN FieldDefaults \ (NumberFields \union {"fix_must_apply_cleanly"})

WellWritten(keys) ==
    /\ DOMAIN keys \subseteq ExpectedFields \union Range(Misspelt)
    /\ \A f \in DOMAIN keys \intersect NumberFields : keys[f] \in Nat
    /\ "fix_must_apply_cleanly" \in DOMAIN keys => keys.fix_must_apply_cleanly \in BOOLEAN
    /\ "provenance" \in DOMAIN keys => keys.provenance \in Origin

GradedRun(r) ==
    /\ r.diagnosis # NoDiagnosis => r.diagnosis.confidence \in Nat
    /\ r.tools \in Seq(STRING)
    /\ r.iterations \in Nat /\ r.cost \in Nat

ASSUME GradingAssumption ==
    /\ Certain \in Nat /\ DefaultMaxCost \in Nat \ {0}
    /\ \A r \in Runs : GradedRun(r)
    /\ \A keys \in Drafts : WellWritten(keys) /\ keys = [f \in ExpectedFields |-> keys[f]]
    /\ DOMAIN Wordings \subseteq SetFields
    /\ DOMAIN Misspelt \subseteq ExpectedFields
    /\ Range(Misspelt) \intersect ExpectedFields = {}

-----------------------------------------------------------------------------
Keys == doc.keys
Has(field) == field \in DOMAIN Keys

Mapping(keys) == [top |-> "mapping", keys |-> keys]
Write(field, value) == doc' = Mapping([Keys EXCEPT ![field] = value])

\* The keys that are not as they were in a draft.
Changed(draft, keys) ==
    {f \in DOMAIN draft : f \notin DOMAIN keys \/ keys[f] # draft[f]}

\* One clause made stricter, until it leaves the range of the schema.
Raise(field) == Has(field) /\ Keys[field] <= Certain /\ Write(field, Keys[field] + 1)
Lower(field) == Has(field) /\ Keys[field] > 0 /\ Write(field, Keys[field] - 1)
Demand(field) ==
    Has(field) /\ \E names \in Wordings[field] : Keys[field] \subseteq names /\ Write(field, names)

\* An empty at_least_one_of demands nothing, so stating it tightens the
\* contract, and so does dropping an alternative.
NarrowAlternatives ==
    /\ Has("at_least_one_of")
    /\ \E names \in Wordings["at_least_one_of"] :
          /\ names # {}
          /\ Keys["at_least_one_of"] # {} => names \subseteq Keys["at_least_one_of"]
          /\ Write("at_least_one_of", names)

Tighten ==
    \/ Raise("min_confidence")
    \/ Raise("min_evidence_calls")
    \/ Lower("max_iterations")
    \/ Lower("max_cost_usd")
    \/ \E field \in DOMAIN Wordings \ {"at_least_one_of"} : Demand(field)
    \/ NarrowAlternatives
    \/ Has("fix_must_apply_cleanly") /\ Write("fix_must_apply_cleanly", TRUE)

LeaveOut ==
    \E field \in ExpectedFields :
        Has(field) /\ doc' = Mapping(Restrict(Keys, DOMAIN Keys \ {field}))

Misspell ==
    \E field \in DOMAIN Misspelt :
        /\ Has(field)
        /\ doc' = Mapping([f \in (DOMAIN Keys \ {field}) \union {Misspelt[field]} |->
                              IF f = Misspelt[field] THEN Keys[field] ELSE Keys[f]])

\* A new value for one of the sub-keys, or one of them misspelt.
SayWhereFrom ==
    /\ Has("provenance")
    /\ \/ \E type \in ProvenanceTypes :
             Write("provenance", [Keys.provenance EXCEPT !.type = type])
       \/ \E pr \in {"none", "url", "not_a_url"} :
             Write("provenance", [Keys.provenance EXCEPT !.source_pr = pr])
       \/ \E commit \in {"none", "empty", "sha"} :
             Write("provenance", [Keys.provenance EXCEPT !.source_commit = commit])
       \/ Keys.provenance.source_pr # "none" /\
             Write("provenance", [Keys.provenance EXCEPT !.source_pr = "none", !.extra = TRUE])
       \/ Keys.provenance.source_commit # "none" /\
             Write("provenance", [Keys.provenance EXCEPT !.source_commit = "none", !.extra = TRUE])

\* A file that is emptied, or that is a list at top level.
Spoil == \E top \in {"null", "list"} : doc' = [top |-> top, keys |-> << >>]

Verdict(d) ==
    IF ~Loads(d) THEN "invalid"
    ELSE IF Passed(run, LoadExpected(d)) THEN "green" ELSE "red"

Init ==
    /\ run \in Runs
    /\ doc \in {Mapping(keys) : keys \in Drafts}
    /\ verdict = Verdict(doc)

Regrade ==
    /\ verdict # "invalid"
    /\ Tighten \/ LeaveOut \/ Misspell \/ SayWhereFrom \/ Spoil
    /\ \/ doc'.top # "mapping"
       \/ \E draft \in Drafts : Cardinality(Changed(draft, doc'.keys)) <= MaxChanges
    /\ doc' # doc
    /\ verdict' = Verdict(doc')
    /\ UNCHANGED run

Spec == Init /\ [][Regrade]_gradeVars
-----------------------------------------------------------------------------
expected == LoadExpected(doc)

\* A stricter contract never turns red into green, through any interplay of
\* clauses: those that are skipped when empty, those that are skipped without
\* a diagnosis or a fix, those left to their defaults.
TighteningNeverHelps ==
    [][Tighten /\ verdict' = "green" => verdict = "green"]_gradeVars

\* Missing evidence fails closed: no run is green unless everything is there that
\* the document demands, where a clause it leaves out demands nothing but one
\* evidence call and a fix that applies.  With
\* fix_must_apply_cleanly: false no fix is demanded unless files are named that
\* it must touch, and a file it deletes does not count as touched.
FailsClosed ==
    LET Demanded(field, otherwise) == IF Has(field) THEN Keys[field] ELSE otherwise
        Evidence == {i \in DOMAIN run.tools : run.tools[i] # SubmitTool}
        Written == {e.path : e \in {d \in Edits(run) : d.kind \in {"modify", "create"}}}
    IN  verdict = "green" =>
            /\ run.diagnosis # NoDiagnosis
            /\ run.diagnosis.class = Keys.expected_failure_class
            /\ run.diagnosis.confidence >= Keys.min_confidence
            /\ Demanded("must_mention_columns", {}) \subseteq run.diagnosis.mentions
            /\ Demanded("must_mention_models", {}) \subseteq run.diagnosis.mentions
            /\ Cardinality(Evidence) >= Demanded("min_evidence_calls", 1)
            /\ \/ Demanded("at_least_one_of", {}) = {}
               \/ \E i \in DOMAIN run.tools : run.tools[i] \in Keys.at_least_one_of
            /\ \A i \in DOMAIN run.tools : run.tools[i] \notin Demanded("forbidden_tool_calls", {})
            /\ Demanded("expected_files_touched", {}) \subseteq Written
            /\ Demanded("forbidden_files_touched", {}) \intersect Written = {}
            /\ Demanded("fix_must_apply_cleanly", TRUE) => Edits(run) # {} /\ run.fix.applies

\* The document as the author meant it: misspelt keys put right.
Meant ==
    LET fields == {f \in ExpectedFields :
                      Has(f) \/ (f \in DOMAIN Misspelt /\ Has(Misspelt[f]))}
    IN  [f \in fields |-> IF Has(f) THEN Keys[f] ELSE Keys[Misspelt[f]]]

\* No clause is lost between the author and the grade: a run that is green is
\* green against what the author meant, however the keys are spelt, nothing its
\* author says of its origin is dropped for its spelling, and the origin of a
\* public incident can be looked up.
NoClauseLost ==
    verdict = "green" =>
        /\ Passed(run, LoadExpected(Mapping(Meant)))
        /\ ~Meant.provenance.extra
        /\ Meant.provenance.type = "public_incident_replay" =>
              Meant.provenance.source_pr = "url" /\ Meant.provenance.source_commit = "sha"

\* A run that gave up on its first turn, as the replay of some scenario.
GaveUp == [diagnosis |-> NoDiagnosis, fix |-> NoFix, tools |-> << >>,
           iterations |-> 1, cost |-> 1]

Pair(first, second) ==
    [recording |-> Grade(first, expected), replay |-> Grade(second, expected)]
GradedSuite == <<Pair(run, GaveUp), Pair(run, run)>>

\* What the readers of one suite are told.
ReadAlike(suite) ==
    LET paired == FormatTable(suite)
        recordings == [i \in DOMAIN suite |-> suite[i].recording]
        replays == [i \in DOMAIN suite |-> suite[i].replay]
        cli == <<CliTable(recordings), CliTable(replays)>>
        listed == {block.place : block \in FormatFailureDetails(suite)}
    IN  /\ \A scenario \in DOMAIN suite, mode \in 1 .. 2 :
              LET place == 2 * (scenario - 1) + mode
                  row == paired.rows[place]
              IN  /\ row.pass <=> cli[mode].rows[scenario].pass
                  /\ row.pass <=> place \notin listed
                  /\ row.pass => row.fixApplies # "no"
        /\ paired.total.passes = cli[1].total.passes + cli[2].total.passes
        /\ paired.total.of = cli[1].total.of + cli[2].total.of
        /\ paired.total.cost = cli[1].total.cost + cli[2].total.cost
        /\ paired.total.iters = cli[1].total.iters + cli[2].total.iters
        /\ (\A i \in DOMAIN suite : ScenarioPassed(suite[i])) <=>
              CliStrictExit(recordings) = 0 /\ CliStrictExit(replays) = 0

\* Every reader is told the same: GradeReport.passed, the marks of both tables,
\* the listed failures and the exit code of --strict agree on each report, and
\* the totals of the paired table are those of the command's two tables, one
\* for each mode.
ReadersAgree ==
    verdict # "invalid" =>
        /\ ReadAlike(GradedSuite)
        /\ FormatTable(GradedSuite).rows[1].pass <=> verdict = "green"

\* README: with forbidden_files_touched, the "proposed fix touches no source
\* seeds"; a deleted seed is touched.
ForbiddenFilesUntouched ==
    verdict = "green" => \A e \in Edits(run) : e.path \notin expected.forbidden_files_touched
=============================================================================
