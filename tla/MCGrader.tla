------------------------------ MODULE MCGrader -----------------------------
(***************************************************************************)
(* Runs with and without diagnosis, fix and evidence, and the laxest and a *)
(* usual contract, most of whose clauses can be tightened or misspelt.     *)
(***************************************************************************)
EXTENDS GradedContract

MCFailureClasses == {"schema_drift", "unknown"}

Diagnosis(class, mentions) == [class |-> class, confidence |-> 1, mentions |-> mentions]
MCDiagnoses ==
    { NoDiagnosis, Diagnosis("unknown", {"stg"}),
      Diagnosis("schema_drift", {}), Diagnosis("schema_drift", {"stg"}) }

Edit(path, kind) == [path |-> path, kind |-> kind]
Fix(edits, applies) == [edits |-> edits, applies |-> applies]
MCFixes ==
    { NoFix, Fix({}, TRUE), Fix({Edit("seed.csv", "delete")}, TRUE),
      Fix({Edit("model.sql", "modify")}, TRUE), Fix({Edit("model.sql", "modify")}, FALSE),
      Fix({Edit("model.sql", "modify"), Edit("seed.csv", "modify")}, TRUE) }

MCTools == { << >>, <<"list_files", "read_file">>, <<"read_manifest_node", SubmitTool>> }

MCRuns == [diagnosis : MCDiagnoses, fix : MCFixes, tools : MCTools,
         iterations : {2}, cost : {2}]

FromFixture ==
    [type |-> "canonical_fixture", source_pr |-> "none", source_commit |-> "none", extra |-> FALSE]

\* The laxest contract the schema admits, every clause written out.
LaxestKeys ==
    [provenance |-> FromFixture,
     expected_failure_class |-> "schema_drift", min_confidence |-> 0,
     min_evidence_calls |-> 0, at_least_one_of |-> {}, forbidden_tool_calls |-> {},
     max_iterations |-> 2, max_cost_usd |-> 2,
     expected_files_touched |-> {}, forbidden_files_touched |-> {},
     fix_must_apply_cleanly |-> FALSE,
     must_mention_columns |-> {}, must_mention_models |-> {}]

\* A contract like those of the repository, with most clauses stated.
UsualKeys ==
    [LaxestKeys EXCEPT
        !.min_confidence = 1, !.min_evidence_calls = 1,
        !.at_least_one_of = {"read_file", "read_manifest_node"},
        !.expected_files_touched = {"model.sql"},
        !.forbidden_files_touched = {"seed.csv"},
        !.fix_must_apply_cleanly = TRUE, !.must_mention_models = {"stg"}]
MCDrafts == {LaxestKeys, UsualKeys}

MCWordings ==
    [forbidden_tool_calls |-> {{"list_files"}}, expected_files_touched |-> {{"model.sql"}},
     forbidden_files_touched |-> {{"seed.csv"}}, must_mention_models |-> {{"stg"}},
     at_least_one_of |-> {{"read_file", "read_manifest_node"}, {"read_manifest_node"}}]

\* Keys an author may write for a field by mistake.
MCMisspelt ==
    [max_cost_usd |-> "max_cost", min_confidence |-> "confidence",
     forbidden_files_touched |-> "forbidden_files", fix_must_apply_cleanly |-> "fix_must_apply"]
=============================================================================
