--------------------------- MODULE MCRecordReplay --------------------------
EXTENDS GradedReplay, TLC
MCRoot == <<"tmp", "project">>
MCFailureClasses == {"schema_drift", "unknown"}

StgFile == <<"models", "stg.sql">>
MCModelPaths == {StgFile}

\* The tree the recording saw, one where the model file is gone, and one
\* without a manifest.
Tree(files, manifest) ==
    [files |-> files, refused |-> {}, hasManifest |-> manifest, nodes |-> {"model.stg", "seed.raw"}]
MCProjects ==
    LET root == MCRoot :> "dir"
        model == (MCRoot \o StgFile) :> "text"
    IN  {Tree(root @@ model, TRUE), Tree(root, TRUE), Tree(root @@ model, FALSE)}

Call(id, name, arg) == [id |-> id, name |-> name, arg |-> arg]
ReadModel == Call("t1", "read_file", StgFile)
ReadNode  == Call("t2", "read_manifest_node", <<"model.stg">>)
ReadSeed  == Call("t3", "read_manifest_node", <<"seed.raw">>)
ReadBlank == Call("t4", "read_manifest_node", <<"">>)
Submit(args) == Call("s1", "submit_diagnosis", args)

Answers ==
    { << >>, <<ReadModel>>, <<ReadSeed, ReadNode>>, <<ReadModel, ReadNode>>, <<ReadBlank>>,
      <<Submit(<<"schema_drift", "no_fix">>)>>,
      <<ReadModel, Submit(<<"unknown", "fix_a">>)>> }

MCPricing == [sonnet |-> [prompt |-> 2, cached |-> 1, completion |-> 3]]
\* Free answers, answers that reach the recorder's cost cap, and one so dear
\* that it reaches the replay's.
Used(prompt, cached) == [prompt |-> prompt, cached |-> cached, completion |-> 0]
MCCompletions ==
    [calls : Answers, usage : {Used(1, 0)}, cost : {2}]
      \union [calls : Answers, usage : {Used(0, 0)}, cost : {0}]
      \union {[calls |-> <<ReadModel>>, usage |-> Used(1, 1), cost |-> 3]}

MCTargets == {"model.stg"}

\* A hesitant diagnosis, and one that names the model; fix_a edits a file that
\* one of the trees lacks.
MCReading ==
    [schema_drift |-> [confidence |-> 2, mentions |-> {"stg"}],
     unknown |-> [confidence |-> 1, mentions |-> {}],
     none |-> [confidence |-> 0, mentions |-> {}]]
MCDiffOf == [fix_a |-> {[path |-> StgFile, kind |-> "modify"]}]

Contract(class, confidence, evidence, cost, mustFix) ==
    [expected_failure_class |-> class, min_confidence |-> confidence,
     min_evidence_calls |-> evidence, at_least_one_of |-> {}, forbidden_tool_calls |-> {},
     max_iterations |-> 2, max_cost_usd |-> cost,
     expected_files_touched |-> IF mustFix THEN {StgFile} ELSE {},
     forbidden_files_touched |-> {}, fix_must_apply_cleanly |-> mustFix,
     must_mention_columns |-> {}, must_mention_models |-> {}]
MCContracts ==
    { Contract("schema_drift", 2, 0, 1, FALSE), Contract("schema_drift", 1, 2, 4, FALSE),
      Contract("unknown", 1, 0, 3, TRUE), Contract("unknown", 1, 1, 0, FALSE) }
=============================================================================
