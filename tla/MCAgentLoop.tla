---------------------------- MODULE MCAgentLoop ----------------------------
(***************************************************************************)
(* Small instances of AgentLoop: completions that submit, give up, read    *)
(* existing and missing files, ask for an unknown tool or an escaping      *)
(* path, alone and two to a completion; free calls and dear ones; a        *)
(* project with and one without a manifest.                                *)
(***************************************************************************)
EXTENDS AgentLoop

MCRoot == <<"tmp", "project">>
MCFailureClasses == {"schema_drift", "unknown"}

StgFile == <<"models", "stg.sql">>
Missing == <<"models", "gone.sql">>
Outside == <<"..", "other.sql">>

MCFiles == MCRoot :> "dir" @@ (MCRoot \o StgFile) :> "text"

MCProjects == {[files |-> MCFiles, refused |-> {}, hasManifest |-> m, nodes |-> {"model.stg"}] :
                  m \in BOOLEAN}

Call(id, name, arg) == [id |-> id, name |-> name, arg |-> arg]

ReadModel  == Call("t1", ReadFileTool, StgFile)
ReadNode   == Call("t2", ReadManifestTool, <<"model.stg">>)
ReadGone   == Call("t2", ReadFileTool, Missing)
ReadOut    == Call("t1", ReadFileTool, Outside)
Unknown    == Call("t3", "list_files", <<"models">>)
Submit(args) == Call("s1", SubmitTool, args)

Answers ==
    { << >>,
      <<ReadModel>>, <<ReadNode>>, <<ReadModel, ReadGone>>, <<Unknown, ReadNode>>,
      <<ReadOut, ReadNode>>,
      <<Submit(<<"schema_drift", NoFix>>)>>,
      <<ReadModel, Submit(<<"unknown", "fix_a">>), Submit(<<"schema_drift", NoFix>>)>>,
      <<Submit(<<"not_a_class", "fix_a">>)>>,
      <<Submit(<<"schema_drift", BadFix>>)>> }

\* As a response the calls come between text and thinking.
Block(type, call) == [type |-> type, call |-> call]
NoCall == Call("none", "none", << >>)
Content(calls) ==
    <<Block("thinking", NoCall), Block("text", NoCall)>>
      \o [i \in DOMAIN calls |-> Block("tool_use", calls[i])]
      \o <<Block("text", NoCall)>>

MCModel == "sonnet"
MCPricing == [sonnet |-> [prompt |-> 2, cached |-> 1, completion |-> 3],
              haiku  |-> [prompt |-> 1, cached |-> 0, completion |-> 1]]

\* Calls that cost 0, 2 and 3: nothing, more from the cache than was sent, and
\* half of the prompt from the cache.
Usage(prompt, cached, completion) ==
    [prompt |-> prompt, cached |-> cached, completion |-> completion]
Usages == {NoTokens, Usage(1, 2, 0), Usage(2, 1, 0)}

MCCompletions ==
    {CompletionOf(MCModel, [content |-> Content(calls), usage |-> usage]) :
        calls \in Answers, usage \in Usages}
=============================================================================
