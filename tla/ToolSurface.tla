---------------------------- MODULE ToolSurface ----------------------------
(***************************************************************************)
(* The tools the diagnose loop dispatches: read_file, with the lab filter  *)
(* and the project-root check in front of it, and read_manifest_node.      *)
(* A tool call does not change anything: it is an operator from the        *)
(* project tree and its argument to what the loop sees of the outcome,     *)
(*    "content"   a string that does not start with <error>                *)
(*    "error"     a string that starts with <error>                        *)
(*    "raise"     an exception that leaves the dispatcher.                 *)
(* A path is the sequence of its components (PurePosixPath.parts: "/" is   *)
(* the first one of an absolute path, "." never occurs; BadName stands for *)
(* a component with a NUL or an unencodable character, which no system     *)
(* call takes); a unique_id is a sequence of one component.                *)
(***************************************************************************)
EXTENDS Naturals, Sequences, SequencesExt

CONSTANT
    ProjectRoot        \* the absolute path of the staged project, without "/"

ASSUME RootAssumption == ProjectRoot \in Seq(STRING)

-----------------------------------------------------------------------------
\* A project tree: what exists where (absolute path -> a token, "error_text" for
\* a file whose own text starts with <error>, or "dir"), at which places the
\* system refuses to look (a name too long, no permission), whether target/ holds
\* a manifest that parses, and the unique_ids of its nodes and sources.
ProjectTree(project) ==
    /\ DOMAIN project = {"files", "refused", "hasManifest", "nodes"}
    /\ project.hasManifest \in BOOLEAN

AnswerKeyFiles == {"expected.yaml", "expected.patch"}
AnswerKeyDirs  == {"captured", "overlay", "production-runs"}

\* _lab_filter.is_lab_artifact: some ".../scenarios/<name>/<artifact>...".
IsLabArtifactOneDeeper(path) ==
    \E i \in DOMAIN path :
        /\ path[i] = "scenarios"
        /\ i + 3 \in DOMAIN path
        /\ path[i + 2] \in AnswerKeyFiles \union AnswerKeyDirs

IsLabArtifact(path) ==
    \E i \in DOMAIN path :
        /\ path[i] = "scenarios"
        /\ i + 2 \in DOMAIN path
        /\ path[i + 2] \in AnswerKeyFiles \union AnswerKeyDirs

\* Path.resolve() on a tree without links: components are applied in turn.
Walk(at, component) ==
    CASE component = "/"  -> << >>
      [] component = ".." -> IF at = << >> THEN at ELSE Front(at)
      [] OTHER            -> Append(at, component)

Candidate(path) ==
    LET at[n \in 0 .. Len(path)] ==
            IF n = 0 THEN ProjectRoot ELSE Walk(at[n - 1], path[n])
    IN  at[Len(path)]

\* ToolContext.resolve raises when the candidate is not under the root.
Escapes(path) == ~IsPrefix(ProjectRoot, Candidate(path))

BadName == "bad_name"

\* The filter looks at the path as it is given, before resolve does.  resolve
\* raises for a bad name and for an escape, exists() for what the system
\* refuses to look at.
ReadFile(project, path) ==
    IF IsLabArtifact(path) THEN "error"
    ELSE IF BadName \in Range(path) \/ Escapes(path) \/ Candidate(path) \in project.refused
         THEN "raise"
    ELSE IF Candidate(path) \notin DOMAIN project.files THEN "error"
    ELSE IF project.files[Candidate(path)] \in {"dir", "error_text"} THEN "error"
    ELSE "content"

\* The manifest is loaded on first use; an id it does not hold is an <error>.
ReadManifestNode(project, uniqueId) ==
    IF ~project.hasManifest THEN "raise"
    ELSE IF uniqueId[1] \in project.nodes THEN "content"
    ELSE "error"
=============================================================================
