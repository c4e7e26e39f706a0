---------------------------- MODULE StagedProject ---------------------------
(***************************************************************************)
(* runner.stage_project: the tree an agent is pointed at is the baseline,  *)
(* the files of the scenario's overlay over it, and the two dbt artifacts  *)
(* of captured/ under target/.  The recorder's tools read another tree,    *)
(* built by setup.sh and by the dbt seed and dbt run it starts.            *)
(*                                                                         *)
(* A tree is a function from relative paths to what is there: "dir", or    *)
(* where the file comes from.  The order in which rglob finds the files of *)
(* the overlay is the file system's.                                       *)
(***************************************************************************)
EXTENDS ToolSurface

CONSTANT Sources       \* scenarios: [baseline, overlay, captured, dbt]

VARIABLES
    source,            \* the scenario being staged, from Sources
    staged,            \* the project directory
    todo,              \* overlay files not copied yet
    stage              \* "created", "overlaying", "staged", "failed"

stageVars == <<source, staged, todo, stage>>

Artifacts == {"manifest.json", "run_results.json"}

-----------------------------------------------------------------------------
IsDir(tree, path) == path \in DOMAIN tree /\ tree[path] = "dir"
IsFile(tree, path) == path \in DOMAIN tree /\ tree[path] # "dir"

Parents(path) == {SubSeq(path, 1, k) : k \in 0 .. Len(path) - 1}

\* What a scenario is: baseline a tree and overlay a set of files, both without
\* their root and no file above another, captured a set of names, dbt the files
\* that dbt writes when the scenario is set up (the database, its logs, the
\* artifacts and whatever else it leaves under target/).
ASSUME SourceAssumption ==
    /\ Artifacts \union {"target"} \subseteq STRING
    /\ \A s \in Sources :
          /\ DOMAIN s.baseline \union s.overlay \union s.dbt \subseteq Seq(STRING) \ {<< >>}
          /\ \A path \in s.overlay : Parents(path) \intersect s.overlay = {}

\* One tree over another, and a tree of directories.
Over(above, below) ==
    [p \in DOMAIN above \union DOMAIN below |-> IF p \in DOMAIN above THEN above[p] ELSE below[p]]
Dirs(paths) == [p \in paths |-> "dir"]
Files(paths, origin) == [p \in paths |-> origin]

WithParents(tree, path) == Over(tree, Dirs(Parents(path)))

\* shutil.copy2 onto a directory puts the file into it.
Destination(tree, path) == IF IsDir(tree, path) THEN Append(path, Last(path)) ELSE path

CopyKeepingExisting(tree, path, origin) ==
    WithParents(Over(tree, Files({Destination(tree, path)}, origin)), path)
CopyTo(tree, path, origin) ==
    WithParents(Over(Files({Destination(tree, path)}, origin), tree), path)

\* mkdir raises when a parent is a file, copy2 when the destination is a
\* directory even so.
CannotCopy(tree, path) ==
    \/ \E p \in Parents(path) : IsFile(tree, p)
    \/ IsDir(tree, Destination(tree, path))

Target == <<"target">>
Artifact(name) == <<"target", name>>
ArtifactPaths == {Artifact(name) : name \in Artifacts}

-----------------------------------------------------------------------------
StageInit ==
    /\ source \in Sources
    /\ staged = << >>
    /\ todo = {}
    /\ stage = "created"

\* mkdtemp and copytree
CopyBaseline ==
    /\ stage = "created"
    /\ staged' = Over(Dirs({<< >>}), source.baseline)
    /\ todo' = source.overlay
    /\ stage' = "overlaying"
    /\ UNCHANGED source

OverlayFile(path) ==
    /\ stage = "overlaying"
    /\ path \in todo
    /\ ~CannotCopy(staged, path)
    /\ staged' = CopyTo(staged, path, "overlay")
    /\ todo' = todo \ {path}
    /\ UNCHANGED <<source, stage>>

Plantable ==
    /\ ~IsFile(staged, Target)
    /\ Artifacts \subseteq source.captured
    /\ \A path \in ArtifactPaths : ~CannotCopy(staged, path)

\* copytree(captured, target) in the place of the two copies.
PlantWholeCapture ==
    /\ stage = "overlaying" /\ todo = {}
    /\ Plantable
    /\ staged' = Over(Files({Artifact(name) : name \in source.captured}, "captured"),
                      Over(Dirs({Target}), staged))
    /\ stage' = "staged"
    /\ UNCHANGED <<source, todo>>

\* The artifacts come last and win over whatever is there.
PlantArtifacts ==
    /\ stage = "overlaying" /\ todo = {}
    /\ Plantable
    /\ staged' = Over(Files({Destination(staged, p) : p \in ArtifactPaths}, "captured"),
                      Over(Dirs({Target}), staged))
    /\ stage' = "staged"
    /\ UNCHANGED <<source, todo>>

\* A copy raises; what was copied so far stays in the temporary directory.
StageRaises ==
    /\ stage = "overlaying"
    /\ \/ \E path \in todo : CannotCopy(staged, path)
       \/ todo = {} /\ ~Plantable
    /\ stage' = "failed"
    /\ UNCHANGED <<source, staged, todo>>

StageStep ==
    \/ CopyBaseline
    \/ \E path \in todo : OverlayFile(path)
    \/ PlantArtifacts
    \/ StageRaises

-----------------------------------------------------------------------------
(* The recorder's tree.                                                    *)

Profiles == <<"profiles.yml">>
Database == <<"ambesa_fixture.duckdb">>

OverlaidParents(files) == UNION {Parents(path) : path \in files}

\* The baseline with some files of the overlay over it.
Overlaid(s, files) ==
    Over(Files(files, "overlay"),
         Over(s.baseline, Dirs(OverlaidParents(files) \union {<< >>})))

\* setup.sh goes through: cp -R refuses to put a file over a directory or the
\* other way round, profiles.yml and each file of dbt need a place, and without
\* a database or one of the artifacts there is nothing to record.
Recordable(s) ==
    LET project == Overlaid(s, s.overlay)
    IN  /\ \A path \in s.overlay :
              /\ ~IsDir(s.baseline, path)
              /\ \A p \in Parents(path) : ~IsFile(s.baseline, p)
        /\ ~IsDir(project, Profiles)
        /\ \A path \in s.dbt :
              /\ ~IsDir(project, path)
              /\ \A p \in Parents(path) : ~IsFile(project, p)
              /\ Parents(path) \intersect (s.dbt \union {Profiles}) = {}
        /\ ArtifactPaths \union {Database} \subseteq s.dbt

\* Baseline, overlay over it, profiles.yml, and what dbt writes, which also
\* replaces a database or an output that came with the project.
RecordedTree(s) ==
    Over(Files(s.dbt, "dbt"),
         Over(Files({Profiles}, "setup"),
              Over(Overlaid(s, s.overlay), Dirs(OverlaidParents(s.dbt)))))
=============================================================================
