---------------------------- MODULE StagedAccess ----------------------------
(***************************************************************************)
(* A scenario is staged, and the agent asks for one path of the staged     *)
(* project and is answered.                                                *)
(***************************************************************************)
EXTENDS StagedProject, FiniteSets

CONSTANTS
    Paths,             \* what the agent may ask for
    Elsewhere,         \* what else is on the disk: absolute path -> a token
    Refused            \* places where the system raises instead of looking

\* The components of a path are names, "/" only in front; nothing else is inside
\* the project.
ASSUME AccessAssumption ==
    /\ Paths \subseteq Seq(STRING)
    /\ \A p \in Paths : \A i \in DOMAIN p : p[i] = "/" => i = 1
    /\ \A place \in DOMAIN Elsewhere : ~IsPrefix(ProjectRoot, place)

VARIABLES path, answer

\* The project among other things on the disk.
Tree ==
    [files |-> Over([place \in {ProjectRoot \o p : p \in DOMAIN staged} |->
                        staged[SubSeq(place, Len(ProjectRoot) + 1, Len(place))]],
                    Elsewhere),
     refused |-> Refused,
     hasManifest |-> Artifact("manifest.json") \in DOMAIN staged,
     nodes |-> {}]

Init ==
    /\ StageInit
    /\ path = << >>
    /\ answer = "pending"

Ask ==
    /\ stage = "staged"
    /\ answer = "pending"
    /\ path' \in Paths
    /\ answer' = ReadFile(Tree, path')
    /\ UNCHANGED stageVars

Next == (StageStep /\ UNCHANGED <<path, answer>>) \/ Ask

vars == <<source, staged, todo, stage, path, answer>>

Spec == Init /\ [][Next]_vars

-----------------------------------------------------------------------------
\* The agent reads the project the recorder read: whatever the order of the
\* copies, every file of the staged project that neither setup.sh nor dbt wrote
\* in the recorder's tree is the one that tree had at that place, the two dbt
\* artifacts are those of captured/, and only profiles.yml and what dbt leaves
\* (database, logs, other output) are missing.  Nothing else from the scenario's
\* directory is there, the recorded run in particular, and a scenario that could
\* be recorded can be staged unless an artifact is missing.  That captured/ comes
\* from that same run of dbt is not known: no code compares them.
StagedLikeRecorded ==
    LET recorded == RecordedTree(source)
        generated == source.dbt \union {Profiles}
    IN  Recordable(source) =>
            /\ stage = "staged" =>
                  /\ \A p \in DOMAIN staged \ generated :
                        p \in DOMAIN recorded /\ staged[p] = recorded[p]
                  /\ \A p \in ArtifactPaths : p \in DOMAIN staged /\ staged[p] = "captured"
                  /\ DOMAIN recorded \ DOMAIN staged
                        \subseteq generated \union OverlaidParents(source.dbt)
            /\ stage = "failed" => ~(Artifacts \subseteq source.captured)

\* A plain path names a place under the root by going down only.
Plain == \A i \in DOMAIN path : path[i] \notin {"/", "..", BadName}

\* A path that on its way from the root is never above it: relative, and of no
\* first steps more than half go up.
StaysBelow ==
    /\ \A i \in DOMAIN path : path[i] # "/"
    /\ \A k \in 0 .. Len(path) : 2 * Cardinality({i \in 1 .. k : path[i] = ".."}) <= k

\* The answer keys, as the list in _lab_filter's docstring places them.
InAnswerKey(p) ==
    \E k \in 0 .. Len(p), name \in Range(p), key \in AnswerKeyFiles \union AnswerKeyDirs :
        IsPrefix(SubSeq(p, 1, k) \o <<"scenarios", name, key>>, p)

\* A file of the staged project that does not read as an error.
Readable(p) ==
    /\ p \in DOMAIN staged /\ staged[p] \notin {"dir", "error_text"}
    /\ ProjectRoot \o p \notin Refused

\* What the agent may see of the tree through read_file.  For a plain path it
\* is the text of a file exactly when that file exists and is no answer key
\* (README.md and the scenario directories stay in sight).  For any path,
\* absolute ones included, it is never the text of something outside the staged
\* project, and that of an answer key at most through a path that also climbs:
\* the filter compares the components it is given, ".." too, with the list.
\* A call raises only for a path that is above the root on its way, has a name
\* no system call takes, or leads where the system refuses to look.
ReadShowsExactlyTheProject ==
    answer # "pending" =>
        /\ Plain => (answer = "content" <=> ~InAnswerKey(path) /\ Readable(path))
        /\ answer = "content" =>
              \E p \in DOMAIN staged : /\ Candidate(path) = ProjectRoot \o p
                                       /\ Readable(p)
                                       /\ InAnswerKey(p) => ".." \in Range(path)
        /\ answer = "raise" => \/ ~StaysBelow
                               \/ BadName \in Range(path)
                               \/ Candidate(path) \in Refused
=============================================================================
