\* All paths of up to four components: a scenario's answer key lies at depth 3
\* and the files under captured/ at depth 4; beside them the paths of five that
\* turn round below scenarios/, such as scenarios/a/../a/expected.yaml, the
\* shortest that reach a key by climbing, and absolute paths into the project.
\* Nothing is asked of a project that could not be staged, and one path is asked
\* of one that was.
SPECIFICATION Spec
CONSTANTS
    ProjectRoot <- MCRoot
    Sources <- MCSources
    Paths <- MCPaths
    Elsewhere <- MCElsewhere
    Refused <- MCRefused
    Components = {"/", "..", "scenarios", "a", "expected.yaml", "captured", "README.md", "target", "manifest.json", "bad_name", "too_long"}
    MaxLength = 4
INVARIANTS
    StagedLikeRecorded
    ReadShowsExactlyTheProject
CHECK_DEADLOCK FALSE
