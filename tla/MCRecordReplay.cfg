\* record.py caps the cost at 0.30 and the replay uses run()'s default of 0.50:
\* here 2 and 3, so that a call of price 2 stops a recording but no replay and
\* one of price 3 stops both.  Both stop after three iterations.
SPECIFICATION RRSpec
CONSTANTS
    ProjectRoot <- MCRoot
    Pricing <- MCPricing
    Model = "sonnet"
    RecMaxIterations = 3
    RecMaxCost = 2
    RepMaxIterations = 3
    RepMaxCost = 3
    Completions <- MCCompletions
    Projects <- MCProjects
    FailureClasses <- MCFailureClasses
    Fixes = {"fix_a"}
    ModelPaths <- MCModelPaths
    Targets <- MCTargets
    Contracts <- MCContracts
    Reading <- MCReading
    DiffOf <- MCDiffOf
INVARIANTS
    RRTypeOK
    ReplayReproducesRun
    RecordingCoversReplay
    GradesAgree
PROPERTY
    SavedRunsReplay
