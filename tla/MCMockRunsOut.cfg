\* The caps of record.py (0.30) and of run() (0.50), as 2 and 3.
SPECIFICATION RRSpec
CONSTANTS
    ProjectRoot <- MCRoot
    Pricing <- MCPricing
    Model = "sonnet"
    RecMaxIterations = 3
    RecMaxCost = 2
    RepMaxIterations = 3
    RepMaxCost = 3
    Completions <- MCCompletions
    Projects <- MCProjects
    FailureClasses <- MCFailureClasses
    Fixes = {"fix_a"}
    ModelPaths <- MCModelPaths
    Targets <- MCTargets
    Contracts <- MCContracts
    Reading <- MCReading
    DiffOf <- MCDiffOf
INVARIANT
    MockNeverRunsOut
