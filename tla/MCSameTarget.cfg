\* A recording whose model first looks up the node above the failing one.
SPECIFICATION RRSpec
CONSTANTS
    ProjectRoot <- MCRoot
    Pricing <- MCPricing
    Model = "sonnet"
    RecMaxIterations = 3
    RecMaxCost = 2
    RepMaxIterations = 3
    RepMaxCost = 3
    Completions <- MCCompletions
    Projects <- MCProjects
    FailureClasses <- MCFailureClasses
    Fixes = {"fix_a"}
    ModelPaths <- MCModelPaths
    Targets <- MCTargets
    Contracts <- MCContracts
    Reading <- MCReading
    DiffOf <- MCDiffOf
PROPERTY
    SameTarget
