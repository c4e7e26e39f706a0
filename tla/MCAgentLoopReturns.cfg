\* Three iterations under a cap of 4: two calls of cost 2 reach it, two of cost 3
\* overshoot it, and a run of free calls reaches the iteration limit first.
SPECIFICATION Spec
CONSTANTS
    ProjectRoot <- MCRoot
    Pricing <- MCPricing
    Model <- MCModel
    MaxIterations = 3
    MaxCost = 4
    Completions <- MCCompletions
    Projects <- MCProjects
    FailureClasses <- MCFailureClasses
    Fixes = {"fix_a"}
INVARIANT
    ReturnsRegardless
