SPECIFICATION Spec
CONSTANTS
    Diffs <- MCDiffs
    Trees <- MCTrees
INVARIANT
    MultiFileRefused
