\* Target files of up to three lines: room for two places of a one- or two-line body.
SPECIFICATION Spec
CONSTANTS
    Diffs <- MCDiffs
    Trees <- MCTrees
INVARIANTS
    TypeOK
    RebuildIsTheOnlyReading
    VerdictIsGits
PROPERTY
    Decided
