SPECIFICATION Spec
CONSTANTS
    NoDiagnosis = NoDiagnosis
    NoFix = NoFix
    FailureClasses <- MCFailureClasses
    Certain = 2
    DefaultMaxCost = 20
    Runs <- MCRuns
    Drafts <- MCDrafts
    Wordings <- MCWordings
    Misspelt <- MCMisspelt
    MaxChanges = 2
INVARIANT
    ForbiddenFilesUntouched
CHECK_DEADLOCK FALSE
