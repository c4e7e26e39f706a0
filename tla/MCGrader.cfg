\* The run ends when no key of the document may be changed any more.
SPECIFICATION Spec
CONSTANTS
    NoDiagnosis = NoDiagnosis
    NoFix = NoFix
    FailureClasses <- MCFailureClasses
    Certain = 2
    DefaultMaxCost = 20
    Runs <- MCRuns
    Drafts <- MCDrafts
    Wordings <- MCWordings
    Misspelt <- MCMisspelt
    MaxChanges = 2
INVARIANTS
    FailsClosed
    NoClauseLost
    ReadersAgree
PROPERTY
    TighteningNeverHelps
CHECK_DEADLOCK FALSE
