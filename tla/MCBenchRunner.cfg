\* Every flag combination over two directories, each complete or lacking one thing.
SPECIFICATION Spec
CONSTANTS
    Sites <- MCSites
    Invocations <- MCInvocations
INVARIANTS
    TypeOK
    WorkedInOrder
    NoAgentRunInVain
    ExitCodeHonest
PROPERTIES
    InvocationEnds
    ImplementsSuiteReport
