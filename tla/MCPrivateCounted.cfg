SPECIFICATION Spec
CONSTANTS
    Sites <- MCSites
    Invocations <- MCInvocations
INVARIANT
    PrivateNeverCounted
