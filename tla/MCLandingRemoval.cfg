SPECIFICATION Spec
CONSTANTS
    Kinds <- MCKinds
    MaxTrouble = 0
INVARIANT RemovedIsGone
CHECK_DEADLOCK FALSE
