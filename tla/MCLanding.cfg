SPECIFICATION FairSpec
CONSTANTS
    Kinds <- MCKinds
    MaxTrouble = 1
INVARIANTS
    LiveRan
    PagesAgree
PROPERTY ChangesSettle
CHECK_DEADLOCK FALSE
