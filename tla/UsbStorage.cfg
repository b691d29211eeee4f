SPECIFICATION FairSpec
CONSTANTS
    MaxTransfers = 2
    ResetIoctl = TRUE
INVARIANTS AbortSafe CommandsAccounted CleanedUp
PROPERTY EverythingEnds
CHECK_DEADLOCK FALSE
