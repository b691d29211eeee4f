SPECIFICATION BtusbSpec
CONSTANTS
    MaxCalls = 2
    MaxTx = 2
INVARIANTS UrbsInPlace CallsFollow
