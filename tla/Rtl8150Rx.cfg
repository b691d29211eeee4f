SPECIFICATION FairSpec
CONSTANT PoolSize = 2
INVARIANTS BufferSafe StopsClean
PROPERTY ReceptionGoesOn
CHECK_DEADLOCK FALSE
