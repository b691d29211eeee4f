\* room for two packets and a budget of two: a poll may use it up with a packet left
SPECIFICATION FairSpec
CONSTANTS
    RingSlots = 3
    Weight = 2
INVARIANTS InStep NothingStranded FreedIsUnused
PROPERTY PacketsFetched
CHECK_DEADLOCK FALSE
