\* two keys and a modifier with one key slot (rollover occurs), one LED
SPECIFICATION KbdFairSpec
CONSTANTS
    Keys = {k1, k2}
    Modifiers = {shift}
    Rollover = rollover
    KeySlots = 1
    LedNames = {"CAPSL"}
    MaxEvents = 3
    MaxChanges = 2
INVARIANTS KeysMatch LedsFollow FreedUnused
PROPERTIES BufferStable Reaches
CHECK_DEADLOCK FALSE
