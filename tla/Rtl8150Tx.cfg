SPECIFICATION FairSpec
CONSTANTS
    Skbs = {s1, s2}
    NoSkb = NoSkb
INVARIANT FramesAccounted
PROPERTY QueueFollows
CHECK_DEADLOCK FALSE
