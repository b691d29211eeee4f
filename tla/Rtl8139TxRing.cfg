SPECIFICATION FairSpec
CONSTANTS
    NumTxDesc = 4
    MaxFrames = 8
INVARIANT RingSound
PROPERTIES InOrderOnce StoppedIsWoken
