\* all three streams; the mixer controls have a run of their own
SPECIFICATION Spec
CONSTANTS
    Used = {"capture", "playback1", "playback2"}
    CtlThreads = {}
    Controls = {}
    MaxBusy = 2
INVARIANTS TransfersItsOwn ActiveTellsRunning NoPeriodMissed
CHECK_DEADLOCK FALSE
