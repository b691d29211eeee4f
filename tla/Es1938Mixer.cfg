\* two processes at the controls, beside a stream and the interrupt handler
SPECIFICATION Spec
CONSTANTS
    Used = {"capture"}
    CtlThreads = {user1, user2}
    Controls = {"Master Volume", "Record Monitor", "3D", "Hardware Volume"}
    MaxBusy = 2
INVARIANTS RegistersMeant StereoTogether
SYMMETRY CtlSymmetry
CHECK_DEADLOCK FALSE
