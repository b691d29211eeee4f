\* eight calls: wrapper, data and two readings of a status, all but the wrapper
\* and the empty status stalled and cleared
SPECIFICATION FairSpec
CONSTANTS
    Commands <- MCCommands
    Devices <- MCDevices
    MaxCalls = 8
INVARIANTS NoTransferOnHalted GoodIsReported NoSilentShortage RetriesEnd
PROPERTY RunsCommand
