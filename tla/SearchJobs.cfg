SPECIFICATION FairSpec
CONSTANTS
    MaxJobs = 4
    MaxEntries = 3
    MaxConcurrent = 2
    Ttl = 2
    Horizon = 3
INVARIANTS
    TypeOK
    RecordFollowsTask
    SlotsConserved
    NoIdleSlot
    WithinCapacity
    StartsInOrder
    NothingRunsAfterClose
PROPERTIES
    RecordsLeaveInOrder
    TerminalRecordIsFinal
    ImplementsLifecycle
    EveryJobSettles
    ShutdownCompletes
