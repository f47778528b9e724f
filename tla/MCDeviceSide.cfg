SPECIFICATION MCSpec
CONSTANTS
    None = None
    Items = {"a", "b", "c"}
    Program <- ItemProgram
    Fetched <- LocationFetched
    First = 1
    Values <- LocationValues
    Threads = {1, 2}
    Calls <- LaunchCalls
    Presets <- PresetSizes
    Stray <- StrayRows
    MaxItemSizes <- ItemSizes
    MaxGroup = 4
    SizeMax = 8
    Barriers = 1
    MaxCalls = 1
    Params <- ManyParams
    Given <- ManyGiven
    SizeOf <- SizeOfKind
    AutoLocals = 4
    LocalSize = 64
    MaxSets = 5
    MaxCommands = 1
INVARIANTS EveryItemOnce BarriersHold RunsAsEnqueued BuiltinsAreExact CodeIsWhole
PROPERTIES WorkFinishes ImplementsAtomicObject
CHECK_DEADLOCK FALSE
