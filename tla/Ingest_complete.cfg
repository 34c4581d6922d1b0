SPECIFICATION FairSpec
CONSTANTS
    k = k
    s1 = s1
    s2 = s2
    Nil = Nil
    NoSnapshot = NoSnapshot
    Keys <- MCKeys
    Values <- MCValues
    Drivers <- MCDrivers
    Readings <- MCReadings
    Oversize <- MCOversize
    Slots <- OneSlot
    Faults = {"network"}
    MaxTime = 4
    BufferSize = 2
INVARIANTS
    BufferInOrder
    StoredInOrder
    RecordedOnce
    EveryChangeRecorded
PROPERTIES
    ImplementsChangeLog
    FlushEnds
