SPECIFICATION Spec
CONSTANTS
    k = k
    s1 = s1
    s2 = s2
    Nil = Nil
    NoSnapshot = NoSnapshot
    Keys <- MCKeys
    Values <- MCValues
    Drivers <- MCDrivers
    Readings <- MCReadings
    Oversize <- MCOversize
    Slots <- TwoSlots
    Faults = {"network", "handler"}
    MaxTime = 3
    BufferSize = 2
SYMMETRY MCSymmetry
INVARIANTS
    TypeOK
    SamplesAccounted
    Handshake
    ChangesJustified
