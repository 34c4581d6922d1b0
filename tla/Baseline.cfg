SPECIFICATION Spec
CONSTANTS
    Stable = 1
    RetainSnapshots = 1
    RetainChanges = 1
    Keep = 1
    MaxTime = 2
INVARIANTS
    TypeOK
PROPERTIES
    NewestKept
    ReadyWhenMarked
