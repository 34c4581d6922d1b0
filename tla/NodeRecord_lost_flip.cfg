SPECIFICATION NodeFairSpec
CONSTANTS
    Nil = Nil
    NoSnapshot = NoSnapshot
    NoNode = NoNode
    Keys <- MCKeys
    Values <- MCValues
    Drivers <- MCDrivers
    Objects <- MCObjects
    ClockSteps <- Forward
    MaxTime = 1
    MaxEdits = 1
PROPERTIES
    RecordedWithChanges
