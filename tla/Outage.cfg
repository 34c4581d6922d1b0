SPECIFICATION OutageSpec
CONSTANTS
    BufferSize = 2
    Uids = {u1}
    Nodes = {n1}
    NoNode = NoNode
    NoEvent = NoEvent
    MaxRows = 1
    MaxSnaps = 2
INVARIANTS
    OutageTypeOK
PROPERTIES
    OnlyUnacceptableDropped
    AcceptableStored
    NothingStuck
    EventsRecorded
    NodeSettles
    CapEnds
