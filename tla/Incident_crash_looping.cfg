SPECIFICATION Spec
CONSTANTS
    States = {"Running", "CrashLoop"}
    p1 = p1
    p2 = p2
    a = a
    b = b
    NoRow = NoRow
    Minute = 6
    Half = 128
    Unset = Unset
    Malformed = Malformed
    Pods <- TwoPods
    NamespaceOf <- MCNamespaceOf
    PodThresh = 1
    NSThresh = 1
    Window = 1
    Stable = 1
    Faults = {"store"}
PROPERTIES
    ClosedWhenRunning
