SPECIFICATION ReadSpec
CONSTANTS
    k1 = k1
    k2 = k2
    v1 = v1
    v2 = v2
    Nil = Nil
    Limit = 1
    Hour = 1
    Month = 3
    Lookback = 2
    Unset = Unset
    Malformed = Malformed
    Keys <- MCKeys
    Values <- MCValues
SYMMETRY MCSymmetry
INVARIANTS
    ReadTypeOK
    OpenAlertIsAbsent
    NothingVanishesSilently
    DiffExplained
