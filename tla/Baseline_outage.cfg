SPECIFICATION Spec
CONSTANTS
    Stable = 1
    RetainSnapshots = 1
    RetainChanges = 2
    Keep = 2
    MaxTime = 3
PROPERTIES
    NoBaselineInOutage
