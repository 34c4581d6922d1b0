SPECIFICATION Spec
CONSTANTS
    Stable = 1
    RetainSnapshots = 2
    RetainChanges = 1
    Keep = 1
    MaxTime = 2
PROPERTIES
    HealthyReference
