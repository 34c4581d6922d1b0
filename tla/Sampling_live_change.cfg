SPECIFICATION SnapshotSpec
CONSTANTS
    Views <- MCLiveChange
    Configs = {}
    DaemonSets = {}
    Override = FALSE
    Pids = {}
    Starts = {}
    BootTimes = {10}
    ReadsFail = FALSE
PROPERTIES
    PinnedForLife
