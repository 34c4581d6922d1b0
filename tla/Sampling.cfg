SPECIFICATION SnapshotSpec
CONSTANTS
    Views <- MCViews
    Configs = {"cilium"}
    DaemonSets = {"calico", "flannel"}
    Override = FALSE
    Pids = {1}
    Starts = {1}
    BootTimes = {10, 20}
    ReadsFail = FALSE
INVARIANTS
    SnapshotTypeOK
PROPERTIES
    OutageIsAbsent
    ConfigDecides
    DetectionSettles
