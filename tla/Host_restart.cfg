SPECIFICATION HostSpec
CONSTANTS
    Pids = {9, 10}
    Starts = {1, 2}
    BootTimes = {100, 200}
    ReadsFail = FALSE
PROPERTIES
    RestartsReal
