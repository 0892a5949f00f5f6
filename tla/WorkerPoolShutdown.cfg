SPECIFICATION FairSpec
CONSTANTS
    Jobs = {j1}
    Workers = {w1}
    NoWorker = NoWorker
    MaxShutdowns = 1
PROPERTIES ShutdownStops
CHECK_DEADLOCK FALSE
