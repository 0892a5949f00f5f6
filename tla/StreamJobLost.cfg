SPECIFICATION FairSpec
CONSTANTS
    Stream = s1
    Streams = {s1}
    Callers = {c1}
    Capacities = {1}
    MaxBuffer = 2
    MaxItems = 1
    DropError = "none"

PROPERTY ResultEnds
CHECK_DEADLOCK FALSE
