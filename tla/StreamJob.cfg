SPECIFICATION FairSpec
CONSTANTS
    Stream = s1
    Streams = {s1}
    Callers = {c1, c2}
    Capacities = {0, 1, 2, 3}
    MaxBuffer = 2
    MaxItems = 3
    DropError = "none"
INVARIANTS ResultSound
PROPERTIES ImplementsPromise ClosedIsFinal ResultReturns BlockedSendReleased
CHECK_DEADLOCK FALSE
