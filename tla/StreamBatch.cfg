SPECIFICATION FairSpec
CONSTANTS
    Streams = {s1, s2}
    Capacities = {1}
    MaxBuffer = 2
    MaxItems = 2
    DropError = "cancelled"
    RouteBudget = 2
INVARIANTS ClosuresSound EndsSettled
PROPERTIES ImplementsPromise FaultsAreLocal AbandonedEnds SlowIsLocal
CHECK_DEADLOCK FALSE
