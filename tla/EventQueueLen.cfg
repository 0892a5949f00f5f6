SPECIFICATION Spec
CONSTANTS
    e1 = e1  e2 = e2  d1 = d1  d2 = d2
    Items <- TwoItems
    Consumers <- OneConsumer
    Priorities <- LowHigh
    Usize = 8
INVARIANTS LenTrue
CHECK_DEADLOCK FALSE
