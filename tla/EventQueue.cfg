SPECIFICATION FairSpec
CONSTANTS
    e1 = e1  e2 = e2  d1 = d1  d2 = d2
    Items <- TwoItems
    Consumers <- TwoConsumers
    Priorities <- LowHigh
    Usize = 8
INVARIANTS LengthSound AcceptedSafe
PROPERTIES ImplementsPromise OnlyWasteStrands ClosedDrains
CHECK_DEADLOCK FALSE
