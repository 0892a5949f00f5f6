SPECIFICATION MCSpec
CONSTANTS
    e1 = e1  e2 = e2  e3 = e3  d1 = d1  d2 = d2
    Nobody = Nobody
    Items <- ThreeItems
    Consumers <- TwoConsumers
    Capacity = 1
    Usize = 8
INVARIANTS LengthSound AnswersTrue CapacityHolds
PROPERTIES ImplementsPromise EveryItemArrives CallsReturn
CHECK_DEADLOCK FALSE
