SPECIFICATION Spec
CONSTANTS
    e1 = e1  e2 = e2  e3 = e3  d1 = d1  d2 = d2
    Nobody = Nobody
    Items <- TwoItems
    Consumers <- OneConsumer
    Capacity = 1
    Usize = 8
INVARIANTS LenTrue
CHECK_DEADLOCK FALSE
