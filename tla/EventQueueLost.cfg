SPECIFICATION FairSpec
CONSTANTS
    e1 = e1  e2 = e2  d1 = d1  d2 = d2
    Items <- TwoItems
    Consumers <- OneConsumer
    Priorities <- LowHigh
    Usize = 8
PROPERTIES EveryItemTaken
CHECK_DEADLOCK FALSE
