SPECIFICATION MCSpec
CONSTANTS
    c1 = c1  c2 = c2  c3 = c3
    low = low  high = high
    NoWindow = NoWindow
    Calls <- ThreeCalls
    Options <- TwoOptions
    MaxSize = 2
INVARIANTS MembersSound AnswersTrue SlotSound NoLostWakeup
PROPERTIES NoForeignEviction ImplementsPromise EveryCallReturns EveryOkRuns
