SPECIFICATION FairSpec
CONSTANTS
    N = 3
    RetryBound = 3
INVARIANTS AttemptsSound OwnResult EndsAnswered
PROPERTIES RetriesOnly Ends
