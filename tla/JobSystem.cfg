SPECIFICATION MCSpec
CONSTANTS
    j1 = j1  j2 = j2  w1 = w1  w2 = w2
    NoWorker = NoWorker
    Jobs <- TwoJobs
    Workers <- TwoWorkers
    MaxShutdowns = 1
INVARIANTS PoolSound SubmissionsTrue JoinTrue
PROPERTIES OneWay FuturesResolve
CHECK_DEADLOCK FALSE
