CONSTANTS
    Pushes = {"p1", "p2"}
    Bodies <- Sent
    Malformed = Malformed
    Configs <- AllConfigs
    Number <- Numbers
    Queries <- AllQueries
    Expressions <- AllExpressions
    Minute = 4
    Second = 2
    MaxAttempts = 2
    MaxFaults = 1
    MaxRows = 5
    Extra = 1
    MaxPoints = 6
    MaxTime = 39
SPECIFICATION Spec
INVARIANTS EventJoined AckedPushWhole StatsBacked AckedStreamListed ListedHasLines FirstLinesReturned OneRead EvaluatorExact SQLMetricExact StatsExact GridAligned
CHECK_DEADLOCK FALSE
