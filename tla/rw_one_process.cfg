CONSTANTS
    p1 = p1  p2 = p2  w1 = w1  w2 = w2  s1 = s1
    t1 = t1  t2 = t2  i1 = i1  i2 = i2  None = None
    Procs = {p1}
    Requests = {w1, w2, s1}
    Scrapes = {s1}
    Teams = {t1}
    Ids = {i1, i2}
    Batches <- ContendedBatches
    Configured = {"samples"}
    Layouts = {"current"}
    AllowLate = FALSE
    MaxAttempts = 1
    MaxCrashes = 1
SPECIFICATION FairSpec
INVARIANTS OneRowPerSeries
PROPERTIES EveryAttemptAnswered MutexReleased
CHECK_DEADLOCK FALSE
