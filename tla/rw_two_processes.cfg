CONSTANTS
    p1 = p1  p2 = p2  w1 = w1  w2 = w2  s1 = s1
    t1 = t1  t2 = t2  i1 = i1  i2 = i2  None = None
    Procs = {p1, p2}
    Requests = {w1, w2}
    Scrapes = {}
    Teams = {t1, t2}
    Ids = {i1, i2}
    Batches <- ContendedBatches
    Configured = {"metadata", "samples", "histograms"}
    Layouts = {"current"}
    AllowLate = FALSE
    MaxAttempts = 1
    MaxCrashes = 0
SPECIFICATION Spec
INVARIANT OneRowPerSeries
CHECK_DEADLOCK FALSE
