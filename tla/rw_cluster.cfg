CONSTANTS
    p1 = p1  p2 = p2  w1 = w1  w2 = w2  s1 = s1
    t1 = t1  t2 = t2  i1 = i1  i2 = i2  None = None
    Procs = {p1, p2}
    Requests = {w1, s1}
    Scrapes = {s1}
    Teams = {t1, t2}
    Ids = {i1, i2}
    Batches <- AllBatches
    Configured = {"metadata", "samples", "histograms", "exemplars"}
    Layouts = {"current", "posthog"}
    AllowLate = TRUE
    MaxAttempts = 2
    MaxCrashes = 1
SPECIFICATION Spec
INVARIANTS CacheSound NoOrphanRows AckedDurable WrittenSeriesCached
PROPERTY ImplementsContract
CHECK_DEADLOCK FALSE
