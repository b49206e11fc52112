CONSTANTS
    IntervalPoints = 2
    NaN = NaN  Stale = Stale
    Inf = 99
    MaxUint64 = 1000  MaxSamples = 40  MaxSeries = 6
    Hour = 3600000  Windows = {0, 1000}  Offsets = {0, 3000}
    LabelsOf <- MCLabelsOf
    Stores <- MCStores
    Plans <- ImplicitPlans
SPECIFICATION Spec
INVARIANTS CompactExact
CHECK_DEADLOCK FALSE
