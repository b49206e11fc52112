CONSTANTS
    Names = {"metric", "job"}
    MetricName = "metric"
    Values <- LabelValues
    Empty = ""
    Series <- WrittenSeries
    Matchers <- MatcherSet
    MaxMatchers = 2
    Times = {1, 2}
    MaxSeries = 3
    MaxSamples = 4
SPECIFICATION Spec
INVARIANTS SelectExact LimitReported UnsatisfiableSound TightIdsExact SeriesActive
