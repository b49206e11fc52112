CONSTANTS
    InitSize = 2
    TimeSeries <- AllTimeSeries
    MaxSeries = 3
    Interval = 10
SPECIFICATION Spec
INVARIANTS IndexIsMap FastMatchesSlow RejectionJustified RecordsCoverRows RowsOnGrid LabelsFound
CHECK_DEADLOCK FALSE
