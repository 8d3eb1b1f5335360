\* Three metrics, values 0 to 3; the threshold of the gauge lies between them.
CONSTANTS
    sent = sent
    memory = memory
    other = other
    Metrics <- MCMetrics
    CheckType <- MCCheckType
    MetricType <- MCMetricType
    Threshold <- MCThreshold
    Values = {0, 1, 2, 3}
    Missing = Missing
SPECIFICATION Spec
INVARIANTS
    TypeOK
    LogTellsState
PROPERTIES
    LinesAlternate
