SPECIFICATION Spec
CONSTANTS
    StationaryTimeout = 3
    HistoryDepth = 2
    MaxLookback = 4
    MinEdgeInterval = 1
    QueueCapacity = 1
    MaxTime = 6
    ChipCount = 2
INVARIANTS Inv NoStopInHistory
PROPERTIES EpochsAreAnnounced MeasurementIsTrue
