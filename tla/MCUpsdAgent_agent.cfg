\* One UPS whose every variable may come and go, under an agent.
CONSTANTS
    UPS <- OneName
    Charts <- MCCharts
    upsd <- Flaky
    NoChart <- MCNoChart
    SERIAL_FAILURES_THRESHOLD = 1
    PipeSize = 2
SPECIFICATION CycleFairSpec
INVARIANTS
    FutileGivenUp
    RejectsOnlyLoadUsage
    FlushedNotLost
PROPERTIES
    LastProcess
    CycleRead
    EndNoticed
    Restarted
CHECK_DEADLOCK FALSE
