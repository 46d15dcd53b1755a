\* A plugin that exits with 1.
CONSTANTS
    UPS <- OneName
    Charts <- MCCharts
    upsd <- Flaky
    NoChart <- MCNoChart
    SERIAL_FAILURES_THRESHOLD = 1
    PipeSize = 2
SPECIFICATION CycleSpec
PROPERTY DisableExitFinal
CHECK_DEADLOCK FALSE
