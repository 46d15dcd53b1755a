\* OFF: the second F is scanned as a status of its own.
CONSTANT Strings <- OffValues
SPECIFICATION Spec
INVARIANT ReportsEveryStatus
CHECK_DEADLOCK FALSE
