\* A UPS whose name has a dot leaves.
CONSTANTS
    UPS <- DottedNames
    Charts <- MCCharts
    upsd <- FlakyDotted
SPECIFICATION Spec
INVARIANT UnseenDeleted
CHECK_DEADLOCK FALSE
