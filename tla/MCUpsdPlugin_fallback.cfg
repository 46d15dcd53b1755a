\* load_usage is computed from ups.load and ups.realpower.nominal.
CONSTANTS
    UPS <- OneName
    Charts <- MCCharts
    upsd <- Fallback
SPECIFICATION Spec
INVARIANT NoCrash
CHECK_DEADLOCK FALSE
