\* ups.realpower is not served when the UPS is registered, and is later.
CONSTANTS
    UPS <- PlainNames
    Charts <- MCCharts
    upsd <- FlakyPlain
SPECIFICATION Spec
PROPERTY BeginsDefinedCharts
CHECK_DEADLOCK FALSE
