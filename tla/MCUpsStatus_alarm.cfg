\* An unknown status in last place.
CONSTANT Strings <- AlarmValues
SPECIFICATION FairSpec
PROPERTY EveryCallSends
CHECK_DEADLOCK FALSE
