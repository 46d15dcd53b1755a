\* Numbers that an unsigned int does not hold.
CONSTANTS
    NotDigit = NotDigit
    Arguments <- MCArguments
    Modulus = 32
    Limit = 12
    Second = 2
    Randomness = 1
    Timeout = 12
    MaxBusy = 3
    MaxLate = 1
SPECIFICATION Spec
INVARIANT FrequencyInRange
CHECK_DEADLOCK FALSE
