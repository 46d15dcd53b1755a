\* Frequencies below and above the agent's timeout, cycles that take up to a second and a half.
CONSTANTS
    NotDigit = NotDigit
    Arguments <- MCArguments
    Modulus = 32
    Limit = 12
    Second = 2
    Randomness = 1
    Timeout = 12
    MaxBusy = 3
    MaxLate = 1
SPECIFICATION Spec
INVARIANTS
    TypeOK
    FrequencyExact
    NoFalseTimeout
    IdleGivenUp
    SlowCollectsOnce
    BeatsAligned
CHECK_DEADLOCK FALSE
