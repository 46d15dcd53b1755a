\* A plain UPS and a dotted one that are not steady, and a steady one the dotted one is cleaned to.
CONSTANTS
    UPS <- CollidingNames
    Charts <- MCCharts
    upsd <- FlakyAndSteady
SPECIFICATION FairSpec
INVARIANTS
    TypeOK
    DictionariesAgree
    SeenTracksListing
    RegistryMatchesListing
    CycleComplete
    BlocksPerCycle
    RegisteredChartsDefined
    SoundNoCrash
PROPERTIES
    SteadyBegins
    CycleEnds
    UnlistedForgotten
CHECK_DEADLOCK FALSE
