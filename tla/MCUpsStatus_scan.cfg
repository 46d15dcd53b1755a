\* Values with words the scanner is right and wrong about; a NULL dereference ends the process.
CONSTANT Strings <- AnyValues
SPECIFICATION FairSpec
INVARIANTS
    TypeOK
    RightUpToBadWord
    OnlyBadWordsOverrun
PROPERTY ScannableSends
CHECK_DEADLOCK FALSE
