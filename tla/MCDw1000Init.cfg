SPECIFICATION Spec
CONSTANTS
    StackBytes <- MCStackBytes
    Words <- MCWords
    Blank = 0
    MaxRestarts = 1
INVARIANTS
    TypeOK
    SpiWithinLimits
    EndsClean
PROPERTIES
    ConfigDisjoint
CHECK_DEADLOCK FALSE
