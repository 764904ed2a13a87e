SPECIFICATION Spec
CONSTANTS
    StackBytes <- MCStackBytes
    Words <- MCWords
    Blank = 0
    MaxRestarts = 1
INVARIANTS
    CalibrationFromOtp
CHECK_DEADLOCK FALSE
