SPECIFICATION Spec
CONSTANTS
    StackBytes <- MCStackBytes
    Words <- MCWords
    Blank = 0
    MaxRestarts = 1
INVARIANTS
    OtpReadOnXti
CHECK_DEADLOCK FALSE
