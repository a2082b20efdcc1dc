CONSTANTS
    Codes = {"today", "other"}
    NoCode = NoCode
    NoLog = NoLog
    ReuseChoices <- MCReuseChoices
    MaxScreens = 1
    MaxChecks = 1
SPECIFICATION Spec
INVARIANT TimeOutRecorded
CHECK_DEADLOCK FALSE
