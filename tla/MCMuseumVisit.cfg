CONSTANTS
    Codes = {"today", "other"}
    NoCode = NoCode
    NoLog = NoLog
    ReuseChoices <- MCReuseChoices
    MaxScreens = 2
    MaxChecks = 2
SPECIFICATION FairSpec
INVARIANT TypeOK
INVARIANT DocumentIsOwn
INVARIANT MenuStays
PROPERTY MatchOpensAR
PROPERTY VisitLogImplemented
CHECK_DEADLOCK FALSE
