CONSTANTS
    PerHour = 2
    NoHours = NoHours
    ClosedText = ClosedText
    NoText = NoText
    Tables <- MCTables
SPECIFICATION Spec
INVARIANT TypeOK
INVARIANT OpenByTheTable
INVARIANT NextTimesNotSkipped
INVARIANT ClosesTheOpenDay
CHECK_DEADLOCK FALSE
