CONSTANTS
    spot = spot
    cafe = cafe
    LocationIds = {spot, cafe}
    ListOf <- MCListOf
    NoLocation = NoLocation
    MaxScreens = 2
    MaxPicks = 1
SPECIFICATION FairSpec
INVARIANT TypeOK
INVARIANT MarkersOfOpening
INVARIANT CheckInTaken
PROPERTY SelectionUsedOnce
PROPERTY QuietAfterDispose
PROPERTY MapAppears
CHECK_DEADLOCK FALSE
