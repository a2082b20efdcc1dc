CONSTANTS
    ana = ana
    ben = ben
    Users = {ana, ben}
    NoUser = NoUser
    MaxControllers = 3
    MaxFetches = 3
    MaxEdits = 2
    MaxRoutes = 4
SPECIFICATION Spec
INVARIANT TypeOK
INVARIANT ShowsOwnRecord
INVARIANT TextIsOwn
INVARIANT CopyAgrees
INVARIANT ShimmerMeansWork
INVARIANT ScreenUnlessUploadFails
SYMMETRY MCPermutations
CHECK_DEADLOCK FALSE
