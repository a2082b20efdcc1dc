CONSTANTS
    GoogleUsers = {g}
    PasswordUsers = {p}
    NoUser = NoUser
    MayFail = FALSE
    Tasks = {t1}
    Timers = {1, 2}
    MaxTicks = 1
    MaxRoutes = 4
SPECIFICATION FairSpec
INVARIANT TypeOK
PROPERTY MenuOpensForVerified
PROPERTY VerifiedMovesOn
PROPERTY LoaderCloses
CHECK_DEADLOCK FALSE
