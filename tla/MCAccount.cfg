CONSTANTS
    GoogleUsers = {g}
    PasswordUsers = {p, q}
    NoUser = NoUser
    MayFail = TRUE
    Tasks = {t1, t2}
    Timers = {1, 2}
    MaxTicks = 2
    MaxRoutes = 4
SPECIFICATION Spec
INVARIANT MenuNeedsVerified
INVARIANT RecordsMatchAccounts
INVARIANT NeverBlank
INVARIANT LoaderMeansWork
INVARIANT RegisteredBeforeAsked
PROPERTY OwnDataOnly
PROPERTY PasswordDeletesOwn
CONSTRAINT Undisturbed
SYMMETRY MCPermutations
CHECK_DEADLOCK FALSE
