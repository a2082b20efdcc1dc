CONSTANTS
    GoogleUsers = {g}
    PasswordUsers = {p}
    NoUser = NoUser
    MayFail = TRUE
    Tasks = {t1}
    Timers = {1}
    MaxTicks = 1
    MaxRoutes = 4
SPECIFICATION Spec
PROPERTY RegisteredNotDeleted
CHECK_DEADLOCK FALSE
