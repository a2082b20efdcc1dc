------------------------------- MODULE Account -------------------------------
(***************************************************************************)
(* Accounts and sessions: AuthenticationRepository, LoginController,       *)
(* SignupController, VerifyEmailController and the account operations of   *)
(* UserController (deletion, re-authentication, change of email), with the *)
(* screens they navigate between and the full-screen loader they open.     *)
(*                                                                         *)
(* An account lives in two places that no transaction joins: Firebase Auth *)
(* (account) and the Firestore document Users/<uid> (record).  An account  *)
(* is identified with its email address; its provider is fixed.            *)
(*                                                                         *)
(* A controller method is a task that runs from await to await.  While its *)
(* loader covers the screen the user cannot start another one, but the     *)
(* timers of the verify-email screen, a logout, and the tails of two tasks *)
(* that close their loader early run beside it.                            *)
(***************************************************************************)
EXTENDS Naturals, Sequences, FiniteSets, SequencesExt

CONSTANTS
    GoogleUsers,    \* accounts of the provider 'google.com'
    PasswordUsers,  \* accounts of the provider 'password'
    NoUser,         \* currentUser is null
    MayFail,        \* may a call to Firebase fail? (FALSE in liveness runs)
    Tasks,          \* slots for controller methods in flight
    Timers,         \* slots for timers of the verify-email screen
    MaxTicks,       \* bound: ticks of one timer waiting for reload()
    MaxRoutes       \* bound: screens on the navigator's stack

Users == GoogleUsers \cup PasswordUsers

ASSUME AccountAssumption ==
    /\ GoogleUsers \cap PasswordUsers = {}
    /\ NoUser \notin Users
    /\ MayFail \in BOOLEAN
    /\ MaxTicks \in Nat \ {0}
    /\ MaxRoutes \in Nat

VARIABLES
    account,         \* account[u] in Firebase Auth
    record,          \* record[u]: Users/<uid> exists, with the account's Email
    currentUser,     \* FirebaseAuth.instance.currentUser
    cachedVerified,  \* currentUser.emailVerified as the app last read it
    isFirstTime,     \* the flag in device storage
    routes,          \* the navigator's stack, topmost last
    task,            \* task[t]: a controller method in flight
    logout,          \* how far AuthenticationRepository.logout is
    timer,           \* timer[i]: a periodic timer, with its ticks in flight
    touches,         \* updateLastActive calls in flight
    disturbed        \* history: a task was cut by a restart, failed half way, or
                     \* met another task, a logout or a redirect of a timer

server == <<account, record>>
session == <<currentUser, cachedVerified>>
background == <<logout, timer, touches>>
vars == <<account, record, currentUser, cachedVerified, isFirstTime, routes,
          task, logout, timer, touches, disturbed>>

Screens == {"splash", "onboarding", "login", "signup", "verify", "success", "menu",
            "profile", "dialog", "reauthDelete", "reauthEmail", "changeEmail", "loader"}

Ops == {"login", "google", "signup", "delete", "deletePassword", "resetEmail",
        "reauthEmail", "updateEmail"}

Awaits == {"connect", "signIn", "syncEmail", "google", "setRecord", "isRegistered",
           "deleteUser", "register", "saveRecord", "reauth", "removeRecord", "deleteAuth",
           "sending"}

Idle == [pc |-> "idle"]

\* ticks: the user of each reload() a timer is waiting for.
NoTimer == [on |-> FALSE, ticks |-> <<>>]

\* user: the account the task is about; prior: currentUser when it began;
\* reauthed: prior has signed in again since; hadRecord: user had a record
\* before the sign-in (the last two are history).
TaskRecords == [op : Ops, pc : Awaits, user : Users \cup {NoUser}, prior : Users \cup {NoUser},
                reauthed : BOOLEAN, hadRecord : BOOLEAN]

TypeOK ==
    /\ account \in [Users -> {"none", "unverified", "verified"}]
    /\ record \in [Users -> BOOLEAN]
    /\ currentUser \in Users \cup {NoUser}
    /\ cachedVerified \in BOOLEAN
    /\ isFirstTime \in {"null", "true", "false"}
    /\ routes \in Seq(Screens)
    /\ task \in [Tasks -> {Idle} \cup TaskRecords]
    /\ logout \in {"idle", "google", "auth"}
    /\ timer \in [Timers -> [on : BOOLEAN, ticks : Seq(Users)]]
    /\ touches \subseteq Users
    /\ disturbed \in BOOLEAN

\* The app starts with the session Firebase kept on the device.
Init ==
    /\ account \in [Users -> {"none", "unverified", "verified"}]
    /\ \A u \in GoogleUsers : account[u] # "unverified"
    /\ record = [u \in Users |-> account[u] # "none"]
    /\ currentUser \in {NoUser} \cup {u \in Users : account[u] # "none"}
    /\ cachedVerified = (currentUser # NoUser /\ account[currentUser] = "verified")
    /\ isFirstTime \in {"null", "false"}
    /\ routes = <<"splash">>
    /\ task = [t \in Tasks |-> Idle]
    /\ logout = "idle"
    /\ timer = [i \in Timers |-> NoTimer]
    /\ touches = {}
    /\ disturbed = FALSE

-----------------------------------------------------------------------------
(* The navigator: Get.to, Get.off, Get.offAll and the loader.              *)

TopOf(r) == IF r = <<>> THEN "blank" ELSE r[Len(r)]
Top == TopOf(routes)
Pop(r) == IF r = <<>> THEN r ELSE SubSeq(r, 1, Len(r) - 1)
Off(r, s) == IF r = <<>> THEN <<s>> ELSE [r EXCEPT ![Len(r)] = s]
OffAll(s) == <<s>>

\* FullScreenLoader.stopLoading pops the topmost route, whatever it is.
StopLoading(r) == Pop(r)

Busy == \E t \in Tasks : task[t] # Idle

\* VerifyEmailController.onInit, for each verify-email screen that appears.
FreeTimers == {i \in Timers : timer[i] = NoTimer}
StartTimer ==
    /\ FreeTimers # {}
    /\ timer' = [timer EXCEPT ![CHOOSE i \in FreeTimers : TRUE].on = TRUE]

\* AuthenticationRepository.screenRedirect: where it leads, and whose LastActive
\* it updates without waiting.
LandingAnyUser ==
    IF currentUser # NoUser THEN "menu"
    ELSE IF isFirstTime = "false" THEN "login" ELSE "onboarding"
Landing ==
    IF currentUser # NoUser THEN IF cachedVerified THEN "menu" ELSE "verify"
    ELSE IF isFirstTime = "false" THEN "login" ELSE "onboarding"

TouchedAlways == {currentUser}
Touched == {currentUser} \ {NoUser}

ScreenRedirect ==
    /\ touches' = touches \cup Touched
    /\ isFirstTime' = IF currentUser = NoUser /\ isFirstTime = "null" THEN "true" ELSE isFirstTime
    /\ routes' = OffAll(Landing)
    /\ IF Landing = "verify" THEN StartTimer ELSE UNCHANGED timer

OnReady ==
    /\ Top = "splash"
    /\ ScreenRedirect
    /\ UNCHANGED server /\ UNCHANGED session
    /\ UNCHANGED <<task, logout, disturbed>>

\* OnBoardingController.nextPage on the last page.
OnboardingDone ==
    /\ Top = "onboarding"
    /\ isFirstTime' = "false"
    /\ routes' = OffAll("login")
    /\ UNCHANGED server /\ UNCHANGED session /\ UNCHANGED background
    /\ UNCHANGED <<task, disturbed>>

\* A tap that pushes a screen: the sign-up link, the profile, the warning
\* before a deletion.
OpenScreen(from, to) ==
    /\ Top = from
    /\ Len(routes) < MaxRoutes
    /\ routes' = Append(routes, to)
    /\ UNCHANGED server /\ UNCHANGED session /\ UNCHANGED background
    /\ UNCHANGED <<isFirstTime, task, disturbed>>

\* The back button; the loader does not let itself be closed by it.
BackAnywhere ==
    /\ Len(routes) > 1
    /\ routes' = Pop(routes)
    /\ UNCHANGED server /\ UNCHANGED session /\ UNCHANGED background
    /\ UNCHANGED <<isFirstTime, task, disturbed>>
Back ==
    /\ Len(routes) > 1
    /\ Top # "loader"
    /\ routes' = Pop(routes)
    /\ UNCHANGED server /\ UNCHANGED session /\ UNCHANGED background
    /\ UNCHANGED <<isFirstTime, task, disturbed>>

\* The app is killed and started again: what is on the device and on the
\* servers stays, what was in flight is gone.
Restart ==
    /\ routes' = <<"splash">>
    /\ task' = [t \in Tasks |-> Idle]
    /\ logout' = "idle"
    /\ timer' = [i \in Timers |-> NoTimer]
    /\ touches' = {}
    /\ disturbed' = (disturbed \/ Busy)
    /\ UNCHANGED server /\ UNCHANGED session /\ UNCHANGED isFirstTime

-----------------------------------------------------------------------------
(* Tasks: how each controller method begins and ends.                      *)

\* The screen a method is called from, and the await it first stops at.
CalledFrom == [login |-> "login", google |-> "login", signup |-> "signup",
               delete |-> "dialog", deletePassword |-> "reauthDelete",
               resetEmail |-> "profile", reauthEmail |-> "reauthEmail",
               updateEmail |-> "changeEmail"]

\* The tasks that may end on the verify-email screen: a sign-in only begins
\* when there are timers for all of them (part of the bound on timers).
SignIns == {"login", "google", "signup"}
MayOpenVerify == {o \in Tasks : task[o] # Idle /\ task[o].op \in SignIns /\ task[o].pc # "deleteUser"}

\* deleteUserAccount and resetEmailAddress look at the provider of the
\* current user first: for a password account they only open a form.
Begin(t, op, u) ==
    /\ Top = CalledFrom[op]
    /\ task[t] = Idle
    /\ op \in {"delete", "resetEmail"} => currentUser \in GoogleUsers
    /\ u \in IF op \in {"login", "signup"} THEN PasswordUsers ELSE {NoUser}
    /\ op \in SignIns => Cardinality(FreeTimers) > Cardinality(MayOpenVerify)
    /\ task' = [task EXCEPT ![t] =
                  [op |-> op, pc |-> IF op \in {"delete", "resetEmail"} THEN "google" ELSE "connect",
                   user |-> u, prior |-> currentUser, reauthed |-> FALSE, hadRecord |-> FALSE]]
    /\ routes' = Append(routes, "loader")
    /\ disturbed' = (disturbed \/ logout # "idle")
    /\ UNCHANGED server /\ UNCHANGED session /\ UNCHANGED background
    /\ UNCHANGED isFirstTime

\* The loader is opened and closed again and the form is pushed.
OpenReauthForm(form) ==
    /\ <<Top, form>> \in {<<"dialog", "reauthDelete">>, <<"profile", "reauthEmail">>}
    /\ currentUser \in PasswordUsers
    /\ Len(routes) < MaxRoutes
    /\ routes' = Append(routes, form)
    /\ UNCHANGED server /\ UNCHANGED session /\ UNCHANGED background
    /\ UNCHANGED <<isFirstTime, task, disturbed>>

\* The catch block of every method, and its early returns: no connection,
\* an invalid form, the privacy policy not accepted.
EndTaskTwice(t) ==
    /\ task' = [task EXCEPT ![t] = Idle]
    /\ routes' = StopLoading(StopLoading(routes))
    /\ UNCHANGED isFirstTime /\ UNCHANGED background
EndTask(t) ==
    /\ task' = [task EXCEPT ![t] = Idle]
    /\ routes' = StopLoading(routes)
    /\ UNCHANGED isFirstTime /\ UNCHANGED background

GoOn(t, pc) ==
    /\ task' = [task EXCEPT ![t].pc = pc]
    /\ UNCHANGED <<routes, isFirstTime>> /\ UNCHANGED background

\* The method ends in screenRedirect, after the loader is closed.
EndInRedirect(t) ==
    /\ task' = [task EXCEPT ![t] = Idle]
    /\ ScreenRedirect
    /\ UNCHANGED logout

EndInScreen(t, r) ==
    /\ task' = [task EXCEPT ![t] = Idle]
    /\ routes' = r
    /\ UNCHANGED isFirstTime /\ UNCHANGED background

At(t, pc) == task[t] # Idle /\ task[t].pc = pc
AtOp(t, ops, pc) == At(t, pc) /\ task[t].op \in ops

RefusedNoStop(t) ==
    /\ At(t, "connect")
    /\ task' = [task EXCEPT ![t] = Idle]
    /\ UNCHANGED server /\ UNCHANGED session /\ UNCHANGED background
    /\ UNCHANGED <<isFirstTime, routes, disturbed>>
Refused(t) ==
    /\ At(t, "connect")
    /\ EndTask(t)
    /\ UNCHANGED server /\ UNCHANGED session /\ UNCHANGED disturbed

ConnectedNoReauth(t) ==
    /\ At(t, "connect")
    /\ task[t].op = "deletePassword" /\ currentUser # NoUser
    /\ task' = [task EXCEPT ![t].pc = "removeRecord", ![t].user = currentUser]
    /\ UNCHANGED server /\ UNCHANGED session /\ UNCHANGED background
    /\ UNCHANGED <<isFirstTime, routes, disturbed>>
Connected(t) ==
    /\ At(t, "connect")
    /\ task[t].op # "updateEmail"
    /\ GoOn(t, CASE task[t].op = "login" -> "signIn"
                 [] task[t].op = "google" -> "google"
                 [] task[t].op = "signup" -> "register"
                 [] OTHER -> "reauth")
    /\ UNCHANGED server /\ UNCHANGED session /\ UNCHANGED disturbed

-----------------------------------------------------------------------------
(* Email and password: login, sign-up.                                     *)

SignedIn(t) ==
    /\ At(t, "signIn")
    /\ account[task[t].user] # "none"
    /\ currentUser' = task[t].user
    /\ cachedVerified' = (account[task[t].user] = "verified")
    /\ GoOn(t, "syncEmail")
    /\ UNCHANGED server /\ UNCHANGED disturbed

\* updateFirestoreEmailIfNeeded has returned; it swallows its own errors.
EmailSynced(t) ==
    /\ At(t, "syncEmail")
    /\ EndInRedirect(t)
    /\ UNCHANGED server /\ UNCHANGED session /\ UNCHANGED disturbed

Registered(t) ==
    /\ At(t, "register")
    /\ account[task[t].user] = "none"
    /\ account' = [account EXCEPT ![task[t].user] = "unverified"]
    /\ currentUser' = task[t].user
    /\ cachedVerified' = FALSE
    /\ GoOn(t, "saveRecord")
    /\ UNCHANGED <<record, disturbed>>

RecordSaved(t) ==
    /\ At(t, "saveRecord")
    /\ record' = [record EXCEPT ![task[t].user] = TRUE]
    /\ task' = [task EXCEPT ![t] = Idle]
    /\ routes' = Append(StopLoading(routes), "verify")
    /\ StartTimer
    /\ UNCHANGED session
    /\ UNCHANGED <<account, isFirstTime, logout, touches, disturbed>>

-----------------------------------------------------------------------------
(* signInWithGoogle, and what its three callers do with the result.        *)

\* deleteAccount removes the record of whoever is the current user now.
DeleteAccount(t, cu) ==
    IF cu = NoUser THEN EndTask(t)
    ELSE /\ task' = [task EXCEPT ![t].pc = "removeRecord", ![t].user = cu]
         /\ UNCHANGED <<routes, isFirstTime>> /\ UNCHANGED background

\* resetEmailAddress compares the account that is signed in now with the one
\* that was when it began.
ResetEmailNext(t) ==
    EndInScreen(t, Off(StopLoading(routes),
                       IF currentUser # task[t].prior THEN "profile" ELSE "changeEmail"))

\* The user closes the account chooser, or the call ends in the catch that
\* returns null.
GoogleCancelled(t) ==
    /\ At(t, "google")
    /\ CASE task[t].op = "google" -> EndTask(t)
         [] task[t].op = "delete" -> DeleteAccount(t, currentUser)
         [] OTHER -> ResetEmailNext(t)
    /\ UNCHANGED server /\ UNCHANGED session /\ UNCHANGED disturbed

\* Firebase signs the chosen account in, and creates it if there is none.
GooglePicked(t, u) ==
    /\ At(t, "google")
    /\ account' = [account EXCEPT ![u] = "verified"]
    /\ currentUser' = u
    /\ cachedVerified' = TRUE
    /\ task' = [task EXCEPT ![t].pc = "setRecord", ![t].user = u,
                            ![t].reauthed = (u = task[t].prior), ![t].hadRecord = record[u]]
    /\ UNCHANGED background
    /\ UNCHANGED <<record, isFirstTime, routes, disturbed>>

\* The record is written with merge before the caller sees the credential.
RecordSetNot(t) ==
    /\ At(t, "setRecord")
    /\ CASE task[t].op = "google" -> GoOn(t, "isRegistered")
         [] task[t].op = "delete" -> DeleteAccount(t, currentUser)
         [] OTHER -> ResetEmailNext(t)
    /\ UNCHANGED server /\ UNCHANGED session /\ UNCHANGED disturbed
RecordSet(t) ==
    /\ At(t, "setRecord")
    /\ record' = [record EXCEPT ![task[t].user] = TRUE]
    /\ CASE task[t].op = "google" -> GoOn(t, "isRegistered")
         [] task[t].op = "delete" -> DeleteAccount(t, currentUser)
         [] OTHER -> ResetEmailNext(t)
    /\ UNCHANGED session
    /\ UNCHANGED <<account, disturbed>>

\* googleSignIn: isRegisteredEmail finds a record, or not.
RegisteredAnswered(t) ==
    /\ At(t, "isRegistered")
    /\ record[task[t].user]
    /\ EndInRedirect(t)
    /\ UNCHANGED server /\ UNCHANGED session /\ UNCHANGED disturbed

\* No record, or the query failed: the loader is closed, and deleteUser runs
\* on whoever is the current user at that moment.
NotRegistered(t) ==
    /\ At(t, "isRegistered")
    /\ ~record[task[t].user] \/ MayFail
    /\ routes' = StopLoading(routes)
    /\ task' = IF currentUser = NoUser THEN [task EXCEPT ![t] = Idle]
               ELSE [task EXCEPT ![t].pc = "deleteUser", ![t].user = currentUser]
    /\ disturbed' = TRUE
    /\ UNCHANGED server /\ UNCHANGED session /\ UNCHANGED background
    /\ UNCHANGED isFirstTime

\* currentUser after Firebase has deleted the account u.
SignedOutIf(u) ==
    /\ currentUser' = IF currentUser = u THEN NoUser ELSE currentUser
    /\ cachedVerified' = (cachedVerified /\ currentUser # u)

\* deleteUser swallows a failure.
UserDeleted(t) ==
    /\ At(t, "deleteUser")
    /\ \/ account' = [account EXCEPT ![task[t].user] = "none"] /\ SignedOutIf(task[t].user)
       \/ MayFail /\ UNCHANGED account /\ UNCHANGED session
    /\ task' = [task EXCEPT ![t] = Idle]
    /\ UNCHANGED background
    /\ UNCHANGED <<record, isFirstTime, routes, disturbed>>

-----------------------------------------------------------------------------
(* Re-authentication with a password, deletion, change of email.           *)

Reauthenticated(t) ==
    /\ At(t, "reauth")
    /\ currentUser \in PasswordUsers /\ account[currentUser] # "none"
    /\ IF task[t].op = "deletePassword"
       THEN /\ task' = [task EXCEPT ![t].pc = "removeRecord", ![t].user = currentUser,
                                    ![t].reauthed = (currentUser = task[t].prior)]
            /\ UNCHANGED <<routes, isFirstTime>> /\ UNCHANGED background
       ELSE EndInScreen(t, Off(StopLoading(routes), "changeEmail"))
    /\ UNCHANGED server /\ UNCHANGED session /\ UNCHANGED disturbed

\* removeUserRecord has returned: the account of the current user is next.
RecordRemoved(t) ==
    /\ At(t, "removeRecord")
    /\ record' = [record EXCEPT ![task[t].user] = FALSE]
    /\ IF currentUser = NoUser
       THEN EndInScreen(t, OffAll("login"))
       ELSE /\ task' = [task EXCEPT ![t].pc = "deleteAuth", ![t].user = currentUser]
            /\ UNCHANGED <<routes, isFirstTime>> /\ UNCHANGED background
    /\ UNCHANGED session
    /\ UNCHANGED <<account, disturbed>>

AuthDeleted(t) ==
    /\ At(t, "deleteAuth")
    /\ account' = [account EXCEPT ![task[t].user] = "none"]
    /\ SignedOutIf(task[t].user)
    /\ EndInScreen(t, OffAll("login"))
    /\ UNCHANGED <<record, disturbed>>

\* updateEmailAddress: the same address ends it; a new one closes the loader
\* before the await of verifyBeforeUpdateEmail.
NewEmailGiven(t) ==
    /\ AtOp(t, {"updateEmail"}, "connect")
    /\ routes' = StopLoading(routes)
    /\ task' = [task EXCEPT ![t].pc = "sending"]
    /\ UNCHANGED server /\ UNCHANGED session /\ UNCHANGED background
    /\ UNCHANGED <<isFirstTime, disturbed>>

\* The mail is sent (or nobody is signed in) and logout is called.
NewEmailSent(t) ==
    /\ At(t, "sending")
    /\ logout = "idle"
    /\ logout' = "google"
    /\ task' = [task EXCEPT ![t] = Idle]
    /\ disturbed' = (disturbed \/ \E o \in Tasks \ {t} : task[o] # Idle)
    /\ UNCHANGED server /\ UNCHANGED session
    /\ UNCHANGED <<isFirstTime, routes, timer, touches>>

\* A call throws; the catch block stops the loader and the task ends.  What
\* the task did before stays done.
HalfDone(t) == task[t].pc \in {"setRecord", "saveRecord", "deleteAuth", "sending"}
Throws(t) ==
    /\ task[t] # Idle
    /\ task[t].pc \notin {"connect", "syncEmail", "isRegistered", "deleteUser"}
    /\ \/ MayFail
       \/ task[t].pc = "signIn" /\ account[task[t].user] = "none"
       \/ task[t].pc = "register" /\ account[task[t].user] # "none"
       \/ task[t].pc = "reauth"
    /\ EndTask(t)
    /\ disturbed' = (disturbed \/ HalfDone(t))
    /\ UNCHANGED server /\ UNCHANGED session

-----------------------------------------------------------------------------
(* Beside the tasks: logout, the verify-email screen, LastActive.          *)

\* The close icon of the verify-email screen or the button in the settings.
BeginLogout ==
    /\ Top \in {"verify", "menu"}
    /\ logout = "idle"
    /\ logout' = "google"
    /\ disturbed' = (disturbed \/ Busy)
    /\ UNCHANGED server /\ UNCHANGED session
    /\ UNCHANGED <<isFirstTime, routes, task, timer, touches>>

GoogleSignedOut ==
    /\ logout = "google"
    /\ logout' = "auth"
    /\ UNCHANGED server /\ UNCHANGED session
    /\ UNCHANGED <<isFirstTime, routes, task, timer, touches, disturbed>>

SignedOut ==
    /\ logout = "auth"
    /\ logout' = "idle"
    /\ currentUser' = NoUser
    /\ cachedVerified' = FALSE
    /\ routes' = OffAll("login")
    /\ UNCHANGED server
    /\ UNCHANGED <<isFirstTime, task, timer, touches, disturbed>>

LogoutFails ==
    /\ MayFail
    /\ logout # "idle"
    /\ logout' = "idle"
    /\ UNCHANGED server /\ UNCHANGED session
    /\ UNCHANGED <<isFirstTime, routes, task, timer, touches, disturbed>>

\* The user follows the link in the mail.
EmailVerified(u) ==
    /\ account[u] = "unverified"
    /\ account' = [account EXCEPT ![u] = "verified"]
    /\ UNCHANGED session /\ UNCHANGED background
    /\ UNCHANGED <<record, isFirstTime, routes, task, disturbed>>

\* A second has passed: the timer calls reload().  It runs until a tick finds
\* a verified user; neither logout nor the end of the screen cancels it.
Tick(i) ==
    /\ timer[i].on
    /\ currentUser # NoUser
    /\ Len(timer[i].ticks) < MaxTicks
    /\ timer' = [timer EXCEPT ![i].ticks = Append(@, currentUser)]
    /\ UNCHANGED server /\ UNCHANGED session
    /\ UNCHANGED <<isFirstTime, routes, task, logout, touches, disturbed>>

\* The k-th pending reload() has returned: it has refreshed the user it was
\* called on, and the tick looks at whoever is the current user now.
TickReloadedNoReload(i, k) ==
    /\ k \in DOMAIN timer[i].ticks
    /\ timer' = [timer EXCEPT ![i] = [on |-> @.on /\ ~cachedVerified, ticks |-> RemoveAt(@.ticks, k)]]
    /\ routes' = IF cachedVerified THEN Off(routes, "success") ELSE routes
    /\ UNCHANGED server /\ UNCHANGED session
    /\ UNCHANGED <<isFirstTime, task, logout, touches, disturbed>>
TickReloadedAnyUser(i, k) ==
    /\ k \in DOMAIN timer[i].ticks
    /\ cachedVerified' = (account[timer[i].ticks[k]] = "verified")
    /\ timer' = [timer EXCEPT ![i] = [on |-> @.on /\ ~cachedVerified', ticks |-> RemoveAt(@.ticks, k)]]
    /\ routes' = IF cachedVerified' THEN Off(routes, "success") ELSE routes
    /\ disturbed' = (disturbed \/ (cachedVerified' /\ Busy))
    /\ UNCHANGED server
    /\ UNCHANGED <<currentUser, isFirstTime, task, logout, touches>>
TickReloaded(i, k) ==
    /\ k \in DOMAIN timer[i].ticks
    /\ cachedVerified' = IF currentUser = timer[i].ticks[k] THEN account[currentUser] = "verified"
                         ELSE cachedVerified
    /\ timer' = [timer EXCEPT ![i] = [on |-> @.on /\ ~cachedVerified', ticks |-> RemoveAt(@.ticks, k)]]
    /\ routes' = IF cachedVerified' THEN Off(routes, "success") ELSE routes
    /\ disturbed' = (disturbed \/ (cachedVerified' /\ Busy))
    /\ UNCHANGED server
    /\ UNCHANGED <<currentUser, isFirstTime, task, logout, touches>>

TickFails(i, k) ==
    /\ MayFail
    /\ k \in DOMAIN timer[i].ticks
    /\ timer' = [timer EXCEPT ![i].ticks = RemoveAt(@, k)]
    /\ UNCHANGED server /\ UNCHANGED session
    /\ UNCHANGED <<isFirstTime, routes, task, logout, touches, disturbed>>

\* The button of the verify-email screen: no reload here.
CheckEmailVerificationStatus ==
    /\ Top = "verify"
    /\ currentUser # NoUser /\ cachedVerified
    /\ routes' = Off(routes, "success")
    /\ UNCHANGED server /\ UNCHANGED session /\ UNCHANGED background
    /\ UNCHANGED <<isFirstTime, task, disturbed>>

\* The button of the success screen.
Continue ==
    /\ Top = "success"
    /\ ScreenRedirect
    /\ UNCHANGED server /\ UNCHANGED session
    /\ UNCHANGED <<task, logout, disturbed>>

\* update() of Firestore: it fails on a document that does not exist.
SetMerge(exists) == TRUE
UpdateDoc(exists) == exists

\* The update of LastActive arrives, whatever has happened since.
LastActiveUpdated(u) ==
    /\ u \in touches
    /\ record' = [record EXCEPT ![u] = UpdateDoc(@)]
    /\ touches' = touches \ {u}
    /\ UNCHANGED session
    /\ UNCHANGED <<account, isFirstTime, routes, task, logout, timer, disturbed>>
-----------------------------------------------------------------------------
TaskStep(t) ==
    \/ Refused(t) \/ Connected(t) \/ Throws(t)
    \/ SignedIn(t) \/ EmailSynced(t) \/ Registered(t) \/ RecordSaved(t)
    \/ GoogleCancelled(t) \/ RecordSet(t) \/ RegisteredAnswered(t) \/ NotRegistered(t)
    \/ UserDeleted(t) \/ Reauthenticated(t) \/ RecordRemoved(t) \/ AuthDeleted(t)
    \/ NewEmailGiven(t) \/ NewEmailSent(t)
    \/ \E u \in GoogleUsers : GooglePicked(t, u)

LogoutStep == GoogleSignedOut \/ SignedOut \/ LogoutFails

TickReturns(i) == \E k \in 1..MaxTicks : TickReloaded(i, k) \/ TickFails(i, k)

UserStep ==
    \/ OnboardingDone
    \/ OpenScreen("login", "signup") \/ OpenScreen("menu", "profile") \/ OpenScreen("profile", "dialog")
    \/ OpenReauthForm("reauthDelete") \/ OpenReauthForm("reauthEmail")
    \/ Back \/ Restart
    \/ \E t \in Tasks, op \in Ops, u \in PasswordUsers \cup {NoUser} : Begin(t, op, u)
    \/ BeginLogout \/ CheckEmailVerificationStatus \/ Continue
    \/ \E u \in PasswordUsers : EmailVerified(u)

Next ==
    \/ OnReady
    \/ UserStep
    \/ \E t \in Tasks : TaskStep(t)
    \/ LogoutStep
    \/ \E i \in Timers : Tick(i) \/ TickReturns(i)
    \/ \E u \in Users : LastActiveUpdated(u)

Spec == Init /\ [][Next]_vars

\* Calls in flight return and timers tick; the user need not do anything.
Fairness ==
    /\ WF_vars(OnReady) /\ WF_vars(LogoutStep)
    /\ \A t \in Tasks : WF_vars(TaskStep(t))
    /\ \A i \in Timers : WF_vars(Tick(i)) /\ WF_vars(TickReturns(i))

FairSpec == Spec /\ Fairness

-----------------------------------------------------------------------------
(* Properties that hold.                                                   *)

Has(r, s) == \E n \in DOMAIN r : r[n] = s

\* The app behind the sign-in is only shown to a signed-in user whose email
\* was verified when the app last looked, unless the history was disturbed:
\* screenRedirect is the only way in and every sign-out leaves for the login.
MenuNeedsVerified ==
    ~disturbed /\ Has(routes, "menu") => currentUser # NoUser /\ cachedVerified

\* When nothing is under way, each account has its Users document and each
\* document its account, whatever updateLastActive does late; only a task cut
\* in two leaves them apart.
RecordsMatchAccounts ==
    ~disturbed /\ ~Busy => \A u \in Users : record[u] <=> account[u] # "none"

\* The navigator always has a screen to show.
NeverBlank == ~disturbed => routes # <<>>

\* A task in flight that still has its loader.
Loading(t) == task[t] # Idle /\ task[t].pc \notin {"sending", "deleteUser"}

\* The full-screen loader, which the user cannot close, is there only while a
\* method is at work under it, and only on top: no return and no catch block
\* forgets it, and nothing is opened over it.
LoaderMeansWork ==
    ~disturbed => \A n \in DOMAIN routes : routes[n] = "loader" =>
        n = Len(routes) /\ \E t \in Tasks : Loading(t)

\* A record is written or removed, and an account deleted, only for the user
\* who is signed in at that moment, although each method looked him up some
\* awaits before.
OwnDataOnly ==
    [][~disturbed' => \A u \in Users :
          record'[u] # record[u] \/ (account'[u] = "none" /\ account[u] # "none")
              => u = currentUser]_vars

\* Who deletes his account with his password has signed in again before his
\* record goes, and the record and the account are his own.
PasswordDeletesOwn ==
    [][~disturbed' => \A t \in Tasks :
          task[t] # Idle /\ task[t].op = "deletePassword" /\ (RecordRemoved(t) \/ AuthDeleted(t))
              => task[t].user = task[t].prior /\ task[t].reauthed]_vars

\* Whether a Google account is registered is asked when its record has been
\* written: only a failing query can answer no.
RegisteredBeforeAsked ==
    ~disturbed => \A t \in Tasks : At(t, "isRegistered") => record[task[t].user]

\* The menu is opened only for a signed-in user whose email is verified in
\* Firebase, whatever timers of earlier sessions and late reload() calls do.
MenuOpensForVerified ==
    [][Has(routes', "menu") /\ ~Has(routes, "menu")
          => currentUser # NoUser /\ account[currentUser] = "verified"]_vars

\* Once the mail of the current user is verified, the verify-email screen
\* goes away by itself, when reload() does not fail.
VerifiedMovesOn ==
    (Top = "verify" /\ currentUser # NoUser /\ account[currentUser] = "verified")
        ~> Top # "verify"

\* The full-screen loader, which the user cannot close, is closed.
LoaderCloses == (Top = "loader") ~> (Top # "loader")

-----------------------------------------------------------------------------
(* Properties that what the repository says suggests and the code breaks.  *)

\* "First Re-authenticate user", "your user account will be removed
\* permanently": the record that a deletion removes is that of the user who
\* asked for it, and who has signed in again since.
DeletesOwnAccount ==
    [][\A t \in Tasks : RecordRemoved(t) => task[t].user = task[t].prior /\ task[t].reauthed]_vars

\* "check if the email is registered": Google sign-in does not delete an
\* account that is registered.
RegisteredNotDeleted ==
    [][\A t \in Tasks : UserDeleted(t) /\ task[t].hadRecord
          => account'[task[t].user] = account[task[t].user]]_vars

-----------------------------------------------------------------------------
(* The inductive invariant behind MenuNeedsVerified, RecordsMatchAccounts   *)
(* and NeverBlank, in parts.                                                *)

Bottom(r) == IF r = <<>> THEN "blank" ELSE r[1]

\* Where a task may stand depends on its method.
AwaitsOfOp ==
    \A t \in Tasks : task[t] # Idle =>
        /\ task[t].pc \in {"signIn", "syncEmail"} => task[t].op = "login"
        /\ task[t].pc \in {"register", "saveRecord"} => task[t].op = "signup"
        /\ task[t].pc \in {"isRegistered", "deleteUser"} => task[t].op = "google"
        /\ task[t].pc = "sending" => task[t].op = "updateEmail"
        /\ task[t].op \in {"login", "signup"} => task[t].user \in Users
        /\ task[t].pc \in {"setRecord", "removeRecord", "deleteAuth", "deleteUser"} => task[t].user \in Users

\* What the app has cached as verified is verified.
CacheIsTrue ==
    /\ cachedVerified => currentUser # NoUser
    /\ cachedVerified => account[currentUser] = "verified"

\* A logout or a deletion after Google sign-in beside a task is recorded.
MeetingsRecorded ==
    /\ logout # "idle" /\ Busy => disturbed
    /\ \A t \in Tasks : task[t] # Idle /\ task[t].pc = "deleteUser" => disturbed

\* The loader on top belongs to the one task that is loading.
LoaderOnTop ==
    ~disturbed => \A t \in Tasks : Loading(t) =>
        /\ Top = "loader"
        /\ \A o \in Tasks : Loading(o) => o = t

\* The screens of the menu and those of the sign-in are never on one stack,
\* and a sign-in works outside of the menu.
SignInOutsideMenu ==
    ~disturbed =>
        /\ ~(Has(routes, "menu") /\ (Has(routes, "login") \/ Has(routes, "signup")))
        /\ \A t \in Tasks : task[t] # Idle /\ task[t].op \in SignIns => ~Has(routes, "menu")

\* Below the loader there is a screen.
ScreenBelow == ~disturbed => Bottom(routes) \notin {"blank", "loader"}

\* Account and record differ only for the account of a task between its two
\* writes, which will make the second of them.
RecordOwed ==
    ~disturbed =>
        /\ \A t \in Tasks : task[t] # Idle =>
              /\ task[t].pc \in {"setRecord", "saveRecord"} => account[task[t].user] # "none"
              /\ task[t].pc = "removeRecord" => task[t].user = currentUser
              /\ task[t].pc = "deleteAuth" => ~record[task[t].user]
        /\ \A u \in Users : (record[u] <=> account[u] # "none")
              \/ \E t \in Tasks : /\ task[t] # Idle
                                 /\ task[t].pc \in {"setRecord", "saveRecord", "deleteAuth"}
                                 /\ task[t].user = u

\* A method still works for the session it found; one that deletes with a
\* password has the session it began in, and has seen its password.
SessionHeld ==
    ~disturbed => \A t \in Tasks : Loading(t) =>
        /\ task[t].pc \in {"syncEmail", "setRecord", "isRegistered", "saveRecord",
                           "removeRecord", "deleteAuth"} => task[t].user = currentUser
        /\ task[t].op = "deletePassword" =>
              /\ task[t].pc \in {"connect", "reauth", "removeRecord", "deleteAuth"}
              /\ task[t].prior = currentUser
              /\ task[t].pc \in {"removeRecord", "deleteAuth"} => task[t].reauthed
        /\ task[t].pc = "isRegistered" => record[task[t].user]

SessionInv ==
    /\ TypeOK
    /\ AwaitsOfOp
    /\ CacheIsTrue
    /\ MeetingsRecorded
    /\ LoaderOnTop
    /\ SignInOutsideMenu
    /\ ScreenBelow
    /\ MenuNeedsVerified
    /\ RecordOwed
=============================================================================
