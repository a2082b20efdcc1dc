------------------------ MODULE AccountSessionProofs ------------------------
(***************************************************************************)
(* Theorems about Account that need to know what happens under a loader:    *)
(* a loader has its task, the task works for the session it found, so that  *)
(* it touches nobody else's data, and the menu opens for verified users.    *)
(***************************************************************************)
EXTENDS AccountProofs

-----------------------------------------------------------------------------
(* The loader.                                                             *)

\* A loader is only on top.
OnlyTop(r) == \A n \in DOMAIN r : r[n] = "loader" => n = Len(r)

\* Navigator.pop takes the loader away if it is only on top, and a stack with
\* another screen on top has none.
LEMMA PopsLoader ==
    ASSUME NEW r \in Seq(Screens), OnlyTop(r)
    PROVE  /\ ~Has(Pop(r), "loader")
           /\ TopOf(r) # "loader" => ~Has(r, "loader")
<1>1. ~Has(Pop(r), "loader")
  <2>1. CASE r = <<>>
    BY <2>1 DEF Pop, Has
  <2>2. CASE r # <<>>
    <3>1. Pop(r) = SubSeq(r, 1, Len(r) - 1)
      BY <2>2 DEF Pop
    <3>2. \A n \in DOMAIN Pop(r) : n \in DOMAIN r /\ Pop(r)[n] = r[n] /\ n # Len(r)
      BY <3>1
    <3> QED BY <3>2 DEF Has, OnlyTop
  <2> QED BY <2>1, <2>2
<1>2. TopOf(r) # "loader" => ~Has(r, "loader")
  BY DEF TopOf, Has, OnlyTop
<1> QED BY <1>1, <1>2

\* FullScreenLoader puts one loader on a stack that has none.
LEMMA OneLoader ==
    ASSUME NEW r \in Seq(Screens), ~Has(r, "loader")
    PROVE  OnlyTop(Append(r, "loader"))
<1>1. "loader" \in Screens
  BY DEF Screens
<1>2. \A n \in DOMAIN Append(r, "loader") : n # Len(Append(r, "loader")) =>
         n \in DOMAIN r /\ Append(r, "loader")[n] = r[n]
  BY <1>1
<1> QED BY <1>2 DEF OnlyTop, Has

\* A loader, if there is one, is on top and has a task.
LoaderHeld == OnlyTop(routes) /\ (Has(routes, "loader") => \E t \in Tasks : Loading(t))

LEMMA LoaderMeaning == LoaderMeansWork <=> (~disturbed => LoaderHeld)
BY DEF LoaderMeansWork, LoaderHeld, OnlyTop, Has

\* A stack without a loader is in order.
LEMMA NoLoaderHeld ==
    ASSUME ~Has(routes', "loader")
    PROVE  LoaderHeld'
BY DEF LoaderHeld, OnlyTop, Has

\* A step of a task closes its loader or goes on under it.
LEMMA TaskLoaderStep ==
    ASSUME TypeOK, AwaitsOfOp, MeetingsRecorded, StackInv, LoaderHeld,
           NEW t \in Tasks, TaskStep(t), ~disturbed, ~disturbed'
    PROVE  LoaderHeld'
<1>0. /\ routes \in Seq(Screens) /\ Pop(routes) \in Seq(Screens)
      /\ ~Has(Pop(routes), "loader")
  BY PopType, PopsLoader DEF TypeOK, LoaderHeld
<1>1. CASE NewEmailSent(t)
  <2>1. routes' = routes /\ task[t].pc = "sending" /\ \A o \in Tasks \ {t} : task[o] = Idle
    BY <1>1 DEF NewEmailSent, At
  <2>2. ~Has(routes, "loader")
    BY <2>1 DEF LoaderHeld, Loading
  <2> QED BY <2>1, <2>2, NoLoaderHeld
<1>2. CASE Shape(t)
  <2>1. \A x \in Screens \ {"loader"} :
           /\ ~Has(OffAll(x), "loader")
           /\ ~Has(Append(Pop(routes), x), "loader")
           /\ ~Has(Off(Pop(routes), x), "loader")
    BY <1>0, OffAllFacts, AppendFacts, OffFacts
  <2>2. {Landing, "login", "verify", "profile", "changeEmail"} \subseteq Screens \ {"loader"}
    BY DEF Landing, Screens
  <2>3. CASE GoesOn(t)
    <3>1. routes' = routes /\ Loading(t)'
      BY <2>3 DEF GoesOn
    <3> QED BY <3>1 DEF LoaderHeld
  <2>4. CASE ~GoesOn(t)
    <3>1. ~Has(routes', "loader")
      BY <1>0, <1>2, <2>1, <2>2, <2>4 DEF Shape, Ends
    <3> QED BY <3>1, NoLoaderHeld
  <2> QED BY <2>3, <2>4
<1> QED BY <1>1, <1>2, TaskShapes

\* Every step keeps the loader with its task.
LEMMA LoaderStep == SessionInv /\ LoaderMeansWork /\ [Next]_vars => LoaderMeansWork'
<1> SUFFICES ASSUME SessionInv, LoaderMeansWork, [Next]_vars, ~disturbed'
             PROVE  LoaderHeld'
  BY LoaderMeaning DEF LoaderMeansWork, LoaderHeld, OnlyTop, Has
<1>0. /\ ~disturbed /\ LoaderHeld
      /\ TypeOK /\ AwaitsOfOp /\ MeetingsRecorded /\ StackInv
      /\ routes \in Seq(Screens)
      /\ task \in [Tasks -> {Idle} \cup TaskRecords]
  BY DisturbedStays, LoaderMeaning DEF SessionInv, StackInv, TypeOK
<1>1. Top # "loader" => ~Has(routes, "loader")
  BY <1>0, PopsLoader DEF LoaderHeld, Top
<1>2. ~Busy => ~Has(routes, "loader")
  BY <1>0 DEF LoaderHeld, Loading, Busy
<1>3. \A x \in Screens \ {"loader"} : ~Has(OffAll(x), "loader")
  BY OffAllFacts
<1>4. ASSUME ~Has(routes, "loader")
      PROVE  /\ ~Has(Pop(routes), "loader")
             /\ \A x \in Screens \ {"loader"} :
                   ~Has(Append(routes, x), "loader") /\ ~Has(Off(routes, x), "loader")
  BY <1>0, <1>4, PopFacts, AppendFacts, OffFacts
<1>5. {Landing, "login", "signup", "splash", "profile", "dialog", "reauthDelete", "reauthEmail",
       "success"} \subseteq Screens \ {"loader"}
  BY DEF Landing, Screens
<1>6. ASSUME UNCHANGED <<routes, task>>
      PROVE  LoaderHeld'
  BY <1>0, <1>6 DEF LoaderHeld, Loading
<1>7. CASE OnReady \/ Continue \/ OnboardingDone \/ SignedOut
  BY <1>3, <1>5, <1>7, NoLoaderHeld DEF OnReady, Continue, OnboardingDone, SignedOut, ScreenRedirect
<1>8. CASE Restart
  <2>1. routes' = OffAll("splash")
    BY <1>8 DEF Restart, OffAll
  <2> QED BY <1>3, <1>5, <2>1, NoLoaderHeld
<1>9. CASE OpenScreen("login", "signup") \/ OpenScreen("menu", "profile") \/ OpenScreen("profile", "dialog")
  <2>1. Top # "loader" /\ \E x \in {"signup", "profile", "dialog"} : routes' = Append(routes, x)
    BY <1>9 DEF OpenScreen
  <2> QED BY <1>1, <1>4, <1>5, <2>1, NoLoaderHeld
<1>10. CASE OpenReauthForm("reauthDelete") \/ OpenReauthForm("reauthEmail")
  <2>1. Top # "loader" /\ \E x \in {"reauthDelete", "reauthEmail"} : routes' = Append(routes, x)
    BY <1>10 DEF OpenReauthForm
  <2> QED BY <1>1, <1>4, <1>5, <2>1, NoLoaderHeld
<1>11. CASE Back
  BY <1>1, <1>4, <1>11, NoLoaderHeld DEF Back
<1>12. CASE CheckEmailVerificationStatus
  BY <1>1, <1>4, <1>5, <1>12, NoLoaderHeld DEF CheckEmailVerificationStatus
<1>13. ASSUME NEW t \in Tasks, NEW op \in Ops, NEW u \in PasswordUsers \cup {NoUser}, Begin(t, op, u)
       PROVE  LoaderHeld'
  <2>1. Top = CalledFrom[op] /\ routes' = Append(routes, "loader")
    BY <1>13 DEF Begin
  <2>2. ~Has(routes, "loader")
    BY <1>1, <2>1 DEF CalledFrom, Ops
  <2>3. task'[t] # Idle /\ task'[t].pc \in {"google", "connect"}
    BY <1>0, <1>13 DEF Begin, Idle
  <2>4. OnlyTop(routes')
    BY <1>0, <2>1, <2>2, OneLoader
  <2> QED BY <2>3, <2>4 DEF LoaderHeld, Loading
<1>14. ASSUME NEW i \in Timers, NEW k, TickReloaded(i, k)
       PROVE  LoaderHeld'
  <2>1. CASE cachedVerified'
    <3>1. ~Busy /\ routes' = Off(routes, "success")
      BY <1>14, <2>1 DEF TickReloaded
    <3> QED BY <1>2, <1>4, <1>5, <3>1, NoLoaderHeld
  <2>2. CASE ~cachedVerified'
    BY <1>6, <1>14, <2>2 DEF TickReloaded
  <2> QED BY <2>1, <2>2
<1>15. CASE \E t \in Tasks : TaskStep(t)
  BY <1>0, <1>15, TaskLoaderStep
<1>16. CASE UserStep
  <2>1. CASE BeginLogout \/ \E u \in PasswordUsers : EmailVerified(u)
    BY <1>6, <2>1 DEF BeginLogout, EmailVerified
  <2> QED BY <1>7, <1>8, <1>9, <1>10, <1>11, <1>12, <1>13, <1>16, <2>1 DEF UserStep
<1>17. CASE LogoutStep
  BY <1>6, <1>7, <1>17 DEF LogoutStep, GoogleSignedOut, LogoutFails
<1>18. CASE \E i \in Timers : Tick(i) \/ TickReturns(i)
  BY <1>6, <1>14, <1>18 DEF Tick, TickReturns, TickFails
<1>19. CASE \E u \in Users : LastActiveUpdated(u)
  BY <1>6, <1>19 DEF LastActiveUpdated
<1>20. CASE UNCHANGED vars
  BY <1>6, <1>20 DEF vars
<1> QED BY <1>7, <1>15, <1>16, <1>17, <1>18, <1>19, <1>20 DEF Next

\* The full-screen loader is there only while a controller method works under
\* it: stopLoading is missing on no path, until a task is disturbed.
THEOREM LoadersHaveTasks == Spec => []LoaderMeansWork
<1>1. Init => LoaderMeansWork
  <2> SUFFICES ASSUME Init PROVE ~Has(routes, "loader")
    BY DEF LoaderMeansWork, Has
  <2>1. routes = OffAll("splash") /\ "splash" \in Screens
    BY DEF Init, OffAll, Screens
  <2> QED BY <2>1, OffAllFacts
<1>2. SessionInv /\ LoaderMeansWork /\ [Next]_vars => LoaderMeansWork'
  BY LoaderStep
<1> QED BY <1>1, <1>2, SessionInvariant, PTL DEF Spec

-----------------------------------------------------------------------------
(* The session of a task.                                                  *)

\* What SessionHeld says of one task.
Holds(t) ==
    Loading(t) =>
        /\ task[t].pc \in {"syncEmail", "setRecord", "isRegistered", "saveRecord",
                           "removeRecord", "deleteAuth"} => task[t].user = currentUser
        /\ task[t].op = "deletePassword" =>
              /\ task[t].pc \in {"connect", "reauth", "removeRecord", "deleteAuth"}
              /\ task[t].prior = currentUser
              /\ task[t].pc \in {"removeRecord", "deleteAuth"} => task[t].reauthed
        /\ task[t].pc = "isRegistered" => record[task[t].user]

LEMMA HeldMeaning == SessionHeld <=> (~disturbed => \A t \in Tasks : Holds(t))
BY DEF SessionHeld, Holds

\* A step of a task keeps the session it relies on.
LEMMA TaskHolds ==
    ASSUME TypeOK, AwaitsOfOp, MeetingsRecorded, NEW t \in Tasks, TaskStep(t), Holds(t),
           ~disturbed, ~disturbed'
    PROVE  Holds(t)'
<1>0. /\ task \in [Tasks -> {Idle} \cup TaskRecords] /\ task[t] \in TaskRecords /\ task[t] # Idle
      /\ record \in [Users -> BOOLEAN]
      /\ currentUser \in Users \cup {NoUser}
      /\ GoogleUsers \subseteq Users
  BY OwnSlotOnly DEF TypeOK, Users
<1>1. ASSUME task' = [task EXCEPT ![t] = Idle]
      PROVE  Holds(t)'
  BY <1>0, <1>1 DEF Holds, Loading
<1>2. CASE Refused(t) \/ Throws(t)
  BY <1>1, <1>2 DEF Refused, Throws, EndTask
<1>3. CASE EmailSynced(t) \/ RegisteredAnswered(t)
  BY <1>1, <1>3 DEF EmailSynced, RegisteredAnswered, EndInRedirect
<1>4. CASE RecordSaved(t) \/ AuthDeleted(t) \/ NewEmailSent(t)
  BY <1>1, <1>4 DEF RecordSaved, AuthDeleted, EndInScreen, NewEmailSent
<1>5. CASE Connected(t)
  <2> DEFINE pc == CASE task[t].op = "login" -> "signIn"
                     [] task[t].op = "google" -> "google"
                     [] task[t].op = "signup" -> "register"
                     [] OTHER -> "reauth"
  <2>1. task' = [task EXCEPT ![t].pc = pc] /\ currentUser' = currentUser
    BY <1>5 DEF Connected, GoOn, session
  <2>2. pc \in {"signIn", "google", "register", "reauth"} /\ (task[t].op = "deletePassword" => pc = "reauth")
    OBVIOUS
  <2> HIDE DEF pc
  <2>3. task'[t].pc = pc /\ task'[t].op = task[t].op /\ task'[t].prior = task[t].prior
    BY <1>0, <2>1 DEF TaskRecords
  <2>4. Loading(t)
    BY <1>5 DEF Connected, At, Loading
  <2> QED BY <2>1, <2>2, <2>3, <2>4 DEF Holds
<1>6. CASE SignedIn(t) \/ Registered(t)
  <2>1. /\ task[t].op \in {"login", "signup"} /\ currentUser' = task[t].user
        /\ \E pc \in {"syncEmail", "saveRecord"} : task' = [task EXCEPT ![t].pc = pc]
    BY <1>0, <1>6 DEF SignedIn, Registered, At, GoOn, AwaitsOfOp
  <2>2. /\ task'[t].pc \in {"syncEmail", "saveRecord"} /\ task'[t].op = task[t].op
        /\ task'[t].user = task[t].user
    BY <1>0, <2>1 DEF TaskRecords
  <2> QED BY <2>1, <2>2 DEF Holds
<1>7. ASSUME DeleteAccount(t, currentUser), currentUser' = currentUser, task[t].op # "deletePassword"
      PROVE  Holds(t)'
  <2>1. CASE currentUser = NoUser
    BY <1>1, <1>7, <2>1 DEF DeleteAccount, EndTask
  <2>2. CASE currentUser # NoUser
    <3>1. task' = [task EXCEPT ![t].pc = "removeRecord", ![t].user = currentUser]
      BY <1>7, <2>2 DEF DeleteAccount
    <3>2. task'[t].pc = "removeRecord" /\ task'[t].user = currentUser /\ task'[t].op = task[t].op
      BY <1>0, <3>1 DEF TaskRecords
    <3> QED BY <1>7, <3>2 DEF Holds
  <2> QED BY <2>1, <2>2
<1>8. CASE GoogleCancelled(t)
  <2>1. Loading(t) /\ task[t].pc = "google" /\ currentUser' = currentUser
    BY <1>8 DEF GoogleCancelled, At, Loading, session
  <2>2. task[t].op # "deletePassword"
    BY <2>1 DEF Holds
  <2>3. EndTask(t) \/ DeleteAccount(t, currentUser) \/ ResetEmailNext(t)
    BY <1>8 DEF GoogleCancelled
  <2> QED BY <1>1, <1>7, <2>1, <2>2, <2>3 DEF EndTask, ResetEmailNext, EndInScreen
<1>9. CASE RecordSet(t)
  <2>1. /\ Loading(t) /\ task[t].pc = "setRecord" /\ currentUser' = currentUser
        /\ record' = [record EXCEPT ![task[t].user] = TRUE]
    BY <1>9 DEF RecordSet, At, Loading, session
  <2>2. task[t].op # "deletePassword" /\ task[t].user = currentUser /\ task[t].user \in Users
    BY <1>0, <2>1 DEF Holds, AwaitsOfOp
  <2>3. GoOn(t, "isRegistered") \/ DeleteAccount(t, currentUser) \/ ResetEmailNext(t)
    BY <1>9 DEF RecordSet
  <2>4. CASE GoOn(t, "isRegistered")
    <3>1. task' = [task EXCEPT ![t].pc = "isRegistered"]
      BY <2>4 DEF GoOn
    <3>2. task'[t].pc = "isRegistered" /\ task'[t].user = task[t].user /\ task'[t].op = task[t].op
      BY <1>0, <3>1 DEF TaskRecords
    <3>3. record'[task[t].user]
      BY <1>0, <2>1, <2>2
    <3> QED BY <2>1, <2>2, <3>2, <3>3 DEF Holds
  <2> QED BY <1>1, <1>7, <2>1, <2>2, <2>3, <2>4 DEF ResetEmailNext, EndInScreen
<1>10. CASE NotRegistered(t)
  BY <1>10 DEF NotRegistered
<1>11. CASE UserDeleted(t)
  BY <1>11 DEF UserDeleted, At, MeetingsRecorded
<1>12. CASE Reauthenticated(t)
  <2>1. CASE task[t].op = "deletePassword"
    <3>1. /\ task' = [task EXCEPT ![t].pc = "removeRecord", ![t].user = currentUser,
                                  ![t].reauthed = (currentUser = task[t].prior)]
          /\ currentUser' = currentUser /\ Loading(t)
      BY <1>12, <2>1 DEF Reauthenticated, At, Loading, session
    <3>2. /\ task'[t].pc = "removeRecord" /\ task'[t].user = currentUser
          /\ task'[t].prior = task[t].prior /\ task'[t].reauthed = (currentUser = task[t].prior)
      BY <1>0, <3>1 DEF TaskRecords
    <3>3. task[t].prior = currentUser
      BY <2>1, <3>1 DEF Holds
    <3> QED BY <3>1, <3>2, <3>3 DEF Holds
  <2>2. CASE task[t].op # "deletePassword"
    BY <1>1, <1>12, <2>2 DEF Reauthenticated, EndInScreen
  <2> QED BY <2>1, <2>2
<1>13. CASE RecordRemoved(t)
  <2>1. CASE currentUser = NoUser
    BY <1>1, <1>13, <2>1 DEF RecordRemoved, EndInScreen
  <2>2. CASE currentUser # NoUser
    <3>1. /\ task' = [task EXCEPT ![t].pc = "deleteAuth", ![t].user = currentUser]
          /\ currentUser' = currentUser /\ Loading(t) /\ task[t].pc = "removeRecord"
      BY <1>13, <2>2 DEF RecordRemoved, At, Loading, session
    <3>2. /\ task'[t].pc = "deleteAuth" /\ task'[t].user = currentUser /\ task'[t].op = task[t].op
          /\ task'[t].prior = task[t].prior /\ task'[t].reauthed = task[t].reauthed
      BY <1>0, <3>1 DEF TaskRecords
    <3> QED BY <3>1, <3>2 DEF Holds
  <2> QED BY <2>1, <2>2
<1>14. CASE NewEmailGiven(t)
  <2>1. task'[t].pc = "sending"
    BY <1>0, <1>14 DEF NewEmailGiven, TaskRecords
  <2> QED BY <2>1 DEF Holds, Loading
<1>15. CASE \E u \in GoogleUsers : GooglePicked(t, u)
  <2> PICK u \in GoogleUsers : GooglePicked(t, u)
    BY <1>15
  <2>1. Loading(t) /\ task[t].pc = "google" /\ currentUser' = u
    BY DEF GooglePicked, At, Loading
  <2>2. task[t].op # "deletePassword"
    BY <2>1 DEF Holds
  <2>3. task'[t].pc = "setRecord" /\ task'[t].user = u /\ task'[t].op = task[t].op
    BY <1>0 DEF GooglePicked, TaskRecords
  <2> QED BY <2>1, <2>2, <2>3 DEF Holds
<1> QED
  BY <1>2, <1>3, <1>4, <1>5, <1>6, <1>8, <1>9, <1>10, <1>11, <1>12, <1>13, <1>14, <1>15 DEF TaskStep

\* Every step keeps the session of the tasks that are loading.
LEMMA HeldStep == SessionInv /\ SessionHeld /\ [Next]_vars => SessionHeld'
<1> SUFFICES ASSUME SessionInv, SessionHeld, [Next]_vars, ~disturbed', NEW t \in Tasks
             PROVE  Holds(t)'
  BY DEF SessionHeld, Holds
<1>0. /\ ~disturbed /\ \A o \in Tasks : Holds(o)
      /\ TypeOK /\ AwaitsOfOp /\ MeetingsRecorded /\ StackInv
      /\ task \in [Tasks -> {Idle} \cup TaskRecords]
      /\ record \in [Users -> BOOLEAN]
  BY DisturbedStays, HeldMeaning DEF SessionInv, StackInv, TypeOK
<1>1. ASSUME NEW o \in Tasks, TaskStep(o)
      PROVE  Holds(t)'
  <2>1. CASE t = o
    BY <1>0, <1>1, <2>1, TaskHolds
  <2>2. CASE t # o
    <3>1. task'[t] = task[t]
      BY <1>0, <1>1, <2>2, OwnSlotOnly
    <3>2. CASE Loading(o)
      <4>1. ~Loading(t)
        BY <1>0, <2>2, <3>2, LoadingAlone
      <4> QED BY <3>1, <4>1 DEF Holds, Loading
    <3>3. CASE NewEmailSent(o)
      <4>1. task[t] = Idle
        BY <2>2, <3>3 DEF NewEmailSent
      <4> QED BY <3>1, <4>1 DEF Holds, Loading
    <3> QED BY <1>0, <1>1, <3>2, <3>3, TaskShapes
  <2> QED BY <2>1, <2>2
<1>2. ASSUME NEW o \in Tasks, NEW op \in Ops, NEW u \in PasswordUsers \cup {NoUser}, Begin(o, op, u)
      PROVE  Holds(t)'
  <2>1. /\ UNCHANGED <<record, currentUser>>
        /\ t # o => task'[t] = task[t]
        /\ task'[o].op = op /\ task'[o].prior = currentUser
        /\ task'[o].pc = IF op \in {"delete", "resetEmail"} THEN "google" ELSE "connect"
    BY <1>0, <1>2 DEF Begin, server, session
  <2>2. CASE t = o
    BY <2>1, <2>2 DEF Holds
  <2>3. CASE t # o
    BY <1>0, <2>1, <2>3 DEF Holds, Loading
  <2> QED BY <2>2, <2>3
<1>3. CASE Restart
  BY <1>3 DEF Restart, Holds, Loading
<1>4. ASSUME ~Busy, UNCHANGED task
      PROVE  Holds(t)'
  BY <1>4 DEF Busy, Holds, Loading
<1>5. ASSUME UNCHANGED <<task, record, currentUser>>
      PROVE  Holds(t)'
  BY <1>0, <1>5 DEF Holds, Loading
<1>6. CASE SignedOut
  BY <1>0, <1>4, <1>6 DEF SignedOut, MeetingsRecorded
<1>7. CASE \E u \in Users : LastActiveUpdated(u)
  <2>1. record' = record
    BY <1>0, <1>7 DEF LastActiveUpdated, UpdateDoc
  <2> QED BY <1>5, <1>7, <2>1 DEF LastActiveUpdated, session
<1>8. CASE OnReady \/ Continue \/ OnboardingDone \/ Back \/ BeginLogout \/ CheckEmailVerificationStatus
  BY <1>5, <1>8 DEF OnReady, Continue, OnboardingDone, Back, BeginLogout, CheckEmailVerificationStatus,
                    server, session
<1>9. CASE OpenReauthForm("reauthDelete") \/ OpenReauthForm("reauthEmail") \/ OpenScreen("login", "signup")
           \/ OpenScreen("menu", "profile") \/ OpenScreen("profile", "dialog")
           \/ \E u \in PasswordUsers : EmailVerified(u)
  BY <1>5, <1>9 DEF OpenReauthForm, OpenScreen, EmailVerified, server, session
<1>10. CASE LogoutStep
  BY <1>5, <1>6, <1>10 DEF LogoutStep, GoogleSignedOut, LogoutFails, server, session
<1>11. CASE \E i \in Timers : Tick(i) \/ TickReturns(i)
  BY <1>5, <1>11 DEF Tick, TickReturns, TickReloaded, TickFails, server, session
<1>12. CASE UNCHANGED vars
  BY <1>5, <1>12 DEF vars
<1> QED BY <1>1, <1>2, <1>3, <1>7, <1>8, <1>9, <1>10, <1>11, <1>12 DEF Next, UserStep

\* A controller method keeps the session it found under its loader, and a
\* deletion with a password has that of its user throughout.
THEOREM SessionIsHeld == Spec => []SessionHeld
<1>1. Init => SessionHeld
  BY DEF Init, SessionHeld, Loading
<1>2. SessionInv /\ SessionHeld /\ [Next]_vars => SessionHeld'
  BY HeldStep
<1> QED BY <1>1, <1>2, SessionInvariant, PTL DEF Spec

\* signInWithGoogle has written the record when isRegisteredEmail looks for it.
THEOREM AskedWhenRegistered == Spec => []RegisteredBeforeAsked
<1>1. SessionHeld => RegisteredBeforeAsked
  BY DEF SessionHeld, RegisteredBeforeAsked, At, Loading
<1> QED BY <1>1, SessionIsHeld, PTL

\* reAuthenticateEmailAndPasswordForDeletion removes the record and the account
\* of the user who asked for it and gave his password, unless disturbed.
THEOREM OwnAccountByPassword == Spec => PasswordDeletesOwn
<1>1. SessionInv /\ SessionHeld /\ [Next]_vars =>
        [~disturbed' => \A t \in Tasks :
           task[t] # Idle /\ task[t].op = "deletePassword" /\ (RecordRemoved(t) \/ AuthDeleted(t))
               => task[t].user = task[t].prior /\ task[t].reauthed]_vars
  <2> SUFFICES ASSUME SessionInv, SessionHeld, [Next]_vars, ~disturbed', NEW t \in Tasks,
                      task[t] # Idle, task[t].op = "deletePassword", RecordRemoved(t) \/ AuthDeleted(t)
               PROVE  task[t].user = task[t].prior /\ task[t].reauthed
    OBVIOUS
  <2>1. ~disturbed
    BY DisturbedStays DEF SessionInv
  <2>2. task[t].pc \in {"removeRecord", "deleteAuth"} /\ Loading(t)
    BY DEF RecordRemoved, AuthDeleted, At, Loading
  <2> QED BY <2>1, <2>2 DEF SessionHeld
<1> QED BY <1>1, SessionInvariant, SessionIsHeld, PTL DEF Spec, PasswordDeletesOwn

\* An undisturbed step of a task writes or removes only the record of the
\* current user, and deletes only his account.
LEMMA TaskOwnData ==
    ASSUME TypeOK, AwaitsOfOp, MeetingsRecorded, NEW t \in Tasks, TaskStep(t), Holds(t), ~disturbed, ~disturbed',
           NEW u \in Users, record'[u] # record[u] \/ (account'[u] = "none" /\ account[u] # "none")
    PROVE  u = currentUser
<1>0. /\ record \in [Users -> BOOLEAN] /\ account \in [Users -> {"none", "unverified", "verified"}]
      /\ GoogleUsers \subseteq Users
  BY DEF TypeOK, Users
<1>1. CASE UNCHANGED server
  BY <1>1 DEF server
<1>2. CASE RecordSaved(t) \/ RecordSet(t) \/ RecordRemoved(t)
  <2>1. /\ Loading(t) /\ task[t].pc \in {"saveRecord", "setRecord", "removeRecord"}
        /\ UNCHANGED account
        /\ \E b \in BOOLEAN : record' = [record EXCEPT ![task[t].user] = b]
    BY <1>2 DEF RecordSaved, RecordSet, RecordRemoved, At, Loading
  <2>2. task[t].user = currentUser
    BY <2>1 DEF Holds
  <2>3. u = task[t].user
    BY <1>0, <2>1
  <2> QED BY <2>2, <2>3
<1>3. CASE AuthDeleted(t)
  <2>1. /\ Loading(t) /\ task[t].pc = "deleteAuth" /\ UNCHANGED record
        /\ account' = [account EXCEPT ![task[t].user] = "none"]
    BY <1>3 DEF AuthDeleted, At, Loading
  <2>2. task[t].user = currentUser
    BY <2>1 DEF Holds
  <2>3. u = task[t].user
    BY <1>0, <2>1
  <2> QED BY <2>2, <2>3
<1>4. CASE Registered(t) \/ \E w \in GoogleUsers : GooglePicked(t, w)
  <2>1. UNCHANGED record /\ \E w, s : s # "none" /\ account' = [account EXCEPT ![w] = s]
    BY <1>4 DEF Registered, GooglePicked
  <2> QED BY <1>0, <2>1
<1>5. CASE UserDeleted(t)
  BY <1>5 DEF UserDeleted, At, MeetingsRecorded
<1> QED
  BY <1>1, <1>2, <1>3, <1>4, <1>5 DEF TaskStep, Refused, Connected, Throws, SignedIn, EmailSynced,
     GoogleCancelled, RegisteredAnswered, NotRegistered, Reauthenticated, NewEmailGiven, NewEmailSent

\* Only the record of the user who is signed in is written or removed, and only
\* his account is deleted, whatever each method looked up before its awaits.
THEOREM OnlyOwnData == Spec => OwnDataOnly
<1>1. SessionInv /\ SessionHeld /\ [Next]_vars =>
        [~disturbed' => \A u \in Users :
           record'[u] # record[u] \/ (account'[u] = "none" /\ account[u] # "none")
               => u = currentUser]_vars
  <2> SUFFICES ASSUME SessionInv, SessionHeld, [Next]_vars, ~disturbed', NEW u \in Users,
                      record'[u] # record[u] \/ (account'[u] = "none" /\ account[u] # "none")
               PROVE  u = currentUser
    OBVIOUS
  <2>0. /\ ~disturbed /\ \A o \in Tasks : Holds(o)
        /\ TypeOK /\ AwaitsOfOp /\ MeetingsRecorded
        /\ record \in [Users -> BOOLEAN] /\ account \in [Users -> {"none", "unverified", "verified"}]
    BY DisturbedStays, HeldMeaning DEF SessionInv, TypeOK
  <2>1. CASE \E t \in Tasks : TaskStep(t)
    BY <2>0, <2>1, TaskOwnData
  <2>2. CASE UNCHANGED server
    BY <2>2 DEF server
  <2>3. CASE \E w \in PasswordUsers : EmailVerified(w)
    BY <2>0, <2>3 DEF EmailVerified
  <2>4. CASE \E w \in Users : LastActiveUpdated(w)
    BY <2>0, <2>4 DEF LastActiveUpdated, UpdateDoc
  <2>5. CASE UserStep
    BY <2>2, <2>3, <2>5 DEF UserStep, OnboardingDone, OpenScreen, OpenReauthForm, Back, Restart, Begin,
                            BeginLogout, CheckEmailVerificationStatus, Continue
  <2>6. CASE OnReady \/ LogoutStep \/ UNCHANGED vars
    BY <2>2, <2>6 DEF OnReady, LogoutStep, GoogleSignedOut, SignedOut, LogoutFails, vars, server
  <2>7. CASE \E i \in Timers : Tick(i) \/ TickReturns(i)
    BY <2>2, <2>7 DEF Tick, TickReturns, TickReloaded, TickFails
  <2> QED BY <2>1, <2>4, <2>5, <2>6, <2>7 DEF Next
<1> QED BY <1>1, SessionInvariant, SessionIsHeld, PTL DEF Spec, OwnDataOnly

-----------------------------------------------------------------------------
(* The menu.                                                               *)

\* No step of a task, disturbed or not, puts the menu on the stack but by
\* screenRedirect.
LEMMA TaskOpensMenu ==
    ASSUME TypeOK, NEW t \in Tasks, TaskStep(t), Has(routes', "menu"), ~Has(routes, "menu")
    PROVE  Landing = "menu"
<1>0. /\ routes \in Seq(Screens) /\ Pop(routes) \in Seq(Screens)
      /\ {"login", "verify", "profile", "changeEmail", Landing} \subseteq Screens
  BY PopType DEF TypeOK, Landing, Screens
<1>1. ~Has(Pop(routes), "menu")
  BY <1>0, PopFacts
<1>2. \A x \in {"login", "verify", "profile", "changeEmail"} :
         /\ ~Has(OffAll(x), "menu")
         /\ ~Has(Append(Pop(routes), x), "menu")
         /\ ~Has(Off(Pop(routes), x), "menu")
  BY <1>0, <1>1, OffAllFacts, AppendFacts, OffFacts
<1>3. \/ routes' \in {routes, Pop(routes), OffAll("login"), Append(Pop(routes), "verify"),
                      Off(Pop(routes), "profile"), Off(Pop(routes), "changeEmail")}
      \/ routes' = OffAll(Landing)
  <2> USE DEF StopLoading
  <2>1. CASE Refused(t) \/ Throws(t) \/ Connected(t) \/ SignedIn(t) \/ Registered(t)
    BY <2>1 DEF Refused, Throws, Connected, SignedIn, Registered, EndTask, GoOn
  <2>2. CASE EmailSynced(t) \/ RegisteredAnswered(t)
    BY <2>2 DEF EmailSynced, RegisteredAnswered, EndInRedirect, ScreenRedirect
  <2>3. CASE RecordSaved(t) \/ NotRegistered(t) \/ UserDeleted(t)
    BY <2>3 DEF RecordSaved, NotRegistered, UserDeleted
  <2>4. CASE GoogleCancelled(t) \/ RecordSet(t)
    <3>1. EndTask(t) \/ GoOn(t, "isRegistered") \/ DeleteAccount(t, currentUser) \/ ResetEmailNext(t)
      BY <2>4 DEF GoogleCancelled, RecordSet
    <3> QED BY <3>1 DEF EndTask, GoOn, DeleteAccount, ResetEmailNext, EndInScreen
  <2>5. CASE Reauthenticated(t)
    BY <2>5 DEF Reauthenticated, EndInScreen
  <2>6. CASE RecordRemoved(t) \/ AuthDeleted(t)
    BY <2>6 DEF RecordRemoved, AuthDeleted, EndInScreen
  <2>7. CASE NewEmailGiven(t) \/ NewEmailSent(t) \/ \E u \in GoogleUsers : GooglePicked(t, u)
    BY <2>7 DEF NewEmailGiven, NewEmailSent, GooglePicked
  <2> QED BY <2>1, <2>2, <2>3, <2>4, <2>5, <2>6, <2>7 DEF TaskStep
<1>4. Has(OffAll(Landing), "menu") => Landing = "menu"
  BY <1>0, OffAllFacts
<1> QED BY <1>1, <1>2, <1>3, <1>4

\* screenRedirect opens the menu, and nothing else does: only for a user whom
\* Firebase holds verified, also when tasks were cut or overtaken.
THEOREM MenuOpensOnlyForVerified == Spec => MenuOpensForVerified
<1>1. SessionInv /\ [Next]_vars =>
        [Has(routes', "menu") /\ ~Has(routes, "menu")
           => currentUser # NoUser /\ account[currentUser] = "verified"]_vars
  <2> SUFFICES ASSUME SessionInv, [Next]_vars, Has(routes', "menu"), ~Has(routes, "menu")
               PROVE  currentUser # NoUser /\ account[currentUser] = "verified"
    OBVIOUS
  <2>0. /\ TypeOK /\ routes \in Seq(Screens) /\ CacheIsTrue
        /\ {"login", "signup", "splash", "profile", "dialog", "reauthDelete", "reauthEmail", "success",
            "loader", Landing} \subseteq Screens
    BY DEF SessionInv, TypeOK, Landing, Screens
  <2>1. SUFFICES Landing = "menu"
    BY <2>0 DEF Landing, CacheIsTrue
  <2>2. /\ ~Has(Pop(routes), "menu")
        /\ \A x \in Screens : Has(OffAll(x), "menu") => x = "menu"
        /\ \A x \in Screens \ {"menu"} : ~Has(Append(routes, x), "menu") /\ ~Has(Off(routes, x), "menu")
    BY <2>0, PopFacts, OffAllFacts, AppendFacts, OffFacts
  <2>3. CASE \E t \in Tasks : TaskStep(t)
    BY <2>0, <2>3, TaskOpensMenu
  <2>4. CASE OnReady \/ Continue
    BY <2>0, <2>2, <2>4 DEF OnReady, Continue, ScreenRedirect
  <2>5. CASE OnboardingDone \/ SignedOut \/ Restart
    BY <2>0, <2>2, <2>5 DEF OnboardingDone, SignedOut, Restart, OffAll
  <2>6. CASE OpenScreen("login", "signup") \/ OpenScreen("menu", "profile") \/ OpenScreen("profile", "dialog")
    BY <2>0, <2>2, <2>6 DEF OpenScreen
  <2>7. CASE OpenReauthForm("reauthDelete") \/ OpenReauthForm("reauthEmail")
    BY <2>0, <2>2, <2>7 DEF OpenReauthForm
  <2>8. CASE Back
    BY <2>2, <2>8 DEF Back
  <2>9. CASE \E t \in Tasks, op \in Ops, u \in PasswordUsers \cup {NoUser} : Begin(t, op, u)
    BY <2>0, <2>2, <2>9 DEF Begin
  <2>10. CASE CheckEmailVerificationStatus \/ BeginLogout \/ \E u \in PasswordUsers : EmailVerified(u)
    BY <2>0, <2>2, <2>10 DEF CheckEmailVerificationStatus, BeginLogout, EmailVerified
  <2>11. CASE GoogleSignedOut \/ LogoutFails \/ (\E u \in Users : LastActiveUpdated(u)) \/ UNCHANGED vars
    BY <2>11 DEF GoogleSignedOut, LogoutFails, LastActiveUpdated, vars
  <2>12. CASE \E i \in Timers : Tick(i) \/ TickReturns(i)
    BY <2>0, <2>2, <2>12 DEF Tick, TickReturns, TickReloaded, TickFails
  <2> QED BY <2>3, <2>4, <2>5, <2>6, <2>7, <2>8, <2>9, <2>10, <2>11, <2>12 DEF Next, UserStep, LogoutStep
<1> QED BY <1>1, SessionInvariant, PTL DEF Spec, MenuOpensForVerified
=============================================================================
