---------------------------- MODULE AccountProofs ----------------------------
(***************************************************************************)
(* Theorems about Account, for any sets of accounts, tasks and timers: its  *)
(* types, and that while no task is cut, fails half way or is overtaken,    *)
(* the menu is only shown to a verified user, accounts and records go       *)
(* together and there is always a screen.  They rest on SessionInv.         *)
(***************************************************************************)
EXTENDS Account, TLAPS

-----------------------------------------------------------------------------
(* The navigator's stack.                                                  *)

\* Removing a pending tick leaves a sequence of pending ticks.
LEMMA RemoveAtType ==
    ASSUME NEW S, NEW s \in Seq(S), NEW k \in DOMAIN s
    PROVE  RemoveAt(s, k) \in Seq(S)
BY DEF RemoveAt

\* Navigator.pop leaves a stack of screens.
LEMMA PopType ==
    ASSUME NEW r \in Seq(Screens)
    PROVE  Pop(r) \in Seq(Screens)
BY DEF Pop

\* The stack after Navigator.pop, Get.off, Get.offAll and Get.to has screens
\* of the same kind.
LEMMA StackTypes ==
    ASSUME NEW r \in Seq(Screens), NEW x \in Screens
    PROVE  /\ Pop(r) \in Seq(Screens)
           /\ StopLoading(r) \in Seq(Screens)
           /\ Off(r, x) \in Seq(Screens)
           /\ OffAll(x) \in Seq(Screens)
           /\ Append(r, x) \in Seq(Screens)
BY DEF Pop, Off, OffAll, StopLoading

\* Get.offAll leaves one screen.
LEMMA OffAllFacts ==
    ASSUME NEW x \in Screens, NEW y
    PROVE  /\ Has(OffAll(x), y) => y = x
           /\ Bottom(OffAll(x)) = x
           /\ TopOf(OffAll(x)) = x
BY DEF OffAll, Has, Bottom, TopOf

\* Get.to adds one on top.
LEMMA AppendFacts ==
    ASSUME NEW r \in Seq(Screens), NEW x \in Screens, NEW y
    PROVE  /\ Has(Append(r, x), y) => Has(r, y) \/ y = x
           /\ TopOf(Append(r, x)) = x
           /\ TopOf(r) # "blank" => Bottom(Append(r, x)) = Bottom(r)
           /\ Bottom(r) # "blank" => Bottom(Append(r, x)) = Bottom(r)
BY DEF Has, Bottom, TopOf, Screens

\* A sequence with a length is not empty.
LEMMA NotEmpty ==
    ASSUME NEW S, NEW s \in Seq(S), Len(s) > 0
    PROVE  s # <<>>
OBVIOUS

\* Navigator.pop removes the topmost; the bottom stays if it is another one.
LEMMA PopFacts ==
    ASSUME NEW r \in Seq(Screens), NEW y
    PROVE  /\ Has(Pop(r), y) => Has(r, y)
           /\ Bottom(r) # TopOf(r) => Bottom(Pop(r)) = Bottom(r)
           /\ Len(r) > 1 => Bottom(Pop(r)) = Bottom(r)
<1>1. Has(Pop(r), y) => Has(r, y)
  <2>1. CASE r = <<>>
    BY <2>1 DEF Pop
  <2>2. CASE r # <<>>
    <3>1. Pop(r) = SubSeq(r, 1, Len(r) - 1)
      BY <2>2 DEF Pop
    <3>2. \A n \in DOMAIN Pop(r) : n \in DOMAIN r /\ Pop(r)[n] = r[n]
      BY <3>1
    <3> QED BY <3>2 DEF Has
  <2> QED BY <2>1, <2>2
<1>2. Bottom(r) # TopOf(r) => Len(r) > 1
  BY DEF Bottom, TopOf
<1>3. ASSUME Len(r) > 1
      PROVE  Bottom(Pop(r)) = Bottom(r)
  <2>1. r # <<>> /\ Len(r) > 1
    BY <1>3, NotEmpty
  <2>2. Pop(r) = SubSeq(r, 1, Len(r) - 1) /\ Len(Pop(r)) > 0 /\ Pop(r)[1] = r[1]
    BY <2>1 DEF Pop
  <2>3. Pop(r) \in Seq(Screens)
    BY PopType
  <2>4. Pop(r) # <<>>
    BY <2>2, <2>3, NotEmpty
  <2> QED BY <2>1, <2>2, <2>4 DEF Bottom
<1> QED BY <1>1, <1>2, <1>3

\* Get.off replaces the topmost.
LEMMA OffFacts ==
    ASSUME NEW r \in Seq(Screens), NEW x \in Screens, NEW y
    PROVE  /\ Has(Off(r, x), y) => Has(r, y) \/ y = x
           /\ TopOf(Off(r, x)) = x
           /\ Bottom(Off(r, x)) \in {x, Bottom(r)}
           /\ Bottom(Off(r, x)) # "blank"
BY DEF Has, Bottom, TopOf, Off, Screens

-----------------------------------------------------------------------------
(* Types.                                                                  *)

\* A new timer takes a free slot.
LEMMA StartTimerType ==
    ASSUME TypeOK, StartTimer
    PROVE  timer' \in [Timers -> [on : BOOLEAN, ticks : Seq(Users)]]
<1> DEFINE i == CHOOSE i \in FreeTimers : TRUE
<1>1. i \in FreeTimers
  BY DEF StartTimer
<1>2. timer' = [timer EXCEPT ![i].on = TRUE]
  BY DEF StartTimer
<1>3. i \in Timers
  BY <1>1 DEF FreeTimers
<1> QED BY <1>2, <1>3 DEF TypeOK

\* screenRedirect keeps the types of what it assigns.
LEMMA RedirectTypes ==
    ASSUME TypeOK, ScreenRedirect
    PROVE  /\ routes' \in Seq(Screens)
           /\ isFirstTime' \in {"null", "true", "false"}
           /\ touches' \subseteq Users
           /\ timer' \in [Timers -> [on : BOOLEAN, ticks : Seq(Users)]]
<1>1. Landing \in Screens
  BY DEF Landing, Screens
<1>2. routes' \in Seq(Screens)
  BY <1>1 DEF ScreenRedirect, OffAll
<1>3. touches' \subseteq Users /\ isFirstTime' \in {"null", "true", "false"}
  BY DEF ScreenRedirect, Touched, TypeOK
<1>4. timer' \in [Timers -> [on : BOOLEAN, ticks : Seq(Users)]]
  BY StartTimerType DEF ScreenRedirect, TypeOK
<1> QED BY <1>2, <1>3, <1>4

\* So do the ways in which a task ends or goes on.
LEMMA TaskEndTypes ==
    ASSUME TypeOK, NEW t \in Tasks, task[t] # Idle
    PROVE  /\ EndTask(t) =>
                /\ task' \in [Tasks -> {Idle} \cup TaskRecords]
                /\ routes' \in Seq(Screens)
                /\ UNCHANGED isFirstTime /\ UNCHANGED background
           /\ \A pc \in Awaits : GoOn(t, pc) =>
                /\ task' \in [Tasks -> {Idle} \cup TaskRecords]
                /\ routes' \in Seq(Screens)
                /\ UNCHANGED isFirstTime /\ UNCHANGED background
           /\ \A r \in Seq(Screens) : EndInScreen(t, r) =>
                /\ task' \in [Tasks -> {Idle} \cup TaskRecords]
                /\ routes' \in Seq(Screens)
                /\ UNCHANGED isFirstTime /\ UNCHANGED background
           /\ \A cu \in Users \cup {NoUser} : DeleteAccount(t, cu) =>
                /\ task' \in [Tasks -> {Idle} \cup TaskRecords]
                /\ routes' \in Seq(Screens)
                /\ UNCHANGED isFirstTime /\ UNCHANGED background
<1>0. routes \in Seq(Screens) /\ task \in [Tasks -> {Idle} \cup TaskRecords] /\ task[t] \in TaskRecords
  BY DEF TypeOK
<1>1. ASSUME EndTask(t)
      PROVE  /\ task' \in [Tasks -> {Idle} \cup TaskRecords]
             /\ routes' \in Seq(Screens)
             /\ UNCHANGED isFirstTime /\ UNCHANGED background
  <2>1. StopLoading(routes) \in Seq(Screens)
    BY <1>0 DEF StopLoading, Pop
  <2>2. task' \in [Tasks -> {Idle} \cup TaskRecords]
    BY <1>0, <1>1 DEF EndTask
  <2> QED BY <1>1, <2>1, <2>2 DEF EndTask
<1>2. ASSUME NEW pc \in Awaits, GoOn(t, pc)
      PROVE  /\ task' \in [Tasks -> {Idle} \cup TaskRecords]
             /\ routes' \in Seq(Screens)
             /\ UNCHANGED isFirstTime /\ UNCHANGED background
  BY <1>0, <1>2 DEF GoOn, TaskRecords
<1>3. ASSUME NEW r \in Seq(Screens), EndInScreen(t, r)
      PROVE  /\ task' \in [Tasks -> {Idle} \cup TaskRecords]
             /\ routes' \in Seq(Screens)
             /\ UNCHANGED isFirstTime /\ UNCHANGED background
  BY <1>0, <1>3 DEF EndInScreen
<1>4. ASSUME NEW cu \in Users \cup {NoUser}, DeleteAccount(t, cu)
      PROVE  /\ task' \in [Tasks -> {Idle} \cup TaskRecords]
             /\ routes' \in Seq(Screens)
             /\ UNCHANGED isFirstTime /\ UNCHANGED background
  <2>1. CASE cu = NoUser
    BY <1>1, <1>4, <2>1 DEF DeleteAccount
  <2>2. CASE cu # NoUser
    BY <1>0, <1>4, <2>2 DEF DeleteAccount, TaskRecords, Awaits
  <2> QED BY <2>1, <2>2
<1> QED BY <1>1, <1>2, <1>3, <1>4

\* Every step of a task keeps the types.
LEMMA TaskStepTypes ==
    ASSUME TypeOK, NEW t \in Tasks, TaskStep(t)
    PROVE  TypeOK'
<1> USE DEF Users
<1>0. /\ routes \in Seq(Screens)
      /\ task \in [Tasks -> {Idle} \cup TaskRecords]
      /\ account \in [Users -> {"none", "unverified", "verified"}]
      /\ record \in [Users -> BOOLEAN]
  BY DEF TypeOK
<1>1. CASE Refused(t)
  BY <1>1, TaskEndTypes DEF Refused, At, TypeOK, server, session, background
<1>2. CASE Connected(t)
  <2>1. PICK pc \in Awaits : GoOn(t, pc)
    BY <1>2 DEF Connected, Awaits
  <2> QED BY <1>2, <2>1, TaskEndTypes DEF Connected, At, TypeOK, server, session, background
<1>3. CASE Throws(t)
  BY <1>3, TaskEndTypes DEF Throws, TypeOK, server, session, background
<1>4. CASE SignedIn(t)
  <2>1. task[t] \in TaskRecords
    BY <1>0, <1>4 DEF SignedIn, At
  <2>2. GoOn(t, "syncEmail") /\ "syncEmail" \in Awaits /\ task[t] # Idle
    BY <1>4 DEF SignedIn, Awaits, At
  <2> QED BY <1>4, <2>1, <2>2, TaskEndTypes DEF SignedIn, TypeOK, server, background, TaskRecords
<1>5. CASE EmailSynced(t)
  BY <1>5, RedirectTypes DEF EmailSynced, EndInRedirect, TypeOK, server, session
<1>6. CASE Registered(t)
  <2>1. task[t] \in TaskRecords
    BY <1>0, <1>6 DEF Registered, At
  <2>2. GoOn(t, "saveRecord") /\ "saveRecord" \in Awaits /\ task[t] # Idle
    BY <1>6 DEF Registered, Awaits, At
  <2> QED BY <1>6, <2>1, <2>2, TaskEndTypes DEF Registered, TypeOK, background, TaskRecords
<1>7. CASE RecordSaved(t)
  <2>1. "verify" \in Screens
    BY DEF Screens
  <2>2. StopLoading(routes) \in Seq(Screens)
    BY <1>0, <2>1, StackTypes
  <2>3. routes' \in Seq(Screens)
    BY <1>7, <2>1, <2>2 DEF RecordSaved
  <2>4. timer' \in [Timers -> [on : BOOLEAN, ticks : Seq(Users)]]
    BY <1>7, StartTimerType DEF RecordSaved
  <2> QED BY <1>7, <2>3, <2>4 DEF RecordSaved, TypeOK, session
<1>8. CASE GoogleCancelled(t) \/ RecordSet(t)
  <2>1. Off(StopLoading(routes), "profile") \in Seq(Screens) /\ Off(StopLoading(routes), "changeEmail") \in Seq(Screens)
    BY <1>0, StackTypes DEF Screens
  <2>2. /\ task' \in [Tasks -> {Idle} \cup TaskRecords]
        /\ routes' \in Seq(Screens)
        /\ UNCHANGED isFirstTime /\ UNCHANGED background
    <3>1. "isRegistered" \in Awaits
      BY DEF Awaits
    <3>2. task[t] # Idle /\ currentUser \in Users \cup {NoUser}
      BY <1>8 DEF GoogleCancelled, RecordSet, At, TypeOK
    <3>3. \/ EndTask(t) \/ GoOn(t, "isRegistered") \/ DeleteAccount(t, currentUser)
          \/ \E r \in Seq(Screens) : EndInScreen(t, r)
      BY <1>8, <2>1 DEF GoogleCancelled, RecordSet, ResetEmailNext
    <3> QED BY <3>1, <3>2, <3>3, TaskEndTypes
  <2>3. record' \in [Users -> BOOLEAN] /\ UNCHANGED <<account, currentUser, cachedVerified, disturbed>>
    BY <1>0, <1>8 DEF GoogleCancelled, RecordSet, server, session
  <2> QED BY <2>2, <2>3 DEF TypeOK, background
<1>9. CASE RegisteredAnswered(t)
  BY <1>9, RedirectTypes DEF RegisteredAnswered, EndInRedirect, TypeOK, server, session
<1>10. CASE NotRegistered(t)
  <2>1. task[t] \in TaskRecords
    BY <1>0, <1>10 DEF NotRegistered, At
  <2>2. routes' \in Seq(Screens)
    BY <1>0, <1>10 DEF NotRegistered, StopLoading, Pop
  <2>3. task' \in [Tasks -> {Idle} \cup TaskRecords]
    BY <1>0, <1>10, <2>1 DEF NotRegistered, TaskRecords, Awaits, TypeOK
  <2> QED BY <1>10, <2>2, <2>3 DEF NotRegistered, TypeOK, server, session, background
<1>11. CASE UserDeleted(t)
  BY <1>0, <1>11 DEF UserDeleted, SignedOutIf, TypeOK, session, background
<1>12. CASE Reauthenticated(t)
  <2>0. task[t] \in TaskRecords /\ task[t] # Idle
    BY <1>0, <1>12 DEF Reauthenticated, At
  <2>1. Off(StopLoading(routes), "changeEmail") \in Seq(Screens)
    BY <1>0, StackTypes DEF Screens
  <2>2. CASE task[t].op = "deletePassword"
    <3>1. task' = [task EXCEPT ![t].pc = "removeRecord", ![t].user = currentUser,
                               ![t].reauthed = (currentUser = task[t].prior)]
      BY <1>12, <2>2 DEF Reauthenticated
    <3>2. currentUser \in Users \cup {NoUser} /\ (currentUser = task[t].prior) \in BOOLEAN
      BY DEF TypeOK
    <3>3. task' \in [Tasks -> {Idle} \cup TaskRecords]
      BY <1>0, <2>0, <3>1, <3>2 DEF TaskRecords, Awaits
    <3> QED BY <1>12, <2>2, <3>3 DEF Reauthenticated, TypeOK, server, session, background
  <2>3. CASE task[t].op # "deletePassword"
    BY <1>12, <2>0, <2>1, <2>3, TaskEndTypes DEF Reauthenticated, TypeOK, server, session, background
  <2> QED BY <2>2, <2>3
<1>13. CASE RecordRemoved(t)
  <2>0. task[t] \in TaskRecords /\ task[t] # Idle
    BY <1>0, <1>13 DEF RecordRemoved, At
  <2>1. OffAll("login") \in Seq(Screens)
    BY <1>0, StackTypes DEF Screens
  <2>2. record' \in [Users -> BOOLEAN]
    BY <1>0, <1>13 DEF RecordRemoved
  <2>3. CASE currentUser = NoUser
    BY <1>13, <2>0, <2>1, <2>2, <2>3, TaskEndTypes DEF RecordRemoved, TypeOK, session, background
  <2>4. CASE currentUser # NoUser
    <3>1. task' = [task EXCEPT ![t].pc = "deleteAuth", ![t].user = currentUser]
      BY <1>13, <2>4 DEF RecordRemoved
    <3>2. currentUser \in Users
      BY <2>4 DEF TypeOK
    <3>3. task' \in [Tasks -> {Idle} \cup TaskRecords]
      BY <1>0, <2>0, <3>1, <3>2 DEF TaskRecords, Awaits
    <3> QED BY <1>13, <2>2, <2>4, <3>3 DEF RecordRemoved, TypeOK, session, background
  <2> QED BY <2>3, <2>4
<1>14. CASE AuthDeleted(t)
  <2>1. OffAll("login") \in Seq(Screens) /\ task[t] # Idle
    BY <1>0, <1>14, StackTypes DEF Screens, AuthDeleted, At
  <2>2. /\ account' \in [Users -> {"none", "unverified", "verified"}]
        /\ currentUser' \in Users \cup {NoUser}
        /\ cachedVerified' \in BOOLEAN
    BY <1>0, <1>14 DEF AuthDeleted, SignedOutIf, TypeOK
  <2> QED BY <1>14, <2>1, <2>2, TaskEndTypes DEF AuthDeleted, TypeOK, background
<1>15. CASE NewEmailGiven(t)
  <2>1. task[t] \in TaskRecords
    BY <1>0, <1>15 DEF NewEmailGiven, AtOp, At
  <2>2. routes' \in Seq(Screens)
    BY <1>0, <1>15 DEF NewEmailGiven, StopLoading, Pop
  <2>3. task' \in [Tasks -> {Idle} \cup TaskRecords]
    BY <1>0, <1>15, <2>1 DEF NewEmailGiven, TaskRecords, Awaits
  <2> QED BY <1>15, <2>2, <2>3 DEF NewEmailGiven, TypeOK, server, session, background
<1>16. CASE NewEmailSent(t)
  BY <1>0, <1>16 DEF NewEmailSent, TypeOK, server, session
<1>17. CASE \E u \in GoogleUsers : GooglePicked(t, u)
  <2> PICK u \in GoogleUsers : GooglePicked(t, u)
    BY <1>17
  <2>1. task[t] \in TaskRecords
    BY <1>0 DEF GooglePicked, At
  <2>2. task' \in [Tasks -> {Idle} \cup TaskRecords]
    BY <1>0, <2>1 DEF GooglePicked, TaskRecords, Awaits
  <2> QED BY <1>0, <2>2 DEF GooglePicked, TypeOK, background
<1> QED
  BY <1>1, <1>2, <1>3, <1>4, <1>5, <1>6, <1>7, <1>8, <1>9, <1>10, <1>11, <1>12, <1>13,
     <1>14, <1>15, <1>16, <1>17 DEF TaskStep

\* Init, and every step, keeps the types.
LEMMA TypeInit == Init => TypeOK
<1> SUFFICES ASSUME Init PROVE TypeOK
  OBVIOUS
<1>1. routes \in Seq(Screens)
  BY DEF Init, Screens
<1>2. timer \in [Timers -> [on : BOOLEAN, ticks : Seq(Users)]]
  BY DEF Init, NoTimer
<1> QED BY <1>1, <1>2 DEF Init, TypeOK

\* Every step keeps the types.
LEMMA TypeStep == TypeOK /\ [Next]_vars => TypeOK'
<1> SUFFICES ASSUME TypeOK, [Next]_vars PROVE TypeOK'
  OBVIOUS
<1>0. /\ routes \in Seq(Screens)
      /\ task \in [Tasks -> {Idle} \cup TaskRecords]
      /\ timer \in [Timers -> [on : BOOLEAN, ticks : Seq(Users)]]
  BY DEF TypeOK
<1>1. CASE OnReady
  BY <1>1, RedirectTypes DEF OnReady, TypeOK, server, session
<1>2. CASE UserStep
  <2>1. CASE OnboardingDone
    <3>1. routes' \in Seq(Screens)
      BY <2>1 DEF OnboardingDone, OffAll, Screens
    <3> QED BY <2>1, <3>1 DEF OnboardingDone, TypeOK, server, session, background
  <2>2. ASSUME NEW from, NEW to \in Screens, OpenScreen(from, to)
        PROVE  TypeOK'
    <3>1. routes' \in Seq(Screens)
      BY <1>0, <2>2 DEF OpenScreen
    <3> QED BY <2>2, <3>1 DEF OpenScreen, TypeOK, server, session, background
  <2>3. ASSUME NEW form \in Screens, OpenReauthForm(form)
        PROVE  TypeOK'
    <3>1. routes' \in Seq(Screens)
      BY <1>0, <2>3 DEF OpenReauthForm
    <3> QED BY <2>3, <3>1 DEF OpenReauthForm, TypeOK, server, session, background
  <2>4. CASE Back
    <3>1. routes' \in Seq(Screens)
      BY <1>0, <2>4, PopType DEF Back
    <3> QED BY <2>4, <3>1 DEF Back, TypeOK, server, session, background
  <2>5. CASE Restart
    <3>1. routes' \in Seq(Screens)
      BY <2>5 DEF Restart, Screens
    <3>2. timer' \in [Timers -> [on : BOOLEAN, ticks : Seq(Users)]]
      BY <2>5 DEF Restart, NoTimer
    <3>3. (disturbed \/ Busy) \in BOOLEAN
      BY DEF TypeOK, Busy
    <3> QED BY <2>5, <3>1, <3>2, <3>3 DEF Restart, TypeOK, server, session
  <2>6. ASSUME NEW t \in Tasks, NEW op \in Ops, NEW u \in PasswordUsers \cup {NoUser}, Begin(t, op, u)
        PROVE  TypeOK'
    <3>1. routes' \in Seq(Screens)
      BY <1>0, <2>6 DEF Begin, Screens
    <3>2. [op |-> op, pc |-> IF op \in {"delete", "resetEmail"} THEN "google" ELSE "connect",
           user |-> u, prior |-> currentUser, reauthed |-> FALSE, hadRecord |-> FALSE] \in TaskRecords
      BY DEF TaskRecords, Awaits, TypeOK, Users
    <3>3. task' \in [Tasks -> {Idle} \cup TaskRecords]
      BY <1>0, <2>6, <3>2 DEF Begin
    <3>4. disturbed' \in BOOLEAN
      BY <2>6 DEF Begin, TypeOK
    <3> QED BY <2>6, <3>1, <3>3, <3>4 DEF Begin, TypeOK, server, session, background
  <2>7. CASE BeginLogout
    <3>1. disturbed' \in BOOLEAN
      BY <2>7 DEF BeginLogout, TypeOK, Busy
    <3> QED BY <2>7, <3>1 DEF BeginLogout, TypeOK, server, session
  <2>8. CASE CheckEmailVerificationStatus
    <3>1. routes' \in Seq(Screens)
      BY <1>0, <2>8, StackTypes DEF CheckEmailVerificationStatus, Screens
    <3> QED BY <2>8, <3>1 DEF CheckEmailVerificationStatus, TypeOK, server, session, background
  <2>9. CASE Continue
    BY <2>9, RedirectTypes DEF Continue, TypeOK, server, session
  <2>10. ASSUME NEW u \in PasswordUsers, EmailVerified(u)
         PROVE  TypeOK'
    BY <2>10 DEF EmailVerified, TypeOK, session, background, Users
  <2> QED
    BY <1>2, <2>1, <2>2, <2>3, <2>4, <2>5, <2>6, <2>7, <2>8, <2>9, <2>10 DEF UserStep, Screens
<1>3. CASE \E t \in Tasks : TaskStep(t)
  BY <1>3, TaskStepTypes
<1>4. CASE LogoutStep
  <2>1. SignedOut => routes' \in Seq(Screens)
    BY DEF SignedOut, OffAll, Screens
  <2> QED
    BY <1>4, <2>1 DEF LogoutStep, GoogleSignedOut, SignedOut, LogoutFails, TypeOK, server, session
<1>5. CASE \E i \in Timers : Tick(i) \/ TickReturns(i)
  <2> PICK i \in Timers : Tick(i) \/ TickReturns(i)
    BY <1>5
  <2>1. CASE Tick(i)
    <3>1. currentUser \in Users
      BY <2>1 DEF Tick, TypeOK
    <3>2. Append(timer[i].ticks, currentUser) \in Seq(Users)
      BY <1>0, <3>1
    <3>3. timer' \in [Timers -> [on : BOOLEAN, ticks : Seq(Users)]]
      BY <1>0, <2>1, <3>2 DEF Tick
    <3> QED BY <2>1, <3>3 DEF Tick, TypeOK, server, session
  <2>2. ASSUME NEW k, TickReloaded(i, k)
        PROVE  TypeOK'
    <3>1. k \in DOMAIN timer[i].ticks /\ timer[i].ticks \in Seq(Users) /\ timer[i].on \in BOOLEAN
      BY <1>0, <2>2 DEF TickReloaded
    <3>2. RemoveAt(timer[i].ticks, k) \in Seq(Users)
      BY <3>1, RemoveAtType
    <3>3. cachedVerified' \in BOOLEAN
      BY <2>2 DEF TickReloaded, TypeOK
    <3>4. timer' \in [Timers -> [on : BOOLEAN, ticks : Seq(Users)]]
      BY <1>0, <2>2, <3>1, <3>2, <3>3 DEF TickReloaded
    <3>5. routes' \in Seq(Screens)
      BY <1>0, <2>2, StackTypes DEF TickReloaded, Screens
    <3>6. disturbed' \in BOOLEAN
      BY <2>2, <3>3 DEF TickReloaded, TypeOK, Busy
    <3> QED BY <2>2, <3>3, <3>4, <3>5, <3>6 DEF TickReloaded, TypeOK, server
  <2>3. ASSUME NEW k, TickFails(i, k)
        PROVE  TypeOK'
    <3>1. RemoveAt(timer[i].ticks, k) \in Seq(Users)
      BY <1>0, <2>3, RemoveAtType DEF TickFails
    <3>2. timer' \in [Timers -> [on : BOOLEAN, ticks : Seq(Users)]]
      BY <1>0, <2>3, <3>1 DEF TickFails
    <3> QED BY <2>3, <3>2 DEF TickFails, TypeOK, server, session
  <2> QED BY <2>1, <2>2, <2>3 DEF TickReturns
<1>6. CASE \E u \in Users : LastActiveUpdated(u)
  BY <1>6 DEF LastActiveUpdated, UpdateDoc, TypeOK, session
<1>7. CASE UNCHANGED vars
  BY <1>7 DEF vars, TypeOK
<1> QED BY <1>1, <1>2, <1>3, <1>4, <1>5, <1>6, <1>7 DEF Next

\* Every state of the account model has the declared types.
THEOREM AccountTypes == Spec => []TypeOK
BY TypeInit, TypeStep, PTL DEF Spec

-----------------------------------------------------------------------------
(* What a step does to the tasks.                                          *)

\* A step of one task leaves the others alone, and its own slot holds nothing
\* or the same method afterwards.
LEMMA OwnSlotOnly ==
    ASSUME TypeOK, NEW t \in Tasks, TaskStep(t)
    PROVE  /\ task[t] # Idle
           /\ \A o \in Tasks \ {t} : task'[o] = task[o]
           /\ task'[t] # Idle => task'[t].op = task[t].op
<1>0. task \in [Tasks -> {Idle} \cup TaskRecords]
  BY DEF TypeOK
<1>1. task[t] # Idle
  BY DEF TaskStep, Refused, Connected, Throws, SignedIn, EmailSynced, Registered, RecordSaved,
         GoogleCancelled, RecordSet, RegisteredAnswered, NotRegistered, UserDeleted, Reauthenticated,
         RecordRemoved, AuthDeleted, NewEmailGiven, NewEmailSent, GooglePicked, AtOp, At
<1>2. task[t] \in TaskRecords
  BY <1>0, <1>1
<1>3. \/ task' = [task EXCEPT ![t] = Idle]
      \/ \E pc : task' = [task EXCEPT ![t].pc = pc]
      \/ \E pc, u : task' = [task EXCEPT ![t].pc = pc, ![t].user = u]
      \/ \E pc, u, a : task' = [task EXCEPT ![t].pc = pc, ![t].user = u, ![t].reauthed = a]
      \/ \E pc, u, a, h : task' = [task EXCEPT ![t].pc = pc, ![t].user = u, ![t].reauthed = a, ![t].hadRecord = h]
  <2>1. CASE Refused(t) \/ Throws(t) \/ EmailSynced(t) \/ RecordSaved(t) \/ RegisteredAnswered(t)
             \/ UserDeleted(t) \/ AuthDeleted(t) \/ NewEmailSent(t)
    BY <2>1 DEF Refused, Throws, EmailSynced, RecordSaved, RegisteredAnswered, UserDeleted, AuthDeleted,
                NewEmailSent, EndTask, EndInRedirect, EndInScreen
  <2>2. CASE Connected(t) \/ SignedIn(t) \/ Registered(t) \/ NewEmailGiven(t)
    BY <2>2 DEF Connected, SignedIn, Registered, NewEmailGiven, GoOn
  <2>3. CASE GoogleCancelled(t) \/ RecordSet(t)
    <3>1. \/ EndTask(t) \/ GoOn(t, "isRegistered") \/ DeleteAccount(t, currentUser)
          \/ \E r : EndInScreen(t, r)
      BY <2>3 DEF GoogleCancelled, RecordSet, ResetEmailNext
    <3>2. EndTask(t) => task' = [task EXCEPT ![t] = Idle]
      BY DEF EndTask
    <3>3. GoOn(t, "isRegistered") => task' = [task EXCEPT ![t].pc = "isRegistered"]
      BY DEF GoOn
    <3>4. DeleteAccount(t, currentUser) =>
             \/ EndTask(t)
             \/ task' = [task EXCEPT ![t].pc = "removeRecord", ![t].user = currentUser]
      BY DEF DeleteAccount
    <3>5. (\E r : EndInScreen(t, r)) => task' = [task EXCEPT ![t] = Idle]
      BY DEF EndInScreen
    <3> QED BY <3>1, <3>2, <3>3, <3>4, <3>5
  <2>4. CASE NotRegistered(t)
    <3>1. task' = IF currentUser = NoUser THEN [task EXCEPT ![t] = Idle]
                  ELSE [task EXCEPT ![t].pc = "deleteUser", ![t].user = currentUser]
      BY <2>4 DEF NotRegistered
    <3>2. \/ task' = [task EXCEPT ![t] = Idle]
          \/ task' = [task EXCEPT ![t].pc = "deleteUser", ![t].user = currentUser]
      BY <3>1
    <3> QED BY <3>2
  <2>5. CASE RecordRemoved(t)
    <3>1. CASE currentUser = NoUser
      BY <2>5, <3>1 DEF RecordRemoved, EndInScreen
    <3>2. CASE currentUser # NoUser
      <4>1. task' = [task EXCEPT ![t].pc = "deleteAuth", ![t].user = currentUser]
        BY <2>5, <3>2 DEF RecordRemoved
      <4> QED BY <4>1
    <3> QED BY <3>1, <3>2
  <2>6. CASE Reauthenticated(t)
    <3>1. CASE task[t].op = "deletePassword"
      <4>1. task' = [task EXCEPT ![t].pc = "removeRecord", ![t].user = currentUser,
                                 ![t].reauthed = (currentUser = task[t].prior)]
        BY <2>6, <3>1 DEF Reauthenticated
      <4> QED BY <4>1
    <3>2. CASE task[t].op # "deletePassword"
      BY <2>6, <3>2 DEF Reauthenticated, EndInScreen
    <3> QED BY <3>1, <3>2
  <2>7. CASE \E u \in GoogleUsers : GooglePicked(t, u)
    <3> PICK u \in GoogleUsers : GooglePicked(t, u)
      BY <2>7
    <3>1. task' = [task EXCEPT ![t].pc = "setRecord", ![t].user = u,
                               ![t].reauthed = (u = task[t].prior), ![t].hadRecord = record[u]]
      BY DEF GooglePicked
    <3> QED BY <3>1
  <2> QED BY <2>1, <2>2, <2>3, <2>4, <2>5, <2>6, <2>7 DEF TaskStep
<1>4. CASE task' = [task EXCEPT ![t] = Idle]
  BY <1>0, <1>1, <1>4
<1>5. CASE \E pc : task' = [task EXCEPT ![t].pc = pc]
  BY <1>0, <1>1, <1>2, <1>5 DEF TaskRecords
<1>6. CASE \E pc, u : task' = [task EXCEPT ![t].pc = pc, ![t].user = u]
  BY <1>0, <1>1, <1>2, <1>6 DEF TaskRecords
<1>7. CASE \E pc, u, a : task' = [task EXCEPT ![t].pc = pc, ![t].user = u, ![t].reauthed = a]
  BY <1>0, <1>1, <1>2, <1>7 DEF TaskRecords
<1>8. CASE \E pc, u, a, h : task' = [task EXCEPT ![t].pc = pc, ![t].user = u, ![t].reauthed = a, ![t].hadRecord = h]
  BY <1>0, <1>1, <1>2, <1>8 DEF TaskRecords
<1> QED BY <1>1, <1>3, <1>4, <1>5, <1>6, <1>7, <1>8

\* A step is one of a task, the beginning of one, a restart, or leaves the
\* tasks alone.
LEMMA NextCases ==
    ASSUME [Next]_vars
    PROVE  \/ UNCHANGED task \/ Restart \/ (\E t \in Tasks : TaskStep(t))
           \/ \E t \in Tasks, op \in Ops, u \in PasswordUsers \cup {NoUser} : Begin(t, op, u)
<1>1. CASE OnReady
  BY <1>1 DEF OnReady
<1>2. CASE UserStep
  BY <1>2 DEF UserStep, OnboardingDone, OpenScreen, OpenReauthForm, Back, BeginLogout,
              CheckEmailVerificationStatus, Continue, EmailVerified
<1>3. CASE LogoutStep
  BY <1>3 DEF LogoutStep, GoogleSignedOut, SignedOut, LogoutFails
<1>4. CASE \E i \in Timers : Tick(i) \/ TickReturns(i)
  BY <1>4 DEF Tick, TickReturns, TickReloaded, TickFails
<1>5. CASE \E u \in Users : LastActiveUpdated(u)
  BY <1>5 DEF LastActiveUpdated
<1>6. CASE UNCHANGED vars
  BY <1>6 DEF vars
<1> QED BY <1>1, <1>2, <1>3, <1>4, <1>5, <1>6 DEF Next

\* Where a task stands fits its method.
LEMMA AwaitsStep == TypeOK /\ AwaitsOfOp /\ [Next]_vars => AwaitsOfOp'
<1> SUFFICES ASSUME TypeOK, AwaitsOfOp, [Next]_vars PROVE AwaitsOfOp'
  OBVIOUS
<1> USE DEF Users
<1>0. task \in [Tasks -> {Idle} \cup TaskRecords]
  BY DEF TypeOK
<1>1. ASSUME UNCHANGED task
      PROVE  AwaitsOfOp'
  BY <1>1 DEF AwaitsOfOp
<1>2. ASSUME NEW t \in Tasks, NEW op \in Ops, NEW u \in PasswordUsers \cup {NoUser}, Begin(t, op, u)
      PROVE  AwaitsOfOp'
  BY <1>0, <1>2 DEF Begin, AwaitsOfOp
<1>3. CASE Restart
  BY <1>3 DEF Restart, AwaitsOfOp
<1>4. ASSUME NEW t \in Tasks, TaskStep(t)
      PROVE  AwaitsOfOp'
  <2>0. task[t] \in TaskRecords /\ task[t] # Idle
    BY <1>0, <1>4, OwnSlotOnly
  <2>1. SUFFICES ASSUME task'[t] # Idle
        PROVE  /\ task'[t].pc \in {"signIn", "syncEmail"} => task'[t].op = "login"
               /\ task'[t].pc \in {"register", "saveRecord"} => task'[t].op = "signup"
               /\ task'[t].pc \in {"isRegistered", "deleteUser"} => task'[t].op = "google"
               /\ task'[t].pc = "sending" => task'[t].op = "updateEmail"
               /\ task'[t].op \in {"login", "signup"} => task'[t].user \in Users
               /\ task'[t].pc \in {"setRecord", "removeRecord", "deleteAuth", "deleteUser"}
                     => task'[t].user \in Users
    BY <1>4, OwnSlotOnly DEF AwaitsOfOp
  <2>2. task'[t].op = task[t].op
    BY <1>4, <2>1, OwnSlotOnly
  <2>3. CASE Refused(t) \/ Throws(t) \/ EmailSynced(t) \/ RecordSaved(t) \/ RegisteredAnswered(t)
             \/ UserDeleted(t) \/ AuthDeleted(t) \/ NewEmailSent(t)
    <3>1. task' = [task EXCEPT ![t] = Idle]
      BY <2>3 DEF Refused, Throws, EmailSynced, RecordSaved, RegisteredAnswered, UserDeleted, AuthDeleted,
                  NewEmailSent, EndTask, EndInRedirect, EndInScreen
    <3> QED BY <1>0, <2>1, <3>1
  <2>4. CASE Connected(t)
    <3>1. task' = [task EXCEPT ![t].pc = CASE task[t].op = "login" -> "signIn"
                                           [] task[t].op = "google" -> "google"
                                           [] task[t].op = "signup" -> "register"
                                           [] OTHER -> "reauth"]
      BY <2>4 DEF Connected, GoOn
    <3> QED BY <1>0, <2>0, <3>1 DEF AwaitsOfOp, TaskRecords
  <2>5. CASE SignedIn(t)
    BY <1>0, <2>0, <2>5 DEF SignedIn, At, GoOn, AwaitsOfOp, TaskRecords
  <2>6. CASE Registered(t)
    BY <1>0, <2>0, <2>6 DEF Registered, At, GoOn, AwaitsOfOp, TaskRecords
  <2>7. CASE NewEmailGiven(t)
    BY <1>0, <2>0, <2>7 DEF NewEmailGiven, AtOp, At, AwaitsOfOp, TaskRecords
  <2>8. CASE GoogleCancelled(t) \/ RecordSet(t)
    <3>1. \/ EndTask(t) \/ (GoOn(t, "isRegistered") /\ task[t].op = "google")
          \/ DeleteAccount(t, currentUser) \/ \E r : EndInScreen(t, r)
      BY <2>8 DEF GoogleCancelled, RecordSet, ResetEmailNext
    <3>2. ~EndTask(t) /\ ~ \E r : EndInScreen(t, r)
      BY <1>0, <2>1 DEF EndTask, EndInScreen
    <3>3. CASE GoOn(t, "isRegistered") /\ task[t].op = "google"
      BY <1>0, <2>0, <3>3 DEF GoOn, AwaitsOfOp, TaskRecords
    <3>4. CASE DeleteAccount(t, currentUser)
      <4>1. currentUser # NoUser /\ task' = [task EXCEPT ![t].pc = "removeRecord", ![t].user = currentUser]
        BY <3>2, <3>4 DEF DeleteAccount
      <4>2. currentUser \in Users
        BY <4>1 DEF TypeOK
      <4> QED BY <1>0, <2>0, <4>1, <4>2 DEF AwaitsOfOp, TaskRecords
    <3> QED BY <3>1, <3>2, <3>3, <3>4
  <2>9. CASE NotRegistered(t)
    <3>1. task[t].pc = "isRegistered"
      BY <2>9 DEF NotRegistered, At
    <3>2. currentUser # NoUser /\ task' = [task EXCEPT ![t].pc = "deleteUser", ![t].user = currentUser]
      BY <1>0, <2>1, <2>9 DEF NotRegistered
    <3>3. currentUser \in Users
      BY <3>2 DEF TypeOK
    <3> QED BY <1>0, <2>0, <3>1, <3>2, <3>3 DEF AwaitsOfOp, TaskRecords
  <2>10. CASE Reauthenticated(t)
    <3>1. task[t].op = "deletePassword"
      BY <1>0, <2>1, <2>10 DEF Reauthenticated, EndInScreen
    <3>2. task' = [task EXCEPT ![t].pc = "removeRecord", ![t].user = currentUser,
                               ![t].reauthed = (currentUser = task[t].prior)]
      BY <2>10, <3>1 DEF Reauthenticated
    <3>3. currentUser \in Users
      BY <2>10 DEF Reauthenticated
    <3>4. task'[t].pc = "removeRecord" /\ task'[t].user = currentUser
      BY <1>0, <2>0, <3>2 DEF TaskRecords
    <3> QED BY <2>2, <3>1, <3>3, <3>4
  <2>11. CASE RecordRemoved(t)
    <3>1. currentUser # NoUser /\ task' = [task EXCEPT ![t].pc = "deleteAuth", ![t].user = currentUser]
      BY <1>0, <2>1, <2>11 DEF RecordRemoved, EndInScreen
    <3>2. currentUser \in Users
      BY <3>1 DEF TypeOK
    <3> QED BY <1>0, <2>0, <3>1, <3>2 DEF AwaitsOfOp, TaskRecords
  <2>12. CASE \E u \in GoogleUsers : GooglePicked(t, u)
    <3> PICK u \in GoogleUsers : GooglePicked(t, u)
      BY <2>12
    <3>1. task'[t].pc = "setRecord" /\ task'[t].user = u
      BY <1>0, <2>0 DEF GooglePicked, TaskRecords
    <3> QED BY <2>2, <3>1 DEF AwaitsOfOp
  <2> QED BY <1>4, <2>3, <2>4, <2>5, <2>6, <2>7, <2>8, <2>9, <2>10, <2>11, <2>12 DEF TaskStep
<1>5. \/ UNCHANGED task \/ Restart \/ (\E t \in Tasks : TaskStep(t))
      \/ \E t \in Tasks, op \in Ops, u \in PasswordUsers \cup {NoUser} : Begin(t, op, u)
  BY NextCases
<1> QED BY <1>1, <1>2, <1>3, <1>4, <1>5

-----------------------------------------------------------------------------
(* The cached session, and what disturbs a task.                           *)

\* disturbed is never reset.
LEMMA DisturbedStays == TypeOK /\ [Next]_vars => (disturbed => disturbed')
<1> SUFFICES ASSUME TypeOK, [Next]_vars, disturbed PROVE disturbed'
  OBVIOUS
<1>1. CASE OnReady
  BY <1>1 DEF OnReady
<1>2. CASE UserStep
  BY <1>2 DEF UserStep, OnboardingDone, OpenScreen, OpenReauthForm, Back, Restart, Begin, BeginLogout,
              CheckEmailVerificationStatus, Continue, EmailVerified
<1>3. CASE \E t \in Tasks : TaskStep(t)
  <2> PICK t \in Tasks : TaskStep(t)
    BY <1>3
  <2>1. CASE Refused(t) \/ Connected(t) \/ SignedIn(t) \/ EmailSynced(t) \/ Registered(t)
    BY <2>1 DEF Refused, Connected, SignedIn, EmailSynced, Registered
  <2>2. CASE Throws(t) \/ NotRegistered(t) \/ NewEmailSent(t)
    BY <2>2 DEF Throws, NotRegistered, NewEmailSent
  <2>3. CASE RecordSaved(t) \/ GoogleCancelled(t) \/ RecordSet(t) \/ RegisteredAnswered(t)
    BY <2>3 DEF RecordSaved, GoogleCancelled, RecordSet, RegisteredAnswered
  <2>4. CASE UserDeleted(t) \/ Reauthenticated(t) \/ RecordRemoved(t) \/ AuthDeleted(t)
    BY <2>4 DEF UserDeleted, Reauthenticated, RecordRemoved, AuthDeleted
  <2>5. CASE NewEmailGiven(t) \/ \E u \in GoogleUsers : GooglePicked(t, u)
    BY <2>5 DEF NewEmailGiven, GooglePicked
  <2> QED BY <2>1, <2>2, <2>3, <2>4, <2>5 DEF TaskStep
<1>4. CASE LogoutStep
  BY <1>4 DEF LogoutStep, GoogleSignedOut, SignedOut, LogoutFails
<1>5. CASE \E i \in Timers : Tick(i) \/ TickReturns(i)
  BY <1>5 DEF Tick, TickReturns, TickReloaded, TickFails
<1>6. CASE \E u \in Users : LastActiveUpdated(u)
  BY <1>6 DEF LastActiveUpdated
<1>7. CASE UNCHANGED vars
  BY <1>7 DEF vars
<1> QED BY <1>1, <1>2, <1>3, <1>4, <1>5, <1>6, <1>7 DEF Next

\* What the app holds for verified stays verified.
LEMMA CacheStep == TypeOK /\ AwaitsOfOp /\ CacheIsTrue /\ [Next]_vars => CacheIsTrue'
<1> SUFFICES ASSUME TypeOK, AwaitsOfOp, CacheIsTrue, [Next]_vars PROVE CacheIsTrue'
  OBVIOUS
<1>0. /\ account \in [Users -> {"none", "unverified", "verified"}]
      /\ currentUser \in Users \cup {NoUser}
      /\ NoUser \notin Users
      /\ GoogleUsers \subseteq Users /\ PasswordUsers \subseteq Users
      /\ task \in [Tasks -> {Idle} \cup TaskRecords]
      /\ cachedVerified \in BOOLEAN
  BY AccountAssumption DEF TypeOK, Users
<1>1. ASSUME UNCHANGED <<account, currentUser, cachedVerified>>
      PROVE  CacheIsTrue'
  BY <1>1 DEF CacheIsTrue
<1>2. ASSUME NEW t \in Tasks, TaskStep(t)
      PROVE  CacheIsTrue'
  <2>1. CASE SignedIn(t)
    <3>1. task[t].user \in Users
      BY <1>0, <2>1 DEF SignedIn, At, AwaitsOfOp
    <3> QED BY <1>0, <2>1, <3>1 DEF SignedIn, CacheIsTrue, server
  <2>2. CASE Registered(t)
    BY <2>2 DEF Registered, CacheIsTrue
  <2>3. CASE \E u \in GoogleUsers : GooglePicked(t, u)
    BY <1>0, <2>3 DEF GooglePicked, CacheIsTrue
  <2>4. CASE UserDeleted(t) \/ AuthDeleted(t)
    <3>1. \/ UNCHANGED <<account, currentUser, cachedVerified>>
          \/ account' = [account EXCEPT ![task[t].user] = "none"] /\ SignedOutIf(task[t].user)
      BY <2>4 DEF UserDeleted, AuthDeleted, session
    <3>2. CASE account' = [account EXCEPT ![task[t].user] = "none"] /\ SignedOutIf(task[t].user)
      BY <1>0, <3>2 DEF SignedOutIf, CacheIsTrue
    <3> QED BY <1>1, <3>1, <3>2
  <2>5. CASE Refused(t) \/ Connected(t) \/ Throws(t) \/ EmailSynced(t) \/ RecordSaved(t)
             \/ GoogleCancelled(t) \/ RecordSet(t) \/ RegisteredAnswered(t) \/ NotRegistered(t)
             \/ Reauthenticated(t) \/ RecordRemoved(t) \/ NewEmailGiven(t) \/ NewEmailSent(t)
    BY <1>1, <2>5 DEF Refused, Connected, Throws, EmailSynced, RecordSaved, GoogleCancelled, RecordSet,
         RegisteredAnswered, NotRegistered, Reauthenticated, RecordRemoved, NewEmailGiven, NewEmailSent,
         server, session
  <2> QED BY <1>2, <2>1, <2>2, <2>3, <2>4, <2>5 DEF TaskStep
<1>3. CASE SignedOut
  BY <1>3 DEF SignedOut, CacheIsTrue
<1>4. ASSUME NEW u \in PasswordUsers, EmailVerified(u)
      PROVE  CacheIsTrue'
  BY <1>0, <1>4 DEF EmailVerified, CacheIsTrue, session
<1>5. ASSUME NEW i \in Timers, NEW k, TickReloaded(i, k)
      PROVE  CacheIsTrue'
  <2>1. k \in DOMAIN timer[i].ticks /\ timer[i].ticks \in Seq(Users)
    BY <1>5 DEF TickReloaded, TypeOK
  <2>2. timer[i].ticks[k] \in Users
    BY <2>1
  <2> QED BY <1>0, <1>5, <2>2 DEF TickReloaded, CacheIsTrue, server
<1>6. \/ UNCHANGED <<account, currentUser, cachedVerified>>
      \/ \E t \in Tasks : TaskStep(t)
      \/ SignedOut
      \/ \E u \in PasswordUsers : EmailVerified(u)
      \/ \E i \in Timers : \E k \in 1..MaxTicks : TickReloaded(i, k)
  <2>1. CASE OnReady
    BY <2>1 DEF OnReady, server, session
  <2>2. CASE UserStep
    BY <2>2 DEF UserStep, OnboardingDone, OpenScreen, OpenReauthForm, Back, Restart, Begin, BeginLogout,
                CheckEmailVerificationStatus, Continue, server, session
  <2>3. CASE LogoutStep
    BY <2>3 DEF LogoutStep, GoogleSignedOut, LogoutFails, server, session
  <2>4. CASE \E i \in Timers : Tick(i) \/ TickReturns(i)
    BY <2>4 DEF Tick, TickReturns, TickFails, server, session
  <2>5. CASE \E u \in Users : LastActiveUpdated(u)
    BY <2>5 DEF LastActiveUpdated, session
  <2>6. CASE UNCHANGED vars
    BY <2>6 DEF vars
  <2> QED BY <2>1, <2>2, <2>3, <2>4, <2>5, <2>6 DEF Next
<1> QED BY <1>1, <1>2, <1>3, <1>4, <1>5, <1>6

-----------------------------------------------------------------------------
(* What an undisturbed step of a task does to its slot and to the stack.    *)

Ends(t, r) == task' = [task EXCEPT ![t] = Idle] /\ routes' = r

GoesOn(t) == task'[t] # Idle /\ Loading(t)' /\ routes' = routes

\* Its loader is closed, it goes on, it ends in a redirect, in the verify-email
\* screen, in a form or at the login screen, or its tail begins or ends.
Shape(t) ==
    \/ Ends(t, Pop(routes))
    \/ GoesOn(t)
    \/ Ends(t, OffAll(Landing))
    \/ task[t].op = "signup" /\ Ends(t, Append(Pop(routes), "verify"))
    \/ \E x \in {"profile", "changeEmail"} : Ends(t, Off(Pop(routes), x))
    \/ Ends(t, OffAll("login"))
    \/ /\ task[t].op = "updateEmail"
       /\ task'[t] # Idle /\ task'[t].pc = "sending"
       /\ routes' = Pop(routes)

\* An undisturbed step of a task has one of these shapes and leaves a logout
\* alone, or it is the end of updateEmailAddress, which begins one.
LEMMA TaskShapes ==
    ASSUME TypeOK, AwaitsOfOp, MeetingsRecorded, NEW t \in Tasks, TaskStep(t), ~disturbed, ~disturbed'
    PROVE  \/ Loading(t) /\ Shape(t) /\ UNCHANGED logout
           \/ NewEmailSent(t)
<1>0. task \in [Tasks -> {Idle} \cup TaskRecords] /\ task[t] \in TaskRecords /\ task[t] # Idle
  BY OwnSlotOnly DEF TypeOK
<1> USE DEF StopLoading
<1>1. CASE Refused(t)
  BY <1>1 DEF Refused, At, EndTask, Ends, Shape, Loading, background
<1>2. CASE Throws(t)
  BY <1>2 DEF Throws, HalfDone, EndTask, Ends, Shape, Loading, background
<1>3. CASE Connected(t)
  <2>1. task' = [task EXCEPT ![t].pc = CASE task[t].op = "login" -> "signIn"
                                         [] task[t].op = "google" -> "google"
                                         [] task[t].op = "signup" -> "register"
                                         [] OTHER -> "reauth"]
    BY <1>3 DEF Connected, GoOn
  <2>2. task'[t].pc \in {"signIn", "google", "register", "reauth"}
    BY <1>0, <2>1 DEF TaskRecords
  <2>3. task'[t] # Idle
    BY <2>2 DEF Idle
  <2> QED BY <1>3, <2>2, <2>3 DEF Connected, At, GoOn, GoesOn, Shape, Loading, background
<1>4. CASE SignedIn(t)
  <2>1. task'[t].pc = "syncEmail"
    BY <1>0, <1>4 DEF SignedIn, GoOn, TaskRecords
  <2> QED BY <1>4, <2>1 DEF SignedIn, At, GoOn, GoesOn, Shape, Loading, background, Idle
<1>5. CASE Registered(t)
  <2>1. task'[t].pc = "saveRecord"
    BY <1>0, <1>5 DEF Registered, GoOn, TaskRecords
  <2> QED BY <1>5, <2>1 DEF Registered, At, GoOn, GoesOn, Shape, Loading, background, Idle
<1>6. CASE EmailSynced(t) \/ RegisteredAnswered(t)
  BY <1>6 DEF EmailSynced, RegisteredAnswered, At, EndInRedirect, ScreenRedirect, Ends, Shape, Loading
<1>7. CASE RecordSaved(t)
  BY <1>0, <1>7 DEF RecordSaved, At, Ends, Shape, Loading, AwaitsOfOp
<1>8. CASE GoogleCancelled(t) \/ RecordSet(t)
  <2>1. Loading(t)
    BY <1>8 DEF GoogleCancelled, RecordSet, At, Loading
  <2>2. \/ EndTask(t) \/ GoOn(t, "isRegistered")
        \/ DeleteAccount(t, currentUser) \/ ResetEmailNext(t)
    BY <1>8 DEF GoogleCancelled, RecordSet
  <2>3. EndTask(t) => Ends(t, Pop(routes)) /\ UNCHANGED logout
    BY DEF EndTask, Ends, background
  <2>4. CASE GoOn(t, "isRegistered")
    <3>1. task'[t].pc = "isRegistered"
      BY <1>0, <2>4 DEF GoOn, TaskRecords
    <3> QED BY <2>1, <2>4, <3>1 DEF GoOn, GoesOn, Shape, Loading, background, Idle
  <2>5. CASE DeleteAccount(t, currentUser) /\ currentUser # NoUser
    <3>1. task' = [task EXCEPT ![t].pc = "removeRecord", ![t].user = currentUser]
      BY <2>5 DEF DeleteAccount
    <3>2. task'[t].pc = "removeRecord"
      BY <1>0, <3>1 DEF TaskRecords
    <3> QED BY <2>1, <2>5, <3>2 DEF DeleteAccount, GoesOn, Shape, Loading, background, Idle
  <2>6. DeleteAccount(t, currentUser) /\ currentUser = NoUser => EndTask(t)
    BY DEF DeleteAccount
  <2>7. CASE ResetEmailNext(t)
    BY <2>1, <2>7 DEF ResetEmailNext, EndInScreen, Ends, Shape, background
  <2> QED BY <2>1, <2>2, <2>3, <2>4, <2>5, <2>6, <2>7 DEF Shape
<1>9. CASE NotRegistered(t)
  BY <1>9 DEF NotRegistered
<1>10. CASE UserDeleted(t)
  BY <1>10 DEF UserDeleted, At, MeetingsRecorded
<1>11. CASE Reauthenticated(t)
  <2>1. CASE task[t].op = "deletePassword"
    <3>1. task' = [task EXCEPT ![t].pc = "removeRecord", ![t].user = currentUser,
                               ![t].reauthed = (currentUser = task[t].prior)]
      BY <1>11, <2>1 DEF Reauthenticated
    <3>2. task'[t].pc = "removeRecord"
      BY <1>0, <3>1 DEF TaskRecords
    <3> QED BY <1>11, <2>1, <3>2 DEF Reauthenticated, At, GoesOn, Shape, Loading, background, Idle
  <2>2. CASE task[t].op # "deletePassword"
    BY <1>11, <2>2 DEF Reauthenticated, At, EndInScreen, Ends, Shape, Loading, background
  <2> QED BY <2>1, <2>2
<1>12. CASE RecordRemoved(t)
  <2>1. CASE currentUser = NoUser
    BY <1>12, <2>1 DEF RecordRemoved, At, EndInScreen, Ends, Shape, Loading, background
  <2>2. CASE currentUser # NoUser
    <3>1. task' = [task EXCEPT ![t].pc = "deleteAuth", ![t].user = currentUser]
      BY <1>12, <2>2 DEF RecordRemoved
    <3>2. task'[t].pc = "deleteAuth"
      BY <1>0, <3>1 DEF TaskRecords
    <3> QED BY <1>12, <2>2, <3>2 DEF RecordRemoved, At, GoesOn, Shape, Loading, background, Idle
  <2> QED BY <2>1, <2>2
<1>13. CASE AuthDeleted(t)
  BY <1>13 DEF AuthDeleted, At, EndInScreen, Ends, Shape, Loading, background
<1>14. CASE NewEmailGiven(t)
  <2>1. task'[t].pc = "sending"
    BY <1>0, <1>14 DEF NewEmailGiven, TaskRecords
  <2>2. task'[t] # Idle
    BY <2>1 DEF Idle
  <2>3. Loading(t) /\ task[t].op = "updateEmail" /\ routes' = Pop(routes) /\ UNCHANGED logout
    BY <1>14 DEF NewEmailGiven, AtOp, At, Loading, background
  <2>4. Shape(t)
    BY <2>1, <2>2, <2>3 DEF Shape
  <2> QED BY <2>3, <2>4
<1>15. CASE \E u \in GoogleUsers : GooglePicked(t, u)
  <2> PICK u \in GoogleUsers : GooglePicked(t, u)
    BY <1>15
  <2>1. task'[t].pc = "setRecord"
    BY <1>0 DEF GooglePicked, TaskRecords
  <2>2. task'[t] # Idle
    BY <2>1 DEF Idle
  <2>3. Loading(t) /\ routes' = routes /\ UNCHANGED logout
    BY DEF GooglePicked, At, Loading, background
  <2>4. Shape(t)
    BY <2>1, <2>2, <2>3 DEF GoesOn, Shape, Loading
  <2> QED BY <2>3, <2>4
<1> QED
  BY <1>1, <1>2, <1>3, <1>4, <1>5, <1>6, <1>7, <1>8, <1>9, <1>10, <1>11, <1>12, <1>13,
     <1>14, <1>15 DEF TaskStep

\* A logout meets no task without leaving a trace of it, and deleteUser only
\* runs after googleSignIn has been disturbed.
LEMMA MeetingsStep == TypeOK /\ AwaitsOfOp /\ MeetingsRecorded /\ [Next]_vars => MeetingsRecorded'
<1> SUFFICES ASSUME TypeOK, AwaitsOfOp, MeetingsRecorded, [Next]_vars, ~disturbed'
             PROVE  /\ ~(logout' # "idle" /\ Busy')
                    /\ \A t \in Tasks : ~(task'[t] # Idle /\ task'[t].pc = "deleteUser")
  BY DEF MeetingsRecorded
<1>0. ~disturbed /\ task \in [Tasks -> {Idle} \cup TaskRecords]
  BY DisturbedStays DEF TypeOK
<1>1. ASSUME NEW t \in Tasks, TaskStep(t)
      PROVE  /\ ~(logout' # "idle" /\ Busy')
             /\ \A o \in Tasks : ~(task'[o] # Idle /\ task'[o].pc = "deleteUser")
  <2>1. \A o \in Tasks \ {t} : task'[o] = task[o]
    BY <1>1, OwnSlotOnly
  <2>2. CASE NewEmailSent(t)
    <3>1. task' = [task EXCEPT ![t] = Idle] /\ ~ \E o \in Tasks \ {t} : task[o] # Idle
      BY <2>2 DEF NewEmailSent
    <3>2. ~Busy'
      BY <1>0, <2>1, <3>1 DEF Busy
    <3> QED BY <3>2 DEF Busy
  <2>3. CASE Loading(t) /\ Shape(t) /\ UNCHANGED logout
    <3>1. logout' = "idle"
      BY <1>0, <2>3 DEF MeetingsRecorded, Loading, Busy
    <3>2. ~(task'[t] # Idle /\ task'[t].pc = "deleteUser")
      BY <1>0, <2>3 DEF Shape, Ends, GoesOn, Loading
    <3> QED BY <1>0, <2>1, <3>1, <3>2 DEF MeetingsRecorded
  <2> QED BY <1>0, <1>1, <2>2, <2>3, TaskShapes
<1>2. ASSUME NEW t \in Tasks, NEW op \in Ops, NEW u \in PasswordUsers \cup {NoUser}, Begin(t, op, u)
      PROVE  /\ ~(logout' # "idle" /\ Busy')
             /\ \A o \in Tasks : ~(task'[o] # Idle /\ task'[o].pc = "deleteUser")
  <2>1. logout' = "idle"
    BY <1>2 DEF Begin, background
  <2>2. \A o \in Tasks : ~(task'[o] # Idle /\ task'[o].pc = "deleteUser")
    BY <1>0, <1>2 DEF Begin, MeetingsRecorded
  <2> QED BY <2>1, <2>2
<1>3. CASE Restart
  BY <1>3 DEF Restart
<1>4. CASE BeginLogout
  BY <1>0, <1>4 DEF BeginLogout, Busy, MeetingsRecorded
<1>5. ASSUME UNCHANGED task, logout' # "idle" => logout # "idle"
      PROVE  /\ ~(logout' # "idle" /\ Busy')
             /\ \A o \in Tasks : ~(task'[o] # Idle /\ task'[o].pc = "deleteUser")
  BY <1>0, <1>5 DEF Busy, MeetingsRecorded
<1>6. \/ UNCHANGED task /\ (logout' # "idle" => logout # "idle")
      \/ BeginLogout \/ Restart \/ (\E t \in Tasks : TaskStep(t))
      \/ \E t \in Tasks, op \in Ops, u \in PasswordUsers \cup {NoUser} : Begin(t, op, u)
  <2>1. CASE OnReady
    BY <2>1 DEF OnReady
  <2>2. CASE UserStep
    BY <2>2 DEF UserStep, OnboardingDone, OpenScreen, OpenReauthForm, Back,
                CheckEmailVerificationStatus, Continue, EmailVerified, background
  <2>3. CASE LogoutStep
    BY <2>3 DEF LogoutStep, GoogleSignedOut, SignedOut, LogoutFails
  <2>4. CASE \E i \in Timers : Tick(i) \/ TickReturns(i)
    BY <2>4 DEF Tick, TickReturns, TickReloaded, TickFails
  <2>5. CASE \E u \in Users : LastActiveUpdated(u)
    BY <2>5 DEF LastActiveUpdated
  <2>6. CASE UNCHANGED vars
    BY <2>6 DEF vars
  <2> QED BY <2>1, <2>2, <2>3, <2>4, <2>5, <2>6 DEF Next
<1> QED BY <1>1, <1>2, <1>3, <1>4, <1>5, <1>6

-----------------------------------------------------------------------------
(* The stack while nothing is disturbed.                                   *)

\* The facts about tasks and stack that the next lemmas use together.
StackInv == LoaderOnTop /\ SignInOutsideMenu /\ ScreenBelow

\* A task that is loading is alone with its loader, and is the only sign-in.
LEMMA LoadingAlone ==
    ASSUME TypeOK, AwaitsOfOp, MeetingsRecorded, StackInv, ~disturbed, NEW t \in Tasks, Loading(t)
    PROVE  /\ Top = "loader"
           /\ \A o \in Tasks \ {t} : ~Loading(o) /\ ~(task[o] # Idle /\ task[o].op \in SignIns)
<1>1. Top = "loader" /\ \A o \in Tasks \ {t} : ~Loading(o)
  BY DEF StackInv, LoaderOnTop
<1>2. ASSUME NEW o \in Tasks \ {t}, task[o] # Idle, task[o].op \in SignIns
      PROVE  FALSE
  <2>1. task[o].pc \in {"sending", "deleteUser"}
    BY <1>1, <1>2 DEF Loading
  <2>2. task[o].pc # "deleteUser"
    BY <1>2 DEF MeetingsRecorded
  <2>3. task[o].op = "updateEmail"
    BY <1>2, <2>1, <2>2 DEF AwaitsOfOp
  <2> QED BY <1>2, <2>3 DEF SignIns
<1> QED BY <1>1, <1>2

\* A step of a task keeps them.
LEMMA TaskStackStep ==
    ASSUME TypeOK, AwaitsOfOp, MeetingsRecorded, StackInv, NEW t \in Tasks, TaskStep(t), ~disturbed, ~disturbed'
    PROVE  StackInv'
<1>0. /\ routes \in Seq(Screens) /\ Pop(routes) \in Seq(Screens)
      /\ task \in [Tasks -> {Idle} \cup TaskRecords]
  BY PopType DEF TypeOK
<1>1. /\ \A o \in Tasks \ {t} : task'[o] = task[o]
      /\ task'[t] # Idle => task'[t].op = task[t].op
      /\ task[t] # Idle
  BY OwnSlotOnly
<1>2. CASE NewEmailSent(t)
  <2>1. task' = [task EXCEPT ![t] = Idle] /\ ~ \E o \in Tasks \ {t} : task[o] # Idle
    BY <1>2 DEF NewEmailSent
  <2>2. \A o \in Tasks : task'[o] = Idle
    BY <1>0, <1>1, <2>1
  <2>3. routes' = routes
    BY <1>2 DEF NewEmailSent
  <2> QED BY <2>2, <2>3 DEF StackInv, LoaderOnTop, SignInOutsideMenu, ScreenBelow, Loading
<1>3. CASE Loading(t) /\ Shape(t)
  <2>1. /\ Top = "loader"
        /\ \A o \in Tasks \ {t} : ~Loading(o) /\ ~(task[o] # Idle /\ task[o].op \in SignIns)
    BY <1>3, LoadingAlone
  <2>2. \A o \in Tasks \ {t} : ~Loading(o)' /\ ~(task'[o] # Idle /\ task'[o].op \in SignIns)
    BY <1>1, <2>1 DEF Loading
  <2>3. /\ ~(Has(routes, "menu") /\ (Has(routes, "login") \/ Has(routes, "signup")))
        /\ Bottom(routes) \notin {"blank", "loader"}
        /\ task[t].op \in SignIns => ~Has(routes, "menu")
    BY <1>1 DEF StackInv, SignInOutsideMenu, ScreenBelow
  <2>4. /\ Bottom(Pop(routes)) = Bottom(routes)
        /\ \A y : Has(Pop(routes), y) => Has(routes, y)
    BY <1>0, <2>1, <2>3, PopFacts DEF Top
  <2>5. SUFFICES /\ Loading(t)' => TopOf(routes') = "loader"
                 /\ ~(Has(routes', "menu") /\ (Has(routes', "login") \/ Has(routes', "signup")))
                 /\ Bottom(routes') \notin {"blank", "loader"}
                 /\ task'[t] # Idle /\ task'[t].op \in SignIns => ~Has(routes', "menu")
    BY <2>2 DEF StackInv, LoaderOnTop, SignInOutsideMenu, ScreenBelow, Top
  <2>6. \A x \in Screens : Ends(t, OffAll(x)) /\ x \notin {"blank", "loader"} =>
           /\ task'[t] = Idle
           /\ ~(Has(routes', "menu") /\ (Has(routes', "login") \/ Has(routes', "signup")))
           /\ Bottom(routes') \notin {"blank", "loader"}
    <3>1. TAKE x \in Screens
    <3>2. HAVE Ends(t, OffAll(x)) /\ x \notin {"blank", "loader"}
    <3>3. task'[t] = Idle /\ routes' = OffAll(x)
      BY <1>0, <3>2 DEF Ends
    <3>4. Bottom(OffAll(x)) = x /\ \A y : Has(OffAll(x), y) => y = x
      BY OffAllFacts
    <3> QED BY <3>2, <3>3, <3>4
  <2>7. CASE Ends(t, Pop(routes))
    BY <1>0, <2>3, <2>4, <2>7 DEF Ends, Loading
  <2>8. CASE GoesOn(t)
    BY <1>1, <2>1, <2>3, <2>8 DEF GoesOn, Top
  <2>9. CASE Ends(t, OffAll(Landing))
    <3>1. Landing \in Screens /\ Landing \notin {"blank", "loader"}
      BY DEF Landing, Screens
    <3> QED BY <2>6, <2>9, <3>1 DEF Loading
  <2>10. CASE task[t].op = "signup" /\ Ends(t, Append(Pop(routes), "verify"))
    <3>1. "verify" \in Screens
      BY DEF Screens
    <3>2. /\ \A y : Has(routes', y) => Has(Pop(routes), y) \/ y = "verify"
          /\ Bottom(routes') = Bottom(routes)
      BY <1>0, <2>3, <2>4, <2>10, <3>1, AppendFacts DEF Ends
    <3>3. task'[t] = Idle
      BY <1>0, <2>10 DEF Ends
    <3> QED BY <2>3, <2>4, <3>2, <3>3 DEF Loading
  <2>11. CASE \E x \in {"profile", "changeEmail"} : Ends(t, Off(Pop(routes), x))
    <3> PICK x \in {"profile", "changeEmail"} : Ends(t, Off(Pop(routes), x))
      BY <2>11
    <3>1. x \in Screens
      BY DEF Screens
    <3>2. /\ \A y : Has(routes', y) => Has(Pop(routes), y) \/ y = x
          /\ Bottom(routes') \in {x, Bottom(Pop(routes))}
      BY <1>0, <3>1, OffFacts DEF Ends
    <3>3. task'[t] = Idle
      BY <1>0 DEF Ends
    <3> QED BY <2>3, <2>4, <3>2, <3>3 DEF Loading
  <2>12. CASE Ends(t, OffAll("login"))
    <3>1. "login" \in Screens
      BY DEF Screens
    <3> QED BY <2>6, <2>12, <3>1 DEF Loading
  <2>13. CASE /\ task[t].op = "updateEmail"
              /\ task'[t] # Idle /\ task'[t].pc = "sending"
              /\ routes' = Pop(routes)
    BY <1>1, <2>3, <2>4, <2>13 DEF Loading, SignIns
  <2> QED BY <1>3, <2>7, <2>8, <2>9, <2>10, <2>11, <2>12, <2>13 DEF Shape
<1> QED BY <1>2, <1>3, TaskShapes

\* Nothing is loading, and no task is a sign-in.
Calm == \A o \in Tasks : ~Loading(o) /\ ~(task[o] # Idle /\ task[o].op \in SignIns)

\* The user acts on the topmost screen: when that is no loader, all is calm.
LEMMA NoLoaderCalm ==
    ASSUME TypeOK, AwaitsOfOp, MeetingsRecorded, StackInv, ~disturbed, Top # "loader"
    PROVE  Calm
<1>1. \A o \in Tasks : ~Loading(o)
  BY DEF StackInv, LoaderOnTop
<1>2. ASSUME NEW o \in Tasks, task[o] # Idle, task[o].op \in SignIns
      PROVE  FALSE
  <2>1. task[o].pc \in {"sending", "deleteUser"}
    BY <1>1, <1>2 DEF Loading
  <2>2. task[o].pc # "deleteUser"
    BY <1>2 DEF MeetingsRecorded
  <2>3. task[o].op = "updateEmail"
    BY <1>2, <2>1, <2>2 DEF AwaitsOfOp
  <2> QED BY <1>2, <2>3 DEF SignIns
<1> QED BY <1>1, <1>2 DEF Calm

\* The menu is not on a stack with the screens of the sign-in, and there is a
\* screen at the bottom.
Proper(r) ==
    /\ ~(Has(r, "menu") /\ (Has(r, "login") \/ Has(r, "signup")))
    /\ Bottom(r) \notin {"blank", "loader"}

\* While all is calm and no task moves, only the stack itself matters.
LEMMA CalmStack ==
    ASSUME Calm, UNCHANGED task, Proper(routes')
    PROVE  StackInv'
<1>1. Calm'
  BY DEF Calm, Loading
<1> QED BY <1>1 DEF Calm, StackInv, LoaderOnTop, SignInOutsideMenu, ScreenBelow, Proper

\* A stack of one screen is proper.
LEMMA OffAllProper ==
    ASSUME NEW x \in Screens, x \notin {"blank", "loader"}
    PROVE  Proper(OffAll(x))
<1>1. Bottom(OffAll(x)) = x /\ \A y : Has(OffAll(x), y) => y = x
  BY OffAllFacts
<1> QED BY <1>1 DEF Proper

\* So is one with a screen added, or with its topmost replaced by a screen,
\* that is neither the menu nor one of the sign-in.
LEMMA PushProper ==
    ASSUME NEW r \in Seq(Screens), Proper(r),
           NEW x \in Screens, x \notin {"menu", "login", "signup", "loader", "blank"}
    PROVE  Proper(Append(r, x)) /\ Proper(Off(r, x))
<1>1. /\ \A y : Has(Append(r, x), y) => Has(r, y) \/ y = x
      /\ Bottom(Append(r, x)) = Bottom(r)
  BY AppendFacts DEF Proper
<1>2. /\ \A y : Has(Off(r, x), y) => Has(r, y) \/ y = x
      /\ Bottom(Off(r, x)) \in {x, Bottom(r)}
  BY OffFacts
<1> QED BY <1>1, <1>2 DEF Proper

\* The topmost screen is on the stack.
LEMMA TopIsOnStack ==
    ASSUME NEW r \in Seq(Screens), NEW x, TopOf(r) = x, x # "blank"
    PROVE  Has(r, x)
<1>1. r # <<>> /\ r[Len(r)] = x
  BY DEF TopOf
<1>2. Len(r) \in DOMAIN r
  BY <1>1
<1> QED BY <1>1, <1>2 DEF Has

\* Every step keeps what the stack looks like.
LEMMA StackStep ==
    TypeOK /\ AwaitsOfOp /\ MeetingsRecorded /\ StackInv /\ [Next]_vars => StackInv'
<1> SUFFICES ASSUME TypeOK, AwaitsOfOp, MeetingsRecorded, StackInv, [Next]_vars, ~disturbed'
             PROVE  StackInv'
  BY DEF StackInv, LoaderOnTop, SignInOutsideMenu, ScreenBelow
<1>0. /\ ~disturbed
      /\ routes \in Seq(Screens)
      /\ task \in [Tasks -> {Idle} \cup TaskRecords]
  BY DisturbedStays DEF TypeOK
<1>1. Proper(routes)
  BY <1>0 DEF StackInv, SignInOutsideMenu, ScreenBelow, Proper
<1>2. ASSUME UNCHANGED <<routes, task>>
      PROVE  StackInv'
  BY <1>0, <1>2 DEF StackInv, LoaderOnTop, SignInOutsideMenu, ScreenBelow, Loading, Top
<1>3. ASSUME Top # "loader", UNCHANGED task, Proper(routes')
      PROVE  StackInv'
  BY <1>0, <1>3, NoLoaderCalm, CalmStack
<1>4. Proper(OffAll(Landing)) /\ Proper(OffAll("login"))
  <2>1. Landing \in Screens /\ Landing \notin {"blank", "loader"} /\ "login" \in Screens
    BY DEF Landing, Screens
  <2> QED BY <2>1, OffAllProper
<1>5. \A x \in {"profile", "dialog", "reauthDelete", "reauthEmail", "success"} :
         Proper(Append(routes, x)) /\ Proper(Off(routes, x))
  <2>1. TAKE x \in {"profile", "dialog", "reauthDelete", "reauthEmail", "success"}
  <2>2. x \in Screens
    BY DEF Screens
  <2> QED BY <1>0, <1>1, <2>2, PushProper
<1>6. CASE OnReady \/ Continue
  BY <1>3, <1>4, <1>6 DEF OnReady, Continue, ScreenRedirect
<1>7. CASE OnboardingDone
  BY <1>3, <1>4, <1>7 DEF OnboardingDone
<1>8. CASE OpenScreen("login", "signup")
  <2>1. Top = "login" /\ routes' = Append(routes, "signup") /\ UNCHANGED task
    BY <1>8 DEF OpenScreen
  <2>2. Has(routes, "login")
    BY <1>0, <2>1, TopIsOnStack DEF Top
  <2>3. ~Has(routes, "menu")
    BY <1>1, <2>2 DEF Proper
  <2>4. "signup" \in Screens
    BY DEF Screens
  <2>5. /\ Has(Append(routes, "signup"), "menu") => Has(routes, "menu")
        /\ Bottom(Append(routes, "signup")) = Bottom(routes)
    BY <1>0, <1>1, <2>4, AppendFacts DEF Proper
  <2>6. Proper(routes')
    BY <1>1, <2>1, <2>3, <2>5 DEF Proper
  <2> QED BY <1>3, <2>1, <2>6
<1>9. CASE OpenScreen("menu", "profile") \/ OpenScreen("profile", "dialog")
  BY <1>3, <1>5, <1>9 DEF OpenScreen
<1>10. CASE OpenReauthForm("reauthDelete") \/ OpenReauthForm("reauthEmail")
  BY <1>3, <1>5, <1>10 DEF OpenReauthForm
<1>11. CASE Back
  <2>1. Top # "loader" /\ Len(routes) > 1 /\ routes' = Pop(routes) /\ UNCHANGED task
    BY <1>11 DEF Back
  <2>2. Bottom(Pop(routes)) = Bottom(routes) /\ \A y : Has(Pop(routes), y) => Has(routes, y)
    BY <1>0, <2>1, PopFacts
  <2>3. Proper(routes')
    BY <1>1, <2>1, <2>2 DEF Proper
  <2> QED BY <1>3, <2>1, <2>3
<1>12. CASE CheckEmailVerificationStatus
  BY <1>3, <1>5, <1>12 DEF CheckEmailVerificationStatus
<1>13. CASE Restart
  <2>1. \A o \in Tasks : task'[o] = Idle
    BY <1>13 DEF Restart
  <2>2. routes' = OffAll("splash") /\ "splash" \in Screens
    BY <1>13 DEF Restart, OffAll, Screens
  <2>3. Proper(routes')
    BY <2>2, OffAllProper
  <2> QED BY <2>1, <2>3 DEF StackInv, LoaderOnTop, SignInOutsideMenu, ScreenBelow, Proper, Loading
<1>14. ASSUME NEW t \in Tasks, NEW op \in Ops, NEW u \in PasswordUsers \cup {NoUser}, Begin(t, op, u)
       PROVE  StackInv'
  <2>1. /\ Top = CalledFrom[op] /\ task[t] = Idle /\ routes' = Append(routes, "loader")
        /\ task'[t].op = op
        /\ \A o \in Tasks \ {t} : task'[o] = task[o]
    BY <1>0, <1>14 DEF Begin
  <2>2. CalledFrom[op] # "loader"
    BY DEF CalledFrom, Ops
  <2>3. Calm
    BY <1>0, <2>1, <2>2, NoLoaderCalm
  <2>4. \A o \in Tasks \ {t} : ~Loading(o)' /\ ~(task'[o] # Idle /\ task'[o].op \in SignIns)
    BY <2>1, <2>3 DEF Calm, Loading
  <2>5. "loader" \in Screens
    BY DEF Screens
  <2>6. /\ \A y : Has(routes', y) => Has(routes, y) \/ y = "loader"
        /\ TopOf(routes') = "loader"
        /\ Bottom(routes') = Bottom(routes)
    BY <1>0, <1>1, <2>1, <2>5, AppendFacts DEF Proper
  <2>7. op \in SignIns => ~Has(routes, "menu")
    <3>1. HAVE op \in SignIns
    <3>2. Top \in {"login", "signup"}
      BY <2>1, <3>1 DEF CalledFrom, SignIns
    <3>3. Has(routes, "login") \/ Has(routes, "signup")
      BY <1>0, <3>2, TopIsOnStack DEF Top
    <3> QED BY <1>1, <3>3 DEF Proper
  <2>8. /\ LoaderOnTop'
        /\ ScreenBelow'
    BY <1>1, <2>4, <2>6 DEF LoaderOnTop, ScreenBelow, Top, Proper
  <2>9. SignInOutsideMenu'
    BY <1>1, <2>1, <2>4, <2>6, <2>7 DEF SignInOutsideMenu, Proper
  <2> QED BY <2>8, <2>9 DEF StackInv
<1>15. CASE SignedOut
  <2>1. ~Busy
    BY <1>0, <1>15 DEF SignedOut, MeetingsRecorded
  <2>2. Calm
    BY <2>1 DEF Busy, Calm, Loading
  <2> QED BY <1>4, <1>15, <2>2, CalmStack DEF SignedOut
<1>16. ASSUME NEW i \in Timers, NEW k, TickReloaded(i, k)
       PROVE  StackInv'
  <2>1. CASE cachedVerified'
    <3>1. ~Busy
      BY <1>16, <2>1 DEF TickReloaded
    <3>2. Calm
      BY <3>1 DEF Busy, Calm, Loading
    <3> QED BY <1>5, <1>16, <2>1, <3>2, CalmStack DEF TickReloaded
  <2>2. CASE ~cachedVerified'
    BY <1>2, <1>16, <2>2 DEF TickReloaded
  <2> QED BY <2>1, <2>2
<1>17. CASE \E t \in Tasks : TaskStep(t)
  BY <1>0, <1>17, TaskStackStep
<1>18. CASE UserStep
  <2>1. CASE BeginLogout \/ \E u \in PasswordUsers : EmailVerified(u)
    BY <1>2, <2>1 DEF BeginLogout, EmailVerified
  <2> QED BY <1>6, <1>7, <1>8, <1>9, <1>10, <1>11, <1>12, <1>13, <1>14, <1>18, <2>1 DEF UserStep
<1>19. CASE LogoutStep
  BY <1>2, <1>15, <1>19 DEF LogoutStep, GoogleSignedOut, LogoutFails
<1>20. CASE \E i \in Timers : Tick(i) \/ TickReturns(i)
  BY <1>2, <1>16, <1>20 DEF Tick, TickReturns, TickFails
<1>21. CASE \E u \in Users : LastActiveUpdated(u)
  BY <1>2, <1>21 DEF LastActiveUpdated
<1>22. CASE UNCHANGED vars
  BY <1>2, <1>22 DEF vars
<1> QED BY <1>6, <1>17, <1>18, <1>19, <1>20, <1>21, <1>22 DEF Next

-----------------------------------------------------------------------------
(* The menu needs a verified user.                                         *)

\* No undisturbed step of a task puts the menu on the stack, except for the
\* redirect of a verified user.
LEMMA TaskMenu ==
    ASSUME TypeOK, AwaitsOfOp, MeetingsRecorded, NEW t \in Tasks, TaskStep(t), ~disturbed, ~disturbed',
           Has(routes', "menu")
    PROVE  Has(routes, "menu") \/ Landing = "menu"
<1>0. routes \in Seq(Screens) /\ Pop(routes) \in Seq(Screens) /\ "login" \in Screens /\ Landing \in Screens
  BY PopType DEF TypeOK, Landing, Screens
<1>1. CASE NewEmailSent(t)
  BY <1>1 DEF NewEmailSent
<1>2. CASE Shape(t)
  <2>1. Has(Pop(routes), "menu") => Has(routes, "menu")
    BY <1>0, PopFacts
  <2>2. \A x \in Screens : Has(OffAll(x), "menu") => x = "menu"
    BY OffAllFacts
  <2>3. Has(Append(Pop(routes), "verify"), "menu") => Has(Pop(routes), "menu")
    <3>1. "verify" \in Screens
      BY DEF Screens
    <3> QED BY <1>0, <3>1, AppendFacts
  <2>4. \A x \in {"profile", "changeEmail"} : Has(Off(Pop(routes), x), "menu") => Has(Pop(routes), "menu")
    <3>1. TAKE x \in {"profile", "changeEmail"}
    <3>2. x \in Screens
      BY DEF Screens
    <3> QED BY <1>0, <3>2, OffFacts
  <2> QED BY <1>0, <1>2, <2>1, <2>2, <2>3, <2>4 DEF Shape, Ends, GoesOn
<1> QED BY <1>1, <1>2, TaskShapes

\* Every step keeps the menu to verified users.
LEMMA MenuStep ==
    TypeOK /\ AwaitsOfOp /\ MeetingsRecorded /\ CacheIsTrue /\ StackInv /\ MenuNeedsVerified /\ [Next]_vars
        => MenuNeedsVerified'
<1> SUFFICES ASSUME TypeOK, AwaitsOfOp, MeetingsRecorded, CacheIsTrue, StackInv, MenuNeedsVerified,
                    [Next]_vars, ~disturbed', Has(routes', "menu")
             PROVE  currentUser' # NoUser /\ cachedVerified'
  BY DEF MenuNeedsVerified
<1>0. ~disturbed /\ routes \in Seq(Screens)
  BY DisturbedStays DEF TypeOK
<1>1. Landing = "menu" => currentUser # NoUser /\ cachedVerified
  BY DEF Landing
<1>2. ASSUME UNCHANGED session, Has(routes, "menu") \/ Landing = "menu"
      PROVE  currentUser' # NoUser /\ cachedVerified'
  BY <1>0, <1>1, <1>2 DEF MenuNeedsVerified, session
<1>3. \A x \in Screens : Has(OffAll(x), "menu") => x = "menu"
  BY OffAllFacts
<1>4. "login" \in Screens /\ "splash" \in Screens /\ Landing \in Screens
  BY DEF Screens, Landing
<1>5. \A x \in {"signup", "profile", "dialog", "reauthDelete", "reauthEmail", "success", "loader"} :
         /\ Has(Append(routes, x), "menu") => Has(routes, "menu")
         /\ Has(Off(routes, x), "menu") => Has(routes, "menu")
  <2>1. TAKE x \in {"signup", "profile", "dialog", "reauthDelete", "reauthEmail", "success", "loader"}
  <2>2. x \in Screens
    BY DEF Screens
  <2> QED BY <1>0, <2>2, AppendFacts, OffFacts
<1>6. ASSUME NEW t \in Tasks, TaskStep(t)
      PROVE  currentUser' # NoUser /\ cachedVerified'
  <2>1. Has(routes, "menu") \/ Landing = "menu"
    BY <1>0, <1>6, TaskMenu
  <2>2. CASE SignedIn(t) \/ Registered(t)
    <3>1. task[t] # Idle /\ task[t].op \in SignIns /\ routes' = routes
      BY <2>2 DEF SignedIn, Registered, At, AwaitsOfOp, SignIns, GoOn
    <3> QED BY <1>0, <3>1 DEF StackInv, SignInOutsideMenu
  <2>3. CASE \E u \in GoogleUsers : GooglePicked(t, u)
    BY <2>3, AccountAssumption DEF GooglePicked, Users
  <2>4. CASE UserDeleted(t)
    BY <1>0, <2>4 DEF UserDeleted, At, MeetingsRecorded
  <2>5. CASE AuthDeleted(t)
    BY <1>3, <1>4, <2>5 DEF AuthDeleted, EndInScreen
  <2>6. CASE Refused(t) \/ Connected(t) \/ Throws(t) \/ EmailSynced(t) \/ RecordSaved(t)
             \/ GoogleCancelled(t) \/ RecordSet(t) \/ RegisteredAnswered(t) \/ NotRegistered(t)
             \/ Reauthenticated(t) \/ RecordRemoved(t) \/ NewEmailGiven(t) \/ NewEmailSent(t)
    <3>1. UNCHANGED session
      BY <2>6 DEF Refused, Connected, Throws, EmailSynced, RecordSaved, GoogleCancelled, RecordSet,
           RegisteredAnswered, NotRegistered, Reauthenticated, RecordRemoved, NewEmailGiven, NewEmailSent
    <3> QED BY <1>2, <2>1, <3>1
  <2> QED BY <1>6, <2>2, <2>3, <2>4, <2>5, <2>6 DEF TaskStep
<1>7. ASSUME NEW i \in Timers, NEW k, TickReloaded(i, k)
      PROVE  currentUser' # NoUser /\ cachedVerified'
  <2>1. k \in DOMAIN timer[i].ticks /\ timer[i].ticks \in Seq(Users)
    BY <1>7 DEF TickReloaded, TypeOK
  <2>2. timer[i].ticks[k] \in Users /\ NoUser \notin Users
    BY <2>1, AccountAssumption
  <2>3. Has(routes, "menu")
    BY <1>5, <1>7 DEF TickReloaded
  <2>4. currentUser # NoUser /\ cachedVerified /\ account[currentUser] = "verified"
    BY <1>0, <2>3 DEF MenuNeedsVerified, CacheIsTrue
  <2> QED BY <1>7, <2>2, <2>4 DEF TickReloaded
<1>8. CASE OnReady \/ Continue
  BY <1>2, <1>3, <1>4, <1>8 DEF OnReady, Continue, ScreenRedirect
<1>9. CASE OnboardingDone
  BY <1>3, <1>4, <1>9 DEF OnboardingDone
<1>10. CASE OpenScreen("login", "signup") \/ OpenScreen("menu", "profile") \/ OpenScreen("profile", "dialog")
            \/ OpenReauthForm("reauthDelete") \/ OpenReauthForm("reauthEmail")
            \/ CheckEmailVerificationStatus
  BY <1>2, <1>5, <1>10 DEF OpenScreen, OpenReauthForm, CheckEmailVerificationStatus
<1>11. CASE Back
  BY <1>0, <1>2, <1>11, PopFacts DEF Back
<1>12. CASE Restart
  BY <1>3, <1>4, <1>12 DEF Restart, OffAll
<1>13. CASE \E t \in Tasks, op \in Ops, u \in PasswordUsers \cup {NoUser} : Begin(t, op, u)
  BY <1>2, <1>5, <1>13 DEF Begin
<1>14. CASE BeginLogout \/ \E u \in PasswordUsers : EmailVerified(u)
  BY <1>2, <1>14 DEF BeginLogout, EmailVerified
<1>15. CASE LogoutStep
  BY <1>2, <1>3, <1>4, <1>15 DEF LogoutStep, SignedOut, GoogleSignedOut, LogoutFails
<1>16. CASE \E i \in Timers : Tick(i) \/ TickReturns(i)
  BY <1>2, <1>7, <1>16 DEF Tick, TickReturns, TickFails
<1>17. CASE \E u \in Users : LastActiveUpdated(u)
  BY <1>2, <1>17 DEF LastActiveUpdated
<1>18. CASE UNCHANGED vars
  BY <1>2, <1>18 DEF vars, session
<1> QED BY <1>6, <1>8, <1>9, <1>10, <1>11, <1>12, <1>13, <1>14, <1>15, <1>16, <1>17, <1>18 DEF Next, UserStep

-----------------------------------------------------------------------------
(* Accounts and records.                                                   *)

Matched(u) == record[u] <=> account[u] # "none"

\* t stands between its two writes on u.
Between(t, u) ==
    task[t] # Idle /\ task[t].pc \in {"setRecord", "saveRecord", "deleteAuth"} /\ task[t].user = u

\* What t relies on for its next write.
Relies(t) == task[t] # Idle =>
    /\ task[t].pc \in {"setRecord", "saveRecord"} => account[task[t].user] # "none"
    /\ task[t].pc = "removeRecord" => task[t].user = currentUser
    /\ task[t].pc = "deleteAuth" => ~record[task[t].user]

\* A loading task is the only one that can owe a write: it is enough to look
\* at its own step.
LEMMA OwnDebt ==
    ASSUME TypeOK, AwaitsOfOp, MeetingsRecorded, StackInv, ~disturbed,
           NEW t \in Tasks, Loading(t), TaskStep(t),
           Relies(t)', \A u \in Users : Matched(u)' \/ Between(t, u)'
    PROVE  RecordOwed'
<1>1. \A o \in Tasks \ {t} : task'[o] = task[o] /\ ~Loading(o)
  BY OwnSlotOnly, LoadingAlone
<1>2. \A o \in Tasks \ {t} : Relies(o)'
  BY <1>1 DEF Relies, Loading
<1>3. \A o \in Tasks : Relies(o)'
  BY <1>2
<1> QED BY <1>3 DEF RecordOwed, Relies, Matched, Between

\* A step of a task keeps accounts and records together but for what it owes.
LEMMA TaskRecordStep ==
    ASSUME TypeOK, AwaitsOfOp, MeetingsRecorded, StackInv, RecordOwed,
           NEW t \in Tasks, TaskStep(t), ~disturbed, ~disturbed'
    PROVE  RecordOwed'
<1>0. /\ task \in [Tasks -> {Idle} \cup TaskRecords] /\ task[t] \in TaskRecords /\ task[t] # Idle
      /\ account \in [Users -> {"none", "unverified", "verified"}]
      /\ record \in [Users -> BOOLEAN]
      /\ currentUser \in Users \cup {NoUser} /\ NoUser \notin Users
      /\ GoogleUsers \subseteq Users
      /\ task'[t] # Idle => task'[t].op = task[t].op
  BY OwnSlotOnly, AccountAssumption DEF TypeOK, Users
<1>1. CASE NewEmailSent(t)
  <2>1. /\ task' = [task EXCEPT ![t] = Idle] /\ ~ \E o \in Tasks \ {t} : task[o] # Idle
        /\ task[t].pc = "sending" /\ UNCHANGED server
    BY <1>1 DEF NewEmailSent, At
  <2>2. \A o \in Tasks : task'[o] = Idle
    BY <1>0, <2>1
  <2>3. \A u \in Users : Matched(u)
    BY <2>1 DEF RecordOwed, Matched
  <2> QED BY <2>1, <2>2, <2>3 DEF RecordOwed, Matched, server
<1>2. CASE Loading(t)
  <2>1. \A o \in Tasks \ {t} : ~Loading(o)
    BY <1>2, LoadingAlone
  <2>2. \A u \in Users : Matched(u) \/ Between(t, u)
    BY <2>1 DEF RecordOwed, Matched, Between, Loading
  <2>3. Relies(t)
    BY DEF RecordOwed, Relies
  <2>4. SUFFICES Relies(t)' /\ \A u \in Users : Matched(u)' \/ Between(t, u)'
    BY <1>2, OwnDebt
  <2>5. ASSUME UNCHANGED server, task[t].pc \notin {"setRecord", "saveRecord", "deleteAuth"},
               \/ task'[t] = Idle
               \/ task'[t].pc \notin {"setRecord", "saveRecord", "deleteAuth", "removeRecord"}
               \/ task'[t].pc = "removeRecord" /\ task'[t].user = currentUser'
        PROVE  Relies(t)' /\ \A u \in Users : Matched(u)' \/ Between(t, u)'
    <3>1. Relies(t)'
      BY <2>5 DEF Relies
    <3>2. \A u \in Users : Matched(u)'
      BY <2>2, <2>5 DEF Matched, Between, server
    <3> QED BY <3>1, <3>2
  <2>6. DeleteAccount(t, currentUser) => \/ task'[t] = Idle
                                         \/ task'[t].pc = "removeRecord" /\ task'[t].user = currentUser
    BY <1>0 DEF DeleteAccount, EndTask, TaskRecords
  <2>7. CASE Refused(t) \/ Throws(t)
    BY <1>0, <2>5, <2>7 DEF Refused, Throws, HalfDone, At, EndTask
  <2>8. CASE Connected(t)
    <3>1. task' = [task EXCEPT ![t].pc = CASE task[t].op = "login" -> "signIn"
                                           [] task[t].op = "google" -> "google"
                                           [] task[t].op = "signup" -> "register"
                                           [] OTHER -> "reauth"]
      BY <2>8 DEF Connected, GoOn
    <3>2. task'[t].pc \in {"signIn", "google", "register", "reauth"}
      BY <1>0, <3>1 DEF TaskRecords
    <3> QED BY <2>5, <2>8, <3>2 DEF Connected, At
  <2>9. CASE SignedIn(t)
    <3>1. task'[t].pc = "syncEmail"
      BY <1>0, <2>9 DEF SignedIn, GoOn, TaskRecords
    <3> QED BY <2>5, <2>9, <3>1 DEF SignedIn, At
  <2>10. CASE EmailSynced(t) \/ RegisteredAnswered(t)
    BY <1>0, <2>5, <2>10 DEF EmailSynced, RegisteredAnswered, At, EndInRedirect
  <2>11. CASE Registered(t)
    <3>0. task[t].user \in Users
      BY <2>11 DEF Registered, At, AwaitsOfOp
    <3> PICK w \in Users : w = task[t].user
      BY <3>0
    <3>1. /\ task[t].pc = "register"
          /\ account' = [account EXCEPT ![w] = "unverified"] /\ record' = record
      BY <2>11 DEF Registered, At
    <3>2. task'[t].pc = "saveRecord" /\ task'[t].user = w /\ task'[t] # Idle
      BY <1>0, <2>11 DEF Registered, GoOn, TaskRecords, Idle
    <3>3. account'[w] = "unverified" /\ \A u \in Users \ {w} : account'[u] = account[u]
      BY <1>0, <3>1
    <3>4. \A u \in Users : Matched(u)
      BY <2>2, <3>1 DEF Between
    <3>5. Relies(t)'
      BY <3>2, <3>3 DEF Relies
    <3>6. \A u \in Users \ {w} : Matched(u)'
      BY <3>1, <3>3, <3>4 DEF Matched
    <3>7. Between(t, w)'
      BY <3>2 DEF Between
    <3> QED BY <3>5, <3>6, <3>7
  <2>12. CASE \E u \in GoogleUsers : GooglePicked(t, u)
    <3> PICK w \in GoogleUsers : GooglePicked(t, w)
      BY <2>12
    <3>1. w \in Users /\ task[t].pc = "google"
          /\ account' = [account EXCEPT ![w] = "verified"] /\ record' = record
      BY <1>0 DEF GooglePicked, At
    <3>2. task'[t].pc = "setRecord" /\ task'[t].user = w
      BY <1>0, <3>1 DEF GooglePicked, TaskRecords
    <3>3. task'[t] # Idle
      BY <3>2 DEF Idle
    <3>4. account'[w] = "verified" /\ \A u \in Users \ {w} : account'[u] = account[u]
      BY <1>0, <3>1
    <3>5. \A u \in Users : Matched(u)
      BY <2>2, <3>1 DEF Between
    <3>6. Relies(t)'
      BY <3>2, <3>4 DEF Relies
    <3>7. \A u \in Users \ {w} : Matched(u)'
      BY <3>1, <3>4, <3>5 DEF Matched
    <3>8. Between(t, w)'
      BY <3>2, <3>3 DEF Between
    <3> QED BY <3>6, <3>7, <3>8
  <2>13. CASE RecordSaved(t) \/ RecordSet(t)
    <3> DEFINE w == task[t].user
    <3>1. /\ w \in Users /\ task[t].pc \in {"saveRecord", "setRecord"}
          /\ record' = [record EXCEPT ![w] = TRUE] /\ account' = account
          /\ currentUser' = currentUser
      BY <2>13 DEF RecordSaved, RecordSet, At, AwaitsOfOp, session
    <3>2. \A u \in Users : Matched(u)'
      BY <1>0, <2>2, <2>3, <3>1 DEF Matched, Between, Relies
    <3>3. RecordSaved(t) => task'[t] = Idle
      BY <1>0 DEF RecordSaved
    <3>4. RecordSet(t) => \/ task'[t] = Idle \/ task'[t].pc = "isRegistered"
                          \/ task'[t].pc = "removeRecord" /\ task'[t].user = currentUser
      <4>1. HAVE RecordSet(t)
      <4>2. GoOn(t, "isRegistered") \/ DeleteAccount(t, currentUser) \/ ResetEmailNext(t)
        BY <4>1 DEF RecordSet
      <4>3. GoOn(t, "isRegistered") => task'[t].pc = "isRegistered"
        BY <1>0 DEF GoOn, TaskRecords
      <4>4. ResetEmailNext(t) => task'[t] = Idle
        BY <1>0 DEF ResetEmailNext, EndInScreen
      <4> QED BY <2>6, <4>2, <4>3, <4>4
    <3>5. Relies(t)'
      BY <2>13, <3>1, <3>3, <3>4 DEF Relies
    <3> QED BY <3>2, <3>5
  <2>14. CASE GoogleCancelled(t)
    <3>1. EndTask(t) \/ DeleteAccount(t, currentUser) \/ ResetEmailNext(t)
      BY <2>14 DEF GoogleCancelled
    <3>2. EndTask(t) \/ ResetEmailNext(t) => task'[t] = Idle
      BY <1>0 DEF EndTask, ResetEmailNext, EndInScreen
    <3>3. task[t].pc = "google" /\ UNCHANGED server /\ currentUser' = currentUser
      BY <2>14 DEF GoogleCancelled, At, session
    <3> QED BY <2>5, <2>6, <3>1, <3>2, <3>3
  <2>15. CASE NotRegistered(t) \/ UserDeleted(t)
    BY <2>15 DEF NotRegistered, UserDeleted, At, MeetingsRecorded
  <2>16. CASE Reauthenticated(t)
    <3>1. task[t].pc = "reauth" /\ UNCHANGED server /\ currentUser' = currentUser
      BY <2>16 DEF Reauthenticated, At, session
    <3>2. CASE task[t].op = "deletePassword"
      <4>1. task' = [task EXCEPT ![t].pc = "removeRecord", ![t].user = currentUser,
                                 ![t].reauthed = (currentUser = task[t].prior)]
        BY <2>16, <3>2 DEF Reauthenticated
      <4>2. task'[t].pc = "removeRecord" /\ task'[t].user = currentUser
        BY <1>0, <4>1 DEF TaskRecords
      <4> QED BY <2>5, <3>1, <4>2
    <3>3. CASE task[t].op # "deletePassword"
      BY <1>0, <2>5, <2>16, <3>1, <3>3 DEF Reauthenticated, EndInScreen
    <3> QED BY <3>2, <3>3
  <2>17. CASE RecordRemoved(t)
    <3>0. task[t].user \in Users
      BY <2>17 DEF RecordRemoved, At, AwaitsOfOp
    <3> PICK w \in Users : w = task[t].user
      BY <3>0
    <3>1. /\ task[t].pc = "removeRecord" /\ w = currentUser
          /\ record' = [record EXCEPT ![w] = FALSE] /\ account' = account
      BY <2>3, <2>17 DEF RecordRemoved, At, Relies
    <3>2. task' = [task EXCEPT ![t].pc = "deleteAuth", ![t].user = currentUser]
      BY <1>0, <2>17, <3>1 DEF RecordRemoved
    <3>3. task'[t].pc = "deleteAuth" /\ task'[t].user = w
      BY <1>0, <3>1, <3>2 DEF TaskRecords
    <3>4. task'[t] # Idle
      BY <3>3 DEF Idle
    <3>5. record'[w] = FALSE /\ \A u \in Users \ {w} : record'[u] = record[u]
      BY <1>0, <3>1
    <3>6. Relies(t)'
      BY <3>3, <3>5 DEF Relies
    <3>7. \A u \in Users \ {w} : Matched(u)'
      BY <2>2, <3>1, <3>5 DEF Matched, Between
    <3>8. Between(t, w)'
      BY <3>3, <3>4 DEF Between
    <3> QED BY <3>6, <3>7, <3>8
  <2>18. CASE AuthDeleted(t)
    <3> DEFINE w == task[t].user
    <3>1. /\ w \in Users /\ task[t].pc = "deleteAuth" /\ ~record[w]
          /\ account' = [account EXCEPT ![w] = "none"] /\ record' = record
      BY <2>3, <2>18 DEF AuthDeleted, At, AwaitsOfOp, Relies
    <3>2. \A u \in Users : Matched(u)'
      BY <1>0, <2>2, <3>1 DEF Matched, Between
    <3>3. task'[t] = Idle
      BY <1>0, <2>18 DEF AuthDeleted, EndInScreen
    <3> QED BY <3>2, <3>3 DEF Relies
  <2>19. CASE NewEmailGiven(t)
    <3>1. task'[t].pc = "sending"
      BY <1>0, <2>19 DEF NewEmailGiven, TaskRecords
    <3> QED BY <2>5, <2>19, <3>1 DEF NewEmailGiven, AtOp, At
  <2>20. ~NewEmailSent(t)
    BY <1>2 DEF NewEmailSent, At, Loading
  <2> QED BY <2>7, <2>8, <2>9, <2>10, <2>11, <2>12, <2>13, <2>14, <2>15, <2>16, <2>17, <2>18,
             <2>19, <2>20 DEF TaskStep
<1> QED BY <1>1, <1>2, TaskShapes

\* Every step keeps accounts and records together but for what is owed.
LEMMA RecordStep ==
    TypeOK /\ AwaitsOfOp /\ MeetingsRecorded /\ StackInv /\ RecordOwed /\ [Next]_vars => RecordOwed'
<1> SUFFICES ASSUME TypeOK, AwaitsOfOp, MeetingsRecorded, StackInv, RecordOwed, [Next]_vars, ~disturbed'
             PROVE  RecordOwed'
  BY DEF RecordOwed
<1>0. /\ ~disturbed
      /\ task \in [Tasks -> {Idle} \cup TaskRecords]
      /\ account \in [Users -> {"none", "unverified", "verified"}]
      /\ record \in [Users -> BOOLEAN]
  BY DisturbedStays DEF TypeOK
<1>1. ASSUME UNCHANGED task, UNCHANGED record, currentUser' = currentUser,
             \A u \in Users : account'[u] = "none" <=> account[u] = "none"
      PROVE  RecordOwed'
  <2>1. ASSUME NEW t \in Tasks, task[t] # Idle, task[t].pc \in {"setRecord", "saveRecord"}
        PROVE  task[t].user \in Users
    BY <2>1 DEF AwaitsOfOp
  <2> QED BY <1>0, <1>1, <2>1 DEF RecordOwed
<1>2. ASSUME UNCHANGED <<task, account, record, currentUser>>
      PROVE  RecordOwed'
  BY <1>1, <1>2
<1>3. ASSUME ~Busy, \A t \in Tasks : task'[t] = Idle, UNCHANGED server
      PROVE  RecordOwed'
  BY <1>0, <1>3 DEF RecordOwed, Busy, server
<1>4. ASSUME NEW t \in Tasks, NEW op \in Ops, NEW u \in PasswordUsers \cup {NoUser}, Begin(t, op, u)
      PROVE  RecordOwed'
  <2>1. /\ task[t] = Idle /\ UNCHANGED <<account, record, currentUser>>
        /\ task'[t].pc \in {"google", "connect"}
        /\ \A o \in Tasks \ {t} : task'[o] = task[o]
    BY <1>0, <1>4 DEF Begin, server, session
  <2>2. \A o \in Tasks : task'[o] = task[o] \/ task'[o].pc \in {"google", "connect"}
    BY <2>1
  <2>3. \A w \in Users, o \in Tasks : Between(o, w) => Between(o, w)'
    BY <2>1 DEF Between
  <2>4. \A o \in Tasks : Relies(o)'
    BY <1>0, <2>1, <2>2 DEF Relies, RecordOwed
  <2>5. \A w \in Users : Matched(w)' \/ \E o \in Tasks : Between(o, w)'
    BY <1>0, <2>1, <2>3 DEF RecordOwed, Matched, Between
  <2> QED BY <2>4, <2>5 DEF RecordOwed, Relies, Matched, Between
<1>5. CASE Restart
  BY <1>3, <1>5 DEF Restart
<1>6. CASE SignedOut
  <2>1. ~Busy
    BY <1>0, <1>6 DEF SignedOut, MeetingsRecorded
  <2> QED BY <1>3, <1>6, <2>1 DEF SignedOut, Busy
<1>7. CASE \E u \in PasswordUsers : EmailVerified(u)
  <2> PICK u \in PasswordUsers : EmailVerified(u)
    BY <1>7
  <2>1. u \in Users
    BY DEF Users
  <2>2. \A w \in Users : account'[w] = "none" <=> account[w] = "none"
    BY <1>0, <2>1 DEF EmailVerified
  <2> QED BY <1>1, <2>2 DEF EmailVerified, session
<1>8. CASE \E u \in Users : LastActiveUpdated(u)
  <2>1. record' = record
    BY <1>0, <1>8 DEF LastActiveUpdated, UpdateDoc
  <2> QED BY <1>2, <1>8, <2>1 DEF LastActiveUpdated, session
<1>9. CASE \E t \in Tasks : TaskStep(t)
  BY <1>0, <1>9, TaskRecordStep
<1>10. CASE OnReady \/ Continue
  BY <1>2, <1>10 DEF OnReady, Continue, server, session
<1>11. CASE OnboardingDone \/ Back \/ BeginLogout \/ CheckEmailVerificationStatus
            \/ OpenReauthForm("reauthDelete") \/ OpenReauthForm("reauthEmail")
            \/ OpenScreen("login", "signup") \/ OpenScreen("menu", "profile") \/ OpenScreen("profile", "dialog")
  BY <1>2, <1>11 DEF OnboardingDone, Back, BeginLogout, CheckEmailVerificationStatus, OpenReauthForm,
         OpenScreen, server, session
<1>12. CASE LogoutStep
  BY <1>2, <1>6, <1>12 DEF LogoutStep, GoogleSignedOut, LogoutFails, server, session
<1>13. CASE \E i \in Timers : Tick(i) \/ TickReturns(i)
  BY <1>2, <1>13 DEF Tick, TickReturns, TickReloaded, TickFails, server, session
<1>14. CASE UNCHANGED vars
  BY <1>2, <1>14 DEF vars
<1> QED BY <1>4, <1>5, <1>7, <1>8, <1>9, <1>10, <1>11, <1>12, <1>13, <1>14 DEF Next, UserStep

-----------------------------------------------------------------------------
(* The theorems.                                                           *)

\* The app starts at the splash screen with accounts and records together.
LEMMA SessionInit == Init => SessionInv
<1> SUFFICES ASSUME Init PROVE SessionInv
  OBVIOUS
<1>0. TypeOK
  BY TypeInit
<1>1. \A t \in Tasks : task[t] = Idle
  BY DEF Init
<1>2. AwaitsOfOp /\ MeetingsRecorded /\ LoaderOnTop
  BY <1>1 DEF Init, AwaitsOfOp, MeetingsRecorded, LoaderOnTop, Loading, Busy
<1>3. CacheIsTrue
  BY DEF Init, CacheIsTrue
<1>4. Bottom(routes) = "splash" /\ \A y : Has(routes, y) => y = "splash"
  <2>1. routes = OffAll("splash") /\ "splash" \in Screens
    BY DEF Init, OffAll, Screens
  <2> QED BY <2>1, OffAllFacts
<1>5. SignInOutsideMenu /\ ScreenBelow /\ MenuNeedsVerified
  BY <1>1, <1>4 DEF SignInOutsideMenu, ScreenBelow, MenuNeedsVerified
<1>6. RecordOwed
  BY <1>1 DEF Init, RecordOwed
<1> QED BY <1>0, <1>2, <1>3, <1>5, <1>6 DEF SessionInv

\* SessionInv, the inductive invariant of the tasks, the stack and the two
\* stores, holds of every behaviour of the app.
THEOREM SessionInvariant == Spec => []SessionInv
<1>1. SessionInv /\ [Next]_vars => SessionInv'
  <2> SUFFICES ASSUME SessionInv, [Next]_vars PROVE SessionInv'
    OBVIOUS
  <2>1. TypeOK' /\ AwaitsOfOp' /\ CacheIsTrue' /\ MeetingsRecorded'
    BY TypeStep, AwaitsStep, CacheStep, MeetingsStep DEF SessionInv
  <2>2. StackInv' /\ MenuNeedsVerified' /\ RecordOwed'
    BY StackStep, MenuStep, RecordStep DEF SessionInv, StackInv
  <2> QED BY <2>1, <2>2 DEF SessionInv, StackInv
<1> QED BY <1>1, SessionInit, PTL DEF Spec

\* The menu is only on the stack for a signed-in user whose email screenRedirect
\* or the verify-email timer has found verified, unless a task was disturbed.
THEOREM MenuOnlyForVerified == Spec => []MenuNeedsVerified
<1>1. SessionInv => MenuNeedsVerified
  BY DEF SessionInv
<1> QED BY <1>1, SessionInvariant, PTL

\* When no task is under way, sign-up, Google sign-in and account deletion have
\* left the Firebase account and the Users document both there or both gone.
THEOREM AccountsHaveRecords == Spec => []RecordsMatchAccounts
<1>1. SessionInv => RecordsMatchAccounts
  BY DEF SessionInv, RecordOwed, RecordsMatchAccounts, Busy
<1> QED BY <1>1, SessionInvariant, PTL

\* stopLoading never pops the last screen of the stack while tasks run
\* undisturbed.
THEOREM AlwaysAScreen == Spec => []NeverBlank
<1>1. SessionInv => NeverBlank
  BY DEF SessionInv, ScreenBelow, NeverBlank, Bottom
<1> QED BY <1>1, SessionInvariant, PTL
=============================================================================
