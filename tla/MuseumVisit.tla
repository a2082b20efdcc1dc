----------------------------- MODULE MuseumVisit -----------------------------
(***************************************************************************)
(* The museum visit: the QR scanner screen, QRCodeController, the museum   *)
(* logbook in Firestore and the AR camera screen that a matching scan      *)
(* opens.  The camera reports a code many times a second, the user may     *)
(* leave a screen while a call is in flight, and each call may fail.       *)
(*                                                                         *)
(* Each scanner screen gets its QRCodeController from Get.put, which       *)
(* creates one unless one is registered; leaving the screen unregisters    *)
(* it.  Whether the AR screen that replaces the scanner still finds the    *)
(* scanner's controller or gets a new one depends on when the router       *)
(* disposes of the replaced route, so both are allowed (ReuseChoices).     *)
(***************************************************************************)
EXTENDS Naturals, Sequences, FiniteSets

CONSTANTS
    Codes,         \* the non-empty strings a QR code may hold
    NoCode,        \* the document QR_Code/currentQRCode does not exist
    NoLog,         \* the empty documentId ''
    ReuseChoices,  \* may the AR screen find the scanner's controller?
    MaxScreens,    \* bound: scanner screens opened in one behaviour
    MaxChecks      \* bound: calls of checkQRCode in one behaviour

Checks == 1..MaxChecks

\* Controller s is created by the s-th scanner screen, and ARController(k) by
\* the AR screen that check k opens, if that one creates its own.
Controllers == 1..(MaxScreens + MaxChecks)
ARController(k) == MaxScreens + k

ASSUME MuseumVisitAssumption ==
    /\ NoCode \notin Codes
    /\ NoLog \notin Nat
    /\ ReuseChoices \subseteq BOOLEAN /\ ReuseChoices # {}
    /\ MaxScreens \in Nat
    /\ MaxChecks \in Nat

VARIABLES
    currentCode,    \* QR_Code/currentQRCode, changed by the museum's staff
    routes,         \* the navigator's stack of screens, topmost last
    opened,         \* number of scanner screens opened so far
    registered,     \* the controller of the scanner or AR screen, 0 for none
    scanCompleted,  \* scanCompleted[c]
    documentId,     \* documentId[c]: the log of controller c, or NoLog
    check,          \* check[k]: the k-th call of checkQRCode; late is history,
                    \* its scanner was left before the AR screen opened
    logbook,        \* the documents of Museum_Logbook, in order of creation
    timeOuts        \* logs with a call of updateTimeOut in flight

vars == <<currentCode, routes, opened, registered, scanCompleted, documentId,
          check, logbook, timeOuts>>

Logs == [ctl : Controllers, UserId : {"visitor", ""},
         TimeOut : {"null", "set"}, timeOut : {"absent", "set"}]

CheckStates == {"unused", "checking", "fetching", "adding", "denied", "error", "granted"}

Screens == {"menu", "scanner", "ar"}

TypeOK ==
    /\ currentCode \in Codes \cup {NoCode}
    /\ routes \in Seq(Screens)
    /\ opened \in 0..MaxScreens
    /\ registered \in Controllers \cup {0}
    /\ scanCompleted \in [Controllers -> BOOLEAN]
    /\ documentId \in [Controllers -> {NoLog} \cup (DOMAIN logbook)]
    /\ check \in [Checks -> [pc : CheckStates, ctl : Controllers \cup {0},
                             code : Codes \cup {NoCode}, UserId : {"visitor", ""},
                             late : BOOLEAN]]
    /\ logbook \in Seq(Logs)
    /\ timeOuts \subseteq DOMAIN logbook

Init ==
    /\ currentCode \in Codes \cup {NoCode}
    /\ routes = <<"menu">>
    /\ opened = 0
    /\ registered = 0
    /\ scanCompleted = [c \in Controllers |-> FALSE]
    /\ documentId = [c \in Controllers |-> NoLog]
    /\ check = [k \in Checks |-> [pc |-> "unused", ctl |-> 0, code |-> NoCode, UserId |-> "",
                              late |-> FALSE]]
    /\ logbook = <<>>
    /\ timeOuts = {}

-----------------------------------------------------------------------------
Top == IF routes = <<>> THEN "blank" ELSE routes[Len(routes)]

\* The staff publishes another code, or removes it.
CodeChanges ==
    /\ \E c \in Codes \cup {NoCode} : c # currentCode /\ currentCode' = c
    /\ UNCHANGED <<routes, opened, registered, scanCompleted, documentId, check, logbook, timeOuts>>

\* The button of the home banner: Get.to, and Get.put in the screen's state.
OpenScanner ==
    /\ Top = "menu"
    /\ opened < MaxScreens
    /\ routes' = Append(routes, "scanner")
    /\ opened' = opened + 1
    /\ registered' = opened + 1
    /\ UNCHANGED <<currentCode, scanCompleted, documentId, check, logbook, timeOuts>>

\* The back arrow; a check in flight goes on.
LeaveScanner ==
    /\ Top = "scanner"
    /\ routes' = SubSeq(routes, 1, Len(routes) - 1)
    /\ registered' = 0
    /\ UNCHANGED <<currentCode, opened, scanCompleted, documentId, check, logbook, timeOuts>>

\* The camera reports a code: onDetect, and checkQRCode up to its first await.
OnDetectFlagLater(k, code) ==
    /\ Top = "scanner"
    /\ ~scanCompleted[registered]
    /\ check[k].pc = "unused"
    /\ \A j \in Checks : j < k => check[j].pc # "unused"
    /\ check' = [check EXCEPT ![k] = [pc |-> "checking", ctl |-> registered,
                                      code |-> code, UserId |-> "", late |-> FALSE]]
    /\ UNCHANGED <<currentCode, routes, opened, registered, scanCompleted, documentId, logbook, timeOuts>>
OnDetect(k, code) ==
    /\ Top = "scanner"
    /\ ~scanCompleted[registered]
    /\ check[k].pc = "unused"
    /\ \A j \in Checks : j < k => check[j].pc # "unused"
    /\ scanCompleted' = [scanCompleted EXCEPT ![registered] = TRUE]
    /\ check' = [check EXCEPT ![k] = [pc |-> "checking", ctl |-> registered,
                                      code |-> code, UserId |-> "", late |-> FALSE]]
    /\ UNCHANGED <<currentCode, routes, opened, registered, documentId, logbook, timeOuts>>

\* getCurrentQRCode answers: a match goes on to logMuseumVisit.
CodeAnswered(k) ==
    /\ check[k].pc = "checking"
    /\ check' = [check EXCEPT ![k].pc = IF currentCode = check[k].code THEN "fetching" ELSE "denied"]
    /\ UNCHANGED <<currentCode, routes, opened, registered, scanCompleted, documentId, logbook, timeOuts>>

CodeFailed(k) ==
    /\ check[k].pc = "checking"
    /\ check' = [check EXCEPT ![k].pc = "error"]
    /\ UNCHANGED <<currentCode, routes, opened, registered, scanCompleted, documentId, logbook, timeOuts>>

\* fetchUserRecord returns.  It catches its own errors and leaves the empty
\* user, whose id is ''.
UserFetched(k) ==
    /\ check[k].pc = "fetching"
    /\ \E u \in {"visitor", ""} :
         check' = [check EXCEPT ![k].pc = "adding", ![k].UserId = u]
    /\ UNCHANGED <<currentCode, routes, opened, registered, scanCompleted, documentId, logbook, timeOuts>>

\* Get.off: the AR screen takes the place of the topmost screen, whichever
\* that is by now, and asks Get.put for its controller.
EnterARAlone(k) ==
    /\ check' = [check EXCEPT ![k].pc = "granted", ![k].late = check[k].ctl # registered]
    /\ routes' = <<"ar">>
    /\ \E reuse \in ReuseChoices :
         registered' = IF reuse /\ registered # 0 THEN registered ELSE ARController(k)
EnterAR(k) ==
    /\ check' = [check EXCEPT ![k].pc = "granted", ![k].late = check[k].ctl # registered]
    /\ routes' = IF routes = <<>> THEN <<"ar">> ELSE [routes EXCEPT ![Len(routes)] = "ar"]
    /\ \E reuse \in ReuseChoices :
         registered' = IF reuse /\ registered # 0 THEN registered ELSE ARController(k)

\* The entry toJson writes for the visitor of check k.
LogEntry(k) == [ctl |-> check[k].ctl, UserId |-> check[k].UserId,
                TimeOut |-> "null", timeOut |-> "absent"]

\* addMuseumVisitLog returns the new document's id, which is kept, and
\* checkQRCode goes on to the AR screen.
LogAddedWrongId(k) ==
    /\ check[k].pc = "adding"
    /\ logbook' = Append(logbook, LogEntry(k))
    /\ registered # 0
    /\ documentId' = [documentId EXCEPT ![registered] = Len(logbook) + 1]
    /\ EnterAR(k)
    /\ UNCHANGED <<currentCode, opened, scanCompleted, timeOuts>>
LogAdded(k) ==
    /\ check[k].pc = "adding"
    /\ logbook' = Append(logbook, LogEntry(k))
    /\ documentId' = [documentId EXCEPT ![check[k].ctl] = Len(logbook) + 1]
    /\ EnterAR(k)
    /\ UNCHANGED <<currentCode, opened, scanCompleted, timeOuts>>

\* It throws, before or after the document was stored.  logMuseumVisit
\* catches the error, so checkQRCode still opens the AR screen.
LogFailedRethrow(k) ==
    /\ check[k].pc = "adding"
    /\ check' = [check EXCEPT ![k].pc = "error"]
    /\ UNCHANGED <<currentCode, routes, opened, registered, scanCompleted, documentId, logbook, timeOuts>>
LogFailed(k) ==
    /\ check[k].pc = "adding"
    /\ logbook' \in {logbook, Append(logbook, LogEntry(k))}
    /\ EnterAR(k)
    /\ UNCHANGED <<currentCode, opened, scanCompleted, documentId, timeOuts>>

\* The user confirms "Exit AR Camera": updateMuseumVisitTimeOut is called and
\* not awaited; for the empty id it fails at once.
ExitARAnyId ==
    /\ Top = "ar"
    /\ routes' = <<"menu">>
    /\ registered' = 0
    /\ timeOuts' = timeOuts \cup {documentId[registered]}
    /\ UNCHANGED <<currentCode, opened, scanCompleted, documentId, check, logbook>>
ExitARStays ==
    /\ Top = "ar"
    /\ timeOuts' = timeOuts \cup ({documentId[registered]} \ {NoLog})
    /\ UNCHANGED <<currentCode, routes, opened, registered, scanCompleted, documentId, check, logbook>>
ExitAR ==
    /\ Top = "ar"
    /\ routes' = <<"menu">>
    /\ registered' = 0
    /\ timeOuts' = timeOuts \cup ({documentId[registered]} \ {NoLog})
    /\ UNCHANGED <<currentCode, opened, scanCompleted, documentId, check, logbook>>

\* Unity reports "ar:false": the screen pops itself, without a time-out.
ARNotSupported ==
    /\ Top = "ar"
    /\ routes' = SubSeq(routes, 1, Len(routes) - 1)
    /\ registered' = 0
    /\ UNCHANGED <<currentCode, opened, scanCompleted, documentId, check, logbook, timeOuts>>

\* updateTimeOut reaches Firestore.  The field it writes is 'timeOut'.
TimeOutWritten(d) ==
    /\ d \in timeOuts
    /\ logbook' = [logbook EXCEPT ![d].timeOut = "set"]
    /\ timeOuts' = timeOuts \ {d}
    /\ UNCHANGED <<currentCode, routes, opened, registered, scanCompleted, documentId, check>>

TimeOutFailed(d) ==
    /\ d \in timeOuts
    /\ timeOuts' = timeOuts \ {d}
    /\ UNCHANGED <<currentCode, routes, opened, registered, scanCompleted, documentId, check, logbook>>

-----------------------------------------------------------------------------
CheckStep(k) ==
    CodeAnswered(k) \/ CodeFailed(k) \/ UserFetched(k) \/ LogAdded(k) \/ LogFailed(k)

TimeOutStep == \E d \in DOMAIN logbook : TimeOutWritten(d) \/ TimeOutFailed(d)

UserStep ==
    \/ OpenScanner
    \/ LeaveScanner
    \/ \E k \in Checks, code \in Codes : OnDetect(k, code)
    \/ ExitAR

Next ==
    \/ CodeChanges
    \/ UserStep
    \/ ARNotSupported
    \/ \E k \in Checks : CheckStep(k)
    \/ TimeOutStep

Spec == Init /\ [][Next]_vars

\* Calls in flight come to an end; the user, the camera and the staff need
\* not do anything.
Fairness == (\A k \in Checks : WF_vars(CheckStep(k))) /\ WF_vars(TimeOutStep)

FairSpec == Spec /\ Fairness

-----------------------------------------------------------------------------
(* Properties.                                                             *)

\* One scanner screen makes at most one entry in the logbook, however often
\* the camera reports a code while a check is in flight or after it:
\* checkQRCode raises scanCompleted before its first await.
OneLogPerScan ==
    \A m, n \in DOMAIN logbook : logbook[m].ctl = logbook[n].ctl => m = n

\* The id a controller keeps for the time-out is the id of the entry its own
\* scan made, also when scans of two screens finish in the other order.
DocumentIsOwn ==
    \A c \in Controllers : documentId[c] # NoLog => logbook[documentId[c]].ctl = c

\* After a match the visitor gets to the AR screen even when the user record
\* cannot be fetched or the entry cannot be saved.
MatchOpensAR == \A k \in Checks : check[k].pc = "fetching" ~> check[k].pc = "granted"

\* No check has opened the AR screen after its scanner had been left.
NoneLate == \A k \in Checks : ~check[k].late

\* Leaving the AR screen leads back to the menu: it is under every screen, as
\* long as no check opened the AR screen after its scanner had been left.
MenuStays == NoneLate => routes # <<>> /\ routes[1] = "menu"

\* "Update the timeOut field": once updateTimeOut has written to an entry,
\* the field the model stores and reads holds the time.
TimeOutRecorded == \A n \in DOMAIN logbook : logbook[n].timeOut = "set" => logbook[n].TimeOut = "set"
-----------------------------------------------------------------------------
(* The logbook as VisitLog describes it: a scan is the controller of its   *)
(* screen, which makes one check.                                          *)
CheckedBy(states) == {check[k].ctl : k \in {j \in Checks : check[j].pc \in states}}

AskedCodes == {<<check[k].ctl, check[k].code>> : k \in {j \in Checks : check[j].pc = "checking"}}

VisitEntries ==
    [n \in DOMAIN logbook |-> [scan |-> logbook[n].ctl, who |-> logbook[n].UserId,
                               out |-> logbook[n].timeOut]]

Visits == INSTANCE VisitLog WITH
    Scans <- Controllers,
    current <- currentCode,
    scanned <- CheckedBy(CheckStates \ {"unused"}),
    asked <- AskedCodes,
    matched <- CheckedBy({"fetching", "adding"}),
    admitted <- CheckedBy({"granted"}),
    log <- VisitEntries,
    leaving <- timeOuts

\* Scanner screens, controllers and calls in flight look like visits that
\* are each compared once and let in once, make one entry at most, and whose
\* time-out is asked for only while the entry has none: a recorded time-out
\* is not overwritten, and no entry changes its place or its visitor.
VisitLogImplemented == Visits!Spec

\* What this rests on.  A check is of a code that was scanned, on a screen
\* that was opened; a controller that has an entry is such a screen's, so the
\* controller of a new screen has none; and the entry of the controller in
\* use is not timed out yet, nor about to be.
EntryStillOpen ==
    /\ \A k \in Checks : check[k].pc # "unused" => check[k].ctl \in 1..opened /\ check[k].code \in Codes
    /\ \A c \in Controllers : documentId[c] # NoLog => c \in 1..opened
    /\ Top = "scanner" => registered \in 1..opened
    /\ registered # 0 /\ documentId[registered] # NoLog =>
          /\ documentId[registered] \notin timeOuts
          /\ logbook[documentId[registered]].timeOut = "absent"
=============================================================================
