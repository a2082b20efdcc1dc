-------------------------- MODULE MuseumVisitProofs --------------------------
(***************************************************************************)
(* Proofs about MuseumVisit, for any codes and any numbers of scanner      *)
(* screens and of checks.  The properties are not inductive: that a scan   *)
(* is logged once needs to know that each controller has one check at most *)
(* (CheckInv), and that the menu stays needs the shapes the stack can have *)
(* (RouteInv) and that a check becomes late only when it opens the AR      *)
(* screen.  The refinement of VisitLog needs EntryStillOpen besides: the   *)
(* screen that is left must not have been left before.                     *)
(***************************************************************************)
EXTENDS MuseumVisit, SequenceTheorems, TLAPS

\* The stack, and who has a controller registered.
RouteInv ==
    /\ Len(routes) <= 2
    /\ Len(routes) = 1 => routes[1] \in {"menu", "ar"}
    /\ Len(routes) = 2 => routes[1] = "menu" /\ routes[2] \in {"scanner", "ar"}
    /\ registered # 0 <=> Len(routes) = 2 \/ (Len(routes) = 1 /\ routes[1] = "ar")
    /\ NoneLate => Len(routes) # 0 /\ routes[1] = "menu"

\* A check has raised the flag of its controller, and is its only one.
CheckInv ==
    /\ \A k \in Checks : check[k].pc # "unused" => check[k].ctl # 0 /\ scanCompleted[check[k].ctl]
    /\ \A j, k \in Checks : check[j].pc # "unused" /\ check[k].pc # "unused"
                            /\ check[j].ctl = check[k].ctl => j = k
    /\ \A k \in Checks : check[k].late => check[k].pc = "granted"

\* An entry was made by a check that has ended.
LogInv ==
    \A n \in DOMAIN logbook :
        \E k \in Checks : check[k].pc = "granted" /\ check[k].ctl = logbook[n].ctl

VisitInv == TypeOK /\ RouteInv /\ CheckInv /\ LogInv /\ OneLogPerScan /\ DocumentIsOwn

-----------------------------------------------------------------------------
CheckRecords == [pc : CheckStates, ctl : Controllers \cup {0}, code : Codes \cup {NoCode},
                 UserId : {"visitor", ""}, late : BOOLEAN]

\* Arithmetic on lengths, kept apart from the sequences.
LEMMA SmallNat ==
    ASSUME NEW n \in Nat
    PROVE  /\ n # 0 /\ n <= 2 => n = 1 \/ n = 2
           /\ n > 0 => (IF 1 <= n - 1 THEN n - 1 - 1 + 1 ELSE 0) = n - 1
OBVIOUS

\* Sequences: an empty one, one of one element, a push and a pop.
LEMMA SeqFacts ==
    ASSUME NEW S, NEW r \in Seq(S), NEW x \in S
    PROVE  /\ r = <<>> <=> Len(r) = 0
           /\ Append(r, x) \in Seq(S)
           /\ Len(Append(r, x)) = Len(r) + 1
           /\ \A i \in 1..Len(r) : Append(r, x)[i] = r[i]
           /\ Append(r, x)[Len(r) + 1] = x
           /\ <<x>> \in Seq(S) /\ Len(<<x>>) = 1 /\ <<x>>[1] = x
OBVIOUS

\* Popping: the last element goes, the others stay.
LEMMA PopSeq ==
    ASSUME NEW S, NEW r \in Seq(S), Len(r) > 0
    PROVE  /\ SubSeq(r, 1, Len(r) - 1) \in Seq(S)
           /\ Len(SubSeq(r, 1, Len(r) - 1)) = Len(r) - 1
           /\ \A i \in 1..(Len(r) - 1) : SubSeq(r, 1, Len(r) - 1)[i] = r[i]
<1>1. Len(r) - 1 \in Int /\ 1 \in Int /\ \A i \in 1..(Len(r) - 1) : r[i] \in S
    OBVIOUS
<1>2. /\ SubSeq(r, 1, Len(r) - 1) \in Seq(S)
      /\ Len(SubSeq(r, 1, Len(r) - 1)) = IF 1 <= Len(r) - 1 THEN Len(r) - 1 - 1 + 1 ELSE 0
      /\ \A i \in 1..(Len(r) - 1 - 1 + 1) : SubSeq(r, 1, Len(r) - 1)[i] = r[1 + i - 1]
    BY <1>1, SubSeqProperties
<1>3. Len(SubSeq(r, 1, Len(r) - 1)) = Len(r) - 1
  <2>1. Len(r) \in Nat
      BY LenProperties
  <2>2. (IF 1 <= Len(r) - 1 THEN Len(r) - 1 - 1 + 1 ELSE 0) = Len(r) - 1
      BY <2>1, SmallNat, Zenon
  <2>3. Len(SubSeq(r, 1, Len(r) - 1)) = IF 1 <= Len(r) - 1 THEN Len(r) - 1 - 1 + 1 ELSE 0
      BY <1>2
  <2> HIDE <1>1, <1>2
  <2> QED
      BY <2>2, <2>3
<1>4. ASSUME NEW i \in 1..(Len(r) - 1)
      PROVE  SubSeq(r, 1, Len(r) - 1)[i] = r[i]
  <2>1. i \in 1..(Len(r) - 1 - 1 + 1) /\ 1 + i - 1 = i
      OBVIOUS
  <2> QED
      BY <1>2, <2>1
<1> QED
    BY <1>2, <1>3, <1>4

\* Replacing one element.
LEMMA ReplaceSeq ==
    ASSUME NEW S, NEW r \in Seq(S), NEW n \in 1..Len(r), NEW x \in S
    PROVE  /\ [r EXCEPT ![n] = x] \in Seq(S)
           /\ Len([r EXCEPT ![n] = x]) = Len(r)
           /\ \A i \in 1..Len(r) : [r EXCEPT ![n] = x][i] = IF i = n THEN x ELSE r[i]
OBVIOUS

\* The state the app starts in satisfies the invariant.
LEMMA InitVisit == Init => VisitInv
<1> SUFFICES ASSUME Init PROVE VisitInv
    OBVIOUS
<1>0. /\ routes \in Seq(Screens) /\ Len(routes) = 1 /\ routes[1] = "menu"
  <2>1. routes = <<"menu">> /\ "menu" \in Screens
      BY DEF Init, Screens
  <2> QED
      BY <2>1, SeqFacts
<1>6. logbook \in Seq(Logs) /\ DOMAIN logbook = {}
  <2>1. logbook = <<>>
      BY DEF Init
  <2> QED
      BY <2>1
<1>7. opened = 0 /\ registered = 0 /\ currentCode \in Codes \cup {NoCode}
    BY DEF Init
<1>1. TypeOK
  <2>1. check \in [Checks -> CheckRecords]
      BY DEF Init, CheckRecords, CheckStates
  <2>2. currentCode \in Codes \cup {NoCode} /\ opened \in 0..MaxScreens /\ registered \in Controllers \cup {0}
      BY <1>7, MuseumVisitAssumption
  <2>3. scanCompleted \in [Controllers -> BOOLEAN] /\ documentId \in [Controllers -> {NoLog} \cup (DOMAIN logbook)]
      BY DEF Init
  <2> QED
      BY <1>0, <1>6, <2>1, <2>2, <2>3 DEF Init, TypeOK, CheckRecords
<1>2. RouteInv
    BY <1>0, <1>7 DEF RouteInv
<1>3. \A k \in Checks : check[k].pc = "unused" /\ ~check[k].late
    BY DEF Init
<1>4. CheckInv /\ LogInv /\ OneLogPerScan
    BY <1>6, <1>3 DEF CheckInv, LogInv, OneLogPerScan
<1>5. DocumentIsOwn
    BY DEF Init, DocumentIsOwn
<1> QED
    BY <1>1, <1>2, <1>4, <1>5 DEF VisitInv

\* A step of a check that neither begins nor grants it keeps the invariant.
LEMMA CheckProgress ==
    ASSUME VisitInv,
           UNCHANGED <<routes, opened, registered, scanCompleted, documentId, logbook, timeOuts>>,
           currentCode' \in Codes \cup {NoCode},
           check' \in [Checks -> CheckRecords],
           \A j \in Checks : /\ check'[j].ctl = check[j].ctl
                             /\ check'[j].late = check[j].late
                             /\ check'[j].pc = "unused" <=> check[j].pc = "unused"
                             /\ check'[j].pc = "granted" <=> check[j].pc = "granted"
    PROVE  VisitInv'
<1>1. TypeOK'
    BY DEF VisitInv, TypeOK, CheckRecords
<1>2. RouteInv'
  <2>1. NoneLate' => NoneLate
      BY DEF NoneLate
  <2> QED
      BY <2>1 DEF VisitInv, RouteInv
<1>3. CheckInv'
    BY DEF VisitInv, CheckInv
<1>4. LogInv'
    BY DEF VisitInv, LogInv
<1>5. OneLogPerScan' /\ DocumentIsOwn'
    BY DEF VisitInv, OneLogPerScan, DocumentIsOwn
<1> QED
    BY <1>1, <1>2, <1>3, <1>4, <1>5 DEF VisitInv

\* A step that only changes screens and the registered controller keeps the
\* invariant if it keeps RouteInv.
LEMMA RouteStep ==
    ASSUME VisitInv,
           UNCHANGED <<currentCode, scanCompleted, documentId, check, logbook>>,
           routes' \in Seq(Screens),
           opened' \in 0..MaxScreens,
           registered' \in Controllers \cup {0},
           timeOuts' \subseteq DOMAIN logbook,
           RouteInv'
    PROVE  VisitInv'
<1>1. TypeOK'
    BY DEF VisitInv, TypeOK
<1>2. CheckInv' /\ LogInv'
    BY DEF VisitInv, CheckInv, LogInv
<1>3. OneLogPerScan' /\ DocumentIsOwn'
    BY DEF VisitInv, OneLogPerScan, DocumentIsOwn
<1> QED
    BY <1>1, <1>2, <1>3 DEF VisitInv

\* What the stack is when its top is known.
LEMMA TopShape ==
    ASSUME VisitInv
    PROVE  /\ routes \in Seq(Screens)
           /\ Top = "menu" => Len(routes) = 1 /\ routes[1] = "menu"
           /\ Top = "scanner" => Len(routes) = 2 /\ routes[1] = "menu" /\ registered # 0
           /\ Top = "ar" => /\ registered # 0
                            /\ \/ Len(routes) = 1 /\ routes[1] = "ar"
                               \/ Len(routes) = 2 /\ routes[1] = "menu"
<1>1. routes \in Seq(Screens)
    BY DEF VisitInv, TypeOK
<1>2. CASE routes = <<>>
    BY <1>1, <1>2 DEF Top
<1>3. CASE routes # <<>>
  <2>1. Len(routes) \in Nat /\ Len(routes) # 0
      BY <1>1, <1>3, SeqFacts
  <2>2. Len(routes) <= 2
      BY DEF VisitInv, RouteInv
  <2>3. Top = routes[Len(routes)]
      BY <1>3 DEF Top
  <2>4. CASE Len(routes) = 1
      BY <2>3, <2>4, <1>1 DEF VisitInv, RouteInv
  <2>5. CASE Len(routes) = 2
      BY <2>3, <2>5, <1>1 DEF VisitInv, RouteInv
  <2> QED
    <3>1. Len(routes) = 1 \/ Len(routes) = 2
        BY <2>1, <2>2, SmallNat, Zenon
    <3> QED
        BY <3>1, <2>4, <2>5, Zenon
<1> QED
    BY <1>2, <1>3

-----------------------------------------------------------------------------
\* Opening the scanner puts it and its controller on the menu.
LEMMA OpenScannerKeeps == ASSUME VisitInv, OpenScanner PROVE VisitInv'
<1>1. routes \in Seq(Screens) /\ Len(routes) = 1 /\ routes[1] = "menu"
    BY TopShape DEF OpenScanner
<1>2. /\ routes' \in Seq(Screens) /\ Len(routes') = 2
      /\ routes'[1] = "menu" /\ routes'[2] = "scanner"
  <2>1. routes' = Append(routes, "scanner") /\ "scanner" \in Screens
      BY DEF OpenScanner, Screens
  <2>2. /\ routes' \in Seq(Screens) /\ Len(routes') = Len(routes) + 1
        /\ \A i \in 1..Len(routes) : routes'[i] = routes[i]
        /\ routes'[Len(routes) + 1] = "scanner"
    <3>1. /\ Append(routes, "scanner") \in Seq(Screens)
          /\ Len(Append(routes, "scanner")) = Len(routes) + 1
          /\ \A i \in 1..Len(routes) : Append(routes, "scanner")[i] = routes[i]
          /\ Append(routes, "scanner")[Len(routes) + 1] = "scanner"
      <4>1. routes \in Seq(Screens) /\ "scanner" \in Screens
          BY <1>1, <2>1
      <4> HIDE <1>1, <2>1
      <4> QED
          BY <4>1
    <3> QED
        BY <2>1, <3>1, Zenon
  <2> QED
      BY <1>1, <2>2
<1>3. opened' \in 0..MaxScreens /\ registered' \in Controllers /\ registered' # 0
  <2>1. opened \in 0..MaxScreens /\ opened < MaxScreens /\ opened' = opened + 1 /\ registered' = opened + 1
      BY DEF OpenScanner, VisitInv, TypeOK
  <2> QED
      BY <2>1, MuseumVisitAssumption DEF Controllers
<1>4. RouteInv'
    BY <1>2, <1>3 DEF RouteInv
<1>5. timeOuts' \subseteq DOMAIN logbook
    BY DEF OpenScanner, VisitInv, TypeOK
<1> QED
    BY <1>2, <1>3, <1>4, <1>5, RouteStep DEF OpenScanner

\* Popping a screen, and the controller with it.
LEMMA PopKeeps ==
    ASSUME VisitInv, Top \in {"scanner", "ar"},
           routes' = SubSeq(routes, 1, Len(routes) - 1), registered' = 0,
           UNCHANGED <<currentCode, opened, scanCompleted, documentId, check, logbook, timeOuts>>
    PROVE  VisitInv'
<1>1. /\ routes \in Seq(Screens)
      /\ \/ Len(routes) = 1 /\ routes[1] = "ar"
         \/ Len(routes) = 2 /\ routes[1] = "menu"
    BY TopShape
<1>2. /\ routes' \in Seq(Screens)
      /\ \/ Len(routes') = 0 /\ routes[1] = "ar" /\ Len(routes) = 1
         \/ Len(routes') = 1 /\ routes'[1] = "menu" /\ Len(routes) = 2
  <2>1. Len(routes) > 0
      BY <1>1
  <2>2. /\ routes' \in Seq(Screens) /\ Len(routes') = Len(routes) - 1
        /\ \A i \in 1..(Len(routes) - 1) : routes'[i] = routes[i]
      BY <1>1, <2>1, PopSeq
  <2>3. Len(routes) = 2 => routes'[1] = routes[1]
      BY <2>2
  <2> QED
    <3>1. CASE Len(routes) = 1 /\ routes[1] = "ar"
        BY <2>2, <3>1
    <3>2. CASE Len(routes) = 2 /\ routes[1] = "menu"
        BY <2>2, <2>3, <3>2
    <3> QED
        BY <1>1, <3>1, <3>2
<1>3. RouteInv'
  <2>1. NoneLate' = NoneLate
      BY DEF NoneLate
  <2>2. CASE Len(routes') = 0 /\ routes[1] = "ar" /\ Len(routes) = 1
    <3>1. ~NoneLate
        BY <2>2 DEF VisitInv, RouteInv
    <3> QED
        BY <1>2, <2>1, <2>2, <3>1 DEF RouteInv
  <2>3. CASE Len(routes') = 1 /\ routes'[1] = "menu"
    <3>0. PICK n \in Nat : n = Len(routes') /\ n = 1
        BY <2>3
    <3>1. registered' = 0 /\ routes'[1] # "ar" /\ n # 0 /\ n <= 2 /\ n # 2
        BY <2>3, <3>0
    <3> QED
        BY <2>3, <3>0, <3>1, Zenon DEF RouteInv
  <2> QED
      BY <1>2, <2>2, <2>3
<1>4. opened' \in 0..MaxScreens /\ timeOuts' \subseteq DOMAIN logbook
    BY DEF VisitInv, TypeOK
<1> QED
    BY <1>2, <1>3, <1>4, RouteStep

\* The back arrow is a pop.
LEMMA LeaveScannerKeeps == ASSUME VisitInv, LeaveScanner PROVE VisitInv'
BY PopKeeps DEF LeaveScanner

\* So is the answer that AR is not supported.
LEMMA ARNotSupportedKeeps == ASSUME VisitInv, ARNotSupported PROVE VisitInv'
BY PopKeeps DEF ARNotSupported

\* Leaving the AR screen calls for the time-out of an entry that exists.
LEMMA ExitARKeeps == ASSUME VisitInv, ExitAR PROVE VisitInv'
<1>1. registered \in Controllers
    BY TopShape DEF ExitAR, VisitInv, TypeOK
<1>2. timeOuts' \subseteq DOMAIN logbook
    BY <1>1 DEF ExitAR, VisitInv, TypeOK
<1>3. routes' \in Seq(Screens) /\ Len(routes') = 1 /\ routes'[1] = "menu"
    BY SeqFacts DEF ExitAR, Screens
<1>4. RouteInv'
    BY <1>3 DEF RouteInv, ExitAR
<1>5. opened' \in 0..MaxScreens /\ registered' \in Controllers \cup {0}
    BY DEF ExitAR, VisitInv, TypeOK
<1> QED
    BY <1>2, <1>3, <1>4, <1>5, RouteStep DEF ExitAR

\* A report of the camera begins a check only for a controller that has none.
LEMMA OnDetectKeeps ==
    ASSUME VisitInv, NEW k \in Checks, NEW code \in Codes, OnDetect(k, code)
    PROVE  VisitInv'
<1>1. registered \in Controllers /\ registered # 0
    BY TopShape DEF OnDetect, VisitInv, RouteInv, TypeOK
<1>2. /\ check'[k] = [pc |-> "checking", ctl |-> registered, code |-> code,
                      UserId |-> "", late |-> FALSE]
      /\ \A j \in Checks : j # k => check'[j] = check[j]
    BY DEF OnDetect, VisitInv, TypeOK
<1>3. /\ scanCompleted'[registered]
      /\ \A c \in Controllers : scanCompleted[c] => scanCompleted'[c]
    BY <1>1 DEF OnDetect, VisitInv, TypeOK
<1>4. TypeOK'
  <2>1. check' \in [Checks -> CheckRecords]
      BY <1>1 DEF OnDetect, VisitInv, TypeOK, CheckRecords, CheckStates
  <2> QED
      BY <2>1, <1>1 DEF OnDetect, VisitInv, TypeOK, CheckRecords
<1>5. RouteInv'
  <2>1. \A j \in Checks : check[j].late => j # k
      BY DEF OnDetect, VisitInv, CheckInv
  <2>2. NoneLate' => NoneLate
      BY <1>2, <2>1 DEF NoneLate
  <2> QED
      BY <2>2 DEF OnDetect, VisitInv, RouteInv
<1>6. CheckInv'
  <2>1. \A j \in Checks : check[j].pc # "unused" => check[j].ctl \in Controllers /\ check[j].ctl # registered
      BY <1>1 DEF OnDetect, VisitInv, CheckInv, TypeOK
  <2>2. check'[k].pc = "checking" /\ check'[k].ctl = registered /\ ~check'[k].late
    <3>2. PICK w : w = check'[k]
        OBVIOUS
    <3>3. w = [pc |-> "checking", ctl |-> registered, code |-> code, UserId |-> "", late |-> FALSE]
        BY <1>2, <3>2, Zenon
    <3>4. w.pc = "checking" /\ w.ctl = registered /\ w.late = FALSE
        BY <3>3
    <3> QED
        BY <3>2, <3>4, Zenon
  <2>3. \A j \in Checks : check'[j].pc # "unused" => check'[j].ctl # 0 /\ scanCompleted'[check'[j].ctl]
    <3> SUFFICES ASSUME NEW j \in Checks, check'[j].pc # "unused"
                 PROVE  check'[j].ctl # 0 /\ scanCompleted'[check'[j].ctl]
        OBVIOUS
    <3>1. CASE j = k
        BY <1>1, <1>3, <2>2, <3>1, Zenon
    <3>2. CASE j # k
      <4>1. check'[j] = check[j]
          BY <1>2, <3>2
      <4>2. check[j].ctl # 0 /\ scanCompleted[check[j].ctl] /\ check[j].ctl \in Controllers
          BY <2>1, <4>1, Zenon DEF VisitInv, CheckInv
      <4> QED
          BY <1>3, <4>1, <4>2, Zenon
    <3> QED
        BY <3>1, <3>2
  <2>4. \A i, j \in Checks : check'[i].pc # "unused" /\ check'[j].pc # "unused"
                              /\ check'[i].ctl = check'[j].ctl => i = j
    <3>1. \A i, j \in Checks : check[i].pc # "unused" /\ check[j].pc # "unused"
                                /\ check[i].ctl = check[j].ctl => i = j
        BY Zenon DEF VisitInv, CheckInv
    <3> SUFFICES ASSUME NEW i \in Checks, NEW j \in Checks, check'[i].pc # "unused",
                        check'[j].pc # "unused", check'[i].ctl = check'[j].ctl, i # j
                 PROVE  FALSE
        BY Zenon
    <3>2. CASE i = k
        BY <1>2, <2>1, <2>2, <3>2, Zenon
    <3>3. CASE j = k
        BY <1>2, <2>1, <2>2, <3>3, Zenon
    <3>4. CASE i # k /\ j # k
        BY <1>2, <3>1, <3>4, Zenon
    <3> QED
        BY <3>2, <3>3, <3>4, Zenon
  <2>5. \A j \in Checks : check'[j].late => check'[j].pc = "granted"
    <3>1. \A j \in Checks : check[j].late => check[j].pc = "granted"
        BY Zenon DEF VisitInv, CheckInv
    <3> QED
        BY <1>2, <2>2, <3>1, Zenon
  <2> QED
      BY <2>3, <2>4, <2>5, Zenon DEF CheckInv
<1>7. LogInv'
  <2>1. logbook' = logbook /\ check[k].pc = "unused"
      BY DEF OnDetect
  <2> SUFFICES ASSUME NEW n \in DOMAIN logbook
               PROVE  \E j \in Checks : check'[j].pc = "granted" /\ check'[j].ctl = logbook[n].ctl
      BY <2>1 DEF LogInv
  <2>2. PICK j \in Checks : check[j].pc = "granted" /\ check[j].ctl = logbook[n].ctl
      BY DEF VisitInv, LogInv
  <2>3. j # k
      BY <2>1, <2>2
  <2> QED
      BY <1>2, <2>2, <2>3
<1>8. OneLogPerScan' /\ DocumentIsOwn'
    BY DEF OnDetect, VisitInv, OneLogPerScan, DocumentIsOwn
<1> QED
    BY <1>4, <1>5, <1>6, <1>7, <1>8 DEF VisitInv

\* The awaited answers of a check before its entry is made.
LEMMA CheckKeeps ==
    ASSUME VisitInv, NEW k \in Checks, CodeAnswered(k) \/ CodeFailed(k) \/ UserFetched(k)
    PROVE  VisitInv'
<1>1. check[k].pc \in {"checking", "fetching"} /\ check \in [Checks -> CheckRecords]
    BY DEF CodeAnswered, CodeFailed, UserFetched, VisitInv, TypeOK, CheckRecords
<1>2. PICK p \in {"fetching", "denied", "error", "adding"}, u \in {"visitor", ""} :
          check' = [check EXCEPT ![k] = [@ EXCEPT !.pc = p, !.UserId = u]]
  <2>1. check[k].UserId \in {"visitor", ""} /\ check[k] = [check[k] EXCEPT !.UserId = check[k].UserId]
      BY <1>1 DEF CheckRecords
  <2>2. CASE UserFetched(k)
      BY <2>2 DEF UserFetched
  <2>3. CASE CodeAnswered(k)
    <3>1. PICK p \in {"fetching", "denied"} : check' = [check EXCEPT ![k].pc = p]
        BY <2>3 DEF CodeAnswered
    <3>2. [check[k] EXCEPT !.pc = p] = [check[k] EXCEPT !.pc = p, !.UserId = check[k].UserId]
        BY <1>1 DEF CheckRecords
    <3> QED
        BY <1>1, <2>1, <3>1, <3>2
  <2>4. CASE CodeFailed(k)
    <3>1. check' = [check EXCEPT ![k].pc = "error"]
        BY <2>4 DEF CodeFailed
    <3>2. [check[k] EXCEPT !.pc = "error"] = [check[k] EXCEPT !.pc = "error", !.UserId = check[k].UserId]
        BY <1>1 DEF CheckRecords
    <3> QED
        BY <1>1, <2>1, <3>1, <3>2
  <2> QED
      BY <2>2, <2>3, <2>4
<1>3. check' \in [Checks -> CheckRecords]
  <2>1. check[k] \in CheckRecords
      BY <1>1
  <2>2. [check[k] EXCEPT !.pc = p, !.UserId = u] \in CheckRecords
      BY <2>1 DEF CheckRecords, CheckStates
  <2> QED
      BY <1>1, <1>2, <2>2
<1>4. /\ check'[k].ctl = check[k].ctl /\ check'[k].late = check[k].late
      /\ check'[k].pc = p
      /\ \A j \in Checks : j # k => check'[j] = check[j]
    BY <1>1, <1>2 DEF CheckRecords
<1>5. \A j \in Checks : /\ check'[j].ctl = check[j].ctl
                        /\ check'[j].late = check[j].late
                        /\ check'[j].pc = "unused" <=> check[j].pc = "unused"
                        /\ check'[j].pc = "granted" <=> check[j].pc = "granted"
    BY <1>1, <1>2, <1>4
<1> QED
    BY <1>3, <1>5, CheckProgress DEF CodeAnswered, CodeFailed, UserFetched, VisitInv, TypeOK

\* The published code is read by the checks only.
LEMMA CodeChangesKeeps == ASSUME VisitInv, CodeChanges PROVE VisitInv'
BY CheckProgress DEF CodeChanges, VisitInv, TypeOK, CheckRecords

-----------------------------------------------------------------------------
\* What opening the AR screen does to the check.
LEMMA EnterARCheck ==
    ASSUME VisitInv, NEW k \in Checks, check[k].pc = "adding", EnterAR(k)
    PROVE  /\ check' \in [Checks -> CheckRecords]
           /\ check'[k].pc = "granted" /\ check'[k].ctl = check[k].ctl /\ check'[k].code = check[k].code
           /\ check'[k].late <=> check[k].ctl # registered
           /\ \A j \in Checks : j # k => check'[j] = check[j]
<1>1. /\ check \in [Checks -> CheckRecords]
      /\ check' = [check EXCEPT ![k].pc = "granted", ![k].late = check[k].ctl # registered]
    BY DEF VisitInv, TypeOK, CheckRecords, EnterAR
<1>2. PICK b \in BOOLEAN : b <=> check[k].ctl # registered
    OBVIOUS
<1>3. check' = [check EXCEPT ![k].pc = "granted", ![k].late = b]
    BY <1>1, <1>2
<1>4. check'[k] = [check[k] EXCEPT !.pc = "granted", !.late = b]
    BY <1>1, <1>3
<1>5. \A j \in Checks : j # k => check'[j] = check[j]
    BY <1>1, <1>3
<1>6. check[k] \in CheckRecords
    BY <1>1
<1>7. PICK w : w = check'[k]
    OBVIOUS
<1>8. w \in CheckRecords /\ w.pc = "granted" /\ w.ctl = check[k].ctl /\ w.code = check[k].code /\ w.late = b
    BY <1>4, <1>6, <1>7 DEF CheckRecords, CheckStates
<1>9. check' \in [Checks -> CheckRecords]
    BY <1>1, <1>3, <1>5, <1>7, <1>8
<1> QED
    BY <1>2, <1>5, <1>7, <1>8, <1>9, Zenon

\* A check keeps its controller; one that has not ended is not late; and the
\* controller of a check that has not ended has no entry.
LEMMA OpenCheck ==
    ASSUME VisitInv, NEW k \in Checks, check[k].pc = "adding"
    PROVE  /\ check[k].ctl \in Controllers /\ check[k].ctl # 0
           /\ ~check[k].late
           /\ \A n \in DOMAIN logbook : logbook[n].ctl # check[k].ctl
<1>1. check[k].ctl # 0 /\ ~check[k].late
    BY DEF VisitInv, CheckInv
<1>2. check[k].ctl \in Controllers
    BY <1>1 DEF VisitInv, TypeOK
<1>3. ASSUME NEW n \in DOMAIN logbook, logbook[n].ctl = check[k].ctl
      PROVE  FALSE
  <2>1. PICK j \in Checks : check[j].pc = "granted" /\ check[j].ctl = logbook[n].ctl
      BY DEF VisitInv, LogInv
  <2>2. j = k
      BY <1>3, <2>1 DEF VisitInv, CheckInv
  <2> QED
      BY <2>1, <2>2
<1> QED
    BY <1>1, <1>2, <1>3

\* The AR screen takes the place of the topmost screen, and has a controller.
LEMMA EnterARRoutes ==
    ASSUME VisitInv, NEW k \in Checks, check[k].pc = "adding", EnterAR(k)
    PROVE  routes' \in Seq(Screens) /\ registered' \in Controllers /\ RouteInv'
<1>1. routes \in Seq(Screens) /\ "ar" \in Screens
    BY DEF VisitInv, TypeOK, Screens
<1>2. registered' \in Controllers /\ registered' # 0
  <2>1. registered \in Controllers \cup {0}
      BY DEF VisitInv, TypeOK
  <2>2. ARController(k) \in Controllers
      BY MuseumVisitAssumption DEF ARController, Controllers, Checks
  <2>3. registered' \in Controllers
      BY <2>1, <2>2 DEF EnterAR
  <2> QED
      BY <2>3, MuseumVisitAssumption DEF Controllers
<1>3. NoneLate' => NoneLate /\ check[k].ctl = registered
  <2>1. \A j \in Checks : check[j].late => check'[j].late
      BY EnterARCheck, OpenCheck, Zenon
  <2>2. check[k].ctl # registered => check'[k].late
      BY EnterARCheck, Zenon
  <2> QED
      BY <2>1, <2>2, Zenon DEF NoneLate
<1>4. Len(routes) \in Nat
    BY <1>1, LenProperties
<1>0. ASSUME NEW n \in Nat, n = Len(routes), n > 0, routes' = [routes EXCEPT ![n] = "ar"]
       PROVE  /\ routes' \in Seq(Screens) /\ Len(routes') = n
              /\ \A i \in 1..n : routes'[i] = IF i = n THEN "ar" ELSE routes[i]
  <2>1. n \in 1..Len(routes)
      BY <1>0
  <2>2. /\ [routes EXCEPT ![n] = "ar"] \in Seq(Screens)
        /\ Len([routes EXCEPT ![n] = "ar"]) = Len(routes)
        /\ \A i \in 1..Len(routes) :
              [routes EXCEPT ![n] = "ar"][i] = IF i = n THEN "ar" ELSE routes[i]
      BY <1>1, <2>1, ReplaceSeq
  <2> QED
      BY <1>0, <2>2
<1>5. CASE Len(routes) = 0
  <2>1. routes = <<>>
      BY <1>1, <1>5, SeqFacts
  <2>2. routes' = <<"ar">>
      BY <2>1 DEF EnterAR
  <2>3. routes' \in Seq(Screens) /\ Len(routes') = 1 /\ routes'[1] = "ar"
      BY <1>1, <2>2
  <2>4. ~NoneLate
      BY <1>5 DEF VisitInv, RouteInv
  <2> QED
      BY <1>2, <1>3, <2>3, <2>4 DEF RouteInv
<1>6. CASE Len(routes) = 1
  <2>1. routes # <<>>
    <3>1. Len(<<>>) # 1
        OBVIOUS
    <3> QED
        BY <1>6, <3>1, Zenon
  <2>2. routes' = [routes EXCEPT ![Len(routes)] = "ar"]
      BY <2>1 DEF EnterAR
  <2>3. routes' \in Seq(Screens) /\ Len(routes') = 1 /\ routes'[1] = "ar"
    <3>1. routes' = [routes EXCEPT ![1] = "ar"]
        BY <1>6, <2>2
    <3>2. 1 \in Nat /\ 1 > 0 /\ 1 = Len(routes) /\ 1 \in 1..1
        BY <1>6
    <3>3. /\ routes' \in Seq(Screens) /\ Len(routes') = 1
          /\ \A i \in 1..1 : routes'[i] = IF i = 1 THEN "ar" ELSE routes[i]
        BY <1>0, <3>1, <3>2, Zenon
    <3> QED
        BY <3>2, <3>3, Zenon
  <2>4. ~NoneLate \/ registered = 0
      BY <1>6 DEF VisitInv, RouteInv
  <2>5. ~NoneLate'
      BY <1>3, <2>4, OpenCheck
  <2> QED
      BY <1>2, <2>3, <2>5 DEF RouteInv
<1>7. CASE Len(routes) = 2
  <2>1. routes # <<>> /\ routes[1] = "menu"
      BY <1>7 DEF VisitInv, RouteInv
  <2>2. routes' = [routes EXCEPT ![Len(routes)] = "ar"]
      BY <2>1 DEF EnterAR
  <2>3. /\ routes' \in Seq(Screens) /\ Len(routes') = 2
        /\ routes'[1] = "menu" /\ routes'[2] = "ar"
    <3>1. routes' = [routes EXCEPT ![2] = "ar"]
        BY <1>7, <2>2
    <3>2. 2 \in Nat /\ 2 > 0 /\ 2 = Len(routes)
        BY <1>7
    <3>3. /\ routes' \in Seq(Screens) /\ Len(routes') = 2
          /\ \A i \in 1..2 : routes'[i] = IF i = 2 THEN "ar" ELSE routes[i]
        BY <1>0, <3>1, <3>2, Zenon
    <3> QED
        BY <2>1, <3>3
  <2> QED
      BY <1>2, <2>3 DEF RouteInv
<1>8. Len(routes) <= 2
    BY DEF VisitInv, RouteInv
<1>9. Len(routes) = 0 \/ Len(routes) = 1 \/ Len(routes) = 2
    BY <1>4, <1>8, SmallNat, Zenon
<1> QED
    BY <1>2, <1>5, <1>6, <1>7, <1>9, Zenon

\* The invariants of the checks when a check opens the AR screen.
LEMMA EnterARChecks ==
    ASSUME VisitInv, NEW k \in Checks, check[k].pc = "adding", EnterAR(k),
           UNCHANGED scanCompleted
    PROVE  CheckInv'
<1>1. \A j \in Checks : /\ check'[j].ctl = check[j].ctl
                        /\ check'[j].pc # "unused" => check[j].pc # "unused"
  <2>1. "adding" # "unused"
      OBVIOUS
  <2> QED
      BY <2>1, EnterARCheck, Zenon
<1>2. \A j \in Checks : check'[j].late => check'[j].pc = "granted"
  <2>1. \A j \in Checks : check[j].late => check[j].pc = "granted"
      BY Zenon DEF VisitInv, CheckInv
  <2> QED
      BY <2>1, EnterARCheck, Zenon
<1>3. /\ \A j \in Checks : check[j].pc # "unused" => check[j].ctl # 0 /\ scanCompleted[check[j].ctl]
      /\ \A i, j \in Checks : check[i].pc # "unused" /\ check[j].pc # "unused"
                              /\ check[i].ctl = check[j].ctl => i = j
    BY Zenon DEF VisitInv, CheckInv
<1>4. \A j \in Checks : check'[j].pc # "unused" => check'[j].ctl # 0 /\ scanCompleted'[check'[j].ctl]
    BY <1>1, <1>3
<1>5. \A i, j \in Checks : check'[i].pc # "unused" /\ check'[j].pc # "unused"
                           /\ check'[i].ctl = check'[j].ctl => i = j
    BY <1>1, <1>3
<1> QED
    BY <1>2, <1>4, <1>5, Zenon DEF CheckInv

\* A check that opens the AR screen keeps the invariant, whether it leaves
\* the logbook alone or makes the entry of its visit, and whether it keeps
\* the entry's id or not.
LEMMA GrantKeeps ==
    ASSUME VisitInv, NEW k \in Checks, check[k].pc = "adding", EnterAR(k),
           logbook' \in {logbook, Append(logbook, LogEntry(k))},
           \/ documentId' = documentId
           \/ /\ logbook' = Append(logbook, LogEntry(k))
              /\ documentId' = [documentId EXCEPT ![check[k].ctl] = Len(logbook) + 1],
           UNCHANGED <<currentCode, opened, scanCompleted, timeOuts>>
    PROVE  VisitInv'
<1>1. /\ logbook \in Seq(Logs) /\ Len(logbook) \in Nat /\ DOMAIN logbook = 1..Len(logbook)
      /\ documentId \in [Controllers -> {NoLog} \cup (DOMAIN logbook)]
      /\ timeOuts \subseteq DOMAIN logbook
  <2>1. logbook \in Seq(Logs)
      BY DEF VisitInv, TypeOK
  <2>2. Len(logbook) \in Nat /\ DOMAIN logbook = 1..Len(logbook)
      BY <2>1, LenProperties
  <2> QED
      BY <2>1, <2>2 DEF VisitInv, TypeOK
<1>2. LogEntry(k) \in Logs /\ LogEntry(k).ctl = check[k].ctl
  <2>1. check[k].UserId \in {"visitor", ""} /\ check[k].ctl \in Controllers
      BY OpenCheck DEF VisitInv, TypeOK
  <2> QED
      BY <2>1 DEF LogEntry, Logs
<1>3. /\ logbook' \in Seq(Logs)
      /\ DOMAIN logbook \subseteq DOMAIN logbook'
      /\ \A n \in DOMAIN logbook : logbook'[n] = logbook[n]
      /\ \A n \in DOMAIN logbook' : n \in DOMAIN logbook \/ (n = Len(logbook) + 1 /\ logbook'[n] = LogEntry(k))
  <2>1. CASE logbook' = logbook
      BY <1>1, <2>1
  <2>2. CASE logbook' = Append(logbook, LogEntry(k))
      BY <1>1, <1>2, <2>2
  <2> QED
      BY <2>1, <2>2
<1>4. /\ documentId' \in [Controllers -> {NoLog} \cup (DOMAIN logbook')]
      /\ \A c \in Controllers :
            \/ documentId'[c] = documentId[c]
            \/ c = check[k].ctl /\ documentId'[c] \in DOMAIN logbook' /\ logbook'[documentId'[c]] = LogEntry(k)
  <2>1. CASE documentId' = documentId
      BY <1>1, <1>3, <2>1
  <2>2. CASE /\ logbook' = Append(logbook, LogEntry(k))
             /\ documentId' = [documentId EXCEPT ![check[k].ctl] = Len(logbook) + 1]
    <3>1. Len(logbook) + 1 \in DOMAIN logbook' /\ logbook'[Len(logbook) + 1] = LogEntry(k)
        BY <1>1, <1>2, <2>2
    <3> QED
        BY <1>1, <1>3, <2>2, <3>1
  <2> QED
      BY <2>1, <2>2
<1>5. TypeOK'
  <2>1. routes' \in Seq(Screens) /\ registered' \in Controllers
      BY EnterARRoutes
  <2>2. check' \in [Checks -> CheckRecords]
      BY EnterARCheck
  <2>3. /\ currentCode' \in Codes \cup {NoCode} /\ opened' \in 0..MaxScreens
        /\ scanCompleted' \in [Controllers -> BOOLEAN]
      BY DEF VisitInv, TypeOK
  <2>4. timeOuts' \subseteq DOMAIN logbook'
      BY <1>1, <1>3
  <2> QED
      BY <1>3, <1>4, <2>1, <2>2, <2>3, <2>4 DEF TypeOK, CheckRecords
<1>6. LogInv'
  <2> SUFFICES ASSUME NEW n \in DOMAIN logbook'
               PROVE  \E j \in Checks : check'[j].pc = "granted" /\ check'[j].ctl = logbook'[n].ctl
      BY DEF LogInv
  <2>1. CASE n \in DOMAIN logbook
    <3>1. PICK j \in Checks : check[j].pc = "granted" /\ check[j].ctl = logbook[n].ctl
        BY <2>1 DEF VisitInv, LogInv
    <3>2. check'[j].pc = "granted" /\ check'[j].ctl = check[j].ctl
        BY <3>1, EnterARCheck, Zenon
    <3> QED
        BY <1>3, <2>1, <3>1, <3>2
  <2>2. CASE logbook'[n] = LogEntry(k)
      BY <1>2, <2>2, EnterARCheck, Zenon
  <2> QED
      BY <1>3, <2>1, <2>2
<1>7. OneLogPerScan'
  <2>1. \A m, n \in DOMAIN logbook : logbook[m].ctl = logbook[n].ctl => m = n
      BY DEF VisitInv, OneLogPerScan
  <2>2. \A n \in DOMAIN logbook : logbook[n].ctl # check[k].ctl
      BY OpenCheck
  <2> QED
      BY <1>2, <1>3, <2>1, <2>2, Zenon DEF OneLogPerScan
<1>8. DocumentIsOwn'
  <2> SUFFICES ASSUME NEW c \in Controllers, documentId'[c] # NoLog
               PROVE  logbook'[documentId'[c]].ctl = c
      BY DEF DocumentIsOwn
  <2>1. CASE documentId'[c] = documentId[c]
    <3>1. documentId[c] \in DOMAIN logbook
        BY <1>1, <2>1
    <3>2. logbook[documentId[c]].ctl = c
        BY <2>1 DEF VisitInv, DocumentIsOwn
    <3> QED
        BY <1>3, <2>1, <3>1, <3>2, Zenon
  <2>2. CASE c = check[k].ctl /\ logbook'[documentId'[c]] = LogEntry(k)
      BY <1>2, <2>2, Zenon
  <2> QED
      BY <1>4, <2>1, <2>2
<1> QED
    BY <1>5, <1>6, <1>7, <1>8, EnterARRoutes, EnterARChecks DEF VisitInv

\* Writing a time-out changes a field of one entry.
LEMMA TimeOutKeeps ==
    ASSUME VisitInv, NEW d \in DOMAIN logbook, TimeOutWritten(d) \/ TimeOutFailed(d)
    PROVE  VisitInv'
<1>1. logbook \in Seq(Logs) /\ timeOuts \subseteq DOMAIN logbook
    BY DEF VisitInv, TypeOK
<1>2. /\ logbook' \in Seq(Logs) /\ DOMAIN logbook' = DOMAIN logbook
      /\ \A n \in DOMAIN logbook : logbook'[n].ctl = logbook[n].ctl
  <2>1. CASE logbook' = logbook
      BY <1>1, <2>1
  <2>2. CASE logbook' = [logbook EXCEPT ![d].timeOut = "set"]
    <3>1. d \in 1..Len(logbook)
        BY <1>1
    <3>2. logbook[d] \in Logs
        BY <1>1, <3>1
    <3>3. PICK e : e = [logbook[d] EXCEPT !.timeOut = "set"]
        OBVIOUS
    <3>4. e \in Logs /\ e.ctl = logbook[d].ctl
        BY <3>2, <3>3 DEF Logs
    <3>5. logbook' = [logbook EXCEPT ![d] = e]
        BY <2>2, <3>3
    <3>6. /\ logbook' \in Seq(Logs) /\ Len(logbook') = Len(logbook)
          /\ \A i \in 1..Len(logbook) : logbook'[i] = IF i = d THEN e ELSE logbook[i]
      <4>1. /\ [logbook EXCEPT ![d] = e] \in Seq(Logs)
            /\ Len([logbook EXCEPT ![d] = e]) = Len(logbook)
            /\ \A i \in 1..Len(logbook) :
                  [logbook EXCEPT ![d] = e][i] = IF i = d THEN e ELSE logbook[i]
          BY <1>1, <3>1, <3>4, ReplaceSeq
      <4> QED
          BY <3>5, <4>1
    <3>7. DOMAIN logbook' = 1..Len(logbook) /\ DOMAIN logbook = 1..Len(logbook)
        BY <1>1, <3>6, LenProperties
    <3> QED
        BY <3>4, <3>6, <3>7, Zenon
  <2> QED
      BY <2>1, <2>2 DEF TimeOutWritten, TimeOutFailed
<1>3. /\ timeOuts' \subseteq timeOuts
      /\ UNCHANGED <<currentCode, routes, opened, registered, scanCompleted, documentId, check>>
    BY DEF TimeOutWritten, TimeOutFailed
<1>4. TypeOK'
    BY <1>1, <1>2, <1>3 DEF VisitInv, TypeOK
<1>5. RouteInv' /\ CheckInv'
    BY <1>3 DEF VisitInv, RouteInv, CheckInv, NoneLate
<1>6. LogInv'
    BY <1>2, <1>3 DEF VisitInv, LogInv
<1>7. OneLogPerScan'
    BY <1>2 DEF VisitInv, OneLogPerScan
<1>8. DocumentIsOwn'
  <2>1. \A c \in Controllers : documentId[c] # NoLog => documentId[c] \in DOMAIN logbook
      BY DEF VisitInv, TypeOK
  <2> QED
      BY <1>2, <1>3, <2>1 DEF VisitInv, DocumentIsOwn
<1> QED
    BY <1>4, <1>5, <1>6, <1>7, <1>8 DEF VisitInv

\* Every step, and every stutter, keeps the invariant.
LEMMA NextKeeps == ASSUME VisitInv, [Next]_vars PROVE VisitInv'
<1>1. CASE CodeChanges
    BY <1>1, CodeChangesKeeps
<1>2. CASE UserStep
    BY <1>2, OpenScannerKeeps, LeaveScannerKeeps, OnDetectKeeps, ExitARKeeps DEF UserStep
<1>3. CASE ARNotSupported
    BY <1>3, ARNotSupportedKeeps
<1>4. ASSUME NEW k \in Checks, CheckStep(k) PROVE VisitInv'
  <2>1. CASE CodeAnswered(k) \/ CodeFailed(k) \/ UserFetched(k)
      BY <2>1, CheckKeeps
  <2>2. CASE LogAdded(k)
      BY <2>2, GrantKeeps DEF LogAdded
  <2>3. CASE LogFailed(k)
      BY <2>3, GrantKeeps DEF LogFailed
  <2> QED
      BY <1>4, <2>1, <2>2, <2>3 DEF CheckStep
<1>5. CASE TimeOutStep
    BY <1>5, TimeOutKeeps DEF TimeOutStep
<1>6. CASE UNCHANGED vars
    BY <1>6 DEF vars, VisitInv, TypeOK, RouteInv, CheckInv, LogInv, OneLogPerScan,
                DocumentIsOwn, NoneLate
<1> QED
    BY <1>1, <1>2, <1>3, <1>4, <1>5, <1>6 DEF Next

-----------------------------------------------------------------------------
\* In every state the app reaches the invariant holds: the stack has one of
\* five shapes, a controller has one check at most, and an entry was made by
\* a check that ended.
THEOREM VisitInvariant == Spec => []VisitInv
<1>1. VisitInv /\ [Next]_vars => VisitInv'
    BY NextKeeps
<1> QED
    BY InitVisit, <1>1, PTL DEF Spec

\* The state of the scanner, the checks, the logbook and the AR screen stays
\* well typed; a controller's documentId is '' or a document that exists.
THEOREM VisitTypes == Spec => []TypeOK
<1>1. VisitInv => TypeOK
    BY DEF VisitInv
<1> QED
    BY VisitInvariant, <1>1, PTL

\* However often the camera reports a code, and whatever calls are in flight,
\* one scanner screen makes at most one entry: checkQRCode raises
\* scanCompleted before it awaits anything.
THEOREM LoggedOnce == Spec => []OneLogPerScan
<1>1. VisitInv => OneLogPerScan
    BY DEF VisitInv
<1> QED
    BY VisitInvariant, <1>1, PTL

\* A controller's documentId is the entry of its own scan, in whatever order
\* the calls of logMuseumVisit of several screens end.
THEOREM DocumentOwn == Spec => []DocumentIsOwn
<1>1. VisitInv => DocumentIsOwn
    BY DEF VisitInv
<1> QED
    BY VisitInvariant, <1>1, PTL

\* Get.off leaves the menu under the AR screen unless the scanner had been
\* left before its check ended.
THEOREM MenuUnderAR == Spec => []MenuStays
<1>1. VisitInv => MenuStays
  <2>1. VisitInv => routes \in Seq(Screens)
      BY DEF VisitInv, TypeOK
  <2>2. routes \in Seq(Screens) /\ Len(routes) # 0 => routes # <<>>
      OBVIOUS
  <2>3. VisitInv /\ NoneLate => Len(routes) # 0 /\ routes[1] = "menu"
      BY DEF VisitInv, RouteInv
  <2> QED
      BY <2>1, <2>2, <2>3 DEF MenuStays
<1> QED
    BY VisitInvariant, <1>1, PTL

-----------------------------------------------------------------------------
\* A stack of one or two screens is not empty.
LEMMA TopIs ==
    ASSUME NEW r \in Seq(Screens), Len(r) = 1 \/ Len(r) = 2
    PROVE  r # <<>>
<1>1. Len(<<>>) = 0
    OBVIOUS
<1> QED
    BY <1>1

\* Leaving a screen does not bring a scanner to the top, and opening the AR
\* screen does not either.
LEMMA TopAfter ==
    ASSUME VisitInv
    PROVE  /\ LeaveScanner \/ ARNotSupported \/ ExitAR => Top' # "scanner"
           /\ \A k \in Checks : EnterAR(k) => Top' # "scanner"
<1>0. /\ routes \in Seq(Screens) /\ Len(routes) \in Nat
      /\ Len(routes) = 0 \/ Len(routes) = 1 \/ Len(routes) = 2
  <2>1. routes \in Seq(Screens) /\ Len(routes) <= 2
      BY DEF VisitInv, TypeOK, RouteInv
  <2>2. Len(routes) \in Nat
      BY <2>1, LenProperties
  <2>3. Len(routes) = 0 \/ Len(routes) = 1 \/ Len(routes) = 2
      BY <2>1, <2>2, SmallNat, Zenon
  <2> QED
      BY <2>1, <2>2, <2>3
<1>1. ASSUME LeaveScanner \/ ARNotSupported PROVE Top' # "scanner"
  <2>1. routes' = SubSeq(routes, 1, Len(routes) - 1) /\ Top \in {"scanner", "ar"}
      BY <1>1 DEF LeaveScanner, ARNotSupported
  <2>2. \/ Len(routes) = 1
        \/ Len(routes) = 2 /\ routes[1] = "menu"
      BY <2>1, TopShape
  <2>3. /\ routes' \in Seq(Screens) /\ Len(routes') = Len(routes) - 1
        /\ \A i \in 1..(Len(routes) - 1) : routes'[i] = routes[i]
    <3>1. Len(routes) > 0
        BY <2>2
    <3> QED
        BY <1>0, <2>1, <3>1, PopSeq
  <2>4. CASE Len(routes) = 1
    <3>1. Len(routes') = 0
        BY <2>3, <2>4
    <3>2. routes' = <<>>
        BY <2>3, <3>1, SeqFacts
    <3> QED
        BY <3>2 DEF Top
  <2>5. CASE Len(routes) = 2 /\ routes[1] = "menu"
    <3>1. Len(routes') = 1 /\ routes'[1] = "menu"
        BY <2>3, <2>5
    <3>2. Top' = routes'[Len(routes')]
        BY <2>3, <3>1, TopIs DEF Top
    <3> QED
        BY <3>1, <3>2
  <2> QED
      BY <2>2, <2>4, <2>5
<1>2. ASSUME ExitAR PROVE Top' # "scanner"
  <2>1. routes' = <<"menu">>
      BY <1>2 DEF ExitAR
  <2> QED
      BY <2>1 DEF Top
<1>3. ASSUME NEW k \in Checks, EnterAR(k) PROVE Top' # "scanner"
  <2>1. CASE routes = <<>>
    <3>1. routes' = <<"ar">>
        BY <1>3, <2>1 DEF EnterAR
    <3> QED
        BY <3>1 DEF Top
  <2>2. CASE routes # <<>>
    <3>1. PICK n \in Nat : n = Len(routes)
        BY <1>0
    <3>2. n \in 1..Len(routes) /\ n # 0
        BY <1>0, <2>2, <3>1, SeqFacts
    <3>3. routes' = [routes EXCEPT ![n] = "ar"]
        BY <1>3, <2>2, <3>1 DEF EnterAR
    <3>4. "ar" \in Screens
        BY DEF Screens
    <3>5. /\ [routes EXCEPT ![n] = "ar"] \in Seq(Screens)
          /\ Len([routes EXCEPT ![n] = "ar"]) = Len(routes)
          /\ \A i \in 1..Len(routes) : [routes EXCEPT ![n] = "ar"][i] = IF i = n THEN "ar" ELSE routes[i]
        BY <1>0, <3>2, <3>4, ReplaceSeq
    <3>6. routes' \in Seq(Screens) /\ Len(routes') = n /\ routes'[n] = "ar"
        BY <3>1, <3>2, <3>3, <3>5
    <3>7. Len(routes') = 1 \/ Len(routes') = 2
        BY <1>0, <3>1, <3>2, <3>6
    <3>8. Top' = routes'[Len(routes')]
        BY <3>6, <3>7, TopIs DEF Top
    <3> QED
        BY <3>6, <3>8
  <2> QED
      BY <2>1, <2>2
<1> QED
    BY <1>1, <1>2, <1>3

\* The parts of EntryStillOpen.
CheckOfOpened ==
    \A k \in Checks : check[k].pc # "unused" => check[k].ctl \in 1..opened /\ check[k].code \in Codes
DocumentOfOpened == \A c \in Controllers : documentId[c] # NoLog => c \in 1..opened
EntryInUse ==
    registered # 0 /\ documentId[registered] # NoLog =>
        /\ documentId[registered] \notin timeOuts
        /\ logbook[documentId[registered]].timeOut = "absent"

\* They make up EntryStillOpen, before and after a step.
LEMMA EntryParts ==
    /\ EntryStillOpen <=> /\ CheckOfOpened /\ DocumentOfOpened /\ EntryInUse
                          /\ Top = "scanner" => registered \in 1..opened
    /\ EntryStillOpen' <=> /\ CheckOfOpened' /\ DocumentOfOpened' /\ EntryInUse'
                           /\ Top' = "scanner" => registered' \in 1..opened'
BY DEF EntryStillOpen, CheckOfOpened, DocumentOfOpened, EntryInUse

\* The controller of a new scanner screen, and one an AR screen creates, has
\* no entry.
LEMMA FreshController ==
    ASSUME VisitInv, EntryStillOpen
    PROVE  /\ opened < MaxScreens => documentId[opened + 1] = NoLog
           /\ \A k \in Checks : documentId[ARController(k)] = NoLog /\ ARController(k) \notin 1..opened
<1>1. opened \in 0..MaxScreens /\ MaxScreens \in Nat /\ MaxChecks \in Nat
    BY MuseumVisitAssumption DEF VisitInv, TypeOK
<1>2. opened < MaxScreens => opened + 1 \in Controllers /\ opened + 1 \notin 1..opened
    BY <1>1 DEF Controllers
<1>3. \A k \in Checks : ARController(k) \in Controllers /\ ARController(k) \notin 1..opened
    BY <1>1 DEF Controllers, ARController, Checks
<1> QED
    BY <1>2, <1>3, EntryParts DEF DocumentOfOpened

\* A check that opens the AR screen: the entry it may have made is new, and
\* the controller in use is the one before, or has no entry.
LEMMA GrantEntry ==
    ASSUME VisitInv, EntryStillOpen, NEW k \in Checks, LogAdded(k) \/ LogFailed(k)
    PROVE  EntryStillOpen'
<1>1. /\ check[k].pc = "adding" /\ EnterAR(k) /\ opened' = opened /\ timeOuts' = timeOuts
      /\ logbook' \in {logbook, Append(logbook, LogEntry(k))}
      /\ \/ documentId' = documentId
         \/ /\ logbook' = Append(logbook, LogEntry(k))
            /\ documentId' = [documentId EXCEPT ![check[k].ctl] = Len(logbook) + 1]
    BY DEF LogAdded, LogFailed
<1>2. CheckOfOpened'
  <2>1. \A j \in Checks : check'[j].pc # "unused" =>
            check[j].pc # "unused" /\ check'[j].ctl = check[j].ctl /\ check'[j].code = check[j].code
    <3>1. "adding" # "unused"
        OBVIOUS
    <3> QED
        BY <1>1, <3>1, EnterARCheck, Zenon
  <2> QED
      BY <1>1, <2>1, EntryParts DEF CheckOfOpened
<1>3. /\ logbook \in Seq(Logs) /\ Len(logbook) \in Nat /\ DOMAIN logbook = 1..Len(logbook)
      /\ documentId \in [Controllers -> {NoLog} \cup (DOMAIN logbook)]
      /\ timeOuts \subseteq DOMAIN logbook
  <2>1. logbook \in Seq(Logs)
      BY DEF VisitInv, TypeOK
  <2> QED
      BY <2>1, LenProperties DEF VisitInv, TypeOK
<1>4. check[k].ctl \in Controllers /\ check[k].ctl \in 1..opened
  <2>1. check[k].pc # "unused"
      BY <1>1
  <2> QED
      BY <1>1, <2>1, OpenCheck, EntryParts DEF CheckOfOpened
<1>5. LogEntry(k) \in Logs /\ LogEntry(k).timeOut = "absent"
  <2>1. check[k].UserId \in {"visitor", ""}
      BY DEF VisitInv, TypeOK
  <2> QED
      BY <1>4, <2>1 DEF LogEntry, Logs
<1>6. \A c \in Controllers :
         \/ documentId'[c] = documentId[c]
         \/ /\ c = check[k].ctl /\ documentId'[c] = Len(logbook) + 1
            /\ logbook'[Len(logbook) + 1] = LogEntry(k)
  <2>1. CASE documentId' = documentId
      BY <2>1
  <2>2. CASE /\ logbook' = Append(logbook, LogEntry(k))
             /\ documentId' = [documentId EXCEPT ![check[k].ctl] = Len(logbook) + 1]
    <3>1. logbook'[Len(logbook) + 1] = LogEntry(k)
        BY <1>3, <1>5, <2>2
    <3> QED
        BY <1>3, <1>4, <2>2, <3>1
  <2> QED
      BY <1>1, <2>1, <2>2
<1>7. DocumentOfOpened'
  <2>1. \A c \in Controllers : documentId[c] # NoLog => c \in 1..opened
      BY EntryParts DEF DocumentOfOpened
  <2> QED
      BY <1>1, <1>4, <1>6, <2>1, Zenon DEF DocumentOfOpened
<1>8. EntryInUse'
  <2> SUFFICES ASSUME registered' # 0, documentId'[registered'] # NoLog
               PROVE  /\ documentId'[registered'] \notin timeOuts'
                      /\ logbook'[documentId'[registered']].timeOut = "absent"
      BY DEF EntryInUse
  <2>1. PICK c \in Controllers : c = registered'
      BY <1>1, EnterARRoutes
  <2>2. CASE documentId'[c] = documentId[c]
    <3>1. c = registered /\ registered # 0
      <4>1. documentId[c] # NoLog
          BY <2>1, <2>2
      <4>2. (registered' = registered /\ registered # 0) \/ registered' = ARController(k)
          BY <1>1 DEF EnterAR
      <4> QED
          BY <2>1, <4>1, <4>2, FreshController
    <3>2. PICK d \in DOMAIN logbook : d = documentId[c]
        BY <1>3, <2>1, <2>2
    <3>3. d \notin timeOuts /\ logbook[d].timeOut = "absent"
      <4>1. registered # 0 /\ documentId[registered] # NoLog /\ d = documentId[registered]
          BY <2>1, <2>2, <3>1, <3>2
      <4> QED
          BY <4>1, EntryParts, Zenon DEF EntryInUse
    <3>4. logbook'[d] = logbook[d]
      <4>1. CASE logbook' = logbook
          BY <4>1
      <4>2. CASE logbook' = Append(logbook, LogEntry(k))
          BY <1>3, <1>5, <3>2, <4>2
      <4> QED
          BY <1>1, <4>1, <4>2
    <3> QED
        BY <1>1, <2>1, <2>2, <3>2, <3>3, <3>4, Zenon
  <2>3. CASE documentId'[c] = Len(logbook) + 1 /\ logbook'[Len(logbook) + 1] = LogEntry(k)
    <3>1. Len(logbook) + 1 \notin DOMAIN logbook
        BY <1>3
    <3> QED
        BY <1>1, <1>3, <1>5, <2>1, <2>3, <3>1, Zenon
  <2> QED
      BY <1>6, <2>2, <2>3
<1>9. Top' # "scanner"
    BY <1>1, TopAfter
<1> QED
    BY <1>2, <1>7, <1>8, <1>9, EntryParts

\* A written time-out is not that of the entry in use.
LEMMA TimeOutEntry ==
    ASSUME VisitInv, EntryStillOpen, NEW d \in DOMAIN logbook, TimeOutWritten(d) \/ TimeOutFailed(d)
    PROVE  EntryStillOpen'
<1>1. /\ timeOuts' \subseteq timeOuts /\ d \in timeOuts
      /\ UNCHANGED <<routes, opened, registered, documentId, check>>
      /\ logbook' = logbook \/ logbook' = [logbook EXCEPT ![d].timeOut = "set"]
    BY DEF TimeOutWritten, TimeOutFailed
<1>2. CheckOfOpened' /\ DocumentOfOpened' /\ (Top' = "scanner" => registered' \in 1..opened')
    BY <1>1, EntryParts DEF CheckOfOpened, DocumentOfOpened, Top
<1>3. EntryInUse'
  <2> SUFFICES ASSUME registered # 0, documentId[registered] # NoLog
               PROVE  /\ documentId[registered] \notin timeOuts'
                      /\ logbook'[documentId[registered]].timeOut = "absent"
      BY <1>1 DEF EntryInUse
  <2>1. documentId[registered] \notin timeOuts /\ logbook[documentId[registered]].timeOut = "absent"
      BY EntryParts, Zenon DEF EntryInUse
  <2>2. documentId[registered] # d
      BY <1>1, <2>1
  <2>3. documentId[registered] \in DOMAIN logbook
      BY DEF VisitInv, TypeOK
  <2>4. logbook'[documentId[registered]] = logbook[documentId[registered]]
      BY <1>1, <2>2, <2>3
  <2> QED
      BY <1>1, <2>1, <2>4
<1> QED
    BY <1>2, <1>3, EntryParts

\* What an awaited answer does to its check.
LEMMA AnswerMoves ==
    ASSUME VisitInv, NEW k \in Checks, CodeAnswered(k) \/ CodeFailed(k) \/ UserFetched(k)
    PROVE  /\ check[k].pc \in {"checking", "fetching"}
           /\ check'[k].ctl = check[k].ctl /\ check'[k].code = check[k].code
           /\ CodeAnswered(k) => check'[k].pc = IF currentCode = check[k].code THEN "fetching" ELSE "denied"
           /\ CodeFailed(k) => check'[k].pc = "error"
           /\ UserFetched(k) => check'[k].pc = "adding"
           /\ check'[k].pc # "unused"
           /\ \A j \in Checks : j # k => check'[j] = check[j]
<1>1. check \in [Checks -> CheckRecords] /\ check[k] \in CheckRecords
    BY DEF VisitInv, TypeOK, CheckRecords
<1>2. CASE CodeAnswered(k)
  <2>1. PICK p \in {"fetching", "denied"} :
           /\ p = IF currentCode = check[k].code THEN "fetching" ELSE "denied"
           /\ check' = [check EXCEPT ![k].pc = p] /\ check[k].pc = "checking"
      BY <1>2 DEF CodeAnswered
  <2>2. ~CodeFailed(k) /\ ~UserFetched(k)
    <3>1. check'[k].pc = p
        BY <1>1, <2>1 DEF CheckRecords
    <3>2. CodeFailed(k) => check'[k].pc = "error"
        BY <1>1 DEF CodeFailed, CheckRecords
    <3> QED
        BY <2>1, <3>1, <3>2 DEF UserFetched
  <2> QED
      BY <1>1, <2>1, <2>2 DEF CheckRecords
<1>3. CASE CodeFailed(k)
  <2>1. check' = [check EXCEPT ![k].pc = "error"] /\ check[k].pc = "checking"
      BY <1>3 DEF CodeFailed
  <2>2. /\ check'[k].pc = "error" /\ check'[k].ctl = check[k].ctl /\ check'[k].code = check[k].code
        /\ \A j \in Checks : j # k => check'[j] = check[j]
      BY <1>1, <2>1 DEF CheckRecords
  <2> QED
      BY <1>2, <2>1, <2>2 DEF UserFetched
<1>4. CASE UserFetched(k)
  <2>1. PICK u \in {"visitor", ""} : check' = [check EXCEPT ![k].pc = "adding", ![k].UserId = u]
      BY <1>4 DEF UserFetched
  <2>2. check'[k] = [check[k] EXCEPT !.pc = "adding", !.UserId = u] /\ check[k].pc = "fetching"
      BY <1>1, <1>4, <2>1 DEF UserFetched
  <2>3. check'[k].pc = "adding" /\ check'[k].ctl = check[k].ctl /\ check'[k].code = check[k].code
      BY <1>1, <2>2 DEF CheckRecords
  <2>4. \A j \in Checks : j # k => check'[j] = check[j]
      BY <1>1, <2>1
  <2> QED
      BY <2>2, <2>3, <2>4 DEF CodeAnswered, CodeFailed
<1> QED
    BY <1>2, <1>3, <1>4

\* Every step keeps the entry of the controller in use open.
LEMMA EntryKeeps == ASSUME VisitInv, EntryStillOpen, [Next]_vars PROVE EntryStillOpen'
<1>0. /\ CheckOfOpened /\ DocumentOfOpened /\ EntryInUse
      /\ Top = "scanner" => registered \in 1..opened
    BY EntryParts
<1>1. CASE CodeChanges \/ UNCHANGED vars
    BY <1>0, <1>1, EntryParts DEF CodeChanges, vars, CheckOfOpened, DocumentOfOpened, EntryInUse, Top
<1>2. CASE OpenScanner
  <2>1. /\ opened' = opened + 1 /\ registered' = opened + 1 /\ opened < MaxScreens
        /\ UNCHANGED <<documentId, check, logbook, timeOuts>>
      BY <1>2 DEF OpenScanner
  <2>0. opened \in Nat
    <3>1. opened \in 0..MaxScreens
        BY DEF VisitInv, TypeOK
    <3> QED
        BY <3>1, MuseumVisitAssumption
  <2>2. \A i \in 1..opened : i \in 1..opened'
      BY <2>0, <2>1
  <2>3. CheckOfOpened' /\ DocumentOfOpened'
      BY <1>0, <2>1, <2>2 DEF CheckOfOpened, DocumentOfOpened
  <2>4. EntryInUse' /\ registered' \in 1..opened'
      BY <2>0, <2>1, FreshController DEF EntryInUse
  <2> QED
      BY <2>3, <2>4, EntryParts
<1>3. CASE LeaveScanner \/ ARNotSupported \/ ExitAR
  <2>1. registered' = 0 /\ UNCHANGED <<opened, documentId, check, logbook>>
      BY <1>3 DEF LeaveScanner, ARNotSupported, ExitAR
  <2>2. Top' # "scanner"
      BY <1>3, TopAfter
  <2>3. CheckOfOpened' /\ DocumentOfOpened' /\ EntryInUse'
      BY <1>0, <2>1 DEF CheckOfOpened, DocumentOfOpened, EntryInUse
  <2> QED
      BY <2>2, <2>3, EntryParts
<1>4. ASSUME NEW k \in Checks, NEW code \in Codes, OnDetect(k, code)
      PROVE  EntryStillOpen'
  <2>1. registered \in 1..opened /\ UNCHANGED <<routes, opened, registered, documentId, logbook, timeOuts>>
      BY <1>0, <1>4 DEF OnDetect
  <2>2. /\ check'[k].ctl = registered /\ check'[k].code = code
        /\ \A j \in Checks : j # k => check'[j] = check[j]
      BY <1>4 DEF OnDetect, VisitInv, TypeOK
  <2>3. CheckOfOpened'
      BY <1>0, <2>1, <2>2 DEF CheckOfOpened
  <2> QED
      BY <1>0, <2>1, <2>3, EntryParts DEF DocumentOfOpened, EntryInUse, Top
<1>5. ASSUME NEW k \in Checks, CodeAnswered(k) \/ CodeFailed(k) \/ UserFetched(k)
      PROVE  EntryStillOpen'
  <2>1. /\ check[k].pc \in {"checking", "fetching"}
        /\ UNCHANGED <<routes, opened, registered, documentId, logbook, timeOuts>>
      BY <1>5 DEF CodeAnswered, CodeFailed, UserFetched
  <2>2. \A j \in Checks : /\ check'[j].ctl = check[j].ctl /\ check'[j].code = check[j].code
                          /\ check'[j].pc # "unused" => check[j].pc # "unused"
    <3>1. "checking" # "unused" /\ "fetching" # "unused"
        OBVIOUS
    <3> QED
        BY <1>5, <2>1, <3>1, AnswerMoves
  <2>3. CheckOfOpened'
      BY <1>0, <2>1, <2>2 DEF CheckOfOpened
  <2> QED
      BY <1>0, <2>1, <2>3, EntryParts DEF DocumentOfOpened, EntryInUse, Top
<1>6. ASSUME NEW k \in Checks, CheckStep(k) PROVE EntryStillOpen'
    BY <1>5, <1>6, GrantEntry DEF CheckStep
<1>7. CASE TimeOutStep
    BY <1>7, TimeOutEntry DEF TimeOutStep
<1>8. CASE UserStep
    BY <1>2, <1>3, <1>4, <1>8 DEF UserStep
<1> QED
    BY <1>1, <1>3, <1>6, <1>7, <1>8 DEF Next

\* The entry of the controller in use is not timed out, nor about to be:
\* leaving the AR screen asks for the time-out of a visit that has none.
THEOREM EntryInUseIsOpen == Spec => []EntryStillOpen
<1>1. Init => EntryStillOpen
  <2> SUFFICES ASSUME Init PROVE EntryStillOpen
      OBVIOUS
  <2>1. Top = "menu" /\ registered = 0
      BY DEF Init, Top
  <2>2. /\ \A k \in Checks : check[k].pc = "unused"
        /\ \A c \in Controllers : documentId[c] = NoLog
      BY DEF Init
  <2> QED
      BY <2>1, <2>2 DEF EntryStillOpen
<1>2. VisitInv /\ EntryStillOpen /\ [Next]_vars => EntryStillOpen'
    BY EntryKeeps
<1> QED
    BY <1>1, <1>2, VisitInvariant, PTL DEF Spec

-----------------------------------------------------------------------------
(* MuseumVisit implements VisitLog.                                        *)

\* The scans whose check is in one of some states.
LEMMA CheckedByFacts ==
    ASSUME NEW S
    PROVE  /\ \A c : c \in CheckedBy(S) <=> \E k \in Checks : check[k].pc \in S /\ check[k].ctl = c
           /\ \A c : c \in CheckedBy(S)' <=> \E k \in Checks : check'[k].pc \in S /\ check'[k].ctl = c
BY DEF CheckedBy

\* The scans that wait for the published code.
LEMMA AskedFacts ==
    /\ \A p : p \in AskedCodes <=>
          \E k \in Checks : check[k].pc = "checking" /\ p = <<check[k].ctl, check[k].code>>
    /\ \A p : p \in AskedCodes' <=>
          \E k \in Checks : check'[k].pc = "checking" /\ p = <<check'[k].ctl, check'[k].code>>
BY DEF AskedCodes

\* A check that moves on moves its scan, and no other one.
LEMMA ScanMoves ==
    ASSUME VisitInv, NEW k \in Checks, check[k].pc # "unused", check'[k].ctl = check[k].ctl,
           \A j \in Checks : j # k => check'[j] = check[j],
           NEW S, "unused" \notin S
    PROVE  CheckedBy(S)' = IF check'[k].pc \in S THEN CheckedBy(S) \cup {check[k].ctl}
                                                 ELSE CheckedBy(S) \ {check[k].ctl}
<1>1. \A j \in Checks : check[j].pc \in S /\ check[j].ctl = check[k].ctl => j = k
    BY Zenon DEF VisitInv, CheckInv
<1>2. ASSUME NEW c, c # check[k].ctl
      PROVE  c \in CheckedBy(S)' <=> c \in CheckedBy(S)
  <2>1. ASSUME c \in CheckedBy(S)' PROVE c \in CheckedBy(S)
    <3>1. PICK j \in Checks : check'[j].pc \in S /\ check'[j].ctl = c
        BY <2>1, CheckedByFacts, Zenon
    <3>2. check'[j] = check[j]
        BY <1>2, <3>1
    <3> QED
        BY <3>1, <3>2, CheckedByFacts, Zenon
  <2>2. ASSUME c \in CheckedBy(S) PROVE c \in CheckedBy(S)'
    <3>1. PICK j \in Checks : check[j].pc \in S /\ check[j].ctl = c
        BY <2>2, CheckedByFacts, Zenon
    <3>2. check'[j] = check[j]
        BY <1>2, <3>1
    <3> QED
        BY <3>1, <3>2, CheckedByFacts, Zenon
  <2> QED
      BY <2>1, <2>2
<1>3. check[k].ctl \in CheckedBy(S)' <=> check'[k].pc \in S
  <2>1. check'[k].pc \in S => check[k].ctl \in CheckedBy(S)'
      BY CheckedByFacts, Zenon
  <2>2. ASSUME check[k].ctl \in CheckedBy(S)' PROVE check'[k].pc \in S
    <3>1. PICK j \in Checks : check'[j].pc \in S /\ check'[j].ctl = check[k].ctl
        BY <2>2, CheckedByFacts, Zenon
    <3>2. j = k
        BY <1>1, <3>1, Zenon
    <3> QED
        BY <3>1, <3>2
  <2> QED
      BY <2>1, <2>2
<1>4. ASSUME NEW c
      PROVE  c \in CheckedBy(S)' <=> c \in IF check'[k].pc \in S THEN CheckedBy(S) \cup {check[k].ctl}
                                                                 ELSE CheckedBy(S) \ {check[k].ctl}
    BY <1>2, <1>3
<1> QED
    BY <1>4

\* The scan of a check that is no longer waiting for the published code.
LEMMA AskedMoves ==
    ASSUME VisitInv, NEW k \in Checks, check[k].pc # "unused", check'[k].pc # "checking",
           \A j \in Checks : j # k => check'[j] = check[j]
    PROVE  /\ check[k].pc = "checking" => AskedCodes' = AskedCodes \ {<<check[k].ctl, check[k].code>>}
           /\ check[k].pc # "checking" => AskedCodes' = AskedCodes
<1>1. \A j \in Checks : check[j].pc = "checking" /\ check[j].ctl = check[k].ctl => j = k
  <2>1. "checking" # "unused"
      OBVIOUS
  <2> QED
      BY <2>1, Zenon DEF VisitInv, CheckInv
<1>2. ASSUME NEW p
      PROVE  p \in AskedCodes' <=> \E j \in Checks : /\ check[j].pc = "checking" /\ j # k
                                                     /\ p = <<check[j].ctl, check[j].code>>
  <2>1. ASSUME NEW j \in Checks, check'[j].pc = "checking", p = <<check'[j].ctl, check'[j].code>>
        PROVE  check[j].pc = "checking" /\ j # k /\ p = <<check[j].ctl, check[j].code>>
    <3>1. j # k
        BY <2>1
    <3>2. check'[j] = check[j]
        BY <3>1
    <3> QED
        BY <2>1, <3>1, <3>2, Zenon
  <2>2. ASSUME NEW j \in Checks, check[j].pc = "checking", j # k, p = <<check[j].ctl, check[j].code>>
        PROVE  check'[j].pc = "checking" /\ p = <<check'[j].ctl, check'[j].code>>
    <3>1. check'[j] = check[j]
        BY <2>2
    <3> QED
        BY <2>2, <3>1, Zenon
  <2>3. p \in AskedCodes' <=>
            \E j \in Checks : check'[j].pc = "checking" /\ p = <<check'[j].ctl, check'[j].code>>
      BY AskedFacts, Zenon
  <2> QED
      BY <2>1, <2>2, <2>3, Zenon
<1>3. ASSUME check[k].pc = "checking", NEW p
      PROVE  p \in AskedCodes' <=> p \in AskedCodes /\ p # <<check[k].ctl, check[k].code>>
  <2>1. ASSUME NEW j \in Checks, check[j].pc = "checking", p = <<check[j].ctl, check[j].code>>,
               p = <<check[k].ctl, check[k].code>>
        PROVE  j = k
    <3>1. check[j].ctl = check[k].ctl
        BY <2>1
    <3> QED
        BY <1>1, <2>1, <3>1
  <2>2. ASSUME p \in AskedCodes' PROVE p \in AskedCodes /\ p # <<check[k].ctl, check[k].code>>
      BY <1>2, <2>1, <2>2, AskedFacts, Zenon
  <2>3. ASSUME p \in AskedCodes, p # <<check[k].ctl, check[k].code>> PROVE p \in AskedCodes'
    <3>1. PICK j \in Checks : check[j].pc = "checking" /\ p = <<check[j].ctl, check[j].code>>
        BY <2>3, AskedFacts, Zenon
    <3>2. j # k
        BY <2>3, <3>1
    <3> QED
        BY <1>2, <3>1, <3>2, Zenon
  <2> QED
      BY <2>2, <2>3
<1>4. ASSUME check[k].pc # "checking", NEW p
      PROVE  p \in AskedCodes' <=> p \in AskedCodes
  <2>1. ASSUME p \in AskedCodes' PROVE p \in AskedCodes
      BY <1>2, <2>1, AskedFacts, Zenon
  <2>2. ASSUME p \in AskedCodes PROVE p \in AskedCodes'
    <3>1. PICK j \in Checks : check[j].pc = "checking" /\ p = <<check[j].ctl, check[j].code>>
        BY <2>2, AskedFacts, Zenon
    <3>2. j # k
        BY <1>4, <3>1
    <3> QED
        BY <1>2, <3>1, <3>2, Zenon
  <2> QED
      BY <2>1, <2>2
<1> QED
    BY <1>3, <1>4

\* A step that leaves the checks alone leaves the scans where they are.
LEMMA SameChecks ==
    ASSUME check' = check
    PROVE  AskedCodes' = AskedCodes /\ \A S : CheckedBy(S)' = CheckedBy(S)
BY DEF AskedCodes, CheckedBy

\* A step that leaves the logbook alone leaves the visit log alone.
LEMMA SameLog ==
    ASSUME logbook' = logbook
    PROVE  VisitEntries' = VisitEntries
BY DEF VisitEntries

\* The entries, one by one.
LEMMA EntryFacts ==
    ASSUME logbook \in Seq(Logs)
    PROVE  /\ DOMAIN VisitEntries = DOMAIN logbook
           /\ \A n \in DOMAIN logbook :
                 VisitEntries[n] = [scan |-> logbook[n].ctl, who |-> logbook[n].UserId,
                                    out |-> logbook[n].timeOut]
BY DEF VisitEntries

\* The camera's report presents the scan of a controller that has none.
LEMMA RefineDetect ==
    ASSUME VisitInv, NEW k \in Checks, NEW code \in Codes, OnDetect(k, code)
    PROVE  Visits!Next
<1>1. registered \in Controllers /\ ~scanCompleted[registered]
    BY TopShape DEF OnDetect, VisitInv, RouteInv, TypeOK
<1>2. /\ check[k].pc = "unused" /\ check'[k].pc = "checking" /\ check'[k].ctl = registered
      /\ check'[k].code = code
      /\ \A j \in Checks : j # k => check'[j] = check[j]
    BY DEF OnDetect, VisitInv, TypeOK
<1>3. UNCHANGED <<currentCode, logbook, timeOuts>>
    BY DEF OnDetect
<1>4. \A j \in Checks : check[j].pc # "unused" => check[j].ctl # registered
    BY <1>1 DEF VisitInv, CheckInv
<1>5. ASSUME NEW S, "checking" \notin S, "unused" \notin S
      PROVE  CheckedBy(S)' = CheckedBy(S)
  <2>1. ASSUME NEW c PROVE c \in CheckedBy(S)' <=> c \in CheckedBy(S)
    <3>1. ASSUME NEW j \in Checks, check'[j].pc \in S \/ check[j].pc \in S PROVE j # k
        BY <1>2, <1>5, <3>1
    <3>2. \A j \in Checks : check'[j].pc \in S /\ check'[j].ctl = c <=> check[j].pc \in S /\ check[j].ctl = c
        BY <1>2, <3>1
    <3> QED
        BY <3>2, CheckedByFacts, Zenon
  <2> QED
      BY <2>1
<1>6. CheckedBy(CheckStates \ {"unused"})' = CheckedBy(CheckStates \ {"unused"}) \cup {registered}
  <2> DEFINE S == CheckStates \ {"unused"}
  <2>1. "checking" \in S /\ "unused" \notin S
      BY DEF CheckStates
  <2> HIDE DEF S
  <2>2. ASSUME NEW c PROVE c \in CheckedBy(S)' <=> c \in CheckedBy(S) \/ c = registered
    <3>1. \A j \in Checks : check'[j].pc \in S /\ check'[j].ctl = c
                              <=> \/ check[j].pc \in S /\ check[j].ctl = c
                                  \/ j = k /\ c = registered
        BY <1>2, <2>1
    <3> QED
        BY <3>1, CheckedByFacts, Zenon
  <2>3. CheckedBy(S)' = CheckedBy(S) \cup {registered}
      BY <2>2
  <2> QED
      BY <2>3 DEF S
<1>7. registered \notin CheckedBy(CheckStates \ {"unused"})
  <2> SUFFICES ASSUME registered \in CheckedBy(CheckStates \ {"unused"}) PROVE FALSE
      OBVIOUS
  <2>1. PICK j \in Checks : check[j].pc \in CheckStates \ {"unused"} /\ check[j].ctl = registered
      BY CheckedByFacts
  <2> QED
      BY <1>4, <2>1
<1>8. AskedCodes' = AskedCodes \cup {<<registered, code>>}
  <2>1. ASSUME NEW p PROVE p \in AskedCodes' <=> p \in AskedCodes \/ p = <<registered, code>>
    <3>1. \A j \in Checks : check'[j].pc = "checking" /\ p = <<check'[j].ctl, check'[j].code>>
                              <=> \/ check[j].pc = "checking" /\ p = <<check[j].ctl, check[j].code>>
                                  \/ j = k /\ p = <<registered, code>>
        BY <1>2
    <3>2. ASSUME p \in AskedCodes' PROVE p \in AskedCodes \/ p = <<registered, code>>
      <4>1. PICK j \in Checks : check'[j].pc = "checking" /\ p = <<check'[j].ctl, check'[j].code>>
          BY <3>2, AskedFacts, Zenon
      <4> QED
          BY <3>1, <4>1, AskedFacts, Zenon
    <3>3. ASSUME p \in AskedCodes PROVE p \in AskedCodes'
      <4>1. PICK j \in Checks : check[j].pc = "checking" /\ p = <<check[j].ctl, check[j].code>>
          BY <3>3, AskedFacts, Zenon
      <4> QED
          BY <3>1, <4>1, AskedFacts, Zenon
    <3>4. ASSUME p = <<registered, code>> PROVE p \in AskedCodes'
        BY <3>1, <3>4, AskedFacts, Zenon
    <3> QED
        BY <3>2, <3>3, <3>4
  <2> QED
      BY <2>1
<1>9. CheckedBy({"fetching", "adding"})' = CheckedBy({"fetching", "adding"})
    BY <1>5
<1>10. CheckedBy({"granted"})' = CheckedBy({"granted"})
    BY <1>5
<1>11. Visits!Present(registered, code)
    BY <1>3, <1>6, <1>7, <1>8, <1>9, <1>10, SameLog DEF Visits!Present
<1> QED
    BY <1>1, <1>11 DEF Visits!Next

\* A check in flight is of a controller and of a code, and has a scan.
LEMMA CheckInFlight ==
    ASSUME VisitInv, NEW k \in Checks, check[k].pc # "unused"
    PROVE  /\ check[k].ctl \in Controllers
           /\ check[k].ctl \in CheckedBy(CheckStates \ {"unused"})
           /\ \A S : check[k].pc \in S => check[k].ctl \in CheckedBy(S)
           /\ check[k].pc = "checking" => <<check[k].ctl, check[k].code>> \in AskedCodes
<1>1. check[k].ctl \in Controllers
    BY DEF VisitInv, TypeOK, CheckInv
<1>2. check[k].pc \in CheckStates \ {"unused"}
    BY DEF VisitInv, TypeOK
<1> QED
    BY <1>1, <1>2, CheckedByFacts, AskedFacts, Zenon

\* A check that goes on, from and to some state, keeps its scan presented.
LEMMA ScannedStays ==
    ASSUME VisitInv, NEW k \in Checks, check[k].pc # "unused", check'[k].ctl = check[k].ctl,
           check'[k].pc \in CheckStates \ {"unused"},
           \A j \in Checks : j # k => check'[j] = check[j]
    PROVE  CheckedBy(CheckStates \ {"unused"})' = CheckedBy(CheckStates \ {"unused"})
<1> DEFINE S == CheckStates \ {"unused"}
<1>1. "unused" \notin S /\ check'[k].pc \in S
    OBVIOUS
<1>2. check[k].ctl \in CheckedBy(S)
    BY CheckInFlight
<1> HIDE DEF S
<1>3. CheckedBy(S)' = CheckedBy(S) \cup {check[k].ctl}
    BY <1>1, ScanMoves
<1>4. CheckedBy(S)' = CheckedBy(S)
    BY <1>2, <1>3
<1> QED
    BY <1>4 DEF S

\* The published code arrives, or does not, and the user record arrives.
LEMMA RefineAnswer ==
    ASSUME VisitInv, EntryStillOpen, NEW k \in Checks, CodeAnswered(k) \/ CodeFailed(k) \/ UserFetched(k)
    PROVE  Visits!Next \/ UNCHANGED Visits!vars
<1> DEFINE c == check[k].ctl
           code == check[k].code
<1>1. /\ check[k].pc \in {"checking", "fetching"} /\ check[k].pc # "unused"
      /\ check'[k].ctl = check[k].ctl
      /\ \A j \in Checks : j # k => check'[j] = check[j]
      /\ UNCHANGED <<currentCode, logbook, timeOuts>>
    BY AnswerMoves DEF CodeAnswered, CodeFailed, UserFetched
<1>2. check'[k].pc \in {"fetching", "denied", "error", "adding"}
    BY AnswerMoves
<1>3. CheckedBy(CheckStates \ {"unused"})' = CheckedBy(CheckStates \ {"unused"})
  <2>1. check'[k].pc \in CheckStates \ {"unused"}
      BY <1>2 DEF CheckStates
  <2> QED
      BY <1>1, <2>1, ScannedStays
<1>4. CheckedBy({"granted"})' = CheckedBy({"granted"})
  <2>1. CheckedBy({"granted"})' = CheckedBy({"granted"}) \ {c}
    <3>1. "unused" \notin {"granted"} /\ check'[k].pc \notin {"granted"}
        BY <1>2
    <3> QED
        BY <1>1, <3>1, ScanMoves
  <2>2. c \notin CheckedBy({"granted"})
    <3>1. ASSUME NEW j \in Checks, check[j].pc \in {"granted"}, check[j].ctl = check[k].ctl PROVE FALSE
      <4>1. j = k
          BY <1>1, <3>1 DEF VisitInv, CheckInv
      <4> QED
          BY <1>1, <3>1, <4>1
    <3> QED
        BY <3>1, CheckedByFacts
  <2> QED
      BY <2>1, <2>2
<1>5. CheckedBy({"fetching", "adding"})' =
         IF check'[k].pc \in {"fetching", "adding"} THEN CheckedBy({"fetching", "adding"}) \cup {c}
                                                    ELSE CheckedBy({"fetching", "adding"}) \ {c}
  <2>1. "unused" \notin {"fetching", "adding"}
      OBVIOUS
  <2> QED
      BY <1>1, <2>1, ScanMoves
<1>6. /\ check[k].pc = "checking" => AskedCodes' = AskedCodes \ {<<c, code>>}
      /\ check[k].pc # "checking" => AskedCodes' = AskedCodes
  <2>1. check'[k].pc # "checking"
      BY <1>2
  <2> QED
      BY <1>1, <2>1, AskedMoves
<1>7. /\ c \in Controllers /\ code \in Codes
      /\ check[k].pc = "checking" => <<c, code>> \in AskedCodes
      /\ check[k].pc = "fetching" => c \in CheckedBy({"fetching", "adding"})
  <2>1. /\ check[k].ctl \in Controllers
        /\ \A S : check[k].pc \in S => check[k].ctl \in CheckedBy(S)
        /\ check[k].pc = "checking" => <<check[k].ctl, check[k].code>> \in AskedCodes
      BY <1>1, CheckInFlight
  <2>2. check[k].pc = "fetching" => check[k].pc \in {"fetching", "adding"}
      OBVIOUS
  <2>3. check[k].code \in Codes
      BY <1>1, EntryParts DEF CheckOfOpened
  <2> QED
      BY <2>1, <2>2, <2>3
<1>8. check[k].pc = "checking" => c \notin CheckedBy({"fetching", "adding"})
  <2> SUFFICES ASSUME check[k].pc = "checking", c \in CheckedBy({"fetching", "adding"}) PROVE FALSE
      OBVIOUS
  <2>1. PICK j \in Checks : check[j].pc \in {"fetching", "adding"} /\ check[j].ctl = check[k].ctl
      BY CheckedByFacts
  <2>2. j = k
      BY <1>1, <2>1 DEF VisitInv, CheckInv
  <2> QED
      BY <2>1, <2>2
<1>9. VisitEntries' = VisitEntries
    BY <1>1, SameLog
<1> HIDE DEF c, code
<1>10. CASE CodeAnswered(k)
  <2>1. check[k].pc = "checking" /\ check'[k].pc = IF currentCode = code THEN "fetching" ELSE "denied"
      BY <1>10, AnswerMoves DEF CodeAnswered, code
  <2>2. CheckedBy({"fetching", "adding"})' =
            IF code = currentCode THEN CheckedBy({"fetching", "adding"}) \cup {c}
                                  ELSE CheckedBy({"fetching", "adding"})
    <3>1. CASE code = currentCode
      <4>1. check'[k].pc \in {"fetching", "adding"}
          BY <2>1, <3>1
      <4> QED
          BY <1>5, <3>1, <4>1
    <3>2. CASE code # currentCode
      <4>1. check'[k].pc \notin {"fetching", "adding"}
          BY <2>1, <3>2
      <4> QED
          BY <1>5, <1>8, <2>1, <3>2, <4>1
    <3> QED
        BY <3>1, <3>2
  <2>3. Visits!Compare(c, code)
      BY <1>1, <1>3, <1>4, <1>6, <1>7, <1>9, <2>1, <2>2 DEF Visits!Compare
  <2> QED
      BY <1>7, <2>3 DEF Visits!Next
<1>11. CASE CodeFailed(k)
  <2>1. check[k].pc = "checking" /\ check'[k].pc = "error"
      BY <1>11, AnswerMoves DEF CodeFailed
  <2>2. CheckedBy({"fetching", "adding"})' = CheckedBy({"fetching", "adding"})
      BY <1>5, <1>8, <2>1
  <2>3. Visits!Drop(c, code)
      BY <1>1, <1>3, <1>4, <1>6, <1>7, <1>9, <2>1, <2>2 DEF Visits!Drop
  <2> QED
      BY <1>7, <2>3 DEF Visits!Next
<1>12. CASE UserFetched(k)
  <2>1. check[k].pc = "fetching" /\ check'[k].pc = "adding"
      BY <1>12, AnswerMoves DEF UserFetched
  <2>2. CheckedBy({"fetching", "adding"})' = CheckedBy({"fetching", "adding"})
      BY <1>5, <1>7, <2>1
  <2>3. AskedCodes' = AskedCodes
      BY <1>6, <2>1
  <2> QED
      BY <1>1, <1>3, <1>4, <1>9, <2>2, <2>3 DEF Visits!vars
<1> QED
    BY <1>10, <1>11, <1>12

\* A new entry is a new entry of the visit log, without a time-out.
LEMMA EntryAppended ==
    ASSUME logbook \in Seq(Logs), NEW e \in Logs, e.timeOut = "absent",
           logbook' = Append(logbook, e)
    PROVE  VisitEntries' = Append(VisitEntries, [scan |-> e.ctl, who |-> e.UserId, out |-> "absent"])
<1> DEFINE v(x) == [scan |-> x.ctl, who |-> x.UserId, out |-> x.timeOut]
           x == [scan |-> e.ctl, who |-> e.UserId, out |-> "absent"]
<1>1. PICK n \in Nat : n = Len(logbook) /\ DOMAIN logbook = 1..n
    BY LenProperties
<1>2. /\ DOMAIN logbook' = 1..(n + 1)
      /\ \A i \in 1..n : logbook'[i] = logbook[i]
      /\ logbook'[n + 1] = e
    BY <1>1
<1>3. VisitEntries = [i \in 1..n |-> v(logbook[i])]
    BY <1>1 DEF VisitEntries
<1>4. VisitEntries' = [i \in 1..(n + 1) |-> v(logbook'[i])]
    BY <1>2 DEF VisitEntries
<1>5. v(e) = x
    OBVIOUS
<1> DEFINE T == {v(z) : z \in Logs}
<1>0. \A z \in Logs : v(z) \in T
    OBVIOUS
<1> HIDE DEF v, x, T
<1>6. x \in T /\ \A i \in 1..n : v(logbook[i]) \in T
    BY <1>0, <1>1, <1>5
<1>7. \A i \in 1..(n + 1) : v(logbook'[i]) \in T
  <2>1. \A i \in 1..(n + 1) : logbook'[i] \in Logs
      BY <1>1, <1>2
  <2> QED
      BY <1>0, <2>1
<1>8. VisitEntries \in Seq(T) /\ Len(VisitEntries) = n
    BY <1>3, <1>6
<1>9. VisitEntries' \in Seq(T) /\ Len(VisitEntries') = n + 1
  <2>1. PICK m \in Nat : m = n + 1
      OBVIOUS
  <2>2. VisitEntries' \in Seq(T) /\ Len(VisitEntries') = m
    <3>1. PICK g : g = [i \in 1..m |-> v(logbook'[i])]
        OBVIOUS
    <3>2. \A i \in 1..m : v(logbook'[i]) \in T
        BY <1>7, <2>1
    <3>3. g \in [1..m -> T]
        BY <3>1, <3>2, Zenon
    <3>4. g \in Seq(T) /\ Len(g) = m
        BY <3>3
    <3> QED
        BY <1>4, <2>1, <3>1, <3>4, Zenon
  <2> QED
      BY <2>1, <2>2
<1>10. /\ Append(VisitEntries, x) \in Seq(T) /\ Len(Append(VisitEntries, x)) = n + 1
       /\ \A i \in 1..n : Append(VisitEntries, x)[i] = VisitEntries[i]
       /\ Append(VisitEntries, x)[n + 1] = x
    BY <1>6, <1>8, AppendProperties
<1>11. ASSUME NEW i \in 1..(n + 1)
       PROVE  VisitEntries'[i] = Append(VisitEntries, x)[i]
  <2>1. CASE i = n + 1
      BY <1>2, <1>4, <1>5, <1>10, <2>1
  <2>2. CASE i # n + 1
    <3>1. i \in 1..n
        BY <1>1, <2>2
    <3> QED
        BY <1>2, <1>3, <1>4, <1>10, <3>1
  <2> QED
      BY <2>1, <2>2
<1>12. VisitEntries' = Append(VisitEntries, x)
    BY <1>9, <1>10, <1>11, SeqEqual
<1> QED
    BY <1>12 DEF x

\* Opening the AR screen lets the visitor in, with or without an entry.
LEMMA RefineGrant ==
    ASSUME VisitInv, NEW k \in Checks, LogAdded(k) \/ LogFailed(k)
    PROVE  Visits!Next
<1> DEFINE c == check[k].ctl
<1>1. /\ check[k].pc = "adding" /\ check[k].pc # "unused" /\ EnterAR(k)
      /\ logbook' \in {logbook, Append(logbook, LogEntry(k))}
      /\ UNCHANGED <<currentCode, timeOuts>>
    BY DEF LogAdded, LogFailed
<1>2. /\ check'[k].pc = "granted" /\ check'[k].ctl = check[k].ctl
      /\ \A j \in Checks : j # k => check'[j] = check[j]
    BY <1>1, EnterARCheck
<1>3. CheckedBy(CheckStates \ {"unused"})' = CheckedBy(CheckStates \ {"unused"})
  <2>1. check'[k].pc \in CheckStates \ {"unused"}
      BY <1>2 DEF CheckStates
  <2> QED
      BY <1>1, <1>2, <2>1, ScannedStays
<1>4. CheckedBy({"granted"})' = CheckedBy({"granted"}) \cup {c}
  <2>1. "unused" \notin {"granted"} /\ check'[k].pc \in {"granted"}
      BY <1>2
  <2> QED
      BY <1>1, <1>2, <2>1, ScanMoves
<1>5. CheckedBy({"fetching", "adding"})' = CheckedBy({"fetching", "adding"}) \ {c}
  <2>1. "unused" \notin {"fetching", "adding"} /\ check'[k].pc \notin {"fetching", "adding"}
      BY <1>2
  <2> QED
      BY <1>1, <1>2, <2>1, ScanMoves
<1>6. AskedCodes' = AskedCodes
  <2>1. check'[k].pc # "checking" /\ check[k].pc # "checking"
      BY <1>1, <1>2
  <2> QED
      BY <1>1, <1>2, <2>1, AskedMoves
<1>7. c \in Controllers /\ c \in CheckedBy({"fetching", "adding"})
  <2>1. check[k].pc \in {"fetching", "adding"}
      BY <1>1
  <2> QED
      BY <1>1, <2>1, CheckInFlight
<1>8. \/ VisitEntries' = VisitEntries
      \/ \E who \in {"visitor", ""} :
            VisitEntries' = Append(VisitEntries, [scan |-> c, who |-> who, out |-> "absent"])
  <2>1. CASE logbook' = logbook
      BY <2>1, SameLog
  <2>2. CASE logbook' = Append(logbook, LogEntry(k))
    <3>1. check[k].UserId \in {"visitor", ""} /\ logbook \in Seq(Logs)
        BY DEF VisitInv, TypeOK
    <3>2. /\ LogEntry(k) \in Logs /\ LogEntry(k).timeOut = "absent"
          /\ LogEntry(k).ctl = c /\ LogEntry(k).UserId = check[k].UserId
        BY <1>7, <3>1 DEF LogEntry, Logs
    <3>3. VisitEntries' = Append(VisitEntries, [scan |-> LogEntry(k).ctl, who |-> LogEntry(k).UserId,
                                                out |-> "absent"])
        BY <2>2, <3>1, <3>2, EntryAppended
    <3> QED
        BY <3>1, <3>2, <3>3
  <2> QED
      BY <1>1, <2>1, <2>2
<1> HIDE DEF c
<1>9. Visits!Admit(c)
    BY <1>1, <1>3, <1>4, <1>5, <1>6, <1>7, <1>8 DEF Visits!Admit
<1> QED
    BY <1>7, <1>9 DEF Visits!Next

\* Leaving the AR screen asks for the time-out of an open entry, or of none.
LEMMA RefineExit ==
    ASSUME VisitInv, EntryStillOpen, ExitAR
    PROVE  Visits!Next \/ UNCHANGED Visits!vars
<1>1. /\ registered \in Controllers /\ registered # 0
      /\ timeOuts' = timeOuts \cup ({documentId[registered]} \ {NoLog})
      /\ UNCHANGED <<currentCode, check, logbook>>
    BY TopShape DEF ExitAR, VisitInv, TypeOK
<1>2. /\ AskedCodes' = AskedCodes /\ VisitEntries' = VisitEntries
      /\ \A S : CheckedBy(S)' = CheckedBy(S)
    BY <1>1, SameChecks, SameLog
<1>3. CASE documentId[registered] = NoLog
    BY <1>1, <1>2, <1>3 DEF Visits!vars
<1>4. CASE documentId[registered] # NoLog
  <2>1. PICK n \in DOMAIN logbook : n = documentId[registered]
      BY <1>1, <1>4 DEF VisitInv, TypeOK
  <2>2. n \notin timeOuts /\ logbook[n].timeOut = "absent"
      BY <1>1, <1>4, <2>1, EntryParts, Zenon DEF EntryInUse
  <2>3. n \in DOMAIN VisitEntries /\ VisitEntries[n].out = "absent"
    <3>1. logbook \in Seq(Logs)
        BY DEF VisitInv, TypeOK
    <3>2. VisitEntries[n].out = logbook[n].timeOut
        BY <3>1, EntryFacts
    <3> QED
        BY <2>2, <3>1, <3>2, EntryFacts
  <2>4. timeOuts' = timeOuts \cup {n}
      BY <1>1, <1>4, <2>1
  <2>5. Visits!Leave(n)
      BY <1>1, <1>2, <2>2, <2>3, <2>4 DEF Visits!Leave
  <2> QED
      BY <2>3, <2>5 DEF Visits!Next
<1> QED
    BY <1>3, <1>4

\* A time-out is written to its own entry, or lost.
LEMMA RefineTimeOut ==
    ASSUME VisitInv, NEW d \in DOMAIN logbook, TimeOutWritten(d) \/ TimeOutFailed(d)
    PROVE  Visits!Next
<1>0. logbook \in Seq(Logs)
    BY DEF VisitInv, TypeOK
<1>1. d \in timeOuts /\ timeOuts' = timeOuts \ {d} /\ UNCHANGED <<currentCode, check>>
    BY DEF TimeOutWritten, TimeOutFailed
<1>2. AskedCodes' = AskedCodes /\ \A S : CheckedBy(S)' = CheckedBy(S)
    BY <1>1, SameChecks
<1>3. d \in DOMAIN VisitEntries
    BY <1>0, EntryFacts
<1>4. CASE TimeOutFailed(d)
  <2>1. VisitEntries' = VisitEntries
      BY <1>4, SameLog DEF TimeOutFailed
  <2>2. Visits!NoTimeOut(d)
      BY <1>1, <1>2, <2>1 DEF Visits!NoTimeOut
  <2> QED
      BY <1>3, <2>2 DEF Visits!Next
<1>5. CASE TimeOutWritten(d)
  <2> DEFINE v(x) == [scan |-> x.ctl, who |-> x.UserId, out |-> x.timeOut]
             e == [logbook[d] EXCEPT !.timeOut = "set"]
  <2>1. logbook' = [logbook EXCEPT ![d] = e] /\ logbook[d] \in Logs
      BY <1>0, <1>5 DEF TimeOutWritten
  <2>2. e.ctl = logbook[d].ctl /\ e.UserId = logbook[d].UserId /\ e.timeOut = "set"
      BY <2>1 DEF Logs
  <2>3. v(e) = [v(logbook[d]) EXCEPT !.out = "set"]
      BY <2>2
  <2>4. VisitEntries = [n \in DOMAIN logbook |-> v(logbook[n])]
      BY DEF VisitEntries
  <2>5. VisitEntries' = [n \in DOMAIN logbook' |-> v(logbook'[n])]
      BY DEF VisitEntries
  <2> HIDE DEF v, e
  <2>6. /\ DOMAIN logbook' = DOMAIN logbook
        /\ \A n \in DOMAIN logbook : logbook'[n] = IF n = d THEN e ELSE logbook[n]
      BY <2>1
  <2>7. VisitEntries' = [VisitEntries EXCEPT ![d] = [v(logbook[d]) EXCEPT !.out = "set"]]
      BY <2>3, <2>4, <2>5, <2>6
  <2>8. VisitEntries[d] = v(logbook[d])
      BY <2>4
  <2>9. VisitEntries' = [VisitEntries EXCEPT ![d].out = "set"]
      BY <2>7, <2>8
  <2>10. Visits!TimeOut(d)
      BY <1>1, <1>2, <2>9 DEF Visits!TimeOut
  <2> QED
      BY <1>3, <2>10 DEF Visits!Next
<1> QED
    BY <1>4, <1>5

\* The scanner screens, their controllers and the calls in flight implement
\* the visit log: a scan is compared once and lets its visitor in once, makes
\* at most one entry, and an entry's time-out is asked for only while it has
\* none, whatever screens overlap and whatever calls fail.
THEOREM ImplementsVisitLog == Spec => VisitLogImplemented
<1>1. Init => Visits!Init
  <2> SUFFICES ASSUME Init PROVE Visits!Init
      OBVIOUS
  <2>1. \A k \in Checks : check[k].pc = "unused"
      BY DEF Init
  <2>2. CheckedBy(CheckStates \ {"unused"}) = {} /\ AskedCodes = {}
      BY <2>1 DEF CheckedBy, AskedCodes
  <2>3. CheckedBy({"fetching", "adding"}) = {} /\ CheckedBy({"granted"}) = {}
      BY <2>1 DEF CheckedBy
  <2>4. VisitEntries = <<>>
    <3>1. logbook = <<>>
        BY DEF Init
    <3>2. DOMAIN logbook = {}
        BY <3>1
    <3> QED
        BY <3>2 DEF VisitEntries
  <2> QED
      BY <2>2, <2>3, <2>4 DEF Init, Visits!Init
<1>2. VisitInv /\ EntryStillOpen /\ [Next]_vars => [Visits!Next]_Visits!vars
  <2> SUFFICES ASSUME VisitInv, EntryStillOpen, [Next]_vars
               PROVE  Visits!Next \/ UNCHANGED Visits!vars
      OBVIOUS
  <2>1. ASSUME UNCHANGED <<check, logbook, timeOuts>>
        PROVE  /\ UNCHANGED <<AskedCodes, VisitEntries, timeOuts>>
               /\ \A S : CheckedBy(S)' = CheckedBy(S)
      BY <2>1, SameChecks, SameLog
  <2>2. CASE CodeChanges
    <3>1. currentCode' \in Codes \cup {NoCode} /\ UNCHANGED <<check, logbook, timeOuts>>
        BY <2>2 DEF CodeChanges
    <3>2. Visits!Publish
        BY <2>1, <3>1 DEF Visits!Publish
    <3> QED
        BY <3>2 DEF Visits!Next
  <2>3. CASE OpenScanner \/ LeaveScanner \/ ARNotSupported \/ UNCHANGED vars
    <3>1. UNCHANGED <<currentCode, check, logbook, timeOuts>>
        BY <2>3 DEF OpenScanner, LeaveScanner, ARNotSupported, vars
    <3> QED
        BY <2>1, <3>1 DEF Visits!vars
  <2>4. CASE UserStep
      BY <2>3, <2>4, RefineDetect, RefineExit DEF UserStep
  <2>5. ASSUME NEW k \in Checks, CheckStep(k) PROVE Visits!Next \/ UNCHANGED Visits!vars
      BY <2>5, RefineAnswer, RefineGrant DEF CheckStep
  <2>6. CASE TimeOutStep
      BY <2>6, RefineTimeOut DEF TimeOutStep
  <2> QED
      BY <2>2, <2>3, <2>4, <2>5, <2>6 DEF Next
<1> QED
    BY <1>1, <1>2, VisitInvariant, EntryInUseIsOpen, PTL DEF Spec, VisitLogImplemented, Visits!Spec
=============================================================================
