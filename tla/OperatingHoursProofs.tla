------------------------- MODULE OperatingHoursProofs -------------------------
(***************************************************************************)
(* Theorems about OperatingHours: what the label says is right for every   *)
(* weekly table and every time of the week, with the exceptions that the   *)
(* properties name.                                                        *)
(***************************************************************************)
EXTENDS OperatingHours, TLAPS

AnyTable == [Days -> Schedules \cup {NoHours}]

\* The seven days ahead reach every day of the week.
LEMMA EveryDayAhead ==
    ASSUME NEW d \in Days, NEW e \in Days
    PROVE  \E i \in 1..7 : DayAfter(d, i) = e
<1>1. CASE d < e
  <2>1. e - d \in 1..7 /\ (d + (e - d)) % 7 = e
    BY <1>1 DEF Days
  <2>2. QED
    BY <2>1 DEF DayAfter
<1>2. CASE e <= d
  <2>1. e + 7 - d \in 1..7 /\ (d + (e + 7 - d)) % 7 = e
    BY <1>2 DEF Days
  <2>2. QED
    BY <2>1 DEF DayAfter
<1>3. QED
  BY <1>1, <1>2 DEF Days

LEMMA DayAfterType ==
    ASSUME NEW d \in Days, NEW i \in 0..7
    PROVE  DayAfter(d, i) \in Days
BY DEF DayAfter, Days

\* The search finds a day if there is one, and the first one.
LEMMA FirstDayFound ==
    ASSUME NEW h \in AnyTable, NEW d \in Days, NEW e \in Days, HasHours(h, e)
    PROVE  FirstDayAhead(h, d) # {}
<1> DEFINE P(i) == HasHours(h, DayAfter(d, i))
<1>1. SUFFICES ASSUME FirstDayAhead(h, d) = {} PROVE FALSE
  OBVIOUS
<1>2. \A i \in 1..7 : (\A j \in 1..(i - 1) : ~P(j)) => ~P(i)
  BY <1>1 DEF FirstDayAhead
<1>3. PICK k \in 1..7 : P(k)
  BY EveryDayAhead
<1> HIDE DEF P
<1>4. ~P(1)
  BY <1>2
<1>5. ~P(2)
  BY <1>2, <1>4
<1>6. ~P(3)
  BY <1>2, <1>4, <1>5
<1>7. ~P(4)
  BY <1>2, <1>4, <1>5, <1>6
<1>8. ~P(5)
  BY <1>2, <1>4, <1>5, <1>6, <1>7
<1>9. ~P(6)
  BY <1>2, <1>4, <1>5, <1>6, <1>7, <1>8
<1>10. ~P(7)
  BY <1>2, <1>4, <1>5, <1>6, <1>7, <1>8, <1>9
<1>11. QED
  BY <1>3, <1>4, <1>5, <1>6, <1>7, <1>8, <1>9, <1>10

\* What SearchAhead returns.
LEMMA SearchResult ==
    ASSUME NEW h \in AnyTable, NEW d \in Days, NEW end \in {"open", "close"}, NEW o
    PROVE  \/ SearchAhead(h, d, end, o) = o /\ \A e \in Days : ~HasHours(h, e)
           \/ \E i \in 1..7 :
                /\ SearchAhead(h, d, end, o) = AnswerAhead(h, d, i, end)
                /\ HasHours(h, DayAfter(d, i))
                /\ \A j \in 1..(i - 1) : ~HasHours(h, DayAfter(d, j))
<1>1. CASE FirstDayAhead(h, d) = {}
  BY <1>1, FirstDayFound DEF SearchAhead
<1>2. CASE FirstDayAhead(h, d) # {}
  <2>1. (CHOOSE i \in FirstDayAhead(h, d) : TRUE) \in FirstDayAhead(h, d)
    BY <1>2
  <2>2. PICK i \in FirstDayAhead(h, d) : SearchAhead(h, d, end, o) = AnswerAhead(h, d, i, end)
    BY <1>2, <2>1 DEF SearchAhead
  <2>3. QED
    BY <2>2 DEF FirstDayAhead
<1>3. QED
  BY <1>1, <1>2

LEMMA AnswerType ==
    ASSUME NEW h \in AnyTable, NEW d \in Days, NEW i \in 0..7, NEW end \in {"open", "close"},
           HasHours(h, DayAfter(d, i))
    PROVE  AnswerAhead(h, d, i, end) \in Answers
<1>1. h[DayAfter(d, i)] \in Schedules
  BY DayAfterType DEF AnyTable, HasHours
<1>2. h[DayAfter(d, i)][end] \in TimesOfDay
  <2>1. CASE end = "open"
    BY <1>1, <2>1 DEF Schedules
  <2>2. CASE end = "close"
    BY <1>1, <2>2 DEF Schedules
  <2>3. QED
    BY <2>1, <2>2
<1>3. QED
  BY <1>2, DayAfterType DEF AnswerAhead, Answers
\* An answer for today is the answer ahead by no days.
LEMMA TodayIsAhead ==
    ASSUME NEW h \in AnyTable, NEW t \in Times, NEW end \in {"open", "close"}
    PROVE  /\ DayAfter(t.day, 0) = t.day
           /\ TodayAnswer(t, h[t.day][end]) = AnswerAhead(h, t.day, 0, end)
<1>1. DayAfter(t.day, 0) = t.day
  BY DEF DayAfter, Times, Days
<1>2. QED
  BY <1>1 DEF TodayAnswer, AnswerAhead

\* An answer found by searching on from today, when the time of today is not
\* to come in a later hour, skips nothing but the rest of this hour.
LEMMA SearchSkipsNothing ==
    ASSUME NEW h \in AnyTable, NEW t \in Times, NEW end \in {"open", "close"}, NEW i \in 1..7,
           HasHours(h, DayAfter(t.day, i)),
           \A j \in 1..(i - 1) : ~HasHours(h, DayAfter(t.day, j)),
           HasHours(h, t.day) => ~(t.hour < h[t.day][end].hour)
    PROVE  NothingSkipped(h, t, AnswerAhead(h, t.day, i, end), end)
<1> DEFINE a == AnswerAhead(h, t.day, i, end)
<1>1. a.days = i
  BY DEF AnswerAhead
<1>2. Ahead(h, t, i, end)
  BY DEF Ahead
<1>3. ASSUME NEW j \in 0..7, j < i, Ahead(h, t, j, end)
      PROVE  j = 0 /\ h[t.day][end].hour = t.hour
  <2>1. j = 0
    BY <1>3 DEF Ahead
  <2>2. HasHours(h, t.day) /\ Before(t, h[t.day][end])
    BY <2>1, <1>3, TodayIsAhead DEF Ahead
  <2>3. h[t.day] \in Schedules
    BY <2>2 DEF AnyTable, HasHours, Times
  <2>4. h[t.day][end] \in TimesOfDay
    <3>1. CASE end = "open"
      BY <2>3, <3>1 DEF Schedules
    <3>2. CASE end = "close"
      BY <2>3, <3>2 DEF Schedules
    <3>3. QED
      BY <3>1, <3>2
  <2>5. h[t.day][end].hour \in 0..23 /\ t.hour \in 0..23
    BY <2>4 DEF TimesOfDay, Times
  <2>6. QED
    BY <2>1, <2>2, <2>5 DEF Before
<1>4. QED
  BY <1>1, <1>2, <1>3 DEF NothingSkipped

\* An answer in a later hour of today skips nothing at all.
LEMMA TodaySkipsNothing ==
    ASSUME NEW h \in AnyTable, NEW t \in Times, NEW end \in {"open", "close"},
           HasHours(h, t.day), t.hour < h[t.day][end].hour
    PROVE  /\ TodayAnswer(t, h[t.day][end]) \in Answers
           /\ NothingSkipped(h, t, TodayAnswer(t, h[t.day][end]), end)
<1>1. TodayAnswer(t, h[t.day][end]) = AnswerAhead(h, t.day, 0, end)
  BY TodayIsAhead
<1>2. HasHours(h, DayAfter(t.day, 0))
  BY TodayIsAhead
<1>3. AnswerAhead(h, t.day, 0, end) \in Answers
  BY <1>2, AnswerType DEF Times
<1>4. Ahead(h, t, 0, end)
  BY <1>2 DEF Ahead, Before
<1>5. AnswerAhead(h, t.day, 0, end).days = 0
  BY DEF AnswerAhead
<1>6. QED
  BY <1>1, <1>3, <1>4, <1>5 DEF NothingSkipped

\* What whenToOpen returns, at every time and for every table.
LEMMA WhenToOpenResult ==
    ASSUME NEW h \in AnyTable, NEW t \in Times
    PROVE  IF \A d \in Days : ~HasHours(h, d)
           THEN whenToOpen(h, t) = ClosedText
           ELSE /\ whenToOpen(h, t) \in Answers
                /\ NothingSkipped(h, t, whenToOpen(h, t), "open")
<1>1. t.day \in Days
  BY DEF Times
<1>2. CASE HasHours(h, t.day) /\ t.hour < h[t.day].open.hour
  BY <1>1, <1>2, TodaySkipsNothing DEF whenToOpen
<1>3. CASE ~(HasHours(h, t.day) /\ t.hour < h[t.day].open.hour)
  <2>1. whenToOpen(h, t) = SearchAhead(h, t.day, "open", ClosedText)
    BY <1>3 DEF whenToOpen
  <2>2. CASE SearchAhead(h, t.day, "open", ClosedText) = ClosedText /\ \A e \in Days : ~HasHours(h, e)
    BY <2>1, <2>2
  <2>3. ASSUME NEW i \in 1..7,
               SearchAhead(h, t.day, "open", ClosedText) = AnswerAhead(h, t.day, i, "open"),
               HasHours(h, DayAfter(t.day, i)),
               \A j \in 1..(i - 1) : ~HasHours(h, DayAfter(t.day, j))
        PROVE  /\ ~ \A d \in Days : ~HasHours(h, d)
               /\ whenToOpen(h, t) \in Answers
               /\ NothingSkipped(h, t, whenToOpen(h, t), "open")
    <3>1. ~ \A d \in Days : ~HasHours(h, d)
      BY <1>1, <2>3, DayAfterType
    <3>2. whenToOpen(h, t) \in Answers
      BY <1>1, <2>1, <2>3, AnswerType
    <3>3. NothingSkipped(h, t, whenToOpen(h, t), "open")
      BY <1>3, <2>1, <2>3, SearchSkipsNothing
    <3>4. QED
      BY <3>1, <3>2, <3>3
  <2>4. QED
    BY <1>1, <2>2, <2>3, SearchResult
<1>4. QED
  BY <1>2, <1>3

\* What whenToClose returns.
LEMMA WhenToCloseResult ==
    ASSUME NEW h \in AnyTable, NEW t \in Times
    PROVE  IF ~HasHours(h, t.day)
           THEN whenToClose(h, t) = ClosedText
           ELSE /\ whenToClose(h, t) \in Answers
                /\ NothingSkipped(h, t, whenToClose(h, t), "close")
<1>1. t.day \in Days
  BY DEF Times
<1>2. CASE ~HasHours(h, t.day)
  BY <1>2 DEF whenToClose
<1>3. CASE HasHours(h, t.day) /\ t.hour < h[t.day].close.hour
  BY <1>1, <1>3, TodaySkipsNothing DEF whenToClose
<1>4. CASE HasHours(h, t.day) /\ ~(t.hour < h[t.day].close.hour)
  <2>1. whenToClose(h, t) = SearchAhead(h, t.day, "close", NoText)
    BY <1>4 DEF whenToClose
  <2>2. PICK i \in 1..7 : /\ SearchAhead(h, t.day, "close", NoText) = AnswerAhead(h, t.day, i, "close")
                          /\ HasHours(h, DayAfter(t.day, i))
                          /\ \A j \in 1..(i - 1) : ~HasHours(h, DayAfter(t.day, j))
    BY <1>1, <1>4, SearchResult
  <2>3. whenToClose(h, t) \in Answers
    BY <1>1, <2>1, <2>2, AnswerType
  <2>4. NothingSkipped(h, t, whenToClose(h, t), "close")
    BY <1>4, <2>1, <2>2, SearchSkipsNothing
  <2>5. QED
    BY <1>4, <2>3, <2>4
<1>5. QED
  BY <1>2, <1>3, <1>4

-----------------------------------------------------------------------------
(* The label.                                                              *)

LEMMA TablesAreTables == ASSUME LabelInv PROVE table \in AnyTable
BY HoursAssumption DEF LabelInv, TypeOK, AnyTable

LEMMA LabelInit == Init => LabelInv
<1> SUFFICES ASSUME Init PROVE LabelInv
  OBVIOUS
<1>1. label \in [isOpen : BOOLEAN, openTimes : Answers \cup {ClosedText, NoText},
                 closeTimes : Answers \cup {ClosedText, NoText}]
  BY DEF Init
<1>2. TypeOK
  BY <1>1 DEF Init, TypeOK
<1>3. QED
  BY <1>2 DEF Init, LabelInv

LEMMA SuccessorType == ASSUME NEW t \in Times PROVE Successor(t) \in Times
<1>1. t.day \in Days /\ t.hour \in 0..23 /\ t.min \in 0..(PerHour - 1)
  BY DEF Times
<1>2. DayAfter(t.day, 1) \in Days
  BY <1>1, DayAfterType
<1>3. 0 \in 0..(PerHour - 1)
  BY HoursAssumption
<1>4. CASE t.min + 1 < PerHour
  BY <1>1, <1>4, HoursAssumption DEF Successor, Times
<1>5. CASE ~(t.min + 1 < PerHour) /\ t.hour < 23
  <2>1. t.hour + 1 \in 0..23
    BY <1>1, <1>5
  <2>2. Successor(t) = [[t EXCEPT !.hour = t.hour + 1] EXCEPT !.min = 0]
    BY <1>5 DEF Successor, Times
  <2>3. [t EXCEPT !.hour = t.hour + 1] \in Times
    BY <2>1 DEF Times
  <2>4. QED
    BY <1>3, <2>2, <2>3 DEF Times
<1>6. CASE ~(t.min + 1 < PerHour) /\ ~(t.hour < 23)
  BY <1>2, <1>3, <1>6 DEF Successor, Times
<1>7. QED
  BY <1>4, <1>5, <1>6

LEMMA LabelStep == LabelInv /\ [Next]_vars => LabelInv'
<1> SUFFICES ASSUME LabelInv, [Next]_vars PROVE LabelInv'
  OBVIOUS
<1> USE DEF Fields
<1>1. table \in AnyTable /\ now \in Times
  BY TablesAreTables DEF LabelInv, TypeOK
<1>2. CASE SetIsOpen
  <2>1. checkIfLocationIsOpen(table, now) \in BOOLEAN
    BY DEF checkIfLocationIsOpen
  <2>2. label'.isOpen = checkIfLocationIsOpen(table', readAt'["isOpen"])
    BY <1>2 DEF SetIsOpen, LabelInv, TypeOK
  <2>3. TypeOK'
    BY <1>2, <2>1 DEF SetIsOpen, LabelInv, TypeOK
  <2>4. QED
    BY <1>2, <2>2, <2>3 DEF SetIsOpen, LabelInv
<1>3. CASE SetOpenTimes
  <2>1. whenToOpen(table, now) \in Answers \cup {ClosedText, NoText}
    BY <1>1, WhenToOpenResult
  <2>2. /\ label'.isOpen = checkIfLocationIsOpen(table', readAt'["isOpen"])
        /\ label'.openTimes = whenToOpen(table', readAt'["openTimes"])
    BY <1>3 DEF SetOpenTimes, LabelInv, TypeOK
  <2>3. TypeOK'
    BY <1>3, <2>1 DEF SetOpenTimes, LabelInv, TypeOK
  <2>4. QED
    BY <1>3, <2>2, <2>3 DEF SetOpenTimes, LabelInv
<1>4. CASE SetCloseTimes
  <2>1. whenToClose(table, now) \in Answers \cup {ClosedText, NoText}
    BY <1>1, WhenToCloseResult
  <2>2. /\ label'.isOpen = checkIfLocationIsOpen(table', readAt'["isOpen"])
        /\ label'.openTimes = whenToOpen(table', readAt'["openTimes"])
        /\ label'.closeTimes = whenToClose(table', readAt'["closeTimes"])
    BY <1>4 DEF SetCloseTimes, LabelInv, TypeOK
  <2>3. TypeOK'
    BY <1>4, <2>1 DEF SetCloseTimes, LabelInv, TypeOK
  <2>4. QED
    BY <2>2, <2>3 DEF LabelInv
<1>5. CASE Tick
  <2>1. TypeOK'
    BY <1>1, <1>5, SuccessorType DEF Tick, LabelInv, TypeOK
  <2>2. QED
    BY <1>5, <2>1 DEF Tick, LabelInv
<1>6. CASE UNCHANGED vars
  BY <1>6 DEF vars, LabelInv, TypeOK
<1>7. QED
  BY <1>2, <1>3, <1>4, <1>5, <1>6 DEF Next

\* Every field of the label is the result of its function at one clock time,
\* whatever the clock did between the three calls of a fetch.
THEOREM LabelIsComputed == Spec => []LabelInv
<1>1. QED
  BY LabelInit, LabelStep, PTL DEF Spec

\* The types of clock, table and label.
THEOREM HoursTypes == Spec => []TypeOK
<1>1. LabelInv => TypeOK
  BY DEF LabelInv
<1>2. QED
  BY <1>1, LabelIsComputed, PTL

\* checkIfLocationIsOpen agrees with the table at every minute outside of the
\* hours in which the location opens or closes in mid-hour.
THEOREM OpenIsByTheTable == Spec => []OpenByTheTable
<1>1. LabelInv => OpenByTheTable
  <2> SUFFICES ASSUME LabelInv, "isOpen" \in fetched, WithinDays(table),
                      ~BoundaryHour(table, readAt["isOpen"])
               PROVE  label.isOpen = OpenByTable(table, readAt["isOpen"])
    BY DEF OpenByTheTable
  <2> DEFINE t == readAt["isOpen"]
  <2>1. table \in AnyTable /\ t \in Times
    BY TablesAreTables DEF LabelInv, TypeOK, Fields
  <2>2. label.isOpen = checkIfLocationIsOpen(table, t)
    BY DEF LabelInv
  <2>3. CASE ~HasHours(table, t.day)
    BY <2>2, <2>3 DEF checkIfLocationIsOpen, OpenByTable
  <2>4. CASE HasHours(table, t.day)
    <3> DEFINE o == table[t.day].open
               c == table[t.day].close
    <3>1. table[t.day] \in Schedules /\ t.day \in Days
      BY <2>1, <2>4 DEF AnyTable, HasHours, Times
    <3>2. o.hour \in 0..23 /\ c.hour \in 0..23 /\ t.hour \in 0..23
      BY <2>1, <3>1 DEF Schedules, TimesOfDay, Times
    <3>3. o.min \in 0..(PerHour - 1) /\ c.min \in 0..(PerHour - 1) /\ t.min \in 0..(PerHour - 1)
      BY <2>1, <3>1 DEF Schedules, TimesOfDay, Times
    <3>4. o.min \in Nat /\ c.min \in Nat /\ t.min \in Nat
      BY <3>3, HoursAssumption
    <3>5. Before(o, c)
      BY <2>4, <3>1 DEF WithinDays
    <3>6. (t.hour = o.hour => o.min = 0) /\ (t.hour = c.hour => c.min = 0)
      BY <2>4 DEF BoundaryHour
    <3>7. (o.hour <= t.hour /\ t.hour < c.hour) <=> (~Before(t, o) /\ Before(t, c))
      BY <3>2, <3>4, <3>5, <3>6 DEF Before
    <3>8. QED
      BY <2>2, <2>4, <3>7 DEF checkIfLocationIsOpen, OpenByTable
  <2>5. QED
    BY <2>3, <2>4
<1>2. QED
  BY <1>1, LabelIsComputed, PTL

\* whenToOpen names the next opening for every table and every time.
THEOREM OpeningNotSkipped == Spec => []NextOpeningNotSkipped
<1>1. LabelInv => NextOpeningNotSkipped
  <2> SUFFICES ASSUME LabelInv, "openTimes" \in fetched
               PROVE  IF \A d \in Days : ~HasHours(table, d)
                      THEN label.openTimes = ClosedText
                      ELSE /\ label.openTimes \in Answers
                           /\ NothingSkipped(table, readAt["openTimes"], label.openTimes, "open")
    BY DEF NextOpeningNotSkipped
  <2>1. table \in AnyTable /\ readAt["openTimes"] \in Times
    BY TablesAreTables DEF LabelInv, TypeOK, Fields
  <2>2. label.openTimes = whenToOpen(table, readAt["openTimes"])
    BY DEF LabelInv
  <2>3. QED
    BY <2>1, <2>2, WhenToOpenResult
<1>2. QED
  BY <1>1, LabelIsComputed, PTL

\* whenToClose names the next closing, and never the empty text.
THEOREM ClosingNotSkipped == Spec => []NextClosingNotSkipped
<1>1. LabelInv => NextClosingNotSkipped
  <2> SUFFICES ASSUME LabelInv, "closeTimes" \in fetched, HasHours(table, readAt["closeTimes"].day)
               PROVE  /\ label.closeTimes \in Answers
                      /\ NothingSkipped(table, readAt["closeTimes"], label.closeTimes, "close")
    BY DEF NextClosingNotSkipped
  <2>1. table \in AnyTable /\ readAt["closeTimes"] \in Times
    BY TablesAreTables DEF LabelInv, TypeOK, Fields
  <2>2. label.closeTimes = whenToClose(table, readAt["closeTimes"])
    BY DEF LabelInv
  <2>3. QED
    BY <2>1, <2>2, WhenToCloseResult
<1>2. QED
  BY <1>1, LabelIsComputed, PTL

\* Both together: no label goes past the next opening or closing.
THEOREM TimesNotSkipped == Spec => []NextTimesNotSkipped
<1>1. NextOpeningNotSkipped /\ NextClosingNotSkipped => NextTimesNotSkipped
  BY DEF NextTimesNotSkipped
<1>2. QED
  BY <1>1, OpeningNotSkipped, ClosingNotSkipped, PTL

\* A label "Open (Closes at ...)" names the closing of the day it was computed
\* on, when the clock did not move on between the calls.
THEOREM OpenLabelNamesItsClosing == Spec => []ClosesTheOpenDay
<1>1. LabelInv => ClosesTheOpenDay
  <2> SUFFICES ASSUME LabelInv, fetched = Fields, label.isOpen,
                      readAt["closeTimes"] = readAt["isOpen"]
               PROVE  /\ label.closeTimes = TodayAnswer(readAt["isOpen"], table[readAt["isOpen"].day].close)
                      /\ Before(readAt["isOpen"], label.closeTimes.time)
    BY DEF ClosesTheOpenDay
  <2> DEFINE t == readAt["isOpen"]
  <2>1. checkIfLocationIsOpen(table, t) /\ label.closeTimes = whenToClose(table, t)
    BY DEF LabelInv, Fields
  <2>2. HasHours(table, t.day) /\ t.hour < table[t.day].close.hour
    BY <2>1 DEF checkIfLocationIsOpen
  <2>3. label.closeTimes = TodayAnswer(t, table[t.day].close)
    BY <2>1, <2>2 DEF whenToClose
  <2>4. QED
    BY <2>2, <2>3 DEF TodayAnswer, Before
<1>2. QED
  BY <1>1, LabelIsComputed, PTL
=============================================================================
