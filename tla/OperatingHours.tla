---------------------------- MODULE OperatingHours ----------------------------
(***************************************************************************)
(* The opening hours of a location as LocationController works them out:   *)
(* checkIfLocationIsOpen, whenToOpen and whenToClose over a weekly table,  *)
(* and the label "Open (Closes at ...)" or "Closed (Opens at ...)" that a  *)
(* fetch puts together from three calls.                                   *)
(*                                                                         *)
(* Each call reads the clock anew and looks only at the hour, not at the   *)
(* minutes.  The label is computed once, when the location is fetched; the *)
(* clock goes on.                                                          *)
(***************************************************************************)
EXTENDS Naturals

CONSTANTS
    PerHour,   \* the clock and the tables count 1/PerHour of an hour: 60
    ClosedText, NoText,  \* the texts 'Closed' and ''
    NoHours,   \* a day that the table leaves out or leaves empty
    Tables     \* the weekly tables a location may have

Days == 0..6
TimesOfDay == [hour : 0..23, min : 0..(PerHour - 1)]
Times == [day : Days, hour : 0..23, min : 0..(PerHour - 1)]

\* The text '9:00 AM - 5:00 PM' of a day, split at '-' and parsed.
Schedules == [open : TimesOfDay, close : TimesOfDay]

\* What is shown: the weekday and the time found.  days is how far ahead the
\* search had to go, which the text does not show.
Answers == [day : Days, days : 0..7, time : TimesOfDay]

ASSUME HoursAssumption ==
    /\ PerHour \in Nat \ {0}
    /\ NoHours \notin Schedules
    /\ ClosedText \notin Answers /\ NoText \notin Answers /\ ClosedText # NoText
    /\ Tables \subseteq [Days -> Schedules \cup {NoHours}]

VARIABLES
    now,      \* DateTime.now()
    table,    \* location.operatingHours
    label,    \* the fields isOpen, openTimes, closeTimes of the location
    readAt,   \* readAt[f]: the clock when field f was computed
    fetched   \* the fields computed so far

vars == <<now, table, label, readAt, fetched>>

Fields == {"isOpen", "openTimes", "closeTimes"}

-----------------------------------------------------------------------------
DayAfter(d, i) == (d + i) % 7

HasHours(h, d) == h[d] # NoHours

\* for (int i = 1; i <= 7; i++): the first day ahead that has hours.
AheadSixDays(h, d) == {i \in 1..6 : HasHours(h, DayAfter(d, i))
                                  /\ \A j \in 1..(i - 1) : ~HasHours(h, DayAfter(d, j))}
FirstDayAhead(h, d) == {i \in 1..7 : HasHours(h, DayAfter(d, i))
                                   /\ \A j \in 1..(i - 1) : ~HasHours(h, DayAfter(d, j))}

TodayAnswer(t, time) == [day |-> t.day, days |-> 0, time |-> time]

AnswerDayUnwrapped(h, d, i, end) == [day |-> d + i, days |-> i, time |-> h[DayAfter(d, i)][end]]
AnswerAhead(h, d, i, end) == [day |-> DayAfter(d, i), days |-> i, time |-> h[DayAfter(d, i)][end]]

\* The answer of the search, or the text shown when it finds no day.
SearchAhead(h, d, end, otherwise) ==
    IF FirstDayAhead(h, d) = {} THEN otherwise
    ELSE AnswerAhead(h, d, CHOOSE i \in FirstDayAhead(h, d) : TRUE, end)

IsOpenThroughCloseHour(h, t) ==
    /\ HasHours(h, t.day)
    /\ h[t.day].open.hour <= t.hour
    /\ t.hour <= h[t.day].close.hour
checkIfLocationIsOpen(h, t) ==
    /\ HasHours(h, t.day)
    /\ h[t.day].open.hour <= t.hour
    /\ t.hour < h[t.day].close.hour

whenToOpen(h, t) ==
    IF HasHours(h, t.day) /\ t.hour < h[t.day].open.hour
    THEN TodayAnswer(t, h[t.day].open)
    ELSE SearchAhead(h, t.day, "open", ClosedText)

whenToClose(h, t) ==
    IF ~HasHours(h, t.day) THEN ClosedText
    ELSE IF t.hour < h[t.day].close.hour
    THEN TodayAnswer(t, h[t.day].close)
    ELSE SearchAhead(h, t.day, "close", NoText)

-----------------------------------------------------------------------------
TypeOK ==
    /\ now \in Times
    /\ table \in Tables
    /\ label \in [isOpen : BOOLEAN, openTimes : Answers \cup {ClosedText, NoText},
                  closeTimes : Answers \cup {ClosedText, NoText}]
    /\ readAt \in [Fields -> Times]
    /\ fetched \subseteq Fields

Init ==
    /\ now \in Times
    /\ table \in Tables
    /\ label = [isOpen |-> FALSE, openTimes |-> NoText, closeTimes |-> NoText]
    /\ readAt = [f \in Fields |-> now]
    /\ fetched = {}

\* setLocationsDetails and the featured fetch: three calls in a row, each
\* with a clock of its own.
SetIsOpen ==
    /\ fetched = {}
    /\ label' = [label EXCEPT !.isOpen = checkIfLocationIsOpen(table, now)]
    /\ readAt' = [readAt EXCEPT !["isOpen"] = now]
    /\ fetched' = {"isOpen"}
    /\ UNCHANGED <<now, table>>

SetOpenTimes ==
    /\ fetched = {"isOpen"}
    /\ label' = [label EXCEPT !.openTimes = whenToOpen(table, now)]
    /\ readAt' = [readAt EXCEPT !["openTimes"] = now]
    /\ fetched' = {"isOpen", "openTimes"}
    /\ UNCHANGED <<now, table>>

SetCloseTimes ==
    /\ fetched = {"isOpen", "openTimes"}
    /\ label' = [label EXCEPT !.closeTimes = whenToClose(table, now)]
    /\ readAt' = [readAt EXCEPT !["closeTimes"] = now]
    /\ fetched' = Fields
    /\ UNCHANGED <<now, table>>

\* The clock moves on between two of the calls, once at most.
Successor(t) ==
    IF t.min + 1 < PerHour THEN [t EXCEPT !.min = @ + 1]
    ELSE IF t.hour < 23 THEN [t EXCEPT !.hour = @ + 1, !.min = 0]
    ELSE [day |-> DayAfter(t.day, 1), hour |-> 0, min |-> 0]

Tick ==
    /\ fetched # {} /\ fetched # Fields
    /\ readAt["isOpen"] = now
    /\ now' = Successor(now)
    /\ UNCHANGED <<table, label, readAt, fetched>>

Next == SetIsOpen \/ SetOpenTimes \/ SetCloseTimes \/ Tick

Spec == Init /\ [][Next]_vars

-----------------------------------------------------------------------------
(* The table read to the minute, and the properties.                       *)

Before(a, b) == a.hour < b.hour \/ (a.hour = b.hour /\ a.min < b.min)

\* No day closes after midnight, or at midnight.
WithinDays(h) == \A d \in Days : HasHours(h, d) => Before(h[d].open, h[d].close)

OpenByTable(h, t) ==
    HasHours(h, t.day) /\ ~Before(t, h[t.day].open) /\ Before(t, h[t.day].close)

\* Within this hour, but not at its start, the location opens or closes.
BoundaryHour(h, t) ==
    /\ HasHours(h, t.day)
    /\ \/ t.hour = h[t.day].open.hour /\ h[t.day].open.min # 0
       \/ t.hour = h[t.day].close.hour /\ h[t.day].close.min # 0

\* i days ahead of t there is an opening (a closing) that is still to come.
Ahead(h, t, i, end) ==
    HasHours(h, DayAfter(t.day, i)) /\ (i = 0 => Before(t, h[t.day][end]))

\* a is such an opening (closing), and each earlier one is later in this
\* same hour.
NothingSkipped(h, t, a, end) ==
    /\ a = AnswerAhead(h, t.day, a.days, end)
    /\ Ahead(h, t, a.days, end)
    /\ \A i \in 0..7 : i < a.days /\ Ahead(h, t, i, end) => i = 0 /\ h[t.day][end].hour = t.hour

\* checkIfLocationIsOpen looks at hours only, and yet it is right at every
\* minute for a place that opens and closes on the hour, and wrong within the
\* hour of opening or closing only, as long as no day closes after midnight.
OpenByTheTable ==
    ("isOpen" \in fetched /\ WithinDays(table) /\ ~BoundaryHour(table, readAt["isOpen"]))
        => label.isOpen = OpenByTable(table, readAt["isOpen"])

\* whenToOpen names the first opening to come, for the seven days ahead and
\* around the end of the week; it skips none but one in the current hour, and
\* says 'Closed' only when no day has hours.
NextOpeningNotSkipped ==
    "openTimes" \in fetched =>
        IF \A d \in Days : ~HasHours(table, d)
        THEN label.openTimes = ClosedText
        ELSE label.openTimes \in Answers /\ NothingSkipped(table, readAt["openTimes"], label.openTimes, "open")

\* whenToClose does the same for the closings, each read as a time of its own
\* day, on a day with hours: its search gets back to the same weekday at the
\* latest, so the empty text is never shown.
NextClosingNotSkipped ==
    ("closeTimes" \in fetched /\ HasHours(table, readAt["closeTimes"].day))
        => label.closeTimes \in Answers /\ NothingSkipped(table, readAt["closeTimes"], label.closeTimes, "close")

\* The two times of a label together: neither whenToOpen nor whenToClose goes
\* past the next one.
NextTimesNotSkipped == NextOpeningNotSkipped /\ NextClosingNotSkipped

\* The label does not contradict itself: "Open (Closes at ...)" names the
\* closing of the day it was computed on, which is still to come, provided
\* the three calls saw the same time.
ClosesTheOpenDay ==
    (fetched = Fields /\ label.isOpen /\ readAt["closeTimes"] = readAt["isOpen"])
        => /\ label.closeTimes = TodayAnswer(readAt["isOpen"], table[readAt["isOpen"].day].close)
           /\ Before(readAt["isOpen"], label.closeTimes.time)

-----------------------------------------------------------------------------
\* Each field of the label is what its function gave for the time it was read
\* at: the inductive invariant behind the properties.
LabelInv ==
    /\ TypeOK
    /\ "isOpen" \in fetched => label.isOpen = checkIfLocationIsOpen(table, readAt["isOpen"])
    /\ "openTimes" \in fetched => label.openTimes = whenToOpen(table, readAt["openTimes"])
    /\ "closeTimes" \in fetched => label.closeTimes = whenToClose(table, readAt["closeTimes"])
=============================================================================
