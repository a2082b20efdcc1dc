------------------------------ MODULE VisitLog ------------------------------
(***************************************************************************)
(* What the museum's logbook promises, without screens, controllers and    *)
(* calls: a scan is presented once, its code is compared once, with the    *)
(* code published at that instant, and a scan that matched lets its        *)
(* visitor in, which enters the visit in the logbook or, if that fails,    *)
(* does not.  An entry is never removed or moved and keeps its visitor;    *)
(* its time-out is asked for only while it has none and none is under way. *)
(*                                                                         *)
(* MuseumVisit implements this specification.                              *)
(***************************************************************************)
EXTENDS Naturals, Sequences

CONSTANTS
    Scans,   \* the scans of one behaviour
    Codes,   \* the codes a scan may present
    NoCode   \* no code is published

VARIABLES
    current,   \* the published code
    scanned,   \* the scans presented so far
    asked,     \* those not compared yet, each with its code
    matched,   \* those that matched and whose visitor is not in yet
    admitted,  \* those whose visitor was let in
    log,       \* the entries: the scan, for whom, and the time-out
    leaving    \* the entries whose time-out is under way

vars == <<current, scanned, asked, matched, admitted, log, leaving>>

Init ==
    /\ current \in Codes \cup {NoCode}
    /\ scanned = {}
    /\ asked = {}
    /\ matched = {}
    /\ admitted = {}
    /\ log = <<>>
    /\ leaving = {}

Publish ==
    /\ current' \in Codes \cup {NoCode}
    /\ UNCHANGED <<scanned, asked, matched, admitted, log, leaving>>

Present(s, code) ==
    /\ s \notin scanned
    /\ scanned' = scanned \cup {s}
    /\ asked' = asked \cup {<<s, code>>}
    /\ UNCHANGED <<current, matched, admitted, log, leaving>>

\* The code is compared with the published one.
Compare(s, code) ==
    /\ <<s, code>> \in asked
    /\ asked' = asked \ {<<s, code>>}
    /\ matched' = IF code = current THEN matched \cup {s} ELSE matched
    /\ UNCHANGED <<current, scanned, admitted, log, leaving>>

\* Or it cannot be, and the scan is over.
Drop(s, code) ==
    /\ <<s, code>> \in asked
    /\ asked' = asked \ {<<s, code>>}
    /\ UNCHANGED <<current, scanned, matched, admitted, log, leaving>>

\* The visitor is let in, and entered in the logbook, at best by name.
Admit(s) ==
    /\ s \in matched
    /\ matched' = matched \ {s}
    /\ admitted' = admitted \cup {s}
    /\ \/ log' = log
       \/ \E who \in {"visitor", ""} : log' = Append(log, [scan |-> s, who |-> who, out |-> "absent"])
    /\ UNCHANGED <<current, scanned, asked, leaving>>

\* A visitor leaves.
Leave(n) ==
    /\ n \in DOMAIN log \ leaving
    /\ log[n].out = "absent"
    /\ leaving' = leaving \cup {n}
    /\ UNCHANGED <<current, scanned, asked, matched, admitted, log>>

TimeOut(n) ==
    /\ n \in leaving
    /\ leaving' = leaving \ {n}
    /\ log' = [log EXCEPT ![n].out = "set"]
    /\ UNCHANGED <<current, scanned, asked, matched, admitted>>

NoTimeOut(n) ==
    /\ n \in leaving
    /\ leaving' = leaving \ {n}
    /\ UNCHANGED <<current, scanned, asked, matched, admitted, log>>

Next ==
    \/ Publish
    \/ \E s \in Scans : Admit(s) \/ \E code \in Codes : Present(s, code) \/ Compare(s, code) \/ Drop(s, code)
    \/ \E n \in DOMAIN log : Leave(n) \/ TimeOut(n) \/ NoTimeOut(n)

Spec == Init /\ [][Next]_vars
=============================================================================
