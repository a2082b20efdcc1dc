------------------------------ MODULE Favorites ------------------------------
(***************************************************************************)
(* What the favorites promise, without lists, transactions or retries: the *)
(* account has a SET of favorites, the app shows a set, a tap changes the  *)
(* shown set at once and asks for the same change of the stored one, and   *)
(* each request takes effect at one instant, on its own location, once or  *)
(* never.  The first load replaces the shown set by the stored set of one  *)
(* instant, and keeps it only if there was nothing stored at that instant. *)
(*                                                                         *)
(* Locations implements this specification.                                *)
(***************************************************************************)
CONSTANTS
    LocationIds,
    Requests,  \* the taps of one behaviour
    NoRequest  \* a tap that has not happened

VARIABLES
    shown,     \* the favorites the app shows
    stored,    \* the favorites of the account
    asked,     \* asked[r]: the location of tap r and what it asks for
    pending,   \* the requests that have not taken effect yet
    applied,   \* those that have, and whose answer is on its way
    load,      \* the first load: "waiting", "reading" or "over"
    snapshot   \* the stored set it has read

vars == <<shown, stored, asked, pending, applied, load, snapshot>>

Init ==
    /\ shown = {}
    /\ stored \subseteq LocationIds
    /\ asked = [r \in Requests |-> NoRequest]
    /\ pending = {}
    /\ applied = {}
    /\ load = "waiting"
    /\ snapshot = {}

\* The icon changes at once, and the request is on its way.
Tap(r, l) ==
    /\ asked[r] = NoRequest
    /\ pending' = pending \cup {r}
    /\ shown' = IF l \in shown THEN shown \ {l} ELSE shown \cup {l}
    /\ asked' = [asked EXCEPT ![r] = [loc |-> l, kind |-> IF l \in shown THEN "remove" ELSE "add"]]
    /\ UNCHANGED <<stored, applied, load, snapshot>>

\* The request takes effect on the stored set.
Apply(r) ==
    /\ r \in pending
    /\ pending' = pending \ {r}
    /\ applied' = applied \cup {r}
    /\ stored' = IF asked[r].kind = "add" THEN stored \cup {asked[r].loc}
                                         ELSE stored \ {asked[r].loc}
    /\ UNCHANGED <<shown, asked, load, snapshot>>

\* It is over: it has taken effect, or it has failed, before or after that.
Finish(r) ==
    /\ r \in pending \cup applied
    /\ pending' = pending \ {r}
    /\ applied' = applied \ {r}
    /\ UNCHANGED <<shown, stored, asked, load, snapshot>>

LoadReads ==
    /\ load = "waiting"
    /\ load' = "reading"
    /\ snapshot' = stored
    /\ UNCHANGED <<shown, stored, asked, pending, applied>>

LoadAnswers ==
    /\ load = "reading"
    /\ load' = "over"
    /\ shown' = snapshot \/ (snapshot = {} /\ shown' = shown)
    /\ snapshot' = {}
    /\ UNCHANGED <<stored, asked, pending, applied>>

LoadFails ==
    /\ load \in {"waiting", "reading"}
    /\ load' = "over"
    /\ snapshot' = {}
    /\ UNCHANGED <<shown, stored, asked, pending, applied>>

Next ==
    \/ LoadReads \/ LoadAnswers \/ LoadFails
    \/ \E r \in Requests : Apply(r) \/ Finish(r) \/ \E l \in LocationIds : Tap(r, l)

Spec == Init /\ [][Next]_vars
=============================================================================
