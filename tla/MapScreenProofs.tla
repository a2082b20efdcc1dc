--------------------------- MODULE MapScreenProofs ---------------------------
(***************************************************************************)
(* Proofs about MapScreen, for any locations and any number of map screens *)
(* and selections.                                                         *)
(***************************************************************************)
EXTENDS MapScreen, TLAPS

-----------------------------------------------------------------------------
(* The inductive invariant, in parts.                                      *)

\* The markers of the lists before the current one are loaded, those of the
\* current one are loaded or still to be.
LoadOK(r) ==
    /\ r.rest # {} => r.at \in 1..4
    /\ r.at \in 1..4 => \A l \in r.had : /\ ListOf[l] < r.at => l \in r.markers
                                         /\ ListOf[l] = r.at => l \in r.markers \cup r.rest
    /\ r.at \in 1..4 => r.rest # {}
    /\ r.at = 5 => r.had \subseteq r.markers

LoadsInOrder == \A s \in 1..opened : LoadOK(screen[s]) /\ screen[s].had \subseteq listed

\* The screen on the map tab is the last one made, and it is mounted.
TabShowsLast == tab = "map" => opened \in 1..opened /\ screen[opened].mounted

\* A selection in the field has not been used, one that was used is no longer
\* in the field and has moved on.
FieldFresh ==
    /\ selectedLocation # 0 => /\ pick[selectedLocation].pc = "selected"
                               /\ pick[selectedLocation].on = 0
    /\ \A p \in Picks : /\ pick[p].on = 0 <=> pick[p].pc \in {"unused", "selected"}
    /\ tab = "map" /\ selectedLocation # 0 => pick[selectedLocation].from = opened

MapInv == TypeOK /\ LoadsInOrder /\ TabShowsLast /\ FieldFresh

-----------------------------------------------------------------------------
(* One screen.                                                             *)

\* What any step may do to a screen.
StepOf(r, q) ==
    /\ q \in ScreenStates
    /\ q.had = r.had
    /\ LoadOK(r) => LoadOK(q)
    /\ ~r.mounted => /\ ~q.mounted
                     /\ q.hasMap = r.hasMap /\ q.positioned = r.positioned /\ q.window = r.window

\* A nonempty set of lists has a first one.
LEMMA FirstList ==
    ASSUME NEW S, S \subseteq Lists, S # {}
    PROVE  \E j \in S : \A i \in S : j <= i
<1>1. CASE 1 \in S
  BY <1>1 DEF Lists
<1>2. CASE 1 \notin S /\ 2 \in S
  BY <1>2 DEF Lists
<1>3. CASE 1 \notin S /\ 2 \notin S /\ 3 \in S
  BY <1>3 DEF Lists
<1>4. CASE 1 \notin S /\ 2 \notin S /\ 3 \notin S
  <2>1. \A i \in S : i = 4
    BY <1>4 DEF Lists
  <2>2. PICK j \in S : TRUE
    OBVIOUS
  <2> QED BY <2>1, <2>2
<1> QED BY <1>1, <1>2, <1>3, <1>4

\* A rebuilt screen.
LEMMA RebuiltFacts ==
    ASSUME NEW r \in ScreenStates
    PROVE  /\ Rebuilt(r) \in ScreenStates
           /\ Rebuilt(r) = [r EXCEPT !.hasMap = (allLocations # {})]
           /\ Rebuilt(r).mounted = r.mounted /\ Rebuilt(r).at = r.at /\ Rebuilt(r).rest = r.rest
           /\ Rebuilt(r).markers = r.markers /\ Rebuilt(r).had = r.had
           /\ Rebuilt(r).positioned = r.positioned /\ Rebuilt(r).window = r.window
BY DEF Rebuilt, ScreenStates

\* loadMarkersFromLocations goes on with the first list that is not empty, or
\* is over.
LEMMA LoadFromFacts ==
    ASSUME listed \subseteq LocationIds, NEW r \in ScreenStates, NEW k \in 1..5
    PROVE  LET q == LoadFrom(r, k)
           IN  /\ q \in ScreenStates
               /\ q.mounted = r.mounted /\ q.markers = r.markers /\ q.had = r.had
               /\ q.positioned = r.positioned /\ q.window = r.window
               /\ ~r.mounted => q.hasMap = r.hasMap
               /\ \/ /\ q.at = 5 /\ q.rest = {}
                     /\ \A l \in listed : ListOf[l] < k
                  \/ /\ q.at \in k..4 /\ q.rest # {}
                     /\ q.rest = {l \in listed : ListOf[l] = q.at}
                     /\ \A l \in listed : ListOf[l] < k \/ ListOf[l] >= q.at
<1> DEFINE q == LoadFrom(r, k)
<1>a. \A l \in listed : ListOf[l] \in 1..4
  BY MapAssumption DEF Lists
<1>1. CASE ListsFrom(k) = {}
  <2> DEFINE b == IF r.mounted THEN Rebuilt(r) ELSE r
  <2>1. /\ b \in ScreenStates /\ b.mounted = r.mounted /\ b.markers = r.markers /\ b.had = r.had
        /\ b.positioned = r.positioned /\ b.window = r.window
        /\ ~r.mounted => b.hasMap = r.hasMap
    BY RebuiltFacts
  <2>2. q = [b EXCEPT !.at = 5, !.rest = {}]
    BY <1>1 DEF LoadFrom
  <2> HIDE DEF b, q
  <2>3. /\ q \in ScreenStates /\ q.at = 5 /\ q.rest = {}
        /\ q.mounted = b.mounted /\ q.markers = b.markers /\ q.had = b.had /\ q.hasMap = b.hasMap
        /\ q.positioned = b.positioned /\ q.window = b.window
    <3>1. b \in ScreenStates
      BY <2>1
    <3>0. 5 \in 1..6 /\ {} \in SUBSET LocationIds
      OBVIOUS
    <3>2. PICK a \in 1..6, w \in SUBSET LocationIds : a = 5 /\ w = {}
      BY <3>0, Zenon
    <3>3. q = [b EXCEPT !.at = a, !.rest = w]
      BY <2>2, <3>2
    <3>4. /\ q \in ScreenStates /\ q.at = a /\ q.rest = w
          /\ q.mounted = b.mounted /\ q.markers = b.markers /\ q.had = b.had /\ q.hasMap = b.hasMap
          /\ q.positioned = b.positioned /\ q.window = b.window
      BY <3>1, <3>3 DEF ScreenStates
    <3> QED BY <3>2, <3>4
  <2>4. \A l \in listed : ListOf[l] < k
    BY <1>1, <1>a DEF ListsFrom
  <2>5. /\ q \in ScreenStates
        /\ q.mounted = r.mounted /\ q.markers = r.markers /\ q.had = r.had
        /\ q.positioned = r.positioned /\ q.window = r.window
        /\ ~r.mounted => q.hasMap = r.hasMap
        /\ q.at = 5 /\ q.rest = {}
    BY <2>1, <2>3
  <2> QED BY <2>4, <2>5 DEF q
<1>2. CASE ListsFrom(k) # {}
  <2> DEFINE j == CHOOSE j \in ListsFrom(k) : \A i \in ListsFrom(k) : j <= i
             w == {l \in listed : ListOf[l] = j}
  <2>1. ListsFrom(k) \subseteq Lists
    BY DEF ListsFrom, Lists
  <2>2. j \in ListsFrom(k) /\ \A i \in ListsFrom(k) : j <= i
    BY <1>2, <2>1, FirstList
  <2>3. q = [r EXCEPT !.at = j, !.rest = w]
    BY <1>2 DEF LoadFrom
  <2> HIDE DEF j
  <2>4. j \in k..4 /\ w # {} /\ w \subseteq LocationIds
    BY <2>2 DEF ListsFrom
  <2>5. \A l \in listed : ListOf[l] < k \/ ListOf[l] >= j
    BY <1>a, <2>2, <2>4 DEF ListsFrom
  <2>6. j \in 1..6
    BY <2>4
  <2>7. /\ q \in ScreenStates /\ q.at = j /\ q.rest = w
        /\ q.mounted = r.mounted /\ q.markers = r.markers /\ q.had = r.had /\ q.hasMap = r.hasMap
        /\ q.positioned = r.positioned /\ q.window = r.window
    <3> HIDE DEF w
    <3> QED BY <2>3, <2>4, <2>6 DEF ScreenStates
  <2> HIDE DEF q
  <2> QED BY <2>4, <2>5, <2>7 DEF q
<1> QED BY <1>1, <1>2

\* A screen that is opened starts its markers well.
LEMMA NewScreenFacts ==
    ASSUME listed \subseteq LocationIds
    PROVE  /\ NewScreen \in ScreenStates /\ NewScreen.mounted
           /\ NewScreen.had = listed /\ LoadOK(NewScreen)
<1> DEFINE b == [mounted |-> TRUE, hasMap |-> FALSE, created |-> FALSE, positioned |-> FALSE,
                 location |-> "service", at |-> 1, rest |-> {}, markers |-> {},
                 had |-> listed, window |-> NoLocation]
<1>1. b \in ScreenStates /\ b.mounted /\ b.had = listed
  BY DEF ScreenStates
<1>2. NewScreen = LoadFrom(Rebuilt(b), 1)
  BY DEF NewScreen
<1> HIDE DEF b
<1>3. Rebuilt(b) \in ScreenStates /\ Rebuilt(b).mounted /\ Rebuilt(b).had = listed
  BY <1>1, RebuiltFacts
<1>4. /\ NewScreen \in ScreenStates /\ NewScreen.mounted /\ NewScreen.had = listed
      /\ \/ /\ NewScreen.at = 5 /\ NewScreen.rest = {}
            /\ \A l \in listed : ListOf[l] < 1
         \/ /\ NewScreen.at \in 1..4 /\ NewScreen.rest # {}
            /\ NewScreen.rest = {l \in listed : ListOf[l] = NewScreen.at}
            /\ \A l \in listed : ListOf[l] < 1 \/ ListOf[l] >= NewScreen.at
  BY <1>2, <1>3, LoadFromFacts
<1>5. \A l \in listed : ListOf[l] \in 1..4
  BY MapAssumption DEF Lists
<1>6. LoadOK(NewScreen)
  BY <1>4, <1>5 DEF LoadOK
<1> QED BY <1>4, <1>6

\* A list may arrive meanwhile: the next marker of a screen is loaded.
LEMMA MarkerStep ==
    ASSUME TypeOK, NEW s \in 1..opened, NEW l \in LocationIds, l \in screen[s].rest,
           screen[s].had \subseteq listed, LoadOK(screen[s])
    PROVE  LET r == [screen[s] EXCEPT !.markers = @ \cup {l}, !.rest = @ \ {l}]
           IN  StepOf(screen[s], IF r.rest = {} THEN LoadFrom(r, r.at + 1) ELSE r)
<1> DEFINE o == screen[s]
           r == [o EXCEPT !.markers = @ \cup {l}, !.rest = @ \ {l}]
           q == IF r.rest = {} THEN LoadFrom(r, r.at + 1) ELSE r
<1>1. o \in ScreenStates /\ listed \subseteq LocationIds /\ o.had \subseteq listed /\ LoadOK(o) /\ l \in o.rest
  BY DEF TypeOK
<1> HIDE DEF o
<1>2. /\ r \in ScreenStates /\ r.mounted = o.mounted /\ r.had = o.had /\ r.at = o.at
      /\ r.markers = o.markers \cup {l} /\ r.rest = o.rest \ {l}
      /\ r.hasMap = o.hasMap /\ r.positioned = o.positioned /\ r.window = o.window
  BY <1>1 DEF ScreenStates
<1> HIDE DEF r
<1>3. o.at \in 1..4
  BY <1>1 DEF LoadOK
<1>4. \A h \in o.had : ListOf[h] \in 1..4 /\ h \in listed
  BY <1>1, MapAssumption DEF Lists
<1>5. CASE r.rest # {}
  <2>1. q = r
    BY <1>5
  <2>2. LoadOK(r)
    BY <1>1, <1>2, <1>3, <1>5 DEF LoadOK
  <2> HIDE DEF q
  <2>3. StepOf(o, q)
    BY <1>2, <2>1, <2>2 DEF StepOf
  <2> QED BY <2>3 DEF o, r, q
<1>6. CASE r.rest = {}
  <2>1. q = LoadFrom(r, r.at + 1)
    BY <1>6
  <2>2. r.at + 1 \in 1..5
    BY <1>2, <1>3
  <2> HIDE DEF q
  <2>3. /\ q \in ScreenStates
        /\ q.mounted = r.mounted /\ q.markers = r.markers /\ q.had = r.had
        /\ q.positioned = r.positioned /\ q.window = r.window
        /\ ~r.mounted => q.hasMap = r.hasMap
        /\ \/ /\ q.at = 5 /\ q.rest = {}
              /\ \A h \in listed : ListOf[h] < r.at + 1
           \/ /\ q.at \in (r.at + 1)..4 /\ q.rest # {}
              /\ q.rest = {h \in listed : ListOf[h] = q.at}
              /\ \A h \in listed : ListOf[h] < r.at + 1 \/ ListOf[h] >= q.at
    BY <1>1, <1>2, <2>1, <2>2, LoadFromFacts
  <2>4. \A h \in o.had : ListOf[h] < r.at + 1 => h \in q.markers
    <3>1. \A h \in o.had : /\ ListOf[h] < o.at => h \in o.markers
                           /\ ListOf[h] = o.at => h \in o.markers \cup o.rest
      BY <1>1, <1>3 DEF LoadOK
    <3>2. o.rest \subseteq {l}
      BY <1>2, <1>6
    <3>3. \A h \in o.had : ListOf[h] < r.at + 1 => ListOf[h] < o.at \/ ListOf[h] = o.at
      BY <1>2, <1>3, <1>4
    <3> QED BY <1>2, <2>3, <3>1, <3>2, <3>3
  <2>5. LoadOK(q)
    <3>1. CASE q.at = 5 /\ q.rest = {} /\ \A h \in listed : ListOf[h] < r.at + 1
      BY <1>2, <1>4, <2>3, <2>4, <3>1 DEF LoadOK
    <3>2. CASE /\ q.at \in (r.at + 1)..4 /\ q.rest # {}
               /\ q.rest = {h \in listed : ListOf[h] = q.at}
               /\ \A h \in listed : ListOf[h] < r.at + 1 \/ ListOf[h] >= q.at
      <4>1. q.at \in 1..4
        BY <1>2, <1>3, <3>2
      <4>2. \A h \in o.had : ListOf[h] = q.at => h \in q.rest
        BY <1>4, <3>2
      <4>3. \A h \in o.had : ListOf[h] < q.at => h \in q.markers
        BY <1>4, <2>4, <3>2, <4>1
      <4> QED BY <1>2, <2>3, <3>2, <4>1, <4>2, <4>3 DEF LoadOK
    <3> QED BY <2>3, <3>1, <3>2
  <2>6. StepOf(o, q)
    BY <1>2, <2>3, <2>5 DEF StepOf
  <2> QED BY <2>6 DEF o, r, q
<1> QED BY <1>5, <1>6

\* A step that leaves the markers of a mounted screen alone, or any screen but
\* for its location service.
LEMMA PlainStep ==
    ASSUME NEW r \in ScreenStates, NEW q \in ScreenStates,
           q.had = r.had, q.at = r.at, q.rest = r.rest, q.markers = r.markers,
           \/ r.mounted
           \/ q.mounted = r.mounted /\ q.hasMap = r.hasMap /\ q.positioned = r.positioned
              /\ q.window = r.window
    PROVE  StepOf(r, q)
BY DEF StepOf, LoadOK

LEMMA NoStep ==
    ASSUME NEW r \in ScreenStates
    PROVE  StepOf(r, r)
BY DEF StepOf

\* A step of one screen.
LEMMA OneScreen ==
    ASSUME TypeOK, NEW s \in 1..opened, NEW q, StepOf(screen[s], q),
           screen' = [screen EXCEPT ![s] = q], UNCHANGED opened
    PROVE  /\ screen' \in [1..opened' -> ScreenStates]
           /\ \A t \in 1..opened : StepOf(screen[t], screen'[t])
           /\ screen'[s] = q /\ \A t \in 1..opened : t # s => screen'[t] = screen[t]
<1>1. screen \in [1..opened -> ScreenStates] /\ q \in ScreenStates
  BY DEF TypeOK, StepOf
<1>2. screen'[s] = q /\ \A t \in 1..opened : t # s => screen'[t] = screen[t]
  BY <1>1
<1>3. \A t \in 1..opened : StepOf(screen[t], screen'[t])
  BY <1>1, <1>2, NoStep
<1> QED BY <1>1, <1>2, <1>3

-----------------------------------------------------------------------------
(* All screens.                                                            *)

ScreensStep ==
    /\ screen' \in [1..opened' -> ScreenStates]
    /\ \A t \in 1..opened : StepOf(screen[t], screen'[t])
    /\ tab' = "map" => \A t \in 1..opened : screen'[t].mounted = screen[t].mounted

LEMMA OneScreenStep ==
    ASSUME TypeOK, NEW s \in 1..opened, NEW q, StepOf(screen[s], q),
           q.mounted = screen[s].mounted \/ tab' # "map",
           screen' = [screen EXCEPT ![s] = q], UNCHANGED opened
    PROVE  ScreensStep
<1>1. /\ screen' \in [1..opened' -> ScreenStates]
      /\ \A t \in 1..opened : StepOf(screen[t], screen'[t])
      /\ screen'[s] = q /\ \A t \in 1..opened : t # s => screen'[t] = screen[t]
  BY OneScreen
<1>2. tab' = "map" => \A t \in 1..opened : screen'[t].mounted = screen[t].mounted
  BY <1>1
<1> QED BY <1>1, <1>2 DEF ScreensStep

\* A new screen leaves the others alone.
LEMMA ScreenOpened ==
    ASSUME TypeOK, opened' = opened + 1,
           screen' = [s \in 1..(opened + 1) |-> IF s = opened + 1 THEN NewScreen ELSE screen[s]]
    PROVE  ScreensStep /\ screen'[opened'] = NewScreen
<1>1. opened \in Nat /\ listed \subseteq LocationIds /\ screen \in [1..opened -> ScreenStates]
  BY MapAssumption DEF TypeOK
<1>2. NewScreen \in ScreenStates
  BY <1>1, NewScreenFacts
<1>3. \A t \in 1..(opened + 1) : t = opened + 1 \/ t \in 1..opened
  BY <1>1
<1>4. \A t \in 1..opened : t \in 1..(opened + 1) /\ t # opened + 1
  BY <1>1
<1>5. opened + 1 \in 1..(opened + 1)
  BY <1>1
<1>6. screen' \in [1..opened' -> ScreenStates]
  BY <1>1, <1>2, <1>3
<1>7. \A t \in 1..opened : screen'[t] = screen[t]
  BY <1>4
<1>8. \A t \in 1..opened : StepOf(screen[t], screen'[t])
  BY <1>1, <1>7, NoStep
<1> QED BY <1>5, <1>6, <1>7, <1>8 DEF ScreensStep

LEMMA ScreensMove ==
    ASSUME MapInv, [Next]_vars
    PROVE  ScreensStep
<1>a. /\ TypeOK /\ screen \in [1..opened -> ScreenStates] /\ opened \in Nat
      /\ \A t \in 1..opened : screen[t] \in ScreenStates
  BY MapAssumption DEF MapInv, TypeOK
<1>b. tab = "map" => opened \in 1..opened /\ screen[opened].mounted
  BY DEF MapInv, TabShowsLast
<1>1. CASE UNCHANGED <<screen, opened>>
  BY <1>1, <1>a, NoStep DEF ScreensStep
<1>2. CASE OpenMap
  BY <1>2, <1>a, ScreenOpened DEF OpenMap
<1>3. CASE LeaveMap
  <2> DEFINE o == screen[opened]
             q == [o EXCEPT !.mounted = FALSE, !.window = NoLocation,
                            !.location = IF @ = "subscribed" THEN "cancelled" ELSE @]
  <2>1. opened \in 1..opened /\ o \in ScreenStates /\ o.mounted /\ tab' = "other" /\ UNCHANGED opened
    BY <1>3, <1>a, <1>b DEF LeaveMap
  <2>2. screen' = [screen EXCEPT ![opened] = q]
    BY <1>3, <1>a, <2>1 DEF LeaveMap
  <2> HIDE DEF o
  <2>3. /\ q \in ScreenStates /\ q.had = o.had /\ q.at = o.at /\ q.rest = o.rest
        /\ q.markers = o.markers
    BY <2>1 DEF ScreenStates
  <2> HIDE DEF q
  <2>4. StepOf(o, q)
    BY <2>1, <2>3, PlainStep
  <2> QED BY <1>a, <2>1, <2>2, <2>4, OneScreenStep DEF o
<1>4. ASSUME NEW s \in 1..opened, NEW l \in LocationIds, MarkerLoaded(s, l) PROVE ScreensStep
  <2> DEFINE r == [screen[s] EXCEPT !.markers = @ \cup {l}, !.rest = @ \ {l}]
             q == IF r.rest = {} THEN LoadFrom(r, r.at + 1) ELSE r
  <2>1. l \in screen[s].rest /\ screen' = [screen EXCEPT ![s] = q] /\ UNCHANGED opened
    BY <1>4 DEF MarkerLoaded
  <2>2. screen[s].had \subseteq listed /\ LoadOK(screen[s])
    BY DEF MapInv, LoadsInOrder
  <2>3. StepOf(screen[s], q)
    BY <1>a, <2>1, <2>2, MarkerStep
  <2>4. q.mounted = screen[s].mounted
    <3>1. r \in ScreenStates /\ r.mounted = screen[s].mounted /\ r.at = screen[s].at
      BY <1>a, <2>1 DEF ScreenStates
    <3>2. r.at + 1 \in 1..5
      BY <2>1, <2>2, <3>1 DEF LoadOK
    <3>3. listed \subseteq LocationIds
      BY <1>a DEF TypeOK
    <3> HIDE DEF r
    <3> QED BY <3>1, <3>2, <3>3, LoadFromFacts
  <2> HIDE DEF q
  <2> QED BY <1>a, <2>1, <2>3, <2>4, OneScreenStep
<1>5. ASSUME NEW s \in 1..opened, MarkerFails(s) PROVE ScreensStep
  <2> DEFINE o == screen[s]
             q == [o EXCEPT !.at = 6, !.rest = {}]
  <2>1. o \in ScreenStates /\ UNCHANGED opened
    BY <1>5, <1>a DEF MarkerFails
  <2>2. screen' = [screen EXCEPT ![s] = q]
    BY <1>5, <1>a DEF MarkerFails
  <2> HIDE DEF o
  <2>3. PICK a \in 1..6, w \in SUBSET LocationIds : a = 6 /\ w = {}
    <3>1. 6 \in 1..6 /\ {} \in SUBSET LocationIds
      OBVIOUS
    <3> QED BY <3>1, Zenon
  <2>4. q = [o EXCEPT !.at = a, !.rest = w]
    BY <2>3
  <2> HIDE DEF q
  <2>5. /\ q \in ScreenStates /\ q.had = o.had /\ q.at = a /\ q.rest = w /\ q.mounted = o.mounted
        /\ q.hasMap = o.hasMap /\ q.positioned = o.positioned /\ q.window = o.window
    BY <2>1, <2>4 DEF ScreenStates
  <2>6. LoadOK(q)
    BY <2>3, <2>5 DEF LoadOK
  <2>7. StepOf(o, q)
    BY <2>5, <2>6 DEF StepOf
  <2> QED BY <1>a, <2>1, <2>2, <2>5, <2>7, OneScreenStep DEF o
<1>6. ASSUME NEW s \in 1..opened, LocationAnswers(s) PROVE ScreensStep
  <2> DEFINE o == screen[s]
  <2>1. PICK a \in LocationNext(o.location) : screen' = [screen EXCEPT ![s].location = a]
    BY <1>6 DEF LocationAnswers
  <2> DEFINE q == [o EXCEPT !.location = a]
  <2>2. o \in ScreenStates /\ UNCHANGED opened /\ a \in {"permission", "subscribed", "refused"}
    BY <1>6, <1>a, <2>1 DEF LocationAnswers, LocationNext
  <2>3. screen' = [screen EXCEPT ![s] = q]
    BY <1>a, <2>1
  <2> HIDE DEF o
  <2>4. /\ q \in ScreenStates /\ q.had = o.had /\ q.at = o.at /\ q.rest = o.rest
        /\ q.markers = o.markers /\ q.mounted = o.mounted
        /\ q.hasMap = o.hasMap /\ q.positioned = o.positioned /\ q.window = o.window
    BY <2>2 DEF ScreenStates
  <2> HIDE DEF q
  <2>5. StepOf(o, q)
    BY <2>2, <2>4, PlainStep
  <2> QED BY <1>a, <2>2, <2>3, <2>4, <2>5, OneScreenStep DEF o
<1>7. ASSUME NEW s \in 1..opened, PositionArrives(s) PROVE ScreensStep
  <2>1. CASE ~screen[s].mounted
    BY <1>1, <1>7, <2>1 DEF PositionArrives
  <2>2. CASE screen[s].mounted
    <3> DEFINE o == screen[s]
               b == [o EXCEPT !.positioned = TRUE]
               q == Rebuilt(b)
    <3>1. o \in ScreenStates /\ UNCHANGED opened /\ o.mounted
      BY <1>7, <1>a, <2>2 DEF PositionArrives
    <3>2. screen' = [screen EXCEPT ![s] = q]
      BY <1>7, <1>a, <2>2 DEF PositionArrives
    <3> HIDE DEF o
    <3>3. /\ b \in ScreenStates /\ b.had = o.had /\ b.at = o.at /\ b.rest = o.rest
          /\ b.markers = o.markers /\ b.mounted = o.mounted
      BY <3>1 DEF ScreenStates
    <3> HIDE DEF b
    <3>4. /\ q \in ScreenStates /\ q.had = o.had /\ q.at = o.at /\ q.rest = o.rest
          /\ q.markers = o.markers /\ q.mounted = o.mounted
      BY <3>3, RebuiltFacts
    <3> HIDE DEF q
    <3>5. StepOf(o, q)
      BY <3>1, <3>4, PlainStep
    <3> QED BY <1>a, <3>1, <3>2, <3>4, <3>5, OneScreenStep DEF o
  <2> QED BY <2>1, <2>2
<1>8. ASSUME NEW s \in 1..opened, MapCreated(s) PROVE ScreensStep
  <2> DEFINE o == screen[s]
             q == [o EXCEPT !.created = TRUE]
  <2>1. o \in ScreenStates /\ UNCHANGED opened /\ o.mounted
    BY <1>8, <1>a DEF MapCreated
  <2>2. screen' = [screen EXCEPT ![s] = q]
    BY <1>8, <1>a DEF MapCreated
  <2> HIDE DEF o
  <2>3. /\ q \in ScreenStates /\ q.had = o.had /\ q.at = o.at /\ q.rest = o.rest
        /\ q.markers = o.markers /\ q.mounted = o.mounted
    BY <2>1 DEF ScreenStates
  <2> HIDE DEF q
  <2>4. StepOf(o, q)
    BY <2>1, <2>3, PlainStep
  <2> QED BY <1>a, <2>1, <2>2, <2>3, <2>4, OneScreenStep DEF o
<1>9. ASSUME NEW s \in 1..opened, screen[s].mounted, NEW w \in LocationIds \cup {NoLocation},
             screen' = [screen EXCEPT ![s].window = w], UNCHANGED opened
      PROVE  ScreensStep
  <2> DEFINE o == screen[s]
             q == [o EXCEPT !.window = w]
  <2>1. o \in ScreenStates /\ o.mounted
    BY <1>9, <1>a
  <2>2. screen' = [screen EXCEPT ![s] = q]
    BY <1>9, <1>a
  <2> HIDE DEF o
  <2>3. /\ q \in ScreenStates /\ q.had = o.had /\ q.at = o.at /\ q.rest = o.rest
        /\ q.markers = o.markers /\ q.mounted = o.mounted
    BY <2>1 DEF ScreenStates
  <2> HIDE DEF q
  <2>4. StepOf(o, q)
    BY <2>1, <2>3, PlainStep
  <2> QED BY <1>9, <1>a, <2>2, <2>3, <2>4, OneScreenStep DEF o
<1>10. ASSUME NEW p \in Picks, MoveEnds(p) PROVE ScreensStep
  <2> DEFINE s == pick[p].on
             found == screen[s].mounted /\ pick[p].loc \in screen[s].markers
  <2>1. s \in 1..opened /\ pick[p].loc \in LocationIds \cup {NoLocation}
    <3>1. s # 0 /\ s \in 0..opened
      BY <1>10, <1>a DEF MoveEnds, MapInv, FieldFresh, TypeOK
    <3> QED BY <1>a, <3>1 DEF TypeOK
  <2>2. UNCHANGED opened /\ screen' = IF found THEN [screen EXCEPT ![s].window = pick[p].loc] ELSE screen
    BY <1>10 DEF MoveEnds
  <2> HIDE DEF s
  <2>3. CASE found
    BY <1>9, <2>1, <2>2, <2>3
  <2>4. CASE ~found
    BY <1>1, <2>2, <2>4
  <2> QED BY <2>3, <2>4
<1>11. ASSUME tab = "map", screen' = [screen EXCEPT ![opened] = Rebuilt(@)], UNCHANGED opened
       PROVE  ScreensStep
  <2> DEFINE o == screen[opened]
             q == Rebuilt(o)
  <2>1. opened \in 1..opened /\ o \in ScreenStates /\ o.mounted
    BY <1>11, <1>a, <1>b
  <2>2. screen' = [screen EXCEPT ![opened] = q]
    BY <1>11, <1>a, <2>1
  <2> HIDE DEF o
  <2>3. /\ q \in ScreenStates /\ q.had = o.had /\ q.at = o.at /\ q.rest = o.rest
        /\ q.markers = o.markers /\ q.mounted = o.mounted
    BY <2>1, RebuiltFacts
  <2> HIDE DEF q
  <2>4. StepOf(o, q)
    BY <2>1, <2>3, PlainStep
  <2> QED BY <1>11, <1>a, <2>1, <2>2, <2>3, <2>4, OneScreenStep DEF o
<1>12. CASE RunFilter \/ \E p \in Picks, l \in LocationIds : PickFound(p, l)
  BY <1>11, <1>12 DEF RunFilter, PickFound, OnMap
<1>13. CASE HideWindow \/ \E l \in LocationIds : TapMarker(l)
  BY <1>9, <1>13, <1>b DEF HideWindow, TapMarker, OnMap
<1>14. ASSUME NEW p \in Picks, CheckInMap(p) PROVE ScreensStep
  <2>1. CASE tab = "map"
    BY <1>1, <1>14, <2>1 DEF CheckInMap
  <2>2. CASE tab # "map"
    BY <1>14, <1>a, <2>2, ScreenOpened DEF CheckInMap
  <2> QED BY <2>1, <2>2
<1>15. CatalogStep \/ CloseDetails \/ UNCHANGED vars \/ (\E l \in LocationIds : OpenDetails(l))
         => UNCHANGED <<screen, opened>>
  BY DEF CatalogStep, ListArrives, ListDetailed, CloseDetails, OpenDetails, vars
<1> QED BY <1>1, <1>2, <1>3, <1>4, <1>5, <1>6, <1>7, <1>8, <1>10, <1>12, <1>13, <1>14, <1>15
        DEF Next, UserStep, LoadStep

-----------------------------------------------------------------------------
(* The selections.                                                         *)

PickStates(n) == [loc : LocationIds \cup {NoLocation}, from : 0..n, on : 0..n,
                  pc : {"unused", "selected", "moving", "shown", "lost"}]

\* A selection that has begun to move a camera keeps its screen, and its end.
PickStep(p) ==
    pick[p].on # 0 => /\ pick'[p].on = pick[p].on /\ pick'[p].pc # "selected"
                      /\ pick[p].pc \in {"shown", "lost"} => pick'[p] = pick[p]

\* What a step must establish about the selections.
PicksStep ==
    /\ pick' \in [Picks -> PickStates(opened')]
    /\ selectedLocation' \in Picks \cup {0}
    /\ FieldFresh'
    /\ \A p \in Picks : PickStep(p)

LEMMA MorePickStates ==
    ASSUME NEW n \in Nat, NEW r \in PickStates(n)
    PROVE  r \in PickStates(n + 1)
<1>1. 0..n \subseteq 0..(n + 1)
  OBVIOUS
<1> QED BY <1>1 DEF PickStates

\* A location is put in the field as selection p.
LEMMA SelectedFacts ==
    ASSUME TypeOK, NEW p \in Picks, NEW l \in LocationIds \cup {NoLocation}, NEW f \in 0..opened,
           NEW picks, picks = [pick EXCEPT ![p].loc = l, ![p].pc = "selected", ![p].from = f]
    PROVE  /\ picks \in [Picks -> PickStates(opened)]
           /\ picks[p].pc = "selected" /\ picks[p].from = f /\ picks[p].on = pick[p].on
           /\ \A q \in Picks : q # p => picks[q] = pick[q]
<1> DEFINE r == [pick[p] EXCEPT !.loc = l, !.pc = "selected", !.from = f]
<1>1. pick \in [Picks -> PickStates(opened)] /\ pick[p] \in PickStates(opened)
  BY DEF TypeOK, PickStates
<1>2. r \in PickStates(opened) /\ r.pc = "selected" /\ r.from = f /\ r.on = pick[p].on
  BY <1>1 DEF PickStates
<1>3. picks = [pick EXCEPT ![p] = r]
  BY <1>1
<1> HIDE DEF r
<1> QED BY <1>1, <1>2, <1>3

\* The camera move of the selection in the field, if there is one, begins on
\* screen s of n.
LEMMA MoveFacts ==
    ASSUME NEW n \in Nat, NEW picks \in [Picks -> PickStates(n)], NEW p \in Picks \cup {0},
           0 \notin Picks, NEW s \in 1..n, MoveCamera(picks, p, s)
    PROVE  /\ pick' \in [Picks -> PickStates(n)]
           /\ selectedLocation' = 0
           /\ p # 0 => pick'[p].pc = "moving" /\ pick'[p].on = s
           /\ \A q \in Picks : q # p => pick'[q] = picks[q]
<1>1. selectedLocation' = 0
  BY DEF MoveCamera
<1>2. CASE p = 0
  BY <1>1, <1>2 DEF MoveCamera
<1>3. CASE p # 0
  <2> DEFINE r == [picks[p] EXCEPT !.pc = "moving", !.on = s]
  <2>1. p \in Picks /\ picks[p] \in PickStates(n) /\ s \in 0..n
    BY <1>3
  <2>2. r \in PickStates(n) /\ r.pc = "moving" /\ r.on = s
    BY <2>1 DEF PickStates
  <2>3. pick' = [picks EXCEPT ![p] = r]
    BY <1>3, <2>1 DEF MoveCamera
  <2> HIDE DEF r
  <2> QED BY <1>1, <2>1, <2>2, <2>3
<1> QED BY <1>2, <1>3

\* The field is empty after a step in which one selection began its move.
LEMMA MoveBegins ==
    ASSUME MapInv, NEW p \in Picks \cup {0}, pick' \in [Picks -> PickStates(opened')],
           selectedLocation' = 0, 0 \notin Picks,
           p # 0 => /\ pick'[p].pc = "moving" /\ pick'[p].on # 0
                    /\ pick[p].on = 0,
           \A q \in Picks : q # p => pick'[q] = pick[q]
    PROVE  PicksStep
<1>1. \A q \in Picks : pick'[q].on = 0 <=> pick'[q].pc \in {"unused", "selected"}
  BY DEF MapInv, FieldFresh
<1>2. FieldFresh'
  BY <1>1 DEF FieldFresh
<1>3. \A q \in Picks : PickStep(q)
  <2> TAKE q \in Picks
  <2>1. CASE q = p
    BY <2>1 DEF PickStep
  <2>2. CASE q # p
    BY <2>2 DEF PickStep, MapInv, FieldFresh
  <2> QED BY <2>1, <2>2
<1> QED BY <1>2, <1>3 DEF PicksStep

LEMMA PicksMove ==
    ASSUME MapInv, [Next]_vars
    PROVE  PicksStep
<1>a. /\ TypeOK /\ opened \in Nat /\ pick \in [Picks -> PickStates(opened)]
      /\ selectedLocation \in Picks \cup {0}
  BY MapAssumption DEF MapInv, TypeOK, PickStates
<1>b. 0 \notin Picks
  BY MapAssumption DEF Picks
<1>c. tab = "map" => opened \in 1..opened
  BY DEF MapInv, TabShowsLast
<1>d. /\ selectedLocation # 0 => pick[selectedLocation].pc = "selected" /\ pick[selectedLocation].on = 0
      /\ \A p \in Picks : pick[p].on = 0 <=> pick[p].pc \in {"unused", "selected"}
      /\ tab = "map" /\ selectedLocation # 0 => pick[selectedLocation].from = opened
  BY DEF MapInv, FieldFresh
<1>1. CASE UNCHANGED <<pick, selectedLocation, opened>> /\ (tab' = "map" => tab = "map")
  <2>1. FieldFresh'
    BY <1>1, <1>d DEF FieldFresh
  <2>2. \A p \in Picks : PickStep(p)
    BY <1>1, <1>d DEF PickStep
  <2> QED BY <1>1, <1>a, <2>1, <2>2 DEF PicksStep
<1>2. CASE OpenMap
  <2>1. MoveCamera(pick, selectedLocation, opened + 1) /\ opened' = opened + 1
    BY <1>2 DEF OpenMap
  <2>2. pick \in [Picks -> PickStates(opened + 1)] /\ opened + 1 \in Nat /\ opened + 1 \in 1..(opened + 1)
    BY <1>a, MorePickStates
  <2>3. /\ pick' \in [Picks -> PickStates(opened + 1)]
        /\ selectedLocation' = 0
        /\ selectedLocation # 0 => pick'[selectedLocation].pc = "moving"
                                   /\ pick'[selectedLocation].on = opened + 1
        /\ \A q \in Picks : q # selectedLocation => pick'[q] = pick[q]
    BY <1>a, <1>b, <2>1, <2>2, MoveFacts
  <2> QED BY <1>a, <1>b, <1>d, <2>1, <2>3, MoveBegins
<1>3. ASSUME NEW p \in Picks, NEW l \in LocationIds, PickFound(p, l) PROVE PicksStep
  <2>1. pick[p].pc = "unused" /\ tab = "map" /\ UNCHANGED opened
        /\ MoveCamera(Selected(p, l), p, opened)
    BY <1>3 DEF PickFound, FirstUnused, OnMap
  <2> DEFINE picks == Selected(p, l)
  <2>2. picks = [pick EXCEPT ![p].loc = l, ![p].pc = "selected", ![p].from = opened]
        /\ opened \in 0..opened /\ opened \in 1..opened
    BY <1>a, <1>c, <2>1 DEF Selected
  <2> HIDE DEF picks
  <2>3. picks \in [Picks -> PickStates(opened)] /\ \A q \in Picks : q # p => picks[q] = pick[q]
    BY <1>a, <2>2, SelectedFacts
  <2>4. MoveCamera(picks, p, opened)
    BY <2>1 DEF picks
  <2>5. /\ pick' \in [Picks -> PickStates(opened)]
        /\ selectedLocation' = 0
        /\ p # 0 => pick'[p].pc = "moving" /\ pick'[p].on = opened
        /\ \A q \in Picks : q # p => pick'[q] = picks[q]
    <3>1. opened \in Nat /\ opened \in 1..opened
      BY <1>a, <2>2
    <3>2. p \in Picks \cup {0} /\ picks \in [Picks -> PickStates(opened)]
      BY <2>3
    <3> QED BY ONLY <1>b, <2>4, <3>1, <3>2, MoveFacts
  <2>6. opened # 0
    BY <1>a, <2>2
  <2> QED BY <1>b, <1>d, <2>1, <2>3, <2>5, <2>6, MoveBegins
<1>4. ASSUME NEW p \in Picks, CheckInMap(p) PROVE PicksStep
  <2>1. pick[p].pc = "unused" /\ details \in LocationIds \cup {NoLocation}
    BY <1>4, <1>a DEF CheckInMap, FirstUnused, TypeOK
  <2> DEFINE picks == Selected(p, details)
             f == IF tab = "map" THEN opened ELSE 0
  <2>2. picks = [pick EXCEPT ![p].loc = details, ![p].pc = "selected", ![p].from = f] /\ f \in 0..opened
    BY <1>a DEF Selected
  <2> HIDE DEF picks
  <2>3. /\ picks \in [Picks -> PickStates(opened)]
        /\ picks[p].pc = "selected" /\ picks[p].from = f /\ picks[p].on = pick[p].on
        /\ \A q \in Picks : q # p => picks[q] = pick[q]
    <3> HIDE DEF f
    <3> DEFINE r == [pick[p] EXCEPT !.loc = details, !.pc = "selected", !.from = f]
    <3>1. pick[p] \in PickStates(opened) /\ f \in 0..opened
      BY <1>a, <2>2
    <3>2. r \in PickStates(opened) /\ r.pc = "selected" /\ r.from = f /\ r.on = pick[p].on
      BY <2>1, <3>1 DEF PickStates
    <3>3. picks = [pick EXCEPT ![p] = r]
      BY <1>a, <2>2
    <3> HIDE DEF r
    <3> QED BY <1>a, <3>2, <3>3
  <2>4. CASE tab = "map"
    <3>1. pick' = picks /\ selectedLocation' = p /\ UNCHANGED <<tab, opened>>
      BY <1>4, <2>4 DEF CheckInMap, picks
    <3>2. pick'[p].on = 0
      BY <1>d, <2>1, <2>3, <3>1
    <3>3. \A q \in Picks : pick'[q].on = 0 <=> pick'[q].pc \in {"unused", "selected"}
      BY <1>d, <2>3, <3>1, <3>2
    <3>4. FieldFresh'
      BY <2>3, <2>4, <3>1, <3>2, <3>3 DEF FieldFresh
    <3>5. \A q \in Picks : PickStep(q)
      <4> TAKE q \in Picks
      <4>1. CASE q = p
        BY <1>d, <2>1, <4>1 DEF PickStep
      <4>2. CASE q # p
        BY <1>d, <2>3, <3>1, <4>2 DEF PickStep
      <4> QED BY <4>1, <4>2
    <3> QED BY <1>a, <2>3, <3>1, <3>4, <3>5 DEF PicksStep
  <2>5. CASE tab # "map"
    <3>1. MoveCamera(picks, p, opened + 1) /\ opened' = opened + 1
      BY <1>4, <2>5 DEF CheckInMap, picks
    <3>2. picks \in [Picks -> PickStates(opened + 1)] /\ opened + 1 \in Nat /\ opened + 1 \in 1..(opened + 1)
      BY <1>a, <2>3, MorePickStates
    <3>3. /\ pick' \in [Picks -> PickStates(opened + 1)]
          /\ selectedLocation' = 0
          /\ p # 0 => pick'[p].pc = "moving" /\ pick'[p].on = opened + 1
          /\ \A q \in Picks : q # p => pick'[q] = picks[q]
      BY <1>b, <3>1, <3>2, MoveFacts
    <3>4. pick[p].on = 0 /\ opened + 1 # 0
      BY <1>a, <1>d, <2>1
    <3> QED BY <1>b, <2>3, <3>1, <3>3, <3>4, MoveBegins
  <2> QED BY <2>4, <2>5
<1>5. ASSUME NEW p \in Picks, MoveEnds(p) PROVE PicksStep
  <2>1. PICK c \in {"shown", "lost"} : pick' = [pick EXCEPT ![p].pc = c]
    BY <1>5 DEF MoveEnds
  <2>2. pick[p].pc = "moving" /\ UNCHANGED <<tab, opened, selectedLocation>>
    BY <1>5 DEF MoveEnds
  <2> DEFINE r == [pick[p] EXCEPT !.pc = c]
  <2>3. r \in PickStates(opened) /\ r.pc = c /\ r.on = pick[p].on /\ r.from = pick[p].from
    BY <1>a DEF PickStates
  <2>4. pick' = [pick EXCEPT ![p] = r]
    BY <1>a, <2>1
  <2> HIDE DEF r
  <2>5. pick' \in [Picks -> PickStates(opened)] /\ pick'[p] = r /\ \A q \in Picks : q # p => pick'[q] = pick[q]
    BY <1>a, <2>3, <2>4
  <2>6. selectedLocation # p
    BY <1>b, <1>d, <2>2
  <2>7. \A q \in Picks : pick'[q].on = 0 <=> pick'[q].pc \in {"unused", "selected"}
    BY <1>d, <2>2, <2>3, <2>5
  <2>8. FieldFresh'
    BY <1>a, <1>d, <2>2, <2>5, <2>6, <2>7 DEF FieldFresh
  <2>9. \A q \in Picks : PickStep(q)
    BY <1>d, <2>2, <2>3, <2>5 DEF PickStep
  <2> QED BY <1>a, <2>2, <2>5, <2>8, <2>9 DEF PicksStep
<1>6. CatalogStep \/ CloseDetails \/ UNCHANGED vars \/ LeaveMap \/ RunFilter \/ HideWindow
      \/ (\E l \in LocationIds : OpenDetails(l) \/ TapMarker(l))
      \/ (\E s \in 1..opened : LoadStep(s) \/ LocationAnswers(s) \/ PositionArrives(s) \/ MapCreated(s))
         => UNCHANGED <<pick, selectedLocation, opened>> /\ (tab' = "map" => tab = "map")
  BY DEF CatalogStep, ListArrives, ListDetailed, CloseDetails, OpenDetails, vars, LeaveMap, RunFilter,
         HideWindow, TapMarker, LoadStep, MarkerLoaded, MarkerFails, LocationAnswers,
         PositionArrives, MapCreated
<1> QED BY <1>1, <1>2, <1>3, <1>4, <1>5, <1>6 DEF Next, UserStep

-----------------------------------------------------------------------------
(* The theorems.                                                           *)

\* What the other variables do.
LEMMA RestMoves ==
    ASSUME MapInv, [Next]_vars
    PROVE  /\ listed \subseteq listed' /\ listed' \subseteq LocationIds /\ allLocations' \subseteq LocationIds
           /\ tab' \in {"map", "other"} /\ details' \in LocationIds \cup {NoLocation}
           /\ opened' \in 0..MaxScreens
           /\ \/ opened' = opened /\ (tab' = "map" => tab = "map")
              \/ opened' = opened + 1 /\ screen'[opened'] = NewScreen
<1>a. /\ TypeOK /\ opened \in Nat /\ MaxScreens \in Nat
  BY MapAssumption DEF MapInv, TypeOK
<1>1. listed \subseteq listed' /\ listed' \subseteq LocationIds /\ allLocations' \subseteq LocationIds
  BY <1>a DEF Next, vars, TypeOK, CatalogStep, ListArrives, ListDetailed, UserStep, OpenMap, LeaveMap, RunFilter,
         HideWindow, CloseDetails, TapMarker, OpenDetails, CheckInMap, PickFound, LoadStep, MarkerFails,
         MarkerLoaded, LocationAnswers, PositionArrives, MapCreated, MoveEnds
<1>2. tab' \in {"map", "other"} /\ details' \in LocationIds \cup {NoLocation}
  BY <1>a DEF Next, vars, TypeOK, CatalogStep, ListArrives, ListDetailed, UserStep, OpenMap, LeaveMap, RunFilter,
         HideWindow, CloseDetails, TapMarker, OpenDetails, CheckInMap, PickFound, LoadStep, MarkerFails,
         MarkerLoaded, LocationAnswers, PositionArrives, MapCreated, MoveEnds
<1>3. \/ opened' = opened /\ (tab' = "map" => tab = "map")
      \/ OpenMap
      \/ \E p \in Picks : CheckInMap(p) /\ tab # "map"
  BY DEF Next, vars, CatalogStep, ListArrives, ListDetailed, UserStep, LeaveMap, RunFilter,
         HideWindow, CloseDetails, TapMarker, OpenDetails, CheckInMap, PickFound, LoadStep, MarkerFails,
         MarkerLoaded, LocationAnswers, PositionArrives, MapCreated, MoveEnds
<1>4. ASSUME OpenMap \/ \E p \in Picks : CheckInMap(p) /\ tab # "map"
      PROVE  opened' = opened + 1 /\ opened' \in 0..MaxScreens /\ screen'[opened'] = NewScreen
  <2>1. /\ opened' = opened + 1 /\ opened < MaxScreens
        /\ screen' = [s \in 1..(opened + 1) |-> IF s = opened + 1 THEN NewScreen ELSE screen[s]]
    BY <1>4 DEF OpenMap, CheckInMap
  <2> QED BY <1>a, <2>1, ScreenOpened
<1>5. opened \in 0..MaxScreens
  BY <1>a DEF TypeOK
<1> QED BY <1>1, <1>2, <1>3, <1>4, <1>5

LEMMA MapStep ==
    ASSUME MapInv, [Next]_vars
    PROVE  MapInv'
<1>1. ScreensStep /\ PicksStep
  BY ScreensMove, PicksMove
<1>2. /\ listed \subseteq listed' /\ listed' \subseteq LocationIds /\ allLocations' \subseteq LocationIds
      /\ tab' \in {"map", "other"} /\ details' \in LocationIds \cup {NoLocation}
      /\ opened' \in 0..MaxScreens
      /\ \/ opened' = opened /\ (tab' = "map" => tab = "map")
         \/ opened' = opened + 1 /\ screen'[opened'] = NewScreen
  BY RestMoves
<1>3. TypeOK'
  BY <1>1, <1>2 DEF TypeOK, ScreensStep, PicksStep, PickStates
<1>4. opened \in Nat /\ listed \subseteq LocationIds
  BY MapAssumption DEF MapInv, TypeOK
<1>5. NewScreen.mounted /\ NewScreen.had = listed /\ LoadOK(NewScreen)
  BY <1>4, NewScreenFacts
<1>6. \A s \in 1..opened : LoadOK(screen'[s]) /\ screen'[s].had \subseteq listed'
  BY <1>1, <1>2 DEF MapInv, LoadsInOrder, ScreensStep, StepOf
<1>7. LoadsInOrder'
  <2>1. CASE opened' = opened
    BY <1>6, <2>1 DEF LoadsInOrder, LoadOK
  <2>2. CASE opened' = opened + 1 /\ screen'[opened'] = NewScreen
    <3>1. \A s \in 1..opened' : s \in 1..opened \/ s = opened'
      BY <1>4, <2>2
    <3>2. LoadOK(screen'[opened']) /\ screen'[opened'].had \subseteq listed'
      BY <1>2, <1>5, <2>2
    <3> QED BY <1>6, <3>1, <3>2 DEF LoadsInOrder, LoadOK
  <2> QED BY <1>2, <2>1, <2>2
<1>8. TabShowsLast'
  <2>1. CASE opened' = opened /\ (tab' = "map" => tab = "map")
    BY <1>1, <2>1 DEF MapInv, TabShowsLast, ScreensStep
  <2>2. CASE opened' = opened + 1 /\ screen'[opened'] = NewScreen
    <3>1. opened' \in 1..opened'
      BY <1>4, <2>2
    <3> QED BY <1>5, <2>2, <3>1 DEF TabShowsLast
  <2> QED BY <1>2, <2>1, <2>2
<1> QED BY <1>1, <1>3, <1>7, <1>8 DEF MapInv, PicksStep

\* The invariant: markers are loaded list by list, the tab shows the last
\* screen made, and the static field holds only a selection that no screen
\* has used.
THEOREM MapInvariant == Spec => []MapInv
<1>1. Init => MapInv
  <2> SUFFICES ASSUME Init PROVE MapInv
    OBVIOUS
  <2>1. opened = 0 /\ 1..opened = {} /\ 0 \in 0..MaxScreens
    BY MapAssumption DEF Init
  <2>2. screen \in [1..opened -> ScreenStates]
    BY <2>1 DEF Init
  <2>3. /\ pick \in [Picks -> PickStates(opened)]
        /\ \A p \in Picks : pick[p].on = 0 /\ pick[p].pc = "unused"
    BY <2>1 DEF Init, PickStates
  <2>4. TypeOK
    BY <2>1, <2>2, <2>3 DEF Init, TypeOK, PickStates
  <2>5. LoadsInOrder /\ TabShowsLast
    BY <2>1 DEF Init, LoadsInOrder, TabShowsLast
  <2>6. FieldFresh
    BY <2>3 DEF Init, FieldFresh
  <2> QED BY <2>4, <2>5, <2>6 DEF MapInv
<1>2. MapInv /\ [Next]_vars => MapInv'
  BY MapStep
<1> QED BY <1>1, <1>2, PTL DEF Spec

\* Every state of the map tab has the declared types.
THEOREM MapTypes == Spec => []TypeOK
<1>1. MapInv => TypeOK
  BY DEF MapInv
<1> QED BY <1>1, MapInvariant, PTL

\* loadMarkersFromLocations leaves out no location that the lists held when
\* the screen was opened, whichever lists arrive while it awaits the icons.
THEOREM AllMarkersLoaded == Spec => []MarkersOfOpening
<1>1. MapInv => MarkersOfOpening
  BY DEF MapInv, LoadsInOrder, LoadOK, MarkersOfOpening
<1> QED BY <1>1, MapInvariant, PTL

\* A selection of "Check in Map" is taken by the next map screen, but for the
\* one made in the details that the map itself opened.
THEOREM SelectionTaken == Spec => []CheckInTaken
<1>1. MapInv => CheckInTaken
  BY DEF MapInv, FieldFresh, CheckInTaken, OnMap
<1> QED BY <1>1, MapInvariant, PTL

\* _moveCameraToMarker uses a selection once.
THEOREM UsedOnce == Spec => SelectionUsedOnce
<1>1. MapInv /\ [Next]_vars =>
        [\A p \in Picks : pick[p].on # 0 => pick'[p].on = pick[p].on /\ pick'[p].pc # "selected"
                                          /\ (pick[p].pc \in {"shown", "lost"} => pick'[p] = pick[p])]_vars
  BY PicksMove DEF PicksStep, PickStep
<1> QED BY <1>1, MapInvariant, PTL DEF Spec, SelectionUsedOnce

\* Nothing that arrives late touches a map screen after its dispose.
THEOREM DisposedStaysQuiet == Spec => QuietAfterDispose
<1>1. MapInv /\ [Next]_vars =>
        [\A s \in 1..opened : ~screen[s].mounted =>
            /\ screen'[s].hasMap = screen[s].hasMap
            /\ screen'[s].positioned = screen[s].positioned
            /\ screen'[s].window = screen[s].window]_vars
  BY ScreensMove DEF ScreensStep, StepOf
<1> QED BY <1>1, MapInvariant, PTL DEF Spec, QuietAfterDispose
=============================================================================
