------------------------------ MODULE MapScreen ------------------------------
(***************************************************************************)
(* The map tab: MapScreen with its MapController, the catalogue whose      *)
(* lists become markers, and the location that another screen selects with *)
(* "Check in Map" in the static field MapController.selectedLocation.      *)
(*                                                                         *)
(* Switching tabs disposes of the map screen and opening the tab makes a   *)
(* new one, while the calls of the old one are still in flight: the icons  *)
(* of its markers, the questions to the location service, the camera moves *)
(* that wait for the map.  The body of the screen is not reactive: it      *)
(* shows the map only if allLocations was filled when it was last built.   *)
(***************************************************************************)
EXTENDS Naturals, FiniteSets

CONSTANTS
    LocationIds,  \* the locations, each at coordinates of its own
    ListOf,       \* ListOf[l]: the category list of l, in the order of loading
    NoLocation,   \* no info window, no details screen
    MaxScreens,   \* bound: map screens made in one behaviour
    MaxPicks      \* bound: selections of a location in one behaviour

Lists == 1..4  \* touristSpots, accommodations, dining, shopping
DiningList == 3
Screens == 1..MaxScreens
Picks == 1..MaxPicks

ASSUME MapAssumption ==
    /\ ListOf \in [LocationIds -> Lists]
    /\ NoLocation \notin LocationIds
    /\ MaxScreens \in Nat
    /\ MaxPicks \in Nat

VARIABLES
    listed,            \* the locations in the four category lists
    allLocations,
    tab,               \* the tab of the menu: "map" or "other"
    details,           \* the location whose details screen is above the menu
    opened,            \* number of map screens made: the last is on the tab
    screen,            \* screen[s]: the s-th map screen
    selectedLocation,  \* the number of the selection in the field, 0 for null
    pick               \* pick[p]: the p-th selection and its camera move; from is
                       \* history, the map screen it was made on, 0 for none

vars == <<listed, allLocations, tab, details, opened, screen, selectedLocation, pick>>

\* at is the list whose markers are being loaded, 5 when all are, 6 when an
\* icon was missing; had is history, what the lists held at the start.
ScreenStates ==
    [mounted : BOOLEAN, hasMap : BOOLEAN, created : BOOLEAN, positioned : BOOLEAN,
     location : {"service", "permission", "subscribed", "cancelled", "refused"},
     at : 1..6, rest : SUBSET LocationIds, markers : SUBSET LocationIds,
     had : SUBSET LocationIds, window : LocationIds \cup {NoLocation}]

TypeOK ==
    /\ listed \subseteq LocationIds
    /\ allLocations \subseteq LocationIds
    /\ tab \in {"map", "other"}
    /\ details \in LocationIds \cup {NoLocation}
    /\ opened \in 0..MaxScreens
    /\ screen \in [1..opened -> ScreenStates]
    /\ selectedLocation \in Picks \cup {0}
    /\ pick \in [Picks -> [loc : LocationIds \cup {NoLocation}, from : 0..opened, on : 0..opened,
                           pc : {"unused", "selected", "moving", "shown", "lost"}]]

Init ==
    /\ listed = {} /\ allLocations = {}
    /\ tab = "other" /\ details = NoLocation
    /\ opened = 0
    /\ screen = [s \in 1..0 |-> NoLocation]
    /\ selectedLocation = 0
    /\ pick = [p \in Picks |-> [loc |-> NoLocation, from |-> 0, on |-> 0, pc |-> "unused"]]

-----------------------------------------------------------------------------
(* The catalogue, as far as the map sees it.                               *)

\* A category query is answered: assignAll.
ListArrives(c) ==
    /\ \E l \in LocationIds \ listed : ListOf[l] = c
    /\ listed' = listed \cup {l \in LocationIds : ListOf[l] = c}
    /\ UNCHANGED <<allLocations, tab, details, opened, screen, selectedLocation, pick>>

\* Its details are set: allLocations.addAll, which fetchDining leaves out.
ListDetailed(c) ==
    /\ c # DiningList
    /\ allLocations' = allLocations \cup {l \in listed : ListOf[l] = c}
    /\ allLocations' # allLocations
    /\ UNCHANGED <<listed, tab, details, opened, screen, selectedLocation, pick>>

-----------------------------------------------------------------------------
(* Opening and leaving the tab.                                            *)

\* setState builds the screen anew.
Rebuilt(r) == [r EXCEPT !.hasMap = allLocations # {}]

\* loadMarkersFromLocations goes on with list k, past those that are empty.
ListsWithoutDining(k) == {j \in (k..4) \ {DiningList} : \E l \in listed : ListOf[l] = j}
ListsFrom(k) == {j \in k..4 : \E l \in listed : ListOf[l] = j}

LoadFrom(r, k) ==
    IF ListsFrom(k) = {}
    THEN [(IF r.mounted THEN Rebuilt(r) ELSE r) EXCEPT !.at = 5, !.rest = {}]
    ELSE LET j == CHOOSE j \in ListsFrom(k) : \A i \in ListsFrom(k) : j <= i
         IN  [r EXCEPT !.at = j, !.rest = {l \in listed : ListOf[l] = j}]

NewScreen ==
    LoadFrom(Rebuilt([mounted |-> TRUE, hasMap |-> FALSE, created |-> FALSE, positioned |-> FALSE,
                      location |-> "service", at |-> 1, rest |-> {}, markers |-> {},
                      had |-> listed, window |-> NoLocation]), 1)

\* Location l is put in the static field, as selection p.
Selected(p, l) == [pick EXCEPT ![p].loc = l, ![p].pc = "selected",
                               ![p].from = IF tab = "map" THEN opened ELSE 0]

\* _moveCameraToMarker on screen s: if the field holds a selection its move
\* begins, and the field is reset.
MoveCameraNoReset(picks, p, s) ==
    /\ pick' = IF p = 0 THEN picks ELSE [picks EXCEPT ![p].pc = "moving", ![p].on = s]
    /\ selectedLocation' = p
MoveCamera(picks, p, s) ==
    /\ pick' = IF p = 0 THEN picks ELSE [picks EXCEPT ![p].pc = "moving", ![p].on = s]
    /\ selectedLocation' = 0

\* The tab is switched to the map: initState of a new screen.
OpenMapNoMove ==
    /\ tab = "other" /\ details = NoLocation /\ opened < MaxScreens
    /\ tab' = "map"
    /\ opened' = opened + 1
    /\ screen' = [s \in 1..(opened + 1) |-> IF s = opened + 1 THEN NewScreen ELSE screen[s]]
    /\ UNCHANGED <<listed, allLocations, details, selectedLocation, pick>>
OpenMap ==
    /\ tab = "other" /\ details = NoLocation /\ opened < MaxScreens
    /\ tab' = "map"
    /\ opened' = opened + 1
    /\ screen' = [s \in 1..(opened + 1) |-> IF s = opened + 1 THEN NewScreen ELSE screen[s]]
    /\ MoveCamera(pick, selectedLocation, opened + 1)
    /\ UNCHANGED <<listed, allLocations, details>>

\* Another tab: dispose, which cancels the subscription if there is one.
LeaveMap ==
    /\ tab = "map" /\ details = NoLocation
    /\ tab' = "other"
    /\ screen' = [screen EXCEPT ![opened].mounted = FALSE, ![opened].window = NoLocation,
                                ![opened].location = IF @ = "subscribed" THEN "cancelled" ELSE @]
    /\ UNCHANGED <<listed, allLocations, details, opened, selectedLocation, pick>>

-----------------------------------------------------------------------------
(* The calls of a screen, which go on when it is gone.                     *)

\* BitmapDescriptor.asset returns, or there is no such asset.
MarkerLoaded(s, l) ==
    /\ l \in screen[s].rest
    /\ LET r == [screen[s] EXCEPT !.markers = @ \cup {l}, !.rest = @ \ {l}]
       IN  screen' = [screen EXCEPT ![s] = IF r.rest = {} THEN LoadFrom(r, r.at + 1) ELSE r]
    /\ UNCHANGED <<listed, allLocations, tab, details, opened, selectedLocation, pick>>

MarkerFails(s) ==
    /\ screen[s].rest # {}
    /\ screen' = [screen EXCEPT ![s].at = 6, ![s].rest = {}]
    /\ UNCHANGED <<listed, allLocations, tab, details, opened, selectedLocation, pick>>

\* getLocationUpdates: is the service on, or will the user turn it on; is the
\* permission given, or will the user give it.
LocationNext(a) ==
    CASE a = "service" -> {"permission", "refused"}
      [] a = "permission" -> {"subscribed", "refused"}
      [] OTHER -> {}

LocationAnswers(s) ==
    /\ \E a \in LocationNext(screen[s].location) : screen' = [screen EXCEPT ![s].location = a]
    /\ UNCHANGED <<listed, allLocations, tab, details, opened, selectedLocation, pick>>

\* A position arrives, at a screen that is still there or at one that is not.
PositionUnguarded(s) ==
    /\ screen[s].location = "subscribed"
    /\ screen' = [screen EXCEPT ![s] = Rebuilt([@ EXCEPT !.positioned = TRUE])]
    /\ UNCHANGED <<listed, allLocations, tab, details, opened, selectedLocation, pick>>
PositionNoRebuild(s) ==
    /\ screen[s].location = "subscribed"
    /\ screen' = [screen EXCEPT ![s].positioned = @ \/ screen[s].mounted]
    /\ UNCHANGED <<listed, allLocations, tab, details, opened, selectedLocation, pick>>
PositionArrives(s) ==
    /\ screen[s].location = "subscribed"
    /\ screen' = IF screen[s].mounted
                 THEN [screen EXCEPT ![s] = Rebuilt([@ EXCEPT !.positioned = TRUE])]
                 ELSE screen
    /\ UNCHANGED <<listed, allLocations, tab, details, opened, selectedLocation, pick>>

\* onMapCreated completes mapController.
MapCreated(s) ==
    /\ screen[s].mounted /\ screen[s].hasMap /\ ~screen[s].created
    /\ screen' = [screen EXCEPT ![s].created = TRUE]
    /\ UNCHANGED <<listed, allLocations, tab, details, opened, selectedLocation, pick>>

\* moveCameraToMarker has its map and has moved the camera: it shows the
\* window of the marker, or throws because the marker is not loaded or the
\* screen is gone.
MoveEndsByField(p) ==
    /\ pick[p].pc = "moving"
    /\ LET s == pick[p].on
           found == screen[s].mounted /\ pick[p].loc \in screen[s].markers
       IN  /\ screen[s].created
           /\ pick' = [pick EXCEPT ![p].pc = IF found THEN "shown" ELSE "lost"]
           /\ screen' = IF found THEN [screen EXCEPT ![s].window = selectedLocation] ELSE screen
    /\ UNCHANGED <<listed, allLocations, tab, details, opened, selectedLocation>>
MoveEnds(p) ==
    /\ pick[p].pc = "moving"
    /\ LET s == pick[p].on
           found == screen[s].mounted /\ pick[p].loc \in screen[s].markers
       IN  /\ screen[s].created
           /\ pick' = [pick EXCEPT ![p].pc = IF found THEN "shown" ELSE "lost"]
           /\ screen' = IF found THEN [screen EXCEPT ![s].window = pick[p].loc] ELSE screen
    /\ UNCHANGED <<listed, allLocations, tab, details, opened, selectedLocation>>

-----------------------------------------------------------------------------
(* What the user does.                                                     *)

OnMap == tab = "map" /\ details = NoLocation

\* The search field: _runFilter.
RunFilter ==
    /\ OnMap
    /\ screen' = [screen EXCEPT ![opened] = Rebuilt(@)]
    /\ UNCHANGED <<listed, allLocations, tab, details, opened, selectedLocation, pick>>

FirstUnused(p) == pick[p].pc = "unused" /\ \A q \in Picks : q < p => pick[q].pc # "unused"

\* A search result is tapped: the field is set, used and reset in one go.
PickFound(p, l) ==
    /\ OnMap /\ screen[opened].hasMap
    /\ l \in allLocations
    /\ FirstUnused(p)
    /\ MoveCamera(Selected(p, l), p, opened)
    /\ screen' = [screen EXCEPT ![opened] = Rebuilt(@)]
    /\ UNCHANGED <<listed, allLocations, tab, details, opened>>

\* A marker on the map is tapped; the map has them when all are loaded.
TapMarker(l) ==
    /\ OnMap /\ screen[opened].created /\ screen[opened].at = 5
    /\ l \in screen[opened].markers
    /\ screen' = [screen EXCEPT ![opened].window = l]
    /\ UNCHANGED <<listed, allLocations, tab, details, opened, selectedLocation, pick>>

\* The camera is moved, or the map tapped: the window goes.
HideWindow ==
    /\ OnMap /\ screen[opened].created
    /\ screen' = [screen EXCEPT ![opened].window = NoLocation]
    /\ UNCHANGED <<listed, allLocations, tab, details, opened, selectedLocation, pick>>

\* The details of a location, from a list or from its window on the map.
OpenDetails(l) ==
    /\ details = NoLocation
    /\ IF tab = "map" THEN screen[opened].window = l ELSE l \in listed
    /\ details' = l
    /\ UNCHANGED <<listed, allLocations, tab, opened, screen, selectedLocation, pick>>

CloseDetails ==
    /\ details # NoLocation
    /\ details' = NoLocation
    /\ UNCHANGED <<listed, allLocations, tab, opened, screen, selectedLocation, pick>>

\* "Check in Map": back to the menu, the field is set, the tab selected.  On
\* another tab this makes a map screen, on the map tab it changes nothing.
CheckInMap(p) ==
    /\ details # NoLocation
    /\ FirstUnused(p)
    /\ details' = NoLocation
    /\ IF tab = "map"
       THEN /\ pick' = Selected(p, details)
            /\ selectedLocation' = p
            /\ UNCHANGED <<tab, opened, screen>>
       ELSE /\ opened < MaxScreens
            /\ tab' = "map"
            /\ opened' = opened + 1
            /\ screen' = [s \in 1..(opened + 1) |-> IF s = opened + 1 THEN NewScreen ELSE screen[s]]
            /\ MoveCamera(Selected(p, details), p, opened + 1)
    /\ UNCHANGED <<listed, allLocations>>

-----------------------------------------------------------------------------
CatalogStep == \E c \in Lists : ListArrives(c) \/ ListDetailed(c)

LoadStep(s) == MarkerFails(s) \/ \E l \in LocationIds : MarkerLoaded(s, l)

UserStep ==
    \/ OpenMap \/ LeaveMap \/ RunFilter \/ HideWindow \/ CloseDetails
    \/ \E l \in LocationIds : TapMarker(l) \/ OpenDetails(l)
    \/ \E p \in Picks : CheckInMap(p) \/ \E l \in LocationIds : PickFound(p, l)

Next ==
    \/ CatalogStep
    \/ UserStep
    \/ \E s \in 1..opened : LoadStep(s) \/ LocationAnswers(s) \/ PositionArrives(s) \/ MapCreated(s)
    \/ \E p \in Picks : MoveEnds(p)

Spec == Init /\ [][Next]_vars

\* A subscribed location service delivers positions; the plugin creates the
\* map.  Nothing is assumed of the user or of the catalogue.
Fairness == \A s \in Screens :
    /\ WF_vars(s <= opened /\ PositionArrives(s))
    /\ WF_vars(s <= opened /\ MapCreated(s))

FairSpec == Spec /\ Fairness

-----------------------------------------------------------------------------
(* Properties.                                                             *)

\* A selection moves the camera of one screen, once: the static field is reset
\* when it is used, so that opening the map again does not go back to it.
SelectionUsedOnce ==
    [][\A p \in Picks : pick[p].on # 0 => pick'[p].on = pick[p].on /\ pick'[p].pc # "selected"
                                          /\ (pick[p].pc \in {"shown", "lost"} => pick'[p] = pick[p])]_vars

\* A screen that was disposed of is not touched by positions, although its
\* subscription may outlive it when the service answers late.
QuietAfterDispose ==
    [][\A s \in 1..opened : ~screen[s].mounted =>
          /\ screen'[s].hasMap = screen[s].hasMap
          /\ screen'[s].positioned = screen[s].positioned
          /\ screen'[s].window = screen[s].window]_vars

\* A screen whose markers are loaded shows all the locations that the lists
\* held when it was opened, whichever lists arrived meanwhile.
MarkersOfOpening == \A s \in 1..opened : screen[s].at = 5 => screen[s].had \subseteq screen[s].markers

\* Once there are locations and positions come in, "Loading..." gives way to
\* the map, although the body does not listen to the list.
MapAppears ==
    \A s \in Screens :
        (s <= opened /\ screen[s].mounted /\ screen[s].location = "subscribed" /\ allLocations # {})
            ~> (s <= opened /\ (screen[s].created \/ ~screen[s].mounted))

\* "Check in Map" moves the camera of the next map screen.  A selection that
\* still waits in the static field while a map is on the screen was made in
\* the details which that map opened: setting the index to the value it has
\* makes no screen.
CheckInTaken ==
    OnMap /\ selectedLocation # 0 => pick[selectedLocation].from = opened
=============================================================================
