------------------------------ MODULE Locations ------------------------------
(***************************************************************************)
(* The LocationController of the app and the part of LocationRepository it *)
(* uses: the five parallel fetches of onInit that fill the lists shown on  *)
(* the Home and Discover tabs, the shared isLoading flag, and the user's   *)
(* favorites, kept in two places: locally (favoriteLocationIds and         *)
(* favoriteLocations) and in the document User_Favorites/<uid> of          *)
(* Firestore, which is only written by transactions.                       *)
(*                                                                         *)
(* Every await is a point where other handlers run, so a fetch and a       *)
(* toggle are sequences of actions.  The order in which Firestore answers  *)
(* is not fixed, and each call may fail.                                   *)
(***************************************************************************)
EXTENDS Naturals, Sequences, FiniteSets, Functions

CONSTANTS
    LocationIds,      \* documents of the collection Locations
    CategoryOf,       \* CategoryOf[l]: the list that shows location l
    FeaturedIds,      \* the documents with IsFeatured = true
    FeaturedLimit,    \* limit(5) of getFeaturedLocations
    StoredFavorites,  \* the User_Favorites documents a session may start with
    NoDoc,            \* "the document does not exist"
    MaxToggles,       \* bound: taps on a favorite icon in one behaviour
    MaxAttempts       \* attempts of runTransaction (5 in the Firestore client)

CategoryLists == {"touristSpots", "accommodations", "dining", "shopping"}
Lists == {"featuredLocations"} \cup CategoryLists
Toggles == 1..MaxToggles

NoDuplicates(s) == \A i, j \in DOMAIN s : s[i] = s[j] => i = j

ASSUME LocationsAssumption ==
    /\ CategoryOf \in [LocationIds -> CategoryLists]
    /\ FeaturedIds \subseteq LocationIds
    /\ FeaturedLimit \in Nat
    /\ NoDoc \notin Seq(LocationIds)
    /\ StoredFavorites \subseteq {NoDoc} \cup Seq(LocationIds)
    /\ \A s \in StoredFavorites \ {NoDoc} : NoDuplicates(s)
    /\ MaxToggles \in Nat
    /\ MaxAttempts \in Nat \ {0}

VARIABLES
    fetch,      \* fetch[f]: how far the fetch of list f is
    shown,      \* shown[f]: the locations in list f
    pending,    \* pending[f]: those whose details are still to be set
    detailed,   \* detailed[f]: those with category name, isOpen, openTimes set
    allLocations,         \* what search and favorites choose from
    isLoading,
    favoriteLocationIds,
    favoriteLocations,
    favFetch,   \* how far fetchUserFavorites is
    favSnap,    \* the document getUserFavorites read, NoDoc when not in use
    store,      \* User_Favorites/<uid>: NoDoc or the list FavoriteLocationIds
    op,         \* op[i]: the i-th call of toggleFavorite
    raced       \* history: locations whose toggles overlapped or failed

catalogVars == <<fetch, shown, pending, detailed, allLocations>>
favVars == <<favoriteLocationIds, favoriteLocations, favFetch, favSnap, store, op, raced>>
vars == <<fetch, shown, pending, detailed, allLocations, isLoading,
          favoriteLocationIds, favoriteLocations, favFetch, favSnap, store, op, raced>>

Ops == [loc : LocationIds, kind : {"add", "remove"},
        pc : {"begin", "read", "committed", "returned", "failed"},
        snap : {NoDoc} \cup Seq(LocationIds), tries : 0..(MaxAttempts - 1)]

Unused == [pc |-> "unused"]

TypeOK ==
    /\ fetch \in [Lists -> {"new", "query", "details", "ended"}]
    /\ shown \in [Lists -> SUBSET LocationIds]
    /\ pending \in [Lists -> SUBSET LocationIds]
    /\ detailed \in [Lists -> SUBSET LocationIds]
    /\ allLocations \subseteq LocationIds
    /\ isLoading \in BOOLEAN
    /\ favoriteLocationIds \subseteq LocationIds
    /\ favoriteLocations \subseteq LocationIds
    /\ favFetch \in {"new", "query", "read", "loaded", "failed"}
    /\ favSnap \in {NoDoc} \cup Seq(LocationIds)
    /\ store \in {NoDoc} \cup Seq(LocationIds)
    /\ op \in [Toggles -> {Unused} \cup Ops]
    /\ raced \subseteq LocationIds

Init ==
    /\ fetch = [f \in Lists |-> "new"]
    /\ shown = [f \in Lists |-> {}]
    /\ pending = [f \in Lists |-> {}]
    /\ detailed = [f \in Lists |-> {}]
    /\ allLocations = {}
    /\ isLoading = FALSE
    /\ favoriteLocationIds = {}
    /\ favoriteLocations = {}
    /\ favFetch = "new"
    /\ favSnap = NoDoc
    /\ store \in StoredFavorites
    /\ op = [i \in Toggles |-> Unused]
    /\ raced = {}

-----------------------------------------------------------------------------
(* The catalogue: onInit and the fetches it runs in parallel.              *)

\* onInit calls the five fetches, which all run up to their first await.
OnInit ==
    /\ \A f \in Lists : fetch[f] = "new"
    /\ fetch' = [f \in Lists |-> "query"]
    /\ isLoading' = TRUE
    /\ UNCHANGED <<shown, pending, detailed, allLocations>>
    /\ UNCHANGED favVars

\* getFeaturedLocations: at most FeaturedLimit of the featured ones.
FeaturedAnswers ==
    {S \in SUBSET FeaturedIds :
        Cardinality(S) = IF Cardinality(FeaturedIds) < FeaturedLimit
                         THEN Cardinality(FeaturedIds) ELSE FeaturedLimit}

\* getLocationsByCategory
CategoryAnswer(f) == {l \in LocationIds : CategoryOf[l] = f}

Answers(f) == IF f = "featuredLocations" THEN FeaturedAnswers ELSE {CategoryAnswer(f)}

\* The lists that their fetch adds to allLocations at the end.
MergedLists == {"touristSpots", "accommodations", "shopping"}

\* The finally block of the fetch of f; the last of the five lets onInit go
\* on to fetchUserFavorites, which sets isLoading again before it awaits.
EndFetch(f) ==
    /\ fetch' = [fetch EXCEPT ![f] = "ended"]
    /\ IF \A g \in Lists \ {f} : fetch[g] = "ended"
       THEN isLoading' = TRUE /\ favFetch' = "query"
       ELSE isLoading' = FALSE /\ UNCHANGED favFetch
    /\ UNCHANGED <<favoriteLocationIds, favoriteLocations, favSnap, store, op, raced>>

ContinueMergeFirst(f, L, S) ==
    /\ allLocations' = allLocations \cup (IF f \in MergedLists THEN L ELSE {})
    /\ IF S # {}
       THEN /\ fetch' = [fetch EXCEPT ![f] = "details"]
            /\ UNCHANGED isLoading
            /\ UNCHANGED favVars
       ELSE EndFetch(f)

\* The fetch of f goes on with the locations S, listed as L, still to be
\* detailed: when none is left it runs to its end in the same turn.
Continue(f, L, S) ==
    IF S # {}
    THEN /\ fetch' = [fetch EXCEPT ![f] = "details"]
         /\ UNCHANGED <<allLocations, isLoading>>
         /\ UNCHANGED favVars
    ELSE /\ allLocations' = allLocations \cup (IF f \in MergedLists THEN L ELSE {})
         /\ EndFetch(f)

QueryAnswered(f) ==
    /\ fetch[f] = "query"
    /\ \E S \in Answers(f) :
         /\ shown' = [shown EXCEPT ![f] = S]
         /\ pending' = [pending EXCEPT ![f] = S]
         /\ Continue(f, S, S)
    /\ UNCHANGED detailed

QueryFailed(f) ==
    /\ fetch[f] = "query"
    /\ EndFetch(f)
    /\ UNCHANGED <<shown, pending, detailed, allLocations>>

\* getCategoryNameById has answered for l: its details are set.
DetailsSet(f, l) ==
    /\ fetch[f] = "details"
    /\ l \in pending[f]
    /\ detailed' = [detailed EXCEPT ![f] = @ \cup {l}]
    /\ pending' = [pending EXCEPT ![f] = @ \ {l}]
    /\ Continue(f, shown[f], pending[f] \ {l})
    /\ UNCHANGED shown

\* It has failed.  The featured locations are detailed in parallel and the
\* others go on; a category list is detailed one by one and is given up.
DetailsFailed(f, l) ==
    /\ fetch[f] = "details"
    /\ l \in pending[f]
    /\ LET rest == IF f = "featuredLocations" THEN pending[f] \ {l} ELSE {}
       IN  /\ pending' = [pending EXCEPT ![f] = rest]
           /\ IF rest # {}
              THEN UNCHANGED <<fetch, isLoading>> /\ UNCHANGED favVars
              ELSE EndFetch(f)
    /\ UNCHANGED <<shown, detailed, allLocations>>

-----------------------------------------------------------------------------
(* fetchUserFavorites.                                                     *)

Settled == \A i \in Toggles : op[i].pc \in {"unused", "returned", "failed"}
InFlight == {op[i].loc : i \in {j \in Toggles : op[j].pc \in {"begin", "read", "committed"}}}

ListedMerged(ids) == favoriteLocations \cup {l \in allLocations : l \in ids}
Listed(ids) == {l \in allLocations : l \in ids}

\* Firestore reads the document; the answer is still on its way.
FavoritesRead ==
    /\ favFetch = "query"
    /\ favFetch' = "read"
    /\ favSnap' = store
    /\ raced' = raced \cup InFlight
    /\ UNCHANGED catalogVars
    /\ UNCHANGED <<isLoading, favoriteLocationIds, favoriteLocations, store, op>>

FavoritesLoaded ==
    /\ favFetch = "read"
    /\ favFetch' = "loaded"
    /\ isLoading' = FALSE
    /\ IF favSnap = NoDoc
       THEN UNCHANGED <<favoriteLocationIds, favoriteLocations>>
       ELSE /\ favoriteLocationIds' = Range(favSnap)
            /\ favoriteLocations' = Listed(Range(favSnap))
    /\ favSnap' = NoDoc
    /\ UNCHANGED catalogVars
    /\ UNCHANGED <<store, op, raced>>

FavoritesFailedNoFinally ==
    /\ favFetch \in {"query", "read"}
    /\ favFetch' = "failed"
    /\ favSnap' = NoDoc
    /\ UNCHANGED catalogVars
    /\ UNCHANGED <<isLoading, favoriteLocationIds, favoriteLocations, store, op, raced>>
FavoritesFailed ==
    /\ favFetch \in {"query", "read"}
    /\ favFetch' = "failed"
    /\ isLoading' = FALSE
    /\ favSnap' = NoDoc
    /\ UNCHANGED catalogVars
    /\ UNCHANGED <<favoriteLocationIds, favoriteLocations, store, op, raced>>

-----------------------------------------------------------------------------
(* toggleFavorite and the transactions of LocationRepository.              *)

\* The user taps the favorite icon of a location on the screen.  The local
\* set changes at once, and the transaction that follows it starts.
ToggleFavorite(i, l) ==
    /\ op[i] = Unused
    /\ \A j \in Toggles : j < i => op[j] # Unused
    /\ \E f \in Lists : l \in shown[f]
    /\ LET kind == IF l \in favoriteLocationIds THEN "remove" ELSE "add"
       IN  /\ favoriteLocationIds' = IF kind = "remove"
                                     THEN favoriteLocationIds \ {l}
                                     ELSE favoriteLocationIds \cup {l}
           /\ op' = [op EXCEPT ![i] = [loc |-> l, kind |-> kind, pc |-> "begin",
                                       snap |-> NoDoc, tries |-> 0]]
    /\ raced' = IF l \in InFlight \/ favFetch = "read" THEN raced \cup {l} ELSE raced
    /\ UNCHANGED catalogVars
    /\ UNCHANGED <<isLoading, favoriteLocations, favFetch, favSnap, store>>

\* List.remove of Dart: the first occurrence goes.
ListRemove(s, e) ==
    IF e \notin Range(s) THEN s
    ELSE LET k == CHOOSE i \in DOMAIN s : s[i] = e /\ \A j \in DOMAIN s : s[j] = e => i <= j
         IN  [i \in 1..(Len(s) - 1) |-> IF i < k THEN s[i] ELSE s[i + 1]]

AddedAlways(s, l) == IF s = NoDoc THEN <<l>> ELSE Append(s, l)
Added(s, l) == IF s = NoDoc THEN <<l>> ELSE IF l \in Range(s) THEN s ELSE Append(s, l)
Removed(s, l) == IF s = NoDoc THEN s ELSE ListRemove(s, l)

\* The document has changed since this attempt read it.
NoConflictCheck(i) == FALSE
Conflict(i) == op[i].snap # store

OneRetryTooMany(i) == op[i].tries < MaxAttempts
MayRetry(i) == op[i].tries + 1 < MaxAttempts

\* One attempt of runTransaction reads the document ...
TransactionRead(i) ==
    /\ op[i].pc = "begin"
    /\ op' = [op EXCEPT ![i].pc = "read", ![i].snap = store]
    /\ UNCHANGED catalogVars
    /\ UNCHANGED <<isLoading, favoriteLocationIds, favoriteLocations, favFetch, favSnap, store, raced>>

\* ... and commits what it made of it if the document is still the same ...
TransactionCommit(i) ==
    /\ op[i].pc = "read"
    /\ ~Conflict(i)
    /\ store' = IF op[i].kind = "add" THEN Added(op[i].snap, op[i].loc)
                                      ELSE Removed(op[i].snap, op[i].loc)
    /\ op' = [op EXCEPT ![i].pc = "committed", ![i].snap = NoDoc]
    /\ UNCHANGED catalogVars
    /\ UNCHANGED <<isLoading, favoriteLocationIds, favoriteLocations, favFetch, favSnap, raced>>

\* ... else it is tried again, as long as attempts are left.
TransactionConflict(i) ==
    /\ op[i].pc = "read"
    /\ Conflict(i)
    /\ MayRetry(i)
    /\ op' = [op EXCEPT ![i].pc = "begin", ![i].snap = NoDoc, ![i].tries = @ + 1]
    /\ UNCHANGED catalogVars
    /\ UNCHANGED <<isLoading, favoriteLocationIds, favoriteLocations, favFetch, favSnap, store, raced>>

\* The call throws (no connection, attempts used up, or the commit happened
\* but its acknowledgement is lost): toggleFavorite ends at the await.  The
\* local set is not rolled back, favoriteLocations is not refreshed.
ToggleFails(i) ==
    /\ op[i].pc \in {"begin", "read", "committed"}
    /\ op' = [op EXCEPT ![i].pc = "failed", ![i].snap = NoDoc]
    /\ raced' = raced \cup {op[i].loc}
    /\ UNCHANGED catalogVars
    /\ UNCHANGED <<isLoading, favoriteLocationIds, favoriteLocations, favFetch, favSnap, store>>

\* The transaction has returned: favoriteLocations is computed anew.
ToggleReturns(i) ==
    /\ op[i].pc = "committed"
    /\ op' = [op EXCEPT ![i].pc = "returned"]
    /\ favoriteLocations' = Listed(favoriteLocationIds)
    /\ UNCHANGED catalogVars
    /\ UNCHANGED <<isLoading, favoriteLocationIds, favFetch, favSnap, store, raced>>

-----------------------------------------------------------------------------
CatalogStep(f) ==
    \/ QueryAnswered(f)
    \/ QueryFailed(f)
    \/ \E l \in LocationIds : DetailsSet(f, l) \/ DetailsFailed(f, l)

FavoritesStep == FavoritesRead \/ FavoritesLoaded \/ FavoritesFailed

ToggleStep(i) ==
    \/ TransactionRead(i)
    \/ TransactionCommit(i)
    \/ TransactionConflict(i)
    \/ ToggleFails(i)
    \/ ToggleReturns(i)

UserStep == \E i \in Toggles, l \in LocationIds : ToggleFavorite(i, l)

Next ==
    \/ OnInit
    \/ \E f \in Lists : CatalogStep(f)
    \/ FavoritesStep
    \/ UserStep
    \/ \E i \in Toggles : ToggleStep(i)

Spec == Init /\ [][Next]_vars

\* The app's own steps and the answers it waits for happen; taps need not.
Fairness ==
    /\ WF_vars(OnInit)
    /\ \A f \in Lists : WF_vars(CatalogStep(f))
    /\ WF_vars(FavoritesStep)
    /\ \A i \in Toggles : WF_vars(ToggleStep(i))

FairSpec == Spec /\ Fairness

-----------------------------------------------------------------------------
(* Properties.                                                             *)

InDoc(s, l) == s # NoDoc /\ l \in Range(s)

\* Whatever toggles overlap, conflict or fail, the stored list never holds a
\* location twice: addToFavorites appends inside a transaction, after
\* looking for the id in what that same transaction read.
StoredOnce == store # NoDoc => NoDuplicates(store)

\* A location that search and favorites can offer has its details set:
\* a category list is added to allLocations only when every one of its
\* locations has been through setLocationsDetails, not when that failed
\* half way.
SearchableIsDetailed ==
    \A l \in allLocations : l \in detailed[CategoryOf[l]]

\* With every call over and none failed, the favorites list is exactly what
\* the set of ids selects from allLocations, also when a toggle finished
\* while the lists were still being fetched.
FavoritesListFresh ==
    (Settled /\ favFetch = "loaded" /\ \A i \in Toggles : op[i].pc # "failed")
        => favoriteLocations = allLocations \cap favoriteLocationIds

\* Once the favorites are loaded and every toggle is over, the local set and
\* the stored list agree on each location, except for one whose own toggles
\* overlapped each other or the first load, or failed: toggles of OTHER
\* locations, which write the same document, never make it wrong.
AgreementUnlessRaced ==
    (Settled /\ favFetch = "loaded")
        => \A l \in LocationIds \ raced : l \in favoriteLocationIds <=> InDoc(store, l)

\* A transaction changes the stored list at its own location only: what others
\* committed since it first read the document stays.
OneLocationPerWrite ==
    [][store' # store =>
         \E i \in Toggles :
            /\ op[i].pc = "read" /\ op'[i].pc = "committed"
            /\ \A l \in LocationIds \ {op[i].loc} : InDoc(store, l) <=> InDoc(store', l)]_store

\* The document, the transactions with their retries and the lists implement
\* the set of favorites that module Favorites specifies: each toggle takes
\* effect on the stored set at one instant, once or not at all, whatever
\* conflicts with it.
StoredSet(s) == IF s = NoDoc THEN {} ELSE Range(s)

LoadOf(f) == IF f \in {"new", "query"} THEN "waiting" ELSE IF f = "read" THEN "reading" ELSE "over"

AskedRequests == [i \in Toggles |-> IF op[i] = Unused THEN Unused
                                    ELSE [loc |-> op[i].loc, kind |-> op[i].kind]]
PendingRequests == {i \in Toggles : op[i].pc \in {"begin", "read"}}
AppliedRequests == {i \in Toggles : op[i].pc = "committed"}

Fav == INSTANCE Favorites WITH
          Requests <- Toggles,
          NoRequest <- Unused,
          shown <- favoriteLocationIds,
          stored <- StoredSet(store),
          asked <- AskedRequests,
          pending <- PendingRequests,
          applied <- AppliedRequests,
          load <- LoadOf(favFetch),
          snapshot <- StoredSet(favSnap)

FavoritesImplemented == Fav!Spec

\* The loader shown on the tabs ends for good, whichever fetch failed.
LoaderStops == <>[](~isLoading)

\* favoriteLocations is "based on the current set of IDs": with every list
\* fetched without failure and every toggle over, it shows each of them.
EveryFavoriteListed ==
    (/\ Settled
     /\ favFetch = "loaded"
     /\ \A l \in LocationIds : l \in detailed[CategoryOf[l]]
     /\ \A i \in Toggles : op[i].pc # "failed")
        => favoriteLocations = favoriteLocationIds

-----------------------------------------------------------------------------
(* The inductive invariant behind AgreementUnlessRaced, in parts.          *)

Pending(i) == op[i].pc \in {"begin", "read"}
Live(i) == op[i].pc \in {"begin", "read", "committed"}

\* Two toggles of one location in flight at once are recorded as a race.
OverlapsRecorded ==
    \A i, j \in Toggles :
        (i # j /\ Live(i) /\ Live(j) /\ op[i].loc = op[j].loc) => op[i].loc \in raced

\* A lone toggle in flight wants what the local set already shows.
LocalShowsIntent ==
    \A i \in Toggles :
        (Live(i) /\ op[i].loc \notin raced)
            => (op[i].kind = "add" <=> op[i].loc \in favoriteLocationIds)

\* Between the read of the favorites and its answer the document changes
\* only at locations recorded as raced.
SnapshotCurrent ==
    favFetch = "read" =>
        /\ \A i \in Toggles : Live(i) => op[i].loc \in raced
        /\ \A l \in LocationIds \ raced : InDoc(favSnap, l) <=> InDoc(store, l)

\* Before the favorites are loaded the local set holds nothing but what is
\* stored or about to be; afterwards it equals what is stored, or about to
\* be.
LocalIsStored ==
    \A l \in LocationIds \ raced :
        (~ \E i \in Toggles : Pending(i) /\ op[i].loc = l) =>
            /\ favFetch \in {"new", "query", "read"} /\ l \in favoriteLocationIds
                    => InDoc(store, l)
            /\ favFetch = "loaded" => (l \in favoriteLocationIds <=> InDoc(store, l))

\* fetchUserFavorites starts after the five fetches have ended.
FavoritesLast == favFetch # "new" => \A f \in Lists : fetch[f] = "ended"

AgreementInv ==
    /\ TypeOK
    /\ FavoritesLast
    /\ StoredOnce
    /\ OverlapsRecorded
    /\ LocalShowsIntent
    /\ SnapshotCurrent
    /\ LocalIsStored
=============================================================================
