--------------------------- MODULE LocationsProofs ---------------------------
(***************************************************************************)
(* Proofs about Locations, for any set of locations, any number of toggles *)
(* and any number of attempts: AgreementInv for the stored and the local   *)
(* favorites, CatalogInv for the lists, FreshInv for the favorites list.   *)
(***************************************************************************)
EXTENDS Locations, TLAPS

\* Added and Removed keep a list of locations a list of locations.
LEMMA ListTyped ==
    ASSUME NEW s \in {NoDoc} \cup Seq(LocationIds), NEW l \in LocationIds
    PROVE  /\ Added(s, l) \in Seq(LocationIds)
           /\ Removed(s, l) \in {NoDoc} \cup Seq(LocationIds)
           /\ s # NoDoc => Removed(s, l) \in Seq(LocationIds)
<1>1. Added(s, l) \in Seq(LocationIds)
  BY DEF Added
<1>2. /\ Removed(s, l) \in {NoDoc} \cup Seq(LocationIds)
      /\ s # NoDoc => Removed(s, l) \in Seq(LocationIds)
  <2>1. CASE s = NoDoc
    BY <2>1 DEF Removed
  <2>2. CASE s # NoDoc /\ l \notin Range(s)
    BY <2>2 DEF Removed, ListRemove
  <2>3. CASE s # NoDoc /\ l \in Range(s)
    <3>1. s \in Seq(LocationIds) /\ Len(s) \in Nat /\ Len(s) # 0 /\ DOMAIN s = 1..Len(s)
      BY <2>3 DEF Range
    <3>2. \A i \in 1..(Len(s) - 1) : s[i] \in LocationIds /\ s[i + 1] \in LocationIds
      BY <3>1
    <3> DEFINE k == CHOOSE i \in DOMAIN s : s[i] = l /\ \A j \in DOMAIN s : s[j] = l => i <= j
               r == [i \in 1..(Len(s) - 1) |-> IF i < k THEN s[i] ELSE s[i + 1]]
    <3>3. Removed(s, l) = r
      BY <2>3 DEF Removed, ListRemove
    <3> HIDE DEF k
    <3>4. r \in [1..(Len(s) - 1) -> LocationIds]
      BY <3>2
    <3>5. Len(s) - 1 \in Nat
      BY <3>1
    <3> HIDE DEF r
    <3>6. r \in Seq(LocationIds)
      BY <3>4, <3>5
    <3> QED BY <3>3, <3>6
  <2> QED BY <2>1, <2>2, <2>3
<1> QED BY <1>1, <1>2

\* A list without duplicates keeps none, and changes at l alone.
LEMMA AddedList ==
    ASSUME NEW s \in {NoDoc} \cup Seq(LocationIds), NEW l \in LocationIds,
           s # NoDoc => NoDuplicates(s)
    PROVE  /\ Added(s, l) # NoDoc
           /\ NoDuplicates(Added(s, l))
           /\ \A m : InDoc(Added(s, l), m) <=> InDoc(s, m) \/ m = l
<1>0. NoDoc \notin Seq(LocationIds)
  BY LocationsAssumption
<1>1. CASE s = NoDoc
  <2>1. Added(s, l) = <<l>>
    BY <1>1 DEF Added
  <2>2. DOMAIN <<l>> = {1} /\ <<l>>[1] = l /\ <<l>> \in Seq(LocationIds)
    OBVIOUS
  <2> DEFINE t == <<l>>
  <2> HIDE DEF t
  <2>3. NoDuplicates(t) /\ Range(t) = {l}
    BY <2>2 DEF NoDuplicates, Range, t
  <2>4. t = Added(s, l) /\ t # NoDoc
    BY <1>0, <2>1, <2>2 DEF t
  <2>5. \A m : InDoc(t, m) <=> InDoc(s, m) \/ m = l
    BY <1>1, <2>3, <2>4 DEF InDoc
  <2> QED BY <2>3, <2>4, <2>5
<1>2. CASE s # NoDoc /\ l \in Range(s)
  <2>1. Added(s, l) = s
    BY <1>2 DEF Added
  <2> QED BY <1>2, <2>1 DEF InDoc
<1>3. CASE s # NoDoc /\ l \notin Range(s)
  <2>1. s \in Seq(LocationIds) /\ Added(s, l) = Append(s, l)
    BY <1>3 DEF Added
  <2>2. /\ Append(s, l) \in Seq(LocationIds)
        /\ DOMAIN s = 1..Len(s)
        /\ DOMAIN Append(s, l) = 1..(Len(s) + 1)
        /\ Len(s) \in Nat
        /\ \A i \in 1..Len(s) : Append(s, l)[i] = s[i]
        /\ Append(s, l)[Len(s) + 1] = l
    BY <2>1
  <2> DEFINE t == Append(s, l)
  <2> HIDE DEF t
  <2>3. NoDuplicates(t)
    BY <1>3, <2>2 DEF NoDuplicates, Range, t
  <2>4. \A m : m \in Range(t) <=> m \in Range(s) \/ m = l
    BY <2>2 DEF Range, t
  <2>5. t = Added(s, l) /\ t # NoDoc
    BY <1>0, <2>1, <2>2 DEF t
  <2>6. \A m : InDoc(t, m) <=> InDoc(s, m) \/ m = l
    BY <1>3, <2>4, <2>5 DEF InDoc
  <2> QED BY <2>3, <2>5, <2>6
<1> QED BY <1>1, <1>2, <1>3

\* removeFavorite's List.remove leaves no duplicates and takes out its location only.
LEMMA RemovedList ==
    ASSUME NEW s \in {NoDoc} \cup Seq(LocationIds), NEW l \in LocationIds,
           s # NoDoc => NoDuplicates(s)
    PROVE  /\ Removed(s, l) # NoDoc => NoDuplicates(Removed(s, l))
           /\ \A m : InDoc(Removed(s, l), m) <=> InDoc(s, m) /\ m # l
<1>0. NoDoc \notin Seq(LocationIds)
  BY LocationsAssumption
<1>1. CASE s = NoDoc
  BY <1>1 DEF Removed, InDoc
<1>2. CASE s # NoDoc /\ l \notin Range(s)
  BY <1>2 DEF Removed, ListRemove, InDoc
<1>3. CASE s # NoDoc /\ l \in Range(s)
  <2> DEFINE k == CHOOSE i \in DOMAIN s : s[i] = l /\ \A j \in DOMAIN s : s[j] = l => i <= j
             r == [i \in 1..(Len(s) - 1) |-> IF i < k THEN s[i] ELSE s[i + 1]]
  <2>1. Removed(s, l) = r
    BY <1>3 DEF Removed, ListRemove
  <2>2. s \in Seq(LocationIds) /\ Len(s) \in Nat /\ DOMAIN s = 1..Len(s)
    BY <1>3
  <2>3. NoDuplicates(s)
    BY <1>3
  <2>4. PICK n \in DOMAIN s : s[n] = l
    BY <1>3 DEF Range
  <2>5. n \in 1..Len(s) /\ \A j \in DOMAIN s : s[j] = l => n <= j
    BY <2>2, <2>3, <2>4 DEF NoDuplicates
  <2>6. k \in DOMAIN s /\ s[k] = l
    BY <2>4, <2>5
  <2> HIDE DEF k
  <2>7. DOMAIN r = 1..(Len(s) - 1)
    OBVIOUS
  <2>8. \A i \in 1..(Len(s) - 1) : r[i] = IF i < k THEN s[i] ELSE s[i + 1]
    OBVIOUS
  <2> HIDE DEF r
  <2>9. NoDuplicates(r)
    <3> SUFFICES ASSUME NEW i \in 1..(Len(s) - 1), NEW j \in 1..(Len(s) - 1), r[i] = r[j]
                 PROVE  i = j
      BY <2>7 DEF NoDuplicates
    <3>1. /\ i \in DOMAIN s /\ i + 1 \in DOMAIN s
          /\ j \in DOMAIN s /\ j + 1 \in DOMAIN s
      BY <2>2
    <3>2. CASE i < k /\ j < k
      BY <2>3, <2>8, <3>1, <3>2 DEF NoDuplicates
    <3>3. CASE ~(i < k) /\ ~(j < k)
      <4>1. i + 1 = j + 1
        BY <2>3, <2>8, <3>1, <3>3 DEF NoDuplicates
      <4> QED BY <4>1
    <3>4. CASE i < k /\ ~(j < k)
      <4>1. i = j + 1
        BY <2>3, <2>8, <3>1, <3>4 DEF NoDuplicates
      <4> QED BY <2>2, <2>6, <3>4, <4>1
    <3>5. CASE ~(i < k) /\ j < k
      <4>1. i + 1 = j
        BY <2>3, <2>8, <3>1, <3>5 DEF NoDuplicates
      <4> QED BY <2>2, <2>6, <3>5, <4>1
    <3> QED BY <3>2, <3>3, <3>4, <3>5
  <2>10. \A m \in Range(r) : m \in Range(s) /\ m # l
    BY <2>2, <2>3, <2>6, <2>7, <2>8 DEF NoDuplicates, Range
  <2>11. ASSUME NEW m \in Range(s), m # l
         PROVE  m \in Range(r)
    <3>1. PICK j \in 1..Len(s) : s[j] = m
      BY <2>2 DEF Range
    <3>2. CASE j < k
      <4>1. j \in 1..(Len(s) - 1) /\ r[j] = m
        BY <3>1, <3>2, <2>2, <2>6, <2>8
      <4> QED BY <4>1, <2>7 DEF Range
    <3>3. CASE j > k
      <4>1. j - 1 \in 1..(Len(s) - 1) /\ ~(j - 1 < k) /\ (j - 1) + 1 = j
        BY <3>3, <2>2, <2>6
      <4>2. r[j - 1] = m
        BY <3>1, <4>1, <2>8
      <4> QED BY <4>1, <4>2, <2>7 DEF Range
    <3> QED BY <3>1, <3>2, <3>3, <2>2, <2>6, <2>11
  <2>12. r # NoDoc
    BY <1>0, <1>3, <2>1, ListTyped
  <2> QED BY <1>3, <2>1, <2>9, <2>10, <2>11, <2>12 DEF InDoc
<1> QED BY <1>1, <1>2, <1>3

-----------------------------------------------------------------------------
(* Type correctness.                                                       *)

\* A used operation is a record of Ops, and stays one when its fields are
\* overwritten with values of their types.
LEMMA OpTyped ==
    ASSUME TypeOK, NEW i \in Toggles, op[i].pc # "unused"
    PROVE  op[i] \in Ops
BY DEF TypeOK, Unused

\* What a fetch does once it has its answer keeps the types.
LEMMA ContinueTypes ==
    ASSUME TypeOK, NEW f \in Lists, NEW L \in SUBSET LocationIds, NEW S, Continue(f, L, S)
    PROVE  /\ fetch' \in [Lists -> {"new", "query", "details", "ended"}]
           /\ allLocations' \subseteq LocationIds
           /\ isLoading' \in BOOLEAN
           /\ favFetch' \in {"new", "query", "read", "loaded", "failed"}
           /\ UNCHANGED <<favoriteLocationIds, favoriteLocations, favSnap, store, op, raced>>
<1>1. CASE S # {}
  BY <1>1 DEF TypeOK, Continue, favVars
<1>2. CASE S = {}
  <2>1. EndFetch(f) /\ allLocations' = allLocations \cup (IF f \in MergedLists THEN L ELSE {})
    BY <1>2 DEF Continue
  <2> QED BY <2>1 DEF TypeOK, EndFetch
<1> QED BY <1>1, <1>2

\* The five fetches keep the types.
LEMMA TypeCatalog ==
    ASSUME TypeOK, NEW f \in Lists, CatalogStep(f)
    PROVE  TypeOK'
<1> USE DEF TypeOK
<1>1. CASE QueryAnswered(f)
  <2>1. PICK S \in Answers(f) :
          /\ shown' = [shown EXCEPT ![f] = S]
          /\ pending' = [pending EXCEPT ![f] = S]
          /\ Continue(f, S, S)
    BY <1>1 DEF QueryAnswered
  <2>2. S \in SUBSET LocationIds
    BY LocationsAssumption DEF Answers, FeaturedAnswers, CategoryAnswer
  <2>3. /\ fetch' \in [Lists -> {"new", "query", "details", "ended"}]
        /\ allLocations' \subseteq LocationIds
        /\ isLoading' \in BOOLEAN
        /\ favFetch' \in {"new", "query", "read", "loaded", "failed"}
        /\ UNCHANGED <<favoriteLocationIds, favoriteLocations, favSnap, store, op, raced>>
    BY <2>1, <2>2, ContinueTypes
  <2>4. shown' \in [Lists -> SUBSET LocationIds] /\ pending' \in [Lists -> SUBSET LocationIds]
    BY <2>1, <2>2
  <2>5. UNCHANGED detailed
    BY <1>1 DEF QueryAnswered
  <2> QED BY <2>3, <2>4, <2>5
<1>2. CASE QueryFailed(f)
  BY <1>2 DEF QueryFailed, EndFetch
<1>3. ASSUME NEW l \in LocationIds, DetailsSet(f, l)
      PROVE  TypeOK'
  BY <1>3 DEF DetailsSet, Continue, EndFetch, favVars
<1>4. ASSUME NEW l \in LocationIds, DetailsFailed(f, l)
      PROVE  TypeOK'
  BY <1>4 DEF DetailsFailed, EndFetch, favVars
<1> QED BY <1>1, <1>2, <1>3, <1>4 DEF CatalogStep

\* So does fetchUserFavorites.
LEMMA TypeFavorites ==
    ASSUME TypeOK, FavoritesStep
    PROVE  TypeOK'
<1> USE DEF TypeOK, catalogVars
<1>1. CASE FavoritesRead
  <2>1. InFlight \subseteq LocationIds
    <3>1. ASSUME NEW j \in Toggles, op[j].pc \in {"begin", "read", "committed"}
          PROVE  op[j].loc \in LocationIds
      BY <3>1, OpTyped DEF Ops
    <3> QED BY <3>1 DEF InFlight
  <2> QED BY <1>1, <2>1 DEF FavoritesRead
<1>2. CASE FavoritesLoaded
  <2>1. favSnap # NoDoc => Range(favSnap) \subseteq LocationIds
    BY DEF Range
  <2> QED BY <1>2, <2>1 DEF FavoritesLoaded, Listed
<1>3. CASE FavoritesFailed
  BY <1>3 DEF FavoritesFailed
<1> QED BY <1>1, <1>2, <1>3 DEF FavoritesStep

\* The new value of one operation is enough to type the whole function.
LEMMA TypeOneOp ==
    ASSUME TypeOK, NEW i \in Toggles, NEW r \in Ops, op' = [op EXCEPT ![i] = r]
    PROVE  op' \in [Toggles -> {Unused} \cup Ops]
BY DEF TypeOK

\* So does a tap on a favorite icon.
LEMMA TypeUser ==
    ASSUME TypeOK, NEW i \in Toggles, NEW l \in LocationIds, ToggleFavorite(i, l)
    PROVE  TypeOK'
<1> DEFINE kind == IF l \in favoriteLocationIds THEN "remove" ELSE "add"
           r == [loc |-> l, kind |-> kind, pc |-> "begin", snap |-> NoDoc, tries |-> 0]
<1>1. r \in Ops
  BY LocationsAssumption DEF Ops
<1>2. op' = [op EXCEPT ![i] = r]
  BY DEF ToggleFavorite
<1>3. op' \in [Toggles -> {Unused} \cup Ops]
  BY <1>1, <1>2, TypeOneOp
<1> QED BY <1>3 DEF ToggleFavorite, TypeOK, catalogVars

\* So does every later step of toggleFavorite.
LEMMA TypeToggle ==
    ASSUME TypeOK, NEW i \in Toggles, ToggleStep(i)
    PROVE  TypeOK'
<1>0. op[i] \in Ops
  BY OpTyped DEF ToggleStep, TransactionRead, TransactionCommit, TransactionConflict,
                 ToggleFails, ToggleReturns
<1> USE DEF TypeOK, catalogVars
<1>1. CASE TransactionRead(i)
  <2>1. [op[i] EXCEPT !.pc = "read", !.snap = store] \in Ops
    BY <1>0 DEF Ops
  <2>2. op' \in [Toggles -> {Unused} \cup Ops]
    BY <1>1, <2>1, TypeOneOp DEF TransactionRead
  <2> QED BY <1>1, <2>2 DEF TransactionRead
<1>2. CASE TransactionCommit(i)
  <2>1. [op[i] EXCEPT !.pc = "committed", !.snap = NoDoc] \in Ops
    BY <1>0 DEF Ops
  <2>2. op' \in [Toggles -> {Unused} \cup Ops]
    BY <1>2, <2>1, TypeOneOp DEF TransactionCommit
  <2>3. store' \in {NoDoc} \cup Seq(LocationIds)
    BY <1>0, <1>2, ListTyped DEF TransactionCommit, Ops
  <2> QED BY <1>2, <2>2, <2>3 DEF TransactionCommit
<1>3. CASE TransactionConflict(i)
  <2>1. [op[i] EXCEPT !.pc = "begin", !.snap = NoDoc, !.tries = @ + 1] \in Ops
    BY <1>0, <1>3, LocationsAssumption DEF Ops, TransactionConflict, MayRetry
  <2>2. op' \in [Toggles -> {Unused} \cup Ops]
    BY <1>3, <2>1, TypeOneOp DEF TransactionConflict
  <2> QED BY <1>3, <2>2 DEF TransactionConflict
<1>4. CASE ToggleFails(i)
  <2>1. [op[i] EXCEPT !.pc = "failed", !.snap = NoDoc] \in Ops /\ op[i].loc \in LocationIds
    BY <1>0 DEF Ops
  <2>2. op' \in [Toggles -> {Unused} \cup Ops]
    BY <1>4, <2>1, TypeOneOp DEF ToggleFails
  <2> QED BY <1>4, <2>1, <2>2 DEF ToggleFails
<1>5. CASE ToggleReturns(i)
  <2>1. [op[i] EXCEPT !.pc = "returned"] \in Ops
    BY <1>0 DEF Ops
  <2>2. op' \in [Toggles -> {Unused} \cup Ops]
    BY <1>5, <2>1, TypeOneOp DEF ToggleReturns
  <2> QED BY <1>5, <2>2 DEF ToggleReturns, Listed
<1> QED BY <1>1, <1>2, <1>3, <1>4, <1>5 DEF ToggleStep

\* Every variable of the catalogue and of the favorites keeps its type.
THEOREM TypeCorrect == Spec => []TypeOK
<1>1. Init => TypeOK
  BY LocationsAssumption DEF Init, TypeOK
<1>2. TypeOK /\ [Next]_vars => TypeOK'
  <2> SUFFICES ASSUME TypeOK, [Next]_vars PROVE TypeOK'
    OBVIOUS
  <2>1. CASE OnInit
    BY <2>1 DEF OnInit, TypeOK, favVars
  <2>2. CASE UNCHANGED vars
    BY <2>2 DEF vars, TypeOK
  <2> QED BY <2>1, <2>2, TypeCatalog, TypeFavorites, TypeUser, TypeToggle DEF Next, UserStep
<1> QED BY <1>1, <1>2, PTL DEF Spec

-----------------------------------------------------------------------------
(* Agreement of the local set and the stored list.                         *)

\* A step of a fetch leaves the favorites alone, except that the last one
\* starts fetchUserFavorites.
LEMMA CatalogFrame ==
    ASSUME AgreementInv, NEW f \in Lists, CatalogStep(f)
    PROVE  /\ UNCHANGED <<favoriteLocationIds, favSnap, store, op, raced>>
           /\ favFetch = "new" /\ favFetch' \in {"new", "query"}
           /\ FavoritesLast'
<1>0. f \in Lists /\ fetch[f] # "ended" => favFetch = "new"
  BY DEF AgreementInv, FavoritesLast
<1>1. fetch \in [Lists -> {"new", "query", "details", "ended"}]
  BY DEF AgreementInv, TypeOK
<1>2. CASE QueryAnswered(f)
  <2>1. PICK S \in Answers(f) : Continue(f, S, S)
    BY <1>2 DEF QueryAnswered
  <2> QED BY <1>0, <1>1, <1>2, <2>1 DEF QueryAnswered, Continue, EndFetch, favVars, FavoritesLast
<1>3. CASE QueryFailed(f)
  BY <1>0, <1>1, <1>3 DEF QueryFailed, EndFetch, FavoritesLast
<1>4. ASSUME NEW l \in LocationIds, DetailsSet(f, l)
      PROVE  /\ UNCHANGED <<favoriteLocationIds, favSnap, store, op, raced>>
             /\ favFetch = "new" /\ favFetch' \in {"new", "query"}
             /\ FavoritesLast'
  BY <1>0, <1>1, <1>4 DEF DetailsSet, Continue, EndFetch, favVars, FavoritesLast
<1>5. ASSUME NEW l \in LocationIds, DetailsFailed(f, l)
      PROVE  /\ UNCHANGED <<favoriteLocationIds, favSnap, store, op, raced>>
             /\ favFetch = "new" /\ favFetch' \in {"new", "query"}
             /\ FavoritesLast'
  BY <1>0, <1>1, <1>5 DEF DetailsFailed, EndFetch, favVars, FavoritesLast
<1> QED BY <1>2, <1>3, <1>4, <1>5 DEF CatalogStep

\* The five fetches do not touch favorites, local or stored.
LEMMA AgreementCatalog ==
    ASSUME AgreementInv, NEW f \in Lists, CatalogStep(f)
    PROVE  AgreementInv'
<1>1. TypeOK'
  BY TypeCatalog DEF AgreementInv
<1> QED BY <1>1, CatalogFrame DEF AgreementInv, StoredOnce, OverlapsRecorded, LocalShowsIntent,
        SnapshotCurrent, LocalIsStored, Live, Pending, InDoc

\* The three steps of fetchUserFavorites.  The answer overwrites the local
\* set: that is sound because the document it read differs from the present
\* one, and toggles are in flight, at raced locations only.
LEMMA AgreementFavorites ==
    ASSUME AgreementInv, FavoritesStep
    PROVE  AgreementInv'
<1>0. TypeOK'
  BY TypeFavorites DEF AgreementInv
<1> USE DEF AgreementInv, catalogVars
<1>1. CASE FavoritesRead
  <2>1. /\ favFetch = "query" /\ favFetch' = "read" /\ favSnap' = store
        /\ raced' = raced \cup InFlight
        /\ UNCHANGED <<fetch, favoriteLocationIds, store, op>>
    BY <1>1 DEF FavoritesRead
  <2>2. \A i \in Toggles : Live(i) => op[i].loc \in InFlight
    BY DEF Live, InFlight
  <2>3. SnapshotCurrent'
    BY <2>1, <2>2 DEF SnapshotCurrent, Live, InDoc
  <2>4. LocalIsStored'
    BY <2>1 DEF LocalIsStored, Pending, InDoc
  <2>5. OverlapsRecorded' /\ LocalShowsIntent' /\ StoredOnce' /\ FavoritesLast'
    BY <2>1 DEF OverlapsRecorded, LocalShowsIntent, StoredOnce, FavoritesLast, Live
  <2> QED BY <1>0, <2>3, <2>4, <2>5
<1>2. CASE FavoritesLoaded
  <2>1. /\ favFetch = "read" /\ favFetch' = "loaded"
        /\ favoriteLocationIds' = IF favSnap = NoDoc THEN favoriteLocationIds ELSE Range(favSnap)
        /\ UNCHANGED <<fetch, store, op, raced>>
    BY <1>2 DEF FavoritesLoaded
  <2>2. LocalShowsIntent'
    BY <2>1 DEF SnapshotCurrent, LocalShowsIntent, Live
  <2>3. LocalIsStored'
    <3>1. ASSUME NEW l \in LocationIds \ raced
          PROVE  l \in favoriteLocationIds' <=> InDoc(store, l)
      <4>1. InDoc(favSnap, l) <=> InDoc(store, l)
        BY <2>1 DEF SnapshotCurrent
      <4>2. ~ \E i \in Toggles : Pending(i) /\ op[i].loc = l
        BY <2>1, <3>1 DEF SnapshotCurrent, Pending, Live
      <4>3. l \in favoriteLocationIds => InDoc(store, l)
        BY <2>1, <4>2 DEF LocalIsStored
      <4> QED BY <2>1, <4>1, <4>3 DEF InDoc
    <3> QED BY <2>1, <3>1 DEF LocalIsStored, InDoc
  <2>4. OverlapsRecorded' /\ SnapshotCurrent' /\ StoredOnce' /\ FavoritesLast'
    BY <2>1 DEF OverlapsRecorded, SnapshotCurrent, StoredOnce, FavoritesLast, Live
  <2> QED BY <1>0, <2>2, <2>3, <2>4
<1>3. CASE FavoritesFailed
  BY <1>0, <1>3 DEF FavoritesFailed, StoredOnce, FavoritesLast, OverlapsRecorded, LocalShowsIntent,
        SnapshotCurrent, LocalIsStored, Live, Pending, InDoc
<1> QED BY <1>1, <1>2, <1>3 DEF FavoritesStep

\* A tap is recorded as raced, or begins the only toggle of its location.
LEMMA AgreementUser ==
    ASSUME AgreementInv, NEW i \in Toggles, NEW l \in LocationIds, ToggleFavorite(i, l)
    PROVE  AgreementInv'
<1>0. TypeOK'
  BY TypeUser DEF AgreementInv
<1>1. /\ UNCHANGED <<fetch, favFetch, favSnap, store>>
      /\ raced' = IF l \in InFlight \/ favFetch = "read" THEN raced \cup {l} ELSE raced
      /\ favoriteLocationIds' = IF l \in favoriteLocationIds THEN favoriteLocationIds \ {l}
                                                            ELSE favoriteLocationIds \cup {l}
      /\ op[i] = Unused
      /\ op \in [Toggles -> {Unused} \cup Ops]
  BY DEF ToggleFavorite, catalogVars, AgreementInv, TypeOK
<1>2. /\ op'[i].loc = l /\ op'[i].pc = "begin"
      /\ op'[i].kind = "add" <=> l \notin favoriteLocationIds
      /\ \A j \in Toggles \ {i} : op'[j] = op[j]
  BY <1>1 DEF ToggleFavorite
<1>3. ~Live(i) /\ Live(i)' /\ Pending(i)'
  BY <1>1, <1>2 DEF Live, Pending, Unused
<1>4. \A j \in Toggles \ {i} : (Live(j)' <=> Live(j)) /\ (Pending(j)' <=> Pending(j))
  BY <1>2 DEF Live, Pending
<1>5. \A j \in Toggles : Live(j) /\ op[j].loc = l => l \in raced'
  BY <1>1 DEF Live, InFlight
<1> USE DEF AgreementInv
<1>6. OverlapsRecorded'
  BY <1>1, <1>2, <1>3, <1>4, <1>5 DEF OverlapsRecorded
<1>7. LocalShowsIntent'
  BY <1>1, <1>2, <1>3, <1>4, <1>5 DEF LocalShowsIntent
<1>8. SnapshotCurrent'
  BY <1>1, <1>2, <1>3, <1>4 DEF SnapshotCurrent, InDoc
<1>9. LocalIsStored'
  <2> SUFFICES ASSUME NEW m \in LocationIds \ raced',
                      ~ \E j \in Toggles : Pending(j)' /\ op'[j].loc = m
               PROVE  /\ favFetch' \in {"new", "query", "read"} /\ m \in favoriteLocationIds'
                              => InDoc(store', m)
                      /\ favFetch' = "loaded" => (m \in favoriteLocationIds' <=> InDoc(store', m))
    BY DEF LocalIsStored, InDoc
  <2>1. m # l /\ m \notin raced
    BY <1>1, <1>2, <1>3
  <2>2. ~ \E j \in Toggles : Pending(j) /\ op[j].loc = m
    BY <1>2, <1>3, <1>4 DEF Pending, Live
  <2> QED BY <1>1, <2>1, <2>2 DEF LocalIsStored, InDoc
<1> QED BY <1>0, <1>1, <1>6, <1>7, <1>8, <1>9 DEF StoredOnce, FavoritesLast

\* A commit changes the stored list at its own location only, to what the
\* toggle asked for.
LEMMA CommitWrites ==
    ASSUME AgreementInv, NEW i \in Toggles, TransactionCommit(i)
    PROVE  /\ op[i].loc \in LocationIds
           /\ StoredOnce'
           /\ InDoc(store', op[i].loc) <=> op[i].kind = "add"
           /\ \A m : m # op[i].loc => (InDoc(store', m) <=> InDoc(store, m))
<1>1. op[i] \in Ops
  BY OpTyped DEF TransactionCommit, AgreementInv
<1>2. /\ op[i].snap = store
      /\ store' = IF op[i].kind = "add" THEN Added(store, op[i].loc) ELSE Removed(store, op[i].loc)
  BY DEF TransactionCommit, Conflict
<1>3. /\ op[i].loc \in LocationIds
      /\ store \in {NoDoc} \cup Seq(LocationIds)
      /\ store # NoDoc => NoDuplicates(store)
  BY <1>1 DEF AgreementInv, TypeOK, StoredOnce, Ops
<1>4. CASE op[i].kind = "add"
  <2>1. store' = Added(store, op[i].loc)
    BY <1>2, <1>4
  <2> QED BY <1>3, <1>4, <2>1, AddedList DEF StoredOnce
<1>5. CASE op[i].kind # "add"
  <2>1. store' = Removed(store, op[i].loc)
    BY <1>2, <1>5
  <2> QED BY <1>3, <1>5, <2>1, RemovedList DEF StoredOnce
<1> QED BY <1>4, <1>5

\* Every later step of toggleFavorite keeps local and stored favorites in agreement.
LEMMA AgreementToggle ==
    ASSUME AgreementInv, NEW i \in Toggles, ToggleStep(i)
    PROVE  AgreementInv'
<1>0. TypeOK'
  BY TypeToggle DEF AgreementInv
<1>1. op \in [Toggles -> {Unused} \cup Ops] /\ op[i] \in Ops
  BY OpTyped DEF ToggleStep, TransactionRead, TransactionCommit, TransactionConflict,
                 ToggleFails, ToggleReturns, AgreementInv, TypeOK
<1>2. UNCHANGED <<fetch, favFetch, favSnap, favoriteLocationIds>>
  BY DEF ToggleStep, TransactionRead, TransactionCommit, TransactionConflict,
         ToggleFails, ToggleReturns, catalogVars
<1>3. /\ op'[i].loc = op[i].loc /\ op'[i].kind = op[i].kind
      /\ \A j \in Toggles \ {i} : op'[j] = op[j]
  BY <1>1 DEF ToggleStep, TransactionRead, TransactionCommit, TransactionConflict,
         ToggleFails, ToggleReturns, Ops
<1>4. Live(i) /\ \A j \in Toggles : Live(j)' => Live(j)
  BY <1>1, <1>3 DEF ToggleStep, TransactionRead, TransactionCommit, TransactionConflict,
         ToggleFails, ToggleReturns, Live, Ops
<1>5. raced \subseteq raced'
  BY DEF ToggleStep, TransactionRead, TransactionCommit, TransactionConflict,
         ToggleFails, ToggleReturns
<1> USE DEF AgreementInv
<1>6. OverlapsRecorded' /\ LocalShowsIntent' /\ FavoritesLast'
  BY <1>2, <1>3, <1>4, <1>5 DEF OverlapsRecorded, LocalShowsIntent, FavoritesLast
<1>7. CASE TransactionRead(i) \/ TransactionConflict(i)
  <2>1. UNCHANGED <<store, raced>>
    BY <1>7 DEF TransactionRead, TransactionConflict
  <2>2. \A j \in Toggles : Pending(j)' <=> Pending(j)
    BY <1>1, <1>3, <1>7 DEF TransactionRead, TransactionConflict, Pending, Ops
  <2> QED BY <1>0, <1>2, <1>3, <1>4, <1>6, <2>1, <2>2
          DEF StoredOnce, SnapshotCurrent, LocalIsStored, InDoc
<1>8. CASE ToggleReturns(i)
  <2>1. UNCHANGED <<store, raced>>
    BY <1>8 DEF ToggleReturns
  <2>2. \A j \in Toggles : Pending(j)' <=> Pending(j)
    BY <1>1, <1>3, <1>8 DEF ToggleReturns, Pending, Ops
  <2> QED BY <1>0, <1>2, <1>3, <1>4, <1>6, <2>1, <2>2
          DEF StoredOnce, SnapshotCurrent, LocalIsStored, InDoc
<1>9. CASE ToggleFails(i)
  <2>1. UNCHANGED store /\ raced' = raced \cup {op[i].loc}
    BY <1>9 DEF ToggleFails
  <2>2. \A j \in Toggles \ {i} : Pending(j)' <=> Pending(j)
    BY <1>3 DEF Pending
  <2>3. LocalIsStored'
    BY <1>2, <1>3, <2>1, <2>2 DEF LocalIsStored, InDoc
  <2>4. SnapshotCurrent' /\ StoredOnce'
    BY <1>2, <1>3, <1>4, <2>1 DEF StoredOnce, SnapshotCurrent, InDoc
  <2> QED BY <1>0, <1>6, <2>3, <2>4
<1>10. CASE TransactionCommit(i)
  <2>1. UNCHANGED raced
    BY <1>10 DEF TransactionCommit
  <2>2. /\ StoredOnce'
        /\ InDoc(store', op[i].loc) <=> op[i].kind = "add"
        /\ \A m : m # op[i].loc => (InDoc(store', m) <=> InDoc(store, m))
    BY <1>10, CommitWrites
  <2>3. \A j \in Toggles \ {i} : Pending(j)' <=> Pending(j)
    BY <1>3 DEF Pending
  <2>4. SnapshotCurrent'
    BY <1>2, <1>3, <1>4, <2>1, <2>2 DEF SnapshotCurrent, InDoc
  <2>5. LocalIsStored'
    <3> SUFFICES ASSUME NEW m \in LocationIds \ raced,
                        ~ \E j \in Toggles : Pending(j)' /\ op'[j].loc = m
                 PROVE  /\ favFetch \in {"new", "query", "read"} /\ m \in favoriteLocationIds
                              => InDoc(store', m)
                        /\ favFetch = "loaded" => (m \in favoriteLocationIds <=> InDoc(store', m))
      BY <1>2, <2>1 DEF LocalIsStored, InDoc
    <3>1. CASE m = op[i].loc
      <4>1. op[i].kind = "add" <=> m \in favoriteLocationIds
        BY <1>4, <3>1 DEF LocalShowsIntent
      <4> QED BY <2>2, <3>1, <4>1
    <3>2. CASE m # op[i].loc
      <4>1. ~ \E j \in Toggles : Pending(j) /\ op[j].loc = m
        BY <1>3, <2>3, <3>2
      <4> QED BY <2>2, <3>2, <4>1 DEF LocalIsStored
    <3> QED BY <3>1, <3>2
  <2> QED BY <1>0, <1>6, <2>2, <2>4, <2>5
<1> QED BY <1>7, <1>8, <1>9, <1>10 DEF ToggleStep

\* The inductive invariant holds in every reachable state.
THEOREM AgreementInvariant == Spec => []AgreementInv
<1>1. Init => AgreementInv
  <2> SUFFICES ASSUME Init PROVE AgreementInv
    OBVIOUS
  <2>1. TypeOK
    BY LocationsAssumption DEF Init, TypeOK
  <2>2. StoredOnce
    BY LocationsAssumption DEF Init, StoredOnce
  <2>3. \A i \in Toggles : ~Live(i) /\ ~Pending(i)
    BY DEF Init, Live, Pending, Unused
  <2> QED BY <2>1, <2>2, <2>3 DEF Init, AgreementInv, FavoritesLast, OverlapsRecorded,
          LocalShowsIntent, SnapshotCurrent, LocalIsStored
<1>2. AgreementInv /\ [Next]_vars => AgreementInv'
  <2> SUFFICES ASSUME AgreementInv, [Next]_vars PROVE AgreementInv'
    OBVIOUS
  <2>0. UNCHANGED favVars /\ TypeOK' /\ FavoritesLast' => AgreementInv'
    BY DEF AgreementInv, favVars, StoredOnce, OverlapsRecorded, LocalShowsIntent,
           SnapshotCurrent, LocalIsStored, Live, Pending, InDoc
  <2>1. CASE OnInit
    <3>1. \A f \in Lists : fetch[f] = "new"
      BY <2>1 DEF OnInit
    <3>2. favFetch = "new"
      BY <3>1 DEF AgreementInv, FavoritesLast, Lists
    <3>3. TypeOK' /\ UNCHANGED favVars /\ favFetch' = favFetch
      BY <2>1 DEF OnInit, AgreementInv, TypeOK, favVars
    <3> QED BY <3>2, <3>3, <2>0 DEF FavoritesLast
  <2>2. CASE UNCHANGED vars
    <3>1. UNCHANGED favVars /\ TypeOK' /\ FavoritesLast'
      BY <2>2 DEF vars, favVars, TypeOK, FavoritesLast, AgreementInv
    <3> QED BY <3>1, <2>0
  <2> QED BY <2>1, <2>2, AgreementCatalog, AgreementFavorites, AgreementUser, AgreementToggle
          DEF Next, UserStep
<1> QED BY <1>1, <1>2, PTL DEF Spec

\* No interleaving of toggles stores a location twice.
THEOREM NeverStoredTwice == Spec => []StoredOnce
<1>1. AgreementInv => StoredOnce
  BY DEF AgreementInv
<1> QED BY <1>1, AgreementInvariant, PTL

\* After the load and with no toggle in flight, the local set and the stored
\* list agree on every location that was not part of a race or a failure.
THEOREM LocalAgreesWithStored == Spec => []AgreementUnlessRaced
<1>1. AgreementInv => AgreementUnlessRaced
  BY DEF AgreementInv, AgreementUnlessRaced, Settled, LocalIsStored, Pending
<1> QED BY <1>1, AgreementInvariant, PTL

\* No step changes the stored list at two locations.
THEOREM WritesOneLocation == Spec => OneLocationPerWrite
<1>1. AgreementInv /\ [Next]_vars
        => [store' # store =>
              \E i \in Toggles :
                 /\ op[i].pc = "read" /\ op'[i].pc = "committed"
                 /\ \A l \in LocationIds \ {op[i].loc} : InDoc(store, l) <=> InDoc(store', l)]_store
  <2> SUFFICES ASSUME AgreementInv, [Next]_vars, store' # store
               PROVE  \E i \in Toggles :
                         /\ op[i].pc = "read" /\ op'[i].pc = "committed"
                         /\ \A l \in LocationIds \ {op[i].loc} : InDoc(store, l) <=> InDoc(store', l)
    OBVIOUS
  <2>1. \A f \in Lists : CatalogStep(f) => store' = store
    BY CatalogFrame
  <2>2. PICK i \in Toggles : TransactionCommit(i)
    BY <2>1 DEF Next, vars, OnInit, favVars, FavoritesStep, FavoritesRead, FavoritesLoaded,
           FavoritesFailed, UserStep, ToggleFavorite, ToggleStep, TransactionRead,
           TransactionConflict, ToggleFails, ToggleReturns
  <2>3. op[i].pc = "read"
    BY <2>2 DEF TransactionCommit
  <2>4. op \in [Toggles -> {Unused} \cup Ops] /\ op[i] \in Ops
    BY <2>3, OpTyped DEF AgreementInv, TypeOK
  <2>5. op'[i].pc = "committed"
    BY <2>2, <2>4 DEF TransactionCommit, Ops
  <2> QED BY <2>2, <2>3, <2>5, CommitWrites
<1> QED BY <1>1, AgreementInvariant, PTL DEF Spec, OneLocationPerWrite

-----------------------------------------------------------------------------
(* The catalogue: what search offers is detailed.                          *)

\* While the details of a category list are being set, those of its
\* locations that are no longer pending have them.
DetailsKept ==
    \A f \in CategoryLists :
        /\ \A l \in shown[f] : CategoryOf[l] = f
        /\ fetch[f] = "details" => shown[f] \ pending[f] \subseteq detailed[f]

CatalogInv == TypeOK /\ DetailsKept /\ SearchableIsDetailed


\* A fetch that ends adds its list only when all of it is detailed.
LEMMA CatalogKept ==
    ASSUME CatalogInv, NEW f \in Lists, CatalogStep(f)
    PROVE  DetailsKept' /\ SearchableIsDetailed'
<1>0. TypeOK /\ f \in Lists /\ CategoryLists \subseteq Lists /\ MergedLists \subseteq CategoryLists
    BY DEF CatalogInv, Lists, CategoryLists, MergedLists
<1>a. /\ fetch \in [Lists -> {"new", "query", "details", "ended"}]
      /\ shown \in [Lists -> SUBSET LocationIds]
      /\ pending \in [Lists -> SUBSET LocationIds]
      /\ detailed \in [Lists -> SUBSET LocationIds]
      /\ allLocations \subseteq LocationIds
    BY <1>0 DEF TypeOK
<1>b. CategoryOf \in [LocationIds -> CategoryLists]
    BY LocationsAssumption
<1>c. /\ \A g \in CategoryLists : \A l \in shown[g] : CategoryOf[l] = g
      /\ \A g \in CategoryLists : fetch[g] = "details" => shown[g] \ pending[g] \subseteq detailed[g]
      /\ \A l \in allLocations : l \in detailed[CategoryOf[l]]
    BY DEF CatalogInv, DetailsKept, SearchableIsDetailed
<1>1. CASE QueryAnswered(f)
  <2>1. PICK S \in Answers(f) :
           /\ shown' = [shown EXCEPT ![f] = S]
           /\ pending' = [pending EXCEPT ![f] = S]
           /\ Continue(f, S, S)
      BY <1>1 DEF QueryAnswered
  <2>2. S \subseteq LocationIds /\ (f \in CategoryLists => \A l \in S : CategoryOf[l] = f)
      BY <2>1, LocationsAssumption DEF Answers, FeaturedAnswers, CategoryAnswer, CategoryLists
  <2>3. detailed' = detailed
      BY <1>1 DEF QueryAnswered
  <2>4. allLocations' = allLocations /\ \A g \in Lists : g # f => fetch'[g] = fetch[g]
      BY <1>a, <2>1 DEF Continue, EndFetch
  <2>5. DetailsKept'
    <3> SUFFICES ASSUME NEW g \in CategoryLists
                 PROVE  /\ \A l \in shown'[g] : CategoryOf[l] = g
                        /\ fetch'[g] = "details" => shown'[g] \ pending'[g] \subseteq detailed'[g]
        BY DEF DetailsKept
    <3>1. CASE g = f
      <4>1. shown'[g] = S /\ pending'[g] = S
          BY <1>a, <2>1, <3>1
      <4> QED
          BY <2>2, <3>1, <4>1
    <3>2. CASE g # f
      <4>1. shown'[g] = shown[g] /\ pending'[g] = pending[g] /\ fetch'[g] = fetch[g]
          BY <1>0, <1>a, <2>1, <2>4, <3>2
      <4> QED
          BY <1>c, <2>3, <4>1
    <3> QED
        BY <3>1, <3>2
  <2> QED
      BY <1>c, <2>3, <2>4, <2>5 DEF SearchableIsDetailed
<1>2. CASE QueryFailed(f)
  <2>1. /\ UNCHANGED <<shown, pending, detailed, allLocations>>
        /\ fetch' = [fetch EXCEPT ![f] = "ended"]
      BY <1>2 DEF QueryFailed, EndFetch
  <2>2. \A g \in Lists : fetch'[g] = "details" => fetch[g] = "details"
      BY <1>a, <2>1
  <2> QED
      BY <1>0, <1>c, <2>1, <2>2 DEF DetailsKept, SearchableIsDetailed
<1>3. ASSUME NEW l \in LocationIds, DetailsSet(f, l)
      PROVE  DetailsKept' /\ SearchableIsDetailed'
  <2>1. /\ fetch[f] = "details" /\ l \in pending[f] /\ shown' = shown
        /\ detailed' = [detailed EXCEPT ![f] = detailed[f] \cup {l}]
        /\ pending' = [pending EXCEPT ![f] = pending[f] \ {l}]
        /\ Continue(f, shown[f], pending[f] \ {l})
      BY <1>3 DEF DetailsSet
  <2>2. /\ detailed'[f] = detailed[f] \cup {l} /\ pending'[f] = pending[f] \ {l}
        /\ \A g \in Lists : g # f => detailed'[g] = detailed[g] /\ pending'[g] = pending[g]
        /\ \A g \in Lists : detailed[g] \subseteq detailed'[g]
      BY <1>a, <2>1
  <2>3. \A g \in Lists : g # f => fetch'[g] = fetch[g]
      BY <1>a, <2>1 DEF Continue, EndFetch
  <2>4. \/ allLocations' = allLocations
        \/ f \in MergedLists /\ allLocations' = allLocations \cup shown[f] /\ pending[f] \ {l} = {}
      BY <2>1 DEF Continue
  <2>5. DetailsKept'
    <3> SUFFICES ASSUME NEW g \in CategoryLists
                 PROVE  /\ \A m \in shown'[g] : CategoryOf[m] = g
                        /\ fetch'[g] = "details" => shown'[g] \ pending'[g] \subseteq detailed'[g]
        BY DEF DetailsKept
    <3>1. CASE g = f
        BY <1>c, <2>1, <2>2, <3>1
    <3>2. CASE g # f
        BY <1>0, <1>c, <2>1, <2>2, <2>3, <3>2
    <3> QED
        BY <3>1, <3>2
  <2>6. SearchableIsDetailed'
    <3> SUFFICES ASSUME NEW m \in allLocations'
                 PROVE  m \in detailed'[CategoryOf[m]]
        BY DEF SearchableIsDetailed
    <3>1. CASE m \in allLocations
      <4>1. CategoryOf[m] \in Lists
          BY <1>0, <1>a, <1>b, <3>1
      <4> QED
          BY <1>c, <2>2, <3>1, <4>1
    <3>2. CASE f \in MergedLists /\ m \in shown[f] /\ pending[f] \ {l} = {}
      <4>1. CategoryOf[m] = f
          BY <1>0, <1>c, <3>2
      <4>2. m \in detailed[f] \cup {l}
          BY <1>0, <1>c, <2>1, <3>2
      <4> QED
          BY <2>2, <4>1, <4>2
    <3> QED
        BY <2>4, <3>1, <3>2
  <2> QED
      BY <2>5, <2>6
<1>4. ASSUME NEW l \in LocationIds, DetailsFailed(f, l)
      PROVE  DetailsKept' /\ SearchableIsDetailed'
  <2>1. PICK rest : /\ f # "featuredLocations" => rest = {}
                    /\ pending' = [pending EXCEPT ![f] = rest]
                    /\ IF rest # {} THEN UNCHANGED fetch
                                    ELSE fetch' = [fetch EXCEPT ![f] = "ended"]
      BY <1>4 DEF DetailsFailed, EndFetch
  <2>2. UNCHANGED <<shown, detailed, allLocations>>
      BY <1>4 DEF DetailsFailed
  <2>3. \A g \in CategoryLists : fetch'[g] = "details" =>
            fetch[g] = "details" /\ pending'[g] = pending[g]
      BY <1>0, <1>a, <2>1 DEF CategoryLists
  <2> QED
      BY <1>c, <2>2, <2>3 DEF DetailsKept, SearchableIsDetailed
<1> QED
    BY <1>1, <1>2, <1>3, <1>4 DEF CatalogStep

\* Search and favorites never offer a location without its details, in
\* whatever order the fetches are answered and wherever they fail.
THEOREM SearchOffersDetailed == Spec => []SearchableIsDetailed
<1>1. Init => CatalogInv
  <2>1. Init => TypeOK
      BY LocationsAssumption DEF Init, TypeOK
  <2>2. Init => DetailsKept /\ SearchableIsDetailed
      BY DEF Init, DetailsKept, SearchableIsDetailed, Lists
  <2> QED
      BY <2>1, <2>2 DEF CatalogInv
<1>2. TypeOK' /\ CatalogInv /\ [Next]_vars => CatalogInv'
  <2> SUFFICES ASSUME TypeOK', CatalogInv, [Next]_vars PROVE DetailsKept' /\ SearchableIsDetailed'
      BY DEF CatalogInv
  <2>1. CASE OnInit
    <3>1. /\ UNCHANGED <<shown, pending, detailed, allLocations>>
          /\ \A g \in Lists : fetch'[g] = "query"
        BY <2>1 DEF OnInit
    <3> QED
        BY <3>1 DEF CatalogInv, DetailsKept, SearchableIsDetailed, Lists
  <2>2. ASSUME NEW f \in Lists, CatalogStep(f)
        PROVE  DetailsKept' /\ SearchableIsDetailed'
      BY <2>2, CatalogKept
  <2>3. UNCHANGED catalogVars => DetailsKept' /\ SearchableIsDetailed'
      BY DEF catalogVars, CatalogInv, DetailsKept, SearchableIsDetailed
  <2>4. FavoritesStep => UNCHANGED catalogVars
      BY DEF FavoritesStep, FavoritesRead, FavoritesLoaded, FavoritesFailed
  <2>5. UserStep => UNCHANGED catalogVars
      BY DEF UserStep, ToggleFavorite
  <2>6. \A i \in Toggles : ToggleStep(i) => UNCHANGED catalogVars
      BY DEF ToggleStep, TransactionRead, TransactionCommit, TransactionConflict,
             ToggleFails, ToggleReturns
  <2>7. UNCHANGED vars => UNCHANGED catalogVars
      BY DEF vars, catalogVars
  <2> QED
      BY <2>1, <2>2, <2>3, <2>4, <2>5, <2>6, <2>7 DEF Next
<1>3. CatalogInv => SearchableIsDetailed
    BY DEF CatalogInv
<1> QED
    BY <1>1, <1>2, <1>3, TypeCorrect, PTL DEF Spec

-----------------------------------------------------------------------------
(* The favorites list: fresh but for the toggles in flight.                *)

LiveAt(l) == \E i \in Toggles : Live(i) /\ op[i].loc = l
NoneFailed == \A i \in Toggles : op[i].pc # "failed"

\* An add that was committed has made a document, which stays.
AddsStored == \A i \in Toggles : op[i].pc \in {"committed", "returned"} /\ op[i].kind = "add" => store # NoDoc

\* Before the load, what is in the local set was put there by a tap.
LocalByTap ==
    favFetch \in {"new", "query"} => \A l \in favoriteLocationIds :
        \E i \in Toggles : op[i] \in Ops /\ op[i].loc = l /\ op[i].kind = "add"

\* Before the load, the list shows nothing that is not in the set.
ListBelowSet ==
    NoneFailed /\ favFetch \in {"new", "query"} =>
        \A l \in favoriteLocations : l \in favoriteLocationIds \/ LiveAt(l)

\* From then on, it is what the set selects, but for the toggles in flight.
ListIsSet ==
    NoneFailed /\ (favFetch = "loaded" \/ (favFetch = "read" /\ favSnap = NoDoc)) =>
        \A l \in LocationIds :
            LiveAt(l) \/ (l \in favoriteLocations <=> l \in allLocations /\ l \in favoriteLocationIds)

FreshInv == AgreementInv /\ AddsStored /\ LocalByTap /\ ListBelowSet /\ ListIsSet

\* One toggle moves on, with its location and kind: what holds of the others
\* does not change.
LEMMA ToggleMoves ==
    ASSUME AgreementInv, NEW i \in Toggles, ToggleStep(i)
    PROVE  /\ op[i] \in Ops /\ Live(i)
           /\ op'[i] \in Ops /\ op'[i].loc = op[i].loc /\ op'[i].kind = op[i].kind
           /\ \A j \in Toggles : j # i => op'[j] = op[j]
<1>1. op[i] \in Ops
    BY OpTyped DEF AgreementInv, ToggleStep, TransactionRead, TransactionCommit,
                   TransactionConflict, ToggleFails, ToggleReturns
<1>2. op \in [Toggles -> {Unused} \cup Ops]
    BY DEF AgreementInv, TypeOK
<1>3. TypeOK'
    BY TypeToggle DEF AgreementInv
<1>4. /\ op'[i].loc = op[i].loc /\ op'[i].kind = op[i].kind /\ op'[i].pc # "unused"
      /\ \A j \in Toggles : j # i => op'[j] = op[j]
  <2>1. CASE TransactionRead(i)
      BY <1>1, <1>2, <2>1 DEF TransactionRead, Ops
  <2>2. CASE TransactionCommit(i)
      BY <1>1, <1>2, <2>2 DEF TransactionCommit, Ops
  <2>3. CASE TransactionConflict(i)
      BY <1>1, <1>2, <2>3 DEF TransactionConflict, Ops
  <2>4. CASE ToggleFails(i)
      BY <1>1, <1>2, <2>4 DEF ToggleFails, Ops
  <2>5. CASE ToggleReturns(i)
      BY <1>1, <1>2, <2>5 DEF ToggleReturns, Ops
  <2> QED
      BY <2>1, <2>2, <2>3, <2>4, <2>5 DEF ToggleStep
<1>5. op'[i] \in Ops
    BY <1>3, <1>4 DEF TypeOK, Unused
<1>6. Live(i)
    BY DEF ToggleStep, TransactionRead, TransactionCommit, TransactionConflict,
           ToggleFails, ToggleReturns, Live
<1> QED
    BY <1>1, <1>4, <1>5, <1>6

\* A step of a toggle keeps the list fresh: it stays in flight, ends by
\* computing the list anew, or is recorded as failed.
LEMMA FreshToggle ==
    ASSUME FreshInv, NEW i \in Toggles, ToggleStep(i)
    PROVE  AddsStored' /\ LocalByTap' /\ ListBelowSet' /\ ListIsSet'
<1>0. AgreementInv
    BY DEF FreshInv
<1>1. /\ op[i] \in Ops /\ Live(i)
      /\ op'[i] \in Ops /\ op'[i].loc = op[i].loc /\ op'[i].kind = op[i].kind
      /\ \A j \in Toggles : j # i => op'[j] = op[j]
    BY <1>0, ToggleMoves
<1>2. UNCHANGED <<allLocations, favoriteLocationIds, favFetch, favSnap>>
    BY DEF ToggleStep, TransactionRead, TransactionCommit, TransactionConflict,
           ToggleFails, ToggleReturns, catalogVars
<1>3. store \in {NoDoc} \cup Seq(LocationIds) /\ op[i].snap \in {NoDoc} \cup Seq(LocationIds)
      /\ op[i].loc \in LocationIds
    BY <1>0, <1>1 DEF AgreementInv, TypeOK, Ops
<1>4. store # NoDoc => store' # NoDoc
  <2>1. CASE TransactionCommit(i)
    <3>1. /\ store' = IF op[i].kind = "add" THEN Added(op[i].snap, op[i].loc)
                                            ELSE Removed(op[i].snap, op[i].loc)
          /\ op[i].snap = store
        BY <2>1 DEF TransactionCommit, Conflict
    <3>2. /\ Added(store, op[i].loc) \in Seq(LocationIds)
          /\ store # NoDoc => Removed(store, op[i].loc) \in Seq(LocationIds)
        BY <1>3, ListTyped
    <3> QED
        BY <3>1, <3>2, LocationsAssumption
  <2>2. CASE ~TransactionCommit(i)
      BY <2>2 DEF ToggleStep, TransactionRead, TransactionConflict, ToggleFails, ToggleReturns
  <2> QED
      BY <2>1, <2>2
<1>5. AddsStored'
  <2>1. ASSUME op'[i].pc \in {"committed", "returned"}, op'[i].kind = "add"
        PROVE  store' # NoDoc
    <3>1. CASE TransactionCommit(i)
      <4>1. store' = Added(op[i].snap, op[i].loc)
          BY <1>1, <2>1, <3>1 DEF TransactionCommit
      <4>2. Added(op[i].snap, op[i].loc) \in Seq(LocationIds)
          BY <1>3, ListTyped
      <4> QED
          BY <4>1, <4>2, LocationsAssumption
    <3>2. CASE ToggleReturns(i)
      <4>1. store # NoDoc
          BY <1>1, <2>1, <3>2 DEF ToggleReturns, FreshInv, AddsStored
      <4> QED
          BY <1>4, <4>1
    <3>3. CASE TransactionRead(i) \/ TransactionConflict(i) \/ ToggleFails(i)
      <4>1. op \in [Toggles -> {Unused} \cup Ops]
          BY <1>0 DEF AgreementInv, TypeOK
      <4>2. op'[i].pc \in {"begin", "read", "failed"}
          BY <1>1, <3>3, <4>1 DEF TransactionRead, TransactionConflict, ToggleFails, Ops
      <4> QED
          BY <2>1, <4>2
    <3> QED
        BY <3>1, <3>2, <3>3 DEF ToggleStep
  <2>2. ASSUME NEW j \in Toggles, j # i, op[j].pc \in {"committed", "returned"}, op[j].kind = "add"
        PROVE  store' # NoDoc
      BY <1>4, <2>2 DEF FreshInv, AddsStored
  <2> QED
      BY <1>1, <2>1, <2>2 DEF AddsStored
<1>6. LocalByTap'
  <2> SUFFICES ASSUME favFetch \in {"new", "query"}, NEW l \in favoriteLocationIds
               PROVE  \E j \in Toggles : op'[j] \in Ops /\ op'[j].loc = l /\ op'[j].kind = "add"
      BY <1>2 DEF LocalByTap
  <2>1. PICK j \in Toggles : op[j] \in Ops /\ op[j].loc = l /\ op[j].kind = "add"
      BY DEF FreshInv, LocalByTap
  <2> QED
      BY <1>1, <2>1
<1>7. NoneFailed' => NoneFailed
  <2>1. op[i].pc # "failed"
      BY <1>1 DEF Live
  <2> QED
      BY <1>1, <2>1 DEF NoneFailed
<1>8. CASE ToggleReturns(i)
  <2>1. favoriteLocations' = {l \in allLocations : l \in favoriteLocationIds}
      BY <1>8 DEF ToggleReturns, Listed
  <2> QED
      BY <1>2, <1>5, <1>6, <2>1 DEF ListBelowSet, ListIsSet
<1>9. CASE ToggleFails(i)
  <2>1. op \in [Toggles -> {Unused} \cup Ops]
      BY <1>0 DEF AgreementInv, TypeOK
  <2>2. op'[i].pc = "failed"
      BY <1>1, <1>9, <2>1 DEF ToggleFails, Ops
  <2>3. ~NoneFailed'
      BY <2>2 DEF NoneFailed
  <2> QED
      BY <1>5, <1>6, <2>3 DEF ListBelowSet, ListIsSet
<1>10. CASE TransactionRead(i) \/ TransactionCommit(i) \/ TransactionConflict(i)
  <2>1. op \in [Toggles -> {Unused} \cup Ops]
      BY <1>0 DEF AgreementInv, TypeOK
  <2>2. op'[i].pc \in {"begin", "read", "committed"}
      BY <1>1, <1>10, <2>1 DEF TransactionRead, TransactionCommit, TransactionConflict, Ops
  <2>3. favoriteLocations' = favoriteLocations
      BY <1>10 DEF TransactionRead, TransactionCommit, TransactionConflict
  <2>4. \A l : LiveAt(l) => LiveAt(l)'
      BY <1>1, <2>2 DEF LiveAt, Live
  <2>5. ListBelowSet'
      BY <1>2, <1>7, <2>3, <2>4 DEF FreshInv, ListBelowSet
  <2>6. ListIsSet'
      BY <1>2, <1>7, <2>3, <2>4 DEF FreshInv, ListIsSet
  <2> QED
      BY <1>5, <1>6, <2>5, <2>6
<1> QED
    BY <1>8, <1>9, <1>10 DEF ToggleStep

\* A tap puts its location in flight.
LEMMA FreshUser ==
    ASSUME FreshInv, NEW i \in Toggles, NEW l \in LocationIds, ToggleFavorite(i, l)
    PROVE  AddsStored' /\ LocalByTap' /\ ListBelowSet' /\ ListIsSet'
<1>0. TypeOK /\ TypeOK' /\ op[i] = Unused
    BY TypeUser DEF FreshInv, AgreementInv, ToggleFavorite
<1>1. PICK kind : /\ kind = IF l \in favoriteLocationIds THEN "remove" ELSE "add"
                  /\ favoriteLocationIds' = IF l \in favoriteLocationIds THEN favoriteLocationIds \ {l}
                                                                         ELSE favoriteLocationIds \cup {l}
                  /\ op' = [op EXCEPT ![i] = [loc |-> l, kind |-> kind, pc |-> "begin",
                                              snap |-> NoDoc, tries |-> 0]]
    BY DEF ToggleFavorite
<1>2. UNCHANGED <<allLocations, favoriteLocations, favFetch, favSnap, store>>
    BY DEF ToggleFavorite, catalogVars
<1>3. /\ op'[i] = [loc |-> l, kind |-> kind, pc |-> "begin", snap |-> NoDoc, tries |-> 0]
      /\ \A j \in Toggles : j # i => op'[j] = op[j]
    BY <1>0, <1>1 DEF TypeOK
<1>4. /\ op'[i].loc = l /\ op'[i].kind = kind /\ op'[i].pc = "begin"
      /\ op'[i] \in Ops /\ op[i].pc = "unused" /\ op[i] \notin Ops
    BY <1>0, <1>3 DEF Unused, TypeOK, Ops
<1>5. LiveAt(l)' /\ \A m : LiveAt(m) => LiveAt(m)'
    BY <1>3, <1>4 DEF LiveAt, Live
<1>6. NoneFailed' => NoneFailed
    BY <1>3, <1>4 DEF NoneFailed
<1>7. AddsStored'
    BY <1>2, <1>3, <1>4 DEF FreshInv, AddsStored
<1>8. LocalByTap'
  <2> SUFFICES ASSUME favFetch \in {"new", "query"}, NEW m \in favoriteLocationIds'
               PROVE  \E j \in Toggles : op'[j] \in Ops /\ op'[j].loc = m /\ op'[j].kind = "add"
      BY <1>2 DEF LocalByTap
  <2>1. CASE m = l
    <3>1. kind = "add"
        BY <1>1, <2>1
    <3> QED
        BY <1>4, <2>1, <3>1
  <2>2. CASE m # l
    <3>1. m \in favoriteLocationIds
        BY <1>1, <2>2
    <3>2. PICK j \in Toggles : op[j] \in Ops /\ op[j].loc = m /\ op[j].kind = "add"
        BY <3>1 DEF FreshInv, LocalByTap
    <3> QED
        BY <1>3, <1>4, <3>2
  <2> QED
      BY <2>1, <2>2
<1>9. \A m : m # l => (m \in favoriteLocationIds' <=> m \in favoriteLocationIds)
    BY <1>1
<1>10. ListBelowSet'
    BY <1>2, <1>5, <1>6, <1>9 DEF FreshInv, ListBelowSet
<1>11. ListIsSet'
    BY <1>2, <1>5, <1>6, <1>9 DEF FreshInv, ListIsSet
<1> QED
    BY <1>7, <1>8, <1>10, <1>11

\* The load: with a document the list is computed anew; without one no add
\* was committed, so everything in the set is still in flight.
LEMMA FreshFavorites ==
    ASSUME FreshInv, FavoritesStep
    PROVE  AddsStored' /\ LocalByTap' /\ ListBelowSet' /\ ListIsSet'
<1>0. UNCHANGED <<allLocations, store, op>> /\ favFetch' \notin {"new", "query"}
    BY DEF FavoritesStep, FavoritesRead, FavoritesLoaded, FavoritesFailed, catalogVars
<1>1. AddsStored' /\ LocalByTap' /\ ListBelowSet'
    BY <1>0 DEF FreshInv, AddsStored, LocalByTap, ListBelowSet
<1>2. (NoneFailed' <=> NoneFailed) /\ \A l : LiveAt(l)' <=> LiveAt(l)
    BY <1>0 DEF NoneFailed, LiveAt, Live
<1>3. CASE FavoritesRead
  <2>1. /\ favFetch = "query" /\ favFetch' = "read" /\ favSnap' = store
        /\ UNCHANGED <<favoriteLocationIds, favoriteLocations>>
      BY <1>3 DEF FavoritesRead
  <2> SUFFICES ASSUME NoneFailed, store = NoDoc, NEW l \in LocationIds, ~LiveAt(l)
               PROVE  l \notin favoriteLocations /\ l \notin favoriteLocationIds
      BY <1>0, <1>1, <1>2, <2>1 DEF ListIsSet
  <2>2. l \notin favoriteLocationIds
    <3> SUFFICES ASSUME l \in favoriteLocationIds PROVE FALSE
        OBVIOUS
    <3>1. PICK j \in Toggles : op[j] \in Ops /\ op[j].loc = l /\ op[j].kind = "add"
        BY <2>1 DEF FreshInv, LocalByTap
    <3>2. op[j].pc \notin {"committed", "returned"}
        BY <3>1 DEF FreshInv, AddsStored
    <3>3. op[j].pc # "failed"
        BY DEF NoneFailed
    <3>4. Live(j)
        BY <3>1, <3>2, <3>3 DEF Ops, Live
    <3> QED
        BY <3>1, <3>4 DEF LiveAt
  <2>3. l \notin favoriteLocations
      BY <2>1, <2>2 DEF FreshInv, ListBelowSet
  <2> QED
      BY <2>2, <2>3
<1>4. CASE FavoritesLoaded
  <2>1. CASE favSnap = NoDoc
    <3>1. favFetch = "read" /\ UNCHANGED <<favoriteLocationIds, favoriteLocations>>
        BY <1>4, <2>1 DEF FavoritesLoaded
    <3>2. NoneFailed => \A l \in LocationIds :
             LiveAt(l) \/ (l \in favoriteLocations <=> l \in allLocations /\ l \in favoriteLocationIds)
        BY <2>1, <3>1 DEF FreshInv, ListIsSet
    <3>3. ListIsSet'
        BY <1>0, <1>2, <3>1, <3>2 DEF ListIsSet
    <3> QED
        BY <1>1, <3>3
  <2>2. CASE favSnap # NoDoc
    <3>1. /\ favoriteLocationIds' = Range(favSnap)
          /\ favoriteLocations' = {l \in allLocations : l \in Range(favSnap)}
        BY <1>4, <2>2 DEF FavoritesLoaded, Listed
    <3>2. ListIsSet'
        BY <1>0, <3>1 DEF ListIsSet
    <3> QED
        BY <1>1, <3>2
  <2> QED
      BY <2>1, <2>2
<1>5. CASE FavoritesFailed
  <2>1. favFetch' = "failed"
      BY <1>5 DEF FavoritesFailed
  <2> QED
      BY <1>1, <2>1 DEF ListIsSet
<1> QED
    BY <1>3, <1>4, <1>5 DEF FavoritesStep

\* The fetches of the catalogue come before the load and leave the set alone.
LEMMA FreshCatalog ==
    ASSUME FreshInv, NEW f \in Lists, CatalogStep(f)
    PROVE  AddsStored' /\ LocalByTap' /\ ListBelowSet' /\ ListIsSet'
<1>1. /\ UNCHANGED <<favoriteLocationIds, favSnap, store, op>>
      /\ favFetch = "new" /\ favFetch' \in {"new", "query"}
    BY CatalogFrame DEF FreshInv
<1>2. favoriteLocations' = favoriteLocations
    BY DEF CatalogStep, QueryAnswered, QueryFailed, DetailsSet, DetailsFailed, Continue, EndFetch, favVars
<1>3. (NoneFailed' <=> NoneFailed) /\ \A l : LiveAt(l)' <=> LiveAt(l)
    BY <1>1 DEF NoneFailed, LiveAt, Live
<1>4. AddsStored' /\ LocalByTap'
    BY <1>1 DEF FreshInv, AddsStored, LocalByTap
<1>5. ListBelowSet'
    BY <1>1, <1>2, <1>3 DEF FreshInv, ListBelowSet
<1>6. ListIsSet'
    BY <1>1 DEF ListIsSet
<1> QED
    BY <1>4, <1>5, <1>6

\* With every call over and none failed, the favorites list is what the set
\* selects, whenever the toggles and the load came and whatever was stored.
THEOREM ListIsFresh == Spec => []FavoritesListFresh
<1>1. Init => AddsStored /\ LocalByTap /\ ListBelowSet /\ ListIsSet
    BY DEF Init, AddsStored, LocalByTap, ListBelowSet, ListIsSet, Unused
<1>2. AgreementInv' /\ FreshInv /\ [Next]_vars => FreshInv'
  <2> SUFFICES ASSUME FreshInv, [Next]_vars
               PROVE  AddsStored' /\ LocalByTap' /\ ListBelowSet' /\ ListIsSet'
      BY DEF FreshInv
  <2>1. UNCHANGED <<allLocations, favoriteLocationIds, favoriteLocations, favFetch, favSnap, store, op>>
          => AddsStored' /\ LocalByTap' /\ ListBelowSet' /\ ListIsSet'
    <3> SUFFICES ASSUME UNCHANGED <<allLocations, favoriteLocationIds, favoriteLocations, favFetch,
                                    favSnap, store, op>>
                 PROVE  AddsStored' /\ LocalByTap' /\ ListBelowSet' /\ ListIsSet'
        OBVIOUS
    <3>1. (NoneFailed' <=> NoneFailed) /\ \A l : LiveAt(l)' <=> LiveAt(l)
        BY DEF NoneFailed, LiveAt, Live
    <3> QED
        BY <3>1 DEF FreshInv, AddsStored, LocalByTap, ListBelowSet, ListIsSet
  <2>2. CASE OnInit
      BY <2>1, <2>2 DEF OnInit, favVars
  <2>3. CASE UNCHANGED vars
      BY <2>1, <2>3 DEF vars
  <2> QED
      BY <2>2, <2>3, FreshCatalog, FreshFavorites, FreshUser, FreshToggle DEF Next, UserStep
<1>3. FreshInv => FavoritesListFresh
  <2> SUFFICES ASSUME FreshInv, Settled, favFetch = "loaded", \A i \in Toggles : op[i].pc # "failed"
               PROVE  favoriteLocations = allLocations \cap favoriteLocationIds
      BY DEF FavoritesListFresh
  <2>1. NoneFailed /\ \A l : ~LiveAt(l)
      BY DEF NoneFailed, LiveAt, Live, Settled
  <2>2. favoriteLocations \subseteq LocationIds /\ allLocations \subseteq LocationIds
      BY DEF FreshInv, AgreementInv, TypeOK
  <2> QED
      BY <2>1, <2>2 DEF FreshInv, ListIsSet
<1>4. Spec => []AgreementInv
    BY AgreementInvariant
<1>5. AgreementInv /\ AddsStored /\ LocalByTap /\ ListBelowSet /\ ListIsSet => FreshInv
    BY DEF FreshInv
<1> QED
    BY <1>1, <1>2, <1>3, <1>4, <1>5, PTL DEF Spec
=============================================================================
