------------------------- MODULE LocationsRefinement -------------------------
(***************************************************************************)
(* Locations implements Favorites, for any locations, any number of taps   *)
(* and of attempts: a step of a transaction maps to the one instant at     *)
(* which its request takes effect, or to a stutter.  The step lemmas need  *)
(* AgreementInv for two things: that what is stored has no duplicates (or  *)
(* removing the first occurrence would not remove the location), and that  *)
(* the favorites are not asked for before the lists have been fetched.     *)
(***************************************************************************)
EXTENDS LocationsProofs

\* The list as a set.
LEMMA StoredSetFacts ==
    ASSUME NEW s \in {NoDoc} \cup Seq(LocationIds)
    PROVE  /\ StoredSet(s) \subseteq LocationIds
           /\ \A l : l \in StoredSet(s) <=> InDoc(s, l)
BY DEF StoredSet, InDoc, Range

\* A toggle is unused, or a record of Ops, which is not.
LEMMA OpKinds ==
    ASSUME TypeOK, NEW i \in Toggles
    PROVE  \/ op[i] = Unused /\ op[i].pc = "unused"
           \/ op[i] \in Ops /\ op[i] # Unused /\ op[i].pc # "unused"
BY DEF TypeOK, Unused, Ops

\* What a step of toggle i does to the requests when it keeps location and
\* kind.
LEMMA RequestStep ==
    ASSUME TypeOK, NEW i \in Toggles, op[i] \in Ops, NEW r \in Ops,
           op' = [op EXCEPT ![i] = r], r.loc = op[i].loc, r.kind = op[i].kind
    PROVE  /\ AskedRequests' = AskedRequests
           /\ PendingRequests' = IF r.pc \in {"begin", "read"} THEN PendingRequests \cup {i}
                                                               ELSE PendingRequests \ {i}
           /\ AppliedRequests' = IF r.pc = "committed" THEN AppliedRequests \cup {i}
                                                       ELSE AppliedRequests \ {i}
<1>1. op'[i] = r /\ \A j \in Toggles : j # i => op'[j] = op[j]
    BY DEF TypeOK
<1>2. r # Unused /\ op[i] # Unused
    BY DEF Unused, Ops
<1>3. AskedRequests' = AskedRequests
  <2>1. \A j \in Toggles :
           (IF op'[j] = Unused THEN Unused ELSE [loc |-> op'[j].loc, kind |-> op'[j].kind])
             = (IF op[j] = Unused THEN Unused ELSE [loc |-> op[j].loc, kind |-> op[j].kind])
      BY <1>1, <1>2
  <2> QED
      BY <2>1 DEF AskedRequests
<1>4. PendingRequests' = IF r.pc \in {"begin", "read"} THEN PendingRequests \cup {i}
                                                       ELSE PendingRequests \ {i}
    BY <1>1 DEF PendingRequests
<1>5. AppliedRequests' = IF r.pc = "committed" THEN AppliedRequests \cup {i}
                                               ELSE AppliedRequests \ {i}
    BY <1>1 DEF AppliedRequests
<1> QED
    BY <1>3, <1>4, <1>5

\* What request i asks for.
LEMMA RequestOfOp ==
    ASSUME TypeOK, NEW i \in Toggles
    PROVE  /\ op[i] = Unused => AskedRequests[i] = Unused
           /\ op[i] \in Ops => AskedRequests[i].loc = op[i].loc /\ AskedRequests[i].kind = op[i].kind
           /\ i \in PendingRequests <=> op[i].pc \in {"begin", "read"}
           /\ i \in AppliedRequests <=> op[i].pc = "committed"
<1>1. op[i] \in Ops => op[i] # Unused
    BY DEF Unused, Ops
<1>2. op[i] \in Ops => AskedRequests[i] = [loc |-> op[i].loc, kind |-> op[i].kind]
    BY <1>1 DEF AskedRequests
<1>3. op[i] = Unused => AskedRequests[i] = Unused
    BY DEF AskedRequests
<1> QED
    BY <1>2, <1>3 DEF PendingRequests, AppliedRequests

\* The first load, step by step.
LEMMA RefineFavorites ==
    ASSUME AgreementInv, FavoritesStep
    PROVE  Fav!Next
<1>0. favSnap \in {NoDoc} \cup Seq(LocationIds)
    BY DEF AgreementInv, TypeOK
<1>1. StoredSet(NoDoc) = {}
    BY DEF StoredSet
<1>2. op' = op => AskedRequests' = AskedRequests /\ PendingRequests' = PendingRequests
                    /\ AppliedRequests' = AppliedRequests
    BY DEF AskedRequests, PendingRequests, AppliedRequests
<1>3. CASE FavoritesRead
  <2>1. Fav!LoadReads
      BY <1>2, <1>3 DEF FavoritesRead, Fav!LoadReads, LoadOf
  <2> QED
      BY <2>1 DEF Fav!Next
<1>4. CASE FavoritesLoaded
  <2>1. favoriteLocationIds' = StoredSet(favSnap)
          \/ (StoredSet(favSnap) = {} /\ favoriteLocationIds' = favoriteLocationIds)
      BY <1>1, <1>4 DEF FavoritesLoaded, StoredSet
  <2>2. Fav!LoadAnswers
      BY <1>1, <1>2, <1>4, <2>1 DEF FavoritesLoaded, Fav!LoadAnswers, LoadOf
  <2> QED
      BY <2>2 DEF Fav!Next
<1>5. CASE FavoritesFailed
  <2>1. Fav!LoadFails
      BY <1>1, <1>2, <1>5 DEF FavoritesFailed, Fav!LoadFails, LoadOf
  <2> QED
      BY <2>1 DEF Fav!Next
<1> QED
    BY <1>3, <1>4, <1>5 DEF FavoritesStep

\* A tap is a tap.
LEMMA RefineUser ==
    ASSUME AgreementInv, NEW i \in Toggles, NEW l \in LocationIds, ToggleFavorite(i, l)
    PROVE  Fav!Next
<1>0. TypeOK /\ op[i] = Unused
    BY DEF AgreementInv, ToggleFavorite
<1>1. PICK kind : /\ kind = IF l \in favoriteLocationIds THEN "remove" ELSE "add"
                  /\ favoriteLocationIds' = IF l \in favoriteLocationIds THEN favoriteLocationIds \ {l}
                                                                         ELSE favoriteLocationIds \cup {l}
                  /\ op' = [op EXCEPT ![i] = [loc |-> l, kind |-> kind, pc |-> "begin",
                                              snap |-> NoDoc, tries |-> 0]]
    BY DEF ToggleFavorite
<1>2. UNCHANGED <<store, favFetch, favSnap>>
    BY DEF ToggleFavorite
<1>3. /\ op'[i] = [loc |-> l, kind |-> kind, pc |-> "begin", snap |-> NoDoc, tries |-> 0]
      /\ \A j \in Toggles : j # i => op'[j] = op[j]
    BY <1>0, <1>1 DEF TypeOK
<1>4. op'[i] # Unused /\ op'[i].loc = l /\ op'[i].kind = kind /\ op'[i].pc = "begin"
    BY <1>3 DEF Unused
<1>5. AskedRequests' = [AskedRequests EXCEPT ![i] = [loc |-> l, kind |-> kind]]
    BY <1>3, <1>4 DEF AskedRequests
<1>6. PendingRequests' = PendingRequests \cup {i}
    BY <1>3, <1>4 DEF PendingRequests
<1>7. AppliedRequests' = AppliedRequests
  <2>1. op[i].pc # "committed"
      BY <1>0 DEF Unused
  <2> QED
      BY <1>3, <1>4, <2>1 DEF AppliedRequests
<1>8. AskedRequests[i] = Unused
    BY <1>0, RequestOfOp
<1>9. Fav!Tap(i, l)
    BY <1>1, <1>2, <1>5, <1>6, <1>7, <1>8 DEF Fav!Tap
<1> QED
    BY <1>9 DEF Fav!Next

\* A commit is the instant at which the request takes effect; the other steps
\* of a transaction are stutters, and both ends are the end.
LEMMA RefineToggle ==
    ASSUME AgreementInv, NEW i \in Toggles, ToggleStep(i)
    PROVE  Fav!Next \/ UNCHANGED Fav!vars
<1>0. TypeOK
    BY DEF AgreementInv
<1>1. op[i] \in Ops
    BY OpTyped DEF AgreementInv, ToggleStep, TransactionRead, TransactionCommit,
                   TransactionConflict, ToggleFails, ToggleReturns
<1>2. op \in [Toggles -> {Unused} \cup Ops] /\ store \in {NoDoc} \cup Seq(LocationIds)
    BY <1>0 DEF TypeOK
<1>3. UNCHANGED <<favoriteLocationIds, favFetch, favSnap>>
    BY DEF ToggleStep, TransactionRead, TransactionCommit, TransactionConflict,
           ToggleFails, ToggleReturns
<1>4. ASSUME TransactionRead(i) \/ TransactionConflict(i)
      PROVE  UNCHANGED Fav!vars
  <2>1. PICK r \in Ops : /\ op' = [op EXCEPT ![i] = r] /\ r.loc = op[i].loc /\ r.kind = op[i].kind
                         /\ r.pc \in {"begin", "read"}
    <3>1. CASE TransactionRead(i)
      <4>1. [op[i] EXCEPT !.pc = "read", !.snap = store] \in Ops
          BY <1>1, <1>2 DEF Ops
      <4>2. op' = [op EXCEPT ![i] = [op[i] EXCEPT !.pc = "read", !.snap = store]]
          BY <1>2, <3>1 DEF TransactionRead
      <4> QED
          BY <1>1, <4>1, <4>2 DEF Ops
    <3>2. CASE TransactionConflict(i)
      <4>1. op[i].tries + 1 \in 0..(MaxAttempts - 1)
          BY <1>1, <3>2, LocationsAssumption DEF Ops, TransactionConflict, MayRetry
      <4>2. [op[i] EXCEPT !.pc = "begin", !.snap = NoDoc, !.tries = op[i].tries + 1] \in Ops
          BY <1>1, <4>1 DEF Ops
      <4>3. op' = [op EXCEPT ![i] = [op[i] EXCEPT !.pc = "begin", !.snap = NoDoc, !.tries = op[i].tries + 1]]
          BY <1>2, <3>2 DEF TransactionConflict
      <4> QED
          BY <1>1, <4>2, <4>3 DEF Ops
    <3> QED
        BY <1>4, <3>1, <3>2
  <2>2. op[i].pc \in {"begin", "read"} /\ store' = store
      BY <1>4 DEF TransactionRead, TransactionConflict
  <2>3. i \in PendingRequests /\ i \notin AppliedRequests
      BY <1>0, <2>2, RequestOfOp
  <2>4. /\ AskedRequests' = AskedRequests
        /\ PendingRequests' = PendingRequests \cup {i}
        /\ AppliedRequests' = AppliedRequests \ {i}
      BY <1>0, <1>1, <2>1, RequestStep
  <2> QED
      BY <1>3, <2>2, <2>3, <2>4 DEF Fav!vars
<1>5. ASSUME TransactionCommit(i)
      PROVE  Fav!Apply(i)
  <2>1. PICK r \in Ops : /\ op' = [op EXCEPT ![i] = r] /\ r.loc = op[i].loc /\ r.kind = op[i].kind
                         /\ r.pc = "committed"
    <3>1. [op[i] EXCEPT !.pc = "committed", !.snap = NoDoc] \in Ops
        BY <1>1 DEF Ops
    <3>2. op' = [op EXCEPT ![i] = [op[i] EXCEPT !.pc = "committed", !.snap = NoDoc]]
        BY <1>2, <1>5 DEF TransactionCommit
    <3> QED
        BY <1>1, <3>1, <3>2 DEF Ops
  <2>2. i \in PendingRequests /\ AskedRequests[i].loc = op[i].loc /\ AskedRequests[i].kind = op[i].kind
      BY <1>0, <1>1, <1>5, RequestOfOp DEF TransactionCommit
  <2>3. /\ AskedRequests' = AskedRequests
        /\ PendingRequests' = PendingRequests \ {i}
        /\ AppliedRequests' = AppliedRequests \cup {i}
      BY <1>0, <1>1, <2>1, RequestStep
  <2>4. StoredSet(store)' = IF op[i].kind = "add" THEN StoredSet(store) \cup {op[i].loc}
                                                  ELSE StoredSet(store) \ {op[i].loc}
    <3>1. store' \in {NoDoc} \cup Seq(LocationIds)
        BY TypeToggle DEF AgreementInv, TypeOK
    <3>2. /\ \A l : l \in StoredSet(store) <=> InDoc(store, l)
          /\ \A l : l \in StoredSet(store') <=> InDoc(store', l)
        BY <1>2, <3>1, StoredSetFacts
    <3>3. /\ InDoc(store', op[i].loc) <=> op[i].kind = "add"
          /\ \A m : m # op[i].loc => (InDoc(store', m) <=> InDoc(store, m))
        BY <1>5, CommitWrites
    <3>4. \A l : l \in StoredSet(store') <=>
                 l \in IF op[i].kind = "add" THEN StoredSet(store) \cup {op[i].loc}
                                             ELSE StoredSet(store) \ {op[i].loc}
        BY <3>2, <3>3
    <3> QED
        BY <3>4
  <2> QED
      BY <1>3, <2>2, <2>3, <2>4 DEF Fav!Apply
<1>6. ASSUME ToggleFails(i) \/ ToggleReturns(i)
      PROVE  Fav!Finish(i)
  <2>1. PICK r \in Ops : /\ op' = [op EXCEPT ![i] = r] /\ r.loc = op[i].loc /\ r.kind = op[i].kind
                         /\ r.pc \in {"failed", "returned"}
    <3>1. CASE ToggleFails(i)
      <4>1. [op[i] EXCEPT !.pc = "failed", !.snap = NoDoc] \in Ops
          BY <1>1 DEF Ops
      <4>2. op' = [op EXCEPT ![i] = [op[i] EXCEPT !.pc = "failed", !.snap = NoDoc]]
          BY <1>2, <3>1 DEF ToggleFails
      <4> QED
          BY <1>1, <4>1, <4>2 DEF Ops
    <3>2. CASE ToggleReturns(i)
      <4>1. [op[i] EXCEPT !.pc = "returned"] \in Ops
          BY <1>1 DEF Ops
      <4>2. op' = [op EXCEPT ![i] = [op[i] EXCEPT !.pc = "returned"]]
          BY <1>2, <3>2 DEF ToggleReturns
      <4> QED
          BY <1>1, <4>1, <4>2 DEF Ops
    <3> QED
        BY <1>6, <3>1, <3>2
  <2>2. op[i].pc \in {"begin", "read", "committed"} /\ store' = store
      BY <1>6 DEF ToggleFails, ToggleReturns
  <2>3. i \in PendingRequests \cup AppliedRequests
      BY <1>0, <2>2, RequestOfOp
  <2>4. /\ AskedRequests' = AskedRequests
        /\ PendingRequests' = PendingRequests \ {i}
        /\ AppliedRequests' = AppliedRequests \ {i}
      BY <1>0, <1>1, <2>1, RequestStep
  <2> QED
      BY <1>3, <2>2, <2>3, <2>4 DEF Fav!Finish
<1> QED
    BY <1>4, <1>5, <1>6 DEF ToggleStep, Fav!Next

-----------------------------------------------------------------------------
\* The controller, its document and its transactions implement the set of
\* favorites: a toggle, however many attempts and conflicts it takes, changes
\* the stored set at one instant and at its own location, once or never; the
\* first load shows the stored set of one instant.
THEOREM ImplementsFavorites == Spec => FavoritesImplemented
<1>1. Init => Fav!Init
  <2> SUFFICES ASSUME Init PROVE Fav!Init
      OBVIOUS
  <2>1. store \in {NoDoc} \cup Seq(LocationIds)
      BY LocationsAssumption DEF Init
  <2>2. StoredSet(store) \subseteq LocationIds
      BY <2>1, StoredSetFacts
  <2>3. \A i \in Toggles : op[i] = Unused /\ op[i].pc = "unused"
      BY DEF Init, Unused
  <2>4. AskedRequests = [i \in Toggles |-> Unused] /\ PendingRequests = {} /\ AppliedRequests = {}
      BY <2>3 DEF AskedRequests, PendingRequests, AppliedRequests
  <2> QED
      BY <2>2, <2>4 DEF Init, Fav!Init, LoadOf, StoredSet
<1>2. AgreementInv /\ [Next]_vars => [Fav!Next]_Fav!vars
  <2> SUFFICES ASSUME AgreementInv, [Next]_vars PROVE Fav!Next \/ UNCHANGED Fav!vars
      OBVIOUS
  <2>0. ASSUME UNCHANGED <<favoriteLocationIds, store, op, favSnap>>, LoadOf(favFetch)' = LoadOf(favFetch)
        PROVE  UNCHANGED Fav!vars
      BY <2>0 DEF Fav!vars, AskedRequests, PendingRequests, AppliedRequests, StoredSet
  <2>1. CASE OnInit
      BY <2>0, <2>1 DEF OnInit, favVars, LoadOf
  <2>2. ASSUME NEW f \in Lists, CatalogStep(f)
        PROVE  UNCHANGED Fav!vars
      BY <2>0, <2>2, CatalogFrame DEF LoadOf
  <2>3. CASE UNCHANGED vars
      BY <2>0, <2>3 DEF vars, LoadOf
  <2> QED
      BY <2>1, <2>2, <2>3, RefineFavorites, RefineUser, RefineToggle DEF Next, UserStep
<1> QED
    BY <1>1, <1>2, AgreementInvariant, PTL DEF Spec, FavoritesImplemented, Fav!Spec
=============================================================================
