---------------------------- MODULE ProfileProofs ----------------------------
(***************************************************************************)
(* Proofs about Profile, for any users and any number of controllers,      *)
(* fetches, edits and screens.                                             *)
(***************************************************************************)
EXTENDS Profile, SequenceTheorems, TLAPS

-----------------------------------------------------------------------------
(* The inductive invariant, in parts.                                      *)

\* A call in flight belongs to a controller that has been made.
CallsPlaced ==
    /\ \A i \in Fetches : fetch[i].pc # "unused" => fetch[i].ctl \in 1..ctl
    /\ \A e \in Edits : edit[e].pc # "unused" => edit[e].ctl \in 1..ctl

\* The fetches of the registered controller ask for the signed-in user, and
\* what one has read is the record it asked for.
FetchesOfSession ==
    \A i \in Fetches :
        /\ fetch[i].pc # "unused" /\ fetch[i].ctl = ctl => fetch[i].as = authUser
        /\ fetch[i].answer.id \in {fetch[i].as, NoUser}

\* The copy of the registered controller, and those of controllers to come.
CopiesOwned ==
    /\ user[ctl].id \in {authUser, NoUser}
    /\ \A c \in Controllers : c > ctl => user[c].id = NoUser

\* Which calls are of a form and which of an upload.
FieldOfCall ==
    \A e \in Edits :
        /\ edit[e].pc = "checking" => edit[e].field = "text"
        /\ edit[e].pc \in {"choosing", "picking", "uploading"} => edit[e].field = "picture"

\* A field of this session is sent for its user.
SentAsSession ==
    \A e \in Edits :
        edit[e].pc \in {"writing", "written"} /\ edit[e].ctl = ctl => edit[e].to = authUser

OwnerInv ==
    /\ TypeOK
    /\ CallsPlaced
    /\ FetchesOfSession
    /\ CopiesOwned
    /\ FieldOfCall
    /\ SentAsSession

\* A form between its button and the answer to its write.
InForm(e) == edit[e].field = "text" /\ edit[e].pc \in {"checking", "writing", "written"}

\* A form that is being saved is alone under its loader, in its session, which
\* no logout is about to end.
FormUnderLoader ==
    \A e \in Edits : InForm(e) =>
        /\ Top = "loader"
        /\ ~loggingOut
        /\ edit[e].ctl = ctl
        /\ edit[e].by = authUser
        /\ \A d \in Edits : InForm(d) => d = e

\* The stack stands on the login or the menu, and a loader on a form on that.
Based(r) ==
    /\ r # <<>>
    /\ r[1] \in {"login", "menu"}
    /\ \A k \in DOMAIN r : r[k] = "loader" => k > 2

ScreenInv == ~disturbed => FormUnderLoader /\ Based(routes)

\* What is stored was put there by an edit, a text by one of its owner.
StoredByEdit ==
    /\ \A u \in Users, f \in Fields : record[u][f] # 0 => edit[record[u][f]].pc # "unused"
    /\ ~disturbed => \A u \in Users : record[u]["text"] # 0 => edit[record[u]["text"]].by = u

\* An edit between its write and its answer is what is stored, what a fetch
\* has read is still stored, and the copy differs only where an edit of this
\* session is about to answer.
Current ==
    /\ \A e \in Edits : edit[e].pc = "written" =>
          edit[e].to \in Users /\ record[edit[e].to][edit[e].field] = e
    /\ \A i \in Fetches : fetch[i].pc = "read" /\ fetch[i].as # NoUser =>
          fetch[i].answer.val = record[fetch[i].as]
    /\ user[ctl].id # NoUser => \A f \in Fields :
          \/ user[ctl].val[f] = record[authUser][f]
          \/ \E e \in Edits : edit[e].pc = "written" /\ edit[e].ctl = ctl /\ edit[e].field = f

CopyInv == ~disturbed => Current

ProfileInv == OwnerInv /\ ScreenInv /\ StoredByEdit /\ CopyInv
-----------------------------------------------------------------------------
(* Types.                                                                  *)

\* The stack stays a stack of screens.
LEMMA PopTyped ==
    ASSUME NEW r \in Seq(Screens), NEW s \in Screens
    PROVE  Pop(r) \in Seq(Screens) /\ Append(r, s) \in Seq(Screens) /\ Off(r, s) \in Seq(Screens)
<1>1. CASE r = <<>>
  BY <1>1 DEF Pop, Off
<1>2. CASE r # <<>>
  <2>1. Len(r) \in Nat \ {0}
    BY <1>2
  <2>2. SubSeq(r, 1, Len(r) - 1) \in Seq(Screens)
    BY <2>1
  <2> QED BY <1>2, <2>2 DEF Pop, Off
<1> QED BY <1>1, <1>2

\* The empty user is a copy, and an edit's number can be stored.
LEMMA EmptyTyped == Empty \in Copies /\ Empty.id = NoUser
BY DEF Empty, Copies, Records

\* The topmost screen is known, so the stack is not empty.
LEMMA TopScreen ==
    ASSUME Top \in Screens
    PROVE  routes # <<>>
BY DEF Top, Screens

LEMMA ControllersOrder ==
    ASSUME NEW c \in Controllers
    PROVE  c \in Nat /\ 1..c \subseteq Controllers /\ c \in 1..c
BY ProfileAssumption DEF Controllers

\* How one edit moves on: nothing but its progress and its document changes,
\* and nothing at the others.
EditAt(e, p, u) ==
    /\ edit'[e].pc = p /\ edit'[e].to = u
    /\ edit'[e].field = edit[e].field /\ edit'[e].ctl = edit[e].ctl /\ edit'[e].by = edit[e].by
    /\ \A d \in Edits : d # e => edit'[d] = edit[d]

LEMMA EditPc ==
    ASSUME TypeOK, NEW e \in Edits,
           NEW p \in {"writing", "written", "done", "failed", "picking", "uploading"},
           edit' = [edit EXCEPT ![e].pc = p]
    PROVE  edit' \in [Edits -> EditStates] /\ EditAt(e, p, edit[e].to)
<1>1. edit[e] \in EditStates /\ edit \in [Edits -> EditStates]
  BY DEF TypeOK
<1>2. [edit[e] EXCEPT !.pc = p] \in EditStates
  BY <1>1 DEF EditStates
<1>3. edit'[e] = [edit[e] EXCEPT !.pc = p] /\ \A d \in Edits : d # e => edit'[d] = edit[d]
  BY <1>1
<1>4. edit' \in [Edits -> EditStates]
  BY <1>1, <1>2
<1> QED BY <1>1, <1>3, <1>4 DEF EditAt, EditStates

LEMMA EditSent ==
    ASSUME TypeOK, NEW e \in Edits, NEW u \in Users \cup {NoUser},
           edit' = [edit EXCEPT ![e].pc = "writing", ![e].to = u]
    PROVE  edit' \in [Edits -> EditStates] /\ EditAt(e, "writing", u)
<1>1. edit[e] \in EditStates /\ edit \in [Edits -> EditStates]
  BY DEF TypeOK
<1>2. [edit[e] EXCEPT !.pc = "writing", !.to = u] \in EditStates
  BY <1>1 DEF EditStates
<1>3. edit'[e] = [edit[e] EXCEPT !.pc = "writing", !.to = u] /\ \A d \in Edits : d # e => edit'[d] = edit[d]
  BY <1>1
<1>4. edit' = [edit EXCEPT ![e] = [edit[e] EXCEPT !.pc = "writing", !.to = u]]
  BY <1>1
<1>5. edit' \in [Edits -> EditStates]
  BY <1>1, <1>2, <1>4
<1> QED BY <1>1, <1>3, <1>5 DEF EditAt, EditStates

LEMMA EditNew ==
    ASSUME TypeOK, NEW e \in Edits, NEW p \in {"checking", "choosing"}, NEW f \in Fields,
           NewEdit(e, p, f)
    PROVE  /\ edit' \in [Edits -> EditStates]
           /\ edit[e].pc = "unused"
           /\ edit'[e] = [pc |-> p, field |-> f, ctl |-> ctl, by |-> authUser, to |-> NoUser]
           /\ \A d \in Edits : d # e => edit'[d] = edit[d]
<1> DEFINE r == [pc |-> p, field |-> f, ctl |-> ctl, by |-> authUser, to |-> NoUser]
<1>1. r \in EditStates
  BY DEF TypeOK, EditStates
<1>2. edit \in [Edits -> EditStates] /\ edit' = [edit EXCEPT ![e] = r] /\ edit[e].pc = "unused"
  BY DEF TypeOK, NewEdit, FirstUnused
<1> HIDE DEF r
<1>3. edit' \in [Edits -> EditStates] /\ edit'[e] = r /\ \A d \in Edits : d # e => edit'[d] = edit[d]
  BY <1>1, <1>2
<1> QED BY <1>2, <1>3 DEF r

\* The logout ends the choice on a sheet and leaves the other edits alone.
LEMMA EditsDismissed ==
    ASSUME TypeOK, SignOut
    PROVE  /\ edit' \in [Edits -> EditStates]
           /\ \A d \in Edits : /\ edit'[d].field = edit[d].field /\ edit'[d].ctl = edit[d].ctl
                               /\ edit'[d].by = edit[d].by /\ edit'[d].to = edit[d].to
                               /\ \/ edit'[d].pc = edit[d].pc
                                  \/ edit[d].pc = "choosing" /\ edit'[d].pc = "done"
<1>1. \A d \in Edits : edit[d] \in EditStates
  BY DEF TypeOK
<1>2. \A d \in Edits : LET r == [edit[d] EXCEPT !.pc = "done"]
                       IN  /\ r \in EditStates /\ r.pc = "done"
                           /\ r.field = edit[d].field /\ r.ctl = edit[d].ctl
                           /\ r.by = edit[d].by /\ r.to = edit[d].to
  BY <1>1 DEF EditStates
<1>3. edit' = [d \in Edits |-> Dismissed(d)]
  BY DEF SignOut
<1>4. \A d \in Edits : \/ Dismissed(d) = edit[d]
                       \/ edit[d].pc = "choosing" /\ Dismissed(d) = [edit[d] EXCEPT !.pc = "done"]
  BY DEF Dismissed
<1>5. edit' \in [Edits -> EditStates]
  BY <1>1, <1>2, <1>3, <1>4
<1>6. \A d \in Edits : edit'[d] = Dismissed(d)
  BY <1>3
<1>7. ASSUME NEW d \in Edits
      PROVE  \/ edit'[d] = edit[d]
             \/ /\ edit[d].pc = "choosing" /\ edit'[d].pc = "done"
                /\ edit'[d].field = edit[d].field /\ edit'[d].ctl = edit[d].ctl
                /\ edit'[d].by = edit[d].by /\ edit'[d].to = edit[d].to
  <2>1. CASE edit[d].pc = "choosing" /\ Dismissed(d) = [edit[d] EXCEPT !.pc = "done"]
    <3> DEFINE r == [edit[d] EXCEPT !.pc = "done"]
    <3>1. /\ r.pc = "done" /\ r.field = edit[d].field /\ r.ctl = edit[d].ctl
          /\ r.by = edit[d].by /\ r.to = edit[d].to
      BY <1>2
    <3>2. edit'[d] = r
      BY <1>6, <2>1
    <3> HIDE DEF r
    <3> QED BY <2>1, <3>1, <3>2
  <2>2. CASE Dismissed(d) = edit[d]
    BY <1>6, <2>2
  <2> QED BY <1>4, <2>1, <2>2
<1> QED BY <1>5, <1>7

\* A call that throws ends; so does the choice that was made on the sheet it
\* closes.
LEMMA EditThrown ==
    ASSUME TypeOK, NEW e \in Edits, Throw(e)
    PROVE  /\ edit' \in [Edits -> EditStates]
           /\ edit'[e].pc = "failed"
           /\ \A d \in Edits : /\ edit'[d].field = edit[d].field /\ edit'[d].ctl = edit[d].ctl
                               /\ edit'[d].by = edit[d].by /\ edit'[d].to = edit[d].to
           /\ \A d \in Edits \ {e} : edit'[d].pc = edit[d].pc
                                     \/ (edit[d].pc = "choosing" /\ edit'[d].pc = "done")
<1>1. \A d \in Edits : edit[d] \in EditStates
  BY DEF TypeOK
<1>2. \A d \in Edits : [edit[d] EXCEPT !.pc = "failed"] \in EditStates
                       /\ [edit[d] EXCEPT !.pc = "done"] \in EditStates
  BY <1>1 DEF EditStates
<1>3. \A d \in Edits : edit'[d] = IF d = e THEN [edit[d] EXCEPT !.pc = "failed"]
                  ELSE IF edit[d].pc = "choosing" /\ Top = "sheet" THEN [edit[d] EXCEPT !.pc = "done"]
                  ELSE edit[d]
  BY DEF Throw, Dismissed
<1>4. edit' \in [Edits -> EditStates]
  BY <1>1, <1>2 DEF Throw, Dismissed
<1>5. \A d \in Edits : /\ [edit[d] EXCEPT !.pc = "failed"].pc = "failed"
                       /\ [edit[d] EXCEPT !.pc = "done"].pc = "done"
                       /\ \A p \in {"failed", "done"} :
                            /\ [edit[d] EXCEPT !.pc = p].field = edit[d].field
                            /\ [edit[d] EXCEPT !.pc = p].ctl = edit[d].ctl
                            /\ [edit[d] EXCEPT !.pc = p].by = edit[d].by
                            /\ [edit[d] EXCEPT !.pc = p].to = edit[d].to
  BY <1>1 DEF EditStates
<1>6. edit'[e].pc = "failed"
  BY <1>3, <1>5
<1>7. ASSUME NEW d \in Edits, d # e
      PROVE  /\ edit'[d].field = edit[d].field /\ edit'[d].ctl = edit[d].ctl
             /\ edit'[d].by = edit[d].by /\ edit'[d].to = edit[d].to
             /\ edit'[d].pc = edit[d].pc \/ (edit[d].pc = "choosing" /\ edit'[d].pc = "done")
  <2>1. CASE edit[d].pc = "choosing" /\ Top = "sheet"
    <3>1. edit'[d] = [edit[d] EXCEPT !.pc = "done"]
      BY <1>3, <1>7, <2>1
    <3> QED BY <1>5, <2>1, <3>1
  <2>2. CASE ~(edit[d].pc = "choosing" /\ Top = "sheet")
    <3>1. edit'[d] = edit[d]
      BY <1>3, <1>7, <2>2
    <3> QED BY <3>1
  <2> QED BY <2>1, <2>2
<1>8. /\ edit'[e].field = edit[e].field /\ edit'[e].ctl = edit[e].ctl
      /\ edit'[e].by = edit[e].by /\ edit'[e].to = edit[e].to
  <2> DEFINE r == [edit[e] EXCEPT !.pc = "failed"]
  <2>1. r.field = edit[e].field /\ r.ctl = edit[e].ctl /\ r.by = edit[e].by /\ r.to = edit[e].to
    BY <1>5
  <2>2. edit'[e] = r
    BY <1>3
  <2> HIDE DEF r
  <2> QED BY <2>1, <2>2
<1> QED BY <1>4, <1>6, <1>7, <1>8

\* The fetch i begins, reads or ends.
LEMMA FetchNew ==
    ASSUME TypeOK, NEW i \in Fetches, NEW c \in Controllers, NEW u \in Users \cup {NoUser},
           BeginFetch(i, c, u)
    PROVE  /\ fetch' \in [Fetches -> FetchStates] /\ profileLoading' \in [Controllers -> BOOLEAN]
           /\ fetch[i].pc = "unused"
           /\ fetch'[i] = [pc |-> "asked", ctl |-> c, as |-> u, answer |-> Empty]
           /\ \A j \in Fetches : j # i => fetch'[j] = fetch[j]
<1> DEFINE r == [pc |-> "asked", ctl |-> c, as |-> u, answer |-> Empty]
<1>1. r \in FetchStates
  BY EmptyTyped DEF FetchStates
<1>2. fetch \in [Fetches -> FetchStates] /\ fetch' = [fetch EXCEPT ![i] = r] /\ fetch[i].pc = "unused"
  BY DEF TypeOK, BeginFetch, FirstUnused
<1> HIDE DEF r
<1>3. fetch' \in [Fetches -> FetchStates] /\ fetch'[i] = r /\ \A j \in Fetches : j # i => fetch'[j] = fetch[j]
  BY <1>1, <1>2
<1>4. profileLoading' \in [Controllers -> BOOLEAN]
  BY DEF TypeOK, BeginFetch
<1> QED BY <1>2, <1>3, <1>4 DEF r

LEMMA FetchMoves ==
    ASSUME TypeOK, NEW i \in Fetches, NEW p \in {"read", "done"}, NEW a \in Copies,
           fetch' = [fetch EXCEPT ![i].pc = p, ![i].answer = a]
    PROVE  /\ fetch' \in [Fetches -> FetchStates]
           /\ fetch'[i].pc = p /\ fetch'[i].answer = a
           /\ fetch'[i].ctl = fetch[i].ctl /\ fetch'[i].as = fetch[i].as
           /\ \A j \in Fetches : j # i => fetch'[j] = fetch[j]
<1>1. fetch[i] \in FetchStates /\ fetch \in [Fetches -> FetchStates]
  BY DEF TypeOK
<1> DEFINE r == [fetch[i] EXCEPT !.pc = p, !.answer = a]
<1>2. r \in FetchStates /\ r.pc = p /\ r.answer = a /\ r.ctl = fetch[i].ctl /\ r.as = fetch[i].as
  BY <1>1 DEF FetchStates
<1>3. fetch' = [fetch EXCEPT ![i] = r]
  BY <1>1
<1> HIDE DEF r
<1> QED BY <1>1, <1>2, <1>3

LEMMA InitTypes == Init => TypeOK
<1> SUFFICES ASSUME Init PROVE TypeOK
  OBVIOUS
<1>1. 1 \in Controllers /\ "menu" \in Screens
  BY ProfileAssumption DEF Controllers, Screens
<1>2. routes \in Seq(Screens)
  BY <1>1 DEF Init
<1>3. \A i \in Fetches : fetch[i] \in FetchStates
  BY <1>1, EmptyTyped DEF Init, FetchStates
<1>4. \A e \in Edits : edit[e] \in EditStates
  BY DEF Init, EditStates, Fields
<1>5. user \in [Controllers -> Copies] /\ record \in [Users -> Records]
  BY EmptyTyped DEF Init, Records
<1>6. fetch \in [Fetches -> FetchStates] /\ edit \in [Edits -> EditStates]
  BY <1>3, <1>4 DEF Init
<1> QED BY <1>1, <1>2, <1>5, <1>6 DEF Init, TypeOK

LEMMA TypesKept ==
    ASSUME TypeOK, CallsPlaced, [Next]_vars
    PROVE  TypeOK'
<1>1. CASE OpenScreen
  <2>1. routes' \in Seq(Screens)
    BY <1>1, PopTyped DEF OpenScreen, TypeOK, Screens
  <2> QED BY <1>1, <2>1 DEF OpenScreen, TypeOK
<1>2. CASE GoBack
  <2>1. routes' \in Seq(Screens)
    BY <1>2, PopTyped DEF GoBack, TypeOK, Screens
  <2> QED BY <1>2, <2>1 DEF GoBack, TypeOK
<1>2a. CASE BeginLogout \/ LogoutFails
  BY <1>2a DEF BeginLogout, LogoutFails, TypeOK
<1>3. ASSUME NEW u \in Users \cup {NoUser}, NewController(u)
      PROVE  /\ ctl' \in Controllers /\ fetch' \in [Fetches -> FetchStates]
             /\ profileLoading' \in [Controllers -> BOOLEAN]
  <2>1. ctl' \in Controllers /\ ctl' = ctl + 1
    BY <1>3, ProfileAssumption DEF NewController, TypeOK, Controllers
  <2> QED BY <1>3, <2>1, FetchNew DEF NewController
<1>4. CASE SignOut
  <2>1. routes' \in Seq(Screens)
    BY <1>4 DEF SignOut, Screens
  <2>2. imageUploading' \in [Controllers -> BOOLEAN] /\ loggingOut' \in BOOLEAN
    BY <1>4 DEF SignOut
  <2>3. edit' \in [Edits -> EditStates]
    BY <1>4, EditsDismissed
  <2>4. authUser' = NoUser /\ NewController(NoUser) /\ UNCHANGED <<user, record, disturbed>>
    BY <1>4 DEF SignOut
  <2> QED BY <1>3, <2>1, <2>2, <2>3, <2>4 DEF TypeOK
<1>5. ASSUME NEW u \in Users, SignIn(u) PROVE TypeOK'
  <2>1. routes' \in Seq(Screens)
    BY <1>5 DEF SignIn, Screens
  <2> QED BY <1>5, <1>3, <2>1 DEF SignIn, TypeOK
<1>6. ASSUME NEW i \in Fetches, FetchForVisit(i) PROVE TypeOK'
  BY <1>6, FetchNew DEF FetchForVisit, TypeOK
<1>7. ASSUME NEW i \in Fetches, FetchRead(i) PROVE TypeOK'
  <2> DEFINE a == IF fetch[i].as = NoUser THEN Empty ELSE [id |-> fetch[i].as, val |-> record[fetch[i].as]]
  <2>1. a \in Copies
    BY EmptyTyped DEF TypeOK, FetchStates, Copies
  <2>2. fetch' = [fetch EXCEPT ![i].pc = "read", ![i].answer = a]
    BY <1>7 DEF FetchRead
  <2> HIDE DEF a
  <2>3. fetch' \in [Fetches -> FetchStates]
    BY <2>1, <2>2, FetchMoves
  <2> QED BY <1>7, <2>3 DEF FetchRead, TypeOK
<1>8. ASSUME NEW i \in Fetches, NEW a \in Copies, fetch[i].pc # "unused", EndFetch(i, a) PROVE TypeOK'
  <2>1. fetch' \in [Fetches -> FetchStates]
    BY <1>8, FetchMoves, EmptyTyped DEF EndFetch
  <2>2. fetch[i].ctl \in Controllers
    BY <1>8, ControllersOrder DEF CallsPlaced, TypeOK
  <2>3. user' \in [Controllers -> Copies] /\ profileLoading' \in [Controllers -> BOOLEAN]
    BY <1>8, <2>2 DEF EndFetch, TypeOK
  <2> QED BY <1>8, <2>1, <2>3 DEF EndFetch, TypeOK
<1>9. ASSUME NEW i \in Fetches, FetchReturns(i) \/ FetchFails(i) PROVE TypeOK'
  <2>1. fetch[i].answer \in Copies
    BY DEF TypeOK, FetchStates
  <2> QED BY <1>8, <1>9, <2>1, EmptyTyped DEF FetchReturns, FetchFails
<1>10. ASSUME NEW e \in Edits, SaveForm(e) PROVE TypeOK'
  <2>1. routes' \in Seq(Screens) /\ edit' \in [Edits -> EditStates]
    BY <1>10, PopTyped, EditNew DEF SaveForm, TypeOK, Screens, Fields
  <2> QED BY <1>10, <2>1 DEF SaveForm, TypeOK
<1>11. ASSUME NEW e \in Edits, FormRefused(e) PROVE TypeOK'
  <2>1. routes' \in Seq(Screens) /\ edit' \in [Edits -> EditStates]
    BY <1>11, PopTyped, EditPc DEF FormRefused, TypeOK, Screens
  <2> QED BY <1>11, <2>1 DEF FormRefused, TypeOK
<1>12. ASSUME NEW e \in Edits, FieldSent(e) PROVE TypeOK'
  <2>1. edit' \in [Edits -> EditStates]
    BY <1>12, EditSent DEF FieldSent, TypeOK
  <2> QED BY <1>12, <2>1 DEF FieldSent, TypeOK
<1>13. ASSUME NEW e \in Edits, FieldWritten(e) PROVE TypeOK'
  <2>1. edit' \in [Edits -> EditStates]
    BY <1>13, EditPc DEF FieldWritten
  <2>2. edit[e].to \in Users /\ edit[e].field \in Fields
    BY <1>13 DEF FieldWritten, TypeOK, EditStates
  <2>3. [record[edit[e].to] EXCEPT ![edit[e].field] = e] \in Records
    BY <2>2 DEF TypeOK, Records
  <2>4. record' \in [Users -> Records]
    BY <1>13, <2>2, <2>3 DEF FieldWritten, TypeOK
  <2>5. disturbed' \in BOOLEAN
    BY <1>13 DEF FieldWritten
  <2> QED BY <1>13, <2>1, <2>4, <2>5 DEF FieldWritten, TypeOK
<1>14. ASSUME NEW e \in Edits, FieldReturns(e) PROVE TypeOK'
  <2>1. edit' \in [Edits -> EditStates]
    BY <1>14, EditPc DEF FieldReturns
  <2>2. edit[e].ctl \in Controllers /\ edit[e].field \in Fields
    BY <1>14, ControllersOrder DEF FieldReturns, CallsPlaced, TypeOK, EditStates
  <2>3. [user[edit[e].ctl] EXCEPT !.val[edit[e].field] = e] \in Copies
    <3>1. user[edit[e].ctl] \in Copies
      BY <2>2 DEF TypeOK
    <3>2. [user[edit[e].ctl].val EXCEPT ![edit[e].field] = e] \in Records
      BY <2>2, <3>1 DEF Copies, Records
    <3> QED BY <3>1, <3>2 DEF Copies
  <2>4. user' \in [Controllers -> Copies]
    BY <1>14, <2>2, <2>3 DEF FieldReturns, TypeOK
  <2>5. routes' \in Seq(Screens) /\ imageUploading' \in [Controllers -> BOOLEAN]
    BY <1>14, <2>2, PopTyped DEF FieldReturns, TypeOK, Screens
  <2> QED BY <1>14, <2>1, <2>4, <2>5 DEF FieldReturns, TypeOK
<1>15. ASSUME NEW e \in Edits, ChoosePicture(e) PROVE TypeOK'
  <2>1. routes' \in Seq(Screens) /\ edit' \in [Edits -> EditStates]
    BY <1>15, PopTyped, EditNew DEF ChoosePicture, TypeOK, Screens, Fields
  <2> QED BY <1>15, <2>1 DEF ChoosePicture, TypeOK
<1>16. ASSUME NEW e \in Edits, SourceChosen(e) PROVE TypeOK'
  <2>1. routes' \in Seq(Screens) /\ edit' \in [Edits -> EditStates]
    BY <1>16, PopTyped, EditPc DEF SourceChosen, TypeOK, Screens
  <2> QED BY <1>16, <2>1 DEF SourceChosen, TypeOK
<1>17. ASSUME NEW e \in Edits, NothingChosen(e) PROVE TypeOK'
  <2>1. routes' \in Seq(Screens) /\ edit' \in [Edits -> EditStates]
    BY <1>17, PopTyped, EditPc DEF NothingChosen, TypeOK, Screens
  <2>2. imageUploading' \in [Controllers -> BOOLEAN]
    BY <1>17 DEF NothingChosen, TypeOK
  <2> QED BY <1>17, <2>1, <2>2 DEF NothingChosen, TypeOK
<1>18. ASSUME NEW e \in Edits, ImagePicked(e) PROVE TypeOK'
  <2>1. edit' \in [Edits -> EditStates]
    BY <1>18, EditPc DEF ImagePicked
  <2>2. imageUploading' \in [Controllers -> BOOLEAN]
    BY <1>18 DEF ImagePicked, TypeOK
  <2> QED BY <1>18, <2>1, <2>2 DEF ImagePicked, TypeOK
<1>19. ASSUME NEW e \in Edits, EditFails(e) PROVE TypeOK'
  <2>1. Throw(e)
    BY <1>19 DEF EditFails
  <2>2. edit' \in [Edits -> EditStates]
    BY <2>1, EditThrown
  <2>3. routes' \in Seq(Screens) /\ disturbed' \in BOOLEAN
    BY <2>1, PopTyped DEF Throw, TypeOK, Screens
  <2>4. imageUploading' \in [Controllers -> BOOLEAN]
    BY <1>19 DEF EditFails, TypeOK
  <2> QED BY <2>1, <2>2, <2>3, <2>4 DEF Throw, TypeOK
<1>20. CASE UNCHANGED vars
  BY <1>20 DEF vars, TypeOK
<1> QED BY <1>1, <1>2, <1>2a, <1>4, <1>5, <1>6, <1>7, <1>9, <1>10, <1>11, <1>12, <1>13, <1>14,
           <1>15, <1>16, <1>17, <1>18, <1>19, <1>20 DEF Next, FetchStep, EditStep

-----------------------------------------------------------------------------
(* Whose the calls and the copies are.                                     *)

\* A new session has a new controller, whose only call is its own fetch.
LEMMA NewSession ==
    ASSUME OwnerInv, NEW u \in Users \cup {NoUser}, NewController(u), authUser' = u,
           UNCHANGED user,
           \A e \in Edits : edit'[e].ctl = edit[e].ctl /\ (edit[e].pc = "unused" => edit'[e].pc = "unused")
    PROVE  CallsPlaced' /\ FetchesOfSession' /\ CopiesOwned' /\ SentAsSession'
<1>1. ctl \in Nat /\ ctl' = ctl + 1 /\ ctl' \in Controllers
  BY ProfileAssumption DEF NewController, OwnerInv, TypeOK, Controllers
<1>2. PICK i \in Fetches : BeginFetch(i, ctl + 1, u)
  BY DEF NewController
<1>3. /\ fetch'[i] = [pc |-> "asked", ctl |-> ctl + 1, as |-> u, answer |-> Empty]
      /\ \A j \in Fetches : j # i => fetch'[j] = fetch[j]
  BY <1>1, <1>2, FetchNew DEF OwnerInv
<1>4. \A j \in Fetches : fetch[j].pc # "unused" => fetch[j].ctl \in 1..ctl
  BY DEF OwnerInv, CallsPlaced
<1>5. \A e \in Edits : edit'[e].pc # "unused" => edit'[e].ctl \in 1..ctl
  BY DEF OwnerInv, CallsPlaced
<1>6. CallsPlaced'
  BY <1>1, <1>3, <1>4, <1>5 DEF CallsPlaced
<1>7. FetchesOfSession'
  BY <1>1, <1>3, <1>4, EmptyTyped DEF OwnerInv, FetchesOfSession
<1>8. CopiesOwned'
  BY <1>1 DEF OwnerInv, CopiesOwned, Controllers
<1>9. SentAsSession'
  BY <1>1, <1>5 DEF SentAsSession
<1> QED BY <1>6, <1>7, <1>8, <1>9

\* Within a session, the edits decide what is sent for whom.
LEMMA EditsOwned ==
    ASSUME OwnerInv, UNCHANGED <<authUser, ctl>>, NEW e \in Edits,
           NEW p \in {"writing", "written", "done", "failed", "picking", "uploading"},
           NEW u \in Users \cup {NoUser}, EditAt(e, p, u),
           edit[e].pc # "unused",
           p = "writing" => u = authUser,
           p = "written" => edit[e].pc = "writing" /\ u = edit[e].to,
           p \in {"picking", "uploading"} => edit[e].pc \in {"choosing", "picking"}
    PROVE  /\ \A d \in Edits : edit'[d].pc # "unused" => edit'[d].ctl \in 1..ctl'
           /\ FieldOfCall' /\ SentAsSession'
<1>1. \A d \in Edits : edit'[d].pc # "unused" => edit'[d].ctl \in 1..ctl'
  BY DEF OwnerInv, CallsPlaced, EditAt
<1>2. FieldOfCall'
  BY DEF OwnerInv, FieldOfCall, EditAt
<1>3. SentAsSession'
  BY DEF OwnerInv, SentAsSession, EditAt
<1> QED BY <1>1, <1>2, <1>3

LEMMA OwnersKept ==
    ASSUME OwnerInv, [Next]_vars
    PROVE  OwnerInv'
<1>0. TypeOK'
  BY TypesKept DEF OwnerInv
<1>a. TypeOK
  BY DEF OwnerInv
<1>b. ctl \in Controllers /\ ctl \in 1..ctl
  BY ControllersOrder DEF OwnerInv, TypeOK
<1>1. CASE OpenScreen \/ GoBack \/ BeginLogout \/ LogoutFails
  BY <1>0, <1>1 DEF OpenScreen, GoBack, BeginLogout, LogoutFails, OwnerInv, CallsPlaced, FetchesOfSession, CopiesOwned,
                   FieldOfCall, SentAsSession
<1>2. CASE SignOut
  <2>1. \A d \in Edits : /\ edit'[d].field = edit[d].field /\ edit'[d].ctl = edit[d].ctl
                         /\ \/ edit'[d].pc = edit[d].pc
                            \/ edit[d].pc = "choosing" /\ edit'[d].pc = "done"
    BY <1>2, <1>a, EditsDismissed
  <2>2. FieldOfCall'
    BY <2>1 DEF OwnerInv, FieldOfCall
  <2>3. authUser' = NoUser /\ NewController(NoUser) /\ UNCHANGED user
    BY <1>2 DEF SignOut
  <2>4. \A e \in Edits : edit'[e].ctl = edit[e].ctl /\ (edit[e].pc = "unused" => edit'[e].pc = "unused")
    BY <2>1
  <2> QED BY <1>0, <2>2, <2>3, <2>4, NewSession DEF OwnerInv
<1>3. ASSUME NEW u \in Users, SignIn(u) PROVE OwnerInv'
  <2>1. FieldOfCall'
    BY <1>3 DEF SignIn, OwnerInv, FieldOfCall
  <2> QED BY <1>0, <1>3, <2>1, NewSession DEF SignIn, OwnerInv
<1>4. ASSUME NEW i \in Fetches, FetchForVisit(i) PROVE OwnerInv'
  <2>1. UNCHANGED <<authUser, ctl, user, edit>>
    BY <1>4 DEF FetchForVisit
  <2>2. /\ fetch'[i] = [pc |-> "asked", ctl |-> ctl, as |-> authUser, answer |-> Empty]
        /\ \A j \in Fetches : j # i => fetch'[j] = fetch[j]
    BY <1>4, <1>a, FetchNew DEF FetchForVisit, TypeOK
  <2>3. CallsPlaced' /\ FetchesOfSession'
    BY <2>1, <2>2, <1>b, EmptyTyped DEF OwnerInv, CallsPlaced, FetchesOfSession
  <2>4. CopiesOwned' /\ FieldOfCall' /\ SentAsSession'
    BY <2>1 DEF OwnerInv, CopiesOwned, FieldOfCall, SentAsSession
  <2> QED BY <1>0, <2>3, <2>4 DEF OwnerInv
<1>5. ASSUME NEW i \in Fetches, FetchRead(i) PROVE OwnerInv'
  <2>1. UNCHANGED <<authUser, ctl, user, edit>> /\ fetch[i].pc = "asked"
    BY <1>5 DEF FetchRead
  <2> DEFINE a == IF fetch[i].as = NoUser THEN Empty ELSE [id |-> fetch[i].as, val |-> record[fetch[i].as]]
  <2>2. a \in Copies /\ a.id = fetch[i].as
    BY EmptyTyped, <1>a DEF TypeOK, FetchStates, Copies
  <2>3. fetch' = [fetch EXCEPT ![i].pc = "read", ![i].answer = a]
    BY <1>5 DEF FetchRead
  <2> HIDE DEF a
  <2>4. /\ fetch'[i].pc = "read" /\ fetch'[i].answer = a
        /\ fetch'[i].ctl = fetch[i].ctl /\ fetch'[i].as = fetch[i].as
        /\ \A j \in Fetches : j # i => fetch'[j] = fetch[j]
    BY <2>2, <2>3, <1>a, FetchMoves
  <2>5. CallsPlaced' /\ FetchesOfSession'
    BY <2>1, <2>2, <2>4 DEF OwnerInv, CallsPlaced, FetchesOfSession
  <2>6. CopiesOwned' /\ FieldOfCall' /\ SentAsSession'
    BY <2>1 DEF OwnerInv, CopiesOwned, FieldOfCall, SentAsSession
  <2> QED BY <1>0, <2>5, <2>6 DEF OwnerInv
<1>6. ASSUME NEW i \in Fetches, FetchReturns(i) \/ FetchFails(i) PROVE OwnerInv'
  <2>1. PICK a \in Copies : /\ a.id \in {fetch[i].as, NoUser} /\ fetch[i].pc # "unused"
                            /\ EndFetch(i, a)
    <3>1. fetch[i].answer \in Copies /\ fetch[i].answer.id \in {fetch[i].as, NoUser}
      BY DEF OwnerInv, TypeOK, FetchStates, FetchesOfSession
    <3> QED BY <1>6, <3>1, EmptyTyped DEF FetchReturns, FetchFails
  <2>2. UNCHANGED <<authUser, ctl, edit>>
    BY <2>1 DEF EndFetch
  <2>3. /\ fetch'[i].pc = "done" /\ fetch'[i].answer = Empty
        /\ fetch'[i].ctl = fetch[i].ctl /\ fetch'[i].as = fetch[i].as
        /\ \A j \in Fetches : j # i => fetch'[j] = fetch[j]
    BY <2>1, <1>a, FetchMoves, EmptyTyped DEF EndFetch
  <2>4. CallsPlaced' /\ FetchesOfSession'
    BY <2>1, <2>2, <2>3, EmptyTyped DEF OwnerInv, CallsPlaced, FetchesOfSession
  <2>5. fetch[i].ctl \in 1..ctl /\ fetch[i].ctl \in Controllers /\ ctl \in Nat
    BY <2>1, <1>b, ControllersOrder DEF OwnerInv, CallsPlaced
  <2>6. \A c \in Controllers : user'[c] = IF c = fetch[i].ctl THEN a ELSE user[c]
    BY <2>1, <1>a DEF EndFetch, TypeOK
  <2>7. fetch[i].ctl = ctl => fetch[i].as = authUser
    BY <2>1 DEF OwnerInv, FetchesOfSession
  <2>8. CopiesOwned'
    BY <2>1, <2>2, <2>5, <2>6, <2>7, <1>b DEF OwnerInv, CopiesOwned, Controllers
  <2>9. FieldOfCall' /\ SentAsSession'
    BY <2>2 DEF OwnerInv, FieldOfCall, SentAsSession
  <2> QED BY <1>0, <2>4, <2>8, <2>9 DEF OwnerInv
<1>7. ASSUME NEW e \in Edits, SaveForm(e) \/ ChoosePicture(e) PROVE OwnerInv'
  <2>1. UNCHANGED <<authUser, ctl, user, fetch>>
    BY <1>7 DEF SaveForm, ChoosePicture
  <2>2. PICK p \in {"checking", "choosing"}, f \in Fields :
            NewEdit(e, p, f) /\ (p = "checking" <=> f = "text")
    BY <1>7 DEF SaveForm, ChoosePicture, Fields
  <2>3. /\ edit'[e] = [pc |-> p, field |-> f, ctl |-> ctl, by |-> authUser, to |-> NoUser]
        /\ \A d \in Edits : d # e => edit'[d] = edit[d]
    BY <2>2, <1>a, EditNew
  <2>4. CallsPlaced'
    BY <2>1, <2>3, <1>b DEF OwnerInv, CallsPlaced
  <2>5. FieldOfCall'
    BY <2>2, <2>3 DEF OwnerInv, FieldOfCall, Fields
  <2>6. SentAsSession'
    BY <2>1, <2>3 DEF OwnerInv, SentAsSession
  <2>7. FetchesOfSession' /\ CopiesOwned'
    BY <2>1 DEF OwnerInv, FetchesOfSession, CopiesOwned
  <2> QED BY <1>0, <2>4, <2>5, <2>6, <2>7 DEF OwnerInv
<1>8. ASSUME UNCHANGED <<authUser, ctl, user, fetch>>,
             /\ \A d \in Edits : edit'[d].pc # "unused" => edit'[d].ctl \in 1..ctl'
             /\ FieldOfCall' /\ SentAsSession'
      PROVE  OwnerInv'
  BY <1>0, <1>8 DEF OwnerInv, CallsPlaced, FetchesOfSession, CopiesOwned
<1>9. ASSUME NEW e \in Edits, FormRefused(e) \/ NothingChosen(e) PROVE OwnerInv'
  <2>1. UNCHANGED <<authUser, ctl, user, fetch>> /\ edit' = [edit EXCEPT ![e].pc = "done"]
        /\ edit[e].pc # "unused"
    BY <1>9 DEF FormRefused, NothingChosen
  <2>2. EditAt(e, "done", edit[e].to) /\ edit[e].to \in Users \cup {NoUser}
    BY <2>1, <1>a, EditPc DEF TypeOK, EditStates
  <2> QED BY <2>1, <2>2, <1>8, EditsOwned
<1>10. ASSUME NEW e \in Edits, FieldSent(e) PROVE OwnerInv'
  <2>1. UNCHANGED <<authUser, ctl, user, fetch>> /\ edit[e].pc # "unused"
        /\ edit' = [edit EXCEPT ![e].pc = "writing", ![e].to = authUser]
    BY <1>10 DEF FieldSent
  <2>2. EditAt(e, "writing", authUser) /\ authUser \in Users \cup {NoUser}
    BY <2>1, <1>a, EditSent DEF TypeOK
  <2> QED BY <2>1, <2>2, <1>8, EditsOwned
<1>11. ASSUME NEW e \in Edits, FieldWritten(e) PROVE OwnerInv'
  <2>1. UNCHANGED <<authUser, ctl, user, fetch>> /\ edit[e].pc = "writing"
        /\ edit' = [edit EXCEPT ![e].pc = "written"]
    BY <1>11 DEF FieldWritten
  <2>2. EditAt(e, "written", edit[e].to) /\ edit[e].to \in Users \cup {NoUser}
    BY <2>1, <1>a, EditPc DEF TypeOK, EditStates
  <2> QED BY <2>1, <2>2, <1>8, EditsOwned
<1>12. ASSUME NEW e \in Edits, SourceChosen(e) \/ ImagePicked(e) PROVE OwnerInv'
  <2>1. PICK p \in {"picking", "uploading"} :
            /\ UNCHANGED <<authUser, ctl, user, fetch>> /\ edit[e].pc \in {"choosing", "picking"}
            /\ edit' = [edit EXCEPT ![e].pc = p]
    BY <1>12 DEF SourceChosen, ImagePicked
  <2>2. EditAt(e, p, edit[e].to) /\ edit[e].to \in Users \cup {NoUser}
    BY <2>1, <1>a, EditPc DEF TypeOK, EditStates
  <2> QED BY <2>1, <2>2, <1>8, EditsOwned
<1>13. ASSUME NEW e \in Edits, FieldReturns(e) PROVE OwnerInv'
  <2>1. UNCHANGED <<authUser, ctl, fetch>> /\ edit[e].pc # "unused"
        /\ edit' = [edit EXCEPT ![e].pc = "done"]
    BY <1>13 DEF FieldReturns
  <2>2. EditAt(e, "done", edit[e].to) /\ edit[e].to \in Users \cup {NoUser}
    BY <2>1, <1>a, EditPc DEF TypeOK, EditStates
  <2>3. \A c \in Controllers : user'[c].id = user[c].id
    BY <1>13, <1>a DEF FieldReturns, TypeOK, Copies
  <2>4. CopiesOwned'
    BY <2>1, <2>3, <1>b DEF OwnerInv, CopiesOwned
  <2>5. /\ \A d \in Edits : edit'[d].pc # "unused" => edit'[d].ctl \in 1..ctl'
        /\ FieldOfCall' /\ SentAsSession'
    BY <2>1, <2>2, EditsOwned
  <2> QED BY <1>0, <2>1, <2>4, <2>5 DEF OwnerInv, CallsPlaced, FetchesOfSession
<1>14. ASSUME NEW e \in Edits, EditFails(e) PROVE OwnerInv'
  <2>1. Throw(e) /\ UNCHANGED <<authUser, ctl, user, fetch>> /\ edit[e].pc # "unused"
    BY <1>14 DEF EditFails, Throw
  <2>2. /\ edit'[e].pc = "failed"
        /\ \A d \in Edits : /\ edit'[d].field = edit[d].field /\ edit'[d].ctl = edit[d].ctl
                            /\ edit'[d].by = edit[d].by /\ edit'[d].to = edit[d].to
        /\ \A d \in Edits \ {e} : edit'[d].pc = edit[d].pc
                                  \/ (edit[d].pc = "choosing" /\ edit'[d].pc = "done")
    BY <2>1, <1>a, EditThrown
  <2>3. \A d \in Edits : edit'[d].pc # "unused" => edit'[d].ctl \in 1..ctl'
    BY <2>1, <2>2 DEF OwnerInv, CallsPlaced
  <2>4. FieldOfCall'
    BY <2>2 DEF OwnerInv, FieldOfCall
  <2>5. SentAsSession'
    BY <2>1, <2>2 DEF OwnerInv, SentAsSession
  <2> QED BY <2>1, <2>3, <2>4, <2>5, <1>8
<1>15. CASE UNCHANGED vars
  BY <1>0, <1>15 DEF vars, OwnerInv, CallsPlaced, FetchesOfSession, CopiesOwned, FieldOfCall,
                     SentAsSession
<1> QED BY <1>1, <1>2, <1>3, <1>4, <1>5, <1>6, <1>7, <1>9, <1>10, <1>11, <1>12, <1>13, <1>14,
           <1>15 DEF Next, FetchStep, EditStep

-----------------------------------------------------------------------------
(* The stack and the forms.                                                *)

LEMMA DepthFacts ==
    ASSUME NEW n \in Nat \ {0}
    PROVE  /\ n # 1 => n > 1
           /\ n - 1 \in Nat
           /\ (IF 1 <= n - 1 THEN n - 1 - 1 + 1 ELSE 0) = n - 1
OBVIOUS

LEMMA PopFacts ==
    ASSUME NEW r \in Seq(Screens), r # <<>>
    PROVE  /\ Len(r) \in Nat \ {0}
           /\ Pop(r) \in Seq(Screens) /\ Len(Pop(r)) = Len(r) - 1
           /\ \A k \in 1..(Len(r) - 1) : Pop(r)[k] = r[k]
<1>1. Len(r) \in Nat \ {0}
  OBVIOUS
<1>2. Pop(r) = SubSeq(r, 1, Len(r) - 1)
  BY DEF Pop
<1>3. Len(r) - 1 \in Nat
  BY <1>1
<1>4. Pop(r) \in Seq(Screens)
  BY <1>1, <1>2
<1>5. Len(Pop(r)) = Len(r) - 1
  <2>1. Len(SubSeq(r, 1, Len(r) - 1)) = IF 1 <= Len(r) - 1 THEN Len(r) - 1 - 1 + 1 ELSE 0
    <3>1. 1 \in Int /\ Len(r) - 1 \in Int /\ \A k \in 1..(Len(r) - 1) : r[k] \in Screens
      BY <1>1
    <3> QED BY <3>1, SubSeqProperties
  <2>2. (IF 1 <= Len(r) - 1 THEN Len(r) - 1 - 1 + 1 ELSE 0) = Len(r) - 1
    BY <1>1, DepthFacts, Zenon
  <2> QED BY <1>2, <2>1, <2>2, Zenon
<1>6. \A k \in 1..(Len(r) - 1) : Pop(r)[k] = r[k]
  BY <1>1, <1>2, <1>3
<1> QED BY <1>1, <1>4, <1>5, <1>6

LEMMA BasedPop ==
    ASSUME NEW r \in Seq(Screens), Based(r), Len(r) > 1
    PROVE  Based(Pop(r)) /\ Pop(r) \in Seq(Screens) /\ Len(Pop(r)) = Len(r) - 1
<1>1. /\ Len(r) \in Nat \ {0}
      /\ Pop(r) \in Seq(Screens) /\ Len(Pop(r)) = Len(r) - 1
      /\ \A k \in 1..(Len(r) - 1) : Pop(r)[k] = r[k]
  BY PopFacts DEF Based
<1>2. Pop(r) # <<>>
  BY <1>1
<1>3. Pop(r)[1] = r[1]
  BY <1>1
<1>4. \A k \in DOMAIN Pop(r) : k \in DOMAIN r /\ Pop(r)[k] = r[k]
  BY <1>1
<1> QED BY <1>1, <1>2, <1>3, <1>4 DEF Based

LEMMA BasedPush ==
    ASSUME NEW r \in Seq(Screens), Based(r), NEW s \in Screens, s = "loader" => Len(r) > 1
    PROVE  Based(Append(r, s)) /\ Append(r, s)[Len(Append(r, s))] = s
<1>1. Len(r) \in Nat \ {0}
  BY DEF Based
<1>2. /\ Append(r, s) \in Seq(Screens) /\ Len(Append(r, s)) = Len(r) + 1
      /\ Append(r, s)[Len(r) + 1] = s
      /\ \A k \in 1..Len(r) : Append(r, s)[k] = r[k]
  OBVIOUS
<1>3. \A k \in DOMAIN Append(r, s) : k \in 1..Len(r) \/ k = Len(r) + 1
  BY <1>1, <1>2
<1>4. \A k \in DOMAIN Append(r, s) : Append(r, s)[k] = "loader" => k > 2
  BY <1>1, <1>2, <1>3 DEF Based
<1>5. Append(r, s) # <<>> /\ Append(r, s)[1] = r[1]
  BY <1>1, <1>2
<1> QED BY <1>2, <1>4, <1>5 DEF Based

\* How deep a screen that is on top must be.
LEMMA TopDepth ==
    ASSUME routes \in Seq(Screens), Based(routes)
    PROVE  /\ Top = routes[Len(routes)] /\ Len(routes) \in Nat \ {0}
           /\ Top \notin {"login", "menu"} => Len(routes) > 1
           /\ Top = "loader" => Len(routes) > 2
<1>1. Top = routes[Len(routes)] /\ Len(routes) \in Nat \ {0}
  BY DEF Top, Based
<1>2. Len(routes) = 1 => Top \in {"login", "menu"}
  BY <1>1 DEF Based
<1>3. Len(routes) \in DOMAIN routes
  BY <1>1
<1>4. Top = "loader" => Len(routes) > 2
  BY <1>1, <1>3 DEF Based
<1>5. Len(routes) # 1 => Len(routes) > 1
  BY <1>1, DepthFacts, Zenon
<1> QED BY <1>1, <1>2, <1>4, <1>5

\* No other screen is on top while a form is being saved, and a step that puts
\* none under way and leaves the screens leaves the rest as it was.
LEMMA FormsStay ==
    ASSUME FormUnderLoader, UNCHANGED <<routes, ctl, authUser, loggingOut>>,
           \A d \in Edits : InForm(d)' => /\ InForm(d)
                                          /\ edit'[d].ctl = edit[d].ctl /\ edit'[d].by = edit[d].by
    PROVE  FormUnderLoader'
<1>1. Top' = Top
  BY DEF Top
<1> QED BY <1>1 DEF FormUnderLoader

\* While another screen is on top, no form is being saved.
LEMMA NoFormElsewhere ==
    ASSUME FormUnderLoader, Top # "loader",
           \A d \in Edits : InForm(d)' => InForm(d)
    PROVE  FormUnderLoader'
BY DEF FormUnderLoader

\* The form that ends was the only one.
LEMMA LastForm ==
    ASSUME FormUnderLoader, NEW e \in Edits, InForm(e), ~InForm(e)',
           \A d \in Edits : InForm(d)' => InForm(d)
    PROVE  FormUnderLoader'
BY DEF FormUnderLoader

\* A disturbance stays recorded.
LEMMA Undisturbed ==
    ASSUME [Next]_vars, ~disturbed'
    PROVE  ~disturbed
BY DEF Next, vars, OpenScreen, GoBack, BeginLogout, LogoutFails, SignOut, SignIn, FetchStep, FetchForVisit, FetchRead,
       FetchReturns, FetchFails, EndFetch, EditStep, SaveForm, FormRefused, FieldSent,
       FieldWritten, FieldReturns, ChoosePicture, SourceChosen, NothingChosen, ImagePicked,
       EditFails, Throw

LEMMA ScreensKept ==
    ASSUME OwnerInv, ScreenInv, [Next]_vars
    PROVE  ScreenInv'
<1> SUFFICES ASSUME ~disturbed' PROVE FormUnderLoader' /\ Based(routes)'
  BY DEF ScreenInv
<1>a. TypeOK /\ routes \in Seq(Screens)
  BY DEF OwnerInv, TypeOK
<1>b. ~disturbed
  BY Undisturbed
<1>c. FormUnderLoader /\ Based(routes)
  BY <1>b DEF ScreenInv
<1>d. ASSUME UNCHANGED edit PROVE \A d \in Edits : InForm(d)' => InForm(d)
  BY <1>d DEF InForm
<1>e. ASSUME NEW e \in Edits, NEW p, NEW u, EditAt(e, p, u)
      PROVE  \A d \in Edits : /\ edit'[d].ctl = edit[d].ctl /\ edit'[d].by = edit[d].by
                              /\ d # e => (InForm(d)' <=> InForm(d))
  BY <1>e DEF EditAt, InForm
<1>1. CASE OpenScreen
  <2>1. Top # "loader" /\ UNCHANGED edit
    BY <1>1 DEF OpenScreen
  <2>2. Based(routes')
    BY <1>1, <1>a, <1>c, BasedPush DEF OpenScreen, Screens
  <2> QED BY <1>c, <1>d, <2>1, <2>2, NoFormElsewhere
<1>2. CASE GoBack
  <2>1. Top # "loader" /\ UNCHANGED edit /\ Top \notin {"login", "menu"}
    BY <1>2 DEF GoBack
  <2>2. Based(routes')
    BY <1>2, <1>a, <1>c, <2>1, BasedPop, TopDepth DEF GoBack
  <2> QED BY <1>c, <1>d, <2>1, <2>2, NoFormElsewhere
<1>2a. CASE BeginLogout
  <2>1. Top # "loader" /\ UNCHANGED <<edit, routes>>
    BY <1>2a DEF BeginLogout
  <2> QED BY <1>c, <1>d, <2>1, NoFormElsewhere
<1>2b. CASE LogoutFails
  <2>1. UNCHANGED <<edit, routes, ctl, authUser>> /\ ~loggingOut'
    BY <1>2b DEF LogoutFails
  <2>2. Top' = Top /\ \A d \in Edits : InForm(d)' <=> InForm(d)
    BY <2>1 DEF Top, InForm
  <2> QED BY <1>c, <2>1, <2>2 DEF FormUnderLoader
<1>3. CASE SignOut
  <2>1. \A d \in Edits : ~InForm(d)
    BY <1>3, <1>c DEF SignOut, FormUnderLoader
  <2>2. \A d \in Edits : ~InForm(d)'
    BY <1>3, <1>a, <2>1, EditsDismissed DEF InForm
  <2>3. routes' = <<"login">>
    BY <1>3 DEF SignOut
  <2>4. Based(routes')
    BY <2>3 DEF Based
  <2> QED BY <2>2, <2>4 DEF FormUnderLoader
<1>3a. CASE \E u \in Users : SignIn(u)
  <2>1. Top # "loader" /\ UNCHANGED edit
    BY <1>3a DEF SignIn
  <2>2. routes' = <<"menu">>
    BY <1>3a DEF SignIn
  <2>3. Based(routes')
    BY <2>2 DEF Based
  <2> QED BY <1>c, <1>d, <2>1, <2>3, NoFormElsewhere
<1>4. CASE FetchStep
  <2>1. UNCHANGED <<routes, ctl, authUser, loggingOut, edit>>
    BY <1>4 DEF FetchStep, FetchForVisit, FetchRead, FetchReturns, FetchFails, EndFetch
  <2>2. FormUnderLoader'
    BY <1>c, <1>d, <2>1, FormsStay
  <2> QED BY <1>c, <2>1, <2>2
<1>5. ASSUME NEW e \in Edits, SaveForm(e) PROVE FormUnderLoader' /\ Based(routes)'
  <2>1. /\ edit'[e] = [pc |-> "checking", field |-> "text", ctl |-> ctl, by |-> authUser, to |-> NoUser]
        /\ \A d \in Edits : d # e => edit'[d] = edit[d]
    BY <1>5, <1>a, EditNew DEF SaveForm, Fields
  <2>2. /\ Top = "form" /\ routes' = Append(routes, "loader") /\ UNCHANGED <<ctl, authUser>>
        /\ ~loggingOut'
    BY <1>5 DEF SaveForm
  <2>3. Based(routes') /\ Append(routes, "loader")[Len(Append(routes, "loader"))] = "loader"
    BY <1>a, <1>c, <2>2, BasedPush, TopDepth DEF Screens
  <2>4. Top' = "loader"
    BY <2>2, <2>3 DEF Top, Based
  <2>5. \A d \in Edits : d # e => ~InForm(d)'
    BY <1>c, <2>1, <2>2 DEF FormUnderLoader, InForm
  <2>6. FormUnderLoader'
    BY <2>1, <2>2, <2>4, <2>5 DEF FormUnderLoader
  <2> QED BY <2>3, <2>6
<1>6. ASSUME NEW e \in Edits, FormRefused(e) PROVE FormUnderLoader' /\ Based(routes)'
  <2>1. EditAt(e, "done", edit[e].to) /\ edit[e].pc = "checking" /\ routes' = Pop(routes)
    BY <1>6, <1>a, EditPc DEF FormRefused
  <2>2. InForm(e) /\ ~InForm(e)'
    BY <2>1 DEF OwnerInv, FieldOfCall, InForm, EditAt
  <2>3. Top = "loader"
    BY <1>c, <2>2 DEF FormUnderLoader
  <2>4. Based(routes')
    BY <1>a, <1>c, <2>1, <2>3, BasedPop, TopDepth
  <2> QED BY <1>c, <1>e, <2>1, <2>2, <2>4, LastForm
<1>7. ASSUME NEW e \in Edits, FieldSent(e) PROVE FormUnderLoader' /\ Based(routes)'
  <2>1. EditAt(e, "writing", authUser) /\ edit[e].pc \in {"checking", "uploading"}
        /\ UNCHANGED <<routes, ctl, authUser, loggingOut>>
    BY <1>7, <1>a, EditSent DEF FieldSent, TypeOK
  <2>2. InForm(e)' => InForm(e)
    BY <2>1 DEF OwnerInv, FieldOfCall, InForm, EditAt
  <2>3. \A d \in Edits : InForm(d)' => /\ InForm(d)
                                       /\ edit'[d].ctl = edit[d].ctl /\ edit'[d].by = edit[d].by
    BY <1>e, <2>1, <2>2
  <2> QED BY <1>c, <2>1, <2>3, FormsStay
<1>8. ASSUME NEW e \in Edits, FieldWritten(e) PROVE FormUnderLoader' /\ Based(routes)'
  <2>1. EditAt(e, "written", edit[e].to) /\ edit[e].pc = "writing"
        /\ UNCHANGED <<routes, ctl, authUser, loggingOut>>
    BY <1>8, <1>a, EditPc DEF FieldWritten
  <2>2. InForm(e)' => InForm(e)
    BY <2>1 DEF InForm, EditAt
  <2>3. \A d \in Edits : InForm(d)' => /\ InForm(d)
                                       /\ edit'[d].ctl = edit[d].ctl /\ edit'[d].by = edit[d].by
    BY <1>e, <2>1, <2>2
  <2> QED BY <1>c, <2>1, <2>3, FormsStay
<1>9. ASSUME NEW e \in Edits, FieldReturns(e) PROVE FormUnderLoader' /\ Based(routes)'
  <2>1. EditAt(e, "done", edit[e].to) /\ edit[e].pc = "written" /\ UNCHANGED <<ctl, authUser, loggingOut>>
    BY <1>9, <1>a, EditPc DEF FieldReturns
  <2>2. ~InForm(e)'
    BY <2>1 DEF InForm, EditAt
  <2>3. CASE edit[e].field = "text"
    <3>1. InForm(e) /\ Top = "loader"
      BY <1>c, <2>1, <2>3 DEF InForm, FormUnderLoader
    <3>2. Len(routes) > 2 /\ Len(routes) \in Nat
      BY <1>a, <1>c, <3>1, TopDepth
    <3>3. Based(Pop(routes)) /\ Pop(routes) \in Seq(Screens) /\ Len(Pop(routes)) > 1
      BY <1>a, <1>c, <3>2, BasedPop
    <3>4. Based(Pop(Pop(routes))) /\ Pop(Pop(routes)) \in Seq(Screens)
      BY <3>3, BasedPop
    <3>5. routes' = Append(Pop(Pop(routes)), "profile")
      BY <1>9, <2>3 DEF FieldReturns, Off
    <3>6. Based(routes')
      BY <3>4, <3>5, BasedPush DEF Screens
    <3> QED BY <1>c, <1>e, <2>1, <2>2, <3>1, <3>6, LastForm
  <2>4. CASE edit[e].field # "text"
    <3>1. UNCHANGED routes
      BY <1>9, <2>4 DEF FieldReturns
    <3> QED BY <1>c, <1>e, <2>1, <2>2, <3>1, FormsStay
  <2> QED BY <2>3, <2>4
<1>10. ASSUME NEW e \in Edits, ChoosePicture(e) PROVE FormUnderLoader' /\ Based(routes)'
  <2>1. /\ edit'[e] = [pc |-> "choosing", field |-> "picture", ctl |-> ctl, by |-> authUser, to |-> NoUser]
        /\ \A d \in Edits : d # e => edit'[d] = edit[d]
    BY <1>10, <1>a, EditNew DEF ChoosePicture, Fields
  <2>2. Top = "profile" /\ routes' = Append(routes, "sheet")
    BY <1>10 DEF ChoosePicture
  <2>3. Based(routes')
    BY <1>a, <1>c, <2>2, BasedPush DEF Screens
  <2>4. \A d \in Edits : InForm(d)' => InForm(d)
    BY <2>1 DEF InForm
  <2> QED BY <1>c, <2>2, <2>3, <2>4, NoFormElsewhere
<1>11. ASSUME NEW e \in Edits, SourceChosen(e) PROVE FormUnderLoader' /\ Based(routes)'
  <2>1. EditAt(e, "picking", edit[e].to) /\ Top = "sheet" /\ routes' = Pop(routes)
    BY <1>11, <1>a, EditPc DEF SourceChosen
  <2>2. ~InForm(e)'
    BY <2>1 DEF InForm, EditAt
  <2>3. Based(routes')
    BY <1>a, <1>c, <2>1, BasedPop, TopDepth
  <2> QED BY <1>c, <1>e, <2>1, <2>2, <2>3, NoFormElsewhere
<1>12. ASSUME NEW e \in Edits, NothingChosen(e) PROVE FormUnderLoader' /\ Based(routes)'
  <2>1. EditAt(e, "done", edit[e].to) /\ UNCHANGED <<ctl, authUser, loggingOut>>
    BY <1>12, <1>a, EditPc DEF NothingChosen
  <2>2. ~InForm(e)'
    BY <2>1 DEF InForm, EditAt
  <2>3. CASE Top = "sheet" /\ routes' = Pop(routes)
    <3>1. Based(routes')
      BY <1>a, <1>c, <2>3, BasedPop, TopDepth
    <3> QED BY <1>c, <1>e, <2>1, <2>2, <2>3, <3>1, NoFormElsewhere
  <2>4. CASE UNCHANGED routes
    BY <1>c, <1>e, <2>1, <2>2, <2>4, FormsStay
  <2> QED BY <1>12, <2>3, <2>4 DEF NothingChosen
<1>13. ASSUME NEW e \in Edits, ImagePicked(e) PROVE FormUnderLoader' /\ Based(routes)'
  <2>1. EditAt(e, "uploading", edit[e].to) /\ UNCHANGED <<routes, ctl, authUser, loggingOut>>
    BY <1>13, <1>a, EditPc DEF ImagePicked
  <2>2. ~InForm(e)'
    BY <2>1 DEF InForm, EditAt
  <2> QED BY <1>c, <1>e, <2>1, <2>2, FormsStay
<1>14. ASSUME NEW e \in Edits, EditFails(e) PROVE FormUnderLoader' /\ Based(routes)'
  <2>1. Throw(e) /\ routes' = Pop(routes)
    BY <1>14 DEF EditFails, Throw
  <2>2. edit[e].pc = "writing" /\ edit[e].field = "text"
    <3>1. edit[e].pc # "written" /\ edit[e].field # "picture"
      BY <2>1 DEF Throw
    <3> QED BY <2>1, <3>1 DEF Throw, OwnerInv, TypeOK, EditStates, Fields, FieldOfCall
  <2>3. InForm(e) /\ Top = "loader"
    BY <1>c, <2>2 DEF InForm, FormUnderLoader
  <2>4. /\ edit'[e].pc = "failed"
        /\ \A d \in Edits : edit'[d].field = edit[d].field
        /\ \A d \in Edits \ {e} : edit'[d].pc = edit[d].pc
                                  \/ (edit[d].pc = "choosing" /\ edit'[d].pc = "done")
    BY <2>1, <1>a, EditThrown
  <2>5. ~InForm(e)' /\ \A d \in Edits : InForm(d)' => InForm(d)
    BY <2>4 DEF InForm
  <2>6. Based(routes')
    BY <1>a, <1>c, <2>1, <2>3, BasedPop, TopDepth
  <2> QED BY <1>c, <2>3, <2>5, <2>6, LastForm
<1>15. CASE UNCHANGED vars
  BY <1>15, <1>c, <1>d, FormsStay DEF vars
<1> QED BY <1>1, <1>2, <1>2a, <1>2b, <1>3, <1>3a, <1>4, <1>5, <1>6, <1>7, <1>8, <1>9,
          <1>10, <1>11, <1>12, <1>13,
           <1>14, <1>15 DEF Next, EditStep

-----------------------------------------------------------------------------
(* What is stored.                                                         *)

\* An edit keeps its field, its controller and its author.
LEMMA EditsGoOn ==
    ASSUME OwnerInv, [Next]_vars, NEW d \in Edits, edit[d].pc # "unused"
    PROVE  edit'[d].pc # "unused" /\ edit'[d].by = edit[d].by
<1>a. TypeOK
  BY DEF OwnerInv
<1>1. ASSUME NEW e \in Edits, EditStep(e) PROVE edit'[d].pc # "unused" /\ edit'[d].by = edit[d].by
  <2>1. CASE SaveForm(e) \/ ChoosePicture(e)
    <3>1. edit[e].pc = "unused" /\ \A c \in Edits : c # e => edit'[c] = edit[c]
      BY <2>1, <1>a, EditNew DEF SaveForm, ChoosePicture, Fields
    <3> QED BY <3>1
  <2>2. ASSUME NEW p \in {"writing", "written", "done", "failed", "picking", "uploading"}, NEW u,
               EditAt(e, p, u)
        PROVE  edit'[d].pc # "unused" /\ edit'[d].by = edit[d].by
    BY <2>2 DEF EditAt
  <2>3. CASE FieldSent(e)
    BY <2>2, <2>3, <1>a, EditSent DEF FieldSent, TypeOK
  <2>4. CASE FormRefused(e) \/ FieldReturns(e) \/ NothingChosen(e)
    BY <2>2, <2>4, <1>a, EditPc DEF FormRefused, FieldReturns, NothingChosen
  <2>5. CASE FieldWritten(e)
    BY <2>2, <2>5, <1>a, EditPc DEF FieldWritten
  <2>6. CASE SourceChosen(e)
    BY <2>2, <2>6, <1>a, EditPc DEF SourceChosen
  <2>7. CASE ImagePicked(e)
    BY <2>2, <2>7, <1>a, EditPc DEF ImagePicked
  <2>8. CASE EditFails(e)
    <3>1. /\ edit'[e].pc = "failed"
          /\ \A c \in Edits : edit'[c].by = edit[c].by
          /\ \A c \in Edits \ {e} : edit'[c].pc = edit[c].pc
                                    \/ (edit[c].pc = "choosing" /\ edit'[c].pc = "done")
      BY <2>8, <1>a, EditThrown DEF EditFails
    <3> QED BY <3>1
  <2> QED BY <1>1, <2>1, <2>3, <2>4, <2>5, <2>6, <2>7, <2>8 DEF EditStep
<1>2. CASE UNCHANGED edit
  BY <1>2
<1>4. CASE SignOut
  BY <1>4, <1>a, EditsDismissed
<1>3. OpenScreen \/ GoBack \/ BeginLogout \/ LogoutFails \/ FetchStep \/ UNCHANGED vars \/ (\E u \in Users : SignIn(u))
        => UNCHANGED edit
  BY DEF OpenScreen, GoBack, BeginLogout, LogoutFails, SignIn, FetchStep, FetchForVisit, FetchRead, FetchReturns,
         FetchFails, EndFetch, vars
<1> QED BY <1>1, <1>2, <1>3, <1>4 DEF Next

\* Only a write changes a record.
LEMMA RecordsChange ==
    ASSUME [Next]_vars
    PROVE  UNCHANGED record \/ \E e \in Edits : FieldWritten(e)
BY DEF Next, vars, OpenScreen, GoBack, BeginLogout, LogoutFails, SignOut, SignIn, FetchStep, FetchForVisit, FetchRead,
       FetchReturns, FetchFails, EndFetch, EditStep, SaveForm, FormRefused, FieldSent,
       FieldReturns, ChoosePicture, SourceChosen, NothingChosen, ImagePicked,
       EditFails, Throw

\* A write changes one field of one record.
LEMMA WriteFacts ==
    ASSUME TypeOK, NEW e \in Edits, FieldWritten(e)
    PROVE  /\ edit[e].to \in Users /\ edit[e].field \in Fields
           /\ EditAt(e, "written", edit[e].to) /\ edit[e].pc = "writing"
           /\ \A u \in Users, f \in Fields :
                record'[u][f] = IF u = edit[e].to /\ f = edit[e].field THEN e ELSE record[u][f]
           /\ \A u \in Users : u # edit[e].to => record'[u] = record[u]
<1>1. edit[e].to \in Users /\ edit[e].field \in Fields
  BY DEF FieldWritten, TypeOK, EditStates
<1>2. EditAt(e, "written", edit[e].to) /\ edit[e].pc = "writing"
  BY EditPc DEF FieldWritten
<1>3. record \in [Users -> [Fields -> Edits \cup {0}]]
      /\ record' = [record EXCEPT ![edit[e].to][edit[e].field] = e]
  BY DEF TypeOK, FieldWritten, Records
<1>4. \A u \in Users : record'[u] = IF u = edit[e].to THEN [record[u] EXCEPT ![edit[e].field] = e]
                                                       ELSE record[u]
  BY <1>1, <1>3
<1>5. \A u \in Users, f \in Fields :
         record'[u][f] = IF u = edit[e].to /\ f = edit[e].field THEN e ELSE record[u][f]
  BY <1>1, <1>3, <1>4
<1> QED BY <1>1, <1>2, <1>4, <1>5

\* A form that is written under its loader is written for its author.
LEMMA FormWrittenForAuthor ==
    ASSUME OwnerInv, FormUnderLoader, NEW e \in Edits, edit[e].pc = "writing", edit[e].field = "text"
    PROVE  edit[e].to = authUser /\ edit[e].by = authUser /\ edit[e].ctl = ctl
BY DEF OwnerInv, FormUnderLoader, InForm, SentAsSession

LEMMA StoredKept ==
    ASSUME OwnerInv, ScreenInv, StoredByEdit, [Next]_vars
    PROVE  StoredByEdit'
<1>a. \A u \in Users, f \in Fields : record[u][f] \in Edits \cup {0}
  BY DEF OwnerInv, TypeOK, Records
<1>b. "text" \in Fields
  BY DEF Fields
<1>1. CASE UNCHANGED record
  <2>1. \A u \in Users, f \in Fields : record[u][f] # 0 =>
           /\ edit'[record[u][f]].pc # "unused" /\ edit'[record[u][f]].by = edit[record[u][f]].by
    BY <1>a, EditsGoOn DEF StoredByEdit
  <2> QED BY <1>1, <1>b, <2>1, Undisturbed DEF StoredByEdit
<1>2. ASSUME NEW e \in Edits, FieldWritten(e) PROVE StoredByEdit'
  <2>1. /\ edit[e].to \in Users /\ edit[e].field \in Fields
        /\ EditAt(e, "written", edit[e].to) /\ edit[e].pc = "writing"
        /\ \A u \in Users, f \in Fields :
             record'[u][f] = IF u = edit[e].to /\ f = edit[e].field THEN e ELSE record[u][f]
    BY <1>2, WriteFacts DEF OwnerInv
  <2>2. \A u \in Users, f \in Fields : record[u][f] # 0 =>
           /\ edit'[record[u][f]].pc # "unused" /\ edit'[record[u][f]].by = edit[record[u][f]].by
    BY <1>a, EditsGoOn DEF StoredByEdit
  <2>3. edit'[e].pc # "unused" /\ edit'[e].by = edit[e].by
    BY <2>1 DEF EditAt
  <2>4. \A u \in Users, f \in Fields : record'[u][f] # 0 => edit'[record'[u][f]].pc # "unused"
    BY <2>1, <2>2, <2>3
  <2>5. ASSUME ~disturbed', NEW u \in Users, record'[u]["text"] # 0
        PROVE  edit'[record'[u]["text"]].by = u
    <3>1. ~disturbed
      BY <2>5, Undisturbed
    <3>2. CASE u = edit[e].to /\ edit[e].field = "text"
      <4>1. edit[e].by = u
        BY <2>1, <3>1, <3>2, FormWrittenForAuthor DEF ScreenInv
      <4>2. record'[u]["text"] = e
        BY <2>1, <3>2
      <4> QED BY <2>3, <4>1, <4>2
    <3>3. CASE ~(u = edit[e].to /\ edit[e].field = "text")
      <4>1. record'[u]["text"] = record[u]["text"]
        BY <1>b, <2>1, <3>3
      <4>2. edit[record[u]["text"]].by = u
        BY <2>5, <3>1, <4>1 DEF StoredByEdit
      <4> QED BY <1>b, <2>2, <2>5, <4>1, <4>2
    <3> QED BY <3>2, <3>3
  <2> QED BY <2>4, <2>5 DEF StoredByEdit
<1> QED BY <1>1, <1>2, RecordsChange

-----------------------------------------------------------------------------
(* The copy and the record.                                                *)

\* A step that leaves records, fetches and copies alone, and the edits that
\* are between their write and their answer.
LEMMA CurrentStays ==
    ASSUME Current, UNCHANGED <<record, fetch, user, ctl, authUser>>,
           \A d \in Edits : /\ edit'[d].pc = "written" <=> edit[d].pc = "written"
                            /\ edit[d].pc = "written" =>
                                 /\ edit'[d].to = edit[d].to /\ edit'[d].ctl = edit[d].ctl
                                 /\ edit'[d].field = edit[d].field
    PROVE  Current'
<1>1. \A e \in Edits : edit'[e].pc = "written" =>
          edit'[e].to \in Users /\ record'[edit'[e].to][edit'[e].field] = e
  BY DEF Current
<1>2. \A i \in Fetches : fetch'[i].pc = "read" /\ fetch'[i].as # NoUser =>
          fetch'[i].answer.val = record'[fetch'[i].as]
  BY DEF Current
<1>3. ASSUME user'[ctl'].id # NoUser, NEW f \in Fields
      PROVE  \/ user'[ctl'].val[f] = record'[authUser'][f]
             \/ \E e \in Edits : edit'[e].pc = "written" /\ edit'[e].ctl = ctl' /\ edit'[e].field = f
  <2>1. \/ user[ctl].val[f] = record[authUser][f]
        \/ \E e \in Edits : edit[e].pc = "written" /\ edit[e].ctl = ctl /\ edit[e].field = f
    BY <1>3 DEF Current
  <2> QED BY <2>1
<1> QED BY <1>1, <1>2, <1>3 DEF Current

\* An edit that neither was nor is between its write and its answer.
LEMMA OtherEdit ==
    ASSUME NEW e \in Edits, NEW p, NEW u, EditAt(e, p, u), p # "written", edit[e].pc # "written"
    PROVE  \A d \in Edits : /\ edit'[d].pc = "written" <=> edit[d].pc = "written"
                            /\ edit[d].pc = "written" =>
                                 /\ edit'[d].to = edit[d].to /\ edit'[d].ctl = edit[d].ctl
                                 /\ edit'[d].field = edit[d].field
BY DEF EditAt

LEMMA CopiesKept ==
    ASSUME OwnerInv, ScreenInv, CopyInv, [Next]_vars
    PROVE  CopyInv'
<1> SUFFICES ASSUME ~disturbed' PROVE Current'
  BY DEF CopyInv
<1>a. TypeOK /\ ctl \in Controllers /\ ctl \in Nat
  BY ControllersOrder DEF OwnerInv, TypeOK
<1>b. ~disturbed
  BY Undisturbed
<1>c. Current
  BY <1>b DEF CopyInv
<1>d. user[ctl].id \in {authUser, NoUser}
  BY DEF OwnerInv, CopiesOwned
<1>1. CASE OpenScreen \/ GoBack \/ BeginLogout \/ LogoutFails \/ UNCHANGED vars
  BY <1>1, <1>c, CurrentStays DEF OpenScreen, GoBack, BeginLogout, LogoutFails, vars
<1>2. CASE SignOut \/ \E u \in Users : SignIn(u)
  <2>1. PICK v \in Users \cup {NoUser} : NewController(v) /\ UNCHANGED <<user, record>>
    BY <1>2 DEF SignOut, SignIn
  <2>6. \A d \in Edits : edit'[d].pc = "written" =>
          /\ edit[d].pc = "written" /\ edit'[d].to = edit[d].to /\ edit'[d].field = edit[d].field
    BY <1>2, <1>a, EditsDismissed DEF SignIn
  <2>2. ctl' = ctl + 1 /\ ctl' \in Controllers
    BY <2>1, ProfileAssumption DEF NewController, OwnerInv, TypeOK, Controllers
  <2>3. PICK i \in Fetches : BeginFetch(i, ctl + 1, v)
    BY <2>1 DEF NewController
  <2>4. /\ fetch'[i] = [pc |-> "asked", ctl |-> ctl + 1, as |-> v, answer |-> Empty]
        /\ \A j \in Fetches : j # i => fetch'[j] = fetch[j]
    BY <1>a, <2>2, <2>3, FetchNew
  <2>5. user'[ctl'].id = NoUser
    BY <1>a, <2>1, <2>2 DEF OwnerInv, CopiesOwned
  <2> QED BY <1>c, <2>1, <2>4, <2>5, <2>6 DEF Current
<1>3. ASSUME NEW i \in Fetches, FetchForVisit(i) PROVE Current'
  <2>1. UNCHANGED <<authUser, ctl, user, edit, record>>
    BY <1>3 DEF FetchForVisit
  <2>2. /\ fetch'[i] = [pc |-> "asked", ctl |-> ctl, as |-> authUser, answer |-> Empty]
        /\ \A j \in Fetches : j # i => fetch'[j] = fetch[j]
    BY <1>a, <1>3, FetchNew DEF FetchForVisit, TypeOK
  <2> QED BY <1>c, <2>1, <2>2 DEF Current
<1>4. ASSUME NEW i \in Fetches, FetchRead(i) PROVE Current'
  <2>1. UNCHANGED <<authUser, ctl, user, edit, record>>
    BY <1>4 DEF FetchRead
  <2> DEFINE a == IF fetch[i].as = NoUser THEN Empty ELSE [id |-> fetch[i].as, val |-> record[fetch[i].as]]
  <2>2. a \in Copies /\ (fetch[i].as # NoUser => a.val = record[fetch[i].as])
    BY EmptyTyped, <1>a DEF TypeOK, FetchStates, Copies
  <2>3. fetch' = [fetch EXCEPT ![i].pc = "read", ![i].answer = a]
    BY <1>4 DEF FetchRead
  <2> HIDE DEF a
  <2>4. /\ fetch'[i].answer = a /\ fetch'[i].as = fetch[i].as
        /\ \A j \in Fetches : j # i => fetch'[j] = fetch[j]
    BY <2>2, <2>3, <1>a, FetchMoves
  <2> QED BY <1>c, <2>1, <2>2, <2>4 DEF Current
<1>5. ASSUME NEW i \in Fetches, NEW a \in Copies, EndFetch(i, a), fetch[i].pc # "unused",
             a.id # NoUser => fetch[i].as = a.id /\ a.val = record[fetch[i].as]
      PROVE  Current'
  <2>1. UNCHANGED <<authUser, ctl, edit, record>>
    BY <1>5 DEF EndFetch
  <2>2. /\ fetch'[i].pc = "done" /\ \A j \in Fetches : j # i => fetch'[j] = fetch[j]
    BY <1>5, <1>a, FetchMoves, EmptyTyped DEF EndFetch
  <2>3. user'[ctl] = IF ctl = fetch[i].ctl THEN a ELSE user[ctl]
    BY <1>5, <1>a DEF EndFetch, TypeOK
  <2>4. fetch[i].ctl = ctl => fetch[i].as = authUser
    BY <1>5 DEF OwnerInv, FetchesOfSession
  <2>5. ASSUME user'[ctl'].id # NoUser, NEW f \in Fields
        PROVE  \/ user'[ctl'].val[f] = record'[authUser'][f]
               \/ \E e \in Edits : edit'[e].pc = "written" /\ edit'[e].ctl = ctl' /\ edit'[e].field = f
    <3>1. CASE fetch[i].ctl = ctl
      BY <1>5, <2>1, <2>3, <2>4, <2>5, <3>1
    <3>2. CASE fetch[i].ctl # ctl
      BY <1>c, <2>1, <2>3, <2>5, <3>2 DEF Current
    <3> QED BY <3>1, <3>2
  <2> QED BY <1>c, <2>1, <2>2, <2>5 DEF Current
<1>6. ASSUME NEW i \in Fetches, FetchReturns(i) \/ FetchFails(i) PROVE Current'
  <2>1. fetch[i].answer \in Copies /\ fetch[i].answer.id \in {fetch[i].as, NoUser}
    BY DEF OwnerInv, TypeOK, FetchStates, FetchesOfSession
  <2>2. CASE FetchReturns(i)
    <3>1. fetch[i].pc = "read" /\ EndFetch(i, fetch[i].answer)
      BY <2>2 DEF FetchReturns
    <3>2. fetch[i].answer.id # NoUser =>
             fetch[i].as = fetch[i].answer.id /\ fetch[i].answer.val = record[fetch[i].as]
      BY <1>c, <2>1, <3>1 DEF Current
    <3> QED BY <1>5, <2>1, <3>1, <3>2
  <2>3. CASE FetchFails(i)
    BY <1>5, <2>3, EmptyTyped DEF FetchFails
  <2> QED BY <1>6, <2>2, <2>3
<1>7. ASSUME NEW e \in Edits, SaveForm(e) \/ ChoosePicture(e) PROVE Current'
  <2>1. UNCHANGED <<record, fetch, user, ctl, authUser>>
    BY <1>7 DEF SaveForm, ChoosePicture
  <2>2. /\ edit[e].pc = "unused" /\ edit'[e].pc \in {"checking", "choosing"}
        /\ \A d \in Edits : d # e => edit'[d] = edit[d]
    BY <1>7, <1>a, EditNew DEF SaveForm, ChoosePicture, Fields
  <2> QED BY <1>c, <2>1, <2>2, CurrentStays
<1>8. ASSUME NEW e \in Edits, FormRefused(e) \/ NothingChosen(e) \/ FieldSent(e)
                              \/ SourceChosen(e) \/ ImagePicked(e)
      PROVE  Current'
  <2>1. UNCHANGED <<record, fetch, user, ctl, authUser>> /\ edit[e].pc # "written"
    BY <1>8 DEF FormRefused, NothingChosen, FieldSent, SourceChosen, ImagePicked
  <2>2. \E p \in {"done", "writing", "picking", "uploading"}, u \in Users \cup {NoUser} : EditAt(e, p, u)
    <3>1. edit[e].to \in Users \cup {NoUser} /\ authUser \in Users \cup {NoUser}
      BY <1>a DEF TypeOK, EditStates
    <3>2. CASE FieldSent(e)
      BY <1>a, <3>1, <3>2, EditSent DEF FieldSent
    <3>3. CASE FormRefused(e) \/ NothingChosen(e)
      BY <1>a, <3>1, <3>3, EditPc DEF FormRefused, NothingChosen
    <3>4. CASE SourceChosen(e)
      BY <1>a, <3>1, <3>4, EditPc DEF SourceChosen
    <3>5. CASE ImagePicked(e)
      BY <1>a, <3>1, <3>5, EditPc DEF ImagePicked
    <3> QED BY <1>8, <3>2, <3>3, <3>4, <3>5
  <2> QED BY <1>c, <2>1, <2>2, OtherEdit, CurrentStays
<1>9. ASSUME NEW e \in Edits, FieldWritten(e) PROVE Current'
  <2>1. /\ edit[e].to \in Users /\ edit[e].field \in Fields
        /\ EditAt(e, "written", edit[e].to) /\ edit[e].pc = "writing"
        /\ \A u \in Users, f \in Fields :
             record'[u][f] = IF u = edit[e].to /\ f = edit[e].field THEN e ELSE record[u][f]
        /\ \A u \in Users : u # edit[e].to => record'[u] = record[u]
    BY <1>9, <1>a, WriteFacts
  <2>2. UNCHANGED <<fetch, user, ctl, authUser>> /\ ~Overlaps(e)
    BY <1>9 DEF FieldWritten
  <2>3. edit[e].ctl = ctl /\ edit[e].to = authUser
    <3>1. CASE edit[e].field = "text"
      BY <1>b, <2>1, <3>1, FormWrittenForAuthor DEF ScreenInv
    <3>2. CASE edit[e].field = "picture"
      BY <2>1, <2>2, <3>2 DEF Overlaps, OwnerInv, SentAsSession
    <3> QED BY <2>1, <3>1, <3>2 DEF Fields
  <2>4. ASSUME NEW d \in Edits, edit'[d].pc = "written"
        PROVE  edit'[d].to \in Users /\ record'[edit'[d].to][edit'[d].field] = d
    <3>1. CASE d = e
      BY <2>1, <3>1 DEF EditAt
    <3>2. CASE d # e
      <4>1. edit'[d] = edit[d] /\ edit[d].pc = "written"
        BY <2>1, <2>4, <3>2 DEF EditAt
      <4>2. edit[d].field # edit[e].field /\ edit[d].field \in Fields
        BY <1>a, <2>2, <4>1 DEF Overlaps, TypeOK, EditStates
      <4>3. edit[d].to \in Users /\ record[edit[d].to][edit[d].field] = d
        BY <1>c, <4>1 DEF Current
      <4> QED BY <2>1, <4>1, <4>2, <4>3
    <3> QED BY <3>1, <3>2
  <2>5. ASSUME NEW i \in Fetches, fetch'[i].pc = "read", fetch'[i].as # NoUser
        PROVE  fetch'[i].answer.val = record'[fetch'[i].as]
    <3>1. fetch[i].as # edit[e].to /\ fetch[i].as \in Users
      BY <1>a, <2>2, <2>5 DEF Overlaps, TypeOK, FetchStates
    <3> QED BY <1>c, <2>1, <2>2, <2>5, <3>1 DEF Current
  <2>6. ASSUME user'[ctl'].id # NoUser, NEW f \in Fields
        PROVE  \/ user'[ctl'].val[f] = record'[authUser'][f]
               \/ \E d \in Edits : edit'[d].pc = "written" /\ edit'[d].ctl = ctl' /\ edit'[d].field = f
    <3>1. CASE f = edit[e].field
      BY <2>1, <2>2, <2>3, <3>1 DEF EditAt
    <3>2. CASE f # edit[e].field
      <4>1. record'[authUser][f] = record[authUser][f]
        BY <2>1, <2>3, <3>2
      <4>2. \A d \in Edits : edit[d].pc = "written" => edit'[d] = edit[d]
        BY <2>1 DEF EditAt
      <4>3. \/ user[ctl].val[f] = record[authUser][f]
            \/ \E d \in Edits : edit[d].pc = "written" /\ edit[d].ctl = ctl /\ edit[d].field = f
        BY <1>c, <2>2, <2>6 DEF Current
      <4> QED BY <2>2, <4>1, <4>2, <4>3
    <3> QED BY <3>1, <3>2
  <2> QED BY <2>4, <2>5, <2>6 DEF Current
<1>10. ASSUME NEW e \in Edits, FieldReturns(e) PROVE Current'
  <2>1. EditAt(e, "done", edit[e].to) /\ edit[e].pc = "written"
        /\ UNCHANGED <<record, fetch, ctl, authUser>>
    BY <1>10, <1>a, EditPc DEF FieldReturns
  <2>2. edit[e].to \in Users /\ record[edit[e].to][edit[e].field] = e /\ edit[e].field \in Fields
    BY <1>a, <1>c, <2>1 DEF Current, TypeOK, EditStates
  <2>3. user'[ctl] = IF ctl = edit[e].ctl THEN [user[ctl] EXCEPT !.val[edit[e].field] = e] ELSE user[ctl]
    BY <1>10, <1>a DEF FieldReturns, TypeOK
  <2>4. edit[e].ctl = ctl => edit[e].to = authUser
    BY <2>1 DEF OwnerInv, SentAsSession
  <2>5. ASSUME user'[ctl'].id # NoUser, NEW f \in Fields
        PROVE  \/ user'[ctl'].val[f] = record'[authUser'][f]
               \/ \E d \in Edits : edit'[d].pc = "written" /\ edit'[d].ctl = ctl' /\ edit'[d].field = f
    <3>0. user[ctl] \in [id : Users \cup {NoUser}, val : [Fields -> Edits \cup {0}]]
      BY <1>a DEF TypeOK, Copies, Records
    <3>1. user'[ctl].id = user[ctl].id
      BY <2>3, <3>0
    <3>2. CASE edit[e].ctl = ctl /\ f = edit[e].field
      <4>1. user'[ctl].val[f] = e
        BY <2>2, <2>3, <3>0, <3>2
      <4> QED BY <2>1, <2>2, <2>4, <3>2, <4>1
    <3>3. CASE ~(edit[e].ctl = ctl /\ f = edit[e].field)
      <4>1. user'[ctl].val[f] = user[ctl].val[f]
        BY <2>2, <2>3, <3>0, <3>3
      <4>2. \/ user[ctl].val[f] = record[authUser][f]
            \/ \E d \in Edits : edit[d].pc = "written" /\ edit[d].ctl = ctl /\ edit[d].field = f
        BY <1>c, <2>1, <2>5, <3>1 DEF Current
      <4>3. \A d \in Edits : edit[d].pc = "written" /\ edit[d].ctl = ctl /\ edit[d].field = f
                             => edit'[d] = edit[d]
        BY <2>1, <3>3 DEF EditAt
      <4> QED BY <2>1, <4>1, <4>2, <4>3
    <3> QED BY <3>2, <3>3
  <2>6. \A d \in Edits : edit'[d].pc = "written" => edit'[d] = edit[d]
    BY <2>1 DEF EditAt
  <2> QED BY <1>c, <2>1, <2>5, <2>6 DEF Current
<1>11. ASSUME NEW e \in Edits, EditFails(e) PROVE Current'
  <2>1. Throw(e) /\ UNCHANGED <<record, fetch, user, ctl, authUser>>
    BY <1>11 DEF EditFails, Throw
  <2>2. edit[e].pc # "written"
    BY <2>1 DEF Throw
  <2>3. /\ edit'[e].pc = "failed"
        /\ \A d \in Edits : /\ edit'[d].field = edit[d].field /\ edit'[d].ctl = edit[d].ctl
                            /\ edit'[d].to = edit[d].to
        /\ \A d \in Edits \ {e} : edit'[d].pc = edit[d].pc
                                  \/ (edit[d].pc = "choosing" /\ edit'[d].pc = "done")
    BY <2>1, <1>a, EditThrown
  <2> QED BY <1>c, <2>1, <2>2, <2>3, CurrentStays
<1> QED BY <1>1, <1>2, <1>3, <1>4, <1>6, <1>7, <1>8, <1>9, <1>10, <1>11 DEF Next, FetchStep, EditStep

-----------------------------------------------------------------------------
(* The theorems.                                                           *)

LEMMA InitHolds == Init => ProfileInv
<1> SUFFICES ASSUME Init PROVE ProfileInv
  OBVIOUS
<1>1. TypeOK
  BY InitTypes
<1>2. ctl = 1 /\ ctl \in Controllers /\ ctl \in 1..ctl
  BY ProfileAssumption DEF Init, Controllers
<1>3. /\ \A e \in Edits : edit[e].pc = "unused"
      /\ \A i \in Fetches : /\ fetch[i].pc # "unused" => fetch[i].ctl = 1 /\ fetch[i].as = authUser
                            /\ fetch[i].pc # "read" /\ fetch[i].answer = Empty
      /\ \A c \in Controllers : user[c] = Empty
      /\ \A u \in Users, f \in Fields : record[u][f] = 0
  BY DEF Init
<1>4. OwnerInv
  BY <1>1, <1>2, <1>3, EmptyTyped DEF OwnerInv, CallsPlaced, FetchesOfSession, CopiesOwned,
                                      FieldOfCall, SentAsSession
<1>5. FormUnderLoader
  BY <1>3 DEF FormUnderLoader, InForm
<1>6. Based(routes)
  BY DEF Init, Based
<1>7. StoredByEdit
  BY <1>3 DEF StoredByEdit, Fields
<1>8. Current
  BY <1>2, <1>3, EmptyTyped DEF Current
<1> QED BY <1>4, <1>5, <1>6, <1>7, <1>8 DEF ProfileInv, ScreenInv, CopyInv

\* The invariant the properties rest on: fetches, edits and copies belong to
\* the session of their controller, a form is saved alone under its loader,
\* and what was read or written is still stored, unless calls met.
THEOREM ProfileInvariant == Spec => []ProfileInv
<1>1. Init => ProfileInv
  BY InitHolds
<1>2. ProfileInv /\ [Next]_vars => ProfileInv'
  BY OwnersKept, ScreensKept, StoredKept, CopiesKept DEF ProfileInv
<1> QED BY <1>1, <1>2, PTL DEF Spec

\* Every state of the profile has the declared types.
THEOREM ProfileTypes == Spec => []TypeOK
<1>1. ProfileInv => TypeOK
  BY DEF ProfileInv, OwnerInv
<1> QED BY <1>1, ProfileInvariant, PTL

\* However late the fetches of earlier sessions answer, fetchUserRecord shows
\* a signed-in user his own record or none.
THEOREM OwnRecordShown == Spec => []ShowsOwnRecord
<1>1. ProfileInv => ShowsOwnRecord
  BY DEF ProfileInv, OwnerInv, CopiesOwned, ShowsOwnRecord
<1> QED BY <1>1, ProfileInvariant, PTL

\* What one of the four forms saved is in the record of the user who filled it
\* in, unless calls met.
THEOREM FormsSavedForAuthor == Spec => []TextIsOwn
<1>1. ProfileInv => TextIsOwn
  BY DEF ProfileInv, StoredByEdit, TextIsOwn
<1> QED BY <1>1, ProfileInvariant, PTL

\* The copy of the UserController agrees with the record, unless calls met.
THEOREM CopyIsCurrent == Spec => []CopyAgrees
<1>1. ProfileInv => CopyAgrees
  <2> SUFFICES ASSUME ProfileInv, ~disturbed, authUser # NoUser, user[ctl].id # NoUser,
                      NEW f \in Fields,
                      \A e \in Edits : edit[e].field = f => edit[e].pc # "written"
               PROVE  user[ctl].val[f] = record[authUser][f]
    BY DEF CopyAgrees
  <2> QED BY DEF ProfileInv, CopyInv, Current
<1> QED BY <1>1, ProfileInvariant, PTL

\* stopLoading never closes the last screen, unless an upload failed.
THEOREM AScreenIsLeft == Spec => []ScreenUnlessUploadFails
<1>1. ProfileInv => ScreenUnlessUploadFails
  BY DEF ProfileInv, ScreenInv, Based, ScreenUnlessUploadFails
<1> QED BY <1>1, ProfileInvariant, PTL

\* Each part of ShimmerMeansWork: the fetches behind profileLoading ...
LoadingMeansFetch ==
    \A c \in Controllers : profileLoading[c] =>
        \E i \in Fetches : fetch[i].ctl = c /\ fetch[i].pc \in {"asked", "read"}

\* ... and the uploads behind imageUploading.
UploadingMeansEdit ==
    \A c \in Controllers : imageUploading[c] =>
        \E e \in Edits : /\ edit[e].ctl = c /\ edit[e].field = "picture"
                         /\ edit[e].pc \in {"uploading", "writing", "written"}

LEMMA LoadingKept ==
    ASSUME OwnerInv, LoadingMeansFetch, [Next]_vars
    PROVE  LoadingMeansFetch'
<1>a. TypeOK /\ profileLoading \in [Controllers -> BOOLEAN]
  BY DEF OwnerInv, TypeOK
<1>1. ASSUME NEW i \in Fetches, NEW c \in Controllers, NEW u \in Users \cup {NoUser},
             BeginFetch(i, c, u)
      PROVE  LoadingMeansFetch'
  <2>1. /\ fetch[i].pc = "unused"
        /\ fetch'[i] = [pc |-> "asked", ctl |-> c, as |-> u, answer |-> Empty]
        /\ \A j \in Fetches : j # i => fetch'[j] = fetch[j]
    BY <1>1, <1>a, FetchNew
  <2>2. profileLoading' = [profileLoading EXCEPT ![c] = TRUE]
    BY <1>1 DEF BeginFetch
  <2>3. \A b \in Controllers : b # c => profileLoading'[b] = profileLoading[b]
    BY <1>a, <2>2
  <2> QED BY <2>1, <2>3 DEF LoadingMeansFetch
<1>2. ASSUME NEW i \in Fetches, FetchRead(i) PROVE LoadingMeansFetch'
  <2> DEFINE a == IF fetch[i].as = NoUser THEN Empty ELSE [id |-> fetch[i].as, val |-> record[fetch[i].as]]
  <2>1. a \in Copies
    BY EmptyTyped, <1>a DEF TypeOK, FetchStates, Copies
  <2>2. fetch' = [fetch EXCEPT ![i].pc = "read", ![i].answer = a] /\ UNCHANGED profileLoading
    BY <1>2 DEF FetchRead
  <2> HIDE DEF a
  <2>3. /\ fetch'[i].pc = "read" /\ fetch'[i].ctl = fetch[i].ctl
        /\ \A j \in Fetches : j # i => fetch'[j] = fetch[j]
    BY <2>1, <2>2, <1>a, FetchMoves
  <2>4. \A b \in Controllers : profileLoading'[b] = profileLoading[b]
    BY <2>2
  <2> QED BY <2>3, <2>4 DEF LoadingMeansFetch
<1>3. ASSUME NEW i \in Fetches, FetchReturns(i) \/ FetchFails(i) PROVE LoadingMeansFetch'
  <2>1. /\ fetch' = [fetch EXCEPT ![i].pc = "done", ![i].answer = Empty]
        /\ profileLoading' = [profileLoading EXCEPT ![fetch[i].ctl] = FALSE]
    BY <1>3 DEF FetchReturns, FetchFails, EndFetch
  <2>2. \A j \in Fetches : j # i => fetch'[j] = fetch[j]
    BY <2>1, <1>a, FetchMoves, EmptyTyped
  <2>3. \A b \in Controllers : profileLoading'[b] => b # fetch[i].ctl /\ profileLoading[b]
    BY <1>a, <2>1
  <2> QED BY <2>2, <2>3 DEF LoadingMeansFetch
<1>4. CASE UNCHANGED <<fetch, profileLoading>>
  BY <1>4 DEF LoadingMeansFetch
<1>5. CASE \E i \in Fetches : FetchForVisit(i)
  BY <1>1, <1>5 DEF FetchForVisit, OwnerInv, TypeOK
<1>6. CASE SignOut \/ \E u \in Users : SignIn(u)
  <2>1. PICK u \in Users \cup {NoUser} : NewController(u)
    BY <1>6 DEF SignOut, SignIn
  <2>2. ctl + 1 \in Controllers
    BY <2>1, ProfileAssumption DEF NewController, OwnerInv, TypeOK, Controllers
  <2> QED BY <1>1, <2>1, <2>2 DEF NewController
<1>7. OpenScreen \/ GoBack \/ BeginLogout \/ LogoutFails \/ UNCHANGED vars \/ (\E e \in Edits : EditStep(e))
        => UNCHANGED <<fetch, profileLoading>>
  BY DEF OpenScreen, GoBack, BeginLogout, LogoutFails, vars, EditStep, SaveForm, FormRefused, FieldSent, FieldWritten,
         FieldReturns, ChoosePicture, SourceChosen, NothingChosen, ImagePicked, EditFails, Throw
<1> QED BY <1>2, <1>3, <1>4, <1>5, <1>6, <1>7 DEF Next, FetchStep

LEMMA UploadingKept ==
    ASSUME OwnerInv, UploadingMeansEdit, [Next]_vars
    PROVE  UploadingMeansEdit'
<1> DEFINE Busy == {"uploading", "writing", "written"}
<1>a. TypeOK /\ imageUploading \in [Controllers -> BOOLEAN]
  BY DEF OwnerInv, TypeOK
<1>1. CASE UNCHANGED <<edit, imageUploading>>
  BY <1>1 DEF UploadingMeansEdit
<1>2. ASSUME NEW e \in Edits, SaveForm(e) \/ ChoosePicture(e) PROVE UploadingMeansEdit'
  <2>1. /\ edit[e].pc = "unused" /\ \A d \in Edits : d # e => edit'[d] = edit[d]
        /\ UNCHANGED imageUploading
    BY <1>2, <1>a, EditNew DEF SaveForm, ChoosePicture, Fields
  <2> QED BY <2>1 DEF UploadingMeansEdit
<1>3. ASSUME NEW e \in Edits, NEW p, NEW u, EditAt(e, p, u), UNCHANGED imageUploading,
             edit[e].pc \in Busy /\ edit[e].field = "picture" => p \in Busy
      PROVE  UploadingMeansEdit'
  BY <1>3 DEF EditAt, UploadingMeansEdit
<1>4. ASSUME NEW e \in Edits, FormRefused(e) PROVE UploadingMeansEdit'
  BY <1>3, <1>4, <1>a, EditPc DEF FormRefused
<1>5. ASSUME NEW e \in Edits, FieldSent(e) PROVE UploadingMeansEdit'
  BY <1>3, <1>5, <1>a, EditSent DEF FieldSent, TypeOK
<1>6. ASSUME NEW e \in Edits, FieldWritten(e) PROVE UploadingMeansEdit'
  BY <1>3, <1>6, <1>a, EditPc DEF FieldWritten
<1>7. ASSUME NEW e \in Edits, SourceChosen(e) PROVE UploadingMeansEdit'
  BY <1>3, <1>7, <1>a, EditPc DEF SourceChosen
<1>8. ASSUME NEW e \in Edits, NEW p, NEW u, EditAt(e, p, u),
             imageUploading' = [imageUploading EXCEPT ![edit[e].ctl] = FALSE]
      PROVE  UploadingMeansEdit'
  <2>1. \A b \in Controllers : imageUploading'[b] => b # edit[e].ctl /\ imageUploading[b]
    BY <1>8, <1>a
  <2> QED BY <1>8, <2>1 DEF EditAt, UploadingMeansEdit
<1>9. ASSUME NEW e \in Edits, NothingChosen(e) PROVE UploadingMeansEdit'
  BY <1>8, <1>9, <1>a, EditPc DEF NothingChosen
<1>10. ASSUME NEW e \in Edits, FieldReturns(e) PROVE UploadingMeansEdit'
  <2>1. EditAt(e, "done", edit[e].to)
    BY <1>10, <1>a, EditPc DEF FieldReturns
  <2>2. CASE edit[e].field = "text"
    BY <1>3, <1>10, <2>1, <2>2 DEF FieldReturns
  <2>3. CASE edit[e].field # "text"
    BY <1>8, <1>10, <2>1, <2>3 DEF FieldReturns
  <2> QED BY <2>2, <2>3
<1>11. ASSUME NEW e \in Edits, ImagePicked(e) PROVE UploadingMeansEdit'
  <2>1. EditAt(e, "uploading", edit[e].to) /\ edit[e].field = "picture"
    BY <1>11, <1>a, EditPc DEF ImagePicked, OwnerInv, FieldOfCall
  <2>2. imageUploading' = [imageUploading EXCEPT ![edit[e].ctl] = TRUE]
    BY <1>11 DEF ImagePicked
  <2>3. \A b \in Controllers : b # edit[e].ctl => imageUploading'[b] = imageUploading[b]
    BY <1>a, <2>2
  <2> QED BY <2>1, <2>3 DEF EditAt, UploadingMeansEdit
<1>12. ASSUME NEW e \in Edits, EditFails(e) PROVE UploadingMeansEdit'
  <2>1. Throw(e)
    BY <1>12 DEF EditFails
  <2>2. /\ \A d \in Edits : edit'[d].field = edit[d].field /\ edit'[d].ctl = edit[d].ctl
        /\ \A d \in Edits \ {e} : edit'[d].pc = edit[d].pc
                                  \/ (edit[d].pc = "choosing" /\ edit'[d].pc = "done")
    BY <2>1, <1>a, EditThrown
  <2>3. \A b \in Controllers : imageUploading'[b] =>
             imageUploading[b] /\ ~(edit[e].field = "picture" /\ b = edit[e].ctl)
    BY <1>12 DEF EditFails
  <2> QED BY <2>2, <2>3 DEF UploadingMeansEdit
<1>13. OpenScreen \/ GoBack \/ BeginLogout \/ LogoutFails \/ UNCHANGED vars \/ FetchStep \/ (\E u \in Users : SignIn(u))
         => UNCHANGED <<edit, imageUploading>>
  BY DEF OpenScreen, GoBack, BeginLogout, LogoutFails, vars, FetchStep, FetchForVisit, FetchRead, FetchReturns, FetchFails,
         EndFetch, SignIn
<1>14. CASE SignOut
  <2>1. \A d \in Edits : /\ edit'[d].field = edit[d].field /\ edit'[d].ctl = edit[d].ctl
                         /\ \/ edit'[d].pc = edit[d].pc
                            \/ edit[d].pc = "choosing" /\ edit'[d].pc = "done"
    BY <1>14, <1>a, EditsDismissed
  <2>2. \A b \in Controllers : imageUploading'[b] => imageUploading[b]
    BY <1>14 DEF SignOut
  <2> QED BY <2>1, <2>2 DEF UploadingMeansEdit
<1> QED BY <1>1, <1>2, <1>4, <1>5, <1>6, <1>7, <1>9, <1>10, <1>11, <1>12, <1>13, <1>14 DEF Next, EditStep

\* No path of fetchUserRecord or of uploadUserProfilePicture leaves its
\* shimmer on the screen.
THEOREM ShimmersEndWithWork == Spec => []ShimmerMeansWork
<1>1. Init => LoadingMeansFetch /\ UploadingMeansEdit
  <2> SUFFICES ASSUME Init PROVE LoadingMeansFetch /\ UploadingMeansEdit
    OBVIOUS
  <2>1. 1 \in Fetches /\ fetch[1].ctl = 1 /\ fetch[1].pc = "asked"
    BY ProfileAssumption DEF Init, Fetches
  <2>2. /\ \A c \in Controllers : profileLoading[c] => c = 1
        /\ \A c \in Controllers : ~imageUploading[c]
    BY DEF Init
  <2> QED BY <2>1, <2>2 DEF LoadingMeansFetch, UploadingMeansEdit
<1>2. /\ ProfileInv /\ LoadingMeansFetch /\ UploadingMeansEdit /\ [Next]_vars
      => LoadingMeansFetch' /\ UploadingMeansEdit'
  BY LoadingKept, UploadingKept DEF ProfileInv
<1>3. LoadingMeansFetch /\ UploadingMeansEdit => ShimmerMeansWork
  BY DEF LoadingMeansFetch, UploadingMeansEdit, ShimmerMeansWork
<1> QED BY <1>1, <1>2, <1>3, ProfileInvariant, PTL DEF Spec
=============================================================================
