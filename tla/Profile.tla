------------------------------- MODULE Profile -------------------------------
(***************************************************************************)
(* The user's profile: the record Users/<uid> in Firestore, the copy of it *)
(* that each UserController keeps, the forms that edit one field under the *)
(* full-screen loader, and the upload of the picture, which runs without   *)
(* one.                                                                    *)
(*                                                                         *)
(* A fetch reads the record and hands it to the controller later; an edit  *)
(* asks for the signed-in user when it writes, not when it begins.  A      *)
(* UserController lives as long as the screen that created it: signing out *)
(* and signing in each make a new one, while the calls of the old one go   *)
(* on.  How a session begins and ends is the subject of Account; here a    *)
(* sign-in is one step, and a logout begins and ends, with the app usable  *)
(* in between.                                                             *)
(***************************************************************************)
EXTENDS Naturals, Sequences

CONSTANTS
    Users,           \* the accounts, each with its record
    NoUser,          \* nobody signed in; the id of UserModel.empty()
    MaxControllers,  \* bound: UserControllers made in one behaviour
    MaxFetches,      \* bound: calls of fetchUserRecord in one behaviour
    MaxEdits,        \* bound: edits and uploads in one behaviour
    MaxRoutes        \* bound: screens on the navigator's stack

Controllers == 1..MaxControllers
Fetches == 1..MaxFetches
Edits == 1..MaxEdits

ASSUME ProfileAssumption ==
    /\ NoUser \notin Users
    /\ MaxControllers \in Nat \ {0}
    /\ MaxFetches \in Nat \ {0}
    /\ MaxEdits \in Nat
    /\ MaxRoutes \in Nat

\* "text" stands for the name, the gender, the birth year and the address,
\* which four forms edit alike.
Fields == {"text", "picture"}

VARIABLES
    authUser,        \* FirebaseAuth's current user
    loggingOut,      \* a logout is under way
    routes,          \* the navigator's stack of screens, topmost last
    ctl,             \* the registered UserController
    user,            \* user[c]: the copy of the record
    profileLoading,  \* profileLoading[c]
    imageUploading,  \* imageUploading[c]
    record,          \* record[u][f]: the edit whose value is stored, 0 for none
    fetch,           \* fetch[i]: the i-th call of fetchUserRecord
    edit,            \* edit[e]: the e-th edit or upload
    disturbed        \* history: has a call met one it could not know of?

vars == <<authUser, loggingOut, routes, ctl, user, profileLoading, imageUploading, record,
          fetch, edit, disturbed>>

Records == [Fields -> Edits \cup {0}]
Copies == [id : Users \cup {NoUser}, val : Records]
Empty == [id |-> NoUser, val |-> [f \in Fields |-> 0]]

FetchStates == [pc : {"unused", "asked", "read", "done"}, ctl : Controllers \cup {0},
                as : Users \cup {NoUser}, answer : Copies]

EditStates == [pc : {"unused", "checking", "choosing", "picking", "uploading",
                     "writing", "written", "done", "failed"},
               field : Fields, ctl : Controllers \cup {0},
               by : Users \cup {NoUser}, to : Users \cup {NoUser}]

Screens == {"login", "menu", "profile", "form", "sheet", "loader"}

TypeOK ==
    /\ authUser \in Users \cup {NoUser}
    /\ loggingOut \in BOOLEAN
    /\ routes \in Seq(Screens)
    /\ ctl \in Controllers
    /\ user \in [Controllers -> Copies]
    /\ profileLoading \in [Controllers -> BOOLEAN]
    /\ imageUploading \in [Controllers -> BOOLEAN]
    /\ record \in [Users -> Records]
    /\ fetch \in [Fetches -> FetchStates]
    /\ edit \in [Edits -> EditStates]
    /\ disturbed \in BOOLEAN

\* A signed-in user has just come to the menu.
Init ==
    /\ authUser \in Users
    /\ loggingOut = FALSE
    /\ routes = <<"menu">>
    /\ ctl = 1
    /\ user = [c \in Controllers |-> Empty]
    /\ profileLoading = [c \in Controllers |-> c = 1]
    /\ imageUploading = [c \in Controllers |-> FALSE]
    /\ record = [u \in Users |-> [f \in Fields |-> 0]]
    /\ fetch = [i \in Fetches |-> IF i = 1 THEN [pc |-> "asked", ctl |-> 1, as |-> authUser, answer |-> Empty]
                                  ELSE [pc |-> "unused", ctl |-> 0, as |-> NoUser, answer |-> Empty]]
    /\ edit = [e \in Edits |-> [pc |-> "unused", field |-> "text", ctl |-> 0,
                                by |-> NoUser, to |-> NoUser]]
    /\ disturbed = FALSE

-----------------------------------------------------------------------------
(* The navigator.                                                          *)

Top == IF routes = <<>> THEN "blank" ELSE routes[Len(routes)]

Pop(r) == IF r = <<>> THEN r ELSE SubSeq(r, 1, Len(r) - 1)
Off(r, s) == Append(Pop(r), s)

\* The picker of the platform covers the app.
Usable == \A e \in Edits : edit[e].pc # "picking"

OpenScreen ==
    /\ Usable
    /\ Len(routes) < MaxRoutes
    /\ \/ Top = "menu" /\ routes' = Append(routes, "profile")
       \/ Top = "profile" /\ routes' = Append(routes, "form")
    /\ UNCHANGED <<authUser, loggingOut, ctl, user, profileLoading, imageUploading, record, fetch, edit, disturbed>>

GoBack ==
    /\ Usable
    /\ Top \in {"profile", "form"}
    /\ routes' = Pop(routes)
    /\ UNCHANGED <<authUser, loggingOut, ctl, user, profileLoading, imageUploading, record, fetch, edit, disturbed>>

-----------------------------------------------------------------------------
(* fetchUserRecord.                                                        *)

FirstUnused(calls, n) == calls[n].pc = "unused" /\ \A k \in DOMAIN calls : k < n => calls[k].pc # "unused"

\* It begins on controller c, for the user of that moment.
BeginFetch(i, c, u) ==
    /\ FirstUnused(fetch, i)
    /\ fetch' = [fetch EXCEPT ![i] = [pc |-> "asked", ctl |-> c, as |-> u, answer |-> Empty]]
    /\ profileLoading' = [profileLoading EXCEPT ![c] = TRUE]

\* logMuseumVisit calls it before it makes an entry.
FetchForVisit(i) ==
    /\ BeginFetch(i, ctl, authUser)
    /\ UNCHANGED <<authUser, loggingOut, routes, ctl, user, imageUploading, record, edit, disturbed>>

\* Firestore reads the record; there is none for nobody.
FetchRead(i) ==
    /\ fetch[i].pc = "asked"
    /\ fetch' = [fetch EXCEPT ![i].pc = "read",
                     ![i].answer = IF fetch[i].as = NoUser THEN Empty
                                   ELSE [id |-> fetch[i].as, val |-> record[fetch[i].as]]]
    /\ UNCHANGED <<authUser, loggingOut, routes, ctl, user, profileLoading, imageUploading, record, edit, disturbed>>

\* The answer, or the empty user of the catch, becomes the copy.
EndFetch(i, copy) ==
    /\ user' = [user EXCEPT ![fetch[i].ctl] = copy]
    /\ fetch' = [fetch EXCEPT ![i].pc = "done", ![i].answer = Empty]
    /\ profileLoading' = [profileLoading EXCEPT ![fetch[i].ctl] = FALSE]
    /\ UNCHANGED <<authUser, loggingOut, routes, ctl, imageUploading, record, edit, disturbed>>

FetchReturns(i) == fetch[i].pc = "read" /\ EndFetch(i, fetch[i].answer)

FetchFailsNull(i) == fetch[i].pc \in {"asked", "read"} /\ EndFetch(i, NoUser)
FetchFails(i) == fetch[i].pc \in {"asked", "read"} /\ EndFetch(i, Empty)

-----------------------------------------------------------------------------
(* Sessions.                                                               *)

\* Get.put on the screen that replaces all others: the controller of the old
\* screens is dropped, the new one's onInit fetches the record.
KeepController(u) == UNCHANGED <<ctl, fetch, profileLoading>>
NewController(u) ==
    /\ ctl < MaxControllers
    /\ ctl' = ctl + 1
    /\ \E i \in Fetches : BeginFetch(i, ctl + 1, u)

\* The sheet of an upload goes away with its screen, and that upload ends.
Dismissed(d) ==
    IF edit[d].pc = "choosing" /\ Top = "sheet" THEN [edit[d] EXCEPT !.pc = "done"] ELSE edit[d]

\* logout awaits twice, the user going on meanwhile: it may end over any
\* screen of the session.
BeginLogout ==
    /\ Usable /\ Top = "menu" /\ ~loggingOut
    /\ loggingOut' = TRUE
    /\ UNCHANGED <<authUser, routes, ctl, user, profileLoading, imageUploading, record, fetch, edit, disturbed>>

LogoutFails ==
    /\ loggingOut
    /\ loggingOut' = FALSE
    /\ UNCHANGED <<authUser, routes, ctl, user, profileLoading, imageUploading, record, fetch, edit, disturbed>>

SignOut ==
    /\ loggingOut
    /\ loggingOut' = FALSE
    /\ authUser' = NoUser
    /\ routes' = <<"login">>
    /\ NewController(NoUser)
    /\ edit' = [d \in Edits |-> Dismissed(d)]
    /\ imageUploading' = [c \in Controllers |-> imageUploading[c] /\ ~(Top = "sheet" /\ c = ctl)]
    /\ UNCHANGED <<user, record, disturbed>>

SignIn(u) ==
    /\ Usable /\ Top = "login" /\ authUser = NoUser
    /\ authUser' = u
    /\ routes' = <<"menu">>
    /\ NewController(u)
    /\ UNCHANGED <<loggingOut, user, imageUploading, record, edit, disturbed>>

-----------------------------------------------------------------------------
(* The forms: updateUserName, updateGender, updateBirthYear, updateAddress. *)

NewEdit(e, pc, field) ==
    /\ FirstUnused(edit, e)
    /\ edit' = [edit EXCEPT ![e] = [pc |-> pc, field |-> field, ctl |-> ctl,
                                    by |-> authUser, to |-> NoUser]]

SaveFormNoLoader(e) ==
    /\ Usable /\ Top = "form" /\ Len(routes) < MaxRoutes
    /\ NewEdit(e, "checking", "text")
    /\ disturbed' = (disturbed \/ loggingOut)
    /\ UNCHANGED <<authUser, loggingOut, routes, ctl, user, profileLoading, imageUploading, record, fetch>>
SaveForm(e) ==
    /\ Usable /\ Top = "form" /\ Len(routes) < MaxRoutes
    /\ NewEdit(e, "checking", "text")
    /\ routes' = Append(routes, "loader")
    /\ disturbed' = (disturbed \/ loggingOut)
    /\ UNCHANGED <<authUser, loggingOut, ctl, user, profileLoading, imageUploading, record, fetch>>

\* No connection, or the form is not valid: stopLoading.
FormRefused(e) ==
    /\ edit[e].pc = "checking"
    /\ edit' = [edit EXCEPT ![e].pc = "done"]
    /\ routes' = Pop(routes)
    /\ UNCHANGED <<authUser, loggingOut, ctl, user, profileLoading, imageUploading, record, fetch, disturbed>>

\* updateSingleField is called: now for the form, with the image's address for
\* the picture.  The document is that of the user who is signed in now.
FieldSent(e) ==
    /\ edit[e].pc \in {"checking", "uploading"}
    /\ edit' = [edit EXCEPT ![e].pc = "writing", ![e].to = authUser]
    /\ UNCHANGED <<authUser, loggingOut, routes, ctl, user, profileLoading, imageUploading, record, fetch, disturbed>>

\* Did the write come between the read and the answer of a fetch of the same
\* record, between the write and the answer of another edit of the field, or
\* after the session of its upload?
Overlaps(e) ==
    \/ \E i \in Fetches : fetch[i].pc = "read" /\ fetch[i].as = edit[e].to
    \/ \E d \in Edits : edit[d].pc = "written" /\ edit[d].field = edit[e].field
    \/ edit[e].field = "picture" /\ edit[e].ctl # ctl

\* The write reaches Firestore; a document of nobody is not found.
FieldWritten(e) ==
    /\ edit[e].pc = "writing" /\ edit[e].to # NoUser
    /\ record' = [record EXCEPT ![edit[e].to][edit[e].field] = e]
    /\ edit' = [edit EXCEPT ![e].pc = "written"]
    /\ disturbed' = (disturbed \/ Overlaps(e))
    /\ UNCHANGED <<authUser, loggingOut, routes, ctl, user, profileLoading, imageUploading, fetch>>

\* The call returns: the copy is changed, a form is left for the profile, the
\* picture's flag goes down.
FieldReturnsNoCopy(e) ==
    /\ edit[e].pc = "written"
    /\ edit' = [edit EXCEPT ![e].pc = "done"]
    /\ IF edit[e].field = "text"
       THEN routes' = Off(Pop(routes), "profile") /\ UNCHANGED imageUploading
       ELSE imageUploading' = [imageUploading EXCEPT ![edit[e].ctl] = FALSE] /\ UNCHANGED routes
    /\ UNCHANGED <<authUser, loggingOut, ctl, user, profileLoading, record, fetch, disturbed>>
FieldReturns(e) ==
    /\ edit[e].pc = "written"
    /\ user' = [user EXCEPT ![edit[e].ctl].val[edit[e].field] = e]
    /\ edit' = [edit EXCEPT ![e].pc = "done"]
    /\ IF edit[e].field = "text"
       THEN routes' = Off(Pop(routes), "profile") /\ UNCHANGED imageUploading
       ELSE imageUploading' = [imageUploading EXCEPT ![edit[e].ctl] = FALSE] /\ UNCHANGED routes
    /\ UNCHANGED <<authUser, loggingOut, ctl, profileLoading, record, fetch, disturbed>>

-----------------------------------------------------------------------------
(* uploadUserProfilePicture.                                               *)

ChoosePicture(e) ==
    /\ Usable /\ Top = "profile" /\ Len(routes) < MaxRoutes
    /\ NewEdit(e, "choosing", "picture")
    /\ routes' = Append(routes, "sheet")
    /\ UNCHANGED <<authUser, loggingOut, ctl, user, profileLoading, imageUploading, record, fetch, disturbed>>

SourceChosen(e) ==
    /\ Usable /\ edit[e].pc = "choosing" /\ Top = "sheet"
    /\ edit' = [edit EXCEPT ![e].pc = "picking"]
    /\ routes' = Pop(routes)
    /\ UNCHANGED <<authUser, loggingOut, ctl, user, profileLoading, imageUploading, record, fetch, disturbed>>

\* The sheet or the picker is closed without a choice: return, and the finally
\* lowers the flag, also that of another upload.
NothingChosen(e) ==
    /\ \/ edit[e].pc = "choosing" /\ Top = "sheet" /\ Usable /\ routes' = Pop(routes)
       \/ edit[e].pc = "picking" /\ UNCHANGED routes
    /\ edit' = [edit EXCEPT ![e].pc = "done"]
    /\ imageUploading' = [imageUploading EXCEPT ![edit[e].ctl] = FALSE]
    /\ UNCHANGED <<authUser, loggingOut, ctl, user, profileLoading, record, fetch, disturbed>>

ImagePicked(e) ==
    /\ edit[e].pc = "picking"
    /\ edit' = [edit EXCEPT ![e].pc = "uploading"]
    /\ imageUploading' = [imageUploading EXCEPT ![edit[e].ctl] = TRUE]
    /\ UNCHANGED <<authUser, loggingOut, routes, ctl, user, profileLoading, record, fetch, disturbed>>

-----------------------------------------------------------------------------
(* A call of an edit or of an upload throws.                               *)

\* stopLoading pops the topmost screen, for the upload too, which has no
\* loader: if that is the sheet of another upload, this one ends.
Throw(e) ==
    /\ edit[e].pc \in {"writing", "written", "uploading", "picking"}
    /\ routes' = Pop(routes)
    /\ edit' = [d \in Edits |->
                  IF d = e THEN [edit[d] EXCEPT !.pc = "failed"] ELSE Dismissed(d)]
    /\ disturbed' = (disturbed \/ edit[e].pc = "written" \/ edit[e].field = "picture")
    /\ UNCHANGED <<authUser, loggingOut, ctl, user, profileLoading, record, fetch>>

EditFailsNoFinally(e) == Throw(e) /\ UNCHANGED imageUploading
EditFails(e) ==
    /\ Throw(e)
    /\ imageUploading' = [c \in Controllers |->
          imageUploading[c] /\ ~(edit[e].field = "picture" /\ c = edit[e].ctl)
                            /\ ~(Top = "sheet" /\ c = ctl)]

-----------------------------------------------------------------------------
FetchStep == \E i \in Fetches : FetchForVisit(i) \/ FetchRead(i) \/ FetchReturns(i) \/ FetchFails(i)

EditStep(e) ==
    \/ SaveForm(e) \/ FormRefused(e) \/ FieldSent(e) \/ FieldWritten(e) \/ FieldReturns(e)
    \/ ChoosePicture(e) \/ SourceChosen(e) \/ NothingChosen(e) \/ ImagePicked(e)
    \/ EditFails(e)

Next ==
    \/ OpenScreen \/ GoBack
    \/ BeginLogout \/ LogoutFails \/ SignOut \/ \E u \in Users : SignIn(u)
    \/ FetchStep
    \/ \E e \in Edits : EditStep(e)

Spec == Init /\ [][Next]_vars

-----------------------------------------------------------------------------
(* Properties.                                                             *)

\* The copy shown to a signed-in user is of his own record or empty, however
\* late the fetches of earlier sessions answer.
ShowsOwnRecord == authUser # NoUser => user[ctl].id \in {authUser, NoUser}

\* What a form saved is in the record of the user who filled it in: the loader
\* keeps a logout from beginning until the field is written, unless one was
\* under way before.
TextIsOwn ==
    ~disturbed => \A u \in Users : record[u]["text"] # 0 => edit[record[u]["text"]].by = u

\* The copy agrees with the record field by field, once no edit of the field is
\* between its write and its answer, unless calls overlapped or failed half way.
CopyAgrees ==
    (~disturbed /\ authUser # NoUser /\ user[ctl].id # NoUser) =>
        \A f \in Fields :
            (\A e \in Edits : edit[e].field = f => edit[e].pc # "written")
                => user[ctl].val[f] = record[authUser][f]

\* A shimmer stands for a call that is under way: no path of fetchUserRecord or
\* of uploadUserProfilePicture leaves its flag up.
ShimmerMeansWork ==
    \A c \in Controllers :
        /\ profileLoading[c] => \E i \in Fetches : fetch[i].ctl = c /\ fetch[i].pc \in {"asked", "read"}
        /\ imageUploading[c] => \E e \in Edits : edit[e].ctl = c /\ edit[e].field = "picture"
                                                 /\ edit[e].pc \in {"uploading", "writing", "written"}

\* There is always a screen: the loader that stopLoading closes is the form's
\* own, unless an upload failed, whose stopLoading has no loader to close, or
\* a logout under way ended over the form and its loader.
ScreenUnlessUploadFails == ~disturbed => routes # <<>>
=============================================================================
