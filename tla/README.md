# Around Museo de Baler: TLA+ models, checks and proofs

The repository is a Flutter app for visitors of the Museo de Baler: accounts,
a catalogue of places with favorites, a map and a route screen, and a museum
visit that starts with a QR code and ends in a Unity AR scene.  Its own code is
under `src/lib`; `src/ios/Pods`, `src/android` and the Unity export are vendored
or generated.  Firebase Auth, Firestore, GetX, Google sign-in and the other
packages are not in the repository: the models describe them by how the code
uses them and the map in `PROJECT.json` marks them external.

The app has one thread, but every `await` lets other handlers run: taps, timers,
camera reports and answers of Firestore come in any order, and any call may
fail.  Each model splits a method at its awaits; what runs between two awaits is
one action.  That is where the errors a unit test hardly reaches are.

## 1. Inventory

| Component | State | Operations | Interacts with | What is hard | What makes it correct |
|---|---|---|---|---|---|
| LocationController, LocationRepository | five lists, `allLocations`, `isLoading`, local favorites; `User_Favorites/<uid>` | `onInit`, five fetches, `fetchUserFavorites`, `toggleFavorite`, two transactions | Firestore; Home, Discover, Favorites tabs | parallel fetches with one flag; optimistic toggles that overlap the load and each other; transaction conflicts | stored favorites hold no duplicates, agree with what is shown, and no toggle undoes another; search offers only complete locations; the loader ends |
| AuthenticationRepository and the login, sign-up, verify-email controllers | Firebase session, `isFirstTime`, timers, the navigator's stack | `screenRedirect`, sign-ins, `logout`, `deleteAccount`, `deleteUser`, the one-second timer | Firebase Auth, `Users/<uid>`, FullScreenLoader | account and record are written by separate calls; timers outlive their screen; logout beside a task | the menu only for verified users; record and account go together; the loader closes; there is always a screen |
| UserController (account part), UpdateEmailController | the same | deletion, re-authentication, change of email | AuthenticationRepository | the result of a re-authentication is not looked at; a loader closed twice | only one's own, freshly authenticated account is deleted |
| QRCodeController, scanner and AR screens, logbook repository | `scanCompleted`, `documentId`; `Museum_Logbook` | `onDetect`, `checkQRCode`, `logMuseumVisit`, `updateMuseumVisitTimeOut` | camera, Firestore, UserController, Unity | many camera reports per second, leaving the screen during a check, each call failing | one entry per scan, each controller keeps its own entry, a match opens AR, the AR screen leads back to the menu, the entry gets its time-out |
| Opening hours | `isOpen`, `openTimes`, `closeTimes` of a location | `checkIfLocationIsOpen`, `whenToOpen`, `whenToClose`, three calls in a row | LocationController, the clock | hours compared without minutes, the week's end, a clock that goes on between the calls | right at every minute outside the hour of opening or closing; no opening or closing skipped; the label does not contradict itself |
| User profile: UserController's copy, update controllers, upload | the copy `user`, two shimmers; `Users/<uid>` | `fetchUserRecord`, four forms, `uploadUserProfilePicture` | Firestore, Storage, FullScreenLoader, the session | calls that outlive their session; the user looked up when the field is written; a loader closed that was never opened | nobody sees another's record; a form is saved for its author; copy and record agree; shimmers end |
| Map screen, MapController, the tabs | markers, subscription, the static `selectedLocation` | open and leave the tab, load markers, positions, camera moves, "Check in Map" | catalogue, location service, map plugin, details screen | the calls of a disposed screen go on; a static field outlives the screen; a body that is not reactive | a selection is used once, by the next map; a disposed screen is left alone; all markers are there; the map appears |
| Route screen | origin, route, distance | one position, then two requests | location service, Directions API | answers after dispose | - |
| Scanner camera | `isFlashOn`, `isFrontCamera` | `toggleFlash`, `switchCamera` | camera plugin | switches that overlap | flags follow the device |
| NetworkManager, startup, bindings | connection state | stream callback, `isConnected` | every task | stream and query disagree | - |
| Search, sorting, categories, validators, widgets, theme | none or a filtered list | filter, sort, format | - | little | - |

The hazards, each at its line with the properties that would catch it, are in
`PROJECT.json`.

## 2. Modules

`Locations` - LocationController and its repository.  `fetch`, `shown`,
`pending`, `detailed` hold the progress of the five fetches; `store` is the
Firestore document and `op[i]` the i-th call of `toggleFavorite` with the
snapshot its transaction read.  `ToggleFavorite` is the part of the handler
before its await (the optimistic change), `TransactionRead`, `TransactionCommit`
and `TransactionConflict` are runTransaction with its retries, `ToggleReturns`
is the part after it.  `fetchAllLocations` is never called and is not modelled.

`Favorites` - what the favorites promise, without lists, transactions or
retries: a shown set, a stored set, and requests that each take effect at one
instant, once or never.  `Locations` implements it: `Fav == INSTANCE Favorites`
maps the stored list to the set of its elements, a toggle whose transaction has
not committed to a pending request, one that has to an applied one.

`LocationsProofs`, `LocationsRefinement` - theorems about `Locations` and the
refinement (section 5).

`OperatingHours` - the three functions as operators over the clock and a weekly
table, and the label that a fetch puts together from them with three reads of
the clock.  The parsing of "9:00 AM - 5:00 PM" is a pair of times; the wording of
the label is left out.  `OperatingHoursProofs` has its theorems.

`Profile` - the user's record, the copy each UserController keeps, forms under
the loader and the upload without one.  `fetch[i]` and `edit[e]` are calls in
flight with the controller they belong to; an edit's `by` is the user who began
it, `to` the one who was signed in when the field was sent.  A session begins in
one step, which makes a new controller.  A logout has a beginning and an end: it
awaits twice while the app stays usable, so it may end over any screen.
`Account` has the inside of these steps.  `disturbed` records a write that
overlapped another call or went to another user, an edit that failed after its
write, a failed upload, and a form saved while a logout was under way.
`ProfileProofs` has its theorems.

`MapScreen` - the map tab.  `screen[s]` is the s-th map screen with its markers,
subscription and map; leaving the tab unmounts it and its calls go on.
`pick[p]` is a selection put in the static field and the camera move it causes.
"Check in Map" closes the details and what is above the menu (`Get.back` twice);
it is modelled as the return to the menu.  `MapScreenProofs` has its theorems.

`MuseumVisit` - scanner screen, QRCodeController, logbook, AR screen.  A
controller belongs to a scanner screen (`Get.put`); `check[k]` is the k-th call
of `checkQRCode` with the controller it runs on, which may be gone by the time
it ends.  Whether the AR screen finds the scanner's controller or gets a new one
depends on when the router disposes of the replaced route; both are allowed.

`VisitLog` - what the logbook promises, without screens, controllers and calls: a
scan is presented once, compared once, lets its visitor in and makes one entry
or none; an entry keeps its place and its visitor, and its time-out is asked for
only while it has none.  `MuseumVisit` implements it: `Visits == INSTANCE
VisitLog` maps a check to the scan of its controller, the states of `checkQRCode`
to the sets of scans that wait, match and are let in, and calls of
`updateTimeOut` to the entries that are being left.  Which controller a screen
finds and which `documentId` it holds is hidden.

`Account` - sessions, accounts and the screens around them.  `account` is Firebase
Auth, `record` Firestore; `task[t]` is a controller method in flight, its `pc`
the await it is at; `routes` is the navigator's stack, on which the loader is a
route like any other; `timer[i]` is a periodic timer of the verify-email screen
with the `reload()` calls it is waiting for.  An account is identified with its
email and its provider is fixed, so a Google account whose address also has a
password account is not represented.  `disturbed` is a history variable: it
becomes TRUE when a restart cuts a task, when a task fails between two writes,
or when a logout, a sign-in that ends in `deleteUser` or a redirect by a timer
meets a task.

`AccountProofs`, `AccountSessionProofs` - theorems about `Account` (section 5).

`MuseumVisitProofs` - theorems about `MuseumVisit` (section 5).

`MCLocations`, `MCMuseumVisit`, `MCAccount`, `MCOperatingHours`, `MCProfile` and
`MCMapScreen` give the constants their values.

The components share few variables: the session (`Account`; its beginning
and end in `Profile`), the navigator's stack (each model has the part its screens use), the
catalogue (`Locations`, two actions in `MapScreen`), the user record
(`Profile`, one fetch in `MuseumVisit`).  Each model contains the steps of its
neighbours that can disturb it, so that no product of two models is needed.

Most operators that a mutant of `PROJECT.json` uses stand just before the
definition they replace (`AddedAlways` before `Added`, and so on); they are not
part of the specification.

## 3. Runs

| Run | Shows |
|---|---|
| `locations_catalog` | With fetches answered in any order and failing anywhere: `SearchableIsDetailed`, and `LoaderStops` under fairness. |
| `locations_favorites` | Three toggles over two locations: `StoredOnce`, `AgreementUnlessRaced`, `OneLocationPerWrite`, `FavoritesListFresh`, `TypeOK`, and the refinement `FavoritesImplemented`. |
| `locations_dining_favorite` | Violation: a dining favorite is never listed (`fetchDining` does not fill `allLocations`). |
| `operating_hours` | All minutes (half hours) of a week and some 130 weekly tables: `OpenByTheTable`, `NextTimesNotSkipped` (openings and closings), `ClosesTheOpenDay`, `TypeOK`. |
| `museum_visit` | Two overlapping scans: `DocumentIsOwn`, `MenuStays`, `MatchOpensAR`, `TypeOK`, and the refinement `VisitLogImplemented`, which implies `OneLogPerScan`. |
| `museum_visit_timeout` | Violation: the time-out goes to the field `timeOut`, the entry has `TimeOut`. |
| `profile` | Two users in turn, fetches, a form and an upload in flight: `ShowsOwnRecord`, `TextIsOwn`, `CopyAgrees`, `ShimmerMeansWork`, `ScreenUnlessUploadFails`, `TypeOK`. |
| `map_screen` | Two map screens, one selection: `MarkersOfOpening`, `CheckInTaken`, `SelectionUsedOnce`, `QuietAfterDispose`, `MapAppears`, `TypeOK`. |
| `account` | `MenuNeedsVerified`, `RecordsMatchAccounts`, `NeverBlank`, `LoaderMeansWork`, `RegisteredBeforeAsked`, and of steps `OwnDataOnly`, `PasswordDeletesOwn`. |
| `account_progress` | `VerifiedMovesOn`, `LoaderCloses` under fairness, `MenuOpensForVerified` of every step, `TypeOK`. |
| `account_deletes_own` | Violation: the account picked in the re-authentication is deleted, not the one asked for. |
| `account_registered_deleted` | Violation: a failed query deletes a registered account. |

Bounds, and why they are enough:

- `Locations`: two or three locations put one in a list that is merged, one in
  the list that is not, and leave a list empty.  `MaxToggles = 3` over two
  locations gives an overlap on one location with a third toggle on the other;
  `MaxAttempts = 2` gives a conflict that is retried and one that is not (the
  Firestore client tries five times).  `FeaturedLimit = 1` of two featured
  locations makes the limit bite (5 in the code).
- `MuseumVisit`: `MaxScreens = 2`, `MaxChecks = 2`: a late check of a screen
  that is gone and one of its successor.
- `OperatingHours`: `PerHour = 2` tells a time on the hour from one past it,
  which is all the code's comparisons can tell; the tables combine closed days,
  hours on the hour, at half past, overnight and midnight to midnight over
  weekdays, Saturday and Sunday, and a place open once a week.  The clock moves
  once between the three reads.
- `Profile`: two users and three controllers put a call of one session into
  the next; two edits give a form beside an upload and two uploads, three
  fetches one before, one during and one after them.
- `MapScreen`: two screens are the one left and its successor; a tourist spot and
  a restaurant are the location that search sees and the one it does not.  One
  selection keeps liveness within minutes; the safety part was also checked
  with `MaxPicks = 2`, and is proved for any number.
- `Account`: one Google and two password accounts; two tasks, since two of the
  methods close their loader before they end; two timers, a leaked one and the
  current one; `MaxTicks = 2` pending reloads in the safety run and 1 in the
  liveness run; `MaxRoutes = 4` is the depth of menu, profile, dialog,
  re-authentication form.  One logout is in flight at a time.  A sign-in begins
  only while a timer is free for it.  The safety run prunes where `disturbed`
  is TRUE (but for the tail of `googleSignIn`, which it follows to its end): it
  is never reset, and each property of that run holds trivially there.
- Deadlock is not checked: toggles, screens, checks and edits are bounded, and a user
  may stop at any time.

Fairness is weak and only for what the runtime does: calls return (with a
result or an error), timers tick, `onReady` runs, a subscribed location service
delivers positions and the plugin creates a map that is shown.  Nothing is assumed of the
user, the camera or the staff.  `account_progress` sets `MayFail = FALSE`: a
`reload()` that fails for ever keeps the verify-email screen, and rightly so;
refusals, wrong passwords and unknown accounts remain possible.

## 4. Findings

`PROJECT.json` quotes for each violation the line of the repository it
contradicts.  All of them come from traces of at most a dozen steps, and each
can be replayed by hand in the app.  Observations that the models contain and
that contradict no line of the repository, so that they have no run:

- `isLoading` goes down with the first of the five fetches;
- an entry of the logbook is stored with an empty user when `fetchUserRecord`
  failed, and the AR screen opens although the entry could not be saved;
- a check that ends after its scanner was left replaces the menu by the AR
  screen, and leaving that leaves no screen (`MenuStays` excludes it);
- the catch block of `updateEmailAddress` closes a screen when it calls
  `stopLoading` a second time;
- a cancelled re-authentication does not stop the deletion, because its result
  is not looked at;
- an unregistered Google account is let in: the record that the registration
  check looks for is written first (`RegisteredBeforeAsked` says so);
- the catch block of `uploadUserProfilePicture` calls `stopLoading` though no
  loader is open and pops whatever is on top (`ScreenUnlessUploadFails`,
  `TextIsOwn` exclude it);
- a picture whose upload ends after a change of session is written to the other
  user's record (`CopyAgrees` excludes it);
- "Check in Map" in details opened from the map itself is not taken: the tab's
  index does not change, so no screen is made (`CheckInTaken` says so).

## 5. Proofs

`LocationsProofs` proves for all values of the constants that satisfy
`LocationsAssumption`, hence for any number of locations, toggles and retries:

- `TypeCorrect`: `Spec => []TypeOK`;
- `NeverStoredTwice`: `Spec => []StoredOnce`;
- `LocalAgreesWithStored`: `Spec => []AgreementUnlessRaced`;
- `WritesOneLocation`: `Spec => OneLocationPerWrite`;
- `SearchOffersDetailed`: `Spec => []SearchableIsDetailed`;
- `ListIsFresh`: `Spec => []FavoritesListFresh`;
- `ImplementsFavorites` (in `LocationsRefinement`): `Spec => FavoritesImplemented`.

`AgreementUnlessRaced` speaks of states in which everything is over, so it is
not inductive.  `AgreementInv` says what holds on the way: two live toggles of
one location are recorded as raced (`OverlapsRecorded`); a lone live toggle wants
what the local set shows (`LocalShowsIntent`); the snapshot of
`fetchUserFavorites` can be outdated only at raced locations
(`SnapshotCurrent`); and the local set equals the document, except where a toggle
is still to commit (`LocalIsStored`).  `FavoritesLast` orders the load after the
fetches.  That a commit touches one location only rests on lemmas about `Added`,
`Removed` and `ListRemove`, which need that the stored list has no duplicates:
with a duplicate, `List.remove` would leave one copy behind.  Hence `StoredOnce`
is part of the invariant.

`CatalogInv` adds that a list in its details loop has its finished part detailed
(`DetailsKept`).  `FreshInv` strengthens the favorites list: before the load it
shows nothing that is neither in the set nor being toggled, and from then on it
is what the set selects but for the toggles in flight.  The load may find no
document and then leaves list and set alone; that this is harmless needs
`AddsStored` (a committed add has made a document) and `LocalByTap` (what is in
the set before the load was put there by a tap).  The refinement maps a
transaction to the instant of its commit; it needs `StoredOnce`, since removing
one occurrence must remove the location from the set.

`OperatingHoursProofs` proves for any tables and any `PerHour`: `HoursTypes`,
`OpenIsByTheTable`, `TimesNotSkipped` (from `OpeningNotSkipped` and
`ClosingNotSkipped`) and `OpenLabelNamesItsClosing`, the invariants of its run.  `LabelInv` says that
each field is what its function gave for the time it was read at; the rest is a
fact about the functions: the set of candidate days has one element, and going
seven days ahead comes back to the same weekday.

`MuseumVisitProofs` proves `VisitTypes`, `LoggedOnce` (`OneLogPerScan`),
`DocumentOwn` (`DocumentIsOwn`) and `MenuUnderAR` (`MenuStays`).  `VisitInv` adds
that a controller has one check at most, whose flag is up (`CheckInv`), that an
entry was made by a check that has ended (`LogInv`), and the shapes the stack can
have (`RouteInv`).

It also proves the refinement, `ImplementsVisitLog`: `Spec => VisitLogImplemented`.
An await of `checkQRCode` maps to the comparison, to the admission or to a
stutter, opening and closing screens to stutters.  That a check moves its own
scan and no other one is `CheckInv`.  That leaving the AR screen maps to a step
of the visit log needs one more invariant, `EntryStillOpen` (proved as
`EntryInUseIsOpen`): only scanner screens that were opened have controllers with
an entry, so a new screen's controller has none, and the entry of the controller
in use has no time-out yet.  It also says that a check is of a code that was
scanned, so that no scan matches while no code is published.

`ProfileProofs` proves `ProfileTypes`, `OwnRecordShown`, `FormsSavedForAuthor`,
`CopyIsCurrent`, `AScreenIsLeft` and `ShimmersEndWithWork`, the invariants of
the run `profile`.  `ProfileInv` has four parts: whose calls and copies these
are (`OwnerInv`), the loader that keeps a form alone in its session
(`ScreenInv`), by whom a stored value was written (`StoredByEdit`), and that
what a fetch has read or an edit has written is still stored (`CopyInv`).

`MapScreenProofs` proves `MapTypes`, `AllMarkersLoaded` (`MarkersOfOpening`),
`SelectionTaken` (`CheckInTaken`), `UsedOnce` (`SelectionUsedOnce`) and
`DisposedStaysQuiet` (`QuietAfterDispose`).  `MapInv` says how far a screen's
markers are (`LoadsInOrder`), that the tab shows the last screen made
(`TabShowsLast`), and that a selection in the field is unused (`FieldFresh`).

`AccountProofs` proves for any sets of accounts, tasks and timers and any bounds
that satisfy `AccountAssumption`:

- `AccountTypes`: `Spec => []TypeOK`;
- `SessionInvariant`: `Spec => []SessionInv`, and from it
- `MenuOnlyForVerified`: `Spec => []MenuNeedsVerified`;
- `AccountsHaveRecords`: `Spec => []RecordsMatchAccounts`;
- `AlwaysAScreen`: `Spec => []NeverBlank`.

None of the last three is inductive.  That records match accounts when
nothing runs needs to know what a running task owes (`RecordOwed`), and that no
two tasks owe at once.  This is a fact about the screen: a task that is loading
has its loader on top and is alone (`LoaderOnTop`), because the user can only
start a method from its screen.  It survives because below a loader there is a
screen (`ScreenBelow`, which is why `stopLoading` cannot empty the stack) and
because a logout or a late `deleteUser` beside a task is recorded as a
disturbance (`MeetingsRecorded`).  The menu stays with verified users because a
sign-in, which replaces the session, is never started above the menu
(`SignInOutsideMenu`), and because the cached `emailVerified` is never ahead of
Firebase (`CacheIsTrue`), so that a `reload()` cannot take it back.
`AwaitsOfOp` ties each await to its method.  The proof has one lemma per part;
`TaskShapes` lists what an undisturbed step of a task can do to its slot and to
the stack, so that the stack lemmas have seven cases instead of eighteen.

`AccountSessionProofs` goes on from `SessionInv`:

- `LoadersHaveTasks`: `Spec => []LoaderMeansWork`;
- `SessionIsHeld`: `Spec => []SessionHeld`, and from it
- `AskedWhenRegistered`: `Spec => []RegisteredBeforeAsked`;
- `OnlyOwnData`: `Spec => OwnDataOnly`;
- `OwnAccountByPassword`: `Spec => PasswordDeletesOwn`;
- `MenuOpensOnlyForVerified`: `Spec => MenuOpensForVerified`.

`LoaderMeansWork` is the converse of `LoaderOnTop`; both are needed to know that a
pop removes the loader of the task that pops.  `SessionHeld` says that an
undisturbed method still works for the session it found when it looked the user
up: a step of another task could only change the session if that task were
loading too, which `LoaderOnTop` excludes, and a logout beside a task is a
disturbance.  `MenuOpensForVerified` has no such premise: it holds of every step
because the only ways to the menu look at the cached verification first, which
is never ahead of Firebase (`CacheIsTrue`).

Only model-checked: the liveness properties `LoaderStops`, `MatchOpensAR`,
`VerifiedMovesOn`, `LoaderCloses` and `MapAppears`, since the proof system does not
do fairness.  Every invariant and action property of a passing run is also
proved.  The violations are TLC traces.

## 6. Not modelled

- `src/ios/Pods`, `src/android` and the Unity export: more than a million lines
  of vendored or generated C, C++ and Objective-C (gRPC, BoringSSL, the C++ core of
  Firestore, Protobuf tables), against about 12,800 lines of Dart under
  `src/lib`.  They are other projects' code and no part of this program's logic;
  the share of all lines that the models stand for is small for this reason.
- The route screen (`navigation.dart`): it asks for one position, and then for
  the route and the distance from it.  Each answer writes a field of its own;
  what can go wrong is `setState` after dispose, which a model would only
  restate.
- NetworkManager: `isConnected` asks the device anew and appears as a task
  refused or let through; its stream only shows a message.
- The torch and camera switch of the scanner: their flags follow a plugin that
  is not in the repository.
- Search, sorting, categories, banners, validators, widgets, theme: filters of
  lists, regular expressions and layout.
- Besides: the remembered credentials of the login form, password reset, the
  sending of verification mails, `resetScan`, `fetchAllLocations` and
  `updateUserDetails` (never called), and the text of every message.  Token
  expiry, another device signed in to the same account and Firestore's offline
  queue are outside the models.
