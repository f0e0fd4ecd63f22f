------------------------------ MODULE ZoneList ------------------------------
(***************************************************************************)
(* The dashboard of the admin UI: the paged list of zones (ListZones and   *)
(* EditZone in Zones.jsx) over the session, the REST listing it pages      *)
(* through, and other clients that add and delete zones meanwhile.         *)
(*                                                                         *)
(* React is external and modelled by the rules this code relies on: the    *)
(* state changes of one handler, or of one continuation after an await,    *)
(* take effect together; effects run after them; a handler sees the state  *)
(* of the render that made it; setting state of an unmounted component     *)
(* does nothing; list rows keyed by their index keep their state while the *)
(* table stays mounted.                                                    *)
(***************************************************************************)
EXTENDS Session, ZonePages, Sequences

CONSTANTS
    ZoneNames,      \* the zones there can be, numbers above 0
    InitialZones,
    TypedZones,     \* the names the user tries to add
    OtherZones,     \* the zones that other clients add and delete
    MaxClicks,      \* bound: what the user does
    MaxEvents       \* bound: failed requests, and changes by other clients

VARIABLES
    db,             \* the tenant's zones
    route,          \* "dashboard", or another page
    ui,             \* React state of ListZones, its table and its dialog
    clicks, events,
    \* Observation, read by the properties only:
    seen,           \* zones shown since the login
    stable,         \* zones that existed ever since the login
    overlap,        \* another listing was in flight at the last reload
    fresh           \* logged in, and the list not opened yet

bounds == <<clicks, events>>
observed == <<seen, stable, overlap, fresh>>
vars == <<token, hasError, storage, requests, db, route, ui, bounds, observed>>

Key == ZoneNames \union {NoKey}
Directions == {"forward", "backward"}

ASSUME ZonesAssumption ==
    /\ ZoneNames \subseteq Nat \ {0} /\ IsFiniteSet(ZoneNames)
    /\ InitialZones \union TypedZones \union OtherZones \subseteq ZoneNames
    /\ LeftCurrent \in Key

NotLoaded == <<NoKey>>      \* zones === null
NoNav == [kfirst |-> NoKey, klast |-> NoKey]

\* useState of ListZones, PopupDialog and EditZone. `metas` are the names the
\* rows' delete buttons captured, `form` is the mounted dialog.
Unmounted ==
    [mounted |-> FALSE, zones |-> NotLoaded, metas |-> <<>>, current |-> NoKey,
     currentDirection |-> "forward", canMoveForward |-> FALSE,
     canMoveBackward |-> FALSE, navKeys |-> NoNav, error |-> FALSE,
     isedit |-> FALSE, form |-> "none"]

Init ==
    /\ SessionInit
    /\ db = InitialZones
    /\ route = "dashboard"
    /\ ui = Unmounted
    /\ clicks = 0 /\ events = 0
    /\ seen = {} /\ stable = {} /\ overlap = FALSE /\ fresh = FALSE

-----------------------------------------------------------------------------
\* reload up to `await fetch`, called by a handler with state u. The closure
\* remembers whether the page it was called from was full, or not there.
Fullness(zones) ==
    CASE zones = NotLoaded -> "null"
      [] Len(zones) = PageSize -> "full"
      [] OTHER -> "short"

ListRequest(from, direction, full) ==
    [kind |-> "list", from |-> from, direction |-> direction, full |-> full,
     answer |-> Pending]

\* Mutant: without setZones(null).
ReloadingInPlace(u, direction) ==
    [u EXCEPT !.currentDirection = direction]

Reloading(u, direction) ==
    [u EXCEPT !.zones = NotLoaded, !.metas = <<>>, !.form = "none",
              !.currentDirection = direction]

\* The spinner replaces the table and its dialog: a form that waits for an
\* answer is no longer there to show an error.
FormsGone == [s \in Slots |->
    IF requests[s].kind = "post" THEN [requests[s] EXCEPT !.form = FALSE] ELSE requests[s]]

\* The effects on [current] save the position, with the direction of the
\* moment, whenever current has changed in a render that did not throw.
Saved(u) ==
    IF u.current # ui.current /\ ~u.error
    THEN [current |-> u.current, direction |-> u.currentDirection]
    ELSE storage

StartReload(s, u, from, direction, full) ==
    /\ ui' = Reloading(u, direction)
    /\ storage' = Saved(ui')
    /\ requests' = [FormsGone EXCEPT ![s] = ListRequest(from, direction, full)]
    /\ overlap' = \E t \in Slots \ {s} : requests[t].kind = "list"

\* Load once: the effect of the first render reads the saved position.
LoadOnce(s) ==
    /\ IsLoggedIn /\ route = "dashboard" /\ ~ui.mounted
    /\ Free(s)
    /\ LET from == storage.current
           dir == IF from = NoKey THEN "forward" ELSE storage.direction
       IN  /\ ui' = Reloading([Unmounted EXCEPT !.mounted = TRUE, !.current = from], dir)
           /\ storage' = [current |-> from, direction |-> dir]
           /\ requests' = [requests EXCEPT ![s] = ListRequest(from, dir, "null")]
           /\ overlap' = FALSE
    /\ fresh' = FALSE
    /\ UNCHANGED <<token, hasError, db, route, bounds, seen, stable>>

\* What the user sees and can click. The dialog is modal.
TableShown == ui.mounted /\ ~ui.error /\ ui.zones # NotLoaded
Clickable == TableShown /\ ~ui.isedit
Click == clicks < MaxClicks /\ clicks' = clicks + 1

\* Handlers that only send a listing change nothing else.
ClickFrame == UNCHANGED <<token, hasError, db, route, events, seen, stable, fresh>>

MoveFirst(s) ==
    /\ Clickable /\ Click /\ Free(s)
    /\ StartReload(s, [ui EXCEPT !.current = NoKey, !.navKeys = NoNav,
                                 !.canMoveBackward = FALSE],
                   NoKey, "forward", Fullness(ui.zones))
    /\ ClickFrame

MoveNext(s) ==
    /\ Clickable /\ ui.canMoveForward /\ Click /\ Free(s)
    /\ Len(ui.zones) > 0 /\ ui.navKeys # NoNav
    /\ StartReload(s, [ui EXCEPT !.current = ui.navKeys.klast],
                   ui.navKeys.klast, "forward", Fullness(ui.zones))
    /\ ClickFrame

MovePrev(s) ==
    /\ Clickable /\ ui.canMoveBackward /\ Click /\ Free(s)
    /\ Len(ui.zones) > 0 /\ ui.navKeys # NoNav
    /\ StartReload(s, [ui EXCEPT !.current = ui.navKeys.kfirst],
                   ui.navKeys.kfirst, "backward", Fullness(ui.zones))
    /\ ClickFrame

\* The Reload button is reloadCurrent.
ReloadCurrent(s) ==
    /\ Clickable /\ Click /\ Free(s)
    /\ StartReload(s, ui, ui.current, ui.currentDirection, Fullness(ui.zones))
    /\ ClickFrame

-----------------------------------------------------------------------------
\* What a handler's closure holds for the reloadCurrent it calls later.
Closure == [current |-> ui.current, direction |-> ui.currentDirection,
            full |-> Fullness(ui.zones)]

\* deleteZone, confirmed, up to `await fetch`: the name is the one the row's
\* button captured when it was mounted.
DeleteZone(s, row) ==
    /\ Clickable /\ Click /\ Free(s)
    /\ row \in DOMAIN ui.zones
    /\ requests' = [requests EXCEPT ![s] =
           [kind |-> "delete", zone |-> ui.metas[row], at |-> Closure,
            live |-> TRUE, answer |-> Pending]]
    /\ UNCHANGED <<ui, storage, overlap>>
    /\ ClickFrame

AddZone ==
    /\ Clickable /\ Click
    /\ ui' = [ui EXCEPT !.isedit = TRUE, !.form = "open"]
    /\ UNCHANGED <<storage, requests, overlap>>
    /\ ClickFrame

DialogShown == TableShown /\ ui.isedit

\* Once the form shows an error it has no inputs left to submit.
FormOpen == DialogShown /\ ui.form = "open"

\* EditZone.submit up to `await fetch`. The form stays, and can be submitted
\* again.
SaveZone(s, zone) ==
    /\ FormOpen /\ Click /\ Free(s)
    /\ requests' = [requests EXCEPT ![s] =
           [kind |-> "post", zone |-> zone, at |-> Closure,
            live |-> TRUE, form |-> TRUE, answer |-> Pending]]
    /\ UNCHANGED <<ui, storage, overlap>>
    /\ ClickFrame

\* Cancel, or Escape: the dialog closes and onEditClosed reloads.
CancelEdit(s) ==
    /\ DialogShown /\ Click /\ Free(s)
    /\ StartReload(s, [ui EXCEPT !.isedit = FALSE], ui.current,
                   ui.currentDirection, Fullness(ui.zones))
    /\ ClickFrame

\* ListZones goes away: answers to its listings have nobody to tell.
Detached == [s \in Slots |->
    CASE requests[s].kind = "list" -> NoRequest
      [] requests[s].kind \in {"delete", "post"} -> [requests[s] EXCEPT !.live = FALSE]
      [] OTHER -> requests[s]]

\* A link of the navigation pane, or the Manage link of a row.
Leave ==
    /\ IsLoggedIn /\ ~DialogShown /\ Click
    /\ route = "dashboard" /\ route' = "rr"
    /\ ui' = Unmounted
    /\ requests' = Detached
    /\ UNCHANGED <<token, hasError, storage, db, events, observed>>

Return ==
    /\ IsLoggedIn /\ Click
    /\ route = "rr" /\ route' = "dashboard"
    /\ UNCHANGED <<token, hasError, storage, requests, db, ui, events, observed>>

\* The page is loaded anew: only localStorage and the address survive.
Refresh ==
    /\ (IsLoggedIn \/ hasError) /\ Click
    /\ token' = FALSE /\ hasError' = FALSE
    /\ ui' = Unmounted
    /\ requests' = [s \in Slots |->
           IF requests[s].kind = "login" THEN NoRequest ELSE Detached[s]]
    /\ fresh' = FALSE
    /\ UNCHANGED <<storage, db, route, events, seen, stable, overlap>>

LoginForm(s) ==
    /\ \/ Click /\ \E valid \in BOOLEAN : Submit(s, valid)
       \/ ServeLogin(s) /\ UNCHANGED clicks
    /\ UNCHANGED <<db, route, ui, events, observed>>

\* A session begins with the first ok: the list is opened by LoadOnce.
LoggingIn(s) ==
    /\ LoginAnswered(s)
    /\ IF token' /\ ~token
       THEN fresh' = TRUE /\ seen' = {} /\ stable' = db
       ELSE UNCHANGED <<fresh, seen, stable>>
    /\ UNCHANGED <<db, route, ui, bounds, overlap>>

-----------------------------------------------------------------------------
\* The rest of reload, after `await fetch`.

\* setError makes the next render throw; ErrorBoundary drops ListZones.
Broken(s) ==
    /\ ui' = [Unmounted EXCEPT !.mounted = TRUE, !.error = TRUE]
    /\ requests' = [Detached EXCEPT ![s] = NoRequest]

\* Mutant: without setError.
ListFailedSilently(s) ==
    /\ IsAnswered(s, "list") /\ requests[s].answer.status # "ok"
    /\ requests' = [requests EXCEPT ![s] = NoRequest]
    /\ UNCHANGED <<token, hasError, storage, db, route, ui, bounds, observed>>

ListFailed(s) ==
    /\ IsAnswered(s, "list") /\ requests[s].answer.status # "ok"
    /\ Broken(s)
    /\ UNCHANGED <<token, hasError, storage, db, route, bounds, observed>>

\* Rows that were mounted keep the name their delete button captured.
Captured(value) ==
    [i \in DOMAIN value |-> IF i \in DOMAIN ui.metas THEN ui.metas[i] ELSE value[i]]

WithPage(page) ==
    [ui EXCEPT !.zones = page.value, !.metas = Captured(page.value),
               !.navKeys = page.keys,
               !.form = IF ~ui.isedit THEN "none" ELSE IF @ = "none" THEN "open" ELSE @]

\* The buttons after a page that was asked for in this direction.
WithMoves(u, r) ==
    CASE r.direction = "forward" ->
            [u EXCEPT !.canMoveBackward = r.from # NoKey,
                      !.canMoveForward = r.answer.page.more]
      [] r.direction = "backward" /\ ~r.answer.page.more ->
            [u EXCEPT !.current = NoKey, !.canMoveBackward = FALSE,
                      !.canMoveForward = r.full = "full"]
      [] OTHER -> [u EXCEPT !.canMoveBackward = TRUE, !.canMoveForward = TRUE]

\* zones.length with zones === null: the exception ends in setError.
Throws(r) == r.direction = "backward" /\ ~r.answer.page.more /\ r.full = "null"

ListLoaded(s) ==
    /\ IsAnswered(s, "list") /\ requests[s].answer.status = "ok"
    /\ LET r == requests[s] IN
       IF Throws(r)
       THEN /\ Broken(s)
            /\ UNCHANGED <<storage, seen>>
       ELSE /\ ui' = WithMoves(WithPage(r.answer.page), r)
            /\ storage' = Saved(ui')
            /\ requests' = [requests EXCEPT ![s] = NoRequest]
            /\ seen' = seen \union Range(r.answer.page.value)
    /\ UNCHANGED <<token, hasError, db, route, bounds, stable, overlap, fresh>>

\* deleteZone and EditZone.submit after `await fetch`. Both end, when all went
\* well, in the reloadCurrent of the render the click was made in.
ReloadFromClosure(s, u) ==
    StartReload(s, u, requests[s].at.current, requests[s].at.direction, requests[s].at.full)

Dropped(s) ==
    /\ requests' = [requests EXCEPT ![s] = NoRequest]
    /\ UNCHANGED <<ui, storage, overlap>>

AnswerFrame == UNCHANGED <<token, hasError, db, route, bounds, seen, stable, fresh>>

DeleteAnswered(s) ==
    /\ IsAnswered(s, "delete")
    /\ CASE ~requests[s].live -> Dropped(s)
         [] requests[s].live /\ requests[s].answer = Ok -> ReloadFromClosure(s, ui)
         [] OTHER -> Broken(s) /\ UNCHANGED <<storage, overlap>>
    /\ AnswerFrame

EditAnswered(s) ==
    /\ IsAnswered(s, "post")
    /\ LET r == requests[s] IN
       CASE r.live /\ r.answer = Ok -> ReloadFromClosure(s, [ui EXCEPT !.isedit = FALSE])
         [] r.live /\ r.answer = Failed /\ r.form ->
                /\ ui' = [ui EXCEPT !.form = "failed"]
                /\ requests' = [requests EXCEPT ![s] = NoRequest]
                /\ UNCHANGED <<storage, overlap>>
         [] OTHER -> Dropped(s)
    /\ AnswerFrame

-----------------------------------------------------------------------------
\* The server, one request at a time: listZones, and onZone for POST and
\* DELETE.
ServerFrame == UNCHANGED <<token, hasError, storage, route, ui, seen, overlap, fresh>>

\* What GET /zone?limit=..&from=..&direction=.. answers to a listing: qargs
\* leaves a null `from` out of the query.
PageOf(r) == ListZones(db, r.from, r.direction)

ServeList(s) ==
    /\ IsPending(s) /\ requests[s].kind = "list"
    /\ requests' = [requests EXCEPT ![s].answer =
           [status |-> "ok", page |-> PageOf(requests[s])]]
    /\ UNCHANGED <<db, stable, bounds>>
    /\ ServerFrame

ServeZone(s) ==
    /\ IsPending(s) /\ requests[s].kind \in {"post", "delete"}
    /\ LET r == requests[s]
           creates == r.kind = "post" /\ r.zone \notin db
           removes == r.kind = "delete" /\ r.zone \in db
       IN  /\ db' = IF creates THEN db \union {r.zone}
                    ELSE IF removes THEN db \ {r.zone} ELSE db
           /\ requests' = [requests EXCEPT ![s].answer =
                               IF creates \/ removes THEN Ok ELSE Refused]
    /\ stable' = stable \intersect db'
    /\ UNCHANGED bounds
    /\ ServerFrame

\* The request does not get through, or its answer does not get back.
NetworkFails(s) ==
    /\ events < MaxEvents /\ events' = events + 1
    /\ requests[s].kind # "none" /\ requests[s].answer # Failed
    /\ requests' = [requests EXCEPT ![s].answer = Failed]
    /\ UNCHANGED <<db, stable, clicks>>
    /\ ServerFrame

\* Another client of the same tenant.
OtherClient(zone) ==
    /\ events < MaxEvents /\ events' = events + 1
    /\ db' = IF zone \in db THEN db \ {zone} ELSE db \union {zone}
    /\ stable' = stable \intersect db'
    /\ UNCHANGED <<requests, clicks>>
    /\ ServerFrame

User(s) ==
    \/ MoveFirst(s) \/ MoveNext(s) \/ MovePrev(s) \/ ReloadCurrent(s)
    \/ CancelEdit(s)
    \/ \E row \in 1..PageSize : DeleteZone(s, row)
    \/ \E zone \in TypedZones : SaveZone(s, zone)

Answered(s) ==
    \/ LoggingIn(s) \/ ListLoaded(s) \/ ListFailed(s)
    \/ DeleteAnswered(s) \/ EditAnswered(s)

Served(s) == ServeList(s) \/ ServeZone(s)

Next ==
    \/ \E s \in Slots : \/ LoginForm(s) \/ LoadOnce(s) \/ User(s)
                       \/ Served(s) \/ Answered(s) \/ NetworkFails(s)
    \/ AddZone \/ Leave \/ Return \/ Refresh
    \/ \E zone \in OtherZones : OtherClient(zone)

Spec == Init /\ [][Next]_vars

\* The server answers, or the browser gives up; then the code after the await
\* runs, and React runs the effects of a mounted component. The user owes
\* nothing.
Progress == \E s \in Slots : LoadOnce(s) \/ Served(s) \/ Answered(s)

FairSpec == Spec /\ WF_vars(Progress)

-----------------------------------------------------------------------------
\* The state of the session and of the list has its shape; in particular the
\* table never shows more rows than a page, nor a dialog without a table.
TypeOK ==
    /\ token \in BOOLEAN /\ hasError \in BOOLEAN
    /\ storage \in [current : Key, direction : Directions]
    /\ db \subseteq ZoneNames /\ stable \subseteq db /\ seen \subseteq ZoneNames
    /\ route \in {"dashboard", "rr"}
    /\ ui.current \in Key /\ ui.currentDirection \in Directions
    /\ Len(ui.zones) <= PageSize
    /\ ui.mounted => IsLoggedIn /\ route = "dashboard"
    /\ ui.form # "none" => DialogShown

\* Paging shows everything. When Next is off, every zone that existed ever
\* since the login has been on a page: whatever other clients add and delete
\* meanwhile (the key a page ended with included), whatever order answers
\* arrive in, and wherever the user moved back, reloaded, left and returned.
NoZoneSkipped ==
    TableShown /\ ~ui.canMoveForward => stable \subseteq seen

\* The delete button of a row deletes the zone the row shows, as long as no
\* two listings were in flight together: the buttons capture their name when
\* the row is mounted, and it is the setZones(null) of reload that unmounts
\* the rows before a new page arrives.
ButtonDeletesItsRow ==
    TableShown /\ ~overlap => \A row \in DOMAIN ui.zones : ui.metas[row] = ui.zones[row]

\* A login starts at the first page, also after a refresh of the browser that
\* left the position of the previous session in localStorage.
LoginStartsAtTheTop ==
    fresh => storage.current = NoKey

\* The spinner ends: once the list is opened or reloaded, a page or the error
\* text shows up, unless the user leaves.
SpinnerEnds ==
    (ui.mounted /\ ui.zones = NotLoaded /\ ~ui.error)
        ~> (TableShown \/ ui.error \/ ~ui.mounted)
=============================================================================
