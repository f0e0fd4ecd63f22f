------------------------------- MODULE Records -------------------------------
(***************************************************************************)
(* The page that manages the records of a zone (ListResourceRecords,       *)
(* RrCells, AddFqdn and AddRr in ResourceRecords.jsx) over the REST API of *)
(* the zone, with another client that changes the same zone.               *)
(*                                                                         *)
(* The page is assumed to show the whole zone; how a list is paged is in   *)
(* module ZoneList. The rules of React are the ones stated there. The      *)
(* rows of the table are closures over the objects of `rrs`, which some    *)
(* handlers change in place: `rrs` is what these objects hold, `view` what *)
(* the table shows since it was last rendered.                             *)
(***************************************************************************)
EXTENDS Zone, RecordForm

CONSTANTS
    TypedValues,    \* the values the user types
    TypedNames,     \* the names the user adds
    OtherRequests,  \* what the other client may send: operation, name and body
    MaxClicks,      \* bound: what the user does
    MaxSelections,  \* bound: how often they select a type in one dialog
    MaxEvents       \* bound: lost requests and answers, other clients' requests

VARIABLES
    ui,             \* React state of ListResourceRecords and its dialog
    calls,          \* the requests of the page, by the thread that serves them
    clicks, events

vars == <<zoneVars, ui, calls, clicks, events>>
bounds == <<clicks, events>>

\* What is in the database or in a request about a name: every type with its
\* values, one where rrProto has no array.
IsObject(name, e) ==
    /\ e = [t \in DOMAIN e |-> e[t]] /\ IsBody(name, e)
    /\ \A t \in DOMAIN e :
          /\ e[t] \in Seq(Values \union {Malformed}) /\ e[t] # <<>>
          /\ rrProto[t].array \/ Len(e[t]) = 1

ASSUME RecordsAssumption ==
    /\ 1 \in Threads /\ "spinner" \notin Names
    /\ Soa = "soa" /\ Types \subseteq DOMAIN rrProto
    /\ Malformed \notin Values /\ TypedValues \subseteq Values /\ TypedNames \subseteq Names
    /\ \A n \in DOMAIN InitialEntries : IsObject(n, InitialEntries[n])
    /\ \A r \in OtherRequests :
          /\ r.op \in Ops /\ r.name \in Names /\ (r.op \in ZoneOps => r.name = Apex)
          /\ IsObject(r.name, r.body)
    /\ {MaxClicks, MaxSelections, MaxEvents} \subseteq Nat

NoCall == [kind |-> "none"]
NotLoaded == [spinner |-> NoEntry]   \* rrs === null
NoDialog == [mode |-> "closed"]
NoForm == [type |-> "none"]

\* useState of ListResourceRecords, in its first render.
Loading == [rrs |-> NotLoaded, view |-> NotLoaded, error |-> FALSE,
            dialog |-> NoDialog, form |-> NoForm]

ListCall == [kind |-> "list", page |-> NotLoaded, lost |-> FALSE]

\* The effect of the first render sends the first listing.
Init ==
    /\ ZoneInit
    /\ ui = Loading
    /\ calls = [s \in Threads |-> IF s = 1 THEN ListCall ELSE NoCall]
    /\ clicks = 0 /\ events = 0

Shown == ~ui.error /\ ui.rrs # NotLoaded
Clickable == Shown /\ ui.dialog = NoDialog          \* the dialog is modal
DialogShown == Shown /\ ui.dialog # NoDialog
Click == clicks < MaxClicks /\ clicks' = clicks + 1 /\ UNCHANGED events
Free(s) ==
    /\ calls[s] = NoCall /\ jobs[s] = Idle
    /\ \A t \in Threads : t < s => calls[t] # NoCall \/ jobs[t] # Idle

-----------------------------------------------------------------------------
\* reload up to `await fetch`, in thread s, by a page in state u. The spinner
\* replaces the table and the dialog: a form that waits for an answer is gone.
FormsGone == [s \in Threads |->
    IF calls[s].kind = "addFqdn" THEN [calls[s] EXCEPT !.form = FALSE] ELSE calls[s]]

Reloading(s, u) ==
    /\ ui' = [u EXCEPT !.rrs = NotLoaded, !.view = NotLoaded, !.form = NoForm]
    /\ calls' = [FormsGone EXCEPT ![s] = ListCall]

\* From Start and Reload.
Reload(s) ==
    /\ Clickable /\ Click /\ Free(s)
    /\ Reloading(s, ui)
    /\ UNCHANGED zoneVars

\* The page is left and opened again: nobody waits for its answers any more.
Reopen(s) ==
    /\ Click /\ ~DialogShown
    /\ jobs[s] = Idle /\ calls[s].kind \in {"none", "list"}
    /\ ui' = Loading
    /\ calls' = [t \in Threads |-> IF t = s THEN ListCall ELSE NoCall]
    /\ UNCHANGED zoneVars

\* What the user can edit or delete: the values in the table.
IsRow(name, type, ix) ==
    /\ name \in DOMAIN ui.view /\ type \in DOMAIN ui.view[name]
    /\ ix \in DOMAIN ui.view[name][type]

\* A request that changes the zone. `base` and `sound` are observation: the
\* table showed what the zone had, and the object it is made from had what the
\* table showed.
Send(s, op, name, body, call) ==
    /\ Free(s) /\ Receive(s, op, name, body)
    /\ calls' = [calls EXCEPT ![s] = call]

Sound(name) == ui.rrs[name] = ui.view[name]
Base == IF ui.view = entries THEN entries ELSE NotLoaded
ChangeCall(kind, name, type, ix, value, sound) ==
    [kind |-> kind, name |-> name, type |-> type, ix |-> ix, value |-> value,
     lost |-> FALSE, base |-> Base, sound |-> sound]

\* deleteFqdn, confirmed.
deleteFqdn(s, name) ==
    /\ Clickable /\ Click /\ name \in DOMAIN ui.view
    /\ Send(s, "delete", name, NoEntry, ChangeCall("deleteFqdn", name, NoType, 0, "", TRUE))
    /\ UNCHANGED ui

\* deleteRr: the object of the row is spliced before the user is asked.
deleteRr(s, name, type, ix) ==
    /\ Clickable /\ Click /\ IsRow(name, type, ix)
    /\ ui' = [ui EXCEPT !.rrs[name] = Spliced(@, type, ix)]
    /\ Send(s, "put", name, DeleteBody(ui.rrs[name], type, ix),
            ChangeCall("deleteRr", name, type, ix, "", Sound(name)))

deleteRrDeclined(name, type, ix) ==
    /\ Clickable /\ Click /\ IsRow(name, type, ix)
    /\ ui' = [ui EXCEPT !.rrs[name] = Spliced(@, type, ix)]
    /\ UNCHANGED <<zoneVars, calls>>

-----------------------------------------------------------------------------
\* addFqdn, addRr and editRr open the dialog. It gets the object of the row;
\* nothing else changes that object while the dialog is open.
Opened(dialog, form) ==
    /\ Clickable /\ Click
    /\ ui' = [ui EXCEPT !.dialog = dialog, !.form = form]
    /\ UNCHANGED <<zoneVars, calls>>

NameForm == [type |-> "fqdn"]

\* What AddPopup shows when it is mounted.
FormFor(dialog) ==
    CASE dialog.mode = "addFqdn" -> NameForm
      [] dialog.mode = "addRr" -> AddForm(dialog.rr)
      [] dialog.mode = "editRr" -> EditForm(dialog.rr, dialog.type, dialog.ix)
      [] OTHER -> NoForm

addFqdn == LET dialog == [mode |-> "addFqdn"] IN Opened(dialog, FormFor(dialog))

addRr(name) ==
    /\ name \in DOMAIN ui.view
    /\ LET dialog == [mode |-> "addRr", name |-> name, ix |-> 0, rr |-> ui.rrs[name],
                      sound |-> Sound(name)]
       IN  Opened(dialog, FormFor(dialog))

editRr(name, type, ix) ==
    /\ IsRow(name, type, ix)
    /\ LET dialog == [mode |-> "editRr", name |-> name, type |-> type, ix |-> ix,
                      rr |-> ui.rrs[name], sound |-> Sound(name)]
       IN  Opened(dialog, FormFor(dialog))

\* Cancel or Escape: close() ends in onEditClosed, which reloads.
onCancel(s) ==
    /\ DialogShown /\ Click /\ Free(s)
    /\ Reloading(s, [ui EXCEPT !.dialog = NoDialog])
    /\ UNCHANGED zoneVars

\* A form that shows an error has no input to submit; one that adds a record
\* has its Save button off until a type is selected.
FqdnFormOpen == DialogShown /\ ui.form = NameForm
RrFormValid == DialogShown /\ ui.dialog.mode \in {"addRr", "editRr"} /\ ui.form.type # NoType

\* AddFqdn.submit up to `await fetch`.
submitFqdn(s, name) ==
    /\ FqdnFormOpen /\ Click
    /\ Send(s, "post", name, NoEntry,
            [kind |-> "addFqdn", name |-> name, lost |-> FALSE, form |-> TRUE,
             base |-> Base, sound |-> TRUE])
    /\ UNCHANGED ui

onSelectinChanged(type) ==
    /\ DialogShown /\ ui.dialog.mode = "addRr"
    /\ type \in (ui.form.offered \intersect Types) \union {NoType}
    /\ type # ui.form.type /\ ui.form.selections < MaxSelections
    /\ ui' = [ui EXCEPT !.form = Selected(@, type)]
    /\ UNCHANGED <<zoneVars, calls, bounds>>

\* AddRr.submit up to `await fetch`: the object is changed first, and stays
\* changed whatever comes of the request. When collecting the inputs or
\* setValueInRr throws, nothing is changed and nothing is sent.
submitRr(s, value) ==
    /\ RrFormValid /\ Click
    /\ ~CollectThrows(ui.form)
    /\ ~SetThrows(ui.dialog.rr, ui.form.type, ui.dialog.ix)
    /\ LET d == ui.dialog
           edited == IF CollectFits(ui.form) THEN value ELSE Malformed
           new == setValueInRr(d.rr, ui.form.type, d.ix, edited, Malformed)
       IN  /\ ui' = [ui EXCEPT !.dialog.rr = new]
           /\ Send(s, "put", d.name, new,
                   ChangeCall(d.mode, d.name, ui.form.type, d.ix, edited,
                              d.sound /\ d.name \in DOMAIN ui.view /\ d.rr = ui.view[d.name]))

-----------------------------------------------------------------------------
\* After `await fetch`.
Lost(s) == calls[s].kind # "none" /\ calls[s].lost
Heard(s, status) == calls[s].kind \notin {"none", "list"} /\ ~Lost(s) /\ jobs[s].phase = status

\* The thread is free again, or still at work for nobody.
CallEnds(s) ==
    /\ jobs' = [jobs EXCEPT ![s] = IF Finished(s) THEN Idle ELSE @]
    /\ UNCHANGED <<entries, serial, diffs, zrrIx, ghosts, bounds>>

ListLoaded(s) ==
    /\ calls[s].kind = "list" /\ ~Lost(s) /\ calls[s].page # NotLoaded
    /\ ui' = [ui EXCEPT !.rrs = calls[s].page, !.view = calls[s].page,
                        !.form = IF @ = NoForm THEN FormFor(ui.dialog) ELSE @]
    /\ calls' = [calls EXCEPT ![s] = NoCall]
    /\ UNCHANGED <<zoneVars, bounds>>

\* Mutant: without setError.
ListFailedSilently(s) ==
    /\ calls[s].kind = "list" /\ Lost(s)
    /\ calls' = [calls EXCEPT ![s] = NoCall]
    /\ UNCHANGED <<zoneVars, ui, bounds>>

\* The error text takes the place of the page: nobody waits for other answers.
ListFailed(s) ==
    /\ calls[s].kind = "list" /\ Lost(s)
    /\ ui' = [Loading EXCEPT !.error = TRUE]
    /\ calls' = [t \in Threads |-> NoCall]
    /\ UNCHANGED <<zoneVars, bounds>>

\* deleteFqdn and deleteRr: onChange reloads, a failure is only told. (A call
\* in flight takes the place of its answer.)
DeleteAnswered(s) ==
    /\ calls[s].kind \in {"deleteFqdn", "deleteRr"}
    /\ IF Heard(s, "ok")
       THEN Reloading(s, ui)
       ELSE /\ Heard(s, "refused") \/ Lost(s)
            /\ calls' = [calls EXCEPT ![s] = NoCall]
            /\ UNCHANGED ui
    /\ CallEnds(s)

\* Both dialogs: close() closes the dialog that is open by now.
SaveAnswered(s) ==
    /\ calls[s].kind \in {"addFqdn", "addRr", "editRr"}
    /\ IF Heard(s, "ok")
       THEN Reloading(s, [ui EXCEPT !.dialog = NoDialog])
       ELSE /\ Heard(s, "refused") \/ Lost(s)
            /\ calls' = [calls EXCEPT ![s] = NoCall]
            /\ ui' = IF calls[s].kind = "addFqdn" /\ Lost(s) /\ calls[s].form
                     THEN [ui EXCEPT !.form = [type |-> "failed"]] ELSE ui
    /\ CallEnds(s)

-----------------------------------------------------------------------------
\* The server: listZone, and the threads of module Zone. The iteration of
\* listZone starts at the apex. Where that is gone it starts at the key before
\* it, which ends the list if there is one (a name of another zone).
Listings == IF Apex \in DOMAIN entries THEN {entries} ELSE {entries, NoEntry}

ServeList(s) ==
    /\ calls[s].kind = "list" /\ calls[s].page = NotLoaded /\ ~Lost(s)
    /\ \E page \in Listings : calls' = [calls EXCEPT ![s].page = page]
    /\ UNCHANGED <<zoneVars, ui, bounds>>

Serve(s) ==
    /\ \/ Lookup(s) \/ CheckNew(s) \/ Commit(s)
       \/ Answer(s) /\ calls[s] = NoCall
    /\ UNCHANGED <<ui, calls, bounds>>

Event == events < MaxEvents /\ events' = events + 1 /\ UNCHANGED clicks

\* fetch rejects: the request did not get through, or its answer is lost.
NetworkFails(s) ==
    /\ Event /\ calls[s].kind # "none" /\ ~Lost(s)
    /\ calls' = [calls EXCEPT ![s].lost = TRUE]
    /\ Withdraw(s) \/ UNCHANGED zoneVars
    /\ UNCHANGED ui

\* Another client. When the zone is gone and no request is under way, it may
\* create it again (the bound: that costs no event).
Quiet == \A t \in Threads : jobs[t] = Idle /\ calls[t] = NoCall

OtherClient(s, r) ==
    /\ Free(s)
    /\ IF r.op = "newzone"
       THEN Apex \notin DOMAIN entries /\ Quiet /\ UNCHANGED bounds
       ELSE Event
    /\ Receive(s, r.op, r.name, r.body)
    /\ UNCHANGED <<ui, calls>>

User(s) ==
    \/ Reload(s) \/ Reopen(s) \/ onCancel(s)
    \/ \E name \in Names : deleteFqdn(s, name)
    \/ \E name \in DOMAIN ui.view : \E type \in DOMAIN ui.view[name] :
          \E ix \in DOMAIN ui.view[name][type] : deleteRr(s, name, type, ix)
    \/ \E name \in TypedNames : submitFqdn(s, name)
    \/ \E value \in TypedValues : submitRr(s, value)

UserOpens ==
    \/ addFqdn
    \/ \E name \in Names : addRr(name)
    \/ \E name \in DOMAIN ui.view : \E type \in DOMAIN ui.view[name] :
          \E ix \in DOMAIN ui.view[name][type] :
             editRr(name, type, ix) \/ deleteRrDeclined(name, type, ix)
    \/ \E type \in Types \union {NoType} : onSelectinChanged(type)

Next ==
    \/ UserOpens
    \/ \E s \in Threads :
          \/ User(s) \/ ServeList(s) \/ Serve(s) \/ NetworkFails(s)
          \/ ListLoaded(s) \/ ListFailed(s) \/ DeleteAnswered(s) \/ SaveAnswered(s)
          \/ \E r \in OtherRequests : OtherClient(s, r)

Spec == Init /\ [][Next]_vars

-----------------------------------------------------------------------------
\* The zone and what the table shows are entries, every type with at least one
\* value, and the dialog is there only with its table.
TypeOK ==
    /\ DOMAIN entries \subseteq Names /\ serial \in Nat /\ zrrIx \subseteq Names
    /\ \A n \in DOMAIN entries : IsEntry(entries[n])
    /\ ui.rrs # NotLoaded => DOMAIN ui.rrs \subseteq Names /\ DOMAIN ui.view = DOMAIN ui.rrs
    /\ ui.form # NoForm => DialogShown
    /\ clicks \in 0..MaxClicks /\ events \in 0..MaxEvents

\* The spinner never waits for nothing: while it turns, a listing that will
\* end it is in flight, whatever was closed, saved, deleted, lost or left
\* meanwhile.
SpinnerHasItsListing ==
    ui.rrs = NotLoaded /\ ~ui.error => \E s \in Threads : calls[s].kind = "list"

\* The dialog that adds a record sends a value with the fields of the type
\* that is selected, however often the user changed their mind about the type
\* and whatever inputs React reused: a form that cannot do so sends nothing.
SentValueFitsItsType ==
    \A s \in Threads : calls[s].kind = "addRr" => calls[s].value # Malformed

\* What the user asked for, of a zone that is what the table shows.
Intended(db, c) ==
    CASE c.kind = "deleteFqdn" -> Without(db, {c.name})
      [] c.kind = "addFqdn" -> Bound(db, c.name, NoEntry)
      [] OTHER ->
            LET rr == db[c.name]
                values == IF c.type \in DOMAIN rr THEN rr[c.type] ELSE <<>>
                new == CASE c.kind = "deleteRr" -> splice(values, c.ix)
                         [] c.kind = "editRr" -> [values EXCEPT ![c.ix] = c.value]
                         [] OTHER -> Append(values, c.value)
            IN  Bound(db, c.name, IF new = <<>> THEN Without(rr, {c.type})
                                  ELSE Bound(rr, c.type, new))

Commits(s) ==
    /\ calls[s].kind \notin {"none", "list"}
    /\ ReadyToCommit(s) /\ jobs'[s].phase = "ok"
    /\ calls[s].base = entries /\ jobs[s].seen.apex = Found(Apex)

\* A confirmed delete, an add and an edit change the value they name and
\* nothing else in the zone (the apex entry that is written back included), if
\* the table showed what the zone had and still has, the apex has not changed
\* since the handler read it, and no earlier request or question of this page
\* has changed the objects it is made from.
EditIsExact ==
    [][\A s \in Threads : Commits(s) /\ calls[s].sound => entries' = Intended(entries, calls[s])]_vars

\* "Do you really want to delete this ... Resorce Record?" (deleteRr): what is
\* deleted is this record, and nothing is deleted that was answered with no.
DeletesThisRecord ==
    [][\A s \in Threads : Commits(s) => entries' = Intended(entries, calls[s])]_vars
=============================================================================
