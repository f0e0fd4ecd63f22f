---------------------------- MODULE ZoneListSteps ---------------------------
(***************************************************************************)
(* The inductive invariant of the dashboard, and that every step keeps it. *)
(* What a page of listZones holds is a hypothesis here (PagesComplete);    *)
(* ZoneListProofs proves it.                                               *)
(***************************************************************************)
EXTENDS ZoneList, TLAPS

\* Time for a leaf that names no prover.
USE SMTT(30), ZenonT(30)

-----------------------------------------------------------------------------
(* The types of the list, its requests and their answers.                  *)

Position == [current : Key, direction : Directions]
Fulls == {"null", "full", "short"}
Keys == [kfirst : Key, klast : Key]
Page == [value : Seq(ZoneNames), more : BOOLEAN, keys : Keys]
Answer == {Pending, Ok, Refused, Failed}
ListAnswer == {Pending, Failed} \union [status : {"ok"}, page : Page]
ClosureType == [current : Key, direction : Directions, full : Fulls]

LoginType == [kind : {"login"}, valid : BOOLEAN, answer : Answer]
ListType == [kind : {"list"}, from : Key, direction : Directions, full : Fulls, answer : ListAnswer]
DeleteType == [kind : {"delete"}, zone : Key, at : ClosureType, live : BOOLEAN, answer : Answer]
PostType == [kind : {"post"}, zone : ZoneNames, at : ClosureType, live : BOOLEAN,
             form : BOOLEAN, answer : Answer]
Request == {NoRequest} \union LoginType \union ListType \union DeleteType \union PostType

Ui == [mounted : BOOLEAN, zones : Seq(Key), metas : Seq(Key), current : Key,
       currentDirection : Directions, canMoveForward : BOOLEAN, canMoveBackward : BOOLEAN,
       navKeys : Keys, error : BOOLEAN, isedit : BOOLEAN, form : {"none", "open", "failed"}]

ListAt(s) == requests[s].kind = "list"
LiveAt(s) == requests[s].kind \in {"delete", "post"} /\ requests[s].live

Types ==
    /\ token \in BOOLEAN /\ hasError \in BOOLEAN /\ storage \in Position
    /\ requests \in [Slots -> Request] /\ ui \in Ui
    /\ db \subseteq ZoneNames /\ stable \subseteq db /\ seen \subseteq ZoneNames
    /\ route \in {"dashboard", "rr"}

\* An answered listing holds a page, no longer than asked for.
PageFits(r) == r.kind = "list" /\ r.answer.status = "ok" => Len(r.answer.page.value) <= PageSize
PagesFit == \A s \in Slots : PageFits(requests[s])

\* The table: at most a page of rows, each with its button; the list is there
\* only in a session, on its route; a dialog only over a table.
TableFits ==
    /\ Len(ui.zones) <= PageSize
    /\ ui.zones # NotLoaded => Len(ui.metas) = Len(ui.zones)
    /\ ui.mounted => token /\ route = "dashboard"
    /\ ui.form # "none" => ui.mounted /\ ~ui.error /\ ui.zones # NotLoaded /\ ui.isedit

\* Whoever waits for an answer has a list to show it on, and a form that
\* waits is there.
Waiting ==
    /\ ~ui.mounted \/ ui.error => \A s \in Slots : ~ListAt(s) /\ ~LiveAt(s)
    /\ \A s \in Slots : requests[s].kind = "post" /\ requests[s].live /\ requests[s].form =>
           ui.form # "none"

\* Without overlap there is at most one listing in flight, and while there is
\* one, no row is mounted that could keep an old name.
OneListing ==
    ~overlap =>
        /\ \A s, t \in Slots : ListAt(s) /\ ListAt(t) => s = t
        /\ \A s \in Slots : ListAt(s) => ui.zones = NotLoaded /\ ui.metas = << >>

RowsMatch == ui.zones # NotLoaded /\ ~overlap =>
                \A row \in DOMAIN ui.zones : ui.metas[row] = ui.zones[row]

\* A session that has not opened its list has it at the top.
FreshAtTop == fresh => storage.current = NoKey /\ ~ui.mounted

RowsInv == OneListing /\ RowsMatch /\ FreshAtTop

TableInv == Types /\ PagesFit /\ TableFits /\ Waiting

-----------------------------------------------------------------------------
(* Every zone that was there ever since the login, up to a position, has   *)
(* been shown.                                                             *)

SeenUpTo(k, there, shown) == \A z \in there : z <= k => z \in shown

\* listZones ignores the direction of a request without `from`.
ServedForward(r) == r.from = NoKey \/ r.direction # "backward"

\* What the page of an answered listing tells about the zones there.
Covers(r, there) ==
    LET page == r.answer.page IN
    /\ ServedForward(r) => \A z \in there :
           z > r.from /\ (z <= page.keys.klast \/ ~page.more) => z \in Range(page.value)
    /\ ~ServedForward(r) => page.keys.klast <= r.from
    /\ page.keys.kfirst <= page.keys.klast
    /\ Len(page.value) < PageSize => ~page.more

\* A listing, or one that a closure will send, starts where all has been
\* seen; one that goes back from a short page has seen all, or starts at the
\* top.
StartsSeen(from, direction, full, there, shown) ==
    /\ SeenUpTo(from, there, shown)
    /\ direction = "backward" /\ full = "short" => there \subseteq shown \/ from = NoKey

RequestSeen(r, there, shown) ==
    /\ r.kind = "list" => StartsSeen(r.from, r.direction, r.full, there, shown)
    /\ r.kind = "list" /\ r.answer.status = "ok" => Covers(r, there)
    /\ r.kind \in {"delete", "post"} /\ r.live =>
           StartsSeen(r.at.current, r.at.direction, r.at.full, there, shown)

\* The positions the buttons go to; Next is off, or the page short, only when
\* all has been seen or the list is at the top.
TableSeen(u, there, shown) ==
    u.mounted =>
        /\ SeenUpTo(u.current, there, shown)
        /\ u.zones # NotLoaded =>
               /\ SeenUpTo(u.navKeys.kfirst, there, shown)
               /\ SeenUpTo(u.navKeys.klast, there, shown)
               /\ ~u.canMoveForward => there \subseteq shown
               /\ Fullness(u.zones) = "short" =>
                      there \subseteq shown \/ (u.current = NoKey /\ ~u.canMoveBackward)

SeenInv ==
    /\ \A s \in Slots : RequestSeen(requests[s], stable, seen)
    /\ TableSeen(ui, stable, seen)
    /\ token => SeenUpTo(storage.current, stable, seen)

ListInv == TableInv /\ SeenInv /\ RowsInv

\* A page is asked for from the key the page before it ended with: forward it
\* holds every zone from there up to its own last key, or all there are when
\* it says that there are no more; backward it lies before that key.
Complete(p, there, from, direction) ==
    LET forward == from = NoKey \/ direction # "backward" IN
    /\ p = [value |-> p.value, more |-> p.more, keys |-> p.keys]
    /\ p.value \in Seq(there) /\ Len(p.value) <= PageSize /\ p.more \in BOOLEAN
    /\ p.keys \in [kfirst : there \union {NoKey}, klast : there \union {NoKey}]
    /\ p.keys.kfirst <= p.keys.klast
    /\ Len(p.value) < PageSize => ~p.more
    /\ forward => \A z \in there :
           z > from /\ (z <= p.keys.klast \/ ~p.more) => z \in Range(p.value)
    /\ ~forward => p.keys.klast <= from

PagesComplete ==
    \A there \in SUBSET ZoneNames, from \in Key, direction \in Directions :
        Complete(ListZones(there, from, direction), there, from, direction)

\* A sequence over a set is one over a larger set.
LEMMA SeqMonotone ==
  ASSUME NEW A, NEW B, A \subseteq B, NEW v \in Seq(A)
  PROVE  v \in Seq(B)
<1> DEFINE n == Len(v)
<1>1. n \in Nat /\ v \in [1..n -> A]
  OBVIOUS
<1>2. v \in [1..n -> B]
  BY <1>1
<1> HIDE DEF n
<1> QED BY <1>1, <1>2

\* A form that waits for its answer.
FormAt(s) == requests[s].kind = "post" /\ requests[s].live /\ requests[s].form

\* What a step does to the request of a slot: it keeps it, with or without
\* its answer, or drops it, or nobody waits for it any more.
Keeps(t) ==
    LET r == requests[t]
        q == requests'[t]
    IN  /\ q \in Request
        /\ q.kind = "list" =>
               /\ r.kind = "list"
               /\ q.from = r.from /\ q.direction = r.direction /\ q.full = r.full
               /\ q.answer.status = "ok" => q.answer = r.answer
        /\ q.kind \in {"delete", "post"} /\ q.live =>
               r.kind \in {"delete", "post"} /\ r.live /\ q.at = r.at
        /\ q.kind = "post" /\ q.live /\ q.form => r.kind = "post" /\ r.live /\ r.form

\* A request whose answer nobody waits for.
Unawaited(q) ==
    q \in Request /\ q.kind # "list" /\ (q.kind \in {"delete", "post"} => ~q.live)

\* What the kind of a request tells about its shape.
LEMMA RequestKinds ==
    ASSUME NEW r \in Request
    PROVE  /\ r.kind \in {"none", "login", "list", "delete", "post"}
           /\ r.kind = "none" => r = NoRequest
           /\ r.kind = "login" => r \in LoginType
           /\ r.kind = "list" => r \in ListType
           /\ r.kind = "delete" => r \in DeleteType
           /\ r.kind = "post" => r \in PostType
  BY DEF Request, NoRequest, LoginType, ListType, DeleteType, PostType

\* What the status of a listing's answer tells about its shape.
LEMMA ListAnswers ==
    ASSUME NEW a \in ListAnswer
    PROVE  a.status = "ok" => a.page \in Page /\ a = [status |-> "ok", page |-> a.page]
  BY DEF ListAnswer, Pending, Failed

\* A request whose slot is not touched, is dropped, or gets an answer.
LEMMA Untouched ==
    ASSUME Types, NEW t \in Slots, requests'[t] = requests[t]
    PROVE  Keeps(t)
  BY DEF Types, Keeps

\* A slot whose request nobody waits for keeps the invariant.
LEMMA UnawaitedKeeps ==
    ASSUME NEW t, Unawaited(requests'[t])
    PROVE  Keeps(t)
  BY Zenon DEF Unawaited, Keeps

\* Nobody waits for an empty slot.
LEMMA NoRequestUnawaited == Unawaited(NoRequest)
  BY DEF Unawaited, NoRequest, Request

\* A request is put into a slot: the others keep theirs.
LEMMA PutKeeps ==
    ASSUME Types, NEW s \in Slots, NEW r \in Request, requests' = [requests EXCEPT ![s] = r]
    PROVE  /\ requests'[s] = r /\ requests' \in [Slots -> Request]
           /\ \A t \in Slots \ {s} : requests'[t] = requests[t] /\ Keeps(t)
<1>1. requests \in [Slots -> Request]
  BY DEF Types
<1>2. /\ requests'[s] = r /\ requests' \in [Slots -> Request]
      /\ \A t \in Slots \ {s} : requests'[t] = requests[t]
  BY <1>1
<1> QED BY <1>2, Untouched

\* A request leaves its slot.
LEMMA DropKeeps ==
    ASSUME Types, NEW s \in Slots, requests' = [requests EXCEPT ![s] = NoRequest]
    PROVE  requests' \in [Slots -> Request] /\ \A t \in Slots : Keeps(t)
<1>1. NoRequest \in Request
  BY DEF Request
<1>2. requests'[s] = NoRequest /\ requests' \in [Slots -> Request] /\ \A t \in Slots \ {s} : Keeps(t)
  BY Zenon, <1>1, PutKeeps
<1> QED BY <1>2, NoRequestUnawaited, UnawaitedKeeps

\* A request that is no listing gets its answer, or any request fails.
LEMMA AnswerKeeps ==
    ASSUME Types, NEW s \in Slots, NEW a \in Answer, requests[s].kind # "none",
           requests[s].kind = "list" => a = Failed,
           requests' = [requests EXCEPT ![s].answer = a]
    PROVE  requests' \in [Slots -> Request] /\ \A t \in Slots : Keeps(t)
<1> DEFINE r == requests[s]
           q == [r EXCEPT !.answer = a]
<1>0. r \in Request
  BY DEF Types
<1>1. requests' = [requests EXCEPT ![s] = q]
  OBVIOUS
<1>2. ASSUME q \in Request
      PROVE  /\ requests'[s] = q /\ requests' \in [Slots -> Request]
             /\ \A t \in Slots \ {s} : Keeps(t)
  BY Zenon, <1>1, <1>2, PutKeeps
<1>3. CASE r.kind = "login"
  <2>1. q \in LoginType /\ q.kind = "login"
    BY <1>0, <1>3, RequestKinds DEF LoginType
  <2>2. Unawaited(q)
    BY <2>1 DEF Unawaited, Request
  <2>3. q \in Request
    BY <2>2 DEF Unawaited
  <2> HIDE DEF q
  <2> QED BY <1>2, <2>2, <2>3, UnawaitedKeeps
<1>4. CASE r.kind = "list"
  <2>1. r \in ListType /\ a = Failed
    BY <1>0, <1>4, RequestKinds
  <2>2. /\ q \in ListType /\ q.kind = "list" /\ q.answer.status # "ok"
        /\ q.from = r.from /\ q.direction = r.direction /\ q.full = r.full
    BY <2>1 DEF ListType, ListAnswer, Failed
  <2>3. q \in Request
    BY <2>2 DEF Request
  <2> HIDE DEF q
  <2>4. Keeps(s)
    BY Zenon, <1>2, <1>4, <2>2, <2>3 DEF Keeps
  <2> QED BY <1>2, <2>3, <2>4
<1>5. CASE r.kind = "delete"
  <2>1. r \in DeleteType
    BY <1>0, <1>5, RequestKinds
  <2>2. q \in DeleteType /\ q.kind = "delete" /\ q.live = r.live /\ q.at = r.at
    BY <2>1 DEF DeleteType
  <2>3. q \in Request
    BY <2>2 DEF Request
  <2> HIDE DEF q
  <2>4. Keeps(s)
    BY <1>2, <1>5, <2>2, <2>3 DEF Keeps
  <2> QED BY <1>2, <2>3, <2>4
<1>6. CASE r.kind = "post"
  <2>1. r \in PostType
    BY <1>0, <1>6, RequestKinds
  <2>2. q \in PostType /\ q.kind = "post" /\ q.live = r.live /\ q.at = r.at /\ q.form = r.form
    BY <2>1 DEF PostType
  <2>3. q \in Request
    BY <2>2 DEF Request
  <2> HIDE DEF q
  <2>4. Keeps(s)
    BY <1>2, <1>6, <2>2, <2>3 DEF Keeps
  <2> QED BY <1>2, <2>3, <2>4
<1> QED BY <1>0, <1>3, <1>4, <1>5, <1>6, RequestKinds

\* ListZones is gone: nobody waits.
LEMMA DetachedUnawaited ==
    ASSUME Types, NEW t \in Slots
    PROVE  Unawaited(Detached[t])
<1> DEFINE r == requests[t]
<1>0. r \in Request
  BY DEF Types
<1>1. CASE r.kind = "list"
  BY <1>1, NoRequestUnawaited DEF Detached
<1>2. CASE r.kind = "delete"
  <2>1. r \in DeleteType /\ Detached[t] = [r EXCEPT !.live = FALSE]
    BY <1>0, <1>2, RequestKinds DEF Detached
  <2>2. Detached[t] \in DeleteType /\ ~Detached[t].live /\ Detached[t].kind = "delete"
    BY Zenon, <2>1 DEF DeleteType
  <2> QED BY <2>2 DEF Unawaited, Request
<1>3. CASE r.kind = "post"
  <2>1. r \in PostType /\ Detached[t] = [r EXCEPT !.live = FALSE]
    BY <1>0, <1>3, RequestKinds DEF Detached
  <2>2. Detached[t] \in PostType /\ ~Detached[t].live /\ Detached[t].kind = "post"
    BY Zenon, <2>1 DEF PostType
  <2> QED BY <2>2 DEF Unawaited, Request
<1>4. CASE r.kind \notin {"list", "delete", "post"}
  <2>1. Detached[t] = r
    BY <1>4 DEF Detached
  <2> QED BY <1>0, <1>4, <2>1 DEF Unawaited
<1> QED BY <1>1, <1>2, <1>3, <1>4

-----------------------------------------------------------------------------
(* What has been seen stays seen.                                          *)

\* All of this survives when zones go away and more is shown.
LEMMA SeenGrows ==
    ASSUME NEW there, NEW shown, NEW there2, NEW shown2, there2 \subseteq there, shown \subseteq shown2
    PROVE  /\ \A k : SeenUpTo(k, there, shown) => SeenUpTo(k, there2, shown2)
           /\ there \subseteq shown => there2 \subseteq shown2
           /\ \A f, d, g : StartsSeen(f, d, g, there, shown) => StartsSeen(f, d, g, there2, shown2)
           /\ \A r : Covers(r, there) => Covers(r, there2)
           /\ \A u : TableSeen(u, there, shown) => TableSeen(u, there2, shown2)
<1>1. \A k : SeenUpTo(k, there, shown) => SeenUpTo(k, there2, shown2)
  BY Zenon DEF SeenUpTo
<1>2. there \subseteq shown => there2 \subseteq shown2
  OBVIOUS
<1>3. \A f, d, g : StartsSeen(f, d, g, there, shown) => StartsSeen(f, d, g, there2, shown2)
  BY Zenon, <1>1, <1>2 DEF StartsSeen
<1>4. \A r : Covers(r, there) => Covers(r, there2)
  BY Zenon DEF Covers
<1>5. \A u : TableSeen(u, there, shown) => TableSeen(u, there2, shown2)
  BY Zenon, <1>1, <1>2 DEF TableSeen
<1> QED BY Zenon, <1>1, <1>2, <1>3, <1>4, <1>5

\* The same, from one state to the next.
LEMMA SeenKept ==
    ASSUME stable' \subseteq stable, seen \subseteq seen'
    PROVE  /\ \A k : SeenUpTo(k, stable, seen) => SeenUpTo(k, stable', seen')
           /\ \A u : TableSeen(u, stable, seen) => TableSeen(u, stable', seen')
  BY SeenGrows

\* There is no zone at or before "no key".
LEMMA SeenNoKey ==
    ASSUME NEW there \in SUBSET ZoneNames, NEW shown
    PROVE  SeenUpTo(NoKey, there, shown)
  BY ZonesAssumption DEF SeenUpTo, NoKey

\* A request that is kept starts where all has been seen, as before.
LEMMA KeepsSeen ==
    ASSUME NEW t \in Slots, Keeps(t), RequestSeen(requests[t], stable, seen), PageFits(requests[t]),
           stable' \subseteq stable, seen \subseteq seen'
    PROVE  RequestSeen(requests'[t], stable', seen') /\ PageFits(requests'[t])
<1> DEFINE r == requests[t]
           q == requests'[t]
<1>1. ASSUME q.kind = "list"
      PROVE  /\ r.kind = "list" /\ q.from = r.from /\ q.direction = r.direction /\ q.full = r.full
             /\ q.answer.status = "ok" => q.answer = r.answer
  BY Zenon, <1>1 DEF Keeps
<1>2. q.kind = "list" => StartsSeen(q.from, q.direction, q.full, stable', seen')
  BY <1>1, SeenGrows DEF RequestSeen
<1>3. q.kind = "list" /\ q.answer.status = "ok" => Covers(q, stable') /\ PageFits(q)
  <2> SUFFICES ASSUME q.kind = "list", q.answer.status = "ok" PROVE Covers(q, stable') /\ PageFits(q)
    BY Zenon
  <2>1. Covers(r, stable') /\ PageFits(r) /\ q.answer = r.answer
    BY Zenon, <1>1, SeenGrows DEF RequestSeen
  <2> QED BY Zenon, <1>1, <2>1 DEF Covers, ServedForward, PageFits
<1>4. q.kind \in {"delete", "post"} /\ q.live =>
         StartsSeen(q.at.current, q.at.direction, q.at.full, stable', seen')
  <2> SUFFICES ASSUME q.kind \in {"delete", "post"}, q.live
               PROVE  StartsSeen(q.at.current, q.at.direction, q.at.full, stable', seen')
    OBVIOUS
  <2>1. r.kind \in {"delete", "post"} /\ r.live /\ q.at = r.at
    BY DEF Keeps
  <2>2. StartsSeen(r.at.current, r.at.direction, r.at.full, stable, seen)
    BY Zenon, <2>1 DEF RequestSeen
  <2>3. StartsSeen(r.at.current, r.at.direction, r.at.full, stable', seen')
    BY <2>2, SeenGrows
  <2> QED BY Zenon, <2>1, <2>3
<1> QED BY Zenon, <1>2, <1>3, <1>4 DEF RequestSeen, PageFits

\* A request nobody waits for tells nothing about what was seen.
LEMMA UnawaitedSeen ==
    ASSUME NEW q, Unawaited(q), NEW there, NEW shown
    PROVE  RequestSeen(q, there, shown) /\ PageFits(q)
  BY Zenon DEF Unawaited, RequestSeen, PageFits

-----------------------------------------------------------------------------
(* Each kind of step keeps the invariant.                                  *)

\* The page stays as it is: the server, the network, other clients, the login
\* form, answers nobody waits for. A first login starts what is to be seen.
LEMMA CalmStep ==
    ASSUME ListInv, requests' \in [Slots -> Request], \A t \in Slots : Keeps(t), ui' = ui,
           token' \in BOOLEAN, token => token', hasError' \in BOOLEAN,
           storage' \in Position, storage'.current \in {storage.current, NoKey},
           db' \subseteq ZoneNames, stable' \subseteq db', route' \in {"dashboard", "rr"},
           ui.mounted => route' = "dashboard",
           overlap' = overlap, fresh' => storage'.current = NoKey /\ ~ui.mounted,
           \/ (token' <=> token) /\ stable' \subseteq stable /\ seen' = seen
           \/ ~token /\ seen' = {} /\ storage'.current = NoKey
    PROVE  ListInv'
<1>0. Types /\ PagesFit /\ TableFits /\ Waiting /\ SeenInv /\ RowsInv
  BY DEF ListInv, TableInv
<1>1. \A t \in Slots : /\ requests'[t].kind = "list" => ListAt(t)
                       /\ LiveAt(t)' => LiveAt(t)
                       /\ FormAt(t)' => FormAt(t)
  BY Zenon DEF Keeps, ListAt, LiveAt, FormAt
<1>2. Types'
  BY Zenon, <1>0, ZonesAssumption DEF Types
<1>3. TableFits'
  BY <1>0 DEF TableFits
<1>4. Waiting'
  BY Zenon, <1>0, <1>1 DEF Waiting, ListAt, LiveAt, FormAt
<1>r. RowsInv'
  BY Zenon, <1>0, <1>1 DEF RowsInv, OneListing, RowsMatch, FreshAtTop, ListAt
<1>5. SeenUpTo(NoKey, stable', seen')
  BY <1>2, SeenNoKey DEF Types
<1>6. CASE (token' <=> token) /\ stable' \subseteq stable /\ seen' = seen
  <2>1. \A t \in Slots : RequestSeen(requests'[t], stable', seen') /\ PageFits(requests'[t])
    BY <1>0, <1>6, KeepsSeen DEF SeenInv, PagesFit
  <2>2. TableSeen(ui', stable', seen')
    <3>1. TableSeen(ui, stable, seen) /\ stable' \subseteq stable /\ seen \subseteq seen'
      BY <1>0, <1>6 DEF SeenInv
    <3> QED BY Zenon, <3>1, SeenKept
  <2>3. token' => SeenUpTo(storage'.current, stable', seen')
    <3>1. stable' \subseteq stable /\ seen \subseteq seen'
      BY <1>6
    <3>2. SeenUpTo(storage.current, stable, seen) => SeenUpTo(storage.current, stable', seen')
      BY Zenon, <3>1, SeenKept
    <3> QED BY Zenon, <1>0, <1>5, <1>6, <3>2 DEF SeenInv
  <2> QED BY Zenon, <1>2, <1>3, <1>4, <1>r, <2>1, <2>2, <2>3 DEF ListInv, TableInv, SeenInv, PagesFit
<1>7. CASE ~token /\ seen' = {} /\ storage'.current = NoKey
  <2>1. ~ui.mounted
    BY <1>0, <1>7 DEF TableFits
  <2>2. \A t \in Slots : Unawaited(requests'[t])
    BY Zenon, <1>0, <1>1, <2>1 DEF Waiting, Unawaited, ListAt, LiveAt, Keeps
  <2>3. TableSeen(ui', stable', seen')
    BY <2>1 DEF TableSeen
  <2> QED BY Zenon, <1>2, <1>3, <1>4, <1>r, <1>5, <1>7, <2>2, <2>3, UnawaitedSeen
          DEF ListInv, TableInv, SeenInv, PagesFit
<1> QED BY <1>6, <1>7

\* ListZones is gone, or its error text takes its place.
LEMMA GoneStep ==
    ASSUME ListInv, requests' \in [Slots -> Request], \A t \in Slots : Unawaited(requests'[t]),
           \/ ui' = Unmounted
           \/ ui' = [Unmounted EXCEPT !.mounted = TRUE, !.error = TRUE] /\ ui.mounted
              /\ (token' <=> token) /\ route' = route,
           token' \in BOOLEAN, token' => token, hasError' \in BOOLEAN,
           route' \in {"dashboard", "rr"}, UNCHANGED <<storage, db, seen, stable, overlap>>,
           fresh' => fresh
    PROVE  ListInv'
<1>0. Types /\ TableFits /\ SeenInv /\ RowsInv
  BY DEF ListInv, TableInv
<1>1. /\ ui' \in Ui /\ ui'.zones = NotLoaded /\ ui'.current = NoKey /\ ui'.form = "none"
      /\ ui'.mounted => ui.mounted /\ (token' <=> token) /\ route' = route
  <2>1. NoKey \in Key /\ NoNav \in Keys /\ NotLoaded \in Seq(Key) /\ << >> \in Seq(Key)
    BY DEF Key, NoNav, Keys, NotLoaded
  <2>2. /\ Unmounted \in Ui /\ Unmounted.zones = NotLoaded /\ Unmounted.current = NoKey
        /\ Unmounted.form = "none" /\ ~Unmounted.mounted
    BY <2>1 DEF Unmounted, Ui, Directions
  <2>3. CASE ui' = Unmounted
    BY <2>2, <2>3
  <2>4. CASE ui' # Unmounted
    <3> DEFINE u == [Unmounted EXCEPT !.mounted = TRUE, !.error = TRUE]
    <3>1. u \in Ui /\ u.zones = NotLoaded /\ u.current = NoKey /\ u.form = "none"
      BY Zenon, <2>2 DEF Ui
    <3>2. ui' = u /\ ui.mounted /\ (token' <=> token) /\ route' = route
      BY Zenon, <2>4
    <3> HIDE DEF u
    <3> QED BY <3>1, <3>2
  <2> QED BY <2>3, <2>4
<1>2. Types'
  BY <1>0, <1>1 DEF Types
<1>3. TableFits'
  <2>1. Len(NotLoaded) = 1 /\ 1 <= PageSize
    BY PageSizeAssumption DEF NotLoaded
  <2> QED BY <1>0, <1>1, <2>1 DEF TableFits
<1>4. Waiting'
  BY Zenon DEF Waiting, Unawaited, ListAt, LiveAt
<1>5. SeenUpTo(NoKey, stable', seen')
  BY <1>2, SeenNoKey DEF Types
<1>6. TableSeen(ui', stable', seen')
  BY Zenon, <1>1, <1>5 DEF TableSeen
<1>7. token' => SeenUpTo(storage'.current, stable', seen')
  BY <1>0 DEF SeenInv
<1>8. RowsInv'
  BY Zenon, <1>0, <1>1 DEF RowsInv, OneListing, RowsMatch, FreshAtTop, ListAt, Unawaited
<1> QED BY Zenon, <1>2, <1>3, <1>4, <1>6, <1>7, <1>8, UnawaitedSeen
        DEF ListInv, TableInv, SeenInv, PagesFit

\* A delete or a post is sent; its closure holds the position of the list.
LEMMA ClosureSeen ==
    ASSUME ListInv, TableShown
    PROVE  /\ Closure \in ClosureType
           /\ StartsSeen(Closure.current, Closure.direction, Closure.full, stable, seen)
<1>1. Types /\ TableSeen(ui, stable, seen) /\ ui.mounted /\ ui.zones # NotLoaded
  BY DEF ListInv, TableInv, SeenInv, TableShown
<1>2. Fullness(ui.zones) \in Fulls
  BY DEF Fullness, Fulls
<1>3. ui.current \in Key /\ ui.currentDirection \in Directions
  BY <1>1 DEF Types, Ui
<1>4. /\ Closure.current = ui.current /\ Closure.direction = ui.currentDirection
      /\ Closure.full = Fullness(ui.zones)
  BY DEF Closure
<1>5. Closure \in ClosureType
  BY <1>2, <1>3 DEF Closure, ClosureType
<1> QED BY Zenon, <1>1, <1>4, <1>5 DEF StartsSeen, TableSeen

\* The request itself.
LEMMA AskStep ==
    ASSUME ListInv, TableShown, NEW s \in Slots, NEW r \in DeleteType \union PostType,
           r.at = Closure, r.kind = "post" => ui.form # "none",
           requests' = [requests EXCEPT ![s] = r],
           UNCHANGED <<token, hasError, storage, db, route, ui, observed>>
    PROVE  ListInv'
<1>0. Types /\ PagesFit /\ TableFits /\ Waiting /\ SeenInv /\ RowsInv
  BY DEF ListInv, TableInv
<1>1. r \in Request /\ r.kind \in {"delete", "post"}
  BY DEF Request, DeleteType, PostType
<1>2. /\ requests'[s] = r /\ requests' \in [Slots -> Request]
      /\ \A t \in Slots \ {s} : Keeps(t)
  BY Zenon, <1>0, <1>1, PutKeeps
<1>3. RequestSeen(r, stable, seen) /\ PageFits(r)
  BY <1>1, ClosureSeen DEF RequestSeen, PageFits
<1>4. \A t \in Slots : RequestSeen(requests'[t], stable', seen') /\ PageFits(requests'[t])
  BY <1>0, <1>2, <1>3, KeepsSeen DEF SeenInv, PagesFit, observed
<1>5. Types' /\ TableFits'
  BY <1>0, <1>2 DEF Types, TableFits, observed
<1>6. ui.mounted /\ ~ui.error
  BY DEF TableShown
<1>7. \A t \in Slots \ {s} : FormAt(t)' => FormAt(t)
  BY Zenon, <1>2 DEF Keeps, FormAt
<1>8. Waiting'
  BY Zenon, <1>0, <1>1, <1>2, <1>6, <1>7 DEF Waiting, FormAt
<1>9. TableSeen(ui', stable', seen') /\ (token' => SeenUpTo(storage'.current, stable', seen'))
  BY <1>0 DEF SeenInv, observed
<1>10. \A t \in Slots : ListAt(t)' => ListAt(t)
  BY Zenon, <1>1, <1>2 DEF Keeps, ListAt
<1>11. RowsInv'
  BY Zenon, <1>0, <1>10 DEF RowsInv, OneListing, RowsMatch, FreshAtTop, observed
<1> QED BY Zenon, <1>4, <1>5, <1>8, <1>9, <1>11 DEF ListInv, TableInv, SeenInv, PagesFit

\* The dialog opens, or shows its error.
LEMMA FormStep ==
    ASSUME ListInv, TableShown, NEW f \in {"open", "failed"},
           ui' = [ui EXCEPT !.isedit = TRUE, !.form = f],
           requests' \in [Slots -> Request], \A t \in Slots : Keeps(t),
           UNCHANGED <<token, hasError, storage, db, route, observed>>
    PROVE  ListInv'
<1>0. Types /\ PagesFit /\ TableFits /\ Waiting /\ SeenInv /\ RowsInv
  BY DEF ListInv, TableInv
<1>1. /\ ui' \in Ui /\ ui'.isedit /\ ui'.form # "none" /\ ui'.mounted = ui.mounted
      /\ ui'.error = ui.error /\ ui'.zones = ui.zones /\ ui'.metas = ui.metas
      /\ ui'.current = ui.current /\ ui'.navKeys = ui.navKeys
      /\ ui'.canMoveForward = ui.canMoveForward /\ ui'.canMoveBackward = ui.canMoveBackward
  BY Zenon, <1>0 DEF Types, Ui
<1>2. Types'
  BY <1>0, <1>1 DEF Types, observed
<1>3. TableFits'
  BY Zenon, <1>0, <1>1 DEF TableFits, TableShown
<1>4. Waiting'
  BY Zenon, <1>1 DEF Waiting, TableShown
<1>5. \A t \in Slots : RequestSeen(requests'[t], stable', seen') /\ PageFits(requests'[t])
  BY <1>0, KeepsSeen DEF SeenInv, PagesFit, observed
<1>6. TableSeen(ui', stable', seen')
  BY Zenon, <1>0, <1>1 DEF SeenInv, TableSeen, observed
<1>7. token' => SeenUpTo(storage'.current, stable', seen')
  BY <1>0 DEF SeenInv, observed
<1>8. \A t \in Slots : ListAt(t)' => ListAt(t)
  BY Zenon DEF Keeps, ListAt
<1>9. RowsInv'
  BY ZenonT(30), <1>0, <1>1, <1>8 DEF RowsInv, OneListing, RowsMatch, FreshAtTop, observed
<1> QED BY Zenon, <1>2, <1>3, <1>4, <1>5, <1>6, <1>7, <1>9 DEF ListInv, TableInv, SeenInv, PagesFit

\* reload up to `await fetch`: the table is gone, its forms with it, and the
\* position that is saved is one that has been seen.
LEMMA FormsGoneKeeps ==
    ASSUME Types, NEW t \in Slots
    PROVE  LET q == FormsGone[t]
               r == requests[t]
           IN  /\ q \in Request /\ q.kind = r.kind
               /\ r.kind # "post" => q = r
               /\ r.kind = "post" => q.live = r.live /\ q.at = r.at /\ ~q.form
<1>0. requests[t] \in Request
  BY DEF Types
<1>1. CASE requests[t].kind = "post"
  <2>1. requests[t] \in PostType /\ FormsGone[t] = [requests[t] EXCEPT !.form = FALSE]
    BY <1>0, <1>1, RequestKinds DEF FormsGone
  <2>2. /\ FormsGone[t] \in PostType /\ FormsGone[t].kind = "post" /\ ~FormsGone[t].form
        /\ FormsGone[t].live = requests[t].live /\ FormsGone[t].at = requests[t].at
    BY Zenon, <2>1 DEF PostType
  <2>3. FormsGone[t] \in Request
    BY <2>2 DEF Request
  <2> QED BY <1>1, <2>2, <2>3
<1>2. CASE requests[t].kind # "post"
  BY <1>0, <1>2 DEF FormsGone
<1> QED BY <1>1, <1>2

\* The step of reload.
LEMMA ReloadStep ==
    ASSUME ListInv, NEW s \in Slots, NEW u \in Ui, u.mounted, ~u.error, ui.mounted,
           SeenUpTo(u.current, stable, seen),
           NEW from \in Key, NEW direction \in Directions, NEW full \in Fulls,
           StartsSeen(from, direction, full, stable, seen),
           StartReload(s, u, from, direction, full),
           UNCHANGED <<token, hasError, db, route, seen, stable, fresh>>
    PROVE  ListInv'
<1>0. Types /\ PagesFit /\ TableFits /\ Waiting /\ SeenInv /\ RowsInv
  BY DEF ListInv, TableInv
<1>1. /\ ui' \in Ui /\ ui'.mounted /\ ~ui'.error /\ ui'.zones = NotLoaded /\ ui'.form = "none"
      /\ ui'.current = u.current /\ ui'.metas = << >>
  <2>1. NotLoaded \in Seq(Key) /\ << >> \in Seq(Key)
    BY DEF Key, NotLoaded
  <2>2. ui' = Reloading(u, direction)
    BY Zenon DEF StartReload
  <2> QED BY Zenon, <2>1, <2>2 DEF Reloading, Ui
<1>2. storage' \in Position /\ storage'.current \in {storage.current, ui'.current}
  <2>1. storage' = Saved(ui')
    BY DEF StartReload
  <2>2. storage \in Position /\ ui'.current \in Key /\ ui'.currentDirection \in Directions
    BY Zenon, <1>0, <1>1 DEF Types, Ui
  <2> QED BY Zenon, <2>1, <2>2 DEF Saved, Position
<1> DEFINE r == ListRequest(from, direction, full)
<1>3. /\ r \in ListType /\ r.kind = "list" /\ r.from = from /\ r.direction = direction
      /\ r.full = full /\ r.answer.status # "ok"
  BY Zenon DEF ListRequest, ListType, ListAnswer, Pending
<1>4. requests' = [FormsGone EXCEPT ![s] = r]
  BY Zenon DEF StartReload
<1>5. r \in Request
  BY <1>3 DEF Request
<1> HIDE DEF r
<1>6. FormsGone \in [Slots -> Request]
  BY <1>0, FormsGoneKeeps DEF FormsGone
<1>7. /\ requests' \in [Slots -> Request] /\ requests'[s] = r
      /\ \A t \in Slots \ {s} : requests'[t] = FormsGone[t]
  BY <1>4, <1>5, <1>6
<1>8. ASSUME NEW t \in Slots \ {s} PROVE Keeps(t) /\ ~FormAt(t)'
  <2> DEFINE q == requests'[t]
             p == requests[t]
  <2>1. /\ q \in Request /\ q.kind = p.kind /\ (p.kind # "post" => q = p)
        /\ p.kind = "post" => q.live = p.live /\ q.at = p.at /\ ~q.form
    BY <1>0, <1>7, FormsGoneKeeps
  <2>2. ~FormAt(t)'
    BY <2>1 DEF FormAt
  <2>3. ASSUME p.kind = "post" PROVE Keeps(t)
    <3>1. q.kind = "post" /\ q.kind # "list" /\ q.live = p.live /\ q.at = p.at /\ ~q.form
      BY <2>1, <2>3
    <3> QED BY Zenon, <2>1, <2>3, <3>1 DEF Keeps
  <2>4. ASSUME p.kind # "post" PROVE Keeps(t)
    BY Zenon, <1>0, <2>1, <2>4, Untouched
  <2> QED BY Zenon, <2>2, <2>3, <2>4
<1>9. RequestSeen(r, stable, seen) /\ PageFits(r)
  BY ZenonT(30), <1>3 DEF RequestSeen, PageFits
<1>10. \A t \in Slots : RequestSeen(requests'[t], stable', seen') /\ PageFits(requests'[t])
  BY <1>0, <1>7, <1>8, <1>9, KeepsSeen DEF SeenInv, PagesFit
<1>11. Types'
  BY <1>0, <1>1, <1>2, <1>7 DEF Types
<1>12. TableFits'
  <2>1. Len(NotLoaded) = 1 /\ 1 <= PageSize
    BY PageSizeAssumption DEF NotLoaded
  <2> QED BY <1>0, <1>1, <2>1 DEF TableFits
<1>13. Waiting'
  BY Zenon, <1>1, <1>3, <1>7, <1>8 DEF Waiting, FormAt
<1>14. SeenUpTo(u.current, stable', seen') /\ (token' => SeenUpTo(storage'.current, stable', seen'))
  BY <1>0, <1>1, <1>2 DEF SeenInv
<1>15. TableSeen(ui', stable', seen')
  BY Zenon, <1>1, <1>14 DEF TableSeen
<1>16. ~overlap' => \A t \in Slots \ {s} : requests'[t].kind # "list"
  <2>1. overlap' = (\E t \in Slots \ {s} : requests[t].kind = "list")
    BY Zenon DEF StartReload
  <2> QED BY Zenon, <1>8, <2>1 DEF Keeps
<1>17. RowsInv'
  <2>1. OneListing'
    BY Zenon, <1>1, <1>16 DEF OneListing, ListAt
  <2> QED BY Zenon, <1>0, <1>1, <2>1 DEF RowsInv, RowsMatch, FreshAtTop
<1> QED BY Zenon, <1>10, <1>11, <1>12, <1>13, <1>14, <1>15, <1>17 DEF ListInv, TableInv, SeenInv, PagesFit

\* The server answers a listing with a page of what is there now.
LEMMA ServeListStep ==
    ASSUME PagesComplete, ListInv, NEW s \in Slots, ServeList(s)
    PROVE  ListInv'
<1>0. Types /\ PagesFit /\ TableFits /\ Waiting /\ SeenInv /\ RowsInv
  BY DEF ListInv, TableInv
<1> DEFINE r == requests[s]
           p == PageOf(r)
           a == [status |-> "ok", page |-> p]
           q == [r EXCEPT !.answer = a]
<1>1. r \in ListType /\ r.kind = "list"
  BY <1>0, RequestKinds DEF ServeList, Types
<1>2. db \in SUBSET ZoneNames /\ r.from \in Key /\ r.direction \in Directions
  BY <1>0, <1>1 DEF Types, ListType
<1>3. p = ListZones(db, r.from, r.direction)
  BY DEF PageOf
<1> HIDE DEF p
<1>4. /\ p = [value |-> p.value, more |-> p.more, keys |-> p.keys]
      /\ p.value \in Seq(db) /\ Len(p.value) <= PageSize /\ p.more \in BOOLEAN
      /\ p.keys \in [kfirst : db \union {NoKey}, klast : db \union {NoKey}]
      /\ p.keys.kfirst <= p.keys.klast
      /\ Len(p.value) < PageSize => ~p.more
      /\ ServedForward(r) =>
             \A z \in db : z > r.from /\ (z <= p.keys.klast \/ ~p.more) => z \in Range(p.value)
      /\ ~ServedForward(r) => p.keys.klast <= r.from
  BY ZenonT(90), <1>2, <1>3 DEF PagesComplete, Complete, ServedForward
<1>5. p \in Page
  <2> DEFINE v == p.value
             m == p.more
             k == p.keys
  <2>1. v \in Seq(db) /\ m \in BOOLEAN /\ k \in [kfirst : db \union {NoKey}, klast : db \union {NoKey}]
    BY <1>4
  <2> HIDE DEF v, m, k
  <2>2. v \in Seq(ZoneNames)
    BY <1>2, <2>1, SeqMonotone
  <2>3. k \in Keys
    BY <1>2, <2>1 DEF Keys, Key
  <2>4. p = [value |-> v, more |-> m, keys |-> k]
    BY <1>4 DEF v, m, k
  <2> QED BY <2>1, <2>2, <2>3, <2>4 DEF Page
<1>6. requests' = [requests EXCEPT ![s] = q]
  BY DEF ServeList, p
<1>7. a.status = "ok" /\ a.page = p /\ a \in ListAnswer
  BY <1>5 DEF ListAnswer
<1> HIDE DEF a
<1>8. /\ q \in ListType /\ q.kind = "list" /\ q.from = r.from /\ q.direction = r.direction
      /\ q.full = r.full /\ q.answer = a
  BY <1>1, <1>7 DEF ListType
<1>9. q \in Request
  BY <1>8 DEF Request
<1> HIDE DEF q
<1>10. /\ requests'[s] = q /\ requests' \in [Slots -> Request] /\ \A t \in Slots \ {s} : Keeps(t)
  BY Zenon, <1>0, <1>6, <1>9, PutKeeps
<1>11. UNCHANGED <<token, hasError, storage, db, route, ui, seen, stable, overlap, fresh>>
  BY DEF ServeList, ServerFrame
<1>12. Covers(q, stable)
  <2>1. q.answer.page = p /\ (ServedForward(q) <=> ServedForward(r)) /\ stable \subseteq db
    BY <1>0, <1>7, <1>8 DEF ServedForward, Types
  <2> QED BY Zenon, <1>4, <1>8, <2>1 DEF Covers
<1>13. StartsSeen(q.from, q.direction, q.full, stable, seen)
  BY <1>0, <1>1, <1>8 DEF SeenInv, RequestSeen
<1>14. RequestSeen(q, stable, seen) /\ PageFits(q)
  <2>1. q.kind \notin {"delete", "post"} /\ Len(q.answer.page.value) <= PageSize
    BY Zenon, <1>4, <1>7, <1>8
  <2> QED BY Zenon, <1>12, <1>13, <2>1 DEF RequestSeen, PageFits
<1>15. \A t \in Slots : RequestSeen(requests'[t], stable', seen') /\ PageFits(requests'[t])
  BY Zenon, <1>0, <1>10, <1>11, <1>14, KeepsSeen DEF SeenInv, PagesFit
<1>16. Types' /\ TableFits'
  BY <1>0, <1>10, <1>11 DEF Types, TableFits
<1>17. Waiting'
  <2>1. ListAt(s)
    BY <1>1 DEF ListAt
  <2>2. ui.mounted /\ ~ui.error
    BY Zenon, <1>0, <2>1 DEF Waiting
  <2>3. \A t \in Slots : FormAt(t)' => FormAt(t)
    BY Zenon, <1>8, <1>10 DEF Keeps, FormAt
  <2> QED BY Zenon, <1>0, <1>11, <2>2, <2>3 DEF Waiting, FormAt
<1>18. TableSeen(ui', stable', seen') /\ (token' => SeenUpTo(storage'.current, stable', seen'))
  BY <1>0, <1>11 DEF SeenInv
<1>19. \A t \in Slots : ListAt(t)' => ListAt(t)
  BY Zenon, <1>1, <1>10 DEF Keeps, ListAt
<1>20. RowsInv'
  BY Zenon, <1>0, <1>11, <1>19 DEF RowsInv, OneListing, RowsMatch, FreshAtTop
<1> QED BY Zenon, <1>15, <1>16, <1>17, <1>18, <1>20 DEF ListInv, TableInv, SeenInv, PagesFit

\* The first page is asked for from where the list was left, which has been
\* seen, or from the top.
LEMMA LoadOnceStep ==
    ASSUME ListInv, NEW s \in Slots, LoadOnce(s)
    PROVE  ListInv'
<1>0. Types /\ PagesFit /\ TableFits /\ Waiting /\ SeenInv
  BY DEF ListInv, TableInv
<1> DEFINE from == storage.current
           dir == IF from = NoKey THEN "forward" ELSE storage.direction
           u == [Unmounted EXCEPT !.mounted = TRUE, !.current = from]
           r == ListRequest(from, dir, "null")
<1>1. /\ ui' = Reloading(u, dir) /\ storage' = [current |-> from, direction |-> dir]
      /\ requests' = [requests EXCEPT ![s] = r] /\ ~overlap' /\ ~fresh'
      /\ token /\ route = "dashboard" /\ ~ui.mounted
      /\ UNCHANGED <<token, hasError, db, route, seen, stable>>
  BY DEF LoadOnce, IsLoggedIn
<1>2. from \in Key /\ dir \in Directions
  BY <1>0 DEF Types, Position, Directions
<1>3. SeenUpTo(from, stable, seen)
  BY <1>0, <1>1 DEF SeenInv
<1> HIDE DEF from, dir
<1>4. /\ ui' \in Ui /\ ui'.mounted /\ ~ui'.error /\ ui'.zones = NotLoaded /\ ui'.form = "none"
      /\ ui'.current = from /\ ui'.metas = << >>
  <2>1. NoKey \in Key /\ NoNav \in Keys /\ NotLoaded \in Seq(Key) /\ << >> \in Seq(Key)
    BY DEF Key, NoNav, Keys, NotLoaded
  <2>2. Unmounted \in Ui /\ ~Unmounted.error
    BY <2>1 DEF Unmounted, Ui, Directions
  <2>3. u \in Ui /\ u.mounted /\ ~u.error /\ u.current = from
    BY Zenon, <1>2, <2>2 DEF Ui
  <2> HIDE DEF u
  <2> QED BY Zenon, <1>1, <1>2, <2>1, <2>3 DEF Reloading, Ui
<1>5. /\ r \in ListType /\ r.kind = "list" /\ r.from = from /\ r.direction = dir
      /\ r.full = "null" /\ r.answer.status # "ok"
  BY <1>2 DEF ListRequest, ListType, ListAnswer, Pending, Fulls
<1>6. r \in Request
  BY <1>5 DEF Request
<1> HIDE DEF r
<1>7. /\ requests'[s] = r /\ requests' \in [Slots -> Request] /\ \A t \in Slots \ {s} : Keeps(t)
  BY Zenon, <1>0, <1>1, <1>6, PutKeeps
<1>8. RequestSeen(r, stable, seen) /\ PageFits(r)
  BY <1>3, <1>5 DEF RequestSeen, PageFits, StartsSeen
<1>9. \A t \in Slots : RequestSeen(requests'[t], stable', seen') /\ PageFits(requests'[t])
  BY <1>0, <1>1, <1>7, <1>8, KeepsSeen DEF SeenInv, PagesFit
<1>10. storage' \in Position /\ storage'.current = from
  BY <1>1, <1>2 DEF Position
<1>11. Types'
  BY <1>0, <1>1, <1>4, <1>7, <1>10 DEF Types
<1>12. TableFits'
  <2>1. Len(NotLoaded) = 1 /\ 1 <= PageSize
    BY PageSizeAssumption DEF NotLoaded
  <2> QED BY Zenon, <1>1, <1>4, <2>1 DEF TableFits
<1>13. \A t \in Slots : ~ListAt(t) /\ ~LiveAt(t)
  BY Zenon, <1>0, <1>1 DEF Waiting
<1>14. Waiting'
  BY Zenon, <1>4, <1>5, <1>7, <1>13 DEF Waiting, Keeps, LiveAt
<1>15. RowsInv'
  <2>1. \A t \in Slots : ListAt(t)' => t = s
    BY Zenon, <1>7, <1>13 DEF ListAt, Keeps
  <2> QED BY Zenon, <1>1, <1>4, <2>1 DEF RowsInv, OneListing, RowsMatch, FreshAtTop
<1>16. SeenUpTo(from, stable', seen')
  BY <1>1, <1>3
<1>17. TableSeen(ui', stable', seen')
  BY Zenon, <1>4, <1>16 DEF TableSeen
<1> QED BY Zenon, <1>9, <1>10, <1>11, <1>12, <1>14, <1>15, <1>16, <1>17
        DEF ListInv, TableInv, SeenInv, PagesFit

\* ErrorBoundary drops ListZones.
LEMMA BrokenStep ==
    ASSUME ListInv, NEW s \in Slots, Broken(s), ui.mounted,
           UNCHANGED <<token, hasError, storage, db, route, seen, stable, overlap, fresh>>
    PROVE  ListInv'
<1>0. Types
  BY DEF ListInv, TableInv
<1>1. requests' = [Detached EXCEPT ![s] = NoRequest]
  BY DEF Broken
<1>2. ASSUME NEW t \in Slots PROVE Unawaited(Detached[t]) /\ Detached[t] \in Request
  BY <1>0, DetachedUnawaited DEF Unawaited
<1>3. Detached \in [Slots -> Request] /\ NoRequest \in Request
  BY <1>2 DEF Detached, Request
<1>4. requests' \in [Slots -> Request] /\ \A t \in Slots : Unawaited(requests'[t])
  BY <1>1, <1>2, <1>3, NoRequestUnawaited
<1>5. /\ token' \in BOOLEAN /\ token' = token /\ hasError' \in BOOLEAN
      /\ route' \in {"dashboard", "rr"} /\ route' = route
  BY <1>0 DEF Types
<1>6. ui' = [Unmounted EXCEPT !.mounted = TRUE, !.error = TRUE]
  BY Zenon DEF Broken
<1> QED BY <1>4, <1>5, <1>6, GoneStep

\* A page arrives, and is seen.
LEMMA LoadedPage ==
    ASSUME ListInv, NEW s \in Slots, ListAt(s), requests[s].answer.status = "ok", ui.mounted
    PROVE  LET page == requests[s].answer.page
               v == WithPage(page)
           IN  /\ v \in Ui /\ page \in Page /\ Len(page.value) <= PageSize
               /\ v.zones = page.value /\ v.zones # NotLoaded
               /\ v.metas = Captured(page.value) /\ Len(v.metas) = Len(page.value)
               /\ v.navKeys = page.keys /\ v.mounted = ui.mounted /\ v.error = ui.error
               /\ v.isedit = ui.isedit /\ v.current = ui.current
               /\ (v.form # "none" <=> ui.isedit)
<1> DEFINE page == requests[s].answer.page
           v == WithPage(page)
           value == page.value
<1>0. Types /\ PagesFit
  BY DEF ListInv, TableInv
<1>1. requests[s] \in ListType
  BY <1>0, RequestKinds DEF Types, ListAt
<1>2. page \in Page
  BY <1>1, ListAnswers DEF ListType
<1>3. Len(value) <= PageSize
  BY <1>0 DEF PagesFit, PageFits, ListAt
<1>4. value \in Seq(ZoneNames) /\ page.keys \in Keys
  BY <1>2 DEF Page
<1> HIDE DEF page
<1>5. value \in Seq(Key)
  BY <1>4, SeqMonotone DEF Key
<1>6. ui \in Ui
  BY <1>0 DEF Types
<1> DEFINE c == Captured(value)
<1>7. c \in Seq(Key) /\ Len(c) = Len(value)
  <2> DEFINE n == Len(value)
  <2>1. n \in Nat /\ DOMAIN value = 1..n /\ \A i \in 1..n : value[i] \in Key
    BY <1>5
  <2>2. \A i \in DOMAIN ui.metas : ui.metas[i] \in Key
    <3> DEFINE m == ui.metas
    <3>1. m \in Seq(Key)
      BY <1>6 DEF Ui
    <3> HIDE DEF m
    <3>2. \A i \in DOMAIN m : m[i] \in Key
      BY <3>1
    <3> QED BY <3>2 DEF m
  <2> HIDE DEF n
  <2>3. c \in [1..n -> Key]
    BY <2>1, <2>2 DEF Captured
  <2> HIDE DEF c
  <2>4. c \in Seq(Key) /\ Len(c) = n
    BY <2>1, <2>3
  <2> QED BY <2>4 DEF n
<1>8. value # NotLoaded
  <2> HIDE DEF value
  <2>1. SUFFICES ASSUME value = NotLoaded PROVE FALSE
    OBVIOUS
  <2>2. value[1] = 0 /\ 1 \in 1..Len(value)
    BY <2>1 DEF NotLoaded, NoKey
  <2>3. value[1] \in ZoneNames
    BY <1>4, <2>2
  <2> QED BY <2>2, <2>3, ZonesAssumption
<1> HIDE DEF value, c
<1> DEFINE f == IF ~ui.isedit THEN "none" ELSE IF ui.form = "none" THEN "open" ELSE ui.form
<1>9. f \in {"none", "open", "failed"} /\ (f # "none" <=> ui.isedit)
  BY <1>6 DEF Ui
<1>10. v = [ui EXCEPT !.zones = value, !.metas = c, !.navKeys = page.keys, !.form = f]
  BY <1>6 DEF WithPage, value, c, Ui
<1> HIDE DEF f, v
<1>11. v \in Ui
  BY Zenon, <1>4, <1>5, <1>6, <1>7, <1>9, <1>10 DEF Ui
<1>12. /\ v.zones = value /\ v.metas = c /\ v.navKeys = page.keys /\ v.mounted = ui.mounted
       /\ v.error = ui.error /\ v.isedit = ui.isedit /\ v.current = ui.current /\ v.form = f
  BY Zenon, <1>6, <1>10 DEF Ui
<1> QED BY Zenon, <1>2, <1>3, <1>7, <1>8, <1>9, <1>11, <1>12 DEF v, page, value, c

\* With the page, all is seen up to its last key; and all there is when a
\* page that was served forward says that there is no more.
LEMMA PageSeen ==
    ASSUME NEW r, NEW there \in SUBSET ZoneNames, NEW shown,
           Covers(r, there), SeenUpTo(r.from, there, shown),
           r.from \in Key, r.answer.page.keys \in Keys
    PROVE  LET shown2 == shown \union Range(r.answer.page.value)
           IN  /\ SeenUpTo(r.answer.page.keys.klast, there, shown2)
               /\ SeenUpTo(r.answer.page.keys.kfirst, there, shown2)
               /\ ServedForward(r) /\ ~r.answer.page.more => there \subseteq shown2
<1> DEFINE page == r.answer.page
           from == r.from
           first == page.keys.kfirst
           last == page.keys.klast
           shown2 == shown \union Range(page.value)
<1>0. ZoneNames \subseteq Nat /\ Key \subseteq Nat
  BY ZonesAssumption DEF Key, NoKey
<1>1. from \in Nat /\ first \in Nat /\ last \in Nat
  BY Zenon, <1>0 DEF Keys
<1>2. \A z \in there : z \in Nat
  BY Zenon, <1>0
<1>3. first <= last
  BY DEF Covers
<1>4. ServedForward(r) => \A z \in there :
          z > from /\ (z <= last \/ ~page.more) => z \in Range(page.value)
  BY Zenon DEF Covers
<1>5. ~ServedForward(r) => last <= from
  BY Zenon DEF Covers
<1>6. \A z \in there : z <= from => z \in shown
  BY Zenon DEF SeenUpTo
<1>7. shown2 = shown \union Range(page.value)
  BY DEF shown2
<1> DEFINE more == page.more
           rows == Range(page.value)
<1> HIDE DEF page, from, first, last, more, rows, shown2
<1>8. ASSUME NEW z \in there, z <= last PROVE z \in shown2
  <2>1. CASE z <= from
    BY <1>6, <1>7, <2>1 DEF rows
  <2>2. CASE ~(z <= from)
    <3>1. z > from /\ ~(last <= from)
      BY <1>1, <1>2, <1>8, <2>2
    <3>2. z \in rows
      BY Zenon, <1>4, <1>5, <1>8, <3>1 DEF rows
    <3> QED BY <1>7, <3>2 DEF rows
  <2> QED BY <2>1, <2>2
<1>9. ASSUME NEW z \in there, z <= first PROVE z \in shown2
  <2>1. z <= last
    BY <1>1, <1>2, <1>3, <1>9
  <2> QED BY <1>8, <2>1
<1>10. ASSUME ServedForward(r), ~more, NEW z \in there PROVE z \in shown2
  <2>1. CASE z <= from
    BY <1>6, <1>7, <2>1
  <2>2. CASE ~(z <= from)
    <3>1. z > from
      BY <1>1, <1>2, <2>2
    <3>2. z \in rows
      BY Zenon, <1>4, <1>10, <3>1 DEF rows, more
    <3> QED BY <1>7, <3>2 DEF rows
  <2> QED BY <2>1, <2>2
<1> QED BY <1>8, <1>9, <1>10 DEF SeenUpTo, page, first, last, more, shown2

\* The buttons after a page.
LEMMA MovesOf ==
    ASSUME NEW v \in Ui, NEW r \in ListType, r.answer.page.more \in BOOLEAN
    PROVE  LET w == WithMoves(v, r)
               more == r.answer.page.more
           IN  /\ w \in Ui /\ w.zones = v.zones /\ w.metas = v.metas /\ w.navKeys = v.navKeys
               /\ w.mounted = v.mounted /\ w.error = v.error /\ w.isedit = v.isedit
               /\ w.form = v.form /\ w.current \in {v.current, NoKey}
               /\ r.direction = "forward" => (w.canMoveForward <=> more)
               /\ r.direction = "backward" /\ more => w.canMoveForward
               /\ r.direction = "backward" /\ ~more =>
                      /\ w.current = NoKey /\ ~w.canMoveBackward
                      /\ w.canMoveForward <=> r.full = "full"
<1> DEFINE w == WithMoves(v, r)
           more == r.answer.page.more
           a == [v EXCEPT !.canMoveBackward = r.from # NoKey, !.canMoveForward = more]
           b == [v EXCEPT !.current = NoKey, !.canMoveBackward = FALSE,
                          !.canMoveForward = (r.full = "full")]
           c == [v EXCEPT !.canMoveBackward = TRUE, !.canMoveForward = TRUE]
<1>0. r.direction \in {"forward", "backward"} /\ NoKey \in Key
  BY DEF ListType, Directions, Key
<1> HIDE DEF more
<1>m. more \in BOOLEAN
  BY Zenon DEF more
<1>1. CASE r.direction = "forward"
  <2>1. w = a
    BY <1>1 DEF WithMoves, more
  <2>2. a \in Ui /\ (a.canMoveForward <=> more) /\ a.zones = v.zones /\ a.metas = v.metas
        /\ a.navKeys = v.navKeys /\ a.mounted = v.mounted /\ a.error = v.error
        /\ a.isedit = v.isedit /\ a.form = v.form /\ a.current = v.current
    BY Zenon, <1>m DEF Ui
  <2> HIDE DEF w, a
  <2> QED BY <1>1, <2>1, <2>2 DEF w, more
<1>2. CASE r.direction = "backward" /\ ~more
  <2>1. w = b
    BY <1>2 DEF WithMoves, more
  <2>2. b \in Ui /\ (b.canMoveForward <=> r.full = "full") /\ ~b.canMoveBackward
        /\ b.zones = v.zones /\ b.metas = v.metas
        /\ b.navKeys = v.navKeys /\ b.mounted = v.mounted /\ b.error = v.error
        /\ b.isedit = v.isedit /\ b.form = v.form /\ b.current = NoKey
    BY Zenon, <1>0 DEF Ui
  <2> HIDE DEF w, b
  <2> QED BY <1>2, <2>1, <2>2 DEF w, more
<1>3. CASE r.direction = "backward" /\ more
  <2>1. w = c
    BY <1>3 DEF WithMoves, more
  <2>2. c \in Ui /\ c.canMoveForward /\ c.zones = v.zones /\ c.metas = v.metas
        /\ c.navKeys = v.navKeys /\ c.mounted = v.mounted /\ c.error = v.error
        /\ c.isedit = v.isedit /\ c.form = v.form /\ c.current = v.current
    BY Zenon DEF Ui
  <2> HIDE DEF w, c
  <2> QED BY <1>3, <2>1, <2>2 DEF w, more
<1> QED BY Zenon, <1>0, <1>m, <1>1, <1>2, <1>3

\* The page is shown, with its buttons.
LEMMA ListLoadedStep ==
    ASSUME ListInv, NEW s \in Slots, ListLoaded(s)
    PROVE  ListInv'
<1>0. Types /\ PagesFit /\ TableFits /\ Waiting /\ SeenInv /\ RowsInv
  BY DEF ListInv, TableInv
<1> DEFINE r == requests[s]
           page == r.answer.page
           v == WithPage(page)
<1>1. ListAt(s) /\ r.answer.status = "ok"
  BY DEF ListLoaded, IsAnswered, ListAt
<1>2. ui.mounted /\ ~ui.error
  BY Zenon, <1>0, <1>1 DEF Waiting
<1>3. UNCHANGED <<token, hasError, db, route, stable, overlap, fresh>>
  BY DEF ListLoaded
<1>4. CASE Throws(r)
  <2>1. Broken(s) /\ UNCHANGED <<storage, seen>>
    BY Zenon, <1>4 DEF ListLoaded
  <2> QED BY <1>2, <1>3, <2>1, BrokenStep
<1>5. CASE ~Throws(r)
  <2>1. /\ ui' = WithMoves(v, r) /\ storage' = Saved(ui')
        /\ requests' = [requests EXCEPT ![s] = NoRequest]
        /\ seen' = seen \union Range(page.value)
    BY Zenon, <1>5 DEF ListLoaded
  <2>2. r \in ListType /\ r.direction \in Directions /\ r.full \in Fulls /\ r.from \in Key
    BY <1>0, <1>1, RequestKinds DEF Types, ListAt, ListType
  <2>3. /\ v \in Ui /\ page \in Page /\ Len(page.value) <= PageSize
        /\ v.zones = page.value /\ v.zones # NotLoaded
        /\ v.metas = Captured(page.value) /\ Len(v.metas) = Len(page.value)
        /\ v.navKeys = page.keys /\ v.mounted = ui.mounted /\ v.error = ui.error
        /\ v.isedit = ui.isedit /\ v.current = ui.current
        /\ (v.form # "none" <=> ui.isedit)
    BY ZenonT(30), <1>1, <1>2, LoadedPage
  <2>4. page.more \in BOOLEAN /\ page.keys \in Keys /\ page.value \in Seq(ZoneNames)
    BY <2>3 DEF Page
  <2> HIDE DEF v
  <2>5. /\ ui' \in Ui /\ ui'.zones = v.zones /\ ui'.metas = v.metas /\ ui'.navKeys = v.navKeys
        /\ ui'.mounted = v.mounted /\ ui'.error = v.error /\ ui'.isedit = v.isedit
        /\ ui'.form = v.form /\ ui'.current \in {v.current, NoKey}
        /\ r.direction = "forward" => (ui'.canMoveForward <=> page.more)
        /\ r.direction = "backward" /\ page.more => ui'.canMoveForward
        /\ r.direction = "backward" /\ ~page.more =>
               /\ ui'.current = NoKey /\ ~ui'.canMoveBackward
               /\ ui'.canMoveForward <=> r.full = "full"
    BY Zenon, <2>1, <2>2, <2>3, <2>4, MovesOf
  <2>6. requests' \in [Slots -> Request] /\ \A t \in Slots : Keeps(t)
    BY Zenon, <1>0, <2>1, DropKeeps
  <2>7. Range(page.value) \subseteq ZoneNames
    <3> DEFINE x == page.value
    <3>1. x \in Seq(ZoneNames)
      BY <2>4
    <3> HIDE DEF x
    <3>2. Range(x) \subseteq ZoneNames
      BY <3>1 DEF Range
    <3> QED BY <3>2 DEF x
  <2>8. storage' \in Position /\ storage'.current \in {storage.current, ui'.current}
    <3>1. storage \in Position /\ ui'.current \in Key /\ ui'.currentDirection \in Directions
      BY ZenonT(30), <1>0, <2>5 DEF Types, Ui
    <3> QED BY Zenon, <2>1, <3>1 DEF Saved, Position
  <2>9. Types'
    BY ZenonT(30), <1>0, <1>3, <2>1, <2>5, <2>6, <2>7, <2>8 DEF Types
  <2>10. TableFits'
    BY Zenon, <1>0, <1>2, <1>3, <2>3, <2>5 DEF TableFits
  <2>11. Waiting'
    <3>1. \A t \in Slots : FormAt(t)' => FormAt(t)
      BY Zenon, <2>6 DEF Keeps, FormAt
    <3>2. ui'.mounted /\ ~ui'.error
      BY Zenon, <1>2, <2>3, <2>5
    <3>3. ui.form # "none" => ui'.form # "none"
      BY Zenon, <1>0, <2>3, <2>5 DEF TableFits
    <3> QED BY Zenon, <1>0, <3>1, <3>2, <3>3 DEF Waiting, FormAt
  <2>12. \A t \in Slots : ListAt(t)' => ListAt(t) /\ t # s
    <3>1. requests'[s] = NoRequest /\ NoRequest.kind # "list"
      BY <1>0, <2>1 DEF Types, NoRequest
    <3> QED BY Zenon, <2>6, <3>1 DEF Keeps, ListAt
  <2>13. RowsInv'
    <3>1. OneListing'
      BY Zenon, <1>0, <1>1, <1>3, <2>12 DEF RowsInv, OneListing
    <3>2. RowsMatch'
      <4>1. ~overlap => ui.metas = << >>
        BY Zenon, <1>0, <1>1 DEF RowsInv, OneListing
      <4>2. ui.metas = << >> => \A row \in DOMAIN page.value : Captured(page.value)[row] = page.value[row]
        BY DEF Captured
      <4>3. ui'.zones = page.value /\ ui'.metas = Captured(page.value) /\ overlap' = overlap
        BY Zenon, <1>3, <2>3, <2>5
      <4> QED BY Zenon, <4>1, <4>2, <4>3 DEF RowsMatch
    <3>3. ~fresh'
      BY Zenon, <1>0, <1>2, <1>3 DEF RowsInv, FreshAtTop
    <3> QED BY Zenon, <3>1, <3>2, <3>3 DEF RowsInv, FreshAtTop
  <2>14. stable' \subseteq stable /\ seen \subseteq seen' /\ stable \subseteq ZoneNames
    BY <1>0, <1>3, <2>1 DEF Types
  <2>15. \A t \in Slots : RequestSeen(requests'[t], stable', seen') /\ PageFits(requests'[t])
    BY <1>0, <2>6, <2>14, KeepsSeen DEF SeenInv, PagesFit
  <2>16. StartsSeen(r.from, r.direction, r.full, stable, seen) /\ Covers(r, stable)
    BY Zenon, <1>0, <1>1 DEF SeenInv, RequestSeen, ListAt
  <2>17. /\ SeenUpTo(page.keys.klast, stable, seen') /\ SeenUpTo(page.keys.kfirst, stable, seen')
         /\ ServedForward(r) /\ ~page.more => stable \subseteq seen'
    <3>1. /\ SeenUpTo(r.from, stable, seen) /\ Covers(r, stable) /\ stable \in SUBSET ZoneNames
          /\ seen' = seen \union Range(r.answer.page.value)
          /\ r.from \in Key /\ r.answer.page.keys \in Keys
      BY ZenonT(30), <2>1, <2>2, <2>4, <2>14, <2>16 DEF StartsSeen
    <3> DEFINE shown2 == seen \union Range(r.answer.page.value)
    <3>2. /\ SeenUpTo(r.answer.page.keys.klast, stable, shown2)
          /\ SeenUpTo(r.answer.page.keys.kfirst, stable, shown2)
          /\ ServedForward(r) /\ ~r.answer.page.more => stable \subseteq shown2
      BY <3>1, PageSeen
    <3> QED BY Zenon, <3>1, <3>2
  <2>18. SeenUpTo(NoKey, stable', seen')
    BY <2>9, SeenNoKey DEF Types
  <2>19. SeenUpTo(ui'.current, stable', seen') /\ (token' => SeenUpTo(storage'.current, stable', seen'))
    <3>1. SeenUpTo(ui.current, stable, seen) /\ (token => SeenUpTo(storage.current, stable, seen))
      BY Zenon, <1>0, <1>2 DEF SeenInv, TableSeen
    <3>2. SeenUpTo(ui.current, stable', seen') /\ (token => SeenUpTo(storage.current, stable', seen'))
      BY ZenonT(30), <2>14, <3>1, SeenKept
    <3>3. SeenUpTo(ui'.current, stable', seen')
      BY ZenonT(30), <2>3, <2>5, <2>18, <3>2
    <3> QED BY <1>3, <2>8, <3>2, <3>3
  <2>20. ~ui'.canMoveForward => stable \subseteq seen'
    <3> SUFFICES ASSUME ~ui'.canMoveForward PROVE stable \subseteq seen'
      OBVIOUS
    <3>1. ~page.more
      BY ZenonT(30), <2>2, <2>5 DEF Directions
    <3>2. CASE ServedForward(r)
      BY <2>17, <3>1, <3>2
    <3>3. CASE ~ServedForward(r)
      <4>1. r.direction = "backward" /\ r.from # NoKey
        BY <3>3 DEF ServedForward
      <4>2. r.full # "full"
        BY <2>5, <3>1, <4>1
      <4>3. r.full = "short"
        BY <1>5, <2>2, <3>1, <4>1, <4>2 DEF Throws, Fulls
      <4>4. stable \subseteq seen
        BY Zenon, <2>16, <4>1, <4>3 DEF StartsSeen
      <4> QED BY <2>14, <4>4
    <3> QED BY <3>2, <3>3
  <2>21. Fullness(ui'.zones) = "short" => stable \subseteq seen' \/ (ui'.current = NoKey /\ ~ui'.canMoveBackward)
    <3> SUFFICES ASSUME Fullness(ui'.zones) = "short"
                 PROVE  stable \subseteq seen' \/ (ui'.current = NoKey /\ ~ui'.canMoveBackward)
      OBVIOUS
    <3> DEFINE n == Len(page.value)
    <3>1. n # PageSize
      BY <2>3, <2>5 DEF Fullness
    <3>2. n \in Nat
      <4> DEFINE x == page.value
      <4>1. x \in Seq(ZoneNames)
        BY <2>4
      <4> HIDE DEF x
      <4>2. Len(x) \in Nat
        BY <4>1
      <4> QED BY <4>2 DEF x
    <3>3. n <= PageSize
      BY <2>3
    <3> HIDE DEF n
    <3>4. n < PageSize
      BY <3>1, <3>2, <3>3, PageSizeAssumption
    <3>5. ~page.more
      BY Zenon, <2>16, <3>4 DEF Covers, n
    <3>6. CASE r.direction = "forward"
      BY Zenon, <2>17, <3>5, <3>6 DEF ServedForward
    <3>7. CASE r.direction = "backward"
      BY <2>5, <3>5, <3>7
    <3> QED BY <2>2, <3>6, <3>7 DEF Directions
  <2>22. stable' = stable
    BY <1>3
  <2>23. TableSeen(ui', stable', seen')
    BY Zenon, <2>3, <2>5, <2>17, <2>19, <2>20, <2>21, <2>22 DEF TableSeen
  <2> QED BY Zenon, <2>9, <2>10, <2>11, <2>13, <2>15, <2>19, <2>23
          DEF ListInv, TableInv, SeenInv, PagesFit
<1> QED BY <1>4, <1>5

-----------------------------------------------------------------------------
(* Every step is one of these.                                             *)

\* The user's handlers.
LEMMA UserStep ==
    ASSUME ListInv, NEW s \in Slots, User(s)
    PROVE  ListInv'
<1>0. Types /\ TableFits /\ SeenInv
  BY DEF ListInv, TableInv
<1>1. ui \in Ui /\ TableSeen(ui, stable, seen) /\ SeenUpTo(NoKey, stable, seen)
  BY <1>0, SeenNoKey DEF Types, SeenInv
<1>2. Fullness(ui.zones) \in Fulls /\ NoKey \in Key /\ NoNav \in Keys
  BY Zenon DEF Fullness, Fulls, Key, NoNav, Keys
\* A handler that sends a listing from a table that is shown.
<1>3. ASSUME TableShown, ClickFrame, NEW u \in Ui, u.mounted = ui.mounted, u.error = ui.error,
             NEW from \in Key, NEW direction \in Directions,
             SeenUpTo(u.current, stable, seen), SeenUpTo(from, stable, seen),
             direction = "backward" /\ Fullness(ui.zones) = "short" =>
                 stable \subseteq seen \/ from = NoKey,
             StartReload(s, u, from, direction, Fullness(ui.zones))
      PROVE  ListInv'
  <2>1. ui.mounted /\ u.mounted /\ ~u.error
    BY Zenon, <1>3 DEF TableShown
  <2>2. UNCHANGED <<token, hasError, db, route, seen, stable, fresh>>
    BY Zenon, <1>3 DEF ClickFrame
  <2>3. StartsSeen(from, direction, Fullness(ui.zones), stable, seen)
    BY Zenon, <1>3 DEF StartsSeen
  <2> QED BY <1>2, <1>3, <2>1, <2>2, <2>3, ReloadStep
<1>4. ASSUME TableShown
      PROVE  /\ SeenUpTo(ui.current, stable, seen)
             /\ SeenUpTo(ui.navKeys.kfirst, stable, seen) /\ SeenUpTo(ui.navKeys.klast, stable, seen)
             /\ Fullness(ui.zones) = "short" =>
                    stable \subseteq seen \/ (ui.current = NoKey /\ ~ui.canMoveBackward)
             /\ ui.navKeys.kfirst \in Key /\ ui.navKeys.klast \in Key /\ ui.current \in Key
             /\ ui.currentDirection \in Directions
  <2>1. /\ ui.navKeys.kfirst \in Key /\ ui.navKeys.klast \in Key /\ ui.current \in Key
        /\ ui.currentDirection \in Directions
    BY <1>1 DEF Ui, Keys
  <2> QED BY Zenon, <1>1, <1>4, <2>1 DEF TableSeen, TableShown
<1>5. Clickable \/ DialogShown => TableShown
  BY DEF Clickable, DialogShown
<1>d. "forward" \in Directions /\ "backward" \in Directions /\ "forward" # "backward"
  BY DEF Directions
<1>6. CASE MoveFirst(s)
  <2> DEFINE u == [ui EXCEPT !.current = NoKey, !.navKeys = NoNav, !.canMoveBackward = FALSE]
  <2>1. u \in Ui /\ u.mounted = ui.mounted /\ u.error = ui.error /\ u.current = NoKey
    BY Zenon, <1>1, <1>2 DEF Ui
  <2>2. TableShown /\ ClickFrame /\ StartReload(s, u, NoKey, "forward", Fullness(ui.zones))
    BY Zenon, <1>5, <1>6 DEF MoveFirst
  <2> HIDE DEF u
  <2>3. SeenUpTo(u.current, stable, seen)
    BY <1>1, <2>1
  <2> QED BY Zenon, <1>1, <1>2, <1>3, <1>d, <2>1, <2>2, <2>3
<1>7. CASE MoveNext(s)
  <2> DEFINE k == ui.navKeys.klast
             u == [ui EXCEPT !.current = k]
  <2>1. TableShown /\ ClickFrame /\ StartReload(s, u, k, "forward", Fullness(ui.zones))
    BY Zenon, <1>5, <1>7 DEF MoveNext
  <2>2. k \in Key /\ SeenUpTo(k, stable, seen)
    BY Zenon, <1>4, <2>1
  <2> HIDE DEF k
  <2>3. u \in Ui /\ u.mounted = ui.mounted /\ u.error = ui.error /\ u.current = k
    BY Zenon, <1>1, <2>2 DEF Ui
  <2> HIDE DEF u
  <2>4. SeenUpTo(u.current, stable, seen)
    BY <2>2, <2>3
  <2> QED BY Zenon, <1>3, <1>d, <2>1, <2>2, <2>3, <2>4
<1>8. CASE MovePrev(s)
  <2> DEFINE k == ui.navKeys.kfirst
             u == [ui EXCEPT !.current = k]
  <2>1. /\ TableShown /\ ClickFrame /\ StartReload(s, u, k, "backward", Fullness(ui.zones))
        /\ ui.canMoveBackward
    BY Zenon, <1>5, <1>8 DEF MovePrev
  <2>2. k \in Key /\ SeenUpTo(k, stable, seen)
    BY Zenon, <1>4, <2>1
  <2>3. Fullness(ui.zones) = "short" => stable \subseteq seen
    BY Zenon, <1>4, <2>1
  <2> HIDE DEF k
  <2>4. u \in Ui /\ u.mounted = ui.mounted /\ u.error = ui.error /\ u.current = k
    BY <1>1, <2>2 DEF Ui
  <2> HIDE DEF u
  <2>5. SeenUpTo(u.current, stable, seen)
    BY <2>2, <2>4
  <2> QED BY Zenon, <1>3, <1>d, <2>1, <2>2, <2>3, <2>4, <2>5
<1>9. CASE ReloadCurrent(s)
  <2>1. /\ TableShown /\ ClickFrame
        /\ StartReload(s, ui, ui.current, ui.currentDirection, Fullness(ui.zones))
    BY Zenon, <1>5, <1>9 DEF ReloadCurrent
  <2> QED BY Zenon, <1>1, <1>3, <1>4, <2>1
<1>10. CASE CancelEdit(s)
  <2> DEFINE u == [ui EXCEPT !.isedit = FALSE]
  <2>1. u \in Ui /\ u.mounted = ui.mounted /\ u.error = ui.error /\ u.current = ui.current
    BY Zenon, <1>1 DEF Ui
  <2>2. /\ TableShown /\ ClickFrame
        /\ StartReload(s, u, ui.current, ui.currentDirection, Fullness(ui.zones))
    BY ZenonT(30), <1>5, <1>10 DEF CancelEdit
  <2> HIDE DEF u
  <2>3. SeenUpTo(u.current, stable, seen)
    BY <1>4, <2>1, <2>2
  <2> QED BY Zenon, <1>3, <1>4, <2>1, <2>2, <2>3
<1>11. ASSUME NEW row \in 1..PageSize, DeleteZone(s, row) PROVE ListInv'
  <2> DEFINE z == ui.metas[row]
             r == [kind |-> "delete", zone |-> z, at |-> Closure, live |-> TRUE, answer |-> Pending]
  <2>1. TableShown /\ ClickFrame /\ row \in DOMAIN ui.zones
        /\ requests' = [requests EXCEPT ![s] = r] /\ UNCHANGED <<ui, storage, overlap>>
    BY Zenon, <1>5, <1>11 DEF DeleteZone
  <2>2. z \in Key
    <3> DEFINE m == ui.metas
               zs == ui.zones
    <3>1. m \in Seq(Key) /\ zs \in Seq(Key) /\ Len(m) = Len(zs) /\ row \in DOMAIN zs
      BY <1>0, <1>1, <2>1 DEF Ui, TableFits, TableShown
    <3> HIDE DEF m, zs
    <3>2. m[row] \in Key
      BY <3>1
    <3> QED BY Zenon, <3>2 DEF m
  <2>3. Closure \in ClosureType
    BY <2>1, ClosureSeen
  <2> HIDE DEF z
  <2>4. r \in DeleteType /\ r.at = Closure /\ r.kind # "post"
    BY Zenon, <2>2, <2>3 DEF DeleteType, Answer
  <2> HIDE DEF r
  <2>5. UNCHANGED <<token, hasError, storage, db, route, ui, observed>>
    BY <2>1 DEF ClickFrame, observed
  <2> QED BY Zenon, <2>1, <2>4, <2>5, AskStep
<1>12. ASSUME NEW zone \in TypedZones, SaveZone(s, zone) PROVE ListInv'
  <2> DEFINE r == [kind |-> "post", zone |-> zone, at |-> Closure, live |-> TRUE,
                   form |-> TRUE, answer |-> Pending]
  <2>1. TableShown /\ ClickFrame /\ ui.form = "open"
        /\ requests' = [requests EXCEPT ![s] = r] /\ UNCHANGED <<ui, storage, overlap>>
    BY Zenon, <1>5, <1>12 DEF SaveZone, FormOpen
  <2>3. Closure \in ClosureType /\ zone \in ZoneNames
    BY Zenon, <2>1, ClosureSeen, ZonesAssumption
  <2>4. r \in PostType /\ r.at = Closure
    BY <2>3 DEF PostType, Answer
  <2> HIDE DEF r
  <2>5. UNCHANGED <<token, hasError, storage, db, route, ui, observed>>
    BY <2>1 DEF ClickFrame, observed
  <2> QED BY Zenon, <2>1, <2>4, <2>5, AskStep
<1> QED BY Zenon, <1>6, <1>7, <1>8, <1>9, <1>10, <1>11, <1>12 DEF User

\* The server, the network, other clients, coming back to the dashboard.
LEMMA OutsideStep ==
    ASSUME ListInv,
           \/ \E s \in Slots : ServeZone(s) \/ NetworkFails(s)
           \/ \E zone \in OtherZones : OtherClient(zone)
           \/ Return \/ UNCHANGED vars
    PROVE  ListInv'
<1>0. Types /\ TableFits /\ RowsInv
  BY DEF ListInv, TableInv
<1>1. fresh => storage.current = NoKey /\ ~ui.mounted
  BY Zenon, <1>0 DEF RowsInv, FreshAtTop
<1>2. /\ token \in BOOLEAN /\ hasError \in BOOLEAN /\ storage \in Position
      /\ requests \in [Slots -> Request] /\ db \subseteq ZoneNames /\ stable \subseteq db
      /\ route \in {"dashboard", "rr"} /\ (ui.mounted => route = "dashboard")
  BY Zenon, <1>0 DEF Types, TableFits
<1>3. ASSUME requests' \in [Slots -> Request], \A t \in Slots : Keeps(t), ServerFrame,
             db' \subseteq ZoneNames, stable' = stable \intersect db' \/ UNCHANGED <<db, stable>>
      PROVE  ListInv'
  <2>1. UNCHANGED <<token, hasError, storage, route, ui, seen, overlap, fresh>>
    BY <1>3 DEF ServerFrame
  <2>2. stable' \subseteq db' /\ stable' \subseteq stable
    BY <1>2, <1>3
  <2> QED BY <1>1, <1>2, <1>3, <2>1, <2>2, CalmStep
<1>4. ASSUME NEW s \in Slots, ServeZone(s) PROVE ListInv'
  <2> DEFINE r == requests[s]
             creates == r.kind = "post" /\ r.zone \notin db
             removes == r.kind = "delete" /\ r.zone \in db
             a == IF creates \/ removes THEN Ok ELSE Refused
  <2>1. /\ r.kind \in {"post", "delete"} /\ ServerFrame /\ stable' = stable \intersect db'
        /\ db' = IF creates THEN db \union {r.zone} ELSE IF removes THEN db \ {r.zone} ELSE db
        /\ requests' = [requests EXCEPT ![s].answer = a]
    BY <1>4 DEF ServeZone
  <2>2. r.kind = "post" => r.zone \in ZoneNames
    BY <1>2, RequestKinds DEF PostType
  <2>3. a \in Answer
    BY DEF Answer
  <2> HIDE DEF a
  <2>4. db' \subseteq ZoneNames
    BY <1>2, <2>1, <2>2
  <2>5. requests' \in [Slots -> Request] /\ \A t \in Slots : Keeps(t)
    BY Zenon, <1>0, <2>1, <2>3, AnswerKeeps
  <2> QED BY Zenon, <1>3, <2>1, <2>4, <2>5
<1>5. ASSUME NEW s \in Slots, NetworkFails(s) PROVE ListInv'
  <2>1. /\ requests' = [requests EXCEPT ![s].answer = Failed] /\ requests[s].kind # "none"
        /\ ServerFrame /\ UNCHANGED <<db, stable>>
    BY <1>5 DEF NetworkFails
  <2>2. requests' \in [Slots -> Request] /\ \A t \in Slots : Keeps(t)
    BY Zenon, <1>0, <2>1, AnswerKeeps DEF Answer
  <2> QED BY <1>2, <1>3, <2>1, <2>2
<1>6. ASSUME UNCHANGED requests
      PROVE  requests' \in [Slots -> Request] /\ \A t \in Slots : Keeps(t)
  BY <1>0, <1>2, <1>6, Untouched
<1>7. ASSUME NEW zone \in OtherZones, OtherClient(zone) PROVE ListInv'
  <2>1. /\ UNCHANGED requests /\ ServerFrame /\ stable' = stable \intersect db'
        /\ db' = IF zone \in db THEN db \ {zone} ELSE db \union {zone}
    BY <1>7 DEF OtherClient
  <2>2. zone \in ZoneNames
    BY ZonesAssumption
  <2>3. db' \subseteq ZoneNames
    BY Zenon, <1>2, <2>1, <2>2
  <2> QED BY <1>3, <1>6, <2>1, <2>3
<1>8. CASE Return
  <2>1. /\ UNCHANGED <<token, hasError, storage, requests, db, ui, seen, stable, overlap, fresh>>
        /\ route' = "dashboard"
    BY <1>8 DEF Return, observed
  <2> QED BY <1>1, <1>2, <1>6, <2>1, CalmStep
<1>9. CASE UNCHANGED vars
  <2>1. UNCHANGED <<token, hasError, storage, requests, db, route, ui, seen, stable, overlap, fresh>>
    BY <1>9 DEF vars, observed
  <2> QED BY <1>1, <1>2, <1>6, <2>1, CalmStep
<1> QED BY Zenon, <1>4, <1>5, <1>7, <1>8, <1>9

\* The login form and the answers to it. A session that begins has seen
\* nothing, and starts at the top.
LEMMA LoginStep ==
    ASSUME ListInv, NEW s \in Slots, LoginForm(s) \/ LoggingIn(s)
    PROVE  ListInv'
<1>0. Types /\ TableFits /\ RowsInv
  BY DEF ListInv, TableInv
<1>1. fresh => storage.current = NoKey /\ ~ui.mounted
  BY Zenon, <1>0 DEF RowsInv, FreshAtTop
<1>2. /\ token \in BOOLEAN /\ hasError \in BOOLEAN /\ storage \in Position
      /\ requests \in [Slots -> Request] /\ db \subseteq ZoneNames /\ stable \subseteq db
      /\ route \in {"dashboard", "rr"} /\ (ui.mounted => token /\ route = "dashboard")
  BY <1>0 DEF Types, TableFits
<1>3. ASSUME requests' \in [Slots -> Request], \A t \in Slots : Keeps(t),
             UNCHANGED <<token, hasError, storage, db, route, ui, seen, stable, overlap, fresh>>
      PROVE  ListInv'
  BY <1>1, <1>2, <1>3, CalmStep
<1>4. ASSUME NEW valid \in BOOLEAN, Submit(s, valid), LoginForm(s) PROVE ListInv'
  <2> DEFINE r == [kind |-> "login", valid |-> valid, answer |-> Pending]
  <2>1. r \in LoginType /\ r.kind = "login"
    BY DEF LoginType, Answer
  <2>2. requests' = [requests EXCEPT ![s] = r]
    BY <1>4 DEF Submit
  <2> HIDE DEF r
  <2>3. Unawaited(r) /\ r \in Request
    BY <2>1 DEF Unawaited, Request
  <2>4. requests' \in [Slots -> Request] /\ requests'[s] = r /\ \A t \in Slots \ {s} : Keeps(t)
    BY Zenon, <1>0, <2>2, <2>3, PutKeeps
  <2>5. \A t \in Slots : Keeps(t)
    BY Zenon, <2>3, <2>4, UnawaitedKeeps
  <2>6. UNCHANGED <<token, hasError, storage, db, route, ui, seen, stable, overlap, fresh>>
    BY <1>4 DEF Submit, LoginForm, sessionVars, observed
  <2> QED BY <1>3, <2>4, <2>5, <2>6
<1>5. CASE ServeLogin(s) /\ LoginForm(s)
  <2> DEFINE a == IF requests[s].valid THEN Ok ELSE Refused
  <2>1. requests' = [requests EXCEPT ![s].answer = a] /\ requests[s].kind = "login"
    BY <1>5 DEF ServeLogin
  <2>2. a \in Answer
    BY DEF Answer
  <2> HIDE DEF a
  <2>3. requests' \in [Slots -> Request] /\ \A t \in Slots : Keeps(t)
    BY Zenon, <1>0, <2>1, <2>2, AnswerKeeps
  <2>4. UNCHANGED <<token, hasError, storage, db, route, ui, seen, stable, overlap, fresh>>
    BY <1>5 DEF ServeLogin, LoginForm, sessionVars, observed
  <2> QED BY <1>3, <2>3, <2>4
<1>6. CASE LoggingIn(s)
  <2>1. requests' \in [Slots -> Request] /\ \A t \in Slots : Keeps(t)
    BY Zenon, <1>0, <1>6, DropKeeps DEF LoggingIn, LoginAnswered
  <2>2. /\ UNCHANGED <<db, route, ui, overlap>>
        /\ token' = (token \/ requests[s].answer = Ok) /\ hasError' \in BOOLEAN
    BY <1>6 DEF LoggingIn, LoginAnswered
  <2>3. token' \in BOOLEAN /\ (token => token')
    BY Zenon, <2>2
  <2>4. /\ storage' \in Position /\ storage'.current \in {storage.current, NoKey}
        /\ requests[s].answer = Ok => storage'.current = NoKey
        /\ requests[s].answer # Ok => storage' = storage
    <3>1. storage' = IF requests[s].answer = Ok THEN [storage EXCEPT !.current = 0] ELSE storage
      BY <1>6 DEF LoggingIn, LoginAnswered
    <3>2. [storage EXCEPT !.current = 0] \in Position /\ [storage EXCEPT !.current = 0].current = NoKey
      BY Zenon, <1>2 DEF Position, Key, NoKey
    <3> QED BY <1>2, <3>1, <3>2
  <2>5. CASE token' /\ ~token
    <3>1. seen' = {} /\ stable' = db /\ storage'.current = NoKey /\ ~ui.mounted
      BY Zenon, <1>2, <1>6, <2>2, <2>4, <2>5 DEF LoggingIn
    <3> QED BY <1>2, <2>1, <2>2, <2>3, <2>4, <2>5, <3>1, CalmStep
  <2>6. CASE ~(token' /\ ~token)
    <3>1. UNCHANGED <<fresh, seen, stable>> /\ (token' <=> token)
      BY Zenon, <1>6, <2>2, <2>6 DEF LoggingIn
    <3>2. fresh' => storage'.current = NoKey /\ ~ui.mounted
      BY <1>1, <2>4, <3>1
    <3> QED BY <1>2, <2>1, <2>2, <2>3, <2>4, <3>1, <3>2, CalmStep
  <2> QED BY <2>5, <2>6
<1> QED BY Zenon, <1>4, <1>5, <1>6 DEF LoginForm

\* The code after `await fetch` of the other requests.
LEMMA AnswerStep ==
    ASSUME ListInv, NEW s \in Slots, ListFailed(s) \/ DeleteAnswered(s) \/ EditAnswered(s)
    PROVE  ListInv'
<1>0. Types /\ TableFits /\ Waiting /\ SeenInv /\ RowsInv
  BY DEF ListInv, TableInv
<1>1. fresh => storage.current = NoKey /\ ~ui.mounted
  BY Zenon, <1>0 DEF RowsInv, FreshAtTop
<1>2. /\ token \in BOOLEAN /\ hasError \in BOOLEAN /\ storage \in Position /\ ui \in Ui
      /\ requests \in [Slots -> Request] /\ db \subseteq ZoneNames /\ stable \subseteq db
      /\ route \in {"dashboard", "rr"} /\ (ui.mounted => token /\ route = "dashboard")
  BY <1>0 DEF Types, TableFits
<1> DEFINE r == requests[s]
<1>3. CASE ListFailed(s)
  <2>1. ListAt(s) /\ Broken(s)
    BY <1>3 DEF ListFailed, IsAnswered, ListAt
  <2>2. ui.mounted
    BY Zenon, <1>0, <2>1 DEF Waiting
  <2>3. UNCHANGED <<token, hasError, storage, db, route, seen, stable, overlap, fresh>>
    BY <1>3 DEF ListFailed, observed
  <2> QED BY Zenon, <2>1, <2>2, <2>3, BrokenStep
<1>4. AnswerFrame => UNCHANGED <<token, hasError, db, route, seen, stable, fresh>>
  BY DEF AnswerFrame
<1>5. ASSUME Dropped(s), AnswerFrame PROVE ListInv'
  <2>1. requests' = [requests EXCEPT ![s] = NoRequest] /\ UNCHANGED <<ui, storage, overlap>>
    BY <1>5 DEF Dropped
  <2>2. requests' \in [Slots -> Request] /\ \A t \in Slots : Keeps(t)
    BY ZenonT(30), <1>0, <2>1, DropKeeps
  <2> QED BY <1>1, <1>2, <1>4, <1>5, <2>1, <2>2, CalmStep
<1>6. ASSUME LiveAt(s), NEW u \in Ui, u.mounted = ui.mounted, u.error = ui.error,
             u.current = ui.current, ReloadFromClosure(s, u), AnswerFrame
      PROVE  ListInv'
  <2>1. ui.mounted /\ ~ui.error
    BY Zenon, <1>0, <1>6 DEF Waiting
  <2>2. u.mounted /\ ~u.error /\ SeenUpTo(u.current, stable, seen)
    BY Zenon, <1>0, <1>6, <2>1 DEF SeenInv, TableSeen
  <2>3. StartsSeen(r.at.current, r.at.direction, r.at.full, stable, seen)
    BY ZenonT(30), <1>0, <1>6 DEF SeenInv, RequestSeen, LiveAt
  <2>4. r.at.current \in Key /\ r.at.direction \in Directions /\ r.at.full \in Fulls
    <3>1. r.at \in ClosureType
      BY <1>2, <1>6, RequestKinds DEF LiveAt, DeleteType, PostType
    <3> QED BY <3>1 DEF ClosureType
  <2>5. StartReload(s, u, r.at.current, r.at.direction, r.at.full)
    BY <1>6 DEF ReloadFromClosure
  <2> QED BY Zenon, <1>4, <1>6, <2>1, <2>2, <2>3, <2>4, <2>5, ReloadStep
<1>7. CASE DeleteAnswered(s)
  <2>1. r.kind = "delete" /\ AnswerFrame
    BY Zenon, <1>7 DEF DeleteAnswered, IsAnswered
  <2>2. CASE ~r.live
    <3>1. Dropped(s)
      BY <1>7, <2>2 DEF DeleteAnswered
    <3> QED BY <1>5, <2>1, <3>1
  <2>3. CASE r.live /\ r.answer = Ok
    <3>1. ReloadFromClosure(s, ui)
      BY Zenon, <1>7, <2>3 DEF DeleteAnswered
    <3>2. LiveAt(s)
      BY Zenon, <2>1, <2>3 DEF LiveAt
    <3> QED BY <1>2, <1>6, <2>1, <3>1, <3>2
  <2>4. CASE r.live /\ r.answer # Ok
    <3>1. Broken(s) /\ UNCHANGED <<storage, overlap>>
      BY <1>7, <2>4 DEF DeleteAnswered
    <3>2. LiveAt(s)
      BY <2>1, <2>4 DEF LiveAt
    <3>3. ui.mounted
      BY Zenon, <1>0, <3>2 DEF Waiting
    <3> QED BY <1>4, <2>1, <3>1, <3>3, BrokenStep
  <2> QED BY <2>2, <2>3, <2>4
<1>8. CASE EditAnswered(s)
  <2>1. r.kind = "post" /\ AnswerFrame
    BY Zenon, <1>8 DEF EditAnswered, IsAnswered
  <2>2. CASE r.live /\ r.answer = Ok
    <3> DEFINE u == [ui EXCEPT !.isedit = FALSE]
    <3>0. Ok.status # Failed.status
      BY DEF Ok, Failed
    <3>1. ~(r.live /\ r.answer = Failed /\ r.form)
      BY <2>2, <3>0
    <3>2. ReloadFromClosure(s, u)
      BY Zenon, <1>8, <2>2, <3>1 DEF EditAnswered
    <3>3. u \in Ui /\ u.mounted = ui.mounted /\ u.error = ui.error /\ u.current = ui.current
      BY Zenon, <1>2 DEF Ui
    <3> HIDE DEF u
    <3>4. LiveAt(s)
      BY <2>1, <2>2 DEF LiveAt
    <3> QED BY <1>6, <2>1, <3>2, <3>3, <3>4
  <2>3. CASE ~(r.live /\ r.answer = Ok) /\ r.live /\ r.answer = Failed /\ r.form
    <3>1. /\ ui' = [ui EXCEPT !.form = "failed"]
          /\ requests' = [requests EXCEPT ![s] = NoRequest] /\ UNCHANGED <<storage, overlap>>
      BY <1>8, <2>3 DEF EditAnswered
    <3>2. requests' \in [Slots -> Request] /\ \A t \in Slots : Keeps(t)
      BY Zenon, <1>0, <3>1, DropKeeps
    <3>3. ui.form # "none"
      BY Zenon, <1>0, <2>1, <2>3 DEF Waiting
    <3>4. TableShown /\ ui.isedit
      BY Zenon, <1>0, <3>3 DEF TableFits, TableShown
    <3>5. ui' = [ui EXCEPT !.isedit = TRUE, !.form = "failed"]
      BY Zenon, <1>2, <3>1, <3>4 DEF Ui
    <3>6. UNCHANGED <<token, hasError, storage, db, route, observed>>
      BY Zenon, <1>4, <2>1, <3>1 DEF observed
    <3> QED BY <3>2, <3>4, <3>5, <3>6, FormStep
  <2>4. CASE ~(r.live /\ r.answer = Ok) /\ ~(r.live /\ r.answer = Failed /\ r.form)
    <3>1. Dropped(s)
      BY <1>8, <2>4 DEF EditAnswered
    <3> QED BY <1>5, <2>1, <3>1
  <2> QED BY <2>2, <2>3, <2>4
<1> QED BY <1>3, <1>7, <1>8

\* The form opens; the user goes away, or loads the page anew.
LEMMA AwayStep ==
    ASSUME ListInv, AddZone \/ Leave \/ Refresh
    PROVE  ListInv'
<1>0. Types
  BY DEF ListInv, TableInv
<1>1. /\ token \in BOOLEAN /\ hasError \in BOOLEAN /\ requests \in [Slots -> Request]
      /\ route \in {"dashboard", "rr"}
  BY <1>0 DEF Types
<1>2. CASE AddZone
  <2>1. /\ TableShown /\ ui' = [ui EXCEPT !.isedit = TRUE, !.form = "open"]
        /\ UNCHANGED <<token, hasError, storage, db, route, observed>> /\ UNCHANGED requests
    BY <1>2 DEF AddZone, Clickable, ClickFrame, observed
  <2>2. requests' \in [Slots -> Request] /\ \A t \in Slots : Keeps(t)
    BY <1>0, <1>1, <2>1, Untouched
  <2> QED BY <2>1, <2>2, FormStep
<1>3. CASE Leave
  <2>1. /\ ui' = Unmounted /\ requests' = Detached /\ route' = "rr"
        /\ UNCHANGED <<token, hasError, storage, db, seen, stable, overlap, fresh>>
    BY <1>3 DEF Leave, observed
  <2>2. \A t \in Slots : Unawaited(Detached[t])
    BY Zenon, <1>0, DetachedUnawaited
  <2>3. Detached \in [Slots -> Request]
    BY <2>2 DEF Detached, Unawaited
  <2> QED BY <1>1, <2>1, <2>2, <2>3, GoneStep
<1>4. CASE Refresh
  <2> DEFINE left == [s \in Slots |-> IF requests[s].kind = "login" THEN NoRequest ELSE Detached[s]]
  <2>1. /\ ui' = Unmounted /\ requests' = left /\ token' = FALSE /\ hasError' = FALSE
        /\ fresh' = FALSE /\ UNCHANGED <<storage, db, route, seen, stable, overlap>>
    BY <1>4 DEF Refresh
  <2>2. \A t \in Slots : Unawaited(left[t])
    BY Zenon, <1>0, DetachedUnawaited, NoRequestUnawaited
  <2>3. left \in [Slots -> Request]
    BY <2>2 DEF Unawaited
  <2> HIDE DEF left
  <2> QED BY Zenon, <1>1, <2>1, <2>2, <2>3, GoneStep
<1> QED BY <1>2, <1>3, <1>4

\* Nothing has been shown, asked for or seen at first.
LEMMA InitList == Init => ListInv
<1> SUFFICES ASSUME Init PROVE ListInv
  BY Zenon
<1>1. /\ token = FALSE /\ hasError = FALSE /\ db = InitialZones /\ route = "dashboard"
      /\ ui = Unmounted /\ seen = {} /\ stable = {} /\ overlap = FALSE /\ fresh = FALSE
      /\ requests = [s \in Slots |-> NoRequest]
      /\ storage \in {[current |-> 0, direction |-> "forward"],
                      [current |-> LeftCurrent, direction |-> "backward"]}
  BY DEF Init, SessionInit
<1>2. 0 \in Key /\ NoKey \in Key /\ LeftCurrent \in Key /\ InitialZones \subseteq ZoneNames
  BY ZonesAssumption DEF Key, NoKey
<1>3. storage \in Position
  BY <1>1, <1>2 DEF Position, Directions
<1>4. /\ Unmounted \in Ui /\ ~Unmounted.mounted /\ Unmounted.form = "none"
      /\ Unmounted.zones = NotLoaded /\ Len(NotLoaded) = 1
  BY <1>2 DEF Unmounted, Ui, NoNav, NotLoaded, Keys, Directions
<1>5. \A s \in Slots : requests[s] = NoRequest /\ requests[s].kind = "none"
  BY Zenon, <1>1 DEF NoRequest
<1>6. Types
  BY ZenonT(30), <1>1, <1>2, <1>3, <1>4 DEF Types, Request
<1>7. PagesFit /\ Waiting
  BY <1>1, <1>4, <1>5 DEF PagesFit, PageFits, Waiting, ListAt, LiveAt
<1>8. TableFits
  BY <1>1, <1>4, PageSizeAssumption DEF TableFits
<1>9. SeenInv
  BY Zenon, <1>1, <1>4, <1>5 DEF SeenInv, RequestSeen, TableSeen
<1>10. RowsInv
  BY <1>1, <1>4, <1>5 DEF RowsInv, OneListing, RowsMatch, FreshAtTop, ListAt
<1> QED BY <1>6, <1>7, <1>8, <1>9, <1>10 DEF ListInv, TableInv

\* One case per action.
LEMMA NextList == PagesComplete /\ ListInv /\ [Next]_vars => ListInv'
<1> SUFFICES ASSUME PagesComplete, ListInv, [Next]_vars PROVE ListInv'
  OBVIOUS
<1>1. ASSUME NEW s \in Slots, LoginForm(s) \/ LoadOnce(s) \/ User(s) PROVE ListInv'
  BY Zenon, <1>1, LoginStep, LoadOnceStep, UserStep
<1>2. ASSUME NEW s \in Slots, Served(s) \/ NetworkFails(s) PROVE ListInv'
  BY Zenon, <1>2, ServeListStep, OutsideStep DEF Served
<1>3. ASSUME NEW s \in Slots, Answered(s) PROVE ListInv'
  BY Zenon, <1>3, LoginStep, ListLoadedStep, AnswerStep DEF Answered
<1>4. CASE AddZone \/ Leave \/ Refresh
  BY <1>4, AwayStep
<1>5. CASE Return \/ UNCHANGED vars \/ \E zone \in OtherZones : OtherClient(zone)
  BY <1>5, OutsideStep
<1> QED BY Zenon, <1>1, <1>2, <1>3, <1>4, <1>5 DEF Next
=============================================================================
