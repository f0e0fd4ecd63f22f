# A TLA+ model of nsblast

nsblast is an authoritative DNS server. One *primary* takes changes over a REST
API, stores them in RocksDB and replicates every committed change over a gRPC
stream to *follower* instances. It also serves DNS over UDP and TCP, and it
exchanges zones with other servers by AXFR, IXFR and NOTIFY.

An admin UI, a React application, manages zones and records through the same
REST API.

This directory specifies two paths through it. One is below the REST API: how a
change becomes a numbered entry of the transaction log, and how the entries
reach the followers. The other is above the storage: what the user does in the
admin UI, what the UI sends, and what the REST handlers make of it when several
requests are handled at once.

## The system: inventory

| Part | State it holds | Operations | Talks to | What makes it hard |
|---|---|---|---|---|
| Storage transactions (`RocksDbResource`) | column families, row locks, `trx_id_`, `trxlog_` | write, remove, commit, rollback, handleTrxLog | everything | ids taken before the commit; commits that fail; restart |
| Primary replication (`PrimaryReplication`) | `last_trxid_`, agents (state, positions), minimum confirmed | onTransaction, iterateDb, onTrxId, checkAgents, housekeeping | storage callback, RPC server | three mutexes, a strand, two sources that feed one queue |
| RPC server (`GrpcPrimary`) | `pending_`, `current_`, `is_done_` | enqueue, flush, OnWriteDone, OnReadDone, OnDone | agents, gRPC threads | callbacks under locks, queue limit |
| RPC client (`GrpcFollow`) | one stream, ACK timer | start, OnReadDone, writeIf, onAckTimer, stop | follower replication | delayed acknowledgements, broken stream |
| Follower replication | `current_trxid_`, its own database | init, onTrx | storage | failing updates, restart in mid-replay |
| REST API | none of its own | zones, records, tenants, roles, users, backups | storage, authorisation, notifications | SOA read without a lock, long handlers |
| Admin UI: session (`AppState`, `Login`) | token, localStorage | submit, refresh | REST API | late and repeated answers |
| Admin UI: zone list (`Zones.jsx`) | page, position, direction, buttons, dialog | reload, move, delete, add, leave | REST API, session | closures older than the state, answers out of order, other clients |
| Admin UI: record editor (`ResourceRecords.jsx`) | rows, dialog, form inputs | delete, add, edit, select, cancel | REST API | objects changed in place, reused inputs, failed requests |
| Authorisation (`AuthMgr`) | tenants and indexes, session cache | login, authorize, upsert/delete tenant | storage | read-modify-write, stale sessions |
| Zone transfer client (`Slave`, `SlaveMgr`) | timer, notification counter, local zone | sync, AXFR, IXFR, onNotify | storage, remote master | timer against NOTIFY, partial transfer |
| Notifications | pending endpoints per zone | notify, notified, retry, expire | DNS engine | self-locking, replacement by a newer one |
| DNS engine | TCP sessions, UDP sockets | processRequest, AXFR, IXFR, NOTIFY | storage | truncation, consistent transfer |
| Key encoding and lookup (`RealKey`) | none | reversed keys, isInZone, lookup | storage | boundaries between names |
| Backups | one active backup, timer | start, restore, verify, purge | storage | close() during a backup, midnight |
| Codec, certificates, metrics, options | none | conversions | | byte level |

`PROJECT.json` lists the components with their status, the hazards with the
line where each bites, and the source lines of every definition.

## Modules

| Module | What it is |
|---|---|
| `CommitLog` | Abstract specification: what anybody may assume about numbered commits. |
| `TrxLog` | Storage transactions with row locks and the transaction log; implements `CommitLog`. |
| `Replication` | Primary, streams and followers; extends `CommitLog`. |
| `Zone` | One zone behind the REST API: the handlers of `/rr` and `/zone`, in several threads. |
| `ZonePages` | Operators: one page of the zone listing, from the database iterator up. |
| `Session` | Login token, login form, localStorage, requests in flight. |
| `ZoneList` | The dashboard's zone list; composes `Session` and `ZonePages`. |
| `RecordForm` | Operators: the form that adds or edits a record, and what it sends. |
| `Records` | The record editor; composes `RecordForm` and `Zone`. |
| `MCTrxLog`, `MCReplication`, `MCRecords` | Instances for TLC. |
| `TrxLogProofs` | Proofs about `TrxLog`. |
| `ReplicationProofs`, `StreamOrderProofs`, `OneThreadProofs` | Proofs about `CommitLog` and `Replication`, each extending the one before. |
| `ZoneListSteps`, `ZoneListProofs` | Proofs about `ZonePages` and `ZoneList`: the steps, then the theorems. |
| `RecordsProofs`, `ZoneProofs` | Proofs about `Records` and `Zone`: the page, then the handlers and what one request changes. |

### CommitLog

`log` is the sequence of ids in commit order. A writer is `open`, `numbered`
(handleTrxLog has called `createNewTrxId`) or `committed` (Commit() has
succeeded and the transaction callback runs). Numbering and committing are
separate steps, so ids and commits may be in different orders; `CommitFails`
leaves a hole; `Restart` sets the counter to the largest committed id.

### TrxLog

`db` is the ENTRY column family, the only one that is logged. `Write` and
`Remove` take the row lock of the key (RocksDB's pessimistic transactions) and
add a part to `trxlog`. `RemoveTimesOut` is what `remove()` does when the lock
is not granted: the status of Delete is not looked at and the part is logged.
`missed` and `lost` remember those keys: per transaction, and for good once it is
committed. A `write()` that is not granted the lock throws; that is `Rollback`.
Several parts for one key are kept as the last one, which is what applying them
in order gives. A recursive removal removes, like the plain one, the key it is
given and no other, because of how it compares keys; it has no action of its own.

### Replication

Handlers are split at the critical sections of the code. `notifying` is the
section under `PrimaryReplication::mutex_` in which a committing thread walks
through the agents, one step per agent; whatever needs that mutex (addAgent,
checkAgents, housekeeping, the next callback) waits for `notifying = Idle`.

- The queue of a stream is `stream` (everything ever enqueued) with two
  positions: `sent`, what was given to StartWrite, and `received`, what the
  follower has read. `pending_` is the part after `sent`.
- `Flush` has both branches of `flush()`. The second one, which tells the agent
  that the queue is empty, is also taken while a write is in progress.
- `Agent::onTransaction` is six actions: not streaming, enqueued (with or without
  reaching the limit), refused, out of step, and two ways to hang. A thread that
  locks a mutex it holds (`AgentHangs`), or meets another that holds what it
  wants and wants what it holds (`LockInversion`), puts its stream in `hung`, and
  nothing that needs those mutexes happens any more.
- `syncLater` increments `posted`; `SyncTask` is the start of a task on the
  strand and fixes the iterator's snapshot in `scan`; `IterateItem` is one round
  of the loop; `IterateEnd` is `setState(STREAMING)`.
- A follower's database is `applied`, the ids in its log. `OnUpdate(f, FALSE)`
  is an update whose application throws. A broken stream is not reopened:
  `GrpcFollow::stopped_` is true from its declaration on, so the timer that would
  reconnect does nothing. A restart of the process opens a new stream.
- `checkAgents()` reads the state and the position of all agents in one step.
  The code reads them one after the other under `PrimaryReplication::mutex_`
  while they can change. What a follower confirmed stays applied, so an older
  position is as good as the current one; an agent that starts or stops streaming
  during the walk counts as doing so before or after it.
- Housekeeping and `OnDone` may happen at any time after their cause. An RPC
  refused for its cluster key is a stream that is never opened.

### Zone

`entries` is the ENTRY category for the names of one zone; an entry maps each
record type to its values. The serial is a part of the apex entry and kept
beside it. `diffs` are the serials in the DIFF category, `zrrIx` the names in the
ZRR index. `jobs` has the request of each thread: `sent`, `read` (after
`lookupEntryAndSoa` or `zoneExists`), `checked` (after the `keyExists` of an isNew
write), then `ok` or `refused`.

- `Lookup` makes the reads and takes every early return up to the first write;
  `Commit` is what the transaction changes. In between other threads commit:
  RocksDB locks a key when it is written and does not check whether it changed
  since it was read. `Seen` is what the handler holds meanwhile.
- `Written`: a change below the apex copies the whole apex entry it has read,
  with the serial incremented, and writes it back. `DELETE /zone` calls the
  recursive `remove()`, which removes the apex entry and no other.
- `Refuses` has the PATCH of the apex: it reaches `addDiff` without a new SOA,
  `newSoa.value()` throws and the transaction is rolled back. (That is with
  `dns_enable_ixfr`, which the model assumes; a debug build stops at the
  assertion before it.)
- `clash`, `raced` and `recreated` are observation: a diff was written over
  another, two changes were between their reads and their commits at the same
  time, the zone was created again.

### ZonePages, Session, ZoneList

A zone is a number in key order. `IterateFromPrev` is the set of keys that
`SeekForPrev`, skip, and go on visit; `FirstPage` are the ones the callback of
`listZones` takes before the page is full, `SortJson` puts them in order.
`LeftCurrent` is the position an earlier session may have left in localStorage.
`Session` has the requests in
flight, each sent, answered and handled in separate steps; the code after
`await fetch` runs with the values its closure captured. `ZoneList` has one action
per handler, with the `reload` each of them ends in as part of the action, and one
per continuation. What is modelled of React: state set in one handler takes effect
at once, effects follow, the state of an unmounted component cannot be set, rows
keyed by index keep their state while the table stays mounted (`metas`). A render
that throws brings up the error boundary's text (`Broken`). The effects that save
position and direction depend on `[current]` only (`Saved`).

### RecordForm, Records

`rrs` are the objects the rows were made from; `view` is what the table shows.
They differ after a handler changed an object in place: `deleteRr` splices the
shared array before it asks (`Spliced`), `submitRr` changes the object before it
sends it. `RecordForm` keeps, for the form, the name each input was mounted with:
inputs register once, and React reuses an input at the same position when another
type is selected. `CollectThrows` says when submit throws on what is registered.
Each request of the page is a job of `Zone`, so the page's requests and those of
another client meet in the handlers. A request may be lost before it arrives
(`Withdraw`) or its answer may be lost. `listZone` of a zone whose apex is gone
lists either its orphaned names or nothing, according to what key precedes the
apex in the database (`Listings`).

## Runs

| Run | Instance | Shows |
|---|---|---|
| `trxlog` | 2 threads, 2 keys, ids up to 3 | `ConflictOrder`, `DbIsReplay`, the refinement of `CommitLog` |
| `replication` | 2 threads, ids up to 3, 1 stream, queue 1, 1 fault of any kind | `UniqueIds`, `FollowersHoldOnlyCommitted`, `StreamRespectsCommitOrder` |
| `replication_restart` | 1 thread, ids up to 2, 2 streams of one follower, 1 broken stream or restart | `ConfirmedIsDurable`, `ConfirmedUpTo`, `InSyncMeansNoBacklog` |
| `replication_pair` | 1 thread, ids up to 2, 2 followers | `ReleasedMeansReplicated` |
| `replication_live` | 1 thread, ids up to 3, fair | `InHandIsDelivered` |
| `zone_list` | 5 zones, pages of 2, 2 requests in flight, 5 clicks, 2 lost answers or changes by others, fair | `NoZoneSkipped`, `ButtonDeletesItsRow`, `LoginStartsAtTheTop`, `SpinnerEnds` |
| `records` | 2 threads, apex and 1 name, 4 record types, 3 clicks, 2 selections, 1 lost request or change by another client | `ZoneKeepsSoa`, `IndexIsExact`, `OwnSerialPerChange`, `OthersUntouched`, `SpinnerHasItsListing`, `SentValueFitsItsType`, `EditIsExact` |
| `trxlog_refused` | 2 threads, ids up to 2 | violated: `NoConflictInWrongOrder` |
| `replication_hang` | 1 stream | violated: `NoThreadHangs` |
| `replication_gap` | 2 threads | violated: `ConfirmedUpTo` |
| `records_decline` | 1 thread, 2 clicks | violated: `DeletesThisRecord` |
| `zone_delete` | 1 thread, 1 request of another client | violated: `DeletesAllEntries` |

The runs of the admin UI may stop too: clicks and events are bounded, and a user
may do nothing. Every run with a stream lets the model stop (CHECK_DEADLOCK FALSE): ids, faults
and acknowledgements are bounded, and a hung primary really stops.

**Bounds.** `MaxTrxId` 3 is the least with which an id can be late by one and
another still follow; two writers are the least that can be out of order.
`MaxQueue` 1 makes the queue fill with two pending updates. `MaxStream` leaves
room for a replay from 0 on top of what was already sent. `MaxFaults` 1 puts one
broken stream, restart or failed update (`Faults` lists the kinds) at every point
of a behaviour; a follower that restarts needs a second stream and gets one.
`MaxAcks` limits the acknowledgements after the first one of each stream. One is
enough to confirm a position between the first and the last; the two followers
have two, because the minimum rises only when both confirm.

In `zone_list`, `PageSize` 2 with three zones at the start gives a full and a
partial page, and zones can appear before the first and after the last. Five
clicks are enough to log in, go forward, go back, delete or add, and refresh or
leave in between. Two slots let an answer overtake another. In `records` the
types are one of each kind of form: a SOA that cannot be added, a plain value
(`a`), an array of objects (`mx`) and an object that occurs once (`hinfo`). Three
clicks open a dialog, save, and save again or delete; two selections are what it
takes to reuse an input and leave one behind. Another client patches, deletes
records or deletes the zone once, at any moment; it may create the zone again
when no request is under way, which costs no event (`Quiet`).

**Symmetry.** In `replication` the two committing threads are interchangeable.
In `replication_pair` a follower changes places with the other one together with
its stream. No order of agents is used: `onTransaction` and `checkAgents` treat
them as a set. The run with a liveness property has no symmetry.

**One or two threads.** `InSyncMeansNoBacklog` holds for one committing thread,
`ConfirmedUpTo` and `ReleasedMeansReplicated` for one committing thread and
followers that apply every update; `OneThreadProofs` proves it. Both conditions
are needed. With a second thread all three fail; the run `replication_gap` shows
it for `ConfirmedUpTo`, and the same instance with either of the other two as its
property ends in a violation too. With "apply" in `Faults`, the instance of
`replication_restart` violates the last two. A primary with one HTTP thread
(`num_http_threads`) and no zone that is synchronised from elsewhere commits from
one thread; any other one does not.

**Fairness** (`FairSpec`). Weak fairness of each callback and task: gRPC
completes a write or a read that was started, the io_context runs what was posted
and fires armed timers, and a thread that waits for a mutex that is released gets
it. Nothing obliges a thread to commit, a fault to happen, or housekeeping to
run. `InHandIsDelivered` says what must follow even so, unless the stream
breaks, a thread hangs, or the model's stream is full.

`FairSpec` of `ZoneList` has weak fairness of `Progress`: the server answers a
request (or the browser gives it up), the code after the await runs, and React
runs the effect of a mounted component. The user owes nothing, and no request
has to fail.

## What the violated runs show

1. `trxlog_refused`: writer 1 writes key k and takes id 1; writer 2 removes k,
   its Delete times out unnoticed, the removal is logged; writer 2 takes id 2 and
   commits first. The log has the removal as the newest change of k, the primary
   has the value. The comment in `handleTrxLog()` assumes this away. Without
   refused deletes the assumption is right: that is `ConflictOrder`, proved.
2. `replication_hang`: an update is being written to a streaming follower when
   the next one is committed. `enqueue()` finds `current_` set, `flush()` goes to
   its second branch and `onQueueIsEmpty()` locks the agent's mutex, which the
   thread has held since `Agent::onTransaction()`.
3. `replication_gap`: ids 1 and 2 are committed, the callback of 2 comes first,
   that of 1 is refused as old. The follower applies and confirms 2 and never
   receives 1.

4. `records_decline`: a name has two A records. The user clicks Delete on the
   first and says no: the array behind the row has lost it, the table still shows
   both. The next change of the name sends the shortened array. `EditIsExact`
   says when an edit is right: no question or failed request came before it on
   the same page load, the zone still has what the table showed, and the apex
   has not changed since the handler read it. The last condition is not implied
   by the one before it: another client may change the apex and change it back
   around the handler's read, and then the handler writes the middle version
   back.
5. `zone_delete`: another client deletes the zone; `www` stays in the database.
   It is unreachable until the zone is created again, and then part of it.

## What the models record without a property

- `Zones.jsx:202` sets Next from `zones`, the page the request was made from,
  where `ResourceRecords.jsx:867` uses the page that arrived. After Prev to a
  partial first page Next is on or off by accident; after a refresh `zones` is
  null and the handler throws, so the list shows the error text (`Throws`).
- A PATCH of the apex never succeeds (see above).
- `AuthMgr::deleteZone` calls `updateZoneRrIx` with update = true, so the index
  entry of the zone is written, and the recursive removal of the index, which its
  comment announces, is not reached. `IndexIsExact` leaves the apex out.
- `updateZoneRrIx` takes the zone's part of the key from the front of the name
  (`substr(0, zoneLen)`); the model has the index of one zone and does not tell
  keys apart by their zone part.
- `write(isNew)` looks for the key in the category ENTRY whatever category it
  writes to.

## What is proved

The theorems hold for every set of threads, keys, values, followers and streams
and for all bounds. Their assumptions: the bounds are natural numbers, the
special values are distinct from the others, each stream has an owner; those of
the admin UI are named where they are used.

- `TrxLogProofs`. `ConflictsInIdOrder` and `LogReproducesData` rest on `IInv`.
  The core is `LockHolderIsNewest`: a numbered transaction that holds the lock
  of k has a larger id than all committed changes of k. That is two-phase
  locking with the id taken while all locks are held; it needs
  `PartsAreLocked`, which is what a refused delete breaks. `DbIsNewest`
  replaces the CHOOSE of `DbIsReplay` by the existence of a newest entry.
  `Refinement` shows that each step is a step of `CommitLog` or leaves ids,
  log and counter alone.
- `ReplicationProofs`. `IdsAreUnique`. Not inductive alone: `CommitInv` adds that
  ids in the log were handed out (so a restart continues after them), that a
  numbered transaction's id is its own and not in the log, and that a callback's
  id is in the log. `OnlyCommittedIsReplicated` from `FedInv`: the
  callback's id, the iterator's snapshot and every queued update are in the
  log, and the log only grows. `ConfirmationsAreDurable` from `DurableInv`: the
  follower's position and the acknowledgements under way are durable, and a
  follower reads its own stream. `ReplicationTypeCorrect` includes
  received <= sent <= enqueued. `ReplicationRefinesCommitLog` closes the
  composition: what `TrxLog` implements is what `Replication` runs on.
- `StreamOrderProofs`. `StreamsFollowCommits` from `OrderInv`, which says what
  may be sent next. `PositionIsClosed`: what is beyond `last_enqueued` and smaller
  than something already sent was committed after it. `ScanIsClosed`: what a
  snapshot passes over was committed after the snapshot was taken; this is why
  the update that fills a queue, sent and not counted, does no harm. A thread that
  hangs leaves such an update on the stream too; there the invariant says nothing,
  and need not, since that stream gets nothing more until a restart. `Iterates`
  keeps the callback and `iterateDb()` apart: there is no snapshot while the agent
  is STREAMING. The two meet in one move per stream (`StreamMoves`).
- `OneThreadProofs`, under the hypotheses `OneThread` and, for what followers
  hold, `UpdatesApply` (see "One or two threads"). With one thread the log ascends,
  and once `last_trxid_` is set, all committed ids are behind it or belong to the
  callback that runs (`ThreadInv`). `StreamIsComplete`: an agent has sent all up to
  its position. `StreamHasNoGap`: every update on a stream follows all smaller
  committed ids. `StartIsEmpty` is the corner that breaks this without it: an agent
  at position 0 that looked and found nothing looked at an empty log.
  `AppliedHasNoGap` carries it over to the follower, which may restart, replay, and
  have several streams over time. `InSyncIsTrue`, `ConfirmedIsUpTo` and
  `ReleasesAreReplicated` follow.
- `ZoneListSteps` and `ZoneListProofs`, for any finite set of zones, page size,
  number of requests in flight and failures, from `ZonesAssumption` (zones are
  positive numbers, saved positions are keys). `PageIsComplete` is about
  `listZones` alone: forward from any key, whether or not its zone still exists, a
  page holds every zone up to its own last key, or all of them when `more` is
  false. It rests on lemmas about the smallest and the largest of a finite set and
  the number of keys ahead of a key. `ListInv` has three parts. `TableInv`: types,
  and nobody waits for an answer while the list is not mounted, so no late answer
  moves the saved position between the login and the first listing. `RowsInv`:
  without overlap there is at most one listing in flight, during which no row is
  mounted, so a page that arrives mounts all of its rows anew. `SeenInv`: wherever a
  listing starts (the saved position, the table's, the one a closure captured),
  every zone up to there that existed since the login has been shown; and a short
  page, from which Prev sets Next by accident, is reached only with everything
  shown or from the top. `ListTypes`, `NothingIsSkipped`, `ButtonsMatchRows` and
  `LoginsStartAtTheTop` follow. The steps are sorted into moves on requests and
  page, so each part is shown once per move.
- `RecordsProofs`, for any names, types, values, threads and requests of others,
  from `RecordsAssumption` (the record types have a prototype in `rrProto`; what
  others send has the shape JSON gives it). `RecInv` is the shape of the database
  and of every request with what its handler has read (`ZoneFits`), of table,
  dialog and form (`UiFits`), of the calls in flight (`CallsFit`), with
  `SpinnerHasItsListing` among its conjuncts: calls that end must be told apart from
  the listing. `SentValuesFit` rests on `InPlace`: a field name has one place in all
  prototypes that have it, and an input keeps its place, so a form whose submit
  does not throw collects the fields of the selected type. `PageDrivesTheZone`
  is the refinement `Spec => ZoneSpec`.
- `ZoneProofs`, first for any clients of the handlers, from `ZoneAssumption` (the
  zone starts with a SOA in its apex entry and nowhere else). `Inv` has three
  parts. `JobsOK`: the shape of requests, and that requests of `/zone` are about
  the apex. `SoaInv`: `ZoneKeepsSoa` and, for every request between its reads and
  its commit, that the apex it has read has a SOA, or that its body for the apex
  has one; without the second part a stale write-back could not be shown to keep
  the SOA, since the apex may be gone by then. `QuietInv`: while nothing raced, at
  most one request is between reads and commit, and what it has read is what is
  there; then the index, the serials (all diffs at or below the current one, unless
  the zone was created again) and the other names follow. `SoaIsKept` needs no
  assumption about races; `IndexFollowsZone`, `SerialsAreUnique` and
  `ChangesAreLocal` are about behaviours without one. `PageKeepsTheZone` carries the
  four over to the record editor through `PageDrivesTheZone`. Then `EditsAreExact`,
  from `SentInv`: the request that a thread handles is still the change of one
  value that its call stands for.

Only model-checked: `InHandIsDelivered` and `SpinnerEnds`, which are liveness under
fairness and out of the prover's reach. Every other property of a passing run has a
theorem. The violations are TLC's counterexamples.

## Not modelled

- The keep-alive ping (without effect, see above), starting and stopping the
  gRPC server, the cluster key.
- Loss of the last commits at a power failure: RocksDB's durability.
- Parts of a transaction on the follower: `applied` has whole transactions.
- Of the REST API: PATCH with append, the content of a diff, permissions and
  tenants, waiting for replication, a serial that wraps at 2^32, `dns_enable_ixfr`
  off.
- Of the admin UI: Next and Prev of the record editor (the same code as in the
  zone list, there with a page that holds the whole zone), the number cast of
  typed values, the second first listing that React's strict mode sends in
  development builds, and the static pages. The page of roles is imported by
  `RightPane.jsx` and is not in the repository.
- The other components of the inventory; see the plan.

## Plan

1. `Transfer`: the IXFR and AXFR server with the diff log, and the transfer
   client (timer, NOTIFY, merge), composed with `Zone`; the client ends with a
   version the master had.
2. `Auth`: tenants, indexes and the session cache; `Notify`: retries and locks.
3. `Names`: key order, isInZone and lookup as operators, checked against their
   definition on labels.
4. `Backup`: one backup at a time, close(), schedule.
