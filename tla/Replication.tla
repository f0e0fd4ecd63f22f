----------------------------- MODULE Replication -----------------------------
(***************************************************************************)
(* Replication of committed transactions from the primary to its followers *)
(* (PrimaryReplication, GrpcPrimary, GrpcFollow, FollowerReplication).     *)
(*                                                                         *)
(* Threads are interleaved at the granularity of the code's critical       *)
(* sections.  P is PrimaryReplication::mutex_, A(c) is Agent::mutex_ and   *)
(* C(c) is SyncClient::mutex_ of connection c; none of them is recursive.  *)
(* "notifying" is the section under P in which a committing thread walks   *)
(* through the agents.  A thread that blocks on a mutex it holds itself    *)
(* (or in a cycle) puts its connection in "hung": the mutexes P, A(c) and  *)
(* C(c) are then never released.                                           *)
(***************************************************************************)
EXTENDS CommitLog, FiniteSets

CONSTANTS
    Followers,     \* follower servers
    Conns,         \* Sync() streams, numbered in the order they are opened
    Owner,         \* the follower that opens each stream
    NoConn,        \* the follower process is not running
    Idle,          \* nobody is in PrimaryReplication::onTransaction
    MaxQueue,      \* cluster_repl_agent_max_queue_size
    MaxStream,     \* bound: updates iterateDb() puts on one stream, repeats included
    MaxAcks,       \* bound: acknowledgements sent, the first request of a stream not counted
    MaxFaults,     \* bound: faults in a behaviour
    Faults         \* the faults that may happen: "apply", "link", "follower", "primary"

ASSUME ReplicationAssumption ==
    /\ Owner \in [Conns -> Followers]
    /\ NoConn \notin Conns
    /\ {MaxQueue, MaxStream, MaxAcks, MaxFaults} \subseteq Nat

VARIABLES
    \* PrimaryReplication
    last_trxid,       \* last_trxid_
    min_trx,          \* minTrxIdForAllStreamingAgents_
    notifying,        \* Idle, or the callback that is inside onTransaction
    \* PrimaryReplication::Agent, per connection
    state,            \* state_; "NONE" before addAgent and after housekeeping
    last_enqueued,    \* last_enqueued_trxid_
    last_confirmed,   \* last_confirmed_trx_
    posted,           \* syncLater() tasks waiting in the strand db_sync_
    iterating,        \* the strand is inside iterateDb()
    scan,             \* what is left of the iterator's snapshot of TRXLOG
    \* GrpcPrimary::SyncClient, per connection
    stream,           \* every update given to pending_, oldest first
    sent,             \* how many of them were given to StartWrite
    current,          \* current_ is set: a write is in progress
    has_written,      \* has_written_after_empty_queue_
    is_done,          \* is_done_
    checking,         \* connections whose OnReadDone is about to run checkAgents
    hung,             \* connections whose mutexes are never released again
    \* gRPC, per connection
    link,             \* "unused", "up" or "down"
    received,         \* how many updates the follower has read
    acks,             \* SyncRequests on their way to the primary
    \* FollowerReplication and GrpcFollow, per follower
    conn,             \* the stream of the running follower process
    applied,          \* ids of the TRXLOG entries in the follower's database
    current_trxid,    \* Agent::current_trxid_
    ack_timer,        \* the ACK timer is running
    acks_left,        \* bound
    faults_left       \* bound

agentVars == <<state, last_enqueued, last_confirmed, posted, iterating, scan>>
clientVars == <<stream, sent, current, has_written, is_done>>
primaryVars == <<last_trxid, min_trx, notifying, checking, hung>>
netVars == <<link, received, acks>>
followerVars == <<conn, applied, current_trxid, ack_timer>>
boundVars == <<acks_left, faults_left>>
replVars == <<agentVars, clientVars, primaryVars, netVars, followerVars, boundVars>>
vars == <<commitVars, replVars>>

Committed == {log[i] : i \in DOMAIN log}
AgentStates == {"NONE", "ITERATING_DB", "STREAMING", "DONE"}

Init ==
    /\ CommitInit
    /\ last_trxid = 0 /\ min_trx = 0 /\ notifying = Idle
    /\ checking = {} /\ hung = {}
    /\ state = [c \in Conns |-> "NONE"]
    /\ last_enqueued = [c \in Conns |-> 0]
    /\ last_confirmed = [c \in Conns |-> 0]
    /\ posted = [c \in Conns |-> 0]
    /\ iterating = [c \in Conns |-> FALSE]
    /\ scan = [c \in Conns |-> {}]
    /\ stream = [c \in Conns |-> << >>]
    /\ sent = [c \in Conns |-> 0]
    /\ current = [c \in Conns |-> FALSE]
    /\ has_written = [c \in Conns |-> TRUE]
    /\ is_done = [c \in Conns |-> FALSE]
    /\ link = [c \in Conns |-> "unused"]
    /\ received = [c \in Conns |-> 0]
    /\ acks = [c \in Conns |-> << >>]
    /\ conn = [f \in Followers |-> NoConn]
    /\ applied = [f \in Followers |-> {}]
    /\ current_trxid = [f \in Followers |-> 0]
    /\ ack_timer = [f \in Followers |-> FALSE]
    /\ acks_left = MaxAcks
    /\ faults_left = MaxFaults

-----------------------------------------------------------------------------
(* SyncClient: the queue towards one follower.                             *)

Update(id, sync) == [id |-> id, sync |-> sync]

\* Mutant: a write is started although pending_ is empty.
CanStartEmpty(c, queue, busy) == ~busy /\ Len(queue) >= sent[c]

\* flush()'s first condition: no write in progress and something to write.
CanStart(c, queue, busy) == ~busy /\ Len(queue) > sent[c]

\* flush(), called under C(c) after pending_ or current_ changed: start the
\* next write, or tell the agent once that there is nothing to start
\* (onQueueIsEmpty() -> syncLater()).  The second branch is also taken when a
\* write is still in progress, whatever the length of pending_.
Flush(c, queue, busy) ==
    LET starts == CanStart(c, queue, busy)
        tells  == ~starts /\ has_written[c]
    IN  /\ stream' = [stream EXCEPT ![c] = queue]
        /\ sent' = [sent EXCEPT ![c] = IF starts THEN @ + 1 ELSE @]
        /\ current' = [current EXCEPT ![c] = starts \/ busy]
        /\ has_written' = [has_written EXCEPT ![c] = starts]
        /\ posted' = [posted EXCEPT ![c] = IF tells THEN @ + 1 ELSE @]
        /\ UNCHANGED is_done

\* enqueue() on a live stream adds the update first and looks at the limit
\* afterwards; Fits is what it returns.
Enqueue(c, update) == Flush(c, Append(stream[c], update), current[c])
Fits(c) == Len(stream'[c]) - sent'[c] <= MaxQueue

\* OnWriteDone(): also called, with ok = false, when the stream is broken.
OnWriteDone(c) ==
    /\ current[c]
    /\ c \notin hung
    /\ Flush(c, stream[c], FALSE)
    /\ UNCHANGED <<state, last_enqueued, last_confirmed, iterating, scan>>
    /\ UNCHANGED <<commitVars, primaryVars, netVars, followerVars, boundVars>>

\* OnReadDone(true): the first request creates the agent (addAgent, under P);
\* every request is then passed to onTrxId(), which runs under A(c).
\* startAfter is recorded as confirmed; where to start is not taken from it.
OnReadDone(c) ==
    /\ acks[c] # << >>
    /\ c \notin hung \cup checking
    /\ state[c] = "NONE" => notifying = Idle
    /\ state' = [state EXCEPT ![c] = IF @ = "NONE" THEN "ITERATING_DB" ELSE @]
    /\ last_confirmed' = [last_confirmed EXCEPT ![c] = Head(acks[c])]
    /\ posted' = [posted EXCEPT ![c] = @ + 1]
    /\ acks' = [acks EXCEPT ![c] = Tail(@)]
    /\ checking' = checking \cup {c}
    /\ UNCHANGED <<last_enqueued, iterating, scan, last_trxid, min_trx, notifying, hung, link, received>>
    /\ UNCHANGED <<commitVars, clientVars, followerVars, boundVars>>

\* OnReadDone(false): the stream can no longer be read.
OnReadFails(c) ==
    /\ link[c] = "down"
    /\ ~is_done[c]
    /\ c \notin hung \cup checking
    /\ is_done' = [is_done EXCEPT ![c] = TRUE]
    /\ UNCHANGED <<stream, sent, current, has_written>>
    /\ UNCHANGED <<commitVars, agentVars, primaryVars, netVars, followerVars, boundVars>>

\* OnDone(): gRPC is done with the stream; the agent becomes DONE and loses
\* its client.
OnDone(c) ==
    /\ is_done[c]
    /\ ~current[c]
    /\ c \notin hung
    /\ state[c] \notin {"NONE", "DONE"}
    /\ state' = [state EXCEPT ![c] = "DONE"]
    /\ UNCHANGED <<last_enqueued, last_confirmed, posted, iterating, scan>>
    /\ UNCHANGED <<commitVars, clientVars, primaryVars, netVars, followerVars, boundVars>>

-----------------------------------------------------------------------------
(* PrimaryReplication.                                                     *)

Confirmed == {last_confirmed[c] : c \in {d \in Conns : state[d] = "STREAMING"}}

\* Mutant: the maximum instead of the minimum.
IsHighest(m) == \A n \in Confirmed : n <= m

\* getMinTrxIdForAllAgents(): what all streaming agents have confirmed.
IsLowest(m) == \A n \in Confirmed : m <= n

\* The rest of OnReadDone(): checkAgents() takes P, lifts the minimum over the
\* streaming agents if it grew (and releases the requests that wait for it);
\* then the next read is started.
CheckAgents(c) ==
    /\ c \in checking
    /\ notifying = Idle
    /\ min_trx' = IF \E m \in Confirmed : IsLowest(m) /\ m > min_trx
                  THEN CHOOSE m \in Confirmed : IsLowest(m)
                  ELSE min_trx
    /\ checking' = checking \ {c}
    /\ UNCHANGED <<last_trxid, notifying, hung>>
    /\ UNCHANGED <<commitVars, agentVars, clientVars, netVars, followerVars, boundVars>>

\* housekeeping(): drop the agents whose client is gone.
Housekeeping(c) ==
    /\ notifying = Idle
    /\ state[c] = "DONE"
    /\ state' = [state EXCEPT ![c] = "NONE"]
    /\ UNCHANGED <<last_enqueued, last_confirmed, posted, iterating, scan>>
    /\ UNCHANGED <<commitVars, clientVars, primaryVars, netVars, followerVars, boundVars>>

\* Mutant: only the same id is refused.
IsSame(id) == last_trxid = id

\* "New transaction has old trxid!"
IsOld(id) == last_trxid >= id

\* onTransaction(), the transaction callback of the storage layer: refuse an
\* id that is not larger than the last one, else walk through the agents.
OnTransaction(w) ==
    LET id == replication_id[w]
        agents == {c \in Conns : state[c] # "NONE"}
    IN  /\ pc[w] = "committed"
        /\ notifying = Idle
        /\ last_trxid' = IF IsOld(id) THEN last_trxid ELSE id
        /\ IF IsOld(id) \/ agents = {}
           THEN /\ CallbackReturns(w)
                /\ UNCHANGED notifying
           ELSE /\ notifying' = [writer |-> w, prev |-> last_trxid, id |-> id, todo |-> agents]
                /\ UNCHANGED commitVars
        /\ UNCHANGED <<min_trx, checking, hung>>
        /\ UNCHANGED <<agentVars, clientVars, netVars, followerVars, boundVars>>

\* The walk has dealt with agent c; after the last one the callback returns.
Notified(c) ==
    /\ IF notifying.todo = {c}
       THEN notifying' = Idle /\ CallbackReturns(notifying.writer)
       ELSE notifying' = [notifying EXCEPT !.todo = @ \ {c}] /\ UNCHANGED commitVars
    /\ UNCHANGED <<last_trxid, min_trx, checking, hung>>
    /\ UNCHANGED <<netVars, followerVars, boundVars>>

-----------------------------------------------------------------------------
(* Agent::onTransaction(), under P and A(c).                               *)

Notifying(c) == notifying # Idle /\ c \in notifying.todo /\ c \notin hung

\* Mutant: the position of the agent is not compared with the previous id.
InStepUnchecked(c) == state[c] = "STREAMING"

\* The agent has everything up to the transaction before this one.
InStep(c) == state[c] = "STREAMING" /\ notifying.prev = last_enqueued[c]

AgentNotStreaming(c) ==
    /\ Notifying(c)
    /\ state[c] # "STREAMING"
    /\ Notified(c)
    /\ UNCHANGED <<agentVars, clientVars>>

\* enqueue() would reach onQueueIsEmpty(), which locks A(c) again.
RelocksAgent(c) == ~is_done[c] /\ current[c] /\ has_written[c]

AgentEnqueues(c) ==
    /\ Notifying(c)
    /\ InStep(c)
    /\ ~is_done[c]
    /\ ~RelocksAgent(c)
    /\ Enqueue(c, Update(notifying.id, TRUE))
    /\ state' = [state EXCEPT ![c] = IF Fits(c) THEN @ ELSE "ITERATING_DB"]
    /\ last_enqueued' = [last_enqueued EXCEPT ![c] = notifying.id]
    /\ Notified(c)
    /\ UNCHANGED <<last_confirmed, iterating, scan>>

\* enqueue() refuses because the stream is done.
AgentIsRefused(c) ==
    /\ Notifying(c)
    /\ InStep(c)
    /\ is_done[c]
    /\ state' = [state EXCEPT ![c] = "ITERATING_DB"]
    /\ last_enqueued' = [last_enqueued EXCEPT ![c] = notifying.id]
    /\ Notified(c)
    /\ UNCHANGED <<last_confirmed, posted, iterating, scan, clientVars>>

\* Mutant: back to ITERATING_DB without syncLater().
AgentOutOfSyncNoTask(c) ==
    /\ Notifying(c)
    /\ state[c] = "STREAMING"
    /\ ~InStep(c)
    /\ state' = [state EXCEPT ![c] = "ITERATING_DB"]
    /\ Notified(c)
    /\ UNCHANGED <<last_enqueued, last_confirmed, posted, iterating, scan, clientVars>>

\* A transaction was missed: setState(ITERATING_DB) and syncLater().
AgentOutOfSync(c) ==
    /\ Notifying(c)
    /\ state[c] = "STREAMING"
    /\ ~InStep(c)
    /\ state' = [state EXCEPT ![c] = "ITERATING_DB"]
    /\ posted' = [posted EXCEPT ![c] = @ + 1]
    /\ Notified(c)
    /\ UNCHANGED <<last_enqueued, last_confirmed, iterating, scan, clientVars>>

\* The thread blocks for ever in onQueueIsEmpty(), the update in pending_.
AgentHangs(c) ==
    /\ Notifying(c)
    /\ InStep(c)
    /\ RelocksAgent(c)
    /\ stream' = [stream EXCEPT ![c] = Append(@, Update(notifying.id, TRUE))]
    /\ hung' = hung \cup {c}
    /\ UNCHANGED <<last_trxid, min_trx, notifying, checking, sent, current, has_written, is_done>>
    /\ UNCHANGED <<commitVars, agentVars, netVars, followerVars, boundVars>>

\* OnWriteDone() holds C(c) and wants A(c) in onQueueIsEmpty(); this thread
\* holds A(c) and wants C(c) in enqueue().
LockInversion(c) ==
    /\ Notifying(c)
    /\ InStep(c)
    /\ current[c]
    /\ has_written[c]
    /\ Len(stream[c]) = sent[c]
    /\ current' = [current EXCEPT ![c] = FALSE]
    /\ hung' = hung \cup {c}
    /\ UNCHANGED <<last_trxid, min_trx, notifying, checking, stream, sent, has_written, is_done>>
    /\ UNCHANGED <<commitVars, agentVars, netVars, followerVars, boundVars>>

AgentOnTransaction(c) ==
    \/ AgentNotStreaming(c) \/ AgentEnqueues(c) \/ AgentIsRefused(c)
    \/ AgentOutOfSync(c) \/ AgentHangs(c) \/ LockInversion(c)

-----------------------------------------------------------------------------
(* The strand: tasks posted by syncLater() run one after the other.        *)

\* Mutant: the iterator starts one entry too late.
IterateFromPrevSkips(id) == {i \in Committed : i > id + 1}

\* iterateFromPrevT() on TRXLOG: the entries that follow id, as of now.
IterateFromPrev(id) == {i \in Committed : i > id}

\* A task starts: iterateDb() opens an iterator, which sees the transactions
\* committed so far, after the last one enqueued.  In any other state than
\* ITERATING_DB the task does nothing.
SyncTask(c) ==
    /\ posted[c] > 0
    /\ ~iterating[c]
    /\ posted' = [posted EXCEPT ![c] = @ - 1]
    /\ IF state[c] = "ITERATING_DB"
       THEN /\ iterating' = [iterating EXCEPT ![c] = TRUE]
            /\ scan' = [scan EXCEPT ![c] = IterateFromPrev(last_enqueued[c])]
       ELSE UNCHANGED <<iterating, scan>>
    /\ UNCHANGED <<state, last_enqueued, last_confirmed>>
    /\ UNCHANGED <<commitVars, clientVars, primaryVars, netVars, followerVars, boundVars>>

\* One round of iterateDb()'s loop.  An update that fills the queue ends the
\* loop and is not counted as enqueued, although it is in pending_.
IterateItem(c) ==
    /\ iterating[c]
    /\ c \notin hung
    /\ Len(stream[c]) < MaxStream
    /\ \E i \in scan[c] :
          /\ \A j \in scan[c] : i <= j
          /\ IF is_done[c] THEN UNCHANGED <<clientVars, posted>>
             ELSE Enqueue(c, Update(i, FALSE))
          /\ LET goes_on == ~is_done[c] /\ Fits(c)
             IN  /\ last_enqueued' = [last_enqueued EXCEPT ![c] = IF goes_on THEN i ELSE @]
                 /\ iterating' = [iterating EXCEPT ![c] = goes_on]
                 /\ scan' = [scan EXCEPT ![c] = IF goes_on THEN @ \ {i} ELSE {}]
    /\ UNCHANGED <<state, last_confirmed>>
    /\ UNCHANGED <<commitVars, primaryVars, netVars, followerVars, boundVars>>

\* The end of the snapshot is reached: setState(STREAMING), under A(c), which
\* an agent that is DONE ignores.
IterateEnd(c) ==
    /\ iterating[c]
    /\ scan[c] = {}
    /\ c \notin hung
    /\ iterating' = [iterating EXCEPT ![c] = FALSE]
    /\ state' = [state EXCEPT ![c] = IF @ = "ITERATING_DB" THEN "STREAMING" ELSE @]
    /\ UNCHANGED <<last_enqueued, last_confirmed, posted, scan>>
    /\ UNCHANGED <<commitVars, clientVars, primaryVars, netVars, followerVars, boundVars>>

-----------------------------------------------------------------------------
(* The follower.                                                           *)

Fault(kind) == kind \in Faults /\ faults_left > 0 /\ faults_left' = faults_left - 1

\* A stream the follower has not used; which one makes no difference.
NextStream(f) == CHOOSE c \in Conns : link[c] = "unused" /\ Owner[c] = f

\* Agent::init() and SyncFromServer::start(): a follower process starts, takes
\* the largest id in its own TRXLOG as its position and sends it on a new
\* stream.
FollowerStart(f) ==
    /\ conn[f] = NoConn
    /\ \E c \in Conns, last \in {0} \cup applied[f] :
          /\ \A i \in applied[f] : i <= last
          /\ link[c] = "unused" /\ Owner[c] = f
          /\ c = NextStream(f)
          /\ conn' = [conn EXCEPT ![f] = c]
          /\ link' = [link EXCEPT ![c] = "up"]
          /\ acks' = [acks EXCEPT ![c] = << last >>]
          /\ current_trxid' = [current_trxid EXCEPT ![f] = last]
    /\ ack_timer' = [ack_timer EXCEPT ![f] = FALSE]
    /\ UNCHANGED <<applied, received>>
    /\ UNCHANGED <<commitVars, agentVars, clientVars, primaryVars, boundVars>>

\* Mutant: onTrx() does not commit.
OnTrxUncommitted(f, id) == applied[f]

\* onTrx(): the update's changes and its TRXLOG entry, in one transaction.
OnTrx(f, id) == applied[f] \cup {id}

\* OnReadDone() of the follower: onTrx() applies the next update.  When
\* that throws, the update is skipped.  Either way the ACK timer is started.
OnUpdate(f, applies) ==
    /\ conn[f] # NoConn
    /\ LET c == conn[f] IN
       /\ link[c] = "up"
       /\ received[c] < sent[c]
       /\ received' = [received EXCEPT ![c] = @ + 1]
       /\ LET id == stream[c][received'[c]].id IN
          IF applies
          THEN /\ applied' = [applied EXCEPT ![f] = OnTrx(f, id)]
               /\ current_trxid' = [current_trxid EXCEPT ![f] = id]
               /\ UNCHANGED faults_left
          ELSE /\ Fault("apply")
               /\ UNCHANGED <<applied, current_trxid>>
    /\ ack_timer' = [ack_timer EXCEPT ![f] = TRUE]
    /\ UNCHANGED <<conn, link, acks, acks_left>>
    /\ UNCHANGED <<commitVars, agentVars, clientVars, primaryVars>>

\* onAckTimer() and writeIf(): send the current position.  (While gRPC is
\* still writing an earlier request the timer is started again, so the step
\* is only delayed.)
SendAck(f) ==
    /\ conn[f] # NoConn
    /\ ack_timer[f]
    /\ acks_left > 0
    /\ acks_left' = acks_left - 1
    /\ LET c == conn[f] IN
       /\ link[c] = "up"
       /\ acks' = [acks EXCEPT ![c] = Append(@, current_trxid[f])]
    /\ ack_timer' = [ack_timer EXCEPT ![f] = FALSE]
    /\ UNCHANGED <<link, received, conn, applied, current_trxid, faults_left>>
    /\ UNCHANGED <<commitVars, agentVars, clientVars, primaryVars>>

-----------------------------------------------------------------------------
(* Faults.                                                                 *)

\* The stream breaks.  The follower does not open another one: its timer
\* never gets past "if (!stopped_)".
LinkBreaks(c) ==
    /\ link[c] = "up"
    /\ link' = [link EXCEPT ![c] = "down"]
    /\ acks' = [acks EXCEPT ![c] = << >>]
    /\ Fault("link")
    /\ UNCHANGED <<acks_left, received, commitVars, agentVars, clientVars, primaryVars, followerVars>>

\* The follower process ends; its database stays.
FollowerStops(f) ==
    /\ conn[f] # NoConn
    /\ link' = [link EXCEPT ![conn[f]] = "down"]
    /\ acks' = [acks EXCEPT ![conn[f]] = << >>]
    /\ conn' = [conn EXCEPT ![f] = NoConn]
    /\ current_trxid' = [current_trxid EXCEPT ![f] = 0]
    /\ ack_timer' = [ack_timer EXCEPT ![f] = FALSE]
    /\ Fault("follower")
    /\ UNCHANGED <<acks_left, applied, received>>
    /\ UNCHANGED <<commitVars, agentVars, clientVars, primaryVars>>

\* The primary ends and starts again: only TRXLOG and the data survive.
PrimaryRestarts ==
    /\ Restart
    /\ Fault("primary")
    /\ UNCHANGED acks_left
    /\ last_trxid' = 0 /\ min_trx' = 0 /\ notifying' = Idle
    /\ checking' = {} /\ hung' = {}
    /\ state' = [c \in Conns |-> "NONE"]
    /\ last_enqueued' = [c \in Conns |-> 0]
    /\ last_confirmed' = [c \in Conns |-> 0]
    /\ posted' = [c \in Conns |-> 0]
    /\ iterating' = [c \in Conns |-> FALSE]
    /\ scan' = [c \in Conns |-> {}]
    /\ stream' = [c \in Conns |-> << >>]
    /\ sent' = [c \in Conns |-> 0]
    /\ current' = [c \in Conns |-> FALSE]
    /\ has_written' = [c \in Conns |-> TRUE]
    /\ is_done' = [c \in Conns |-> link[c] # "unused"]
    /\ link' = [c \in Conns |-> IF link[c] = "unused" THEN "unused" ELSE "down"]
    /\ received' = [c \in Conns |-> 0]
    /\ acks' = [c \in Conns |-> << >>]
    /\ UNCHANGED followerVars

-----------------------------------------------------------------------------
CommitStep(w) ==
    /\ AssignId(w) \/ Commit(w) \/ CommitFails(w)
    /\ UNCHANGED replVars

ConnStep(c) ==
    \/ OnWriteDone(c) \/ OnReadDone(c) \/ OnReadFails(c) \/ CheckAgents(c)
    \/ AgentOnTransaction(c)
    \/ SyncTask(c) \/ IterateItem(c) \/ IterateEnd(c)
    \/ OnDone(c) \/ Housekeeping(c) \/ LinkBreaks(c)

FollowerStep(f) ==
    \/ FollowerStart(f) \/ OnUpdate(f, TRUE) \/ OnUpdate(f, FALSE)
    \/ SendAck(f) \/ FollowerStops(f)

Next ==
    \/ \E w \in Writers : CommitStep(w) \/ OnTransaction(w)
    \/ \E c \in Conns : ConnStep(c)
    \/ \E f \in Followers : FollowerStep(f)
    \/ PrimaryRestarts

Spec == Init /\ [][Next]_vars

\* Fairness: gRPC completes what was started, the io_context runs what was
\* posted and the timers that were armed, a thread that waits for a mutex that
\* is released gets it.  Commits, faults, OnDone and housekeeping are not
\* obliged to happen.
Fairness ==
    /\ \A c \in Conns :
          /\ WF_vars(OnWriteDone(c)) /\ WF_vars(OnReadDone(c)) /\ WF_vars(OnReadFails(c))
          /\ WF_vars(CheckAgents(c)) /\ WF_vars(AgentOnTransaction(c))
          /\ WF_vars(SyncTask(c)) /\ WF_vars(IterateItem(c)) /\ WF_vars(IterateEnd(c))
    /\ \A f \in Followers : WF_vars(OnUpdate(f, TRUE)) /\ WF_vars(SendAck(f))
    /\ \A w \in Writers : WF_vars(OnTransaction(w))

FairSpec == Spec /\ Fairness

-----------------------------------------------------------------------------
Ids == 1..MaxTrxId
Id0 == 0..MaxTrxId
Notifications == [writer : Writers, prev : Id0, id : Ids, todo : SUBSET Conns]
Updates == [id : Ids, sync : BOOLEAN]

PrimaryOK ==
    /\ last_trxid \in Id0 /\ min_trx \in Id0
    /\ notifying \in {Idle} \cup Notifications
    /\ checking \subseteq Conns /\ hung \subseteq Conns

AgentOK ==
    /\ state \in [Conns -> AgentStates]
    /\ last_enqueued \in [Conns -> Id0] /\ last_confirmed \in [Conns -> Id0]
    /\ posted \in [Conns -> Nat]
    /\ iterating \in [Conns -> BOOLEAN] /\ scan \in [Conns -> SUBSET Ids]

ClientOK ==
    /\ stream \in [Conns -> Seq(Updates)] /\ sent \in [Conns -> Nat]
    /\ current \in [Conns -> BOOLEAN] /\ has_written \in [Conns -> BOOLEAN]
    /\ is_done \in [Conns -> BOOLEAN]

NetOK ==
    /\ link \in [Conns -> {"unused", "up", "down"}]
    /\ received \in [Conns -> Nat] /\ acks \in [Conns -> Seq(Id0)]

\* Nothing is sent that was not enqueued, nothing received that was not sent.
PositionsOK == \A c \in Conns : received[c] <= sent[c] /\ sent[c] <= Len(stream[c])

FollowerOK ==
    /\ conn \in [Followers -> Conns \cup {NoConn}]
    /\ applied \in [Followers -> SUBSET Ids]
    /\ current_trxid \in [Followers -> Id0]
    /\ ack_timer \in [Followers -> BOOLEAN]

BoundOK == acks_left \in Nat /\ faults_left \in Nat

TypeOK ==
    /\ CommitTypeOK /\ PrimaryOK /\ AgentOK /\ ClientOK /\ NetOK /\ PositionsOK
    /\ FollowerOK /\ BoundOK

\* A follower never holds a transaction the primary did not commit: neither a
\* numbered transaction whose commit failed, nor one a crash of the primary
\* undid, although onTransaction() and iterateDb() feed the stream separately.
FollowersHoldOnlyCommitted == \A f \in Followers : applied[f] \subseteq Committed

CommittedBefore(a, b) == \E i, j \in DOMAIN log : i < j /\ log[i] = a /\ log[j] = b

\* On one stream a larger id is sent before a smaller one only if it was also
\* committed before it.  Conflicting transactions are committed in id order
\* (TrxLog), so a follower applies conflicting transactions in the right order
\* even when iterateDb() sends a full queue's last update twice.
StreamRespectsCommitOrder ==
    \A c \in Conns : \A m, n \in DOMAIN stream[c] :
        m < n /\ stream[c][m].id > stream[c][n].id
            => CommittedBefore(stream[c][m].id, stream[c][n].id)

\* What an agent notes as confirmed is in the follower's database, whatever
\* was lost, repeated or restarted since.
ConfirmedIsDurable ==
    \A c \in Conns : last_confirmed[c] \in {0} \cup applied[Owner[c]]

\* ReplicationInterface::onTrxId: "The replica server confirmes that it as
\* committed transactions up to trxId".
ConfirmedUpTo ==
    \A c \in Conns : \A i \in Committed :
        i <= last_confirmed[c] => i \in applied[Owner[c]]

\* An update that carries isInSync ("True if there is no backlog") follows
\* every committed transaction with a smaller id on its stream.
InSyncMeansNoBacklog ==
    \A c \in Conns : \A n \in DOMAIN stream[c] :
        stream[c][n].sync =>
            \A i \in Committed : i < stream[c][n].id =>
                \E m \in 1..(n - 1) : stream[c][m].id = i

\* A REST request with "wait" is released only when every streaming follower
\* has the transaction and all that were committed before it.
ReleasedMeansReplicated ==
    [][min_trx' > min_trx =>
          \A c \in Conns : state[c] = "STREAMING" =>
              \A i \in Committed : i <= min_trx' => i \in applied[Owner[c]]]_vars

\* No thread blocks for ever inside the replication code: "The event-methods
\* must return immediately".
NoThreadHangs == hung = {}

\* Transaction i is in the agent's hands: enqueued, in the snapshot it
\* iterates, or committed while it is to iterate again.
InHand(c, i) ==
    /\ link[c] = "up"
    /\ i \in Committed
    /\ \/ i <= last_enqueued[c]
       \/ i \in scan[c]
       \/ state[c] = "ITERATING_DB" /\ ~iterating[c]

\* An agent that lost its place (queue full, out of step, just connected)
\* always gets another turn: what it has in hand reaches the follower unless
\* the stream breaks or the primary hangs.
InHandIsDelivered ==
    \A c \in Conns, i \in Ids :
        InHand(c, i) ~> (\/ i \in applied[Owner[c]]
                         \/ link[c] # "up"
                         \/ hung # {}
                         \/ Len(stream[c]) >= MaxStream)
=============================================================================
