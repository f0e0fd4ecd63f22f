------------------------- MODULE StreamOrderProofs -------------------------
(***************************************************************************)
(* A follower gets conflicting transactions in the order of their commits: *)
(* the proof of StreamRespectsCommitOrder, for any number of threads,      *)
(* followers, streams and transactions, any queue limit and any faults.    *)
(***************************************************************************)
EXTENDS ReplicationProofs

\* Time for a leaf that names no prover.
USE SMTT(30), ZenonT(30)

-----------------------------------------------------------------------------
(* The strengthening.  StreamRespectsCommitOrder says nothing of what may  *)
(* be sent next; that is decided by last_enqueued and by the snapshot.     *)

\* CommittedBefore, of any log.
OrderedIn(l, a, b) == \E i, j \in DOMAIN l : i < j /\ l[i] = a /\ l[j] = b

\* The id the callback announces is larger than the one it announced before.
CallbackIsNewer == notifying # Idle => notifying.prev < notifying.id

\* A snapshot exists only while iterateDb() runs, which is never while the
\* callback may enqueue.
Iterates(c) ==
    /\ scan[c] # {} => iterating[c]
    /\ iterating[c] => state[c] # "STREAMING"

\* The snapshot holds only what follows last_enqueued.
ScanIsAhead(c) == \A i \in scan[c] : last_enqueued[c] < i

\* What the snapshot passes over was committed after the snapshot was taken.
ScanIsClosed(c) ==
    \A i \in scan[c], j \in Committed \ scan[c] :
        last_enqueued[c] < j /\ j < i => OrderedIn(log, i, j)

\* What is still to be sent and smaller than something already sent was
\* committed after it.  An agent that hangs has sent an update it has not
\* counted, and sends nothing any more.
PositionIsClosed(c) ==
    c \notin hung =>
        \A m \in DOMAIN stream[c], j \in Committed :
            last_enqueued[c] < j /\ j < stream[c][m].id => OrderedIn(log, stream[c][m].id, j)

StreamInOrder(c) ==
    \A m, n \in DOMAIN stream[c] :
        m < n /\ stream[c][m].id > stream[c][n].id
            => OrderedIn(log, stream[c][m].id, stream[c][n].id)

ConnInOrder(c) ==
    Iterates(c) /\ ScanIsAhead(c) /\ ScanIsClosed(c) /\ PositionIsClosed(c) /\ StreamInOrder(c)

OrderInv == FedInv /\ CallbackIsNewer /\ \A c \in Conns : ConnInOrder(c)

-----------------------------------------------------------------------------
(* The log: the order of two commits never changes.                        *)

\* The order of what is committed is kept, and what is committed in this step
\* comes after everything committed before.
LEMMA CommitOrderKept ==
    ASSUME CommitInv, [CommitNext]_commitVars
    PROVE  /\ \A a, b : OrderedIn(log, a, b) => OrderedIn(log', a, b)
           /\ \A a \in Committed, b \in Committed' \ Committed : OrderedIn(log', a, b)
<1>1. CASE log' = log
    BY <1>1 DEF Committed, OrderedIn
<1>2. ASSUME NEW w \in Writers, Commit(w)
      PROVE  /\ \A a, b : OrderedIn(log, a, b) => OrderedIn(log', a, b)
             /\ \A a \in Committed, b \in Committed' \ Committed : OrderedIn(log', a, b)
    <2>1. replication_id[w] \in 1..MaxTrxId
        BY <1>2 DEF Commit, CommitInv, NumberedIsFresh, CommitTypeOK
    <2>2. /\ DOMAIN log' = (DOMAIN log) \cup {Len(log) + 1}
          /\ \A i \in DOMAIN log : log'[i] = log[i]
          /\ log'[Len(log) + 1] = replication_id[w]
        BY Zenon, <1>2, <2>1, CommittedKept DEF CommitInv
    <2>3. \A i \in DOMAIN log : i < Len(log) + 1
        BY DEF CommitInv, CommitTypeOK
    <2>4. ASSUME NEW a \in Committed, NEW b \in Committed' \ Committed
          PROVE  OrderedIn(log', a, b)
        <3>1. PICK i \in DOMAIN log : log[i] = a
            BY DEF Committed
        <3>2. PICK j \in DOMAIN log' : log'[j] = b
            BY DEF Committed
        <3>3. j = Len(log) + 1
            BY <2>2, <3>2 DEF Committed
        <3> QED
            BY <2>2, <2>3, <3>1, <3>2, <3>3 DEF OrderedIn
    <2> QED
        BY <2>2, <2>4 DEF OrderedIn
<1> QED
    BY <1>1, <1>2 DEF CommitNext, AssignId, CommitFails, CallbackReturns, Restart, commitVars

-----------------------------------------------------------------------------
(* What a step does to one stream, its position and its snapshot.          *)

Keeps(c) == stream'[c] = stream[c] /\ last_enqueued'[c] = last_enqueued[c]

\* The stream is left alone; the snapshot too, or it is dropped or taken anew.
Rests(c) ==
    /\ Keeps(c)
    /\ scan'[c] \in {scan[c], {}, IterateFromPrev(last_enqueued[c])}

\* iterateDb() sends the first entry of the snapshot and counts it or not.
SendsItem(c) ==
    /\ c \notin hung /\ ~is_done[c]
    /\ \E u \in Updates :
        /\ u.id \in scan[c] /\ \A j \in scan[c] : u.id <= j
        /\ stream'[c] = Append(stream[c], u)
        /\ \/ last_enqueued'[c] = u.id /\ scan'[c] = scan[c] \ {u.id}
           \/ last_enqueued'[c] = last_enqueued[c] /\ scan'[c] = {}

\* The callback sends its id to an agent in step, counts it without sending
\* it (the stream is done) or sends it without counting it (the thread hangs).
SendsNews(c) ==
    /\ Notifying(c) /\ InStep(c) /\ scan'[c] = scan[c]
    /\ \/ /\ ~is_done[c]
          /\ \E u \in Updates : u.id = notifying.id /\ stream'[c] = Append(stream[c], u)
          /\ last_enqueued'[c] = notifying.id \/ (last_enqueued'[c] = last_enqueued[c] /\ c \in hung')
       \/ is_done[c] /\ stream'[c] = stream[c] /\ last_enqueued'[c] = notifying.id

\* The primary restarts.
Forgets(c) == stream'[c] = << >> /\ scan'[c] = {} /\ last_enqueued'[c] = 0

\* Every step makes one of these four moves on every stream.
LEMMA StreamMoves ==
    ASSUME TypeOK, [Next]_vars, NEW c \in Conns
    PROVE  Rests(c) \/ SendsItem(c) \/ SendsNews(c) \/ Forgets(c)
<1>0. /\ stream \in [Conns -> Seq(Updates)] /\ last_enqueued \in [Conns -> Id0]
      /\ scan \in [Conns -> SUBSET Ids]
    BY DEF TypeOK, ClientOK, AgentOK
<1>1. ASSUME UNCHANGED <<stream, last_enqueued, scan>> PROVE Rests(c)
    BY <1>1 DEF Rests, Keeps
<1>2. ASSUME NEW w \in Writers, CommitStep(w) \/ OnTransaction(w)
      PROVE  UNCHANGED <<stream, last_enqueued, scan>>
    BY Zenon, <1>2 DEF CommitStep, OnTransaction, replVars, clientVars, agentVars
<1>3. ASSUME NEW d \in Conns, OnWriteDone(d) PROVE UNCHANGED <<stream, last_enqueued, scan>>
    BY <1>0, <1>3 DEF OnWriteDone, Flush
<1>4. ASSUME NEW d \in Conns, SyncTask(d) PROVE Rests(c)
    BY <1>0, <1>4 DEF SyncTask, Rests, Keeps, clientVars
<1>5. ASSUME NEW d \in Conns, IterateItem(d) PROVE Rests(c) \/ SendsItem(c)
    <2>1. PICK i \in scan[d] :
            /\ \A j \in scan[d] : i <= j
            /\ IF is_done[d] THEN UNCHANGED <<clientVars, posted>>
               ELSE Enqueue(d, Update(i, FALSE))
            /\ last_enqueued' = [last_enqueued EXCEPT ![d] = IF ~is_done[d] /\ Fits(d) THEN i ELSE @]
            /\ scan' = [scan EXCEPT ![d] = IF ~is_done[d] /\ Fits(d) THEN @ \ {i} ELSE {}]
        BY <1>5, Zenon DEF IterateItem
    <2>2. Update(i, FALSE) \in Updates /\ Update(i, FALSE).id = i /\ d \notin hung
        BY <1>0, <1>5, <2>1 DEF Update, Updates, IterateItem
    <2>3. CASE is_done[d]
        <3>1. /\ stream' = stream /\ last_enqueued' = [last_enqueued EXCEPT ![d] = last_enqueued[d]]
              /\ scan' = [scan EXCEPT ![d] = {}]
            BY <2>1, <2>3 DEF clientVars
        <3> QED
            BY <1>0, <3>1 DEF Rests, Keeps
    <2>4. CASE ~is_done[d]
        <3>1. stream' = [stream EXCEPT ![d] = Append(stream[d], Update(i, FALSE))]
            BY Zenon, <2>1, <2>4 DEF Enqueue, Flush
        <3>2. \/ /\ last_enqueued' = [last_enqueued EXCEPT ![d] = i]
                 /\ scan' = [scan EXCEPT ![d] = scan[d] \ {i}]
              \/ /\ last_enqueued' = [last_enqueued EXCEPT ![d] = last_enqueued[d]]
                 /\ scan' = [scan EXCEPT ![d] = {}]
            BY Zenon, <2>1, <2>4
        <3>3. CASE c = d
            <4>1. stream'[c] = Append(stream[c], Update(i, FALSE))
                BY Zenon, <1>0, <3>1, <3>3
            <4>2. \/ last_enqueued'[c] = i /\ scan'[c] = scan[c] \ {i}
                  \/ last_enqueued'[c] = last_enqueued[c] /\ scan'[c] = {}
                BY <1>0, <3>2, <3>3
            <4> QED
                BY Zenon, <2>1, <2>2, <2>4, <3>3, <4>1, <4>2 DEF SendsItem
        <3>4. CASE c # d
            BY <1>0, <3>1, <3>2, <3>4 DEF Rests, Keeps
        <3> QED
            BY <3>3, <3>4
    <2> QED
        BY <2>3, <2>4
<1>6. ASSUME NEW d \in Conns, Notifying(d)
      PROVE  Update(notifying.id, TRUE) \in Updates /\ Update(notifying.id, TRUE).id = notifying.id
    BY <1>6 DEF Notifying, TypeOK, PrimaryOK, Notifications, Update, Updates
<1>7. ASSUME NEW d \in Conns, AgentEnqueues(d) \/ AgentIsRefused(d) \/ AgentHangs(d)
      PROVE  Rests(c) \/ SendsNews(c)
    <2>1. Notifying(d) /\ InStep(d) /\ scan' = scan
        BY Zenon, <1>7 DEF AgentEnqueues, AgentIsRefused, AgentHangs, agentVars
    <2>2. \/ /\ ~is_done[d]
             /\ stream' = [stream EXCEPT ![d] = Append(stream[d], Update(notifying.id, TRUE))]
             /\ \/ last_enqueued' = [last_enqueued EXCEPT ![d] = notifying.id]
                \/ last_enqueued' = last_enqueued /\ d \in hung'
          \/ /\ is_done[d] /\ stream' = stream
             /\ last_enqueued' = [last_enqueued EXCEPT ![d] = notifying.id]
        <3>1. CASE AgentEnqueues(d)
            BY Zenon, <3>1 DEF AgentEnqueues, Enqueue, Flush
        <3>2. CASE AgentIsRefused(d)
            BY Zenon, <3>2 DEF AgentIsRefused, clientVars
        <3>3. CASE AgentHangs(d)
            BY Zenon, <3>3 DEF AgentHangs, RelocksAgent, agentVars
        <3> QED
            BY Zenon, <1>7, <3>1, <3>2, <3>3
    <2>3. CASE c = d
        <3>1. \/ /\ ~is_done[c]
                 /\ stream'[c] = Append(stream[c], Update(notifying.id, TRUE))
                 /\ \/ last_enqueued'[c] = notifying.id
                    \/ last_enqueued'[c] = last_enqueued[c] /\ c \in hung'
              \/ is_done[c] /\ stream'[c] = stream[c] /\ last_enqueued'[c] = notifying.id
            BY Zenon, <1>0, <2>2, <2>3
        <3> QED
            BY Zenon, <1>6, <2>1, <2>3, <3>1 DEF SendsNews
    <2>4. CASE c # d
        BY Zenon, <1>0, <2>1, <2>2, <2>4 DEF Rests, Keeps
    <2> QED
        BY <2>3, <2>4
<1>8. ASSUME NEW d \in Conns, ConnStep(d)
      PROVE  Rests(c) \/ SendsItem(c) \/ SendsNews(c)
    BY Zenon, <1>1, <1>3, <1>4, <1>5, <1>7, <1>8
    DEF ConnStep, OnReadDone, OnReadFails, CheckAgents, AgentOnTransaction, AgentNotStreaming,
        AgentOutOfSync, LockInversion, IterateEnd, OnDone, Housekeeping, LinkBreaks,
        clientVars, agentVars
<1>9. ASSUME NEW f \in Followers, FollowerStep(f) PROVE UNCHANGED <<stream, last_enqueued, scan>>
    BY Zenon, <1>9 DEF FollowerStep, FollowerStart, OnUpdate, SendAck, FollowerStops, clientVars, agentVars
<1>10. CASE PrimaryRestarts
    BY <1>10 DEF PrimaryRestarts, Forgets
<1>11. CASE UNCHANGED vars
    BY <1>1, <1>11 DEF vars, replVars, clientVars, agentVars
<1> QED
    BY Zenon, <1>1, <1>2, <1>8, <1>9, <1>10, <1>11 DEF Next

\* A thread that hangs does so until the primary restarts.
LEMMA HungStays ==
    ASSUME TypeOK, [Next]_vars, NEW c \in Conns
    PROVE  hung \subseteq hung' \/ Forgets(c)
<1>1. ASSUME NEW w \in Writers, CommitStep(w) \/ OnTransaction(w) PROVE hung' = hung
    BY Zenon, <1>1 DEF CommitStep, OnTransaction, replVars, primaryVars
<1>2. ASSUME NEW d \in Conns, AgentHangs(d) \/ LockInversion(d) PROVE hung \subseteq hung'
    BY Zenon, <1>2 DEF AgentHangs, LockInversion
<1>3. ASSUME NEW d \in Conns, ConnStep(d), ~AgentHangs(d), ~LockInversion(d) PROVE hung' = hung
    BY Zenon, <1>3
    DEF ConnStep, OnWriteDone, OnReadDone, OnReadFails, CheckAgents, AgentOnTransaction,
        AgentNotStreaming, AgentEnqueues, AgentIsRefused, AgentOutOfSync, Notified,
        SyncTask, IterateItem, IterateEnd, OnDone, Housekeeping, LinkBreaks, primaryVars
<1>4. ASSUME NEW f \in Followers, FollowerStep(f) PROVE hung' = hung
    BY Zenon, <1>4 DEF FollowerStep, FollowerStart, OnUpdate, SendAck, FollowerStops, primaryVars
<1>5. CASE PrimaryRestarts
    BY <1>5 DEF PrimaryRestarts, Forgets
<1>6. CASE UNCHANGED vars
    BY <1>6 DEF vars, replVars, primaryVars
<1> QED
    BY Zenon, <1>1, <1>2, <1>3, <1>4, <1>5, <1>6 DEF Next

\* Every announced id is larger than the previous one: onTransaction() refuses
\* the others.
LEMMA NewerStep == TypeOK /\ CallbackIsNewer /\ [Next]_vars => CallbackIsNewer'
<1> SUFFICES ASSUME TypeOK, CallbackIsNewer, [Next]_vars PROVE CallbackIsNewer'
    OBVIOUS
<1>0. ASSUME notifying' = notifying PROVE CallbackIsNewer'
    BY <1>0 DEF CallbackIsNewer
<1>1. ASSUME NEW w \in Writers, CommitStep(w) PROVE notifying' = notifying
    BY <1>1 DEF CommitStep, replVars, primaryVars
<1>2. ASSUME NEW w \in Writers, OnTransaction(w) PROVE CallbackIsNewer'
    <2>1. last_trxid \in Nat /\ replication_id[w] \in Nat
        BY MaxTrxIdAssumption DEF TypeOK, PrimaryOK, CommitTypeOK, Id0
    <2>2. \/ notifying' = notifying
          \/ /\ ~IsOld(replication_id[w])
             /\ notifying'.prev = last_trxid /\ notifying'.id = replication_id[w]
        BY <1>2 DEF OnTransaction
    <2> QED
        BY <1>0, <2>1, <2>2 DEF IsOld, CallbackIsNewer
<1>3. ASSUME NEW c \in Conns, Notifying(c), Notified(c) PROVE CallbackIsNewer'
    <2>1. notifying \in Notifications
        BY <1>3 DEF Notifying, TypeOK, PrimaryOK
    <2>2. notifying' = Idle \/ (notifying'.prev = notifying.prev /\ notifying'.id = notifying.id)
        BY <1>3, <2>1 DEF Notified, Notifications
    <2> QED
        BY <1>3, <2>2 DEF Notifying, CallbackIsNewer
<1>4. ASSUME NEW c \in Conns, ConnStep(c)
      PROVE  notifying' = notifying \/ (Notifying(c) /\ Notified(c))
    BY Zenon, <1>4
    DEF ConnStep, OnWriteDone, OnReadDone, OnReadFails, CheckAgents, AgentOnTransaction,
        AgentNotStreaming, AgentEnqueues, AgentIsRefused, AgentOutOfSync, AgentHangs, LockInversion,
        SyncTask, IterateItem, IterateEnd, OnDone, Housekeeping, LinkBreaks, primaryVars
<1>5. ASSUME NEW f \in Followers, FollowerStep(f) PROVE notifying' = notifying
    BY Zenon, <1>5 DEF FollowerStep, FollowerStart, OnUpdate, SendAck, FollowerStops, primaryVars
<1>6. CASE PrimaryRestarts
    BY Zenon, <1>6 DEF PrimaryRestarts, CallbackIsNewer
<1>7. CASE UNCHANGED vars
    BY <1>0, <1>7 DEF vars, replVars, primaryVars
<1> QED
    BY Zenon, <1>0, <1>1, <1>2, <1>3, <1>4, <1>5, <1>6, <1>7 DEF Next

\* iterateDb() runs only while the agent is not STREAMING, and has a snapshot
\* only while it runs.
LEMMA IteratesStep ==
    ASSUME TypeOK, NEW c \in Conns, Iterates(c), [Next]_vars
    PROVE  Iterates(c)'
<1>0. /\ state \in [Conns -> AgentStates] /\ iterating \in [Conns -> BOOLEAN]
      /\ scan \in [Conns -> SUBSET Ids]
    BY DEF TypeOK, AgentOK
<1>1. ASSUME UNCHANGED <<state, iterating, scan>> PROVE Iterates(c)'
    BY Zenon, <1>1 DEF Iterates
<1>2. ASSUME NEW w \in Writers, CommitStep(w) \/ OnTransaction(w)
      PROVE  UNCHANGED <<state, iterating, scan>>
    BY Zenon, <1>2 DEF CommitStep, OnTransaction, replVars, agentVars
<1>3. ASSUME NEW d \in Conns, NEW s \in AgentStates \ {"STREAMING"},
             UNCHANGED <<iterating, scan>>, state' = [state EXCEPT ![d] = s]
      PROVE  Iterates(c)'
    BY <1>0, <1>3 DEF Iterates
<1>4. ASSUME NEW d \in Conns, OnReadDone(d) PROVE Iterates(c)'
    <2>1. state' = state \/ state' = [state EXCEPT ![d] = "ITERATING_DB"]
        BY Zenon, <1>0, <1>4 DEF OnReadDone
    <2>2. UNCHANGED <<iterating, scan>> /\ "ITERATING_DB" \in AgentStates \ {"STREAMING"}
        BY <1>4 DEF OnReadDone, AgentStates
    <2> QED
        BY Zenon, <1>1, <1>3, <2>1, <2>2
<1>5. ASSUME NEW d \in Conns, AgentEnqueues(d) \/ AgentIsRefused(d) \/ AgentOutOfSync(d)
      PROVE  Iterates(c)'
    <2>1. state' = state \/ state' = [state EXCEPT ![d] = "ITERATING_DB"]
        BY Zenon, <1>0, <1>5 DEF AgentEnqueues, AgentIsRefused, AgentOutOfSync
    <2>2. UNCHANGED <<iterating, scan>> /\ "ITERATING_DB" \in AgentStates \ {"STREAMING"}
        BY Zenon, <1>5 DEF AgentEnqueues, AgentIsRefused, AgentOutOfSync, AgentStates
    <2> QED
        BY Zenon, <1>1, <1>3, <2>1, <2>2
<1>6. ASSUME NEW d \in Conns, OnDone(d) \/ Housekeeping(d) PROVE Iterates(c)'
    <2>1. \E s \in {"DONE", "NONE"} : state' = [state EXCEPT ![d] = s]
        BY Zenon, <1>6 DEF OnDone, Housekeeping
    <2>2. UNCHANGED <<iterating, scan>> /\ {"DONE", "NONE"} \subseteq AgentStates \ {"STREAMING"}
        BY <1>6 DEF OnDone, Housekeeping, AgentStates
    <2> QED
        BY Zenon, <1>3, <2>1, <2>2
<1>7. ASSUME NEW d \in Conns, SyncTask(d) PROVE Iterates(c)'
    <2>1. \/ UNCHANGED <<state, iterating, scan>>
          \/ /\ state[d] = "ITERATING_DB" /\ state' = state
             /\ iterating' = [iterating EXCEPT ![d] = TRUE]
             /\ scan' = [scan EXCEPT ![d] = IterateFromPrev(last_enqueued[d])]
        BY Zenon, <1>7 DEF SyncTask
    <2> QED
        BY <1>0, <1>1, <2>1 DEF Iterates
<1>8. ASSUME NEW d \in Conns, IterateItem(d) PROVE Iterates(c)'
    <2>1. \/ iterating' = [iterating EXCEPT ![d] = TRUE]
          \/ /\ iterating' = [iterating EXCEPT ![d] = FALSE]
             /\ scan' = [scan EXCEPT ![d] = {}]
        BY Zenon, <1>8 DEF IterateItem
    <2>2. iterating[d] /\ state' = state /\ \A e \in Conns \ {d} : scan'[e] = scan[e]
        BY <1>0, <1>8 DEF IterateItem
    <2> QED
        BY <1>0, <2>1, <2>2 DEF Iterates
<1>9. ASSUME NEW d \in Conns, IterateEnd(d) PROVE Iterates(c)'
    <2>1. /\ iterating' = [iterating EXCEPT ![d] = FALSE] /\ scan' = scan /\ scan[d] = {}
          /\ \A e \in Conns \ {d} : state'[e] = state[e]
        BY <1>0, <1>9 DEF IterateEnd
    <2> QED
        BY <1>0, <2>1 DEF Iterates
<1>10. ASSUME NEW d \in Conns, ConnStep(d) PROVE Iterates(c)'
    BY Zenon, <1>1, <1>4, <1>5, <1>6, <1>7, <1>8, <1>9, <1>10
    DEF ConnStep, OnWriteDone, OnReadFails, CheckAgents, AgentOnTransaction, AgentNotStreaming,
        AgentHangs, LockInversion, LinkBreaks, agentVars
<1>11. ASSUME NEW f \in Followers, FollowerStep(f) PROVE UNCHANGED <<state, iterating, scan>>
    BY Zenon, <1>11 DEF FollowerStep, FollowerStart, OnUpdate, SendAck, FollowerStops, agentVars
<1>12. CASE PrimaryRestarts
    BY <1>12 DEF PrimaryRestarts, Iterates
<1>13. CASE UNCHANGED vars
    BY Zenon, <1>1, <1>13 DEF vars, replVars, agentVars
<1> QED
    BY Zenon, <1>1, <1>2, <1>10, <1>11, <1>12, <1>13 DEF Next

-----------------------------------------------------------------------------
(* Each of the four moves keeps the order.                                 *)

\* Ids are numbers, and what is on a stream, in a snapshot or announced was
\* committed before this step.
LEMMA IdsAreCommitted ==
    ASSUME FedInv, NEW c \in Conns
    PROVE  /\ Committed \subseteq Nat
           /\ stream[c] \in Seq(Updates) /\ last_enqueued[c] \in Nat /\ scan[c] \subseteq Committed
           /\ \A m \in DOMAIN stream[c] : stream[c][m].id \in Committed
  BY MaxTrxIdAssumption
  DEF FedInv, TypeOK, CommitTypeOK, Committed, ClientOK, AgentOK, Id0, StreamFromLog, ScanFromLog

\* The snapshot stays ahead of last_enqueued and closed.
LEMMA ScanStep ==
    ASSUME OrderInv, FedInv', [Next]_vars, NEW c \in Conns
    PROVE  ScanIsAhead(c)' /\ ScanIsClosed(c)'
<1>1. /\ FedInv /\ TypeOK /\ CommitInv /\ CallbackIsNewer
      /\ Iterates(c) /\ ScanIsAhead(c) /\ ScanIsClosed(c)
    BY Zenon DEF OrderInv, ConnInOrder, FedInv
<1>2. Committed \subseteq Nat /\ last_enqueued[c] \in Nat /\ scan[c] \subseteq Committed
    BY <1>1, IdsAreCommitted
<1>3. Committed' \subseteq Nat
    BY MaxTrxIdAssumption DEF FedInv, TypeOK, CommitTypeOK, Committed
<1>4. /\ \A a, b : OrderedIn(log, a, b) => OrderedIn(log', a, b)
      /\ \A a \in Committed, b \in Committed' \ Committed : OrderedIn(log', a, b)
    BY Zenon, <1>1, CommitPart, CommitOrderKept
<1>5. ASSUME scan'[c] = {} PROVE ScanIsAhead(c)' /\ ScanIsClosed(c)'
    BY Zenon, <1>5 DEF ScanIsAhead, ScanIsClosed
<1>6. CASE Rests(c)
    <2>1. ASSUME scan'[c] = scan[c] PROVE ScanIsAhead(c)' /\ ScanIsClosed(c)'
        BY Zenon, <1>1, <1>2, <1>4, <1>6, <2>1 DEF Rests, Keeps, ScanIsAhead, ScanIsClosed
    <2>2. ASSUME scan'[c] = IterateFromPrev(last_enqueued[c]) PROVE ScanIsAhead(c)' /\ ScanIsClosed(c)'
        BY Zenon, <1>2, <1>4, <1>6, <2>2 DEF Rests, Keeps, ScanIsAhead, ScanIsClosed, IterateFromPrev
    <2> QED
        BY <1>5, <1>6, <2>1, <2>2 DEF Rests
<1>7. CASE SendsItem(c)
    <2>1. PICK i \in scan[c] :
            /\ \A j \in scan[c] : i <= j
            /\ \/ last_enqueued'[c] = i /\ scan'[c] = scan[c] \ {i}
               \/ scan'[c] = {}
        BY Zenon, <1>7 DEF SendsItem
    <2>2. ASSUME last_enqueued'[c] = i, scan'[c] = scan[c] \ {i}
          PROVE  ScanIsAhead(c)' /\ ScanIsClosed(c)'
        <3>1. i \in Nat /\ last_enqueued[c] < i /\ scan[c] \subseteq Nat
            BY Zenon, <1>1, <1>2, <2>1 DEF ScanIsAhead
        <3>2. ScanIsAhead(c)'
            BY <2>1, <2>2, <3>1 DEF ScanIsAhead
        <3>3. ASSUME NEW k \in scan'[c], NEW j \in Committed' \ scan'[c],
                     last_enqueued'[c] < j, j < k
              PROVE  OrderedIn(log', k, j)
            <4>0. j \in Nat /\ k \in scan[c] /\ i < j
                BY <1>3, <2>2, <3>3
            <4>1. k \in scan[c] /\ j \notin scan[c] /\ last_enqueued[c] < j
                <5>1. j # i /\ last_enqueued[c] < j
                    BY <1>2, <3>1, <4>0
                <5> QED
                    BY <2>2, <3>3, <4>0, <5>1
            <4>2. CASE j \in Committed
                BY <1>1, <1>4, <3>3, <4>1, <4>2 DEF ScanIsClosed
            <4>3. CASE j \notin Committed
                BY Zenon, <1>2, <1>4, <4>1, <4>3
            <4> QED
                BY <4>2, <4>3
        <3> QED
            BY <3>2, <3>3 DEF ScanIsClosed
    <2> QED
        BY <1>5, <2>1, <2>2
<1>8. CASE SendsNews(c)
    <2>1. scan[c] = {}
        BY Zenon, <1>1, <1>8 DEF SendsNews, InStep, Iterates
    <2> QED
        BY <1>5, <1>8, <2>1 DEF SendsNews
<1>9. CASE Forgets(c)
    BY <1>5, <1>9 DEF Forgets
<1> QED
    BY <1>1, <1>6, <1>7, <1>8, <1>9, StreamMoves

\* What is sent next is in order, and so is what remains to be sent.
LEMMA SentStep ==
    ASSUME OrderInv, FedInv', [Next]_vars, NEW c \in Conns
    PROVE  PositionIsClosed(c)' /\ StreamInOrder(c)'
<1>1. /\ FedInv /\ TypeOK /\ CommitInv /\ CallbackIsNewer
      /\ ScanIsAhead(c) /\ ScanIsClosed(c) /\ PositionIsClosed(c) /\ StreamInOrder(c)
    BY Zenon DEF OrderInv, ConnInOrder, FedInv
<1>2. /\ Committed \subseteq Nat /\ last_enqueued[c] \in Nat /\ scan[c] \subseteq Committed
      /\ stream[c] \in Seq(Updates) /\ \A m \in DOMAIN stream[c] : stream[c][m].id \in Committed
    BY <1>1, IdsAreCommitted
<1>3. Committed' \subseteq Nat
    BY MaxTrxIdAssumption DEF FedInv, TypeOK, CommitTypeOK, Committed
<1>4. /\ \A a, b : OrderedIn(log, a, b) => OrderedIn(log', a, b)
      /\ \A a \in Committed, b \in Committed' \ Committed : OrderedIn(log', a, b)
    BY <1>1, CommitPart, CommitOrderKept
\* What was on the stream, against what remains after the step.
<1>5. ASSUME c \notin hung, last_enqueued'[c] \in Nat, last_enqueued[c] <= last_enqueued'[c],
             NEW m \in DOMAIN stream[c], NEW j \in Committed',
             last_enqueued'[c] < j, j < stream[c][m].id
      PROVE  OrderedIn(log', stream[c][m].id, j)
    <2>1. last_enqueued[c] < j
        BY <1>2, <1>3, <1>5
    <2>2. CASE j \in Committed
        BY Zenon, <1>1, <1>4, <1>5, <2>1, <2>2 DEF PositionIsClosed
    <2>3. CASE j \notin Committed
        BY ZenonT(30), <1>2, <1>4, <2>3
    <2> QED
        BY Zenon, <2>2, <2>3
<1>6. ASSUME stream'[c] = stream[c], hung \subseteq hung',
             last_enqueued'[c] \in Nat, last_enqueued[c] <= last_enqueued'[c]
      PROVE  PositionIsClosed(c)' /\ StreamInOrder(c)'
    BY ZenonT(30), <1>1, <1>4, <1>5, <1>6 DEF PositionIsClosed, StreamInOrder
\* One update is added whose id is beyond the position.
<1>7. ASSUME c \notin hung, NEW u \in Updates, u.id \in Committed, last_enqueued[c] < u.id,
             stream'[c] = Append(stream[c], u)
      PROVE  StreamInOrder(c)'
    <2>1. ASSUME NEW m \in DOMAIN stream'[c], NEW n \in DOMAIN stream'[c], m < n,
                 stream'[c][m].id > stream'[c][n].id
          PROVE  OrderedIn(log', stream'[c][m].id, stream'[c][n].id)
        <3>1. m \in DOMAIN stream[c] /\ stream'[c][m] = stream[c][m]
            BY Zenon, <1>2, <1>7, <2>1, StreamPlaces
        <3>2. \/ n \in DOMAIN stream[c] /\ stream'[c][n] = stream[c][n]
              \/ stream'[c][n] = u
            BY ZenonT(30), <1>2, <1>7, StreamPlaces
        <3>3. CASE n \in DOMAIN stream[c] /\ stream'[c][n] = stream[c][n]
            BY <1>1, <1>4, <2>1, <3>1, <3>3 DEF StreamInOrder
        <3>4. CASE stream'[c][n] = u
            <4>1. u.id \in Nat /\ stream[c][m].id \in Nat /\ u.id < stream[c][m].id
                BY Zenon, <1>2, <1>7, <2>1, <3>1, <3>4
            <4>2. OrderedIn(log, stream[c][m].id, u.id)
                BY <1>1, <1>7, <3>1, <4>1 DEF PositionIsClosed
            <4> QED
                BY <1>4, <3>1, <3>4, <4>2
        <3> QED
            BY Zenon, <3>2, <3>3, <3>4
    <2> QED
        BY Zenon, <2>1 DEF StreamInOrder
\* It is the position afterwards, or all that is passed over was committed later.
<1>8. ASSUME c \notin hung, NEW u \in Updates, u.id \in Committed, last_enqueued[c] < u.id,
             stream'[c] = Append(stream[c], u),
             \/ last_enqueued'[c] = u.id
             \/ /\ last_enqueued'[c] = last_enqueued[c]
                /\ \A j \in Committed' : last_enqueued[c] < j /\ j < u.id => OrderedIn(log', u.id, j)
      PROVE  PositionIsClosed(c)'
    <2>0. last_enqueued'[c] \in Nat /\ last_enqueued[c] <= last_enqueued'[c] /\ u.id \in Nat
        <3>1. u.id \in Nat /\ last_enqueued[c] \in Nat
            BY Zenon, <1>2, <1>8
        <3> QED
            BY <1>8, <3>1
    <2>1. ASSUME NEW m \in DOMAIN stream'[c], NEW j \in Committed',
                 last_enqueued'[c] < j, j < stream'[c][m].id
          PROVE  OrderedIn(log', stream'[c][m].id, j)
        <3>1. \/ m \in DOMAIN stream[c] /\ stream'[c][m] = stream[c][m]
              \/ stream'[c][m] = u
            BY Zenon, <1>2, <1>8, StreamPlaces
        <3>2. CASE m \in DOMAIN stream[c] /\ stream'[c][m] = stream[c][m]
            <4>1. j < stream[c][m].id
                BY Zenon, <2>1, <3>2
            <4> QED
                BY Zenon, <1>5, <1>8, <2>0, <2>1, <3>2, <4>1
        <3>3. CASE stream'[c][m] = u
            <4>1. j < u.id /\ j \in Nat
                BY Zenon, <1>3, <2>1, <3>3
            <4>2. last_enqueued'[c] # u.id
                BY <2>0, <2>1, <4>1
            <4> QED
                BY Zenon, <1>8, <2>1, <3>3, <4>1, <4>2
        <3> QED
            BY <3>1, <3>2, <3>3
    <2> QED
        BY Zenon, <2>1 DEF PositionIsClosed
<1>9. CASE Forgets(c)
    BY <1>9 DEF Forgets, PositionIsClosed, StreamInOrder
<1>10. CASE hung \subseteq hung' /\ Rests(c)
    BY <1>2, <1>6, <1>10 DEF Rests, Keeps
<1>11. CASE SendsItem(c)
    <2>1. PICK u \in Updates :
            /\ u.id \in scan[c] /\ \A j \in scan[c] : u.id <= j
            /\ stream'[c] = Append(stream[c], u)
            /\ last_enqueued'[c] = u.id \/ last_enqueued'[c] = last_enqueued[c]
        BY Zenon, <1>11 DEF SendsItem
    <2>2. c \notin hung /\ u.id \in Committed /\ last_enqueued[c] < u.id
        BY <1>1, <1>2, <1>11, <2>1 DEF SendsItem, ScanIsAhead
    <2>3. ASSUME NEW j \in Committed', last_enqueued[c] < j, j < u.id
          PROVE  OrderedIn(log', u.id, j)
        <3>1. j \notin scan[c]
            <4>1. j \in Nat /\ u.id \in Nat
                BY Zenon, <1>2, <1>3, <2>2
            <4> QED
                BY <2>1, <2>3, <4>1
        <3>2. CASE j \in Committed
            BY Zenon, <1>1, <1>4, <2>1, <2>3, <3>1, <3>2 DEF ScanIsClosed
        <3>3. CASE j \notin Committed
            BY Zenon, <1>4, <2>2, <3>3
        <3> QED
            BY Zenon, <3>2, <3>3
    <2> QED
        BY <1>7, <1>8, <2>1, <2>2, <2>3
<1>12. CASE hung \subseteq hung' /\ SendsNews(c)
    <2>1. /\ c \notin hung /\ notifying.id \in Committed /\ last_enqueued[c] < notifying.id
        BY Zenon, <1>1, <1>12 DEF SendsNews, Notifying, InStep, CallbackIsNewer, FedInv, CallbackFromLog
    <2>2. ASSUME NEW u \in Updates, u.id = notifying.id, stream'[c] = Append(stream[c], u),
                 last_enqueued'[c] = notifying.id \/ c \in hung'
          PROVE  PositionIsClosed(c)' /\ StreamInOrder(c)'
        <3>1. StreamInOrder(c)'
            BY Zenon, <1>7, <2>1, <2>2
        <3>2. CASE last_enqueued'[c] = notifying.id
            BY Zenon, <1>8, <2>1, <2>2, <3>1, <3>2
        <3>3. CASE c \in hung'
            BY Zenon, <3>1, <3>3 DEF PositionIsClosed
        <3> QED
            BY Zenon, <2>2, <3>2, <3>3
    <2>3. ASSUME stream'[c] = stream[c], last_enqueued'[c] = notifying.id
          PROVE  PositionIsClosed(c)' /\ StreamInOrder(c)'
        <3>1. last_enqueued'[c] \in Nat /\ last_enqueued[c] \in Nat
            BY Zenon, <1>2, <2>1, <2>3
        <3>2. last_enqueued[c] <= last_enqueued'[c]
            BY <2>1, <2>3, <3>1
        <3> QED
            BY <1>6, <1>12, <2>3, <3>1, <3>2
    <2> QED
        BY Zenon, <1>12, <2>2, <2>3 DEF SendsNews
<1> QED
    BY <1>1, <1>9, <1>10, <1>11, <1>12, StreamMoves, HungStays

-----------------------------------------------------------------------------
\* Nothing is sent, scanned or announced at the start.
LEMMA InitOrder == Init => OrderInv
<1> SUFFICES ASSUME Init PROVE OrderInv
    OBVIOUS
<1>1. CallbackIsNewer
    BY DEF Init, CallbackIsNewer
<1>2. ASSUME NEW c \in Conns PROVE ConnInOrder(c)
    BY DEF Init, ConnInOrder, Iterates, ScanIsAhead, ScanIsClosed, PositionIsClosed, StreamInOrder
<1> QED
    BY <1>1, <1>2, InitFed DEF OrderInv

\* Every step keeps the invariant.
LEMMA NextOrder == OrderInv /\ [Next]_vars => OrderInv'
<1> SUFFICES ASSUME OrderInv, [Next]_vars PROVE OrderInv'
    OBVIOUS
<1>1. FedInv /\ TypeOK /\ CallbackIsNewer
    BY DEF OrderInv, FedInv
<1>2. FedInv' /\ CallbackIsNewer'
    BY <1>1, NextFed, NewerStep
<1>3. ASSUME NEW c \in Conns PROVE ConnInOrder(c)'
    <2>1. Iterates(c)'
        BY <1>1, IteratesStep DEF OrderInv, ConnInOrder
    <2> QED
        BY <1>2, <2>1, ScanStep, SentStep DEF ConnInOrder
<1> QED
    BY <1>2, <1>3 DEF OrderInv

\* The inductive invariant: where each agent stands, against the log.
THEOREM OrderInvariance == Spec => []OrderInv
  BY InitOrder, NextOrder, PTL DEF Spec

\* enqueue() from the callback and from iterateDb() together send a larger id
\* before a smaller one only in the order of their commits, also when a full
\* queue makes iterateDb() send an update twice.
THEOREM StreamsFollowCommits == Spec => []StreamRespectsCommitOrder
<1>1. OrderInv => StreamRespectsCommitOrder
    BY DEF OrderInv, ConnInOrder, StreamInOrder, OrderedIn, StreamRespectsCommitOrder, CommittedBefore
<1> QED
    BY <1>1, OrderInvariance, PTL
=============================================================================
