------------------------- MODULE ReplicationProofs -------------------------
(***************************************************************************)
(* Proofs about the transaction log and its ids, for any number of         *)
(* threads, failed commits and restarts; then about replication, for any   *)
(* number of followers, streams and transactions, any queue limit, and any *)
(* number of faults.                                                       *)
(***************************************************************************)
EXTENDS Replication, TLAPS

\* Time for a leaf that names no prover.
USE SMTT(30), ZenonT(30)

IsCommitted(id) == \E i \in DOMAIN log : log[i] = id

\* Ids in the log were handed out.
LogBelowCounter == \A i \in DOMAIN log : log[i] <= trx_id

\* A numbered transaction has an id of its own that is not in the log yet.
NumberedIsFresh ==
    \A w \in Writers : pc[w] = "numbered" =>
        /\ replication_id[w] \in 1..trx_id
        /\ ~IsCommitted(replication_id[w])
        /\ \A v \in Writers :
             pc[v] = "numbered" /\ replication_id[v] = replication_id[w] => v = w

\* What is passed to the transaction callback is in the log.
CallbackIsCommitted ==
    \A w \in Writers : pc[w] = "committed" => IsCommitted(replication_id[w])

\* UniqueIds is not inductive: Commit keeps it only because the id is fresh.
CommitInv ==
    /\ CommitTypeOK /\ LogBelowCounter /\ NumberedIsFresh
    /\ CallbackIsCommitted /\ UniqueIds

-----------------------------------------------------------------------------
\* A commit adds one entry at the end and keeps the others.
LEMMA CommittedKept ==
    ASSUME CommitTypeOK, NEW w \in Writers, Commit(w), replication_id[w] \in 1..MaxTrxId
    PROVE  /\ log' \in Seq(1..MaxTrxId)
           /\ DOMAIN log' = (DOMAIN log) \cup {Len(log) + 1}
           /\ Len(log) + 1 \notin DOMAIN log
           /\ \A i \in DOMAIN log : log'[i] = log[i]
           /\ log'[Len(log) + 1] = replication_id[w]
  BY DEF CommitTypeOK, Commit

\* The empty log satisfies the invariant.
LEMMA CommitInvInit == CommitInit => CommitInv
  BY MaxTrxIdAssumption
  DEF CommitInit, CommitInv, CommitTypeOK, PcStates, LogBelowCounter, NumberedIsFresh,
      CallbackIsCommitted, UniqueIds

\* Every step keeps the invariant; a commit does because its id is fresh.
LEMMA CommitInvStep == CommitInv /\ [CommitNext]_commitVars => CommitInv'
<1> SUFFICES ASSUME CommitInv, [CommitNext]_commitVars PROVE CommitInv'
    OBVIOUS
<1> USE MaxTrxIdAssumption
    DEF CommitInv, CommitTypeOK, PcStates, LogBelowCounter, NumberedIsFresh,
        CallbackIsCommitted, IsCommitted, UniqueIds
<1>0. \A i \in DOMAIN log : log[i] \in Nat /\ log[i] \in 1..MaxTrxId
    OBVIOUS
<1>1. ASSUME NEW w \in Writers, AssignId(w) PROVE CommitInv'
    BY <1>0, <1>1 DEF AssignId
<1>2. ASSUME NEW w \in Writers, Commit(w) PROVE CommitInv'
    <2>1. pc[w] = "numbered" /\ replication_id[w] \in 1..MaxTrxId /\ replication_id[w] \in 1..trx_id
        BY <1>2 DEF Commit
    <2>2. /\ log' \in Seq(1..MaxTrxId)
          /\ DOMAIN log' = (DOMAIN log) \cup {Len(log) + 1}
          /\ Len(log) + 1 \notin DOMAIN log
          /\ \A i \in DOMAIN log : log'[i] = log[i]
          /\ log'[Len(log) + 1] = replication_id[w]
        BY Zenon, <1>2, <2>1, CommittedKept
    <2>3. /\ pc' = [pc EXCEPT ![w] = "committed"]
          /\ UNCHANGED <<trx_id, replication_id>>
        BY <1>2 DEF Commit
    <2>4. CommitTypeOK' /\ LogBelowCounter'
        BY <2>1, <2>2, <2>3
    <2>5. NumberedIsFresh'
        BY <2>1, <2>2, <2>3
    <2>6. CallbackIsCommitted'
        BY <2>1, <2>2, <2>3
    <2>7. UniqueIds'
        BY <2>1, <2>2, <2>3
    <2> QED
        BY <2>4, <2>5, <2>6, <2>7
<1>3. ASSUME NEW w \in Writers, CommitFails(w) PROVE CommitInv'
    BY <1>3 DEF CommitFails
<1>4. ASSUME NEW w \in Writers, CallbackReturns(w) PROVE CommitInv'
    BY <1>4 DEF CallbackReturns
<1>5. CASE Restart
    BY <1>0, <1>5 DEF Restart
<1>6. CASE UNCHANGED commitVars
    BY <1>6 DEF commitVars
<1> QED
    BY Zenon, <1>1, <1>2, <1>3, <1>4, <1>5, <1>6 DEF CommitNext

\* The inductive invariant: ids in the log were handed out, a numbered
\* transaction's id is its own, a callback's id is in the log.
THEOREM CommitInvariance == CommitSpec => []CommitInv
  BY CommitInvInit, CommitInvStep, PTL DEF CommitSpec

\* No entry of the transaction log is overwritten by another transaction:
\* the ids are distinct, whatever fails or restarts.
THEOREM IdsAreUnique == CommitSpec => []UniqueIds
<1>1. CommitInv => UniqueIds
    BY DEF CommitInv
<1> QED
    BY <1>1, CommitInvariance, PTL

-----------------------------------------------------------------------------
\* A step of Replication is a step of CommitLog or leaves the log alone.
LEMMA CommitPart == TypeOK /\ [Next]_vars => [CommitNext]_commitVars
<1> SUFFICES ASSUME TypeOK, [Next]_vars PROVE [CommitNext]_commitVars
    OBVIOUS
<1> USE DEF CommitNext
<1>1. ASSUME NEW w \in Writers, CommitStep(w) PROVE CommitNext
    BY <1>1 DEF CommitStep
<1>2. ASSUME NEW w \in Writers, OnTransaction(w) PROVE [CommitNext]_commitVars
    BY <1>2 DEF OnTransaction
<1>3. ASSUME NEW c \in Conns, ConnStep(c) PROVE [CommitNext]_commitVars
    <2>1. ASSUME Notifying(c), Notified(c) PROVE [CommitNext]_commitVars
        <3>1. notifying.writer \in Writers
            BY <2>1 DEF Notifying, TypeOK, PrimaryOK, Notifications
        <3> QED
            BY <2>1, <3>1 DEF Notified
    <2>2. CASE AgentOnTransaction(c)
        BY Zenon, <2>1, <2>2 DEF AgentOnTransaction, AgentNotStreaming, AgentEnqueues, AgentIsRefused,
            AgentOutOfSync, AgentHangs, LockInversion
    <2>3. CASE ~AgentOnTransaction(c)
        BY ZenonT(30), <1>3, <2>3 DEF ConnStep, OnWriteDone, OnReadDone, OnReadFails, CheckAgents, SyncTask,
            IterateItem, IterateEnd, OnDone, Housekeeping, LinkBreaks
    <2> QED
        BY <2>2, <2>3
<1>4. ASSUME NEW f \in Followers, FollowerStep(f) PROVE UNCHANGED commitVars
    BY ZenonT(30), <1>4 DEF FollowerStep, FollowerStart, OnUpdate, SendAck, FollowerStops
<1>5. CASE PrimaryRestarts
    BY <1>5 DEF PrimaryRestarts
<1>6. CASE UNCHANGED vars
    BY <1>6 DEF vars
<1> QED
    BY <1>1, <1>2, <1>3, <1>4, <1>5, <1>6 DEF Next

\* What is committed stays committed.
LEMMA CommittedGrows ==
    CommitInv /\ [CommitNext]_commitVars => Committed \subseteq Committed'
<1> SUFFICES ASSUME CommitInv, [CommitNext]_commitVars PROVE Committed \subseteq Committed'
    OBVIOUS
<1>1. CASE log' = log
    BY <1>1 DEF Committed
<1>2. ASSUME NEW w \in Writers, Commit(w) PROVE Committed \subseteq Committed'
    <2>1. replication_id[w] \in 1..MaxTrxId
        BY <1>2 DEF Commit, CommitInv, NumberedIsFresh, CommitTypeOK
    <2>2. /\ DOMAIN log \subseteq DOMAIN log'
          /\ \A i \in DOMAIN log : log'[i] = log[i]
        BY <1>2, <2>1, CommittedKept DEF CommitInv
    <2> QED
        BY <2>2 DEF Committed
<1> QED
    BY <1>1, <1>2 DEF CommitNext, AssignId, CommitFails, CallbackReturns, Restart, commitVars

-----------------------------------------------------------------------------
(* Type correctness.                                                       *)

\* A step keeps the types of the variables it leaves alone.
LEMMA UnchangedOK ==
    /\ PrimaryOK /\ UNCHANGED primaryVars => PrimaryOK'
    /\ AgentOK /\ UNCHANGED agentVars => AgentOK'
    /\ ClientOK /\ UNCHANGED clientVars => ClientOK'
    /\ NetOK /\ UNCHANGED netVars => NetOK'
    /\ PositionsOK /\ UNCHANGED <<stream, sent, received>> => PositionsOK'
    /\ FollowerOK /\ UNCHANGED followerVars => FollowerOK'
    /\ BoundOK /\ UNCHANGED boundVars => BoundOK'
<1>1. PrimaryOK /\ UNCHANGED primaryVars => PrimaryOK'
    BY Zenon DEF PrimaryOK, primaryVars
<1>2. AgentOK /\ UNCHANGED agentVars => AgentOK'
    BY Zenon DEF AgentOK, agentVars
<1>3. ClientOK /\ UNCHANGED clientVars => ClientOK'
    BY Zenon DEF ClientOK, clientVars
<1>4. NetOK /\ UNCHANGED netVars => NetOK'
    BY Zenon DEF NetOK, netVars
<1>5. PositionsOK /\ UNCHANGED <<stream, sent, received>> => PositionsOK'
    BY Zenon DEF PositionsOK
<1>6. FollowerOK /\ UNCHANGED followerVars => FollowerOK'
    BY Zenon DEF FollowerOK, followerVars
<1>7. BoundOK /\ UNCHANGED boundVars => BoundOK'
    BY Zenon DEF BoundOK, boundVars
<1> QED
    BY <1>1, <1>2, <1>3, <1>4, <1>5, <1>6, <1>7

\* What flush() does to the queue of c, given a longer or the same queue.
LEMMA FlushType ==
    ASSUME AgentOK, ClientOK, NetOK, PositionsOK,
           NEW c \in Conns, NEW q \in Seq(Updates),
           Len(stream[c]) <= Len(q), NEW busy \in BOOLEAN, Flush(c, q, busy), received' = received
    PROVE  ClientOK' /\ PositionsOK' /\ posted' \in [Conns -> Nat]
<1> DEFINE starts == CanStart(c, q, busy)
<1>1. starts \in BOOLEAN /\ (starts \/ busy) \in BOOLEAN
    BY DEF CanStart
<1>2. current' = [current EXCEPT ![c] = starts \/ busy]
      /\ has_written' = [has_written EXCEPT ![c] = starts]
    BY Zenon DEF Flush
<1>3. current' \in [Conns -> BOOLEAN] /\ has_written' \in [Conns -> BOOLEAN]
    BY <1>1, <1>2 DEF ClientOK
<1>4. stream' = [stream EXCEPT ![c] = q] /\ UNCHANGED is_done
    BY Zenon DEF Flush
<1>5. sent' = [sent EXCEPT ![c] = IF starts THEN @ + 1 ELSE @]
    BY DEF Flush
<1>6. \A d \in Conns : /\ received[d] \in Nat /\ sent[d] \in Nat /\ Len(stream[d]) \in Nat
                       /\ received[d] <= sent[d] /\ sent[d] <= Len(stream[d])
    BY DEF ClientOK, NetOK, PositionsOK
<1>7. Len(q) \in Nat
    OBVIOUS
<1>8. starts => sent[c] < Len(q)
    BY <1>6, <1>7 DEF CanStart
<1>9. stream' \in [Conns -> Seq(Updates)]
    BY <1>4 DEF ClientOK
<1> HIDE DEF starts
<1>10. sent' \in [Conns -> Nat]
    BY <1>5, <1>6 DEF ClientOK
<1>11. ASSUME NEW d \in Conns PROVE received'[d] <= sent'[d] /\ sent'[d] <= Len(stream'[d])
    <2>1. CASE d = c
        BY <2>1, <1>4, <1>5, <1>6, <1>7, <1>8 DEF ClientOK
    <2>2. CASE d # c
        BY Zenon, <2>2, <1>4, <1>5, <1>6 DEF ClientOK
    <2> QED
        BY <2>1, <2>2
<1>12. posted' \in [Conns -> Nat]
    BY DEF Flush, AgentOK
<1>13. ClientOK'
    BY <1>3, <1>4, <1>9, <1>10, Zenon DEF ClientOK
<1> QED
    BY <1>11, <1>12, <1>13 DEF PositionsOK

\* What is where on a stream after an update was added at its end.
LEMMA StreamGrows ==
    ASSUME NEW c \in Conns, NEW u \in Updates, stream[c] \in Seq(Updates),
           stream'[c] = Append(stream[c], u)
    PROVE  /\ DOMAIN stream'[c] = DOMAIN stream[c] \cup {Len(stream[c]) + 1}
           /\ DOMAIN stream[c] = 1..Len(stream[c]) /\ Len(stream[c]) \in Nat
           /\ \A m \in DOMAIN stream[c] : stream'[c][m] = stream[c][m]
           /\ stream'[c][Len(stream[c]) + 1] = u
OBVIOUS

\* Only its last place is new.
LEMMA StreamPlaces ==
    ASSUME NEW c \in Conns, NEW u \in Updates, stream[c] \in Seq(Updates),
           stream'[c] = Append(stream[c], u), NEW n \in DOMAIN stream'[c]
    PROVE  /\ \/ n \in DOMAIN stream[c] /\ stream'[c][n] = stream[c][n]
              \/ stream'[c][n] = u
           /\ \A m \in DOMAIN stream'[c] : m < n => m \in DOMAIN stream[c] /\ stream'[c][m] = stream[c][m]
OBVIOUS

\* The same for enqueue().
LEMMA EnqueueType ==
    ASSUME AgentOK, ClientOK, NetOK, PositionsOK,
           NEW c \in Conns, NEW u \in Updates, Enqueue(c, u), received' = received
    PROVE  ClientOK' /\ PositionsOK' /\ posted' \in [Conns -> Nat]
<1>1. stream[c] \in Seq(Updates) /\ current[c] \in BOOLEAN
    BY DEF ClientOK
<1>2. Append(stream[c], u) \in Seq(Updates) /\ Len(stream[c]) <= Len(Append(stream[c], u))
    BY <1>1
<1>3. Flush(c, Append(stream[c], u), current[c])
    BY DEF Enqueue
<1> QED
    BY Zenon, <1>1, <1>2, <1>3, FlushType

\* A callback's walk keeps its type, and its id is an id.
LEMMA NotifiedType ==
    ASSUME PrimaryOK, NEW c \in Conns, Notifying(c), Notified(c)
    PROVE  PrimaryOK' /\ notifying.id \in Ids
<1>1. notifying \in Notifications
    BY DEF PrimaryOK, Notifying
<1>2. [notifying EXCEPT !.todo = @ \ {c}] \in Notifications
    BY <1>1 DEF Notifications
<1>3. notifying' \in {Idle} \cup Notifications
    BY <1>2 DEF Notified
<1> QED
    BY <1>1, <1>3 DEF Notified, PrimaryOK, Notifications

\* PrimaryReplication::onTransaction starts a walk over the agents.
LEMMA OnTransactionType ==
    ASSUME PrimaryOK, NEW w \in Writers, replication_id[w] \in Id0, OnTransaction(w)
    PROVE  PrimaryOK'
<1>1. last_trxid \in Id0 /\ Id0 \subseteq Nat /\ Ids = Id0 \ {0}
    BY MaxTrxIdAssumption DEF Ids, Id0, PrimaryOK
<1>2. last_trxid' \in Id0
    BY Zenon, <1>1 DEF OnTransaction
<1>3. UNCHANGED <<min_trx, checking, hung>>
    BY Zenon DEF OnTransaction
<1>4. ~IsOld(replication_id[w]) => replication_id[w] \in Ids
    BY <1>1 DEF IsOld
<1>5. notifying' \in {Idle} \cup Notifications
    BY <1>1, <1>4 DEF OnTransaction, Notifications
<1> QED
    BY Zenon, <1>2, <1>3, <1>5 DEF PrimaryOK

\* A follower reads an update of its stream, and applies it or fails to.
LEMMA OnUpdateType ==
    ASSUME ClientOK, NetOK, PositionsOK, FollowerOK, BoundOK,
           NEW f \in Followers, NEW applies \in BOOLEAN, OnUpdate(f, applies)
    PROVE  NetOK' /\ PositionsOK' /\ FollowerOK' /\ BoundOK'
<1> DEFINE c == conn[f]
           id == stream[c][received'[c]].id
<1>1. /\ c \in Conns /\ received[c] < sent[c] /\ received' = [received EXCEPT ![c] = @ + 1]
      /\ UNCHANGED <<conn, link, acks, acks_left, stream, sent>>
      /\ ack_timer' = [ack_timer EXCEPT ![f] = TRUE]
    BY Zenon DEF OnUpdate, FollowerOK, clientVars
<1>2. \/ /\ applied' = [applied EXCEPT ![f] = applied[f] \cup {id}]
         /\ current_trxid' = [current_trxid EXCEPT ![f] = id]
      \/ UNCHANGED <<applied, current_trxid>>
    BY Zenon DEF OnUpdate, OnTrx
<1>3. faults_left' = faults_left \/ (faults_left > 0 /\ faults_left' = faults_left - 1)
    BY Zenon DEF OnUpdate, Fault
<1> HIDE DEF c
<1>4. stream[c] \in Seq(Updates) /\ received[c] \in Nat /\ sent[c] \in Nat /\ sent[c] <= Len(stream[c])
    BY Zenon, <1>1 DEF ClientOK, NetOK, PositionsOK
<1>5. received'[c] = received[c] + 1
    BY Zenon, <1>1 DEF NetOK
<1>6. received'[c] \in DOMAIN stream[c] /\ received'[c] \in Nat /\ received'[c] <= sent[c]
    BY <1>1, <1>4, <1>5
<1>7. stream[c][received'[c]] \in Updates
    BY <1>4, <1>6
<1>8. id \in Ids
    BY Zenon, <1>7 DEF Updates
<1> HIDE DEF id
<1>9. FollowerOK'
    BY <1>1, <1>2, <1>8 DEF FollowerOK, Ids, Id0
<1>10. BoundOK'
    BY <1>1, <1>3 DEF BoundOK
<1>11. NetOK'
    BY <1>1, <1>5, <1>6 DEF NetOK
<1>12. PositionsOK'
    <2>1. ASSUME NEW d \in Conns PROVE received'[d] <= sent[d]
        BY Zenon, <1>1, <1>6 DEF PositionsOK, NetOK
    <2> QED
        BY Zenon, <1>1, <2>1 DEF PositionsOK
<1> QED
    BY Zenon, <1>9, <1>10, <1>11, <1>12

\* Type correctness of a step, but for the variables of CommitLog.
LEMMA TypeStep == TypeOK /\ CommitTypeOK' /\ [Next]_vars => TypeOK'
<1> SUFFICES ASSUME TypeOK, CommitTypeOK', [Next]_vars PROVE TypeOK'
    OBVIOUS
<1> USE DEF TypeOK
<1>0. /\ Ids \subseteq Id0 /\ 0 \in Id0 /\ Id0 \subseteq Nat /\ Ids = Id0 \ {0}
      /\ Committed \subseteq Ids
      /\ \A w \in Writers : replication_id[w] \in Id0
    BY MaxTrxIdAssumption DEF Ids, Id0, Committed, CommitTypeOK
<1> USE UnchangedOK
<1>1. ASSUME NEW w \in Writers, CommitStep(w) PROVE TypeOK'
    BY Zenon, <1>1 DEF CommitStep, replVars, clientVars, netVars
<1>2. ASSUME NEW w \in Writers, OnTransaction(w) PROVE TypeOK'
    <2>1. PrimaryOK'
        BY ZenonT(30), <1>0, <1>2, OnTransactionType
    <2> QED
        BY Zenon, <1>2, <2>1 DEF OnTransaction, clientVars, netVars
<1>3. ASSUME NEW c \in Conns, OnWriteDone(c) PROVE TypeOK'
    <2>1. stream[c] \in Seq(Updates) /\ Len(stream[c]) <= Len(stream[c])
        BY DEF ClientOK
    <2>2. Flush(c, stream[c], FALSE) /\ received' = received
        BY Zenon, <1>3 DEF OnWriteDone, netVars
    <2>3. ClientOK' /\ PositionsOK' /\ posted' \in [Conns -> Nat]
        BY Zenon, <2>1, <2>2, FlushType
    <2>4. AgentOK'
        BY Zenon, <1>3, <2>3 DEF OnWriteDone, AgentOK
    <2> QED
        BY ZenonT(30), <1>3, <2>3, <2>4 DEF OnWriteDone
<1>4. ASSUME NEW c \in Conns, OnReadDone(c) PROVE TypeOK'
    <2>1. acks[c] \in Seq(Id0) /\ acks[c] # << >>
        BY Zenon, <1>4 DEF OnReadDone, NetOK
    <2>2. Head(acks[c]) \in Id0 /\ Tail(acks[c]) \in Seq(Id0)
        BY <2>1
    <2>3. AgentOK'
        BY <1>4, <2>2 DEF OnReadDone, AgentOK, AgentStates
    <2>4. NetOK'
        BY Zenon, <1>4, <2>2 DEF OnReadDone, NetOK
    <2>5. PrimaryOK'
        BY Zenon, <1>4 DEF OnReadDone, PrimaryOK
    <2> QED
        BY Zenon, <1>4, <2>3, <2>4, <2>5 DEF OnReadDone, clientVars
<1>5. ASSUME NEW c \in Conns, OnReadFails(c) PROVE TypeOK'
    <2>1. ClientOK'
        BY Zenon, <1>5 DEF OnReadFails, ClientOK
    <2> QED
        BY Zenon, <1>5, <2>1 DEF OnReadFails, netVars
<1>6. ASSUME NEW c \in Conns, CheckAgents(c) PROVE TypeOK'
    <2>1. Confirmed \subseteq Id0
        BY Zenon DEF Confirmed, AgentOK
    <2>2. min_trx' \in Id0
        BY Zenon, <1>6, <2>1 DEF CheckAgents, PrimaryOK
    <2>3. PrimaryOK'
        BY ZenonT(30), <1>6, <2>2 DEF CheckAgents, PrimaryOK
    <2> QED
        BY <1>6, <2>3 DEF CheckAgents, clientVars, netVars
<1>7. ASSUME NEW c \in Conns, AgentOnTransaction(c) PROVE TypeOK'
    <2>0. ASSUME Notified(c) PROVE NetOK' /\ FollowerOK' /\ BoundOK' /\ received' = received
        BY <2>0 DEF Notified, netVars
    <2>1. CASE AgentNotStreaming(c)
        <3>1. PrimaryOK'
            BY Zenon, <2>1, NotifiedType DEF AgentNotStreaming
        <3> QED
            BY Zenon, <2>0, <2>1, <3>1 DEF AgentNotStreaming, clientVars
    <2>2. CASE AgentEnqueues(c)
        <3>1. PrimaryOK' /\ notifying.id \in Ids
            BY <2>2, NotifiedType DEF AgentEnqueues
        <3>2. Update(notifying.id, TRUE) \in Updates
            BY <3>1 DEF Update, Updates
        <3>3. Enqueue(c, Update(notifying.id, TRUE)) /\ Notified(c)
            BY Zenon, <2>2 DEF AgentEnqueues
        <3>4. ClientOK' /\ PositionsOK' /\ posted' \in [Conns -> Nat]
            BY Zenon, <2>0, <3>2, <3>3, EnqueueType
        <3>5. AgentOK'
            BY Zenon, <1>0, <2>2, <3>1, <3>4 DEF AgentEnqueues, AgentOK, AgentStates
        <3> QED
            BY Zenon, <2>0, <3>1, <3>3, <3>4, <3>5
    <2>3. CASE AgentIsRefused(c)
        <3>1. PrimaryOK' /\ notifying.id \in Ids
            BY Zenon, <2>3, NotifiedType DEF AgentIsRefused
        <3>2. AgentOK'
            BY Zenon, <1>0, <2>3, <3>1 DEF AgentIsRefused, AgentOK, AgentStates
        <3> QED
            BY <2>0, <2>3, <3>1, <3>2 DEF AgentIsRefused, clientVars
    <2>4. CASE AgentOutOfSync(c)
        <3>1. PrimaryOK'
            BY Zenon, <2>4, NotifiedType DEF AgentOutOfSync
        <3>2. AgentOK'
            BY <2>4 DEF AgentOutOfSync, AgentOK, AgentStates
        <3> QED
            BY <2>0, <2>4, <3>1, <3>2 DEF AgentOutOfSync, clientVars
    <2>5. CASE AgentHangs(c)
        <3> DEFINE u == Update(notifying.id, TRUE)
        <3>1. u \in Updates
            BY Zenon, <2>5 DEF AgentHangs, Notifying, PrimaryOK, Notifications, Update, Updates
        <3>2. stream' = [stream EXCEPT ![c] = Append(stream[c], u)]
              /\ UNCHANGED <<sent, current, has_written, is_done, received>>
            BY Zenon, <2>5 DEF AgentHangs, netVars
        <3> HIDE DEF u
        <3>3. stream[c] \in Seq(Updates)
            BY DEF ClientOK
        <3>4. Append(stream[c], u) \in Seq(Updates) /\ Len(Append(stream[c], u)) = Len(stream[c]) + 1
            BY <3>1, <3>3
        <3>5. ClientOK'
            BY <3>2, <3>4 DEF ClientOK
        <3>6. PositionsOK'
            BY <3>2, <3>3, <3>4 DEF ClientOK, PositionsOK
        <3>7. PrimaryOK'
            BY Zenon, <2>5 DEF AgentHangs, PrimaryOK
        <3> QED
            BY Zenon, <2>5, <3>5, <3>6, <3>7 DEF AgentHangs
    <2>6. CASE LockInversion(c)
        <3>1. ClientOK'
            BY Zenon, <2>6 DEF LockInversion, ClientOK
        <3>2. PrimaryOK'
            BY Zenon, <2>6 DEF LockInversion, PrimaryOK
        <3> QED
            BY Zenon, <2>6, <3>1, <3>2 DEF LockInversion, netVars
    <2> QED
        BY ZenonT(30), <1>7, <2>1, <2>2, <2>3, <2>4, <2>5, <2>6 DEF AgentOnTransaction
<1>8. ASSUME NEW c \in Conns, SyncTask(c) PROVE TypeOK'
    <2>1. IterateFromPrev(last_enqueued[c]) \in SUBSET Ids
        BY Zenon, <1>0 DEF IterateFromPrev
    <2>2. posted' \in [Conns -> Nat] /\ UNCHANGED <<state, last_enqueued, last_confirmed>>
        BY <1>8 DEF SyncTask, AgentOK
    <2>3. iterating' \in [Conns -> BOOLEAN]
        BY Zenon, <1>8 DEF SyncTask, AgentOK
    <2>4. scan' \in [Conns -> SUBSET Ids]
        BY <1>8, <2>1 DEF SyncTask, AgentOK
    <2>5. AgentOK'
        BY <2>2, <2>3, <2>4 DEF AgentOK
    <2> QED
        BY <1>8, <2>5 DEF SyncTask, clientVars, netVars
<1>9. ASSUME NEW c \in Conns, IterateItem(c) PROVE TypeOK'
    <2>1. PICK i \in scan[c] :
            /\ IF is_done[c] THEN UNCHANGED <<clientVars, posted>>
               ELSE Enqueue(c, Update(i, FALSE))
            /\ last_enqueued' = [last_enqueued EXCEPT ![c] = IF ~is_done[c] /\ Fits(c) THEN i ELSE @]
            /\ iterating' = [iterating EXCEPT ![c] = ~is_done[c] /\ Fits(c)]
            /\ scan' = [scan EXCEPT ![c] = IF ~is_done[c] /\ Fits(c) THEN @ \ {i} ELSE {}]
        BY <1>9, Zenon DEF IterateItem
    <2>2. i \in Id0 /\ Update(i, FALSE) \in Updates
        BY <1>0, <2>1 DEF AgentOK, Update, Updates
    <2>3. UNCHANGED <<commitVars, primaryVars, netVars, followerVars, boundVars, state, last_confirmed>>
          /\ received' = received
        BY Zenon, <1>9 DEF IterateItem, netVars
    <2>4. ClientOK' /\ PositionsOK' /\ posted' \in [Conns -> Nat]
        <3>1. CASE is_done[c]
            BY Zenon, <2>1, <2>3, <3>1 DEF AgentOK, clientVars
        <3>2. CASE ~is_done[c]
            BY ZenonT(30), <2>1, <2>2, <2>3, <3>2, EnqueueType
        <3> QED
            BY Zenon, <3>1, <3>2
    <2>5. last_enqueued' \in [Conns -> Id0] /\ scan' \in [Conns -> SUBSET Ids]
        BY <2>1, <2>2 DEF AgentOK
    <2>6. (~is_done[c] /\ Fits(c)) \in BOOLEAN
        BY Zenon
    <2>7. iterating' \in [Conns -> BOOLEAN]
        BY <2>1, <2>6, Zenon DEF AgentOK
    <2>8. AgentOK'
        BY Zenon, <2>3, <2>4, <2>5, <2>7 DEF AgentOK
    <2> QED
        BY Zenon, <2>3, <2>4, <2>8
<1>10. ASSUME NEW c \in Conns, IterateEnd(c) \/ OnDone(c) \/ Housekeeping(c) PROVE TypeOK'
    <2>1. AgentOK'
        BY Zenon, <1>10 DEF IterateEnd, OnDone, Housekeeping, AgentOK, AgentStates
    <2> QED
        BY Zenon, <1>10, <2>1 DEF IterateEnd, OnDone, Housekeeping, clientVars, netVars
<1>11. ASSUME NEW c \in Conns, LinkBreaks(c) PROVE TypeOK'
    <2>1. NetOK' /\ BoundOK'
        BY <1>11 DEF LinkBreaks, Fault, NetOK, BoundOK
    <2> QED
        BY Zenon, <1>11, <2>1 DEF LinkBreaks, clientVars
<1>12. ASSUME NEW f \in Followers, FollowerStart(f) PROVE TypeOK'
    <2>1. PICK c \in Conns, last \in {0} \cup applied[f] :
            /\ conn' = [conn EXCEPT ![f] = c]
            /\ link' = [link EXCEPT ![c] = "up"]
            /\ acks' = [acks EXCEPT ![c] = << last >>]
            /\ current_trxid' = [current_trxid EXCEPT ![f] = last]
        BY Zenon, <1>12 DEF FollowerStart
    <2>2. last \in Id0 /\ << last >> \in Seq(Id0)
        BY <1>0, <2>1 DEF FollowerOK
    <2>3. NetOK'
        BY Zenon, <1>12, <2>1, <2>2 DEF FollowerStart, NetOK
    <2>4. FollowerOK'
        BY Zenon, <1>12, <2>1, <2>2 DEF FollowerStart, FollowerOK
    <2> QED
        BY Zenon, <1>12, <2>3, <2>4 DEF FollowerStart, clientVars
<1>13. ASSUME NEW f \in Followers, NEW applies \in BOOLEAN, OnUpdate(f, applies) PROVE TypeOK'
    <2>1. NetOK' /\ PositionsOK' /\ FollowerOK' /\ BoundOK'
        BY Zenon, <1>13, OnUpdateType
    <2>2. UNCHANGED <<commitVars, agentVars, clientVars, primaryVars>>
        BY Zenon, <1>13 DEF OnUpdate
    <2> QED
        BY Zenon, <2>1, <2>2 DEF clientVars
<1>14. ASSUME NEW f \in Followers, SendAck(f) PROVE TypeOK'
    <2> DEFINE c == conn[f]
    <2>1. /\ c \in Conns
          /\ acks' = [acks EXCEPT ![c] = Append(acks[c], current_trxid[f])]
          /\ acks_left > 0 /\ acks_left' = acks_left - 1
        BY Zenon, <1>14 DEF SendAck, FollowerOK
    <2>2. Append(acks[c], current_trxid[f]) \in Seq(Id0)
        BY <2>1 DEF NetOK, FollowerOK
    <2> HIDE DEF c
    <2>3. NetOK'
        BY <1>14, <2>1, <2>2 DEF SendAck, NetOK
    <2>4. BoundOK'
        BY <1>14, <2>1 DEF SendAck, BoundOK
    <2>5. FollowerOK'
        BY Zenon, <1>14 DEF SendAck, FollowerOK
    <2> QED
        BY <1>14, <2>3, <2>4, <2>5 DEF SendAck, clientVars
<1>15. ASSUME NEW f \in Followers, FollowerStops(f) PROVE TypeOK'
    <2>1. conn[f] \in Conns /\ << >> \in Seq(Id0)
        BY <1>15 DEF FollowerStops, FollowerOK
    <2>3. NetOK'
        BY <1>15, <2>1 DEF FollowerStops, NetOK
    <2>4. BoundOK'
        BY <1>15 DEF FollowerStops, Fault, BoundOK
    <2>2. FollowerOK'
        BY <1>0, <1>15 DEF FollowerStops, FollowerOK
    <2> QED
        BY Zenon, <1>15, <2>2, <2>3, <2>4 DEF FollowerStops, clientVars
<1>16. CASE PrimaryRestarts
    <2>1. PrimaryOK'
        BY Zenon, <1>0, <1>16 DEF PrimaryRestarts, PrimaryOK
    <2>2. AgentOK'
        BY Zenon, <1>0, <1>16 DEF PrimaryRestarts, AgentOK, AgentStates
    <2>3. ClientOK'
        <3>1. \A c \in Conns : (link[c] # "unused") \in BOOLEAN
            BY Zenon
        <3> QED
            BY <1>16, <3>1 DEF PrimaryRestarts, ClientOK
    <2>4. NetOK'
        BY <1>16 DEF PrimaryRestarts, NetOK
    <2>5. PositionsOK'
        BY <1>16 DEF PrimaryRestarts, PositionsOK
    <2>6. BoundOK'
        BY <1>16 DEF PrimaryRestarts, Fault, BoundOK
    <2> QED
        BY <1>16, <2>1, <2>2, <2>3, <2>4, <2>5, <2>6 DEF PrimaryRestarts
<1>17. CASE UNCHANGED vars
    BY <1>17 DEF vars, replVars, clientVars, netVars
<1> QED
    BY Zenon, <1>1, <1>2, <1>3, <1>4, <1>5, <1>6, <1>7, <1>8, <1>9, <1>10, <1>11, <1>12, <1>13, <1>14,
       <1>15, <1>16, <1>17 DEF Next, ConnStep, FollowerStep

-----------------------------------------------------------------------------
(* Followers hold only what the primary committed.                         *)

\* Everything on its way to a follower comes from the committed log.
StreamFromLog == \A c \in Conns : \A n \in DOMAIN stream[c] : stream[c][n].id \in Committed
ScanFromLog == \A c \in Conns : scan[c] \subseteq Committed
CallbackFromLog == notifying # Idle => notifying.id \in Committed

FedInv == /\ TypeOK /\ CommitInv /\ StreamFromLog /\ ScanFromLog /\ CallbackFromLog
          /\ FollowersHoldOnlyCommitted

\* An update is added to a stream by the callback or from the iterator.
Source(c, id) ==
    \/ notifying # Idle /\ id = notifying.id
    \/ id \in scan[c]

\* A stream is left alone, grows by one update that has a source, or is lost at
\* a restart.
LEMMA StreamChanges ==
    ASSUME TypeOK, [Next]_vars
    PROVE  \/ stream' = stream
           \/ \E c \in Conns : \E u \in Updates :
                Source(c, u.id) /\ stream' = [stream EXCEPT ![c] = Append(stream[c], u)]
           \/ stream' = [c \in Conns |-> << >>]
<1> DEFINE Grows == \E c \in Conns : \E u \in Updates :
                Source(c, u.id) /\ stream' = [stream EXCEPT ![c] = Append(stream[c], u)]
<1>1. ASSUME NEW w \in Writers, CommitStep(w) \/ OnTransaction(w) PROVE stream' = stream
    BY Zenon, <1>1 DEF CommitStep, OnTransaction, replVars, clientVars
<1>2. ASSUME NEW c \in Conns, Notifying(c)
      PROVE  /\ Update(notifying.id, TRUE) \in Updates
             /\ Source(c, Update(notifying.id, TRUE).id)
    BY <1>2 DEF Notifying, TypeOK, PrimaryOK, Notifications, Update, Updates, Source
<1>3. ASSUME NEW c \in Conns, AgentEnqueues(c) PROVE Grows
    <2>1. Notifying(c) /\ stream' = [stream EXCEPT ![c] = Append(stream[c], Update(notifying.id, TRUE))]
        BY <1>3 DEF AgentEnqueues, Enqueue, Flush
    <2> QED
        BY Zenon, <1>2, <2>1
<1>4. ASSUME NEW c \in Conns, AgentHangs(c) PROVE Grows
    <2>1. Notifying(c) /\ stream' = [stream EXCEPT ![c] = Append(stream[c], Update(notifying.id, TRUE))]
        BY <1>4 DEF AgentHangs
    <2> QED
        BY Zenon, <1>2, <2>1
<1>5. ASSUME NEW c \in Conns, IterateItem(c) PROVE stream' = stream \/ Grows
    <2>1. PICK i \in scan[c] : IF is_done[c] THEN UNCHANGED <<clientVars, posted>>
                              ELSE Enqueue(c, Update(i, FALSE))
        BY Zenon, <1>5 DEF IterateItem
    <2>2. Update(i, FALSE) \in Updates /\ Source(c, Update(i, FALSE).id)
        BY <2>1 DEF TypeOK, AgentOK, Update, Updates, Source
    <2>3. stream' = stream \/ stream' = [stream EXCEPT ![c] = Append(stream[c], Update(i, FALSE))]
        BY Zenon, <2>1 DEF clientVars, Enqueue, Flush
    <2> QED
        BY Zenon, <2>2, <2>3
<1>6. ASSUME NEW c \in Conns, OnWriteDone(c) PROVE stream' = stream
    BY <1>6 DEF OnWriteDone, Flush, TypeOK, ClientOK
<1>7. ASSUME NEW c \in Conns, ConnStep(c) PROVE stream' = stream \/ Grows
    BY Zenon, <1>3, <1>4, <1>5, <1>6, <1>7
    DEF ConnStep, OnReadDone, OnReadFails, CheckAgents, AgentOnTransaction, AgentNotStreaming,
        AgentIsRefused, AgentOutOfSync, LockInversion, SyncTask, IterateEnd, OnDone, Housekeeping,
        LinkBreaks, clientVars
<1>8. ASSUME NEW f \in Followers, FollowerStep(f) PROVE stream' = stream
    BY Zenon, <1>8 DEF FollowerStep, FollowerStart, OnUpdate, SendAck, FollowerStops, clientVars
<1>9. CASE PrimaryRestarts
    BY <1>9 DEF PrimaryRestarts
<1>10. CASE UNCHANGED vars
    BY <1>10 DEF vars, replVars, clientVars
<1> QED
    BY <1>1, <1>7, <1>8, <1>9, <1>10 DEF Next

\* An iterator's snapshot is taken from the log and then only shrinks.
LEMMA ScanChanges ==
    ASSUME TypeOK, [Next]_vars
    PROVE  \/ \A c \in Conns : scan'[c] \subseteq scan[c]
           \/ \E c \in Conns : scan' = [scan EXCEPT ![c] = IterateFromPrev(last_enqueued[c])]
<1> DEFINE Shrinks == \A c \in Conns : scan'[c] \subseteq scan[c]
<1>1. ASSUME NEW w \in Writers, CommitStep(w) \/ OnTransaction(w) PROVE scan' = scan
    BY Zenon, <1>1 DEF CommitStep, OnTransaction, replVars, agentVars
<1>2. ASSUME NEW c \in Conns, IterateItem(c) PROVE Shrinks
    BY <1>2 DEF IterateItem, TypeOK, AgentOK
<1>3. ASSUME NEW c \in Conns, SyncTask(c)
      PROVE  scan' = scan \/ scan' = [scan EXCEPT ![c] = IterateFromPrev(last_enqueued[c])]
    BY Zenon, <1>3 DEF SyncTask
<1>4. ASSUME NEW c \in Conns, ConnStep(c), ~IterateItem(c), ~SyncTask(c) PROVE scan' = scan
    BY Zenon, <1>4
    DEF ConnStep, OnWriteDone, OnReadDone, OnReadFails, CheckAgents, AgentOnTransaction,
        AgentNotStreaming, AgentEnqueues, AgentIsRefused, AgentOutOfSync, AgentHangs, LockInversion,
        IterateEnd, OnDone, Housekeeping, LinkBreaks, agentVars
<1>5. ASSUME NEW f \in Followers, FollowerStep(f) PROVE scan' = scan
    BY Zenon, <1>5 DEF FollowerStep, FollowerStart, OnUpdate, SendAck, FollowerStops, agentVars
<1>6. CASE PrimaryRestarts
    BY Zenon, <1>6 DEF PrimaryRestarts
<1>7. CASE UNCHANGED vars
    BY ZenonT(30), <1>7 DEF vars, replVars, agentVars
<1> QED
    BY <1>1, <1>2, <1>3, <1>4, <1>5, <1>6, <1>7 DEF Next

\* The callback announces the id its writer has committed, and keeps it.
LEMMA CallbackChanges ==
    ASSUME TypeOK, [Next]_vars
    PROVE  \/ notifying' = Idle \/ notifying' = notifying
           \/ \E w \in Writers : pc[w] = "committed" /\ notifying'.id = replication_id[w]
           \/ notifying # Idle /\ notifying'.id = notifying.id
<1>1. ASSUME NEW w \in Writers, CommitStep(w) PROVE notifying' = notifying
    BY ZenonT(30), <1>1 DEF CommitStep, replVars, primaryVars
<1>2. ASSUME NEW w \in Writers, OnTransaction(w)
      PROVE  notifying' = notifying \/ (pc[w] = "committed" /\ notifying'.id = replication_id[w])
    <2>1. pc[w] = "committed"
        BY Zenon, <1>2 DEF OnTransaction
    <2>2. \/ notifying' = notifying
          \/ \E agents : notifying' = [writer |-> w, prev |-> last_trxid,
                                      id |-> replication_id[w], todo |-> agents]
        BY Zenon, <1>2 DEF OnTransaction
    <2> QED
        BY <2>1, <2>2
<1>3. ASSUME NEW c \in Conns, Notifying(c), Notified(c)
      PROVE  notifying' = Idle \/ (notifying # Idle /\ notifying'.id = notifying.id)
    <2>1. notifying \in Notifications
        BY <1>3 DEF Notifying, TypeOK, PrimaryOK
    <2> QED
        BY <1>3, <2>1 DEF Notifying, Notified, Notifications
<1>4. ASSUME NEW c \in Conns, ConnStep(c)
      PROVE  notifying' = notifying \/ (Notifying(c) /\ Notified(c))
    BY Zenon, <1>4
    DEF ConnStep, OnWriteDone, OnReadDone, OnReadFails, CheckAgents, AgentOnTransaction,
        AgentNotStreaming, AgentEnqueues, AgentIsRefused, AgentOutOfSync, AgentHangs, LockInversion,
        SyncTask, IterateItem, IterateEnd, OnDone, Housekeeping, LinkBreaks, primaryVars
<1>5. ASSUME NEW f \in Followers, FollowerStep(f) PROVE notifying' = notifying
    BY Zenon, <1>5 DEF FollowerStep, FollowerStart, OnUpdate, SendAck, FollowerStops, primaryVars
<1>6. CASE PrimaryRestarts
    BY Zenon, <1>6 DEF PrimaryRestarts
<1>7. CASE UNCHANGED vars
    BY <1>7 DEF vars, replVars, primaryVars
<1> QED
    BY ZenonT(30), <1>1, <1>2, <1>3, <1>4, <1>5, <1>6, <1>7 DEF Next

\* What a follower holds only grows, and only by what it reads from its stream.
LEMMA AppliedChanges ==
    ASSUME TypeOK, [Next]_vars
    PROVE  \A f \in Followers :
             \/ applied'[f] = applied[f]
             \/ \E c \in Conns : \E n \in DOMAIN stream[c] :
                  applied'[f] = applied[f] \cup {stream[c][n].id}
<1>1. ASSUME NEW w \in Writers, CommitStep(w) \/ OnTransaction(w) PROVE applied' = applied
    BY <1>1 DEF CommitStep, OnTransaction, replVars, followerVars
<1>2. ASSUME NEW c \in Conns, ConnStep(c) PROVE applied' = applied
    BY Zenon, <1>2
    DEF ConnStep, OnWriteDone, OnReadDone, OnReadFails, CheckAgents, AgentOnTransaction,
        AgentNotStreaming, AgentEnqueues, AgentIsRefused, AgentOutOfSync, AgentHangs, LockInversion,
        Notified, SyncTask, IterateItem, IterateEnd, OnDone, Housekeeping, LinkBreaks, followerVars
<1>3. ASSUME NEW f \in Followers, OnUpdate(f, TRUE)
      PROVE  \E c \in Conns : \E n \in DOMAIN stream[c] :
               applied' = [applied EXCEPT ![f] = applied[f] \cup {stream[c][n].id}]
    <2> DEFINE c == conn[f]
    <2>1. c \in Conns /\ received[c] < sent[c] /\ received'[c] = received[c] + 1
        BY Zenon, <1>3 DEF OnUpdate, TypeOK, FollowerOK, NetOK
    <2>3. applied' = [applied EXCEPT ![f] = applied[f] \cup {stream[c][received'[c]].id}]
        BY Zenon, <1>3 DEF OnUpdate, OnTrx
    <2> HIDE DEF c
    <2>4. /\ received[c] \in Nat /\ sent[c] \in Nat /\ stream[c] \in Seq(Updates)
          /\ sent[c] <= Len(stream[c])
        BY Zenon, <2>1 DEF TypeOK, NetOK, ClientOK, PositionsOK
    <2>2. received'[c] \in DOMAIN stream[c]
        BY <2>1, <2>4
    <2> QED
        BY Zenon, <2>1, <2>2, <2>3
<1>4. ASSUME NEW f \in Followers, FollowerStep(f), ~OnUpdate(f, TRUE) PROVE applied' = applied
    BY Zenon, <1>4 DEF FollowerStep, FollowerStart, OnUpdate, SendAck, FollowerStops
<1>5. CASE PrimaryRestarts \/ UNCHANGED vars
    BY Zenon, <1>5 DEF PrimaryRestarts, vars, replVars, followerVars
<1> USE DEF TypeOK, FollowerOK
<1>6. ASSUME NEW f \in Followers, FollowerStep(f)
      PROVE  \A g \in Followers :
             \/ applied'[g] = applied[g]
             \/ \E c \in Conns : \E n \in DOMAIN stream[c] :
                  applied'[g] = applied[g] \cup {stream[c][n].id}
    <2>1. CASE OnUpdate(f, TRUE)
        <3>1. PICK c \in Conns : \E n \in DOMAIN stream[c] :
                 applied' = [applied EXCEPT ![f] = applied[f] \cup {stream[c][n].id}]
            BY Zenon, <1>3, <2>1
        <3>2. PICK n \in DOMAIN stream[c] :
                 applied' = [applied EXCEPT ![f] = applied[f] \cup {stream[c][n].id}]
            BY Zenon, <3>1
        <3>3. applied'[f] = applied[f] \cup {stream[c][n].id}
            BY <3>2
        <3>4. \A g \in Followers \ {f} : applied'[g] = applied[g]
            BY <3>2
        <3> QED
            BY <3>3, <3>4, Zenon
    <2>2. CASE ~OnUpdate(f, TRUE)
        BY Zenon, <1>4, <1>6, <2>2
    <2> QED
        BY Zenon, <2>1, <2>2
<1> QED
    BY <1>1, <1>2, <1>5, <1>6 DEF Next

\* Nothing is queued, scanned or announced at the start.
LEMMA InitFed == Init => FedInv
<1> SUFFICES ASSUME Init PROVE FedInv
    OBVIOUS
<1> USE DEF Init
<1>1. CommitInv /\ CommitTypeOK
    BY ZenonT(30), CommitInvInit DEF CommitInv
<1>2. PrimaryOK /\ AgentOK /\ NetOK /\ FollowerOK /\ BoundOK
    BY MaxTrxIdAssumption, ReplicationAssumption
    DEF PrimaryOK, AgentOK, NetOK, FollowerOK, BoundOK, Id0, Ids, AgentStates
<1>3. ClientOK /\ PositionsOK
    BY DEF ClientOK, PositionsOK
<1>4. StreamFromLog /\ ScanFromLog /\ CallbackFromLog /\ FollowersHoldOnlyCommitted
    BY DEF StreamFromLog, ScanFromLog, CallbackFromLog, FollowersHoldOnlyCommitted
<1> QED
    BY <1>1, <1>2, <1>3, <1>4 DEF FedInv, TypeOK

\* Every step keeps the invariant, because the log only grows.
LEMMA NextFed == FedInv /\ [Next]_vars => FedInv'
<1> SUFFICES ASSUME FedInv, [Next]_vars PROVE FedInv'
    OBVIOUS
<1> USE DEF FedInv
<1>1. CommitInv' /\ CommitTypeOK'
    BY CommitPart, CommitInvStep DEF CommitInv
<1>2. Committed \subseteq Committed'
    BY CommitPart, CommittedGrows
<1>3. TypeOK'
    BY <1>1, TypeStep
<1>4. StreamFromLog'
    <2>1. CASE stream' = stream
        BY <1>2, <2>1 DEF StreamFromLog
    <2>2. ASSUME NEW c \in Conns, NEW u \in Updates, Source(c, u.id),
                 stream' = [stream EXCEPT ![c] = Append(stream[c], u)]
          PROVE  StreamFromLog'
        <3>1. u.id \in Committed
            BY <2>2 DEF Source, CallbackFromLog, ScanFromLog
        <3>2. stream \in [Conns -> Seq(Updates)]
            BY DEF TypeOK, ClientOK
        <3>3. ASSUME NEW d \in Conns, NEW n \in DOMAIN stream'[d] PROVE stream'[d][n].id \in Committed
            BY <2>2, <3>1, <3>2, <3>3 DEF StreamFromLog
        <3> QED
            BY <1>2, <3>3 DEF StreamFromLog
    <2>3. CASE stream' = [c \in Conns |-> << >>]
        BY <2>3 DEF StreamFromLog
    <2> QED
        BY <2>1, <2>2, <2>3, StreamChanges
<1>5. ScanFromLog'
    <2>1. ASSUME NEW c \in Conns, scan' = [scan EXCEPT ![c] = IterateFromPrev(last_enqueued[c])]
          PROVE  ScanFromLog'
        BY <1>2, <2>1 DEF ScanFromLog, IterateFromPrev, TypeOK, AgentOK
    <2>2. CASE \A c \in Conns : scan'[c] \subseteq scan[c]
        BY <1>2, <2>2 DEF ScanFromLog
    <2> QED
        BY <2>1, <2>2, ScanChanges
<1>6. CallbackFromLog'
    <2>1. ASSUME NEW w \in Writers, pc[w] = "committed" PROVE replication_id[w] \in Committed
        BY <2>1 DEF CommitInv, CallbackIsCommitted, IsCommitted, Committed
    <2> QED
        BY <1>2, <2>1, CallbackChanges DEF CallbackFromLog
<1>7. FollowersHoldOnlyCommitted'
    BY <1>2, AppliedChanges DEF FollowersHoldOnlyCommitted, StreamFromLog
<1> QED
    BY <1>1, <1>3, <1>4, <1>5, <1>6, <1>7

\* The inductive invariant: types, the log's invariant, and that all that is
\* queued, scanned, announced or applied is in the committed log.
THEOREM FedInvariance == Spec => []FedInv
  BY InitFed, NextFed, PTL DEF Spec

\* Every variable keeps its type; the positions on a stream stay in order
\* (received <= sent <= enqueued).
THEOREM ReplicationTypeCorrect == Spec => []TypeOK
<1>1. FedInv => TypeOK
    BY DEF FedInv
<1> QED
    BY <1>1, FedInvariance, PTL

\* onTransaction() and iterateDb() together never let a follower apply what
\* the primary has not committed, whatever fails or restarts.
THEOREM OnlyCommittedIsReplicated == Spec => []FollowersHoldOnlyCommitted
<1>1. FedInv => FollowersHoldOnlyCommitted
    BY DEF FedInv
<1> QED
    BY <1>1, FedInvariance, PTL

-----------------------------------------------------------------------------
(* What is confirmed is durable.                                           *)

\* ConfirmedIsDurable rests on the acknowledgements that are under way, those
\* on the follower's position, and that on whose stream the follower reads.
StreamIsOwn == \A f \in Followers : conn[f] # NoConn => Owner[conn[f]] = f
PositionIsDurable == \A f \in Followers : current_trxid[f] \in {0} \cup applied[f]
AcksAreDurable ==
    \A c \in Conns : \A n \in DOMAIN acks[c] : acks[c][n] \in {0} \cup applied[Owner[c]]

DurableInv ==
    FedInv /\ StreamIsOwn /\ PositionIsDurable /\ AcksAreDurable /\ ConfirmedIsDurable

\* An acknowledgement is sent when the follower starts or its timer fires.
LEMMA AckChanges ==
    ASSUME TypeOK, StreamIsOwn, PositionIsDurable, AcksAreDurable, [Next]_vars,
           NEW c \in Conns, NEW n \in DOMAIN acks'[c]
    PROVE  acks'[c][n] \in {0} \cup applied[Owner[c]]
<1> USE ReplicationAssumption
<1>0. acks \in [Conns -> Seq(Id0)]
    BY DEF TypeOK, NetOK
<1>1. ASSUME acks' = acks PROVE acks'[c][n] \in {0} \cup applied[Owner[c]]
    BY <1>1 DEF AcksAreDurable
<1>2. ASSUME NEW w \in Writers, CommitStep(w) \/ OnTransaction(w) PROVE acks' = acks
    BY Zenon, <1>2 DEF CommitStep, OnTransaction, replVars, netVars
<1>3. ASSUME NEW d \in Conns, OnReadDone(d) PROVE acks'[c][n] \in {0} \cup applied[Owner[c]]
    <2>1. acks[d] # << >> /\ acks' = [acks EXCEPT ![d] = Tail(acks[d])]
        BY Zenon, <1>3 DEF OnReadDone
    <2>2. CASE c = d
        <3>1. acks'[c] = Tail(acks[c]) /\ acks[c] \in Seq(Id0) /\ acks[c] # << >>
            BY <1>0, <2>1, <2>2
        <3>2. n + 1 \in DOMAIN acks[c] /\ acks'[c][n] = acks[c][n + 1]
            BY <3>1
        <3> QED
            BY Zenon, <3>2 DEF AcksAreDurable
    <2>3. CASE c # d
        BY <1>0, <2>1, <2>3 DEF AcksAreDurable
    <2> QED
        BY Zenon, <2>2, <2>3
<1>4. ASSUME NEW d \in Conns, LinkBreaks(d) PROVE acks'[c][n] \in {0} \cup applied[Owner[c]]
    <2>1. acks' = [acks EXCEPT ![d] = << >>]
        BY ZenonT(30), <1>4 DEF LinkBreaks
    <2>2. CASE c = d
        BY <1>0, <2>1, <2>2
    <2>3. CASE c # d
        BY <1>0, <2>1, <2>3 DEF AcksAreDurable
    <2> QED
        BY <2>2, <2>3
<1>5. ASSUME NEW d \in Conns, ConnStep(d), ~OnReadDone(d), ~LinkBreaks(d) PROVE acks' = acks
    BY ZenonT(30), <1>5
    DEF ConnStep, OnWriteDone, OnReadFails, CheckAgents, AgentOnTransaction,
        AgentNotStreaming, AgentEnqueues, AgentIsRefused, AgentOutOfSync, AgentHangs, LockInversion,
        Notified, SyncTask, IterateItem, IterateEnd, OnDone, Housekeeping, netVars
<1>6. ASSUME NEW f \in Followers, FollowerStart(f)
      PROVE  acks'[c][n] \in {0} \cup applied[Owner[c]]
    <2>1. PICK d \in Conns, last \in {0} \cup applied[f] :
             Owner[d] = f /\ acks' = [acks EXCEPT ![d] = << last >>]
        BY ZenonT(30), <1>6 DEF FollowerStart
    <2>2. CASE c = d
        BY <1>0, <2>1, <2>2
    <2>3. CASE c # d
        BY <1>0, <2>1, <2>3 DEF AcksAreDurable
    <2> QED
        BY <2>2, <2>3
<1>7. ASSUME NEW f \in Followers, SendAck(f) PROVE acks'[c][n] \in {0} \cup applied[Owner[c]]
    <2> DEFINE d == conn[f]
    <2>1. d \in Conns /\ Owner[d] = f /\ acks' = [acks EXCEPT ![d] = Append(acks[d], current_trxid[f])]
        BY ZenonT(30), <1>7 DEF SendAck, TypeOK, FollowerOK, StreamIsOwn
    <2>2. current_trxid[f] \in {0} \cup applied[f] /\ current_trxid[f] \in Id0
        BY DEF PositionIsDurable, TypeOK, FollowerOK
    <2> HIDE DEF d
    <2>3. CASE c = d
        BY <1>0, <2>1, <2>2, <2>3 DEF AcksAreDurable
    <2>4. CASE c # d
        BY <1>0, <2>1, <2>4 DEF AcksAreDurable
    <2> QED
        BY <2>3, <2>4
<1>8. ASSUME NEW f \in Followers, FollowerStops(f)
      PROVE  acks'[c][n] \in {0} \cup applied[Owner[c]]
    <2> DEFINE d == conn[f]
    <2>1. acks' = [acks EXCEPT ![d] = << >>]
        BY <1>8 DEF FollowerStops
    <2> HIDE DEF d
    <2>2. CASE c = d
        BY <1>0, <2>1, <2>2
    <2>3. CASE c # d
        BY <1>0, <2>1, <2>3 DEF AcksAreDurable
    <2> QED
        BY <2>2, <2>3
<1>9. ASSUME NEW f \in Followers, OnUpdate(f, TRUE) \/ OnUpdate(f, FALSE) PROVE acks' = acks
    BY Zenon, <1>9 DEF OnUpdate
<1>10. ASSUME NEW f \in Followers, FollowerStep(f)
       PROVE  acks'[c][n] \in {0} \cup applied[Owner[c]]
    BY Zenon, <1>1, <1>6, <1>7, <1>8, <1>9, <1>10 DEF FollowerStep
<1>11. CASE PrimaryRestarts
    <2>1. acks' = [d \in Conns |-> << >>]
        BY Zenon, <1>11 DEF PrimaryRestarts
    <2>2. DOMAIN acks'[c] = {}
        BY <2>1
    <2> QED
        BY <1>0, <2>2
<1>12. CASE UNCHANGED vars
    BY <1>1, <1>12 DEF vars, replVars, netVars
<1> QED
    BY Zenon, <1>1, <1>2, <1>3, <1>4, <1>5, <1>10, <1>11, <1>12 DEF Next

\* The follower's own part: its stream and its position.
LEMMA PositionChanges ==
    ASSUME TypeOK, StreamIsOwn, PositionIsDurable, [Next]_vars
    PROVE  StreamIsOwn' /\ PositionIsDurable'
<1>0. /\ conn \in [Followers -> Conns \cup {NoConn}]
      /\ applied \in [Followers -> SUBSET Ids] /\ current_trxid \in [Followers -> Id0]
    BY DEF TypeOK, FollowerOK
<1>1. ASSUME UNCHANGED <<conn, applied, current_trxid>> PROVE StreamIsOwn' /\ PositionIsDurable'
    BY <1>1 DEF StreamIsOwn, PositionIsDurable
<1>2. ASSUME NEW w \in Writers, CommitStep(w) \/ OnTransaction(w)
      PROVE  UNCHANGED <<conn, applied, current_trxid>>
    BY Zenon, <1>2 DEF CommitStep, OnTransaction, replVars, followerVars
<1>3. ASSUME NEW c \in Conns, ConnStep(c) PROVE UNCHANGED <<conn, applied, current_trxid>>
    BY Zenon, <1>3
    DEF ConnStep, OnWriteDone, OnReadDone, OnReadFails, CheckAgents, AgentOnTransaction,
        AgentNotStreaming, AgentEnqueues, AgentIsRefused, AgentOutOfSync, AgentHangs, LockInversion,
        Notified, SyncTask, IterateItem, IterateEnd, OnDone, Housekeeping, LinkBreaks, followerVars
<1>4. ASSUME NEW f \in Followers, FollowerStart(f) PROVE StreamIsOwn' /\ PositionIsDurable'
    <2>1. PICK d \in Conns, last \in {0} \cup applied[f] :
             /\ Owner[d] = f /\ conn' = [conn EXCEPT ![f] = d]
             /\ current_trxid' = [current_trxid EXCEPT ![f] = last]
        BY ZenonT(30), <1>4 DEF FollowerStart
    <2>2. applied' = applied
        BY ZenonT(30), <1>4 DEF FollowerStart
    <2> QED
        BY <1>0, <2>1, <2>2 DEF StreamIsOwn, PositionIsDurable
<1>5. ASSUME NEW f \in Followers, OnUpdate(f, TRUE) PROVE StreamIsOwn' /\ PositionIsDurable'
    <2>1. PICK id : /\ applied' = [applied EXCEPT ![f] = applied[f] \cup {id}]
                    /\ current_trxid' = [current_trxid EXCEPT ![f] = id]
        BY Zenon, <1>5 DEF OnUpdate, OnTrx
    <2>2. conn' = conn
        BY Zenon, <1>5 DEF OnUpdate
    <2> QED
        BY <1>0, <2>1, <2>2 DEF StreamIsOwn, PositionIsDurable
<1>6. ASSUME NEW f \in Followers, FollowerStops(f) PROVE StreamIsOwn' /\ PositionIsDurable'
    BY Zenon, <1>0, <1>6 DEF FollowerStops, StreamIsOwn, PositionIsDurable
<1>7. ASSUME NEW f \in Followers, OnUpdate(f, FALSE) \/ SendAck(f)
      PROVE  UNCHANGED <<conn, applied, current_trxid>>
    BY Zenon, <1>7 DEF OnUpdate, SendAck
<1>8. CASE PrimaryRestarts \/ UNCHANGED vars
    BY <1>1, <1>8 DEF PrimaryRestarts, vars, replVars, followerVars
<1> QED
    BY Zenon, <1>1, <1>2, <1>3, <1>4, <1>5, <1>6, <1>7, <1>8 DEF Next, FollowerStep

\* The primary notes what the oldest acknowledgement under way says.
LEMMA ConfirmedChanges ==
    ASSUME TypeOK, AcksAreDurable, ConfirmedIsDurable, [Next]_vars, NEW c \in Conns
    PROVE  last_confirmed'[c] \in {0} \cup applied[Owner[c]]
<1>0. last_confirmed \in [Conns -> Id0] /\ acks \in [Conns -> Seq(Id0)]
    BY DEF TypeOK, AgentOK, NetOK
<1>1. ASSUME last_confirmed' = last_confirmed
      PROVE  last_confirmed'[c] \in {0} \cup applied[Owner[c]]
    BY Zenon, <1>1 DEF ConfirmedIsDurable
<1>2. ASSUME NEW w \in Writers, CommitStep(w) \/ OnTransaction(w)
      PROVE  last_confirmed' = last_confirmed
    BY Zenon, <1>2 DEF CommitStep, OnTransaction, replVars, agentVars
<1>3. ASSUME NEW d \in Conns, OnReadDone(d) PROVE last_confirmed'[c] \in {0} \cup applied[Owner[c]]
    <2>1. acks[d] # << >> /\ last_confirmed' = [last_confirmed EXCEPT ![d] = Head(acks[d])]
        BY <1>3 DEF OnReadDone
    <2>2. 1 \in DOMAIN acks[d] /\ Head(acks[d]) = acks[d][1]
        BY <1>0, <2>1
    <2>3. Head(acks[d]) \in {0} \cup applied[Owner[d]]
        BY <2>2 DEF AcksAreDurable
    <2> QED
        BY Zenon, <1>0, <2>1, <2>3 DEF ConfirmedIsDurable
<1>4. ASSUME NEW d \in Conns, ConnStep(d), ~OnReadDone(d) PROVE last_confirmed' = last_confirmed
    BY Zenon, <1>4
    DEF ConnStep, OnWriteDone, OnReadFails, CheckAgents, AgentOnTransaction,
        AgentNotStreaming, AgentEnqueues, AgentIsRefused, AgentOutOfSync, AgentHangs, LockInversion,
        SyncTask, IterateItem, IterateEnd, OnDone, Housekeeping, LinkBreaks, agentVars
<1>5. ASSUME NEW f \in Followers, FollowerStep(f) PROVE last_confirmed' = last_confirmed
    BY Zenon, <1>5 DEF FollowerStep, FollowerStart, OnUpdate, SendAck, FollowerStops, agentVars
<1>6. CASE PrimaryRestarts
    BY Zenon, <1>6 DEF PrimaryRestarts
<1>7. CASE UNCHANGED vars
    BY Zenon, <1>1, <1>7 DEF vars, replVars, agentVars
<1> QED
    BY <1>1, <1>2, <1>3, <1>4, <1>5, <1>6, <1>7 DEF Next

\* The initial state: no stream, no position, no acknowledgement.
LEMMA InitDurable == Init => DurableInv
<1> SUFFICES ASSUME Init PROVE DurableInv
    OBVIOUS
<1>1. StreamIsOwn /\ PositionIsDurable /\ AcksAreDurable /\ ConfirmedIsDurable
    BY DEF Init, StreamIsOwn, PositionIsDurable, AcksAreDurable, ConfirmedIsDurable
<1> QED
    BY <1>1, InitFed DEF DurableInv

\* Every step keeps the invariant, because what a follower holds only grows.
LEMMA NextDurable == DurableInv /\ [Next]_vars => DurableInv'
<1> SUFFICES ASSUME DurableInv, [Next]_vars PROVE DurableInv'
    OBVIOUS
<1> USE DEF DurableInv
<1>1. FedInv' /\ TypeOK
    BY NextFed DEF FedInv
<1>2. ASSUME NEW c \in Conns PROVE Owner[c] \in Followers /\ applied[Owner[c]] \subseteq applied'[Owner[c]]
    <2>1. Owner[c] \in Followers
        BY ReplicationAssumption
    <2> QED
        BY <1>1, <2>1, AppliedChanges
<1>3. StreamIsOwn' /\ PositionIsDurable'
    BY <1>1, PositionChanges
<1>4. AcksAreDurable'
    BY <1>1, <1>2, AckChanges DEF AcksAreDurable
<1>5. ConfirmedIsDurable'
    BY <1>1, <1>2, ConfirmedChanges DEF ConfirmedIsDurable
<1> QED
    BY <1>1, <1>3, <1>4, <1>5

\* The inductive invariant behind the acknowledgements.
THEOREM DurableInvariance == Spec => []DurableInv
  BY InitDurable, NextDurable, PTL DEF Spec

\* An id that onTrxId() has recorded as confirmed is in that follower's
\* database, whatever stream, process or update failed in between.
THEOREM ConfirmationsAreDurable == Spec => []ConfirmedIsDurable
<1>1. DurableInv => ConfirmedIsDurable
    BY DEF DurableInv
<1> QED
    BY <1>1, DurableInvariance, PTL

\* Replication preserves what the log promises: the ids stay distinct.
THEOREM ReplicationKeepsIdsUnique == Spec => []UniqueIds
<1>1. FedInv => UniqueIds
    BY DEF FedInv, CommitInv
<1> QED
    BY <1>1, FedInvariance, PTL

\* Replication adds no behaviour to the log it reads: restricted to the log's
\* variables it is CommitLog, the specification TrxLog implements.
THEOREM ReplicationRefinesCommitLog == Spec => CommitSpec
<1>1. Init => CommitInit
    BY DEF Init
<1> QED
    BY <1>1, CommitPart, ReplicationTypeCorrect, PTL DEF Spec, CommitSpec
=============================================================================
