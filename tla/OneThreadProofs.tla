-------------------------- MODULE OneThreadProofs --------------------------
(***************************************************************************)
(* With a single committing thread a stream has no gaps: the proofs of     *)
(* InSyncMeansNoBacklog, ConfirmedUpTo and ReleasedMeansReplicated, for    *)
(* any number of followers, streams and transactions, any queue limit, any *)
(* broken links and any restarts of the primary and the followers.  The    *)
(* last two also need a follower that applies what it receives.  With two  *)
(* threads all three fail, with an update that is skipped the last two.    *)
(***************************************************************************)
EXTENDS StreamOrderProofs

\* Time for a leaf that names no prover.
USE SMTT(30), ZenonT(30)

\* At most one thread commits transactions.
OneThread == \A v, w \in Writers : v = w

\* Followers apply every update they read: onTrx() does not throw.
UpdatesApply == "apply" \notin Faults

-----------------------------------------------------------------------------
(* The strengthening, 1: the thread, its callback and the log.             *)

LogAscends == \A a, b \in Committed : OrderedIn(log, a, b) => a < b

\* The thread's transaction is newer than everything in the log.
NumberedIsNewest ==
    \A w \in Writers : pc[w] = "numbered" => \A i \in Committed : i < replication_id[w]
CommittedIsNewest ==
    \A w \in Writers : pc[w] = "committed" => \A i \in Committed : i <= replication_id[w]

\* The callback is the thread's own.
CallbackRuns ==
    notifying # Idle =>
        /\ pc[notifying.writer] = "committed"
        /\ replication_id[notifying.writer] = notifying.id
        /\ last_trxid = notifying.id

\* Committed, and not yet done with its callback.
Pending(i) == \E w \in Writers : pc[w] = "committed" /\ replication_id[w] = i

\* Once a transaction was announced (last_trxid_ is 0 after a start), all that
\* were committed before it are behind it.
LastIsUpToDate == last_trxid # 0 => \A i \in Committed : i <= last_trxid \/ Pending(i)
PrevIsUpToDate ==
    notifying # Idle /\ notifying.prev # 0 =>
        \A i \in Committed : i <= notifying.prev \/ i = notifying.id

ThreadInv ==
    /\ LogAscends /\ NumberedIsNewest /\ CommittedIsNewest /\ CallbackRuns
    /\ LastIsUpToDate /\ PrevIsUpToDate

(* The strengthening, 2: the streams.                                      *)

\* The agent has looked at the log since it was created.
Looked(c) == state[c] = "STREAMING" \/ iterating[c]

\* An agent at 0 that has looked at the log found it empty; so it is in step
\* with the first callback after a start only if there is nothing before it.
StartIsEmpty(c) ==
    Looked(c) /\ last_enqueued[c] = 0 =>
        /\ last_trxid = 0 => \A i \in Committed \ scan[c] : Pending(i)
        /\ notifying # Idle /\ notifying.prev = 0 /\ c \in notifying.todo =>
               \A i \in Committed \ scan[c] : i = notifying.id

PositionIsCommitted(c) == last_enqueued[c] \in {0} \cup Committed

\* All up to the position is on the stream, unless enqueue() refuses.
StreamIsComplete(c) ==
    ~is_done[c] =>
        \A i \in Committed : i <= last_enqueued[c] =>
            \E m \in DOMAIN stream[c] : stream[c][m].id = i

\* Every update, in sync or not, follows all smaller ids.
StreamHasNoGap(c) ==
    \A n \in DOMAIN stream[c], i \in Committed :
        i < stream[c][n].id => \E m \in 1..(n - 1) : stream[c][m].id = i

GapInv ==
    /\ OrderInv /\ ThreadInv
    /\ \A c \in Conns : /\ StartIsEmpty(c) /\ PositionIsCommitted(c)
                        /\ StreamIsComplete(c) /\ StreamHasNoGap(c)

(* The strengthening, 3: the followers.                                    *)

\* What was read from a stream is in the follower's database.
ReadIsApplied(c) ==
    \A m \in DOMAIN stream[c] : m <= received[c] => stream[c][m].id \in applied[Owner[c]]

\* The follower's database has no gap.
AppliedHasNoGap(f) == \A j \in applied[f], i \in Committed : i < j => i \in applied[f]

AppliedInv ==
    /\ GapInv /\ DurableInv
    /\ \A c \in Conns : ReadIsApplied(c)
    /\ \A f \in Followers : AppliedHasNoGap(f)

-----------------------------------------------------------------------------
\* The ids of a log are numbers.
LEMMA LogIsNumbers ==
    ASSUME NEW l \in Seq(1..MaxTrxId)
    PROVE  {l[i] : i \in DOMAIN l} \subseteq Nat \ {0}
<1> DEFINE S == 1..MaxTrxId
<1>1. S \subseteq Nat \ {0} /\ l \in Seq(S)
    BY MaxTrxIdAssumption
<1> HIDE DEF S
<1>2. \A i \in DOMAIN l : l[i] \in S
    BY <1>1
<1> QED
    BY Zenon, <1>1, <1>2

\* So are the ids that were committed, confirmed and released.
LEMMA Numbers ==
    ASSUME TypeOK
    PROVE  /\ Committed \subseteq Nat \ {0} /\ min_trx \in Nat
           /\ last_confirmed \in [Conns -> Nat]
<1>1. /\ log \in Seq(1..MaxTrxId) /\ min_trx \in Id0
      /\ last_confirmed \in [Conns -> Id0]
    BY DEF TypeOK, CommitTypeOK, PrimaryOK, AgentOK
<1>2. Committed \subseteq Nat \ {0}
    BY <1>1, LogIsNumbers DEF Committed
<1>3. Id0 \subseteq Nat
    BY MaxTrxIdAssumption DEF Id0
<1> QED
    BY Zenon, <1>1, <1>2, <1>3

-----------------------------------------------------------------------------
(* The thread, its callback and the log.                                   *)

\* A commit adds its id to the log, after all others.
LEMMA CommitAdds ==
    ASSUME CommitInv, NEW w \in Writers, Commit(w)
    PROVE  /\ Committed' = Committed \cup {replication_id[w]}
           /\ \A a, b : OrderedIn(log', a, b) =>
                OrderedIn(log, a, b) \/ (a \in Committed /\ b = replication_id[w])
<1>1. replication_id[w] \in 1..MaxTrxId
    BY DEF Commit, CommitInv, NumberedIsFresh, CommitTypeOK
<1>2. /\ DOMAIN log' = (DOMAIN log) \cup {Len(log) + 1}
      /\ \A i \in DOMAIN log : log'[i] = log[i]
      /\ log'[Len(log) + 1] = replication_id[w]
    BY Zenon, <1>1, CommittedKept DEF CommitInv
<1>3. \A i \in DOMAIN log' : i <= Len(log) + 1
    BY <1>2 DEF CommitInv, CommitTypeOK
<1>4. Len(log) \in Nat /\ DOMAIN log' \subseteq Nat
    BY <1>2 DEF CommitInv, CommitTypeOK
<1>5. ASSUME NEW a, NEW b, OrderedIn(log', a, b)
      PROVE  OrderedIn(log, a, b) \/ (a \in Committed /\ b = replication_id[w])
    <2>1. PICK i, j \in DOMAIN log' : i < j /\ log'[i] = a /\ log'[j] = b
        BY <1>5 DEF OrderedIn
    <2>2. i # Len(log) + 1
        BY <1>3, <1>4, <2>1
    <2>3. i \in DOMAIN log /\ log[i] = a
        BY <1>2, <2>1, <2>2
    <2> QED
        BY <1>2, <2>1, <2>3 DEF OrderedIn, Committed
<1> QED
    BY <1>2, <1>5 DEF Committed

\* What a step does to the log, the thread and its callback.
LEMMA CallbackMoves ==
    ASSUME TypeOK, [Next]_vars
    PROVE  \/ UNCHANGED <<commitVars, last_trxid, notifying>>
           \/ \E w \in Writers : /\ AssignId(w) \/ Commit(w) \/ CommitFails(w)
                                 /\ UNCHANGED <<last_trxid, notifying>>
           \/ \E w \in Writers : OnTransaction(w)
           \/ \E c \in Conns : Notifying(c) /\ Notified(c)
           \/ PrimaryRestarts
<1>1. ASSUME NEW w \in Writers, CommitStep(w)
      PROVE  (AssignId(w) \/ Commit(w) \/ CommitFails(w)) /\ UNCHANGED <<last_trxid, notifying>>
    BY <1>1 DEF CommitStep, replVars, primaryVars
<1>2. ASSUME NEW c \in Conns, ConnStep(c)
      PROVE  UNCHANGED <<commitVars, last_trxid, notifying>> \/ (Notifying(c) /\ Notified(c))
    BY Zenon, <1>2
    DEF ConnStep, OnWriteDone, OnReadDone, OnReadFails, CheckAgents, AgentOnTransaction,
        AgentNotStreaming, AgentEnqueues, AgentIsRefused, AgentOutOfSync, AgentHangs, LockInversion,
        SyncTask, IterateItem, IterateEnd, OnDone, Housekeeping, LinkBreaks, primaryVars
<1>3. ASSUME NEW f \in Followers, FollowerStep(f) PROVE UNCHANGED <<commitVars, last_trxid, notifying>>
    BY Zenon, <1>3 DEF FollowerStep, FollowerStart, OnUpdate, SendAck, FollowerStops, primaryVars
<1>4. CASE UNCHANGED vars
    BY <1>4 DEF vars, replVars, primaryVars
<1> QED
    BY Zenon, <1>1, <1>2, <1>3, <1>4 DEF Next

\* Every step keeps the invariant of the thread.  While a callback runs, its
\* thread cannot commit, and there is no other thread.
LEMMA ThreadStep ==
    ASSUME OneThread, FedInv, ThreadInv, FedInv', [Next]_vars
    PROVE  ThreadInv'
<1>0. TypeOK /\ CommitInv /\ CommitTypeOK /\ PrimaryOK /\ CommitTypeOK' /\ PrimaryOK'
    BY DEF FedInv, TypeOK
<1>1. /\ Committed \subseteq Ids /\ Ids \subseteq Nat /\ 0 \notin Ids /\ Id0 \subseteq Nat
      /\ last_trxid \in Nat /\ trx_id \in Nat
      /\ \A w \in Writers : replication_id[w] \in Nat
    BY <1>0, MaxTrxIdAssumption DEF Committed, Ids, Id0, CommitTypeOK, PrimaryOK
<1>2. ASSUME notifying # Idle
      PROVE  /\ notifying.writer \in Writers /\ notifying.prev \in Nat /\ notifying.id \in Ids
             /\ \A w \in Writers : w = notifying.writer
    BY Zenon, <1>0, <1>1, <1>2 DEF PrimaryOK, Notifications, OneThread
<1>3. ASSUME NEW w \in Writers, pc[w] # "committed"
      PROVE  notifying = Idle /\ \A i : ~Pending(i)
    BY <1>2, <1>3 DEF ThreadInv, CallbackRuns, Pending, OneThread
<1>4. CASE UNCHANGED <<commitVars, last_trxid, notifying>>
    BY <1>4 DEF ThreadInv, LogAscends, NumberedIsNewest, CommittedIsNewest, CallbackRuns,
        LastIsUpToDate, PrevIsUpToDate, Pending, Committed, OrderedIn, commitVars
<1>5. ASSUME NEW w \in Writers, AssignId(w) \/ CommitFails(w), UNCHANGED <<last_trxid, notifying>>
      PROVE  ThreadInv'
    <2>1. log' = log /\ Committed' = Committed /\ pc[w] # "committed" /\ pc'[w] # "committed"
        BY <1>0, <1>5 DEF AssignId, CommitFails, Committed, CommitTypeOK
    <2>2. notifying = Idle /\ notifying' = Idle
        BY Zenon, <1>3, <1>5, <2>1
    <2>3. LogAscends' /\ CallbackRuns' /\ PrevIsUpToDate'
        BY <2>1, <2>2 DEF ThreadInv, LogAscends, CallbackRuns, PrevIsUpToDate
    <2>4. NumberedIsNewest'
        <3>1. CASE AssignId(w)
            <4>1. replication_id'[w] = trx_id + 1
                BY <1>0, <3>1 DEF AssignId, CommitTypeOK
            <4>2. \A i \in Committed : i <= trx_id
                BY <1>0 DEF CommitInv, LogBelowCounter, Committed
            <4>3. \A i \in Committed : i < trx_id + 1
                BY <1>1, <4>2
            <4> QED
                BY Zenon, <2>1, <4>1, <4>3 DEF NumberedIsNewest, OneThread
        <3>2. CASE CommitFails(w)
            <4>1. pc'[w] = "open"
                BY <1>0, <3>2 DEF CommitFails, CommitTypeOK
            <4> QED
                BY <4>1 DEF NumberedIsNewest, OneThread
        <3> QED
            BY <1>5, <3>1, <3>2
    <2>5. CommittedIsNewest'
        BY <2>1 DEF CommittedIsNewest, OneThread
    <2>6. LastIsUpToDate'
        BY <1>3, <1>5, <2>1 DEF ThreadInv, LastIsUpToDate
    <2> QED
        BY Zenon, <2>3, <2>4, <2>5, <2>6 DEF ThreadInv
<1>6. ASSUME NEW w \in Writers, Commit(w), UNCHANGED <<last_trxid, notifying>>
      PROVE  ThreadInv'
    <2>1. /\ pc[w] = "numbered" /\ pc'[w] = "committed" /\ replication_id' = replication_id
        BY <1>0, <1>6 DEF Commit, CommitTypeOK
    <2>2. notifying = Idle /\ notifying' = Idle /\ \A i : ~Pending(i)
        BY <1>3, <1>6, <2>1
    <2>3. /\ Committed' = Committed \cup {replication_id[w]}
          /\ \A a, b : OrderedIn(log', a, b) =>
               OrderedIn(log, a, b) \/ (a \in Committed /\ b = replication_id[w])
        BY Zenon, <1>0, <1>6, CommitAdds
    <2>4. \A i \in Committed : i < replication_id[w]
        BY <2>1 DEF ThreadInv, NumberedIsNewest
    <2>5. \A a, b : OrderedIn(log, a, b) => a \in Committed /\ b \in Committed
        BY DEF OrderedIn, Committed
    <2>6. LogAscends'
        BY <2>3, <2>4, <2>5 DEF ThreadInv, LogAscends
    <2>7. CallbackRuns' /\ PrevIsUpToDate'
        BY <2>2 DEF CallbackRuns, PrevIsUpToDate
    <2>8. NumberedIsNewest'
        BY <2>1 DEF NumberedIsNewest, OneThread
    <2>9. CommittedIsNewest'
        <3>1. \A i \in Committed' : i <= replication_id[w]
            BY <1>1, <2>3, <2>4
        <3> QED
            BY <2>1, <3>1 DEF CommittedIsNewest, OneThread
    <2>10. LastIsUpToDate'
        BY <1>6, <2>1, <2>2, <2>3 DEF ThreadInv, LastIsUpToDate, Pending
    <2> QED
        BY Zenon, <2>6, <2>7, <2>8, <2>9, <2>10 DEF ThreadInv
<1>7. ASSUME NEW w \in Writers, CallbackReturns(w), last_trxid' \in Nat, last_trxid' >= replication_id[w],
             pc[w] = "committed", notifying' = Idle
      PROVE  ThreadInv'
    <2>1. /\ log' = log /\ Committed' = Committed /\ pc'[w] = "open"
        BY Zenon, <1>0, <1>7 DEF CallbackReturns, Committed, CommitTypeOK
    <2>2. LogAscends' /\ CallbackRuns' /\ PrevIsUpToDate'
        BY <1>7, <2>1 DEF ThreadInv, LogAscends, CallbackRuns, PrevIsUpToDate
    <2>3. NumberedIsNewest' /\ CommittedIsNewest'
        BY <2>1 DEF NumberedIsNewest, CommittedIsNewest, OneThread
    <2>4. \A i \in Committed : i <= replication_id[w]
        BY <1>7 DEF ThreadInv, CommittedIsNewest
    <2>5. \A i \in Committed' : i <= last_trxid'
        <3>1. \A i \in Committed : i \in Nat /\ replication_id[w] \in Nat
            BY <1>1
        <3> QED
            BY <1>7, <2>1, <2>4, <3>1
    <2> QED
        BY Zenon, <2>2, <2>3, <2>5 DEF ThreadInv, LastIsUpToDate
<1>8. ASSUME NEW w \in Writers, OnTransaction(w) PROVE ThreadInv'
    <2>1. pc[w] = "committed" /\ notifying = Idle
        BY Zenon, <1>8 DEF OnTransaction
    <2>2. last_trxid' \in Nat /\ last_trxid' >= replication_id[w]
        BY <1>1, <1>8 DEF OnTransaction, IsOld
    <2>3. CASE CallbackReturns(w) /\ notifying' = notifying
        BY <1>7, <2>1, <2>2, <2>3
    <2>4. CASE ~(CallbackReturns(w) /\ notifying' = notifying)
        <3>1. /\ ~IsOld(replication_id[w]) /\ last_trxid' = replication_id[w]
              /\ notifying'.writer = w /\ notifying'.prev = last_trxid
              /\ notifying'.id = replication_id[w] /\ UNCHANGED commitVars
            BY <1>8, <2>4 DEF OnTransaction
        <3>2. UNCHANGED <<log, pc, replication_id>> /\ Committed' = Committed
            BY Zenon, <3>1 DEF commitVars, Committed
        <3>3. LogAscends' /\ NumberedIsNewest' /\ CommittedIsNewest' /\ CallbackRuns'
            BY <2>1, <3>1, <3>2
            DEF ThreadInv, LogAscends, NumberedIsNewest, CommittedIsNewest, CallbackRuns
        <3>4. \A i \in Committed : i <= replication_id[w]
            BY <2>1 DEF ThreadInv, CommittedIsNewest
        <3>5. LastIsUpToDate'
            BY Zenon, <3>1, <3>2, <3>4 DEF LastIsUpToDate
        <3>6. \A i : Pending(i) => i = replication_id[w]
            BY Zenon DEF Pending, OneThread
        <3>7. PrevIsUpToDate'
            BY Zenon, <3>1, <3>2, <3>6 DEF ThreadInv, LastIsUpToDate, PrevIsUpToDate
        <3> QED
            BY Zenon, <3>3, <3>5, <3>7 DEF ThreadInv
    <2> QED
        BY Zenon, <2>3, <2>4
<1>9. ASSUME NEW c \in Conns, Notifying(c), Notified(c) PROVE ThreadInv'
    <2>1. notifying # Idle /\ last_trxid' = last_trxid
        BY <1>9 DEF Notifying, Notified
    <2>2. /\ pc[notifying.writer] = "committed" /\ replication_id[notifying.writer] = notifying.id
          /\ last_trxid = notifying.id
        BY Zenon, <2>1 DEF ThreadInv, CallbackRuns
    <2>3. CASE notifying.todo = {c}
        <3>1. notifying' = Idle /\ CallbackReturns(notifying.writer)
            BY Zenon, <1>9, <2>3 DEF Notified
        <3>2. last_trxid' >= replication_id[notifying.writer]
            BY <1>1, <2>1, <2>2
        <3> QED
            BY <1>1, <1>2, <1>7, <2>1, <2>2, <3>1, <3>2
    <2>4. CASE notifying.todo # {c}
        <3>1. notifying' = [notifying EXCEPT !.todo = @ \ {c}] /\ UNCHANGED commitVars
            BY <1>9, <2>4 DEF Notified
        <3>2. notifying'.writer = notifying.writer /\ notifying'.prev = notifying.prev
              /\ notifying'.id = notifying.id
            BY <1>0, <2>1, <3>1 DEF PrimaryOK, Notifications
        <3>3. UNCHANGED <<log, pc, replication_id>> /\ Committed' = Committed
            BY Zenon, <3>1 DEF commitVars, Committed
        <3> QED
            BY <2>1, <3>2, <3>3
            DEF ThreadInv, LogAscends, NumberedIsNewest, CommittedIsNewest, CallbackRuns,
                LastIsUpToDate, PrevIsUpToDate, Pending
    <2> QED
        BY <2>3, <2>4
<1>10. CASE PrimaryRestarts
    <2>1. /\ log' = log /\ Committed' = Committed /\ notifying' = Idle /\ last_trxid' = 0
          /\ \A w \in Writers : pc'[w] = "open"
        BY <1>10 DEF PrimaryRestarts, Restart, Committed
    <2> QED
        BY Zenon, <2>1 DEF ThreadInv, LogAscends, NumberedIsNewest, CommittedIsNewest, CallbackRuns,
            LastIsUpToDate, PrevIsUpToDate
<1> QED
    BY Zenon, <1>0, <1>4, <1>5, <1>6, <1>8, <1>9, <1>10, CallbackMoves

-----------------------------------------------------------------------------
(* An agent that has sent nothing.                                         *)

\* An agent looks at the log when a task starts; until it has sent something
\* its snapshot is what it saw then.
LEMMA LookMoves ==
    ASSUME TypeOK, NEW c \in Conns, Iterates(c), [Next]_vars, Looked(c)'
    PROVE  \/ Looked(c) /\ scan'[c] = scan[c] /\ last_enqueued'[c] = last_enqueued[c]
           \/ /\ scan'[c] = IterateFromPrev(last_enqueued[c])
              /\ last_enqueued'[c] = last_enqueued[c] /\ log' = log
           \/ last_enqueued'[c] # 0
<1>0. /\ state \in [Conns -> AgentStates] /\ iterating \in [Conns -> BOOLEAN]
      /\ scan \in [Conns -> SUBSET Ids] /\ last_enqueued \in [Conns -> Id0] /\ 0 \notin Ids
    BY MaxTrxIdAssumption DEF TypeOK, AgentOK, Ids
<1> DEFINE Same == Looked(c) /\ scan'[c] = scan[c] /\ last_enqueued'[c] = last_enqueued[c]
           Takes == /\ scan'[c] = IterateFromPrev(last_enqueued[c])
                    /\ last_enqueued'[c] = last_enqueued[c] /\ log' = log
<1>1. ASSUME UNCHANGED <<state, iterating, scan, last_enqueued>> PROVE Same
    BY Zenon, <1>1 DEF Looked
<1>2. ASSUME NEW w \in Writers, CommitStep(w) \/ OnTransaction(w)
      PROVE  UNCHANGED <<state, iterating, scan, last_enqueued>>
    BY Zenon, <1>2 DEF CommitStep, OnTransaction, replVars, agentVars
<1>3. ASSUME NEW d \in Conns, NEW s \in AgentStates \ {"STREAMING"},
             UNCHANGED <<iterating, scan>>, state' = [state EXCEPT ![d] = s],
             last_enqueued'[c] = last_enqueued[c] \/ last_enqueued'[c] # 0
      PROVE  Same \/ last_enqueued'[c] # 0
    BY <1>0, <1>3 DEF Looked
<1>4. ASSUME NEW d \in Conns, OnReadDone(d) PROVE Same \/ last_enqueued'[c] # 0
    <2>1. state' = state \/ state' = [state EXCEPT ![d] = "ITERATING_DB"]
        BY Zenon, <1>0, <1>4 DEF OnReadDone
    <2>2. /\ UNCHANGED <<iterating, scan, last_enqueued>>
          /\ "ITERATING_DB" \in AgentStates \ {"STREAMING"}
        BY Zenon, <1>4 DEF OnReadDone, AgentStates
    <2> QED
        BY Zenon, <1>1, <1>3, <2>1, <2>2
<1>5. ASSUME NEW d \in Conns, AgentEnqueues(d) \/ AgentIsRefused(d) \/ AgentOutOfSync(d)
      PROVE  Same \/ last_enqueued'[c] # 0
    <2>1. state' = state \/ state' = [state EXCEPT ![d] = "ITERATING_DB"]
        BY Zenon, <1>0, <1>5 DEF AgentEnqueues, AgentIsRefused, AgentOutOfSync
    <2>2. UNCHANGED <<iterating, scan>> /\ "ITERATING_DB" \in AgentStates \ {"STREAMING"}
        BY Zenon, <1>5 DEF AgentEnqueues, AgentIsRefused, AgentOutOfSync, AgentStates
    <2>3. notifying.id \in Ids
        BY Zenon, <1>5
        DEF AgentEnqueues, AgentIsRefused, AgentOutOfSync, Notifying, TypeOK, PrimaryOK, Notifications
    <2>4. last_enqueued' = last_enqueued \/ last_enqueued' = [last_enqueued EXCEPT ![d] = notifying.id]
        BY Zenon, <1>5 DEF AgentEnqueues, AgentIsRefused, AgentOutOfSync
    <2>5. last_enqueued'[c] = last_enqueued[c] \/ last_enqueued'[c] # 0
        BY <1>0, <2>3, <2>4
    <2>6. CASE state' = state
        BY Zenon, <2>2, <2>5, <2>6 DEF Looked
    <2>7. CASE state' = [state EXCEPT ![d] = "ITERATING_DB"]
        BY Zenon, <1>3, <2>2, <2>5, <2>7
    <2> QED
        BY <2>1, <2>6, <2>7
<1>6. ASSUME NEW d \in Conns, OnDone(d) \/ Housekeeping(d) PROVE Same \/ last_enqueued'[c] # 0
    <2>1. \E s \in {"DONE", "NONE"} : state' = [state EXCEPT ![d] = s]
        BY Zenon, <1>6 DEF OnDone, Housekeeping
    <2>2. /\ UNCHANGED <<iterating, scan, last_enqueued>>
          /\ {"DONE", "NONE"} \subseteq AgentStates \ {"STREAMING"}
        BY <1>6 DEF OnDone, Housekeeping, AgentStates
    <2> QED
        BY Zenon, <1>3, <2>1, <2>2
<1>7. ASSUME NEW d \in Conns, SyncTask(d) PROVE Same \/ Takes
    <2>1. /\ state' = state /\ last_enqueued' = last_enqueued /\ log' = log
          /\ \/ UNCHANGED <<iterating, scan>>
             \/ /\ iterating' = [iterating EXCEPT ![d] = TRUE]
                /\ scan' = [scan EXCEPT ![d] = IterateFromPrev(last_enqueued[d])]
        BY Zenon, <1>7 DEF SyncTask, commitVars
    <2> QED
        BY <1>0, <1>1, <2>1 DEF Looked
<1>8. ASSUME NEW d \in Conns, IterateItem(d) PROVE Same \/ last_enqueued'[c] # 0
    <2>1. PICK i \in scan[d] :
            \/ /\ last_enqueued' = [last_enqueued EXCEPT ![d] = i]
            \/ /\ last_enqueued' = [last_enqueued EXCEPT ![d] = last_enqueued[d]]
               /\ iterating' = [iterating EXCEPT ![d] = FALSE]
        BY Zenon, <1>8 DEF IterateItem
    <2>2. /\ iterating[d] /\ state' = state
          /\ \A e \in Conns \ {d} : scan'[e] = scan[e] /\ (iterating'[e] <=> iterating[e])
        BY <1>0, <1>8 DEF IterateItem
    <2>3. i # 0
        BY <1>0, <2>1
    <2> QED
        BY <1>0, <2>1, <2>2, <2>3 DEF Looked, Iterates
<1>9. ASSUME NEW d \in Conns, IterateEnd(d) PROVE Same
    <2>1. /\ iterating' = [iterating EXCEPT ![d] = FALSE] /\ scan' = scan /\ iterating[d]
          /\ last_enqueued' = last_enqueued /\ \A e \in Conns \ {d} : state'[e] = state[e]
        BY <1>0, <1>9 DEF IterateEnd
    <2> QED
        BY <1>0, <2>1 DEF Looked
<1>10. ASSUME NEW d \in Conns, ConnStep(d) PROVE Same \/ Takes \/ last_enqueued'[c] # 0
    BY Zenon, <1>1, <1>4, <1>5, <1>6, <1>7, <1>8, <1>9, <1>10
    DEF ConnStep, OnWriteDone, OnReadFails, CheckAgents, AgentOnTransaction, AgentNotStreaming,
        AgentHangs, LockInversion, LinkBreaks, agentVars
<1>11. ASSUME NEW f \in Followers, FollowerStep(f)
       PROVE  UNCHANGED <<state, iterating, scan, last_enqueued>>
    BY Zenon, <1>11 DEF FollowerStep, FollowerStart, OnUpdate, SendAck, FollowerStops, agentVars
<1>12. CASE PrimaryRestarts
    BY Zenon, <1>12 DEF PrimaryRestarts, Looked
<1>13. CASE UNCHANGED vars
    <2>1. UNCHANGED <<state, iterating, scan, last_enqueued>>
        BY Zenon, <1>13 DEF vars, replVars, agentVars
    <2> QED
        BY Zenon, <1>1, <2>1
<1> QED
    BY Zenon, <1>1, <1>2, <1>10, <1>11, <1>12, <1>13 DEF Next

\* Until the first callback after a start has reached an agent at 0, nothing
\* but that callback's transaction has been committed behind its back.
LEMMA StartStep ==
    ASSUME OneThread, FedInv, ThreadInv, [Next]_vars,
           NEW c \in Conns, Iterates(c), StartIsEmpty(c)
    PROVE  StartIsEmpty(c)'
<1> SUFFICES ASSUME Looked(c)', last_enqueued'[c] = 0
             PROVE  /\ last_trxid' = 0 => \A i \in Committed' \ scan'[c] : Pending(i)'
                    /\ notifying' # Idle /\ notifying'.prev = 0 /\ c \in notifying'.todo =>
                           \A i \in Committed' \ scan'[c] : i = notifying'.id
    BY DEF StartIsEmpty
<1> DEFINE First == last_trxid' = 0 => \A i \in Committed' \ scan'[c] : Pending(i)'
           News == notifying' # Idle /\ notifying'.prev = 0 /\ c \in notifying'.todo =>
                        \A i \in Committed' \ scan'[c] : i = notifying'.id
<1>0. TypeOK /\ CommitInv /\ CommitTypeOK /\ PrimaryOK
    BY Zenon DEF FedInv, TypeOK
<1>1. /\ Committed \subseteq Nat /\ 0 \notin Committed /\ last_trxid \in Nat
      /\ \A w \in Writers : replication_id[w] \in Nat
    BY <1>0, MaxTrxIdAssumption DEF Committed, Id0, CommitTypeOK, PrimaryOK
<1>2. CASE /\ scan'[c] = IterateFromPrev(last_enqueued[c])
           /\ last_enqueued'[c] = last_enqueued[c] /\ log' = log
    <2>1. Committed' = Committed /\ scan'[c] = IterateFromPrev(0)
        BY <1>2 DEF Committed
    <2>2. \A i \in Committed : i > 0
        BY <1>1
    <2> QED
        BY Zenon, <2>1, <2>2 DEF IterateFromPrev
<1>3. CASE Looked(c) /\ scan'[c] = scan[c] /\ last_enqueued'[c] = last_enqueued[c]
    <2>0. /\ last_trxid = 0 => \A i \in Committed \ scan'[c] : Pending(i)
          /\ notifying # Idle /\ notifying.prev = 0 /\ c \in notifying.todo =>
                 \A i \in Committed \ scan'[c] : i = notifying.id
        BY Zenon, <1>3 DEF StartIsEmpty
    <2>1. ASSUME NEW w \in Writers, pc[w] # "committed"
          PROVE  notifying = Idle /\ \A i : ~Pending(i)
        BY <1>0, <2>1 DEF ThreadInv, CallbackRuns, Pending, OneThread, PrimaryOK, Notifications
    <2>2. CASE UNCHANGED <<commitVars, last_trxid, notifying>>
        BY <2>0, <2>2 DEF Pending, Committed, commitVars
    <2>3. ASSUME NEW w \in Writers, AssignId(w) \/ CommitFails(w), UNCHANGED <<last_trxid, notifying>>
          PROVE  First /\ News
        <3>1. Committed' = Committed /\ pc[w] # "committed"
            BY <1>0, <2>3 DEF AssignId, CommitFails, Committed, CommitTypeOK
        <3> QED
            BY <2>0, <2>1, <2>3, <3>1
    <2>4. ASSUME NEW w \in Writers, Commit(w), UNCHANGED <<last_trxid, notifying>>
          PROVE  First /\ News
        <3>1. /\ pc[w] = "numbered" /\ pc'[w] = "committed" /\ replication_id' = replication_id
            BY <1>0, <2>4 DEF Commit, CommitTypeOK
        <3>2. Committed' = Committed \cup {replication_id[w]}
            BY <1>0, <2>4, CommitAdds
        <3>3. Pending(replication_id[w])'
            BY Zenon, <3>1 DEF Pending
        <3> QED
            BY Zenon, <2>0, <2>1, <2>4, <3>1, <3>2, <3>3
    <2>5. ASSUME NEW w \in Writers, OnTransaction(w) PROVE First /\ News
        <3>1. pc[w] = "committed" /\ replication_id[w] \in Committed /\ log' = log
            BY <1>0, <2>5
            DEF OnTransaction, CommitInv, CallbackIsCommitted, IsCommitted, Committed,
                CallbackReturns, commitVars
        <3>2. last_trxid' # 0
            BY <1>1, <2>5, <3>1 DEF OnTransaction, IsOld
        <3>3. Committed' = Committed /\ notifying = Idle
            BY <2>5, <3>1 DEF Committed, OnTransaction
        <3>4. notifying' = Idle \/ (notifying'.prev = last_trxid /\ notifying'.id = replication_id[w])
            BY <2>5 DEF OnTransaction
        <3>5. \A i : Pending(i) => i = replication_id[w]
            BY Zenon DEF Pending, OneThread
        <3> QED
            BY <2>0, <3>2, <3>3, <3>4, <3>5
    <2>6. ASSUME NEW d \in Conns, Notifying(d), Notified(d) PROVE First /\ News
        <3>1. /\ notifying # Idle /\ notifying \in Notifications /\ last_trxid' = last_trxid
              /\ last_trxid = notifying.id /\ log' = log
            BY <1>0, <2>6
            DEF Notifying, Notified, PrimaryOK, ThreadInv, CallbackRuns, CallbackReturns, commitVars
        <3>2. last_trxid' # 0 /\ Committed' = Committed
            BY <3>1, MaxTrxIdAssumption DEF Notifications, Ids, Committed
        <3>3. notifying' = Idle \/ (/\ notifying'.prev = notifying.prev /\ notifying'.id = notifying.id
                                    /\ notifying'.todo \subseteq notifying.todo)
            BY <2>6, <3>1 DEF Notified, Notifications
        <3> QED
            BY <2>0, <3>1, <3>2, <3>3
    <2>7. CASE PrimaryRestarts
        BY <2>7 DEF PrimaryRestarts, Looked
    <2> QED
        BY Zenon, <1>0, <2>2, <2>3, <2>4, <2>5, <2>6, <2>7, CallbackMoves
<1> QED
    BY <1>0, <1>2, <1>3, LookMoves

-----------------------------------------------------------------------------
(* The streams.                                                            *)

\* A stream that is done stays so until the primary restarts.
LEMMA DoneStays ==
    ASSUME TypeOK, [Next]_vars, NEW c \in Conns, is_done[c]
    PROVE  is_done'[c] \/ Forgets(c)
<1>0. is_done \in [Conns -> BOOLEAN]
    BY DEF TypeOK, ClientOK
<1>1. ASSUME NEW w \in Writers, CommitStep(w) \/ OnTransaction(w) PROVE is_done' = is_done
    BY Zenon, <1>1 DEF CommitStep, OnTransaction, replVars, clientVars
<1>2. ASSUME NEW d \in Conns, OnReadFails(d) PROVE is_done'[c]
    BY <1>0, <1>2 DEF OnReadFails
<1>3. ASSUME NEW d \in Conns, IterateItem(d) PROVE is_done' = is_done
    BY Zenon, <1>3 DEF IterateItem, Enqueue, Flush, clientVars
<1>4. ASSUME NEW d \in Conns, ConnStep(d), ~OnReadFails(d), ~IterateItem(d) PROVE is_done' = is_done
    BY Zenon, <1>4
    DEF ConnStep, OnWriteDone, OnReadDone, CheckAgents, AgentOnTransaction, AgentNotStreaming,
        AgentEnqueues, Enqueue, Flush, AgentIsRefused, AgentOutOfSync, AgentHangs, LockInversion,
        SyncTask, IterateEnd, OnDone, Housekeeping, LinkBreaks, clientVars
<1>5. ASSUME NEW f \in Followers, FollowerStep(f) PROVE is_done' = is_done
    BY Zenon, <1>5 DEF FollowerStep, FollowerStart, OnUpdate, SendAck, FollowerStops, clientVars
<1>6. CASE PrimaryRestarts
    BY <1>6 DEF PrimaryRestarts, Forgets
<1>7. CASE UNCHANGED vars
    BY <1>7 DEF vars, replVars, clientVars
<1> QED
    BY Zenon, <1>1, <1>2, <1>3, <1>4, <1>5, <1>6, <1>7 DEF Next

\* What may be sent next comes right after the position: iterateDb() because
\* ids are committed in order, the callback because the agent is in step.
LEMMA NextIsAdjacent ==
    ASSUME GapInv, NEW c \in Conns, NEW id \in Committed,
           \/ id \in scan[c] /\ \A j \in scan[c] : id <= j
           \/ Notifying(c) /\ InStep(c) /\ id = notifying.id,
           NEW i \in Committed, i < id
    PROVE  i <= last_enqueued[c]
<1>0. /\ FedInv /\ ThreadInv /\ Iterates(c) /\ ScanIsClosed(c) /\ StartIsEmpty(c) /\ PrimaryOK
    BY Zenon DEF GapInv, OrderInv, ConnInOrder, FedInv, TypeOK
<1>1. Committed \subseteq Nat /\ last_enqueued[c] \in Nat /\ i \in Nat /\ id \in Nat
    BY <1>0, IdsAreCommitted
<1>2. CASE id \in scan[c] /\ \A j \in scan[c] : id <= j
    <2>1. i \notin scan[c]
        BY <1>1, <1>2
    <2>2. ASSUME last_enqueued[c] < i PROVE FALSE
        <3>1. OrderedIn(log, id, i)
            BY Zenon, <1>0, <1>2, <2>1, <2>2 DEF ScanIsClosed
        <3>2. id < i
            BY <1>0, <3>1 DEF ThreadInv, LogAscends
        <3> QED
            BY <1>1, <3>2
    <2> QED
        BY <1>1, <2>2
<1>3. CASE Notifying(c) /\ InStep(c) /\ id = notifying.id
    <2>1. /\ notifying # Idle /\ c \in notifying.todo /\ notifying.prev = last_enqueued[c]
          /\ state[c] = "STREAMING" /\ Looked(c)
        BY <1>3 DEF Notifying, InStep, Looked
    <2>2. scan[c] = {}
        BY Zenon, <1>0, <2>1 DEF Iterates
    <2>3. i # notifying.id
        BY <1>1, <1>3
    <2>4. CASE notifying.prev # 0
        BY Zenon, <1>0, <2>1, <2>3, <2>4 DEF ThreadInv, PrevIsUpToDate
    <2>5. CASE notifying.prev = 0
        BY <1>0, <2>1, <2>2, <2>3, <2>5 DEF StartIsEmpty
    <2> QED
        BY <2>4, <2>5
<1> QED
    BY <1>2, <1>3

\* Every step keeps the streams without gaps.
LEMMA GapStep ==
    ASSUME GapInv, FedInv', ThreadInv', [Next]_vars, NEW c \in Conns
    PROVE  PositionIsCommitted(c)' /\ StreamIsComplete(c)' /\ StreamHasNoGap(c)'
<1>0. /\ FedInv /\ TypeOK /\ CommitInv /\ ThreadInv /\ CallbackFromLog
      /\ PositionIsCommitted(c) /\ StreamIsComplete(c) /\ StreamHasNoGap(c)
    BY Zenon DEF GapInv, OrderInv, FedInv
<1>1. /\ Committed \subseteq Nat /\ last_enqueued[c] \in Nat /\ scan[c] \subseteq Committed
      /\ stream[c] \in Seq(Updates) /\ \A m \in DOMAIN stream[c] : stream[c][m].id \in Committed
    BY <1>0, IdsAreCommitted
<1>2. Committed' \subseteq Nat /\ 0 \notin Committed' /\ Committed \subseteq Committed'
    <2>1. Committed' \subseteq Nat /\ 0 \notin Committed'
        <3>1. log' \in Seq(1..MaxTrxId)
            BY DEF FedInv, TypeOK, CommitTypeOK
        <3> QED
            BY <3>1, LogIsNumbers DEF Committed
    <2> QED
        BY <1>0, <2>1, CommitPart, CommittedGrows
<1>3. \A a \in Committed, b \in Committed' \ Committed : a < b
    <2>1. \A a \in Committed, b \in Committed' \ Committed : OrderedIn(log', a, b)
        BY <1>0, CommitPart, CommitOrderKept
    <2> QED
        BY <1>2, <2>1 DEF ThreadInv, LogAscends
\* What is committed in this step is behind the position and every update.
<1>4. ASSUME NEW i \in Committed', NEW k \in {0} \cup Committed, i <= k PROVE i \in Committed
    <2>1. i \in Nat /\ i # 0 /\ k \in Nat
        BY <1>1, <1>2, <1>4
    <2>2. k \in Committed
        BY <1>4, <2>1
    <2> QED
        BY <1>3, <1>4, <2>1, <2>2
<1>5. ASSUME stream'[c] = stream[c]
      PROVE  StreamHasNoGap(c)'
    <2>1. ASSUME NEW n \in DOMAIN stream[c], NEW i \in Committed', i < stream[c][n].id
          PROVE  i \in Committed
        <3>1. stream[c][n].id \in Committed /\ stream[c][n].id \in Nat /\ i \in Nat
            BY Zenon, <1>1, <1>2
        <3> QED
            BY <1>4, <2>1, <3>1
    <2> QED
        BY <1>0, <1>5, <2>1 DEF StreamHasNoGap
<1>6. ASSUME ~is_done[c], NEW i \in Committed', i <= last_enqueued[c]
      PROVE  i \in Committed /\ \E m \in DOMAIN stream[c] : stream[c][m].id = i
    <2>1. i \in Committed
        BY Zenon, <1>0, <1>4, <1>6 DEF PositionIsCommitted
    <2> QED
        BY <1>0, <1>6, <2>1 DEF StreamIsComplete
\* One update is added, all smaller ids being up to the position.
<1>7. ASSUME ~is_done[c], NEW u \in Updates, u.id \in Committed, stream'[c] = Append(stream[c], u),
             \A i \in Committed : i < u.id => i <= last_enqueued[c],
             last_enqueued'[c] = u.id \/ last_enqueued'[c] = last_enqueued[c]
      PROVE  PositionIsCommitted(c)' /\ StreamIsComplete(c)' /\ StreamHasNoGap(c)'
    <2>0. u.id \in Nat
        BY Zenon, <1>1, <1>7
    <2>1. PositionIsCommitted(c)'
        BY Zenon, <1>0, <1>2, <1>7 DEF PositionIsCommitted
    <2>2. /\ DOMAIN stream'[c] = DOMAIN stream[c] \cup {Len(stream[c]) + 1}
          /\ DOMAIN stream[c] = 1..Len(stream[c]) /\ Len(stream[c]) \in Nat
          /\ \A m \in DOMAIN stream[c] : stream'[c][m] = stream[c][m]
          /\ stream'[c][Len(stream[c]) + 1] = u
        BY Zenon, <1>1, <1>7, StreamGrows
    <2>3. ASSUME NEW i \in Committed', i < u.id
          PROVE  \E m \in DOMAIN stream[c] : stream[c][m].id = i
        <3>1. i \in Committed
            BY <1>2, <1>4, <1>7, <2>0, <2>3
        <3> QED
            BY <1>6, <1>7, <2>3, <3>1
    <2>4. StreamIsComplete(c)'
        <3>1. ASSUME NEW i \in Committed', i <= last_enqueued'[c]
              PROVE  \E m \in DOMAIN stream'[c] : stream'[c][m].id = i
            <4>1. CASE last_enqueued'[c] = last_enqueued[c]
                BY <1>6, <1>7, <2>2, <3>1, <4>1
            <4>2. CASE i = u.id
                BY <2>2, <4>2
            <4>3. CASE last_enqueued'[c] = u.id /\ i # u.id
                <5>1. i < u.id
                    BY <1>2, <2>0, <3>1, <4>3
                <5> QED
                    BY <2>2, <2>3, <5>1
            <4> QED
                BY Zenon, <1>7, <4>1, <4>2, <4>3
        <3> QED
            BY <3>1 DEF StreamIsComplete
    <2>5. ASSUME NEW n \in DOMAIN stream'[c], NEW i \in Committed', i < stream'[c][n].id
          PROVE  \E m \in 1..(n - 1) : stream'[c][m].id = i
        <3>1. CASE n \in DOMAIN stream[c]
            <4>1. stream[c][n].id \in Committed /\ i \in Nat /\ stream[c][n].id \in Nat /\ i < stream[c][n].id
                BY Zenon, <1>1, <1>2, <2>2, <2>5, <3>1
            <4>2. i \in Committed
                BY <1>4, <4>1
            <4>3. PICK m \in 1..(n - 1) : stream[c][m].id = i
                BY Zenon, <1>0, <3>1, <4>1, <4>2 DEF StreamHasNoGap
            <4>4. m \in DOMAIN stream[c]
                BY <2>2, <3>1
            <4> QED
                BY <2>2, <4>3, <4>4
        <3>2. CASE n = Len(stream[c]) + 1
            <4>1. PICK m \in DOMAIN stream[c] : stream[c][m].id = i
                BY Zenon, <2>2, <2>3, <2>5, <3>2
            <4>2. m \in 1..(n - 1)
                BY <2>2, <3>2
            <4> QED
                BY Zenon, <2>2, <4>1, <4>2
        <3> QED
            BY Zenon, <2>2, <3>1, <3>2
    <2> QED
        BY <2>1, <2>4, <2>5 DEF StreamHasNoGap
<1>8. CASE Forgets(c)
    <2>1. stream'[c] = << >> /\ last_enqueued'[c] = 0 /\ \A i \in Committed' : ~(i <= 0)
        BY <1>2, <1>8 DEF Forgets
    <2> QED
        BY <2>1 DEF PositionIsCommitted, StreamIsComplete, StreamHasNoGap
<1>9. CASE Rests(c) /\ ~Forgets(c)
    <2>1. stream'[c] = stream[c] /\ last_enqueued'[c] = last_enqueued[c]
        BY <1>9 DEF Rests, Keeps
    <2>2. PositionIsCommitted(c)'
        BY Zenon, <1>0, <1>2, <2>1 DEF PositionIsCommitted
    <2>3. StreamIsComplete(c)'
        BY ZenonT(30), <1>0, <1>6, <1>9, <2>1, DoneStays DEF StreamIsComplete
    <2> QED
        BY Zenon, <1>5, <2>1, <2>2, <2>3
<1>10. CASE SendsItem(c)
    <2>1. PICK u \in Updates :
            /\ u.id \in scan[c] /\ \A j \in scan[c] : u.id <= j
            /\ stream'[c] = Append(stream[c], u)
            /\ last_enqueued'[c] = u.id \/ last_enqueued'[c] = last_enqueued[c]
        BY Zenon, <1>10 DEF SendsItem
    <2>2. ~is_done[c] /\ u.id \in Committed
        BY ZenonT(30), <1>1, <1>10, <2>1 DEF SendsItem
    <2>3. \A i \in Committed : i < u.id => i <= last_enqueued[c]
        BY ZenonT(30), <2>1, <2>2, NextIsAdjacent
    <2> QED
        BY <1>7, <2>1, <2>2, <2>3
<1>11. CASE SendsNews(c) /\ ~Forgets(c)
    <2>1. Notifying(c) /\ InStep(c) /\ notifying.id \in Committed
        BY ZenonT(30), <1>0, <1>11 DEF SendsNews, Notifying, CallbackFromLog
    <2>2. ASSUME ~is_done[c], NEW u \in Updates, u.id = notifying.id, stream'[c] = Append(stream[c], u),
                 last_enqueued'[c] = notifying.id \/ last_enqueued'[c] = last_enqueued[c]
          PROVE  PositionIsCommitted(c)' /\ StreamIsComplete(c)' /\ StreamHasNoGap(c)'
        <3>1. \A i \in Committed : i < u.id => i <= last_enqueued[c]
            BY <2>1, <2>2, NextIsAdjacent
        <3> QED
            BY <1>7, <2>1, <2>2, <3>1
    <2>3. ASSUME is_done[c], stream'[c] = stream[c], last_enqueued'[c] = notifying.id
          PROVE  PositionIsCommitted(c)' /\ StreamIsComplete(c)' /\ StreamHasNoGap(c)'
        <3>1. is_done'[c]
            BY <1>0, <1>11, <2>3, DoneStays
        <3> QED
            BY Zenon, <1>2, <1>5, <2>1, <2>3, <3>1 DEF PositionIsCommitted, StreamIsComplete
    <2> QED
        BY Zenon, <1>11, <2>2, <2>3 DEF SendsNews
<1> QED
    BY <1>0, <1>8, <1>9, <1>10, <1>11, StreamMoves

\* The empty system has no gaps.
LEMMA InitGap == Init => GapInv
<1> SUFFICES ASSUME Init PROVE GapInv
    BY Zenon
<1>1. Committed = {} /\ notifying = Idle /\ \A w \in Writers : pc[w] = "open"
    BY DEF Init, CommitInit, Committed
<1>2. ThreadInv
    BY <1>1 DEF ThreadInv, LogAscends, NumberedIsNewest, CommittedIsNewest, CallbackRuns,
        LastIsUpToDate, PrevIsUpToDate
<1>3. ASSUME NEW c \in Conns
      PROVE  StartIsEmpty(c) /\ PositionIsCommitted(c) /\ StreamIsComplete(c) /\ StreamHasNoGap(c)
    BY Zenon, <1>1 DEF Init, StartIsEmpty, PositionIsCommitted, StreamIsComplete, StreamHasNoGap
<1> QED
    BY <1>2, <1>3, InitOrder DEF GapInv

\* Every step keeps the invariant.
LEMMA NextGap ==
    ASSUME OneThread
    PROVE  GapInv /\ [Next]_vars => GapInv'
<1> SUFFICES ASSUME GapInv, [Next]_vars PROVE GapInv'
    OBVIOUS
<1>1. OrderInv /\ FedInv /\ ThreadInv
    BY DEF GapInv, OrderInv
<1>2. OrderInv' /\ FedInv'
    BY <1>1, NextOrder DEF OrderInv
<1>3. ThreadInv'
    BY <1>1, <1>2, ThreadStep
<1>4. ASSUME NEW c \in Conns PROVE StartIsEmpty(c)'
    BY <1>1, StartStep DEF GapInv, OrderInv, ConnInOrder
<1> QED
    BY <1>2, <1>3, <1>4, GapStep DEF GapInv

\* The inductive invariant, for one committing thread.
THEOREM GapInvariance == ASSUME OneThread PROVE Spec => []GapInv
  BY InitGap, NextGap, PTL DEF Spec

\* With one committing thread an update that carries isInSync follows every
\* committed transaction with a smaller id on its stream, also after a full
\* queue, a missed callback or a restart of the primary.
THEOREM InSyncIsTrue == ASSUME OneThread PROVE Spec => []InSyncMeansNoBacklog
<1>1. GapInv => InSyncMeansNoBacklog
    BY DEF GapInv, StreamHasNoGap, InSyncMeansNoBacklog
<1> QED
    BY <1>1, GapInvariance, PTL

-----------------------------------------------------------------------------
(* The followers.                                                          *)

\* A follower reads the updates of a stream one by one and applies each.
LEMMA ReadMoves ==
    ASSUME UpdatesApply, TypeOK, StreamIsOwn, [Next]_vars
    PROVE  \/ received' = received /\ applied' = applied
           \/ received' = [c \in Conns |-> 0] /\ applied' = applied
           \/ \E c \in Conns :
                /\ received[c] + 1 \in DOMAIN stream[c] /\ stream' = stream
                /\ received' = [received EXCEPT ![c] = received[c] + 1]
                /\ applied' = [applied EXCEPT ![Owner[c]] =
                                  applied[Owner[c]] \cup {stream[c][received[c] + 1].id}]
<1>1. ASSUME NEW w \in Writers, CommitStep(w) \/ OnTransaction(w)
      PROVE  received' = received /\ applied' = applied
    BY Zenon, <1>1 DEF CommitStep, OnTransaction, replVars, netVars, followerVars
<1>2. ASSUME NEW c \in Conns, ConnStep(c) PROVE received' = received /\ applied' = applied
    BY Zenon, <1>2
    DEF ConnStep, OnWriteDone, OnReadDone, OnReadFails, CheckAgents, AgentOnTransaction,
        AgentNotStreaming, AgentEnqueues, AgentIsRefused, AgentOutOfSync, AgentHangs, LockInversion,
        Notified, SyncTask, IterateItem, IterateEnd, OnDone, Housekeeping, LinkBreaks,
        netVars, followerVars
<1>3. ASSUME NEW f \in Followers, OnUpdate(f, TRUE)
      PROVE  \E c \in Conns :
                /\ received[c] + 1 \in DOMAIN stream[c] /\ stream' = stream
                /\ received' = [received EXCEPT ![c] = received[c] + 1]
                /\ applied' = [applied EXCEPT ![Owner[c]] =
                                  applied[Owner[c]] \cup {stream[c][received[c] + 1].id}]
    <2> DEFINE c == conn[f]
    <2>1. c \in Conns /\ Owner[c] = f
        BY <1>3 DEF OnUpdate, TypeOK, FollowerOK, StreamIsOwn
    <2>2. /\ received \in [Conns -> Nat] /\ sent \in [Conns -> Nat] /\ stream[c] \in Seq(Updates)
          /\ sent[c] <= Len(stream[c])
        BY <2>1 DEF TypeOK, NetOK, ClientOK, PositionsOK
    <2>3. /\ received[c] < sent[c] /\ received' = [received EXCEPT ![c] = received[c] + 1]
          /\ applied' = [applied EXCEPT ![f] = OnTrx(f, stream[c][received'[c]].id)]
          /\ stream' = stream
        BY Zenon, <1>3 DEF OnUpdate, clientVars
    <2> HIDE DEF c
    <2>5. received'[c] = received[c] + 1 /\ received[c] \in Nat /\ sent[c] \in Nat
        BY Zenon, <2>1, <2>2, <2>3
    <2>6. received[c] < sent[c] /\ stream[c] \in Seq(Updates) /\ sent[c] <= Len(stream[c])
        BY Zenon, <2>2, <2>3
    <2>4. received'[c] = received[c] + 1 /\ received[c] + 1 \in DOMAIN stream[c]
        BY <2>5, <2>6
    <2> QED
        BY ZenonT(30), <2>1, <2>3, <2>4 DEF OnTrx
<1>4. ASSUME NEW f \in Followers, FollowerStep(f), ~OnUpdate(f, TRUE)
      PROVE  received' = received /\ applied' = applied
    BY Zenon, <1>4
    DEF FollowerStep, FollowerStart, OnUpdate, Fault, UpdatesApply, SendAck, FollowerStops
<1>5. CASE PrimaryRestarts
    BY Zenon, <1>5 DEF PrimaryRestarts, followerVars
<1>6. CASE UNCHANGED vars
    BY Zenon, <1>6 DEF vars, replVars, netVars, followerVars
<1> QED
    BY Zenon, <1>1, <1>2, <1>3, <1>4, <1>5, <1>6 DEF Next

\* Updates are only added at the end of a stream.
LEMMA PrefixKept ==
    ASSUME TypeOK, [Next]_vars, NEW c \in Conns,
           NEW m \in DOMAIN stream'[c], m <= received[c]
    PROVE  m \in DOMAIN stream[c] /\ stream'[c][m] = stream[c][m]
<1>1. /\ stream[c] \in Seq(Updates) /\ received[c] \in Nat /\ sent[c] \in Nat
      /\ received[c] <= sent[c] /\ sent[c] <= Len(stream[c])
    BY DEF TypeOK, ClientOK, NetOK, PositionsOK
<1>2. \/ stream'[c] = stream[c] \/ stream'[c] = << >>
      \/ \E u \in Updates : stream'[c] = Append(stream[c], u)
    BY Zenon, StreamMoves DEF Rests, Keeps, SendsItem, SendsNews, Forgets
<1>3. CASE stream'[c] = << >>
    BY <1>3
<1>4. ASSUME NEW u \in Updates, stream'[c] = Append(stream[c], u)
      PROVE  m \in DOMAIN stream[c] /\ stream'[c][m] = stream[c][m]
    <2>1. /\ DOMAIN stream'[c] = DOMAIN stream[c] \cup {Len(stream[c]) + 1}
          /\ Len(stream[c]) \in Nat /\ \A n \in DOMAIN stream[c] : stream'[c][n] = stream[c][n]
        BY Zenon, <1>1, <1>4, StreamGrows
    <2>2. m # Len(stream[c]) + 1
        BY <1>1, <2>1
    <2> QED
        BY Zenon, <2>1, <2>2
<1> QED
    BY Zenon, <1>2, <1>3, <1>4

\* Every step keeps the followers' databases without gaps.
LEMMA AppliedStep ==
    ASSUME UpdatesApply, AppliedInv, ThreadInv', [Next]_vars
    PROVE  /\ \A c \in Conns : ReadIsApplied(c)'
           /\ \A f \in Followers : AppliedHasNoGap(f)'
<1>0. /\ FedInv /\ TypeOK /\ CommitInv /\ StreamIsOwn /\ FollowersHoldOnlyCommitted
      /\ \A c \in Conns : ReadIsApplied(c) /\ StreamHasNoGap(c)
      /\ \A f \in Followers : AppliedHasNoGap(f)
    BY DEF AppliedInv, GapInv, DurableInv, FedInv
<1>1. /\ received \in [Conns -> Nat] /\ applied \in [Followers -> SUBSET Ids]
      /\ \A c \in Conns : Owner[c] \in Followers
    BY Zenon, <1>0, ReplicationAssumption DEF TypeOK, NetOK, FollowerOK
<1>2. /\ Committed \subseteq Nat /\ Committed \subseteq Committed'
      /\ \A c \in Conns : /\ stream[c] \in Seq(Updates)
                          /\ \A m \in DOMAIN stream[c] : stream[c][m].id \in Committed
    <2>1. ASSUME NEW c \in Conns
          PROVE  /\ stream[c] \in Seq(Updates)
                 /\ \A m \in DOMAIN stream[c] : stream[c][m].id \in Committed
        BY <1>0, IdsAreCommitted
    <2>2. Committed \subseteq Nat
        BY Zenon, <1>0, Numbers
    <2> QED
        BY Zenon, <1>0, <2>1, <2>2, CommitPart, CommittedGrows
<1>3. \A a \in Committed, b \in Committed' \ Committed : a < b
    <2>1. \A a \in Committed, b \in Committed' \ Committed : OrderedIn(log', a, b)
        BY <1>0, CommitPart, CommitOrderKept
    <2> QED
        BY <1>2, <2>1 DEF ThreadInv, LogAscends
<1>4. ASSUME NEW i \in Committed', NEW k \in Committed, i < k PROVE i \in Committed
    <2>1. CASE i \notin Committed
        <3>1. log' \in Seq(1..MaxTrxId)
            BY Zenon, <1>0, NextFed DEF FedInv, TypeOK, CommitTypeOK
        <3>2. i \in Nat /\ k \in Nat
            BY <1>2, <3>1, LogIsNumbers DEF Committed
        <3>3. k < i
            BY <1>3, <2>1
        <3> QED
            BY <1>4, <3>2, <3>3
    <2> QED
        BY <2>1
<1>5. ASSUME NEW c \in Conns PROVE ReadIsApplied(c)'
    <2>1. ASSUME received'[c] = received[c], applied[Owner[c]] \subseteq applied'[Owner[c]]
          PROVE  ReadIsApplied(c)'
        BY Zenon, <1>0, <2>1, PrefixKept DEF ReadIsApplied
    <2>2. CASE received' = received /\ applied' = applied
        BY Zenon, <2>1, <2>2
    <2>3. CASE received' = [d \in Conns |-> 0] /\ applied' = applied
        <3>1. received'[c] = 0 /\ received[c] \in Nat
            BY Zenon, <1>1, <2>3
        <3>2. \A m \in DOMAIN stream'[c] : ~(m <= 0)
            BY NextFed, <1>0 DEF FedInv, TypeOK, ClientOK
        <3> QED
            BY <3>1, <3>2 DEF ReadIsApplied
    <2>4. ASSUME NEW d \in Conns, received[d] + 1 \in DOMAIN stream[d], stream' = stream,
                 received' = [received EXCEPT ![d] = received[d] + 1],
                 applied' = [applied EXCEPT ![Owner[d]] =
                                applied[Owner[d]] \cup {stream[d][received[d] + 1].id}]
          PROVE  ReadIsApplied(c)'
        <3>1. applied[Owner[c]] \subseteq applied'[Owner[c]]
            BY Zenon, <1>1, <2>4
        <3>2. CASE c # d
            BY <1>1, <2>1, <2>4, <3>1, <3>2
        <3>3. CASE c = d
            <4>1. received'[c] = received[c] + 1 /\ received[c] \in Nat
                BY Zenon, <1>1, <2>4, <3>3
            <4>2. stream[c][received[c] + 1].id \in applied'[Owner[c]]
                BY Zenon, <1>1, <2>4, <3>3
            <4>3. ASSUME NEW m \in DOMAIN stream[c], m <= received[c] + 1
                  PROVE  stream[c][m].id \in applied'[Owner[c]]
                <5>1. m \in Nat
                    BY <1>2
                <5>2. m <= received[c] \/ m = received[c] + 1
                    BY <4>1, <4>3, <5>1
                <5> QED
                    BY Zenon, <1>0, <3>1, <4>2, <5>2 DEF ReadIsApplied
            <4> QED
                BY Zenon, <2>4, <4>1, <4>3 DEF ReadIsApplied
        <3> QED
            BY <3>2, <3>3
    <2> QED
        BY Zenon, <1>0, <2>2, <2>3, <2>4, ReadMoves
<1>6. ASSUME NEW f \in Followers PROVE AppliedHasNoGap(f)'
    <2>1. applied[f] \subseteq Committed
        BY Zenon, <1>0 DEF FollowersHoldOnlyCommitted
    <2>2. ASSUME NEW j \in applied[f], NEW i \in Committed', i < j PROVE i \in applied[f]
        BY Zenon, <1>0, <1>4, <2>1, <2>2 DEF AppliedHasNoGap
    <2>3. CASE applied'[f] = applied[f]
        BY Zenon, <2>2, <2>3 DEF AppliedHasNoGap
    <2>4. ASSUME NEW c \in Conns, received[c] + 1 \in DOMAIN stream[c], f = Owner[c],
                 applied' = [applied EXCEPT ![Owner[c]] =
                                applied[Owner[c]] \cup {stream[c][received[c] + 1].id}]
          PROVE  AppliedHasNoGap(f)'
        <3>1. applied'[f] = applied[f] \cup {stream[c][received[c] + 1].id}
            BY ZenonT(30), <1>1, <2>4
        <3>2. ASSUME NEW i \in Committed', i < stream[c][received[c] + 1].id PROVE i \in applied[f]
            <4>1. i \in Committed
                BY Zenon, <1>2, <1>4, <2>4, <3>2
            <4>2. PICK m \in 1..((received[c] + 1) - 1) : stream[c][m].id = i
                BY ZenonT(30), <1>0, <2>4, <3>2, <4>1 DEF StreamHasNoGap
            <4>3. received[c] \in Nat /\ stream[c] \in Seq(Updates)
                BY Zenon, <1>1, <1>2
            <4>4. m \in DOMAIN stream[c] /\ m <= received[c]
                BY <2>4, <4>3
            <4> QED
                BY <1>0, <2>4, <4>2, <4>4 DEF ReadIsApplied
        <3> QED
            BY Zenon, <2>2, <3>1, <3>2 DEF AppliedHasNoGap
    <2> QED
        BY <1>0, <1>1, <2>3, <2>4, ReadMoves
<1> QED
    BY <1>5, <1>6

\* Nothing has been read at the start, and every step keeps the invariant.
LEMMA AppliedInvariant ==
    ASSUME OneThread, UpdatesApply
    PROVE  /\ Init => AppliedInv
           /\ AppliedInv /\ [Next]_vars => AppliedInv'
<1>1. ASSUME Init PROVE AppliedInv
    <2>1. ASSUME NEW c \in Conns PROVE ReadIsApplied(c)
        BY <1>1 DEF Init, ReadIsApplied
    <2>2. ASSUME NEW f \in Followers PROVE AppliedHasNoGap(f)
        BY <1>1 DEF Init, AppliedHasNoGap
    <2> QED
        BY Zenon, <1>1, <2>1, <2>2, InitGap, InitDurable DEF AppliedInv
<1>2. ASSUME AppliedInv, [Next]_vars PROVE AppliedInv'
    <2>1. GapInv' /\ DurableInv' /\ ThreadInv'
        BY <1>2, NextGap, NextDurable DEF AppliedInv, GapInv
    <2> QED
        BY <1>2, <2>1, AppliedStep DEF AppliedInv
<1> QED
    BY <1>1, <1>2

\* The inductive invariant: neither a stream nor a follower has a gap.
THEOREM AppliedInvariance == ASSUME OneThread, UpdatesApply PROVE Spec => []AppliedInv
  BY AppliedInvariant, PTL DEF Spec

\* What is confirmed is all there, up to the confirmed id.
LEMMA NoGapBelowConfirmed == AppliedInv => ConfirmedUpTo
<1> SUFFICES ASSUME AppliedInv, NEW c \in Conns, NEW i \in Committed, i <= last_confirmed[c]
             PROVE  i \in applied[Owner[c]]
    BY Zenon DEF ConfirmedUpTo
<1>1. /\ last_confirmed[c] \in {0} \cup applied[Owner[c]] /\ Owner[c] \in Followers
      /\ AppliedHasNoGap(Owner[c]) /\ TypeOK
    BY Zenon, ReplicationAssumption DEF AppliedInv, DurableInv, ConfirmedIsDurable, FedInv
<1>2. i \in Nat /\ i # 0 /\ last_confirmed[c] \in Nat
    BY <1>1, Numbers
<1>3. last_confirmed[c] \in applied[Owner[c]]
    BY <1>1, <1>2
<1> QED
    BY <1>1, <1>2, <1>3 DEF AppliedHasNoGap

\* With one committing thread and followers that apply what they read, "the
\* replica has committed transactions up to trxId" is true of every id that
\* onTrxId() records, whatever link, process or queue fails in between.
THEOREM ConfirmedIsUpTo == ASSUME OneThread, UpdatesApply PROVE Spec => []ConfirmedUpTo
  BY NoGapBelowConfirmed, AppliedInvariance, PTL

\* checkAgents() releases the requests that wait for replication only when
\* every streaming follower has all transactions up to the released id, under
\* the same conditions.
THEOREM ReleasesAreReplicated ==
    ASSUME OneThread, UpdatesApply PROVE Spec => ReleasedMeansReplicated
<1> DEFINE Released ==
        min_trx' > min_trx =>
            \A c \in Conns : state[c] = "STREAMING" =>
                \A i \in Committed : i <= min_trx' => i \in applied[Owner[c]]
<1>1. ASSUME AppliedInv, Next PROVE Released
    <2>1. TypeOK /\ min_trx \in Nat /\ Committed \subseteq Nat /\ last_confirmed \in [Conns -> Nat]
        <3>1. TypeOK
            BY <1>1 DEF AppliedInv, DurableInv, FedInv
        <3> QED
            BY <3>1, Numbers
    <2>2. ASSUME min_trx' > min_trx
          PROVE  \E m \in Confirmed : IsLowest(m) /\ min_trx' = m
        <3>1. ASSUME min_trx' \in {0, min_trx} PROVE FALSE
            BY <2>1, <2>2, <3>1
        <3>2. ASSUME NEW w \in Writers, CommitStep(w) \/ OnTransaction(w) PROVE min_trx' = min_trx
            BY Zenon, <3>2 DEF CommitStep, OnTransaction, replVars, primaryVars
        <3>3. ASSUME NEW c \in Conns, CheckAgents(c)
              PROVE  \E m \in Confirmed : IsLowest(m) /\ min_trx' = m
            <4>1. \E m \in Confirmed : IsLowest(m) /\ m > min_trx
                BY Zenon, <3>1, <3>3 DEF CheckAgents
            <4>2. min_trx' = CHOOSE m \in Confirmed : IsLowest(m)
                BY Zenon, <3>3, <4>1 DEF CheckAgents
            <4> QED
                BY Zenon, <4>1, <4>2
        <3>4. ASSUME NEW c \in Conns, ConnStep(c), ~CheckAgents(c) PROVE min_trx' = min_trx
            BY Zenon, <3>4
            DEF ConnStep, OnWriteDone, OnReadDone, OnReadFails, AgentOnTransaction,
                AgentNotStreaming, AgentEnqueues, AgentIsRefused, AgentOutOfSync, AgentHangs,
                LockInversion, Notified, SyncTask, IterateItem, IterateEnd, OnDone, Housekeeping,
                LinkBreaks, primaryVars
        <3>5. ASSUME NEW f \in Followers, FollowerStep(f) PROVE min_trx' = min_trx
            BY Zenon, <3>5 DEF FollowerStep, FollowerStart, OnUpdate, SendAck, FollowerStops, primaryVars
        <3>6. CASE PrimaryRestarts
            BY <3>1, <3>6 DEF PrimaryRestarts
        <3> QED
            BY <1>1, <3>1, <3>2, <3>3, <3>4, <3>5, <3>6 DEF Next
    <2>3. ASSUME NEW m \in Confirmed, IsLowest(m), min_trx' = m, NEW c \in Conns,
                 state[c] = "STREAMING", NEW i \in Committed, i <= min_trx'
          PROVE  i \in applied[Owner[c]]
        <3>1. last_confirmed[c] \in Confirmed /\ m \in Nat /\ i \in Nat
            BY <2>1, <2>3 DEF Confirmed
        <3>2. m <= last_confirmed[c] /\ last_confirmed[c] \in Nat
            BY <2>1, <2>3, <3>1 DEF IsLowest
        <3>3. i <= last_confirmed[c]
            BY <2>3, <3>1, <3>2
        <3> QED
            BY <1>1, <3>3, NoGapBelowConfirmed DEF ConfirmedUpTo
    <2> QED
        BY <2>2, <2>3
<1>2. AppliedInv /\ [Next]_vars => [Released]_vars
    BY <1>1
<1> QED
    BY <1>2, AppliedInvariance, PTL DEF Spec, ReleasedMeansReplicated
=============================================================================
