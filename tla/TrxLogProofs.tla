---------------------------- MODULE TrxLogProofs ----------------------------
(***************************************************************************)
(* Proofs about the storage layer's transactions, for any number of        *)
(* threads, keys, values and transactions.                                 *)
(***************************************************************************)
EXTENDS TrxLog, TLAPS

\* Time for a leaf that names no prover.
USE SMTT(30), ZenonT(30)

\* Every step changes the log by appending the entry of a numbered
\* transaction, or not at all.
LEMMA AppendFacts ==
    ASSUME NEW S, NEW s \in Seq(S), NEW e \in S
    PROVE  /\ Append(s, e) \in Seq(S)
           /\ DOMAIN Append(s, e) = (DOMAIN s) \cup {Len(s) + 1}
           /\ Len(s) + 1 \notin DOMAIN s
           /\ \A i \in DOMAIN s : Append(s, e)[i] = s[i] /\ i < Len(s) + 1
           /\ Append(s, e)[Len(s) + 1] = e
  OBVIOUS

\* Type correctness of one transaction step, per action.
LEMMA TypeStep == TypeOK /\ IdsHandedOut /\ [Next]_vars => TypeOK'
<1> SUFFICES ASSUME TypeOK, IdsHandedOut, [Next]_vars PROVE TypeOK'
    OBVIOUS
<1> USE MaxTrxIdAssumption DEF TypeOK, Parts, NoParts
<1>1. ASSUME NEW w \in Writers, NEW k \in Keys, NEW v \in Values \cup {Deleted}, Change(w, k, v)
      PROVE  TypeOK'
    BY <1>1 DEF Change
<1>2. ASSUME NEW w \in Writers, NEW k \in Keys, RemoveTimesOut(w, k) PROVE TypeOK'
    BY <1>2 DEF RemoveTimesOut
<1>3. ASSUME NEW w \in Writers, Rollback(w) PROVE TypeOK'
    BY <1>3 DEF Rollback, Unlocked
<1>4. ASSUME NEW w \in Writers, AssignId(w) PROVE TypeOK'
    BY <1>4 DEF AssignId
<1>5. ASSUME NEW w \in Writers, Commit(w) PROVE TypeOK'
    <2>1. [id |-> replication_id[w], parts |-> trxlog[w]] \in Entry
        BY <1>5 DEF Commit, Entry, IdsHandedOut
    <2>2. log' \in Seq(Entry)
        BY <2>1, <1>5, AppendFacts DEF Commit
    <2>3. db' \in [Keys -> Values \cup {Deleted}]
        BY <1>5 DEF Commit, Written
    <2> QED
        BY <1>5, <2>2, <2>3 DEF Commit, Unlocked
<1>6. ASSUME NEW w \in Writers, CommitFails(w) PROVE TypeOK'
    BY <1>6 DEF CommitFails, Unlocked
<1>7. ASSUME NEW w \in Writers, CallbackReturns(w) PROVE TypeOK'
    BY <1>7 DEF CallbackReturns
<1>8. CASE Restart
    BY <1>8 DEF Restart
<1>9. CASE UNCHANGED vars
    BY <1>9 DEF vars
<1> QED
    BY Zenon, <1>1, <1>2, <1>3, <1>4, <1>5, <1>6, <1>7, <1>8, <1>9 DEF Next, WriterStep, Write, Remove

\* What the type invariant says of the entries of the log.
LEMMA LogEntries ==
    TypeOK => \A i \in DOMAIN log :
                /\ i \in Nat /\ log[i].id \in Nat
                /\ log[i].parts \in [Keys -> Parts]
<1> SUFFICES ASSUME TypeOK, NEW i \in DOMAIN log
             PROVE  i \in Nat /\ log[i].id \in Nat /\ log[i].parts \in [Keys -> Parts]
    OBVIOUS
<1>1. log \in Seq(Entry)
    BY DEF TypeOK
<1>2. i \in Nat /\ log[i] \in Entry
    BY <1>1
<1>3. 1..MaxTrxId \subseteq Nat
    BY MaxTrxIdAssumption
<1> QED
    BY <1>2, <1>3 DEF Entry

\* How a commit of w extends the log and the entries that touch a key.
LogGrows(w) ==
    /\ log'[Len(log) + 1] = [id |-> replication_id[w], parts |-> trxlog[w]]
    /\ \A k \in Keys :
         /\ \A i \in Touching(k) : i \in Nat /\ i < Len(log) + 1 /\ log'[i] = log[i]
         /\ Touching(k)' = Touching(k) \cup
               (IF trxlog[w][k] # NoPart THEN {Len(log) + 1} ELSE {})

\* A commit adds its own entry and nothing else.
LEMMA CommitGrowsLog ==
    ASSUME TypeOK, IdsHandedOut, NEW w \in Writers, Commit(w)
    PROVE  LogGrows(w)
<1> DEFINE e == [id |-> replication_id[w], parts |-> trxlog[w]]
<1>1. e \in Entry
    BY DEF Commit, Entry, IdsHandedOut, TypeOK
<1>2. log \in Seq(Entry) /\ log' = Append(log, e)
    BY DEF Commit, TypeOK
<1> HIDE DEF e
<1>3. /\ DOMAIN log' = (DOMAIN log) \cup {Len(log) + 1}
      /\ \A i \in DOMAIN log : i \in Nat /\ i < Len(log) + 1 /\ log'[i] = log[i]
      /\ log'[Len(log) + 1] = e
    BY <1>1, <1>2, AppendFacts
<1>4. \A i \in DOMAIN log : i # Len(log) + 1
    BY <1>1, <1>2, AppendFacts
<1>5. e.parts = trxlog[w]
    BY DEF e
<1>6. ASSUME NEW k \in Keys
      PROVE  /\ \A i \in Touching(k) : i \in Nat /\ i < Len(log) + 1 /\ log'[i] = log[i]
             /\ Touching(k)' = Touching(k) \cup
                   (IF trxlog[w][k] # NoPart THEN {Len(log) + 1} ELSE {})
    <2>1. Touching(k)' = {i \in DOMAIN log' : log'[i].parts[k] # NoPart}
        BY DEF Touching
    <2>2. Touching(k) = {i \in DOMAIN log : log[i].parts[k] # NoPart}
        BY DEF Touching
    <2>3. \A i : i \in Touching(k)' <=>
                i \in Touching(k) \/ (i = Len(log) + 1 /\ trxlog[w][k] # NoPart)
        BY <1>3, <1>4, <1>5, <2>1, <2>2, Zenon
    <2> QED
        BY <1>3, <2>2, <2>3
<1> QED
    BY <1>3, <1>6 DEF e, LogGrows

\* A step that leaves the log alone leaves the touching entries alone.
LEMMA SameTouching == log' = log => \A k \in Keys : Touching(k)' = Touching(k)
  BY Zenon DEF Touching

\* Ids in the log and ids of numbered transactions stay below the counter.
LEMMA IdsStep == TypeOK /\ IdsHandedOut /\ [Next]_vars => IdsHandedOut'
<1> SUFFICES ASSUME TypeOK, IdsHandedOut, [Next]_vars PROVE IdsHandedOut'
    OBVIOUS
<1> USE MaxTrxIdAssumption DEF IdsHandedOut
<1>0. \A i \in DOMAIN log : log[i].id \in Nat
    BY LogEntries
<1>1. ASSUME NEW w \in Writers, NEW k \in Keys, NEW v \in Values \cup {Deleted}, Change(w, k, v)
      PROVE  IdsHandedOut'
    BY <1>1 DEF Change
<1>2. ASSUME NEW w \in Writers, NEW k \in Keys, RemoveTimesOut(w, k) PROVE IdsHandedOut'
    BY <1>2 DEF RemoveTimesOut
<1>3. ASSUME NEW w \in Writers, Rollback(w) PROVE IdsHandedOut'
    BY <1>3 DEF Rollback
<1>4. ASSUME NEW w \in Writers, AssignId(w) PROVE IdsHandedOut'
    BY <1>0, <1>4 DEF AssignId, TypeOK
<1>5. ASSUME NEW w \in Writers, Commit(w) PROVE IdsHandedOut'
    <2> DEFINE e == [id |-> replication_id[w], parts |-> trxlog[w]]
    <2>1. e \in Entry
        BY <1>5 DEF Commit, Entry, TypeOK
    <2>2. log \in Seq(Entry) /\ log' = Append(log, e)
        BY <1>5 DEF Commit, TypeOK
    <2>3. \A i \in DOMAIN log' : log'[i].id <= trx_id'
        BY <1>5, <2>1, <2>2, AppendFacts DEF Commit, TypeOK
    <2> QED
        BY Zenon, <1>5, <2>3 DEF Commit, TypeOK
<1>6. ASSUME NEW w \in Writers, CommitFails(w) PROVE IdsHandedOut'
    BY <1>6 DEF CommitFails, TypeOK
<1>7. ASSUME NEW w \in Writers, CallbackReturns(w) PROVE IdsHandedOut'
    BY <1>7 DEF CallbackReturns, TypeOK
<1>8. CASE Restart
    BY <1>8 DEF Restart, IsLastCommitted
<1>9. CASE UNCHANGED vars
    BY Zenon, <1>9 DEF vars
<1> QED
    BY <1>1, <1>2, <1>3, <1>4, <1>5, <1>6, <1>7, <1>8, <1>9 DEF Next, WriterStep, Write, Remove

\* Every accepted part keeps its row lock until the transaction ends.
LEMMA LockStep == TypeOK /\ PartsAreLocked /\ [Next]_vars => PartsAreLocked'
<1> SUFFICES ASSUME TypeOK, PartsAreLocked, [Next]_vars PROVE PartsAreLocked'
    OBVIOUS
<1> USE DistinctAssumption DEF PartsAreLocked, TypeOK, NoParts
<1>1. ASSUME NEW w \in Writers, NEW k \in Keys, NEW v \in Values \cup {Deleted}, Change(w, k, v)
      PROVE  PartsAreLocked'
    BY <1>1 DEF Change, CanLock
<1>2. ASSUME NEW w \in Writers, NEW k \in Keys, RemoveTimesOut(w, k) PROVE PartsAreLocked'
    BY <1>2 DEF RemoveTimesOut
<1>3. ASSUME NEW w \in Writers, Rollback(w) PROVE PartsAreLocked'
    BY <1>3 DEF Rollback, Unlocked
<1>4. ASSUME NEW w \in Writers, AssignId(w) PROVE PartsAreLocked'
    BY <1>4 DEF AssignId
<1>5. ASSUME NEW w \in Writers, Commit(w) PROVE PartsAreLocked'
    BY <1>5 DEF Commit, Unlocked
<1>6. ASSUME NEW w \in Writers, CommitFails(w) PROVE PartsAreLocked'
    BY <1>6 DEF CommitFails, Unlocked
<1>7. ASSUME NEW w \in Writers, CallbackReturns(w) PROVE PartsAreLocked'
    BY <1>7 DEF CallbackReturns
<1>8. CASE Restart
    BY <1>8 DEF Restart
<1>9. CASE UNCHANGED vars
    BY <1>9 DEF vars
<1> QED
    BY <1>1, <1>2, <1>3, <1>4, <1>5, <1>6, <1>7, <1>8, <1>9 DEF Next, WriterStep, Write, Remove

\* A step that commits nothing keeps ConflictOrder and DbIsNewest.
LEMMA QuietStep ==
    ASSUME log' = log, db' = db, lost' = lost
    PROVE  /\ ConflictOrder => ConflictOrder'
           /\ DbIsNewest => DbIsNewest'
<1>1. \A k \in Keys : Touching(k)' = Touching(k)
    BY Zenon, SameTouching
<1> QED
    BY <1>1 DEF ConflictOrder, DbIsNewest

\* Every step but a commit is quiet.
LEMMA CommitOrQuiet ==
    ASSUME [Next]_vars
    PROVE  (\E w \in Writers : Commit(w)) \/ (log' = log /\ db' = db /\ lost' = lost)
<1>1. ASSUME NEW w \in Writers, WriterStep(w), ~Commit(w)
      PROVE  log' = log /\ db' = db /\ lost' = lost
    BY Zenon, <1>1 DEF WriterStep, Write, Remove, Change, RemoveTimesOut, Rollback, AssignId,
       CommitFails, CallbackReturns
<1>2. CASE Restart \/ UNCHANGED vars
    BY Zenon, <1>2 DEF Restart, vars
<1> QED
    BY Zenon, <1>1, <1>2 DEF Next

\* The holder of a row lock that is about to commit has the largest id of all
\* transactions with a part for the key.
LEMMA NewestStep ==
    TypeOK /\ IdsHandedOut /\ PartsAreLocked /\ LockHolderIsNewest /\ [Next]_vars
        => LockHolderIsNewest'
<1> SUFFICES ASSUME TypeOK, IdsHandedOut, PartsAreLocked, LockHolderIsNewest, [Next]_vars
             PROVE  LockHolderIsNewest'
    OBVIOUS
<1> USE DistinctAssumption DEF LockHolderIsNewest
<1>0. log' = log => \A k \in Keys : Touching(k)' = Touching(k)
    BY SameTouching
<1>1. ASSUME NEW w \in Writers, NEW k \in Keys, NEW v \in Values \cup {Deleted}, Change(w, k, v)
      PROVE  LockHolderIsNewest'
    BY <1>0, <1>1 DEF Change, CanLock, TypeOK
<1>2. ASSUME NEW w \in Writers, NEW k \in Keys, RemoveTimesOut(w, k) PROVE LockHolderIsNewest'
    BY <1>0, <1>2 DEF RemoveTimesOut
<1>3. ASSUME NEW w \in Writers, Rollback(w) PROVE LockHolderIsNewest'
    BY <1>0, <1>3 DEF Rollback, Unlocked, TypeOK
<1>4. ASSUME NEW w \in Writers, AssignId(w) PROVE LockHolderIsNewest'
    <2>1. \A k \in Keys : \A i \in Touching(k) : log[i].id < trx_id + 1
        BY LogEntries DEF TypeOK, IdsHandedOut, Touching
    <2>2. /\ replication_id' = [replication_id EXCEPT ![w] = trx_id + 1]
          /\ pc' = [pc EXCEPT ![w] = "numbered"]
          /\ UNCHANGED <<log, lock, lost>>
        BY <1>4 DEF AssignId
    <2> QED
        BY <1>0, <2>1, <2>2 DEF TypeOK
<1>5. ASSUME NEW w \in Writers, Commit(w) PROVE LockHolderIsNewest'
    <2> SUFFICES ASSUME NEW v \in Writers, NEW k \in Keys \ lost',
                        pc'[v] = "numbered", lock'[k] = v, NEW i \in Touching(k)'
                 PROVE  log'[i].id < replication_id'[v]
        BY Zenon
    <2>1. /\ v # w /\ pc[v] = "numbered" /\ lock[k] = v
          /\ k \notin lost /\ k \notin missed[w]
          /\ replication_id' = replication_id
        BY Zenon, <1>5 DEF Commit, Unlocked, TypeOK
    <2>2. trxlog[w][k] = NoPart
        BY <2>1 DEF PartsAreLocked
    <2>3. LogGrows(w)
        BY <1>5, CommitGrowsLog, Zenon
    <2>4. i \in Touching(k) /\ log'[i] = log[i]
        BY <2>2, <2>3 DEF LogGrows
    <2> QED
        BY <2>1, <2>4
<1>6. ASSUME NEW w \in Writers, CommitFails(w) PROVE LockHolderIsNewest'
    BY <1>0, <1>6 DEF CommitFails, Unlocked, TypeOK
<1>7. ASSUME NEW w \in Writers, CallbackReturns(w) PROVE LockHolderIsNewest'
    BY <1>0, <1>7 DEF CallbackReturns, TypeOK
<1>8. CASE Restart
    BY <1>8 DEF Restart
<1>9. CASE UNCHANGED vars
    BY <1>0, <1>9 DEF vars
<1> QED
    BY <1>1, <1>2, <1>3, <1>4, <1>5, <1>6, <1>7, <1>8, <1>9 DEF Next, WriterStep, Write, Remove

\* A part of the committing transaction, for a key without refused removal,
\* comes after all entries for that key, in the log and in id order.
LEMMA CommitIsNewest ==
    ASSUME IInv, NEW w \in Writers, Commit(w), NEW k \in Keys \ lost', trxlog[w][k] # NoPart
    PROVE  \A i \in Touching(k) : log[i].id < replication_id[w]
<1>1. k \notin missed[w] /\ k \notin lost
    BY DEF Commit
<1>2. lock[k] = w
    BY <1>1 DEF IInv, PartsAreLocked
<1> QED
    BY <1>1, <1>2 DEF IInv, LockHolderIsNewest, Commit

\* A commit has the largest id among the transactions that touch its keys, so
\* the log stays in conflict order.
LEMMA ConflictStep == IInv /\ [Next]_vars => ConflictOrder'
<1> SUFFICES ASSUME IInv, [Next]_vars PROVE ConflictOrder'
    OBVIOUS
<1>1. CASE log' = log /\ db' = db /\ lost' = lost
    BY <1>1, QuietStep DEF IInv
<1>2. ASSUME NEW w \in Writers, Commit(w) PROVE ConflictOrder'
    <2> SUFFICES ASSUME NEW k \in Keys \ lost',
                        NEW i \in Touching(k)', NEW j \in Touching(k)', i < j
                 PROVE  log'[i].id < log'[j].id
        BY DEF ConflictOrder
    <2>1. k \notin lost
        BY <1>2 DEF Commit
    <2>2. LogGrows(w)
        BY <1>2, CommitGrowsLog, Zenon DEF IInv
    <2>3. CASE j \in Touching(k)
        <3>1. i \in Touching(k)
            BY <2>2, <2>3 DEF LogGrows
        <3> QED
            BY Zenon, <2>1, <2>2, <2>3, <3>1 DEF IInv, ConflictOrder, LogGrows
    <2>5. Len(log) \in Nat
        BY DEF IInv, TypeOK
    <2>4. CASE j = Len(log) + 1 /\ trxlog[w][k] # NoPart
        <3>1. i \in Touching(k)
            BY <2>2, <2>4, <2>5 DEF LogGrows
        <3>2. log[i].id < replication_id[w]
            BY Zenon, <1>2, <2>4, <3>1, CommitIsNewest
        <3> QED
            BY <2>2, <2>4, <3>1, <3>2 DEF LogGrows
    <2> QED
        BY <2>2, <2>3, <2>4 DEF LogGrows
<1> QED
    BY <1>1, <1>2, CommitOrQuiet

\* A commit replaces the newest entry of each key it touches, in the log and in
\* the data alike.
LEMMA DbStep == IInv /\ [Next]_vars => DbIsNewest'
<1> SUFFICES ASSUME IInv, [Next]_vars PROVE DbIsNewest'
    OBVIOUS
<1>1. CASE log' = log /\ db' = db /\ lost' = lost
    BY <1>1, QuietStep DEF IInv
<1>2. ASSUME NEW w \in Writers, Commit(w) PROVE DbIsNewest'
    <2> SUFFICES ASSUME NEW k \in Keys \ lost'
                 PROVE  \/ Touching(k)' = {} /\ db'[k] = Deleted
                        \/ \E i \in Touching(k)' :
                              /\ \A j \in Touching(k)' : log'[j].id <= log'[i].id
                              /\ db'[k] = log'[i].parts[k]
        BY DEF DbIsNewest
    <2>1. k \notin lost /\ k \notin missed[w]
        BY <1>2 DEF Commit
    <2>2. LogGrows(w)
        BY <1>2, CommitGrowsLog, Zenon DEF IInv
    <2>3. CASE trxlog[w][k] = NoPart
        <3>1. db'[k] = db[k]
            BY Zenon, <1>2, <2>3 DEF Commit, Written
        <3> QED
            BY <2>1, <2>2, <2>3, <3>1 DEF IInv, DbIsNewest, LogGrows
    <2>4. CASE trxlog[w][k] # NoPart
        <3>1. db'[k] = trxlog[w][k]
            BY Zenon, <1>2, <2>1, <2>4 DEF Commit, Written
        <3>2. \A j \in Touching(k) : log[j].id < replication_id[w] /\ log[j].id \in Nat
            BY <1>2, <2>4, CommitIsNewest, LogEntries DEF IInv, Touching
        <3>3. replication_id[w] \in Nat
            BY DEF IInv, TypeOK
        <3>4. \A j \in Touching(k)' : log'[j].id <= log'[Len(log) + 1].id
            BY <2>2, <2>4, <3>2, <3>3 DEF LogGrows
        <3> QED
            BY <2>2, <2>4, <3>1, <3>4 DEF LogGrows
    <2> QED
        BY Zenon, <2>3, <2>4
<1> QED
    BY <1>1, <1>2, CommitOrQuiet

-----------------------------------------------------------------------------
(* The theorems.                                                           *)

\* The empty database satisfies the invariant.
LEMMA InitIInv == Init => IInv
<1> SUFFICES ASSUME Init PROVE IInv
    OBVIOUS
<1>1. TypeOK
    BY MaxTrxIdAssumption DEF Init, TypeOK, NoParts, Parts
<1>2. DOMAIN log = {}
    BY DEF Init
<1>3. \A k \in Keys : Touching(k) = {}
    BY <1>2 DEF Touching
<1> QED
    BY <1>1, <1>2, <1>3
    DEF Init, IInv, IdsHandedOut, PartsAreLocked, LockHolderIsNewest, ConflictOrder,
        DbIsNewest, NoParts

\* Every step keeps the invariant, conjunct by conjunct.
LEMMA NextIInv == IInv /\ [Next]_vars => IInv'
  BY TypeStep, IdsStep, LockStep, NewestStep, ConflictStep, DbStep DEF IInv

\* The strengthened invariant holds in every reachable state.
THEOREM Invariance == Spec => []IInv
  BY InitIInv, NextIInv, PTL DEF Spec

\* Type correctness.
THEOREM TypeCorrect == Spec => []TypeOK
<1>1. IInv => TypeOK
    BY DEF IInv
<1> QED
    BY <1>1, Invariance, PTL

\* Conflicting transactions are committed in the order of their ids, however
\* many threads commit: the row locks are held from before handleTrxLog()
\* takes the id until the batch is in the database.
THEOREM ConflictsInIdOrder == Spec => []ConflictOrder
<1>1. IInv => ConflictOrder
    BY Zenon DEF IInv
<1> QED
    BY <1>1, Invariance, PTL

\* The invariant determines what Replayed picks: the entry with the largest id
\* is unique by ConflictOrder.
LEMMA NewestIsReplay == IInv => DbIsReplay
<1> SUFFICES ASSUME IInv, NEW k \in Keys \ lost PROVE db[k] = Replayed(k)
    BY DEF DbIsReplay
<1> DEFINE Last(i) == i \in Touching(k) /\ \A j \in Touching(k) : log[j].id <= log[i].id
<1>1. CASE Touching(k) = {}
    BY <1>1 DEF IInv, DbIsNewest, Replayed
<1>2. ASSUME NEW i \in Touching(k), Last(i), db[k] = log[i].parts[k]
      PROVE  db[k] = Replayed(k)
    <2> DEFINE n == CHOOSE x \in Touching(k) : \A j \in Touching(k) : log[j].id <= log[x].id
    <2>1. n \in Touching(k) /\ \A j \in Touching(k) : log[j].id <= log[n].id
        BY <1>2
    <2>2. Replayed(k) = log[n].parts[k]
        BY <1>2 DEF Replayed
    <2> HIDE DEF n
    <2>3. n \in Nat /\ i \in Nat /\ log[n].id \in Nat /\ log[i].id \in Nat
        BY <2>1, LogEntries DEF IInv, Touching
    <2>4. log[n].id = log[i].id
        BY <1>2, <2>1, <2>3
    <2>5. n = i
        BY <2>1, <2>3, <2>4 DEF IInv, ConflictOrder
    <2> QED
        BY <1>2, <2>2, <2>5
<1> QED
    BY <1>1, <1>2 DEF IInv, DbIsNewest

\* Replaying TRXLOG in id order reproduces the data of every key without a
\* refused removal, so a follower that applies the log has the primary's data.
THEOREM LogReproducesData == Spec => []DbIsReplay
  BY NewestIsReplay, Invariance, PTL

-----------------------------------------------------------------------------
(* TrxLog implements CommitLog.                                            *)

\* The ids of the log, as the refinement mapping has them.
LogIds == [i \in DOMAIN log |-> log[i].id]

\* Seen through the mapping, a commit appends the id of its transaction.
LEMMA CommitAppendsId ==
    ASSUME TypeOK, IdsHandedOut, NEW w \in Writers, Commit(w)
    PROVE  LogIds' = Append(LogIds, replication_id[w])
<1> DEFINE e == [id |-> replication_id[w], parts |-> trxlog[w]]
<1>1. e \in Entry /\ e.id = replication_id[w]
    BY DEF Commit, Entry, IdsHandedOut, TypeOK
<1>2. log \in Seq(Entry) /\ log' = Append(log, e)
    BY DEF Commit, TypeOK
<1> HIDE DEF e
<1>3. /\ Len(log) \in Nat /\ DOMAIN log = 1..Len(log)
      /\ DOMAIN log' = 1..(Len(log) + 1)
      /\ \A i \in 1..Len(log) : log'[i] = log[i]
      /\ log'[Len(log) + 1] = e
    BY <1>1, <1>2
<1>4. LogIds = [i \in 1..Len(log) |-> log[i].id]
    BY <1>3 DEF LogIds
<1>5. LogIds' = [i \in 1..(Len(log) + 1) |-> log'[i].id]
    BY <1>3 DEF LogIds
<1>6. LogIds \in Seq(Nat) /\ Len(LogIds) = Len(log)
    BY <1>3, <1>4, LogEntries
<1>7. Append(LogIds, replication_id[w]) =
        [i \in 1..(Len(log) + 1) |->
            IF i <= Len(log) THEN log[i].id ELSE replication_id[w]]
    BY <1>3, <1>4, <1>6
<1>8. \A i \in 1..(Len(log) + 1) :
        log'[i].id = IF i <= Len(log) THEN log[i].id ELSE replication_id[w]
    BY <1>1, <1>3
<1> QED
    BY Zenon, <1>5, <1>7, <1>8

\* One step of the storage layer is one step of CommitLog, or none.
LEMMA RefinementStep == IInv /\ [Next]_vars => [CL!CommitNext]_(CL!commitVars)
<1> SUFFICES ASSUME IInv, [Next]_vars PROVE [CL!CommitNext]_(CL!commitVars)
    OBVIOUS
<1> USE DEF CL!CommitNext
<1>0. log' = log => LogIds' = LogIds
    BY DEF LogIds
<1>1. ASSUME NEW w \in Writers, NEW k \in Keys, NEW v \in Values \cup {Deleted}, Change(w, k, v)
      PROVE  UNCHANGED CL!commitVars
    BY <1>0, <1>1 DEF Change, CL!commitVars, LogIds
<1>2. ASSUME NEW w \in Writers, NEW k \in Keys, RemoveTimesOut(w, k)
      PROVE  UNCHANGED CL!commitVars
    BY <1>0, <1>2 DEF RemoveTimesOut, CL!commitVars, LogIds
<1>3. ASSUME NEW w \in Writers, Rollback(w) PROVE UNCHANGED CL!commitVars
    BY <1>0, <1>3 DEF Rollback, CL!commitVars, LogIds
<1>4. ASSUME NEW w \in Writers, AssignId(w) PROVE CL!AssignId(w)
    BY ZenonT(30), <1>0, <1>4 DEF AssignId, CL!AssignId, LogIds
<1>5. ASSUME NEW w \in Writers, Commit(w) PROVE CL!Commit(w)
    BY ZenonT(30), <1>5, CommitAppendsId DEF IInv, Commit, CL!Commit, LogIds
<1>6. ASSUME NEW w \in Writers, CommitFails(w) PROVE CL!CommitFails(w)
    BY <1>0, <1>6 DEF CommitFails, CL!CommitFails, LogIds
<1>7. ASSUME NEW w \in Writers, CallbackReturns(w) PROVE CL!CallbackReturns(w)
    BY <1>0, <1>7 DEF CallbackReturns, CL!CallbackReturns, LogIds
<1>8. CASE Restart
    <2>1. PICK last \in 0..MaxTrxId : IsLastCommitted(last) /\ trx_id' = last
        BY <1>8 DEF Restart
    <2>2. /\ last \in {0} \cup {LogIds[i] : i \in DOMAIN LogIds}
          /\ \A i \in DOMAIN LogIds : LogIds[i] <= last
        BY Zenon, <2>1 DEF IsLastCommitted, LogIds
    <2>3. CL!Restart
        BY <1>0, <1>8, <2>1, <2>2 DEF Restart, CL!Restart, LogIds
    <2> QED
        BY <2>3
<1>9. CASE UNCHANGED vars
    BY <1>0, <1>9 DEF vars, CL!commitVars, LogIds
<1> QED
    BY <1>1, <1>2, <1>3, <1>4, <1>5, <1>6, <1>7, <1>8, <1>9 DEF Next, WriterStep, Write, Remove

\* The storage layer keeps the promises of CommitLog, on which the model of
\* replication is built.
THEOREM Refinement == Spec => ImplementsCommitLog
<1>1. Init => CL!CommitInit
    BY DEF Init, CL!CommitInit
<1> QED
    BY <1>1, RefinementStep, Invariance, PTL DEF Spec, ImplementsCommitLog, CL!CommitSpec
=============================================================================
