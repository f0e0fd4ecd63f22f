------------------------------- MODULE TrxLog -------------------------------
(***************************************************************************)
(* The storage layer's transactions (RocksDbResource::Transaction) as far  *)
(* as replication depends on them: pessimistic row locks, the list of      *)
(* parts that is collected for the transaction log, the id that is         *)
(* assigned just before the commit, and the commit that makes data and log *)
(* entry visible together.  Keys are keys of the ENTRY column family, the  *)
(* only one whose changes are logged and replicated.                       *)
(***************************************************************************)
EXTENDS Naturals, Sequences

CONSTANTS
    Writers,    \* threads with a transaction of their own
    Keys,       \* ENTRY keys
    Values,     \* what a key may hold
    Deleted,    \* no value: the key is absent, or a part that removes it
    NoPart,     \* the transaction has no part for the key
    NoWriter,   \* nobody holds the row lock
    MaxTrxId    \* bound: highest transaction id the model hands out

ASSUME MaxTrxIdAssumption == MaxTrxId \in Nat
ASSUME DistinctAssumption ==
    /\ Deleted \notin Values
    /\ NoPart \notin Values \cup {Deleted}
    /\ NoWriter \notin Writers

VARIABLES
    trx_id,          \* RocksDbResource::trx_id_
    log,             \* TRXLOG: [id, parts] in commit order
    db,              \* the ENTRY column family
    lock,            \* holder of each row lock
    pc,              \* "open": collecting changes; "numbered"; "committed"
    replication_id,  \* Transaction::replication_id_
    trxlog,          \* Transaction::trxlog_: the parts logged so far, per key
    missed,          \* keys whose logged removal RocksDB did not carry out
    lost             \* history: keys with a committed but missed removal

vars == <<trx_id, log, db, lock, pc, replication_id, trxlog, missed, lost>>

Parts == Values \cup {Deleted, NoPart}
NoParts == [k \in Keys |-> NoPart]

Init ==
    /\ trx_id = 0
    /\ log = << >>
    /\ db = [k \in Keys |-> Deleted]
    /\ lock = [k \in Keys |-> NoWriter]
    /\ pc = [w \in Writers |-> "open"]
    /\ replication_id = [w \in Writers |-> 0]
    /\ trxlog = [w \in Writers |-> NoParts]
    /\ missed = [w \in Writers |-> {}]
    /\ lost = {}

-----------------------------------------------------------------------------
CanLock(w, k) == lock[k] \in {w, NoWriter}

\* A row lock is held until the transaction commits or is rolled back.
Unlocked(w) == [k \in Keys |-> IF lock[k] = w THEN NoWriter ELSE lock[k]]

\* Mutant: the change is made without taking the row lock.
ChangeUntracked(w, k, part) ==
    /\ pc[w] = "open"
    /\ trxlog' = [trxlog EXCEPT ![w][k] = part]
    /\ missed' = [missed EXCEPT ![w] = @ \ {k}]
    /\ UNCHANGED <<trx_id, log, db, lock, pc, replication_id, lost>>

\* One more part of w's transaction, carried out under the row lock.
Change(w, k, part) ==
    /\ pc[w] = "open"
    /\ CanLock(w, k)
    /\ lock' = [lock EXCEPT ![k] = w]
    /\ trxlog' = [trxlog EXCEPT ![w][k] = part]
    /\ missed' = [missed EXCEPT ![w] = @ \ {k}]
    /\ UNCHANGED <<trx_id, log, db, pc, replication_id, lost>>

\* write(): Put takes the row lock, then the part is logged.
Write(w, k, v) == Change(w, k, v)

\* remove(): Delete takes the row lock, then the part is logged.
Remove(w, k) == Change(w, k, Deleted)

\* remove() when another transaction keeps the row lock beyond the lock
\* timeout: Delete fails, its status is not looked at, and the part is logged
\* all the same.
RemoveTimesOut(w, k) ==
    /\ pc[w] = "open"
    /\ ~CanLock(w, k)
    /\ trxlog' = [trxlog EXCEPT ![w][k] = Deleted]
    /\ missed' = [missed EXCEPT ![w] = @ \cup {k}]
    /\ UNCHANGED <<trx_id, log, db, lock, pc, replication_id, lost>>

\* The transaction object is destroyed before commit(): a failed Put (lock
\* timeout), a key that exists although isNew was given, a REST error reply.
\* Everything is rolled back.
Rollback(w) ==
    /\ pc[w] = "open"
    /\ trxlog[w] # NoParts
    /\ lock' = Unlocked(w)
    /\ trxlog' = [trxlog EXCEPT ![w] = NoParts]
    /\ missed' = [missed EXCEPT ![w] = {}]
    /\ UNCHANGED <<trx_id, log, db, pc, replication_id, lost>>

\* Mutant: the id is taken but not set in the entry.
AssignIdUnset(w) ==
    /\ pc[w] = "open"
    /\ trxlog[w] # NoParts
    /\ trx_id < MaxTrxId
    /\ trx_id' = trx_id + 1
    /\ pc' = [pc EXCEPT ![w] = "numbered"]
    /\ UNCHANGED <<log, db, lock, replication_id, trxlog, missed, lost>>

\* commit(), first half: handleTrxLog() numbers a transaction that has parts.
AssignId(w) ==
    /\ pc[w] = "open"
    /\ trxlog[w] # NoParts
    /\ trx_id < MaxTrxId
    /\ trx_id' = trx_id + 1
    /\ replication_id' = [replication_id EXCEPT ![w] = trx_id']
    /\ pc' = [pc EXCEPT ![w] = "numbered"]
    /\ UNCHANGED <<log, db, lock, trxlog, missed, lost>>

\* What the write batch of w's transaction makes of the data.
Written(w) ==
    [k \in Keys |-> IF trxlog[w][k] = NoPart \/ k \in missed[w]
                    THEN db[k] ELSE trxlog[w][k]]

\* commit(), second half: the batch with data and log entry is applied, the
\* row locks are released.
Commit(w) ==
    /\ pc[w] = "numbered"
    /\ db' = Written(w)
    /\ log' = Append(log, [id |-> replication_id[w], parts |-> trxlog[w]])
    /\ lost' = lost \cup missed[w]
    /\ lock' = Unlocked(w)
    /\ pc' = [pc EXCEPT ![w] = "committed"]
    /\ trxlog' = [trxlog EXCEPT ![w] = NoParts]
    /\ missed' = [missed EXCEPT ![w] = {}]
    /\ UNCHANGED <<trx_id, replication_id>>

\* Mutant: a failed commit gives its id back.
CommitFailsReturnsId(w) ==
    /\ pc[w] = "numbered"
    /\ trx_id' = trx_id - 1
    /\ lock' = Unlocked(w)
    /\ pc' = [pc EXCEPT ![w] = "open"]
    /\ replication_id' = [replication_id EXCEPT ![w] = 0]
    /\ trxlog' = [trxlog EXCEPT ![w] = NoParts]
    /\ missed' = [missed EXCEPT ![w] = {}]
    /\ UNCHANGED <<log, db, lost>>

\* Commit() returns an error: commit() throws out of call_once, so the
\* destructor's rollback_() still runs and releases the locks.
CommitFails(w) ==
    /\ pc[w] = "numbered"
    /\ lock' = Unlocked(w)
    /\ pc' = [pc EXCEPT ![w] = "open"]
    /\ replication_id' = [replication_id EXCEPT ![w] = 0]
    /\ trxlog' = [trxlog EXCEPT ![w] = NoParts]
    /\ missed' = [missed EXCEPT ![w] = {}]
    /\ UNCHANGED <<trx_id, log, db, lost>>

\* The transaction callback has returned; the thread's next transaction is a
\* new object.
CallbackReturns(w) ==
    /\ pc[w] = "committed"
    /\ pc' = [pc EXCEPT ![w] = "open"]
    /\ replication_id' = [replication_id EXCEPT ![w] = 0]
    /\ UNCHANGED <<trx_id, log, db, lock, trxlog, missed, lost>>

\* Mutant: the first instead of the last entry of TRXLOG is looked up.
IsFirstCommitted(last) ==
    /\ last \in {0} \cup {log[i].id : i \in DOMAIN log}
    /\ \A i \in DOMAIN log : last <= log[i].id

\* getLastCommittedTransactionId(): the largest id in TRXLOG, 0 if it is empty.
IsLastCommitted(last) ==
    /\ last \in {0} \cup {log[i].id : i \in DOMAIN log}
    /\ \A i \in DOMAIN log : log[i].id <= last

\* The process ends and starts again: open() finds what was committed,
\* loadTrxId() restores the counter, all transactions in progress are gone.
Restart ==
    /\ \E last \in 0..MaxTrxId : IsLastCommitted(last) /\ trx_id' = last
    /\ lock' = [k \in Keys |-> NoWriter]
    /\ pc' = [w \in Writers |-> "open"]
    /\ replication_id' = [w \in Writers |-> 0]
    /\ trxlog' = [w \in Writers |-> NoParts]
    /\ missed' = [w \in Writers |-> {}]
    /\ UNCHANGED <<log, db, lost>>

WriterStep(w) ==
    \/ \E k \in Keys, v \in Values : Write(w, k, v)
    \/ \E k \in Keys : Remove(w, k) \/ RemoveTimesOut(w, k)
    \/ Rollback(w)
    \/ AssignId(w)
    \/ Commit(w)
    \/ CommitFails(w)
    \/ CallbackReturns(w)

Next == (\E w \in Writers : WriterStep(w)) \/ Restart

Spec == Init /\ [][Next]_vars

-----------------------------------------------------------------------------
Entry == [id : 1..MaxTrxId, parts : [Keys -> Parts]]

TypeOK ==
    /\ trx_id \in 0..MaxTrxId
    /\ log \in Seq(Entry)
    /\ db \in [Keys -> Values \cup {Deleted}]
    /\ lock \in [Keys -> Writers \cup {NoWriter}]
    /\ pc \in [Writers -> {"open", "numbered", "committed"}]
    /\ replication_id \in [Writers -> 0..MaxTrxId]
    /\ trxlog \in [Writers -> [Keys -> Parts]]
    /\ missed \in [Writers -> SUBSET Keys]
    /\ lost \in SUBSET Keys

\* The log entries with a part for key k.
Touching(k) == {i \in DOMAIN log : log[i].parts[k] # NoPart}

\* What a reader of the log that applies the entries in the order of their
\* ids, as iterateDb() and the followers do, ends up with for key k.
Replayed(k) ==
    IF Touching(k) = {} THEN Deleted
    ELSE LET newest == CHOOSE i \in Touching(k) :
                          \A j \in Touching(k) : log[j].id <= log[i].id
         IN  log[newest].parts[k]

\* The claim of the comment in handleTrxLog(): transactions that conflict
\* (have a part for the same key) are committed in the order of their ids,
\* although ids and commits in general are not in the same order.  Keys with a
\* removal that RocksDB refused are excepted.
ConflictOrder ==
    \A k \in Keys \ lost : \A i, j \in Touching(k) :
        i < j => log[i].id < log[j].id

\* What the claim is for: replaying the log in id order reproduces the
\* primary's data, for every key without a refused removal.
DbIsReplay == \A k \in Keys \ lost : db[k] = Replayed(k)

-----------------------------------------------------------------------------
(* The strengthening that makes the two properties inductive.              *)

\* Ids in the log and ids of numbered transactions have been handed out.
IdsHandedOut ==
    /\ \A i \in DOMAIN log : log[i].id <= trx_id
    /\ \A w \in Writers : pc[w] = "numbered" => replication_id[w] \in 1..trx_id

\* A part that RocksDB accepted is covered by the row lock.
PartsAreLocked ==
    \A w \in Writers, k \in Keys :
        trxlog[w][k] # NoPart /\ k \notin missed[w] => lock[k] = w

\* A numbered transaction has a larger id than all that were committed for a
\* key whose lock it holds: two-phase locking with the id taken at the peak.
LockHolderIsNewest ==
    \A w \in Writers, k \in Keys \ lost :
        pc[w] = "numbered" /\ lock[k] = w =>
            \A i \in Touching(k) : log[i].id < replication_id[w]

\* The data of key k is what the entry with the largest id put there.
DbIsNewest ==
    \A k \in Keys \ lost :
        \/ Touching(k) = {} /\ db[k] = Deleted
        \/ \E i \in Touching(k) :
              /\ \A j \in Touching(k) : log[j].id <= log[i].id
              /\ db[k] = log[i].parts[k]

IInv == /\ TypeOK /\ IdsHandedOut /\ PartsAreLocked /\ LockHolderIsNewest
        /\ ConflictOrder /\ DbIsNewest

-----------------------------------------------------------------------------
\* The comment in handleTrxLog() as it stands, without the exception: "no
\* conflicting transactions are committed where the transaxtion-id may be in
\* the wrong order (dirty writes)".
NoConflictInWrongOrder ==
    \A k \in Keys : \A i, j \in Touching(k) : i < j => log[i].id < log[j].id

\* The ids alone behave as CommitLog says.
CL == INSTANCE CommitLog WITH log <- [i \in DOMAIN log |-> log[i].id]
ImplementsCommitLog == CL!CommitSpec
=============================================================================
