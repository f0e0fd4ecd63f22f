----------------------------- MODULE CommitLog -----------------------------
(***************************************************************************)
(* What the rest of the primary may rely on about replicated transactions: *)
(* every one gets a fresh number just before it is committed, a commit may *)
(* fail and leave a hole, and the numbers are NOT handed out in commit     *)
(* order, nor are the callbacks made in commit order.  TrxLog (the storage *)
(* layer) implements this specification; Replication builds on it.         *)
(***************************************************************************)
EXTENDS Naturals, Sequences

CONSTANTS
    Writers,   \* threads that commit transactions (REST API, slave sync)
    MaxTrxId   \* bound: highest transaction id the model hands out

ASSUME MaxTrxIdAssumption == MaxTrxId \in Nat

VARIABLES
    trx_id,          \* RocksDbResource::trx_id_, the id counter (in memory)
    log,             \* ids of the TRXLOG entries, in the order they were committed
    pc,              \* where each writer is in Transaction::commit()
    replication_id   \* Transaction::replication_id_ of each writer's transaction

commitVars == <<trx_id, log, pc, replication_id>>

PcStates == {"open", "numbered", "committed"}

CommitInit ==
    /\ trx_id = 0
    /\ log = << >>
    /\ pc = [w \in Writers |-> "open"]
    /\ replication_id = [w \in Writers |-> 0]

\* handleTrxLog(): the transaction takes the next id.  The counter is atomic,
\* the commit that follows is not part of the same step.
AssignId(w) ==
    /\ pc[w] = "open"
    /\ trx_id < MaxTrxId
    /\ trx_id' = trx_id + 1
    /\ replication_id' = [replication_id EXCEPT ![w] = trx_id']
    /\ pc' = [pc EXCEPT ![w] = "numbered"]
    /\ UNCHANGED log

\* trx_->Commit() succeeds: data and TRXLOG entry become visible together.
Commit(w) ==
    /\ pc[w] = "numbered"
    /\ log' = Append(log, replication_id[w])
    /\ pc' = [pc EXCEPT ![w] = "committed"]
    /\ UNCHANGED <<trx_id, replication_id>>

\* Mutant: the status of Commit() is not looked at.
CommitFailsUnnoticed(w) ==
    /\ pc[w] = "numbered"
    /\ pc' = [pc EXCEPT ![w] = "committed"]
    /\ UNCHANGED <<trx_id, log, replication_id>>

\* trx_->Commit() fails: the exception leaves commit(), the destructor rolls
\* back, and the id is a hole in the sequence.
CommitFails(w) ==
    /\ pc[w] = "numbered"
    /\ pc' = [pc EXCEPT ![w] = "open"]
    /\ replication_id' = [replication_id EXCEPT ![w] = 0]
    /\ UNCHANGED <<trx_id, log>>

\* on_trx_cb_ has returned; the thread goes on to its next transaction.
CallbackReturns(w) ==
    /\ pc[w] = "committed"
    /\ pc' = [pc EXCEPT ![w] = "open"]
    /\ replication_id' = [replication_id EXCEPT ![w] = 0]
    /\ UNCHANGED <<trx_id, log>>

\* Mutant: the counter is not restored.
RestartFromZero ==
    /\ trx_id' = 0
    /\ pc' = [w \in Writers |-> "open"]
    /\ replication_id' = [w \in Writers |-> 0]
    /\ UNCHANGED log

\* The process ends and starts again: loadTrxId() continues after the largest
\* id found in TRXLOG; numbered but uncommitted transactions are gone.
Restart ==
    /\ \E last \in {0} \cup {log[i] : i \in DOMAIN log} :
          /\ \A i \in DOMAIN log : log[i] <= last
          /\ trx_id' = last
    /\ pc' = [w \in Writers |-> "open"]
    /\ replication_id' = [w \in Writers |-> 0]
    /\ UNCHANGED log

CommitNext ==
    \/ \E w \in Writers :
          AssignId(w) \/ Commit(w) \/ CommitFails(w) \/ CallbackReturns(w)
    \/ Restart

CommitSpec == CommitInit /\ [][CommitNext]_commitVars

-----------------------------------------------------------------------------
CommitTypeOK ==
    /\ trx_id \in 0..MaxTrxId
    /\ log \in Seq(1..MaxTrxId)
    /\ pc \in [Writers -> PcStates]
    /\ replication_id \in [Writers -> 0..MaxTrxId]

\* No TRXLOG entry is ever overwritten by another transaction: the ids in the
\* log are distinct although failed commits free their ids at a restart and
\* handleTrxLog() writes the entry without asking whether the key exists.
UniqueIds ==
    \A i, j \in DOMAIN log : log[i] = log[j] => i = j
=============================================================================
