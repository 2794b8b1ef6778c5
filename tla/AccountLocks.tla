---------------------------- MODULE AccountLocks ----------------------------
(***************************************************************************)
(* The account locks of one bank (AccountLocks, Accounts::lock_accounts and *)
(* unlock_accounts) as the batches of transactions that run on the bank use *)
(* them. Every batch is locked under one mutex, transaction by transaction: *)
(* a transaction that meets a locked account fails (AccountInUse), the      *)
(* others go on. The locks are given back once, by an explicit unlock or    *)
(* when the batch is dropped. A simulation's batch takes no lock.           *)
(***************************************************************************)
EXTENDS Naturals, FiniteSets, Sequences

CONSTANTS
    Keys,       \* account addresses
    Batches,    \* batches that lock their accounts
    SimBatches, \* batches prepared without locks, for simulations
    MaxTxs,     \* bound: transactions of a batch
    Nobody,     \* the mutex is free
    Refused     \* a transaction that failed before locking (limits, duplicates, packing)

ASSUME KeysFinite == IsFiniteSet(Keys)
ASSUME BatchesFinite == IsFiniteSet(Batches)
ASSUME MaxTxsAssumption == MaxTxs \in Nat
ASSUME NobodyAssumption == Nobody \notin Batches
ASSUME RefusedAssumption == Refused \notin [writable : SUBSET Keys, readonly : SUBSET Keys]
ASSUME SimBatchesDisjoint == Batches \cap SimBatches = {}

\* TransactionAccountLocks of a message without duplicate keys.
Tx == {x \in [writable : SUBSET Keys, readonly : SUBSET Keys] : x.writable \cap x.readonly = {}}

Positions == 1 .. MaxTxs
AllBatches == Batches \cup SimBatches

VARIABLES
    txs,         \* the get_account_locks results of the transactions of each batch
    pc,          \* what each batch is doing
    at,          \* the transaction its loop has reached
    results,     \* TransactionBatch::lock_results: the transactions locked
    needsUnlock, \* TransactionBatch::needs_unlock
    mutex,       \* Accounts::account_locks, held by a batch
    writeLocks,  \* AccountLocks::write_locks
    readLocks,   \* AccountLocks::readonly_locks, 0 for a missing entry
    held         \* history: the transactions that run with their accounts locked

vars == <<txs, pc, at, results, needsUnlock, mutex, writeLocks, readLocks, held>>

\* The accounts a transaction of a batch may use.
Writes(h) == txs[h[1]][h[2]].writable
Reads(h) == txs[h[1]][h[2]].readonly

-----------------------------------------------------------------------------

\* prepare_sanitized_batch(_with_results), prepare_entry_batch: the transactions
\* of the batch. A simulation has one, in
\* prepare_unlocked_batch_from_single_tx.
Prepare(b, ts) ==
    /\ pc[b] = "new"
    /\ b \in SimBatches => Len(ts) = 1
    /\ txs' = [txs EXCEPT ![b] = ts]
    /\ pc' = [pc EXCEPT ![b] = IF b \in Batches THEN "lock" ELSE "run"]
    /\ needsUnlock' = [needsUnlock EXCEPT ![b] = b \in Batches]
    /\ results' = [results EXCEPT ![b] = IF b \in Batches THEN {} ELSE {i \in DOMAIN ts : ts[i] # Refused}]
    /\ UNCHANGED <<at, mutex, writeLocks, readLocks, held>>

\* Mutant: the loop starts one position too early.
LockBeginAtZero(b) ==
    /\ pc[b] = "lock" /\ mutex = Nobody
    /\ mutex' = b
    /\ pc' = [pc EXCEPT ![b] = "locking"]
    /\ at' = [at EXCEPT ![b] = 0]
    /\ UNCHANGED <<txs, results, needsUnlock, writeLocks, readLocks, held>>

\* lock_accounts_inner takes the mutex.
LockBegin(b) ==
    /\ pc[b] = "lock" /\ mutex = Nobody
    /\ mutex' = b
    /\ pc' = [pc EXCEPT ![b] = "locking"]
    /\ at' = [at EXCEPT ![b] = 1]
    /\ UNCHANGED <<txs, results, needsUnlock, writeLocks, readLocks, held>>

\* Mutant: a writer does not look at the read locks.
InUseByWriter(x) == \E k \in x.writable \cup x.readonly : k \in writeLocks

\* The conflicts lock_account looks for before it inserts anything.
InUse(x) ==
    \/ \E k \in x.writable : k \in writeLocks \/ readLocks[k] > 0
    \/ \E k \in x.readonly : k \in writeLocks

\* lock_account on the next transaction of the batch.
LockTx(b) ==
    /\ pc[b] = "locking" /\ at[b] \in DOMAIN txs[b]
    /\ at' = [at EXCEPT ![b] = @ + 1]
    /\ LET x == txs[b][at[b]] IN
       IF x = Refused \/ InUse(x)
       THEN UNCHANGED <<results, writeLocks, readLocks, held>>
       ELSE /\ results' = [results EXCEPT ![b] = @ \cup {at[b]}]
            /\ writeLocks' = writeLocks \cup x.writable
            /\ readLocks' = [k \in Keys |-> IF k \in x.readonly THEN readLocks[k] + 1 ELSE readLocks[k]]
            /\ held' = held \cup {<<b, at[b]>>}
    /\ UNCHANGED <<txs, pc, needsUnlock, mutex>>

\* Mutant: the mutex is not released.
LockEndKeepsMutex(b) ==
    /\ pc[b] = "locking" /\ at[b] \notin DOMAIN txs[b]
    /\ pc' = [pc EXCEPT ![b] = "run"]
    /\ UNCHANGED <<txs, at, results, needsUnlock, mutex, writeLocks, readLocks, held>>

\* The mutex is released and the batch runs.
LockEnd(b) ==
    /\ pc[b] = "locking" /\ at[b] \notin DOMAIN txs[b]
    /\ mutex' = Nobody
    /\ pc' = [pc EXCEPT ![b] = "run"]
    /\ UNCHANGED <<txs, at, results, needsUnlock, writeLocks, readLocks, held>>

\* Bank::unlock_accounts, called explicitly or by TransactionBatch::drop: it
\* does nothing unless needs_unlock, which it clears.
UnlockBegin(b) ==
    /\ pc[b] = "run" /\ needsUnlock[b] /\ mutex = Nobody
    /\ needsUnlock' = [needsUnlock EXCEPT ![b] = FALSE]
    /\ mutex' = b
    /\ pc' = [pc EXCEPT ![b] = "unlocking"]
    /\ at' = [at EXCEPT ![b] = 1]
    /\ UNCHANGED <<txs, results, writeLocks, readLocks, held>>

\* Mutant: the read locks are not given back.
UnlockTxWritesOnly(b) ==
    /\ pc[b] = "unlocking" /\ at[b] \in DOMAIN txs[b]
    /\ at' = [at EXCEPT ![b] = @ + 1]
    /\ IF at[b] \notin results[b]
       THEN UNCHANGED <<writeLocks, held>>
       ELSE /\ writeLocks' = writeLocks \ txs[b][at[b]].writable
            /\ held' = held \ {<<b, at[b]>>}
    /\ UNCHANGED <<txs, pc, results, needsUnlock, mutex, readLocks>>

\* Mutant: the first reader that leaves removes the count.
UnlockTxForgetsReaders(b) ==
    /\ pc[b] = "unlocking" /\ at[b] \in DOMAIN txs[b]
    /\ at' = [at EXCEPT ![b] = @ + 1]
    /\ LET x == txs[b][at[b]] IN
       IF at[b] \notin results[b]
       THEN UNCHANGED <<writeLocks, readLocks, held>>
       ELSE /\ writeLocks' = writeLocks \ x.writable
            /\ readLocks' = [k \in Keys |-> IF k \in x.readonly THEN 0 ELSE readLocks[k]]
            /\ held' = held \ {<<b, at[b]>>}
    /\ UNCHANGED <<txs, pc, results, needsUnlock, mutex>>

\* unlock_account on the next transaction whose result is Ok.
UnlockTx(b) ==
    /\ pc[b] = "unlocking" /\ at[b] \in DOMAIN txs[b]
    /\ at' = [at EXCEPT ![b] = @ + 1]
    /\ LET x == txs[b][at[b]] IN
       IF at[b] \notin results[b]
       THEN UNCHANGED <<writeLocks, readLocks, held>>
       ELSE /\ writeLocks' = writeLocks \ x.writable
            /\ readLocks' = [k \in Keys |->
                               IF k \in x.readonly /\ readLocks[k] > 0 THEN readLocks[k] - 1 ELSE readLocks[k]]
            /\ held' = held \ {<<b, at[b]>>}
    /\ UNCHANGED <<txs, pc, results, needsUnlock, mutex>>

UnlockEnd(b) ==
    /\ pc[b] = "unlocking" /\ at[b] \notin DOMAIN txs[b]
    /\ mutex' = Nobody
    /\ pc' = [pc EXCEPT ![b] = "run"]
    /\ UNCHANGED <<txs, at, results, needsUnlock, writeLocks, readLocks, held>>

\* The batch is dropped after its locks were given back (or never taken).
Drop(b) ==
    /\ pc[b] = "run" /\ ~needsUnlock[b]
    /\ pc' = [pc EXCEPT ![b] = "dropped"]
    /\ UNCHANGED <<txs, at, results, needsUnlock, mutex, writeLocks, readLocks, held>>

-----------------------------------------------------------------------------

Init ==
    /\ txs = [b \in AllBatches |-> <<>>]
    /\ pc = [b \in AllBatches |-> "new"]
    /\ at = [b \in AllBatches |-> 1]
    /\ results = [b \in AllBatches |-> {}]
    /\ needsUnlock = [b \in AllBatches |-> FALSE]
    /\ mutex = Nobody
    /\ writeLocks = {}
    /\ readLocks = [k \in Keys |-> 0]
    /\ held = {}

TxSeqs == UNION {[1 .. n -> Tx \cup {Refused}] : n \in 0 .. MaxTxs}

BatchStep(b) ==
    \/ LockBegin(b)
    \/ LockTx(b)
    \/ LockEnd(b)
    \/ UnlockBegin(b)
    \/ UnlockTx(b)
    \/ UnlockEnd(b)
    \/ Drop(b)

Next ==
    \E b \in AllBatches :
        \/ \E ts \in TxSeqs : Prepare(b, ts)
        \/ BatchStep(b)

Spec == Init /\ [][Next]_vars

\* No thread stops while it holds a batch.
FairSpec == Spec /\ \A b \in AllBatches : WF_vars(BatchStep(b))

-----------------------------------------------------------------------------
(* Properties.                                                             *)

\* The variables have their types: only batches that lock hold the mutex or locks.
TypeOK ==
    /\ txs \in [AllBatches -> TxSeqs]
    /\ pc \in [AllBatches -> {"new", "lock", "locking", "run", "unlocking", "dropped"}]
    /\ at \in [AllBatches -> Nat \ {0}]
    /\ results \in [AllBatches -> SUBSET Positions]
    /\ needsUnlock \in [AllBatches -> BOOLEAN]
    /\ mutex \in Batches \cup {Nobody}
    /\ writeLocks \subseteq Keys
    /\ readLocks \in [Keys -> Nat]
    /\ held \subseteq (Batches \X Positions)

\* Two transactions whose accounts are locked never share an account that one
\* of them may write ("This function will prevent multiple threads from
\* modifying the same account state at the same time", lock_accounts), also
\* within one batch.
WritersExclusive ==
    \A g, h \in held : g # h => Writes(g) \cap (Writes(h) \cup Reads(h)) = {}

\* Once every batch is dropped no lock is left: a failed or refused transaction
\* took none and a batch unlocked twice gave its locks back once.
NoLockLeaks ==
    (\A b \in Batches : pc[b] \in {"new", "dropped"}) =>
        writeLocks = {} /\ \A k \in Keys : readLocks[k] = 0

\* The read count of an account is the number of running transactions that
\* read-lock it: an unlock never takes another reader's lock away.
ReadCountExact ==
    \A k \in Keys : readLocks[k] = Cardinality({h \in held : k \in Reads(h)})

\* A batch that was prepared runs its transactions and gives its locks back.
BatchesFinish == \A b \in AllBatches : (pc[b] = "lock") ~> (pc[b] = "dropped")

=============================================================================
