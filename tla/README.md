# A verification of the HyperGrid grid validator

The repository is a grid of the HyperGrid network: a fork of the Solana 1.18
validator (`Base/grid_coprocessor`) that reads accounts and programs of a base
layer through RPC, runs transactions on them, and posts results back. Next to it
are the Anchor programs of the demo (`Base/sonic-*-program`) and its client
applications (`App`).

This directory holds TLA+ modules for the concurrent core of that validator and
for everything the fork adds to it, TLC configurations that check them on small
instances, and TLAPS proofs that hold for every instance. `PROJECT.json` maps
each definition to the lines it models and lists runs, mutants, hazards,
findings and theorems.

## 1. The system

| Part | Code (under `src/`) | Module |
|---|---|---|
| Accounts database: index, write cache, storages, read-only cache | `accounts-db/src/{accounts_db,accounts_index,accounts_cache,account_storage,read_only_accounts_cache}.rs` | `AccountsDb` |
| Flush against the dump of duplicate slots, late purges, scans | `accounts_db.rs`, `accounts_index.rs`, `bank.rs` | `SlotContention` |
| Account locks of a bank | `accounts.rs`, `transaction_batch.rs` | `AccountLocks` |
| Cache of loaded programs | `program-runtime/src/loaded_programs.rs`, `bank.rs`, `bpf_loader` | `ProgramCache` |
| Base-layer accounts: remote loader, migration, posts, hgnft | `remote_loader.rs`, `bank.rs`, `sonic-nft-program` | `HyperGrid` |
| Replay protection: blockhash queue, durable nonces, status cache, snapshots | `blockhash_queue.rs`, `status_cache.rs`, `bank.rs`, `bank_forks.rs`, `snapshot_bank_utils.rs`, `consumer.rs` | `StatusCache`, and `Ledger` for what it promises |
| Votes: tower, tower storage, voting service, vote program, start-up | `consensus.rs`, `replay_stage.rs`, `voting_service.rs`, `vote_state/mod.rs`, `validator.rs` | `Tower` |
| Bank forks, replay stage, accounts background service (ABS) | `bank_forks.rs`, `replay_stage.rs`, `accounts_background_service.rs` | as the actors of the modules above |

How they interact. Replay, banking and RPC simulations run batches of
transactions on banks. A batch locks its accounts (`AccountLocks`), first
migrates or deactivates the base-layer accounts its instructions name
(`HyperGrid`), drops the transactions that are too old or were processed before
(`StatusCache`), gets its programs from the shared program cache
(`ProgramCache`), loads its accounts (`AccountsDb`), executes, posts what the
hgnft program logged to the base layer (`HyperGrid`), and commits to the write
cache (`AccountsDb`) and the status cache (`StatusCache`). Replay freezes, roots
and dumps banks and votes on them (`Tower`); ABS flushes, shrinks, purges and
takes snapshots behind it (`AccountsDb`, `SlotContention`, `StatusCache`).

The hard parts are the races between these threads: most have no common lock,
and rely on the order in which each one changes two or three structures.

## 2. The modules

A module has one action per step that other threads can see: a section under a
lock, or one access to a concurrent map. A panic ends the process (the
validator's panic hook exits), so in the models it is recorded in `panicked` or
`failed` and nothing happens after it. Account contents, levels and program
texts are small numbers; addresses and threads are model values.

### AccountsDb

State: the index (`index`, per address and slot a location: cached, or a store
id), the slot caches, `frozenCaches`, `unflushed` roots, `storage` and the store
being shrunk, the read-only cache, the remote cache, the banks and their
ancestors, the threads, ABS. `committed` is a history variable: the accounts of
each bank as its commits define them, which all reads are compared with.

Actions follow the steps that the comment in `retry_to_get_account_accessor`
names R1-R4, F1-F4 and S1-S4: `StartLoad` (R1), `Access` (R2-R4), `Reread` (the
retry, with the accessor taken under the index lock after `LoadLimit` failures),
`StoreToCache` and `StoreToIndex` (a commit), `FlushCollect`, `FlushWrite`,
`FlushIndex`, `FlushRemove`, `ShrinkStart`, `ShrinkIndex`, `ShrinkSwap`, `Purge`.
A flush has three passes: the roots, all roots if the cache is then too big, and
frozen slots if it still is. The sizes are not modelled; both answers are
allowed. What the fork adds is here too: a miss in a slot cache is answered from
the remote cache and copied into the slot (`CacheLoad`, `CacheAfterLoad`), an
address that is in no index is reported at a dummy slot 0 (`ReadIndex`), and the
remote flag does not survive a flush (`Stored`).

### SlotContention

The same database seen from the slots. A duplicate slot is dumped with its
descendants and replayed under the same number, so a bank is a pair of a slot and
a version. The dump reserves its slots (`Reserve`), announces the removed banks
(`MarkRemoved`) and purges; a flush enters a slot, writes, removes, releases and
signals; ABS purges dropped banks (`PurgeDropped`); a scanner takes a bank, looks
at its slots one by one and then asks whether the bank was removed.

### AccountLocks

Batches take the mutex, lock transaction by transaction, run, unlock and are
dropped. `held`, a history variable, has the transactions that run with their
accounts locked; the two lock tables are compared with it.

### ProgramCache

State: for each program its `slot_versions` (sets of entries with deployment
slot, effective slot, kind, text), the loading locks, the last root; banks,
ancestors and the programdata accounts by slot; the batches. `Round` is one turn
of the loop in `replenish_program_cache` under the write lock: it finishes the
task just loaded, extracts what is there, and takes a free task. `Load` runs
without the lock. `notified` says whose cookie is stale, which is all that
`LoadingTaskWaiter` depends on. `PruneCache` and `SetRoot` are two steps, as in
`handle_new_root`; the dump is three (`DumpBanks`, `DumpAccounts`,
`DumpPrograms`). A base-layer program is loaded at slot 0 or, if it does not
verify, at its slot of the base layer.

Left out: environments and recompilation at an epoch boundary, built-ins, the
modification-slot criterion of banks that catch up after a start, usage counters
(any loaded entry may be evicted).

### HyperGrid

The grid and the base layer together: threads migrate and deactivate the program,
its data and an NFT account, play the NFT, and post. Every RPC call may fail.
Posts in flight are counted per level and land in any order, or are lost. Users
of the base layer call `setlocker` and `setvalue` between them. The NFT's level
is the only content kept. The module leaves out the copy of remote accounts in
slot 0 (it is in `AccountsDb`), since the program, its data and the NFT are named
read-only by the instructions and are never stored by a bank.

### StatusCache and Ledger

State: the banks with their chain, their `ancestors` map, their blockhash queue,
the nonce account and a history of what their fork processed (`done`); the shared
status cache (`cache`, `roots`, `slot_deltas`); where `set_root` is (`stage`,
`target`, `pending`); the processing threads; the snapshot asked for and the one
on disk; the slots that were pruned or repaired.

A thread takes four steps with other threads between them: `CheckAge` (the
blockhash queue or the nonce), `CheckStatusCache`, `Record` (under the freeze
lock, refused after the last tick) and `Commit` (the nonce account, the status
cache). Replay has `NewBank`, `LastTick`, `Freeze`, then `SetRoot`, one
`SquashOne` per slot, `RequestSnapshot` and `Prune`, and `Dump` for a duplicate
slot. `WriteSnapshot` is the background service. `Restart` starts from the last
snapshot: the slot deltas are appended to a new cache in any order.
`RepairPruned` is `purge_unconfirmed_duplicate_slot` for a slot without a bank.

A blockhash is named by its slot and a durable nonce by the hash it is made from.
A message hash is a key; the slice of it that the cache stores depends on the
random `key_index` of its blockhash, so a fork entry is a triple of index, key
and slot.

`Ledger` says what all this is for: a fork is a set of transactions, a
transaction enters it at most once, and a restart comes back with a fork that was
saved. `ProcessedAtMostOnce` is the refinement: the ledger of a bank is its
`done`, over the banks that are live or below the new root.

### Tower

State: the blocks with their chain and the own vote account, the blockstore's
root, the saved tower, the votes that left the node, BankForks' root, the banks
still to be looked at by `compute_bank_stats`, the tower, the place of the replay
loop, the queue to the voting service and the vote it is sending.

Actions: `NewBank` (a block, with or without one of the votes sent so far),
`ComputeBankStats` (a bank with a newer own vote replaces the tower),
`RecordBankVote` (the vote, and a new root in blockstore and BankForks),
`PushVote`, `NoVoteTx`, `RefreshLastVote`, `SaveTower`, `SendVote`, and `Restart`:
the process dies anywhere and starts at the blockstore's root or at a newer one
that a supermajority agreed on, with the saved tower if it can be restored, or
one rebuilt from the vote account of a bank.

The votes of a vote state are a set, since their slots are distinct and ordered.
The stakes of others are left open: the bank voted for is any tip that
`is_locked_out` lets through; the switch proof, the vote threshold and
propagation only forbid votes. A crash is a crash of the process: what was
written stays written. `set_identity`, duplicates, credits, timestamps and votes
too old for `SlotHashes` are left out. The authorized voters are not taken away
at run time, except in `tower_rekey`.

## 3. What TLC checks

States are distinct states; times are for two workers.

| Run | Instance | Checks |
|---|---|---|
| `accountsdb_replay` | two addresses, slots 0-2 on two forks, one replay thread, all of ABS | `NoPanic`, `IndexLeadsToAccount`, `DatabaseShowsForkState`, `LoadReturnsForkState`, `ReadCacheIsFresh`, `CacheAndStorageDisjoint`, `TypeOK` |
| `accountsdb_fair` | replay and an RPC read with `LoadLimit` 1, so that the slow path is taken | `NoPanic`, `LoadTerminates`, `RootsAreFlushed` |
| `accountsdb_remote` | a banking thread and a simulation, with migrations, deactivations and changes of the base layer | `IndexLeadsToAccount` |
| `account_locks` | two batches of up to two transactions and a simulation, one address | `WritersExclusive`, `ReadCountExact`, `NoLockLeaks`, `BatchesFinish`, `TypeOK` |
| `slot_contention` | two slots, two versions each, three banks, one scanner | `SlotsExclusive`, `NoMissedSignal`, `AssertionsHold`, `LiveBankKeepsAccounts`, `ScanNotTorn`, `TypeOK` |
| `program_cache` | one program, slots 0-3, two replay threads, one dump (391,399 states, 2.3 min) | `BatchGetsForkProgram`, `LoaderHoldsLock`, `SleepersWillWake`, `LoadsOnce`, `TypeOK` |
| `hypergrid` | a banking thread and a simulation, one user, two levels (86,669 states) | `LevelIsAccountedFor`, `GridNeverHoldsLock`, `CachedIsPast`, `TransactionsEnd` |
| `status_cache` | slots 0-3, two threads, a plain and a nonced transaction, one fault (454,428 states) | `StatusIsExact`, `DeltasAreCached`, `SnapshotVerifies`, `CommitsAsReplayed`, `ProcessedAtMostOnce` |
| `tower` | slots 0-5, four blocks, a tower of two votes, one crash (361,007 states) | `LockoutsHonoured`, `VotesAreAccepted`, `TowerRestores`, `ReplayNeverPanics` |

Every property has a mutant: a plausible wrong version of one definition under
which TLC finds the property violated.

Three runs end in a violation, each of something a comment or a guide of the
repository says:

| Run | What it shows |
|---|---|
| `remote_load` | A load that loses the race with a flush is answered with the base-layer copy, where the comment says that it retries. |
| `hypergrid_sim` | A simulation posts to the base layer, where the comment says that it commits nothing. |
| `tower_rekey` | A vote recorded while the authorized voters are removed is first sent as a refresh, which saves no tower, where the failover guide says that the tower is written before a vote is submitted. |

What the passing properties leave out, and the models reach:

- `AssertionsHold` leaves out one assertion: the excess flush lists frozen slots
  once, a listed slot may be dumped and replayed before its turn, and its second
  flush finds the store of the first (`account_storage.rs:145`).
- `HyperGrid` has two panics as steps: the unwrap of the latest blockhash
  (`remote_loader.rs:417`) and the expect on a program deactivated between filter
  and load (`bank.rs:5100`).
- `BatchGetsForkProgram` is checked for replay threads. A simulation on an
  abandoned fork (a thread in `LimitThreads`) may finish its load after the
  prune, and the orphan's program is then taken for a rooted one by all forks.
- `LoadsOnce` is checked for local programs. A base-layer program that does not
  verify (`RemoteKeys` with `RemoteVerifies` false) gets a tombstone at its
  base-layer slot; no fork of the grid sees it, so the batch loads it again.
- `StatusIsExact` has one exception: the entries of a slot that was pruned above
  the root and then repaired. `purge_unconfirmed_duplicate_slot` takes it for a
  slot below the root (`replay_stage.rs:1559`) and clears nothing. The stale
  answer refuses a transaction; it never lets one through twice.
- The comment above `reconcile_blockstore_roots_with_external_source` says that
  `handle_votable_bank` saves the tower before it sets the blockstore's roots.
  The code sets the roots first, and `TowerRestores` relies on that order.

### Bounds, and why they suffice

- Three slots make two forks and a rooted chain of two; a flush of two roots at
  once needs slots 0-2. Two forks with a program deployed on each, and a root
  that makes one an orphan, need slots 0-3.
- Two store ids per slot are one flush and one shrink of its result.
- Two versions of a slot and one dump give every order of dump, replay, flush and
  late purge; three banks give a dumped bank with a descendant and its successor.
- `MaxVersions` 3 bounds the slots that hold a version of a program: genesis and
  two deployments or closes.
- One contested address is enough for the locks, which treat addresses
  independently, except that one transaction takes several of them at once; the
  proofs cover all numbers.
- The symmetry of `program_cache` exchanges the two replay threads, which nothing
  tells apart. It is used for invariants only.
- `status_cache` has a cache of one root, an age of one block and a snapshot every
  second block, so that four slots are enough to purge a root, to let a hash
  expire and to restart from a snapshot. One fault is a dump, a repair or a
  restart; their combinations are left to the proofs. The symmetry exchanges the
  key indexes, which the code only compares.
- In `tower` a tower of two votes with lockouts 2 and 4 pops, doubles and roots
  within six slots; four blocks make two forks of two. One crash between any two
  steps meets every combination of saved tower, roots and votes under way. The
  proofs cover deeper towers and more crashes.
- Deadlock is not checked: inputs are bounded, so the models stop when slots,
  transactions or messages are used up. What must not stop is stated as a
  property (`LoadTerminates`, `RootsAreFlushed`, `BatchesFinish`,
  `TransactionsEnd`, `NoMissedSignal`, `SleepersWillWake`).

### Fairness

- `AccountsDb`: a loading thread keeps running (weak fairness), ABS finishes a
  flush or shrink it has begun (weak), and takes the current root in iteration
  after iteration of its loop (strong, since the root moves).
- `AccountLocks`: no thread stops while it holds a batch.
- `HyperGrid`: a thread goes on while it has a transaction. The blocking RPC
  client has a timeout, so a call returns or fails. Nothing is assumed of the base
  layer.

## 4. What TLAPS proves

For every value of the constants:

- `AccountLocksProofs`: `LockTypes`, `Exclusion`, `ReadCount`, `NoLeak`. The
  invariant `LockInv` says that the locks owed by a batch are those of its
  successful transactions between `at` and the end (`HeldExact`), that both lock
  tables are exactly what `held` says, and which batch has the mutex in which
  phase. It is needed because an unlock works from the results of the lock, long
  after other batches have changed the tables.
- `SlotContentionProofs`: `SlotTypes`, `SlotExclusion`, `SleepersAreSignalled`,
  `PurgeAssertions`, `BanksKeepAccounts`, `ScansAreWhole`. The invariant has four
  parts: who holds which slot (`SyncInv`), what became of the banks (`ForkInv`:
  the chains, that only the last version of a slot is alive, that dumped banks are
  announced before their accounts go), where accounts are (`DataInv`) and what
  each scan can still say (`ScanInv`). The key step is that a dropped bank that
  was not dumped owns its slot, so its late purge hits nobody.
- `HyperGridProofs`: `GridTypes`, `LevelsAccountedFor`, `LockReleased`,
  `CacheShowsPast`. The invariant follows a level from the log through the thread
  and the posts in flight to the base layer, and an answer of the base layer
  through the thread to the cache.
- `TowerProofs`: `Lockouts`, `Acceptance`, `Restores`, `NoPanics`. The argument is an order on towers. One tower *follows* another if
  its root descends from the other's, it reaches as far, and each vote of the
  other is still there, is below the root, or has expired under the votes after
  it. Recording a vote, restoring a saved tower and adopting the one of a bank all
  give a tower that follows; the invariant says that the votes
  sent, the saved tower, the waiting votes and the tower in memory follow each
  other in this order, along one fork. `Lockouts` is then what following means,
  and `Acceptance` is that the vote program asks for no more.
- `StatusCacheInv` and `StatusCacheProofs` (one argument in two modules):
  `Exactness`, `NoDumpPanics`, `SnapshotsVerify`, `Replayable`, and `Refinement`, that `StatusCache` implements `Ledger`. The invariant says
  that the age of a hash in a bank's queue is the number of blocks after it; that
  each slot of a fork is in `ancestors`, in `roots`, or has `MaxCacheEntries`
  roots above it (`Gone`); that each transaction of a fork left a delta in a slot
  above its blockhash, unless that slot is gone (`Traced`); that each entry of a
  slot on a fork stands for a transaction of it; and the same of every snapshot.
  The proof counts blocks: if an entry is gone, at least `MaxCacheEntries` roots
  are above its slot, the slot itself is above the blockhash, so more than
  `MaxAge` hashes were registered since and `check_age` refuses the transaction.
  Between the check and the commit only other threads add to the bank's ledger,
  and the account locks keep them off the same transaction. In the refinement a commit is
  `Process`, a new bank `Extend`, a new root, a prune and a dump `Abandon`, a
  snapshot `Save`; all other steps are invisible.

- `ProgramCacheInv` and `ProgramCacheProofs` (one argument in two modules), in two
  layers. `TypeCorrect`, `LockedWhileLoaded` and `NoLostWakeUp` hold whoever uses
  the cache, simulations, banking and base-layer programs included. Their invariant
  `Inv` says that a lock names the thread that loads, that a thread has a task
  exactly while it holds a lock, and that a sleeper without a notification misses a
  program that is being loaded. `ReplayRunsItsFork` and `ReplayLoadsOnce` assume
  `Local`: no base-layer program, and replay as the only user of the cache, as in the
  run. Their invariant `ForkInv` adds that the banks are a tree over the root
  (`TreeInv`); that replay roots and dumps with no batch running, and that a dumped
  slot keeps no account (`ReplayInv`); that each entry of a slot that will stay tells
  what the slot's account says, and each deployment in such a slot has an entry or is
  below a newer rooted one (`Held`); and that nothing is deployed after a closing
  (`ClosedLast`). It is needed because `prune` changes the cache before `set_root`
  changes the forks, and a dump empties the accounts before it empties the cache: in
  between, the two disagree about the slots that will go, and agree about those that
  will stay (`Live`). The entry `extract` finds is then the fork's last deployment,
  and what a batch has loaded itself is the version it will find.

Assumptions are those the modules declare: finite sets of addresses and batches,
natural bounds, disjoint kinds of threads, model values distinct from the data; a
tower of at least two votes whose lockouts do not decrease with the confirmations;
`MaxAge` at most `MaxCacheEntries` and `QueueAge` (150 and 300 in the code), which
is what the counting argument needs. What the lemmas need of finite sets and of
well-founded orders is a hypothesis of theirs (`SetFacts`, `Topped`), which the last
module of each argument takes from the library just before its theorems: the provers
then see the library only where it is used. Leaves that need no arithmetic name Zenon.

Only model-checked:

- Liveness (`LoadTerminates`, `RootsAreFlushed`, `BatchesFinish`,
  `TransactionsEnd`): it needs fairness and ENABLED, which are out of the prover's
  reach.
- `AccountsDb`, for which no inductive invariant is written yet.

## 5. Not modelled

The accounts hash and capitalization, clean and ancient append vecs, the files of
a snapshot, fork choice and switch proofs, the blockstore beyond its roots,
gossip, turbine, repair and PoH, the native programs other than the vote program,
the game and inbox programs, the applications. `PROJECT.json` gives the reason for
each. Networking is unchanged upstream code that the modelled parts meet only as
the order in which banks and votes appear.

## 6. Plan

1. Proofs for `AccountsDb` (`IndexLeadsToAccount`).
2. An abstract store that `AccountsDb` without remote accounts implements: a fork
   of maps with atomic reads and commits.
3. `ReadOnlyCache`: entries, queue and byte count under concurrent stores.
4. Capitalization: the base-layer subtraction as an operator over small storages,
   against a count of each account once.
5. The scheduler's thread-aware account locks.
6. The switch rule and the vote threshold over the stakes of several validators.
