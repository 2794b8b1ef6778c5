----------------------------- MODULE AccountsDb -----------------------------
(***************************************************************************)
(* The accounts database of the grid validator: the accounts index, the    *)
(* per-slot write caches, the append-vec storages, the read-only cache and *)
(* the cache of accounts fetched from the base layer (RemoteAccountLoader),*)
(* as the threads that share them see them:                                *)
(*   - transactions load an account (FixedMaxRoot), then commit it;        *)
(*   - simulations load with FixedMaxRoot on a frozen bank, RPC requests   *)
(*     load with the Unspecified hint;                                     *)
(*   - replay creates banks, freezes them, roots them and drops them;      *)
(*   - AccountsBackgroundService (ABS) flushes, shrinks and purges slots;  *)
(*   - the account migrater fetches and deactivates base-layer accounts.   *)
(* Reader steps R1-R4, flusher steps F1-F4, shrinker steps S1-S4 are those *)
(* of the comment in retry_to_get_account_accessor().                      *)
(***************************************************************************)
EXTENDS Integers, FiniteSets, FiniteSetsExt

CONSTANTS
    Pubkeys,        \* account addresses
    Sysvar,         \* the address every new bank stores (the clock sysvar)
    MigratedKeys,   \* addresses the migrater fetches from the base layer
    ReplayThreads,  \* threads of the replay stage executing a transaction
    BankingThreads, \* threads of the banking stage executing a transaction
    SimThreads,     \* RPC threads simulating a transaction
    RpcThreads,     \* RPC threads reading an account
    None,           \* absence of an account, a location, a slot, a store
    MaxSlot,        \* bound: the last slot a bank is created for
    MaxVal,         \* bound: how many account contents are ever written
    MaxStores,      \* bound: append vecs created for one slot
    LoadLimit       \* ABSURD_CONSECUTIVE_FAILED_ITERATIONS (a field in tests)

Slots == 0 .. MaxSlot
TxThreads == ReplayThreads \cup BankingThreads
Threads == TxThreads \cup SimThreads \cup RpcThreads
Keys == Pubkeys \ {Sysvar}

ASSUME SlotAssumption == MaxSlot \in Nat /\ MaxVal \in Nat /\ MaxStores \in Nat
ASSUME LimitAssumption == LoadLimit \in Nat \ {0}
ASSUME KeyAssumption == Sysvar \in Pubkeys /\ MigratedKeys \subseteq Keys
ASSUME ThreadAssumption ==
    /\ ReplayThreads \cap BankingThreads = {}
    /\ TxThreads \cap SimThreads = {}
    /\ TxThreads \cap RpcThreads = {}
    /\ SimThreads \cap RpcThreads = {}

\* AccountSharedData: the content, and whether it was fetched from the base layer.
Accounts == [val : Nat, remote : BOOLEAN]
Option(S) == S \cup {None}
NoAccounts == [k \in Pubkeys |-> None]

ASSUME NoneAssumption ==
    /\ None \notin Accounts
    /\ None \notin Nat
    /\ None \notin [Pubkeys -> Option(Accounts)]
    /\ None \notin [id : Nat, accts : [Pubkeys -> Option(Accounts)]]
    /\ None \notin [slot : Slots, loc : Nat]

\* StorageLocation: the write cache, or the append vec with a store id.
Cached == 0
Locations == 0 .. MaxStores

VARIABLES
    bank,       \* life of each slot's bank
    parent,     \* Bank::rc.parent, None once squashed
    ancestors,  \* Bank::ancestors, fixed at creation
    root,       \* BankForks::root
    pruned,     \* dropped banks queued for ABS (pruned_banks_receiver)
    index,      \* AccountsIndex: slot list of each pubkey
    aliveRoots, \* AccountsIndex::roots_tracker.alive_roots
    slotCache,  \* AccountsCache::cache
    frozenCaches, \* the slot caches whose is_frozen is set
    unflushed,  \* AccountsCache::maybe_unflushed_roots
    maxFlushed, \* AccountsCache::max_flushed_root
    storage,    \* AccountStorage::map
    shrinking,  \* AccountStorage::shrink_in_progress_map
    lastStore,  \* per slot, the id of the last append vec created
    roCache,    \* ReadOnlyAccountsCache
    remote,     \* RemoteAccountLoader::account_cache
    base,       \* content of the accounts on the base layer
    lastVal,    \* contents written so far
    thr,        \* the loading threads
    abs,        \* AccountsBackgroundService
    committed,  \* history: the accounts of each bank, as commits define them
    panicked    \* assertions of the code that failed

bankVars == <<bank, parent, ancestors, root, pruned>>
dbVars == <<index, aliveRoots, slotCache, frozenCaches, unflushed, maxFlushed, storage,
            shrinking, lastStore, roCache>>
remoteVars == <<remote, base>>
vars == <<bankVars, dbVars, remoteVars, lastVal, thr, abs, committed, panicked>>

-----------------------------------------------------------------------------
(* Reading the index, the caches and the storages.                         *)

\* Mutant: the index ignores the ancestors of the reader's bank.
VisibleAnyFork(k, b) == {s \in Slots : index[k][s] # None}

\* AccountsIndex::get and latest_slot with no max_root: the latest entry at
\* an ancestor or at an alive root.
Visible(k, b) ==
    {s \in Slots : index[k][s] # None /\ (s \in ancestors[b] \/ s \in aliveRoots)}

\* read_index_for_accessor_or_load_slow: R1. An account missing from the
\* index but present in the remote cache is reported at a dummy slot 0.
ReadIndex(k, b) ==
    IF Visible(k, b) # {}
    THEN LET s == Max(Visible(k, b)) IN [slot |-> s, loc |-> index[k][s]]
    ELSE IF Cardinality(ancestors[b]) > 1 /\ remote[k] # None
         THEN [slot |-> 0, loc |-> Cached]
         ELSE None

InSlotCache(s, k) == slotCache[s] # None /\ slotCache[s][k] # None

\* AccountsCache::load: a miss falls through to the remote cache.
CacheLoad(s, k) == IF InSlotCache(s, k) THEN slotCache[s][k] ELSE remote[k]

\* AccountsCache::store: creates the slot cache on demand.
CacheStore(s, k, a) ==
    [slotCache EXCEPT ![s] =
        [IF slotCache[s] = None THEN NoAccounts ELSE slotCache[s] EXCEPT ![k] = a]]

\* AccountStorage::get_account_storage_entry.
StorageEntry(s, id) ==
    IF storage[s] # None /\ storage[s].id = id THEN storage[s]
    ELSE IF shrinking[s] # None /\ shrinking[s].id = id THEN shrinking[s]
    ELSE None

\* get_account_accessor (R2), with the account R3 and R4 then take from it.
Accessor(s, k, loc) ==
    IF loc = Cached THEN CacheLoad(s, k)
    ELSE IF StorageEntry(s, loc) = None THEN None
    ELSE StorageEntry(s, loc).accts[k]

\* The slot cache after get_account_accessor: a remote account is kept there.
CacheAfterLoad(s, k, loc) ==
    IF loc = Cached /\ ~InSlotCache(s, k) /\ remote[k] # None
    THEN CacheStore(s, k, remote[k])
    ELSE slotCache

\* An append vec does not keep AccountSharedData::remote.
Stored(a) == IF a = None THEN None ELSE [a EXCEPT !.remote = FALSE]

-----------------------------------------------------------------------------
(* The loading threads.                                                    *)

FixedMaxRoot(t) == t \notin RpcThreads

IdleThread == [pc |-> "idle", bank |-> 0, key |-> Sysvar, at |-> None,
               fails |-> 0, got |-> None]

Live(s) == bank[s] \in {"open", "frozen"}

\* A panic ends the process: the panic hook of the validator exits.
Running == panicked = {}

\* Accounts::lock_accounts: one transaction of a bank holds a writable account.
Locked(b, k) ==
    \E u \in TxThreads : thr[u].pc # "idle" /\ thr[u].bank = b /\ thr[u].key = k

Panic(what) == panicked' = panicked \cup {what}

\* do_load: R1, and the bail out when the account is missing.
StartLoad(t, b, k) ==
    /\ Running /\ thr[t].pc = "idle"
    /\ t \in TxThreads => bank[b] = "open" /\ ~Locked(b, k)
    /\ t \in ReplayThreads => root \in ancestors[b]
    /\ t \in SimThreads => bank[b] = "frozen"
    /\ t \in RpcThreads => Live(b)
    /\ LET at == ReadIndex(k, b) IN
       thr' = [thr EXCEPT ![t] =
                 [pc |-> IF at = None THEN "loaded"
                         ELSE IF at.loc = Cached THEN "access" ELSE "rocache",
                  bank |-> b, key |-> k, at |-> at, fails |-> 0, got |-> None]]
    /\ UNCHANGED <<bankVars, dbVars, remoteVars, lastVal, abs, committed, panicked>>

\* do_load_with_populate_read_cache: a stored account may be in the read cache.
LookInReadCache(t) ==
    /\ Running /\ thr[t].pc = "rocache"
    /\ LET hit == roCache[thr[t].key][thr[t].at.slot] IN
       thr' = [thr EXCEPT ![t].pc = IF hit = None THEN "access" ELSE "loaded",
                          ![t].got = hit]
    /\ UNCHANGED <<bankVars, dbVars, remoteVars, lastVal, abs, committed, panicked>>

\* One iteration of retry_to_get_account_accessor up to the index re-read. The
\* failures are counted up to one past LoadLimit, where nothing depends on more.
Access(t) ==
    /\ Running /\ thr[t].pc = "access"
    /\ LET k == thr[t].key
           s == thr[t].at.slot
           loc == thr[t].at.loc
           a == Accessor(s, k, loc)
           counted == loc = Cached \/ ~FixedMaxRoot(t)
           fails == IF counted /\ thr[t].fails <= LoadLimit THEN thr[t].fails + 1 ELSE thr[t].fails
       IN
       /\ slotCache' = CacheAfterLoad(s, k, loc)
       /\ IF a # None
          THEN /\ thr' = [thr EXCEPT ![t].pc = IF loc = Cached THEN "loaded" ELSE "fill",
                                     ![t].got = a]
               /\ UNCHANGED panicked
          ELSE /\ thr' = [thr EXCEPT ![t].pc = "reread", ![t].fails = fails]
               /\ IF loc = Cached /\ FixedMaxRoot(t) /\ fails > 1
                  THEN Panic("failed more than once") ELSE UNCHANGED panicked
    /\ UNCHANGED <<bankVars, index, aliveRoots, frozenCaches, unflushed, maxFlushed, storage, shrinking,
                   lastStore, roCache, remoteVars, lastVal, abs, committed>>

\* Mutant: the read-only cache entry is filed under the reader's slot.
FillReadCacheWrongSlot(t) ==
    /\ thr[t].pc = "fill"
    /\ roCache' = [roCache EXCEPT ![thr[t].key][thr[t].bank] = thr[t].got]
    /\ thr' = [thr EXCEPT ![t].pc = "loaded"]
    /\ UNCHANGED <<bankVars, index, aliveRoots, slotCache, frozenCaches, unflushed, maxFlushed,
                   storage, shrinking, lastStore, remoteVars, lastVal, abs, committed, panicked>>

\* The account read from an append vec is kept in the read-only cache.
FillReadCache(t) ==
    /\ Running /\ thr[t].pc = "fill"
    /\ roCache' = [roCache EXCEPT ![thr[t].key][thr[t].at.slot] = thr[t].got]
    /\ thr' = [thr EXCEPT ![t].pc = "loaded"]
    /\ UNCHANGED <<bankVars, index, aliveRoots, slotCache, frozenCaches, unflushed, maxFlushed, storage,
                   shrinking, lastStore, remoteVars, lastVal, abs, committed, panicked>>

\* Mutant: the location read again from the index is not used.
RereadKeepsLocation(t) ==
    /\ thr[t].pc = "reread"
    /\ thr' = [thr EXCEPT ![t].pc = "access"]
    /\ UNCHANGED <<bankVars, dbVars, remoteVars, lastVal, abs, committed, panicked>>

\* The rest of the iteration: the index is read again, under its lock and with
\* the accessor taken there (clone_in_lock) after LoadLimit failures.
Reread(t) ==
    /\ Running /\ thr[t].pc = "reread"
    /\ LET k == thr[t].key
           old == thr[t].at
           at == ReadIndex(k, thr[t].bank)
           slow == thr[t].fails >= LoadLimit
           found == Visible(k, thr[t].bank) # {}
           a == IF at = None THEN None ELSE Accessor(at.slot, k, at.loc)
       IN
       /\ slotCache' = IF slow /\ found THEN CacheAfterLoad(at.slot, k, at.loc) ELSE slotCache
       /\ \/ /\ at = None
             /\ thr' = [thr EXCEPT ![t].pc = "loaded"]
             /\ UNCHANGED panicked
          \/ /\ at # None /\ at = old
             /\ thr' = [thr EXCEPT ![t] = IdleThread]
             /\ Panic(IF at.loc = Cached THEN "cached after a failed load"
                                          ELSE "bad index entry")
          \/ /\ at # None /\ at # old /\ slow
             /\ IF ~found
                THEN thr' = [thr EXCEPT ![t] = IdleThread] /\ Panic("no accessor in slow path")
                ELSE IF a = None
                THEN thr' = [thr EXCEPT ![t] = IdleThread] /\ Panic("empty accessor")
                ELSE /\ thr' = [thr EXCEPT ![t].pc = IF at.loc = Cached THEN "loaded" ELSE "fill",
                                           ![t].at = at, ![t].got = a]
                     /\ UNCHANGED panicked
          \/ /\ at # None /\ at # old /\ ~slow
             /\ thr' = [thr EXCEPT ![t].pc = "access", ![t].at = at]
             /\ UNCHANGED panicked
    /\ UNCHANGED <<bankVars, index, aliveRoots, frozenCaches, unflushed, maxFlushed, storage, shrinking,
                   lastStore, roCache, remoteVars, lastVal, abs, committed>>

\* The load's result is used and nothing is stored: a read, a simulation, a
\* read-only account of a transaction, or a transaction that is not committed.
Finish(t) ==
    /\ Running /\ thr[t].pc = "loaded"
    /\ thr' = [thr EXCEPT ![t] = IdleThread]
    /\ UNCHANGED <<bankVars, dbVars, remoteVars, lastVal, abs, committed, panicked>>

\* The account a transaction commits for a writable address: a new content, or
\* the account as it was loaded when it is remote (process_message makes a
\* remote account read-only for every instruction).
Modifies(t) == thr[t].got = None \/ ~thr[t].got.remote
NewAccount(t) ==
    IF Modifies(t) THEN [val |-> lastVal + 1, remote |-> FALSE] ELSE thr[t].got

\* Accounts::store_cached, first half: store_accounts_to drops the read-cache
\* entry and write_accounts_to_cache puts the account in the slot cache.
StoreToCache(t) ==
    /\ Running /\ t \in TxThreads /\ thr[t].pc = "loaded"
    /\ bank[thr[t].bank] = "open"
    /\ Modifies(t) => lastVal < MaxVal
    /\ LET b == thr[t].bank
           k == thr[t].key
       IN
       /\ slotCache' = CacheStore(b, k, NewAccount(t))
       /\ roCache' = [roCache EXCEPT ![k][b] = None]
       /\ committed' = [committed EXCEPT ![b][k] = NewAccount(t)]
    /\ lastVal' = IF Modifies(t) THEN lastVal + 1 ELSE lastVal
    /\ thr' = [thr EXCEPT ![t].pc = "stored"]
    /\ UNCHANGED <<bankVars, index, aliveRoots, frozenCaches, unflushed, maxFlushed, storage, shrinking,
                   lastStore, remoteVars, abs, panicked>>

\* Accounts::store_cached, second half: update_index, then unlock_accounts.
StoreToIndex(t) ==
    /\ Running /\ thr[t].pc = "stored"
    /\ index' = [index EXCEPT ![thr[t].key][thr[t].bank] = Cached]
    /\ IF index[thr[t].key][thr[t].bank] \in {None, Cached}
       THEN UNCHANGED panicked
       ELSE Panic("previous entry was not cached")
    /\ thr' = [thr EXCEPT ![t] = IdleThread]
    /\ UNCHANGED <<bankVars, aliveRoots, slotCache, frozenCaches, unflushed, maxFlushed, storage, shrinking,
                   lastStore, roCache, remoteVars, lastVal, abs, committed>>

-----------------------------------------------------------------------------
(* Banks.                                                                  *)

\* Bank::parents and the bank itself: the parent pointers stop at a squashed bank.
Chain(s) ==
    {p \in ancestors[s] : \A q \in ancestors[s] : parent[q] = None => q <= p}

\* Bank::new_from_parent, whose sysvar updates create the slot's write cache.
NewBank(s, p) ==
    /\ Running /\ bank[s] = "unused" /\ \A q \in Slots : q < s => bank[q] # "unused"
    /\ bank[p] = "frozen" /\ root \in ancestors[p]
    /\ LET fresh == [val |-> s, remote |-> FALSE] IN
       /\ slotCache' = CacheStore(s, Sysvar, fresh)
       /\ committed' = [committed EXCEPT ![s] = [committed[p] EXCEPT ![Sysvar] = fresh]]
    /\ index' = [index EXCEPT ![Sysvar][s] = Cached]
    /\ bank' = [bank EXCEPT ![s] = "open"]
    /\ parent' = [parent EXCEPT ![s] = p]
    /\ ancestors' = [ancestors EXCEPT ![s] = {s} \cup Chain(p)]
    /\ UNCHANGED <<root, pruned, aliveRoots, frozenCaches, unflushed, maxFlushed, storage,
                   shrinking, lastStore, roCache, remoteVars, lastVal, thr, abs, panicked>>

\* Mutant: the freeze does not wait for the commits in flight.
FreezeAtOnce(s) ==
    /\ bank[s] = "open"
    /\ bank' = [bank EXCEPT ![s] = "frozen"]
    /\ frozenCaches' = frozenCaches \cup {c \in {s} : slotCache[c] # None}
    /\ UNCHANGED <<parent, ancestors, root, pruned, index, aliveRoots, slotCache, unflushed,
                   maxFlushed, storage, shrinking, lastStore, roCache, remoteVars, lastVal,
                   thr, abs, committed, panicked>>

\* Bank::freeze waits for the commits in flight, then marks the slot cache.
\* The replay stage freezes a bank after its transactions.
Freeze(s) ==
    /\ Running /\ bank[s] = "open"
    /\ \A t \in TxThreads : thr[t].pc = "stored" => thr[t].bank # s
    /\ \A t \in ReplayThreads : thr[t].pc # "idle" => thr[t].bank # s
    /\ bank' = [bank EXCEPT ![s] = "frozen"]
    /\ frozenCaches' = frozenCaches \cup {c \in {s} : slotCache[c] # None}
    /\ UNCHANGED <<parent, ancestors, root, pruned, index, aliveRoots, slotCache, unflushed,
                   maxFlushed, storage, shrinking, lastStore, roCache, remoteVars, lastVal,
                   thr, abs, committed, panicked>>

\* Mutant: only the new root itself is queued for the flush.
SetRootQueuesTip(s) ==
    /\ \A t \in ReplayThreads : thr[t].pc = "idle"
    /\ bank[s] = "frozen" /\ root \in Chain(s) /\ s # root
    /\ root' = s
    /\ aliveRoots' = aliveRoots \cup Chain(s)
    /\ unflushed' = unflushed \cup {s}
    /\ parent' = [parent EXCEPT ![s] = None]
    /\ UNCHANGED <<bank, ancestors, pruned, index, slotCache, frozenCaches, maxFlushed, storage,
                   shrinking, lastStore, roCache, remoteVars, lastVal, thr, abs, committed,
                   panicked>>

\* BankForks::set_root and Bank::squash: AccountsDb::add_root on the whole chain.
\* The replay stage sets the root between two replays.
SetRoot(s) ==
    /\ Running /\ \A t \in ReplayThreads : thr[t].pc = "idle"
    /\ bank[s] = "frozen" /\ root \in Chain(s) /\ s # root
    /\ root' = s
    /\ aliveRoots' = aliveRoots \cup Chain(s)
    /\ unflushed' = unflushed \cup {r \in Chain(s) : r > maxFlushed \/ (r = maxFlushed /\ r = 0)}
    /\ parent' = [parent EXCEPT ![s] = None]
    /\ UNCHANGED <<bank, ancestors, pruned, index, slotCache, frozenCaches, maxFlushed, storage,
                   shrinking, lastStore, roCache, remoteVars, lastVal, thr, abs, committed,
                   panicked>>

\* The last reference to a bank outside the rooted tree goes away (Bank::drop):
\* the drop callback queues the slot for ABS.
DropBank(s) ==
    /\ Running /\ Live(s) /\ root \notin ancestors[s]
    /\ \A c \in Slots : Live(c) => parent[c] # s
    /\ \A t \in Threads : thr[t].pc # "idle" => thr[t].bank # s
    /\ bank' = [bank EXCEPT ![s] = "dropped"]
    /\ pruned' = pruned \cup {s}
    /\ UNCHANGED <<parent, ancestors, root, dbVars, remoteVars, lastVal, thr, abs, committed,
                   panicked>>

-----------------------------------------------------------------------------
(* AccountsBackgroundService: one thread, so flush, shrink and purge are   *)
(* serialised with each other and interleave with everything else.         *)

IdleAbs == [pc |-> "idle", pass |-> 1, todo |-> {}, written |-> {}, cleanRoot |-> 0,
            slot |-> 0, items |-> NoAccounts]

Squashed == {s \in Slots : bank[s] # "unused" /\ parent[s] = None}

\* flush_accounts_cache, first pass: the roots up to the root bank ABS grabbed;
\* a scan in progress may lower the root up to which it cleans.
FlushStart(req, clean) ==
    /\ Running /\ abs.pc = "idle"
    /\ req \in Squashed /\ clean \in Squashed /\ clean <= req /\ req <= root
    /\ abs' = [IdleAbs EXCEPT !.pc = "next", !.cleanRoot = clean,
                              !.todo = {r \in unflushed : r <= req}]
    /\ unflushed' = {r \in unflushed : r > req}
    /\ UNCHANGED <<bankVars, index, aliveRoots, slotCache, frozenCaches, maxFlushed, storage,
                   shrinking, lastStore, roCache, remoteVars, lastVal, thr, committed, panicked>>

\* Mutant: the roots of a pass are flushed from the lowest up.
FlushNextAscending ==
    /\ abs.pc = "next" /\ abs.todo # {}
    /\ LET s == Min(abs.todo) IN
       /\ abs' = [abs EXCEPT !.slot = s, !.todo = @ \ {s},
                             !.pc = IF slotCache[s] # None THEN "collect"
                                    ELSE IF abs.pass = 3 THEN "next" ELSE "advance"]
    /\ UNCHANGED <<bankVars, dbVars, remoteVars, lastVal, thr, committed, panicked>>

\* The next slot of the pass: roots from the highest down, then (third pass)
\* frozen slots from the lowest up. A slot not in the write cache is skipped.
FlushNext ==
    /\ Running /\ abs.pc = "next" /\ abs.todo # {}
    /\ LET s == IF abs.pass = 3 THEN Min(abs.todo) ELSE Max(abs.todo) IN
       /\ abs' = [abs EXCEPT !.slot = s, !.todo = @ \ {s},
                             !.pc = IF slotCache[s] # None THEN "collect"
                                    ELSE IF abs.pass = 3 THEN "next" ELSE "advance"]
    /\ UNCHANGED <<bankVars, dbVars, remoteVars, lastVal, thr, committed, panicked>>

\* The third pass re-reads the cache size before each slot.
FlushSkip ==
    /\ Running /\ abs.pc = "next" /\ abs.pass = 3 /\ abs.todo # {}
    /\ abs' = [abs EXCEPT !.todo = @ \ {Min(@)}]
    /\ UNCHANGED <<bankVars, dbVars, remoteVars, lastVal, thr, committed, panicked>>

\* The end of a pass. Each later pass runs only if the cache is then too big
\* (should_aggressively_flush_cache).
FlushPassEnds ==
    /\ Running /\ abs.pc = "next" /\ abs.todo = {}
    /\ \/ /\ abs' = IdleAbs
          /\ UNCHANGED unflushed
       \/ /\ abs.pass = 1
          /\ abs' = [IdleAbs EXCEPT !.pc = "next", !.pass = 2, !.todo = unflushed]
          /\ unflushed' = {}
       \/ /\ abs.pass < 3
          /\ abs' = [IdleAbs EXCEPT !.pc = "next", !.pass = 3,
                                    !.todo = {s \in frozenCaches : s > maxFlushed}]
          /\ UNCHANGED unflushed
    /\ UNCHANGED <<bankVars, index, aliveRoots, slotCache, frozenCaches, maxFlushed, storage,
                   shrinking, lastStore, roCache, remoteVars, lastVal, thr, committed, panicked>>

\* purge_slot_cache_pubkeys: the asserts on the slot and on its index entries.
PurgePanics(s, keys) ==
    {p \in {"purged slot in storage"} : storage[s] # None} \cup
    {p \in {"purged key not in index"} : \E k \in keys : index[k][s] = None}

\* do_flush_slot_cache up to the new store: an account that a later root of the
\* pass already wrote is not flushed, its index entry is purged instead.
FlushCollect ==
    /\ Running /\ abs.pc = "collect"
    /\ LET s == abs.slot
           cleaning == abs.pass = 1 /\ s <= abs.cleanRoot
           present == {k \in Pubkeys : slotCache[s][k] # None}
           purge == IF cleaning THEN present \cap abs.written ELSE {}
           flush == present \ purge
       IN
       /\ panicked' = panicked \cup PurgePanics(s, purge)
       /\ index' = [k \in Pubkeys |->
                      IF k \in purge THEN [index[k] EXCEPT ![s] = None] ELSE index[k]]
       /\ aliveRoots' = IF flush = {} THEN aliveRoots \ {s} ELSE aliveRoots
       /\ abs' = [abs EXCEPT !.pc = IF flush = {} THEN "remove" ELSE "write",
                             !.written = IF cleaning THEN @ \cup flush ELSE @,
                             !.items = [k \in Pubkeys |->
                                          IF k \in flush THEN slotCache[s][k] ELSE None]]
    /\ UNCHANGED <<bankVars, slotCache, frozenCaches, unflushed, maxFlushed, storage, shrinking,
                   lastStore, roCache, remoteVars, lastVal, thr, committed>>

\* F2: create_and_insert_store and write_accounts_to_storage.
FlushWrite ==
    /\ Running /\ abs.pc = "write"
    /\ LET s == abs.slot
           id == lastStore[s] + 1
       IN
       /\ storage' = [storage EXCEPT ![s] =
                        [id |-> id, accts |-> [k \in Pubkeys |-> Stored(abs.items[k])]]]
       /\ lastStore' = [lastStore EXCEPT ![s] = id]
       /\ roCache' = [k \in Pubkeys |->
                        IF abs.items[k] # None THEN [roCache[k] EXCEPT ![s] = None] ELSE roCache[k]]
    /\ abs' = [abs EXCEPT !.pc = "index"]
    /\ UNCHANGED <<bankVars, index, aliveRoots, slotCache, frozenCaches, unflushed, maxFlushed,
                   shrinking, remoteVars, lastVal, thr, committed, panicked>>

\* Mutant: the flush leaves the index entries cached.
FlushIndexSkipped ==
    /\ abs.pc = "index"
    /\ abs' = [abs EXCEPT !.pc = "remove"]
    /\ UNCHANGED <<bankVars, dbVars, remoteVars, lastVal, thr, committed, panicked>>

\* F3: update_index.
FlushIndex ==
    /\ Running /\ abs.pc = "index"
    /\ index' = [k \in Pubkeys |->
                   IF abs.items[k] # None
                   THEN [index[k] EXCEPT ![abs.slot] = lastStore[abs.slot]] ELSE index[k]]
    /\ abs' = [abs EXCEPT !.pc = "remove"]
    /\ UNCHANGED <<bankVars, aliveRoots, slotCache, frozenCaches, unflushed, maxFlushed, storage,
                   shrinking, lastStore, roCache, remoteVars, lastVal, thr, committed, panicked>>

\* Mutant: a slot flushed before it is rooted stays in the write cache.
FlushRemoveRootsOnly ==
    /\ abs.pc = "remove"
    /\ slotCache' = IF abs.pass = 3 THEN slotCache ELSE [slotCache EXCEPT ![abs.slot] = None]
    /\ frozenCaches' = frozenCaches \ {abs.slot}
    /\ abs' = [abs EXCEPT !.pc = IF abs.pass = 3 THEN "next" ELSE "advance", !.items = NoAccounts]
    /\ UNCHANGED <<bankVars, index, aliveRoots, unflushed, maxFlushed, storage, shrinking,
                   lastStore, roCache, remoteVars, lastVal, thr, committed, panicked>>

\* F4: the slot leaves the write cache.
FlushRemove ==
    /\ Running /\ abs.pc = "remove"
    /\ IF slotCache[abs.slot] # None THEN UNCHANGED panicked ELSE Panic("flushed slot not cached")
    /\ slotCache' = [slotCache EXCEPT ![abs.slot] = None]
    /\ frozenCaches' = frozenCaches \ {abs.slot}
    /\ abs' = [abs EXCEPT !.pc = IF abs.pass = 3 THEN "next" ELSE "advance", !.items = NoAccounts]
    /\ UNCHANGED <<bankVars, index, aliveRoots, unflushed, maxFlushed, storage, shrinking,
                   lastStore, roCache, remoteVars, lastVal, thr, committed>>

\* Mutant: the flushed root is off by one.
FlushAdvanceTooFar ==
    /\ abs.pc = "advance"
    /\ maxFlushed' = abs.slot + 1
    /\ abs' = [abs EXCEPT !.pc = "next"]
    /\ UNCHANGED <<bankVars, index, aliveRoots, slotCache, frozenCaches, unflushed, storage,
                   shrinking, lastStore, roCache, remoteVars, lastVal, thr, committed, panicked>>

\* set_max_flush_root, whether or not the slot was still in the write cache.
FlushAdvance ==
    /\ Running /\ abs.pc = "advance"
    /\ maxFlushed' = Max({maxFlushed, abs.slot})
    /\ abs' = [abs EXCEPT !.pc = "next"]
    /\ UNCHANGED <<bankVars, index, aliveRoots, slotCache, frozenCaches, unflushed, storage,
                   shrinking, lastStore, roCache, remoteVars, lastVal, thr, committed, panicked>>

\* S1 and S2: do_shrink_slot_store skips a slot of the write cache, then writes
\* the accounts still indexed at the slot to a new append vec.
ShrinkStart(s) ==
    /\ Running /\ abs.pc = "idle"
    /\ s \in aliveRoots /\ storage[s] # None /\ slotCache[s] = None
    /\ lastStore[s] < MaxStores
    /\ LET alive == {k \in Pubkeys : storage[s].accts[k] # None /\ index[k][s] # None} IN
       /\ alive # {}
       /\ shrinking' = [shrinking EXCEPT ![s] =
             [id |-> lastStore[s] + 1,
              accts |-> [k \in Pubkeys |-> IF k \in alive THEN storage[s].accts[k] ELSE None]]]
       /\ roCache' = [k \in Pubkeys |->
                        IF k \in alive THEN [roCache[k] EXCEPT ![s] = None] ELSE roCache[k]]
    /\ lastStore' = [lastStore EXCEPT ![s] = @ + 1]
    /\ abs' = [IdleAbs EXCEPT !.pc = "shrink", !.slot = s]
    /\ UNCHANGED <<bankVars, index, aliveRoots, slotCache, frozenCaches, unflushed, maxFlushed,
                   storage, remoteVars, lastVal, thr, committed, panicked>>

\* S3: update_index.
ShrinkIndex ==
    /\ Running /\ abs.pc = "shrink"
    /\ index' = [k \in Pubkeys |->
                   IF shrinking[abs.slot].accts[k] # None
                   THEN [index[k] EXCEPT ![abs.slot] = shrinking[abs.slot].id] ELSE index[k]]
    /\ abs' = [abs EXCEPT !.pc = "swap"]
    /\ UNCHANGED <<bankVars, aliveRoots, slotCache, frozenCaches, unflushed, maxFlushed, storage,
                   shrinking, lastStore, roCache, remoteVars, lastVal, thr, committed, panicked>>

\* S4: ShrinkInProgress::drop replaces the old append vec.
ShrinkSwap ==
    /\ Running /\ abs.pc = "swap"
    /\ storage' = [storage EXCEPT ![abs.slot] = shrinking[abs.slot]]
    /\ shrinking' = [shrinking EXCEPT ![abs.slot] = None]
    /\ abs' = IdleAbs
    /\ UNCHANGED <<bankVars, index, aliveRoots, slotCache, frozenCaches, unflushed, maxFlushed,
                   lastStore, roCache, remoteVars, lastVal, thr, committed, panicked>>

\* purge_slot on a dropped bank: nothing for a root; otherwise the slot goes
\* from the index and from the write cache, or else from the storage.
Purge(s) ==
    /\ Running /\ abs.pc = "idle" /\ s \in pruned
    /\ pruned' = pruned \ {s}
    /\ \/ /\ s \in aliveRoots
          /\ UNCHANGED <<index, aliveRoots, slotCache, frozenCaches, storage, panicked>>
       \/ /\ s \notin aliveRoots /\ slotCache[s] # None
          /\ LET keys == {k \in Pubkeys : slotCache[s][k] # None} IN
             /\ panicked' = panicked \cup PurgePanics(s, keys)
             /\ index' = [k \in Pubkeys |->
                            IF k \in keys THEN [index[k] EXCEPT ![s] = None] ELSE index[k]]
          /\ slotCache' = [slotCache EXCEPT ![s] = None]
          /\ frozenCaches' = frozenCaches \ {s}
          /\ UNCHANGED <<aliveRoots, storage>>
       \/ /\ s \notin aliveRoots /\ slotCache[s] = None
          /\ index' = [k \in Pubkeys |->
                         IF storage[s] # None /\ storage[s].accts[k] # None
                         THEN [index[k] EXCEPT ![s] = None] ELSE index[k]]
          /\ storage' = [storage EXCEPT ![s] = None]
          /\ UNCHANGED <<aliveRoots, slotCache, frozenCaches, panicked>>
    /\ UNCHANGED <<bank, parent, ancestors, root, unflushed, maxFlushed, shrinking, lastStore,
                   roCache, remoteVars, lastVal, thr, abs, committed>>

-----------------------------------------------------------------------------
(* The read-only cache's eviction, the migrater and the base layer.        *)

\* ReadOnlyAccountsCache::store evicts from the front of its queue.
EvictReadCache(k, s) ==
    /\ Running /\ roCache[k][s] # None
    /\ roCache' = [roCache EXCEPT ![k][s] = None]
    /\ UNCHANGED <<bankVars, index, aliveRoots, slotCache, frozenCaches, unflushed, maxFlushed,
                   storage, shrinking, lastStore, remoteVars, lastVal, thr, abs, committed,
                   panicked>>

\* load_account_via_rpc on success; a failed request leaves the cache alone.
Migrate(k) ==
    /\ Running /\ base[k] # None
    /\ remote' = [remote EXCEPT ![k] = [val |-> base[k], remote |-> TRUE]]
    /\ UNCHANGED <<bankVars, dbVars, base, lastVal, thr, abs, committed, panicked>>

\* deactivate_account.
Deactivate(k) ==
    /\ Running /\ remote[k] # None
    /\ remote' = [remote EXCEPT ![k] = None]
    /\ UNCHANGED <<bankVars, dbVars, base, lastVal, thr, abs, committed, panicked>>

\* The base layer changes an account.
BaseWrite(k) ==
    /\ Running /\ lastVal < MaxVal
    /\ base' = [base EXCEPT ![k] = lastVal + 1]
    /\ lastVal' = lastVal + 1
    /\ UNCHANGED <<bankVars, dbVars, remote, thr, abs, committed, panicked>>

-----------------------------------------------------------------------------

\* A validator started from genesis: bank 0 is frozen, in the write cache and
\* not yet added as a root (the first set_root adds it).
Init ==
    /\ bank = [s \in Slots |-> IF s = 0 THEN "frozen" ELSE "unused"]
    /\ parent = [s \in Slots |-> None]
    /\ ancestors = [s \in Slots |-> IF s = 0 THEN {0} ELSE {}]
    /\ root = 0 /\ pruned = {}
    /\ index = [k \in Pubkeys |-> [s \in Slots |-> IF k = Sysvar /\ s = 0 THEN Cached ELSE None]]
    /\ aliveRoots = {}
    /\ slotCache = [s \in Slots |->
          IF s = 0 THEN [NoAccounts EXCEPT ![Sysvar] = [val |-> 0, remote |-> FALSE]] ELSE None]
    /\ frozenCaches = {0} /\ unflushed = {} /\ maxFlushed = 0
    /\ storage = [s \in Slots |-> None]
    /\ shrinking = [s \in Slots |-> None]
    /\ lastStore = [s \in Slots |-> 0]
    /\ roCache = [k \in Pubkeys |-> [s \in Slots |-> None]]
    /\ remote = [k \in Pubkeys |-> None]
    /\ base = [k \in Pubkeys |-> None]
    /\ lastVal = 0
    /\ thr = [t \in Threads |-> IdleThread]
    /\ abs = IdleAbs
    /\ committed = [s \in Slots |->
          IF s = 0 THEN [NoAccounts EXCEPT ![Sysvar] = [val |-> 0, remote |-> FALSE]] ELSE NoAccounts]
    /\ panicked = {}

LoadProgress(t) == LookInReadCache(t) \/ Access(t) \/ FillReadCache(t) \/ Reread(t)

LoadStep(t) ==
    \/ \E b \in Slots, k \in Keys : StartLoad(t, b, k)
    \/ LoadProgress(t)
    \/ Finish(t)
    \/ StoreToCache(t)
    \/ StoreToIndex(t)

BankStep ==
    \/ \E s, p \in Slots : NewBank(s, p)
    \/ \E s \in Slots : Freeze(s) \/ SetRoot(s) \/ DropBank(s)

FlushStep ==
    FlushNext \/ FlushSkip \/ FlushPassEnds \/ FlushCollect \/ FlushWrite \/ FlushIndex \/ FlushRemove \/ FlushAdvance

AbsStep ==
    \/ \E req, clean \in Slots : FlushStart(req, clean)
    \/ FlushStep
    \/ \E s \in Slots : ShrinkStart(s) \/ Purge(s)
    \/ ShrinkIndex
    \/ ShrinkSwap

RemoteStep == \E k \in MigratedKeys : Migrate(k) \/ Deactivate(k) \/ BaseWrite(k)

Next ==
    \/ \E t \in Threads : LoadStep(t)
    \/ BankStep
    \/ AbsStep
    \/ \E k \in Keys, s \in Slots : EvictReadCache(k, s)
    \/ RemoteStep

Spec == Init /\ [][Next]_vars

\* The loading threads and ABS keep running, and ABS, which takes the root bank
\* anew in every iteration, flushes the current root again and again.
Fairness ==
    /\ \A t \in Threads : WF_vars(LoadProgress(t))
    /\ WF_vars(FlushStep \/ ShrinkIndex \/ ShrinkSwap)
    /\ SF_vars(\E clean \in Slots : FlushStart(root, clean))

FairSpec == Spec /\ Fairness

-----------------------------------------------------------------------------
(* Properties.                                                             *)

\* The variables have their types: the index, the caches and the storages hold
\* accounts, locations and slots within their bounds.
TypeOK ==
    /\ bank \in [Slots -> {"unused", "open", "frozen", "dropped"}]
    /\ parent \in [Slots -> Option(Slots)]
    /\ ancestors \in [Slots -> SUBSET Slots]
    /\ root \in Slots /\ pruned \subseteq Slots
    /\ index \in [Pubkeys -> [Slots -> Option(Locations)]]
    /\ aliveRoots \subseteq Slots /\ frozenCaches \subseteq Slots
    /\ slotCache \in [Slots -> Option([Pubkeys -> Option(Accounts)])]
    /\ unflushed \subseteq Slots /\ maxFlushed \in Slots
    /\ storage \in [Slots -> Option([id : Locations, accts : [Pubkeys -> Option(Accounts)]])]
    /\ shrinking \in [Slots -> Option([id : Locations, accts : [Pubkeys -> Option(Accounts)]])]
    /\ lastStore \in [Slots -> Locations]
    /\ roCache \in [Pubkeys -> [Slots -> Option(Accounts)]]
    /\ remote \in [Pubkeys -> Option(Accounts)]
    /\ base \in [Pubkeys -> Option(Nat)]
    /\ lastVal \in Nat
    /\ thr \in [Threads -> [pc : {"idle", "rocache", "access", "fill", "reread", "loaded", "stored"},
                            bank : Slots, key : Pubkeys, at : Option([slot : Slots, loc : Locations]),
                            fails : Nat, got : Option(Accounts)]]
    /\ abs \in [pc : {"idle", "next", "collect", "write", "index", "remove", "advance", "shrink", "swap"},
                pass : 1 .. 3, todo : SUBSET Slots, written : SUBSET Pubkeys, cleanRoot : Slots,
                slot : Slots, items : [Pubkeys -> Option(Accounts)]]
    /\ committed \in [Slots -> [Pubkeys -> Option(Accounts)]]

\* No assertion of retry_to_get_account_accessor, the flush, the purge or the
\* index update fails, whatever the interleaving of loads, commits and ABS.
NoPanic == panicked = {}

\* Every index entry leads to its account: a cached entry to the slot's write
\* cache, a stored one to the append vec with that id, in the storage map or
\* being shrunk ("anybody that sees a real entry in the index, will be able to
\* find the account in storage", do_flush_slot_cache).
IndexLeadsToAccount ==
    \A k \in Pubkeys, s \in Slots :
        /\ index[k][s] = Cached => InSlotCache(s, k)
        /\ index[k][s] \notin {None, Cached} =>
              /\ StorageEntry(s, index[k][s]) # None
              /\ StorageEntry(s, index[k][s]).accts[k] # None

\* What a load that runs with nothing in between returns.
Lookup(k, b) ==
    LET at == ReadIndex(k, b) IN IF at = None THEN None ELSE Accessor(at.slot, k, at.loc)

OnRootedFork(b) == Live(b) /\ root \in ancestors[b]

\* On every live bank of the rooted fork the index, the write caches and the
\* storages give the last account committed on that fork, at every step of a
\* flush (the slot's removal from the cache is "an atomic switch from the cache
\* to storage"), a shrink or a purge.
DatabaseShowsForkState ==
    \A b \in Slots, k \in Pubkeys :
        OnRootedFork(b) /\ (\A t \in TxThreads : ~(thr[t].pc = "stored" /\ thr[t].bank = b /\ thr[t].key = k))
            => Lookup(k, b) = committed[b][k]

\* A load by a transaction or a simulation, from R1 through any retries and the read-only
\* cache, ends with the last account committed on the transaction's fork.
LoadReturnsForkState ==
    \A t \in TxThreads \cup SimThreads :
        thr[t].pc = "loaded" /\ OnRootedFork(thr[t].bank) => thr[t].got = committed[thr[t].bank][thr[t].key]

\* A read-only cache entry (A, S) is the account S's bank ended with ("future
\* loads of 'A' from the read-only cache are safe").
ReadCacheIsFresh ==
    \A k \in Pubkeys, s \in Slots :
        roCache[k][s] # None => bank[s] # "open" /\ roCache[k][s] = committed[s][k]

\* A slot is in the write cache and in the storage only while it is flushed.
CacheAndStorageDisjoint ==
    \A s \in Slots :
        slotCache[s] # None /\ storage[s] # None =>
            abs.pc \in {"index", "remove"} /\ abs.slot = s

\* Every load ends, however often a flush or a shrink gets between R1 and R2.
LoadTerminates ==
    \A t \in Threads :
        thr[t].pc \in {"rocache", "access", "fill", "reread"} ~> thr[t].pc \in {"loaded", "idle"}

\* Every slot that becomes a root leaves the write cache, the ones rooted
\* together with a descendant and the ones flushed before their time included.
RootsAreFlushed == \A s \in Slots : (s \in aliveRoots) ~> (slotCache[s] = None)

\* A transaction that loads an account its fork has committed gets that account
\* ("a race condition where F4 happens between R1 and R2. In that case, retrying
\* from R1 is safu").
LocalAccountIsReturned ==
    \A t \in TxThreads :
        LET here == committed[thr[t].bank][thr[t].key] IN
        thr[t].pc = "loaded" /\ OnRootedFork(thr[t].bank) /\ here # None /\ ~here.remote
            => thr[t].got = here

=============================================================================
