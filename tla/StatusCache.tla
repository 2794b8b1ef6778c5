---------------------------- MODULE StatusCache ----------------------------
(***************************************************************************)
(* Replay protection of the validator: the blockhash queue of each bank,   *)
(* the durable nonce account, the status cache that all banks share, and   *)
(* what the replay stage does to them (forking, freezing, rooting, dumping *)
(* a duplicate slot, snapshots, restart) while processing threads check    *)
(* and commit transactions.                                                *)
(***************************************************************************)
EXTENDS Integers, Sequences, FiniteSets

CONSTANTS
    Threads,            \* threads that process transactions
    Keys,               \* message hashes that name the same recent blockhash
    Indexes,            \* the random key_index values
    Submitted,          \* bound: what each thread receives during each slot
    MaxSlot,            \* bound: highest slot
    MaxActive,          \* bound: banks that are not frozen
    MaxFaults,          \* bound: dumps, repairs and restarts
    SnapshotInterval,   \* accounts_hash_interval_slots
    MaxCacheEntries,    \* MAX_CACHE_ENTRIES
    MaxAge,             \* MAX_PROCESSING_AGE
    QueueAge            \* max_age of the blockhash queue, MAX_RECENT_BLOCKHASHES

(* 150 <= 300 and 150 <= 300 in the code.                                  *)
ASSUME SizeAssumption ==
    /\ MaxSlot \in Nat /\ MaxActive \in Nat /\ MaxFaults \in Nat
    /\ MaxCacheEntries \in Nat \ {0} /\ SnapshotInterval \in Nat \ {0}
    /\ MaxAge \in Nat /\ QueueAge \in Nat
    /\ MaxAge <= MaxCacheEntries
    /\ MaxAge <= QueueAge

VARIABLES
    banks,      \* BankForks: slot |-> bank
    root,       \* BankForks::root
    stage,      \* where set_root is: "idle", "snapshot", "root"
    target,     \* the bank that set_root is squashing
    pending,    \* slots that squash has not yet given to add_root
    sc,         \* the shared StatusCache
    threads,    \* what each processing thread is doing
    request,    \* snapshots asked for and not yet written: at most one
    snapshot,   \* the last snapshot on disk
    pruned,     \* slots above the root that prune_non_rooted dropped
    repaired,   \* pruned slots whose other version may be replayed
    faults      \* dumps, repairs and restarts so far

vars == <<banks, root, stage, target, pending, sc, threads, request, snapshot,
          pruned, repaired, faults>>

Slots == 0 .. MaxSlot

(* A block's hash is named by its slot; the genesis hash is -1.  A dumped  *)
(* slot that is repaired keeps the name, so that the transactions of its   *)
(* first version can come back in the second.                              *)
Genesis == -1
Blockhashes == Slots \cup {Genesis}

(* recent_blockhash of a message: a block's hash, or the durable nonce     *)
(* made from one, which is never a block's hash (DurableNonce::            *)
(* from_blockhash hashes it once more).                                    *)
Recents == [durable : BOOLEAN, hash : Blockhashes]

Transactions == [recent : Recents, key : Keys]

ASSUME SubmittedAssumption ==
    Submitted \in [Threads \X Slots -> SUBSET Transactions]

(* Nothing processed: the transactions processed so far are mapped to the  *)
(* slots that processed them.                                              *)
Nowhere == [tx \in {} |-> << >>]

Process(done, tx, s) ==
    [x \in DOMAIN done \cup {tx} |->
        IF x # tx THEN done[x]
        ELSE IF x \in DOMAIN done THEN Append(done[x], s) ELSE <<s>>]

-----------------------------------------------------------------------------
(* BlockhashQueue.                                                         *)

IsHashIndexValid(last, age, i) == last - i <= age

IsHashValid(q, h, age) == h \in DOMAIN q.ages

IsHashValidForAge(q, h, age) ==
    /\ h \in DOMAIN q.ages
    /\ IsHashIndexValid(q.last, age, q.ages[h])

RegisterHash(q, h) ==
    LET last == q.last + 1
        kept == {x \in DOMAIN q.ages :
                    \/ Cardinality(DOMAIN q.ages) < QueueAge
                    \/ IsHashIndexValid(last, QueueAge, q.ages[x])}
    IN [last |-> last, hash |-> h,
        ages |-> [x \in kept \cup {h} |-> IF x = h THEN last ELSE q.ages[x]]]

GenesisQueue ==
    [last |-> 0, hash |-> Genesis, ages |-> [x \in {Genesis} |-> 0]]

-----------------------------------------------------------------------------
(* StatusCache.  cache maps a recent blockhash to its highest slot, its    *)
(* key_index and the forks <<index, key, slot>> its keys were seen in: a   *)
(* slice of a key depends on the index it is cut at.  deltas maps a slot   *)
(* to the <<recent, index, key>> inserted for it.                          *)

EmptyStatusCache ==
    [cache |-> [r \in {} |-> 0], roots |-> {0}, deltas |-> [s \in {} |-> {}]]

MinOf(S) == CHOOSE x \in S : \A y \in S : x <= y
MaxOf(S) == CHOOSE x \in S : \A y \in S : y <= x

EntryOr(c, r, s, i) ==
    IF r \in DOMAIN c THEN c[r] ELSE [max |-> s, index |-> i, forks |-> {}]

DeltasOf(d, s) == IF s \in DOMAIN d THEN d[s] ELSE {}

(* A mutant: the highest slot of a blockhash is the first one.             *)
InsertKeepsFirstSlot(c, r, s, i, k) ==
    LET e == EntryOr(c.cache, r, s, i)
        cached == [e EXCEPT !.forks = @ \cup {<<i, k, s>>}]
        delta == DeltasOf(c.deltas, s) \cup {<<r, i, k>>}
    IN [cache |-> [x \in DOMAIN c.cache \cup {r} |->
                        IF x = r THEN cached ELSE c.cache[x]],
        roots |-> c.roots,
        deltas |-> [x \in DOMAIN c.deltas \cup {s} |->
                        IF x = s THEN delta ELSE c.deltas[x]]]

InsertWithSlice(c, r, s, i, k) ==
    LET e == EntryOr(c.cache, r, s, i)
        cached == [max |-> IF s > e.max THEN s ELSE e.max,
                   index |-> e.index,
                   forks |-> e.forks \cup {<<i, k, s>>}]
        delta == DeltasOf(c.deltas, s) \cup {<<r, i, k>>}
    IN [cache |-> [x \in DOMAIN c.cache \cup {r} |->
                        IF x = r THEN cached ELSE c.cache[x]],
        roots |-> c.roots,
        deltas |-> [x \in DOMAIN c.deltas \cup {s} |->
                        IF x = s THEN delta ELSE c.deltas[x]]]

(* The index drawn is used only when the blockhash has no entry.           *)
Insert(c, r, k, s, drawn) ==
    InsertWithSlice(c, r, s, EntryOr(c.cache, r, s, drawn).index, k)

GetStatus(c, tx, ancestors) ==
    /\ tx.recent \in DOMAIN c.cache
    /\ \E s \in ancestors \cup c.roots :
          <<c.cache[tx.recent].index, tx.key, s>> \in c.cache[tx.recent].forks

(* A mutant: one root too few is kept.                                     *)
PurgeRootsEarly(c) ==
    IF Cardinality(c.roots) >= MaxCacheEntries
    THEN [c EXCEPT !.roots = @ \ {MinOf(c.roots)}]
    ELSE c

PurgeRoots(c) ==
    IF Cardinality(c.roots) > MaxCacheEntries
    THEN LET min == MinOf(c.roots)
             kept == {r \in DOMAIN c.cache : c.cache[r].max > min}
             slots == {s \in DOMAIN c.deltas : s > min}
         IN [cache |-> [r \in kept |-> c.cache[r]],
             roots |-> c.roots \ {min},
             deltas |-> [s \in slots |-> c.deltas[s]]]
    ELSE c

AddRoot(c, s) == PurgeRoots([c EXCEPT !.roots = @ \cup {s}])

(* A mutant: the deltas go and the cache keeps the keys.                   *)
ClearDeltasOnly(c, S) ==
    [c EXCEPT !.deltas = [s \in DOMAIN c.deltas \ S |-> c.deltas[s]]]

(* clear_slot_entries for every slot of S.  The code panics when a delta   *)
(* names a blockhash or a key that the cache does not have; DeltasAreCached*)
(* says that it never does.                                                *)
ClearSlotEntries(c, S) ==
    LET gone(r) == {f \in Indexes \X Keys \X S :
                        <<r, f[1], f[2]>> \in DeltasOf(c.deltas, f[3])}
        left(r) == c.cache[r].forks \ gone(r)
        kept == {r \in DOMAIN c.cache : gone(r) = {} \/ left(r) # {}}
    IN [cache |-> [r \in kept |-> [c.cache[r] EXCEPT !.forks = left(r)]],
        roots |-> c.roots,
        deltas |-> [s \in DOMAIN c.deltas \ S |-> c.deltas[s]]]

(* root_slot_deltas, and append into a fresh cache on restart.  The deltas *)
(* come in no particular order: the index of a blockhash is that of any of *)
(* its deltas.                                                             *)
RootSlotDeltas(c) ==
    [s \in DOMAIN c.deltas \cap c.roots |-> c.deltas[s]]

ForksOf(d, r) ==
    {f \in Indexes \X Keys \X DOMAIN d : <<r, f[1], f[2]>> \in d[f[3]]}

RecentsOf(d) == {r \in Recents : ForksOf(d, r) # {}}

AppendDeltas(d, rs, index) ==
    PurgeRoots([cache |-> [r \in RecentsOf(d) |->
                            [max |-> MaxOf({f[3] : f \in ForksOf(d, r)}),
                             index |-> index[r],
                             forks |-> ForksOf(d, r)]],
                roots |-> EmptyStatusCache.roots \cup rs,
                deltas |-> d])

-----------------------------------------------------------------------------
(* The bank and the threads at rest.                                       *)

GenesisBank ==
    [chain |-> {0}, ancestors |-> {0}, status |-> "frozen",
     queue |-> RegisterHash(GenesisQueue, 0), nonce |-> Genesis,
     done |-> Nowhere]

Idle ==
    [pc |-> "idle", bank |-> 0,
     tx |-> [recent |-> [durable |-> FALSE, hash |-> Genesis],
             key |-> CHOOSE k \in Keys : TRUE],
     executed |-> Genesis, recorded |-> Genesis]

NoRequest == {}

Init ==
    /\ banks = [s \in {0} |-> GenesisBank]
    /\ root = 0
    /\ stage = "idle" /\ target = 0 /\ pending = {}
    /\ sc = EmptyStatusCache
    /\ threads = [t \in Threads |-> Idle]
    /\ request = NoRequest
    /\ snapshot = [slot |-> 0, bank |-> GenesisBank,
                   roots |-> {0}, deltas |-> [s \in {} |-> {}]]
    /\ pruned = {} /\ repaired = {}
    /\ faults = 0

-----------------------------------------------------------------------------
(* Processing threads.                                                     *)

(* The account locks of the bank: two transactions that a thread each      *)
(* works on share no writable account, so they are not the same one and do *)
(* not advance the same nonce (AccountLocks.tla).                          *)
Locked(b, tx) ==
    \E u \in Threads :
        /\ threads[u].pc # "idle"
        /\ threads[u].bank = b
        /\ \/ threads[u].tx = tx
           \/ threads[u].tx.recent.durable /\ tx.recent.durable

CheckTransactionAge(b, tx) ==
    LET q == banks[b].queue IN
    IF tx.recent.durable
    THEN tx.recent.hash # q.hash /\ tx.recent.hash = banks[b].nonce
    ELSE IsHashValidForAge(q, tx.recent.hash, MaxAge)

(* A batch is locked and check_age reads the blockhash queue.              *)
CheckAge(t, b, tx) ==
    /\ threads[t].pc = "idle"
    /\ banks[b].status = "open"
    /\ ~Locked(b, tx)
    /\ CheckTransactionAge(b, tx)
    /\ threads' = [threads EXCEPT
            ![t] = [Idle EXCEPT !.pc = "aged", !.bank = b, !.tx = tx]]
    /\ UNCHANGED <<banks, root, stage, target, pending, sc, request, snapshot,
                   pruned, repaired, faults>>

Present(t) == threads[t].bank \in DOMAIN banks

(* check_status_cache, under its own read lock, then load and execute.     *)
(* The thread keeps its bank alive when BankForks drops it; what becomes   *)
(* of such a bank is of no interest.                                       *)
CheckStatusCache(t) ==
    LET b == threads[t].bank IN
    /\ threads[t].pc = "aged"
    /\ threads' = [threads EXCEPT ![t] =
            IF ~Present(t) \/ GetStatus(sc, @.tx, banks[b].ancestors)
            THEN Idle
            ELSE [@ EXCEPT !.pc = "executed",
                           !.executed = banks[b].queue.hash]]
    /\ UNCHANGED <<banks, root, stage, target, pending, sc, request, snapshot,
                   pruned, repaired, faults>>

(* freeze_lock, then last_blockhash, then record_transactions, which fails *)
(* once the bank has reached its last tick.                                *)
Record(t) ==
    LET b == threads[t].bank IN
    /\ threads[t].pc = "executed"
    /\ threads' = [threads EXCEPT ![t] =
            IF Present(t) /\ banks[b].status = "open"
            THEN [@ EXCEPT !.pc = "recorded",
                           !.recorded = banks[b].queue.hash]
            ELSE Idle]
    /\ UNCHANGED <<banks, root, stage, target, pending, sc, request, snapshot,
                   pruned, repaired, faults>>

(* A mutant: the last blockhash is read after recording.                   *)
NonceAtCommit(b, th, ok) ==
    IF ~th.tx.recent.durable THEN banks[b].nonce
    ELSE IF ok THEN th.executed ELSE banks[b].queue.hash

(* The nonce account after the transaction: its own AdvanceNonceAccount    *)
(* instruction writes the hash it executed with; when it fails, the        *)
(* account is rolled back and advanced to the hash read before recording.  *)
NonceAfter(b, th, ok) ==
    IF ~th.tx.recent.durable THEN banks[b].nonce
    ELSE IF ok THEN th.executed ELSE th.recorded

(* commit_transactions, then the account locks and the freeze lock go.     *)
Commit(t, ok, drawn) ==
    LET th == threads[t]
        b == th.bank
    IN
    /\ th.pc = "recorded"
    /\ sc' = Insert(sc, th.tx.recent, th.tx.key, b, drawn)
    /\ banks' = [x \in DOMAIN banks |->
            IF x = b
            THEN [banks[x] EXCEPT
                    !.nonce = NonceAfter(b, th, ok),
                    !.done = Process(@, th.tx, b)]
            ELSE banks[x]]
    /\ threads' = [threads EXCEPT ![t] = Idle]
    /\ UNCHANGED <<root, stage, target, pending, request, snapshot, pruned,
                   repaired, faults>>

-----------------------------------------------------------------------------
(* The replay stage.  It runs in one thread: a new bank, set_root and a    *)
(* dump never overlap.                                                     *)

(* Bank::new_from_parent.  parents() ends at the last squashed bank.       *)
NewBank(p, s) ==
    /\ stage = "idle"
    /\ p \in DOMAIN banks /\ p >= root /\ banks[p].status = "frozen"
    /\ s > p /\ s \notin DOMAIN banks \cup pruned
    /\ Cardinality({x \in DOMAIN banks : banks[x].status # "frozen"}) < MaxActive
    /\ LET fresh == [banks[p] EXCEPT
                        !.chain = @ \cup {s},
                        !.ancestors = {x \in banks[p].chain : x >= root} \cup {s},
                        !.status = "open"]
       IN banks' = [x \in DOMAIN banks \cup {s} |->
                        IF x = s THEN fresh ELSE banks[x]]
    /\ UNCHANGED <<root, stage, target, pending, sc, threads, request, snapshot,
                   pruned, repaired, faults>>

(* register_tick at the block boundary registers the block's hash.         *)
LastTick(b) ==
    /\ banks[b].status = "open"
    /\ banks' = [banks EXCEPT ![b].status = "ticked",
                              ![b].queue = RegisterHash(@, b)]
    /\ UNCHANGED <<root, stage, target, pending, sc, threads, request, snapshot,
                   pruned, repaired, faults>>

(* freeze waits for the write side of the freeze lock.                     *)
Freeze(b) ==
    /\ banks[b].status = "ticked"
    /\ \A t \in Threads : ~(threads[t].pc = "recorded" /\ threads[t].bank = b)
    /\ banks' = [banks EXCEPT ![b].status = "frozen"]
    /\ UNCHANGED <<root, stage, target, pending, sc, threads, request, snapshot,
                   pruned, repaired, faults>>

(* The newest bank above the old root whose height is a multiple of the    *)
(* interval gets a snapshot.                                               *)
BlockHeight(b) == Cardinality(banks[b].chain) - 1

SnapshotBanks(s) ==
    {c \in banks[s].chain : c > root /\ BlockHeight(c) % SnapshotInterval = 0}

(* set_root stores the root, and squashes the bank to take a snapshot of,  *)
(* if there is one, before the root bank.                                  *)
SetRoot(s) ==
    /\ stage = "idle"
    /\ s > root /\ root \in banks[s].chain /\ banks[s].status = "frozen"
    /\ root' = s
    /\ \/ /\ SnapshotBanks(s) = {}
          /\ stage' = "root" /\ target' = s
       \/ \E c \in SnapshotBanks(s) :
            /\ \A x \in SnapshotBanks(s) : x <= c
            /\ stage' = "snapshot" /\ target' = c
    /\ pending' = {x \in banks[s].chain : root <= x /\ x <= target'}
    /\ UNCHANGED <<banks, sc, threads, request, snapshot, pruned, repaired, faults>>

(* squash takes the write lock once per slot, newest slot first.           *)
SquashOne ==
    /\ \E s \in pending :
        /\ \A x \in pending : x <= s
        /\ sc' = AddRoot(sc, s)
        /\ pending' = pending \ {s}
    /\ UNCHANGED <<banks, root, stage, target, threads, request, snapshot,
                   pruned, repaired, faults>>

(* The snapshot request takes its own copy of the roots' deltas; then the  *)
(* root bank is squashed, unless it was the snapshot's bank.               *)
RequestSnapshot ==
    /\ stage = "snapshot" /\ pending = {}
    /\ request' = {[slot |-> target, bank |-> banks[target], roots |-> sc.roots,
                    deltas |-> RootSlotDeltas(sc)]}
    /\ stage' = "root" /\ target' = root
    /\ pending' = IF target = root THEN {}
                  ELSE {x \in banks[root].chain : x >= target}
    /\ UNCHANGED <<banks, root, sc, threads, snapshot, pruned, repaired, faults>>

(* prune_non_rooted.  Rooted banks kept for the cluster's root get no      *)
(* child and are left out.                                                 *)
Prune ==
    /\ stage = "root" /\ pending = {}
    /\ LET kept == {x \in DOMAIN banks : root \in banks[x].chain} IN
        /\ banks' = [x \in kept |-> banks[x]]
        /\ pruned' = {x \in pruned \cup (DOMAIN banks \ kept) : x > root}
    /\ stage' = "idle"
    /\ UNCHANGED <<root, target, pending, sc, threads, request, snapshot,
                   repaired, faults>>

(* The background service writes the snapshot that was asked for.          *)
WriteSnapshot ==
    /\ \E snap \in request : snapshot' = snap
    /\ request' = NoRequest
    /\ UNCHANGED <<banks, root, stage, target, pending, sc, threads, pruned,
                   repaired, faults>>

(* dump_then_repair_correct_slots and purge_unconfirmed_duplicate_slot: a  *)
(* duplicate slot goes with its descendants.  No thread works on them: the *)
(* PoH recorder was reset to another fork before.                          *)
Dump(s) ==
    LET S == {x \in DOMAIN banks : s \in banks[x].chain} IN
    /\ stage = "idle" /\ faults < MaxFaults
    /\ s > root /\ banks[s].status = "frozen"
    /\ \A t \in Threads : threads[t].pc # "idle" => threads[t].bank \notin S
    /\ banks' = [x \in DOMAIN banks \ S |-> banks[x]]
    /\ sc' = ClearSlotEntries(sc, S)
    /\ faults' = faults + 1
    /\ UNCHANGED <<root, stage, target, pending, threads, request, snapshot,
                   pruned, repaired>>

(* purge_unconfirmed_duplicate_slot for a slot that BankForks has pruned:  *)
(* the blockstore forgets the slot, so that the cluster's version of it    *)
(* can be repaired and replayed, and the status cache keeps its entries.   *)
(* A repair takes longer than a transaction of the first version.          *)
RepairPruned(s) ==
    /\ stage = "idle" /\ faults < MaxFaults
    /\ s \in pruned
    /\ \A t \in Threads : threads[t].pc # "idle" => threads[t].bank # s
    /\ pruned' = pruned \ {s}
    /\ repaired' = repaired \cup {s}
    /\ faults' = faults + 1
    /\ UNCHANGED <<banks, root, stage, target, pending, sc, threads, request,
                   snapshot>>

(* The validator stops anywhere and starts again from the last snapshot.   *)
Restart(index) ==
    /\ faults < MaxFaults
    /\ \A r \in RecentsOf(snapshot.deltas) :
          index[r] \in {f[1] : f \in ForksOf(snapshot.deltas, r)}
    /\ banks' = [x \in {snapshot.slot} |-> snapshot.bank]
    /\ root' = snapshot.slot
    /\ stage' = "idle" /\ target' = snapshot.slot /\ pending' = {}
    /\ sc' = AppendDeltas(snapshot.deltas, snapshot.roots, index)
    /\ threads' = [t \in Threads |-> Idle]
    /\ request' = NoRequest
    /\ pruned' = {}
    /\ faults' = faults + 1
    /\ UNCHANGED <<snapshot, repaired>>

Next ==
    \/ \E t \in Threads, b \in DOMAIN banks : \E tx \in Submitted[<<t, b>>] :
            CheckAge(t, b, tx)
    \/ \E t \in Threads : CheckStatusCache(t) \/ Record(t)
    \/ \E t \in Threads, ok \in BOOLEAN, drawn \in Indexes : Commit(t, ok, drawn)
    \/ \E p, s \in Slots : NewBank(p, s)
    \/ \E b \in DOMAIN banks : LastTick(b) \/ Freeze(b) \/ SetRoot(b) \/ Dump(b)
    \/ \E s \in pruned : RepairPruned(s)
    \/ SquashOne \/ RequestSnapshot \/ Prune \/ WriteSnapshot
    \/ \E index \in [RecentsOf(snapshot.deltas) -> Indexes] : Restart(index)

Spec == Init /\ [][Next]_vars

-----------------------------------------------------------------------------
(* Properties.                                                             *)

(* The banks that the validator goes on with.                              *)
Live == {b \in DOMAIN banks : root \in banks[b].chain}

(* On a live bank, get_status (status_cache.rs) answers for a transaction  *)
(* whose blockhash is still valid exactly what happened on the bank's      *)
(* fork: whatever was purged, dumped or restored, it misses no transaction *)
(* that was processed, and it takes one that a dropped fork processed for  *)
(* one of this fork only if the slot was pruned and then repaired, which   *)
(* clears no entries.                                                      *)
StatusIsExact ==
    \A b \in Live, tx \in Transactions :
        /\ GetStatus(sc, tx, banks[b].ancestors) =>
                \/ tx \in DOMAIN banks[b].done
                \/ \E s \in repaired :
                        <<sc.cache[tx.recent].index, tx.key, s>>
                            \in sc.cache[tx.recent].forks
        /\ (tx \in DOMAIN banks[b].done /\ CheckTransactionAge(b, tx)) =>
                GetStatus(sc, tx, banks[b].ancestors)

(* clear_slot_entries never panics: a delta's blockhash and key are in the *)
(* cache, at the index that the blockhash's entry looks keys up with, so   *)
(* that a slot can be dumped and a snapshot's deltas can be appended in    *)
(* any order.                                                              *)
DeltasAreCached ==
    \A s \in DOMAIN sc.deltas : \A d \in sc.deltas[s] :
        /\ d[1] \in DOMAIN sc.cache
        /\ d[2] = sc.cache[d[1]].index
        /\ <<d[2], d[3], s>> \in sc.cache[d[1]].forks

(* verify_slot_deltas accepts every snapshot the validator writes: not too *)
(* many roots, none above the snapshot's bank, all of them in its slot     *)
(* history, and the newest MaxCacheEntries slots of the history present.   *)
SnapshotVerifies ==
    \A snap \in request \cup {snapshot} :
        /\ Cardinality(snap.roots) <= MaxCacheEntries
        /\ snap.roots \subseteq snap.bank.chain
        /\ \A x \in snap.bank.chain \ snap.roots :
              Cardinality({y \in snap.bank.chain : y > x}) >= MaxCacheEntries

(* The race that execute_and_commit_transactions_locked guards against: a  *)
(* recorded transaction commits to a bank that is not frozen, and a nonce  *)
(* is advanced from the hash of the block's parent, the hash every replay  *)
(* of the block uses, even if the last tick has registered a newer one.    *)
CommitsAsReplayed ==
    \A t \in Threads :
        (threads[t].pc = "recorded" /\ Present(t)) =>
            LET b == threads[t].bank IN
            /\ banks[b].status # "frozen"
            /\ threads[t].tx.recent.durable =>
                \A ok \in BOOLEAN, x \in banks[b].chain \ {b} :
                    /\ NonceAfter(b, threads[t], ok) \in banks[b].chain \ {b}
                    /\ x <= NonceAfter(b, threads[t], ok)

(* The validator keeps the promise of Ledger.tla on its live banks and on  *)
(* the banks that set_root is about to drop below the root: no fork        *)
(* processes a transaction twice, across purged roots, dumped slots and    *)
(* restarts.                                                               *)
Kept == Live \cup (DOMAIN banks \cap banks[root].chain)

LedgerView == INSTANCE Ledger WITH
    ledger <- [b \in Kept |-> banks[b].done],
    saved <- {[slot |-> snap.slot, done |-> snap.bank.done] :
                snap \in request \cup {snapshot}}

ProcessedAtMostOnce == LedgerView!Spec
=============================================================================
