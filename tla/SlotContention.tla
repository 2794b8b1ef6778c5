--------------------------- MODULE SlotContention ---------------------------
(***************************************************************************)
(* How the accounts of a slot are taken away. Three threads can do it:     *)
(*   - ABS flushes the write cache of a slot to storage, after the slot is *)
(*     rooted or, when the cache is too big, as soon as it is frozen;      *)
(*   - replay dumps a duplicate slot and its descendants and replays them  *)
(*     later under the same slot numbers (remove_unrooted_slots());        *)
(*   - ABS purges the slot of every dropped bank (purge_slot()).           *)
(* The first two agree through slots_under_contention and its condition    *)
(* variable, the last two through removed_bank_ids, which the scans of RPC *)
(* threads also read. A bank is named by its slot and by which version of  *)
(* that slot it is; the pair stands for the BankId.                        *)
(***************************************************************************)
EXTENDS Integers, FiniteSets

CONSTANTS
    Scanners,       \* RPC threads that scan the accounts of a bank
    MaxSlot,        \* bound: the last slot replayed
    MaxVersion,     \* bound: how often a slot is replayed
    MaxBanks        \* bound: banks created in all

ASSUME BoundAssumption ==
    MaxSlot \in Nat \ {0} /\ MaxVersion \in Nat \ {0} /\ MaxBanks \in Nat

VARIABLES
    bank,           \* what became of each bank
    chain,          \* the bank and its ancestors, back to genesis
    root,           \* the root bank of BankForks
    rooted,         \* slots in the alive roots of the accounts index
    dumped,         \* banks removed as duplicates or their descendants
    cache,          \* the versions with accounts in the write cache of a slot
    frozenCaches,   \* slots whose cache is marked frozen
    storage,        \* the versions with accounts in the append vec of a slot
    unflushed,      \* AccountsCache.maybe_unflushed_roots
    maxFlushed,     \* AccountsCache.max_flushed_root
    contended,      \* slots_under_contention
    removedIds,     \* AccountsIndex.removed_bank_ids
    remover,        \* progress of the replay thread in remove_unrooted_slots
    flusher,        \* progress of ABS in flush_accounts_cache
    scan,           \* progress of each scan
    failed          \* assertions that failed

forkVars == <<bank, chain, root, rooted, dumped>>
dataVars == <<cache, frozenCaches, storage, unflushed, maxFlushed>>
syncVars == <<contended, removedIds>>
vars == <<forkVars, dataVars, syncVars, remover, flusher, scan, failed>>

Slots == 1..MaxSlot
Genesis == <<0, 0>>
SlotOf(b) == b[1]
Versions == 1..MaxVersion
VersionOf(b) == b[2]
Banks == Slots \X Versions

\* A failed assertion ends the process.
Running == failed = {}

InForks(b) == bank[b] \in {"open", "frozen"}
SlotsOf(B) == {SlotOf(b) : b \in B}
Later(s, r) == IF s < r THEN r ELSE s

IdleRemover == [pc |-> "idle", banks |-> {}, waitFor |-> {}, asleep |-> FALSE, todo |-> {}, cached |-> FALSE]
IdleFlusher == [pc |-> "idle", roots |-> FALSE, floor |-> 0, todo |-> {}, slot |-> 0, items |-> {}]
IdleScan == [pc |-> "idle", bank |-> Genesis, todo |-> {}, complete |-> TRUE]

Init ==
    /\ bank = [b \in Banks |-> "unused"]
    /\ chain = [b \in Banks |-> {}]
    /\ root = Genesis /\ rooted = {} /\ dumped = {}
    /\ cache = [s \in Slots |-> {}] /\ storage = [s \in Slots |-> {}]
    /\ frozenCaches = {} /\ unflushed = {} /\ maxFlushed = 0
    /\ contended = {} /\ removedIds = {}
    /\ remover = IdleRemover /\ flusher = IdleFlusher
    /\ scan = [c \in Scanners |-> IdleScan]
    /\ failed = {}

-----------------------------------------------------------------------------
(* The replay thread.                                                      *)

\* AccountsCache::store: a slot without a cache gets a new one. The flag of
\* a cache goes with it, so the new one is not frozen.
Store(b) == cache' = [cache EXCEPT ![SlotOf(b)] = @ \cup {VersionOf(b)}]

RemoveCache(s) ==
    /\ cache' = [cache EXCEPT ![s] = {}]
    /\ frozenCaches' = frozenCaches \ {s}

RemoveStorage(s) == storage' = [storage EXCEPT ![s] = {}]

\* Bank::new_from_parent, which stores the sysvars. A slot is replayed again
\* only after the dump of its previous version.
NewBank(b, p) ==
    /\ Running /\ remover.pc = "idle"
    /\ bank[b] = "unused" /\ SlotOf(b) > SlotOf(root)
    /\ \A d \in Banks : SlotOf(d) = SlotOf(b) /\ VersionOf(d) < VersionOf(b) => d \in dumped
    /\ Cardinality({d \in Banks : bank[d] # "unused"}) < MaxBanks
    /\ p = root \/ (p \in Banks /\ bank[p] = "frozen")
    /\ SlotOf(p) < SlotOf(b)
    /\ bank' = [bank EXCEPT ![b] = "open"]
    /\ chain' = [chain EXCEPT ![b] = {b} \cup IF p = Genesis THEN {} ELSE chain[p]]
    /\ Store(b)
    /\ UNCHANGED <<root, rooted, dumped, frozenCaches, storage, unflushed, maxFlushed, syncVars, remover, flusher, scan, failed>>

\* The accounts of a transaction the bank commits.
Write(b) ==
    /\ Running /\ remover.pc = "idle" /\ bank[b] = "open"
    /\ Store(b)
    /\ UNCHANGED <<forkVars, frozenCaches, storage, unflushed, maxFlushed, syncVars, remover, flusher, scan, failed>>

\* Bank::freeze marks the slot cache frozen.
Freeze(b) ==
    /\ Running /\ remover.pc = "idle" /\ bank[b] = "open"
    /\ bank' = [bank EXCEPT ![b] = "frozen"]
    /\ frozenCaches' = IF cache[SlotOf(b)] = {} THEN frozenCaches ELSE frozenCaches \cup {SlotOf(b)}
    /\ UNCHANGED <<chain, root, rooted, dumped, cache, storage, unflushed, maxFlushed, syncVars, remover, flusher, scan, failed>>

\* BankForks::set_root: squash() roots the bank and its ancestors, and the banks
\* that do not descend from it leave BankForks.
SetRoot(b) ==
    /\ Running /\ remover.pc = "idle" /\ bank[b] = "frozen" /\ SlotOf(b) > SlotOf(root)
    /\ root' = b
    /\ rooted' = rooted \cup SlotsOf(chain[b])
    /\ unflushed' = unflushed \cup (SlotsOf(chain[b]) \ rooted)
    /\ bank' = [d \in Banks |-> IF InForks(d) /\ b \notin chain[d] THEN "removed" ELSE bank[d]]
    /\ UNCHANGED <<chain, dumped, cache, frozenCaches, storage, maxFlushed, syncVars, remover, flusher, scan, failed>>

\* The last reference goes: a bank is kept by scans, by the dump that removed it
\* and by the banks that have it as an unrooted ancestor (Bank::drop).
Drop(b) ==
    /\ Running /\ bank[b] = "removed" /\ b \notin remover.banks
    /\ \A c \in Scanners : scan[c].bank # b
    /\ \A d \in Banks : d # b /\ b \in chain[d] /\ SlotOf(b) \notin rooted =>
                        bank[d] \in {"dropped", "purged"}
    /\ bank' = [bank EXCEPT ![b] = "dropped"]
    /\ UNCHANGED <<chain, root, rooted, dumped, dataVars, syncVars, remover, flusher, scan, failed>>

-----------------------------------------------------------------------------
(* remove_unrooted_slots, called by the replay thread for a duplicate.     *)

\* purge_unconfirmed_duplicate_slot takes the slot and its descendants out of
\* BankForks.
RemoveStart(d) ==
    /\ Running /\ remover.pc = "idle" /\ InForks(d) /\ SlotOf(d) > SlotOf(root)
    /\ LET gone == {b \in Banks : InForks(b) /\ d \in chain[b]} IN
       /\ bank' = [b \in Banks |-> IF b \in gone THEN "removed" ELSE bank[b]]
       /\ dumped' = dumped \cup gone
       /\ remover' = [IdleRemover EXCEPT !.pc = "reserve", !.banks = gone, !.waitFor = SlotsOf(gone)]
       /\ failed' = IF SlotsOf(gone) \cap rooted = {} THEN failed ELSE failed \cup {"rooted slot removed"}
    /\ UNCHANGED <<chain, root, rooted, dataVars, syncVars, flusher, scan>>

\* Mutant: a reservation that does not wait for the flush in progress.
ReserveWithoutWaiting ==
    /\ remover.pc = "reserve"
    /\ contended' = contended \cup remover.waitFor
    /\ remover' = [remover EXCEPT !.waitFor = {}, !.pc = "mark"]
    /\ UNCHANGED <<forkVars, dataVars, removedIds, flusher, scan, failed>>

\* Reserve the slots that are not being flushed and wait for the others: the
\* first insertions, and the retained ones after every signal.
Reserve ==
    /\ Running /\ remover.pc = "reserve" /\ ~remover.asleep
    /\ contended' = contended \cup remover.waitFor
    /\ LET flushing == remover.waitFor \cap contended IN
       remover' = [remover EXCEPT !.waitFor = flushing, !.asleep = flushing # {},
                                  !.pc = IF flushing = {} THEN "mark" ELSE "reserve"]
    /\ UNCHANGED <<forkVars, dataVars, removedIds, flusher, scan, failed>>

\* Mutant: a dump that does not announce the banks it removes.
MarkRemovedNothing ==
    /\ remover.pc = "mark"
    /\ remover' = [remover EXCEPT !.pc = "look", !.todo = SlotsOf(remover.banks)]
    /\ UNCHANGED <<forkVars, dataVars, syncVars, flusher, scan, failed>>

MarkRemoved ==
    /\ Running /\ remover.pc = "mark"
    /\ removedIds' = removedIds \cup remover.banks
    /\ remover' = [remover EXCEPT !.pc = "look", !.todo = SlotsOf(remover.banks)]
    /\ UNCHANGED <<forkVars, dataVars, contended, flusher, scan, failed>>

\* purge_slots_from_cache_and_store looks for the slot cache ...
PurgeLook(s) ==
    /\ Running /\ remover.pc = "look" /\ s \in remover.todo
    /\ remover' = [remover EXCEPT !.pc = "purge", !.waitFor = {s}, !.cached = cache[s] # {}]
    /\ UNCHANGED <<forkVars, dataVars, syncVars, flusher, scan, failed>>

\* ... and removes it, or else the storage of the slot.
PurgeSlot(s) ==
    /\ Running /\ remover.pc = "purge" /\ remover.waitFor = {s}
    /\ IF remover.cached THEN RemoveCache(s) /\ UNCHANGED storage
                         ELSE RemoveStorage(s) /\ UNCHANGED <<cache, frozenCaches>>
    /\ failed' = IF remover.cached /\ cache[s] = {} THEN failed \cup {"slot cache already removed"} ELSE failed
    /\ remover' = [remover EXCEPT !.waitFor = {}, !.todo = @ \ {s},
                                  !.pc = IF remover.todo = {s} THEN "end" ELSE "look"]
    /\ UNCHANGED <<forkVars, unflushed, maxFlushed, syncVars, flusher, scan>>

RemoveEnd ==
    /\ Running /\ remover.pc = "end"
    /\ contended' = contended \ SlotsOf(remover.banks)
    /\ failed' = IF SlotsOf(remover.banks) \subseteq contended THEN failed ELSE failed \cup {"reservation lost"}
    /\ remover' = IdleRemover
    /\ UNCHANGED <<forkVars, dataVars, removedIds, flusher, scan>>

-----------------------------------------------------------------------------
(* AccountsBackgroundService: flush_accounts_cache and the pruned banks.   *)

\* flush_rooted_accounts_cache takes the queued roots.
FlushRoots ==
    /\ Running /\ flusher.pc = "idle" /\ unflushed # {}
    /\ flusher' = [IdleFlusher EXCEPT !.pc = "next", !.roots = TRUE, !.todo = unflushed]
    /\ unflushed' = {}
    /\ UNCHANGED <<forkVars, cache, frozenCaches, storage, maxFlushed, syncVars, remover, scan, failed>>

\* A cache that is too big is relieved of all its frozen slots.
FlushExcess ==
    /\ Running /\ flusher.pc = "idle" /\ frozenCaches # {}
    /\ flusher' = [IdleFlusher EXCEPT !.pc = "next", !.floor = maxFlushed, !.todo = frozenCaches]
    /\ UNCHANGED <<forkVars, dataVars, syncVars, remover, scan, failed>>

\* Mutant: a flush that enters a slot the replay thread has reserved.
FlushEnterContended(s) ==
    /\ flusher.pc = "next" /\ s \in flusher.todo
    /\ contended' = contended \cup {s}
    /\ flusher' = [flusher EXCEPT !.todo = @ \ {s}, !.slot = s, !.pc = "look"]
    /\ UNCHANGED <<forkVars, dataVars, removedIds, remover, scan, failed>>

\* flush_slot_cache_with_clean enters the slot unless it is contended. Roots go
\* from the highest down and move max_flushed_root even if they are skipped;
\* of the excess slots those at or below max_flushed_root are left alone, and
\* the others if the cache is no longer too big.
FlushEnter(s) ==
    /\ Running /\ flusher.pc = "next" /\ s \in flusher.todo
    /\ \A x \in flusher.todo : IF flusher.roots THEN x =< s ELSE s =< x
    /\ \E tooBig \in BOOLEAN :
       LET left == [flusher EXCEPT !.todo = @ \ {s}, !.slot = s]
           enters == s \notin contended /\ (flusher.roots \/ (tooBig /\ s > flusher.floor)) IN
       /\ contended' = IF enters THEN contended \cup {s} ELSE contended
       /\ flusher' = IF enters THEN [left EXCEPT !.pc = "look"] ELSE left
       /\ maxFlushed' = IF flusher.roots /\ ~enters THEN Later(maxFlushed, s) ELSE maxFlushed
    /\ UNCHANGED <<forkVars, cache, frozenCaches, storage, unflushed, removedIds, remover, scan, failed>>

\* do_flush_slot_cache collects what the slot cache holds, if there is one ...
FlushLook ==
    /\ Running /\ flusher.pc = "look"
    /\ flusher' = [flusher EXCEPT !.items = cache[flusher.slot],
                                  !.pc = IF cache[flusher.slot] = {} THEN "release" ELSE "write"]
    /\ UNCHANGED <<forkVars, dataVars, syncVars, remover, scan, failed>>

\* ... writes it to a new store, the only one the slot may have (the process
\* ends if there is one) ...
FlushWrite ==
    /\ Running /\ flusher.pc = "write"
    /\ failed' = IF storage[flusher.slot] = {} THEN failed ELSE failed \cup {"slot has a store"}
    /\ storage' = IF storage[flusher.slot] = {} THEN [storage EXCEPT ![flusher.slot] = flusher.items]
                  ELSE storage
    /\ flusher' = [flusher EXCEPT !.pc = "remove", !.items = {}]
    /\ UNCHANGED <<forkVars, cache, frozenCaches, unflushed, maxFlushed, syncVars, remover, scan>>

\* ... and removes the slot cache with whatever it holds by then.
FlushRemove ==
    /\ Running /\ flusher.pc = "remove"
    /\ RemoveCache(flusher.slot)
    /\ failed' = IF cache[flusher.slot] = {} THEN failed \cup {"flushed cache removed"} ELSE failed
    /\ flusher' = [flusher EXCEPT !.pc = "release"]
    /\ UNCHANGED <<forkVars, storage, unflushed, maxFlushed, syncVars, remover, scan>>

\* Mutant: a flush that moves past the slot number it has flushed.
FlushReleaseNext ==
    /\ flusher.pc = "release"
    /\ contended' = contended \ {flusher.slot}
    /\ flusher' = [flusher EXCEPT !.pc = "notify", !.slot = @ + 1]
    /\ UNCHANGED <<forkVars, dataVars, removedIds, remover, scan, failed>>

FlushRelease ==
    /\ Running /\ flusher.pc = "release"
    /\ contended' = contended \ {flusher.slot}
    /\ failed' = IF flusher.slot \in contended THEN failed ELSE failed \cup {"flush reservation lost"}
    /\ flusher' = [flusher EXCEPT !.pc = "notify"]
    /\ UNCHANGED <<forkVars, dataVars, removedIds, remover, scan>>

\* Mutant: a flush that ends without a signal.
FlushNotifyNobody ==
    /\ flusher.pc = "notify"
    /\ flusher' = [flusher EXCEPT !.pc = "next"]
    /\ maxFlushed' = IF flusher.roots THEN Later(maxFlushed, flusher.slot) ELSE maxFlushed
    /\ UNCHANGED <<forkVars, cache, frozenCaches, storage, unflushed, syncVars, remover, scan, failed>>

FlushNotify ==
    /\ Running /\ flusher.pc = "notify"
    /\ remover' = [remover EXCEPT !.asleep = FALSE]
    /\ flusher' = [flusher EXCEPT !.pc = "next"]
    /\ maxFlushed' = IF flusher.roots THEN Later(maxFlushed, flusher.slot) ELSE maxFlushed
    /\ UNCHANGED <<forkVars, cache, frozenCaches, storage, unflushed, syncVars, scan, failed>>

FlushEnd ==
    /\ Running /\ flusher.pc = "next" /\ flusher.todo = {}
    /\ flusher' = IdleFlusher
    /\ UNCHANGED <<forkVars, dataVars, syncVars, remover, scan, failed>>

\* Mutant: a purge of every dropped bank's slot, whoever purged it before.
PurgeDroppedAgain(b) ==
    /\ flusher.pc = "idle" /\ bank[b] = "dropped"
    /\ bank' = [bank EXCEPT ![b] = "purged"]
    /\ removedIds' = removedIds \ {b}
    /\ IF SlotOf(b) \in rooted THEN UNCHANGED <<cache, frozenCaches, storage>>
       ELSE RemoveCache(SlotOf(b)) /\ RemoveStorage(SlotOf(b))
    /\ UNCHANGED <<chain, root, rooted, dumped, unflushed, maxFlushed, contended, remover, flusher, scan, failed>>

\* PrunedBanksRequestHandler: purge_slot of a dropped bank. A bank that was
\* dumped has nothing left and a root keeps its accounts.
PurgeDropped(b) ==
    /\ Running /\ flusher.pc = "idle" /\ bank[b] = "dropped"
    /\ bank' = [bank EXCEPT ![b] = "purged"]
    /\ removedIds' = removedIds \ {b}
    /\ IF b \in removedIds \/ SlotOf(b) \in rooted
       THEN UNCHANGED <<cache, frozenCaches, storage>>
       ELSE IF cache[SlotOf(b)] # {}
            THEN RemoveCache(SlotOf(b)) /\ UNCHANGED storage
            ELSE RemoveStorage(SlotOf(b)) /\ UNCHANGED <<cache, frozenCaches>>
    /\ UNCHANGED <<chain, root, rooted, dumped, unflushed, maxFlushed, contended, remover, flusher, scan, failed>>

-----------------------------------------------------------------------------
(* AccountsIndex::do_checked_scan_accounts.                                *)

\* An RPC thread takes a frozen bank from BankForks.
ScanTakesBank(c, b) ==
    /\ Running /\ scan[c].pc = "idle" /\ bank[b] = "frozen"
    /\ scan' = [scan EXCEPT ![c] = [IdleScan EXCEPT !.pc = "begin", !.bank = b]]
    /\ UNCHANGED <<forkVars, dataVars, syncVars, remover, flusher, failed>>

\* A scan of a bank that does not descend from the root sees roots only.
ScanBegin(c) ==
    /\ Running /\ scan[c].pc = "begin"
    /\ LET b == scan[c].bank
           onRoot == root = Genesis \/ root \in chain[b] IN
       scan' = [scan EXCEPT ![c] =
           IF b \in removedIds THEN IdleScan
           ELSE [@ EXCEPT !.pc = "scan",
                          !.todo = IF onRoot THEN {d \in chain[b] : SlotOf(d) > SlotOf(root)} ELSE {}]]
    /\ UNCHANGED <<forkVars, dataVars, syncVars, remover, flusher, failed>>

ScanSlot(c, d) ==
    /\ Running /\ scan[c].pc = "scan" /\ d \in scan[c].todo
    /\ scan' = [scan EXCEPT ![c].todo = @ \ {d},
                            ![c].complete = @ /\ VersionOf(d) \in cache[SlotOf(d)] \cup storage[SlotOf(d)]]
    /\ UNCHANGED <<forkVars, dataVars, syncVars, remover, flusher, failed>>

\* The results are thrown away if the bank was removed during the scan.
ScanCheck(c) ==
    /\ Running /\ scan[c].pc = "scan" /\ scan[c].todo = {}
    /\ scan' = [scan EXCEPT ![c] = IF scan[c].bank \in removedIds THEN IdleScan ELSE [@ EXCEPT !.pc = "ok"]]
    /\ UNCHANGED <<forkVars, dataVars, syncVars, remover, flusher, failed>>

ScanReturns(c) ==
    /\ Running /\ scan[c].pc = "ok"
    /\ scan' = [scan EXCEPT ![c] = IdleScan]
    /\ UNCHANGED <<forkVars, dataVars, syncVars, remover, flusher, failed>>

-----------------------------------------------------------------------------
ReplayStep ==
    \/ \E b \in Banks, p \in Banks \cup {Genesis} : NewBank(b, p)
    \/ \E b \in Banks : Write(b) \/ Freeze(b) \/ SetRoot(b) \/ Drop(b) \/ RemoveStart(b)

RemoveStep ==
    Reserve \/ MarkRemoved \/ RemoveEnd \/ \E s \in Slots : PurgeLook(s) \/ PurgeSlot(s)

FlushStep ==
    \/ \E s \in Slots : FlushEnter(s)
    \/ FlushLook \/ FlushWrite \/ FlushRemove \/ FlushRelease \/ FlushNotify \/ FlushEnd

AbsStep == FlushRoots \/ FlushExcess \/ FlushStep \/ \E b \in Banks : PurgeDropped(b)

ScanStep(c) ==
    \/ \E b \in Banks : ScanTakesBank(c, b) \/ ScanSlot(c, b)
    \/ ScanBegin(c) \/ ScanCheck(c) \/ ScanReturns(c)

Next == ReplayStep \/ RemoveStep \/ AbsStep \/ \E c \in Scanners : ScanStep(c)

Spec == Init /\ [][Next]_vars

-----------------------------------------------------------------------------
(* Properties.                                                             *)

ScanStates ==
    [pc : {"idle", "begin", "scan", "ok"}, bank : Banks \cup {Genesis}, todo : SUBSET Banks, complete : BOOLEAN]

\* The variables have their types: the flusher, the remover and the scanners stay
\* within the slots and banks there are.
TypeOK ==
    /\ bank \in [Banks -> {"unused", "open", "frozen", "removed", "dropped", "purged"}]
    /\ chain \in [Banks -> SUBSET Banks]
    /\ root \in Banks \cup {Genesis} /\ rooted \subseteq Slots /\ dumped \subseteq Banks
    /\ cache \in [Slots -> SUBSET Versions] /\ storage \in [Slots -> SUBSET Versions]
    /\ frozenCaches \subseteq Slots /\ unflushed \subseteq Slots /\ maxFlushed \in 0..MaxSlot
    /\ contended \subseteq Slots /\ removedIds \subseteq Banks
    /\ remover \in [pc : {"idle", "reserve", "mark", "look", "purge", "end"}, banks : SUBSET Banks,
                    waitFor : SUBSET Slots, asleep : BOOLEAN, todo : SUBSET Slots, cached : BOOLEAN]
    /\ flusher \in [pc : {"idle", "next", "look", "write", "remove", "release", "notify"},
                    roots : BOOLEAN, floor : 0..MaxSlot, todo : SUBSET Slots,
                    slot : 0..MaxSlot, items : SUBSET Versions]
    /\ scan \in [Scanners -> ScanStates]
    /\ flusher.pc \notin {"idle", "next"} => flusher.slot \in Slots
    /\ \A c \in Scanners : scan[c].pc # "idle" => scan[c].bank \in Banks
    /\ failed \subseteq {"rooted slot removed", "slot cache already removed", "reservation lost",
                         "slot has a store", "flushed cache removed", "flush reservation lost"}

\* The slots ABS is flushing and those the replay thread has reserved.
Flushing == IF flusher.pc \in {"look", "write", "remove", "release"} THEN {flusher.slot} ELSE {}
Reserved ==
    IF remover.pc = "idle" THEN {}
    ELSE IF remover.pc = "reserve" THEN SlotsOf(remover.banks) \ remover.waitFor
    ELSE SlotsOf(remover.banks)

\* slots_under_contention is exactly what the two threads hold, and they never
\* hold the same slot: no slot is purged while its cache is being flushed.
SlotsExclusive == contended = Flushing \cup Reserved /\ Flushing \cap Reserved = {}

\* The assertions of flush_slot_cache_with_clean, do_flush_slot_cache,
\* purge_slots_from_cache_and_store and remove_unrooted_slots never fail.
AssertionsHold == failed \subseteq {"slot has a store"}

\* What a bank of BankForks stored when it was created stays in the database,
\* however late an earlier version of its slot is dropped and purged.
LiveBankKeepsAccounts ==
    \A b \in Banks : InForks(b) => VersionOf(b) \in cache[SlotOf(b)] \cup storage[SlotOf(b)]

\* A scan that returns results has seen every unrooted bank of its fork, though
\* the slots may have been dumped, pruned or flushed while it ran.
ScanNotTorn == \A c \in Scanners : scan[c].pc = "ok" => scan[c].complete

\* A dump that sleeps waits for a flush that is still to signal it: no signal
\* of the condition variable is missed.
NoMissedSignal ==
    remover.asleep =>
        /\ remover.pc = "reserve"
        /\ flusher.pc \in {"look", "write", "remove", "release", "notify"}
        /\ remover.waitFor = {flusher.slot}
=============================================================================
