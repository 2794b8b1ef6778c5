------------------------ MODULE SlotContentionProofs ------------------------
(***************************************************************************)
(* Proofs about SlotContention for every number of slots, versions, banks  *)
(* and scanners.  The inductive invariant says how the threads share the   *)
(* slots (SyncInv), what became of the banks (ForkInv), where their        *)
(* accounts are (DataInv) and what scans have seen (ScanInv).              *)
(***************************************************************************)
EXTENDS SlotContention, TLAPS

Used(b) == bank[b] # "unused"
SameSlot(b, d) == SlotOf(b) = SlotOf(d)
Present(b) == VersionOf(b) \in cache[SlotOf(b)] \cup storage[SlotOf(b)]

\* Before the removed banks are announced their accounts are still there.
Unannounced(b) == b \in remover.banks /\ remover.pc \in {"reserve", "mark"}

-----------------------------------------------------------------------------
RemoverShape ==
    /\ remover.pc = "idle" => remover.banks = {}
    /\ remover.pc = "reserve" => remover.waitFor \subseteq SlotsOf(remover.banks)
    /\ remover.pc \in {"look", "purge"} => remover.todo \subseteq SlotsOf(remover.banks)
    /\ remover.pc = "purge" => \E s \in remover.todo : remover.waitFor = {s}
    /\ remover.pc = "end" => remover.todo = {}

SyncInv == SlotsExclusive /\ NoMissedSignal /\ RemoverShape

ChainShape ==
    \A b \in Banks :
        /\ Used(b) => b \in chain[b]
        /\ ~Used(b) => chain[b] = {} /\ b \notin dumped
        /\ \A d \in chain[b] : Used(d) /\ SlotOf(d) =< SlotOf(b) /\ chain[d] \subseteq chain[b]
        /\ \A d, e \in chain[b] : d \in chain[e] \/ e \in chain[d]

RootShape ==
    /\ root = Genesis \/ (root \in Banks /\ bank[root] = "frozen")
    /\ \A s \in rooted : s =< SlotOf(root)
    /\ \A b \in Banks : InForks(b) => root = Genesis \/ root \in chain[b]

\* Only the last version of a slot can be in BankForks, or pruned by a root.
LastVersion ==
    \A b, d \in Banks : Used(b) /\ SameSlot(b, d) /\ VersionOf(d) < VersionOf(b) => d \in dumped

DumpedBanks ==
    \A b \in dumped :
        /\ bank[b] \in {"removed", "dropped", "purged"}
        /\ bank[b] = "removed" => b \in removedIds \/ Unannounced(b)
        /\ bank[b] = "dropped" => b \in removedIds

RemoverBanks ==
    /\ remover.banks \subseteq dumped
    /\ \A b \in remover.banks :
        /\ bank[b] = "removed"
        /\ \A d \in Banks : SameSlot(b, d) /\ VersionOf(d) > VersionOf(b) => ~Used(d)
        /\ \A d \in chain[b] : d \in dumped => d \in remover.banks
    /\ remover.pc \in {"look", "purge", "end"} => remover.banks \subseteq removedIds

\* What happens to a bank happens to its descendants.
Descendants ==
    \A b \in Banks : \A d \in chain[b] :
        /\ InForks(d) => InForks(b) \/ b \in dumped
        /\ d \in dumped => b \in dumped
        /\ bank[d] \in {"dropped", "purged"} /\ SlotOf(d) \notin rooted => bank[b] \in {"dropped", "purged"}

PrunedBanks == \A b \in Banks : bank[b] = "removed" /\ b \notin dumped => root # Genesis /\ root \notin chain[b]

UnrootedAncestors ==
    \A b \in Banks : InForks(b) \/ b \in remover.banks =>
        \A d \in chain[b] : SlotOf(d) > SlotOf(root) => InForks(d) \/ d \in remover.banks

ForkInv ==
    /\ ChainShape /\ RootShape /\ LastVersion /\ DumpedBanks /\ RemoverBanks
    /\ Descendants /\ PrunedBanks /\ UnrootedAncestors

KeepsAccounts == \A b \in Banks : InForks(b) \/ Unannounced(b) => Present(b)

\* A cache is that of a bank that is not dumped, or not yet purged.
CacheHasBank ==
    \A s \in Slots : cache[s] # {} =>
        \E b \in Banks : /\ SlotOf(b) = s /\ Used(b)
                         /\ b \notin dumped \/ (b \in remover.banks /\ (remover.pc \in {"reserve", "mark"} \/ s \in remover.todo))

FlushedCache ==
    /\ flusher.pc \in {"write", "remove"} => cache[flusher.slot] # {}
    /\ flusher.pc = "write" => cache[flusher.slot] \subseteq flusher.items \/ storage[flusher.slot] # {}
    /\ flusher.pc = "remove" /\ Running => cache[flusher.slot] \subseteq storage[flusher.slot]

PurgedCache == remover.pc = "purge" => \A s \in remover.waitFor : remover.cached = (cache[s] # {})

DataInv == KeepsAccounts /\ CacheHasBank /\ FlushedCache /\ PurgedCache

ScanInv ==
    \A c \in Scanners :
        /\ scan[c].pc = "idle" => scan[c].bank = Genesis
        /\ scan[c].pc # "idle" => bank[scan[c].bank] \in {"frozen", "removed"}
        /\ scan[c].pc = "begin" => scan[c].complete
        /\ scan[c].pc = "scan" => scan[c].todo \subseteq chain[scan[c].bank]
        /\ scan[c].pc = "scan" /\ scan[c].bank \notin removedIds =>
              scan[c].complete /\ \A d \in scan[c].todo : Present(d)
        /\ scan[c].pc = "ok" => scan[c].complete

Inv == TypeOK /\ SyncInv /\ ForkInv /\ AssertionsHold /\ DataInv /\ ScanInv

-----------------------------------------------------------------------------
(* Banks.                                                                  *)

\* The slot and the version of a bank, which together are the bank.
LEMMA BankFacts ==
    /\ \A b \in Banks : SlotOf(b) \in Slots /\ VersionOf(b) \in Versions
    /\ \A b, d \in Banks : SlotOf(b) = SlotOf(d) /\ VersionOf(b) = VersionOf(d) => b = d
    /\ SlotOf(Genesis) = 0 /\ Genesis \notin Banks
    /\ Slots \subseteq Nat /\ 0 \notin Slots /\ Versions \subseteq Nat
BY BoundAssumption DEF Banks, SlotOf, VersionOf, Slots, Versions, Genesis

\* The slot of a bank, genesis included, is a number.
LEMMA SlotIsNat == ASSUME NEW b \in Banks \cup {Genesis} PROVE SlotOf(b) \in Nat
<1>1. CASE b \in Banks
  BY Zenon, <1>1, BankFacts
<1>2. CASE b = Genesis
  BY <1>2, BankFacts
<1> QED
  BY Zenon, <1>1, <1>2

\* The slots of a set of banks.
LEMMA SlotsOfBanks ==
    ASSUME NEW B \in SUBSET Banks
    PROVE  /\ SlotsOf(B) \subseteq Slots
           /\ \A b \in B : SlotOf(b) \in SlotsOf(B)
           /\ \A s \in SlotsOf(B) : \E b \in B : SlotOf(b) = s
BY Zenon, BankFacts DEF SlotsOf

\* A slot is a number that max_flushed_root can take.
LEMMA SlotNumbers == 0 \in 0..MaxSlot /\ \A s \in Slots : s \in 0..MaxSlot
BY BoundAssumption DEF Slots

LEMMA InitType == Init => TypeOK
BY BankFacts, BoundAssumption DEF Init, TypeOK, IdleRemover, IdleFlusher, IdleScan,
   ScanStates

\* A step of a scan changes nothing but that scan.
LEMMA ScanStepState ==
    ASSUME TypeOK, NEW c \in Scanners, ScanStep(c)
    PROVE  /\ UNCHANGED <<forkVars, dataVars, syncVars, remover, flusher, failed>>
           /\ \E r \in ScanStates : (r.pc # "idle" => r.bank \in Banks) /\ scan' = [scan EXCEPT ![c] = r]
<1>1. scan[c] \in ScanStates /\ (scan[c].pc # "idle" => scan[c].bank \in Banks)
  BY Zenon DEF TypeOK
<1>2. IdleScan \in ScanStates /\ IdleScan.pc = "idle"
  BY Zenon DEF IdleScan, ScanStates
<1>3. ASSUME NEW b \in Banks, ScanTakesBank(c, b)
      PROVE  \E r \in ScanStates : (r.pc # "idle" => r.bank \in Banks) /\ scan' = [scan EXCEPT ![c] = r]
  <2>1. [IdleScan EXCEPT !.pc = "begin", !.bank = b] \in ScanStates
    BY Zenon DEF IdleScan, ScanStates
  <2>2. [IdleScan EXCEPT !.pc = "begin", !.bank = b].bank = b
    BY Zenon DEF IdleScan
  <2> QED
    BY Zenon, <1>3, <2>1, <2>2 DEF ScanTakesBank
<1>4. ASSUME ScanBegin(c)
      PROVE  \E r \in ScanStates : (r.pc # "idle" => r.bank \in Banks) /\ scan' = [scan EXCEPT ![c] = r]
  <2>1. PICK T \in SUBSET Banks : scan' = [scan EXCEPT ![c] = IF scan[c].bank \in removedIds THEN IdleScan
                                          ELSE [scan[c] EXCEPT !.pc = "scan", !.todo = T]]
    BY Zenon, <1>1, <1>4 DEF ScanBegin, TypeOK
  <2>2. [scan[c] EXCEPT !.pc = "scan", !.todo = T] \in ScanStates /\ scan[c].pc = "begin"
        /\ [scan[c] EXCEPT !.pc = "scan", !.todo = T].bank = scan[c].bank
    BY Zenon, <1>1, <1>4 DEF ScanStates, ScanBegin
  <2> QED
    BY Zenon, <1>1, <1>2, <2>1, <2>2
<1>5. ASSUME NEW b \in Banks, ScanSlot(c, b)
      PROVE  \E r \in ScanStates : (r.pc # "idle" => r.bank \in Banks) /\ scan' = [scan EXCEPT ![c] = r]
  <2>1. PICK f \in BOOLEAN : scan' = [scan EXCEPT ![c] = [scan[c] EXCEPT !.todo = @ \ {b}, !.complete = f]]
    BY ZenonT(60), <1>1, <1>5 DEF ScanSlot, TypeOK, ScanStates
  <2>2. [scan[c] EXCEPT !.todo = @ \ {b}, !.complete = f] \in ScanStates /\ scan[c].pc = "scan"
        /\ [scan[c] EXCEPT !.todo = @ \ {b}, !.complete = f].bank = scan[c].bank
    BY Zenon, <1>1, <1>5 DEF ScanStates, ScanSlot
  <2> QED
    BY Zenon, <1>1, <2>1, <2>2
<1>6. ASSUME ScanCheck(c)
      PROVE  \E r \in ScanStates : (r.pc # "idle" => r.bank \in Banks) /\ scan' = [scan EXCEPT ![c] = r]
  <2>1. scan' = [scan EXCEPT ![c] = IdleScan] \/ scan' = [scan EXCEPT ![c] = [scan[c] EXCEPT !.pc = "ok"]]
    BY Zenon, <1>6 DEF ScanCheck
  <2>2. [scan[c] EXCEPT !.pc = "ok"] \in ScanStates /\ scan[c].pc = "scan"
        /\ [scan[c] EXCEPT !.pc = "ok"].bank = scan[c].bank
    BY Zenon, <1>1, <1>6 DEF ScanStates, ScanCheck
  <2> QED
    BY Zenon, <1>1, <1>2, <2>1, <2>2
<1>7. ASSUME ScanReturns(c)
      PROVE  \E r \in ScanStates : (r.pc # "idle" => r.bank \in Banks) /\ scan' = [scan EXCEPT ![c] = r]
  BY Zenon, <1>2, <1>7 DEF ScanReturns
<1> QED
  BY Zenon, <1>3, <1>4, <1>5, <1>6, <1>7 DEF ScanStep, ScanTakesBank, ScanBegin, ScanSlot,
     ScanCheck, ScanReturns

LEMMA TypeStep == TypeOK /\ Next => TypeOK'
<1> SUFFICES ASSUME TypeOK, Next PROVE TypeOK'
  BY Zenon
<1> USE DEF TypeOK, forkVars, dataVars, syncVars
<1>1. ASSUME NEW b \in Banks, NEW p \in Banks \cup {Genesis}, NewBank(b, p) PROVE TypeOK'
  <2>1. {b} \cup (IF p = Genesis THEN {} ELSE chain[p]) \in SUBSET Banks
    BY Zenon
  <2>2. chain' \in [Banks -> SUBSET Banks] /\ bank' \in [Banks -> {"unused", "open", "frozen", "removed", "dropped", "purged"}]
    BY Zenon, <1>1, <2>1 DEF NewBank
  <2>3. VersionOf(b) \in Versions
    BY Zenon, BankFacts
  <2>4. cache' \in [Slots -> SUBSET Versions]
    BY ZenonT(60), <1>1, <2>3 DEF NewBank, Store
  <2> QED
    BY Zenon, <1>1, <2>2, <2>4 DEF NewBank
<1>2. ASSUME NEW b \in Banks, Write(b) PROVE TypeOK'
  BY ZenonT(60), <1>2, BankFacts DEF Write, Store, forkVars, syncVars
<1>3. ASSUME NEW b \in Banks, Freeze(b) PROVE TypeOK'
  <2>1. SlotOf(b) \in Slots
    BY Zenon, BankFacts
  <2>2. frozenCaches' \in {frozenCaches, frozenCaches \cup {SlotOf(b)}}
    BY Zenon, <1>3 DEF Freeze
  <2> QED
    BY ZenonT(60), <1>3, <2>1, <2>2 DEF Freeze
<1>4. ASSUME NEW b \in Banks, SetRoot(b) PROVE TypeOK'
  BY Zenon, <1>4, BankFacts, SlotsOfBanks DEF SetRoot, syncVars
<1>5. ASSUME NEW b \in Banks, Drop(b) PROVE TypeOK'
  BY ZenonT(60), <1>5 DEF Drop, syncVars, dataVars
<1>6. ASSUME NEW b \in Banks, RemoveStart(b) PROVE TypeOK'
  BY Zenon, <1>6, SlotsOfBanks DEF RemoveStart, IdleRemover, syncVars, dataVars
<1>7. ASSUME Reserve PROVE TypeOK'
  BY Zenon, <1>7 DEF Reserve, forkVars, dataVars
<1>8. ASSUME MarkRemoved PROVE TypeOK'
  BY Zenon, <1>8, SlotsOfBanks DEF MarkRemoved, forkVars, dataVars
<1>9. ASSUME NEW s \in Slots, PurgeLook(s) PROVE TypeOK'
  BY ZenonT(60), <1>9 DEF PurgeLook, forkVars, dataVars, syncVars
<1>10. ASSUME NEW s \in Slots, PurgeSlot(s) PROVE TypeOK'
  BY ZenonT(60), <1>10 DEF PurgeSlot, RemoveCache, RemoveStorage, forkVars, syncVars
<1>11. ASSUME RemoveEnd PROVE TypeOK'
  BY Zenon, <1>11 DEF RemoveEnd, IdleRemover, forkVars, dataVars
<1>12. ASSUME FlushRoots PROVE TypeOK'
  BY Zenon, <1>12, SlotNumbers DEF FlushRoots, IdleFlusher
<1>19. ASSUME FlushExcess PROVE TypeOK'
  BY Zenon, <1>19, SlotNumbers DEF FlushExcess, IdleFlusher
<1>20. ASSUME FlushEnd PROVE TypeOK'
  BY Zenon, <1>20, SlotNumbers DEF FlushEnd, IdleFlusher
<1>13. ASSUME NEW s \in Slots, FlushEnter(s) PROVE TypeOK'
  <2>1. s \in 0..MaxSlot /\ Later(maxFlushed, s) \in 0..MaxSlot
    BY Zenon, SlotNumbers DEF Later
  <2>2. maxFlushed' \in {maxFlushed, Later(maxFlushed, s)} /\ contended' \in {contended, contended \cup {s}}
    BY Zenon, <1>13 DEF FlushEnter
  <2>3. flusher' = [flusher EXCEPT !.todo = @ \ {s}, !.slot = s]
        \/ flusher' = [flusher EXCEPT !.todo = @ \ {s}, !.slot = s, !.pc = "look"]
    BY Zenon, <1>13 DEF FlushEnter
  <2>4. /\ UNCHANGED <<forkVars, cache, frozenCaches, storage, unflushed, removedIds, remover, scan, failed>>
        /\ flusher.pc = "next"
    BY Zenon, <1>13 DEF FlushEnter
  <2>5. CASE flusher' = [flusher EXCEPT !.todo = @ \ {s}, !.slot = s]
    BY ZenonT(60), <2>1, <2>2, <2>4, <2>5
  <2>6. CASE flusher' = [flusher EXCEPT !.todo = @ \ {s}, !.slot = s, !.pc = "look"]
    BY ZenonT(60), <2>1, <2>2, <2>4, <2>6
  <2> QED
    BY Zenon, <2>3, <2>5, <2>6
<1>14. ASSUME FlushLook PROVE TypeOK'
  BY Zenon, <1>14 DEF FlushLook
<1>21. ASSUME FlushRelease PROVE TypeOK'
  BY Zenon, <1>21 DEF FlushRelease
<1>22. ASSUME FlushNotify PROVE TypeOK'
  BY Zenon, <1>22, BoundAssumption DEF FlushNotify, Later, Slots
<1>15. ASSUME FlushWrite PROVE TypeOK'
  BY Zenon, <1>15 DEF FlushWrite
<1>18. ASSUME FlushRemove PROVE TypeOK'
  BY Zenon, <1>18 DEF FlushRemove, RemoveCache
<1>16. ASSUME NEW b \in Banks, PurgeDropped(b) PROVE TypeOK'
  <2>1. SlotOf(b) \in Slots
    BY Zenon, BankFacts
  <2>2. /\ cache' \in {cache, [cache EXCEPT ![SlotOf(b)] = {}]}
        /\ storage' \in {storage, [storage EXCEPT ![SlotOf(b)] = {}]}
        /\ frozenCaches' \in {frozenCaches, frozenCaches \ {SlotOf(b)}}
    BY Zenon, <1>16 DEF PurgeDropped, RemoveCache, RemoveStorage
  <2>3. /\ cache' \in [Slots -> SUBSET Versions] /\ storage' \in [Slots -> SUBSET Versions]
        /\ frozenCaches' \in SUBSET Slots
    BY ZenonT(60), <2>1, <2>2
  <2>4. /\ bank' \in [Banks -> {"unused", "open", "frozen", "removed", "dropped", "purged"}]
        /\ removedIds' \subseteq Banks
    BY Zenon, <1>16 DEF PurgeDropped
  <2>5. UNCHANGED <<chain, root, rooted, dumped, unflushed, maxFlushed, contended, remover, flusher, scan, failed>>
    BY Zenon, <1>16 DEF PurgeDropped
  <2> QED
    BY ZenonT(60), <2>3, <2>4, <2>5
<1>17. ASSUME NEW c \in Scanners, ScanStep(c) PROVE TypeOK'
  <2>1. /\ UNCHANGED <<forkVars, dataVars, syncVars, remover, flusher, failed>>
        /\ \E r \in ScanStates : (r.pc # "idle" => r.bank \in Banks) /\ scan' = [scan EXCEPT ![c] = r]
    BY Zenon, <1>17, ScanStepState
  <2>2. PICK r \in ScanStates : (r.pc # "idle" => r.bank \in Banks) /\ scan' = [scan EXCEPT ![c] = r]
    BY Zenon, <2>1
  <2>3. scan' \in [Scanners -> ScanStates]
    BY Zenon, <2>2
  <2>4. \A e \in Scanners : scan'[e].pc # "idle" => scan'[e].bank \in Banks
    BY Zenon, <2>2
  <2> QED
    BY ZenonT(60), <2>1, <2>3, <2>4
<1> QED
  BY Zenon, <1>1, <1>2, <1>3, <1>4, <1>5, <1>6, <1>7, <1>8, <1>9, <1>10, <1>11, <1>12,
     <1>13, <1>14, <1>15, <1>16, <1>17, <1>18, <1>19, <1>20, <1>21, <1>22 DEF Next,
     ReplayStep, RemoveStep, AbsStep, FlushStep

-----------------------------------------------------------------------------
(* The reservations of slots.                                              *)

\* The two threads respect the reservations of each other, and no signal is
\* missed (flush_slot_cache_with_clean, remove_unrooted_slots).
LEMMA SyncStep == TypeOK /\ SyncInv /\ Next => SyncInv'
<1> SUFFICES ASSUME TypeOK, SyncInv, Next PROVE SyncInv'
  BY Zenon
<1> USE DEF SyncInv, SlotsExclusive, NoMissedSignal, RemoverShape, Flushing, Reserved
<1>0. remover.banks \in SUBSET Banks
  BY Zenon DEF TypeOK
<1>1. ASSUME UNCHANGED <<contended, remover, flusher>> PROVE SyncInv'
  BY Zenon, <1>1
<1>2. ASSUME NEW b \in Banks, RemoveStart(b) PROVE SyncInv'
  BY Zenon, <1>2 DEF RemoveStart, IdleRemover, syncVars
<1>3. ASSUME Reserve PROVE SyncInv'
  <2>1. /\ remover.pc = "reserve" /\ contended' = contended \cup remover.waitFor
        /\ flusher' = flusher
    BY Zenon, <1>3 DEF Reserve
  <2>2. remover' = [remover EXCEPT !.waitFor = remover.waitFor \cap contended, !.asleep = remover.waitFor \cap contended # {},
                                   !.pc = IF remover.waitFor \cap contended = {} THEN "mark" ELSE "reserve"]
    BY Zenon, <1>3 DEF Reserve
  <2>3. remover.waitFor \cap contended = remover.waitFor \cap Flushing
    BY Zenon, <2>1
  <2>4. /\ remover'.banks = remover.banks /\ remover'.waitFor = remover.waitFor \cap Flushing
        /\ remover'.asleep = (remover.waitFor \cap Flushing # {})
        /\ remover'.pc = IF remover.waitFor \cap Flushing = {} THEN "mark" ELSE "reserve"
    BY ZenonT(60), <2>2, <2>3 DEF TypeOK
  <2>5. CASE remover.waitFor \cap Flushing = {}
    BY Zenon, <2>1, <2>4, <2>5
  <2>6. CASE remover.waitFor \cap Flushing # {}
    <3>1. Flushing = {flusher.slot} /\ flusher.slot \in remover.waitFor
      BY Zenon, <2>6
    <3>2. remover'.waitFor = {flusher.slot} /\ remover'.pc = "reserve" /\ remover'.asleep
      BY ZenonT(60), <2>4, <2>6, <3>1
    <3>3. Reserved' = Reserved \cup (remover.waitFor \ {flusher.slot})
      BY Zenon, <2>1, <2>4, <3>2
    <3> QED
      BY Zenon, <2>1, <2>4, <3>1, <3>2, <3>3
  <2> QED
    BY Zenon, <2>5, <2>6
<1>4. ASSUME MarkRemoved PROVE SyncInv'
  BY Zenon, <1>4 DEF MarkRemoved, TypeOK
<1>5. ASSUME NEW s \in Slots, PurgeLook(s) PROVE SyncInv'
  BY ZenonT(60), <1>5 DEF PurgeLook, syncVars, TypeOK
<1>6. ASSUME NEW s \in Slots, PurgeSlot(s) PROVE SyncInv'
  BY Zenon, <1>6 DEF PurgeSlot, syncVars, TypeOK
<1>7. ASSUME RemoveEnd PROVE SyncInv'
  BY Zenon, <1>7 DEF RemoveEnd, IdleRemover
<1>8. ASSUME FlushRoots \/ FlushExcess \/ FlushEnd PROVE SyncInv'
  <2>1. UNCHANGED <<contended, remover>> /\ flusher.pc \in {"idle", "next"}
    BY Zenon, <1>8 DEF FlushRoots, FlushExcess, FlushEnd, syncVars
  <2>2. flusher'.pc \in {"idle", "next"}
    <3>1. CASE FlushRoots
      BY Zenon, <3>1 DEF FlushRoots, IdleFlusher
    <3>2. CASE FlushExcess
      BY Zenon, <3>2 DEF FlushExcess, IdleFlusher
    <3>3. CASE FlushEnd
      BY Zenon, <3>3 DEF FlushEnd, IdleFlusher
    <3> QED
      BY Zenon, <1>8, <3>1, <3>2, <3>3
  <2> QED
    BY Zenon, <2>1, <2>2
<1>9. ASSUME NEW s \in Slots, FlushEnter(s) PROVE SyncInv'
  <2>1. /\ remover' = remover /\ flusher.pc = "next"
        /\ \/ contended' = contended /\ flusher' = [flusher EXCEPT !.todo = @ \ {s}, !.slot = s]
           \/ /\ contended' = contended \cup {s} /\ s \notin contended
              /\ flusher' = [flusher EXCEPT !.todo = @ \ {s}, !.slot = s, !.pc = "look"]
    BY Zenon, <1>9 DEF FlushEnter
  <2>2. CASE contended' = contended /\ flusher' = [flusher EXCEPT !.todo = @ \ {s}, !.slot = s]
    <3>1. flusher'.pc = "next"
      BY Zenon, <2>1, <2>2 DEF TypeOK
    <3> QED
      BY Zenon, <2>1, <2>2, <3>1
  <2>3. CASE /\ contended' = contended \cup {s} /\ s \notin contended
             /\ flusher' = [flusher EXCEPT !.todo = @ \ {s}, !.slot = s, !.pc = "look"]
    <3>1. flusher'.pc = "look" /\ flusher'.slot = s
      BY Zenon, <2>3 DEF TypeOK
    <3> QED
      BY <2>1, <2>3, <3>1
  <2> QED
    BY Zenon, <2>1, <2>2, <2>3
<1>10. ASSUME FlushLook \/ FlushWrite \/ FlushRemove PROVE SyncInv'
  <2>1. /\ UNCHANGED <<contended, remover>> /\ flusher'.slot = flusher.slot
        /\ flusher.pc \in {"look", "write", "remove"} /\ flusher'.pc \in {"write", "remove", "release"}
    BY ZenonT(60), <1>10 DEF FlushLook, FlushWrite, FlushRemove, syncVars, TypeOK
  <2> QED
    BY Zenon, <2>1
<1>11. ASSUME FlushRelease PROVE SyncInv'
  <2>1. /\ contended' = contended \ {flusher.slot} /\ remover' = remover /\ flusher'.slot = flusher.slot
        /\ flusher.pc = "release" /\ flusher'.pc = "notify"
    BY Zenon, <1>11 DEF FlushRelease, TypeOK
  <2> QED
    BY Zenon, <2>1
<1>15. ASSUME FlushNotify PROVE SyncInv'
  <2>1. /\ contended' = contended /\ flusher.pc = "notify" /\ flusher'.pc = "next"
        /\ remover' = [remover EXCEPT !.asleep = FALSE]
    BY Zenon, <1>15 DEF FlushNotify, syncVars, TypeOK
  <2>2. /\ ~remover'.asleep /\ remover'.pc = remover.pc /\ remover'.banks = remover.banks
        /\ remover'.waitFor = remover.waitFor /\ remover'.todo = remover.todo
    BY Zenon, <2>1 DEF TypeOK
  <2> QED
    BY Zenon, <2>1, <2>2
<1>12. ASSUME NEW c \in Scanners, ScanStep(c) PROVE UNCHANGED <<contended, remover, flusher>>
  BY Zenon, <1>12, ScanStepState DEF syncVars
<1>13. ASSUME NEW b \in Banks, Write(b) \/ Freeze(b) \/ SetRoot(b) \/ Drop(b) \/ PurgeDropped(b)
       PROVE  UNCHANGED <<contended, remover, flusher>>
  BY Zenon, <1>13 DEF Write, Freeze, SetRoot, Drop, PurgeDropped, syncVars
<1>14. ASSUME NEW b \in Banks, NEW p \in Banks \cup {Genesis}, NewBank(b, p)
       PROVE  UNCHANGED <<contended, remover, flusher>>
  BY Zenon, <1>14 DEF NewBank, syncVars
<1> QED
  BY Zenon, <1>1, <1>2, <1>3, <1>4, <1>5, <1>6, <1>7, <1>8, <1>9, <1>10, <1>11, <1>12,
     <1>13, <1>14, <1>15 DEF Next, ReplayStep, RemoveStep, AbsStep, FlushStep

-----------------------------------------------------------------------------
(* The banks.                                                              *)

\* The remover changes nothing the bank invariant speaks of by moving within
\* the phases before or after the announcement.
LEMMA ForkFrame ==
    ASSUME ForkInv, UNCHANGED <<forkVars, removedIds>>, remover'.banks = remover.banks,
           (remover'.pc \in {"reserve", "mark"}) = (remover.pc \in {"reserve", "mark"}),
           (remover'.pc \in {"look", "purge", "end"}) = (remover.pc \in {"look", "purge", "end"})
    PROVE  ForkInv'
<1> USE DEF forkVars, Used, InForks, SameSlot, Unannounced
<1>1. ChainShape'
  BY Zenon DEF ForkInv, ChainShape
<1>2. RootShape'
  BY Zenon DEF ForkInv, RootShape
<1>3. LastVersion'
  BY Zenon DEF ForkInv, LastVersion
<1>4. DumpedBanks'
  BY Zenon DEF ForkInv, DumpedBanks
<1>5. RemoverBanks'
  BY Zenon DEF ForkInv, RemoverBanks
<1>6. Descendants'
  BY Zenon DEF ForkInv, Descendants
<1>7. PrunedBanks' /\ UnrootedAncestors'
  BY Zenon DEF ForkInv, PrunedBanks, UnrootedAncestors
<1> QED
  BY Zenon, <1>1, <1>2, <1>3, <1>4, <1>5, <1>6, <1>7 DEF ForkInv

\* A new bank extends the chain of a bank of BankForks or of genesis.
LEMMA NewBankFork ==
    ASSUME TypeOK, SyncInv, ForkInv, NEW b \in Banks, NEW p \in Banks \cup {Genesis}, NewBank(b, p)
    PROVE  ForkInv'
<1> USE DEF Used, InForks, SameSlot, Unannounced
<1>1. /\ bank[b] = "unused" /\ SlotOf(b) > SlotOf(root)
      /\ \A d \in Banks : SlotOf(d) = SlotOf(b) /\ VersionOf(d) < VersionOf(b) => d \in dumped
      /\ p = root \/ (p \in Banks /\ bank[p] = "frozen")
      /\ SlotOf(p) < SlotOf(b)
      /\ UNCHANGED <<root, rooted, dumped, removedIds, remover>>
  BY Zenon DEF NewBank, syncVars
<1>2. remover.banks = {}
  BY Zenon DEF NewBank, SyncInv, RemoverShape
<1>3. p \in Banks => InForks(p) /\ p # b
  BY Zenon, <1>1, BankFacts DEF ForkInv, RootShape
<1>0. \A e \in Banks : chain[e] \subseteq Banks
  BY Zenon DEF TypeOK
<1> DEFINE C == IF p = Genesis THEN {} ELSE chain[p]
<1>4. /\ bank' = [bank EXCEPT ![b] = "open"] /\ chain' = [chain EXCEPT ![b] = {b} \cup C]
  BY Zenon DEF NewBank
<1>5. /\ bank'[b] = "open" /\ chain'[b] = {b} \cup C
      /\ \A e \in Banks : e # b => bank'[e] = bank[e] /\ chain'[e] = chain[e]
  BY Zenon, <1>4 DEF TypeOK
<1>6. /\ b \notin C /\ b \notin dumped /\ C \subseteq Banks /\ \A e \in Banks : b \notin chain[e]
  BY Zenon, <1>1 DEF ForkInv, ChainShape, TypeOK
<1>7. \A d \in C : p \in Banks /\ Used(d) /\ SlotOf(d) =< SlotOf(p) /\ chain[d] \subseteq C
  BY Zenon, BankFacts DEF ForkInv, ChainShape
<1>8. ChainShape'
  <2>1. \A e \in Banks : e # b => chain[e] \subseteq Banks \ {b}
    BY Zenon, <1>0, <1>6
  <2>2. \A d \in C : SlotOf(d) \in Nat /\ SlotOf(p) \in Nat /\ SlotOf(b) \in Nat
    BY Zenon, <1>6, <1>7, BankFacts
  <2>3. \A d \in C : SlotOf(d) =< SlotOf(b)
    BY <1>1, <1>7, <2>2
  <2>4. SlotOf(b) =< SlotOf(b)
    <3>1. SlotOf(b) \in Nat
      BY Zenon, BankFacts
    <3> QED
      BY <3>1
  <2>5. \A d, e \in C : d \in chain[e] \/ e \in chain[d]
    BY Zenon, <1>7 DEF ForkInv, ChainShape
  <2>6. \A d \in chain'[b] : Used(d)' /\ SlotOf(d) =< SlotOf(b) /\ chain'[d] \subseteq chain'[b]
    BY Zenon, <1>5, <1>6, <1>7, <2>3, <2>4
  <2>7. \A d, e \in chain'[b] : d \in chain'[e] \/ e \in chain'[d]
    BY Zenon, <1>5, <1>6, <2>5
  <2>8. ASSUME NEW e \in Banks, e # b
        PROVE  /\ Used(e)' => e \in chain'[e]
               /\ ~Used(e)' => chain'[e] = {} /\ e \notin dumped'
               /\ \A d \in chain'[e] : Used(d)' /\ SlotOf(d) =< SlotOf(e) /\ chain'[d] \subseteq chain'[e]
               /\ \A d, f \in chain'[e] : d \in chain'[f] \/ f \in chain'[d]
    BY <1>1, <1>5, <2>1, <2>8 DEF ForkInv, ChainShape
  <2> QED
    BY Zenon, <1>5, <2>6, <2>7, <2>8 DEF ChainShape
<1>9. RootShape'
  BY Zenon, <1>1, <1>3, <1>5, BankFacts DEF ForkInv, RootShape
<1>10. LastVersion'
  BY Zenon, <1>1, <1>5, <1>6 DEF ForkInv, LastVersion
<1>11. DumpedBanks'
  BY Zenon, <1>1, <1>5, <1>6 DEF ForkInv, DumpedBanks, TypeOK
<1>12. RemoverBanks'
  BY Zenon, <1>1, <1>2 DEF RemoverBanks, ForkInv
<1>13. Descendants'
  <2>1. ASSUME NEW d \in C PROVE d \notin dumped /\ ~(bank[d] \in {"dropped", "purged"} /\ SlotOf(d) \notin rooted)
    BY Zenon, <1>3, <1>7 DEF ForkInv, Descendants, DumpedBanks
  <2>2. ASSUME NEW e \in Banks, NEW d \in chain'[e]
        PROVE  /\ InForks(d)' => InForks(e)' \/ e \in dumped'
               /\ d \in dumped' => e \in dumped'
               /\ bank'[d] \in {"dropped", "purged"} /\ SlotOf(d) \notin rooted' => bank'[e] \in {"dropped", "purged"}
    <3>1. CASE e = b
      BY Zenon, <1>1, <1>5, <1>6, <2>1, <3>1
    <3>2. CASE e # b
      <4>1. d \in chain[e] /\ d # b /\ d \in Banks
        BY Zenon, <1>0, <1>5, <1>6, <3>2
      <4> QED
        BY Zenon, <1>1, <1>5, <3>2, <4>1 DEF ForkInv, Descendants
    <3> QED
      BY Zenon, <3>1, <3>2
  <2> QED
    BY Zenon, <2>2 DEF Descendants
<1>14. PrunedBanks'
  BY Zenon, <1>1, <1>5 DEF ForkInv, PrunedBanks
<1>15. UnrootedAncestors'
  <2>1. ASSUME NEW d \in C, SlotOf(d) > SlotOf(root) PROVE InForks(d)
    BY Zenon, <1>2, <1>3, <1>7, <2>1 DEF ForkInv, UnrootedAncestors
  <2>2. ASSUME NEW e \in Banks, InForks(e)', NEW d \in chain'[e], SlotOf(d) > SlotOf(root)
        PROVE  InForks(d)'
    <3>1. CASE e = b
      BY Zenon, <1>5, <1>6, <2>1, <2>2, <3>1
    <3>2. CASE e # b
      <4>1. d \in chain[e] /\ d # b /\ d \in Banks
        BY Zenon, <1>0, <1>5, <1>6, <3>2
      <4> QED
        BY Zenon, <1>2, <1>5, <2>2, <3>2, <4>1 DEF ForkInv, UnrootedAncestors
    <3> QED
      BY Zenon, <3>1, <3>2
  <2> QED
    BY Zenon, <1>1, <1>2, <2>2 DEF UnrootedAncestors
<1> QED
  BY Zenon, <1>8, <1>9, <1>10, <1>11, <1>12, <1>13, <1>14, <1>15 DEF ForkInv

\* set_root keeps exactly the banks that descend from the new root.
LEMMA SetRootFork ==
    ASSUME TypeOK, SyncInv, ForkInv, NEW b \in Banks, SetRoot(b)
    PROVE  ForkInv'
<1> USE DEF Used, InForks, SameSlot, Unannounced
<1>0. \A e \in Banks : chain[e] \subseteq Banks
  BY Zenon DEF TypeOK
<1>1. /\ bank[b] = "frozen" /\ SlotOf(b) > SlotOf(root) /\ root' = b
      /\ rooted' = rooted \cup SlotsOf(chain[b])
      /\ UNCHANGED <<chain, dumped, removedIds, remover>>
  BY Zenon DEF SetRoot, syncVars
<1>2. \A e \in Banks : bank'[e] = IF InForks(e) /\ b \notin chain[e] THEN "removed" ELSE bank[e]
  BY Zenon DEF SetRoot
<1>3. remover.banks = {}
  BY Zenon DEF SetRoot, SyncInv, RemoverShape
<1>4. b \in chain[b] /\ bank'[b] = "frozen"
  BY Zenon, <1>1, <1>2 DEF ForkInv, ChainShape
<1>5. \A e \in Banks : /\ Used(e)' = Used(e)
                       /\ InForks(e)' = (InForks(e) /\ b \in chain[e])
                       /\ e \in dumped => bank'[e] = bank[e]
                       /\ bank'[e] \in {"dropped", "purged"} <=> bank[e] \in {"dropped", "purged"}
  BY <1>2 DEF ForkInv, DumpedBanks
<1>6. ChainShape'
  BY <1>0, <1>1, <1>5 DEF ForkInv, ChainShape
<1>7. RootShape'
  <2>1. \A s \in rooted' : s =< SlotOf(b)
    <3>1. \A s \in rooted : s \in Nat /\ s =< SlotOf(root)
      BY Zenon, BankFacts DEF ForkInv, RootShape, TypeOK
    <3>2. SlotOf(root) \in Nat /\ SlotOf(b) \in Nat
      BY Zenon, SlotIsNat DEF TypeOK
    <3>3. \A s \in SlotsOf(chain[b]) : s =< SlotOf(b)
      BY Zenon, <1>0 DEF ForkInv, ChainShape, SlotsOf
    <3> QED
      BY <1>1, <3>1, <3>2, <3>3
  <2> QED
    BY Zenon, <1>1, <1>4, <1>5, <2>1 DEF RootShape
<1>8. LastVersion'
  BY Zenon, <1>1, <1>5 DEF ForkInv, LastVersion
<1>9. DumpedBanks'
  BY Zenon, <1>1, <1>3, <1>5 DEF ForkInv, DumpedBanks, TypeOK
<1>10. RemoverBanks'
  BY Zenon, <1>1, <1>3 DEF RemoverBanks, ForkInv
<1>11. Descendants'
  <2>1. ASSUME NEW e \in Banks, NEW d \in chain[e]
        PROVE  /\ InForks(d)' => InForks(e)' \/ e \in dumped'
               /\ d \in dumped' => e \in dumped'
               /\ bank'[d] \in {"dropped", "purged"} /\ SlotOf(d) \notin rooted' => bank'[e] \in {"dropped", "purged"}
    <3>1. d \in Banks /\ chain[d] \subseteq chain[e]
      BY Zenon, <1>0 DEF ForkInv, ChainShape
    <3> QED
      BY Zenon, <1>1, <1>5, <3>1 DEF ForkInv, Descendants
  <2> QED
    BY Zenon, <1>1, <2>1 DEF Descendants
<1>12. PrunedBanks'
  <2>1. ASSUME NEW e \in Banks, bank'[e] = "removed", e \notin dumped, b \in chain[e] PROVE FALSE
    <3>1. bank[e] = "removed"
      BY Zenon, <1>2, <2>1
    <3>2. root # Genesis /\ root \notin chain[e]
      BY Zenon, <2>1, <3>1 DEF ForkInv, PrunedBanks
    <3>3. root \in chain[b]
      BY Zenon, <1>1, <3>2 DEF ForkInv, RootShape
    <3> QED
      BY Zenon, <2>1, <3>2, <3>3 DEF ForkInv, ChainShape
  <2> QED
    BY Zenon, <1>1, <2>1, BankFacts DEF PrunedBanks
<1>13. UnrootedAncestors'
  <2>1. ASSUME NEW e \in Banks, InForks(e)', NEW d \in chain[e], SlotOf(d) > SlotOf(b) PROVE InForks(d)'
    <3>1. InForks(e) /\ b \in chain[e] /\ d \in Banks
      BY Zenon, <1>0, <1>5, <2>1
    <3>2. SlotOf(root) \in Nat /\ SlotOf(b) \in Nat /\ SlotOf(d) \in Nat
      BY Zenon, <3>1, SlotIsNat DEF TypeOK
    <3>3. InForks(d)
      BY <1>1, <1>3, <2>1, <3>1, <3>2 DEF ForkInv, UnrootedAncestors
    <3>4. d \notin chain[b]
      BY <2>1, <3>2 DEF ForkInv, ChainShape
    <3>5. b \in chain[d]
      BY Zenon, <3>1, <3>4 DEF ForkInv, ChainShape
    <3> QED
      BY Zenon, <1>5, <3>1, <3>3, <3>5
  <2> QED
    BY Zenon, <1>1, <1>3, <2>1 DEF UnrootedAncestors
<1> QED
  BY Zenon, <1>6, <1>7, <1>8, <1>9, <1>10, <1>11, <1>12, <1>13 DEF ForkInv

\* A dump removes a bank of BankForks and all that descend from it.
LEMMA RemoveStartFork ==
    ASSUME TypeOK, SyncInv, ForkInv, NEW b \in Banks, RemoveStart(b)
    PROVE  ForkInv'
<1> USE DEF Used, InForks, SameSlot, Unannounced
<1> DEFINE gone == {e \in Banks : InForks(e) /\ b \in chain[e]}
<1>0. \A e \in Banks : chain[e] \subseteq Banks
  BY Zenon DEF TypeOK
<1>1. /\ SlotOf(b) > SlotOf(root) /\ dumped' = dumped \cup gone
      /\ UNCHANGED <<chain, root, rooted, removedIds>>
      /\ remover' = [IdleRemover EXCEPT !.pc = "reserve", !.banks = gone, !.waitFor = SlotsOf(gone)]
  BY Zenon DEF RemoveStart, syncVars
<1>2. \A e \in Banks : bank'[e] = IF e \in gone THEN "removed" ELSE bank[e]
  BY Zenon DEF RemoveStart
<1>3. remover'.banks = gone /\ remover'.pc = "reserve"
  BY Zenon, <1>1 DEF IdleRemover
<1>4. remover.banks = {} /\ remover.pc = "idle"
  BY Zenon DEF RemoveStart, SyncInv, RemoverShape
<1>5. \A e \in Banks : /\ Used(e)' = Used(e)
                       /\ InForks(e)' = (InForks(e) /\ e \notin gone)
                       /\ e \in dumped => bank'[e] = bank[e] /\ e \notin gone
                       /\ bank'[e] \in {"dropped", "purged"} <=> bank[e] \in {"dropped", "purged"}
  BY <1>2 DEF ForkInv, DumpedBanks
<1>6. ChainShape'
  BY <1>0, <1>1, <1>5 DEF ForkInv, ChainShape
<1>7. RootShape'
  <2>1. root \notin gone
    <3>1. CASE root \in Banks
      <4>1. SlotOf(root) \in Nat /\ SlotOf(b) \in Nat
        BY Zenon, <3>1, SlotIsNat
      <4> QED
        BY <1>1, <4>1 DEF ForkInv, ChainShape
    <3> QED
      BY Zenon, <3>1
  <2> QED
    BY Zenon, <1>1, <1>2, <1>5, <2>1 DEF ForkInv, RootShape
<1>8. LastVersion'
  BY Zenon, <1>1, <1>5 DEF ForkInv, LastVersion
<1>9. DumpedBanks'
  <2>1. ASSUME NEW e \in dumped
        PROVE  /\ bank'[e] \in {"removed", "dropped", "purged"}
               /\ bank'[e] \in {"removed", "dropped"} => e \in removedIds
    BY Zenon, <1>4, <1>5 DEF ForkInv, DumpedBanks, TypeOK
  <2>2. ASSUME NEW e \in gone PROVE bank'[e] = "removed" /\ Unannounced(e)'
    BY Zenon, <1>2, <1>3
  <2> QED
    BY Zenon, <1>1, <2>1, <2>2 DEF DumpedBanks
<1>10. RemoverBanks'
  <2>1. ASSUME NEW e \in gone, NEW d \in Banks, SameSlot(e, d), VersionOf(d) > VersionOf(e), Used(d) PROVE FALSE
    <3>1. VersionOf(d) \in Nat /\ VersionOf(e) \in Nat
      BY Zenon, BankFacts
    <3>2. e \in dumped
      BY Zenon, <2>1, <3>1 DEF ForkInv, LastVersion
    <3> QED
      BY Zenon, <1>5, <3>2
  <2>2. ASSUME NEW e \in gone, NEW d \in chain[e], d \in dumped PROVE FALSE
    BY Zenon, <1>5, <2>2 DEF ForkInv, Descendants
  <2> QED
    BY Zenon, <1>1, <1>2, <1>3, <1>5, <2>1, <2>2 DEF RemoverBanks
<1>11. Descendants'
  <2>1. ASSUME NEW e \in Banks, NEW d \in chain[e]
        PROVE  /\ InForks(d)' => InForks(e)' \/ e \in dumped'
               /\ d \in dumped' => e \in dumped'
               /\ bank'[d] \in {"dropped", "purged"} /\ SlotOf(d) \notin rooted' => bank'[e] \in {"dropped", "purged"}
    <3>1. d \in Banks /\ chain[d] \subseteq chain[e]
      BY Zenon, <1>0 DEF ForkInv, ChainShape
    <3> QED
      BY Zenon, <1>1, <1>5, <3>1 DEF ForkInv, Descendants
  <2> QED
    BY Zenon, <1>1, <2>1 DEF Descendants
<1>12. PrunedBanks'
  BY Zenon, <1>1, <1>2, <1>5 DEF ForkInv, PrunedBanks
<1>13. UnrootedAncestors'
  <2>1. ASSUME NEW e \in Banks, InForks(e), NEW d \in chain[e], SlotOf(d) > SlotOf(root)
        PROVE  InForks(d)' \/ d \in gone
    BY Zenon, <1>0, <1>4, <1>5, <2>1 DEF ForkInv, UnrootedAncestors
  <2> QED
    BY Zenon, <1>1, <1>3, <1>5, <2>1 DEF UnrootedAncestors
<1> QED
  BY Zenon, <1>6, <1>7, <1>8, <1>9, <1>10, <1>11, <1>12, <1>13 DEF ForkInv

\* A bank without references is dropped.
LEMMA DropFork ==
    ASSUME TypeOK, ForkInv, NEW b \in Banks, Drop(b)
    PROVE  ForkInv'
<1> USE DEF Used, InForks, SameSlot, Unannounced
<1>0. \A e \in Banks : chain[e] \subseteq Banks
  BY Zenon DEF TypeOK
<1>1. /\ bank[b] = "removed" /\ b \notin remover.banks
      /\ \A d \in Banks : d # b /\ b \in chain[d] /\ SlotOf(b) \notin rooted => bank[d] \in {"dropped", "purged"}
      /\ UNCHANGED <<chain, root, rooted, dumped, removedIds, remover>>
  BY Zenon DEF Drop, syncVars
<1>2. bank'[b] = "dropped" /\ \A e \in Banks : e # b => bank'[e] = bank[e]
  BY Zenon DEF Drop, TypeOK
<1>3. \A e \in Banks : Used(e)' = Used(e) /\ InForks(e)' = InForks(e)
  BY <1>1, <1>2
<1>4. ChainShape'
  BY <1>0, <1>1, <1>3 DEF ForkInv, ChainShape
<1>5. RootShape' /\ LastVersion' /\ UnrootedAncestors'
  <2>1. RootShape'
    BY Zenon, <1>1, <1>2, <1>3 DEF ForkInv, RootShape
  <2>2. LastVersion'
    BY Zenon, <1>1, <1>3 DEF ForkInv, LastVersion
  <2>3. UnrootedAncestors'
    BY Zenon, <1>0, <1>1, <1>3 DEF ForkInv, UnrootedAncestors
  <2> QED
    BY Zenon, <2>1, <2>2, <2>3
<1>6. DumpedBanks'
  BY ZenonT(60), <1>1, <1>2 DEF ForkInv, DumpedBanks, TypeOK
<1>7. RemoverBanks'
  <2>1. \A e \in remover.banks : e \in Banks /\ e # b /\ bank'[e] = bank[e]
    BY Zenon, <1>1, <1>2 DEF TypeOK
  <2> QED
    BY Zenon, <1>1, <1>3, <2>1 DEF ForkInv, RemoverBanks
<1>8. Descendants'
  <2>1. ASSUME NEW e \in Banks, NEW d \in chain[e]
        PROVE  /\ InForks(d)' => InForks(e)' \/ e \in dumped'
               /\ d \in dumped' => e \in dumped'
               /\ bank'[d] \in {"dropped", "purged"} /\ SlotOf(d) \notin rooted' => bank'[e] \in {"dropped", "purged"}
    <3>1. d \in Banks
      BY Zenon, <1>0
    <3>2. CASE d = b
      BY Zenon, <1>1, <1>2, <1>3, <3>1, <3>2 DEF ForkInv, Descendants
    <3>3. CASE d # b
      BY Zenon, <1>1, <1>2, <1>3, <3>1, <3>3 DEF ForkInv, Descendants
    <3> QED
      BY Zenon, <3>2, <3>3
  <2> QED
    BY Zenon, <1>1, <2>1 DEF Descendants
<1>9. PrunedBanks'
  BY Zenon, <1>1, <1>2 DEF ForkInv, PrunedBanks
<1> QED
  BY Zenon, <1>4, <1>5, <1>6, <1>7, <1>8, <1>9 DEF ForkInv

\* A dropped bank is forgotten, and so is its id.
LEMMA PurgeDroppedFork ==
    ASSUME TypeOK, ForkInv, NEW b \in Banks, PurgeDropped(b)
    PROVE  ForkInv'
<1> USE DEF Used, InForks, SameSlot, Unannounced
<1>0. \A e \in Banks : chain[e] \subseteq Banks
  BY Zenon DEF TypeOK
<1>1. /\ bank[b] = "dropped" /\ removedIds' = removedIds \ {b}
      /\ UNCHANGED <<chain, root, rooted, dumped, remover>>
  BY Zenon DEF PurgeDropped
<1>2. bank'[b] = "purged" /\ \A e \in Banks : e # b => bank'[e] = bank[e]
  BY Zenon DEF PurgeDropped, TypeOK
<1>3. \A e \in Banks : /\ Used(e)' = Used(e) /\ InForks(e)' = InForks(e)
                       /\ bank'[e] \in {"dropped", "purged"} <=> bank[e] \in {"dropped", "purged"}
  BY <1>1, <1>2
<1>4. ChainShape'
  BY <1>0, <1>1, <1>3 DEF ForkInv, ChainShape
<1>5. RootShape'
  BY Zenon, <1>1, <1>2, <1>3 DEF ForkInv, RootShape
<1>6. LastVersion'
  BY Zenon, <1>1, <1>3 DEF ForkInv, LastVersion
<1>7. DumpedBanks'
  BY Zenon, <1>1, <1>2 DEF ForkInv, DumpedBanks, TypeOK
<1>8. RemoverBanks'
  <2>1. \A e \in remover.banks : e \in Banks /\ e # b /\ bank'[e] = bank[e]
    BY Zenon, <1>1, <1>2 DEF TypeOK, ForkInv, RemoverBanks
  <2> QED
    BY Zenon, <1>1, <1>3, <2>1 DEF ForkInv, RemoverBanks
<1>9. Descendants'
  BY Zenon, <1>0, <1>1, <1>3 DEF ForkInv, Descendants
<1>10. PrunedBanks' /\ UnrootedAncestors'
  <2>1. PrunedBanks'
    BY Zenon, <1>1, <1>2 DEF ForkInv, PrunedBanks
  <2>2. UnrootedAncestors'
    BY Zenon, <1>0, <1>1, <1>3 DEF ForkInv, UnrootedAncestors
  <2> QED
    BY Zenon, <2>1, <2>2
<1> QED
  BY Zenon, <1>4, <1>5, <1>6, <1>7, <1>8, <1>9, <1>10 DEF ForkInv

\* A bank that is frozen stays in BankForks.
LEMMA FreezeFork ==
    ASSUME TypeOK, ForkInv, NEW b \in Banks, Freeze(b)
    PROVE  ForkInv'
<1> USE DEF Used, InForks, SameSlot, Unannounced
<1>0. \A e \in Banks : chain[e] \subseteq Banks
  BY Zenon DEF TypeOK
<1>1. /\ bank[b] = "open" /\ UNCHANGED <<chain, root, rooted, dumped, removedIds, remover>>
  BY Zenon DEF Freeze, syncVars
<1>2. bank'[b] = "frozen" /\ \A e \in Banks : e # b => bank'[e] = bank[e]
  BY Zenon DEF Freeze, TypeOK
<1>3. \A e \in Banks : /\ Used(e)' = Used(e) /\ InForks(e)' = InForks(e)
                       /\ bank'[e] \in {"dropped", "purged"} <=> bank[e] \in {"dropped", "purged"}
                       /\ bank'[e] = "removed" <=> bank[e] = "removed"
  BY <1>1, <1>2
<1>4. ChainShape'
  BY <1>0, <1>1, <1>3 DEF ForkInv, ChainShape
<1>5. RootShape'
  BY Zenon, <1>1, <1>2, <1>3 DEF ForkInv, RootShape
<1>6. LastVersion'
  BY Zenon, <1>1, <1>3 DEF ForkInv, LastVersion
<1>7. DumpedBanks'
  BY Zenon, <1>1, <1>2 DEF ForkInv, DumpedBanks, TypeOK
<1>8. RemoverBanks'
  <2>1. \A e \in remover.banks : e \in Banks /\ e # b /\ bank'[e] = bank[e]
    BY Zenon, <1>1, <1>2 DEF TypeOK, ForkInv, RemoverBanks
  <2> QED
    BY Zenon, <1>1, <1>3, <2>1 DEF ForkInv, RemoverBanks
<1>9. Descendants'
  BY Zenon, <1>0, <1>1, <1>3 DEF ForkInv, Descendants
<1>10. PrunedBanks' /\ UnrootedAncestors'
  <2>1. PrunedBanks'
    BY Zenon, <1>1, <1>3 DEF ForkInv, PrunedBanks
  <2>2. UnrootedAncestors'
    BY Zenon, <1>0, <1>1, <1>3 DEF ForkInv, UnrootedAncestors
  <2> QED
    BY Zenon, <2>1, <2>2
<1> QED
  BY Zenon, <1>4, <1>5, <1>6, <1>7, <1>8, <1>9, <1>10 DEF ForkInv

\* The banks of BankForks, their versions and their descendants.
LEMMA ForkStep == TypeOK /\ SyncInv /\ ForkInv /\ Next => ForkInv'
<1> SUFFICES ASSUME TypeOK, SyncInv, ForkInv, Next PROVE ForkInv'
  BY Zenon
<1>1. ASSUME UNCHANGED <<forkVars, removedIds, remover>> PROVE ForkInv'
  BY Zenon, <1>1, ForkFrame
<1>2. ASSUME Reserve PROVE ForkInv'
  <2>1. /\ UNCHANGED <<forkVars, removedIds>> /\ remover'.banks = remover.banks
        /\ remover.pc = "reserve" /\ remover'.pc \in {"reserve", "mark"}
    BY Zenon, <1>2 DEF Reserve, TypeOK
  <2> QED
    BY <2>1, ForkFrame
<1>3. ASSUME NEW s \in Slots, PurgeLook(s) \/ PurgeSlot(s) PROVE ForkInv'
  <2>1. /\ UNCHANGED <<forkVars, removedIds>> /\ remover'.banks = remover.banks
        /\ remover.pc \in {"look", "purge"} /\ remover'.pc \in {"look", "purge", "end"}
    BY ZenonT(60), <1>3 DEF PurgeLook, PurgeSlot, TypeOK, syncVars
  <2> QED
    BY <2>1, ForkFrame
<1>4. ASSUME FlushNotify PROVE ForkInv'
  <2>1. UNCHANGED <<forkVars, removedIds>> /\ remover'.banks = remover.banks /\ remover'.pc = remover.pc
    BY Zenon, <1>4 DEF FlushNotify, TypeOK, syncVars
  <2> QED
    BY Zenon, <2>1, ForkFrame
<1>5. ASSUME MarkRemoved PROVE ForkInv'
  <2>1. /\ UNCHANGED forkVars /\ removedIds' = removedIds \cup remover.banks
        /\ remover'.banks = remover.banks /\ remover.pc = "mark" /\ remover'.pc = "look"
    BY Zenon, <1>5 DEF MarkRemoved, TypeOK
  <2>2. DumpedBanks' /\ RemoverBanks'
    BY Zenon, <2>1 DEF ForkInv, DumpedBanks, RemoverBanks, Unannounced, forkVars, Used,
       SameSlot
  <2>3. ChainShape' /\ RootShape' /\ LastVersion'
    BY <2>1 DEF ForkInv, ChainShape, RootShape, LastVersion, forkVars, Used, SameSlot,
       InForks
  <2>4. Descendants' /\ PrunedBanks' /\ UnrootedAncestors'
    BY Zenon, <2>1 DEF ForkInv, Descendants, PrunedBanks, UnrootedAncestors, forkVars,
       InForks
  <2> QED
    BY Zenon, <2>2, <2>3, <2>4 DEF ForkInv
<1>6. ASSUME RemoveEnd PROVE ForkInv'
  <2>1. /\ UNCHANGED <<forkVars, removedIds>> /\ remover'.banks = {} /\ remover.pc = "end" /\ remover'.pc = "idle"
    BY Zenon, <1>6 DEF RemoveEnd, IdleRemover
  <2>2. DumpedBanks' /\ RemoverBanks'
    BY Zenon, <2>1 DEF ForkInv, DumpedBanks, RemoverBanks, Unannounced, forkVars
  <2>3. ChainShape' /\ RootShape' /\ LastVersion'
    BY <2>1 DEF ForkInv, ChainShape, RootShape, LastVersion, forkVars, Used, SameSlot,
       InForks
  <2>4. Descendants' /\ PrunedBanks'
    BY Zenon, <2>1 DEF ForkInv, Descendants, PrunedBanks, forkVars, InForks
  <2>5. UnrootedAncestors'
    <3>1. ASSUME NEW b \in Banks, InForks(b), NEW d \in chain[b], SlotOf(d) > SlotOf(root) PROVE InForks(d)
      <4>1. InForks(d) \/ d \in remover.banks
        BY Zenon, <3>1 DEF ForkInv, UnrootedAncestors
      <4>2. d \notin dumped
        BY Zenon, <3>1 DEF ForkInv, Descendants, DumpedBanks, InForks
      <4> QED
        BY Zenon, <4>1, <4>2 DEF ForkInv, RemoverBanks
    <3> QED
      BY Zenon, <2>1, <3>1 DEF UnrootedAncestors, forkVars, InForks
  <2> QED
    BY Zenon, <2>2, <2>3, <2>4, <2>5 DEF ForkInv
<1>7. ASSUME NEW b \in Banks, NEW p \in Banks \cup {Genesis}, NewBank(b, p) PROVE ForkInv'
  BY Zenon, <1>7, NewBankFork
<1>8. ASSUME NEW b \in Banks, Freeze(b) \/ SetRoot(b) \/ Drop(b) \/ RemoveStart(b) \/ PurgeDropped(b) PROVE ForkInv'
  BY Zenon, <1>8, FreezeFork, SetRootFork, DropFork, RemoveStartFork, PurgeDroppedFork
<1>9. ASSUME NEW b \in Banks, Write(b) PROVE UNCHANGED <<forkVars, removedIds, remover>>
  BY Zenon, <1>9 DEF Write, syncVars
<1>10. ASSUME FlushRoots \/ FlushExcess \/ FlushLook \/ FlushWrite \/ FlushRemove \/ FlushRelease \/ FlushEnd
       PROVE  UNCHANGED <<forkVars, removedIds, remover>>
  BY Zenon, <1>10 DEF FlushRoots, FlushExcess, FlushLook, FlushWrite, FlushRemove,
     FlushRelease, FlushEnd, syncVars
<1>11. ASSUME NEW s \in Slots, FlushEnter(s) PROVE UNCHANGED <<forkVars, removedIds, remover>>
  BY Zenon, <1>11 DEF FlushEnter
<1>12. ASSUME NEW c \in Scanners, ScanStep(c) PROVE UNCHANGED <<forkVars, removedIds, remover>>
  BY Zenon, <1>12, ScanStepState DEF syncVars
<1> QED
  BY Zenon, <1>1, <1>2, <1>3, <1>4, <1>5, <1>6, <1>7, <1>8, <1>9, <1>10, <1>11, <1>12 DEF
     Next, ReplayStep, RemoveStep, AbsStep, FlushStep

-----------------------------------------------------------------------------
(* The accounts of the banks, and the scans.                               *)

\* The slot of a dropped bank that was not dumped belongs to no other bank.
LEMMA PurgedSlotIsOwn ==
    ASSUME TypeOK, ForkInv, NEW b \in Banks, bank[b] = "dropped", b \notin removedIds,
           NEW d \in Banks, SameSlot(b, d), Used(d), d # b
    PROVE  ~InForks(d) /\ d \notin remover.banks /\ d \in dumped
<1>1. b \notin dumped /\ Used(b)
  BY Zenon DEF ForkInv, DumpedBanks, Used
<1>2. VersionOf(b) \in Nat /\ VersionOf(d) \in Nat /\ VersionOf(b) # VersionOf(d)
  BY Zenon, BankFacts DEF SameSlot
<1>3. ~(VersionOf(b) < VersionOf(d))
  BY Zenon, <1>1 DEF ForkInv, LastVersion, SameSlot
<1>4. VersionOf(d) < VersionOf(b)
  BY <1>2, <1>3
<1>5. d \in dumped
  BY Zenon, <1>1, <1>4 DEF ForkInv, LastVersion
<1>6. ~InForks(d)
  BY Zenon, <1>5 DEF ForkInv, DumpedBanks, InForks
<1>7. d \notin remover.banks
  <2>1. VersionOf(b) > VersionOf(d) /\ SameSlot(d, b)
    BY Zenon, <1>2, <1>4 DEF SameSlot
  <2> QED
    BY Zenon, <1>1, <2>1 DEF ForkInv, RemoverBanks
<1> QED
  BY Zenon, <1>5, <1>6, <1>7

\* The slots a dump removes have no bank in BankForks.
LEMMA RemovedSlotIsEmpty ==
    ASSUME TypeOK, ForkInv, NEW d \in Banks, SlotOf(d) \in SlotsOf(remover.banks)
    PROVE  ~InForks(d) /\ (d \in dumped \/ ~Used(d))
<1>1. PICK e \in remover.banks : SlotOf(e) = SlotOf(d)
  BY Zenon DEF SlotsOf
<1>2. e \in Banks /\ bank[e] = "removed" /\ e \in dumped
  BY Zenon DEF TypeOK, ForkInv, RemoverBanks
<1>3. VersionOf(e) \in Nat /\ VersionOf(d) \in Nat
  BY Zenon, <1>2, BankFacts
<1>4. CASE VersionOf(d) > VersionOf(e)
  BY Zenon, <1>1, <1>2, <1>4 DEF ForkInv, RemoverBanks, SameSlot, Used, InForks
<1>5. CASE VersionOf(d) < VersionOf(e)
  <2>1. d \in dumped
    BY Zenon, <1>1, <1>2, <1>5 DEF ForkInv, LastVersion, SameSlot, Used
  <2> QED
    BY Zenon, <2>1 DEF ForkInv, DumpedBanks, InForks
<1>6. CASE VersionOf(d) = VersionOf(e)
  <2>1. d = e
    BY Zenon, <1>1, <1>2, <1>6, BankFacts
  <2> QED
    BY Zenon, <1>2, <2>1 DEF InForks
<1> QED
  BY <1>3, <1>4, <1>5, <1>6

\* A slot that is about to be replayed has no write cache.
LEMMA NewSlotHasNoCache ==
    ASSUME TypeOK, SyncInv, ForkInv, DataInv, NEW b \in Banks, NEW p \in Banks \cup {Genesis}, NewBank(b, p)
    PROVE  cache[SlotOf(b)] = {}
<1> SUFFICES ASSUME cache[SlotOf(b)] # {} PROVE FALSE
  BY Zenon
<1>1. SlotOf(b) \in Slots /\ remover.banks = {}
  BY Zenon, BankFacts DEF NewBank, SyncInv, RemoverShape
<1>2. PICK d \in Banks : SlotOf(d) = SlotOf(b) /\ Used(d) /\ d \notin dumped
  BY Zenon, <1>1 DEF DataInv, CacheHasBank
<1>3. VersionOf(b) \in Nat /\ VersionOf(d) \in Nat
  BY Zenon, BankFacts
<1>4. d # b /\ ~(VersionOf(d) < VersionOf(b))
  BY Zenon, <1>2 DEF NewBank, Used
<1>5. VersionOf(d) > VersionOf(b)
  BY <1>2, <1>3, <1>4, BankFacts
<1>6. b \in dumped
  BY Zenon, <1>2, <1>3, <1>5 DEF ForkInv, LastVersion, SameSlot
<1> QED
  BY Zenon, <1>6 DEF NewBank, ForkInv, ChainShape, Used

\* A bank stores accounts in the cache of its slot.
LEMMA StoreData ==
    ASSUME TypeOK, SyncInv, ForkInv, DataInv, NEW b \in Banks,
           (\E p \in Banks \cup {Genesis} : NewBank(b, p)) \/ Write(b)
    PROVE  DataInv'
<1>1. /\ cache' = [cache EXCEPT ![SlotOf(b)] = @ \cup {VersionOf(b)}]
      /\ UNCHANGED <<storage, dumped, remover, flusher, failed>>
      /\ remover.pc = "idle"
  BY Zenon DEF NewBank, Write, Store, forkVars
<1>2. SlotOf(b) \in Slots
  BY Zenon, BankFacts
<1>3. /\ cache'[SlotOf(b)] = cache[SlotOf(b)] \cup {VersionOf(b)}
      /\ \A s \in Slots : s # SlotOf(b) => cache'[s] = cache[s]
  BY Zenon, <1>1, <1>2 DEF TypeOK
<1>4. /\ bank'[b] = "open" /\ b \notin dumped
      /\ \A e \in Banks : e # b => bank'[e] = bank[e]
  <2>1. b \in dumped => bank[b] \in {"removed", "dropped", "purged"}
    BY Zenon DEF ForkInv, DumpedBanks
  <2>2. CASE \E p \in Banks \cup {Genesis} : NewBank(b, p)
    BY ZenonT(60), <2>1, <2>2 DEF NewBank, TypeOK
  <2>3. CASE Write(b)
    BY Zenon, <2>1, <2>3 DEF Write, forkVars
  <2> QED
    BY Zenon, <2>2, <2>3
<1>5. remover.banks = {}
  BY Zenon, <1>1 DEF SyncInv, RemoverShape
<1>6. KeepsAccounts'
  <2>1. ASSUME NEW e \in Banks, InForks(e)' PROVE Present(e)'
    <3>1. CASE e = b
      BY Zenon, <1>3, <3>1 DEF Present
    <3>2. CASE e # b
      <4>1. Present(e) /\ SlotOf(e) \in Slots
        BY Zenon, <1>4, <2>1, <3>2, BankFacts DEF DataInv, KeepsAccounts, InForks
      <4> QED
        BY Zenon, <1>1, <1>3, <4>1 DEF Present
    <3> QED
      BY Zenon, <3>1, <3>2
  <2> QED
    BY Zenon, <1>1, <1>5, <2>1 DEF KeepsAccounts, Unannounced
<1>7. CacheHasBank'
  <2>1. ASSUME NEW s \in Slots, cache'[s] # {}
        PROVE  \E e \in Banks : SlotOf(e) = s /\ Used(e)' /\ e \notin dumped'
    <3>1. CASE s = SlotOf(b)
      BY Zenon, <1>1, <1>4, <3>1 DEF Used
    <3>2. CASE s # SlotOf(b)
      BY Zenon, <1>1, <1>3, <1>4, <1>5, <2>1, <3>2 DEF DataInv, CacheHasBank, Used
    <3> QED
      BY Zenon, <3>1, <3>2
  <2> QED
    BY Zenon, <2>1 DEF CacheHasBank
<1>8. FlushedCache'
  <2>1. CASE flusher.pc \notin {"write", "remove"}
    BY Zenon, <1>1, <2>1 DEF FlushedCache
  <2>2. CASE flusher.pc \in {"write", "remove"} /\ flusher.slot # SlotOf(b)
    BY ZenonT(60), <1>1, <1>3, <2>2 DEF FlushedCache, DataInv, TypeOK, Running
  <2>3. CASE flusher.pc \in {"write", "remove"} /\ flusher.slot = SlotOf(b)
    <3>1. cache[SlotOf(b)] # {}
      BY Zenon, <2>3 DEF DataInv, FlushedCache
    <3>2. Write(b)
      BY Zenon, <3>1, NewSlotHasNoCache
    <3>3. VersionOf(b) \in cache[SlotOf(b)] \cup storage[SlotOf(b)]
      BY Zenon, <3>2 DEF Write, InForks, DataInv, KeepsAccounts, Present
    <3> QED
      BY Zenon, <1>1, <1>3, <2>3, <3>3 DEF FlushedCache, DataInv, Running
  <2> QED
    BY Zenon, <2>1, <2>2, <2>3
<1>9. PurgedCache'
  BY Zenon, <1>1 DEF PurgedCache
<1> QED
  BY Zenon, <1>6, <1>7, <1>8, <1>9 DEF DataInv

\* The dump purges slots that no bank of BankForks uses and nobody flushes.
LEMMA PurgeSlotData ==
    ASSUME TypeOK, SyncInv, ForkInv, DataInv, NEW t \in Slots, PurgeSlot(t)
    PROVE  DataInv'
<1>1. /\ remover.pc = "purge" /\ remover.waitFor = {t}
      /\ UNCHANGED <<forkVars, flusher>>
      /\ remover' = [remover EXCEPT !.waitFor = {}, !.todo = @ \ {t},
                                    !.pc = IF remover.todo = {t} THEN "end" ELSE "look"]
      /\ failed \subseteq failed'
      /\ IF remover.cached THEN cache' = [cache EXCEPT ![t] = {}] /\ storage' = storage
                           ELSE storage' = [storage EXCEPT ![t] = {}] /\ cache' = cache
  BY Zenon DEF PurgeSlot, RemoveCache, RemoveStorage
<1>2. /\ remover'.pc \in {"look", "end"} /\ remover'.todo = remover.todo \ {t} /\ remover'.banks = remover.banks
  BY Zenon, <1>1 DEF TypeOK
<1>3. t \in remover.todo /\ t \in SlotsOf(remover.banks) /\ t \in Reserved
  BY Zenon, <1>1 DEF SyncInv, RemoverShape, Reserved
<1>4. cache'[t] = {} /\ \A x \in Slots : x # t => cache'[x] = cache[x] /\ storage'[x] = storage[x]
  BY ZenonT(60), <1>1 DEF TypeOK, DataInv, PurgedCache
<1>5. flusher.pc \in {"write", "remove"} => flusher.slot # t /\ flusher.slot \in Slots
  BY Zenon, <1>3 DEF SyncInv, SlotsExclusive, Flushing, TypeOK
<1>6. KeepsAccounts'
  <2>1. ASSUME NEW e \in Banks, InForks(e) PROVE Present(e)'
    <3>1. SlotOf(e) # t /\ SlotOf(e) \in Slots
      BY Zenon, <1>3, <2>1, RemovedSlotIsEmpty, BankFacts
    <3> QED
      BY Zenon, <1>4, <2>1, <3>1 DEF DataInv, KeepsAccounts, Present
  <2> QED
    BY Zenon, <1>1, <1>2, <2>1 DEF KeepsAccounts, Unannounced, InForks, forkVars
<1>7. CacheHasBank'
  <2>1. ASSUME NEW x \in Slots, cache'[x] # {}
        PROVE  \E b \in Banks : /\ SlotOf(b) = x /\ Used(b)
                                /\ b \notin dumped \/ (b \in remover'.banks /\ x \in remover'.todo)
    <3>1. x # t /\ cache[x] # {}
      BY Zenon, <1>4, <2>1
    <3> QED
      BY Zenon, <1>1, <1>2, <3>1 DEF DataInv, CacheHasBank
  <2>2. dumped' = dumped /\ \A b \in Banks : Used(b) => Used(b)'
    BY Zenon, <1>1 DEF forkVars, Used
  <2>3. ASSUME NEW x \in Slots, cache'[x] # {}
        PROVE  \E b \in Banks : /\ SlotOf(b) = x /\ Used(b)'
                                /\ b \notin dumped' \/ (b \in remover'.banks /\ (remover'.pc \in {"reserve", "mark"} \/ x \in remover'.todo))
    BY Zenon, <2>1, <2>2, <2>3
  <2> QED
    BY Zenon, <2>3 DEF CacheHasBank
<1>8. FlushedCache'
  BY Zenon, <1>1, <1>4, <1>5 DEF FlushedCache, DataInv, Running
<1>9. PurgedCache'
  BY Zenon, <1>2 DEF PurgedCache
<1> QED
  BY Zenon, <1>6, <1>7, <1>8, <1>9 DEF DataInv

\* purge_slot of a dropped bank leaves the accounts of every other bank alone.
LEMMA PurgeDroppedData ==
    ASSUME TypeOK, SyncInv, ForkInv, DataInv, NEW b \in Banks, PurgeDropped(b)
    PROVE  DataInv'
<1>1. /\ bank[b] = "dropped" /\ flusher.pc = "idle"
      /\ UNCHANGED <<dumped, remover, flusher>>
      /\ \/ UNCHANGED <<cache, storage>>
         \/ b \notin removedIds /\ cache' = [cache EXCEPT ![SlotOf(b)] = {}] /\ storage' = storage
         \/ b \notin removedIds /\ cache[SlotOf(b)] = {} /\ cache' = cache /\ storage' = [storage EXCEPT ![SlotOf(b)] = {}]
  BY Zenon DEF PurgeDropped, RemoveCache, RemoveStorage
<1>2. bank'[b] = "purged" /\ \A e \in Banks : e # b => bank'[e] = bank[e]
  BY Zenon DEF PurgeDropped, TypeOK
<1>3. SlotOf(b) \in Slots
  BY Zenon, BankFacts
<1>4. \A x \in Slots : x # SlotOf(b) => cache'[x] = cache[x] /\ storage'[x] = storage[x]
  BY ZenonT(40), <1>1, <1>3 DEF TypeOK
<1>5. UNCHANGED <<cache, storage>> \/ (b \notin removedIds /\ cache'[SlotOf(b)] = {})
  BY Zenon, <1>1, <1>3 DEF TypeOK
<1>6. KeepsAccounts'
  <2>1. ASSUME NEW e \in Banks, InForks(e)' \/ Unannounced(e)' PROVE Present(e)'
    <3>1. e # b /\ Used(e) /\ (InForks(e) \/ Unannounced(e))
      BY Zenon, <1>1, <1>2, <2>1 DEF InForks, Unannounced, Used, ForkInv, RemoverBanks
    <3>2. Present(e) /\ SlotOf(e) \in Slots
      BY Zenon, <3>1, BankFacts DEF DataInv, KeepsAccounts
    <3>3. UNCHANGED <<cache, storage>> \/ SlotOf(e) # SlotOf(b)
      BY Zenon, <1>1, <1>5, <3>1, PurgedSlotIsOwn DEF SameSlot, Unannounced
    <3> QED
      BY Zenon, <1>4, <3>2, <3>3 DEF Present
  <2> QED
    BY Zenon, <2>1 DEF KeepsAccounts
<1>7. CacheHasBank'
  <2>1. ASSUME NEW x \in Slots, cache'[x] # {} PROVE cache[x] # {}
    BY Zenon, <1>4, <1>5, <2>1
  <2>2. \A e \in Banks : Used(e) => Used(e)'
    BY Zenon, <1>2 DEF Used
  <2> QED
    BY Zenon, <1>1, <2>1, <2>2 DEF DataInv, CacheHasBank
<1>8. FlushedCache'
  BY Zenon, <1>1 DEF FlushedCache
<1>9. PurgedCache'
  <2>1. ASSUME remover.pc = "purge", NEW s \in remover.waitFor PROVE remover.cached = (cache'[s] # {})
    <3>1. s \in SlotsOf(remover.banks) /\ s \in Slots
      BY ZenonT(60), <2>1 DEF SyncInv, RemoverShape, TypeOK
    <3>2. PICK e \in remover.banks : SlotOf(e) = s
      BY Zenon, <3>1 DEF SlotsOf
    <3>3. e \in Banks /\ e # b /\ Used(e)
      BY Zenon, <1>1 DEF TypeOK, ForkInv, RemoverBanks, Used
    <3>4. UNCHANGED <<cache, storage>> \/ s # SlotOf(b)
      BY Zenon, <1>1, <1>5, <3>2, <3>3, PurgedSlotIsOwn DEF SameSlot
    <3> QED
      BY Zenon, <1>4, <2>1, <3>1, <3>4 DEF DataInv, PurgedCache
  <2> QED
    BY Zenon, <1>1, <2>1 DEF PurgedCache
<1> QED
  BY Zenon, <1>6, <1>7, <1>8, <1>9 DEF DataInv

\* Freezing, rooting and dropping a bank touch no account.
LEMMA BankData ==
    ASSUME TypeOK, DataInv, NEW b \in Banks, Freeze(b) \/ SetRoot(b) \/ Drop(b)
    PROVE  DataInv'
<1>1. UNCHANGED <<cache, storage, dumped, remover, flusher, failed>>
  BY Zenon DEF Freeze, SetRoot, Drop, dataVars
<1>2. \A e \in Banks : (InForks(e)' => InForks(e)) /\ (Used(e) => Used(e)')
  <2>1. CASE Freeze(b)
    BY Zenon, <2>1 DEF Freeze, TypeOK, InForks, Used
  <2>2. CASE SetRoot(b)
    BY Zenon, <2>2 DEF SetRoot, TypeOK, InForks, Used
  <2>3. CASE Drop(b)
    BY Zenon, <2>3 DEF Drop, TypeOK, InForks, Used
  <2> QED
    BY Zenon, <2>1, <2>2, <2>3
<1>3. KeepsAccounts'
  BY Zenon, <1>1, <1>2 DEF DataInv, KeepsAccounts, Unannounced, Present
<1>4. CacheHasBank'
  BY Zenon, <1>1, <1>2 DEF DataInv, CacheHasBank
<1> QED
  BY Zenon, <1>1, <1>3, <1>4 DEF DataInv, FlushedCache, PurgedCache, Running

\* The banks a dump takes from BankForks keep their accounts for now.
LEMMA RemoveStartData ==
    ASSUME TypeOK, SyncInv, DataInv, NEW d \in Banks, RemoveStart(d)
    PROVE  DataInv'
<1>1. PICK gone : /\ gone = {b \in Banks : InForks(b) /\ d \in chain[b]}
                  /\ bank' = [b \in Banks |-> IF b \in gone THEN "removed" ELSE bank[b]]
                  /\ dumped' = dumped \cup gone
                  /\ remover'.pc = "reserve" /\ remover'.banks = gone
  BY Zenon DEF RemoveStart, IdleRemover
<1>2. UNCHANGED <<cache, storage, flusher>> /\ failed \subseteq failed' /\ remover.banks = {}
  BY Zenon DEF RemoveStart, dataVars, SyncInv, RemoverShape
<1>3. \A e \in Banks : /\ InForks(e)' \/ e \in gone => InForks(e)
                       /\ Used(e) => Used(e)'
  BY Zenon, <1>1 DEF InForks, Used
<1>4. KeepsAccounts'
  BY Zenon, <1>1, <1>2, <1>3 DEF DataInv, KeepsAccounts, Unannounced, Present
<1>5. CacheHasBank'
  BY Zenon, <1>1, <1>2, <1>3 DEF DataInv, CacheHasBank
<1>6. FlushedCache'
  BY Zenon, <1>2 DEF DataInv, FlushedCache, Running
<1> QED
  BY Zenon, <1>1, <1>4, <1>5, <1>6 DEF DataInv, PurgedCache

\* The steps of the dump that remove nothing.
LEMMA RemoverData ==
    ASSUME TypeOK, SyncInv, DataInv,
           Reserve \/ MarkRemoved \/ RemoveEnd \/ FlushNotify \/ \E s \in Slots : PurgeLook(s)
    PROVE  DataInv'
<1>1. UNCHANGED <<cache, storage, bank, dumped>> /\ failed \subseteq failed'
  BY Zenon DEF Reserve, MarkRemoved, RemoveEnd, FlushNotify, PurgeLook, dataVars, forkVars
<1>2. flusher' = flusher \/ flusher'.pc = "next"
  BY Zenon DEF Reserve, MarkRemoved, RemoveEnd, FlushNotify, PurgeLook, TypeOK
<1>3. FlushedCache'
  BY Zenon, <1>1, <1>2 DEF DataInv, FlushedCache, Running
<1>4. \A e \in Banks : Unannounced(e)' => Unannounced(e)
  <2>1. CASE Reserve
    BY Zenon, <2>1 DEF Reserve, Unannounced, TypeOK
  <2>2. CASE MarkRemoved
    BY Zenon, <2>2 DEF MarkRemoved, Unannounced, TypeOK
  <2>3. CASE RemoveEnd
    BY Zenon, <2>3 DEF RemoveEnd, IdleRemover, Unannounced
  <2>4. CASE FlushNotify
    BY Zenon, <2>4 DEF FlushNotify, Unannounced, TypeOK
  <2>5. CASE \E s \in Slots : PurgeLook(s)
    BY Zenon, <2>5 DEF PurgeLook, Unannounced, TypeOK
  <2> QED
    BY Zenon, <2>1, <2>2, <2>3, <2>4, <2>5
<1>5. KeepsAccounts'
  BY Zenon, <1>1, <1>4 DEF DataInv, KeepsAccounts, Present, InForks
<1>6. CacheHasBank'
  <2>1. ASSUME NEW s \in Slots, NEW e \in remover.banks, SlotOf(e) = s,
               remover.pc \in {"reserve", "mark"} \/ s \in remover.todo
        PROVE  e \in remover'.banks /\ (remover'.pc \in {"reserve", "mark"} \/ s \in remover'.todo)
    <3>1. CASE Reserve
      BY Zenon, <2>1, <3>1 DEF Reserve, TypeOK
    <3>2. CASE MarkRemoved
      BY Zenon, <2>1, <3>2 DEF MarkRemoved, TypeOK, SlotsOf
    <3>3. CASE RemoveEnd
      BY Zenon, <2>1, <3>3 DEF RemoveEnd, SyncInv, RemoverShape
    <3>4. CASE FlushNotify
      BY Zenon, <2>1, <3>4 DEF FlushNotify, TypeOK
    <3>5. CASE \E x \in Slots : PurgeLook(x)
      BY ZenonT(60), <2>1, <3>5 DEF PurgeLook, TypeOK
    <3> QED
      BY Zenon, <3>1, <3>2, <3>3, <3>4, <3>5
  <2> QED
    BY Zenon, <1>1, <2>1 DEF DataInv, CacheHasBank, Used
<1>7. PurgedCache'
  <2>1. CASE FlushNotify
    <3>1. remover'.pc = remover.pc /\ remover'.waitFor = remover.waitFor /\ remover'.cached = remover.cached
      BY Zenon, <2>1 DEF FlushNotify, TypeOK
    <3> QED
      BY Zenon, <1>1, <3>1 DEF DataInv, PurgedCache
  <2>2. CASE Reserve \/ MarkRemoved \/ RemoveEnd
    <3>1. Reserve => remover'.pc \in {"mark", "reserve"}
      BY Zenon DEF Reserve, TypeOK
    <3>2. MarkRemoved => remover'.pc = "look"
      BY Zenon DEF MarkRemoved, TypeOK
    <3>3. RemoveEnd => remover' = IdleRemover
      BY Zenon DEF RemoveEnd
    <3> QED
      BY <2>2, <3>1, <3>2, <3>3 DEF PurgedCache, IdleRemover
  <2>3. ASSUME NEW s \in Slots, PurgeLook(s) PROVE PurgedCache'
    <3>1. remover'.waitFor = {s} /\ remover'.cached = (cache[s] # {})
      BY Zenon, <2>3 DEF PurgeLook, TypeOK
    <3> QED
      BY Zenon, <1>1, <3>1 DEF PurgedCache
  <2> QED
    BY Zenon, <2>1, <2>2, <2>3
<1> QED
  BY Zenon, <1>3, <1>5, <1>6, <1>7 DEF DataInv

\* A flush loses no account of the slot.
LEMMA FlushKeeps ==
    ASSUME TypeOK, DataInv, FlushLook \/ FlushWrite \/ FlushRemove
    PROVE  \A x \in Slots : /\ x # flusher.slot => cache'[x] = cache[x]
                            /\ cache'[x] \subseteq cache[x]
                            /\ cache[x] \cup storage[x] \subseteq cache'[x] \cup storage'[x]
<1>1. CASE FlushLook
  BY Zenon, <1>1 DEF FlushLook, dataVars
<1>2. CASE FlushWrite
  BY ZenonT(40), <1>2 DEF FlushWrite, TypeOK
<1>3. CASE FlushRemove
  <2>1. cache[flusher.slot] \subseteq storage[flusher.slot]
    BY Zenon, <1>3 DEF FlushRemove, DataInv, FlushedCache
  <2> QED
    BY Zenon, <1>3, <2>1 DEF FlushRemove, RemoveCache, TypeOK
<1> QED
  BY Zenon, <1>1, <1>2, <1>3

\* A flush moves the accounts of a slot from its cache to its store.
LEMMA FlushData ==
    ASSUME TypeOK, SyncInv, DataInv, FlushLook \/ FlushWrite \/ FlushRemove
    PROVE  DataInv'
<1>1. UNCHANGED <<bank, dumped, remover>> /\ flusher.slot \in Slots /\ flusher'.slot = flusher.slot
  BY Zenon DEF FlushLook, FlushWrite, FlushRemove, forkVars, TypeOK
<1>2. remover.pc = "purge" => flusher.slot \notin remover.waitFor
  BY Zenon DEF SyncInv, SlotsExclusive, RemoverShape, Flushing, Reserved, FlushLook,
     FlushWrite, FlushRemove
<1>3. \A x \in Slots : /\ x # flusher.slot => cache'[x] = cache[x]
                       /\ cache'[x] \subseteq cache[x]
                       /\ cache[x] \cup storage[x] \subseteq cache'[x] \cup storage'[x]
  BY Zenon, FlushKeeps
<1>4. KeepsAccounts'
  <2>1. ASSUME NEW e \in Banks, InForks(e) \/ Unannounced(e) PROVE Present(e)'
    BY Zenon, <1>3, <2>1, BankFacts DEF DataInv, KeepsAccounts, Present
  <2> QED
    BY Zenon, <1>1, <2>1 DEF KeepsAccounts, InForks, Unannounced
<1>5. CacheHasBank'
  <2>1. \A x \in Slots : cache'[x] # {} => cache[x] # {}
    BY Zenon, <1>3
  <2> QED
    BY Zenon, <1>1, <2>1 DEF DataInv, CacheHasBank, Used
<1>6. PurgedCache'
  BY ZenonT(60), <1>1, <1>2, <1>3 DEF DataInv, PurgedCache, TypeOK
<1>7. FlushedCache'
  <2>1. CASE FlushLook
    <3>1. /\ cache' = cache
          /\ flusher'.items = cache[flusher.slot]
          /\ flusher'.pc = IF cache[flusher.slot] = {} THEN "release" ELSE "write"
      BY Zenon, <2>1 DEF FlushLook, TypeOK, dataVars
    <3> QED
      BY Zenon, <1>1, <3>1 DEF FlushedCache
  <2>2. CASE FlushWrite
    <3>1. /\ flusher.pc = "write" /\ cache' = cache /\ flusher'.pc = "remove"
          /\ storage[flusher.slot] = {} => storage'[flusher.slot] = flusher.items
          /\ storage[flusher.slot] # {} => "slot has a store" \in failed'
      BY Zenon, <1>1, <2>2 DEF FlushWrite, TypeOK
    <3> QED
      BY Zenon, <1>1, <3>1 DEF DataInv, FlushedCache, Running
  <2>3. CASE FlushRemove
    <3>1. flusher'.pc = "release"
      BY Zenon, <2>3 DEF FlushRemove, TypeOK
    <3> QED
      BY Zenon, <3>1 DEF FlushedCache
  <2> QED
    BY Zenon, <2>1, <2>2, <2>3
<1> QED
  BY Zenon, <1>4, <1>5, <1>6, <1>7 DEF DataInv

\* The steps that change neither banks nor accounts.
LEMMA DataFrame ==
    ASSUME DataInv, UNCHANGED <<bank, dumped, cache, storage, remover>>, failed \subseteq failed',
           flusher' = flusher \/ flusher'.pc \notin {"write", "remove"}
    PROVE  DataInv'
<1>1. FlushedCache'
  BY Zenon DEF DataInv, FlushedCache, Running
<1>2. KeepsAccounts' /\ PurgedCache'
  BY Zenon DEF DataInv, KeepsAccounts, PurgedCache, InForks, Unannounced, Present
<1>3. CacheHasBank'
  BY Zenon DEF DataInv, CacheHasBank, Used
<1> QED
  BY Zenon, <1>1, <1>2, <1>3 DEF DataInv

\* Every step keeps the accounts where the banks expect them.
LEMMA DataStep == TypeOK /\ SyncInv /\ ForkInv /\ DataInv /\ [Next]_vars => DataInv'
<1> SUFFICES ASSUME TypeOK, SyncInv, ForkInv, DataInv, [Next]_vars PROVE DataInv'
  BY Zenon
<1>1. CASE ReplayStep
  BY Zenon, <1>1, StoreData, BankData, RemoveStartData DEF ReplayStep
<1>2. CASE RemoveStep
  BY Zenon, <1>2, RemoverData, PurgeSlotData DEF RemoveStep
<1>3. CASE AbsStep
  <2>1. CASE \E b \in Banks : PurgeDropped(b)
    BY Zenon, <2>1, PurgeDroppedData
  <2>2. CASE FlushLook \/ FlushWrite \/ FlushRemove \/ FlushNotify
    BY Zenon, <2>2, FlushData, RemoverData
  <2>3. CASE FlushRoots \/ FlushExcess \/ FlushRelease \/ FlushEnd
    <3>1. UNCHANGED <<bank, dumped, cache, storage, remover>> /\ failed \subseteq failed'
      BY Zenon, <2>3 DEF FlushRoots, FlushExcess, FlushRelease, FlushEnd, forkVars, dataVars
    <3>2. FlushRoots \/ FlushExcess => flusher'.pc = "next"
      BY Zenon DEF FlushRoots, FlushExcess, IdleFlusher
    <3>4. FlushEnd => flusher' = IdleFlusher
      BY Zenon DEF FlushEnd
    <3>3. FlushRelease => flusher'.pc = "notify"
      BY Zenon DEF FlushRelease, TypeOK
    <3> QED
      BY <2>3, <3>1, <3>2, <3>3, <3>4, DataFrame DEF IdleFlusher
  <2>4. ASSUME NEW s \in Slots, FlushEnter(s) PROVE DataInv'
    <3>1. UNCHANGED <<bank, dumped, cache, storage, remover, failed>>
      BY Zenon, <2>4 DEF FlushEnter, forkVars
    <3>2. flusher'.pc \in {"next", "look"}
      BY ZenonT(60), <2>4 DEF FlushEnter, TypeOK
    <3> QED
      BY Zenon, <3>1, <3>2, DataFrame
  <2> QED
    BY Zenon, <1>3, <2>1, <2>2, <2>3, <2>4 DEF AbsStep, FlushStep
<1>4. ASSUME NEW c \in Scanners, ScanStep(c) PROVE DataInv'
  BY Zenon, <1>4, ScanStepState, DataFrame DEF forkVars, dataVars
<1>5. CASE UNCHANGED vars
  BY Zenon, <1>5, DataFrame DEF vars, forkVars, dataVars
<1> QED
  BY Zenon, <1>1, <1>2, <1>3, <1>4, <1>5 DEF Next

-----------------------------------------------------------------------------
(* The assertions.                                                         *)

\* Only AccountStorage::insert can fail.
LEMMA AssertStep == TypeOK /\ SyncInv /\ ForkInv /\ DataInv /\ AssertionsHold /\ [Next]_vars => AssertionsHold'
<1> SUFFICES ASSUME TypeOK, SyncInv, ForkInv, DataInv, AssertionsHold, [Next]_vars PROVE AssertionsHold'
  BY Zenon
<1>1. ASSUME NEW d \in Banks, RemoveStart(d) PROVE failed' = failed
  <2>1. ASSUME NEW b \in Banks, InForks(b), d \in chain[b] PROVE SlotOf(b) \notin rooted
    <3>1. SlotOf(root) \in Nat /\ SlotOf(b) \in Nat /\ SlotOf(d) \in Nat
      BY Zenon, SlotIsNat DEF TypeOK
    <3>2. SlotOf(d) > SlotOf(root) /\ SlotOf(d) =< SlotOf(b)
      BY Zenon, <1>1, <2>1 DEF RemoveStart, ForkInv, ChainShape
    <3> QED
      BY <3>1, <3>2 DEF ForkInv, RootShape
  <2>2. SlotsOf({b \in Banks : InForks(b) /\ d \in chain[b]}) \cap rooted = {}
    BY Zenon, <2>1 DEF SlotsOf
  <2> QED
    BY Zenon, <1>1, <2>2 DEF RemoveStart
<1>2. ASSUME NEW t \in Slots, PurgeSlot(t) PROVE failed' = failed
  <2>1. remover.cached => cache[t] # {}
    BY Zenon, <1>2 DEF PurgeSlot, DataInv, PurgedCache
  <2> QED
    BY Zenon, <1>2, <2>1 DEF PurgeSlot
<1>3. ASSUME RemoveEnd PROVE failed' = failed
  <2>1. SlotsOf(remover.banks) \subseteq contended
    BY Zenon, <1>3 DEF RemoveEnd, SyncInv, SlotsExclusive, Reserved
  <2> QED
    BY Zenon, <1>3, <2>1 DEF RemoveEnd
<1>4. ASSUME FlushRemove PROVE failed' = failed
  BY Zenon, <1>4 DEF FlushRemove, DataInv, FlushedCache
<1>5. ASSUME FlushRelease PROVE failed' = failed
  <2>1. flusher.slot \in contended
    BY Zenon, <1>5 DEF FlushRelease, SyncInv, SlotsExclusive, Flushing
  <2> QED
    BY Zenon, <1>5, <2>1 DEF FlushRelease
<1>6. ASSUME FlushWrite PROVE failed' \subseteq failed \cup {"slot has a store"}
  BY Zenon, <1>6 DEF FlushWrite
<1>7. ASSUME NEW b \in Banks, NEW p \in Banks \cup {Genesis}, NewBank(b, p) PROVE failed' = failed
  BY Zenon, <1>7 DEF NewBank
<1>8. ASSUME NEW b \in Banks, Write(b) \/ Freeze(b) \/ SetRoot(b) \/ Drop(b) \/ PurgeDropped(b) PROVE failed' = failed
  BY Zenon, <1>8 DEF Write, Freeze, SetRoot, Drop, PurgeDropped
<1>9. ASSUME NEW t \in Slots, PurgeLook(t) \/ FlushEnter(t) PROVE failed' = failed
  BY Zenon, <1>9 DEF PurgeLook, FlushEnter
<1>10. ASSUME Reserve \/ MarkRemoved \/ FlushRoots \/ FlushExcess \/ FlushLook \/ FlushNotify \/ FlushEnd PROVE failed' = failed
  BY Zenon, <1>10 DEF Reserve, MarkRemoved, FlushRoots, FlushExcess, FlushLook, FlushNotify,
     FlushEnd
<1>11. ASSUME NEW c \in Scanners, ScanStep(c) PROVE failed' = failed
  BY Zenon, <1>11, ScanStepState
<1>12. ASSUME UNCHANGED vars PROVE failed' = failed
  BY Zenon, <1>12 DEF vars
<1>13. failed' \subseteq failed \cup {"slot has a store"}
  BY Zenon, <1>1, <1>2, <1>3, <1>4, <1>5, <1>6, <1>7, <1>8, <1>9, <1>10, <1>11, <1>12 DEF
     Next, ReplayStep, RemoveStep, AbsStep, FlushStep
<1> QED
  BY Zenon, <1>13 DEF AssertionsHold

-----------------------------------------------------------------------------
(* Scans.                                                                  *)

\* What the steps of other threads leave a scan.
LEMMA ScanFrame ==
    ASSUME TypeOK, ScanInv, scan' = scan,
           \A b \in Banks : bank[b] \in {"frozen", "removed"} /\ (\E c \in Scanners : scan[c].bank = b) =>
               /\ bank'[b] \in {"frozen", "removed"}
               /\ chain[b] \subseteq chain'[b]
               /\ b \notin removedIds' => b \notin removedIds
               /\ b \notin removedIds' => \A d \in chain[b] : Present(d) => Present(d)'
    PROVE  ScanInv'
<1> SUFFICES ASSUME NEW c \in Scanners
             PROVE  /\ scan[c].pc = "idle" => scan[c].bank = Genesis
                    /\ scan[c].pc # "idle" => bank'[scan[c].bank] \in {"frozen", "removed"}
                    /\ scan[c].pc = "begin" => scan[c].complete
                    /\ scan[c].pc = "scan" => scan[c].todo \subseteq chain'[scan[c].bank]
                    /\ scan[c].pc = "scan" /\ scan[c].bank \notin removedIds' =>
                          scan[c].complete /\ \A d \in scan[c].todo : Present(d)'
                    /\ scan[c].pc = "ok" => scan[c].complete
  BY Zenon DEF ScanInv
<1>1. CASE scan[c].pc = "idle"
  BY Zenon, <1>1 DEF ScanInv
<1>2. CASE scan[c].pc # "idle"
  <2>1. PICK b \in Banks : scan[c].bank = b
    BY Zenon, <1>2 DEF TypeOK
  <2>2. /\ bank[b] \in {"frozen", "removed"}
        /\ scan[c].pc = "scan" => scan[c].todo \subseteq chain[b]
        /\ scan[c].pc = "scan" /\ b \notin removedIds => scan[c].complete /\ \A d \in scan[c].todo : Present(d)
        /\ scan[c].pc \in {"begin", "ok"} => scan[c].complete
    BY Zenon, <1>2, <2>1 DEF ScanInv
  <2>3. /\ bank'[b] \in {"frozen", "removed"}
        /\ chain[b] \subseteq chain'[b]
        /\ b \notin removedIds' => b \notin removedIds
        /\ b \notin removedIds' => \A d \in chain[b] : Present(d) => Present(d)'
    BY Zenon, <2>1, <2>2
  <2> QED
    BY Zenon, <1>2, <2>1, <2>2, <2>3
<1> QED
  BY Zenon, <1>1, <1>2

\* The steps of the replay thread and of the dump.
LEMMA ReplayScan ==
    ASSUME TypeOK, ForkInv, ScanInv, ReplayStep
    PROVE  ScanInv'
<1>1. scan' = scan /\ removedIds' = removedIds
  BY Zenon DEF ReplayStep, NewBank, Write, Freeze, SetRoot, Drop, RemoveStart, syncVars
<1>2. \A b \in Banks : bank[b] \in {"frozen", "removed"} /\ (\E c \in Scanners : scan[c].bank = b) =>
          bank'[b] \in {"frozen", "removed"} /\ chain'[b] = chain[b]
  <2>1. ASSUME NEW x \in Banks, NEW p \in Banks \cup {Genesis}, NewBank(x, p)
        PROVE  \A b \in Banks : bank[b] \in {"frozen", "removed"} => bank'[b] = bank[b] /\ chain'[b] = chain[b]
    BY Zenon, <2>1 DEF NewBank, TypeOK
  <2>2. ASSUME NEW x \in Banks, Write(x) \/ Freeze(x)
        PROVE  \A b \in Banks : bank[b] \in {"frozen", "removed"} => bank'[b] = bank[b] /\ chain'[b] = chain[b]
    BY Zenon, <2>2 DEF Write, Freeze, forkVars, TypeOK
  <2>3. ASSUME NEW x \in Banks, SetRoot(x) \/ RemoveStart(x)
        PROVE  \A b \in Banks : bank[b] \in {"frozen", "removed"} => bank'[b] \in {"frozen", "removed"} /\ chain'[b] = chain[b]
    <3>1. \A b \in Banks : bank'[b] \in {bank[b], "removed"} /\ chain'[b] = chain[b]
      <4>1. CASE SetRoot(x)
        BY Zenon, <4>1 DEF SetRoot, TypeOK
      <4>2. CASE RemoveStart(x)
        BY Zenon, <4>2 DEF RemoveStart, TypeOK
      <4> QED
        BY Zenon, <2>3, <4>1, <4>2
    <3> QED
      BY Zenon, <3>1
  <2>4. ASSUME NEW x \in Banks, Drop(x), NEW b \in Banks, NEW c \in Scanners, scan[c].bank = b
        PROVE  bank'[b] = bank[b] /\ chain'[b] = chain[b]
    BY Zenon, <2>4 DEF Drop, TypeOK
  <2> QED
    BY Zenon, <2>1, <2>2, <2>3, <2>4 DEF ReplayStep
<1>3. \A d \in Banks : Present(d) => Present(d)'
  <2>1. \A x \in Slots : cache[x] \subseteq cache'[x] /\ storage'[x] = storage[x]
    <3>1. ASSUME NEW x \in Banks, NEW p \in Banks \cup {Genesis}, NewBank(x, p) \/ Write(x)
          PROVE  \A t \in Slots : cache[t] \subseteq cache'[t] /\ storage'[t] = storage[t]
      <4>1. storage' = storage /\ cache' = [cache EXCEPT ![SlotOf(x)] = @ \cup {VersionOf(x)}]
        BY Zenon, <3>1 DEF NewBank, Write, Store
      <4>2. SlotOf(x) \in Slots /\ cache \in [Slots -> SUBSET Versions]
        BY Zenon, BankFacts DEF TypeOK
      <4> QED
        BY Zenon, <4>1, <4>2
    <3>2. ASSUME NEW x \in Banks, Freeze(x) \/ SetRoot(x) \/ Drop(x) \/ RemoveStart(x)
          PROVE  cache' = cache /\ storage' = storage
      BY Zenon, <3>2 DEF Freeze, SetRoot, Drop, RemoveStart, dataVars
    <3> QED
      BY Zenon, <3>1, <3>2 DEF ReplayStep
  <2> QED
    BY Zenon, <2>1, BankFacts DEF Present
<1>4. \A b \in Banks : chain[b] \subseteq Banks
  BY Zenon DEF TypeOK
<1> QED
  BY Zenon, <1>1, <1>2, <1>3, <1>4, ScanFrame

\* What the dump purges belongs to banks it has announced.
LEMMA PurgeSlotScan ==
    ASSUME TypeOK, SyncInv, ForkInv, DataInv, ScanInv, NEW t \in Slots, PurgeSlot(t)
    PROVE  ScanInv'
<1>1. scan' = scan /\ removedIds' = removedIds /\ bank' = bank /\ chain' = chain /\ remover.pc = "purge"
  BY Zenon DEF PurgeSlot, forkVars, syncVars
<1>2. t \in SlotsOf(remover.banks)
  BY Zenon DEF PurgeSlot, SyncInv, RemoverShape
<1>3. \A x \in Slots : x # t => cache'[x] = cache[x] /\ storage'[x] = storage[x]
  BY Zenon DEF PurgeSlot, RemoveCache, RemoveStorage, TypeOK
<1>4. ASSUME NEW b \in Banks, bank[b] \in {"frozen", "removed"}, b \notin removedIds, NEW d \in chain[b], Present(d)
      PROVE  Present(d)'
  <2>1. d \in Banks /\ Used(d) /\ SlotOf(d) \in Slots
    BY Zenon, BankFacts DEF TypeOK, ForkInv, ChainShape
  <2>2. SlotOf(d) # t
    <3>1. SUFFICES ASSUME SlotOf(d) = t PROVE FALSE
      BY Zenon
    <3>2. d \in dumped
      BY Zenon, <1>2, <2>1, <3>1, RemovedSlotIsEmpty
    <3>3. b \in dumped
      BY Zenon, <3>2 DEF ForkInv, Descendants
    <3> QED
      BY Zenon, <1>1, <1>4, <3>3 DEF ForkInv, DumpedBanks, Unannounced
  <2> QED
    BY Zenon, <1>3, <1>4, <2>1, <2>2 DEF Present
<1> QED
  BY Zenon, <1>1, <1>4, ScanFrame

\* purge_slot of a dropped bank takes no account from a fork somebody scans.
LEMMA PurgeDroppedScan ==
    ASSUME TypeOK, ForkInv, ScanInv, NEW x \in Banks, PurgeDropped(x)
    PROVE  ScanInv'
<1>1. scan' = scan /\ removedIds' = removedIds \ {x} /\ chain' = chain /\ bank[x] = "dropped"
  BY Zenon DEF PurgeDropped
<1>2. \A b \in Banks : b # x => bank'[b] = bank[b]
  BY Zenon DEF PurgeDropped, TypeOK
<1>3. SlotOf(x) \in Slots
  BY Zenon, BankFacts
<1>4. \A s \in Slots : s # SlotOf(x) => cache'[s] = cache[s] /\ storage'[s] = storage[s]
  BY ZenonT(60), <1>3 DEF PurgeDropped, RemoveCache, RemoveStorage, TypeOK
<1>5. UNCHANGED <<cache, storage>> \/ (x \notin removedIds /\ SlotOf(x) \notin rooted)
  BY Zenon DEF PurgeDropped
<1>6. ASSUME NEW b \in Banks, bank[b] \in {"frozen", "removed"}, b \notin removedIds, NEW d \in chain[b], Present(d)
      PROVE  Present(d)'
  <2>1. d \in Banks /\ Used(d) /\ SlotOf(d) \in Slots
    BY Zenon, BankFacts DEF TypeOK, ForkInv, ChainShape
  <2>2. UNCHANGED <<cache, storage>> \/ SlotOf(d) # SlotOf(x)
    <3>1. SUFFICES ASSUME x \notin removedIds, SlotOf(x) \notin rooted, SlotOf(d) = SlotOf(x) PROVE FALSE
      BY Zenon, <1>5
    <3>2. d # x
      BY Zenon, <1>1, <1>6, <3>1 DEF ForkInv, Descendants
    <3>3. d \in dumped /\ d \notin remover.banks
      BY Zenon, <1>1, <2>1, <3>1, <3>2, PurgedSlotIsOwn DEF SameSlot
    <3>4. b \in dumped
      BY Zenon, <3>3 DEF ForkInv, Descendants
    <3>5. b \in remover.banks
      BY Zenon, <1>6, <3>4 DEF ForkInv, DumpedBanks, Unannounced
    <3> QED
      BY Zenon, <3>3, <3>5 DEF ForkInv, RemoverBanks
  <2> QED
    BY Zenon, <1>4, <1>6, <2>1, <2>2 DEF Present
<1> QED
  BY Zenon, <1>1, <1>2, <1>6, ScanFrame

\* A scan begins with banks whose accounts are all there.
LEMMA ScanBeginPresent ==
    ASSUME TypeOK, ForkInv, DataInv, NEW b \in Banks, bank[b] \in {"frozen", "removed"}, b \notin removedIds,
           root = Genesis \/ root \in chain[b], NEW d \in chain[b], SlotOf(d) > SlotOf(root)
    PROVE  Present(d)
<1>1. d \in Banks
  BY Zenon DEF TypeOK
<1>2. b \notin dumped => InForks(b) /\ d \notin dumped
  BY Zenon DEF ForkInv, PrunedBanks, Descendants, InForks
<1>3. b \in dumped => Unannounced(b)
  BY Zenon DEF ForkInv, DumpedBanks
<1>4. InForks(d) \/ d \in remover.banks
  BY Zenon, <1>2, <1>3 DEF ForkInv, UnrootedAncestors, Unannounced
<1>5. InForks(d) \/ Unannounced(d)
  BY Zenon, <1>2, <1>3, <1>4 DEF Unannounced, ForkInv, RemoverBanks
<1> QED
  BY Zenon, <1>1, <1>5 DEF DataInv, KeepsAccounts

\* A scan's own steps.
LEMMA OwnScan ==
    ASSUME TypeOK, ForkInv, DataInv, ScanInv, NEW k \in Scanners, ScanStep(k)
    PROVE  ScanInv'
<1>1. UNCHANGED <<bank, chain, cache, storage, removedIds>>
  BY Zenon, ScanStepState DEF forkVars, dataVars, syncVars
<1>2. \A c \in Scanners : c # k => scan'[c] = scan[c]
  <2>1. PICK r : scan' = [scan EXCEPT ![k] = r]
    BY Zenon, ScanStepState
  <2> QED
    BY Zenon, <2>1 DEF TypeOK
<1>3. k \in DOMAIN scan /\ scan[k] \in ScanStates
  BY Zenon DEF TypeOK
<1> DEFINE ScanKept ==
              /\ scan'[k].pc = "idle" => scan'[k].bank = Genesis
              /\ scan'[k].pc # "idle" => bank[scan'[k].bank] \in {"frozen", "removed"}
              /\ scan'[k].pc = "begin" => scan'[k].complete
              /\ scan'[k].pc = "scan" => scan'[k].todo \subseteq chain[scan'[k].bank]
              /\ scan'[k].pc = "scan" /\ scan'[k].bank \notin removedIds =>
                    scan'[k].complete /\ \A d \in scan'[k].todo : Present(d)
              /\ scan'[k].pc = "ok" => scan'[k].complete
<1>4. ScanKept
  <2>1. ASSUME NEW b \in Banks, ScanTakesBank(k, b) PROVE ScanKept
    <3>1. /\ scan'[k].pc = "begin" /\ scan'[k].bank = b /\ scan'[k].complete = TRUE
          /\ bank[b] = "frozen"
      BY Zenon, <1>3, <2>1 DEF ScanTakesBank, IdleScan
    <3> QED
      BY Zenon, <3>1
  <2>2. ASSUME NEW e \in Banks, ScanSlot(k, e) PROVE ScanKept
    <3>1. /\ scan[k].pc = "scan" /\ e \in scan[k].todo /\ scan'[k].pc = "scan"
          /\ scan'[k].bank = scan[k].bank /\ scan'[k].todo = scan[k].todo \ {e}
          /\ scan'[k].complete = (scan[k].complete /\ Present(e))
      BY Zenon, <1>3, <2>2 DEF ScanSlot, ScanStates, Present
    <3>2. /\ bank[scan[k].bank] \in {"frozen", "removed"}
          /\ scan[k].todo \subseteq chain[scan[k].bank]
          /\ scan[k].bank \notin removedIds => scan[k].complete /\ \A d \in scan[k].todo : Present(d)
      BY Zenon, <3>1 DEF ScanInv
    <3> QED
      BY Zenon, <3>1, <3>2
  <2>3. ASSUME ScanBegin(k) PROVE ScanKept
    <3>1. PICK b \in Banks : scan[k].bank = b
      BY Zenon, <2>3 DEF ScanBegin, TypeOK
    <3>2. bank[b] \in {"frozen", "removed"} /\ scan[k].complete
      BY Zenon, <2>3, <3>1 DEF ScanBegin, ScanInv
    <3>3. CASE b \in removedIds
      <4>1. scan'[k] = IdleScan
        BY Zenon, <1>3, <2>3, <3>1, <3>3 DEF ScanBegin
      <4>2. scan'[k].pc = "idle" /\ scan'[k].bank = Genesis
        BY <4>1 DEF IdleScan
      <4> QED
        BY Zenon, <4>2
    <3>4. CASE b \notin removedIds
      <4>1. /\ scan'[k].pc = "scan" /\ scan'[k].bank = b /\ scan'[k].complete = scan[k].complete
            /\ scan'[k].todo = IF root = Genesis \/ root \in chain[b] THEN {d \in chain[b] : SlotOf(d) > SlotOf(root)} ELSE {}
        BY Zenon, <1>3, <2>3, <3>1, <3>4 DEF ScanBegin, ScanStates
      <4>2. scan'[k].todo \subseteq chain[b] /\ \A d \in scan'[k].todo : Present(d)
        BY Zenon, <3>2, <3>4, <4>1, ScanBeginPresent
      <4> QED
        BY Zenon, <3>2, <4>1, <4>2
    <3> QED
      BY Zenon, <3>3, <3>4
  <2>4. ASSUME ScanCheck(k) PROVE ScanKept
    <3>1. scan[k].pc = "scan" /\ bank[scan[k].bank] \in {"frozen", "removed"}
      BY Zenon, <2>4 DEF ScanCheck, ScanInv
    <3>2. CASE scan[k].bank \in removedIds
      <4>1. scan'[k] = IdleScan
        BY Zenon, <1>3, <2>4, <3>2 DEF ScanCheck
      <4>2. scan'[k].pc = "idle" /\ scan'[k].bank = Genesis
        BY <4>1 DEF IdleScan
      <4> QED
        BY Zenon, <4>2
    <3>3. CASE scan[k].bank \notin removedIds
      <4>1. scan'[k].pc = "ok" /\ scan'[k].bank = scan[k].bank /\ scan'[k].complete = scan[k].complete
        BY Zenon, <1>3, <2>4, <3>3 DEF ScanCheck, ScanStates
      <4> QED
        BY Zenon, <3>1, <3>3, <4>1 DEF ScanInv
    <3> QED
      BY Zenon, <3>2, <3>3
  <2>5. ASSUME ScanReturns(k) PROVE ScanKept
    <3>1. scan'[k] = IdleScan
      BY Zenon, <1>3, <2>5 DEF ScanReturns
    <3>2. scan'[k].pc = "idle" /\ scan'[k].bank = Genesis
      BY <3>1 DEF IdleScan
    <3> QED
      BY Zenon, <3>2
  <2> QED
    BY Zenon, <2>1, <2>2, <2>3, <2>4, <2>5 DEF ScanStep
<1> QED
  BY <1>1, <1>2, <1>4, SMTT(30) DEF ScanInv, Present

\* Every step keeps what the scans rely on.
LEMMA ScanInvStep == TypeOK /\ SyncInv /\ ForkInv /\ DataInv /\ ScanInv /\ [Next]_vars => ScanInv'
<1> SUFFICES ASSUME TypeOK, SyncInv, ForkInv, DataInv, ScanInv, [Next]_vars PROVE ScanInv'
  BY Zenon
<1>1. CASE ReplayStep
  BY Zenon, <1>1, ReplayScan
<1>2. ASSUME NEW t \in Slots, PurgeSlot(t) PROVE ScanInv'
  BY Zenon, <1>2, PurgeSlotScan
<1>3. ASSUME NEW b \in Banks, PurgeDropped(b) PROVE ScanInv'
  BY Zenon, <1>3, PurgeDroppedScan
<1>4. ASSUME NEW c \in Scanners, ScanStep(c) PROVE ScanInv'
  BY Zenon, <1>4, OwnScan
<1>5. CASE FlushLook \/ FlushWrite \/ FlushRemove
  <2>1. UNCHANGED <<scan, bank, chain, removedIds>>
    BY Zenon, <1>5 DEF FlushLook, FlushWrite, FlushRemove, forkVars, syncVars
  <2>2. \A d \in Banks : Present(d) => Present(d)'
    BY Zenon, <1>5, FlushKeeps, BankFacts DEF Present
  <2>3. \A b \in Banks : chain[b] \subseteq Banks
    BY Zenon DEF TypeOK
  <2> QED
    BY Zenon, <2>1, <2>2, <2>3, ScanFrame
<1>6. ASSUME UNCHANGED <<scan, bank, chain, cache, storage>>, removedIds \subseteq removedIds' PROVE ScanInv'
  BY Zenon, <1>6, ScanFrame DEF Present
<1>7. CASE Reserve \/ MarkRemoved \/ RemoveEnd \/ FlushRelease \/ FlushNotify \/ FlushEnd \/ FlushRoots \/ FlushExcess
  <2>1. UNCHANGED <<scan, bank, chain, cache, storage>> /\ removedIds \subseteq removedIds'
    BY Zenon, <1>7 DEF Reserve, MarkRemoved, RemoveEnd, FlushRelease, FlushNotify, FlushEnd,
       FlushRoots, FlushExcess, forkVars, dataVars, syncVars
  <2> QED
    BY Zenon, <1>6, <2>1
<1>8. ASSUME NEW t \in Slots, PurgeLook(t) \/ FlushEnter(t) PROVE ScanInv'
  <2>1. UNCHANGED <<scan, bank, chain, cache, storage, removedIds>>
    BY Zenon, <1>8 DEF PurgeLook, FlushEnter, forkVars, dataVars, syncVars
  <2> QED
    BY Zenon, <1>6, <2>1
<1>9. CASE UNCHANGED vars
  BY Zenon, <1>6, <1>9 DEF vars, forkVars, dataVars, syncVars
<1> QED
  BY Zenon, <1>1, <1>2, <1>3, <1>4, <1>5, <1>7, <1>8, <1>9 DEF Next, RemoveStep, AbsStep,
     FlushStep

-----------------------------------------------------------------------------
(* The results.                                                            *)

\* At the start nothing is there.
LEMMA InitInv == Init => Inv
<1> SUFFICES ASSUME Init PROVE Inv
  BY Zenon
<1>1. TypeOK
  BY Zenon, InitType
<1>2. /\ \A b \in Banks : bank[b] = "unused" /\ chain[b] = {}
      /\ root = Genesis /\ rooted = {} /\ dumped = {} /\ contended = {} /\ failed = {}
      /\ \A s \in Slots : cache[s] = {}
      /\ remover.pc = "idle" /\ remover.banks = {} /\ ~remover.asleep
      /\ flusher.pc = "idle"
  BY Zenon DEF Init, IdleRemover, IdleFlusher
<1>3. \A c \in Scanners : scan[c].pc = "idle" /\ scan[c].bank = Genesis
  BY Zenon DEF Init, IdleScan
<1>4. SyncInv
  BY Zenon, <1>2 DEF SyncInv, SlotsExclusive, NoMissedSignal, RemoverShape, Flushing,
     Reserved
<1>5. ForkInv
  BY Zenon, <1>2 DEF ForkInv, ChainShape, RootShape, LastVersion, DumpedBanks, RemoverBanks,
     Descendants, PrunedBanks, UnrootedAncestors, Used, InForks
<1>6. DataInv
  BY Zenon, <1>2 DEF DataInv, KeepsAccounts, CacheHasBank, FlushedCache, PurgedCache,
     InForks, Unannounced
<1>7. ScanInv
  BY Zenon, <1>3 DEF ScanInv
<1> QED
  BY Zenon, <1>1, <1>2, <1>4, <1>5, <1>6, <1>7 DEF Inv, AssertionsHold

\* The inductive invariant.
LEMMA InvHolds == Spec => []Inv
<1>1. Inv /\ Next => Inv'
  BY Zenon, TypeStep, SyncStep, ForkStep, DataStep, AssertStep, ScanInvStep DEF Inv
<1>2. Inv /\ UNCHANGED vars => Inv'
  <2> SUFFICES ASSUME Inv, UNCHANGED vars PROVE Inv'
    BY Zenon
  <2> USE DEF vars, forkVars, dataVars, syncVars
  <2>1. TypeOK'
    BY ZenonT(30) DEF Inv, TypeOK
  <2>2. SyncInv'
    BY Zenon DEF Inv, SyncInv, SlotsExclusive, NoMissedSignal, RemoverShape, Flushing,
       Reserved
  <2>3. ForkInv'
    BY SMTT(30) DEF Inv, ForkInv, ChainShape, RootShape, LastVersion, DumpedBanks,
       RemoverBanks, Descendants, PrunedBanks, UnrootedAncestors, Used, InForks, Unannounced
  <2> QED
    BY Zenon, <2>1, <2>2, <2>3, DataStep, AssertStep, ScanInvStep DEF Inv
<1> QED
  BY <1>1, <1>2, InitInv, PTL DEF Spec

\* The state keeps its type, whatever the numbers of slots, versions and scanners.
THEOREM SlotTypes == Spec => []TypeOK
<1>1. Inv => TypeOK
  BY Zenon DEF Inv
<1> QED
  BY <1>1, InvHolds, PTL

\* remove_unrooted_slots and flush_slot_cache_with_clean never hold the same slot.
THEOREM SlotExclusion == Spec => []SlotsExclusive
<1>1. Inv => SlotsExclusive
  BY Zenon DEF Inv, SyncInv
<1> QED
  BY <1>1, InvHolds, PTL

\* A dump that sleeps on the condition variable of remove_unrooted_slots_synchronization
\* waits for slots that are still being flushed, so that the end of a flush wakes it.
THEOREM SleepersAreSignalled == Spec => []NoMissedSignal
<1>1. Inv => NoMissedSignal
  BY Zenon DEF Inv, SyncInv
<1> QED
  BY <1>1, InvHolds, PTL

\* No assertion of the purge and flush paths fails except that of AccountStorage::insert.
THEOREM PurgeAssertions == Spec => []AssertionsHold
<1>1. Inv => AssertionsHold
  BY Zenon DEF Inv
<1> QED
  BY <1>1, InvHolds, PTL

\* A bank of BankForks keeps its accounts, however dumps, flushes and the purges
\* of dropped banks interleave.
THEOREM BanksKeepAccounts == Spec => []LiveBankKeepsAccounts
<1>1. Inv => LiveBankKeepsAccounts
  BY Zenon DEF Inv, DataInv, KeepsAccounts, LiveBankKeepsAccounts, Present
<1> QED
  BY <1>1, InvHolds, PTL

\* do_checked_scan_accounts returns no result that misses a bank of its fork.
THEOREM ScansAreWhole == Spec => []ScanNotTorn
<1>1. Inv => ScanNotTorn
  BY Zenon DEF Inv, ScanInv, ScanNotTorn
<1> QED
  BY <1>1, InvHolds, PTL
=============================================================================
