------------------------- MODULE StatusCacheProofs -------------------------
(***************************************************************************)
(* Snapshots, pruning, dumps and restarts keep the invariant of            *)
(* StatusCacheInv; the properties of StatusCache, and the refinement of    *)
(* Ledger, follow from it for every number of slots, threads, keys and     *)
(* faults, every cache and queue size.                                     *)
(***************************************************************************)
EXTENDS StatusCacheInv

LEMMA RequestSnapshotInv ==
    ASSUME Inv, RequestSnapshot
    PROVE  Inv'
<1>1. /\ stage = "snapshot" /\ pending = {}
      /\ stage' = "root" /\ target' = root
      /\ pending' = IF target = root THEN {} ELSE {x \in banks[root].chain : x >= target}
      /\ UNCHANGED <<banks, root, sc, threads, snapshot, pruned, repaired>>
  BY Zenon DEF RequestSnapshot
<1>2. PICK n : n = [slot |-> target, bank |-> banks[target], roots |-> sc.roots,
                    deltas |-> RootSlotDeltas(sc)]
  BY Zenon
<1>3. /\ request' = {n}
      /\ n = [slot |-> n.slot, bank |-> n.bank, roots |-> n.roots, deltas |-> n.deltas]
      /\ n.slot = target /\ n.bank = banks[target] /\ n.roots = sc.roots
      /\ DOMAIN n.deltas = DOMAIN sc.deltas \cap sc.roots
      /\ \A x \in DOMAIN n.deltas : n.deltas[x] = sc.deltas[x]
  BY Zenon, <1>2 DEF RequestSnapshot, RootSlotDeltas
<1>4. /\ root \in DOMAIN banks /\ root \in Nat /\ target \in Nat
      /\ root \in banks[root].chain
      /\ target \in DOMAIN banks /\ target \in banks[root].chain
      /\ \A x \in banks[root].chain : x \in Nat /\ x <= root
      /\ \A y \in Nat : y \in banks[target].chain <=> y \in banks[root].chain /\ y <= target
      /\ \A x \in banks[target].chain : x \in Nat
  <2>1. ForksInv /\ root \in DOMAIN banks
    BY Zenon DEF Inv, ForksInv
  <2>2. target \in DOMAIN banks /\ target \in banks[root].chain
    BY Zenon DEF Inv, RootsInv
  <2> QED
    BY Zenon, <2>1, <2>2, ForkFacts
<1>5. ForksInv'
  BY <1>1 DEF Inv, ForksInv
<1>6. RootsInv
  BY Zenon DEF Inv
<1>7. RootsInv'
  <2>1. ASSUME NEW x \in banks[root].chain
        PROVE  x \in sc.roots \cup pending' \/ Gone(sc.roots, x)
    <3>1. CASE x <= target
      BY Zenon, <1>1, <1>6, <2>1, <3>1 DEF RootsInv
    <3>2. CASE ~(x <= target)
      BY <1>1, <1>4, <2>1, <3>2
    <3> QED
      BY Zenon, <3>1, <3>2
  <2>2. \A x \in pending' \cup sc.roots : x \in banks[root].chain /\ x <= root
    <3>1. \A x \in sc.roots : x \in banks[root].chain
      BY Zenon, <1>6 DEF RootsInv
    <3> QED
      BY Zenon, <1>1, <1>4, <3>1
  <2> QED
    BY Zenon, <1>1, <1>4, <1>6, <2>1, <2>2 DEF RootsInv
<1>8. /\ n.roots \subseteq n.bank.chain
      /\ \A x \in n.bank.chain : x \in n.roots \/ Gone(n.roots, x)
  <2>1. \A x \in sc.roots : x \in banks[root].chain /\ x <= target
    BY Zenon, <1>6 DEF RootsInv
  <2>2. \A x \in banks[root].chain : x <= target => x \in sc.roots \/ Gone(sc.roots, x)
    BY Zenon, <1>1, <1>6 DEF RootsInv
  <2> QED
    BY Zenon, <1>3, <1>4, <2>1, <2>2
<1>9. BankOK(n.slot, n.bank) /\ n.bank.status = "frozen"
  BY <1>3, <1>4 DEF Inv, ForksInv
<1>10. ASSUME NEW x \in DOMAIN n.deltas, NEW d \in n.deltas[x]
       PROVE  /\ x \in n.roots /\ d \in Recents \X Indexes \X Keys
              /\ d[2] = sc.cache[d[1]].index
              /\ x \in repaired \/ [recent |-> d[1], key |-> d[3]] \in DOMAIN n.bank.done
  <2>1. x \in sc.roots /\ x \in DOMAIN sc.deltas /\ d \in sc.deltas[x]
    BY Zenon, <1>3, <1>10
  <2>2. /\ d \in Recents \X Indexes \X Keys
        /\ d[1] \in DOMAIN sc.cache
        /\ d[2] = sc.cache[d[1]].index
        /\ <<d[2], d[3], x>> \in sc.cache[d[1]].forks
    BY Zenon, <2>1 DEF Inv, CacheOK
  <2>3. PICK f \in sc.cache[d[1]].forks : f = <<d[2], d[3], x>>
    BY Zenon, <2>2
  <2>4. f[2] = d[3] /\ f[3] = x /\ x \in banks[target].chain
    BY Zenon, <1>3, <1>8, <2>1, <2>3
  <2>5. f[3] \in repaired \/ [recent |-> d[1], key |-> f[2]] \in DOMAIN banks[target].done
    BY Zenon, <1>4, <2>2, <2>4 DEF Inv, EntriesInv
  <2> QED
    BY Zenon, <1>3, <2>1, <2>2, <2>4, <2>5
<1>11. Traced(n.bank, n.roots, n.deltas)
  <2> SUFFICES ASSUME NEW tx \in DOMAIN n.bank.done
               PROVE  \E x \in n.bank.chain :
                        /\ ~tx.recent.durable => tx.recent.hash < x
                        /\ \/ Gone(n.roots, x)
                           \/ \E i \in Indexes : <<tx.recent, i, tx.key>> \in DeltasOf(n.deltas, x)
    BY Zenon DEF Traced
  <2>1. PICK x \in n.bank.chain :
            /\ ~tx.recent.durable => tx.recent.hash < x
            /\ \/ Gone(n.roots, x)
               \/ \E i \in Indexes : <<tx.recent, i, tx.key>> \in DeltasOf(sc.deltas, x)
    BY Zenon, <1>3, <1>4 DEF Inv, TracesInv, Traced
  <2>2. CASE Gone(n.roots, x)
    BY Zenon, <2>1, <2>2
  <2>3. CASE x \in n.roots
    <3>1. DeltasOf(n.deltas, x) = DeltasOf(sc.deltas, x)
      BY Zenon, <1>3, <2>3 DEF DeltasOf
    <3> QED
      BY Zenon, <2>1, <3>1
  <2> QED
    BY Zenon, <1>8, <2>1, <2>2, <2>3
<1>12. SnapOK(n, repaired)
  <2>1. Cardinality(n.roots) <= MaxCacheEntries
    BY Zenon, <1>3, <1>6 DEF RootsInv
  <2>2. \A x \in DOMAIN n.deltas : x \in n.roots /\ n.deltas[x] \subseteq Recents \X Indexes \X Keys
    BY Zenon, <1>3, <1>10
  <2>3. ASSUME NEW x \in DOMAIN n.deltas, NEW y \in DOMAIN n.deltas,
               NEW d \in n.deltas[x], NEW e \in n.deltas[y], d[1] = e[1]
        PROVE  d[2] = e[2]
    <3>1. d[2] = sc.cache[d[1]].index /\ e[2] = sc.cache[e[1]].index
      BY Zenon, <1>10
    <3> QED
      BY Zenon, <2>3, <3>1
  <2>4. \A x \in DOMAIN n.deltas : \A d \in n.deltas[x] :
           x \in repaired \/ [recent |-> d[1], key |-> d[3]] \in DOMAIN n.bank.done
    BY Zenon, <1>10
  <2> QED
    BY Zenon, <1>3, <1>8, <1>9, <1>11, <2>1, <2>2, <2>3, <2>4 DEF SnapOK
<1>13. SnapsInv'
  BY Zenon, <1>1, <1>3, <1>12 DEF Inv, SnapsInv
<1>14. CacheOK(sc') /\ EntriesInv' /\ TracesInv'
  BY Zenon, <1>1 DEF Inv, EntriesInv, TracesInv
<1>15. ThreadsInv'
  BY Zenon, <1>1, ThreadsSame DEF Inv
<1> QED
  BY Zenon, <1>5, <1>7, <1>13, <1>14, <1>15 DEF Inv

LEMMA WriteSnapshotInv ==
    ASSUME Inv, WriteSnapshot
    PROVE  Inv'
<1>1. /\ snapshot' \in request /\ request' = {}
      /\ UNCHANGED <<banks, root, stage, target, pending, sc, threads, pruned, repaired>>
  BY Zenon DEF WriteSnapshot, NoRequest
<1>2. ForksInv' /\ RootsInv' /\ CacheOK(sc') /\ EntriesInv' /\ TracesInv'
  <2>1. ForksInv'
    BY <1>1 DEF Inv, ForksInv
  <2>2. RootsInv'
    BY Zenon, <1>1 DEF Inv, RootsInv
  <2>3. EntriesInv' /\ TracesInv' /\ CacheOK(sc')
    BY Zenon, <1>1 DEF Inv, EntriesInv, TracesInv
  <2> QED
    BY Zenon, <2>1, <2>2, <2>3
<1>3. SnapsInv'
  BY Zenon, <1>1 DEF Inv, SnapsInv
<1>4. ThreadsInv'
  BY Zenon, <1>1, ThreadsSame DEF Inv
<1> QED
  BY Zenon, <1>2, <1>3, <1>4 DEF Inv

LEMMA PruneInv ==
    ASSUME Inv, Prune
    PROVE  Inv'
<1>1. PICK kept : kept = {x \in DOMAIN banks : root \in banks[x].chain}
  BY Zenon
<1>2. /\ stage = "root" /\ pending = {} /\ stage' = "idle"
      /\ banks' = [x \in kept |-> banks[x]]
      /\ pruned' = {x \in pruned \cup (DOMAIN banks \ kept) : x > root}
      /\ UNCHANGED <<root, target, pending, sc, threads, request, snapshot, repaired>>
  BY Zenon, <1>1 DEF Prune
<1>3. DOMAIN banks' = kept /\ \A x \in kept : banks'[x] = banks[x] /\ x \in DOMAIN banks
  BY Zenon, <1>1, <1>2
<1>4. ForksInv /\ root \in Nat /\ root \in kept
  <2>1. ForksInv /\ root \in DOMAIN banks
    BY Zenon DEF Inv, ForksInv
  <2> QED
    BY Zenon, <1>1, <2>1, ForkFacts
<1>5. ASSUME NEW b \in kept, NEW x \in banks[b].chain, x >= root
      PROVE  x \in kept
  <2>1. x \in DOMAIN banks
    BY Zenon, <1>3, <1>4, <1>5 DEF ForksInv
  <2>2. root \in banks[x].chain
    BY Zenon, <1>1, <1>3, <1>4, <1>5, <2>1, ForkFacts
  <2> QED
    BY Zenon, <1>1, <2>1, <2>2
<1>6. ForksInv'
  <2>1. ASSUME NEW b \in kept, NEW x \in banks[b].chain
        PROVE  /\ x >= root => x \in kept
               /\ x \in kept => banks'[x].chain = {y \in banks'[b].chain : y <= x}
               /\ x \in kept /\ x # b => banks'[x].status = "frozen"
               /\ x \notin pruned'
    <3>1. /\ x \in DOMAIN banks => banks[x].chain = {y \in banks[b].chain : y <= x}
          /\ x \in DOMAIN banks /\ x # b => banks[x].status = "frozen"
          /\ x \notin pruned
      BY Zenon, <1>3, <1>4, <2>1 DEF ForksInv
    <3>2. x \in Nat
      BY Zenon, <1>3, <1>4, <2>1, ForkFacts
    <3>3. x \notin pruned'
      <4>1. x >= root => x \in kept
        BY <1>5, <2>1
      <4>2. x > root => x >= root
        BY <1>4, <3>2
      <4>. QED
        BY Zenon, <1>2, <3>1, <4>1, <4>2
    <3> QED
      BY Zenon, <1>3, <1>5, <2>1, <3>1, <3>3
  <2>2. \A b \in kept : BankOK(b, banks'[b]) /\ root \in banks'[b].chain
    BY Zenon, <1>1, <1>3, <1>4 DEF ForksInv
  <2>3. banks'[root].status = "frozen"
    BY Zenon, <1>3, <1>4 DEF ForksInv
  <2> QED
    BY <1>2, <1>3, <1>4, <2>1, <2>2, <2>3 DEF ForksInv
<1>7. RootsInv'
  <2>1. RootsInv /\ target = root /\ banks'[root] = banks[root]
    BY Zenon, <1>2, <1>3, <1>4 DEF Inv, RootsInv
  <2>2. \A b \in kept : \A x \in banks'[b].chain :
           x \in banks'[b].ancestors \cup sc.roots \/ Gone(sc.roots, x)
    BY Zenon, <1>3, <2>1 DEF RootsInv
  <2> QED
    BY Zenon, <1>2, <1>3, <1>4, <2>1, <2>2 DEF RootsInv
<1>8. EntriesInv'
  <2> SUFFICES ASSUME NEW r \in DOMAIN sc.cache, NEW f \in sc.cache[r].forks
               PROVE  /\ f[3] > root => /\ <<r, f[1], f[2]>> \in DeltasOf(sc.deltas, f[3])
                                        /\ f[3] \in kept \cup pruned' \cup repaired
                      /\ \A x \in kept : f[3] \in banks'[x].chain =>
                            \/ f[3] \in repaired
                            \/ [recent |-> r, key |-> f[2]] \in DOMAIN banks'[x].done
    <3>1. sc' = sc /\ root' = root /\ repaired' = repaired /\ DOMAIN banks' = kept
      BY Zenon, <1>2, <1>3
    <3> QED
      BY Zenon, <3>1 DEF EntriesInv
  <2>1. /\ f[3] > root => /\ <<r, f[1], f[2]>> \in DeltasOf(sc.deltas, f[3])
                          /\ f[3] \in DOMAIN banks \cup pruned \cup repaired
        /\ \A x \in DOMAIN banks : f[3] \in banks[x].chain =>
              \/ f[3] \in repaired
              \/ [recent |-> r, key |-> f[2]] \in DOMAIN banks[x].done
    BY Zenon DEF Inv, EntriesInv
  <2> QED
    BY Zenon, <1>2, <1>3, <2>1
<1>9. TracesInv'
  BY Zenon, <1>2, <1>3 DEF Inv, TracesInv
<1>10. CacheOK(sc') /\ SnapsInv'
  BY Zenon, <1>2 DEF Inv, SnapsInv
<1>11. ThreadsInv'
  <2>1. ASSUME NEW t \in Threads, threads[t].pc # "idle"
        PROVE  threads[t].bank \in kept \cup pruned' \/ threads[t].bank <= root
    <3>1. threads[t].bank \in Nat /\ (threads[t].bank \in DOMAIN banks \cup pruned \/ threads[t].bank <= root)
      BY Zenon, <2>1, ThreadFacts
    <3> QED
      BY <1>2, <1>4, <3>1
  <2>2. ASSUME NEW t \in Threads, threads[t].pc = "recorded", threads[t].bank \notin kept,
               NEW x \in kept, threads[t].bank \in banks[x].chain
        PROVE  FALSE
    <3>1. /\ threads[t].bank \in DOMAIN banks => banks[threads[t].bank].status # "frozen"
          /\ threads[t].bank \in DOMAIN banks
      BY Zenon, <1>3, <2>2, ThreadFacts
    <3>2. banks[threads[t].bank].status = "frozen"
      BY <1>3, <1>4, <2>2, <3>1 DEF ForksInv
    <3> QED
      BY Zenon, <3>1, <3>2
  <2> QED
    BY Zenon, <1>2, <1>3, <2>1, <2>2, ThreadsKept DEF Inv
<1> QED
  BY Zenon, <1>6, <1>7, <1>8, <1>9, <1>10, <1>11 DEF Inv

LEMMA DumpInv ==
    ASSUME Inv, NEW s \in DOMAIN banks, Dump(s)
    PROVE  Inv'
<1>1. PICK S : S = {x \in DOMAIN banks : s \in banks[x].chain}
  BY Zenon
<1>2. /\ stage = "idle" /\ s > root
      /\ \A t \in Threads : threads[t].pc # "idle" => threads[t].bank \notin S
      /\ banks' = [x \in DOMAIN banks \ S |-> banks[x]]
      /\ sc' = ClearSlotEntries(sc, S)
      /\ UNCHANGED <<root, stage, target, pending, threads, request, snapshot, pruned, repaired>>
  BY Zenon, <1>1 DEF Dump
<1>3. /\ DOMAIN banks' = DOMAIN banks \ S
      /\ \A x \in DOMAIN banks' : banks'[x] = banks[x] /\ x \in DOMAIN banks
  BY Zenon, <1>2
<1>4. ForksInv /\ root \in Nat /\ root \in DOMAIN banks' /\ banks'[root] = banks[root]
  <2>1. ForksInv /\ root \in DOMAIN banks
    BY Zenon DEF Inv, ForksInv
  <2>2. s \in Nat /\ root \in Nat /\ \A x \in banks[root].chain : x <= root /\ x \in Nat
    BY Zenon, <2>1, ForkFacts
  <2>3. s \notin banks[root].chain
    BY <1>2, <2>2
  <2> QED
    BY Zenon, <1>1, <1>3, <2>1, <2>2, <2>3
<1>5. ASSUME NEW b \in DOMAIN banks', NEW x \in banks[b].chain
      PROVE  x \notin S
  <2> SUFFICES ASSUME x \in S PROVE FALSE
    BY Zenon
  <2>1. x \in DOMAIN banks /\ s \in banks[x].chain /\ b \in DOMAIN banks
    BY Zenon, <1>1, <1>3
  <2>2. s \in banks[b].chain
    BY Zenon, <1>4, <1>5, <2>1, ForkFacts
  <2> QED
    BY Zenon, <1>1, <1>3, <1>5, <2>1, <2>2
<1>6. ForksInv'
  <2>1. ASSUME NEW b \in DOMAIN banks', NEW x \in banks[b].chain
        PROVE  /\ x >= root => x \in DOMAIN banks'
               /\ x \in DOMAIN banks' => banks'[x].chain = {y \in banks'[b].chain : y <= x}
               /\ x \in DOMAIN banks' /\ x # b => banks'[x].status = "frozen"
               /\ x \notin pruned
    <3>1. /\ x >= root => x \in DOMAIN banks
          /\ x \in DOMAIN banks => banks[x].chain = {y \in banks[b].chain : y <= x}
          /\ x \in DOMAIN banks /\ x # b => banks[x].status = "frozen"
          /\ x \notin pruned
      BY Zenon, <1>3, <1>4, <2>1 DEF ForksInv
    <3> QED
      BY Zenon, <1>3, <1>5, <2>1, <3>1
  <2>2. \A b \in DOMAIN banks' : BankOK(b, banks'[b]) /\ root \in banks'[b].chain
    BY Zenon, <1>2, <1>3, <1>4 DEF ForksInv
  <2>3. banks'[root].status = "frozen"
    BY Zenon, <1>4 DEF ForksInv
  <2>4. root' = root /\ stage' = stage /\ pruned' = pruned
    BY Zenon, <1>2
  <2>5. \A b \in DOMAIN banks' : \A x \in banks'[b].chain : x \in banks[b].chain
    BY Zenon, <1>3
  <2> QED
    BY Zenon, <1>4, <2>1, <2>2, <2>3, <2>4, <2>5 DEF ForksInv
<1>7. CacheOK(sc') /\ sc'.roots = sc.roots /\ Clears(sc, sc', S)
  BY Zenon, <1>2, ClearFacts DEF Inv
<1>8. RootsInv'
  <2>1. RootsInv /\ target = root
    BY Zenon, <1>2 DEF Inv, RootsInv
  <2>2. \A b \in DOMAIN banks' : \A x \in banks'[b].chain :
           x \in banks'[b].ancestors \cup sc.roots \/ Gone(sc.roots, x)
    BY Zenon, <1>3, <2>1 DEF RootsInv
  <2> QED
    BY Zenon, <1>2, <1>4, <1>7, <2>1, <2>2 DEF RootsInv
<1>9. EntriesInv'
  <2> SUFFICES ASSUME NEW r \in DOMAIN sc'.cache, NEW f \in sc'.cache[r].forks
               PROVE  /\ f[3] > root => /\ <<r, f[1], f[2]>> \in DeltasOf(sc'.deltas, f[3])
                                        /\ f[3] \in DOMAIN banks' \cup pruned \cup repaired
                      /\ \A x \in DOMAIN banks' : f[3] \in banks'[x].chain =>
                            \/ f[3] \in repaired
                            \/ [recent |-> r, key |-> f[2]] \in DOMAIN banks'[x].done
    BY ZenonT(40), <1>2 DEF EntriesInv
  <2>1. /\ r \in DOMAIN sc.cache /\ f \in sc.cache[r].forks
        /\ ~(f[3] \in S /\ <<r, f[1], f[2]>> \in DeltasOf(sc.deltas, f[3]))
        /\ f[3] \notin S => DeltasOf(sc'.deltas, f[3]) = DeltasOf(sc.deltas, f[3])
    BY Zenon, <1>7 DEF Clears
  <2>2. /\ f[3] > root => /\ <<r, f[1], f[2]>> \in DeltasOf(sc.deltas, f[3])
                          /\ f[3] \in DOMAIN banks \cup pruned \cup repaired
        /\ \A x \in DOMAIN banks : f[3] \in banks[x].chain =>
              \/ f[3] \in repaired
              \/ [recent |-> r, key |-> f[2]] \in DOMAIN banks[x].done
    BY Zenon, <2>1 DEF Inv, EntriesInv
  <2> QED
    BY Zenon, <1>3, <2>1, <2>2
<1>10. TracesInv'
  <2> SUFFICES ASSUME NEW b \in DOMAIN banks', NEW tx \in DOMAIN banks[b].done
               PROVE  \E x \in banks[b].chain :
                        /\ ~tx.recent.durable => tx.recent.hash < x
                        /\ \/ Gone(sc.roots, x)
                           \/ \E i \in Indexes : <<tx.recent, i, tx.key>> \in DeltasOf(sc'.deltas, x)
    BY Zenon, <1>3, <1>7 DEF TracesInv, Traced
  <2>1. PICK x \in banks[b].chain :
            /\ ~tx.recent.durable => tx.recent.hash < x
            /\ \/ Gone(sc.roots, x)
               \/ \E i \in Indexes : <<tx.recent, i, tx.key>> \in DeltasOf(sc.deltas, x)
    BY Zenon, <1>3 DEF Inv, TracesInv, Traced
  <2>2. DeltasOf(sc'.deltas, x) = DeltasOf(sc.deltas, x)
    BY Zenon, <1>5, <1>7 DEF Clears
  <2> QED
    BY Zenon, <2>1, <2>2
<1>11. SnapsInv'
  BY Zenon, <1>2 DEF Inv, SnapsInv
<1>12. ThreadsInv'
  <2>1. ASSUME NEW t \in Threads, threads[t].pc # "idle"
        PROVE  /\ threads[t].bank \in DOMAIN banks' \cup pruned \/ threads[t].bank <= root
               /\ threads[t].bank \notin DOMAIN banks' => threads[t].bank \notin DOMAIN banks
    BY Zenon, <1>2, <1>3, <2>1, ThreadFacts
  <2>2. ASSUME NEW t \in Threads, threads[t].pc = "recorded", threads[t].bank \notin DOMAIN banks'
        PROVE  \A x \in DOMAIN banks' : threads[t].bank \notin banks'[x].chain
    <3>1. \A x \in DOMAIN banks : threads[t].bank \notin banks[x].chain
      BY Zenon, <2>1, <2>2, ThreadFacts
    <3> QED
      BY Zenon, <1>3, <3>1
  <2> QED
    BY Zenon, <1>2, <1>3, <2>1, <2>2, ThreadsKept DEF Inv
<1> QED
  BY Zenon, <1>6, <1>7, <1>8, <1>9, <1>10, <1>11, <1>12 DEF Inv

LEMMA RepairPrunedInv ==
    ASSUME Inv, NEW s \in pruned, RepairPruned(s)
    PROVE  Inv'
<1>1. /\ pruned' = pruned \ {s} /\ repaired' = repaired \cup {s}
      /\ \A t \in Threads : threads[t].pc # "idle" => threads[t].bank # s
      /\ UNCHANGED <<banks, root, stage, target, pending, sc, threads, request, snapshot>>
  BY Zenon DEF RepairPruned
<1>2. ForksInv'
  BY <1>1 DEF Inv, ForksInv
<1>3. RootsInv' /\ CacheOK(sc') /\ TracesInv'
  BY Zenon, <1>1 DEF Inv, RootsInv, TracesInv
<1>4. EntriesInv'
  <2> SUFFICES ASSUME NEW r \in DOMAIN sc.cache, NEW f \in sc.cache[r].forks
               PROVE  /\ f[3] > root => /\ <<r, f[1], f[2]>> \in DeltasOf(sc.deltas, f[3])
                                        /\ f[3] \in DOMAIN banks \cup pruned' \cup repaired'
                      /\ \A x \in DOMAIN banks : f[3] \in banks[x].chain =>
                            \/ f[3] \in repaired'
                            \/ [recent |-> r, key |-> f[2]] \in DOMAIN banks[x].done
    BY Zenon, <1>1 DEF EntriesInv
  <2>1. /\ f[3] > root => /\ <<r, f[1], f[2]>> \in DeltasOf(sc.deltas, f[3])
                          /\ f[3] \in DOMAIN banks \cup pruned \cup repaired
        /\ \A x \in DOMAIN banks : f[3] \in banks[x].chain =>
              \/ f[3] \in repaired
              \/ [recent |-> r, key |-> f[2]] \in DOMAIN banks[x].done
    BY Zenon DEF Inv, EntriesInv
  <2> QED
    BY Zenon, <1>1, <2>1
<1>5. SnapsInv'
  <2> SUFFICES ASSUME NEW n \in request \cup {snapshot} PROVE SnapOK(n, repaired')
    BY Zenon, <1>1 DEF SnapsInv
  <2>1. SnapOK(n, repaired) /\ repaired \subseteq repaired'
    BY Zenon, <1>1 DEF Inv, SnapsInv
  <2> QED
    BY Zenon, <2>1 DEF SnapOK
<1>6. ThreadsInv'
  <2>1. ASSUME NEW t \in Threads, threads[t].pc # "idle"
        PROVE  threads[t].bank \in DOMAIN banks \cup pruned' \/ threads[t].bank <= root
    BY Zenon, <1>1, <2>1, ThreadFacts
  <2>2. \A t \in Threads : threads[t].pc = "recorded" /\ threads[t].bank \notin DOMAIN banks =>
             \A x \in DOMAIN banks : threads[t].bank \notin banks[x].chain
    BY Zenon, ThreadFacts
  <2> QED
    BY Zenon, <1>1, <2>1, <2>2, ThreadsKept DEF Inv
<1> QED
  BY Zenon, <1>2, <1>3, <1>4, <1>5, <1>6 DEF Inv

LEMMA RestartInv ==
    ASSUME SetFacts, Inv, NEW index, Restart(index)
    PROVE  Inv'
<1>1. PICK n : n = snapshot
  BY Zenon
<1>2. /\ \A r \in RecentsOf(n.deltas) : index[r] \in {f[1] : f \in ForksOf(n.deltas, r)}
      /\ sc' = AppendDeltas(n.deltas, n.roots, index)
  BY Zenon, <1>1 DEF Restart
<1>3. /\ DOMAIN banks' = {n.slot} /\ banks'[n.slot] = n.bank
      /\ root' = n.slot /\ stage' = "idle" /\ target' = n.slot /\ pending' = {}
      /\ threads' = [t \in Threads |-> Idle]
      /\ request' = {} /\ pruned' = {} /\ snapshot' = snapshot /\ repaired' = repaired
  BY Zenon, <1>1 DEF Restart, NoRequest
<1>4. SnapOK(n, repaired)
  BY Zenon, <1>1 DEF Inv, SnapsInv
<1>5. PICK c, m : /\ m \in Int
                  /\ Purges(c, sc', m)
                  /\ CacheOK(c)
                  /\ c.roots = {0} \cup n.roots
                  /\ c.deltas = n.deltas
                  /\ \A r \in DOMAIN c.cache : \A f \in c.cache[r].forks :
                        f[3] \in DOMAIN n.deltas /\ <<r, f[1], f[2]>> \in n.deltas[f[3]]
  BY Zenon, <1>2, <1>4, AppendFacts
<1>6. /\ BankOK(n.slot, n.bank) /\ n.bank.status = "frozen"
      /\ n.bank.chain \subseteq Slots /\ n.slot \in n.bank.chain /\ n.slot \in Nat
      /\ \A x \in n.bank.chain : x \in Nat /\ x <= n.slot
      /\ n.roots \subseteq n.bank.chain /\ 0 \in n.bank.chain
  <2>1. BankOK(n.slot, n.bank) /\ n.bank.status = "frozen" /\ n.roots \subseteq n.bank.chain
    BY Zenon, <1>4 DEF SnapOK
  <2> QED
    BY Zenon, <2>1, SlotFacts DEF BankOK
<1>7. ForksInv'
  <2>1. \A x \in n.bank.chain : x >= n.slot => x = n.slot
    BY <1>6
  <2>2. n.bank.chain = {y \in n.bank.chain : y <= n.slot}
    BY Zenon, <1>6
  <2> QED
    BY Zenon, <1>3, <1>6, <2>1, <2>2 DEF ForksInv
<1>8. /\ c.roots \subseteq Slots /\ n.roots \subseteq c.roots
      /\ sc'.roots \subseteq n.bank.chain
      /\ Cardinality(sc'.roots) <= MaxCacheEntries
      /\ \A x \in c.roots : x \in sc'.roots \/ Gone(sc'.roots, x)
      /\ \A x \in Slots : Gone(c.roots, x) => Gone(sc'.roots, x)
  BY Zenon, <1>5, <1>6 DEF Purges
<1>9. \A x \in n.bank.chain : x \in sc'.roots \/ Gone(sc'.roots, x)
  <2> SUFFICES ASSUME NEW x \in n.bank.chain PROVE x \in sc'.roots \/ Gone(sc'.roots, x)
    BY Zenon
  <2>1. x \in n.roots \/ Gone(n.roots, x)
    BY Zenon, <1>4 DEF SnapOK
  <2>2. Gone(n.roots, x) => Gone(c.roots, x)
    BY Zenon, <1>8, MoreRoots
  <2> QED
    BY Zenon, <1>6, <1>8, <2>1, <2>2
<1>10. RootsInv'
  BY Zenon, <1>3, <1>6, <1>8, <1>9 DEF RootsInv
<1>11. CacheOK(sc')
  BY Zenon, <1>5, PurgedCache
<1>12. EntriesInv'
  <2> SUFFICES ASSUME NEW r \in DOMAIN sc'.cache, NEW f \in sc'.cache[r].forks
               PROVE  /\ ~(f[3] > n.slot)
                      /\ f[3] \in repaired \/ [recent |-> r, key |-> f[2]] \in DOMAIN n.bank.done
    BY Zenon, <1>3 DEF EntriesInv
  <2>1. r \in DOMAIN c.cache /\ f \in c.cache[r].forks
    BY Zenon, <1>5 DEF Purges
  <2>2. f[3] \in DOMAIN n.deltas /\ <<r, f[1], f[2]>> \in n.deltas[f[3]]
    BY Zenon, <1>5, <2>1
  <2>3. f[3] \in n.roots
    BY Zenon, <1>4, <2>2 DEF SnapOK
  <2>4. PICK d \in n.deltas[f[3]] : d = <<r, f[1], f[2]>>
    BY Zenon, <2>2
  <2>5. d[1] = r /\ d[3] = f[2]
    BY Zenon, <2>4
  <2>6. f[3] \in repaired \/ [recent |-> d[1], key |-> d[3]] \in DOMAIN n.bank.done
    BY Zenon, <1>4, <2>2 DEF SnapOK
  <2> QED
    BY <1>6, <2>3, <2>5, <2>6
<1>13. TracesInv'
  <2>1. Traced(n.bank, n.roots, n.deltas)
    BY Zenon, <1>4 DEF SnapOK
  <2>2. Traced(n.bank, c.roots, c.deltas)
    BY Zenon, <1>5, <1>8, <2>1, TracedMore
  <2>3. Traced(n.bank, sc'.roots, sc'.deltas)
    BY Zenon, <1>5, <1>6, <2>2, PurgedTraces
  <2> QED
    BY Zenon, <1>3, <2>3 DEF TracesInv
<1>14. SnapsInv'
  BY Zenon, <1>3 DEF Inv, SnapsInv
<1>15. ThreadsInv'
  <2>1. \A t \in Threads : threads'[t] = Idle
    BY Zenon, <1>3
  <2>2. Idle.pc = "idle"
    BY Zenon DEF Idle
  <2> QED
    BY Zenon, <1>3, <2>1, <2>2, IdleOK DEF ThreadsInv, Apart
<1> QED
  BY Zenon, <1>7, <1>10, <1>11, <1>12, <1>13, <1>14, <1>15 DEF Inv

-----------------------------------------------------------------------------
(* Theorems.                                                               *)

(* The invariant is inductive.                                             *)
LEMMA NextInv ==
    ASSUME SetFacts, Inv, [Next]_vars
    PROVE  Inv'
<1>1. ASSUME NEW t \in Threads, NEW b \in DOMAIN banks, NEW tx \in Submitted[<<t, b>>],
             CheckAge(t, b, tx)
      PROVE  Inv'
  BY Zenon, <1>1, CheckAgeInv
<1>2. ASSUME NEW t \in Threads, CheckStatusCache(t) \/ Record(t)
      PROVE  Inv'
  BY Zenon, <1>2, CheckStatusCacheInv, RecordInv
<1>3. ASSUME NEW t \in Threads, NEW ok \in BOOLEAN, NEW drawn \in Indexes, Commit(t, ok, drawn)
      PROVE  Inv'
  BY Zenon, <1>3, CommitInv
<1>4. ASSUME NEW p \in Slots, NEW s \in Slots, NewBank(p, s)
      PROVE  Inv'
  BY Zenon, <1>4, NewBankInv
<1>5. ASSUME NEW b \in DOMAIN banks, LastTick(b) \/ Freeze(b) \/ SetRoot(b) \/ Dump(b)
      PROVE  Inv'
  BY Zenon, <1>5, LastTickInv, FreezeInv, SetRootInv, DumpInv
<1>6. ASSUME NEW s \in pruned, RepairPruned(s)
      PROVE  Inv'
  BY Zenon, <1>6, RepairPrunedInv
<1>7. ASSUME SquashOne \/ RequestSnapshot \/ Prune \/ WriteSnapshot
      PROVE  Inv'
  BY Zenon, <1>7, SquashOneInv, RequestSnapshotInv, PruneInv, WriteSnapshotInv
<1>8. ASSUME NEW index, Restart(index)
      PROVE  Inv'
  BY Zenon, <1>8, RestartInv
<1>9. ASSUME UNCHANGED vars
      PROVE  Inv'
  <2>1. UNCHANGED <<banks, root, stage, target, pending, sc, threads, request, snapshot, pruned, repaired>>
    BY Zenon, <1>9 DEF vars
  <2>2. ForksInv' /\ RootsInv'
    BY <2>1 DEF Inv, ForksInv, RootsInv
  <2>3. CacheOK(sc') /\ EntriesInv' /\ TracesInv' /\ SnapsInv'
    BY Zenon, <2>1 DEF Inv, EntriesInv, TracesInv, SnapsInv
  <2>4. ThreadsInv'
    BY Zenon, <2>1, ThreadsSame DEF Inv
  <2> QED
    BY Zenon, <2>2, <2>3, <2>4 DEF Inv
<1> QED
  BY Zenon, <1>1, <1>2, <1>3, <1>4, <1>5, <1>6, <1>7, <1>8, <1>9 DEF Next

LEMMA IsExact ==
    ASSUME SetFacts, Inv
    PROVE  StatusIsExact
<1> SUFFICES ASSUME NEW b \in Live, NEW tx \in Transactions
             PROVE  /\ GetStatus(sc, tx, banks[b].ancestors) =>
                          \/ tx \in DOMAIN banks[b].done
                          \/ \E s \in repaired :
                                <<sc.cache[tx.recent].index, tx.key, s>>
                                    \in sc.cache[tx.recent].forks
                    /\ (tx \in DOMAIN banks[b].done /\ CheckTransactionAge(b, tx)) =>
                          GetStatus(sc, tx, banks[b].ancestors)
  BY Zenon DEF StatusIsExact
<1>1. b \in DOMAIN banks /\ root \in banks[b].chain /\ BankOK(b, banks[b])
  BY Zenon DEF Live, Inv, ForksInv
<1>2. /\ b \in Nat /\ root \in Nat
      /\ \A x \in banks[b].chain : x \in Nat /\ x <= b
      /\ \A y \in Nat : y \in banks[root].chain <=> y \in banks[b].chain /\ y <= root
  BY Zenon, <1>1, ForkFacts DEF Inv, ForksInv
<1>3. ASSUME GetStatus(sc, tx, banks[b].ancestors)
      PROVE  \/ tx \in DOMAIN banks[b].done
             \/ \E s \in repaired :
                   <<sc.cache[tx.recent].index, tx.key, s>> \in sc.cache[tx.recent].forks
  <2>1. PICK s \in banks[b].ancestors \cup sc.roots :
             <<sc.cache[tx.recent].index, tx.key, s>> \in sc.cache[tx.recent].forks
    BY Zenon, <1>3 DEF GetStatus
  <2>2. tx.recent \in DOMAIN sc.cache
    BY Zenon, <1>3 DEF GetStatus
  <2>3. s \in banks[b].chain
    <3>1. CASE s \in banks[b].ancestors
      BY Zenon, <1>1, <3>1 DEF BankOK
    <3>2. CASE s \in sc.roots
      <4>1. s \in banks[root].chain
        BY Zenon, <3>2 DEF Inv, RootsInv
      <4>2. s \in Nat
        BY Zenon, <4>1, ForkFacts DEF Inv, ForksInv
      <4> QED
        BY Zenon, <1>2, <4>1, <4>2
    <3> QED
      BY Zenon, <2>1, <3>1, <3>2
  <2>4. PICK f \in sc.cache[tx.recent].forks : f = <<sc.cache[tx.recent].index, tx.key, s>>
    BY Zenon, <2>1
  <2>5. f[3] = s /\ f[2] = tx.key
    BY Zenon, <2>4
  <2>6. f[3] \in repaired \/ [recent |-> tx.recent, key |-> f[2]] \in DOMAIN banks[b].done
    BY Zenon, <1>1, <2>2, <2>3, <2>5 DEF Inv, EntriesInv
  <2>7. tx = [recent |-> tx.recent, key |-> tx.key]
    BY Zenon DEF Transactions
  <2> QED
    BY Zenon, <2>1, <2>5, <2>6, <2>7
<1>4. ASSUME tx \in DOMAIN banks[b].done, CheckTransactionAge(b, tx),
             ~GetStatus(sc, tx, banks[b].ancestors)
      PROVE  FALSE
  <2>1. CASE tx.recent.durable
    <3>1. tx.recent.hash < banks[b].nonce /\ banks[b].nonce \in Int
      BY Zenon, <1>1, <1>4, <2>1 DEF BankOK
    <3>2. tx.recent.hash = banks[b].nonce
      BY Zenon, <1>4, <2>1 DEF CheckTransactionAge
    <3> QED
      BY <3>1, <3>2
  <2>2. CASE ~tx.recent.durable
    <3> DEFINE S == Closed(b, banks[b])
               q == banks[b].queue
    <3>1. S \subseteq banks[b].chain /\ banks[b].chain \ {b} \subseteq S
      BY Zenon DEF Closed
    <3>2. b = root => b \in S
      BY Zenon, <1>1 DEF Closed, Inv, ForksInv
    <3>3. Cardinality(Above(S, tx.recent.hash)) > MaxAge
      <4> HIDE DEF S
      <4> QED
        BY Zenon, <1>1, <1>4, <2>2, <3>1, <3>2, Forgotten
    <3>4. tx.recent.hash \in DOMAIN q.ages /\ q.last - q.ages[tx.recent.hash] <= MaxAge
      BY Zenon, <1>4, <2>2 DEF CheckTransactionAge, IsHashValidForAge, IsHashIndexValid
    <3>5. QueueOK(q, S)
      BY Zenon, <1>1 DEF BankOK
    <3>6. q.last - q.ages[tx.recent.hash] = Cardinality(Above(S, tx.recent.hash))
      <4> HIDE DEF S, q
      <4> QED
        BY Zenon, <3>4, <3>5 DEF QueueOK
    <3>7. banks[b].chain \subseteq Slots
      BY Zenon, <1>1 DEF BankOK
    <3>8. Cardinality(Above(S, tx.recent.hash)) \in Nat
      <4> HIDE DEF S
      <4> QED
        BY Zenon, <3>1, <3>7, AboveType
    <3> HIDE DEF S, q
    <3> QED
      BY <3>3, <3>4, <3>6, <3>8, SizeAssumption
  <2> QED
    BY Zenon, <2>1, <2>2
<1> QED
  BY Zenon, <1>3, <1>4

LEMMA SnapsVerify ==
    ASSUME SetFacts, Inv
    PROVE  SnapshotVerifies
<1> SUFFICES ASSUME NEW n \in request \cup {snapshot}
             PROVE  /\ Cardinality(n.roots) <= MaxCacheEntries
                    /\ n.roots \subseteq n.bank.chain
                    /\ \A x \in n.bank.chain \ n.roots :
                          Cardinality({y \in n.bank.chain : y > x}) >= MaxCacheEntries
  BY Zenon DEF SnapshotVerifies
<1>1. SnapOK(n, repaired)
  BY Zenon DEF Inv, SnapsInv
<1>2. /\ Cardinality(n.roots) <= MaxCacheEntries
      /\ n.roots \subseteq n.bank.chain
      /\ n.bank.chain \subseteq Slots
      /\ \A x \in n.bank.chain : x \in n.roots \/ Gone(n.roots, x)
  BY Zenon, <1>1 DEF SnapOK, BankOK
<1>3. ASSUME NEW x \in n.bank.chain \ n.roots
      PROVE  Cardinality({y \in n.bank.chain : y > x}) >= MaxCacheEntries
  <2>1. Gone(n.roots, x)
    BY Zenon, <1>2, <1>3
  <2>2. Gone(n.bank.chain, x)
    BY Zenon, <1>2, <2>1, MoreRoots
  <2> QED
    BY Zenon, <2>2 DEF Gone, Above
<1> QED
  BY Zenon, <1>2, <1>3

LEMMA AreReplayed ==
    ASSUME Inv
    PROVE  CommitsAsReplayed
<1> SUFFICES ASSUME NEW t \in Threads, threads[t].pc = "recorded", Present(t),
                    NEW b, b = threads[t].bank
             PROVE  /\ banks[b].status # "frozen"
                    /\ threads[t].tx.recent.durable =>
                         \A ok \in BOOLEAN, x \in banks[b].chain \ {b} :
                            /\ NonceAfter(b, threads[t], ok) \in banks[b].chain \ {b}
                            /\ x <= NonceAfter(b, threads[t], ok)
  BY Zenon DEF CommitsAsReplayed
<1>1. RecordedOK(threads[t], banks, root)
  BY Zenon DEF Inv, ThreadsInv, ThreadOK
<1>2. /\ banks[b].status # "frozen"
      /\ threads[t].executed = threads[t].recorded
      /\ threads[t].recorded \in banks[b].chain \ {b}
      /\ \A x \in banks[b].chain \ {b} : x <= threads[t].recorded
  BY Zenon, <1>1 DEF RecordedOK, Present
<1>3. threads[t].tx.recent.durable =>
          \A ok \in BOOLEAN : NonceAfter(b, threads[t], ok) = threads[t].recorded
  BY Zenon, <1>2 DEF NonceAfter
<1> QED
  BY Zenon, <1>2, <1>3

-----------------------------------------------------------------------------
(* The refinement of Ledger.tla.                                           *)

KeptLedger == [b \in Kept |-> banks[b].done]
SavedForks == {[slot |-> n.slot, done |-> n.bank.done] : n \in request \cup {snapshot}}

(* While no root is being set every bank is kept.                          *)
LEMMA AllKept ==
    ASSUME Inv, stage = "idle"
    PROVE  Kept = DOMAIN banks
BY Zenon DEF Inv, ForksInv, Kept, Live

(* A step that changes no chain, no ledger, no root and no snapshot is     *)
(* invisible.                                                              *)
LEMMA Invisible ==
    ASSUME Inv, UNCHANGED <<root, request, snapshot>>, DOMAIN banks' = DOMAIN banks,
           \A x \in DOMAIN banks : /\ banks'[x].chain = banks[x].chain
                                   /\ banks'[x].done = banks[x].done
    PROVE  KeptLedger' = KeptLedger /\ SavedForks' = SavedForks
<1>1. Live' = Live
  BY Zenon DEF Live
<1>2. root \in DOMAIN banks
  BY Zenon DEF Inv, ForksInv
<1>3. Kept' = Kept /\ Kept \subseteq DOMAIN banks
  BY Zenon, <1>1, <1>2 DEF Kept, Live
<1>4. KeptLedger' = KeptLedger
  BY Zenon, <1>3 DEF KeptLedger
<1> QED
  BY Zenon, <1>4 DEF SavedForks

(* A step after which every bank that is kept was kept, with the ledger it *)
(* had.                                                                    *)
LEMMA Abandoning ==
    ASSUME UNCHANGED <<request, snapshot>>, Kept' \subseteq Kept,
           \A x \in Kept' : banks'[x].done = banks[x].done
    PROVE  LedgerView!Next
<1>1. DOMAIN KeptLedger' = Kept' /\ DOMAIN KeptLedger = Kept
  BY Zenon DEF KeptLedger
<1>2. KeptLedger' = [s \in Kept' |-> KeptLedger[s]]
  BY Zenon DEF KeptLedger
<1>3. SavedForks' = SavedForks
  BY Zenon DEF SavedForks
<1>4. LedgerView!Abandon
  BY Zenon, <1>1, <1>2, <1>3 DEF LedgerView!Abandon, KeptLedger, SavedForks
<1> QED
  BY Zenon, <1>4 DEF LedgerView!Next

LEMMA CommitRefines ==
    ASSUME Inv, NEW t \in Threads, NEW ok \in BOOLEAN, NEW drawn \in Indexes,
           Commit(t, ok, drawn)
    PROVE  LedgerView!Next \/ (KeptLedger' = KeptLedger /\ SavedForks' = SavedForks)
<1>1. PICK th : th = threads[t]
  BY Zenon
<1>2. PICK b : b = th.bank
  BY Zenon
<1>3. /\ DOMAIN banks' = DOMAIN banks
      /\ UNCHANGED <<root, request, snapshot>>
      /\ \A x \in DOMAIN banks \ {b} : banks'[x] = banks[x]
  BY Zenon, <1>1, <1>2 DEF Commit
<1>4. ASSUME b \in DOMAIN banks
      PROVE  /\ banks'[b].chain = banks[b].chain
             /\ banks'[b].done = Process(banks[b].done, th.tx, b)
  <2>1. /\ banks'[b] = [banks[b] EXCEPT !.nonce = NonceAfter(b, th, ok),
                                        !.done = Process(@, th.tx, b)]
    BY Zenon, <1>1, <1>2, <1>4 DEF Commit
  <2>2. DOMAIN banks[b] = {"chain", "ancestors", "status", "queue", "nonce", "done"}
    BY Zenon, <1>4 DEF Inv, ForksInv, BankOK
  <2> QED
    BY Zenon, <2>1, <2>2
<1>5. root \in DOMAIN banks
  BY Zenon DEF Inv, ForksInv
<1>6. \A x \in DOMAIN banks : banks'[x].chain = banks[x].chain
  BY Zenon, <1>3, <1>4
<1>7. Kept' = Kept /\ Kept \subseteq DOMAIN banks
  BY Zenon, <1>3, <1>5, <1>6 DEF Kept, Live
<1>8. SavedForks' = SavedForks
  BY Zenon, <1>3 DEF SavedForks
<1>9. CASE b \notin Kept
  <2>1. \A x \in Kept : banks'[x].done = banks[x].done
    BY Zenon, <1>3, <1>7, <1>9
  <2>2. KeptLedger' = KeptLedger
    BY Zenon, <1>7, <2>1 DEF KeptLedger
  <2> QED
    BY Zenon, <1>8, <2>2
<1>10. CASE b \in Kept
  <2>1. b \in DOMAIN banks
    BY Zenon, <1>7, <1>10
  <2>2. th.pc = "recorded"
    BY Zenon, <1>1 DEF Commit
  <2>3. ThreadOK(th, banks, root, pruned)
    BY Zenon, <1>1 DEF Inv, ThreadsInv
  <2>4. BusyOK(th, banks, root, pruned) /\ RecordedOK(th, banks, root)
    BY Zenon, <2>2, <2>3 DEF ThreadOK
  <2>5. banks[b].status # "frozen" /\ th.tx \in Transactions
    BY Zenon, <1>2, <2>1, <2>4 DEF BusyOK, RecordedOK
  <2>6. root \in banks[b].chain
    <3>1. ASSUME b \in banks[root].chain
          PROVE  FALSE
      BY Zenon, <1>5, <2>1, <2>5, <3>1 DEF Inv, ForksInv
    <3> QED
      BY Zenon, <1>10, <3>1 DEF Kept, Live
  <2>7. th.tx \notin DOMAIN banks[b].done
    BY Zenon, <1>2, <2>1, <2>4, <2>6 DEF RecordedOK
  <2>8. banks'[b].done = [x \in DOMAIN banks[b].done \cup {th.tx} |->
                            IF x = th.tx THEN <<b>> ELSE banks[b].done[x]]
    BY Zenon, <1>4, <2>1, <2>7 DEF Process
  <2>9. \A x \in Kept : x # b => banks'[x].done = banks[x].done
    BY Zenon, <1>3, <1>7
  <2>10. /\ DOMAIN KeptLedger = Kept /\ KeptLedger[b] = banks[b].done
    BY Zenon, <1>10 DEF KeptLedger
  <2>11. KeptLedger' = [KeptLedger EXCEPT ![b] =
            [x \in DOMAIN KeptLedger[b] \cup {th.tx} |->
                IF x = th.tx THEN <<b>> ELSE KeptLedger[b][x]]]
    BY Zenon, <1>7, <1>10, <2>8, <2>9, <2>10 DEF KeptLedger
  <2>12. b \in DOMAIN KeptLedger /\ th.tx \in Transactions \ DOMAIN KeptLedger[b]
    BY Zenon, <1>10, <2>5, <2>7, <2>10
  <2>13. LedgerView!Process
    BY ZenonT(60), <1>8, <2>11, <2>12 DEF LedgerView!Process, KeptLedger, SavedForks
  <2> QED
    BY Zenon, <2>13 DEF LedgerView!Next
<1> QED
  BY Zenon, <1>9, <1>10

LEMMA NewBankRefines ==
    ASSUME Inv, Inv', NEW p \in Slots, NEW s \in Slots, NewBank(p, s)
    PROVE  LedgerView!Next
<1>1. /\ p \in DOMAIN banks /\ s \notin DOMAIN banks /\ stage = "idle" /\ stage' = "idle"
      /\ DOMAIN banks' = DOMAIN banks \cup {s}
      /\ UNCHANGED <<request, snapshot>>
      /\ \A x \in DOMAIN banks : banks'[x] = banks[x]
  BY Zenon DEF NewBank
<1>2. banks'[s].done = banks[p].done
  <2>1. banks'[s] = [banks[p] EXCEPT
                        !.chain = @ \cup {s},
                        !.ancestors = {x \in banks[p].chain : x >= root} \cup {s},
                        !.status = "open"]
    BY Zenon DEF NewBank
  <2>2. DOMAIN banks[p] = {"chain", "ancestors", "status", "queue", "nonce", "done"}
    BY Zenon, <1>1 DEF Inv, ForksInv, BankOK
  <2> QED
    BY Zenon, <2>1, <2>2
<1>3. Kept = DOMAIN banks
  BY Zenon, <1>1, AllKept
<1>4. Kept' = DOMAIN banks'
  BY Zenon, <1>1 DEF Inv, ForksInv, Kept, Live
<1>5. DOMAIN KeptLedger = DOMAIN banks /\ KeptLedger[p] = banks[p].done
  BY Zenon, <1>1, <1>3 DEF KeptLedger
<1>6. KeptLedger' = [x \in DOMAIN KeptLedger \cup {s} |->
                        IF x = s THEN KeptLedger[p] ELSE KeptLedger[x]]
  BY Zenon, <1>1, <1>2, <1>3, <1>4, <1>5 DEF KeptLedger
<1>7. SavedForks' = SavedForks
  BY Zenon, <1>1 DEF SavedForks
<1>8. LedgerView!Extend
  BY <1>1, <1>5, <1>6, <1>7 DEF LedgerView!Extend, KeptLedger, SavedForks
<1> QED
  BY Zenon, <1>8 DEF LedgerView!Next

LEMMA AbandonRefines ==
    ASSUME Inv, Inv'
    PROVE  /\ \A b \in DOMAIN banks : SetRoot(b) \/ Dump(b) => LedgerView!Next
           /\ Prune => LedgerView!Next
<1>1. ASSUME NEW b \in DOMAIN banks, SetRoot(b)
      PROVE  LedgerView!Next
  <2>1. UNCHANGED <<banks, request, snapshot>> /\ stage = "idle"
    BY Zenon, <1>1 DEF SetRoot
  <2>2. Kept = DOMAIN banks /\ Kept' \subseteq DOMAIN banks'
    BY Zenon, <2>1, AllKept DEF Kept, Live
  <2> QED
    BY Zenon, <2>1, <2>2, Abandoning
<1>2. ASSUME NEW b \in DOMAIN banks, Dump(b)
      PROVE  LedgerView!Next
  <2>1. /\ UNCHANGED <<request, snapshot>> /\ stage = "idle"
        /\ DOMAIN banks' \subseteq DOMAIN banks
        /\ \A x \in DOMAIN banks' : banks'[x] = banks[x]
    BY Zenon, <1>2 DEF Dump
  <2>2. Kept = DOMAIN banks /\ Kept' \subseteq DOMAIN banks'
    BY Zenon, <2>1, AllKept DEF Kept, Live
  <2> QED
    BY Zenon, <2>1, <2>2, Abandoning
<1>3. ASSUME Prune
      PROVE  LedgerView!Next
  <2>1. /\ UNCHANGED <<root, request, snapshot>> /\ stage' = "idle"
        /\ \A x \in DOMAIN banks' : x \in Live /\ banks'[x] = banks[x]
    BY Zenon, <1>3 DEF Prune, Live
  <2>2. Kept' \subseteq DOMAIN banks' /\ Live \subseteq Kept
    BY Zenon DEF Kept, Live
  <2> QED
    BY Zenon, <2>1, <2>2, Abandoning
<1> QED
  BY Zenon, <1>1, <1>2, <1>3

LEMMA SnapshotRefines ==
    ASSUME Inv, RequestSnapshot \/ WriteSnapshot
    PROVE  LedgerView!Next
<1>1. UNCHANGED <<banks, root>>
  BY Zenon DEF RequestSnapshot, WriteSnapshot
<1>2. KeptLedger' = KeptLedger
  BY Zenon, <1>1 DEF KeptLedger, Kept, Live
<1>3. ASSUME NEW f \in SavedForks' \ SavedForks
      PROVE  f.slot \in DOMAIN KeptLedger /\ f.done = KeptLedger[f.slot]
  <2>1. PICK n \in (request \cup {snapshot})' : f = [slot |-> n.slot, done |-> n.bank.done]
    BY Zenon, <1>3 DEF SavedForks
  <2>2. n \notin request \cup {snapshot}
    BY Zenon, <1>3, <2>1 DEF SavedForks
  <2>3. CASE WriteSnapshot
    BY Zenon, <2>1, <2>2, <2>3 DEF WriteSnapshot, NoRequest
  <2>4. CASE RequestSnapshot
    <3>1. n.slot = target /\ n.bank = banks[target]
      BY <2>1, <2>2, <2>4 DEF RequestSnapshot
    <3>2. target \in Kept
      BY Zenon DEF Inv, RootsInv, Kept
    <3> QED
      BY Zenon, <2>1, <3>1, <3>2 DEF KeptLedger
  <2> QED
    BY Zenon, <2>3, <2>4
<1>4. LedgerView!Save
  BY Zenon, <1>2, <1>3 DEF LedgerView!Save, KeptLedger, SavedForks
<1> QED
  BY Zenon, <1>4 DEF LedgerView!Next

LEMMA RestartRefines ==
    ASSUME Inv, NEW index, Restart(index)
    PROVE  LedgerView!Next
<1>1. /\ banks' = [x \in {snapshot.slot} |-> snapshot.bank]
      /\ root' = snapshot.slot /\ request' = {} /\ snapshot' = snapshot
  BY Zenon DEF Restart, NoRequest
<1>2. snapshot.slot \in snapshot.bank.chain
  BY Zenon DEF Inv, SnapsInv, SnapOK, BankOK
<1>3. Kept' = {snapshot.slot}
  BY Zenon, <1>1, <1>2 DEF Kept, Live
<1>4. PICK f : f = [slot |-> snapshot.slot, done |-> snapshot.bank.done]
  BY Zenon
<1>5. KeptLedger' = [s \in {f.slot} |-> f.done]
  BY Zenon, <1>1, <1>3, <1>4 DEF KeptLedger
<1>6. SavedForks' = {f} /\ f \in SavedForks
  BY Zenon, <1>1, <1>4 DEF SavedForks
<1>7. LedgerView!Restart
  BY Zenon, <1>5, <1>6 DEF LedgerView!Restart, KeptLedger, SavedForks
<1> QED
  BY Zenon, <1>7 DEF LedgerView!Next

LEMMA InitRefines ==
    ASSUME Init
    PROVE  LedgerView!Init
<1>1. /\ banks = [s \in {0} |-> GenesisBank] /\ root = 0 /\ request = {}
      /\ snapshot.slot = 0 /\ snapshot.bank = GenesisBank
  BY Zenon DEF Init, NoRequest
<1>2. GenesisBank.done = Nowhere /\ GenesisBank.chain = {0}
  BY Zenon DEF GenesisBank
<1>3. Kept = {0}
  BY Zenon, <1>1, <1>2 DEF Kept, Live
<1>4. LedgerView!Nowhere = Nowhere
  BY Zenon DEF LedgerView!Nowhere, Nowhere
<1>5. KeptLedger = [s \in {0} |-> LedgerView!Nowhere]
  BY Zenon, <1>1, <1>2, <1>3, <1>4 DEF KeptLedger
<1>6. SavedForks = {[slot |-> 0, done |-> LedgerView!Nowhere]}
  BY Zenon, <1>1, <1>2, <1>4 DEF SavedForks
<1> QED
  BY Zenon, <1>5, <1>6 DEF LedgerView!Init, KeptLedger, SavedForks

LEMMA NextRefines ==
    ASSUME Inv, Inv', [Next]_vars
    PROVE  [LedgerView!Next]_(LedgerView!vars)
<1> SUFFICES LedgerView!Next \/ (KeptLedger' = KeptLedger /\ SavedForks' = SavedForks)
  BY Zenon DEF LedgerView!vars, KeptLedger, SavedForks
<1>1. ASSUME UNCHANGED <<banks, root, request, snapshot>>
      PROVE  KeptLedger' = KeptLedger /\ SavedForks' = SavedForks
  BY Zenon, <1>1, Invisible
<1>2. ASSUME NEW t \in Threads, NEW b \in DOMAIN banks, NEW tx \in Submitted[<<t, b>>],
             CheckAge(t, b, tx)
      PROVE  KeptLedger' = KeptLedger /\ SavedForks' = SavedForks
  BY Zenon, <1>1, <1>2 DEF CheckAge
<1>3. ASSUME NEW t \in Threads, CheckStatusCache(t) \/ Record(t)
      PROVE  KeptLedger' = KeptLedger /\ SavedForks' = SavedForks
  BY Zenon, <1>1, <1>3 DEF CheckStatusCache, Record
<1>4. ASSUME NEW b \in DOMAIN banks, LastTick(b) \/ Freeze(b)
      PROVE  KeptLedger' = KeptLedger /\ SavedForks' = SavedForks
  <2>1. UNCHANGED <<root, request, snapshot>> /\ DOMAIN banks' = DOMAIN banks
    BY Zenon, <1>4 DEF LastTick, Freeze
  <2>2. DOMAIN banks[b] = {"chain", "ancestors", "status", "queue", "nonce", "done"}
    BY Zenon DEF Inv, ForksInv, BankOK
  <2>3. ASSUME NEW x \in DOMAIN banks
        PROVE  banks'[x].chain = banks[x].chain /\ banks'[x].done = banks[x].done
    BY <1>4, <2>2 DEF LastTick, Freeze
  <2> QED
    BY Zenon, <2>1, <2>3, Invisible
<1>5. ASSUME NEW s \in pruned, RepairPruned(s)
      PROVE  KeptLedger' = KeptLedger /\ SavedForks' = SavedForks
  BY Zenon, <1>1, <1>5 DEF RepairPruned
<1>6. ASSUME SquashOne \/ UNCHANGED vars
      PROVE  KeptLedger' = KeptLedger /\ SavedForks' = SavedForks
  BY Zenon, <1>1, <1>6 DEF SquashOne, vars
<1>7. ASSUME NEW b \in DOMAIN banks, SetRoot(b) \/ Dump(b)
      PROVE  LedgerView!Next
  BY Zenon, <1>7, AbandonRefines
<1>8. ASSUME RequestSnapshot \/ Prune \/ WriteSnapshot
      PROVE  LedgerView!Next
  BY Zenon, <1>8, AbandonRefines, SnapshotRefines
<1> QED
  BY Zenon, <1>2, <1>3, <1>4, <1>5, <1>6, <1>7, <1>8, CommitRefines, NewBankRefines,
     RestartRefines DEF Next

-----------------------------------------------------------------------------
INSTANCE FiniteSetTheorems

LEMMA SetFactsHold == SetFacts
<1>1. IsFiniteSet(Slots)
  BY SizeAssumption, FS_Interval DEF Slots
<1>2. ASSUME NEW S, S \subseteq Nat, S # {}
      PROVE  \E x \in S : \A y \in S : x <= y
  <2> DEFINE R == {ss \in Nat \X Nat : ss[1] < ss[2]}
  <2>1. IsWellFoundedOn(R, Nat)
    BY Zenon, NatLessThanWellFounded DEF OpToRel
  <2>2. PICK x \in S : \A y \in S : <<y, x>> \notin R
    <3> HIDE DEF R
    <3> QED
      BY Zenon, <1>2, <2>1, WFMin
  <2>3. ASSUME NEW y \in S
        PROVE  x <= y
    <3>1. <<y, x>> \in Nat \X Nat /\ <<y, x>>[1] = y /\ <<y, x>>[2] = x
      BY Zenon, <1>2
    <3>2. ~(y < x)
      BY Zenon, <2>2, <3>1
    <3> QED
      BY <1>2, <3>2
  <2> QED
    BY Zenon, <2>3
<1> QED
  BY Zenon, <1>1, <1>2, FS_CardinalityType, FS_EmptySet, FS_Subset, FS_AddElement,
     FS_RemoveElement DEF SetFacts

THEOREM Invariance == Spec => []Inv
<1>1. Init => Inv
  BY Zenon, SetFactsHold, InitInv
<1>2. Inv /\ [Next]_vars => Inv'
  BY Zenon, SetFactsHold, NextInv
<1> QED
  BY <1>1, <1>2, PTL DEF Spec

(* On a live bank, get_status answers for a transaction with a valid       *)
(* blockhash or nonce exactly what happened on the bank's fork, but for    *)
(* the entries of a slot that was repaired after it was pruned.            *)
THEOREM Exactness == Spec => []StatusIsExact
<1>1. Inv => StatusIsExact
  BY Zenon, SetFactsHold, IsExact
<1> QED
  BY <1>1, Invariance, PTL

(* clear_slot_entries never panics.                                        *)
THEOREM NoDumpPanics == Spec => []DeltasAreCached
<1>1. Inv => DeltasAreCached
  BY Zenon DEF Inv, CacheOK, DeltasAreCached
<1> QED
  BY <1>1, Invariance, PTL

(* verify_slot_deltas accepts every snapshot the validator writes.         *)
THEOREM SnapshotsVerify == Spec => []SnapshotVerifies
<1>1. Inv => SnapshotVerifies
  BY Zenon, SetFactsHold, SnapsVerify
<1> QED
  BY <1>1, Invariance, PTL

(* A recorded transaction commits to a bank that is not frozen, and a      *)
(* nonce advances from the hash that every replay of the block uses.       *)
THEOREM Replayable == Spec => []CommitsAsReplayed
<1>1. Inv => CommitsAsReplayed
  BY Zenon, AreReplayed
<1> QED
  BY <1>1, Invariance, PTL

(* The validator implements Ledger.tla: no fork processes a transaction    *)
(* twice, across purged roots, dumped slots and restarts.                  *)
THEOREM Refinement == Spec => ProcessedAtMostOnce
<1>1. Init => LedgerView!Init
  BY Zenon, InitRefines
<1>2. Inv /\ Inv' /\ [Next]_vars => [LedgerView!Next]_(LedgerView!vars)
  BY Zenon, NextRefines
<1> QED
  BY <1>1, <1>2, Invariance, PTL DEF Spec, ProcessedAtMostOnce, LedgerView!Spec

=============================================================================
