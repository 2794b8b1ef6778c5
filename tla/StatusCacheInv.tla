--------------------------- MODULE StatusCacheInv ---------------------------
(***************************************************************************)
(* The inductive invariant of StatusCache, the lemmas about its operators, *)
(* and the steps of the batches and of the forks: checking, recording,     *)
(* committing, forking, ticking, freezing and rooting.  StatusCacheProofs  *)
(* takes the other steps and concludes.                                    *)
(*                                                                         *)
(* The argument counts blocks.  A slot whose root was purged has           *)
(* MaxCacheEntries newer roots above it; a transaction that a slot         *)
(* processed names the hash of an earlier block; so a fork on which the    *)
(* slot's entries are gone has registered more than MaxAge hashes since,   *)
(* and check_age refuses the transaction before the cache is asked.        *)
(***************************************************************************)
EXTENDS StatusCache, TLAPS

Above(S, x) == {y \in S : y > x}

(* The root at x was purged, or will be when a fork with x gets there.     *)
Gone(roots, x) == Cardinality(Above(roots, x)) >= MaxCacheEntries

(* The blocks of bank b's fork whose hash its queue has registered.        *)
Closed(b, B) == IF B.status = "open" THEN B.chain \ {b} ELSE B.chain

(* The age of a hash is the number of blocks after it.                     *)
QueueOK(q, S) ==
    /\ q = [last |-> q.last, hash |-> q.hash, ages |-> q.ages]
    /\ q.last \in Int
    /\ q.hash \in S
    /\ \A x \in S : x <= q.hash
    /\ \A h \in DOMAIN q.ages :
          /\ h \in S \cup {Genesis}
          /\ q.ages[h] \in Int
          /\ q.last - q.ages[h] = Cardinality(Above(S, h))

BankOK(b, B) ==
    /\ DOMAIN B = {"chain", "ancestors", "status", "queue", "nonce", "done"}
    /\ B.chain \subseteq Slots
    /\ b \in B.chain
    /\ \A x \in B.chain : x <= b
    /\ 0 \in B.chain
    /\ B.ancestors \subseteq B.chain
    /\ B.status \in {"open", "ticked", "frozen"}
    /\ QueueOK(B.queue, Closed(b, B))
    /\ B.nonce \in Int
    /\ B.nonce <= B.queue.hash
    /\ \A tx \in DOMAIN B.done :
          /\ tx \in Transactions
          /\ tx.recent.durable => tx.recent.hash < B.nonce

(* What a fork has processed left a delta, or is purged.                   *)
Traced(B, roots, deltas) ==
    \A tx \in DOMAIN B.done : \E x \in B.chain :
        /\ ~tx.recent.durable => tx.recent.hash < x
        /\ \/ Gone(roots, x)
           \/ \E i \in Indexes : <<tx.recent, i, tx.key>> \in DeltasOf(deltas, x)

ForksInv ==
    /\ \A b \in DOMAIN banks : BankOK(b, banks[b])
    /\ \A b \in DOMAIN banks : \A x \in banks[b].chain :
          /\ x >= root => x \in DOMAIN banks
          /\ x \in DOMAIN banks =>
                banks[x].chain = {y \in banks[b].chain : y <= x}
          /\ x \in DOMAIN banks /\ x # b => banks[x].status = "frozen"
          /\ x \notin pruned
    /\ root \in DOMAIN banks
    /\ banks[root].status = "frozen"
    /\ stage = "idle" => \A b \in DOMAIN banks : root \in banks[b].chain

RootsInv ==
    /\ stage \in {"idle", "snapshot", "root"}
    /\ stage # "snapshot" => target = root
    /\ stage = "idle" => pending = {}
    /\ target \in DOMAIN banks
    /\ target \in banks[root].chain
    /\ \A x \in pending \cup sc.roots : x \in banks[root].chain /\ x <= target
    /\ Cardinality(sc.roots) <= MaxCacheEntries
    /\ \A x \in banks[root].chain :
          x <= target => x \in sc.roots \cup pending \/ Gone(sc.roots, x)
    /\ \A b \in DOMAIN banks : \A x \in banks[b].chain :
          x \in banks[b].ancestors \cup sc.roots \/ Gone(sc.roots, x)

CacheOK(c) ==
    /\ c = [cache |-> c.cache, roots |-> c.roots, deltas |-> c.deltas]
    /\ \A r \in DOMAIN c.cache :
          /\ r \in Recents
          /\ c.cache[r] = [max |-> c.cache[r].max, index |-> c.cache[r].index,
                           forks |-> c.cache[r].forks]
          /\ c.cache[r].max \in Slots
          /\ c.cache[r].index \in Indexes
          /\ \A f \in c.cache[r].forks :
                f \in Indexes \X Keys \X Slots /\ f[3] <= c.cache[r].max
    /\ \A s \in DOMAIN c.deltas :
          s \in Slots /\ c.deltas[s] \subseteq Recents \X Indexes \X Keys
    /\ \A s \in DOMAIN c.deltas : \A d \in c.deltas[s] :
          /\ d[1] \in DOMAIN c.cache
          /\ d[2] = c.cache[d[1]].index
          /\ <<d[2], d[3], s>> \in c.cache[d[1]].forks

(* An entry of a slot above the root has a delta, and the slot's bank is   *)
(* there, or was pruned and perhaps repaired since.  An entry of a slot on *)
(* a fork stands for a transaction that the fork processed.                *)
EntriesInv ==
    \A r \in DOMAIN sc.cache : \A f \in sc.cache[r].forks :
        /\ f[3] > root =>
              /\ <<r, f[1], f[2]>> \in DeltasOf(sc.deltas, f[3])
              /\ f[3] \in DOMAIN banks \cup pruned \cup repaired
        /\ \A b \in DOMAIN banks : f[3] \in banks[b].chain =>
              \/ f[3] \in repaired
              \/ [recent |-> r, key |-> f[2]] \in DOMAIN banks[b].done

TracesInv == \A b \in DOMAIN banks : Traced(banks[b], sc.roots, sc.deltas)

SnapOK(n, redone) ==
    /\ n = [slot |-> n.slot, bank |-> n.bank, roots |-> n.roots,
            deltas |-> n.deltas]
    /\ BankOK(n.slot, n.bank)
    /\ n.bank.status = "frozen"
    /\ n.roots \subseteq n.bank.chain
    /\ Cardinality(n.roots) <= MaxCacheEntries
    /\ \A x \in n.bank.chain : x \in n.roots \/ Gone(n.roots, x)
    /\ \A s \in DOMAIN n.deltas :
          s \in n.roots /\ n.deltas[s] \subseteq Recents \X Indexes \X Keys
    /\ \A s, u \in DOMAIN n.deltas : \A d \in n.deltas[s], e \in n.deltas[u] :
          d[1] = e[1] => d[2] = e[2]
    /\ \A s \in DOMAIN n.deltas : \A d \in n.deltas[s] :
          \/ s \in redone
          \/ [recent |-> d[1], key |-> d[3]] \in DOMAIN n.bank.done
    /\ Traced(n.bank, n.roots, n.deltas)

SnapsInv == \A n \in request \cup {snapshot} : SnapOK(n, repaired)

(* A thread at work, when BankForks has the banks B and the root r, and    *)
(* has pruned P.  Its bank is in BankForks, or will never be again.        *)
BusyOK(th, B, r, P) ==
    LET b == th.bank IN
    /\ b \in Slots
    /\ th.tx \in Transactions
    /\ b \in DOMAIN B \cup P \/ b <= r
    /\ b \in DOMAIN B =>
        /\ ~th.tx.recent.durable =>
              /\ th.tx.recent.hash < b
              /\ Cardinality(Above(B[b].chain \ {b}, th.tx.recent.hash)) <= MaxAge
        /\ th.tx.recent.durable =>
              /\ B[b].nonce = th.tx.recent.hash
              /\ \E y \in B[b].chain \ {b} : th.tx.recent.hash < y

ExecutedOK(th, B, r) ==
    LET b == th.bank IN
    b \in DOMAIN B =>
        /\ B[b].status = "open" => th.executed = B[b].queue.hash
        /\ (B[b].status # "frozen" /\ r \in B[b].chain) => th.tx \notin DOMAIN B[b].done

RecordedOK(th, B, r) ==
    LET b == th.bank IN
    /\ b \in DOMAIN B =>
        /\ B[b].status # "frozen"
        /\ th.executed = th.recorded
        /\ th.recorded \in B[b].chain \ {b}
        /\ \A x \in B[b].chain \ {b} : x <= th.recorded
        /\ r \in B[b].chain => th.tx \notin DOMAIN B[b].done
    /\ b \notin DOMAIN B => \A x \in DOMAIN B : b \notin B[x].chain

ThreadOK(th, B, r, P) ==
    /\ DOMAIN th = {"pc", "bank", "tx", "executed", "recorded"}
    /\ th.pc \in {"idle", "aged", "executed", "recorded"}
    /\ th.pc # "idle" => BusyOK(th, B, r, P)
    /\ th.pc = "executed" => ExecutedOK(th, B, r)
    /\ th.pc = "recorded" => RecordedOK(th, B, r)

(* The account locks.                                                      *)
Apart(th, ot) ==
    (th.pc # "idle" /\ ot.pc # "idle" /\ th.bank = ot.bank) =>
        /\ th.tx # ot.tx
        /\ ~(th.tx.recent.durable /\ ot.tx.recent.durable)

ThreadsInv ==
    /\ threads = [t \in Threads |-> threads[t]]
    /\ \A t \in Threads : ThreadOK(threads[t], banks, root, pruned)
    /\ \A t, u \in Threads : t # u => Apart(threads[t], threads[u])

Inv ==
    /\ ForksInv
    /\ RootsInv
    /\ CacheOK(sc)
    /\ EntriesInv
    /\ TracesInv
    /\ SnapsInv
    /\ ThreadsInv

-----------------------------------------------------------------------------
(* What the argument needs of finite sets and of the natural numbers: a    *)
(* hypothesis of the lemmas, until the last module takes it from the       *)
(* library of theorems.                                                    *)
SetFacts ==
    /\ IsFiniteSet(Slots)
    /\ Cardinality({}) = 0
    /\ \A S : IsFiniteSet(S) => Cardinality(S) \in Nat /\ (Cardinality(S) = 0 <=> S = {})
    /\ \A S, T : IsFiniteSet(T) /\ S \subseteq T => IsFiniteSet(S) /\ Cardinality(S) <= Cardinality(T)
    /\ \A S, x : IsFiniteSet(S) /\ x \notin S => Cardinality(S \cup {x}) = Cardinality(S) + 1
    /\ \A S, x : IsFiniteSet(S) /\ x \in S => Cardinality(S \ {x}) = Cardinality(S) - 1
    /\ \A S : S \subseteq Nat /\ S # {} => \E x \in S : \A y \in S : x <= y

(* Counting.                                                               *)

LEMMA SlotFacts ==
    /\ Slots \subseteq Nat
    /\ Slots \subseteq Int
    /\ 0 \in Slots
BY SizeAssumption DEF Slots

LEMMA Counted ==
    ASSUME SetFacts, NEW S, S \subseteq Slots
    PROVE  IsFiniteSet(S) /\ Cardinality(S) \in Nat
BY Zenon DEF SetFacts

LEMMA Fewer ==
    ASSUME SetFacts, NEW S, NEW T, S \subseteq T, T \subseteq Slots
    PROVE  Cardinality(S) <= Cardinality(T)
BY Zenon DEF SetFacts

LEMMA OneMore ==
    ASSUME SetFacts, NEW S, IsFiniteSet(S), NEW x, x \notin S
    PROVE  Cardinality(S \cup {x}) = Cardinality(S) + 1
BY Zenon DEF SetFacts

LEMMA OneLess ==
    ASSUME SetFacts, NEW S, IsFiniteSet(S), NEW x \in S
    PROVE  Cardinality(S \ {x}) = Cardinality(S) - 1
BY Zenon DEF SetFacts

LEMMA NoneOrOne ==
    ASSUME SetFacts
    PROVE  /\ Cardinality({}) = 0 /\ \A x : Cardinality({x}) = 1
           /\ \A S : IsFiniteSet(S) => (Cardinality(S) = 0 <=> S = {})
<1>1. Cardinality({}) = 0 /\ IsFiniteSet({})
  BY Zenon DEF SetFacts
<1>2. ASSUME NEW x
      PROVE  Cardinality({x}) = 1
  <2>1. {} \cup {x} = {x}
    BY Zenon
  <2> QED
    BY <1>1, <2>1, OneMore
<1> QED
  BY Zenon, <1>1, <1>2 DEF SetFacts

LEMMA AboveType ==
    ASSUME SetFacts, NEW S, S \subseteq Slots, NEW x
    PROVE  /\ Above(S, x) \subseteq S
           /\ IsFiniteSet(Above(S, x))
           /\ Cardinality(Above(S, x)) \in Nat
BY Zenon, Counted DEF Above

LEMMA MinFacts ==
    ASSUME SetFacts, NEW S, S \subseteq Slots, S # {}
    PROVE  MinOf(S) \in S /\ \A y \in S : MinOf(S) <= y
<1>1. \E x \in S : \A y \in S : x <= y
  BY Zenon, SlotFacts DEF SetFacts
<1> QED
  BY Zenon, <1>1 DEF MinOf

LEMMA MaxFacts ==
    ASSUME SetFacts, NEW S, S \subseteq Slots, S # {}
    PROVE  MaxOf(S) \in S /\ \A y \in S : y <= MaxOf(S)
<1> DEFINE T == {n \in Nat : \E x \in S : n = MaxSlot - x}
<1>1. MaxSlot \in Nat /\ \A x \in S : x \in Nat /\ MaxSlot - x \in T
  BY SizeAssumption DEF Slots
<1>2. PICK n \in T : \A m \in T : n <= m
  <2>1. T \subseteq Nat /\ T # {}
    BY Zenon, <1>1
  <2> HIDE DEF T
  <2> QED
    BY Zenon, <2>1 DEF SetFacts
<1>3. PICK x \in S : n = MaxSlot - x
  BY Zenon, <1>2
<1>4. \A y \in S : y <= x
  BY <1>1, <1>2, <1>3
<1> QED
  BY Zenon, <1>3, <1>4 DEF MaxOf

LEMMA MoreRoots ==
    ASSUME SetFacts, NEW R, NEW T, R \subseteq T, T \subseteq Slots, NEW x, Gone(R, x)
    PROVE  Gone(T, x)
<1>1. Above(R, x) \subseteq Above(T, x) /\ Above(T, x) \subseteq Slots
  BY Zenon DEF Above
<1>2. Cardinality(Above(R, x)) <= Cardinality(Above(T, x))
  BY Zenon, <1>1, Fewer
<1>3. Cardinality(Above(R, x)) \in Nat /\ Cardinality(Above(T, x)) \in Nat
  BY Zenon, AboveType
<1> QED
  BY <1>2, <1>3, SizeAssumption DEF Gone

(* A hash older than a block whose root is purged is too old.              *)
LEMMA TooOld ==
    ASSUME SetFacts, NEW S, S \subseteq Slots, NEW R, NEW x \in S, Gone(R, x),
           Above(R, x) \subseteq S, NEW h \in Int, h < x
    PROVE  Cardinality(Above(S, h)) > MaxAge
<1> DEFINE U == Above(R, x)
           V == Above(S, h)
<1>1. x \in Int /\ \A y \in S : y \in Int
  BY Zenon, SlotFacts
<1>2. x \notin U /\ U \cup {x} \subseteq V
  <2>1. x \notin U /\ x \in V
    BY <1>1 DEF Above
  <2>2. ASSUME NEW y \in U
        PROVE  y \in V
    <3>1. y \in S /\ y \in Int /\ y > x
      BY Zenon, <1>1, <2>2 DEF Above
    <3>2. y > h
      BY <1>1, <3>1
    <3> QED
      BY Zenon, <3>1, <3>2 DEF Above
  <2> QED
    BY Zenon, <2>1, <2>2
<1>3. U \subseteq Slots /\ V \subseteq Slots
  BY Zenon, AboveType
<1>4. Cardinality(U) >= MaxCacheEntries
  BY Zenon DEF Gone
<1> HIDE DEF U, V
<1>5. IsFiniteSet(U) /\ Cardinality(U) \in Nat /\ Cardinality(V) \in Nat
  BY Zenon, <1>3, Counted
<1>6. Cardinality(U \cup {x}) = Cardinality(U) + 1
  BY Zenon, <1>2, <1>5, OneMore
<1>7. Cardinality(U \cup {x}) <= Cardinality(V)
  BY Zenon, <1>2, <1>3, Fewer
<1>8. Cardinality(V) > MaxAge
  BY <1>4, <1>5, <1>6, <1>7, SizeAssumption
<1> QED
  BY Zenon, <1>8 DEF V

-----------------------------------------------------------------------------
(* Purging the oldest root.                                                *)

(* d is c without the entries and the deltas that end at slot m.           *)
Purges(c, d, m) ==
    /\ d = [cache |-> d.cache, roots |-> d.roots, deltas |-> d.deltas]
    /\ DOMAIN d.cache = {r \in DOMAIN c.cache : c.cache[r].max > m}
    /\ \A r \in DOMAIN d.cache : d.cache[r] = c.cache[r]
    /\ DOMAIN d.deltas = {s \in DOMAIN c.deltas : s > m}
    /\ \A s \in DOMAIN d.deltas : d.deltas[s] = c.deltas[s]
    /\ d.roots \subseteq c.roots
    /\ Cardinality(d.roots) <= MaxCacheEntries
    /\ m \in c.roots \cup {-1}
    /\ \A x \in Slots : x <= m => Gone(d.roots, x)
    /\ \A x \in Slots : Gone(c.roots, x) => Gone(d.roots, x)
    /\ \A x \in c.roots : x \in d.roots \/ Gone(d.roots, x)

LEMMA PurgeRootsFacts ==
    ASSUME SetFacts, NEW c, c = [cache |-> c.cache, roots |-> c.roots, deltas |-> c.deltas],
           c.roots \subseteq Slots,
           Cardinality(c.roots) <= MaxCacheEntries + 1,
           \A r \in DOMAIN c.cache : c.cache[r].max \in Slots,
           \A s \in DOMAIN c.deltas : s \in Slots
    PROVE  \E m \in Int : Purges(c, PurgeRoots(c), m)
<1> DEFINE d == PurgeRoots(c)
<1>1. Cardinality(c.roots) \in Nat /\ IsFiniteSet(c.roots) /\ MaxCacheEntries \in Nat \ {0}
  BY Zenon, Counted, SizeAssumption
<1>2. \A x \in Slots : x \in Nat
  BY Zenon, SlotFacts
<1>3. CASE ~(Cardinality(c.roots) > MaxCacheEntries)
  <2>1. d = c
    BY Zenon, <1>3 DEF PurgeRoots
  <2>2. Purges(c, c, -1)
    BY <1>1, <1>2, <1>3 DEF Purges
  <2> QED
    BY <2>1, <2>2
<1>4. CASE Cardinality(c.roots) > MaxCacheEntries
  <2> DEFINE m == MinOf(c.roots)
  <2>1. c.roots # {}
    BY <1>1, <1>4, NoneOrOne
  <2>2. m \in c.roots /\ m \in Slots /\ m \in Int /\ \A y \in c.roots : m <= y
    BY <1>2, <2>1, MinFacts
  <2>3. d = [cache |-> [r \in {r \in DOMAIN c.cache : c.cache[r].max > m} |-> c.cache[r]],
             roots |-> c.roots \ {m},
             deltas |-> [s \in {s \in DOMAIN c.deltas : s > m} |-> c.deltas[s]]]
    BY Zenon, <1>4 DEF PurgeRoots
  <2> HIDE DEF d, m
  <2>4. Cardinality(c.roots \ {m}) = Cardinality(c.roots) - 1
    BY Zenon, <1>1, <2>2, OneLess
  <2>5. ASSUME NEW x \in Slots, x <= m
        PROVE  Gone(c.roots \ {m}, x)
    <3>1. \A y \in c.roots \ {m} : y > x
      BY <1>2, <2>2, <2>5
    <3>2. Above(c.roots \ {m}, x) = c.roots \ {m}
      BY Zenon, <3>1 DEF Above
    <3>3. Cardinality(c.roots \ {m}) >= MaxCacheEntries
      BY <1>1, <1>4, <2>4
    <3> QED
      BY Zenon, <3>2, <3>3 DEF Gone
  <2>6. ASSUME NEW x \in Slots, Gone(c.roots, x)
        PROVE  Gone(c.roots \ {m}, x)
    <3>1. CASE x <= m
      BY Zenon, <2>5, <3>1
    <3>2. CASE ~(x <= m)
      <4>1. Above(c.roots \ {m}, x) = Above(c.roots, x)
        BY <1>2, <2>2, <3>2 DEF Above
      <4> QED
        BY Zenon, <2>6, <4>1 DEF Gone
    <3> QED
      BY Zenon, <3>1, <3>2
  <2>7. \A x \in c.roots : x \in c.roots \ {m} \/ Gone(c.roots \ {m}, x)
    BY Zenon, <1>2, <2>2, <2>5
  <2>8. Cardinality(c.roots \ {m}) <= MaxCacheEntries
    BY <1>1, <2>4
  <2>9. Purges(c, d, m)
    BY Zenon, <2>2, <2>3, <2>5, <2>6, <2>7, <2>8 DEF Purges
  <2> QED
    BY Zenon, <2>2, <2>9 DEF d
<1> QED
  BY Zenon, <1>3, <1>4

LEMMA PurgedCache ==
    ASSUME NEW c, NEW d, NEW m \in Int, CacheOK(c), Purges(c, d, m)
    PROVE  CacheOK(d)
<1>1. \A r \in DOMAIN d.cache : r \in DOMAIN c.cache /\ d.cache[r] = c.cache[r]
  BY Zenon DEF Purges
<1>2. \A s \in DOMAIN d.deltas : s \in DOMAIN c.deltas /\ d.deltas[s] = c.deltas[s] /\ s > m
  BY Zenon DEF Purges
<1>3. ASSUME NEW s \in DOMAIN d.deltas, NEW e \in d.deltas[s]
      PROVE  /\ e[1] \in DOMAIN d.cache
             /\ e[2] = d.cache[e[1]].index
             /\ <<e[2], e[3], s>> \in d.cache[e[1]].forks
  <2>1. /\ s \in DOMAIN c.deltas /\ e \in c.deltas[s] /\ s > m /\ s \in Slots
        /\ e[1] \in DOMAIN c.cache
        /\ e[2] = c.cache[e[1]].index
        /\ <<e[2], e[3], s>> \in c.cache[e[1]].forks
    BY Zenon, <1>2, <1>3 DEF CacheOK
  <2>2. s <= c.cache[e[1]].max /\ c.cache[e[1]].max \in Slots
    BY Zenon, <2>1 DEF CacheOK
  <2>3. e[1] \in DOMAIN d.cache
    BY <2>1, <2>2, SlotFacts DEF Purges
  <2> QED
    BY Zenon, <1>1, <2>1, <2>3
<1>4. d = [cache |-> d.cache, roots |-> d.roots, deltas |-> d.deltas]
  BY Zenon DEF Purges
<1> QED
  BY Zenon, <1>1, <1>2, <1>3, <1>4 DEF CacheOK

LEMMA PurgedTraces ==
    ASSUME NEW c, NEW d, NEW m \in Int, Purges(c, d, m),
           NEW B, B.chain \subseteq Slots, Traced(B, c.roots, c.deltas)
    PROVE  Traced(B, d.roots, d.deltas)
<1> SUFFICES ASSUME NEW tx \in DOMAIN B.done
             PROVE  \E x \in B.chain :
                        /\ ~tx.recent.durable => tx.recent.hash < x
                        /\ \/ Gone(d.roots, x)
                           \/ \E i \in Indexes : <<tx.recent, i, tx.key>> \in DeltasOf(d.deltas, x)
  BY Zenon DEF Traced
<1>1. PICK x \in B.chain :
        /\ ~tx.recent.durable => tx.recent.hash < x
        /\ \/ Gone(c.roots, x)
           \/ \E i \in Indexes : <<tx.recent, i, tx.key>> \in DeltasOf(c.deltas, x)
  BY Zenon DEF Traced
<1>2. CASE Gone(c.roots, x) \/ x <= m
  <2>1. Gone(d.roots, x)
    BY Zenon, <1>2 DEF Purges
  <2> QED
    BY Zenon, <1>1, <2>1
<1>3. CASE ~(x <= m) /\ \E i \in Indexes : <<tx.recent, i, tx.key>> \in DeltasOf(c.deltas, x)
  <2>1. DeltasOf(d.deltas, x) = DeltasOf(c.deltas, x)
    BY <1>3, SlotFacts DEF Purges, DeltasOf
  <2> QED
    BY Zenon, <1>1, <1>3, <2>1
<1> QED
  BY Zenon, <1>1, <1>2, <1>3

LEMMA TracedMore ==
    ASSUME SetFacts, NEW R, NEW T, R \subseteq T, T \subseteq Slots, NEW deltas,
           NEW B, Traced(B, R, deltas)
    PROVE  Traced(B, T, deltas)
<1>1. \A x : Gone(R, x) => Gone(T, x)
  BY Zenon, MoreRoots
<1> QED
  BY Zenon, <1>1 DEF Traced

-----------------------------------------------------------------------------
(* The other operations of the status cache.                               *)

(* d is c with an entry at index i for key k of r in slot s.               *)
Adds(c, d, r, i, k, s) ==
    /\ \A x : DeltasOf(c.deltas, x) \subseteq DeltasOf(d.deltas, x)
    /\ <<r, i, k>> \in DeltasOf(d.deltas, s)
    /\ \A q \in DOMAIN d.cache : \A f \in d.cache[q].forks :
          \/ q \in DOMAIN c.cache /\ f \in c.cache[q].forks
          \/ q = r /\ f = <<i, k, s>>

LEMMA InsertFacts ==
    ASSUME NEW c, CacheOK(c), NEW r \in Recents, NEW k \in Keys, NEW s \in Slots,
           NEW drawn \in Indexes, NEW d, d = Insert(c, r, k, s, drawn)
    PROVE  /\ CacheOK(d)
           /\ d.roots = c.roots
           /\ \E i \in Indexes : Adds(c, d, r, i, k, s)
<1> DEFINE e0 == EntryOr(c.cache, r, s, drawn)
           i == e0.index
           cached == [max |-> IF s > e0.max THEN s ELSE e0.max, index |-> i,
                      forks |-> e0.forks \cup {<<i, k, s>>}]
<1>1. /\ e0 = [max |-> e0.max, index |-> e0.index, forks |-> e0.forks]
      /\ e0.max \in Slots /\ i \in Indexes
      /\ \A f \in e0.forks : f \in Indexes \X Keys \X Slots /\ f[3] <= e0.max
      /\ r \in DOMAIN c.cache => e0 = c.cache[r]
      /\ r \notin DOMAIN c.cache => e0.forks = {}
  <2>1. CASE r \in DOMAIN c.cache
    BY Zenon, <2>1 DEF EntryOr, CacheOK
  <2>2. CASE r \notin DOMAIN c.cache
    BY Zenon, <2>2 DEF EntryOr
  <2> QED
    BY Zenon, <2>1, <2>2
<1>2. EntryOr(c.cache, r, s, i) = e0
  BY Zenon DEF EntryOr
<1>3. d = [cache |-> [x \in DOMAIN c.cache \cup {r} |-> IF x = r THEN cached ELSE c.cache[x]],
           roots |-> c.roots,
           deltas |-> [x \in DOMAIN c.deltas \cup {s} |->
                          IF x = s THEN DeltasOf(c.deltas, s) \cup {<<r, i, k>>} ELSE c.deltas[x]]]
  <2>1. d = InsertWithSlice(c, r, s, i, k)
    BY Zenon DEF Insert
  <2> QED
    BY Zenon, <1>2, <2>1 DEF InsertWithSlice
<1> HIDE DEF e0
<1>4. /\ cached.max \in Slots /\ cached.index = i
      /\ cached.forks = e0.forks \cup {<<i, k, s>>}
      /\ cached = [max |-> cached.max, index |-> cached.index, forks |-> cached.forks]
      /\ e0.max <= cached.max /\ s <= cached.max
  BY <1>1, SlotFacts
<1>5. \A f \in cached.forks : f \in Indexes \X Keys \X Slots /\ f[3] <= cached.max
  <2> SUFFICES ASSUME NEW f \in cached.forks
               PROVE  f \in Indexes \X Keys \X Slots /\ f[3] <= cached.max
    BY Zenon
  <2>1. CASE f \in e0.forks
    BY <1>1, <1>4, <2>1, SlotFacts
  <2>2. CASE f = <<i, k, s>>
    BY Zenon, <1>1, <1>4, <2>2
  <2> QED
    BY Zenon, <1>4, <2>1, <2>2
<1> HIDE DEF i, cached
<1>6. DeltasOf(c.deltas, s) \subseteq Recents \X Indexes \X Keys
  BY Zenon DEF CacheOK, DeltasOf
<1>7. /\ d.roots = c.roots
      /\ d = [cache |-> d.cache, roots |-> d.roots, deltas |-> d.deltas]
      /\ DOMAIN d.cache = DOMAIN c.cache \cup {r}
      /\ d.cache[r] = cached
      /\ \A q \in DOMAIN c.cache : q # r => d.cache[q] = c.cache[q]
      /\ DOMAIN d.deltas = DOMAIN c.deltas \cup {s}
      /\ d.deltas[s] = DeltasOf(c.deltas, s) \cup {<<r, i, k>>}
      /\ \A x \in DOMAIN c.deltas : x # s => d.deltas[x] = c.deltas[x]
  BY <1>3
<1>8. ASSUME NEW x \in DOMAIN d.deltas, NEW e \in d.deltas[x]
      PROVE  /\ e \in Recents \X Indexes \X Keys
             /\ e[1] \in DOMAIN d.cache
             /\ e[2] = d.cache[e[1]].index
             /\ <<e[2], e[3], x>> \in d.cache[e[1]].forks
  <2>1. CASE x \in DOMAIN c.deltas /\ e \in c.deltas[x]
    <3>1. /\ e \in Recents \X Indexes \X Keys
          /\ e[1] \in DOMAIN c.cache
          /\ e[2] = c.cache[e[1]].index
          /\ <<e[2], e[3], x>> \in c.cache[e[1]].forks
      BY Zenon, <2>1 DEF CacheOK
    <3>2. CASE e[1] = r
      <4>1. e[2] = i /\ <<e[2], e[3], x>> \in e0.forks
        BY Zenon, <1>1, <3>1, <3>2 DEF i
      <4> QED
        BY Zenon, <1>4, <1>7, <3>1, <3>2, <4>1
    <3>3. CASE e[1] # r
      BY Zenon, <1>7, <3>1, <3>3
    <3> QED
      BY Zenon, <3>2, <3>3
  <2>2. CASE x = s /\ e = <<r, i, k>>
    <3>1. e[1] = r /\ e[2] = i /\ e[3] = k /\ i \in Indexes
      BY Zenon, <1>1, <2>2 DEF i
    <3> QED
      BY Zenon, <1>4, <1>7, <2>2, <3>1
  <2> QED
    BY Zenon, <1>7, <1>8, <2>1, <2>2 DEF DeltasOf
<1>9. CacheOK(d)
  <2>1. ASSUME NEW q \in DOMAIN d.cache
        PROVE  /\ q \in Recents
               /\ d.cache[q] = [max |-> d.cache[q].max, index |-> d.cache[q].index,
                                forks |-> d.cache[q].forks]
               /\ d.cache[q].max \in Slots
               /\ d.cache[q].index \in Indexes
               /\ \A f \in d.cache[q].forks :
                    f \in Indexes \X Keys \X Slots /\ f[3] <= d.cache[q].max
    <3>1. CASE q = r
      BY Zenon, <1>1, <1>4, <1>5, <1>7, <3>1 DEF i
    <3>2. CASE q # r
      BY Zenon, <1>7, <2>1, <3>2 DEF CacheOK
    <3> QED
      BY Zenon, <3>1, <3>2
  <2>2. \A x \in DOMAIN d.deltas : x \in Slots /\ d.deltas[x] \subseteq Recents \X Indexes \X Keys
    BY Zenon, <1>7, <1>8 DEF CacheOK
  <2> QED
    BY SMTT(30), <1>7, <1>8, <2>1, <2>2 DEF CacheOK
<1>10. \A x : DeltasOf(c.deltas, x) \subseteq DeltasOf(d.deltas, x)
  BY Zenon, <1>7 DEF DeltasOf
<1>11. <<r, i, k>> \in DeltasOf(d.deltas, s)
  BY Zenon, <1>7 DEF DeltasOf
<1>12. \A q \in DOMAIN d.cache : \A f \in d.cache[q].forks :
          \/ q \in DOMAIN c.cache /\ f \in c.cache[q].forks
          \/ q = r /\ f = <<i, k, s>>
  BY <1>1, <1>4, <1>7
<1>13. i \in Indexes
  BY Zenon, <1>1 DEF i
<1>14. Adds(c, d, r, i, k, s)
  BY Zenon, <1>10, <1>11, <1>12 DEF Adds
<1> QED
  BY Zenon, <1>7, <1>9, <1>13, <1>14

(* d is c without the deltas of the slots in S and what they stand for.    *)
Clears(c, d, S) ==
    /\ \A x : x \notin S => DeltasOf(d.deltas, x) = DeltasOf(c.deltas, x)
    /\ \A q \in DOMAIN d.cache :
          /\ q \in DOMAIN c.cache
          /\ \A f \in d.cache[q].forks :
                /\ f \in c.cache[q].forks
                /\ ~(f[3] \in S /\ <<q, f[1], f[2]>> \in DeltasOf(c.deltas, f[3]))

LEMMA ClearFacts ==
    ASSUME NEW c, CacheOK(c), NEW S, NEW d, d = ClearSlotEntries(c, S)
    PROVE  /\ CacheOK(d)
           /\ d.roots = c.roots
           /\ Clears(c, d, S)
<1> DEFINE gone(r) == {f \in Indexes \X Keys \X S :
                        <<r, f[1], f[2]>> \in DeltasOf(c.deltas, f[3])}
           left(r) == c.cache[r].forks \ gone(r)
           kept == {r \in DOMAIN c.cache : gone(r) = {} \/ left(r) # {}}
<1>1. d = [cache |-> [r \in kept |-> [c.cache[r] EXCEPT !.forks = left(r)]],
           roots |-> c.roots,
           deltas |-> [s \in DOMAIN c.deltas \ S |-> c.deltas[s]]]
  BY Zenon DEF ClearSlotEntries
<1>2. ASSUME NEW r \in DOMAIN c.cache
      PROVE  [c.cache[r] EXCEPT !.forks = left(r)] =
                [max |-> c.cache[r].max, index |-> c.cache[r].index, forks |-> left(r)]
  <2>1. c.cache[r] = [max |-> c.cache[r].max, index |-> c.cache[r].index,
                      forks |-> c.cache[r].forks]
    BY Zenon, <1>2 DEF CacheOK
  <2> HIDE DEF left, gone
  <2> QED
    BY <2>1
<1>3. ASSUME NEW r \in DOMAIN c.cache, NEW f \in left(r)
      PROVE  /\ f \in c.cache[r].forks
             /\ ~(f[3] \in S /\ <<r, f[1], f[2]>> \in DeltasOf(c.deltas, f[3]))
  <2>1. f \in c.cache[r].forks /\ f \notin gone(r)
    BY Zenon, <1>3
  <2>2. f \in Indexes \X Keys \X Slots
    BY Zenon, <2>1 DEF CacheOK
  <2>3. f[3] \in S => f \in Indexes \X Keys \X S
    BY Zenon, <2>2
  <2> QED
    BY Zenon, <2>1, <2>3
<1>4. ASSUME NEW r, NEW f \in gone(r)
      PROVE  f[3] \in S
  BY Zenon, <1>4
<1>5. /\ kept \subseteq DOMAIN c.cache
      /\ \A r \in DOMAIN c.cache : left(r) # {} => r \in kept
      /\ \A r : left(r) = c.cache[r].forks \ gone(r)
  BY Zenon
<1> HIDE DEF kept, left, gone
<1>6. /\ d.roots = c.roots
      /\ d = [cache |-> d.cache, roots |-> d.roots, deltas |-> d.deltas]
      /\ DOMAIN d.cache = kept
      /\ \A r \in kept : d.cache[r] = [c.cache[r] EXCEPT !.forks = left(r)]
      /\ DOMAIN d.deltas = DOMAIN c.deltas \ S
      /\ \A s \in DOMAIN d.deltas : d.deltas[s] = c.deltas[s]
  BY <1>1
<1>7. ASSUME NEW r \in kept
      PROVE  /\ d.cache[r].max = c.cache[r].max
             /\ d.cache[r].index = c.cache[r].index
             /\ d.cache[r].forks = left(r)
             /\ d.cache[r] = [max |-> c.cache[r].max, index |-> c.cache[r].index,
                              forks |-> left(r)]
  <2>1. r \in DOMAIN c.cache /\ d.cache[r] = [c.cache[r] EXCEPT !.forks = left(r)]
    BY Zenon, <1>5, <1>6, <1>7
  <2>2. d.cache[r] = [max |-> c.cache[r].max, index |-> c.cache[r].index, forks |-> left(r)]
    BY Zenon, <1>2, <2>1
  <2> QED
    BY <2>2
<1>8. ASSUME NEW s \in DOMAIN d.deltas, NEW e \in d.deltas[s]
      PROVE  /\ e[1] \in DOMAIN d.cache
             /\ e[2] = d.cache[e[1]].index
             /\ <<e[2], e[3], s>> \in d.cache[e[1]].forks
  <2>1. /\ s \in DOMAIN c.deltas /\ s \notin S /\ e \in c.deltas[s]
        /\ e[1] \in DOMAIN c.cache
        /\ e[2] = c.cache[e[1]].index
        /\ <<e[2], e[3], s>> \in c.cache[e[1]].forks
    BY Zenon, <1>6, <1>8 DEF CacheOK
  <2>2. <<e[2], e[3], s>>[3] = s
    BY Zenon
  <2>3. <<e[2], e[3], s>> \notin gone(e[1])
    BY Zenon, <1>4, <2>1, <2>2
  <2>4. <<e[2], e[3], s>> \in left(e[1]) /\ e[1] \in kept
    BY Zenon, <1>5, <2>1, <2>3
  <2> QED
    BY Zenon, <1>6, <1>7, <2>1, <2>4
<1>9. CacheOK(d)
  <2>1. ASSUME NEW q \in DOMAIN d.cache
        PROVE  /\ q \in Recents
               /\ d.cache[q] = [max |-> d.cache[q].max, index |-> d.cache[q].index,
                                forks |-> d.cache[q].forks]
               /\ d.cache[q].max \in Slots
               /\ d.cache[q].index \in Indexes
               /\ \A f \in d.cache[q].forks :
                    f \in Indexes \X Keys \X Slots /\ f[3] <= d.cache[q].max
    <3>1. q \in kept /\ q \in DOMAIN c.cache
      BY Zenon, <1>5, <1>6, <2>1
    <3>2. \A f \in d.cache[q].forks : f \in c.cache[q].forks
      BY Zenon, <1>3, <1>7, <3>1
    <3> QED
      BY Zenon, <1>7, <3>1, <3>2 DEF CacheOK
  <2>2. \A s \in DOMAIN d.deltas : s \in Slots /\ d.deltas[s] \subseteq Recents \X Indexes \X Keys
    BY Zenon, <1>6 DEF CacheOK
  <2> QED
    BY Zenon, <1>6, <1>8, <2>1, <2>2 DEF CacheOK
<1>10. \A x : x \notin S => DeltasOf(d.deltas, x) = DeltasOf(c.deltas, x)
  BY Zenon, <1>6 DEF DeltasOf
<1>11. ASSUME NEW q \in DOMAIN d.cache
       PROVE  /\ q \in DOMAIN c.cache
              /\ \A f \in d.cache[q].forks :
                    /\ f \in c.cache[q].forks
                    /\ ~(f[3] \in S /\ <<q, f[1], f[2]>> \in DeltasOf(c.deltas, f[3]))
  <2>1. q \in DOMAIN c.cache /\ d.cache[q].forks = left(q)
    BY Zenon, <1>5, <1>6, <1>7, <1>11
  <2> QED
    BY Zenon, <1>3, <2>1
<1> QED
  BY Zenon, <1>6, <1>9, <1>10, <1>11 DEF Clears

LEMMA AppendFacts ==
    ASSUME SetFacts, NEW n, NEW redone, SnapOK(n, redone), NEW index,
           NEW d, d = AppendDeltas(n.deltas, n.roots, index),
           \A r \in RecentsOf(n.deltas) : index[r] \in {f[1] : f \in ForksOf(n.deltas, r)}
    PROVE  \E c, m : /\ m \in Int
                     /\ Purges(c, d, m)
                     /\ CacheOK(c)
                     /\ c.roots = {0} \cup n.roots
                     /\ c.deltas = n.deltas
                     /\ \A r \in DOMAIN c.cache : \A f \in c.cache[r].forks :
                          f[3] \in DOMAIN n.deltas /\ <<r, f[1], f[2]>> \in n.deltas[f[3]]
<1> DEFINE D == n.deltas
           Highest(r) == MaxOf({f[3] : f \in ForksOf(D, r)})
           c == [cache |-> [r \in RecentsOf(D) |->
                              [max |-> Highest(r), index |-> index[r], forks |-> ForksOf(D, r)]],
                 roots |-> {0} \cup n.roots, deltas |-> D]
<1>1. /\ n.roots \subseteq Slots
      /\ \A s \in DOMAIN D : s \in Slots /\ D[s] \subseteq Recents \X Indexes \X Keys
      /\ \A s, u \in DOMAIN D : \A e \in D[s], g \in D[u] : e[1] = g[1] => e[2] = g[2]
  BY Zenon DEF SnapOK, BankOK
<1>2. d = PurgeRoots(c)
  BY Zenon DEF AppendDeltas, EmptyStatusCache
<1> HIDE DEF D
<1>3. ASSUME NEW r, NEW f \in ForksOf(D, r)
      PROVE  f \in Indexes \X Keys \X Slots /\ f[3] \in DOMAIN D /\ <<r, f[1], f[2]>> \in D[f[3]]
  <2>1. f \in Indexes \X Keys \X DOMAIN D /\ <<r, f[1], f[2]>> \in D[f[3]]
    BY Zenon, <1>3 DEF ForksOf
  <2> QED
    BY Zenon, <1>1, <2>1
<1>4. ASSUME NEW s \in DOMAIN D, NEW e \in D[s]
      PROVE  /\ e[1] \in RecentsOf(D)
             /\ <<e[2], e[3], s>> \in ForksOf(D, e[1])
  <2>1. e \in Recents \X Indexes \X Keys /\ e = <<e[1], e[2], e[3]>>
    BY <1>1, <1>4
  <2>2. <<e[2], e[3], s>> \in ForksOf(D, e[1])
    BY Zenon, <1>4, <2>1 DEF ForksOf
  <2> QED
    BY Zenon, <2>1, <2>2 DEF RecentsOf
<1>5. ASSUME NEW r \in RecentsOf(D)
      PROVE  /\ r \in Recents
             /\ Highest(r) \in Slots
             /\ \A f \in ForksOf(D, r) : f[3] <= Highest(r)
  <2> DEFINE M == {f[3] : f \in ForksOf(D, r)}
  <2>1. M \subseteq Slots /\ \A f \in ForksOf(D, r) : f[3] \in M
    BY Zenon, <1>3
  <2>2. M # {}
    BY Zenon, <1>5 DEF RecentsOf
  <2> HIDE DEF M
  <2>3. MaxOf(M) \in Slots /\ \A y \in M : y <= MaxOf(M)
    BY Zenon, <2>1, <2>2, MaxFacts
  <2>4. Highest(r) = MaxOf(M)
    BY Zenon DEF M
  <2> QED
    BY Zenon, <1>5, <2>1, <2>3, <2>4 DEF RecentsOf
<1>6. ASSUME NEW r \in RecentsOf(D)
      PROVE  /\ index[r] \in Indexes
             /\ \A s \in DOMAIN D : \A e \in D[s] : e[1] = r => e[2] = index[r]
  <2>1. PICK f \in ForksOf(D, r) : index[r] = f[1]
    BY Zenon, <1>6 DEF D
  <2>2. f[1] \in Indexes /\ f[3] \in DOMAIN D /\ <<r, f[1], f[2]>> \in D[f[3]]
    BY <1>3
  <2>3. <<r, f[1], f[2]>>[1] = r /\ <<r, f[1], f[2]>>[2] = f[1]
    BY Zenon
  <2> QED
    BY <1>1, <2>1, <2>2, <2>3
<1> HIDE DEF Highest
<1>7. /\ c = [cache |-> c.cache, roots |-> c.roots, deltas |-> c.deltas]
      /\ DOMAIN c.cache = RecentsOf(D)
      /\ \A r \in RecentsOf(D) : /\ c.cache[r].max = Highest(r)
                                 /\ c.cache[r].index = index[r]
                                 /\ c.cache[r].forks = ForksOf(D, r)
                                 /\ c.cache[r] = [max |-> Highest(r), index |-> index[r],
                                                  forks |-> ForksOf(D, r)]
      /\ c.roots = {0} \cup n.roots
      /\ c.deltas = D
  BY Zenon
<1> HIDE DEF c
<1>8. CacheOK(c)
  <2>1. ASSUME NEW q \in DOMAIN c.cache
        PROVE  /\ q \in Recents
               /\ c.cache[q] = [max |-> c.cache[q].max, index |-> c.cache[q].index,
                                forks |-> c.cache[q].forks]
               /\ c.cache[q].max \in Slots
               /\ c.cache[q].index \in Indexes
               /\ \A f \in c.cache[q].forks :
                    f \in Indexes \X Keys \X Slots /\ f[3] <= c.cache[q].max
    <3>1. /\ q \in RecentsOf(D)
          /\ c.cache[q].max = Highest(q) /\ c.cache[q].index = index[q]
          /\ c.cache[q].forks = ForksOf(D, q)
          /\ c.cache[q] = [max |-> Highest(q), index |-> index[q], forks |-> ForksOf(D, q)]
      BY Zenon, <1>7, <2>1
    <3>2. q \in Recents /\ Highest(q) \in Slots /\ \A f \in ForksOf(D, q) : f[3] <= Highest(q)
      BY Zenon, <1>5, <3>1
    <3>3. index[q] \in Indexes
      BY Zenon, <1>6, <3>1
    <3>4. \A f \in ForksOf(D, q) : f \in Indexes \X Keys \X Slots
      BY Zenon, <1>3
    <3> QED
      BY Zenon, <3>1, <3>2, <3>3, <3>4
  <2>2. ASSUME NEW s \in DOMAIN D, NEW e \in D[s]
        PROVE  /\ e[1] \in DOMAIN c.cache
               /\ e[2] = c.cache[e[1]].index
               /\ <<e[2], e[3], s>> \in c.cache[e[1]].forks
    <3>1. e[1] \in RecentsOf(D) /\ <<e[2], e[3], s>> \in ForksOf(D, e[1])
      BY Zenon, <1>4, <2>2
    <3>2. e[2] = index[e[1]]
      BY Zenon, <1>6, <2>2, <3>1
    <3> QED
      BY Zenon, <1>7, <3>1, <3>2
  <2> QED
    BY Zenon, <1>1, <1>7, <2>1, <2>2 DEF CacheOK
<1>9. /\ c.roots \subseteq Slots
      /\ Cardinality(c.roots) <= MaxCacheEntries + 1
  <2>1. IsFiniteSet(n.roots) /\ Cardinality(n.roots) \in Nat
        /\ Cardinality(n.roots) <= MaxCacheEntries
    BY Zenon, <1>1, Counted DEF SnapOK
  <2>2. Cardinality(n.roots \cup {0}) <= Cardinality(n.roots) + 1
    BY SMTT(30), <2>1, OneMore
  <2>3. c.roots = n.roots \cup {0}
    BY Zenon, <1>7
  <2>4. Cardinality(c.roots) \in Nat
    BY Zenon, <1>1, <2>3, SlotFacts, Counted
  <2> QED
    BY <1>1, <2>1, <2>2, <2>3, <2>4, SlotFacts, SizeAssumption
<1>10. PICK m \in Int : Purges(c, PurgeRoots(c), m)
  <2>1. \A r \in DOMAIN c.cache : c.cache[r].max \in Slots
    BY Zenon, <1>8 DEF CacheOK
  <2>2. \A s \in DOMAIN c.deltas : s \in Slots
    BY Zenon, <1>8 DEF CacheOK
  <2> QED
    BY Zenon, <1>7, <1>9, <2>1, <2>2, PurgeRootsFacts
<1>11. ASSUME NEW r \in DOMAIN c.cache, NEW f \in c.cache[r].forks
       PROVE  f[3] \in DOMAIN D /\ <<r, f[1], f[2]>> \in D[f[3]]
  <2>1. f \in ForksOf(D, r)
    BY Zenon, <1>7, <1>11
  <2> QED
    BY Zenon, <1>3, <2>1
<1> QED
  BY <1>2, <1>7, <1>8, <1>10, <1>11 DEF D

-----------------------------------------------------------------------------
(* The blockhash queue.                                                    *)

LEMMA RegisterFacts ==
    ASSUME SetFacts, NEW q, NEW S, S \subseteq Slots, QueueOK(q, S),
           NEW b \in Slots, \A x \in S : x < b
    PROVE  QueueOK(RegisterHash(q, b), S \cup {b})
<1> DEFINE T == S \cup {b}
           u == RegisterHash(q, b)
<1>1. PICK kept : /\ kept \subseteq DOMAIN q.ages
                  /\ u = [last |-> q.last + 1, hash |-> b,
                          ages |-> [x \in kept \cup {b} |->
                                      IF x = b THEN q.last + 1 ELSE q.ages[x]]]
  <2> DEFINE K == {x \in DOMAIN q.ages :
                    \/ Cardinality(DOMAIN q.ages) < QueueAge
                    \/ IsHashIndexValid(q.last + 1, QueueAge, q.ages[x])}
  <2>1. K \subseteq DOMAIN q.ages
    BY Zenon
  <2>2. u = [last |-> q.last + 1, hash |-> b,
             ages |-> [x \in K \cup {b} |-> IF x = b THEN q.last + 1 ELSE q.ages[x]]]
    BY Zenon DEF RegisterHash
  <2> HIDE DEF K
  <2> QED
    BY Zenon, <2>1, <2>2
<1> HIDE DEF u
<1>2. b \in Int /\ Genesis < b /\ \A x \in Slots : x \in Int
  BY SlotFacts DEF Genesis
<1>3. ASSUME NEW h \in kept
      PROVE  /\ h \in S \cup {Genesis} /\ h # b /\ h \in Int /\ h < b
             /\ q.ages[h] \in Int
             /\ q.last + 1 - q.ages[h] = Cardinality(Above(T, h))
  <2>1. /\ h \in S \cup {Genesis} /\ q.ages[h] \in Int /\ q.last \in Int
        /\ q.last - q.ages[h] = Cardinality(Above(S, h))
    BY Zenon, <1>1, <1>3 DEF QueueOK
  <2>2. h \in Int /\ h < b /\ h # b
    BY <1>2, <2>1 DEF Genesis
  <2>3. Above(T, h) = Above(S, h) \cup {b} /\ b \notin Above(S, h)
    BY <1>2, <2>2 DEF Above
  <2>4. Cardinality(Above(S, h) \cup {b}) = Cardinality(Above(S, h)) + 1
    BY Zenon, <2>3, AboveType, OneMore
  <2>5. Cardinality(Above(S, h)) \in Nat
    BY Zenon, AboveType
  <2>6. Cardinality(Above(T, h)) = Cardinality(Above(S, h)) + 1
    BY Zenon, <2>3, <2>4
  <2> HIDE DEF T
  <2> QED
    BY <2>1, <2>2, <2>5, <2>6
<1>4. Cardinality(Above(T, b)) = 0
  <2>1. Above(T, b) = {}
    <3>1. \A y \in T : ~(y > b)
      BY <1>2
    <3> QED
      BY Zenon, <3>1 DEF Above
  <2> QED
    BY Zenon, <2>1, NoneOrOne
<1>5. q.last \in Int
  BY Zenon DEF QueueOK
<1>6. /\ u.last = q.last + 1 /\ u.hash = b /\ DOMAIN u.ages = kept \cup {b}
      /\ u.ages[b] = q.last + 1
      /\ \A h \in kept : h # b => u.ages[h] = q.ages[h]
      /\ u = [last |-> u.last, hash |-> u.hash, ages |-> u.ages]
  BY Zenon, <1>1
<1>7. ASSUME NEW h \in DOMAIN u.ages
      PROVE  /\ h \in T \cup {Genesis}
             /\ u.ages[h] \in Int
             /\ u.last - u.ages[h] = Cardinality(Above(T, h))
  <2>1. CASE h = b
    BY <1>4, <1>5, <1>6, <2>1
  <2>2. CASE h # b
    <3>1. h \in kept
      BY Zenon, <1>6, <1>7, <2>2
    <3>2. /\ h \in S \cup {Genesis} /\ q.ages[h] \in Int
          /\ q.last + 1 - q.ages[h] = Cardinality(Above(T, h))
      BY Zenon, <1>3, <3>1
    <3>3. u.ages[h] = q.ages[h] /\ u.last = q.last + 1
      BY Zenon, <1>6, <2>2, <3>1
    <3> HIDE DEF T
    <3>4. u.last - u.ages[h] = Cardinality(Above(T, h))
      BY <1>5, <3>2, <3>3
    <3> QED
      BY Zenon, <3>2, <3>3, <3>4 DEF T
  <2> QED
    BY Zenon, <2>1, <2>2
<1>8. \A x \in T : x <= b
  BY <1>2
<1>9. QueueOK(u, T)
  BY Zenon, <1>5, <1>6, <1>7, <1>8 DEF QueueOK
<1> QED
  BY Zenon, <1>9 DEF u

LEMMA GenesisFacts ==
    ASSUME SetFacts
    PROVE  /\ BankOK(0, GenesisBank)
           /\ GenesisBank.chain = {0}
           /\ GenesisBank.ancestors = {0}
           /\ GenesisBank.status = "frozen"
           /\ DOMAIN GenesisBank.done = {}
<1> DEFINE q == RegisterHash(GenesisQueue, 0)
<1>1. PICK kept : /\ kept \subseteq {Genesis}
                  /\ q = [last |-> 1, hash |-> 0,
                          ages |-> [x \in kept \cup {0} |-> IF x = 0 THEN 1 ELSE 0]]
  <2> DEFINE K == {x \in DOMAIN GenesisQueue.ages :
                    \/ Cardinality(DOMAIN GenesisQueue.ages) < QueueAge
                    \/ IsHashIndexValid(1, QueueAge, GenesisQueue.ages[x])}
  <2>1. /\ DOMAIN GenesisQueue.ages = {Genesis} /\ GenesisQueue.last = 0
        /\ GenesisQueue.ages[Genesis] = 0
    BY Zenon DEF GenesisQueue
  <2>2. K \subseteq {Genesis}
    BY Zenon, <2>1
  <2>3. q = [last |-> 1, hash |-> 0,
             ages |-> [x \in K \cup {0} |-> IF x = 0 THEN 1 ELSE GenesisQueue.ages[x]]]
    BY <2>1 DEF RegisterHash
  <2> HIDE DEF K, q
  <2>4. [x \in K \cup {0} |-> IF x = 0 THEN 1 ELSE GenesisQueue.ages[x]]
            = [x \in K \cup {0} |-> IF x = 0 THEN 1 ELSE 0]
    BY Zenon, <2>1, <2>2
  <2> QED
    BY Zenon, <2>2, <2>3, <2>4
<1> HIDE DEF q
<1>2. Cardinality(Above({0}, 0)) = 0 /\ Cardinality(Above({0}, Genesis)) = 1
  <2>1. Above({0}, 0) = {} /\ Above({0}, Genesis) = {0}
    BY DEF Above, Genesis
  <2> QED
    BY Zenon, <2>1, NoneOrOne
<1>3. QueueOK(q, {0})
  <2>1. ASSUME NEW h \in DOMAIN q.ages
        PROVE  /\ h \in {0} \cup {Genesis}
               /\ q.ages[h] \in Int
               /\ q.last - q.ages[h] = Cardinality(Above({0}, h))
    BY <1>1, <1>2, <2>1 DEF Genesis
  <2>2. /\ q = [last |-> q.last, hash |-> q.hash, ages |-> q.ages]
        /\ q.last = 1 /\ q.hash = 0
    BY Zenon, <1>1
  <2> QED
    BY <2>1, <2>2 DEF QueueOK
<1>4. GenesisBank = [chain |-> {0}, ancestors |-> {0}, status |-> "frozen", queue |-> q,
                     nonce |-> Genesis, done |-> Nowhere]
  BY Zenon DEF GenesisBank, q
<1>5. DOMAIN Nowhere = {}
  BY Zenon DEF Nowhere
<1>6. q.hash = 0
  BY Zenon, <1>1
<1> QED
  BY <1>3, <1>4, <1>5, <1>6, SlotFacts DEF BankOK, Closed, Genesis

-----------------------------------------------------------------------------
(* Forks and threads: the initial state, and the steps of a thread up to   *)
(* the commit.                                                             *)

LEMMA ForkFacts ==
    ASSUME ForksInv
    PROVE  /\ root \in Nat /\ root \in Slots
           /\ \A b \in DOMAIN banks :
                /\ b \in Nat /\ b \in Slots
                /\ b \in banks[b].chain
                /\ banks[b].chain \subseteq Slots
                /\ \A x \in banks[b].chain :
                      /\ x \in Nat /\ x <= b
                      /\ x \in DOMAIN banks =>
                            \A y \in Nat : y \in banks[x].chain <=> y \in banks[b].chain /\ y <= x
<1>1. \A b \in DOMAIN banks : BankOK(b, banks[b])
  BY Zenon DEF ForksInv
<1>2. ASSUME NEW b \in DOMAIN banks
      PROVE  /\ b \in Nat /\ b \in Slots
             /\ b \in banks[b].chain
             /\ banks[b].chain \subseteq Slots
             /\ \A x \in banks[b].chain : x \in Nat /\ x <= b
  BY Zenon, <1>1, <1>2, SlotFacts DEF BankOK
<1>3. root \in DOMAIN banks
  BY Zenon DEF ForksInv
<1>4. ASSUME NEW b \in DOMAIN banks, NEW x \in banks[b].chain, x \in DOMAIN banks, NEW y \in Nat
      PROVE  y \in banks[x].chain <=> y \in banks[b].chain /\ y <= x
  <2>1. banks[x].chain = {z \in banks[b].chain : z <= x}
    BY Zenon, <1>4 DEF ForksInv
  <2> QED
    BY Zenon, <2>1
<1> QED
  BY Zenon, <1>2, <1>3, <1>4

LEMMA TransactionFacts ==
    ASSUME NEW tx \in Transactions
    PROVE  /\ tx.recent \in Recents /\ tx.key \in Keys
           /\ tx.recent.hash \in Int
           /\ tx = [recent |-> tx.recent, key |-> tx.key]
<1>1. tx.recent \in Recents /\ tx.key \in Keys /\ tx = [recent |-> tx.recent, key |-> tx.key]
  BY Zenon DEF Transactions
<1>2. tx.recent.hash \in Blockhashes
  BY Zenon, <1>1 DEF Recents
<1> QED
  BY <1>1, <1>2, SlotFacts DEF Blockhashes, Genesis

(* A thread whose bank stays as it is, or is dropped for good.             *)
LEMMA ThreadKept ==
    ASSUME NEW th, NEW B, NEW r, NEW P, NEW C, NEW s, NEW Q,
           ThreadOK(th, B, r, P),
           th.pc # "idle" =>
              /\ th.bank \in DOMAIN C \cup Q \/ th.bank <= s
              /\ th.bank \in DOMAIN C =>
                    /\ th.bank \in DOMAIN B
                    /\ C[th.bank] = B[th.bank]
                    /\ s \in B[th.bank].chain => r \in B[th.bank].chain,
           th.pc = "recorded" /\ th.bank \notin DOMAIN C =>
              \A x \in DOMAIN C : th.bank \notin C[x].chain
    PROVE  ThreadOK(th, C, s, Q)
<1>1. th.pc # "idle" => BusyOK(th, C, s, Q)
  BY Zenon DEF ThreadOK, BusyOK
<1>2. th.pc = "executed" => ExecutedOK(th, C, s)
  BY DEF ThreadOK, ExecutedOK
<1>3. th.pc = "recorded" => RecordedOK(th, C, s)
  BY Zenon DEF ThreadOK, RecordedOK
<1> QED
  BY Zenon, <1>1, <1>2, <1>3 DEF ThreadOK

LEMMA IdleOK == ASSUME NEW B, NEW r, NEW P PROVE ThreadOK(Idle, B, r, P)
<1>1. DOMAIN Idle = {"pc", "bank", "tx", "executed", "recorded"} /\ Idle.pc = "idle"
  BY Zenon DEF Idle
<1> QED
  BY Zenon, <1>1 DEF ThreadOK

LEMMA InitInv ==
    ASSUME SetFacts, Init
    PROVE  Inv
<1>1. /\ DOMAIN banks = {0} /\ banks[0] = GenesisBank /\ root = 0 /\ stage = "idle"
      /\ target = 0 /\ pending = {} /\ pruned = {} /\ request = {}
      /\ sc = EmptyStatusCache /\ threads = [t \in Threads |-> Idle]
  BY Zenon DEF Init, NoRequest
<1>2. ForksInv
  <2>1. banks[0].chain = {0} /\ banks[0].status = "frozen" /\ BankOK(0, banks[0])
    BY Zenon, <1>1, GenesisFacts
  <2>2. {y \in {0} : y <= 0} = {0}
    OBVIOUS
  <2> QED
    BY Zenon, <1>1, <2>1, <2>2 DEF ForksInv
<1>3. /\ sc.roots = {0} /\ DOMAIN sc.cache = {} /\ DOMAIN sc.deltas = {}
      /\ sc = [cache |-> sc.cache, roots |-> sc.roots, deltas |-> sc.deltas]
  BY Zenon, <1>1 DEF EmptyStatusCache
<1>4. Cardinality({0}) <= MaxCacheEntries
  <2>1. Cardinality({0}) = 1
    BY Zenon, NoneOrOne
  <2> QED
    BY <2>1, SizeAssumption
<1>5. RootsInv
  BY <1>1, <1>3, <1>4, GenesisFacts DEF RootsInv
<1>6. CacheOK(sc) /\ EntriesInv
  BY Zenon, <1>3 DEF CacheOK, EntriesInv
<1>7. TracesInv
  BY Zenon, <1>1, GenesisFacts DEF TracesInv, Traced
<1>8. SnapsInv
  <2>1. snapshot = [slot |-> 0, bank |-> GenesisBank, roots |-> {0}, deltas |-> [s \in {} |-> {}]]
    BY Zenon DEF Init
  <2>2. /\ snapshot.slot = 0 /\ snapshot.bank = GenesisBank /\ snapshot.roots = {0}
        /\ DOMAIN snapshot.deltas = {}
        /\ snapshot = [slot |-> snapshot.slot, bank |-> snapshot.bank,
                       roots |-> snapshot.roots, deltas |-> snapshot.deltas]
    BY Zenon, <2>1
  <2>3. Traced(snapshot.bank, snapshot.roots, snapshot.deltas)
    BY Zenon, <2>2, GenesisFacts DEF Traced
  <2>4. SnapOK(snapshot, repaired)
    BY Zenon, <1>4, <2>2, <2>3, GenesisFacts DEF SnapOK
  <2> QED
    BY Zenon, <1>1, <2>4 DEF SnapsInv
<1>9. ThreadsInv
  <2>1. \A t \in Threads : threads[t] = Idle
    BY Zenon, <1>1
  <2>2. Idle.pc = "idle"
    BY Zenon DEF Idle
  <2> QED
    BY Zenon, <1>1, <2>1, <2>2, IdleOK DEF ThreadsInv, Apart
<1> QED
  BY Zenon, <1>2, <1>5, <1>6, <1>7, <1>8, <1>9 DEF Inv

-----------------------------------------------------------------------------
(* Processing threads.                                                     *)

(* Of a transaction that a fork processed, get_status fails to tell only   *)
(* once the blockhash is too old.  S stands for the blocks the fork's      *)
(* queue has registered.                                                   *)
LEMMA Forgotten ==
    ASSUME SetFacts, Inv, NEW b \in DOMAIN banks, root \in banks[b].chain,
           NEW tx \in DOMAIN banks[b].done, ~tx.recent.durable,
           ~GetStatus(sc, tx, banks[b].ancestors),
           NEW S, S \subseteq banks[b].chain, banks[b].chain \ {b} \subseteq S,
           b = root => b \in S
    PROVE  Cardinality(Above(S, tx.recent.hash)) > MaxAge
<1>1. /\ b \in Nat /\ root \in Nat
      /\ banks[b].chain \subseteq Slots
      /\ \A x \in banks[b].chain : x \in Nat /\ x <= b
      /\ \A y \in Nat : y \in banks[root].chain <=> y \in banks[b].chain /\ y <= root
  BY Zenon, ForkFacts DEF Inv, ForksInv
<1>2. \A y \in sc.roots : y \in banks[b].chain /\ y <= root /\ y \in Nat
  <2>1. \A y \in sc.roots : y \in banks[root].chain
    BY Zenon DEF Inv, RootsInv
  <2>2. \A y \in banks[root].chain : y \in Nat
    BY Zenon, ForkFacts DEF Inv, ForksInv
  <2> QED
    BY Zenon, <1>1, <2>1, <2>2
<1>3. tx \in Transactions /\ tx.recent.hash \in Int
  <2>1. tx \in Transactions
    BY Zenon DEF Inv, ForksInv, BankOK
  <2> QED
    BY Zenon, <2>1, TransactionFacts
<1>4. PICK x \in banks[b].chain :
        /\ tx.recent.hash < x
        /\ \/ Gone(sc.roots, x)
           \/ \E i \in Indexes : <<tx.recent, i, tx.key>> \in DeltasOf(sc.deltas, x)
  BY Zenon DEF Inv, TracesInv, Traced
<1>5. Gone(sc.roots, x)
  <2> SUFFICES ASSUME ~Gone(sc.roots, x) PROVE FALSE
    BY Zenon
  <2>1. PICK i \in Indexes : <<tx.recent, i, tx.key>> \in DeltasOf(sc.deltas, x)
    BY Zenon, <1>4
  <2>2. x \in DOMAIN sc.deltas /\ <<tx.recent, i, tx.key>> \in sc.deltas[x]
    BY Zenon, <2>1 DEF DeltasOf
  <2>3. /\ <<tx.recent, i, tx.key>>[1] = tx.recent
        /\ <<tx.recent, i, tx.key>>[2] = i
        /\ <<tx.recent, i, tx.key>>[3] = tx.key
    BY Zenon
  <2>4. /\ tx.recent \in DOMAIN sc.cache
        /\ <<sc.cache[tx.recent].index, tx.key, x>> \in sc.cache[tx.recent].forks
    BY Zenon, <2>2, <2>3 DEF Inv, CacheOK
  <2>5. x \in banks[b].ancestors \cup sc.roots
    BY Zenon DEF Inv, RootsInv
  <2> QED
    BY Zenon, <2>4, <2>5 DEF GetStatus
<1>6. x # b \/ b \in S
  <2> SUFFICES ASSUME x = b, b # root PROVE FALSE
    BY Zenon
  <2>1. Above(sc.roots, x) = {}
    BY <1>1, <1>2 DEF Above
  <2>2. Cardinality(Above(sc.roots, x)) = 0
    BY Zenon, <2>1, NoneOrOne
  <2> QED
    BY <1>5, <2>2, SizeAssumption DEF Gone
<1>7. Above(sc.roots, x) \subseteq S
  <2> SUFFICES ASSUME NEW y \in Above(sc.roots, x) PROVE y \in S
    BY Zenon
  <2>1. y \in banks[b].chain /\ y <= root
    BY Zenon, <1>2 DEF Above
  <2>2. CASE y = b
    BY <1>1, <2>1, <2>2
  <2>3. CASE y # b
    BY Zenon, <2>1, <2>3
  <2> QED
    BY Zenon, <2>2, <2>3
<1>8. x \in S /\ S \subseteq Slots
  BY Zenon, <1>1, <1>6
<1> QED
  BY Zenon, <1>3, <1>4, <1>5, <1>7, <1>8, TooOld

(* So a transaction that passed check_age and check_status_cache has not   *)
(* been processed on the fork.                                             *)
LEMMA NotDone ==
    ASSUME SetFacts, Inv, NEW th, BusyOK(th, banks, root, pruned), th.bank \in DOMAIN banks,
           root \in banks[th.bank].chain, banks[th.bank].status # "frozen",
           ~GetStatus(sc, th.tx, banks[th.bank].ancestors)
    PROVE  th.tx \notin DOMAIN banks[th.bank].done
<1> SUFFICES ASSUME th.tx \in DOMAIN banks[th.bank].done PROVE FALSE
  BY Zenon
<1> DEFINE b == th.bank
           S == banks[b].chain \ {b}
<1>1. CASE th.tx.recent.durable
  <2>1. th.tx.recent.hash < banks[b].nonce /\ banks[b].nonce \in Int
    BY Zenon, <1>1 DEF Inv, ForksInv, BankOK
  <2>2. banks[b].nonce = th.tx.recent.hash
    BY Zenon, <1>1 DEF BusyOK
  <2> QED
    BY <2>1, <2>2
<1>2. CASE ~th.tx.recent.durable
  <2>1. b # root
    BY Zenon DEF Inv, ForksInv
  <2>2. S \subseteq banks[b].chain /\ banks[b].chain \ {b} \subseteq S
    BY Zenon
  <2>3. S \subseteq Slots
    BY Zenon, ForkFacts DEF Inv
  <2>4. Cardinality(Above(S, th.tx.recent.hash)) <= MaxAge
    BY Zenon, <1>2 DEF BusyOK
  <2> HIDE DEF S
  <2>5. Cardinality(Above(S, th.tx.recent.hash)) > MaxAge
    BY Zenon, <1>2, <2>1, <2>2, Forgotten
  <2>6. Cardinality(Above(S, th.tx.recent.hash)) \in Nat /\ MaxAge \in Nat
    BY Zenon, <2>3, AboveType, SizeAssumption
  <2> QED
    BY <2>4, <2>5, <2>6
<1> QED
  BY Zenon, <1>1, <1>2

(* A step of a thread that only moves the thread.                          *)
LEMMA ThreadStep ==
    ASSUME Inv, NEW t \in Threads, NEW th, threads' = [threads EXCEPT ![t] = th],
           UNCHANGED <<banks, root, stage, target, pending, sc, request, snapshot, pruned, repaired>>,
           ThreadOK(th, banks, root, pruned),
           \A u \in Threads : u # t => Apart(th, threads[u]) /\ Apart(threads[u], th)
    PROVE  Inv'
<1>1. ForksInv' /\ RootsInv' /\ CacheOK(sc)' /\ EntriesInv' /\ TracesInv' /\ SnapsInv'
  <2>1. ForksInv'
    BY DEF Inv, ForksInv
  <2>2. RootsInv'
    BY Zenon DEF Inv, RootsInv
  <2>3. CacheOK(sc)'
    BY Zenon DEF Inv
  <2>4. EntriesInv'
    BY Zenon DEF Inv, EntriesInv
  <2>5. TracesInv'
    BY Zenon DEF Inv, TracesInv
  <2>6. SnapsInv'
    BY Zenon DEF Inv, SnapsInv
  <2> QED
    BY Zenon, <2>1, <2>2, <2>3, <2>4, <2>5, <2>6
<1>2. /\ threads = [u \in Threads |-> threads[u]]
      /\ \A u \in Threads : ThreadOK(threads[u], banks, root, pruned)
      /\ \A u, v \in Threads : u # v => Apart(threads[u], threads[v])
  BY Zenon DEF Inv, ThreadsInv
<1>3. /\ threads' = [u \in Threads |-> threads'[u]]
      /\ threads'[t] = th
      /\ \A u \in Threads : u # t => threads'[u] = threads[u]
  BY Zenon, <1>2
<1>4. \A u \in Threads : ThreadOK(threads'[u], banks', root', pruned')
  BY Zenon, <1>2, <1>3
<1>5. \A u, v \in Threads : u # v => Apart(threads'[u], threads'[v])
  BY Zenon, <1>2, <1>3
<1>6. ThreadsInv'
  BY Zenon, <1>3, <1>4, <1>5 DEF ThreadsInv
<1> QED
  BY Zenon, <1>1, <1>6 DEF Inv

LEMMA CheckAgeInv ==
    ASSUME Inv, NEW t \in Threads, NEW b \in DOMAIN banks, NEW tx \in Submitted[<<t, b>>],
           CheckAge(t, b, tx)
    PROVE  Inv'
<1> DEFINE th == [Idle EXCEPT !.pc = "aged", !.bank = b, !.tx = tx]
           q == banks[b].queue
<1>1. /\ threads' = [threads EXCEPT ![t] = th] /\ banks[b].status = "open"
      /\ ~Locked(b, tx) /\ CheckTransactionAge(b, tx)
      /\ UNCHANGED <<banks, root, stage, target, pending, sc, request, snapshot, pruned, repaired>>
  BY Zenon DEF CheckAge
<1>2. /\ th.pc = "aged" /\ th.bank = b /\ th.tx = tx
      /\ DOMAIN th = {"pc", "bank", "tx", "executed", "recorded"}
  <2>1. DOMAIN Idle = {"pc", "bank", "tx", "executed", "recorded"}
    BY Zenon DEF Idle
  <2> QED
    BY Zenon, <2>1
<1> HIDE DEF th
<1>3. b \in Slots /\ b \in Nat /\ \A x \in banks[b].chain : x \in Nat /\ x <= b
  BY Zenon, ForkFacts DEF Inv
<1>4. tx \in Transactions /\ tx.recent.hash \in Int
  <2>1. tx \in Transactions
    BY Zenon, <1>3, SubmittedAssumption
  <2> QED
    BY Zenon, <2>1, TransactionFacts
<1>5. BankOK(b, banks[b]) /\ QueueOK(q, banks[b].chain \ {b})
  BY Zenon, <1>1 DEF Inv, ForksInv, BankOK, Closed
<1>6. ASSUME ~tx.recent.durable
      PROVE  /\ tx.recent.hash < b
             /\ Cardinality(Above(banks[b].chain \ {b}, tx.recent.hash)) <= MaxAge
  <2>1. /\ tx.recent.hash \in DOMAIN q.ages
        /\ q.last - q.ages[tx.recent.hash] <= MaxAge
    BY Zenon, <1>1, <1>6 DEF CheckTransactionAge, IsHashValidForAge, IsHashIndexValid
  <2>2. /\ tx.recent.hash \in (banks[b].chain \ {b}) \cup {Genesis}
        /\ q.last - q.ages[tx.recent.hash] =
              Cardinality(Above(banks[b].chain \ {b}, tx.recent.hash))
    BY Zenon, <1>5, <2>1 DEF QueueOK
  <2>3. tx.recent.hash < b
    BY <1>3, <2>2 DEF Genesis
  <2> QED
    BY Zenon, <2>1, <2>2, <2>3
<1>7. ASSUME tx.recent.durable
      PROVE  /\ banks[b].nonce = tx.recent.hash
             /\ \E y \in banks[b].chain \ {b} : tx.recent.hash < y
  <2>1. tx.recent.hash # q.hash /\ tx.recent.hash = banks[b].nonce
    BY Zenon, <1>1, <1>7 DEF CheckTransactionAge
  <2>2. q.hash \in banks[b].chain \ {b} /\ banks[b].nonce <= q.hash
    BY Zenon, <1>5 DEF QueueOK, BankOK
  <2>3. tx.recent.hash < q.hash
    BY <1>3, <1>4, <2>1, <2>2
  <2> QED
    BY Zenon, <2>1, <2>2, <2>3
<1>8. BusyOK(th, banks, root, pruned)
  BY Zenon, <1>2, <1>3, <1>4, <1>6, <1>7 DEF BusyOK
<1>9. ThreadOK(th, banks, root, pruned)
  BY Zenon, <1>2, <1>8 DEF ThreadOK
<1>10. ASSUME NEW u \in Threads, u # t
       PROVE  Apart(th, threads[u]) /\ Apart(threads[u], th)
  BY Zenon, <1>1, <1>2 DEF Locked, Apart
<1> QED
  BY Zenon, <1>1, <1>9, <1>10, ThreadStep

(* A thread that gives up is idle; one that goes on keeps its locks.       *)
LEMMA GoesOn ==
    ASSUME Inv, NEW t \in Threads, NEW th, threads' = [threads EXCEPT ![t] = th],
           UNCHANGED <<banks, root, stage, target, pending, sc, request, snapshot, pruned, repaired>>,
           \/ th = Idle
           \/ /\ threads[t].pc # "idle"
              /\ th.bank = threads[t].bank
              /\ th.tx = threads[t].tx
              /\ ThreadOK(th, banks, root, pruned)
    PROVE  Inv'
<1>1. Idle.pc = "idle"
  BY Zenon DEF Idle
<1>2. \A u \in Threads : u # t => Apart(threads[t], threads[u]) /\ Apart(threads[u], threads[t])
  BY Zenon DEF Inv, ThreadsInv
<1>3. \A u \in Threads : u # t => Apart(th, threads[u]) /\ Apart(threads[u], th)
  BY Zenon, <1>1, <1>2 DEF Apart
<1>4. ThreadOK(th, banks, root, pruned)
  BY Zenon, IdleOK
<1> QED
  BY Zenon, <1>3, <1>4, ThreadStep

LEMMA CheckStatusCacheInv ==
    ASSUME SetFacts, Inv, NEW t \in Threads, CheckStatusCache(t)
    PROVE  Inv'
<1> DEFINE old == threads[t]
           b == old.bank
           on == [old EXCEPT !.pc = "executed", !.executed = banks[b].queue.hash]
           th == IF ~Present(t) \/ GetStatus(sc, old.tx, banks[b].ancestors) THEN Idle ELSE on
<1>1. /\ threads' = [threads EXCEPT ![t] = th] /\ old.pc = "aged"
      /\ UNCHANGED <<banks, root, stage, target, pending, sc, request, snapshot, pruned, repaired>>
  <2>1. threads = [u \in Threads |-> threads[u]]
    BY Zenon DEF Inv, ThreadsInv
  <2> QED
    BY Zenon, <2>1 DEF CheckStatusCache
<1>2. ThreadOK(old, banks, root, pruned)
  BY Zenon DEF Inv, ThreadsInv
<1>3. BusyOK(old, banks, root, pruned)
  BY Zenon, <1>1, <1>2 DEF ThreadOK
<1>4. /\ on.pc = "executed" /\ on.bank = b /\ on.tx = old.tx
      /\ on.executed = banks[b].queue.hash
      /\ DOMAIN on = {"pc", "bank", "tx", "executed", "recorded"}
  <2>1. DOMAIN old = {"pc", "bank", "tx", "executed", "recorded"}
    BY Zenon, <1>2 DEF ThreadOK
  <2> HIDE DEF old
  <2> QED
    BY Zenon, <2>1
<1>5. ASSUME Present(t), ~GetStatus(sc, old.tx, banks[b].ancestors)
      PROVE  ThreadOK(on, banks, root, pruned)
  <2>1. ExecutedOK(on, banks, root)
    <3>1. (banks[b].status # "frozen" /\ root \in banks[b].chain) =>
              old.tx \notin DOMAIN banks[b].done
      BY Zenon, <1>3, <1>5, NotDone DEF Present
    <3> HIDE DEF on, old
    <3> QED
      BY <1>4, <3>1 DEF ExecutedOK
  <2> HIDE DEF on, old
  <2>2. BusyOK(on, banks, root, pruned)
    BY Zenon, <1>3, <1>4 DEF BusyOK
  <2> QED
    BY Zenon, <1>4, <2>1, <2>2 DEF ThreadOK
<1>6. th = Idle \/ (th = on /\ ThreadOK(on, banks, root, pruned))
  BY Zenon, <1>5
<1> HIDE DEF th, on
<1> QED
  BY Zenon, <1>1, <1>4, <1>6, GoesOn

LEMMA RecordInv ==
    ASSUME Inv, NEW t \in Threads, Record(t)
    PROVE  Inv'
<1> DEFINE old == threads[t]
           b == old.bank
           on == [old EXCEPT !.pc = "recorded", !.recorded = banks[b].queue.hash]
           th == IF Present(t) /\ banks[b].status = "open" THEN on ELSE Idle
<1>1. /\ threads' = [threads EXCEPT ![t] = th] /\ old.pc = "executed"
      /\ UNCHANGED <<banks, root, stage, target, pending, sc, request, snapshot, pruned, repaired>>
  <2>1. threads = [u \in Threads |-> threads[u]]
    BY Zenon DEF Inv, ThreadsInv
  <2> QED
    BY Zenon, <2>1 DEF Record
<1>2. ThreadOK(old, banks, root, pruned)
  BY Zenon DEF Inv, ThreadsInv
<1>3. BusyOK(old, banks, root, pruned) /\ ExecutedOK(old, banks, root)
  BY Zenon, <1>1, <1>2 DEF ThreadOK
<1>4. /\ on.pc = "recorded" /\ on.bank = b /\ on.tx = old.tx
      /\ on.executed = old.executed /\ on.recorded = banks[b].queue.hash
      /\ DOMAIN on = {"pc", "bank", "tx", "executed", "recorded"}
  <2>1. DOMAIN old = {"pc", "bank", "tx", "executed", "recorded"}
    BY Zenon, <1>2 DEF ThreadOK
  <2> HIDE DEF old
  <2> QED
    BY Zenon, <2>1
<1> HIDE DEF on, old
<1>5. ASSUME Present(t), banks[b].status = "open"
      PROVE  ThreadOK(on, banks, root, pruned)
  <2>1. b \in DOMAIN banks
    BY Zenon, <1>5 DEF Present, old
  <2>2. QueueOK(banks[b].queue, banks[b].chain \ {b})
    BY Zenon, <1>5, <2>1 DEF Inv, ForksInv, BankOK, Closed
  <2>3. /\ banks[b].queue.hash \in banks[b].chain \ {b}
        /\ \A x \in banks[b].chain \ {b} : x <= banks[b].queue.hash
    BY Zenon, <2>2 DEF QueueOK
  <2>4. /\ old.executed = banks[b].queue.hash
        /\ root \in banks[b].chain => old.tx \notin DOMAIN banks[b].done
    BY Zenon, <1>3, <1>5, <2>1 DEF ExecutedOK
  <2>5. RecordedOK(on, banks, root)
    BY Zenon, <1>4, <1>5, <2>1, <2>3, <2>4 DEF RecordedOK
  <2>6. BusyOK(on, banks, root, pruned)
    BY Zenon, <1>3, <1>4 DEF BusyOK
  <2> QED
    BY Zenon, <1>4, <2>5, <2>6 DEF ThreadOK
<1>6. th = Idle \/ (th = on /\ ThreadOK(on, banks, root, pruned))
  BY Zenon, <1>5
<1> HIDE DEF th
<1> QED
  BY Zenon, <1>1, <1>4, <1>6, GoesOn DEF old

-----------------------------------------------------------------------------
LEMMA CommitInv ==
    ASSUME Inv, NEW t \in Threads, NEW ok \in BOOLEAN, NEW drawn \in Indexes, Commit(t, ok, drawn)
    PROVE  Inv'
<1> DEFINE th == threads[t]
           b == th.bank
           tx == th.tx
<1>1. /\ th.pc = "recorded"
      /\ sc' = Insert(sc, tx.recent, tx.key, b, drawn)
      /\ threads' = [threads EXCEPT ![t] = Idle]
      /\ UNCHANGED <<root, stage, target, pending, request, snapshot, pruned, repaired>>
  BY Zenon DEF Commit
<1>2. banks' = [x \in DOMAIN banks |->
                  IF x = b THEN [banks[x] EXCEPT !.nonce = NonceAfter(b, th, ok),
                                                 !.done = Process(@, tx, b)]
                           ELSE banks[x]]
  BY Zenon DEF Commit
<1>3. ThreadOK(th, banks, root, pruned)
  BY Zenon DEF Inv, ThreadsInv
<1>4. BusyOK(th, banks, root, pruned) /\ RecordedOK(th, banks, root)
  BY Zenon, <1>1, <1>3 DEF ThreadOK
<1>5. /\ b \in Slots /\ tx \in Transactions
      /\ b \in DOMAIN banks \cup pruned \/ b <= root
  BY Zenon, <1>4 DEF BusyOK
<1>6. /\ tx.recent \in Recents /\ tx.key \in Keys /\ tx.recent.hash \in Int
      /\ tx = [recent |-> tx.recent, key |-> tx.key]
  BY Zenon, <1>5, TransactionFacts
<1>7. \A x \in DOMAIN banks : BankOK(x, banks[x])
  BY Zenon DEF Inv, ForksInv
<1> HIDE DEF th
<1>8. ASSUME NEW x \in DOMAIN banks
      PROVE  /\ DOMAIN banks'[x] = {"chain", "ancestors", "status", "queue", "nonce", "done"}
             /\ banks'[x].chain = banks[x].chain
             /\ banks'[x].ancestors = banks[x].ancestors
             /\ banks'[x].status = banks[x].status
             /\ banks'[x].queue = banks[x].queue
             /\ x # b => banks'[x] = banks[x]
             /\ x = b => /\ banks'[x].nonce = NonceAfter(b, th, ok)
                         /\ DOMAIN banks'[x].done = DOMAIN banks[x].done \cup {tx}
  <2>1. DOMAIN banks[x] = {"chain", "ancestors", "status", "queue", "nonce", "done"}
    BY Zenon, <1>7, <1>8 DEF BankOK
  <2>2. CASE x # b
    BY Zenon, <1>2, <2>1, <2>2
  <2>3. CASE x = b
    <3>1. banks'[x] = [banks[x] EXCEPT !.nonce = NonceAfter(b, th, ok),
                                       !.done = Process(@, tx, b)]
      BY Zenon, <1>2, <2>3
    <3>2. DOMAIN Process(banks[x].done, tx, b) = DOMAIN banks[x].done \cup {tx}
      BY Zenon DEF Process
    <3> QED
      BY Zenon, <2>1, <2>3, <3>1, <3>2
  <2> QED
    BY Zenon, <2>2, <2>3
<1>9. DOMAIN banks' = DOMAIN banks
  BY Zenon, <1>2
<1>10. ASSUME b \in DOMAIN banks, tx.recent.durable
       PROVE  /\ NonceAfter(b, th, ok) \in Int
              /\ NonceAfter(b, th, ok) <= banks[b].queue.hash
              /\ banks[b].nonce = tx.recent.hash
              /\ tx.recent.hash < NonceAfter(b, th, ok)
  <2>1. NonceAfter(b, th, ok) = th.recorded
    BY Zenon, <1>4, <1>10 DEF NonceAfter, RecordedOK
  <2>2. /\ banks[b].nonce = tx.recent.hash
        /\ \E y \in banks[b].chain \ {b} : tx.recent.hash < y
    BY Zenon, <1>4, <1>10 DEF BusyOK
  <2>3. /\ th.recorded \in banks[b].chain \ {b}
        /\ \A y \in banks[b].chain \ {b} : y <= th.recorded
    BY Zenon, <1>4, <1>10 DEF RecordedOK
  <2>4. \A y \in banks[b].chain : y \in Int
    BY <1>10, ForkFacts DEF Inv
  <2>5. th.recorded \in Closed(b, banks[b])
    BY Zenon, <2>3 DEF Closed
  <2>6. th.recorded <= banks[b].queue.hash
    BY Zenon, <1>7, <1>10, <2>5 DEF BankOK, QueueOK
  <2> QED
    BY <1>6, <2>1, <2>2, <2>3, <2>4, <2>6
<1>11. ASSUME b \in DOMAIN banks, ~tx.recent.durable
       PROVE  NonceAfter(b, th, ok) = banks[b].nonce
  BY Zenon, <1>11 DEF NonceAfter
<1>12. ASSUME NEW x \in DOMAIN banks
       PROVE  BankOK(x, banks'[x])
  <2>1. CASE x # b
    BY Zenon, <1>7, <1>8, <2>1
  <2>2. CASE x = b
    <3>1. Closed(x, banks'[x]) = Closed(x, banks[x])
      BY Zenon, <1>8 DEF Closed
    <3>2. banks'[x].nonce \in Int /\ banks'[x].nonce <= banks'[x].queue.hash
      BY <1>7, <1>8, <1>10, <1>11, <2>2 DEF BankOK
    <3>3. banks[x].nonce <= banks'[x].nonce /\ banks[x].nonce \in Int
      BY <1>6, <1>7, <1>8, <1>10, <1>11, <2>2 DEF BankOK
    <3>4. ASSUME NEW z \in DOMAIN banks'[x].done
          PROVE  z \in Transactions /\ (z.recent.durable => z.recent.hash < banks'[x].nonce)
      <4>1. CASE z = tx
        BY Zenon, <1>5, <1>8, <1>10, <2>2, <4>1
      <4>2. CASE z \in DOMAIN banks[x].done
        <5>1. z \in Transactions /\ (z.recent.durable => z.recent.hash < banks[x].nonce)
          BY Zenon, <1>7, <4>2 DEF BankOK
        <5>2. z.recent.hash \in Int
          BY Zenon, <5>1, TransactionFacts
        <5> QED
          BY <3>2, <3>3, <5>1, <5>2
      <4> QED
        BY <1>8, <2>2, <3>4, <4>1, <4>2
    <3> QED
      BY Zenon, <1>7, <1>8, <3>1, <3>2, <3>4 DEF BankOK
  <2> QED
    BY Zenon, <2>1, <2>2
<1>13. ForksInv'
  <2>1. \A x \in DOMAIN banks : banks'[x].chain = banks[x].chain /\ banks'[x].status = banks[x].status
    BY Zenon, <1>8
  <2>2. ForksInv
    BY Zenon DEF Inv
  <2> QED
    BY <1>1, <1>9, <1>12, <2>1, <2>2 DEF ForksInv
<1>14. PICK i \in Indexes :
          /\ CacheOK(sc')
          /\ sc'.roots = sc.roots
          /\ \A x : DeltasOf(sc.deltas, x) \subseteq DeltasOf(sc'.deltas, x)
          /\ <<tx.recent, i, tx.key>> \in DeltasOf(sc'.deltas, b)
          /\ \A q \in DOMAIN sc'.cache : \A f \in sc'.cache[q].forks :
                \/ q \in DOMAIN sc.cache /\ f \in sc.cache[q].forks
                \/ q = tx.recent /\ f = <<i, tx.key, b>>
  <2>1. CacheOK(sc)
    BY Zenon DEF Inv
  <2>2. CacheOK(sc') /\ sc'.roots = sc.roots /\ \E i \in Indexes : Adds(sc, sc', tx.recent, i, tx.key, b)
    BY <1>1, <1>5, <1>6, <2>1, InsertFacts
  <2> QED
    BY Zenon, <2>2 DEF Adds
<1>15. RootsInv'
  <2>1. \A x \in DOMAIN banks : banks'[x].chain = banks[x].chain /\ banks'[x].ancestors = banks[x].ancestors
    BY Zenon, <1>8
  <2>2. RootsInv /\ root \in DOMAIN banks
    BY Zenon DEF Inv, ForksInv
  <2> QED
    BY Zenon, <1>1, <1>9, <1>14, <2>1, <2>2 DEF RootsInv
<1>16. ASSUME NEW q \in DOMAIN sc'.cache, NEW f \in sc'.cache[q].forks
       PROVE  /\ f[3] > root => /\ <<q, f[1], f[2]>> \in DeltasOf(sc'.deltas, f[3])
                                /\ f[3] \in DOMAIN banks \cup pruned \cup repaired
              /\ \A x \in DOMAIN banks : f[3] \in banks[x].chain =>
                    \/ f[3] \in repaired
                    \/ [recent |-> q, key |-> f[2]] \in DOMAIN banks'[x].done
  <2>1. CASE q \in DOMAIN sc.cache /\ f \in sc.cache[q].forks
    <3>1. \A x \in DOMAIN banks : DOMAIN banks[x].done \subseteq DOMAIN banks'[x].done
      BY Zenon, <1>8
    <3>2. /\ f[3] > root => /\ <<q, f[1], f[2]>> \in DeltasOf(sc.deltas, f[3])
                            /\ f[3] \in DOMAIN banks \cup pruned \cup repaired
          /\ \A x \in DOMAIN banks : f[3] \in banks[x].chain =>
                \/ f[3] \in repaired
                \/ [recent |-> q, key |-> f[2]] \in DOMAIN banks[x].done
      BY Zenon, <2>1 DEF Inv, EntriesInv
    <3> QED
      BY Zenon, <1>14, <3>1, <3>2
  <2>2. CASE q = tx.recent /\ f = <<i, tx.key, b>>
    <3>1. f[1] = i /\ f[2] = tx.key /\ f[3] = b
      BY Zenon, <2>2
    <3>2. b > root => b \in DOMAIN banks \cup pruned
      <4>1. b \in Nat /\ root \in Nat
        BY Zenon, <1>5, SlotFacts, ForkFacts DEF Inv
      <4> QED
        BY <1>5, <4>1
    <3>3. ASSUME NEW x \in DOMAIN banks, b \in banks[x].chain
          PROVE  tx \in DOMAIN banks'[x].done
      <4>1. b \in DOMAIN banks /\ banks[b].status # "frozen"
        BY Zenon, <1>4, <3>3 DEF RecordedOK
      <4>2. x = b
        BY Zenon, <3>3, <4>1 DEF Inv, ForksInv
      <4> QED
        BY Zenon, <1>8, <4>2
    <3> QED
      BY Zenon, <1>6, <1>14, <2>2, <3>1, <3>2, <3>3
  <2> QED
    BY Zenon, <1>14, <1>16, <2>1, <2>2
<1>17. EntriesInv'
  <2>1. \A x \in DOMAIN banks : banks'[x].chain = banks[x].chain
    BY Zenon, <1>8
  <2> QED
    BY Zenon, <1>1, <1>9, <1>16, <2>1 DEF EntriesInv
<1>18. TracesInv'
  <2> SUFFICES ASSUME NEW x \in DOMAIN banks PROVE Traced(banks'[x], sc'.roots, sc'.deltas)
    BY Zenon, <1>9 DEF TracesInv
  <2> SUFFICES ASSUME NEW z \in DOMAIN banks'[x].done
               PROVE  \E y \in banks'[x].chain :
                        /\ ~z.recent.durable => z.recent.hash < y
                        /\ \/ Gone(sc'.roots, y)
                           \/ \E j \in Indexes : <<z.recent, j, z.key>> \in DeltasOf(sc'.deltas, y)
    BY Zenon DEF Traced
  <2>1. CASE z \in DOMAIN banks[x].done
    <3>1. PICK y \in banks[x].chain :
            /\ ~z.recent.durable => z.recent.hash < y
            /\ \/ Gone(sc.roots, y)
               \/ \E j \in Indexes : <<z.recent, j, z.key>> \in DeltasOf(sc.deltas, y)
      BY Zenon, <2>1 DEF Inv, TracesInv, Traced
    <3> QED
      BY Zenon, <1>8, <1>14, <3>1
  <2>2. CASE x = b /\ z = tx
    <3>1. b \in banks'[x].chain
      BY Zenon, <1>8, <2>2, ForkFacts DEF Inv
    <3>2. ~tx.recent.durable => tx.recent.hash < b
      BY Zenon, <1>4, <2>2 DEF BusyOK
    <3> QED
      BY Zenon, <1>14, <2>2, <3>1, <3>2
  <2> QED
    BY <1>8, <2>1, <2>2
<1>19. SnapsInv'
  BY Zenon, <1>1 DEF Inv, SnapsInv
<1>20. ThreadsInv'
  <2>1. /\ threads = [u \in Threads |-> threads[u]]
        /\ \A u \in Threads : ThreadOK(threads[u], banks, root, pruned)
        /\ \A u, v \in Threads : u # v => Apart(threads[u], threads[v])
    BY Zenon DEF Inv, ThreadsInv
  <2>2. /\ threads' = [u \in Threads |-> threads'[u]]
        /\ threads'[t] = Idle
        /\ \A u \in Threads : u # t => threads'[u] = threads[u]
    BY Zenon, <1>1, <2>1
  <2>3. \A u, v \in Threads : u # v => Apart(threads'[u], threads'[v])
    <3>1. Idle.pc = "idle"
      BY Zenon DEF Idle
    <3> QED
      BY <2>1, <2>2, <3>1 DEF Apart
  <2>4. ASSUME NEW u \in Threads, u # t
        PROVE  ThreadOK(threads[u], banks', root, pruned)
    <3>0. PICK ot : ot = threads[u]
      BY Zenon
    <3> SUFFICES ThreadOK(ot, banks', root, pruned)
      BY Zenon, <3>0
    <3>1. ThreadOK(ot, banks, root, pruned) /\ Apart(th, ot)
      BY Zenon, <2>1, <2>4, <3>0 DEF th
    <3>2. CASE ot.pc = "idle"
      BY Zenon, <3>1, <3>2 DEF ThreadOK
    <3>3. CASE ot.pc # "idle" /\ ot.bank \in DOMAIN banks /\ ot.bank = b
      <4>1. ot.tx # tx /\ ~(tx.recent.durable /\ ot.tx.recent.durable)
        BY Zenon, <1>1, <3>1, <3>3 DEF Apart
      <4>2. /\ banks'[b].chain = banks[b].chain /\ banks'[b].status = banks[b].status
            /\ banks'[b].queue = banks[b].queue
            /\ ot.tx.recent.durable => banks'[b].nonce = banks[b].nonce
            /\ ot.tx \in DOMAIN banks'[b].done => ot.tx \in DOMAIN banks[b].done
        BY <1>8, <1>11, <3>3, <4>1
      <4>3. BusyOK(ot, banks', root, pruned)
        BY Zenon, <1>9, <3>1, <3>3, <4>2 DEF ThreadOK, BusyOK
      <4>4. ot.pc = "executed" => ExecutedOK(ot, banks', root)
        BY Zenon, <1>9, <3>1, <3>3, <4>2 DEF ThreadOK, ExecutedOK
      <4>5. ot.pc = "recorded" => RecordedOK(ot, banks', root)
        BY Zenon, <1>9, <3>1, <3>3, <4>2 DEF ThreadOK, RecordedOK
      <4> QED
        BY Zenon, <3>1, <4>3, <4>4, <4>5 DEF ThreadOK
    <3>4. CASE ot.pc # "idle" /\ ~(ot.bank \in DOMAIN banks /\ ot.bank = b)
      <4>1. \A x \in DOMAIN banks : banks'[x].chain = banks[x].chain
        BY Zenon, <1>8
      <4>2. ot.bank \in DOMAIN banks => banks'[ot.bank] = banks[ot.bank]
        BY Zenon, <1>8, <3>4
      <4>3. ot.bank \in DOMAIN banks \cup pruned \/ ot.bank <= root
        BY Zenon, <3>1, <3>4 DEF ThreadOK, BusyOK
      <4>4. ot.pc = "recorded" /\ ot.bank \notin DOMAIN banks =>
                \A x \in DOMAIN banks : ot.bank \notin banks'[x].chain
        BY Zenon, <3>1, <4>1 DEF ThreadOK, RecordedOK
      <4> HIDE DEF b, tx
      <4> QED
        BY Zenon, <1>9, <3>1, <4>2, <4>3, <4>4, ThreadKept
    <3> QED
      BY Zenon, <3>2, <3>3, <3>4
  <2>5. \A u \in Threads : ThreadOK(threads'[u], banks', root', pruned')
    BY Zenon, <1>1, <2>2, <2>4, IdleOK
  <2> QED
    BY Zenon, <2>2, <2>3, <2>5 DEF ThreadsInv
<1> QED
  BY Zenon, <1>13, <1>14, <1>15, <1>17, <1>18, <1>19, <1>20 DEF Inv

-----------------------------------------------------------------------------
(* The replay stage.                                                       *)

(* Threads that the step leaves alone.                                     *)
LEMMA ThreadsKept ==
    ASSUME ThreadsInv, threads' = threads,
           \A t \in Threads :
              /\ threads[t].pc # "idle" =>
                   /\ threads[t].bank \in DOMAIN banks' \cup pruned' \/ threads[t].bank <= root'
                   /\ threads[t].bank \in DOMAIN banks' =>
                        /\ threads[t].bank \in DOMAIN banks
                        /\ banks'[threads[t].bank] = banks[threads[t].bank]
                        /\ root' \in banks[threads[t].bank].chain => root \in banks[threads[t].bank].chain
              /\ threads[t].pc = "recorded" /\ threads[t].bank \notin DOMAIN banks' =>
                   \A x \in DOMAIN banks' : threads[t].bank \notin banks'[x].chain
    PROVE  ThreadsInv'
<1>1. ASSUME NEW t \in Threads PROVE ThreadOK(threads[t], banks', root', pruned')
  <2>1. ThreadOK(threads[t], banks, root, pruned)
    BY Zenon DEF ThreadsInv
  <2> QED
    BY Zenon, <2>1, ThreadKept
<1> QED
  BY Zenon, <1>1 DEF ThreadsInv

(* What is known of a thread's bank.                                       *)
LEMMA ThreadFacts ==
    ASSUME Inv, NEW t \in Threads, threads[t].pc # "idle"
    PROVE  /\ threads[t].bank \in Nat
           /\ threads[t].bank \in DOMAIN banks \cup pruned \/ threads[t].bank <= root
           /\ threads[t].pc = "recorded" =>
                /\ threads[t].bank \in DOMAIN banks => banks[threads[t].bank].status # "frozen"
                /\ threads[t].bank \notin DOMAIN banks =>
                     \A x \in DOMAIN banks : threads[t].bank \notin banks[x].chain
<1>1. ThreadOK(threads[t], banks, root, pruned)
  BY Zenon DEF Inv, ThreadsInv
<1>2. BusyOK(threads[t], banks, root, pruned)
  BY Zenon, <1>1 DEF ThreadOK
<1>3. threads[t].pc = "recorded" => RecordedOK(threads[t], banks, root)
  BY Zenon, <1>1 DEF ThreadOK
<1> QED
  BY Zenon, <1>2, <1>3, SlotFacts DEF BusyOK, RecordedOK

LEMMA NewBankInv ==
    ASSUME Inv, NEW p \in Slots, NEW s \in Slots, NewBank(p, s)
    PROVE  Inv'
<1>1. /\ stage = "idle" /\ p \in DOMAIN banks /\ p >= root /\ banks[p].status = "frozen"
      /\ s > p /\ s \notin DOMAIN banks \cup pruned
      /\ UNCHANGED <<root, stage, target, pending, sc, threads, request, snapshot, pruned, repaired>>
  BY Zenon DEF NewBank
<1>2. /\ p \in Nat /\ s \in Nat /\ root \in Nat /\ s > root
      /\ \A x \in banks[p].chain : x \in Nat /\ x <= p
      /\ BankOK(p, banks[p])
      /\ root \in banks[p].chain
  <2>1. ForksInv /\ s \in Nat
    BY Zenon, SlotFacts DEF Inv
  <2>2. /\ p \in Nat /\ root \in Nat
        /\ \A x \in banks[p].chain : x \in Nat /\ x <= p
    BY Zenon, <1>1, <2>1, ForkFacts
  <2>3. BankOK(p, banks[p]) /\ root \in banks[p].chain
    BY Zenon, <1>1, <2>1 DEF ForksInv
  <2> QED
    BY <1>1, <2>1, <2>2, <2>3
<1>3. /\ DOMAIN banks' = DOMAIN banks \cup {s}
      /\ \A x \in DOMAIN banks : banks'[x] = banks[x]
      /\ banks'[s] = [banks[p] EXCEPT !.chain = @ \cup {s},
                                      !.ancestors = {y \in banks[p].chain : y >= root} \cup {s},
                                      !.status = "open"]
  BY Zenon, <1>1 DEF NewBank
<1>4. PICK fresh : fresh = banks'[s]
  BY Zenon
<1>5. /\ DOMAIN fresh = {"chain", "ancestors", "status", "queue", "nonce", "done"}
      /\ fresh.chain = banks[p].chain \cup {s}
      /\ fresh.ancestors = {y \in banks[p].chain : y >= root} \cup {s}
      /\ fresh.status = "open"
      /\ fresh.queue = banks[p].queue /\ fresh.nonce = banks[p].nonce
      /\ fresh.done = banks[p].done
  <2>1. DOMAIN banks[p] = {"chain", "ancestors", "status", "queue", "nonce", "done"}
    BY Zenon, <1>2 DEF BankOK
  <2> QED
    BY Zenon, <1>3, <1>4, <2>1
<1>6. s \notin banks[p].chain /\ \A b \in DOMAIN banks : s \notin banks[b].chain
  <2>1. ASSUME NEW b \in DOMAIN banks, s \in banks[b].chain PROVE FALSE
    <3>1. s >= root => s \in DOMAIN banks
      BY Zenon, <2>1 DEF Inv, ForksInv
    <3> QED
      BY <1>1, <1>2, <3>1
  <2> QED
    BY Zenon, <1>1, <2>1
<1>7. BankOK(s, fresh)
  <2>1. Closed(s, fresh) = Closed(p, banks[p])
    BY Zenon, <1>1, <1>5, <1>6 DEF Closed
  <2>2. QueueOK(fresh.queue, Closed(s, fresh))
    BY Zenon, <1>2, <1>5, <2>1 DEF BankOK
  <2>3. \A x \in fresh.chain : x <= s
    BY <1>1, <1>2, <1>5
  <2>4. fresh.chain \subseteq Slots /\ s \in fresh.chain /\ 0 \in fresh.chain
    BY Zenon, <1>2, <1>5 DEF BankOK
  <2>5. fresh.ancestors \subseteq fresh.chain
    BY Zenon, <1>5
  <2>6. /\ fresh.nonce \in Int /\ fresh.nonce <= fresh.queue.hash
        /\ \A tx \in DOMAIN fresh.done :
             tx \in Transactions /\ (tx.recent.durable => tx.recent.hash < fresh.nonce)
    BY Zenon, <1>2, <1>5 DEF BankOK
  <2> QED
    BY Zenon, <1>5, <2>2, <2>3, <2>4, <2>5, <2>6 DEF BankOK
<1>8. ForksInv'
  <2>1. ForksInv
    BY Zenon DEF Inv
  <2>2. ASSUME NEW b \in DOMAIN banks', NEW x \in banks'[b].chain
        PROVE  /\ x >= root => x \in DOMAIN banks'
               /\ x \in DOMAIN banks' => banks'[x].chain = {y \in banks'[b].chain : y <= x}
               /\ x \in DOMAIN banks' /\ x # b => banks'[x].status = "frozen"
               /\ x \notin pruned
    <3>1. CASE b \in DOMAIN banks
      <4>1. banks'[b] = banks[b] /\ x \in banks[b].chain /\ x # s
        BY Zenon, <1>3, <1>6, <2>2, <3>1
      <4> QED
        BY <1>3, <2>1, <3>1, <4>1 DEF ForksInv
    <3>2. CASE b = s /\ x = s
      <4>1. \A y \in fresh.chain : y <= s
        BY Zenon, <1>7 DEF BankOK
      <4> QED
        BY Zenon, <1>1, <1>3, <1>4, <3>2, <4>1
    <3>3. CASE b = s /\ x # s
      <4>1. x \in banks[p].chain /\ x \in Nat /\ x <= p
        BY Zenon, <1>2, <1>4, <1>5, <2>2, <3>3
      <4>2. /\ x >= root => x \in DOMAIN banks
            /\ x \in DOMAIN banks => banks[x].chain = {y \in banks[p].chain : y <= x}
            /\ x \in DOMAIN banks => banks[x].status = "frozen"
            /\ x \notin pruned
        BY Zenon, <1>1, <2>1, <4>1 DEF ForksInv
      <4>3. {y \in banks[p].chain : y <= x} = {y \in fresh.chain : y <= x}
        BY <1>1, <1>2, <1>5, <4>1
      <4> QED
        BY Zenon, <1>3, <1>4, <3>3, <4>2, <4>3
    <3> QED
      BY Zenon, <1>3, <3>1, <3>2, <3>3
  <2>3. \A b \in DOMAIN banks' : BankOK(b, banks'[b]) /\ root \in banks'[b].chain
    BY Zenon, <1>1, <1>2, <1>3, <1>4, <1>5, <1>7, <2>1 DEF ForksInv
  <2>4. root \in DOMAIN banks' /\ banks'[root].status = "frozen"
    BY Zenon, <1>3, <2>1 DEF ForksInv
  <2> QED
    BY Zenon, <1>1, <2>2, <2>3, <2>4 DEF ForksInv
<1>9. RootsInv'
  <2>1. RootsInv /\ root \in DOMAIN banks
    BY Zenon DEF Inv, ForksInv
  <2>2. ASSUME NEW b \in DOMAIN banks', NEW x \in banks'[b].chain
        PROVE  x \in banks'[b].ancestors \cup sc.roots \/ Gone(sc.roots, x)
    <3>1. CASE b \in DOMAIN banks
      BY Zenon, <1>3, <2>1, <2>2, <3>1 DEF RootsInv
    <3>2. CASE b = s /\ (x = s \/ x >= root)
      BY Zenon, <1>4, <1>5, <2>2, <3>2
    <3>3. CASE b = s /\ x # s /\ ~(x >= root)
      <4>1. x \in banks[p].chain /\ x \in Nat /\ x <= root
        BY <1>2, <1>4, <1>5, <2>2, <3>3
      <4>2. x \in banks[root].chain
        BY Zenon, <1>1, <1>2, <2>1, <4>1, ForkFacts DEF Inv
      <4> QED
        BY Zenon, <1>1, <2>1, <4>1, <4>2 DEF RootsInv
    <3> QED
      BY Zenon, <1>3, <3>1, <3>2, <3>3
  <2> QED
    BY Zenon, <1>1, <1>3, <2>1, <2>2 DEF RootsInv
<1>10. EntriesInv'
  <2> SUFFICES ASSUME NEW r \in DOMAIN sc.cache, NEW f \in sc.cache[r].forks
               PROVE  /\ f[3] > root => /\ <<r, f[1], f[2]>> \in DeltasOf(sc.deltas, f[3])
                                        /\ f[3] \in DOMAIN banks' \cup pruned \cup repaired
                      /\ \A b \in DOMAIN banks' : f[3] \in banks'[b].chain =>
                            \/ f[3] \in repaired
                            \/ [recent |-> r, key |-> f[2]] \in DOMAIN banks'[b].done
    BY Zenon, <1>1 DEF EntriesInv
  <2>1. /\ f[3] > root => /\ <<r, f[1], f[2]>> \in DeltasOf(sc.deltas, f[3])
                          /\ f[3] \in DOMAIN banks \cup pruned \cup repaired
        /\ \A b \in DOMAIN banks : f[3] \in banks[b].chain =>
              \/ f[3] \in repaired
              \/ [recent |-> r, key |-> f[2]] \in DOMAIN banks[b].done
    BY Zenon DEF Inv, EntriesInv
  <2>2. f[3] = s => f[3] \in repaired
    BY Zenon, <1>1, <1>2, <2>1
  <2>3. f[3] \in fresh.chain => \/ f[3] \in repaired
                                \/ [recent |-> r, key |-> f[2]] \in DOMAIN fresh.done
    BY Zenon, <1>1, <1>5, <2>1, <2>2
  <2> QED
    BY Zenon, <1>3, <1>4, <2>1, <2>3
<1>11. TracesInv'
  <2>1. Traced(banks[p], sc.roots, sc.deltas)
    BY Zenon, <1>1 DEF Inv, TracesInv
  <2>2. Traced(fresh, sc.roots, sc.deltas)
    BY Zenon, <1>5, <2>1 DEF Traced
  <2> QED
    BY Zenon, <1>1, <1>3, <1>4, <2>2 DEF Inv, TracesInv
<1>12. CacheOK(sc') /\ SnapsInv'
  BY Zenon, <1>1 DEF Inv, SnapsInv
<1>13. ThreadsInv'
  <2>1. ASSUME NEW t \in Threads, threads[t].pc # "idle"
        PROVE  threads[t].bank # s /\ (threads[t].bank \in DOMAIN banks \cup pruned \/ threads[t].bank <= root)
    BY <1>1, <1>2, <2>1, ThreadFacts
  <2>2. ASSUME NEW t \in Threads, threads[t].pc = "recorded", threads[t].bank \notin DOMAIN banks'
        PROVE  \A x \in DOMAIN banks' : threads[t].bank \notin banks'[x].chain
    <3>1. threads[t].bank # s
      BY Zenon, <2>1, <2>2
    <3>2. \A x \in DOMAIN banks : threads[t].bank \notin banks[x].chain
      BY Zenon, <1>3, <2>2, ThreadFacts
    <3> QED
      BY Zenon, <1>1, <1>3, <1>4, <1>5, <3>1, <3>2
  <2> QED
    BY Zenon, <1>1, <1>3, <2>1, <2>2, ThreadsKept DEF Inv
<1> QED
  BY Zenon, <1>8, <1>9, <1>10, <1>11, <1>12, <1>13 DEF Inv

(* A bank that is not frozen moves on: no bank was built on it.            *)
LEMMA BankStep ==
    ASSUME Inv, NEW b \in DOMAIN banks, DOMAIN banks' = DOMAIN banks,
           \A x \in DOMAIN banks : x # b => banks'[x] = banks[x],
           banks[b].status # "frozen", banks'[b].status \in {"ticked", "frozen"},
           banks'[b].chain = banks[b].chain, banks'[b].ancestors = banks[b].ancestors,
           banks'[b].nonce = banks[b].nonce, banks'[b].done = banks[b].done,
           BankOK(b, banks'[b]),
           UNCHANGED <<root, stage, target, pending, sc, threads, request, snapshot, pruned, repaired>>,
           \A t \in Threads : threads[t].pc = "recorded" /\ threads[t].bank = b =>
              banks'[b].status # "frozen"
    PROVE  Inv'
<1>1. /\ \A x \in DOMAIN banks : /\ banks'[x].chain = banks[x].chain
                                 /\ banks'[x].ancestors = banks[x].ancestors
                                 /\ banks'[x].done = banks[x].done
  BY Zenon
<1>2. ForksInv'
  <2>1. ForksInv /\ root # b
    BY Zenon DEF Inv, ForksInv
  <2>2. ASSUME NEW c \in DOMAIN banks, NEW x \in banks[c].chain
        PROVE  /\ x >= root => x \in DOMAIN banks
               /\ x \in DOMAIN banks => banks'[x].chain = {y \in banks'[c].chain : y <= x}
               /\ x \in DOMAIN banks /\ x # c => banks'[x].status = "frozen"
               /\ x \notin pruned
    <3>1. /\ x >= root => x \in DOMAIN banks
          /\ x \in DOMAIN banks => banks[x].chain = {y \in banks[c].chain : y <= x}
          /\ x \in DOMAIN banks /\ x # c => banks[x].status = "frozen"
          /\ x \notin pruned
      BY Zenon, <2>1, <2>2 DEF ForksInv
    <3>2. x \in DOMAIN banks /\ x # c => x # b
      BY Zenon, <3>1
    <3> QED
      BY Zenon, <1>1, <3>1, <3>2
  <2>3. \A x \in DOMAIN banks : BankOK(x, banks'[x])
    BY Zenon, <2>1 DEF ForksInv
  <2>4. root \in DOMAIN banks /\ banks'[root].status = "frozen"
    BY Zenon, <2>1 DEF ForksInv
  <2>5. stage = "idle" => \A x \in DOMAIN banks : root \in banks'[x].chain
    BY Zenon, <1>1, <2>1 DEF ForksInv
  <2> QED
    BY <1>1, <2>2, <2>3, <2>4, <2>5 DEF ForksInv
<1>3. RootsInv'
  <2>1. RootsInv /\ root \in DOMAIN banks
    BY Zenon DEF Inv, ForksInv
  <2> QED
    BY Zenon, <1>1, <2>1 DEF RootsInv
<1>4. EntriesInv'
  <2> SUFFICES ASSUME NEW r \in DOMAIN sc.cache, NEW f \in sc.cache[r].forks
               PROVE  /\ f[3] > root => /\ <<r, f[1], f[2]>> \in DeltasOf(sc.deltas, f[3])
                                        /\ f[3] \in DOMAIN banks \cup pruned \cup repaired
                      /\ \A x \in DOMAIN banks : f[3] \in banks'[x].chain =>
                            \/ f[3] \in repaired
                            \/ [recent |-> r, key |-> f[2]] \in DOMAIN banks'[x].done
    BY Zenon DEF EntriesInv
  <2>1. /\ f[3] > root => /\ <<r, f[1], f[2]>> \in DeltasOf(sc.deltas, f[3])
                          /\ f[3] \in DOMAIN banks \cup pruned \cup repaired
        /\ \A x \in DOMAIN banks : f[3] \in banks[x].chain =>
              \/ f[3] \in repaired
              \/ [recent |-> r, key |-> f[2]] \in DOMAIN banks[x].done
    BY Zenon DEF Inv, EntriesInv
  <2> QED
    BY Zenon, <1>1, <2>1
<1>5. TracesInv'
  <2>1. TracesInv
    BY Zenon DEF Inv
  <2> QED
    BY <1>1, <2>1 DEF TracesInv, Traced
<1>6. CacheOK(sc') /\ SnapsInv'
  BY Zenon DEF Inv, SnapsInv
<1>7. ThreadsInv'
  <2>1. ASSUME NEW t \in Threads PROVE ThreadOK(threads[t], banks', root, pruned)
    <3>0. PICK th : th = threads[t]
      BY Zenon
    <3> SUFFICES ThreadOK(th, banks', root, pruned)
      BY Zenon, <3>0
    <3>1. /\ ThreadOK(th, banks, root, pruned)
          /\ th.pc = "recorded" /\ th.bank = b => banks'[b].status # "frozen"
      BY Zenon, <3>0 DEF Inv, ThreadsInv
    <3>2. CASE th.bank = b
      <4>1. th.pc # "idle" => BusyOK(th, banks', root, pruned)
        BY Zenon, <3>1, <3>2 DEF ThreadOK, BusyOK
      <4>2. th.pc = "executed" => ExecutedOK(th, banks', root)
        BY Zenon, <3>1, <3>2 DEF ThreadOK, ExecutedOK
      <4>3. th.pc = "recorded" => RecordedOK(th, banks', root)
        BY Zenon, <3>1, <3>2 DEF ThreadOK, RecordedOK
      <4> QED
        BY Zenon, <3>1, <4>1, <4>2, <4>3 DEF ThreadOK
    <3>3. CASE th.bank # b
      <4>1. th.pc # "idle" => th.bank \in DOMAIN banks \cup pruned \/ th.bank <= root
        BY Zenon, <3>1 DEF ThreadOK, BusyOK
      <4>2. th.pc = "recorded" /\ th.bank \notin DOMAIN banks => \A x \in DOMAIN banks : th.bank \notin banks'[x].chain
        BY Zenon, <1>1, <3>1 DEF ThreadOK, RecordedOK
      <4> QED
        BY Zenon, <3>1, <3>3, <4>1, <4>2, ThreadKept
    <3> QED
      BY Zenon, <3>2, <3>3
  <2> QED
    BY Zenon, <2>1 DEF Inv, ThreadsInv
<1> QED
  BY Zenon, <1>2, <1>3, <1>4, <1>5, <1>6, <1>7 DEF Inv

LEMMA LastTickInv ==
    ASSUME SetFacts, Inv, NEW b \in DOMAIN banks, LastTick(b)
    PROVE  Inv'
<1>1. /\ banks[b].status = "open"
      /\ UNCHANGED <<root, stage, target, pending, sc, threads, request, snapshot, pruned, repaired>>
      /\ banks' = [banks EXCEPT ![b].status = "ticked", ![b].queue = RegisterHash(@, b)]
  BY Zenon DEF LastTick
<1>2. BankOK(b, banks[b])
  BY Zenon DEF Inv, ForksInv
<1>3. /\ DOMAIN banks' = DOMAIN banks
      /\ \A x \in DOMAIN banks : x # b => banks'[x] = banks[x]
  BY Zenon, <1>1
<1>4. PICK o, n, q : o = banks[b] /\ n = banks'[b] /\ q = RegisterHash(o.queue, b)
  BY Zenon
<1>5. /\ DOMAIN n = {"chain", "ancestors", "status", "queue", "nonce", "done"}
      /\ n.status = "ticked" /\ n.queue = q /\ n.chain = o.chain
      /\ n.ancestors = o.ancestors /\ n.nonce = o.nonce /\ n.done = o.done
  <2>1. DOMAIN o = {"chain", "ancestors", "status", "queue", "nonce", "done"}
    BY Zenon, <1>2, <1>4 DEF BankOK
  <2>2. n = [o EXCEPT !.status = "ticked", !.queue = q]
    BY Zenon, <1>1, <1>4
  <2> QED
    BY Zenon, <2>1, <2>2
<1>6. /\ b \in o.chain /\ b \in Slots /\ o.chain \subseteq Slots
      /\ \A x \in o.chain \ {b} : x < b
  <2>1. b \in o.chain /\ b \in Slots /\ o.chain \subseteq Slots /\ \A x \in o.chain : x <= b /\ x \in Nat
    BY Zenon, <1>4, ForkFacts DEF Inv
  <2> QED
    BY <2>1
<1>7. QueueOK(q, n.chain)
  <2>1. PICK S : S = o.chain \ {b}
    BY Zenon
  <2>2. QueueOK(o.queue, S)
    BY Zenon, <1>1, <1>2, <1>4, <2>1 DEF BankOK, Closed
  <2>3. S \subseteq Slots /\ \A x \in S : x < b
    BY Zenon, <1>6, <2>1
  <2>4. S \cup {b} = n.chain
    BY Zenon, <1>5, <1>6, <2>1
  <2> QED
    BY <1>4, <1>6, <2>2, <2>3, <2>4, RegisterFacts
<1>8. n.nonce <= q.hash /\ n.nonce \in Int
  <2>1. /\ o.nonce \in Int /\ o.nonce <= o.queue.hash
        /\ o.queue.hash \in o.chain
    BY Zenon, <1>1, <1>2, <1>4 DEF BankOK, Closed, QueueOK
  <2>2. o.queue.hash <= q.hash /\ q.hash \in n.chain
    BY Zenon, <1>5, <1>7, <2>1 DEF QueueOK
  <2>3. o.queue.hash \in Int /\ q.hash \in Int
    BY Zenon, <1>5, <1>6, <2>1, <2>2, SlotFacts
  <2> QED
    BY <1>5, <2>1, <2>2, <2>3
<1>9. BankOK(b, n)
  <2>1. Closed(b, n) = n.chain
    BY Zenon, <1>5 DEF Closed
  <2>2. QueueOK(n.queue, Closed(b, n))
    BY Zenon, <1>5, <1>7, <2>1
  <2> QED
    BY Zenon, <1>2, <1>4, <1>5, <1>8, <2>2 DEF BankOK
<1> QED
  BY <1>1, <1>3, <1>4, <1>5, <1>9, BankStep

LEMMA FreezeInv ==
    ASSUME Inv, NEW b \in DOMAIN banks, Freeze(b)
    PROVE  Inv'
<1>1. /\ banks[b].status = "ticked"
      /\ \A t \in Threads : ~(threads[t].pc = "recorded" /\ threads[t].bank = b)
      /\ UNCHANGED <<root, stage, target, pending, sc, threads, request, snapshot, pruned, repaired>>
      /\ banks' = [banks EXCEPT ![b].status = "frozen"]
  BY Zenon DEF Freeze
<1>2. BankOK(b, banks[b])
  BY Zenon DEF Inv, ForksInv
<1>3. /\ DOMAIN banks' = DOMAIN banks
      /\ \A x \in DOMAIN banks : x # b => banks'[x] = banks[x]
  BY Zenon, <1>1
<1>4. PICK o, n : o = banks[b] /\ n = banks'[b]
  BY Zenon
<1>5. /\ DOMAIN n = {"chain", "ancestors", "status", "queue", "nonce", "done"}
      /\ n.status = "frozen" /\ n.queue = o.queue /\ n.chain = o.chain
      /\ n.ancestors = o.ancestors /\ n.nonce = o.nonce /\ n.done = o.done
  <2>1. DOMAIN o = {"chain", "ancestors", "status", "queue", "nonce", "done"}
    BY Zenon, <1>2, <1>4 DEF BankOK
  <2>2. n = [o EXCEPT !.status = "frozen"]
    BY Zenon, <1>1, <1>4
  <2> QED
    BY Zenon, <2>1, <2>2
<1>6. BankOK(b, n)
  <2>1. Closed(b, n) = Closed(b, o)
    BY Zenon, <1>1, <1>4, <1>5 DEF Closed
  <2> QED
    BY Zenon, <1>2, <1>4, <1>5, <2>1 DEF BankOK
<1> QED
  BY <1>1, <1>3, <1>4, <1>5, <1>6, BankStep

LEMMA SetRootInv ==
    ASSUME Inv, NEW s \in DOMAIN banks, SetRoot(s)
    PROVE  Inv'
<1>1. /\ stage = "idle" /\ s > root /\ root \in banks[s].chain /\ banks[s].status = "frozen"
      /\ root' = s
      /\ pending' = {x \in banks[s].chain : root <= x /\ x <= target'}
      /\ UNCHANGED <<banks, sc, threads, request, snapshot, pruned, repaired>>
  BY Zenon DEF SetRoot
<1>2. /\ s \in Nat /\ root \in Nat /\ root \in DOMAIN banks /\ s \in banks[s].chain
      /\ \A x \in banks[s].chain : x \in Nat /\ x <= s
      /\ \A y \in Nat : y \in banks[root].chain <=> y \in banks[s].chain /\ y <= root
      /\ \A x \in banks[root].chain : x \in Nat
  <2>1. ForksInv /\ root \in DOMAIN banks
    BY Zenon DEF Inv, ForksInv
  <2> QED
    BY Zenon, <1>1, <2>1, ForkFacts
<1>3. /\ target' \in banks[s].chain /\ target' > root /\ target' \in DOMAIN banks
      /\ stage' \in {"snapshot", "root"}
      /\ stage' # "snapshot" => target' = s
  <2>1. CASE stage' = "root" /\ target' = s
    BY Zenon, <1>1, <1>2, <2>1
  <2>2. CASE \E c \in SnapshotBanks(s) : stage' = "snapshot" /\ target' = c
    <3>1. PICK c \in SnapshotBanks(s) : stage' = "snapshot" /\ target' = c
      BY Zenon, <2>2
    <3>2. c \in banks[s].chain /\ c > root
      BY Zenon, <3>1 DEF SnapshotBanks
    <3>3. c \in DOMAIN banks
      BY <1>2, <3>2 DEF Inv, ForksInv
    <3> QED
      BY Zenon, <3>1, <3>2, <3>3
  <2> QED
    BY Zenon, <2>1, <2>2 DEF SetRoot
<1>4. ForksInv'
  <2>1. ForksInv
    BY Zenon DEF Inv
  <2>2. ASSUME NEW b \in DOMAIN banks, NEW x \in banks[b].chain, x >= s
        PROVE  x \in DOMAIN banks
    <3>1. x \in Nat
      BY Zenon, <2>1, <2>2, ForkFacts
    <3>2. x >= root
      BY <1>1, <1>2, <2>2, <3>1
    <3> QED
      BY Zenon, <2>1, <2>2, <3>2 DEF ForksInv
  <2> QED
    BY <1>1, <1>3, <2>1, <2>2 DEF ForksInv
<1>5. RootsInv'
  <2>1. RootsInv /\ target = root /\ pending = {}
    BY Zenon, <1>1 DEF Inv, RootsInv
  <2>2. ASSUME NEW x \in pending' \cup sc.roots
        PROVE  x \in banks[s].chain /\ x <= target'
    <3>1. CASE x \in pending'
      BY Zenon, <1>1, <3>1
    <3>2. CASE x \in sc.roots
      <4>1. x \in banks[root].chain /\ x <= root /\ x \in Nat
        BY Zenon, <1>2, <2>1, <3>2 DEF RootsInv
      <4>2. target' \in Nat
        BY Zenon, <1>2, <1>3
      <4> QED
        BY <1>2, <1>3, <4>1, <4>2
    <3> QED
      BY Zenon, <2>2, <3>1, <3>2
  <2>3. ASSUME NEW x \in banks[s].chain, x <= target'
        PROVE  x \in sc.roots \cup pending' \/ Gone(sc.roots, x)
    <3>1. CASE root <= x
      BY Zenon, <1>1, <2>3, <3>1
    <3>2. CASE ~(root <= x)
      <4>1. x \in banks[root].chain /\ x <= root
        BY <1>2, <2>3, <3>2
      <4> QED
        BY Zenon, <2>1, <4>1 DEF RootsInv
    <3> QED
      BY Zenon, <3>1, <3>2
  <2>4. /\ Cardinality(sc.roots) <= MaxCacheEntries
        /\ \A b \in DOMAIN banks : \A x \in banks[b].chain :
              x \in banks[b].ancestors \cup sc.roots \/ Gone(sc.roots, x)
    BY Zenon, <2>1 DEF RootsInv
  <2> QED
    BY Zenon, <1>1, <1>3, <2>2, <2>3, <2>4 DEF RootsInv
<1>6. EntriesInv'
  <2> SUFFICES ASSUME NEW r \in DOMAIN sc.cache, NEW f \in sc.cache[r].forks, f[3] > s
               PROVE  /\ <<r, f[1], f[2]>> \in DeltasOf(sc.deltas, f[3])
                      /\ f[3] \in DOMAIN banks \cup pruned \cup repaired
    BY Zenon, <1>1 DEF Inv, EntriesInv
  <2>1. f[3] \in Nat
    BY Zenon, SlotFacts DEF Inv, CacheOK
  <2>2. f[3] > root
    BY <1>1, <1>2, <2>1
  <2> QED
    BY Zenon, <2>2 DEF Inv, EntriesInv
<1>7. TracesInv' /\ CacheOK(sc') /\ SnapsInv'
  BY Zenon, <1>1 DEF Inv, TracesInv, SnapsInv
<1>8. ThreadsInv'
  <2>1. ASSUME NEW t \in Threads, threads[t].pc # "idle"
        PROVE  threads[t].bank \in DOMAIN banks \cup pruned \/ threads[t].bank <= s
    <3>1. threads[t].bank \in Nat /\ (threads[t].bank \in DOMAIN banks \cup pruned \/ threads[t].bank <= root)
      BY Zenon, <2>1, ThreadFacts
    <3> QED
      BY <1>1, <1>2, <3>1
  <2>2. \A b \in DOMAIN banks : root \in banks[b].chain
    BY Zenon, <1>1 DEF Inv, ForksInv
  <2>3. \A t \in Threads : threads[t].pc = "recorded" /\ threads[t].bank \notin DOMAIN banks =>
             \A x \in DOMAIN banks : threads[t].bank \notin banks[x].chain
    BY Zenon, ThreadFacts
  <2> QED
    BY Zenon, <1>1, <2>1, <2>2, <2>3, ThreadsKept DEF Inv
<1> QED
  BY Zenon, <1>4, <1>5, <1>6, <1>7, <1>8 DEF Inv

(* Threads when banks, the root and what was pruned stay.                  *)
LEMMA ThreadsSame ==
    ASSUME ThreadsInv, UNCHANGED <<threads, banks, root, pruned>>
    PROVE  ThreadsInv'
BY Zenon DEF ThreadsInv

LEMMA SquashOneInv ==
    ASSUME SetFacts, Inv, SquashOne
    PROVE  Inv'
<1>1. PICK s \in pending : /\ \A x \in pending : x <= s
                           /\ sc' = AddRoot(sc, s)
                           /\ pending' = pending \ {s}
  BY Zenon DEF SquashOne
<1>2. UNCHANGED <<banks, root, stage, target, threads, request, snapshot, pruned, repaired>>
  BY Zenon DEF SquashOne
<1>3. PICK c : c = [sc EXCEPT !.roots = @ \cup {s}]
  BY Zenon
<1>4. /\ c.cache = sc.cache /\ c.deltas = sc.deltas /\ c.roots = sc.roots \cup {s}
      /\ c = [cache |-> c.cache, roots |-> c.roots, deltas |-> c.deltas]
  <2>1. sc = [cache |-> sc.cache, roots |-> sc.roots, deltas |-> sc.deltas]
    BY Zenon DEF Inv, CacheOK
  <2> QED
    BY Zenon, <1>3, <2>1
<1>5. CacheOK(c)
  <2>1. CacheOK(sc)
    BY Zenon DEF Inv
  <2> QED
    BY Zenon, <1>4, <2>1 DEF CacheOK
<1>6. /\ root \in DOMAIN banks /\ root \in Nat /\ banks[root].chain \subseteq Slots
      /\ \A x \in banks[root].chain : x \in Nat /\ x <= root
      /\ s \in banks[root].chain /\ s <= target
      /\ sc.roots \subseteq banks[root].chain
      /\ Cardinality(sc.roots) <= MaxCacheEntries
  <2>1. ForksInv /\ root \in DOMAIN banks
    BY Zenon DEF Inv, ForksInv
  <2>2. RootsInv
    BY Zenon DEF Inv
  <2> QED
    BY Zenon, <2>1, <2>2, ForkFacts DEF RootsInv
<1>7. c.roots \subseteq Slots /\ Cardinality(c.roots) <= MaxCacheEntries + 1
  <2>1. IsFiniteSet(sc.roots) /\ Cardinality(sc.roots) \in Nat
    BY Zenon, <1>6, Counted
  <2>2. Cardinality(c.roots) = Cardinality(sc.roots) \/ Cardinality(c.roots) = Cardinality(sc.roots) + 1
    BY ZenonT(40), <1>4, <2>1, OneMore
  <2> QED
    BY <1>4, <1>6, <2>1, <2>2, SizeAssumption
<1>8. PICK m \in Int : Purges(c, sc', m)
  <2>1. sc' = PurgeRoots(c)
    BY Zenon, <1>1, <1>3 DEF AddRoot
  <2>2. /\ \A r \in DOMAIN c.cache : c.cache[r].max \in Slots
        /\ \A x \in DOMAIN c.deltas : x \in Slots
    BY Zenon, <1>5 DEF CacheOK
  <2> QED
    BY Zenon, <1>4, <1>7, <2>1, <2>2, PurgeRootsFacts
<1>9. /\ \A x \in Slots : Gone(sc.roots, x) => Gone(sc'.roots, x)
      /\ \A x \in sc.roots \cup {s} : x \in sc'.roots \/ Gone(sc'.roots, x)
      /\ sc'.roots \subseteq sc.roots \cup {s}
      /\ Cardinality(sc'.roots) <= MaxCacheEntries
  <2>1. \A x \in Slots : Gone(sc.roots, x) => Gone(c.roots, x)
    BY Zenon, <1>4, <1>7, MoreRoots
  <2> QED
    BY Zenon, <1>4, <1>8, <2>1 DEF Purges
<1>10. RootsInv'
  <2>1. RootsInv /\ \A b \in DOMAIN banks : banks[b].chain \subseteq Slots
    BY Zenon, ForkFacts DEF Inv
  <2>2. ASSUME NEW x \in banks[root].chain, x <= target
        PROVE  x \in sc'.roots \cup pending' \/ Gone(sc'.roots, x)
    <3>1. x \in sc.roots \cup pending \/ Gone(sc.roots, x)
      BY Zenon, <2>1, <2>2 DEF RootsInv
    <3> QED
      BY Zenon, <1>1, <1>6, <1>9, <3>1
  <2>3. ASSUME NEW b \in DOMAIN banks, NEW x \in banks[b].chain
        PROVE  x \in banks[b].ancestors \cup sc'.roots \/ Gone(sc'.roots, x)
    <3>1. x \in banks[b].ancestors \cup sc.roots \/ Gone(sc.roots, x)
      BY Zenon, <2>1, <2>3 DEF RootsInv
    <3> QED
      BY Zenon, <1>9, <2>1, <2>3, <3>1
  <2>4. \A x \in pending' \cup sc'.roots : x \in banks[root].chain /\ x <= target
    BY Zenon, <1>1, <1>9, <2>1 DEF RootsInv
  <2>5. stage # "idle"
    BY Zenon, <2>1 DEF RootsInv
  <2> QED
    BY Zenon, <1>2, <1>9, <2>1, <2>2, <2>3, <2>4, <2>5 DEF RootsInv
<1>11. CacheOK(sc')
  BY Zenon, <1>5, <1>8, PurgedCache
<1>12. EntriesInv'
  <2> SUFFICES ASSUME NEW r \in DOMAIN sc'.cache, NEW f \in sc'.cache[r].forks
               PROVE  /\ f[3] > root => /\ <<r, f[1], f[2]>> \in DeltasOf(sc'.deltas, f[3])
                                        /\ f[3] \in DOMAIN banks \cup pruned \cup repaired
                      /\ \A x \in DOMAIN banks : f[3] \in banks[x].chain =>
                            \/ f[3] \in repaired
                            \/ [recent |-> r, key |-> f[2]] \in DOMAIN banks[x].done
    BY Zenon, <1>2 DEF EntriesInv
  <2>1. r \in DOMAIN sc.cache /\ f \in sc.cache[r].forks
    BY Zenon, <1>4, <1>8 DEF Purges
  <2>2. /\ f[3] > root => /\ <<r, f[1], f[2]>> \in DeltasOf(sc.deltas, f[3])
                          /\ f[3] \in DOMAIN banks \cup pruned \cup repaired
        /\ \A x \in DOMAIN banks : f[3] \in banks[x].chain =>
              \/ f[3] \in repaired
              \/ [recent |-> r, key |-> f[2]] \in DOMAIN banks[x].done
    BY Zenon, <2>1 DEF Inv, EntriesInv
  <2>3. ASSUME f[3] > root PROVE DeltasOf(sc'.deltas, f[3]) = DeltasOf(sc.deltas, f[3])
    <3>1. m <= root
      BY <1>4, <1>6, <1>8 DEF Purges
    <3>2. f[3] \in Nat
      BY Zenon, <2>1, SlotFacts DEF Inv, CacheOK
    <3>3. f[3] > m
      BY <1>6, <2>3, <3>1, <3>2
    <3> QED
      BY <1>4, <1>8, <3>3 DEF Purges, DeltasOf
  <2> QED
    BY Zenon, <2>2, <2>3
<1>13. TracesInv'
  <2> SUFFICES ASSUME NEW b \in DOMAIN banks PROVE Traced(banks[b], sc'.roots, sc'.deltas)
    BY Zenon, <1>2 DEF TracesInv
  <2>1. banks[b].chain \subseteq Slots
    BY Zenon, ForkFacts DEF Inv
  <2>2. Traced(banks[b], sc.roots, sc.deltas)
    BY Zenon DEF Inv, TracesInv
  <2>3. Traced(banks[b], c.roots, c.deltas)
    BY Zenon, <1>4, <1>7, <2>1, <2>2, TracedMore
  <2> QED
    BY Zenon, <1>8, <2>1, <2>3, PurgedTraces
<1>14. ForksInv' /\ SnapsInv'
  BY <1>2 DEF Inv, ForksInv, SnapsInv
<1>15. ThreadsInv'
  BY Zenon, <1>2, ThreadsSame DEF Inv
<1> QED
  BY Zenon, <1>10, <1>11, <1>12, <1>13, <1>14, <1>15 DEF Inv

=============================================================================
