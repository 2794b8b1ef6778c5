------------------------- MODULE AccountLocksProofs -------------------------
(***************************************************************************)
(* The account locks are exclusive, counted exactly and never leaked, for   *)
(* any number of accounts, batches and transactions in a batch.             *)
(***************************************************************************)
EXTENDS AccountLocks, FiniteSetTheorems, TLAPS

\* The locks a batch has taken and not yet given back.
Owed(b, i) ==
    /\ i \in results[b]
    /\ \/ pc[b] = "locking"
       \/ pc[b] = "run" /\ needsUnlock[b]
       \/ pc[b] = "unlocking" /\ i >= at[b]

HeldExact == \A b \in Batches, i \in Positions : <<b, i>> \in held <=> Owed(b, i)

\* A transaction in the results was locked by the loop, and has accounts.
ResultsLocked ==
    \A b \in Batches : \A i \in results[b] :
        /\ i \in DOMAIN txs[b] /\ txs[b][i] \in Tx
        /\ pc[b] = "locking" => i < at[b]

Phases ==
    \A b \in Batches :
        /\ pc[b] \in {"new", "lock"} => results[b] = {}
        /\ pc[b] \in {"lock", "locking"} => needsUnlock[b]
        /\ pc[b] = "unlocking" => ~needsUnlock[b]

\* A simulation's batch never locks nor unlocks.
SimsTakeNoLock ==
    \A b \in SimBatches : pc[b] \in {"new", "run", "dropped"} /\ ~needsUnlock[b]

WriteLocksExact == \A k \in Keys : k \in writeLocks <=> \E h \in held : k \in Writes(h)

\* The strengthening that makes the three properties inductive.
LockInv ==
    /\ TypeOK
    /\ HeldExact
    /\ ResultsLocked
    /\ Phases
    /\ SimsTakeNoLock
    /\ WriteLocksExact
    /\ ReadCountExact
    /\ WritersExclusive

-----------------------------------------------------------------------------
(* Lemmas.                                                                 *)

\* Only finitely many transactions are held, so their readers can be counted.
LEMMA HeldFinite ==
    ASSUME NEW S, S \subseteq (Batches \X Positions)
    PROVE  IsFiniteSet(S)
<1>1. IsFiniteSet(Positions)
    BY MaxTxsAssumption, FS_Interval DEF Positions
<1>2. IsFiniteSet(Batches \X Positions)
    BY <1>1, BatchesFinite, FS_Product
<1> QED
    BY <1>2, FS_Subset

\* The domain of a batch is an interval of positions.
LEMMA BatchDomain ==
    ASSUME NEW ts \in TxSeqs
    PROVE  /\ DOMAIN ts \subseteq Positions
           /\ \A i \in DOMAIN ts : ts[i] \in Tx \cup {Refused}
           /\ \A i \in DOMAIN ts, j \in Nat \ {0} : j <= i => j \in DOMAIN ts
<1>1. PICK n \in 0 .. MaxTxs : ts \in [1 .. n -> Tx \cup {Refused}]
    BY DEF TxSeqs
<1> QED
    BY <1>1, MaxTxsAssumption DEF Positions

\* An account set never contains both a key's writable and read-only use.
LEMMA TxShape ==
    ASSUME NEW x \in Tx
    PROVE  /\ x.writable \subseteq Keys /\ x.readonly \subseteq Keys
           /\ x.writable \cap x.readonly = {}
           /\ x # Refused
BY RefusedAssumption DEF Tx

LEMMA InitLockInv == Init => LockInv
<1> SUFFICES ASSUME Init PROVE LockInv
    OBVIOUS
<1>1. TypeOK
  <2>1. <<>> \in [1 .. 0 -> Tx \cup {Refused}]
    BY SMT
  <2>2. <<>> \in TxSeqs
    BY <2>1, MaxTxsAssumption DEF TxSeqs
  <2> QED
    BY <2>2, NobodyAssumption DEF Init, TypeOK, AllBatches
<1>2. ReadCountExact
  <2>1. \A k \in Keys : {h \in held : k \in Reads(h)} = {}
    BY DEF Init
  <2> QED
    BY <2>1, FS_EmptySet DEF Init, ReadCountExact
<1> QED
    BY <1>1, <1>2 DEF Init, LockInv, HeldExact, Owed, ResultsLocked, Phases, SimsTakeNoLock,
       WriteLocksExact, WritersExclusive, AllBatches

-----------------------------------------------------------------------------
(* Every step keeps the invariant.                                         *)

\* A step that moves no lock keeps the three lock conjuncts.
LEMMA LocksUntouched ==
    ASSUME LockInv, UNCHANGED <<writeLocks, readLocks, held>>,
           \A h \in held : txs'[h[1]][h[2]] = txs[h[1]][h[2]]
    PROVE  WriteLocksExact' /\ ReadCountExact' /\ WritersExclusive'
<1>1. \A h \in held : Writes(h)' = Writes(h) /\ Reads(h)' = Reads(h)
    BY DEF Writes, Reads
<1>2. \A k \in Keys : {h \in held : k \in Reads(h)}' = {h \in held : k \in Reads(h)}
    BY <1>1
<1>3. ReadCountExact'
    BY <1>2 DEF LockInv, ReadCountExact
<1>4. WriteLocksExact'
    BY <1>1 DEF LockInv, WriteLocksExact
<1>5. WritersExclusive'
    BY <1>1 DEF LockInv, WritersExclusive
<1> QED
    BY <1>3, <1>4, <1>5

LEMMA PrepareKeepsInv ==
    ASSUME LockInv, NEW b \in AllBatches, NEW ts \in TxSeqs, Prepare(b, ts)
    PROVE  LockInv'
<1>0. TypeOK /\ HeldExact /\ ResultsLocked /\ Phases /\ SimsTakeNoLock
    BY DEF LockInv
<1>s. b \in SimBatches <=> b \notin Batches
    BY SimBatchesDisjoint DEF AllBatches
<1>1. TypeOK'
  <2>1. {i \in DOMAIN ts : ts[i] # Refused} \in SUBSET Positions
    BY BatchDomain
  <2> QED
    BY <1>0, <2>1 DEF TypeOK, Prepare
<1>2. \A h \in held : h[1] # b
    BY <1>0 DEF TypeOK, HeldExact, Owed, Prepare
<1>3. \A h \in held : txs'[h[1]][h[2]] = txs[h[1]][h[2]]
    BY <1>0, <1>2 DEF TypeOK, Prepare
<1>4. HeldExact'
    BY <1>0, <1>s DEF TypeOK, HeldExact, Owed, Phases, Prepare, AllBatches
<1>5. ResultsLocked' /\ Phases' /\ SimsTakeNoLock'
    BY <1>0, <1>s DEF TypeOK, ResultsLocked, Phases, SimsTakeNoLock, Prepare, AllBatches
<1>6. WriteLocksExact' /\ ReadCountExact' /\ WritersExclusive'
    BY <1>3, LocksUntouched DEF Prepare
<1> QED
    BY <1>1, <1>4, <1>5, <1>6 DEF LockInv

LEMMA LockBeginKeepsInv ==
    ASSUME LockInv, NEW b \in AllBatches, LockBegin(b)
    PROVE  LockInv'
<1>0. TypeOK /\ HeldExact /\ ResultsLocked /\ Phases /\ SimsTakeNoLock
    BY DEF LockInv
<1>1. TypeOK'
    BY <1>0 DEF TypeOK, SimsTakeNoLock, LockBegin, AllBatches
<1>2. HeldExact'
    BY <1>0 DEF TypeOK, HeldExact, Owed, ResultsLocked, Phases, AllBatches, LockBegin
<1>3. ResultsLocked' /\ Phases' /\ SimsTakeNoLock'
    BY <1>0, SimBatchesDisjoint DEF TypeOK, ResultsLocked, Phases, SimsTakeNoLock, LockBegin, AllBatches
<1>4. WriteLocksExact' /\ ReadCountExact' /\ WritersExclusive'
    BY LocksUntouched DEF LockBegin
<1> QED
    BY <1>1, <1>2, <1>3, <1>4 DEF LockInv

LEMMA LockEndKeepsInv ==
    ASSUME LockInv, NEW b \in AllBatches, LockEnd(b)
    PROVE  LockInv'
<1>0. TypeOK /\ HeldExact /\ ResultsLocked /\ Phases /\ SimsTakeNoLock
    BY DEF LockInv
<1>1. TypeOK'
    BY <1>0 DEF TypeOK, SimsTakeNoLock, LockEnd, AllBatches
<1>2. HeldExact'
    BY <1>0 DEF TypeOK, HeldExact, Owed, ResultsLocked, Phases, AllBatches, LockEnd
<1>3. ResultsLocked' /\ Phases' /\ SimsTakeNoLock'
    BY <1>0, SimBatchesDisjoint DEF TypeOK, ResultsLocked, Phases, SimsTakeNoLock, LockEnd, AllBatches
<1>4. WriteLocksExact' /\ ReadCountExact' /\ WritersExclusive'
    BY LocksUntouched DEF LockEnd
<1> QED
    BY <1>1, <1>2, <1>3, <1>4 DEF LockInv

LEMMA UnlockBeginKeepsInv ==
    ASSUME LockInv, NEW b \in AllBatches, UnlockBegin(b)
    PROVE  LockInv'
<1>0. TypeOK /\ HeldExact /\ ResultsLocked /\ Phases /\ SimsTakeNoLock
    BY DEF LockInv
<1>1. TypeOK'
    BY <1>0 DEF TypeOK, SimsTakeNoLock, UnlockBegin, AllBatches
<1>2. HeldExact'
  <2> SUFFICES ASSUME NEW c \in Batches, NEW i \in Positions
               PROVE  <<c, i>> \in held <=> Owed(c, i)'
    BY DEF HeldExact, UnlockBegin
  <2>1. <<c, i>> \in held <=> Owed(c, i)
    BY <1>0 DEF HeldExact
  <2>2. CASE c = b
    BY <1>0, <2>1, <2>2 DEF TypeOK, Owed, UnlockBegin, Positions
  <2>3. CASE c # b
    BY <1>0, <2>1, <2>3 DEF TypeOK, Owed, UnlockBegin
  <2> QED
    BY <2>2, <2>3
<1>3. ResultsLocked' /\ Phases' /\ SimsTakeNoLock'
  <2>1. ResultsLocked'
    BY <1>0 DEF TypeOK, ResultsLocked, UnlockBegin
  <2>2. Phases'
    BY <1>0 DEF TypeOK, Phases, UnlockBegin
  <2>3. SimsTakeNoLock'
    BY <1>0 DEF TypeOK, SimsTakeNoLock, UnlockBegin, AllBatches
  <2> QED
    BY <2>1, <2>2, <2>3
<1>4. WriteLocksExact' /\ ReadCountExact' /\ WritersExclusive'
    BY LocksUntouched DEF UnlockBegin
<1> QED
    BY <1>1, <1>2, <1>3, <1>4 DEF LockInv

LEMMA UnlockEndKeepsInv ==
    ASSUME LockInv, NEW b \in AllBatches, UnlockEnd(b)
    PROVE  LockInv'
<1>0. TypeOK /\ HeldExact /\ ResultsLocked /\ Phases /\ SimsTakeNoLock
    BY DEF LockInv
<1>1. TypeOK'
    BY <1>0 DEF TypeOK, SimsTakeNoLock, UnlockEnd, AllBatches
<1>2. HeldExact'
    BY <1>0, BatchDomain DEF TypeOK, HeldExact, Owed, ResultsLocked, Phases, AllBatches, UnlockEnd
<1>3. ResultsLocked' /\ Phases' /\ SimsTakeNoLock'
    BY <1>0, SimBatchesDisjoint DEF TypeOK, ResultsLocked, Phases, SimsTakeNoLock, UnlockEnd, AllBatches
<1>4. WriteLocksExact' /\ ReadCountExact' /\ WritersExclusive'
    BY LocksUntouched DEF UnlockEnd
<1> QED
    BY <1>1, <1>2, <1>3, <1>4 DEF LockInv

LEMMA DropKeepsInv ==
    ASSUME LockInv, NEW b \in AllBatches, Drop(b)
    PROVE  LockInv'
<1>0. TypeOK /\ HeldExact /\ ResultsLocked /\ Phases /\ SimsTakeNoLock
    BY DEF LockInv
<1>1. TypeOK'
    BY <1>0 DEF TypeOK, SimsTakeNoLock, Drop, AllBatches
<1>2. HeldExact'
    BY <1>0 DEF TypeOK, HeldExact, Owed, ResultsLocked, Phases, AllBatches, Drop
<1>3. ResultsLocked' /\ Phases' /\ SimsTakeNoLock'
    BY <1>0, SimBatchesDisjoint DEF TypeOK, ResultsLocked, Phases, SimsTakeNoLock, Drop, AllBatches
<1>4. WriteLocksExact' /\ ReadCountExact' /\ WritersExclusive'
    BY LocksUntouched DEF Drop
<1> QED
    BY <1>1, <1>2, <1>3, <1>4 DEF LockInv

\* A transaction that finds none of its accounts in use joins the holders.
LEMMA LockTxKeepsInv ==
    ASSUME LockInv, NEW b \in AllBatches, LockTx(b)
    PROVE  LockInv'
<1>p. PICK p : p = at[b]
    OBVIOUS
<1> DEFINE x == txs[b][p]
           g == <<b, p>>
<1>0. TypeOK /\ HeldExact /\ ResultsLocked /\ Phases /\ SimsTakeNoLock /\ WriteLocksExact
      /\ ReadCountExact /\ WritersExclusive
    BY DEF LockInv
<1>b. b \in Batches /\ p \in Positions /\ txs[b] \in TxSeqs /\ p \in DOMAIN txs[b]
    BY <1>0, <1>p, BatchDomain DEF LockTx, SimsTakeNoLock, AllBatches, TypeOK
<1>1. CASE x = Refused \/ InUse(x)
  <2>1. UNCHANGED <<txs, results, writeLocks, readLocks, held, pc, needsUnlock, mutex>>
    BY <1>1, <1>p DEF LockTx
  <2>2. TypeOK'
    BY <1>0, <2>1 DEF TypeOK, LockTx
  <2>3. HeldExact' /\ SimsTakeNoLock' /\ Phases'
    BY <1>0, <2>1 DEF TypeOK, HeldExact, Owed, SimsTakeNoLock, Phases, LockTx
  <2>4. ResultsLocked'
    BY <1>0, <2>1 DEF TypeOK, ResultsLocked, LockTx, Positions
  <2>5. WriteLocksExact' /\ ReadCountExact' /\ WritersExclusive'
    BY <2>1, LocksUntouched
  <2> QED
    BY <2>2, <2>3, <2>4, <2>5 DEF LockInv
<1>2. CASE ~(x = Refused \/ InUse(x))
  <2>1. /\ results' = [results EXCEPT ![b] = @ \cup {p}]
        /\ writeLocks' = writeLocks \cup x.writable
        /\ readLocks' = [k \in Keys |-> IF k \in x.readonly THEN readLocks[k] + 1 ELSE readLocks[k]]
        /\ held' = held \cup {g}
        /\ at' = [at EXCEPT ![b] = @ + 1]
        /\ pc[b] = "locking"
        /\ UNCHANGED <<txs, pc, needsUnlock, mutex>>
    BY <1>2, <1>p DEF LockTx
  <2>2. x \in Tx
    BY <1>2, <1>b, BatchDomain
  <2>3. x.writable \subseteq Keys /\ x.readonly \subseteq Keys /\ x.writable \cap x.readonly = {}
    BY <2>2, TxShape
  <2>4. g \notin held
    BY <1>0, <1>b, <1>p, <2>1 DEF HeldExact, Owed, ResultsLocked, TypeOK
  <2>5. TypeOK'
    BY <1>0, <1>b, <2>1, <2>3 DEF TypeOK
  <2>6. HeldExact'
    <3> SUFFICES ASSUME NEW c \in Batches, NEW i \in Positions
                 PROVE  <<c, i>> \in held' <=> Owed(c, i)'
        BY DEF HeldExact
    <3>1. <<c, i>> \in held <=> Owed(c, i)
        BY <1>0 DEF HeldExact
    <3>2. <<c, i>> \in held' <=> <<c, i>> \in held \/ (c = b /\ i = p)
        BY <2>1
    <3>3. i \in results'[c] <=> i \in results[c] \/ (c = b /\ i = p)
        BY <1>0, <1>b, <2>1 DEF TypeOK, AllBatches
    <3>4. c # b => at'[c] = at[c]
        BY <1>0, <2>1 DEF TypeOK, AllBatches
    <3> QED
        BY <3>1, <3>2, <3>3, <3>4, <2>1 DEF Owed
  <2>7. ResultsLocked'
    BY <1>0, <1>b, <1>p, <2>1, <2>2 DEF TypeOK, ResultsLocked, Positions
  <2>8. Phases' /\ SimsTakeNoLock'
    BY <1>0, <1>b, <2>1 DEF TypeOK, Phases, SimsTakeNoLock
  <2>9. /\ \A h \in held : Writes(h)' = Writes(h) /\ Reads(h)' = Reads(h)
        /\ Writes(g) = x.writable /\ Reads(g) = x.readonly
        /\ Writes(g)' = x.writable /\ Reads(g)' = x.readonly
    BY <2>1 DEF Writes, Reads
  <2>10. WriteLocksExact'
    BY <1>0, <2>1, <2>3, <2>9 DEF WriteLocksExact
  <2>11. ASSUME NEW k \in Keys
         PROVE  readLocks'[k] = Cardinality({h \in held' : k \in Reads(h)'})
    <3> DEFINE R == {h \in held : k \in Reads(h)}
    <3>1. IsFiniteSet(R) /\ readLocks[k] = Cardinality(R)
        BY <1>0, HeldFinite DEF TypeOK, ReadCountExact
    <3>2. CASE k \in x.readonly
      <4>1. {h \in held' : k \in Reads(h)'} = R \cup {g}
        BY <3>2, <2>1, <2>9
      <4>2. Cardinality(R \cup {g}) = Cardinality(R) + 1
        BY <3>1, <2>4, FS_AddElement
      <4> QED
        BY <4>1, <4>2, <3>1, <3>2, <2>1
    <3>3. CASE k \notin x.readonly
      <4>1. {h \in held' : k \in Reads(h)'} = R
        BY <3>3, <2>1, <2>9
      <4> QED
        BY <4>1, <3>1, <3>3, <2>1
    <3> QED
        BY <3>2, <3>3
  <2>12. ReadCountExact'
    BY <2>11 DEF ReadCountExact
  <2>13. \A h \in held : Writes(g) \cap (Writes(h) \cup Reads(h)) = {} /\ Writes(h) \cap Reads(g) = {}
    <3> SUFFICES ASSUME NEW h \in held, NEW k \in Keys
                 PROVE  /\ ~(k \in Writes(g) /\ (k \in Writes(h) \/ k \in Reads(h)))
                        /\ ~(k \in Writes(h) /\ k \in Reads(g))
        BY <2>3, <2>9
    <3>1. k \in Writes(h) => k \in writeLocks
        BY <1>0 DEF WriteLocksExact
    <3>2. k \in Reads(h) => readLocks[k] > 0
      <4> DEFINE R == {r \in held : k \in Reads(r)}
      <4>1. IsFiniteSet(R) /\ readLocks[k] = Cardinality(R)
        BY <1>0, HeldFinite DEF TypeOK, ReadCountExact
      <4>2. k \in Reads(h) => R # {}
        OBVIOUS
      <4>3. R # {} => Cardinality(R) # 0
        BY <4>1, FS_EmptySet
      <4> QED
        BY <4>1, <4>2, <4>3, <1>0 DEF TypeOK
    <3> QED
        BY <3>1, <3>2, <1>2, <2>9 DEF InUse
  <2>14. WritersExclusive'
    BY <1>0, <2>1, <2>9, <2>13 DEF WritersExclusive
  <2> QED
    BY <2>5, <2>6, <2>7, <2>8, <2>10, <2>12, <2>14 DEF LockInv
<1> QED
    BY <1>1, <1>2

\* A transaction that leaves takes its own locks with it and no others.
LEMMA UnlockTxKeepsInv ==
    ASSUME LockInv, NEW b \in AllBatches, UnlockTx(b)
    PROVE  LockInv'
<1>p. PICK p : p = at[b]
    OBVIOUS
<1> DEFINE x == txs[b][p]
           g == <<b, p>>
<1>0. TypeOK /\ HeldExact /\ ResultsLocked /\ Phases /\ SimsTakeNoLock /\ WriteLocksExact
      /\ ReadCountExact /\ WritersExclusive
    BY DEF LockInv
<1>b. b \in Batches /\ p \in Positions /\ txs[b] \in TxSeqs /\ p \in DOMAIN txs[b]
    BY <1>0, <1>p, BatchDomain DEF UnlockTx, SimsTakeNoLock, AllBatches, TypeOK
<1>u. /\ at' = [at EXCEPT ![b] = @ + 1]
      /\ pc[b] = "unlocking"
      /\ UNCHANGED <<txs, pc, results, needsUnlock, mutex>>
    BY DEF UnlockTx
<1>h. g \in held <=> p \in results[b]
    BY <1>0, <1>b, <1>p, <1>u DEF HeldExact, Owed, Positions
<1>3. ResultsLocked' /\ Phases' /\ SimsTakeNoLock'
  <2>1. ResultsLocked'
    BY <1>0, <1>u DEF TypeOK, ResultsLocked
  <2> QED
    BY <1>0, <1>u, <2>1 DEF TypeOK, Phases, SimsTakeNoLock
<1>4. held' = held \ {g} => HeldExact'
  <2> SUFFICES ASSUME held' = held \ {g}, NEW c \in Batches, NEW i \in Positions
               PROVE  <<c, i>> \in held' <=> Owed(c, i)'
    BY DEF HeldExact
  <2>1. <<c, i>> \in held <=> Owed(c, i)
    BY <1>0 DEF HeldExact
  <2>2. <<c, i>> \in held' <=> <<c, i>> \in held /\ ~(c = b /\ i = p)
    OBVIOUS
  <2>3. CASE c = b
    <3>1. at'[c] = p + 1 /\ at[c] = p
        BY <1>0, <1>p, <1>u, <2>3 DEF TypeOK
    <3>2. (i >= p + 1) <=> (i >= p /\ i # p)
        BY <1>b DEF Positions
    <3> QED
        BY <2>1, <2>2, <2>3, <3>1, <3>2, <1>u DEF Owed
  <2>4. CASE c # b
    BY <1>0, <1>u, <2>1, <2>2, <2>4 DEF TypeOK, Owed
  <2> QED
    BY <2>3, <2>4
<1>1. CASE p \notin results[b]
  <2>1. UNCHANGED <<writeLocks, readLocks, held>>
    BY <1>1, <1>p DEF UnlockTx
  <2>2. TypeOK'
    BY <1>0, <1>u, <2>1 DEF TypeOK
  <2>3. held' = held \ {g}
    BY <1>1, <1>h, <2>1
  <2>4. WriteLocksExact' /\ ReadCountExact' /\ WritersExclusive'
    BY <1>u, <2>1, LocksUntouched
  <2> QED
    BY <1>3, <1>4, <2>2, <2>3, <2>4 DEF LockInv
<1>2. CASE p \in results[b]
  <2>1. /\ writeLocks' = writeLocks \ x.writable
        /\ readLocks' = [k \in Keys |->
                           IF k \in x.readonly /\ readLocks[k] > 0 THEN readLocks[k] - 1 ELSE readLocks[k]]
        /\ held' = held \ {g}
    BY <1>2, <1>p DEF UnlockTx
  <2>2. x \in Tx
    BY <1>0, <1>2, <1>b DEF ResultsLocked
  <2>3. x.writable \subseteq Keys /\ x.readonly \subseteq Keys /\ x.writable \cap x.readonly = {}
    BY <2>2, TxShape
  <2>4. TypeOK'
    BY <1>0, <1>u, <2>1 DEF TypeOK
  <2>5. /\ \A h \in held : Writes(h)' = Writes(h) /\ Reads(h)' = Reads(h)
        /\ Writes(g) = x.writable /\ Reads(g) = x.readonly
    BY <1>u DEF Writes, Reads
  <2>6. WriteLocksExact'
    <3> SUFFICES ASSUME NEW k \in Keys
                 PROVE  k \in writeLocks' <=> \E h \in held' : k \in Writes(h)'
        BY DEF WriteLocksExact
    <3>1. k \in writeLocks <=> \E h \in held : k \in Writes(h)
        BY <1>0 DEF WriteLocksExact
    <3>2. \A h \in held : h # g => ~(k \in Writes(h) /\ k \in Writes(g))
        BY <1>0, <1>2, <1>h DEF WritersExclusive
    <3> QED
        BY <2>1, <2>5, <3>1, <3>2
  <2>7. ASSUME NEW k \in Keys
        PROVE  readLocks'[k] = Cardinality({h \in held' : k \in Reads(h)'})
    <3> DEFINE R == {h \in held : k \in Reads(h)}
    <3>1. IsFiniteSet(R) /\ readLocks[k] = Cardinality(R) /\ readLocks[k] \in Nat
        BY <1>0, HeldFinite DEF TypeOK, ReadCountExact
    <3>2. CASE k \in x.readonly
      <4>1. {h \in held' : k \in Reads(h)'} = R \ {g}
        BY <3>2, <2>1, <2>5
      <4>2. g \in R
        BY <3>2, <1>2, <1>h, <2>5
      <4>3. Cardinality(R \ {g}) = Cardinality(R) - 1
        BY <3>1, <4>2, FS_RemoveElement
      <4>4. Cardinality(R) # 0
        BY <3>1, <4>2, FS_EmptySet
      <4>5. readLocks[k] > 0
        BY <3>1, <4>4
      <4>6. readLocks'[k] = readLocks[k] - 1
        BY <2>1, <3>2, <4>5
      <4> QED
        BY <4>1, <4>3, <4>6, <3>1
    <3>3. CASE k \notin x.readonly
      <4>1. {h \in held' : k \in Reads(h)'} = R
        BY <3>3, <2>1, <2>5
      <4> QED
        BY <4>1, <3>1, <3>3, <2>1
    <3> QED
        BY <3>2, <3>3
  <2>8. ReadCountExact'
    BY <2>7 DEF ReadCountExact
  <2>9. WritersExclusive'
    BY <1>0, <2>1, <2>5 DEF WritersExclusive
  <2> QED
    BY <1>3, <1>4, <2>1, <2>4, <2>6, <2>8, <2>9 DEF LockInv
<1> QED
    BY <1>1, <1>2

LEMMA StutterKeepsInv == ASSUME LockInv, UNCHANGED vars PROVE LockInv'
<1>1. WriteLocksExact' /\ ReadCountExact' /\ WritersExclusive'
    BY LocksUntouched DEF vars
<1> QED
    BY <1>1 DEF LockInv, vars, TypeOK, HeldExact, Owed, ResultsLocked, Phases, SimsTakeNoLock

-----------------------------------------------------------------------------
(* The theorems.                                                           *)

THEOREM LockInvariant == Spec => []LockInv
<1>1. LockInv /\ [Next]_vars => LockInv'
  <2> SUFFICES ASSUME LockInv, [Next]_vars PROVE LockInv'
    OBVIOUS
  <2>1. ASSUME NEW b \in AllBatches, NEW ts \in TxSeqs, Prepare(b, ts) PROVE LockInv'
    BY <2>1, PrepareKeepsInv
  <2>2. ASSUME NEW b \in AllBatches, BatchStep(b) PROVE LockInv'
    BY <2>2, LockBeginKeepsInv, LockTxKeepsInv, LockEndKeepsInv, UnlockBeginKeepsInv,
       UnlockTxKeepsInv, UnlockEndKeepsInv, DropKeepsInv DEF BatchStep
  <2> QED
    BY <2>1, <2>2, StutterKeepsInv DEF Next
<1> QED
    BY InitLockInv, <1>1, PTL DEF Spec

\* The state keeps its type: the mutex and the locks belong to batches that lock
\* (Accounts::account_locks, TransactionBatch).
THEOREM LockTypes == Spec => []TypeOK
BY LockInvariant, PTL DEF LockInv

\* Two transactions that run with their accounts locked never share an account
\* one of them writes, whatever the batches and the accounts
\* (Accounts::lock_accounts).
THEOREM Exclusion == Spec => []WritersExclusive
BY LockInvariant, PTL DEF LockInv

\* A read lock is counted once for every running reader
\* (AccountLocks::lock_readonly, unlock_readonly).
THEOREM ReadCount == Spec => []ReadCountExact
BY LockInvariant, PTL DEF LockInv

\* When all batches are dropped every lock has been given back
\* (TransactionBatch::drop).
THEOREM NoLeak == Spec => []NoLockLeaks
<1>1. LockInv => NoLockLeaks
  <2> SUFFICES ASSUME LockInv, \A b \in Batches : pc[b] \in {"new", "dropped"}
               PROVE  writeLocks = {} /\ \A k \in Keys : readLocks[k] = 0
    BY DEF NoLockLeaks
  <2>1. held = {}
    BY DEF LockInv, TypeOK, HeldExact, Owed
  <2>2. writeLocks = {}
    BY <2>1 DEF LockInv, TypeOK, WriteLocksExact
  <2>3. \A k \in Keys : {h \in held : k \in Reads(h)} = {}
    BY <2>1
  <2> QED
    BY <2>2, <2>3, FS_EmptySet DEF LockInv, ReadCountExact
<1> QED
    BY LockInvariant, <1>1, PTL

=============================================================================
