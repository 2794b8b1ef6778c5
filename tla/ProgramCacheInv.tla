-------------------------- MODULE ProgramCacheInv ---------------------------
(***************************************************************************)
(* The two inductive invariants of ProgramCache.  Inv has the types, the   *)
(* loading locks and the sleepers; it holds for every set of programs,     *)
(* threads and codes, whatever thread uses the cache, and all of its steps *)
(* are here.                                                               *)
(*                                                                         *)
(* ForkInv has what the cache holds of the forks.  With replay as the only *)
(* user of the cache, an entry of a slot that will stay tells what that    *)
(* slot's account says, and every slot with an account written in it has   *)
(* an entry or is covered by a newer rooted one.  So the entry extract     *)
(* takes for a batch, the latest on its fork, is the fork's last           *)
(* deployment, and what load_program makes is that very version.  The      *)
(* steps of the batches are here; ProgramCacheProofs takes the others and  *)
(* concludes.                                                              *)
(***************************************************************************)
EXTENDS ProgramCache, TLAPS

-----------------------------------------------------------------------------
(* The types, the loading locks and the sleepers.                          *)

(* The entries of a program: one for a deployment and an effective slot.   *)
Versions(es) ==
    \A e \in es : e \in Programs /\ \A f \in es : SameVersion(e, f) => e = f

(* The state of a thread, by its fields.                                   *)
Batch(pc, slot, as, missing, task, loaded, got, done) ==
    [pc |-> pc, slot |-> slot, anc |-> as, missing |-> missing, task |-> task, loaded |-> loaded,
     got |-> got, done |-> done]

(* A thread has a task exactly from the moment it takes a lock to the      *)
(* round that gives it back, and brings an entry to that round.            *)
ThreadOK(th) ==
    /\ th = Batch(th.pc, th.slot, th.anc, th.missing, th.task, th.loaded, th.got, th.done)
    /\ th.pc \in {"idle", "lock", "load", "wait", "run"}
    /\ th.slot \in Slots /\ th.anc \subseteq Slots
    /\ th.missing \subseteq Keys /\ th.done \subseteq Keys
    /\ th.task \in Keys \cup {None}
    /\ th.got = [k \in Keys |-> th.got[k]]
    /\ th.pc \notin {"load", "lock"} => th.task = None
    /\ th.pc = "load" => th.task # None
    /\ th.pc = "lock" /\ th.task # None => th.loaded \in Programs

(* The banks, and what replay is doing with them.                          *)
BanksInv ==
    /\ bank \in [Slots -> {"unused", "open", "frozen", "gone", "dumped"}]
    /\ anc \in [Slots -> SUBSET Slots] /\ anc[0] = {0}
    /\ \A s \in Slots : InForks(s) => s \in anc[s]
    /\ root \in roots /\ roots \subseteq Slots /\ 0 \in roots /\ cacheRoot \in Slots
    /\ replay = [pc |-> replay.pc, slot |-> replay.slot, todo |-> replay.todo]
    /\ replay.pc \in {"idle", "root", "purge", "prune"}
    /\ replay.slot \in Slots /\ replay.todo \subseteq Slots \ {0}
    /\ replay.pc = "root" => replay.slot \in anc[replay.slot]

(* The accounts of the programs: every program but those of the base layer *)
(* is there from the first slot.                                           *)
AccountsInv ==
    /\ accts \in [Keys -> [Slots -> Codes \cup {0, None, Closed}]]
    /\ \A k \in Keys \ RemoteKeys : accts[k][0] = 0

(* The cache.                                                              *)
CacheInv ==
    /\ entries = [k \in Keys |-> entries[k]]
    /\ \A k \in Keys : Versions(entries[k])
    /\ lock \in [Keys -> {None} \cup (Slots \X Threads)]
    /\ notified \subseteq Threads

(* The threads: who holds the locks, and who wakes whom.                   *)
LoadersInv ==
    /\ thr = [t \in Threads |-> thr[t]]
    /\ \A t \in Threads : ThreadOK(thr[t])
    /\ LoaderHoldsLock
    /\ \A k \in Keys : lock[k] # None => \E t \in Threads : lock[k] = <<thr[t].slot, t>>
    /\ SleepersWillWake

Inv == BanksInv /\ AccountsInv /\ CacheInv /\ LoadersInv

-----------------------------------------------------------------------------
(* Slots, the latest of some slots, and assign_program.                    *)

(* What the argument needs of the natural numbers: a hypothesis of the     *)
(* lemmas, until the end of the proofs takes it from the library.          *)
Topped == \A S \in SUBSET Slots : S # {} => \E x \in S : \A y \in S : x >= y

(* Slots are numbers.                                                      *)
LEMMA Numbers == Slots \subseteq Nat /\ 0 \in Slots /\ \A s \in Slots : s + 1 \in Nat
BY BoundsAssumption DEF Slots

(* The latest of some slots is one of them.                                *)
LEMMA MaxFacts ==
    ASSUME Topped, NEW S \in SUBSET Slots, S # {}
    PROVE  Max(S) \in S /\ \A y \in S : Max(S) >= y
BY Zenon DEF Topped, Max

(* assign_program keeps one entry for a version, adds nothing but the new  *)
(* entry, and loses no version.                                            *)
LEMMA AssignFacts ==
    ASSUME NEW es, Versions(es), NEW e \in Programs
    PROVE  /\ Versions(Assign(es, e))
           /\ \A f \in Assign(es, e) : f \in es \/ f = e
           /\ \E f \in Assign(es, e) : SameVersion(e, f) /\ f.kind = e.kind
           /\ \A f \in es : \E g \in Assign(es, e) : SameVersion(f, g)
<1>1. CASE Occupied(es, e)
  BY Zenon, <1>1 DEF Assign, Occupied, SameVersion
<1>2. CASE ~Occupied(es, e)
  <2>1. Assign(es, e) = {f \in es : ~SameVersion(e, f)} \cup {e}
    BY Zenon, <1>2 DEF Assign
  <2>2. Versions(Assign(es, e))
    BY Zenon, <2>1 DEF Versions, SameVersion
  <2>. QED
    BY <2>1, <2>2 DEF SameVersion
<1>. QED
  BY Zenon, <1>1, <1>2

(* A program that is not of the base layer has an account on every fork.   *)
LEMMA Written ==
    ASSUME Topped, BanksInv, AccountsInv, NEW k \in Keys \ RemoteKeys, NEW as \in SUBSET Slots
    PROVE  /\ WrittenIn(k, as) \subseteq Slots /\ WrittenIn(k, as) # {}
           /\ Max(WrittenIn(k, as)) \in WrittenIn(k, as)
           /\ \A s \in WrittenIn(k, as) : Max(WrittenIn(k, as)) >= s
<1>1. WrittenIn(k, as) \in SUBSET Slots
  BY Zenon DEF WrittenIn, BanksInv
<1>2. 0 \in WrittenIn(k, as)
  BY Zenon, NoneAssumption DEF WrittenIn, BanksInv, AccountsInv
<1>. QED
  BY Zenon, <1>1, <1>2, MaxFacts

(* What an account that exists holds.                                      *)
LEMMA CodeType ==
    ASSUME NEW v \in Codes \cup {0, None, Closed}, v # None
    PROVE  v = Closed \/ v \in Nat
BY CodesAssumption

(* load_program makes an entry.                                            *)
LEMMA LoadedType ==
    ASSUME Topped, Inv, NEW t \in Threads, NEW k \in Keys
    PROVE  LoadProgram(t, k) \in Programs
<1>1. CASE k \in RemoteKeys
  BY Zenon, <1>1, BoundsAssumption, Numbers DEF LoadProgram, Loaded, Tombstone, Programs
<1>2. CASE k \notin RemoteKeys
  <2> DEFINE s == Max(WrittenIn(k, thr[t].anc))
  <2>0. BanksInv /\ AccountsInv /\ thr[t].slot \in Slots /\ thr[t].anc \in SUBSET Slots
    BY Zenon DEF Inv, LoadersInv, ThreadOK
  <2>1. s \in Slots /\ accts[k][s] # None
    <3>1. s \in WrittenIn(k, thr[t].anc) /\ WrittenIn(k, thr[t].anc) \subseteq Slots
      BY Zenon, <1>2, <2>0, Written
    <3>. QED
      BY Zenon, <3>1 DEF WrittenIn
  <2>2. accts[k][s] = Closed \/ accts[k][s] \in Nat
    <3> HIDE DEF s
    <3>1. accts[k][s] \in Codes \cup {0, None, Closed}
      BY Zenon, <2>0, <2>1 DEF AccountsInv
    <3>. QED
      BY Zenon, <2>1, <3>1, CodeType
  <2>3. Tombstone(thr[t].slot, "closed") \in Programs
    BY Zenon, <2>0, Numbers DEF Tombstone, Programs
  <2>4. accts[k][s] \in Nat => Loaded(s, accts[k][s]) \in Programs
    BY Zenon, <2>1, Numbers DEF Loaded, Programs
  <2>. QED
    BY Zenon, <1>2, <2>2, <2>3, <2>4 DEF LoadProgram
<1>. QED
  BY Zenon, <1>1, <1>2

-----------------------------------------------------------------------------
(* The steps of a batch.                                                   *)

(* A thread without a batch.                                               *)
LEMMA IdleFacts ==
    /\ ThreadOK(IdleThread) /\ IdleThread.pc = "idle" /\ IdleThread.task = None
    /\ IdleThread.slot = 0 /\ IdleThread.missing = {} /\ IdleThread.done = {}
BY Zenon, Numbers, NoneAssumption DEF IdleThread, ThreadOK, Batch

(* One thread changes, and no lock: it keeps its task and its slot, or has *)
(* none before and after.                                                  *)
LEMMA OneThread ==
    ASSUME LoadersInv, CacheInv, NEW t \in Threads, NEW new, ThreadOK(new),
           thr' = [thr EXCEPT ![t] = new], lock' = lock, notified' = notified,
           \/ /\ thr[t].task = None \/ thr[t].pc \notin {"load", "lock"}
              /\ new.task = None \/ new.pc \notin {"load", "lock"}
           \/ /\ new.task = thr[t].task /\ new.slot = thr[t].slot
              /\ thr[t].pc \in {"load", "lock"} /\ new.pc \in {"load", "lock"},
           new.pc # "wait"
    PROVE  LoadersInv'
<1>1. thr' = [u \in Threads |-> thr'[u]] /\ thr'[t] = new /\ \A u \in Threads \ {t} : thr'[u] = thr[u]
  BY Zenon DEF LoadersInv
<1>2. \A u \in Threads : ThreadOK(thr'[u])
  BY Zenon, <1>1 DEF LoadersInv
<1>3. \A k \in Keys : lock[k] = <<new.slot, t>> <=> lock[k] = <<thr[t].slot, t>>
  <2> SUFFICES ASSUME NEW k \in Keys
               PROVE  lock[k] = <<new.slot, t>> <=> lock[k] = <<thr[t].slot, t>>
    BY Zenon
  <2>1. ASSUME lock[k] = <<new.slot, t>>
        PROVE  lock[k] = <<thr[t].slot, t>>
    <3>1. lock[k] # None
      BY Zenon, <2>1, NoneAssumption DEF ThreadOK
    <3>2. PICK u \in Threads : lock[k] = <<thr[u].slot, u>>
      BY Zenon, <3>1 DEF LoadersInv
    <3>. QED
      BY <2>1, <3>2
  <2>2. ASSUME lock[k] = <<thr[t].slot, t>>
        PROVE  lock[k] = <<new.slot, t>>
    <3>1. thr[t].task = k /\ thr[t].pc \in {"load", "lock"} /\ k # None
      BY Zenon, <2>2, NoneAssumption DEF LoadersInv, LoaderHoldsLock
    <3>. QED
      BY Zenon, <2>2, <3>1
  <2>. QED
    BY Zenon, <2>1, <2>2
<1>4. LoaderHoldsLock'
  BY <1>1, <1>3, NoneAssumption DEF LoadersInv, LoaderHoldsLock
<1>5. \A k \in Keys : lock[k] # None => \E u \in Threads : lock[k] = <<thr'[u].slot, u>>
  BY <1>1, <1>3 DEF LoadersInv
<1>6. SleepersWillWake'
  <2> SUFFICES ASSUME NEW u \in Threads, thr'[u].pc = "wait", u \notin notified
               PROVE  \E w \in Threads \ {u} : thr'[w].pc \in {"load", "lock"} /\ thr'[w].task \in thr'[u].missing
    BY Zenon DEF SleepersWillWake
  <2>1. thr'[u] = thr[u] /\ u # t
    BY Zenon, <1>1
  <2>2. PICK w \in Threads \ {u} : thr[w].pc \in {"load", "lock"} /\ thr[w].task \in thr[u].missing
    BY Zenon, <2>1 DEF LoadersInv, SleepersWillWake
  <2>3. thr[w].task # None
    BY Zenon, <2>2, NoneAssumption DEF LoadersInv, ThreadOK
  <2>4. thr'[w].pc \in {"load", "lock"} /\ thr'[w].task = thr[w].task
    BY Zenon, <1>1, <2>2, <2>3
  <2>. QED
    BY Zenon, <2>1, <2>2, <2>4
<1>. QED
  BY Zenon, <1>1, <1>2, <1>4, <1>5, <1>6 DEF LoadersInv

-----------------------------------------------------------------------------
(* A round of replenish_program_cache.                                     *)
(* The locks, the entries, the programs still missing and those found,     *)
(* after the thread has put in what it loaded.                             *)
Freed(t) == IF thr[t].task # None THEN [lock EXCEPT ![thr[t].task] = None] ELSE lock

Filled(t) ==
    IF thr[t].task # None THEN [entries EXCEPT ![thr[t].task] = Assign(@, thr[t].loaded)] ELSE entries

Missing(t) == {k \in thr[t].missing : Extract(Filled(t)[k], thr[t].slot) = None}

Extracted(t) ==
    [k \in Keys |-> IF k \in thr[t].missing \ Missing(t) THEN Extract(Filled(t)[k], thr[t].slot)
                    ELSE thr[t].got[k]]

Done(t) == IF thr[t].task # None THEN thr[t].done \cup {thr[t].task} ELSE thr[t].done

Turned(t, pc, task) ==
    Batch(pc, thr[t].slot, thr[t].anc, Missing(t), task, None, Extracted(t), Done(t))

(* The three ends of a round: the batch leaves with the cache at its       *)
(* limit, runs or waits, or takes a program to load.                       *)
GivesUp(t) ==
    /\ thr[t].task # None
    /\ lock' = Freed(t) /\ notified' = Threads /\ thr' = [thr EXCEPT ![t] = IdleThread]

Stays(t, pc) ==
    /\ FreeTasks(Missing(t), Freed(t)) = {}
    /\ IF Missing(t) = {} THEN pc = "run" ELSE pc = "wait"
    /\ lock' = Freed(t) /\ notified' = Notified(thr[t].task # None, t)
    /\ thr' = [thr EXCEPT ![t] = Turned(t, pc, None)]

Takes(t, k) ==
    /\ k \in FreeTasks(Missing(t), Freed(t))
    /\ lock' = [Freed(t) EXCEPT ![k] = <<thr[t].slot, t>>] /\ notified' = Notified(thr[t].task # None, t)
    /\ thr' = [thr EXCEPT ![t] = Turned(t, "load", k)]

(* A round ends in one of the three.                                       *)
LEMMA RoundCases ==
    ASSUME LoadersInv, NEW t \in Threads, Round(t)
    PROVE  /\ thr[t].pc = "lock" /\ entries' = Filled(t) /\ cacheRoot' = cacheRoot /\ UNCHANGED bankVars
           /\ \/ GivesUp(t) /\ t \in LimitThreads
              \/ \E pc \in {"run", "wait"} : Stays(t, pc)
              \/ \E k \in Keys : Takes(t, k)
<1> DEFINE th == thr[t]
           now == [th EXCEPT !.missing = Missing(t), !.loaded = None, !.task = None, !.done = Done(t),
                             !.got = Extracted(t)]
<1>1. th = Batch(th.pc, th.slot, th.anc, th.missing, th.task, th.loaded, th.got, th.done)
      /\ th.missing \subseteq Keys
  BY Zenon DEF LoadersInv, ThreadOK
<1>2. now = Batch(th.pc, th.slot, th.anc, Missing(t), None, None, Extracted(t), Done(t))
  <2> HIDE DEF th
  <2>1. PICK a, b, c, d, e, f, g, h : th = Batch(a, b, c, d, e, f, g, h)
    BY Zenon, <1>1
  <2>2. th.pc = a /\ th.slot = b /\ th.anc = c
    BY Zenon, <2>1 DEF Batch
  <2>3. PICK r : r = [th EXCEPT !.missing = Missing(t)]
    BY Zenon
  <2>4. r = Batch(a, b, c, Missing(t), e, f, g, h)
    BY Zenon, <2>1, <2>3 DEF Batch
  <2>5. PICK u : u = [r EXCEPT !.loaded = None]
    BY Zenon
  <2>6. u = Batch(a, b, c, Missing(t), e, None, g, h)
    BY Zenon, <2>4, <2>5 DEF Batch
  <2>7. PICK v : v = [u EXCEPT !.task = None]
    BY Zenon
  <2>8. v = Batch(a, b, c, Missing(t), None, None, g, h)
    BY Zenon, <2>6, <2>7 DEF Batch
  <2>9. PICK w : w = [v EXCEPT !.done = Done(t)]
    BY Zenon
  <2>10. w = Batch(a, b, c, Missing(t), None, None, g, Done(t))
    BY Zenon, <2>8, <2>9 DEF Batch
  <2>11. [w EXCEPT !.got = Extracted(t)] = Batch(a, b, c, Missing(t), None, None, Extracted(t), Done(t))
    BY <2>10 DEF Batch
  <2>. QED
    BY Zenon, <2>2, <2>3, <2>5, <2>7, <2>9, <2>11
<1>3. /\ \A pc : [now EXCEPT !.pc = pc] = Turned(t, pc, None)
      /\ \A k : [now EXCEPT !.task = k, !.pc = "load"] = Turned(t, "load", k)
  <2> SUFFICES ASSUME NEW pc, NEW k
               PROVE  /\ [now EXCEPT !.pc = pc] = Turned(t, pc, None)
                      /\ [now EXCEPT !.task = k, !.pc = "load"] = Turned(t, "load", k)
    BY Zenon
  <2> HIDE DEF th, now
  <2>1. now = Batch(th.pc, thr[t].slot, thr[t].anc, Missing(t), None, None, Extracted(t), Done(t))
    BY Zenon, <1>2 DEF th
  <2>2. [now EXCEPT !.pc = pc] = Turned(t, pc, None)
    BY <2>1 DEF Batch, Turned
  <2>3. PICK r : r = [now EXCEPT !.task = k]
    BY Zenon
  <2>4. r = Batch(th.pc, thr[t].slot, thr[t].anc, Missing(t), k, None, Extracted(t), Done(t))
    BY Zenon, <2>1, <2>3 DEF Batch
  <2>5. [r EXCEPT !.pc = "load"] = Turned(t, "load", k)
    BY <2>4 DEF Batch, Turned
  <2>. QED
    BY Zenon, <2>2, <2>3, <2>5
<1>4. FreeTasks(Missing(t), Freed(t)) \subseteq Keys
  BY Zenon, <1>1 DEF FreeTasks, Missing
<1>5. /\ thr[t].pc = "lock" /\ entries' = Filled(t) /\ cacheRoot' = cacheRoot /\ UNCHANGED bankVars
  BY Zenon DEF Round, Filled
<1>6. CASE th.task # None /\ t \in LimitThreads /\ Occupied(entries[th.task], th.loaded)
  BY Zenon, <1>5, <1>6 DEF Round, GivesUp, Freed
<1>7. CASE ~(th.task # None /\ t \in LimitThreads /\ Occupied(entries[th.task], th.loaded))
  <2>1. /\ notified' = Notified(th.task # None, t)
        /\ \/ /\ FreeTasks(Missing(t), Freed(t)) = {} /\ lock' = Freed(t)
              /\ thr' = [thr EXCEPT ![t] = [now EXCEPT !.pc = IF Missing(t) = {} THEN "run" ELSE "wait"]]
           \/ \E k \in FreeTasks(Missing(t), Freed(t)) :
                 /\ lock' = [Freed(t) EXCEPT ![k] = <<th.slot, t>>]
                 /\ thr' = [thr EXCEPT ![t] = [now EXCEPT !.task = k, !.pc = "load"]]
    BY <1>7, Zenon DEF Round, Freed, Filled, Missing, Extracted, Done
  <2> HIDE DEF now
  <2>2. CASE /\ FreeTasks(Missing(t), Freed(t)) = {} /\ lock' = Freed(t)
             /\ thr' = [thr EXCEPT ![t] = [now EXCEPT !.pc = IF Missing(t) = {} THEN "run" ELSE "wait"]]
    <3>1. Missing(t) = {} => Stays(t, "run")
      BY Zenon, <1>3, <2>1, <2>2 DEF Stays
    <3>2. Missing(t) # {} => Stays(t, "wait")
      BY Zenon, <1>3, <2>1, <2>2 DEF Stays
    <3>. QED
      BY Zenon, <1>5, <3>1, <3>2
  <2>3. CASE \E k \in FreeTasks(Missing(t), Freed(t)) :
                 /\ lock' = [Freed(t) EXCEPT ![k] = <<th.slot, t>>]
                 /\ thr' = [thr EXCEPT ![t] = [now EXCEPT !.task = k, !.pc = "load"]]
    <3>1. PICK k \in FreeTasks(Missing(t), Freed(t)) :
                 /\ lock' = [Freed(t) EXCEPT ![k] = <<th.slot, t>>]
                 /\ thr' = [thr EXCEPT ![t] = [now EXCEPT !.task = k, !.pc = "load"]]
      BY Zenon, <2>3
    <3>2. thr' = [thr EXCEPT ![t] = Turned(t, "load", k)]
      BY <1>3, <3>1, Zenon
    <3>3. Takes(t, k)
      BY Zenon, <2>1, <3>1, <3>2 DEF Takes
    <3>. QED
      BY Zenon, <1>4, <1>5, <3>3
  <2>. QED
    BY Zenon, <2>1, <2>2, <2>3
<1>. QED
  BY Zenon, <1>6, <1>7

(* Who holds the locks once a thread has given back the lock of its task.  *)
LEMMA FreedFacts ==
    ASSUME LoadersInv, CacheInv, NEW t \in Threads, thr[t].pc = "lock"
    PROVE  /\ Freed(t) \in [Keys -> {None} \cup (Slots \X Threads)]
           /\ \A k \in Keys, s \in Slots : Freed(t)[k] # <<s, t>>
           /\ \A k \in Keys, u \in Threads \ {t} :
                 thr[u].task = k /\ thr[u].pc \in {"load", "lock"} <=> Freed(t)[k] = <<thr[u].slot, u>>
           /\ \A k \in Keys : Freed(t)[k] # None => \E u \in Threads \ {t} : Freed(t)[k] = <<thr[u].slot, u>>
<1>1. \A k \in Keys : lock[k] = <<thr[t].slot, t>> <=> thr[t].task = k
  BY Zenon DEF LoadersInv, LoaderHoldsLock
<1>2. thr[t].slot \in Slots /\ thr[t].task \in Keys \cup {None}
  BY Zenon DEF LoadersInv, ThreadOK
<1>3. \A k \in Keys : Freed(t)[k] = IF thr[t].task = k THEN None ELSE lock[k]
  BY Zenon, NoneAssumption DEF Freed, CacheInv
<1>4. Freed(t) \in [Keys -> {None} \cup (Slots \X Threads)]
  BY Zenon, <1>2 DEF Freed, CacheInv
<1>5. ASSUME NEW k \in Keys, Freed(t)[k] # None
      PROVE  \E u \in Threads \ {t} : Freed(t)[k] = <<thr[u].slot, u>>
  <2>1. thr[t].task # k /\ Freed(t)[k] = lock[k]
    BY Zenon, <1>3, <1>5
  <2>2. PICK u \in Threads : lock[k] = <<thr[u].slot, u>>
    BY Zenon, <1>5, <2>1 DEF LoadersInv
  <2>. QED
    BY Zenon, <1>1, <2>1, <2>2
<1>6. ASSUME NEW k \in Keys, NEW s \in Slots
      PROVE  Freed(t)[k] # <<s, t>>
  <2>1. <<s, t>> # None
    BY Zenon, NoneAssumption
  <2>2. ASSUME Freed(t)[k] = <<s, t>>
        PROVE  FALSE
    <3>1. PICK u \in Threads \ {t} : Freed(t)[k] = <<thr[u].slot, u>>
      BY Zenon, <1>5, <2>1, <2>2
    <3>. QED
      BY <2>2, <3>1
  <2>. QED
    BY Zenon, <2>2
<1>7. ASSUME NEW k \in Keys, NEW u \in Threads \ {t}
      PROVE  thr[u].task = k /\ thr[u].pc \in {"load", "lock"} <=> Freed(t)[k] = <<thr[u].slot, u>>
  <2>1. thr[u].task = k /\ thr[u].pc \in {"load", "lock"} <=> lock[k] = <<thr[u].slot, u>>
    BY Zenon DEF LoadersInv, LoaderHoldsLock
  <2>2. <<thr[u].slot, u>> # None
    BY Zenon, NoneAssumption DEF LoadersInv, ThreadOK
  <2>3. lock[k] = <<thr[t].slot, t>> => lock[k] # <<thr[u].slot, u>>
    OBVIOUS
  <2>. QED
    BY Zenon, <1>1, <1>3, <2>1, <2>2, <2>3
<1>. QED
  BY Zenon, <1>4, <1>5, <1>6, <1>7

(* The thread's state after a round.                                       *)
LEMMA TurnedOK ==
    ASSUME LoadersInv, NEW t \in Threads, NEW pc, NEW task,
           (pc \in {"run", "wait"} /\ task = None) \/ (pc = "load" /\ task \in Keys)
    PROVE  ThreadOK(Turned(t, pc, task))
<1>1. ThreadOK(thr[t]) /\ Missing(t) \subseteq Keys
  BY Zenon DEF LoadersInv, ThreadOK, Missing
<1>. QED
  BY Zenon, <1>1, NoneAssumption DEF ThreadOK, Turned, Extracted, Done, Batch

(* What a round makes of a thread and of the locks.                        *)
Moved(t, new, L) ==
    /\ ThreadOK(new) /\ thr' = [thr EXCEPT ![t] = new] /\ lock' = L
    /\ L \in [Keys -> {None} \cup (Slots \X Threads)]
    /\ \A k \in Keys : new.task = k /\ new.pc \in {"load", "lock"} <=> L[k] = <<new.slot, t>>
    /\ \A k \in Keys, u \in Threads \ {t} :
          thr[u].task = k /\ thr[u].pc \in {"load", "lock"} <=> L[k] = <<thr[u].slot, u>>
    /\ \A k \in Keys : L[k] # None =>
          L[k] = <<new.slot, t>> \/ \E u \in Threads \ {t} : L[k] = <<thr[u].slot, u>>
    /\ notified' \subseteq Threads
    /\ thr[t].task # None => Threads \ {t} \subseteq notified'
    /\ thr[t].task = None => notified \ {t} \subseteq notified'
    /\ new.pc = "wait" => \E u \in Threads \ {t} : thr[u].pc \in {"load", "lock"} /\ thr[u].task \in new.missing

(* Such a move keeps the locks and the sleepers right.                     *)
LEMMA MovedLoaders ==
    ASSUME LoadersInv, NEW t \in Threads, NEW new, NEW L, Moved(t, new, L)
    PROVE  LoadersInv' /\ lock' \in [Keys -> {None} \cup (Slots \X Threads)] /\ notified' \subseteq Threads
<1> USE DEF Moved
<1>1. thr' = [u \in Threads |-> thr'[u]] /\ thr'[t] = new /\ \A u \in Threads \ {t} : thr'[u] = thr[u]
  BY Zenon DEF LoadersInv
<1>2. \A u \in Threads : ThreadOK(thr'[u])
  BY Zenon, <1>1 DEF LoadersInv
<1>3. LoaderHoldsLock'
  BY <1>1 DEF LoaderHoldsLock
<1>4. \A k \in Keys : lock'[k] # None => \E u \in Threads : lock'[k] = <<thr'[u].slot, u>>
  BY Zenon, <1>1
<1>5. ASSUME NEW u \in Threads, thr'[u].pc = "wait", u \notin notified'
      PROVE  \E w \in Threads \ {u} : thr'[w].pc \in {"load", "lock"} /\ thr'[w].task \in thr'[u].missing
  <2>1. CASE u = t
    BY Zenon, <1>1, <1>5, <2>1
  <2>2. CASE u # t
    <3>1. thr[t].task = None /\ u \notin notified /\ thr'[u] = thr[u]
      BY Zenon, <1>1, <1>5, <2>2
    <3>2. PICK w \in Threads \ {u} : thr[w].pc \in {"load", "lock"} /\ thr[w].task \in thr[u].missing
      BY Zenon, <1>5, <3>1 DEF LoadersInv, SleepersWillWake
    <3>3. thr[u].missing \subseteq Keys /\ None \notin Keys
      BY Zenon, NoneAssumption DEF LoadersInv, ThreadOK
    <3>4. w # t
      BY Zenon, <3>1, <3>2, <3>3
    <3>. QED
      BY Zenon, <1>1, <3>1, <3>2, <3>4
  <2>. QED
    BY Zenon, <2>1, <2>2
<1>. QED
  BY Zenon, <1>1, <1>2, <1>3, <1>4, <1>5 DEF LoadersInv, SleepersWillWake

(* A round is such a move.                                                 *)
LEMMA RoundLoaders ==
    ASSUME LoadersInv, CacheInv, NEW t \in Threads, Round(t)
    PROVE  LoadersInv' /\ lock' \in [Keys -> {None} \cup (Slots \X Threads)] /\ notified' \subseteq Threads
<1>1. thr[t].pc = "lock" /\ thr[t].slot \in Slots /\ ThreadOK(thr[t])
  BY Zenon, RoundCases DEF LoadersInv, ThreadOK
<1>3. /\ Freed(t) \in [Keys -> {None} \cup (Slots \X Threads)]
      /\ \A k \in Keys, s \in Slots : Freed(t)[k] # <<s, t>>
      /\ \A k \in Keys, u \in Threads \ {t} :
            thr[u].task = k /\ thr[u].pc \in {"load", "lock"} <=> Freed(t)[k] = <<thr[u].slot, u>>
      /\ \A k \in Keys : Freed(t)[k] # None => \E u \in Threads \ {t} : Freed(t)[k] = <<thr[u].slot, u>>
  BY Zenon, <1>1, FreedFacts
<1>4. CASE GivesUp(t)
  <2>1. ThreadOK(IdleThread) /\ IdleThread.pc = "idle" /\ IdleThread.slot = 0 /\ 0 \in Slots
    BY Zenon, IdleFacts, Numbers
  <2>2. lock' = Freed(t) /\ notified' = Threads /\ thr' = [thr EXCEPT ![t] = IdleThread]
    BY Zenon, <1>4 DEF GivesUp
  <2>3. \A k \in Keys : IdleThread.task = k /\ IdleThread.pc \in {"load", "lock"}
                            <=> Freed(t)[k] = <<IdleThread.slot, t>>
    BY <1>3, <2>1
  <2>4. Moved(t, IdleThread, Freed(t))
    <3> DEFINE new == IdleThread
    <3>1. ThreadOK(new) /\ new.pc = "idle" /\ thr' = [thr EXCEPT ![t] = new]
          /\ \A k \in Keys : new.task = k /\ new.pc \in {"load", "lock"} <=> Freed(t)[k] = <<new.slot, t>>
      BY Zenon, <2>1, <2>2, <2>3
    <3> HIDE DEF new
    <3>2. Moved(t, new, Freed(t))
      BY Zenon, <1>3, <2>2, <3>1 DEF Moved, CacheInv
    <3>. QED
      BY Zenon, <3>2 DEF new
  <2>. QED
    BY Zenon, <2>4, MovedLoaders
<1>5. ASSUME Notified(thr[t].task # None, t) = notified'
      PROVE  /\ notified' \subseteq Threads
             /\ thr[t].task # None => Threads \ {t} \subseteq notified'
             /\ thr[t].task = None => notified \ {t} \subseteq notified'
  BY Zenon, <1>5 DEF Notified, CacheInv
<1>6. ASSUME NEW pc \in {"run", "wait"}, Stays(t, pc)
      PROVE  LoadersInv' /\ lock' \in [Keys -> {None} \cup (Slots \X Threads)] /\ notified' \subseteq Threads
  <2> DEFINE new == Turned(t, pc, None)
  <2>1. ThreadOK(new) /\ new.pc = pc /\ new.task = None /\ new.slot = thr[t].slot /\ new.missing = Missing(t)
    <3>1. ThreadOK(new)
      BY Zenon, TurnedOK
    <3>. QED
      BY Zenon, <3>1 DEF Turned, Batch
  <2>2. pc = "wait" => \E u \in Threads \ {t} : thr[u].pc \in {"load", "lock"} /\ thr[u].task \in new.missing
    <3> SUFFICES ASSUME pc = "wait"
                 PROVE  \E u \in Threads \ {t} : thr[u].pc \in {"load", "lock"} /\ thr[u].task \in Missing(t)
      BY Zenon, <2>1
    <3>1. PICK k \in Missing(t) : Freed(t)[k] # None
      BY Zenon, <1>6 DEF Stays, FreeTasks
    <3>2. k \in Keys
      BY Zenon DEF Missing, LoadersInv, ThreadOK
    <3>. QED
      BY <1>3, <3>1, <3>2
  <2>3. /\ lock' = Freed(t) /\ thr' = [thr EXCEPT ![t] = new] /\ notified' = Notified(thr[t].task # None, t)
    BY Zenon, <1>6 DEF Stays
  <2>4. \A k \in Keys : new.task = k /\ new.pc \in {"load", "lock"} <=> Freed(t)[k] = <<new.slot, t>>
    BY Zenon, <1>1, <1>3, <2>1
  <2> HIDE DEF new
  <2>5. Moved(t, new, Freed(t))
    BY Zenon, <1>3, <1>5, <2>1, <2>2, <2>3, <2>4 DEF Moved
  <2>. QED
    BY Zenon, <2>5, MovedLoaders
<1>7. ASSUME NEW k \in Keys, Takes(t, k)
      PROVE  LoadersInv' /\ lock' \in [Keys -> {None} \cup (Slots \X Threads)] /\ notified' \subseteq Threads
  <2> DEFINE new == Turned(t, "load", k)
             L == [Freed(t) EXCEPT ![k] = <<thr[t].slot, t>>]
  <2>1. ThreadOK(new) /\ new.pc = "load" /\ new.task = k /\ new.slot = thr[t].slot
    BY Zenon, TurnedOK DEF Turned, Batch
  <2>2. Freed(t)[k] = None /\ lock' = L /\ thr' = [thr EXCEPT ![t] = new]
        /\ notified' = Notified(thr[t].task # None, t)
    BY Zenon, <1>7 DEF Takes, FreeTasks
  <2>3. L \in [Keys -> {None} \cup (Slots \X Threads)] /\ L[k] = <<thr[t].slot, t>>
        /\ \A j \in Keys \ {k} : L[j] = Freed(t)[j]
    BY <1>1, <1>3
  <2>4. \A j \in Keys : new.task = j /\ new.pc \in {"load", "lock"} <=> L[j] = <<new.slot, t>>
    BY <1>1, <1>3, <2>1, <2>3
  <2>5. \A j \in Keys, u \in Threads \ {t} :
           thr[u].task = j /\ thr[u].pc \in {"load", "lock"} <=> L[j] = <<thr[u].slot, u>>
    <3> SUFFICES ASSUME NEW j \in Keys, NEW u \in Threads \ {t}
                 PROVE  thr[u].task = j /\ thr[u].pc \in {"load", "lock"} <=> L[j] = <<thr[u].slot, u>>
      BY Zenon
    <3>1. <<thr[u].slot, u>> # None
      BY Zenon, NoneAssumption DEF LoadersInv, ThreadOK
    <3>. QED
      BY <1>3, <2>2, <2>3, <3>1
  <2>6. \A j \in Keys : L[j] # None =>
           L[j] = <<new.slot, t>> \/ \E u \in Threads \ {t} : L[j] = <<thr[u].slot, u>>
    BY Zenon, <1>3, <2>1, <2>3
  <2> HIDE DEF new, L
  <2>7. Moved(t, new, L)
    BY Zenon, <1>5, <2>1, <2>2, <2>3, <2>4, <2>5, <2>6 DEF Moved
  <2>. QED
    BY Zenon, <2>7, MovedLoaders
<1>. QED
  BY Zenon, <1>4, <1>6, <1>7, RoundCases

-----------------------------------------------------------------------------
(* The other steps of a batch, as updates of its state.                    *)
LEMMA BeginState ==
    ASSUME NEW t \in Threads, NEW s \in Slots, NEW keys, Begin(t, s, keys)
    PROVE  thr' = [thr EXCEPT ![t] = Batch("lock", s, anc[s], keys, None, None, [k \in Keys |-> None], {})]
<1> DEFINE nothing == [k \in Keys |-> None]
           new == [IdleThread EXCEPT !.pc = "lock", !.slot = s, !.anc = anc[s], !.missing = keys]
<1>1. IdleThread = Batch("idle", 0, {}, {}, None, None, nothing, {})
  BY Zenon DEF IdleThread, Batch
<1>2. new = Batch("lock", s, anc[s], keys, None, None, nothing, {})
  <2> HIDE DEF nothing
  <2>1. PICK r : r = [IdleThread EXCEPT !.pc = "lock"]
    BY Zenon
  <2>2. r = Batch("lock", 0, {}, {}, None, None, nothing, {})
    BY Zenon, <1>1, <2>1 DEF Batch
  <2>3. PICK u : u = [r EXCEPT !.slot = s]
    BY Zenon
  <2>4. u = Batch("lock", s, {}, {}, None, None, nothing, {})
    BY Zenon, <2>2, <2>3 DEF Batch
  <2>5. PICK v : v = [u EXCEPT !.anc = anc[s]]
    BY Zenon
  <2>6. v = Batch("lock", s, anc[s], {}, None, None, nothing, {})
    BY Zenon, <2>4, <2>5 DEF Batch
  <2>7. [v EXCEPT !.missing = keys] = Batch("lock", s, anc[s], keys, None, None, nothing, {})
    BY <2>6 DEF Batch
  <2>. QED
    BY Zenon, <2>1, <2>3, <2>5, <2>7
<1>3. thr' = [thr EXCEPT ![t] = new]
  BY Zenon DEF Begin
<1> HIDE DEF new
<1>. QED
  BY Zenon, <1>2, <1>3

LEMMA LoadState ==
    ASSUME LoadersInv, NEW t \in Threads, Load(t)
    PROVE  thr' = [thr EXCEPT ![t] = Batch("lock", thr[t].slot, thr[t].anc, thr[t].missing, thr[t].task,
                                           LoadProgram(t, thr[t].task), thr[t].got, thr[t].done)]
<1> DEFINE new == LoadProgram(t, thr[t].task)
<1>1. PICK th : th = thr[t]
  BY Zenon
<1>2. PICK a, b, c, d, e, f, g, h : th = Batch(a, b, c, d, e, f, g, h)
  <2>1. th = Batch(th.pc, th.slot, th.anc, th.missing, th.task, th.loaded, th.got, th.done)
    BY Zenon, <1>1 DEF LoadersInv, ThreadOK
  <2>. QED
    BY Zenon, <2>1
<1>3. th.slot = b /\ th.anc = c /\ th.missing = d /\ th.task = e /\ th.got = g /\ th.done = h
  BY Zenon, <1>2 DEF Batch
<1>4. PICK mid : mid = [thr EXCEPT ![t].pc = "lock"]
  BY Zenon
<1>5. thr' = [mid EXCEPT ![t].loaded = new]
  BY Zenon, <1>4 DEF Load
<1> HIDE DEF new
<1>6. [th EXCEPT !.pc = "lock"] = Batch("lock", b, c, d, e, f, g, h)
  BY <1>2 DEF Batch
<1>7. mid = [thr EXCEPT ![t] = Batch("lock", b, c, d, e, f, g, h)] /\ mid[t] = Batch("lock", b, c, d, e, f, g, h)
  BY Zenon, <1>1, <1>4, <1>6 DEF LoadersInv
<1>8. [mid[t] EXCEPT !.loaded = new] = Batch("lock", b, c, d, e, new, g, h)
  BY <1>7 DEF Batch
<1>9. thr' = [mid EXCEPT ![t] = Batch("lock", b, c, d, e, new, g, h)]
  BY Zenon, <1>5, <1>8
<1>10. thr' = [thr EXCEPT ![t] = Batch("lock", b, c, d, e, new, g, h)]
  BY Zenon, <1>7, <1>9 DEF LoadersInv
<1>. QED
  BY Zenon, <1>1, <1>3, <1>10 DEF new

LEMMA WakeState ==
    ASSUME LoadersInv, NEW t \in Threads, Wake(t)
    PROVE  thr' = [thr EXCEPT ![t] = Batch("lock", thr[t].slot, thr[t].anc, thr[t].missing, thr[t].task,
                                           thr[t].loaded, thr[t].got, thr[t].done)]
<1>1. PICK th : th = thr[t]
  BY Zenon
<1>2. PICK a, b, c, d, e, f, g, h : th = Batch(a, b, c, d, e, f, g, h)
  <2>1. th = Batch(th.pc, th.slot, th.anc, th.missing, th.task, th.loaded, th.got, th.done)
    BY Zenon, <1>1 DEF LoadersInv, ThreadOK
  <2>. QED
    BY Zenon, <2>1
<1>3. th.slot = b /\ th.anc = c /\ th.missing = d /\ th.task = e /\ th.loaded = f /\ th.got = g /\ th.done = h
  BY Zenon, <1>2 DEF Batch
<1>4. [th EXCEPT !.pc = "lock"] = Batch("lock", b, c, d, e, f, g, h)
  BY <1>2 DEF Batch
<1>5. thr' = [thr EXCEPT ![t] = Batch("lock", b, c, d, e, f, g, h)]
  BY Zenon, <1>1, <1>4 DEF Wake
<1>. QED
  BY Zenon, <1>1, <1>3, <1>5

(* A step of a batch other than a round leaves the banks and the cache.    *)
LEMMA BatchSteps ==
    ASSUME Topped, Inv, NEW t \in Threads,
           (\E s \in Slots, keys \in SUBSET Keys : Begin(t, s, keys)) \/ Load(t) \/ Wake(t) \/ End(t)
    PROVE  LoadersInv' /\ UNCHANGED <<bankVars, cacheVars>>
<1>1. /\ LoadersInv /\ CacheInv /\ BanksInv /\ ThreadOK(thr[t])
      /\ thr[t].slot \in Slots /\ thr[t].anc \subseteq Slots /\ thr[t].missing \subseteq Keys
      /\ thr[t].done \subseteq Keys /\ thr[t].task \in Keys \cup {None}
      /\ thr[t].got = [k \in Keys |-> thr[t].got[k]]
  BY Zenon DEF Inv, LoadersInv, ThreadOK
<1>2. ASSUME UNCHANGED <<bankVars, cacheVars>>
      PROVE  lock' = lock /\ notified' = notified
  BY Zenon, <1>2 DEF cacheVars
<1>3. ASSUME NEW s \in Slots, NEW keys \in SUBSET Keys, Begin(t, s, keys)
      PROVE  LoadersInv' /\ UNCHANGED <<bankVars, cacheVars>>
  <2> DEFINE new == Batch("lock", s, anc[s], keys, None, None, [k \in Keys |-> None], {})
  <2>1. thr' = [thr EXCEPT ![t] = new]
    BY Zenon, <1>3, BeginState
  <2>2. ThreadOK(new) /\ new.task = None /\ new.pc = "lock"
    BY Zenon, <1>1, NoneAssumption DEF ThreadOK, Batch, BanksInv
  <2>3. thr[t].pc = "idle" /\ UNCHANGED <<bankVars, cacheVars>>
    BY Zenon, <1>3 DEF Begin
  <2> HIDE DEF new
  <2>. QED
    BY Zenon, <1>1, <1>2, <2>1, <2>2, <2>3, OneThread
<1>4. CASE Load(t)
  <2> DEFINE new == Batch("lock", thr[t].slot, thr[t].anc, thr[t].missing, thr[t].task,
                          LoadProgram(t, thr[t].task), thr[t].got, thr[t].done)
  <2>1. thr' = [thr EXCEPT ![t] = new]
    BY Zenon, <1>1, <1>4, LoadState
  <2>2. thr[t].pc = "load" /\ UNCHANGED <<bankVars, cacheVars>> /\ thr[t].task \in Keys
    BY Zenon, <1>1, <1>4 DEF Load, ThreadOK
  <2>3. LoadProgram(t, thr[t].task) \in Programs
    BY Zenon, <2>2, LoadedType
  <2>4. new.task = thr[t].task /\ new.pc = "lock" /\ new.slot = thr[t].slot
    BY Zenon DEF Batch
  <2>5. ThreadOK(new)
    BY Zenon, <1>1, <2>3 DEF ThreadOK, Batch
  <2> HIDE DEF new
  <2>. QED
    BY Zenon, <1>1, <1>2, <2>1, <2>2, <2>4, <2>5, OneThread
<1>5. CASE Wake(t)
  <2> DEFINE new == Batch("lock", thr[t].slot, thr[t].anc, thr[t].missing, thr[t].task,
                          thr[t].loaded, thr[t].got, thr[t].done)
  <2>1. thr' = [thr EXCEPT ![t] = new]
    BY Zenon, <1>1, <1>5, WakeState
  <2>2. thr[t].pc = "wait" /\ UNCHANGED <<bankVars, cacheVars>> /\ thr[t].task = None
    BY Zenon, <1>1, <1>5 DEF Wake, ThreadOK
  <2>3. ThreadOK(new) /\ new.task = None /\ new.pc = "lock"
    BY Zenon, <1>1, <2>2 DEF ThreadOK, Batch
  <2> HIDE DEF new
  <2>. QED
    BY Zenon, <1>1, <1>2, <2>1, <2>2, <2>3, OneThread
<1>6. CASE End(t)
  <2>1. thr[t].pc = "run" /\ thr' = [thr EXCEPT ![t] = IdleThread] /\ UNCHANGED <<bankVars, cacheVars>>
    BY Zenon, <1>6 DEF End
  <2>2. ThreadOK(IdleThread) /\ IdleThread.task = None /\ IdleThread.pc = "idle"
    BY Zenon, IdleFacts
  <2>. QED
    BY Zenon, <1>1, <1>2, <2>1, <2>2, OneThread
<1>. QED
  BY Zenon, <1>3, <1>4, <1>5, <1>6

-----------------------------------------------------------------------------
(* A round keeps the invariant.                                            *)
LEMMA RoundInv ==
    ASSUME Topped, Inv, NEW t \in Threads, Round(t)
    PROVE  Inv'
<1>1. LoadersInv /\ CacheInv /\ BanksInv /\ AccountsInv
  BY Zenon DEF Inv
<1>2. thr[t].pc = "lock" /\ entries' = Filled(t) /\ cacheRoot' = cacheRoot /\ UNCHANGED bankVars
  BY Zenon, <1>1, RoundCases
<1>3. LoadersInv' /\ lock' \in [Keys -> {None} \cup (Slots \X Threads)] /\ notified' \subseteq Threads
  BY Zenon, <1>1, RoundLoaders
<1>4. Filled(t) = [k \in Keys |-> Filled(t)[k]] /\ \A k \in Keys : Versions(Filled(t)[k])
  <2>1. CASE thr[t].task = None
    BY Zenon, <1>1, <2>1 DEF Filled, CacheInv
  <2>2. CASE thr[t].task # None
    <3>1. thr[t].task \in Keys /\ thr[t].loaded \in Programs
      BY Zenon, <1>1, <1>2, <2>2 DEF LoadersInv, ThreadOK
    <3>2. Versions(Assign(entries[thr[t].task], thr[t].loaded))
      BY Zenon, <1>1, <3>1, AssignFacts DEF CacheInv
    <3>. QED
      BY Zenon, <1>1, <2>2, <3>1, <3>2 DEF Filled, CacheInv
  <2>. QED
    BY Zenon, <2>1, <2>2
<1>5. BanksInv' /\ AccountsInv'
  BY Zenon, <1>1, <1>2 DEF BanksInv, AccountsInv, bankVars, InForks
<1>6. CacheInv'
  BY Zenon, <1>2, <1>3, <1>4 DEF CacheInv
<1>. QED
  BY Zenon, <1>3, <1>5, <1>6 DEF Inv

(* An entry that is unloaded, and a program that is modified.              *)
LEMMA EvictInv ==
    ASSUME Inv, NEW k \in Keys, NEW e \in entries[k], Evict(k, e)
    PROVE  Inv'
<1> DEFINE u == [e EXCEPT !.kind = "unloaded", !.code = 0]
<1>1. /\ entries' = [entries EXCEPT ![k] = (@ \ {e}) \cup {u}]
      /\ UNCHANGED <<bankVars, lock, cacheRoot, notified, thr>>
  BY Zenon DEF Evict
<1>2. Versions(entries[k]) /\ e \in Programs /\ entries = [j \in Keys |-> entries[j]]
  BY Zenon DEF Inv, CacheInv, Versions
<1>3. u \in Programs /\ u.eff = e.eff /\ u.dep = e.dep
  BY Zenon, <1>2 DEF Programs
<1>4. Versions((entries[k] \ {e}) \cup {u})
  <2> HIDE DEF u
  <2>. QED
    BY Zenon, <1>2, <1>3 DEF Versions, SameVersion
<1>5. CacheInv'
  <2> HIDE DEF u
  <2>. QED
    BY Zenon, <1>1, <1>2, <1>4 DEF Inv, CacheInv
<1>6. BanksInv' /\ AccountsInv'
  BY Zenon, <1>1 DEF Inv, BanksInv, AccountsInv, bankVars, InForks
<1>7. LoadersInv'
  BY Zenon, <1>1 DEF Inv, LoadersInv, LoaderHoldsLock, SleepersWillWake
<1>. QED
  BY Zenon, <1>5, <1>6, <1>7 DEF Inv

LEMMA ModifyInv ==
    ASSUME Inv, NEW s \in Slots, NEW k \in Keys, NEW e \in Programs, NEW written \in Codes \cup {Closed},
           Modify(s, k, e, written)
    PROVE  Inv'
<1>1. /\ accts' = [accts EXCEPT ![k][s] = written] /\ accts[k][s] = None
      /\ entries' = [entries EXCEPT ![k] = Assign(@, e)]
      /\ UNCHANGED <<bank, anc, root, roots, replay, dumps, lock, cacheRoot, notified, thr>>
  BY Zenon DEF Modify
<1>2. BanksInv' /\ LoadersInv'
  BY <1>1 DEF Inv, BanksInv, InForks, LoadersInv, LoaderHoldsLock, SleepersWillWake
<1>3. AccountsInv'
  <2>1. accts \in [Keys -> [Slots -> Codes \cup {0, None, Closed}]] /\ \A j \in Keys \ RemoteKeys : accts[j][0] = 0
    BY Zenon DEF Inv, AccountsInv
  <2>2. accts' \in [Keys -> [Slots -> Codes \cup {0, None, Closed}]]
    BY Zenon, <1>1, <2>1
  <2>3. \A j \in Keys, x \in Slots : accts'[j][x] = IF j = k /\ x = s THEN written ELSE accts[j][x]
    BY Zenon, <1>1, <2>1
  <2>4. k \in Keys \ RemoteKeys => s # 0
    BY Zenon, <1>1, <2>1, NoneAssumption
  <2>. QED
    BY Zenon, <2>1, <2>2, <2>3, <2>4, Numbers DEF AccountsInv
<1>4. CacheInv'
  <2>1. Versions(Assign(entries[k], e)) /\ entries = [j \in Keys |-> entries[j]]
    BY Zenon, AssignFacts DEF Inv, CacheInv
  <2>. QED
    BY Zenon, <1>1, <2>1 DEF Inv, CacheInv
<1>. QED
  BY Zenon, <1>2, <1>3, <1>4 DEF Inv

(* What Close and Deploy put into the cache is an entry.                   *)
LEMMA DeployedType ==
    ASSUME NEW s \in Slots
    PROVE  Tombstone(s, "closed") \in Programs /\ \A code \in Codes : Loaded(s, code) \in Programs
BY Zenon, Numbers, CodesAssumption DEF Loaded, Tombstone, Programs

(* The steps of replay on the banks.                                       *)
BankStep ==
    \/ \E s, p \in Slots : NewBank(s, p)
    \/ \E s \in Slots : Freeze(s) \/ PruneCache(s) \/ DumpBanks(s) \/ DumpPrograms(s)
    \/ SetRoot
    \/ DumpAccounts

(* They leave the threads and their locks.                                 *)
LEMMA BankStepThreads ==
    ASSUME BankStep
    PROVE  thr' = thr /\ lock' = lock /\ notified' = notified
BY Zenon DEF BankStep, NewBank, Freeze, PruneCache, DumpBanks, DumpPrograms, SetRoot,
   DumpAccounts, cacheVars

(* They may only take entries away.                                        *)
LEMMA BankStepCache ==
    ASSUME Inv, BankStep
    PROVE  CacheInv' /\ LoadersInv'
<1>1. thr' = thr /\ lock' = lock /\ notified' = notified
  BY Zenon, BankStepThreads
<1>2. LoadersInv'
  BY Zenon, <1>1 DEF Inv, LoadersInv, LoaderHoldsLock, SleepersWillWake
<1>3. entries' = [k \in Keys |-> entries'[k]] /\ \A k \in Keys : \A e \in entries'[k] : e \in entries[k]
  <2>1. CASE entries' = entries
    BY Zenon, <2>1 DEF Inv, CacheInv
  <2>2. CASE \E r \in Slots : PruneCache(r)
    BY Zenon, <2>2 DEF PruneCache, Pruned
  <2>3. CASE \E s \in Slots : DumpPrograms(s)
    BY Zenon, <2>3 DEF DumpPrograms
  <2>. QED
    BY Zenon, <2>1, <2>2, <2>3 DEF BankStep, NewBank, Freeze, DumpBanks, SetRoot,
       DumpAccounts, cacheVars
<1>4. CacheInv'
  BY Zenon, <1>1, <1>3 DEF Inv, CacheInv, Versions
<1>. QED
  BY Zenon, <1>2, <1>4

(* They keep the banks in order.                                           *)
LEMMA BankStepBanks ==
    ASSUME Inv, BankStep
    PROVE  BanksInv'
<1> USE Numbers DEF Inv, BanksInv, InForks
<1>1. ASSUME NEW s \in Slots, NEW p \in Slots, NewBank(s, p)
      PROVE  BanksInv'
  BY <1>1 DEF NewBank, ReplayIdle, cacheVars
<1>2. ASSUME NEW s \in Slots, Freeze(s)
      PROVE  BanksInv'
  BY Zenon, <1>2 DEF Freeze, cacheVars
<1>3. ASSUME NEW s \in Slots, PruneCache(s)
      PROVE  BanksInv'
  BY Zenon, <1>3 DEF PruneCache
<1>4. ASSUME NEW s \in Slots, DumpBanks(s)
      PROVE  BanksInv'
  <2>1. /\ replay' = [pc |-> "purge", slot |-> 0, todo |-> {c \in Forks : s \in anc[c]}]
        /\ bank' = [c \in Slots |-> IF c \in {d \in Forks : s \in anc[d]} THEN "dumped" ELSE bank[c]]
        /\ UNCHANGED <<anc, root, roots, cacheRoot>> /\ s # 0
    BY Zenon, <1>4 DEF DumpBanks, cacheVars
  <2>. QED
    BY Zenon, <2>1 DEF Forks
<1>5. ASSUME NEW s \in Slots, DumpPrograms(s)
      PROVE  BanksInv'
  BY Zenon, <1>5 DEF DumpPrograms
<1>6. CASE SetRoot
  BY Zenon, <1>6 DEF SetRoot, cacheVars
<1>7. CASE DumpAccounts
  BY Zenon, <1>7 DEF DumpAccounts, cacheVars
<1>. QED
  BY Zenon, <1>1, <1>2, <1>3, <1>4, <1>5, <1>6, <1>7 DEF BankStep

(* They may only take accounts of dumped slots away.                       *)
LEMMA BankStepAccounts ==
    ASSUME Inv, BankStep
    PROVE  AccountsInv'
<1>1. CASE accts' = accts
  BY Zenon, <1>1 DEF Inv, AccountsInv
<1>2. CASE DumpAccounts
  BY Zenon, <1>2, Numbers DEF DumpAccounts, Inv, AccountsInv, BanksInv
<1>. QED
  BY Zenon, <1>1, <1>2 DEF BankStep, NewBank, Freeze, PruneCache, DumpBanks, DumpPrograms,
     SetRoot

(* The cache is empty at the start.                                        *)
LEMMA InitInv == Init => Inv
<1> SUFFICES ASSUME Init
             PROVE  Inv
  BY Zenon
<1> USE Numbers, NoneAssumption DEF Init
<1>1. BanksInv
  BY Zenon DEF BanksInv, InForks
<1>2. AccountsInv
  BY Zenon DEF AccountsInv
<1>3. CacheInv
  BY Zenon DEF CacheInv, Versions
<1>4. LoadersInv
  BY Zenon, IdleFacts DEF LoadersInv, LoaderHoldsLock, SleepersWillWake
<1>. QED
  BY Zenon, <1>1, <1>2, <1>3, <1>4 DEF Inv

(* Every step keeps the invariant.                                         *)
LEMMA NextInv ==
    ASSUME Topped, Inv, [Next]_vars
    PROVE  Inv'
<1>1. ASSUME NEW t \in Threads,
             (\E s \in Slots, keys \in SUBSET Keys : Begin(t, s, keys)) \/ Load(t) \/ Wake(t) \/ End(t)
      PROVE  Inv'
  <2>1. LoadersInv' /\ UNCHANGED <<bankVars, cacheVars>>
    BY Zenon, <1>1, BatchSteps
  <2>. QED
    BY Zenon, <2>1 DEF Inv, BanksInv, AccountsInv, CacheInv, bankVars, cacheVars, InForks
<1>2. ASSUME NEW t \in Threads, Round(t)
      PROVE  Inv'
  BY Zenon, <1>2, RoundInv
<1>3. ASSUME NEW k \in Keys, NEW e \in entries[k], Evict(k, e)
      PROVE  Inv'
  BY Zenon, <1>3, EvictInv
<1>4. ASSUME NEW s \in Slots, NEW k \in Keys \ RemoteKeys, Close(s, k)
      PROVE  Inv'
  <2>1. Modify(s, k, Tombstone(s, "closed"), Closed) /\ Tombstone(s, "closed") \in Programs /\ k \in Keys
    BY Zenon, <1>4, DeployedType DEF Close
  <2>. QED
    BY Zenon, <2>1, ModifyInv
<1>5. ASSUME NEW s \in Slots, NEW k \in Keys \ RemoteKeys, NEW code \in Codes, Deploy(s, k, code)
      PROVE  Inv'
  <2>1. Modify(s, k, Loaded(s, code), code) /\ Loaded(s, code) \in Programs /\ k \in Keys
    BY Zenon, <1>5, DeployedType DEF Deploy
  <2>. QED
    BY Zenon, <2>1, ModifyInv
<1>6. CASE BankStep
  BY Zenon, <1>6, BankStepCache, BankStepBanks, BankStepAccounts DEF Inv
<1>7. CASE UNCHANGED vars
  BY <1>7 DEF Inv, BanksInv, AccountsInv, CacheInv, LoadersInv, LoaderHoldsLock,
     SleepersWillWake, InForks, vars, bankVars, cacheVars
<1>. QED
  BY Zenon, <1>1, <1>2, <1>3, <1>4, <1>5, <1>6, <1>7 DEF Next, ThreadStep, BankStep

-----------------------------------------------------------------------------
(* The forks and what the cache holds of them, with replay alone.          *)

(* No program of the base layer, and no user of the cache but replay.      *)
Local == RemoteKeys = {} /\ LimitThreads = {}

(* The slots that are rooted, or are being rooted.                         *)
Base == IF replay.pc = "root" THEN roots \cup anc[replay.slot] ELSE roots

(* The slots of the fork of s.                                             *)
Line(s) == IF s \in Base THEN {x \in Base : x <= s} ELSE Base \cup {a \in anc[s] : a >= cacheRoot}

(* The slots that will stay.                                               *)
Live == Base \cup {s \in Forks : cacheRoot \in anc[s]}

(* The banks form a tree over the root: an ancestor of a bank is rooted,   *)
(* or it is frozen and its own ancestors are the bank's down to it.        *)
TreeInv ==
    /\ bank[root] = "frozen"
    /\ \A s \in Forks : root \in anc[s] /\ \A a \in anc[s] : a <= s
    /\ \A s \in Forks : \A a \in anc[s] : a < root => a \in roots
    /\ \A s \in Forks : \A a \in anc[s] : a >= root =>
          /\ bank[a] = "frozen" \/ a = s
          /\ \A x \in Slots : x >= root => (x \in anc[a] <=> x \in anc[s] /\ x <= a)
    /\ \A x \in roots : x <= root

(* Replay works on the banks alone: while it roots or dumps, no batch      *)
(* runs, and what was dumped or never used leaves no account behind.       *)
ReplayInv ==
    /\ IF replay.pc = "root"
       THEN bank[replay.slot] = "frozen" /\ root \in anc[replay.slot] /\ cacheRoot = replay.slot
       ELSE cacheRoot = root
    /\ replay.pc \in {"idle", "root"} => replay.todo = {}
    /\ \A s \in replay.todo : bank[s] = "dumped"
    /\ replay.pc # "idle" => \A t \in Threads : thr[t].pc = "idle"
    /\ \A s \in Slots : bank[s] \in {"unused", "dumped"} =>
          /\ s \notin roots
          /\ (s \notin replay.todo \/ replay.pc = "prune") => \A k \in Keys : accts[k][s] = None

(* An entry tells what its slot's account says, or that the program was    *)
(* closed on the fork of its slot.                                         *)
EntryOK(k, e) ==
    \/ /\ e.kind \in {"loaded", "unloaded"} /\ e.eff = e.dep + 1
       /\ accts[k][e.dep] # None /\ accts[k][e.dep] # Closed
       /\ e.kind = "loaded" => e.code = accts[k][e.dep]
    \/ /\ e.kind = "closed" /\ e.eff = e.dep /\ e.code = 0
       /\ \E c \in Line(e.dep) : accts[k][c] = Closed

(* A version that was deployed is in the cache, or a later rooted one is.  *)
Covered(es, x) ==
    \/ \E e \in es : e.dep = x
    \/ x \in Base /\ \E e \in es : e.dep \in Base /\ e.dep > x

(* The entries of a program tell the truth of the slots that will stay,    *)
(* and miss none of their deployments.                                     *)
Held(k, es) ==
    /\ \A e \in es : (e.dep \in Live /\ EntryOK(k, e)) \/ e.dep \in replay.todo
    /\ \A x \in Live : x > 0 /\ accts[k][x] # None => Covered(es, x)

(* A closed program is not deployed again.                                 *)
ClosedLast(k) ==
    \A s \in Live : \A c, x \in Line(s) : accts[k][c] = Closed /\ accts[k][x] # None => x <= c

(* All programs.                                                           *)
EntriesInv == \A k \in Keys : Held(k, entries[k]) /\ ClosedLast(k)

(* A batch runs on an open bank and has been given the programs of its     *)
(* fork.                                                                   *)
BatchOK(t) ==
    IF thr[t].pc = "idle" THEN thr[t] = IdleThread
    ELSE /\ bank[thr[t].slot] = "open" /\ thr[t].slot > 0 /\ thr[t].anc = anc[thr[t].slot]
         /\ \A k \in Keys : thr[t].got[k] # None => thr[t].got[k] = ForkProgram(t, k)
         /\ thr[t].missing \cap thr[t].done = {}
         /\ thr[t].pc = "lock" /\ thr[t].task # None => thr[t].loaded = LoadProgram(t, thr[t].task)

ForkInv == TreeInv /\ ReplayInv /\ EntriesInv /\ \A t \in Threads : BatchOK(t)

-----------------------------------------------------------------------------
(* Lines.                                                                  *)

(* The rooted slots end at the root of the cache.                          *)
LEMMA BaseFacts ==
    ASSUME BanksInv, TreeInv, ReplayInv
    PROVE  /\ root \in Slots /\ cacheRoot \in Slots /\ root <= cacheRoot /\ cacheRoot \in Forks
           /\ roots \subseteq Base /\ Base \subseteq Slots /\ cacheRoot \in Base
           /\ \A x \in Base : x <= cacheRoot
           /\ \A x \in Base : x \in roots \/ (x \in Forks /\ root <= x)
<1> USE Numbers
<1>1. root \in Slots /\ roots \subseteq Slots /\ replay.slot \in Slots /\ cacheRoot \in Slots
      /\ \A s \in Slots : anc[s] \subseteq Slots
  BY Zenon DEF BanksInv
<1>2. CASE replay.pc = "root"
  <2>1. /\ bank[replay.slot] = "frozen" /\ root \in anc[replay.slot] /\ cacheRoot = replay.slot
        /\ replay.slot \in anc[replay.slot] /\ Base = roots \cup anc[replay.slot] /\ replay.slot \in Forks
    BY Zenon, <1>1, <1>2 DEF ReplayInv, BanksInv, Base, Forks, InForks
  <2>2. \A x \in anc[replay.slot] : x <= replay.slot /\ (x < root => x \in roots)
           /\ (x >= root => x \in Forks)
    BY Zenon, <1>1, <2>1 DEF TreeInv, Forks, InForks
  <2>. QED
    BY <1>1, <2>1, <2>2 DEF TreeInv, BanksInv
<1>3. CASE replay.pc # "root"
  BY <1>1, <1>3 DEF ReplayInv, BanksInv, Base, Forks, InForks, TreeInv
<1>. QED
  BY Zenon, <1>2, <1>3

(* The slots that will stay are those of banks, and none of them is being  *)
(* dumped.                                                                 *)
LEMMA LiveFacts ==
    ASSUME BanksInv, TreeInv, ReplayInv
    PROVE  /\ Live \subseteq Slots /\ cacheRoot \in Live
           /\ \A s \in Live : s <= cacheRoot => s \in Base
           /\ \A s \in Live : bank[s] \notin {"unused", "dumped"}
           /\ \A s \in Live : s \notin replay.todo
<1>1. /\ root \in Slots /\ cacheRoot \in Slots /\ root <= cacheRoot
      /\ roots \subseteq Base /\ Base \subseteq Slots /\ cacheRoot \in Base
      /\ \A x \in Base : x <= cacheRoot
      /\ \A x \in Base : x \in roots \/ (x \in Forks /\ root <= x)
  BY Zenon, BaseFacts
<1>2. Live \subseteq Slots /\ cacheRoot \in Live
  BY Zenon, <1>1 DEF Live, Forks
<1>3. ASSUME NEW s \in Live, s <= cacheRoot
      PROVE  s \in Base
  <2>1. CASE s \notin Base
    <3>1. s \in Forks /\ cacheRoot \in anc[s]
      BY Zenon, <1>3, <2>1 DEF Live
    <3>2. cacheRoot <= s
      BY Zenon, <3>1 DEF TreeInv
    <3>3. s = cacheRoot
      BY <1>1, <1>2, <1>3, <3>2, Numbers
    <3>. QED
      BY Zenon, <1>1, <3>3
  <2>. QED
    BY Zenon, <2>1
<1>4. \A s \in Live : bank[s] \notin {"unused", "dumped"}
  BY Zenon, <1>1 DEF Live, Forks, InForks, ReplayInv
<1>. QED
  BY Zenon, <1>2, <1>3, <1>4 DEF ReplayInv

(* The line of a slot that will stay has only such slots, and the line of  *)
(* each.                                                                   *)
LEMMA LineFacts ==
    ASSUME BanksInv, TreeInv, ReplayInv, NEW s \in Live
    PROVE  /\ s \in Line(s) /\ Line(s) \subseteq Live
           /\ \A x \in Line(s) : x <= s /\ Line(x) \subseteq Line(s)
<1>1. /\ root \in Nat /\ cacheRoot \in Nat /\ root <= cacheRoot /\ s \in Slots /\ s \in Nat
      /\ \A x \in Base : x \in Nat /\ x <= cacheRoot
      /\ \A x \in Slots : x \in Nat
  BY Zenon, BaseFacts, LiveFacts, Numbers
<1>2. CASE s \in Base
  <2>1. Line(s) = {x \in Base : x <= s}
    BY Zenon, <1>2 DEF Line
  <2>2. \A x \in Line(s) : Line(x) \subseteq Line(s)
    BY <1>1, <2>1 DEF Line
  <2>. QED
    BY <1>1, <1>2, <2>1, <2>2 DEF Live
<1>3. CASE s \notin Base
  <2>1. s \in Forks /\ cacheRoot \in anc[s] /\ s \in anc[s] /\ anc[s] \subseteq Slots /\ cacheRoot \in Slots
    BY Zenon, <1>3 DEF Live, Forks, BanksInv
  <2>2. cacheRoot <= s /\ \A a \in anc[s] : a <= s
    BY Zenon, <2>1 DEF TreeInv
  <2>3. Line(s) = Base \cup {a \in anc[s] : a >= cacheRoot}
    BY Zenon, <1>3 DEF Line
  <2>4. ASSUME NEW a \in anc[s], a >= cacheRoot
        PROVE  /\ a \in Forks /\ cacheRoot \in anc[a]
               /\ \A x \in anc[a] : x >= cacheRoot => x \in anc[s]
    <3>1. a \in Slots /\ a \in Nat
      BY Zenon, <1>1, <2>1
    <3>2. a >= root
      BY <1>1, <2>4, <3>1
    <3>3. /\ bank[a] = "frozen" \/ a = s
          /\ \A x \in Slots : x >= root => (x \in anc[a] <=> x \in anc[s] /\ x <= a)
      <4>1. \A b \in anc[s] : b >= root =>
               /\ bank[b] = "frozen" \/ b = s
               /\ \A x \in Slots : x >= root => (x \in anc[b] <=> x \in anc[s] /\ x <= b)
        BY <2>1, Zenon DEF TreeInv
      <4>. QED
        BY <3>2, <4>1, Zenon
    <3>4. a \in Forks /\ anc[a] \subseteq Slots
      <4>1. bank[a] = "frozen" \/ a \in Forks
        BY Zenon, <2>1, <3>3
      <4>2. a \in Forks
        BY Zenon, <3>1, <4>1 DEF Forks, InForks
      <4>. QED
        BY Zenon, <3>1, <4>2 DEF BanksInv
    <3>5. cacheRoot \in anc[a]
      <4>1. cacheRoot >= root /\ cacheRoot <= a
        BY Zenon, <1>1, <2>4, <3>1
      <4>. QED
        BY <2>1, <3>3, <4>1, Zenon
    <3>6. \A x \in anc[a] : x >= cacheRoot => x >= root
      <4> SUFFICES ASSUME NEW x \in anc[a], x >= cacheRoot
                   PROVE  x >= root
        BY Zenon
      <4>1. x \in Nat /\ root \in Nat /\ cacheRoot \in Nat /\ root <= cacheRoot
        BY Zenon, <1>1, <3>4
      <4>. QED
        BY <4>1
    <3>. QED
      BY Zenon, <3>3, <3>4, <3>5, <3>6
  <2>5. Line(s) \subseteq Live /\ s \in Line(s)
    BY Zenon, <1>1, <2>1, <2>2, <2>3, <2>4 DEF Live
  <2>6. \A x \in Line(s) : x <= s
    BY <1>1, <2>1, <2>2, <2>3
  <2>7. \A x \in Line(s) : Line(x) \subseteq Line(s)
    <3> SUFFICES ASSUME NEW x \in Line(s)
                 PROVE  Line(x) \subseteq Line(s)
      BY Zenon
    <3>1. CASE x \in Base
      BY Zenon, <2>3, <3>1 DEF Line
    <3>2. CASE x \notin Base
      BY Zenon, <2>3, <2>4, <3>2 DEF Line
    <3>. QED
      BY Zenon, <3>1, <3>2
  <2>. QED
    BY Zenon, <2>5, <2>6, <2>7
<1>. QED
  BY Zenon, <1>2, <1>3

(* While no root is being set, a bank's line is what it reads: its own     *)
(* ancestors and the rooted slots.                                         *)
LEMMA ForkLine ==
    ASSUME BanksInv, TreeInv, ReplayInv, replay.pc # "root", NEW s \in Forks
    PROVE  s \in Live /\ Line(s) = anc[s] \cup roots
<1>1. cacheRoot = root /\ Base = roots
  BY Zenon DEF ReplayInv, Base
<1>2. /\ root \in anc[s] /\ s \in anc[s] /\ s \in Nat /\ root \in Nat /\ root \in roots
      /\ \A a \in anc[s] : a \in Nat /\ a <= s /\ (a < root => a \in roots)
      /\ \A x \in roots : x \in Nat /\ x <= root
  BY Zenon, Numbers DEF TreeInv, BanksInv, Forks
<1>3. s \in Live
  BY Zenon, <1>1, <1>2 DEF Live
<1>4. CASE s \in roots
  <2>1. s = root
    BY <1>2, <1>4
  <2>2. \A a \in anc[s] : a \in roots
    BY <1>2, <2>1
  <2>3. Line(s) = {x \in roots : x <= root}
    BY Zenon, <1>1, <1>4, <2>1 DEF Line
  <2>. QED
    BY Zenon, <1>2, <1>3, <2>2, <2>3
<1>5. CASE s \notin roots
  <2>1. Line(s) = roots \cup {a \in anc[s] : a >= root}
    BY Zenon, <1>1, <1>5 DEF Line
  <2>2. \A a \in anc[s] : a < root \/ a >= root
    BY <1>2
  <2>. QED
    BY Zenon, <1>2, <1>3, <2>1, <2>2
<1>. QED
  BY Zenon, <1>4, <1>5

-----------------------------------------------------------------------------
(* The entries of one program.                                             *)

(* Two entries of the same slot are one, and a later slot makes a later    *)
(* entry.                                                                  *)
LEMMA EntryOrder ==
    ASSUME BanksInv, TreeInv, ReplayInv, NEW k \in Keys, ClosedLast(k), NEW es, Versions(es),
           NEW e \in es, NEW f \in es, e.dep \in Live, f.dep \in Live, EntryOK(k, e), EntryOK(k, f)
    PROVE  /\ e.dep = f.dep => e = f
           /\ e.dep > f.dep => Later(e, f)
           /\ Later(e, f) => ~Later(f, e)
<1>1. e.dep \in Nat /\ f.dep \in Nat /\ e.eff \in Nat /\ f.eff \in Nat
  BY Zenon DEF Versions, Programs
<1>2. ASSUME NEW a \in {e, f}, NEW b \in {e, f}, a.dep = b.dep, a.kind # "closed", b.kind = "closed"
      PROVE  FALSE
  <2>1. a.dep \in Live /\ EntryOK(k, a) /\ EntryOK(k, b) /\ a.dep \in Nat
    BY Zenon, <1>1
  <2>2. accts[k][a.dep] # None /\ accts[k][a.dep] # Closed
    BY Zenon, <1>2, <2>1 DEF EntryOK
  <2>3. PICK c \in Line(a.dep) : accts[k][c] = Closed
    BY Zenon, <1>2, <2>1 DEF EntryOK
  <2>4. a.dep \in Line(a.dep) /\ c <= a.dep /\ c \in Nat
    BY Zenon, <2>1, <2>3, LineFacts, LiveFacts, Numbers
  <2>5. a.dep <= c
    BY Zenon, <2>1, <2>2, <2>3, <2>4 DEF ClosedLast
  <2>6. a.dep = c
    BY <2>1, <2>4, <2>5
  <2>. QED
    BY Zenon, <2>2, <2>3, <2>6
<1>3. /\ e.eff = IF e.kind = "closed" THEN e.dep ELSE e.dep + 1
      /\ f.eff = IF f.kind = "closed" THEN f.dep ELSE f.dep + 1
  BY Zenon DEF EntryOK
<1>4. ASSUME e.dep = f.dep
      PROVE  e = f
  <2>1. e.kind = "closed" <=> f.kind = "closed"
    BY Zenon, <1>2, <1>4
  <2>2. e.eff = f.eff
    BY <1>3, <1>4, <2>1
  <2>. QED
    BY Zenon, <1>4, <2>2 DEF Versions, SameVersion
<1>5. e.dep > f.dep => Later(e, f)
  BY <1>1, <1>3 DEF Later
<1>6. Later(e, f) => ~Later(f, e)
  BY <1>1 DEF Later
<1>. QED
  BY Zenon, <1>4, <1>5, <1>6

(* Entries of slots that will stay.                                        *)
Entries(k, es) == \A e \in es : e.dep \in Live /\ EntryOK(k, e)

(* Some entries have a latest one, which is of the latest slot.            *)
LEMMA LatestEntry ==
    ASSUME Topped, BanksInv, TreeInv, ReplayInv, NEW k \in Keys, ClosedLast(k), NEW es, Versions(es),
           Entries(k, es), es # {}
    PROVE  /\ Latest(es) \in es
           /\ \A f \in es : Latest(es).dep >= f.dep
           /\ \A f \in es \ {Latest(es)} : Later(Latest(es), f)
<1> DEFINE deps == {e.dep : e \in es}
<1>1. deps \in SUBSET Slots /\ deps # {}
  BY Zenon, LiveFacts DEF Entries
<1>2. PICK e \in es : \A x \in deps : e.dep >= x
  BY Zenon, <1>1 DEF Topped
<1>3. \A f \in es : f.dep \in Nat /\ f.dep \in Live /\ EntryOK(k, f) /\ e.dep >= f.dep
  BY Zenon, <1>2 DEF Versions, Programs, Entries
<1>4. ASSUME NEW f \in es \ {e}
      PROVE  Later(e, f)
  <2>1. e.dep # f.dep
    BY Zenon, <1>3, <1>4, EntryOrder
  <2>2. e.dep > f.dep
    BY <1>3, <1>4, <2>1
  <2>. QED
    BY Zenon, <1>3, <1>4, <2>2, EntryOrder
<1>5. Latest(es) \in es /\ \A f \in es \ {Latest(es)} : Later(Latest(es), f)
  BY Zenon, <1>4 DEF Latest
<1>6. Latest(es) = e
  BY Zenon, <1>3, <1>4, <1>5, EntryOrder
<1>. QED
  BY Zenon, <1>3, <1>5, <1>6

-----------------------------------------------------------------------------
(* What a batch finds.                                                     *)

(* extract considers the entries of the slots of the batch's fork.         *)
LEMMA Found ==
    ASSUME BanksInv, TreeInv, ReplayInv, replay.pc = "idle", NEW k \in Keys, NEW es, Versions(es),
           Held(k, es), NEW s \in Forks
    PROVE  Candidates(es, s) = {e \in es : e.dep \in Line(s)} /\ Entries(k, es)
<1>1. Line(s) = anc[s] \cup roots /\ s \in Live
  BY Zenon, ForkLine
<1>2. /\ s \in Slots /\ s \in Nat /\ root \in Nat /\ cacheRoot = root /\ root \in anc[s] /\ s \in anc[s] /\ InForks(s)
      /\ \A a \in anc[s] : a \in Nat /\ a <= s /\ (a < root => a \in roots)
      /\ \A x \in roots : x \in Nat /\ x <= root
  BY Zenon, Numbers DEF BanksInv, TreeInv, ReplayInv, Forks
<1>3. Entries(k, es)
  BY Zenon DEF Held, Entries, ReplayInv
<1>4. ASSUME NEW e \in es
      PROVE  e \in Candidates(es, s) <=> e.dep \in Line(s)
  <2>1. e.dep \in Nat /\ e.dep \in Live /\ e.eff \in {e.dep, e.dep + 1}
    BY Zenon, <1>3 DEF Versions, Programs, Entries, EntryOK
  <2>2. ASSUME e \in Candidates(es, s)
        PROVE  e.dep \in Line(s)
    <3>1. e.dep <= root \/ OnForkOf(e.dep, s)
      BY Zenon, <1>2, <2>2 DEF Candidates, Visible
    <3>2. CASE e.dep <= root
      <4>1. e.dep \in Base
        BY Zenon, <1>2, <2>1, <3>2, LiveFacts
      <4>. QED
        BY Zenon, <1>1, <4>1 DEF Base
    <3>3. CASE OnForkOf(e.dep, s)
      BY Zenon, <1>1, <1>2, <3>3 DEF OnForkOf
    <3>. QED
      BY Zenon, <3>1, <3>2, <3>3
  <2>3. ASSUME e.dep \in Line(s)
        PROVE  e \in Candidates(es, s)
    <3>1. e.dep <= s
      BY Zenon, <1>1, <2>3, LineFacts
    <3>2. e.dep <= cacheRoot \/ OnForkOf(e.dep, s)
      <4>1. CASE e.dep \in roots
        BY Zenon, <1>2, <4>1
      <4>2. CASE e.dep \in anc[s] /\ e.dep \notin roots
        <5>1. root <= e.dep /\ root <= s
          BY <1>2, <2>1, <4>2
        <5>2. Known(e.dep) /\ Known(s)
          BY Zenon, <1>2, <3>1, <5>1 DEF Known
        <5>. QED
          BY Zenon, <1>2, <4>2, <5>2 DEF OnForkOf
      <4>. QED
        BY Zenon, <1>1, <2>3, <4>1, <4>2
    <3>3. s >= e.eff \/ (e.eff = e.dep + 1 /\ s >= e.dep)
      BY Zenon, <1>2, <2>1, <3>1
    <3>. QED
      BY Zenon, <3>2, <3>3 DEF Candidates, Visible
  <2>. QED
    BY Zenon, <2>2, <2>3
<1>5. Candidates(es, s) \subseteq es
  BY Zenon DEF Candidates, Visible
<1>. QED
  BY Zenon, <1>3, <1>4, <1>5

-----------------------------------------------------------------------------
(* What a batch of a bank s should find and load of a program.             *)
Version(k, s) == Max(WrittenIn(k, anc[s]))

Program(k, s) ==
    IF accts[k][Version(k, s)] = Closed THEN [kind |-> "closed", code |-> 0]
    ELSE IF Version(k, s) = s THEN [kind |-> "delayed", code |-> 0]
    ELSE [kind |-> "loaded", code |-> accts[k][Version(k, s)]]

Loading(k, s) ==
    IF accts[k][Version(k, s)] = Closed THEN Tombstone(s, "closed")
    ELSE Loaded(Version(k, s), accts[k][Version(k, s)])

(* The last version on the line of a bank; nothing follows a closing.      *)
LEMMA VersionFacts ==
    ASSUME Topped, Local, BanksInv, AccountsInv, TreeInv, ReplayInv, replay.pc # "root",
           NEW k \in Keys, ClosedLast(k), NEW s \in Forks
    PROVE  /\ Version(k, s) \in Line(s) /\ accts[k][Version(k, s)] # None
           /\ Version(k, s) \in Live /\ Version(k, s) \in Nat /\ Version(k, s) <= s
           /\ \A x \in Line(s) : accts[k][x] # None => x <= Version(k, s)
           /\ \A x \in Line(s) : accts[k][x] = Closed => x = Version(k, s)
<1> DEFINE m == Version(k, s)
<1>1. Line(s) = anc[s] \cup roots /\ s \in Live /\ s \in Slots /\ anc[s] \in SUBSET Slots /\ Line(s) \subseteq Slots
  BY Zenon, ForkLine, LineFacts, LiveFacts DEF Forks, BanksInv
<1>2. WrittenIn(k, anc[s]) = {x \in Line(s) : accts[k][x] # None}
  BY Zenon, <1>1 DEF WrittenIn
<1>3. m \in WrittenIn(k, anc[s]) /\ \A x \in WrittenIn(k, anc[s]) : m >= x
  BY Zenon, <1>1, Written DEF Local, Version
<1> HIDE DEF m
<1>4. m \in Line(s) /\ accts[k][m] # None /\ m \in Nat /\ m \in Live /\ m <= s
  BY Zenon, <1>1, <1>2, <1>3, LineFacts, Numbers
<1>5. \A x \in Line(s) : x \in Nat /\ (accts[k][x] # None => x <= m)
  BY Zenon, <1>1, <1>2, <1>3, <1>4, Numbers
<1>6. \A x \in Line(s) : accts[k][x] = Closed => m <= x
  BY Zenon, <1>1, <1>4 DEF ClosedLast
<1>7. \A x \in Line(s) : accts[k][x] = Closed => x = m
  BY <1>4, <1>5, <1>6, NoneAssumption
<1>. QED
  BY Zenon, <1>4, <1>5, <1>7 DEF m

(* The latest entry of a fork is of its last deployment, or says that the  *)
(* program is closed.                                                      *)
LEMMA LatestFound ==
    ASSUME Topped, Local, BanksInv, AccountsInv, TreeInv, ReplayInv, replay.pc = "idle",
           NEW k \in Keys, ClosedLast(k), NEW es, Versions(es), Held(k, es), NEW s \in Forks,
           Candidates(es, s) # {}, NEW e, e = Latest(Candidates(es, s))
    PROVE  /\ e \in es /\ e.dep \in Nat /\ e.dep <= s
           /\ \/ /\ e.kind = "closed" /\ e.eff = e.dep /\ e.code = 0 /\ accts[k][Version(k, s)] = Closed
              \/ /\ e.kind \in {"loaded", "unloaded"} /\ e.eff = e.dep + 1 /\ e.dep = Version(k, s)
                 /\ accts[k][e.dep] # Closed
                 /\ e.kind = "loaded" => e.code = accts[k][e.dep]
<1> DEFINE C == Candidates(es, s)
           m == Version(k, s)
<1>1. C = {f \in es : f.dep \in Line(s)} /\ Entries(k, es)
  BY Zenon, Found
<1>2. Versions(C) /\ Entries(k, C) /\ C # {}
  BY Zenon, <1>1 DEF Versions, Entries
<1>3. e \in C /\ \A f \in C : e.dep >= f.dep
  <2> HIDE DEF C
  <2>1. e = Latest(C)
    BY Zenon DEF C
  <2>. QED
    BY Zenon, <1>2, <2>1, LatestEntry
<1>4. /\ m \in Line(s) /\ accts[k][m] # None /\ m \in Live /\ m \in Nat
      /\ \A x \in Line(s) : accts[k][x] # None => x <= m
      /\ \A x \in Line(s) : accts[k][x] = Closed => x = m
  BY Zenon, VersionFacts
<1> HIDE DEF C, m
<1>5. e \in es /\ e.dep \in Nat /\ e.dep \in Line(s) /\ e.dep \in Live /\ EntryOK(k, e)
  BY Zenon, <1>1, <1>3 DEF Versions, Programs, Entries
<1>6. s \in Live /\ Line(s) = anc[s] \cup roots /\ Base = roots
  BY Zenon, ForkLine DEF Base
<1>7. e.dep <= s /\ Line(e.dep) \subseteq Line(s)
  BY Zenon, <1>5, <1>6, LineFacts
<1>8. CASE e.kind = "closed"
  <2>1. PICK c \in Line(e.dep) : accts[k][c] = Closed
    BY Zenon, <1>5, <1>8 DEF EntryOK
  <2>2. accts[k][m] = Closed
    BY Zenon, <1>4, <1>7, <2>1
  <2>. QED
    BY Zenon, <1>5, <1>7, <1>8, <2>2 DEF EntryOK, m
<1>9. CASE e.kind # "closed"
  <2>1. /\ e.kind \in {"loaded", "unloaded"} /\ e.eff = e.dep + 1
        /\ accts[k][e.dep] # None /\ accts[k][e.dep] # Closed
        /\ e.kind = "loaded" => e.code = accts[k][e.dep]
    BY Zenon, <1>5, <1>9 DEF EntryOK
  <2>2. e.dep <= m
    BY Zenon, <1>4, <1>5, <2>1
  <2>3. ~(e.dep < m)
    <3> SUFFICES ASSUME e.dep < m
                 PROVE  FALSE
      BY Zenon
    <3>1. Covered(es, m)
      BY <1>4, <1>5 DEF Held
    <3>2. PICK f \in es : f.dep \in Line(s) /\ f.dep \in Nat /\ f.dep >= m
      <4>1. CASE \E f \in es : f.dep = m
        BY Zenon, <1>4, <4>1
      <4>2. CASE \E f \in es : f.dep \in Base /\ f.dep > m
        BY <1>4, <1>6, <4>2 DEF Versions, Programs
      <4>. QED
        BY Zenon, <3>1, <4>1, <4>2 DEF Covered
    <3>3. e.dep >= f.dep
      BY Zenon, <1>1, <1>3, <3>2
    <3>. QED
      BY <1>4, <1>5, <3>2, <3>3
  <2>4. e.dep = m
    BY <1>4, <1>5, <2>2, <2>3
  <2>. QED
    BY Zenon, <1>5, <1>7, <2>1, <2>4 DEF m
<1>. QED
  BY Zenon, <1>8, <1>9

(* extract answers with the fork's program, or not at all.                 *)
LEMMA ExtractFacts ==
    ASSUME Topped, Local, BanksInv, AccountsInv, TreeInv, ReplayInv, replay.pc = "idle",
           NEW k \in Keys, ClosedLast(k), NEW es, Versions(es), Held(k, es), NEW s \in Forks
    PROVE  /\ Extract(es, s) # None => Extract(es, s) = Program(k, s)
           /\ (\E f \in es : SameVersion(Loading(k, s), f) /\ f.kind = Loading(k, s).kind) => Extract(es, s) # None
<1> DEFINE e == Latest(Candidates(es, s))
           m == Version(k, s)
<1>0. s \in Nat /\ m \in Nat /\ accts[k][m] # None /\ m \in Line(s) /\ s \in Line(s)
  BY Zenon, VersionFacts, ForkLine, LineFacts, Numbers DEF Forks
<1>1. CASE Candidates(es, s) = {}
  <2>1. \A f \in es : f.dep \notin Line(s)
    BY <1>1, Found
  <2>2. Loading(k, s).dep \in Line(s)
    BY Zenon, <1>0 DEF Loading, Loaded, Tombstone
  <2>. QED
    BY Zenon, <1>1, <2>1, <2>2 DEF Extract, SameVersion
<1>2. CASE Candidates(es, s) # {}
  <2>1. /\ e \in es /\ e.dep \in Nat /\ e.dep <= s
        /\ \/ /\ e.kind = "closed" /\ e.eff = e.dep /\ e.code = 0 /\ accts[k][m] = Closed
           \/ /\ e.kind \in {"loaded", "unloaded"} /\ e.eff = e.dep + 1 /\ e.dep = m
              /\ accts[k][e.dep] # Closed
              /\ e.kind = "loaded" => e.code = accts[k][e.dep]
    BY Zenon, <1>2, LatestFound
  <2>2. Extract(es, s) = IF s < e.eff THEN [kind |-> "delayed", code |-> 0]
                         ELSE IF e.kind = "unloaded" THEN None
                         ELSE [kind |-> e.kind, code |-> e.code]
    BY Zenon, <1>2 DEF Extract
  <2>3. Program(k, s) = IF accts[k][m] = Closed THEN [kind |-> "closed", code |-> 0]
                        ELSE IF m = s THEN [kind |-> "delayed", code |-> 0]
                        ELSE [kind |-> "loaded", code |-> accts[k][m]]
    BY Zenon DEF Program
  <2> HIDE DEF e, m
  <2>4. CASE /\ e.kind = "closed" /\ e.eff = e.dep /\ e.code = 0 /\ accts[k][m] = Closed
    <3>1. ~(s < e.eff)
      BY <1>0, <2>1, <2>4
    <3>2. Extract(es, s) = [kind |-> "closed", code |-> 0]
      BY Zenon, <2>2, <2>4, <3>1
    <3>. QED
      BY Zenon, <2>3, <2>4, <3>2, NoneAssumption
  <2>5. CASE /\ e.kind \in {"loaded", "unloaded"} /\ e.eff = e.dep + 1 /\ e.dep = m
             /\ accts[k][e.dep] # Closed
             /\ e.kind = "loaded" => e.code = accts[k][e.dep]
    <3>1. s < e.eff <=> m = s
      BY <1>0, <2>1, <2>5
    <3>2. Extract(es, s) # None => Extract(es, s) = Program(k, s)
      BY Zenon, <2>2, <2>3, <2>5, <3>1
    <3>3. Loading(k, s) = Loaded(m, accts[k][m])
      BY Zenon, <2>5 DEF Loading, m
    <3>4. ASSUME NEW f \in es, SameVersion(Loading(k, s), f), f.kind = Loading(k, s).kind
          PROVE  Extract(es, s) # None
      <4>1. f.dep = e.dep /\ f.eff = e.eff /\ f.kind = "loaded"
        BY <2>5, <3>3, <3>4 DEF Loaded, SameVersion
      <4>2. e.kind = "loaded"
        BY Zenon, <2>1, <4>1 DEF Versions, SameVersion
      <4>3. [kind |-> "delayed", code |-> 0] # None
        BY Zenon, NoneAssumption
      <4>4. e.code \in Codes \cup {0}
        <5>1. accts[k][m] \in Codes \cup {0, None, Closed}
          <6>1. m \in Slots
            BY Zenon, <1>0, ForkLine, LineFacts, LiveFacts
          <6>. QED
            BY Zenon, <6>1 DEF AccountsInv
        <5>. QED
          BY Zenon, <1>0, <2>5, <4>2, <5>1
      <4>5. [kind |-> "loaded", code |-> e.code] # None
        BY Zenon, <4>4, NoneAssumption
      <4>. QED
        BY Zenon, <2>2, <4>2, <4>3, <4>5
    <3>. QED
      BY Zenon, <3>2, <3>4
  <2>. QED
    BY Zenon, <2>1, <2>4, <2>5
<1>. QED
  BY Zenon, <1>1, <1>2

-----------------------------------------------------------------------------
(* The steps of the batches.                                               *)

(* What a batch that runs on a bank reads of the bank.                     *)
LEMMA ActiveBatch ==
    ASSUME Local, Inv, ForkInv, NEW t \in Threads, thr[t].pc # "idle"
    PROVE  /\ replay.pc = "idle" /\ bank[thr[t].slot] = "open" /\ thr[t].slot \in Forks
           /\ thr[t].anc = anc[thr[t].slot] /\ thr[t].slot \in Slots
           /\ \A k \in Keys : /\ ForkProgram(t, k) = Program(k, thr[t].slot)
                              /\ LoadProgram(t, k) = Loading(k, thr[t].slot)
<1>1. replay.pc = "idle"
  BY Zenon DEF ForkInv, ReplayInv
<1>2. bank[thr[t].slot] = "open" /\ thr[t].anc = anc[thr[t].slot] /\ thr[t].slot \in Slots
  BY Zenon DEF ForkInv, BatchOK, Inv, LoadersInv, ThreadOK
<1>3. thr[t].slot \in Forks
  BY Zenon, <1>2 DEF Forks, InForks
<1>4. \A k \in Keys : /\ ForkProgram(t, k) = Program(k, thr[t].slot)
                      /\ LoadProgram(t, k) = Loading(k, thr[t].slot)
  BY Zenon, <1>2 DEF Local, ForkProgram, LoadProgram, Program, Loading, Version
<1>. QED
  BY Zenon, <1>1, <1>2, <1>3, <1>4

(* An entry that belongs to the cache can be put into it.                  *)
LEMMA HeldAssign ==
    ASSUME NEW k \in Keys, NEW es, Versions(es), Held(k, es), NEW e \in Programs,
           e.dep \in Live, EntryOK(k, e)
    PROVE  Held(k, Assign(es, e)) /\ Versions(Assign(es, e))
<1>1. /\ Versions(Assign(es, e))
      /\ \A f \in Assign(es, e) : f \in es \/ f = e
      /\ \A f \in es : \E g \in Assign(es, e) : SameVersion(f, g)
  BY Zenon, AssignFacts
<1>2. \A f \in es : \E g \in Assign(es, e) : g.dep = f.dep
  BY Zenon, <1>1 DEF SameVersion
<1>3. \A x : Covered(es, x) => Covered(Assign(es, e), x)
  BY Zenon, <1>2 DEF Covered
<1>. QED
  BY Zenon, <1>1, <1>3 DEF Held

(* What load_program makes belongs to the cache.                           *)
LEMMA LoadingOK ==
    ASSUME Topped, Local, BanksInv, AccountsInv, TreeInv, ReplayInv, replay.pc = "idle",
           NEW k \in Keys, ClosedLast(k), NEW s \in Forks
    PROVE  Loading(k, s).dep \in Live /\ EntryOK(k, Loading(k, s))
<1> DEFINE m == Version(k, s)
<1>1. m \in Line(s) /\ accts[k][m] # None /\ m \in Live /\ s \in Live
  BY Zenon, VersionFacts, ForkLine
<1> HIDE DEF m
<1>2. CASE accts[k][m] = Closed
  <2>1. Loading(k, s) = [dep |-> s, eff |-> s, kind |-> "closed", code |-> 0]
    BY Zenon, <1>2 DEF Loading, Tombstone, m
  <2>. QED
    BY <1>1, <1>2, <2>1 DEF EntryOK
<1>3. CASE accts[k][m] # Closed
  <2>1. Loading(k, s) = [dep |-> m, eff |-> m + 1, kind |-> "loaded", code |-> accts[k][m]]
    BY Zenon, <1>3 DEF Loading, Loaded, m
  <2>. QED
    BY <1>1, <1>3, <2>1 DEF EntryOK
<1>. QED
  BY Zenon, <1>2, <1>3

(* Every program stays well-formed in a round, and the batch's own program *)
(* is found.                                                               *)
LEMMA RoundEntries ==
    ASSUME Topped, Local, Inv, ForkInv, NEW t \in Threads, thr[t].pc = "lock"
    PROVE  /\ \A k \in Keys : Versions(Filled(t)[k]) /\ Held(k, Filled(t)[k])
           /\ thr[t].task # None => Extract(Filled(t)[thr[t].task], thr[t].slot) # None
<1>1. /\ replay.pc = "idle" /\ thr[t].slot \in Forks
      /\ \A k \in Keys : LoadProgram(t, k) = Loading(k, thr[t].slot)
  BY Zenon, ActiveBatch
<1>2. /\ BanksInv /\ AccountsInv /\ TreeInv /\ ReplayInv /\ entries = [k \in Keys |-> entries[k]]
      /\ \A k \in Keys : Versions(entries[k]) /\ Held(k, entries[k]) /\ ClosedLast(k)
  BY Zenon DEF Inv, CacheInv, ForkInv, EntriesInv
<1>3. CASE thr[t].task = None
  BY Zenon, <1>2, <1>3 DEF Filled
<1>4. CASE thr[t].task # None
  <2> DEFINE k == thr[t].task
             e == Loading(k, thr[t].slot)
  <2>1. k \in Keys /\ thr[t].loaded = e /\ e \in Programs
    <3>1. k \in Keys /\ thr[t].loaded \in Programs
      BY Zenon, <1>4 DEF Inv, LoadersInv, ThreadOK
    <3>2. thr[t].loaded = LoadProgram(t, k)
      BY Zenon, <1>4 DEF ForkInv, BatchOK
    <3>. QED
      BY Zenon, <1>1, <3>1, <3>2
  <2>2. e.dep \in Live /\ EntryOK(k, e)
    BY Zenon, <1>1, <1>2, <2>1, LoadingOK
  <2>3. Filled(t) = [entries EXCEPT ![k] = Assign(entries[k], e)]
    BY Zenon, <1>4, <2>1 DEF Filled
  <2> HIDE DEF e, k
  <2>4. Held(k, Assign(entries[k], e)) /\ Versions(Assign(entries[k], e))
    BY Zenon, <1>2, <2>1, <2>2, HeldAssign
  <2>5. Filled(t)[k] = Assign(entries[k], e) /\ \A j \in Keys \ {k} : Filled(t)[j] = entries[j]
    BY Zenon, <1>2, <2>1, <2>3
  <2>6. \E f \in Assign(entries[k], e) : SameVersion(e, f) /\ f.kind = e.kind
    BY <1>2, <2>1, AssignFacts
  <2>7. Extract(Assign(entries[k], e), thr[t].slot) # None
    BY Zenon, <1>1, <1>2, <2>1, <2>4, <2>6, ExtractFacts DEF e
  <2>. QED
    BY Zenon, <1>2, <2>4, <2>5, <2>7 DEF k
<1>. QED
  BY Zenon, <1>3, <1>4

(* What a batch has been given after a round is its fork's.                *)
LEMMA RoundBatch ==
    ASSUME Topped, Local, Inv, ForkInv, NEW t \in Threads, thr[t].pc = "lock", NEW pc, NEW task,
           NEW th, th = Turned(t, pc, task)
    PROVE  /\ th.slot = thr[t].slot /\ th.anc = thr[t].anc /\ th.missing \cap th.done = {}
           /\ \A k \in Keys : th.got[k] # None => th.got[k] = ForkProgram(t, k)
<1>1. th.slot = thr[t].slot /\ th.anc = thr[t].anc /\ th.missing = Missing(t) /\ th.got = Extracted(t)
      /\ th.done = Done(t)
  BY Zenon DEF Turned, Batch
<1>2. Missing(t) \subseteq thr[t].missing /\ thr[t].missing \cap thr[t].done = {}
  BY Zenon DEF Missing, ForkInv, BatchOK
<1>3. /\ \A k \in Keys : Versions(Filled(t)[k]) /\ Held(k, Filled(t)[k])
      /\ thr[t].task # None => Extract(Filled(t)[thr[t].task], thr[t].slot) # None
  BY Zenon, RoundEntries
<1>4. Missing(t) \cap Done(t) = {}
  BY Zenon, <1>2, <1>3 DEF Done, Missing
<1>5. ASSUME NEW k \in Keys, Extracted(t)[k] # None
      PROVE  Extracted(t)[k] = ForkProgram(t, k)
  <2>1. CASE k \in thr[t].missing \ Missing(t)
    <3>1. Extracted(t)[k] = Extract(Filled(t)[k], thr[t].slot)
      BY Zenon, <2>1 DEF Extracted
    <3>2. replay.pc = "idle" /\ thr[t].slot \in Forks /\ ForkProgram(t, k) = Program(k, thr[t].slot)
      BY Zenon, ActiveBatch
    <3>3. BanksInv /\ AccountsInv /\ TreeInv /\ ReplayInv /\ ClosedLast(k)
      BY Zenon DEF Inv, ForkInv, EntriesInv
    <3>4. Extract(Filled(t)[k], thr[t].slot) # None
      BY Zenon, <1>5, <3>1
    <3>5. Extract(Filled(t)[k], thr[t].slot) = Program(k, thr[t].slot)
      BY Zenon, <1>3, <3>2, <3>3, <3>4, ExtractFacts
    <3>. QED
      BY Zenon, <3>1, <3>2, <3>5
  <2>2. CASE k \notin thr[t].missing \ Missing(t)
    <3>1. Extracted(t)[k] = thr[t].got[k]
      BY Zenon, <2>2 DEF Extracted
    <3>. QED
      BY Zenon, <1>5, <3>1 DEF ForkInv, BatchOK
  <2>. QED
    BY Zenon, <2>1, <2>2
<1>. QED
  BY Zenon, <1>1, <1>4, <1>5

-----------------------------------------------------------------------------
(* A step that leaves the banks leaves the forks.                          *)
LEMMA SameForks ==
    ASSUME bank' = bank, anc' = anc, root' = root, roots' = roots, accts' = accts, replay' = replay,
           cacheRoot' = cacheRoot, TreeInv, ReplayInv, replay.pc = "idle", NEW E,
           \A k \in Keys : Held(k, E[k]) /\ ClosedLast(k), entries' = E
    PROVE  TreeInv' /\ ReplayInv' /\ EntriesInv'
<1>1. TreeInv'
  BY Zenon DEF TreeInv, Forks, InForks
<1>2. ReplayInv'
  BY Zenon DEF ReplayInv
<1>3. EntriesInv'
  BY DEF EntriesInv, Held, Covered, ClosedLast, EntryOK, Live, Line, Base, Forks, InForks
<1>. QED
  BY Zenon, <1>1, <1>2, <1>3

(* A thread steps on the same banks to new.                                *)
BatchTo(t, new) ==
    /\ thr' = [thr EXCEPT ![t] = new] /\ bank' = bank /\ anc' = anc /\ roots' = roots /\ accts' = accts
    /\ new.pc = "idle" => new = IdleThread
    /\ new.pc # "idle" =>
          /\ bank[new.slot] = "open" /\ new.slot > 0 /\ new.anc = anc[new.slot]
          /\ \A k \in Keys : new.got[k] # None =>
                new.slot = thr[t].slot /\ new.anc = thr[t].anc /\ new.got[k] = ForkProgram(t, k)
          /\ new.missing \cap new.done = {}
          /\ new.pc = "lock" /\ new.task # None =>
                /\ new.slot = thr[t].slot /\ new.anc = thr[t].anc
                /\ new.loaded = LoadProgram(t, new.task)

(* Such a step leaves every batch right.                                   *)
LEMMA Batches ==
    ASSUME LoadersInv, \A u \in Threads : BatchOK(u), NEW t \in Threads, NEW new, BatchTo(t, new)
    PROVE  \A u \in Threads : BatchOK(u)'
<1>1. thr'[t] = new /\ \A u \in Threads \ {t} : thr'[u] = thr[u]
  BY Zenon DEF LoadersInv, BatchTo
<1>2. ASSUME NEW u \in Threads, NEW k, thr'[u].slot = thr[u].slot, thr'[u].anc = thr[u].anc
      PROVE  ForkProgram(u, k)' = ForkProgram(u, k) /\ LoadProgram(u, k)' = LoadProgram(u, k)
  <2>1. WrittenIn(k, thr[u].anc)' = WrittenIn(k, thr[u].anc) /\ accts' = accts
    BY Zenon, <1>2 DEF WrittenIn, BatchTo
  <2>2. Max(WrittenIn(k, thr[u].anc))' = Max(WrittenIn(k, thr[u].anc))
    BY Zenon, <2>1 DEF Max
  <2>3. ForkProgram(u, k)' = ForkProgram(u, k)
    BY Zenon, <1>2, <2>1, <2>2 DEF ForkProgram
  <2>4. LoadProgram(u, k)' = LoadProgram(u, k)
    BY Zenon, <1>2, <2>1, <2>2 DEF LoadProgram
  <2>. QED
    BY Zenon, <2>3, <2>4
<1>3. ASSUME NEW u \in Threads \ {t}
      PROVE  BatchOK(u)'
  <2>1. thr'[u] = thr[u] /\ BatchOK(u) /\ bank' = bank /\ anc' = anc
    BY Zenon, <1>1 DEF BatchTo
  <2>2. \A k : ForkProgram(u, k)' = ForkProgram(u, k) /\ LoadProgram(u, k)' = LoadProgram(u, k)
    BY Zenon, <1>2, <2>1
  <2>. QED
    BY <2>1, <2>2 DEF BatchOK
<1>4. BatchOK(t)'
  <2>1. CASE new.pc = "idle"
    BY Zenon, <1>1, <2>1 DEF BatchOK, BatchTo
  <2>2. CASE new.pc # "idle"
    <3>1. bank'[new.slot] = "open" /\ new.slot > 0 /\ new.anc = anc'[new.slot] /\ new.missing \cap new.done = {}
      BY Zenon, <2>2 DEF BatchTo
    <3>2. ASSUME NEW k \in Keys, new.got[k] # None
          PROVE  new.got[k] = ForkProgram(t, k)'
      BY <1>1, <1>2, <2>2, <3>2 DEF BatchTo
    <3>3. ASSUME new.pc = "lock", new.task # None
          PROVE  new.loaded = LoadProgram(t, new.task)'
      BY Zenon, <1>1, <1>2, <2>2, <3>3 DEF BatchTo
    <3>. QED
      BY Zenon, <1>1, <2>2, <3>1, <3>2, <3>3 DEF BatchOK
  <2>. QED
    BY Zenon, <2>1, <2>2
<1>. QED
  BY Zenon, <1>3, <1>4

(* The steps of a batch other than a round.                                *)
LEMMA BatchFork ==
    ASSUME Topped, Local, Inv, ForkInv, NEW t \in Threads,
           (\E s \in Slots, keys \in SUBSET Keys : Begin(t, s, keys)) \/ Load(t) \/ Wake(t) \/ End(t)
    PROVE  ForkInv'
<1>1. LoadersInv /\ BanksInv /\ ThreadOK(thr[t]) /\ BatchOK(t) /\ \A u \in Threads : BatchOK(u)
  BY Zenon DEF Inv, LoadersInv, ForkInv
<1>2. /\ bank' = bank /\ anc' = anc /\ root' = root /\ roots' = roots /\ accts' = accts /\ replay' = replay
      /\ cacheRoot' = cacheRoot /\ entries' = entries
  BY Zenon, BatchSteps DEF bankVars, cacheVars
<1>3. replay.pc = "idle"
  BY Zenon, ActiveBatch DEF Begin, Load, Wake, End, Local, Threads
<1>4. TreeInv' /\ ReplayInv' /\ EntriesInv'
  BY Zenon, <1>2, <1>3, SameForks DEF ForkInv, EntriesInv
<1>5. ASSUME NEW s \in Slots, NEW keys \in SUBSET Keys, Begin(t, s, keys)
      PROVE  \A u \in Threads : BatchOK(u)'
  <2> DEFINE new == Batch("lock", s, anc[s], keys, None, None, [k \in Keys |-> None], {})
  <2>1. thr' = [thr EXCEPT ![t] = new] /\ bank[s] = "open" /\ s > 0
    BY Zenon, <1>5, BeginState DEF Begin, Local, Threads
  <2>2. /\ new.pc = "lock" /\ new.slot = s /\ new.anc = anc[s] /\ new.missing = keys /\ new.task = None
        /\ new.done = {} /\ \A k \in Keys : new.got[k] = None
    BY Zenon DEF Batch
  <2> HIDE DEF new
  <2>3. BatchTo(t, new)
    BY Zenon, <1>2, <2>1, <2>2 DEF BatchTo
  <2>. QED
    BY Zenon, <1>1, <2>3, Batches
<1>6. ASSUME Load(t)
      PROVE  \A u \in Threads : BatchOK(u)'
  <2> DEFINE new == Batch("lock", thr[t].slot, thr[t].anc, thr[t].missing, thr[t].task,
                          LoadProgram(t, thr[t].task), thr[t].got, thr[t].done)
  <2>1. thr' = [thr EXCEPT ![t] = new] /\ thr[t].pc = "load"
    BY Zenon, <1>1, <1>6, LoadState DEF Load
  <2>2. /\ new.pc = "lock" /\ new.slot = thr[t].slot /\ new.anc = thr[t].anc /\ new.missing = thr[t].missing
        /\ new.task = thr[t].task /\ new.loaded = LoadProgram(t, new.task) /\ new.done = thr[t].done
        /\ new.got = thr[t].got
    BY Zenon DEF Batch
  <2> HIDE DEF new
  <2>3. BatchTo(t, new)
    BY Zenon, <1>1, <1>2, <2>1, <2>2 DEF BatchTo, BatchOK
  <2>. QED
    BY Zenon, <1>1, <2>3, Batches
<1>7. ASSUME Wake(t)
      PROVE  \A u \in Threads : BatchOK(u)'
  <2> DEFINE new == Batch("lock", thr[t].slot, thr[t].anc, thr[t].missing, thr[t].task,
                          thr[t].loaded, thr[t].got, thr[t].done)
  <2>1. thr' = [thr EXCEPT ![t] = new] /\ thr[t].pc = "wait" /\ thr[t].task = None
    BY Zenon, <1>1, <1>7, WakeState DEF Wake, ThreadOK
  <2>2. /\ new.pc = "lock" /\ new.slot = thr[t].slot /\ new.anc = thr[t].anc /\ new.missing = thr[t].missing
        /\ new.task = thr[t].task /\ new.done = thr[t].done /\ new.got = thr[t].got
    BY Zenon DEF Batch
  <2> HIDE DEF new
  <2>3. BatchTo(t, new)
    BY Zenon, <1>1, <1>2, <2>1, <2>2 DEF BatchTo, BatchOK
  <2>. QED
    BY Zenon, <1>1, <2>3, Batches
<1>8. ASSUME End(t)
      PROVE  \A u \in Threads : BatchOK(u)'
  <2>1. thr' = [thr EXCEPT ![t] = IdleThread] /\ IdleThread.pc = "idle"
    BY Zenon, <1>8, IdleFacts DEF End
  <2>2. BatchTo(t, IdleThread)
    BY Zenon, <1>2, <2>1 DEF BatchTo
  <2>. QED
    BY Zenon, <1>1, <2>2, Batches
<1>. QED
  BY Zenon, <1>4, <1>5, <1>6, <1>7, <1>8 DEF ForkInv

(* A round.                                                                *)
LEMMA RoundFork ==
    ASSUME Topped, Local, Inv, ForkInv, NEW t \in Threads, Round(t)
    PROVE  ForkInv'
<1>1. /\ LoadersInv /\ BatchOK(t) /\ \A u \in Threads : BatchOK(u) /\ t \notin LimitThreads
      /\ TreeInv /\ ReplayInv
  BY Zenon DEF Inv, ForkInv, Local
<1>2. thr[t].pc = "lock" /\ entries' = Filled(t) /\ cacheRoot' = cacheRoot /\ UNCHANGED bankVars
      /\ \/ \E pc \in {"run", "wait"} : Stays(t, pc)
         \/ \E k \in Keys : Takes(t, k)
  BY Zenon, <1>1, RoundCases
<1>3. /\ bank' = bank /\ anc' = anc /\ root' = root /\ roots' = roots /\ accts' = accts /\ replay' = replay
  BY Zenon, <1>2 DEF bankVars
<1>4. replay.pc = "idle" /\ bank[thr[t].slot] = "open" /\ thr[t].slot > 0 /\ thr[t].anc = anc[thr[t].slot]
  BY Zenon, <1>1, <1>2, ActiveBatch DEF BatchOK
<1>5. \A k \in Keys : Held(k, Filled(t)[k]) /\ ClosedLast(k)
  BY Zenon, <1>2, RoundEntries DEF ForkInv, EntriesInv
<1>6. TreeInv' /\ ReplayInv' /\ EntriesInv'
  BY Zenon, <1>1, <1>2, <1>3, <1>4, <1>5, SameForks
<1>7. ASSUME NEW pc, pc # "lock", pc # "idle", NEW task, thr' = [thr EXCEPT ![t] = Turned(t, pc, task)]
      PROVE  \A u \in Threads : BatchOK(u)'
  <2> DEFINE new == Turned(t, pc, task)
  <2>1. /\ new.slot = thr[t].slot /\ new.anc = thr[t].anc /\ new.missing \cap new.done = {}
        /\ \A k \in Keys : new.got[k] # None => new.got[k] = ForkProgram(t, k)
    BY <1>2, RoundBatch
  <2>2. new.pc = pc
    BY Zenon DEF Turned, Batch
  <2> HIDE DEF new
  <2>3. thr' = [thr EXCEPT ![t] = new]
    BY Zenon, <1>7 DEF new
  <2>4. BatchTo(t, new)
    BY Zenon, <1>3, <1>4, <1>7, <2>1, <2>2, <2>3 DEF BatchTo
  <2>. QED
    BY Zenon, <1>1, <2>4, Batches
<1>8. \A u \in Threads : BatchOK(u)'
  BY Zenon, <1>2, <1>7 DEF Stays, Takes
<1>. QED
  BY Zenon, <1>6, <1>8 DEF ForkInv

=============================================================================
