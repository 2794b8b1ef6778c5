------------------------- MODULE ProgramCacheProofs -------------------------
(***************************************************************************)
(* Evictions, deployments and the steps of replay on the banks keep the    *)
(* invariant ForkInv of ProgramCacheInv; the properties of ProgramCache    *)
(* follow, for every number of programs, threads, slots, dumps and         *)
(* versions.                                                               *)
(***************************************************************************)
EXTENDS ProgramCacheInv

(* What the batches have been given depends on the banks alone.            *)
LEMMA SameBatches ==
    ASSUME \A t \in Threads : BatchOK(t), bank' = bank, anc' = anc, roots' = roots, accts' = accts, thr' = thr
    PROVE  \A t \in Threads : BatchOK(t)'
<1> SUFFICES ASSUME NEW t \in Threads
             PROVE  BatchOK(t)'
  BY Zenon
<1>1. \A j : WrittenIn(j, thr[t].anc)' = WrittenIn(j, thr[t].anc)
  BY Zenon DEF WrittenIn
<1>2. \A j : Max(WrittenIn(j, thr[t].anc))' = Max(WrittenIn(j, thr[t].anc))
  BY Zenon, <1>1 DEF Max
<1>3. \A j : ForkProgram(t, j)' = ForkProgram(t, j)
  BY Zenon, <1>2 DEF ForkProgram
<1>4. \A j : LoadProgram(t, j)' = LoadProgram(t, j)
  BY Zenon, <1>2 DEF LoadProgram
<1>5. BatchOK(t)
  BY Zenon
<1>. QED
  BY Zenon, <1>3, <1>4, <1>5 DEF BatchOK

(* A program is unloaded, or modified.                                     *)
LEMMA EvictFork ==
    ASSUME Local, Inv, ForkInv, NEW k \in Keys, NEW e \in entries[k], Evict(k, e)
    PROVE  ForkInv'
<1> DEFINE u == [e EXCEPT !.kind = "unloaded", !.code = 0]
<1>1. /\ entries' = [entries EXCEPT ![k] = (@ \ {e}) \cup {u}] /\ e.kind = "loaded"
      /\ bank' = bank /\ anc' = anc /\ root' = root /\ roots' = roots /\ accts' = accts /\ replay' = replay
      /\ cacheRoot' = cacheRoot /\ thr' = thr
  BY Zenon DEF Evict, bankVars
<1>2. entries = [j \in Keys |-> entries[j]] /\ e \in Programs /\ \A j \in Keys : Held(j, entries[j])
  BY Zenon DEF Inv, CacheInv, Versions, ForkInv, EntriesInv
<1>3. u.dep = e.dep /\ u.eff = e.eff /\ u.kind = "unloaded"
  BY Zenon, <1>2 DEF Programs
<1> HIDE DEF u
<1>4. Held(k, (entries[k] \ {e}) \cup {u})
  <2> DEFINE new == (entries[k] \ {e}) \cup {u}
  <2>1. EntryOK(k, e) => EntryOK(k, u)
    BY Zenon, <1>1, <1>3 DEF EntryOK
  <2>2. \A f \in entries[k] : \E g \in new : g.dep = f.dep
    BY Zenon, <1>3
  <2>3. \A x : Covered(entries[k], x) => Covered(new, x)
    <3> HIDE DEF new
    <3>. QED
      BY Zenon, <2>2 DEF Covered
  <2>4. \A f \in new : (f.dep \in Live /\ EntryOK(k, f)) \/ f.dep \in replay.todo
    BY Zenon, <1>2, <1>3, <2>1 DEF Held
  <2>. QED
    BY Zenon, <1>2, <2>3, <2>4 DEF Held
<1>5. \A j \in Keys : Held(j, entries'[j])
  BY Zenon, <1>1, <1>2, <1>4
<1>6. TreeInv' /\ ReplayInv'
  BY <1>1 DEF ForkInv, TreeInv, ReplayInv, Forks, InForks
<1>7. EntriesInv'
  <2>1. \A j \in Keys : ClosedLast(j)
    BY Zenon DEF ForkInv, EntriesInv
  <2>. QED
    BY <1>1, <1>5, <2>1 DEF EntriesInv, Held, Covered, ClosedLast, EntryOK, Live, Line,
       Base, Forks, InForks
<1>8. \A t \in Threads : BatchOK(t)'
  BY Zenon, <1>1, SameBatches DEF ForkInv
<1>. QED
  BY Zenon, <1>6, <1>7, <1>8 DEF ForkInv

(* The line of an open bank is on no other line.                           *)
LEMMA OpenSlot ==
    ASSUME BanksInv, TreeInv, ReplayInv, replay.pc = "idle", NEW s \in Slots, bank[s] = "open"
    PROVE  s \in Forks /\ s \in Live /\ s \notin Base /\ \A u \in Live : s \in Line(u) => u = s
<1>1. s \in Forks /\ Base = roots /\ cacheRoot = root /\ s # root
  BY Zenon DEF Forks, InForks, Base, ReplayInv, TreeInv
<1>2. s \in Nat /\ root \in Nat /\ root <= s
  BY Zenon, <1>1, Numbers DEF TreeInv, BanksInv
<1>3. s \notin Base
  BY <1>1, <1>2 DEF TreeInv
<1>4. ASSUME NEW u \in Live, s \in Line(u)
      PROVE  u = s
  <2>1. u \in Forks /\ s \in anc[u]
    BY Zenon, <1>3, <1>4 DEF Live, Line
  <2>2. s >= root
    BY Zenon, <1>2
  <2>3. bank[s] = "frozen" \/ s = u
    BY Zenon, <2>1, <2>2 DEF TreeInv
  <2>. QED
    BY Zenon, <2>3
<1>. QED
  BY Zenon, <1>1, <1>3, <1>4, ForkLine

(* An open bank deploys, upgrades or closes a program.                     *)
LEMMA ModifyFork ==
    ASSUME Topped, Local, Inv, ForkInv, NEW s \in Slots, NEW k \in Keys, NEW e \in Programs,
           NEW written, Open(s, k), Modify(s, k, e, written), written # None,
           \/ e = Loaded(s, written) /\ written # Closed
           \/ e = Tombstone(s, "closed") /\ written = Closed
    PROVE  ForkInv'
<1>1. /\ accts' = [accts EXCEPT ![k][s] = written] /\ accts[k][s] = None
      /\ entries' = [entries EXCEPT ![k] = Assign(entries[k], e)]
      /\ bank' = bank /\ anc' = anc /\ root' = root /\ roots' = roots /\ replay' = replay
      /\ cacheRoot' = cacheRoot /\ thr' = thr /\ bank[s] = "open" /\ replay.pc = "idle"
      /\ \A t \in Threads : thr[t].pc # "idle" => thr[t].slot # s
  BY Zenon DEF Modify
<1>2. /\ BanksInv /\ AccountsInv /\ TreeInv /\ ReplayInv /\ replay.todo = {}
      /\ entries = [j \in Keys |-> entries[j]]
      /\ \A j \in Keys : Versions(entries[j]) /\ Held(j, entries[j]) /\ ClosedLast(j)
  BY Zenon, <1>1 DEF Inv, CacheInv, ForkInv, EntriesInv, ReplayInv
<1>3. s \in Forks /\ s \in Live /\ s \notin Base /\ \A u \in Live : s \in Line(u) => u = s
  BY Zenon, <1>1, <1>2, OpenSlot
<1>4. \A j \in Keys, x \in Slots : accts'[j][x] = IF j = k /\ x = s THEN written ELSE accts[j][x]
  BY Zenon, <1>1, <1>2 DEF AccountsInv
<1>5. /\ Forks' = Forks /\ Base' = Base /\ Live' = Live /\ \A u \in Live : Line(u)' = Line(u)
      /\ Live \subseteq Slots /\ \A u \in Live : Line(u) \subseteq Slots
  <2>1. Forks' = Forks
    BY Zenon, <1>1 DEF Forks, InForks
  <2>2. Base' = Base
    BY Zenon, <1>1 DEF Base
  <2>3. Live' = Live
    BY Zenon, <1>1, <2>1, <2>2 DEF Live
  <2>4. \A u \in Live : Line(u)' = Line(u)
    BY Zenon, <1>1, <2>2 DEF Line
  <2>. QED
    BY Zenon, <1>2, <2>1, <2>2, <2>3, <2>4, LineFacts, LiveFacts
<1>6. TreeInv'
  BY Zenon, <1>1, <1>2, <1>5 DEF TreeInv
<1>7. ReplayInv'
  <2>1. ASSUME NEW x \in Slots, bank[x] \in {"unused", "dumped"}, NEW j \in Keys
        PROVE  accts'[j][x] = accts[j][x]
    BY Zenon, <1>1, <1>4, <2>1
  <2>. QED
    BY <1>1, <1>2, <2>1 DEF ReplayInv
<1>8. ASSUME NEW c \in Line(s), accts[k][c] = Closed
      PROVE  FALSE
  <2>1. c = Version(k, s)
    BY Zenon, <1>1, <1>2, <1>3, <1>8, VersionFacts
  <2>. QED
    BY Zenon, <1>8, <2>1 DEF Open, Version
<1>9. ASSUME NEW j \in Keys
      PROVE  ClosedLast(j)'
  <2> SUFFICES ASSUME NEW u \in Live, NEW c \in Line(u), NEW x \in Line(u), accts'[j][c] = Closed, accts'[j][x] # None
               PROVE  x <= c
    BY Zenon, <1>5 DEF ClosedLast
  <2>1. c \in Slots /\ x \in Slots /\ x <= u
    BY Zenon, <1>2, <1>5, LineFacts
  <2>2. CASE j = k /\ c = s
    BY Zenon, <1>3, <2>1, <2>2
  <2>3. CASE j = k /\ c # s /\ x = s
    <3>1. accts[k][c] = Closed /\ u = s
      BY Zenon, <1>3, <1>4, <2>1, <2>3
    <3>. QED
      BY Zenon, <1>8, <3>1
  <2>4. CASE j # k \/ (c # s /\ x # s)
    <3>1. accts'[j][c] = accts[j][c] /\ accts'[j][x] = accts[j][x]
      BY Zenon, <1>4, <2>1, <2>4
    <3>. QED
      BY Zenon, <1>2, <3>1 DEF ClosedLast
  <2>. QED
    BY Zenon, <2>2, <2>3, <2>4
<1>10. ASSUME NEW j \in Keys, NEW f, f.dep \in Live, EntryOK(j, f)
       PROVE  EntryOK(j, f)'
  <2>1. f.dep \in Slots /\ Line(f.dep)' = Line(f.dep) /\ Line(f.dep) \subseteq Slots
    BY Zenon, <1>5, <1>10
  <2>2. \A c \in Line(f.dep) : accts[j][c] = Closed => accts'[j][c] = Closed
    BY <1>1, <1>4, <2>1, NoneAssumption
  <2>3. accts[j][f.dep] # None => accts'[j][f.dep] = accts[j][f.dep]
    BY <1>1, <1>4, <2>1
  <2>. QED
    BY <1>10, <2>1, <2>2, <2>3 DEF EntryOK
<1>11. e.dep = s /\ EntryOK(k, e)'
  <2>1. s \in Line(s) /\ accts'[k][s] = written /\ Line(s)' = Line(s)
    BY Zenon, <1>2, <1>3, <1>4, <1>5, LineFacts
  <2>2. CASE e = Loaded(s, written) /\ written # Closed
    BY Zenon, <2>1, <2>2 DEF EntryOK, Loaded
  <2>3. CASE e = Tombstone(s, "closed") /\ written = Closed
    BY Zenon, <2>1, <2>3 DEF EntryOK, Tombstone
  <2>. QED
    BY Zenon, <2>2, <2>3
<1>12. ASSUME NEW j \in Keys
       PROVE  Held(j, entries[j])'
  <2>1. /\ entries'[j] = IF j = k THEN Assign(entries[k], e) ELSE entries[j]
        /\ \A f \in entries'[j] : f \in entries[j] \/ (j = k /\ f = e)
        /\ \A f \in entries[j] : \E g \in entries'[j] : g.dep = f.dep
        /\ j = k => \E g \in entries'[j] : g.dep = s
    <3>1. CASE j # k
      BY Zenon, <1>1, <1>2, <3>1
    <3>2. CASE j = k
      <4>1. entries'[k] = Assign(entries[k], e)
        BY Zenon, <1>1, <1>2
      <4>2. /\ \A f \in Assign(entries[k], e) : f \in entries[k] \/ f = e
            /\ \E f \in Assign(entries[k], e) : SameVersion(e, f)
            /\ \A f \in entries[k] : \E g \in Assign(entries[k], e) : SameVersion(f, g)
        BY Zenon, <1>2, AssignFacts
      <4>. QED
        BY Zenon, <1>11, <3>2, <4>1, <4>2 DEF SameVersion
    <3>. QED
      BY Zenon, <3>1, <3>2
  <2>2. \A f \in entries'[j] : f.dep \in Live' /\ EntryOK(j, f)'
    BY Zenon, <1>2, <1>3, <1>5, <1>10, <1>11, <2>1 DEF Held
  <2>3. ASSUME NEW x \in Live, x > 0, accts'[j][x] # None
        PROVE  Covered(entries[j], x)'
    <3>1. CASE j = k /\ x = s
      BY Zenon, <2>1, <3>1 DEF Covered
    <3>2. CASE j # k \/ x # s
      <4>1. accts[j][x] # None
        BY Zenon, <1>4, <1>5, <2>3, <3>2
      <4>2. Covered(entries[j], x)
        BY Zenon, <1>2, <2>3, <4>1 DEF Held
      <4>. QED
        BY Zenon, <1>5, <2>1, <4>2 DEF Covered
    <3>. QED
      BY Zenon, <3>1, <3>2
  <2>. QED
    BY Zenon, <1>5, <2>2, <2>3 DEF Held
<1>13. EntriesInv'
  BY Zenon, <1>9, <1>12 DEF EntriesInv
<1>14. ASSUME NEW t \in Threads
       PROVE  BatchOK(t)'
  <2>1. CASE thr[t].pc = "idle"
    BY Zenon, <1>1, <2>1 DEF ForkInv, BatchOK
  <2>2. CASE thr[t].pc # "idle"
    <3>1. thr[t].slot \in Forks /\ thr[t].slot # s /\ thr[t].anc = anc[thr[t].slot]
      BY Zenon, <1>1, <2>2, ActiveBatch
    <3>2. thr[t].anc \cup roots = Line(thr[t].slot) /\ thr[t].slot \in Live
      BY Zenon, <1>1, <1>2, <3>1, ForkLine
    <3>3. s \notin thr[t].anc \cup roots /\ thr[t].anc \cup roots \subseteq Slots
      BY Zenon, <1>3, <1>5, <3>1, <3>2
    <3>4. ASSUME NEW j \in Keys
          PROVE  ForkProgram(t, j)' = ForkProgram(t, j) /\ LoadProgram(t, j)' = LoadProgram(t, j)
      <4>1. \A x \in thr[t].anc \cup roots : accts'[j][x] = accts[j][x]
        BY Zenon, <1>4, <3>3
      <4>2. WrittenIn(j, thr[t].anc)' = WrittenIn(j, thr[t].anc)
        BY Zenon, <1>1, <4>1 DEF WrittenIn
      <4>3. Max(WrittenIn(j, thr[t].anc))' = Max(WrittenIn(j, thr[t].anc))
        BY Zenon, <4>2 DEF Max
      <4>4. Max(WrittenIn(j, thr[t].anc)) \in thr[t].anc \cup roots
        <5>1. Max(WrittenIn(j, thr[t].anc)) \in WrittenIn(j, thr[t].anc)
          BY Zenon, <1>2, <3>3, Written DEF Local
        <5>. QED
          BY Zenon, <5>1 DEF WrittenIn
      <4>5. accts'[j][Max(WrittenIn(j, thr[t].anc))] = accts[j][Max(WrittenIn(j, thr[t].anc))]
        BY Zenon, <4>1, <4>4
      <4>6. ForkProgram(t, j)' = ForkProgram(t, j)
        BY Zenon, <1>1, <4>3, <4>5 DEF ForkProgram
      <4>7. LoadProgram(t, j)' = LoadProgram(t, j)
        BY <1>1, <4>3, <4>5 DEF LoadProgram
      <4>. QED
        BY Zenon, <4>6, <4>7
    <3>5. thr[t].task # None => thr[t].task \in Keys
      BY Zenon DEF Inv, LoadersInv, ThreadOK
    <3>. QED
      BY Zenon, <1>1, <2>2, <3>4, <3>5 DEF ForkInv, BatchOK
  <2>. QED
    BY Zenon, <2>1, <2>2
<1>. QED
  BY Zenon, <1>6, <1>7, <1>13, <1>14 DEF ForkInv

-----------------------------------------------------------------------------
(* The steps of replay on the banks: no batch runs.                        *)

LEMMA IdleBatches ==
    ASSUME ForkInv, thr' = thr, \A t \in Threads : thr[t].pc = "idle"
    PROVE  \A t \in Threads : BatchOK(t)'
BY Zenon DEF ForkInv, BatchOK

(* The entries keep their place when the slots that stay keep theirs.      *)
LEMMA KeptEntries ==
    ASSUME \A s \in Live' : s \in Live /\ Line(s)' = Line(s) /\ Line(s) \subseteq Live,
           accts' = accts, NEW k \in Keys
    PROVE  /\ ClosedLast(k) => ClosedLast(k)'
           /\ \A e : e.dep \in Live' /\ EntryOK(k, e) => EntryOK(k, e)'
<1>1. ClosedLast(k) => ClosedLast(k)'
  BY Zenon DEF ClosedLast
<1>2. ASSUME NEW e, e.dep \in Live', EntryOK(k, e)
      PROVE  EntryOK(k, e)'
  <2>1. Line(e.dep)' = Line(e.dep)
    BY Zenon, <1>2
  <2>. QED
    BY Zenon, <1>2, <2>1 DEF EntryOK
<1>. QED
  BY Zenon, <1>1, <1>2

(* A new bank.                                                             *)
LEMMA NewBankFork ==
    ASSUME Local, Inv, ForkInv, NEW s \in Slots, NEW p \in Slots, NewBank(s, p)
    PROVE  ForkInv'
<1>1. /\ replay.pc = "idle" /\ \A t \in Threads : thr[t].pc = "idle"
      /\ s > p /\ bank[s] \in {"unused", "dumped"} /\ bank[p] = "frozen" /\ root \in anc[p]
      /\ bank' = [bank EXCEPT ![s] = "open"]
      /\ anc' = [anc EXCEPT ![s] = {s} \cup {a \in anc[p] : a >= root}]
      /\ root' = root /\ roots' = roots /\ accts' = accts /\ replay' = replay /\ entries' = entries
      /\ cacheRoot' = cacheRoot /\ thr' = thr
  BY Zenon DEF NewBank, ReplayIdle, cacheVars, Local, Threads
<1>2. /\ BanksInv /\ TreeInv /\ ReplayInv /\ EntriesInv /\ replay.todo = {} /\ cacheRoot = root
      /\ bank = [x \in Slots |-> bank[x]] /\ anc = [x \in Slots |-> anc[x]] /\ \A x \in Slots : anc[x] \subseteq Slots
  BY Zenon, <1>1 DEF Inv, ForkInv, ReplayInv, BanksInv
<1>3. /\ anc'[s] = {s} \cup {a \in anc[p] : a >= root} /\ bank'[s] = "open"
      /\ \A x \in Slots \ {s} : anc'[x] = anc[x] /\ bank'[x] = bank[x]
  BY Zenon, <1>1, <1>2
<1>4. /\ p \in Forks /\ s \notin Forks /\ s \notin roots /\ Forks' = Forks \cup {s}
      /\ \A k \in Keys : accts[k][s] = None
  BY <1>1, <1>2, <1>3 DEF Forks, InForks, ReplayInv
<1>5. /\ s \in Nat /\ p \in Nat /\ root \in Nat /\ root <= p /\ root \in Slots /\ root # s
      /\ \A x \in Slots : x \in Nat /\ \A a \in anc[x] : a \in Slots /\ a \in Nat
  BY Zenon, <1>1, <1>2, <1>4, Numbers DEF BanksInv, TreeInv
<1>6. ASSUME NEW u \in Forks, NEW a \in anc[u], a >= root
      PROVE  /\ a \in Slots \ {s} /\ (bank[a] = "frozen" \/ a = u)
             /\ \A x \in Slots : x >= root => (x \in anc[a] <=> x \in anc[u] /\ x <= a)
  <2>1. /\ bank[a] = "frozen" \/ a = u
        /\ \A x \in Slots : x >= root => (x \in anc[a] <=> x \in anc[u] /\ x <= a)
    BY Zenon, <1>2, <1>6 DEF TreeInv
  <2>2. a \in Slots /\ a # s
    BY Zenon, <1>1, <1>4, <1>5, <2>1 DEF Forks
  <2>. QED
    BY Zenon, <2>1, <2>2
<1>7. TreeInv'
  <2>1. bank'[root] = "frozen" /\ \A x \in roots : x <= root
    BY Zenon, <1>2, <1>3, <1>5 DEF TreeInv
  <2>2. \A u \in Forks' : root \in anc'[u] /\ \A a \in anc'[u] : a <= u /\ (a < root => a \in roots)
    <3>1. \A u \in Forks : root \in anc'[u] /\ \A a \in anc'[u] : a <= u /\ (a < root => a \in roots)
      BY Zenon, <1>2, <1>3, <1>4 DEF TreeInv, Forks
    <3>2. root \in anc'[s] /\ \A a \in anc'[s] : a <= s /\ ~(a < root)
      <4>1. \A a \in anc[p] : a <= p
        BY Zenon, <1>2, <1>4 DEF TreeInv
      <4>. QED
        BY <1>1, <1>3, <1>5, <4>1
    <3>. QED
      BY Zenon, <1>4, <3>1, <3>2
  <2>3. ASSUME NEW u \in Forks', NEW a \in anc'[u], a >= root
        PROVE  /\ bank'[a] = "frozen" \/ a = u
               /\ \A x \in Slots : x >= root => (x \in anc'[a] <=> x \in anc'[u] /\ x <= a)
    <3>1. CASE u \in Forks
      <4>1. u \in Slots \ {s} /\ anc'[u] = anc[u]
        BY Zenon, <1>3, <1>4, <3>1 DEF Forks
      <4>2. a \in anc[u]
        BY Zenon, <2>3, <4>1
      <4>3. /\ a \in Slots \ {s} /\ (bank[a] = "frozen" \/ a = u)
            /\ \A x \in Slots : x >= root => (x \in anc[a] <=> x \in anc[u] /\ x <= a)
        BY Zenon, <1>6, <2>3, <3>1, <4>2
      <4>4. a \in Slots \ {s}
        BY Zenon, <4>1, <4>3
      <4>. QED
        BY Zenon, <1>3, <4>1, <4>3, <4>4
    <3>2. CASE u = s /\ a = s
      BY Zenon, <2>2, <3>2, <1>4
    <3>3. CASE u = s /\ a # s
      <4>1. a \in anc[p]
        BY Zenon, <1>3, <2>3, <3>3
      <4>2. /\ bank[a] = "frozen" \/ a = p
            /\ \A x \in Slots : x >= root => (x \in anc[a] <=> x \in anc[p] /\ x <= a)
        BY Zenon, <1>4, <1>6, <2>3, <4>1
      <4>3. a \in Slots /\ bank'[a] = "frozen" /\ anc'[a] = anc[a] /\ a <= p
        BY Zenon, <1>1, <1>2, <1>3, <1>4, <1>5, <3>3, <4>1, <4>2 DEF TreeInv
      <4>4. ASSUME NEW x \in Slots, x >= root
            PROVE  x \in anc[a] <=> x \in anc'[s] /\ x <= a
        <5>1. x <= a => x # s
          BY <1>1, <1>5, <4>3
        <5>. QED
          BY Zenon, <1>3, <4>2, <4>4, <5>1
      <4>. QED
        BY Zenon, <3>3, <4>3, <4>4
    <3>. QED
      BY Zenon, <1>4, <3>1, <3>2, <3>3
  <2>. QED
    BY Zenon, <1>1, <2>1, <2>2, <2>3 DEF TreeInv
<1>8. ReplayInv'
  BY <1>1, <1>2, <1>3 DEF ReplayInv
<1>9. Base' = Base /\ Base = roots
  BY Zenon, <1>1 DEF Base
<1>10. \A u \in Live : u \in Slots \ {s} /\ Line(u)' = Line(u) /\ Line(u) \subseteq Live
  <2>1. \A u \in Live : u \in Slots \ {s}
    BY Zenon, <1>1, <1>2, LiveFacts
  <2>2. \A u \in Live : Line(u)' = Line(u)
    BY Zenon, <1>1, <1>3, <1>9, <2>1 DEF Line
  <2>. QED
    BY Zenon, <1>2, <2>1, <2>2, LineFacts
<1>11. Live' = Live \cup {s}
  <2>1. \A u \in Forks : cacheRoot \in anc'[u] <=> cacheRoot \in anc[u]
    BY Zenon, <1>3, <1>4 DEF Forks
  <2>2. cacheRoot \in anc'[s]
    BY <1>1, <1>2, <1>3, <1>5
  <2>. QED
    BY Zenon, <1>1, <1>4, <1>9, <2>1, <2>2 DEF Live
<1>12. Line(s)' = {s} \cup Line(p) /\ p \in Live
  <2>1. p \in Live /\ Line(p) = anc[p] \cup roots
    BY Zenon, <1>1, <1>2, <1>4, ForkLine
  <2>2. Line(s)' = roots \cup {a \in anc'[s] : a >= root}
    BY Zenon, <1>1, <1>2, <1>4, <1>9 DEF Line
  <2>3. \A a \in anc[p] : a >= root \/ a \in roots
    BY <1>2, <1>4, <1>5 DEF TreeInv
  <2>4. s >= root
    BY <1>1, <1>5
  <2>. QED
    BY Zenon, <1>3, <2>1, <2>2, <2>3, <2>4
<1>13. ASSUME NEW k \in Keys
       PROVE  ClosedLast(k)' /\ Held(k, entries[k])'
  <2>1. ClosedLast(k) /\ Held(k, entries[k])
    BY Zenon, <1>2 DEF EntriesInv
  <2>2. ClosedLast(k)'
    <3> SUFFICES ASSUME NEW u \in Live', NEW c \in Line(u)', NEW x \in Line(u)', accts[k][c] = Closed, accts[k][x] # None
                 PROVE  x <= c
      BY Zenon, <1>1 DEF ClosedLast
    <3>1. CASE u \in Live
      BY Zenon, <1>10, <2>1, <3>1 DEF ClosedLast
    <3>2. CASE u = s
      <4>1. c # s /\ x # s
        BY Zenon, <1>4, NoneAssumption
      <4>2. c \in Line(p) /\ x \in Line(p)
        BY Zenon, <1>12, <3>2, <4>1
      <4>. QED
        BY Zenon, <1>12, <2>1, <4>2 DEF ClosedLast
    <3>. QED
      BY Zenon, <1>11, <3>1, <3>2
  <2>3. \A e : e.dep \in Live /\ EntryOK(k, e) => e.dep \in Live' /\ EntryOK(k, e)'
    BY Zenon, <1>1, <1>10, <1>11 DEF EntryOK
  <2>4. \A x \in Live' : x > 0 /\ accts[k][x] # None => Covered(entries[k], x)
    BY Zenon, <1>4, <1>11, <2>1 DEF Held
  <2>5. Held(k, entries[k])'
    BY Zenon, <1>1, <1>9, <2>1, <2>3, <2>4 DEF Held, Covered
  <2>. QED
    BY Zenon, <2>2, <2>5
<1>14. \A t \in Threads : BatchOK(t)'
  BY Zenon, <1>1, IdleBatches
<1>. QED
  BY Zenon, <1>7, <1>8, <1>13, <1>14 DEF ForkInv, EntriesInv

(* A bank is frozen.                                                       *)
LEMMA FreezeFork ==
    ASSUME Local, Inv, ForkInv, NEW s \in Slots, Freeze(s)
    PROVE  ForkInv'
<1>1. /\ replay.pc = "idle" /\ \A t \in Threads : thr[t].pc = "idle"
      /\ bank[s] = "open" /\ bank' = [bank EXCEPT ![s] = "frozen"]
      /\ anc' = anc /\ root' = root /\ roots' = roots /\ accts' = accts /\ replay' = replay /\ entries' = entries
      /\ cacheRoot' = cacheRoot /\ thr' = thr
  BY Zenon DEF Freeze, ReplayIdle, cacheVars, Local, Threads
<1>2. bank = [x \in Slots |-> bank[x]] /\ TreeInv /\ ReplayInv /\ EntriesInv
  BY Zenon DEF Inv, ForkInv, BanksInv
<1>3. bank'[s] = "frozen" /\ \A x \in Slots \ {s} : bank'[x] = bank[x]
  BY Zenon, <1>1, <1>2
<1>4. Forks' = Forks /\ \A x \in Slots : bank[x] = "frozen" => bank'[x] = "frozen"
  BY Zenon, <1>1, <1>3 DEF Forks, InForks
<1>5. TreeInv'
  <2>1. root \in Slots /\ \A u \in Forks : anc[u] \subseteq Slots
    BY Zenon DEF Inv, BanksInv, Forks
  <2>. QED
    BY <1>1, <1>2, <1>4, <2>1 DEF TreeInv
<1>6. ReplayInv'
  BY Zenon, <1>1, <1>2, <1>3 DEF ReplayInv
<1>7. EntriesInv'
  BY <1>1, <1>2, <1>4 DEF EntriesInv, Held, Covered, ClosedLast, EntryOK, Live, Line, Base
<1>8. \A t \in Threads : BatchOK(t)'
  BY Zenon, <1>1, IdleBatches
<1>. QED
  BY Zenon, <1>5, <1>6, <1>7, <1>8 DEF ForkInv

-----------------------------------------------------------------------------
(* A bank r above the root, and what will be rooted with it.               *)
LEMMA NewRoot ==
    ASSUME BanksInv, TreeInv, NEW r \in Forks, bank[r] = "frozen"
    PROVE  /\ r \in Slots /\ r \in Nat /\ root \in Nat /\ root <= r /\ root \in anc[r] /\ r \in anc[r]
           /\ \A x \in anc[r] : x \in Slots /\ x \in Nat /\ x <= r
           /\ \A x \in anc[r] : x <= root => x \in roots
           /\ \A x \in anc[r] : x >= root => bank[x] = "frozen" /\ x \in Forks
           /\ \A u \in Forks : r \in anc[u] =>
                 \A x \in Slots : x >= root => (x \in anc[r] <=> x \in anc[u] /\ x <= r)
           /\ \A u \in anc[r] : u >= root =>
                 \A x \in Slots : x >= root => (x \in anc[u] <=> x \in anc[r] /\ x <= u)
<1>1. /\ r \in Slots /\ r \in Nat /\ root \in Nat /\ root <= r /\ root \in anc[r] /\ r \in anc[r] /\ root \in roots
      /\ \A x \in anc[r] : x \in Slots /\ x \in Nat /\ x <= r /\ (x < root => x \in roots)
      /\ \A x \in Slots : x \in Nat
  BY Zenon, Numbers DEF BanksInv, TreeInv, Forks
<1>2. \A x \in anc[r] : x <= root => x \in roots
  BY <1>1
<1>3. \A u \in Forks : \A a \in anc[u] : a >= root =>
          /\ bank[a] = "frozen" \/ a = u
          /\ \A x \in Slots : x >= root => (x \in anc[a] <=> x \in anc[u] /\ x <= a)
  BY Zenon DEF TreeInv
<1>4. \A x \in anc[r] : x >= root => bank[x] = "frozen" /\ x \in Forks
  BY Zenon, <1>1, <1>3 DEF Forks, InForks
<1>5. r >= root
  BY Zenon, <1>1
<1>6. \A u \in Forks : r \in anc[u] =>
          \A x \in Slots : x >= root => (x \in anc[r] <=> x \in anc[u] /\ x <= r)
  BY Zenon, <1>3, <1>5
<1>. QED
  BY Zenon, <1>1, <1>2, <1>3, <1>4, <1>6

(* The cache is pruned for a new root r: the entries of the forks that end *)
(* go, and of the rooted ones the latest stays.                            *)
LEMMA PruneFork ==
    ASSUME Topped, Local, Inv, ForkInv, NEW r \in Slots, PruneCache(r)
    PROVE  ForkInv'
<1>1. /\ replay.pc = "idle" /\ \A t \in Threads : thr[t].pc = "idle"
      /\ bank[r] = "frozen" /\ root \in anc[r] /\ r # root
      /\ entries' = [k \in Keys |-> Pruned(entries[k], r)]
      /\ cacheRoot' = r /\ replay' = [pc |-> "root", slot |-> r, todo |-> {}]
      /\ bank' = bank /\ anc' = anc /\ root' = root /\ roots' = roots /\ accts' = accts /\ thr' = thr
  BY Zenon DEF PruneCache, ReplayIdle, Local, Threads
<1>2. /\ BanksInv /\ TreeInv /\ ReplayInv /\ cacheRoot = root /\ replay.todo = {} /\ r \in Forks /\ Base = roots
      /\ \A k \in Keys : Versions(entries[k]) /\ Held(k, entries[k]) /\ ClosedLast(k)
  BY Zenon, <1>1 DEF Inv, CacheInv, ForkInv, ReplayInv, EntriesInv, Forks, InForks, Base
<1>3. /\ r \in Nat /\ root \in Nat /\ root <= r /\ root < r /\ r \in anc[r]
      /\ \A x \in anc[r] : x \in Slots /\ x \in Nat /\ x <= r
      /\ \A x \in anc[r] : x <= root => x \in roots
      /\ \A x \in anc[r] : x >= root => bank[x] = "frozen" /\ x \in Forks
      /\ \A u \in Forks : r \in anc[u] =>
            \A x \in Slots : x >= root => (x \in anc[r] <=> x \in anc[u] /\ x <= r)
      /\ \A u \in anc[r] : u >= root =>
            \A x \in Slots : x >= root => (x \in anc[u] <=> x \in anc[r] /\ x <= u)
      /\ \A x \in roots : x \in Slots /\ x \in Nat /\ x <= root
  <2>1. \A x \in roots : x \in Slots /\ x \in Nat /\ x <= root
    BY Zenon, <1>2, Numbers DEF TreeInv, BanksInv
  <2>. QED
    BY <1>1, <1>2, <2>1, NewRoot
<1>4. TreeInv' /\ ReplayInv'
  <2>1. TreeInv'
    BY <1>1, <1>2 DEF TreeInv, Forks, InForks
  <2>2. ReplayInv'
    BY Zenon, <1>1, <1>2 DEF ReplayInv
  <2>. QED
    BY Zenon, <2>1, <2>2
<1>5. Base' = roots \cup anc[r] /\ Forks' = Forks
  BY Zenon, <1>1 DEF Base, Forks, InForks
<1>6. Live' = roots \cup anc[r] \cup {u \in Forks : r \in anc[u]}
  BY Zenon, <1>1, <1>5 DEF Live
<1>7. ASSUME NEW u \in Live'
      PROVE  u \in Live /\ u \in Slots /\ u \in Nat /\ (u < r => u \in Base') /\ (u >= r => u \in Forks /\ r \in anc[u])
  <2>1. CASE u \in roots
    BY <1>2, <1>3, <1>5, <2>1 DEF Live
  <2>2. CASE u \in anc[r] /\ u \notin roots
    <3>1. u >= root /\ u \in Forks /\ u \in Slots /\ u \in Nat /\ u <= r
      BY <1>3, <2>2
    <3>2. root \in anc[u]
      BY Zenon, <1>2, <3>1 DEF TreeInv
    <3>3. u >= r => u = r
      BY <1>3, <3>1
    <3>. QED
      BY Zenon, <1>2, <1>3, <1>5, <2>2, <3>1, <3>2, <3>3 DEF Live
  <2>3. CASE u \in Forks /\ r \in anc[u]
    <3>1. root \in anc[u] /\ r <= u /\ u \in Slots /\ u \in Nat
      BY Zenon, <1>2, <2>3, Numbers DEF TreeInv, Forks
    <3>. QED
      BY <1>2, <1>3, <2>3, <3>1 DEF Live
  <2>. QED
    BY Zenon, <1>6, <1>7, <2>1, <2>2, <2>3
<1>8. ASSUME NEW u \in Live'
      PROVE  Line(u)' = Line(u)
  <2>0. \A x \in Slots : x \in Nat
    BY Zenon, Numbers
  <2>1. CASE u \in roots
    <3>1. Line(u) = {x \in roots : x <= u} /\ Line(u)' = {x \in roots \cup anc[r] : x <= u}
      BY Zenon, <1>2, <1>5, <2>1 DEF Line
    <3>2. ASSUME NEW x \in anc[r], x <= u
          PROVE  x \in roots
      <4>1. x \in Nat /\ u \in Nat /\ u <= root
        BY Zenon, <1>3, <2>1
      <4>2. x <= root
        BY <1>3, <3>2, <4>1
      <4>. QED
        BY Zenon, <1>3, <4>2
    <3>. QED
      BY Zenon, <3>1, <3>2
  <2>2. CASE u \in anc[r] /\ u \notin roots
    <3>1. Line(u) = roots \cup {a \in anc[u] : a >= root} /\ Line(u)' = {x \in roots \cup anc[r] : x <= u}
      BY Zenon, <1>2, <1>5, <2>2 DEF Line
    <3>2. u >= root /\ u \in Nat /\ u \in Forks
      BY <1>3, <2>2
    <3>3. anc[u] \subseteq Slots
      BY Zenon, <1>2, <3>2 DEF BanksInv, Forks
    <3>4. \A x \in roots : x <= u
      BY <1>3, <3>2
    <3>5. ASSUME NEW x \in anc[u], x >= root
          PROVE  x \in anc[r] /\ x <= u
      BY Zenon, <1>3, <2>2, <3>2, <3>3, <3>5
    <3>6. ASSUME NEW x \in anc[r], x <= u
          PROVE  x \in roots \/ (x \in anc[u] /\ x >= root)
      <4>1. x \in Nat /\ x \in Slots /\ (x <= root \/ x >= root)
        BY <1>3
      <4>. QED
        BY Zenon, <1>3, <2>2, <3>2, <3>6, <4>1
    <3>. QED
      BY Zenon, <3>1, <3>4, <3>5, <3>6
  <2>3. CASE u \notin roots \cup anc[r]
    <3>1. u \in Forks /\ r \in anc[u] /\ anc[u] \subseteq Slots
      BY Zenon, <1>2, <1>6, <2>3 DEF BanksInv, Forks
    <3>2. Line(u) = roots \cup {a \in anc[u] : a >= root}
          /\ Line(u)' = roots \cup anc[r] \cup {a \in anc[u] : a >= r}
      BY Zenon, <1>1, <1>2, <1>5, <2>3 DEF Line
    <3>3. \A x \in Slots : x >= root => (x \in anc[r] <=> x \in anc[u] /\ x <= r)
      BY Zenon, <1>3, <3>1
    <3>4. ASSUME NEW x \in anc[u]
          PROVE  x >= root <=> x >= r \/ (x \in anc[r] /\ x >= root)
      <4>1. x \in Slots /\ x \in Nat
        BY Zenon, <2>0, <3>1
      <4>2. x >= r \/ x <= r
        BY <1>3, <4>1
      <4>3. x >= r => x >= root
        BY <1>3, <4>1
      <4>. QED
        BY Zenon, <3>3, <4>1, <4>2, <4>3
    <3>5. ASSUME NEW x \in anc[r]
          PROVE  x \in roots \/ (x \in anc[u] /\ x >= root)
      <4>1. x \in Slots /\ x \in Nat /\ (x <= root \/ x >= root)
        BY <1>3
      <4>. QED
        BY Zenon, <1>3, <3>3, <4>1
    <3>. QED
      BY Zenon, <3>2, <3>4, <3>5
  <2>. QED
    BY Zenon, <2>1, <2>2, <2>3
<1>9. \A u \in Live' : u \in Live /\ Line(u)' = Line(u) /\ Line(u) \subseteq Live
  BY Zenon, <1>2, <1>7, <1>8, LineFacts
<1>10. ASSUME NEW k \in Keys
       PROVE  Held(k, entries[k])'
  <2> DEFINE es == entries[k]
             rooted == {e \in es : e.dep < r /\ (OnForkOf(e.dep, r) \/ e.dep <= cacheRoot)}
             above == {e \in es : e.dep >= r /\ AboveOrEqual(e.dep, r)}
  <2>1. entries'[k] = above \cup {e \in rooted : \A f \in rooted \ {e} : Later(e, f)}
    BY Zenon, <1>1 DEF Pruned
  <2>2. \A e \in es : e.dep \in Live /\ EntryOK(k, e) /\ e.dep \in Nat
    BY Zenon, <1>2 DEF Held, Versions, Programs
  <2>3. Known(r) /\ InForks(r)
    BY Zenon, <1>2, <1>3 DEF Known, Forks
  <2>4. ASSUME NEW e \in rooted
        PROVE  e.dep \in roots \cup anc[r]
    <3>1. CASE OnForkOf(e.dep, r)
      BY Zenon, <1>3, <2>2, <3>1 DEF OnForkOf
    <3>2. CASE e.dep <= cacheRoot
      BY Zenon, <1>2, <2>2, <3>2, LiveFacts
    <3>. QED
      BY Zenon, <3>1, <3>2
  <2>5. ASSUME NEW e \in above
        PROVE  e.dep \in Live'
    BY Zenon, <1>3, <1>6 DEF AboveOrEqual
  <2>6. ASSUME NEW e \in es, e.dep \in roots \cup anc[r], e.dep < r
        PROVE  e \in rooted
    <3>1. CASE e.dep \in roots
      BY Zenon, <1>2, <1>3, <2>6, <3>1
    <3>2. CASE e.dep \in anc[r] /\ e.dep \notin roots
      <4>1. root <= e.dep /\ e.dep \in Forks
        BY <1>3, <2>2, <3>2
      <4>2. Known(e.dep)
        BY Zenon, <1>2, <1>3, <2>6, <3>2, <4>1 DEF Known
      <4>3. OnForkOf(e.dep, r)
        BY Zenon, <2>3, <3>2, <4>2 DEF OnForkOf
      <4>. QED
        BY Zenon, <2>6, <4>3
    <3>. QED
      BY Zenon, <2>6, <3>1, <3>2
  <2>7. ASSUME rooted # {}
        PROVE  \E g \in entries'[k] : g \in rooted /\ \A e \in rooted : g.dep >= e.dep
    <3>1. Versions(rooted) /\ Entries(k, rooted) /\ ClosedLast(k)
      BY Zenon, <1>2, <2>2 DEF Versions, Entries
    <3> HIDE DEF rooted
    <3>2. /\ Latest(rooted) \in rooted
          /\ \A f \in rooted : Latest(rooted).dep >= f.dep
          /\ \A f \in rooted \ {Latest(rooted)} : Later(Latest(rooted), f)
      BY Zenon, <1>2, <2>7, <3>1, LatestEntry
    <3>. QED
      BY Zenon, <2>1, <3>2
  <2>8. ASSUME NEW e \in entries'[k]
        PROVE  e.dep \in Live' /\ EntryOK(k, e)'
    <3>1. e \in es /\ e.dep \in Live'
      BY Zenon, <1>6, <2>1, <2>4, <2>5
    <3>. QED
      BY Zenon, <1>1, <1>9, <2>2, <3>1, KeptEntries
  <2>9. ASSUME NEW x \in Live', x > 0, accts'[k][x] # None
        PROVE  Covered(entries[k], x)'
    <3>0. x \in Live /\ x \in Nat /\ accts[k][x] # None
      BY Zenon, <1>1, <1>7, <2>9
    <3>1. Covered(es, x)
      BY Zenon, <1>2, <2>9, <3>0 DEF Held
    <3>2. CASE x >= r
      <4>1. x \in Forks /\ r \in anc[x] /\ x \notin roots
        BY <1>3, <1>7, <3>0, <3>2
      <4>2. PICK e \in es : e.dep = x
        BY Zenon, <1>2, <3>1, <4>1 DEF Covered
      <4>3. Known(x)
        BY <1>3, <3>0, <3>2, <4>1 DEF Known
      <4>4. AboveOrEqual(e.dep, r) /\ e.dep >= r
        BY Zenon, <2>3, <3>2, <4>1, <4>2, <4>3 DEF AboveOrEqual
      <4>5. e \in entries'[k]
        BY Zenon, <2>1, <4>4
      <4>. QED
        BY Zenon, <4>2, <4>5 DEF Covered
    <3>3. CASE x < r
      <4>1. x \in roots \cup anc[r]
        BY Zenon, <1>5, <1>7, <3>3
      <4>2. PICK e \in es : e.dep \in roots \cup anc[r] /\ e.dep >= x /\ e.dep < r
        <5>1. CASE \E e \in es : e.dep = x
          BY <3>0, <3>3, <4>1, <5>1
        <5>2. CASE \E e \in es : e.dep \in roots /\ e.dep > x
          BY <1>3, <3>0, <5>2
        <5>. QED
          BY Zenon, <1>2, <3>1, <5>1, <5>2 DEF Covered
      <4>3. e \in rooted
        BY Zenon, <2>6, <4>2
      <4>4. PICK g \in entries'[k] : g \in rooted /\ g.dep >= e.dep
        BY Zenon, <2>7, <4>3
      <4>5. g.dep \in Base' /\ g.dep \in Nat /\ e.dep \in Nat
        BY Zenon, <1>5, <2>2, <2>4, <4>4
      <4>6. g.dep = x \/ g.dep > x
        BY <3>0, <4>2, <4>4, <4>5
      <4>. QED
        BY Zenon, <1>5, <4>1, <4>5, <4>6 DEF Covered
    <3>. QED
      BY <1>3, <3>0, <3>2, <3>3
  <2>. QED
    BY Zenon, <2>8, <2>9 DEF Held
<1>11. \A k \in Keys : ClosedLast(k)'
  BY Zenon, <1>1, <1>2, <1>9, KeptEntries
<1>12. \A t \in Threads : BatchOK(t)'
  BY Zenon, <1>1, IdleBatches
<1>. QED
  BY Zenon, <1>4, <1>10, <1>11, <1>12 DEF ForkInv, EntriesInv

-----------------------------------------------------------------------------
(* The bank forks follow the cache to the new root.                        *)
LEMMA SetRootFork ==
    ASSUME Local, Inv, ForkInv, SetRoot
    PROVE  ForkInv'
<1> DEFINE r == replay.slot
<1>1. /\ replay.pc = "root" /\ root' = r /\ roots' = roots \cup anc[r]
      /\ bank' = [s \in Slots |-> IF InForks(s) /\ r \notin anc[s] THEN "gone" ELSE bank[s]]
      /\ replay' = [replay EXCEPT !.pc = "idle", !.slot = 0]
      /\ anc' = anc /\ accts' = accts /\ entries' = entries /\ cacheRoot' = cacheRoot /\ thr' = thr
  BY Zenon DEF SetRoot, cacheVars
<1>2. /\ BanksInv /\ TreeInv /\ ReplayInv /\ EntriesInv /\ cacheRoot = r /\ bank[r] = "frozen" /\ r \in Forks
      /\ replay.todo = {} /\ \A t \in Threads : thr[t].pc = "idle"
  BY Zenon, <1>1 DEF Inv, BanksInv, ForkInv, ReplayInv, Forks, InForks
<1>3. replay'.pc = "idle" /\ replay'.todo = {}
  BY Zenon, <1>1, <1>2 DEF BanksInv
<1> HIDE DEF r
<1>4. /\ r \in Slots /\ r \in Nat /\ root \in Nat /\ root <= r /\ root \in anc[r] /\ r \in anc[r]
      /\ \A x \in anc[r] : x \in Slots /\ x \in Nat /\ x <= r
      /\ \A x \in anc[r] : x <= root => x \in roots
      /\ \A x \in anc[r] : x >= root => bank[x] = "frozen" /\ x \in Forks
      /\ \A u \in Forks : r \in anc[u] =>
            \A x \in Slots : x >= root => (x \in anc[r] <=> x \in anc[u] /\ x <= r)
      /\ \A x \in roots : x \in Nat /\ x <= root
      /\ \A x \in Slots : x \in Nat /\ anc[x] \subseteq Slots
  <2>1. (\A x \in roots : x \in Nat /\ x <= root) /\ \A x \in Slots : x \in Nat /\ anc[x] \subseteq Slots
    BY Zenon, <1>2, Numbers DEF TreeInv, BanksInv
  <2>. QED
    BY Zenon, <1>2, <2>1, NewRoot
<1>5. Forks' = {s \in Forks : r \in anc[s]} /\ \A s \in Forks' : bank'[s] = bank[s]
  BY Zenon, <1>1 DEF Forks, InForks
<1>6. Base' = Base /\ Live' = Live
  <2>1. Base = roots \cup anc[r] /\ Base' = roots \cup anc[r]
    BY Zenon, <1>1, <1>3 DEF Base, r
  <2>. QED
    BY Zenon, <1>1, <1>2, <1>5, <2>1 DEF Live
<1>7. \A s : Line(s)' = Line(s)
  BY Zenon, <1>1, <1>6 DEF Line
<1>8. EntriesInv'
  <2> SUFFICES ASSUME NEW k \in Keys
               PROVE  Held(k, entries[k])' /\ ClosedLast(k)'
    BY Zenon DEF EntriesInv
  <2>1. Held(k, entries[k]) /\ ClosedLast(k)
    BY Zenon, <1>2 DEF EntriesInv
  <2>2. ClosedLast(k)'
    BY Zenon, <1>1, <1>6, <1>7, <2>1 DEF ClosedLast
  <2>3. \A e : EntryOK(k, e) => EntryOK(k, e)'
    BY Zenon, <1>1, <1>7 DEF EntryOK
  <2>4. \A x : Covered(entries[k], x) => Covered(entries[k], x)'
    BY Zenon, <1>1, <1>6 DEF Covered
  <2>. QED
    BY Zenon, <1>1, <1>2, <1>6, <2>1, <2>2, <2>3, <2>4 DEF Held
<1>9. TreeInv'
  <2>1. bank'[r] = "frozen"
    BY Zenon, <1>2, <1>4, <1>5
  <2>2. \A x \in roots \cup anc[r] : x <= r
    BY <1>4
  <2>3. ASSUME NEW s \in Forks'
        PROVE  r \in anc[s] /\ s \in Forks /\ s \in Slots /\ \A a \in anc[s] : a <= s /\ a \in Slots /\ a \in Nat
    BY Zenon, <1>2, <1>4, <1>5 DEF TreeInv, Forks
  <2>4. ASSUME NEW s \in Forks', NEW a \in anc[s], a < r
        PROVE  a \in roots \cup anc[r]
    <3>1. r \in anc[s] /\ s \in Forks /\ a \in Slots /\ a \in Nat
      BY Zenon, <2>3
    <3>2. a < root => a \in roots
      BY Zenon, <1>2, <3>1 DEF TreeInv
    <3>3. a >= root => a \in anc[r]
      <4>1. a <= r
        BY <1>4, <2>4, <3>1
      <4>. QED
        BY Zenon, <1>4, <3>1, <4>1
    <3>. QED
      BY <1>4, <3>1, <3>2, <3>3
  <2>5. ASSUME NEW s \in Forks', NEW a \in anc[s], a >= r
        PROVE  /\ bank'[a] = "frozen" \/ a = s
               /\ \A x \in Slots : x >= r => (x \in anc[a] <=> x \in anc[s] /\ x <= a)
    <3>1. r \in anc[s] /\ s \in Forks /\ a \in Slots /\ a \in Nat
      BY Zenon, <2>3
    <3>2. a >= root /\ r >= root /\ r <= a
      BY <1>4, <2>5, <3>1
    <3>3. /\ bank[a] = "frozen" \/ a = s
          /\ \A x \in Slots : x >= root => (x \in anc[a] <=> x \in anc[s] /\ x <= a)
      BY Zenon, <1>2, <3>1, <3>2 DEF TreeInv
    <3>4. r \in anc[a]
      BY Zenon, <1>4, <3>1, <3>2, <3>3
    <3>5. bank[a] = "frozen" => bank'[a] = "frozen"
      BY Zenon, <1>1, <3>1, <3>4
    <3>6. \A x \in Slots : x >= r => x >= root
      BY <1>4
    <3>. QED
      BY Zenon, <3>3, <3>5, <3>6
  <2>. QED
    BY Zenon, <1>1, <2>1, <2>2, <2>3, <2>4, <2>5 DEF TreeInv
<1>10. ReplayInv'
  <2>1. \A s \in Slots : bank'[s] \in {"unused", "dumped"} => bank[s] \in {"unused", "dumped"}
    BY Zenon, <1>1 DEF InForks
  <2>2. \A s \in anc[r] : bank[s] = "frozen" \/ s \in roots
    BY <1>4
  <2>. QED
    BY Zenon, <1>1, <1>2, <1>3, <2>1, <2>2 DEF ReplayInv
<1>11. \A t \in Threads : BatchOK(t)'
  BY Zenon, <1>1, <1>2, IdleBatches
<1>. QED
  BY Zenon, <1>8, <1>9, <1>10, <1>11 DEF ForkInv

(* A duplicate slot and its descendants are dumped.                        *)
LEMMA DumpBanksFork ==
    ASSUME Local, Inv, ForkInv, NEW s \in Slots, DumpBanks(s)
    PROVE  ForkInv'
<1> DEFINE out == {c \in Forks : s \in anc[c]}
<1>1. /\ replay.pc = "idle" /\ \A t \in Threads : thr[t].pc = "idle"
      /\ bank[s] = "frozen" /\ root \in anc[s] /\ s # root
      /\ bank' = [c \in Slots |-> IF c \in out THEN "dumped" ELSE bank[c]]
      /\ replay' = [pc |-> "purge", slot |-> 0, todo |-> out]
      /\ anc' = anc /\ root' = root /\ roots' = roots /\ accts' = accts /\ entries' = entries
      /\ cacheRoot' = cacheRoot /\ thr' = thr
  BY Zenon DEF DumpBanks, ReplayIdle, cacheVars, Local, Threads
<1>2. /\ BanksInv /\ TreeInv /\ ReplayInv /\ EntriesInv /\ cacheRoot = root /\ replay.todo = {} /\ s \in Forks
  BY Zenon, <1>1 DEF Inv, ForkInv, ReplayInv, Forks, InForks
<1>3. /\ s \in Nat /\ root \in Nat /\ root < s
      /\ \A u \in Forks : anc[u] \subseteq Slots /\ u \in Nat /\ u \in Slots
      /\ \A u \in out : u > root /\ u \notin roots /\ u \in Slots
  <2>1. s \in Nat /\ root \in Nat /\ root <= s /\ \A u \in Forks : anc[u] \subseteq Slots /\ u \in Nat /\ u \in Slots
    BY Zenon, <1>1, <1>2, Numbers DEF TreeInv, BanksInv, Forks
  <2>2. root < s
    BY <1>1, <2>1
  <2>3. \A u \in out : s <= u
    BY Zenon, <1>2 DEF TreeInv
  <2>4. \A u \in out : u > root /\ u \in Slots
    BY <2>1, <2>2, <2>3
  <2>. QED
    BY <1>2, <2>1, <2>2, <2>4 DEF TreeInv
<1>4. Forks' = Forks \ out /\ \A c \in Slots \ out : bank'[c] = bank[c]
  BY Zenon, <1>1 DEF Forks, InForks
<1>5. Base' = Base /\ Base = roots
  BY Zenon, <1>1 DEF Base
<1>6. Live' = Live \ out
  BY Zenon, <1>1, <1>3, <1>4, <1>5 DEF Live
<1>7. \A u \in Live' : u \in Live /\ Line(u)' = Line(u) /\ Line(u) \subseteq Live
  <2>1. \A u : Line(u)' = Line(u)
    BY Zenon, <1>1, <1>5 DEF Line
  <2>. QED
    BY Zenon, <1>2, <1>6, <2>1, LineFacts
<1>8. TreeInv'
  <2>1. root \notin out /\ root \in Slots
    BY Zenon, <1>3 DEF Inv, BanksInv
  <2>2. ASSUME NEW u \in Forks \ out, NEW a \in anc[u], a >= root
        PROVE  /\ bank'[a] = "frozen" \/ a = u
               /\ \A x \in Slots : x >= root => (x \in anc[a] <=> x \in anc[u] /\ x <= a)
    <3>1. /\ bank[a] = "frozen" \/ a = u
          /\ \A x \in Slots : x >= root => (x \in anc[a] <=> x \in anc[u] /\ x <= a)
      BY Zenon, <1>2, <2>2 DEF TreeInv
    <3>2. a \in Slots
      BY Zenon, <1>3
    <3>3. s \in anc[a] => s \in anc[u]
      BY <1>3, <3>1
    <3>4. a \notin out
      BY Zenon, <3>3
    <3>. QED
      BY Zenon, <1>4, <3>1, <3>2, <3>4
  <2>3. bank'[root] = "frozen"
    BY Zenon, <1>2, <1>4, <2>1 DEF TreeInv
  <2>. QED
    BY <1>1, <1>2, <1>4, <2>2, <2>3 DEF TreeInv
<1>9. ReplayInv'
  <2>1. \A u \in out : bank'[u] = "dumped"
    BY Zenon, <1>1, <1>3
  <2> HIDE DEF out
  <2>2. replay'.pc = "purge" /\ replay'.todo = out
    BY Zenon, <1>1
  <2>3. ASSUME NEW x \in Slots, bank'[x] \in {"unused", "dumped"}
        PROVE  x \notin roots /\ (x \notin out => \A k \in Keys : accts[k][x] = None)
    <3>1. x \notin out => bank[x] \in {"unused", "dumped"}
      BY Zenon, <1>4, <2>3
    <3>. QED
      BY Zenon, <1>2, <1>3, <3>1 DEF ReplayInv
  <2>. QED
    BY Zenon, <1>1, <1>2, <2>1, <2>2, <2>3 DEF ReplayInv
<1>10. ASSUME NEW k \in Keys
       PROVE  Held(k, entries[k])' /\ ClosedLast(k)'
  <2>1. Held(k, entries[k]) /\ ClosedLast(k)
    BY Zenon, <1>2 DEF EntriesInv
  <2>2. /\ ClosedLast(k)'
        /\ \A e : e.dep \in Live' /\ EntryOK(k, e) => EntryOK(k, e)'
    BY Zenon, <1>1, <1>7, <2>1, KeptEntries
  <2>3. \A x : Covered(entries[k], x) => Covered(entries[k], x)'
    BY Zenon, <1>1, <1>5 DEF Covered
  <2> HIDE DEF out
  <2>4. replay'.todo = out
    BY Zenon, <1>1
  <2>5. \A e \in entries[k] : (e.dep \in Live' /\ EntryOK(k, e)') \/ e.dep \in out
    BY Zenon, <1>2, <1>6, <2>1, <2>2 DEF Held
  <2>6. Held(k, entries[k])'
    BY Zenon, <1>1, <1>6, <2>1, <2>3, <2>4, <2>5 DEF Held
  <2>. QED
    BY Zenon, <2>2, <2>6
<1>11. \A t \in Threads : BatchOK(t)'
  BY Zenon, <1>1, IdleBatches
<1>. QED
  BY Zenon, <1>8, <1>9, <1>10, <1>11 DEF ForkInv, EntriesInv

(* The accounts of the dumped slots are purged.                            *)
LEMMA DumpAccountsFork ==
    ASSUME Local, Inv, ForkInv, DumpAccounts
    PROVE  ForkInv'
<1>1. /\ replay.pc = "purge"
      /\ accts' = [k \in Keys |-> [s \in Slots |-> IF s \in replay.todo THEN None ELSE accts[k][s]]]
      /\ replay' = [replay EXCEPT !.pc = "prune"]
      /\ bank' = bank /\ anc' = anc /\ root' = root /\ roots' = roots /\ entries' = entries
      /\ cacheRoot' = cacheRoot /\ thr' = thr
  BY Zenon DEF DumpAccounts, cacheVars
<1>2. /\ BanksInv /\ TreeInv /\ ReplayInv /\ EntriesInv /\ \A t \in Threads : thr[t].pc = "idle"
      /\ replay'.pc = "prune" /\ replay'.todo = replay.todo /\ replay'.slot = replay.slot
  BY Zenon, <1>1 DEF Inv, ForkInv, ReplayInv, BanksInv
<1>3. /\ Forks' = Forks /\ Base' = Base /\ Live' = Live /\ \A s : Line(s)' = Line(s)
  <2>1. Forks' = Forks
    BY Zenon, <1>1 DEF Forks, InForks
  <2>2. Base' = Base
    BY Zenon, <1>1, <1>2 DEF Base
  <2>3. Live' = Live /\ \A s : Line(s)' = Line(s)
    BY Zenon, <1>1, <2>1, <2>2 DEF Live, Line
  <2>. QED
    BY Zenon, <2>1, <2>2, <2>3
<1>4. \A k \in Keys, x \in Live : accts'[k][x] = accts[k][x]
  BY Zenon, <1>1, <1>2, LiveFacts
<1>5. TreeInv'
  BY <1>1, <1>2, <1>3 DEF TreeInv
<1>6. ReplayInv'
  BY Zenon, <1>1, <1>2 DEF ReplayInv
<1>7. ASSUME NEW k \in Keys
      PROVE  Held(k, entries[k])' /\ ClosedLast(k)'
  <2>1. Held(k, entries[k]) /\ ClosedLast(k)
    BY Zenon, <1>2 DEF EntriesInv
  <2>2. \A s \in Live : \A c \in Line(s) : accts'[k][c] = accts[k][c]
    BY Zenon, <1>2, <1>4, LineFacts
  <2>3. ClosedLast(k)'
    BY Zenon, <1>3, <2>1, <2>2 DEF ClosedLast
  <2>4. \A e : e.dep \in Live /\ EntryOK(k, e) => EntryOK(k, e)'
    BY Zenon, <1>3, <1>4, <2>2 DEF EntryOK
  <2>5. \A x : Covered(entries[k], x) => Covered(entries[k], x)'
    BY Zenon, <1>1, <1>3 DEF Covered
  <2>6. Held(k, entries[k])'
    BY Zenon, <1>1, <1>2, <1>3, <1>4, <2>1, <2>4, <2>5 DEF Held
  <2>. QED
    BY Zenon, <2>3, <2>6
<1>8. \A t \in Threads : BatchOK(t)'
  BY Zenon, <1>1, <1>2, IdleBatches
<1>. QED
  BY Zenon, <1>5, <1>6, <1>7, <1>8 DEF ForkInv, EntriesInv

(* The programs of a dumped slot are taken out of the cache.               *)
LEMMA DumpProgramsFork ==
    ASSUME Local, Inv, ForkInv, NEW s \in Slots, DumpPrograms(s)
    PROVE  ForkInv'
<1>1. /\ replay.pc = "prune" /\ s \in replay.todo
      /\ entries' = [k \in Keys |-> {e \in entries[k] : e.dep # s}]
      /\ replay' = [replay EXCEPT !.todo = @ \ {s}, !.pc = IF replay.todo = {s} THEN "idle" ELSE "prune"]
      /\ bank' = bank /\ anc' = anc /\ root' = root /\ roots' = roots /\ accts' = accts
      /\ cacheRoot' = cacheRoot /\ thr' = thr
  BY Zenon DEF DumpPrograms
<1>2. /\ BanksInv /\ TreeInv /\ ReplayInv /\ EntriesInv /\ \A t \in Threads : thr[t].pc = "idle"
      /\ replay'.todo = replay.todo \ {s} /\ replay'.slot = replay.slot
      /\ replay'.pc = IF replay.todo = {s} THEN "idle" ELSE "prune"
  BY Zenon, <1>1 DEF Inv, ForkInv, ReplayInv, BanksInv
<1>3. /\ Forks' = Forks /\ Base' = Base /\ Live' = Live /\ \A x : Line(x)' = Line(x)
  <2>1. Forks' = Forks
    BY Zenon, <1>1 DEF Forks, InForks
  <2>2. Base' = Base
    BY <1>1, <1>2 DEF Base
  <2>3. Live' = Live /\ \A x : Line(x)' = Line(x)
    BY Zenon, <1>1, <2>1, <2>2 DEF Live, Line
  <2>. QED
    BY Zenon, <2>1, <2>2, <2>3
<1>4. TreeInv'
  BY <1>1, <1>2, <1>3 DEF TreeInv
<1>5. ReplayInv'
  BY <1>1, <1>2 DEF ReplayInv
<1>6. s \notin Live /\ Base \subseteq Live
  BY Zenon, <1>1, <1>2, LiveFacts DEF Live
<1>7. ASSUME NEW k \in Keys
      PROVE  Held(k, entries[k])' /\ ClosedLast(k)'
  <2>1. Held(k, entries[k]) /\ ClosedLast(k) /\ entries'[k] = {e \in entries[k] : e.dep # s}
    BY Zenon, <1>1, <1>2 DEF EntriesInv
  <2>2. ClosedLast(k)'
    BY Zenon, <1>1, <1>3, <2>1 DEF ClosedLast
  <2>3. \A e : EntryOK(k, e) => EntryOK(k, e)'
    BY Zenon, <1>1, <1>3 DEF EntryOK
  <2>4. \A x \in Live : Covered(entries[k], x) => Covered(entries[k], x)'
    BY Zenon, <1>3, <1>6, <2>1 DEF Covered
  <2>5. Held(k, entries[k])'
    BY Zenon, <1>1, <1>2, <1>3, <2>1, <2>3, <2>4 DEF Held
  <2>. QED
    BY Zenon, <2>2, <2>5
<1>8. \A t \in Threads : BatchOK(t)'
  BY Zenon, <1>1, <1>2, IdleBatches
<1>. QED
  BY Zenon, <1>4, <1>5, <1>7, <1>8 DEF ForkInv, EntriesInv

(* The first bank is the root.                                             *)
LEMMA InitFork == Init => ForkInv
<1> SUFFICES ASSUME Init
             PROVE  ForkInv
  BY Zenon
<1>1. /\ \A s \in Slots : bank[s] = IF s = 0 THEN "frozen" ELSE "unused"
      /\ anc[0] = {0} /\ root = 0 /\ roots = {0} /\ cacheRoot = 0 /\ 0 \in Slots
      /\ replay.pc = "idle" /\ replay.todo = {}
      /\ \A k \in Keys : entries[k] = {} /\ \A s \in Slots : s # 0 => accts[k][s] = None
      /\ \A k \in Keys : accts[k][0] # Closed
      /\ \A t \in Threads : thr[t] = IdleThread
  BY Zenon, Numbers, NoneAssumption DEF Init
<1>2. Forks = {0} /\ Base = {0} /\ Live = {0} /\ Line(0) = {0}
  BY <1>1 DEF Forks, InForks, Base, Live, Line
<1>3. TreeInv
  BY <1>1, <1>2 DEF TreeInv
<1>4. ReplayInv
  BY Zenon, <1>1, IdleFacts DEF ReplayInv
<1>5. EntriesInv
  BY <1>1, <1>2 DEF EntriesInv, Held, ClosedLast
<1>6. \A t \in Threads : BatchOK(t)
  BY Zenon, <1>1, IdleFacts DEF BatchOK
<1>. QED
  BY Zenon, <1>3, <1>4, <1>5, <1>6 DEF ForkInv

(* Every step keeps the invariant of the forks.                            *)
LEMMA NextFork ==
    ASSUME Topped, Local, Inv, ForkInv, [Next]_vars
    PROVE  ForkInv'
<1>1. ASSUME NEW t \in Threads,
             (\E s \in Slots, keys \in SUBSET Keys : Begin(t, s, keys)) \/ Load(t) \/ Wake(t) \/ End(t)
      PROVE  ForkInv'
  BY Zenon, <1>1, BatchFork
<1>2. ASSUME NEW t \in Threads, Round(t)
      PROVE  ForkInv'
  BY Zenon, <1>2, RoundFork
<1>3. ASSUME NEW k \in Keys, NEW e \in entries[k], Evict(k, e)
      PROVE  ForkInv'
  BY Zenon, <1>3, EvictFork
<1>4. ASSUME NEW s \in Slots, NEW k \in Keys, Close(s, k)
      PROVE  ForkInv'
  <2>1. /\ Modify(s, k, Tombstone(s, "closed"), Closed) /\ Open(s, k) /\ Closed # None
        /\ Tombstone(s, "closed") \in Programs
    BY Zenon, <1>4, DeployedType, NoneAssumption DEF Close
  <2>. QED
    BY Zenon, <2>1, ModifyFork
<1>5. ASSUME NEW s \in Slots, NEW k \in Keys, NEW code \in Codes, Deploy(s, k, code)
      PROVE  ForkInv'
  <2>1. /\ Modify(s, k, Loaded(s, code), code) /\ Open(s, k) /\ code # None /\ code # Closed
        /\ Loaded(s, code) \in Programs
    BY Zenon, <1>5, DeployedType, NoneAssumption DEF Deploy
  <2>. QED
    BY Zenon, <2>1, ModifyFork
<1>6. CASE BankStep
  BY Zenon, <1>6, NewBankFork, FreezeFork, PruneFork, DumpBanksFork, DumpProgramsFork,
     SetRootFork, DumpAccountsFork DEF BankStep
<1>7. CASE UNCHANGED vars
  <2>1. /\ bank' = bank /\ anc' = anc /\ root' = root /\ roots' = roots /\ accts' = accts /\ replay' = replay
        /\ entries' = entries /\ cacheRoot' = cacheRoot /\ thr' = thr
    BY Zenon, <1>7 DEF vars, bankVars, cacheVars
  <2>2. Forks' = Forks /\ Base' = Base
    BY Zenon, <2>1 DEF Forks, InForks, Base
  <2>3. Live' = Live /\ \A s : Line(s)' = Line(s)
    BY Zenon, <2>1, <2>2 DEF Live, Line
  <2>4. TreeInv'
    BY Zenon, <2>1, <2>2 DEF ForkInv, TreeInv
  <2>5. ReplayInv'
    BY Zenon, <2>1 DEF ForkInv, ReplayInv
  <2>6. ASSUME NEW k \in Keys
        PROVE  Held(k, entries[k])' /\ ClosedLast(k)'
    <3>1. Held(k, entries[k]) /\ ClosedLast(k)
      BY Zenon DEF ForkInv, EntriesInv
    <3>2. ClosedLast(k)'
      BY Zenon, <2>1, <2>3, <3>1 DEF ClosedLast
    <3>3. \A e : EntryOK(k, e) => EntryOK(k, e)'
      BY Zenon, <2>1, <2>3 DEF EntryOK
    <3>4. \A x : Covered(entries[k], x) => Covered(entries[k], x)'
      BY Zenon, <2>1, <2>2 DEF Covered
    <3>. QED
      BY Zenon, <2>1, <2>3, <3>1, <3>2, <3>3, <3>4 DEF Held
  <2>7. \A t \in Threads : BatchOK(t)'
    BY Zenon, <2>1, SameBatches DEF ForkInv
  <2>. QED
    BY Zenon, <2>4, <2>5, <2>6, <2>7 DEF ForkInv, EntriesInv
<1>. QED
  BY Zenon, <1>1, <1>2, <1>3, <1>4, <1>5, <1>6, <1>7 DEF Next, ThreadStep, BankStep

-----------------------------------------------------------------------------
(* From here on the facts about well-founded relations are in scope.       *)
INSTANCE WellFoundedInduction

(* Some slots have a latest one.                                           *)
LEMMA ToppedHolds == Topped
<1> SUFFICES ASSUME NEW S \in SUBSET Slots, S # {}
             PROVE  \E x \in S : \A y \in S : x >= y
  BY Zenon DEF Topped
<1> DEFINE T == {MaxSlot - x : x \in S}
<1>1. MaxSlot \in Nat /\ \A x \in S : x \in Nat /\ x <= MaxSlot
  BY BoundsAssumption DEF Slots
<1>2. T \subseteq Nat /\ T # {}
  BY <1>1
<1> HIDE DEF T
<1>3. PICK d \in T : \A e \in T : ~(<<e, d>> \in OpToRel(<, Nat))
  BY Zenon, <1>2, NatLessThanWellFounded, WFMin
<1>4. \A e \in T : ~(e < d)
  BY Zenon, <1>2, <1>3 DEF OpToRel
<1>5. PICK x \in S : d = MaxSlot - x
  BY Zenon, <1>3 DEF T
<1>6. \A y \in S : ~(MaxSlot - y < d)
  BY Zenon, <1>4 DEF T
<1>. QED
  BY <1>1, <1>5, <1>6

(* Every reachable state satisfies the invariant of the cache.             *)
LEMMA SpecInv == Spec => []Inv
<1>1. Init => Inv
  BY Zenon, InitInv
<1>2. Inv /\ [Next]_vars => Inv'
  BY Zenon, ToppedHolds, NextInv
<1>. QED
  BY <1>1, <1>2, PTL DEF Spec

(* With replay alone, every reachable state satisfies the forks' too.      *)
LEMMA SpecForkInv ==
    ASSUME Local
    PROVE  Spec => []ForkInv
<1>1. Init => ForkInv
  BY Zenon, InitFork
<1>2. Inv /\ ForkInv /\ [Next]_vars => ForkInv'
  BY Zenon, ToppedHolds, NextFork
<1>. QED
  BY <1>1, <1>2, SpecInv, PTL DEF Spec

(* The variables keep their types, and slot_versions never holds two       *)
(* entries of one deployment and effective slot, whatever the batches load *)
(* and insert, and whatever is deployed, closed, evicted, pruned or dumped *)
(* meanwhile.                                                              *)
THEOREM TypeCorrect == Spec => []TypeOK
<1>1. Inv => TypeOK
  BY Zenon DEF Inv, BanksInv, AccountsInv, CacheInv, LoadersInv, ThreadOK, Versions, TypeOK
<1>. QED
  BY <1>1, SpecInv, PTL

(* A program is locked exactly while one batch loads it, by that batch:    *)
(* the cooperative loading of extract and finish_cooperative_loading_task  *)
(* never has two loaders of a program and never leaks a lock.              *)
THEOREM LockedWhileLoaded == Spec => []LoaderHoldsLock
<1>1. Inv => LoaderHoldsLock
  BY Zenon DEF Inv, LoadersInv
<1>. QED
  BY <1>1, SpecInv, PTL

(* No wake-up is lost: a batch that sleeps in replenish_program_cache, and *)
(* that no notification is due to, waits for a program that some other     *)
(* batch is loading.                                                       *)
THEOREM NoLostWakeUp == Spec => []SleepersWillWake
<1>1. Inv => SleepersWillWake
  BY Zenon DEF Inv, LoadersInv
<1>. QED
  BY <1>1, SpecInv, PTL

(* On a grid that reads no program from the base layer, with replay as the *)
(* only user of the cache, a replayed batch runs every program as its own  *)
(* fork last deployed it, for any number of batches, programs and slots,   *)
(* across evictions, new roots and dumped banks.                           *)
THEOREM ReplayRunsItsFork ==
    ASSUME Local
    PROVE  Spec => []BatchGetsForkProgram
<1>1. ForkInv => BatchGetsForkProgram
  BY Zenon DEF ForkInv, BatchOK, BatchGetsForkProgram, Threads
<1>. QED
  BY <1>1, SpecForkInv, PTL

(* And a program it has loaded is never missing to it again: the loop of   *)
(* replenish_program_cache loads a program at most once.                   *)
THEOREM ReplayLoadsOnce ==
    ASSUME Local
    PROVE  Spec => []LoadsOnce
<1>1. ASSUME Inv, ForkInv, NEW t \in ReplayThreads
      PROVE  thr[t].missing \cap thr[t].done = {}
  BY Zenon, <1>1, IdleFacts DEF ForkInv, BatchOK, Threads
<1>2. Inv /\ ForkInv => LoadsOnce
  BY Zenon, <1>1 DEF LoadsOnce
<1>. QED
  BY <1>2, SpecInv, SpecForkInv, PTL

=============================================================================
