---------------------------- MODULE ProgramCache ----------------------------
(***************************************************************************)
(* The cache of loaded programs that all banks share (LoadedPrograms), as  *)
(* the batches of transactions fill it (replenish_program_cache): each     *)
(* program is loaded by one batch at a time, outside the cache's lock, and *)
(* the batches that need it sleep until a load is finished. An entry is    *)
(* visible to the forks its deployment slot is on. Replay creates, roots   *)
(* and dumps banks and prunes the cache with them.                         *)
(***************************************************************************)
EXTENDS Naturals, FiniteSets, FiniteSetsExt

CONSTANTS
    Keys,          \* program addresses
    RemoteKeys,    \* the programs that come from the base layer
    RemoteVerifies, \* do they verify in the environment of the grid?
    BaseSlot,      \* the slot of the base layer they were deployed in
    Codes,         \* program texts
    ReplayThreads, \* the replay stage's threads
    LimitThreads,  \* banking threads and simulations (limit_to_load_programs)
    MaxSlot,       \* bound: slots
    MaxDumps,      \* bound: dumps of a duplicate slot
    MaxVersions,   \* bound: the slots that hold a version of a program at a time
    Closed,        \* the data of a program that was closed
    None

Slots == 0 .. MaxSlot
Threads == ReplayThreads \cup LimitThreads

ASSUME KeysAssumption == RemoteKeys \subseteq Keys
ASSUME BoundsAssumption == MaxSlot \in Nat /\ MaxDumps \in Nat /\ MaxVersions \in Nat /\ BaseSlot \in Nat
ASSUME RemoteAssumption == RemoteVerifies \in BOOLEAN
ASSUME CodesAssumption == Codes \subseteq Nat
ASSUME ThreadsAssumption == ReplayThreads \cap LimitThreads = {}
ASSUME NoneAssumption ==
    /\ None \notin Keys /\ Closed # None
    /\ \A c \in Codes \cup {0} : c # None /\ c # Closed
    /\ \A s \in Slots, t \in Threads : <<s, t>> # None
    /\ \A kind \in {"loaded", "closed", "delayed"}, c \in Codes \cup {0} : [kind |-> kind, code |-> c] # None

VARIABLES
    bank,      \* BankForks: the bank of each slot
    anc,       \* Bank::ancestors of the bank of each slot
    root,      \* BankForks::root
    roots,     \* the slots rooted so far
    accts,     \* the programdata accounts written in each slot: a code, or Closed
    entries,   \* LoadedPrograms::entries, the slot_versions of each program
    lock,      \* SecondLevel::cooperative_loading_lock
    cacheRoot, \* LoadedPrograms::latest_root_slot
    notified,  \* the threads whose cookie is no longer the current one
    thr,       \* the batches
    replay,    \* what the replay stage does to banks
    dumps      \* dumps so far

bankVars == <<bank, anc, root, roots, accts, replay, dumps>>
cacheVars == <<entries, lock, cacheRoot, notified>>
vars == <<bankVars, cacheVars, thr>>

-----------------------------------------------------------------------------
(* Entries and forks.                                                      *)

\* LoadedProgram: effective one slot after its deployment; a tombstone at once.
Loaded(dep, code) == [dep |-> dep, eff |-> dep + 1, kind |-> "loaded", code |-> code]
Tombstone(dep, kind) == [dep |-> dep, eff |-> dep, kind |-> kind, code |-> 0]

InForks(s) == bank[s] \in {"open", "frozen"}
Forks == {s \in Slots : InForks(s)}

\* ForkGraph::relationship(a, b) of BankForks is Equal or Ancestor, and
\* Equal or Descendant.
Known(a) == root <= a /\ \E s \in Forks : a <= s
OnForkOf(a, b) == Known(a) /\ Known(b) /\ (a = b \/ (InForks(b) /\ a \in anc[b]))
AboveOrEqual(a, b) == Known(a) /\ Known(b) /\ (a = b \/ (a \in Forks /\ b \in anc[a]))

\* The order of slot_versions.
Later(e, f) == e.eff > f.eff \/ (e.eff = f.eff /\ e.dep > f.dep)
Latest(S) == CHOOSE e \in S : \A f \in S \ {e} : Later(e, f)
SameVersion(e, f) == e.eff = f.eff /\ e.dep = f.dep

\* Mutant: the entries of all forks are visible.
VisibleToAll(es, slot) == es

\* The entries of a program that extract() considers: those of rooted slots and
\* those of the batch's own fork.
Visible(es, slot) == {e \in es : e.dep <= cacheRoot \/ OnForkOf(e.dep, slot)}

\* Of these, extract() takes the latest one that is effective, or that was
\* deployed one slot before it takes effect; an unloaded one is loaded again.
Candidates(es, slot) ==
    {e \in Visible(es, slot) : slot >= e.eff \/ (e.eff = e.dep + 1 /\ slot >= e.dep)}
Extract(es, slot) ==
    IF Candidates(es, slot) = {} THEN None
    ELSE LET e == Latest(Candidates(es, slot)) IN
         IF slot < e.eff THEN [kind |-> "delayed", code |-> 0]
         ELSE IF e.kind = "unloaded" THEN None
         ELSE [kind |-> e.kind, code |-> e.code]

\* assign_program: an entry of the same slots is only replaced by another kind.
Occupied(es, e) == \E f \in es : SameVersion(e, f) /\ e.kind = f.kind

\* Mutant: an entry is never replaced, not even an unloaded one.
AssignOnce(es, e) == IF \E f \in es : SameVersion(e, f) THEN es ELSE es \cup {e}

Assign(es, e) == IF Occupied(es, e) THEN es ELSE {f \in es : ~SameVersion(e, f)} \cup {e}

\* The program's account as a bank reads it, by the slot it was written in.
WrittenIn(k, as) == {s \in as \cup roots : accts[k][s] # None}

-----------------------------------------------------------------------------
(* replenish_program_cache.                                                *)

IdleThread == [pc |-> "idle", slot |-> 0, anc |-> {}, missing |-> {}, task |-> None, loaded |-> None,
               got |-> [k \in Keys |-> None], done |-> {}]

\* Replay runs batches on open banks and not while it changes banks; banking
\* runs them on open banks, simulations on frozen ones.
Begin(t, s, keys) ==
    /\ thr[t].pc = "idle" /\ InForks(s) /\ s > 0
    /\ t \in ReplayThreads => bank[s] = "open" /\ replay.pc = "idle"
    /\ keys # {} /\ \A k \in keys \ RemoteKeys : WrittenIn(k, anc[s]) # {}
    /\ thr' = [thr EXCEPT ![t] = [IdleThread EXCEPT !.pc = "lock", !.slot = s, !.anc = anc[s], !.missing = keys]]
    /\ UNCHANGED <<bankVars, cacheVars>>

\* Mutant: a program another batch is loading is loaded again.
FreeTasksOfAll(missing, locks) == missing

\* The programs extract() may choose as its cooperative_loading_task.
FreeTasks(missing, locks) == {k \in missing : locks[k] = None}

\* Mutant: finishing a task wakes nobody.
NotifiedNever(finished, t) == notified \ {t}

\* LoadingTaskWaiter: notify() in finish_cooperative_loading_task gives a new
\* cookie, which makes every older one stale; the batch itself reads it.
Notified(finished, t) == (IF finished THEN Threads ELSE notified) \ {t}

\* One round under the cache's write lock: finish_cooperative_loading_task for
\* the program just loaded, then extract.
Round(t) ==
    /\ thr[t].pc = "lock"
    /\ LET k0 == thr[t].task
           finished == k0 # None
           full == finished /\ t \in LimitThreads /\ Occupied(entries[k0], thr[t].loaded)
           es == IF finished THEN [entries EXCEPT ![k0] = Assign(@, thr[t].loaded)] ELSE entries
           free == IF finished THEN [lock EXCEPT ![k0] = None] ELSE lock
       IN
       /\ entries' = es
       /\ UNCHANGED cacheRoot
       /\ IF full
          THEN /\ lock' = free
               /\ notified' = Threads
               /\ thr' = [thr EXCEPT ![t] = IdleThread]
          ELSE LET slot == thr[t].slot
                   missing == {k \in thr[t].missing : Extract(es[k], slot) = None}
                   tasks == FreeTasks(missing, free)
                   now == [thr[t] EXCEPT !.missing = missing, !.loaded = None, !.task = None,
                                         !.done = IF finished THEN @ \cup {k0} ELSE @,
                                         !.got = [k \in Keys |-> IF k \in thr[t].missing \ missing
                                                                 THEN Extract(es[k], slot) ELSE @[k]]]
               IN
               /\ notified' = Notified(finished, t)
               /\ \/ /\ tasks = {}
                     /\ lock' = free
                     /\ thr' = [thr EXCEPT ![t] = [now EXCEPT !.pc = IF missing = {} THEN "run" ELSE "wait"]]
                  \/ \E k \in tasks :
                     /\ lock' = [free EXCEPT ![k] = <<slot, t>>]
                     /\ thr' = [thr EXCEPT ![t] = [now EXCEPT !.task = k, !.pc = "load"]]
    /\ UNCHANGED bankVars

\* load_program, outside the lock. A local program has the deployment slot of
\* its account, one from the base layer slot 0, unless it does not verify; a
\* closed program gets a tombstone in the bank's own slot.
LoadProgram(t, k) ==
    IF k \in RemoteKeys
    THEN IF RemoteVerifies THEN Loaded(0, 0) ELSE Tombstone(BaseSlot, "failed")
    ELSE LET s == Max(WrittenIn(k, thr[t].anc)) IN
         IF accts[k][s] = Closed THEN Tombstone(thr[t].slot, "closed") ELSE Loaded(s, accts[k][s])

Load(t) ==
    /\ thr[t].pc = "load"
    /\ thr' = [thr EXCEPT ![t].pc = "lock", ![t].loaded = LoadProgram(t, thr[t].task)]
    /\ UNCHANGED <<bankVars, cacheVars>>

\* LoadingTaskWaiter::wait returns once the cookie has changed.
Wake(t) ==
    /\ thr[t].pc = "wait" /\ t \in notified
    /\ thr' = [thr EXCEPT ![t].pc = "lock"]
    /\ UNCHANGED <<bankVars, cacheVars>>

\* The batch has run.
End(t) ==
    /\ thr[t].pc = "run"
    /\ thr' = [thr EXCEPT ![t] = IdleThread]
    /\ UNCHANGED <<bankVars, cacheVars>>

\* Mutant: the unloaded entry is pushed, not put in the place of the loaded one.
EvictBeside(k, e) ==
    /\ e \in entries[k] /\ e.kind = "loaded"
    /\ entries' = [entries EXCEPT ![k] = @ \cup {[e EXCEPT !.kind = "unloaded", !.code = 0]}]
    /\ UNCHANGED <<bankVars, lock, cacheRoot, notified, thr>>

\* evict_using_2s_random_selection unloads a program.
Evict(k, e) ==
    /\ e \in entries[k] /\ e.kind = "loaded"
    /\ entries' = [entries EXCEPT ![k] = (@ \ {e}) \cup {[e EXCEPT !.kind = "unloaded", !.code = 0]}]
    /\ UNCHANGED <<bankVars, lock, cacheRoot, notified, thr>>

-----------------------------------------------------------------------------
(* Banks.                                                                  *)

\* A transaction that deploys, upgrades or closes a program: it holds the write
\* lock of the program's account until commit_transactions has stored the
\* accounts and merged the new entry into the cache. A program is modified once
\* in a slot.
Modify(s, k, e, written) ==
    /\ bank[s] = "open" /\ replay.pc = "idle" /\ accts[k][s] = None
    /\ Cardinality({c \in Slots : accts[k][c] # None}) < MaxVersions
    /\ \A t \in Threads : thr[t].pc # "idle" => thr[t].slot # s
    /\ accts' = [accts EXCEPT ![k][s] = written]
    /\ entries' = [entries EXCEPT ![k] = Assign(@, e)]
    /\ UNCHANGED <<bank, anc, root, roots, replay, dumps, lock, cacheRoot, notified, thr>>

Open(s, k) == WrittenIn(k, anc[s]) # {} /\ accts[k][Max(WrittenIn(k, anc[s]))] # Closed

Deploy(s, k, code) == Open(s, k) /\ Modify(s, k, Loaded(s, code), code)
Close(s, k) == Open(s, k) /\ Modify(s, k, Tombstone(s, "closed"), Closed)

ReplayIdle == replay.pc = "idle" /\ \A t \in ReplayThreads : thr[t].pc = "idle"

\* A new bank, of the next slot or of one that was dumped.
NewBank(s, p) ==
    /\ ReplayIdle /\ s > p
    /\ bank[s] = "dumped" \/ (bank[s] = "unused" /\ \A q \in Slots : q < s => bank[q] # "unused")
    /\ bank[p] = "frozen" /\ root \in anc[p]
    /\ bank' = [bank EXCEPT ![s] = "open"]
    /\ anc' = [anc EXCEPT ![s] = {s} \cup {a \in anc[p] : a >= root}]
    /\ UNCHANGED <<root, roots, accts, replay, dumps, cacheVars, thr>>

Freeze(s) ==
    /\ ReplayIdle /\ bank[s] = "open"
    /\ bank' = [bank EXCEPT ![s] = "frozen"]
    /\ UNCHANGED <<anc, root, roots, accts, replay, dumps, cacheVars, thr>>

\* LoadedPrograms::prune: of the entries of rooted slots the latest is kept.
Pruned(es, r) ==
    LET rooted == {e \in es : e.dep < r /\ (OnForkOf(e.dep, r) \/ e.dep <= cacheRoot)} IN
    {e \in es : e.dep >= r /\ AboveOrEqual(e.dep, r)}
        \cup {e \in rooted : \A f \in rooted \ {e} : Later(e, f)}

\* handle_new_root: prune_program_cache, and then set_root.
PruneCache(r) ==
    /\ ReplayIdle /\ bank[r] = "frozen" /\ root \in anc[r] /\ r # root
    /\ entries' = [k \in Keys |-> Pruned(entries[k], r)]
    /\ cacheRoot' = r
    /\ replay' = [pc |-> "root", slot |-> r, todo |-> {}]
    /\ UNCHANGED <<bank, anc, root, roots, accts, dumps, lock, notified, thr>>

SetRoot ==
    /\ replay.pc = "root"
    /\ LET r == replay.slot IN
       /\ root' = r
       /\ roots' = roots \cup anc[r]
       /\ bank' = [s \in Slots |-> IF InForks(s) /\ r \notin anc[s] THEN "gone" ELSE bank[s]]
    /\ replay' = [replay EXCEPT !.pc = "idle", !.slot = 0]
    /\ UNCHANGED <<anc, accts, dumps, cacheVars, thr>>

\* purge_unconfirmed_duplicate_slot: the banks leave BankForks, their accounts
\* are removed, and so are the programs deployed in them, slot by slot.
DumpBanks(s) ==
    /\ ReplayIdle /\ dumps < MaxDumps /\ bank[s] = "frozen" /\ root \in anc[s] /\ s # root
    /\ LET out == {c \in Forks : s \in anc[c]} IN
       /\ bank' = [c \in Slots |-> IF c \in out THEN "dumped" ELSE bank[c]]
       /\ replay' = [pc |-> "purge", slot |-> 0, todo |-> out]
    /\ dumps' = dumps + 1
    /\ UNCHANGED <<anc, root, roots, accts, cacheVars, thr>>

DumpAccounts ==
    /\ replay.pc = "purge"
    /\ accts' = [k \in Keys |-> [s \in Slots |-> IF s \in replay.todo THEN None ELSE accts[k][s]]]
    /\ replay' = [replay EXCEPT !.pc = "prune"]
    /\ UNCHANGED <<bank, anc, root, roots, dumps, cacheVars, thr>>

DumpPrograms(s) ==
    /\ replay.pc = "prune" /\ s \in replay.todo
    /\ entries' = [k \in Keys |-> {e \in entries[k] : e.dep # s}]
    /\ replay' = [replay EXCEPT !.todo = @ \ {s}, !.pc = IF replay.todo = {s} THEN "idle" ELSE "prune"]
    /\ UNCHANGED <<bank, anc, root, roots, accts, dumps, lock, cacheRoot, notified, thr>>

-----------------------------------------------------------------------------

Init ==
    /\ bank = [s \in Slots |-> IF s = 0 THEN "frozen" ELSE "unused"]
    /\ anc = [s \in Slots |-> IF s = 0 THEN {0} ELSE {}]
    /\ root = 0 /\ roots = {0} /\ dumps = 0
    /\ accts = [k \in Keys |-> [s \in Slots |-> IF s = 0 /\ k \notin RemoteKeys THEN 0 ELSE None]]
    /\ entries = [k \in Keys |-> {}]
    /\ lock = [k \in Keys |-> None]
    /\ cacheRoot = 0 /\ notified = {}
    /\ thr = [t \in Threads |-> IdleThread]
    /\ replay = [pc |-> "idle", slot |-> 0, todo |-> {}]

ThreadStep(t) == Round(t) \/ Load(t) \/ Wake(t) \/ End(t)

Next ==
    \/ \E t \in Threads : (\E s \in Slots, keys \in SUBSET Keys : Begin(t, s, keys)) \/ ThreadStep(t)
    \/ \E k \in Keys : \E e \in entries[k] : Evict(k, e)
    \/ \E s \in Slots, k \in Keys \ RemoteKeys : Close(s, k) \/ \E code \in Codes : Deploy(s, k, code)
    \/ \E s, p \in Slots : NewBank(s, p)
    \/ \E s \in Slots : Freeze(s) \/ PruneCache(s) \/ DumpBanks(s) \/ DumpPrograms(s)
    \/ SetRoot
    \/ DumpAccounts

Spec == Init /\ [][Next]_vars

-----------------------------------------------------------------------------
(* Properties.                                                             *)

Programs == [kind : {"loaded", "unloaded", "failed", "closed"}, dep : Nat, eff : Nat, code : Nat]

\* The variables have their types, and slot_versions holds at most one entry for
\* a deployment slot and an effective slot, whatever is loaded and evicted.
TypeOK ==
    /\ bank \in [Slots -> {"unused", "open", "frozen", "gone", "dumped"}]
    /\ anc \in [Slots -> SUBSET Slots]
    /\ root \in roots /\ roots \subseteq Slots /\ cacheRoot \in Slots
    /\ \A k \in Keys : \A e \in entries[k] : e \in Programs /\ \A f \in entries[k] : SameVersion(e, f) => e = f
    /\ notified \subseteq Threads
    /\ \A t \in Threads : thr[t].missing \cup thr[t].done \subseteq Keys /\ thr[t].task \in Keys \cup {None}

\* What a batch should run a program with: its fork's last deployment, hidden in
\* the deployment's own slot.
ForkProgram(t, k) ==
    IF k \in RemoteKeys THEN [kind |-> "loaded", code |-> 0]
    ELSE LET s == Max(WrittenIn(k, thr[t].anc)) IN
         IF accts[k][s] = Closed THEN [kind |-> "closed", code |-> 0]
         ELSE IF s = thr[t].slot THEN [kind |-> "delayed", code |-> 0]
         ELSE [kind |-> "loaded", code |-> accts[k][s]]

\* A replayed batch runs every program in the version its own fork deployed
\* last, whatever other forks deployed, closed or loaded, whatever was evicted,
\* and although slots were dumped and replayed again. All validators must agree
\* on it ("Remove entries un/re/deployed on orphan forks", prune).
BatchGetsForkProgram ==
    \A t \in ReplayThreads : thr[t].pc = "run" =>
        \A k \in Keys : thr[t].got[k] # None => thr[t].got[k] = ForkProgram(t, k)

\* A program is locked exactly while one batch loads it, by that batch
\* (debug_assert_eq! in finish_cooperative_loading_task): no two batches load
\* the same program, and no lock outlives its load.
LoaderHoldsLock ==
    \A t \in Threads, k \in Keys :
        thr[t].task = k /\ thr[t].pc \in {"load", "lock"} <=> lock[k] = <<thr[t].slot, t>>

\* A batch that sleeps, and that no notification is due to, waits for a program
\* another batch is loading now ("Sleep until the next
\* finish_cooperative_loading_task() call"): no wake-up is lost.
SleepersWillWake ==
    \A t \in Threads : thr[t].pc = "wait" /\ t \notin notified =>
        \E u \in Threads \ {t} : thr[u].pc \in {"load", "lock"} /\ thr[u].task \in thr[t].missing

\* A program a replayed batch has loaded itself is no longer missing to it: what
\* it inserts is visible to its own fork ("Check that it will be visible to our
\* own fork once inserted"), so the loop of replenish_program_cache ends.
LoadsOnce == \A t \in ReplayThreads : thr[t].missing \cap thr[t].done = {}
=============================================================================
