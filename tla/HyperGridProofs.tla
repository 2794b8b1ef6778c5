-------------------------- MODULE HyperGridProofs --------------------------
(***************************************************************************)
(* The safety properties of HyperGrid, for any threads, users, levels and  *)
(* transactions. A level on its way to the base layer, or to the cache, is *)
(* vouched for where it is: in the thread, in the posts in flight and on   *)
(* the base layer.                                                         *)
(***************************************************************************)
EXTENDS HyperGrid, TLAPS

ThreadStates ==
    [pc : Pcs, op : {"migrate", "deactivate"}, todo : SUBSET Accounts, account : Accounts,
     fetched : Levels, plays : Levels \cup {Nothing}, logs : BOOLEAN]

Plays == {"filter", "program", "execute", "post", "postMint", "blockhash", "send"}

\* What a thread in state r holds.
ThreadInv(r) ==
    /\ r.pc \in Plays => r.plays \in Levels
    /\ r.pc \in {"post", "postMint"} /\ r.logs => r.plays \in logged
    /\ r.pc \in {"blockhash", "send"} => r.plays \in logged
    /\ r.pc = "insert" /\ r.account = "mint" => r.fetched \in pastLevels
    /\ r.pc = "reloaded" => r.fetched \in pastLevels

Inv ==
    /\ TypeOK
    /\ \A t \in Threads : ThreadInv(thr[t])
    /\ \A v \in Levels : posts[v] > 0 => v \in logged
    /\ level \in pastLevels
    /\ LevelIsAccountedFor /\ GridNeverHoldsLock /\ CachedIsPast

\* A step of thread t that leaves the base layer and the posts alone, and only
\* adds to the log, keeps the invariant if the state it puts the thread into and
\* the cache are right.
LEMMA ThreadStep ==
    ASSUME Inv, NEW t \in Threads, NEW r \in ThreadStates, thr' = [thr EXCEPT ![t] = r],
           UNCHANGED <<baseVars, posts>>, logged \subseteq logged', logged' \subseteq Levels,
           ThreadInv(r)', remote' \in [Accounts -> Levels \cup {Nothing}],
           remote'["mint"] \in pastLevels \cup {Nothing},
           program' \in {"missing", "loaded", "closed"}, txs' \in Nat,
           panicked' \subseteq {"load_program", "blockhash"}, simPosts' = simPosts
    PROVE  Inv'
<1>1. thr \in [Threads -> ThreadStates]
  BY DEF Inv, TypeOK, ThreadStates
<1>2. thr' \in [Threads -> ThreadStates]
  BY <1>1
<1>3. /\ level \in Levels /\ locker \in Users \cup {"payer", Nothing} /\ posts \in [Levels -> Nat]
      /\ userTxs \in Nat /\ userLevels \subseteq Levels /\ pastLevels \subseteq Levels /\ simPosts \subseteq Levels
  BY DEF Inv, TypeOK
<1>4. UNCHANGED <<level, locker, posts, userTxs, userLevels, pastLevels>>
  BY DEF baseVars
<1>5. TypeOK'
  BY <1>2, <1>3, <1>4 DEF TypeOK, ThreadStates
<1>6. ASSUME NEW u \in Threads PROVE ThreadInv(thr[u])'
  <2>1. CASE u = t
    BY <1>1, <2>1
  <2>2. CASE u # t
    <3>1. thr'[u] = thr[u]
      BY <1>1, <2>2
    <3>2. ThreadInv(thr[u])
      BY DEF Inv
    <3> QED
      BY <1>4, <3>1, <3>2 DEF ThreadInv
  <2> QED
    BY <2>1, <2>2
<1>7. \A v \in Levels : posts'[v] > 0 => v \in logged'
  BY <1>4 DEF Inv
<1>8. (level \in pastLevels)' /\ LevelIsAccountedFor' /\ GridNeverHoldsLock' /\ CachedIsPast'
  BY <1>4 DEF Inv, LevelIsAccountedFor, GridNeverHoldsLock, CachedIsPast
<1> QED
  BY <1>5, <1>6, <1>7, <1>8 DEF Inv

\* The grid's part of the state, apart from the threads.
LEMMA GridFacts ==
    ASSUME Inv, NEW t \in Threads
    PROVE  /\ thr \in [Threads -> ThreadStates] /\ thr[t] \in ThreadStates /\ ThreadInv(thr[t])
           /\ remote \in [Accounts -> Levels \cup {Nothing}] /\ remote["mint"] \in pastLevels \cup {Nothing}
           /\ program \in {"missing", "loaded", "closed"} /\ txs \in Nat
           /\ panicked \subseteq {"load_program", "blockhash"} /\ logged \subseteq Levels
           /\ level \in pastLevels /\ level \in Levels /\ pastLevels \subseteq Levels
<1>1. thr \in [Threads -> ThreadStates]
  BY DEF Inv, TypeOK, ThreadStates
<1> QED
  BY <1>1 DEF Inv, TypeOK, CachedIsPast

\* A thread that only moves on.
LEMMA GotoStep ==
    ASSUME Inv, NEW t \in Threads, NEW pc \in Pcs \ {"insert", "reloaded"}, Goto(t, pc),
           pc \in Plays => thr[t].plays \in Levels,
           pc \in {"blockhash", "send"} \/ (pc \in {"post", "postMint"} /\ thr[t].logs) => thr[t].plays \in logged,
           UNCHANGED <<baseVars, posts, remote, logged, simPosts>>,
           program' \in {"missing", "loaded", "closed"}, txs' \in Nat,
           panicked' \subseteq {"load_program", "blockhash"}
    PROVE  Inv'
<1> DEFINE r == [thr[t] EXCEPT !.pc = pc]
<1>1. /\ r \in ThreadStates /\ r.pc = pc /\ r.plays = thr[t].plays /\ r.logs = thr[t].logs
  BY GridFacts DEF ThreadStates
<1>2. thr' = [thr EXCEPT ![t] = r]
  BY DEF Goto
<1>3. pastLevels' = pastLevels
  BY DEF baseVars
<1>4. PICK q : q = r
  OBVIOUS
<1>5. ThreadInv(q)'
  BY <1>1, <1>3, <1>4 DEF ThreadInv
<1> HIDE DEF r
<1> QED
  BY <1>1, <1>2, <1>4, <1>5, GridFacts, ThreadStep

\* A thread that is done.
LEMMA EndsStep ==
    ASSUME Inv, NEW t \in Threads, Ends(t), UNCHANGED <<baseVars, posts, logged, simPosts>>,
           remote' \in [Accounts -> Levels \cup {Nothing}], remote'["mint"] \in pastLevels \cup {Nothing},
           program' \in {"missing", "loaded", "closed"}, txs' \in Nat,
           panicked' \subseteq {"load_program", "blockhash"}
    PROVE  Inv'
<1>1. Idle \in ThreadStates /\ ThreadInv(Idle)'
  BY HyperGridAssumption DEF Idle, ThreadStates, ThreadInv, Plays, Pcs, Accounts, LevelsAssumption
<1> QED
  BY <1>1, GridFacts, ThreadStep DEF Ends

\* check_remote_accounts.
LEMMA RemoteSteps ==
    ASSUME Inv, NEW t \in Threads,
           \/ \E tx \in Txs : Begin(t, tx)
           \/ \E a \in Accounts : RemoteNext(t, a)
           \/ Fetch(t) \/ Insert(t) \/ Deactivate(t) \/ Remove(t) \/ RemoteDone(t)
    PROVE  Inv'
<1>0. /\ thr \in [Threads -> ThreadStates] /\ thr[t] \in ThreadStates /\ ThreadInv(thr[t])
      /\ remote \in [Accounts -> Levels \cup {Nothing}] /\ remote["mint"] \in pastLevels \cup {Nothing}
      /\ program \in {"missing", "loaded", "closed"} /\ txs \in Nat
      /\ panicked \subseteq {"load_program", "blockhash"} /\ logged \subseteq Levels
      /\ level \in pastLevels /\ level \in Levels /\ pastLevels \subseteq Levels
  BY GridFacts
<1> USE <1>0
<1>1. ASSUME NEW tx \in Txs, Begin(t, tx) PROVE Inv'
  <2>1. tx \in [op : {"migrate", "deactivate"}, accounts : SUBSET Accounts, plays : Levels \cup {Nothing}]
    BY HyperGridAssumption DEF TxsAssumption
  <2>2. PICK r : r = [Idle EXCEPT !.pc = "remote", !.op = tx.op, !.todo = tx.accounts, !.plays = tx.plays]
    OBVIOUS
  <2>3. r \in ThreadStates /\ r.pc = "remote"
    BY <2>1, <2>2, HyperGridAssumption DEF Idle, ThreadStates, Pcs, Accounts, LevelsAssumption
  <2>4. ThreadInv(r)'
    BY <2>3 DEF ThreadInv, Plays
  <2>5. thr' = [thr EXCEPT ![t] = r]
    BY Zenon, <1>1, <2>2 DEF Begin
  <2>6. txs' = txs + 1
    BY Zenon, <1>1 DEF Begin
  <2>7. txs' \in Nat
    BY <2>6
  <2> QED
    BY <1>1, <2>3, <2>4, <2>5, <2>7, ThreadStep DEF Begin
<1>2. ASSUME NEW a \in Accounts, RemoteNext(t, a) PROVE Inv'
  <2>1. PICK r : r = [thr[t] EXCEPT !.todo = @ \ {a}, !.account = a,
                                   !.pc = IF thr[t].op = "migrate" THEN "fetch" ELSE "deactivate"]
    OBVIOUS
  <2>2. r \in ThreadStates /\ r.pc \in {"fetch", "deactivate"}
    BY <2>1 DEF ThreadStates, Pcs
  <2>3. ThreadInv(r)'
    BY <2>2 DEF ThreadInv, Plays
  <2>4. thr' = [thr EXCEPT ![t] = r]
    BY <1>2, <2>1 DEF RemoteNext
  <2> QED
    BY <1>2, <2>2, <2>3, <2>4, ThreadStep DEF RemoteNext
<1>3. ASSUME Fetch(t) PROVE Inv'
  <2>1. CASE thr' = [thr EXCEPT ![t].fetched = BaseAccount(thr[t].account), ![t].pc = "insert"]
    <3>1. PICK r : r = [thr[t] EXCEPT !.fetched = BaseAccount(thr[t].account), !.pc = "insert"]
      OBVIOUS
    <3>2. BaseAccount(thr[t].account) \in Levels
      BY HyperGridAssumption DEF BaseAccount, LevelsAssumption
    <3>3. /\ r \in ThreadStates /\ r.pc = "insert"
          /\ r.account = "mint" => r.fetched \in pastLevels
      <4>1. thr[t] \in ThreadStates
        OBVIOUS
      <4>2. r \in ThreadStates /\ r.pc = "insert"
        BY <3>1, <3>2, <4>1 DEF ThreadStates, Pcs
      <4>3. r.account = thr[t].account /\ r.fetched = BaseAccount(thr[t].account)
        BY <3>1, <4>1 DEF ThreadStates
      <4>4. thr[t].account = "mint" => BaseAccount(thr[t].account) = level
        BY DEF BaseAccount
      <4> QED
        BY <4>2, <4>3, <4>4
    <3>4. UNCHANGED <<baseVars, posts, remote, program, txs, panicked, logged, simPosts>>
      BY <1>3 DEF Fetch
    <3>5. ThreadInv(r)'
      BY <3>3, <3>4 DEF ThreadInv, Plays, baseVars
    <3>6. thr' = [thr EXCEPT ![t] = r]
      BY <2>1, <3>1
    <3> QED
      BY <3>3, <3>4, <3>5, <3>6, ThreadStep
  <2>2. CASE Goto(t, "remote")
    BY <1>3, <2>2, GotoStep DEF Fetch, Pcs, Plays
  <2> QED
    BY <1>3, <2>1, <2>2 DEF Fetch
<1>4. ASSUME Insert(t) PROVE Inv'
  <2>1. PICK r : r = IF thr[t].account = "program" THEN [thr[t] EXCEPT !.account = "data", !.pc = "fetch"]
                                                  ELSE [thr[t] EXCEPT !.pc = "remote"]
    OBVIOUS
  <2>2. r \in ThreadStates /\ r.pc \in {"fetch", "remote"}
    BY <2>1 DEF ThreadStates, Pcs, Accounts
  <2>3. ThreadInv(r)'
    BY <2>2 DEF ThreadInv, Plays
  <2>4. thr' = [thr EXCEPT ![t] = r]
    BY <1>4, <2>1 DEF Insert
  <2>5. thr[t].account \in Accounts /\ thr[t].fetched \in Levels /\ "mint" \in Accounts
    BY DEF ThreadStates, Accounts
  <2>6. thr[t].account = "mint" => thr[t].fetched \in pastLevels
    BY <1>4 DEF Insert, At, ThreadInv
  <2>7. remote' = [remote EXCEPT ![thr[t].account] = thr[t].fetched]
    BY <1>4 DEF Insert
  <2>8. remote' \in [Accounts -> Levels \cup {Nothing}] /\ remote'["mint"] \in pastLevels \cup {Nothing}
    BY <2>5, <2>6, <2>7
  <2> QED
    BY <1>4, <2>2, <2>3, <2>4, <2>8, ThreadStep DEF Insert
<1>5. ASSUME Deactivate(t) PROVE Inv'
  BY <1>5, GotoStep DEF Deactivate, Pcs, Plays
<1>6. ASSUME Remove(t) PROVE Inv'
  <2>1. PICK r : r = IF thr[t].account = "program" THEN [thr[t] EXCEPT !.account = "data"]
                                                  ELSE [thr[t] EXCEPT !.pc = "remote"]
    OBVIOUS
  <2>2. r \in ThreadStates /\ r.pc \in {"remove", "remote"}
    BY <1>6, <2>1 DEF Remove, At, ThreadStates, Pcs, Accounts
  <2>3. ThreadInv(r)'
    BY <2>2 DEF ThreadInv, Plays
  <2>4. thr' = [thr EXCEPT ![t] = r]
    BY <1>6, <2>1 DEF Remove
  <2>5. remote' \in [Accounts -> Levels \cup {Nothing}] /\ remote'["mint"] \in pastLevels \cup {Nothing}
    BY <1>6 DEF Remove, Accounts
  <2> QED
    BY <1>6, <2>2, <2>3, <2>4, <2>5, ThreadStep DEF Remove
<1>7. ASSUME RemoteDone(t) PROVE Inv'
  <2>1. CASE thr[t].plays = Nothing
    BY <1>7, <2>1, EndsStep DEF RemoteDone
  <2>2. CASE thr[t].plays # Nothing
    <3>1. thr[t].plays \in Levels
      BY <2>2 DEF ThreadStates
    <3> QED
      BY <1>7, <2>2, <3>1, GotoStep DEF RemoteDone, Pcs, Plays
  <2> QED
    BY <2>1, <2>2
<1> QED
  BY <1>1, <1>2, <1>3, <1>4, <1>5, <1>6, <1>7

\* load_and_execute_transactions and post_status_to_baselayer.
LEMMA PlaySteps ==
    ASSUME Inv, NEW t \in Threads,
           \/ Filter(t) \/ LoadProgram(t) \/ Execute(t) \/ PostProgram(t) \/ PostMint(t)
           \/ Blockhash(t) \/ Reload(t) \/ Reloaded(t)
    PROVE  Inv'
<1>0. /\ thr \in [Threads -> ThreadStates] /\ thr[t] \in ThreadStates /\ ThreadInv(thr[t])
      /\ remote \in [Accounts -> Levels \cup {Nothing}] /\ remote["mint"] \in pastLevels \cup {Nothing}
      /\ program \in {"missing", "loaded", "closed"} /\ txs \in Nat
      /\ panicked \subseteq {"load_program", "blockhash"} /\ logged \subseteq Levels
      /\ level \in pastLevels /\ level \in Levels /\ pastLevels \subseteq Levels
  BY GridFacts
<1> USE <1>0
<1>1. ASSUME Filter(t) PROVE Inv'
  <2>1. thr[t].plays \in Levels
    BY <1>1 DEF Filter, At, ThreadInv, Plays
  <2>2. CASE remote["program"] = Nothing
    BY <1>1, <2>2, EndsStep DEF Filter
  <2>3. CASE remote["program"] # Nothing
    BY <1>1, <2>1, <2>3, GotoStep DEF Filter, Pcs, Plays
  <2> QED
    BY <2>2, <2>3
<1>2. ASSUME LoadProgram(t) PROVE Inv'
  <2>1. thr[t].plays \in Levels
    BY <1>2 DEF LoadProgram, At, ThreadInv, Plays
  <2>2. UNCHANGED <<baseVars, posts, remote, txs, logged, simPosts>>
    BY <1>2 DEF LoadProgram
  <2>3. CASE program = "missing" /\ remote["program"] = Nothing
    <3>1. panicked' \subseteq {"load_program", "blockhash"} /\ UNCHANGED <<program, thr>>
      BY <1>2, <2>3 DEF LoadProgram
    <3>2. ThreadInv(thr[t])' /\ thr' = [thr EXCEPT ![t] = thr[t]]
      BY <2>2, <3>1 DEF ThreadInv, baseVars
    <3>3. PICK r : r = thr[t]
      OBVIOUS
    <3>4. ThreadInv(r)'
      BY <2>2, <3>3 DEF ThreadInv, baseVars
    <3> QED
      BY <2>2, <3>1, <3>2, <3>3, <3>4, ThreadStep
  <2>4. CASE ~(program = "missing" /\ remote["program"] = Nothing)
    <3>1. /\ program' \in {"missing", "loaded", "closed"} /\ panicked' = panicked
          /\ Ends(t) \/ Goto(t, "execute")
      BY <1>2, <2>4 DEF LoadProgram
    <3>2. CASE Ends(t)
      BY <2>2, <3>1, <3>2, EndsStep
    <3>3. CASE Goto(t, "execute")
      BY <2>1, <2>2, <3>1, <3>3, GotoStep DEF Pcs, Plays
    <3> QED
      BY <3>1, <3>2, <3>3
  <2> QED
    BY <2>3, <2>4
<1>3. ASSUME Execute(t) PROVE Inv'
  <2> DEFINE l == t \in Recorders /\ remote["mint"] # Nothing
  <2>1. thr[t].plays \in Levels
    BY <1>3 DEF Execute, At, ThreadInv, Plays
  <2>2. PICK r : r = [thr[t] EXCEPT !.pc = "post", !.logs = l]
    OBVIOUS
  <2>3. /\ thr' = [thr EXCEPT ![t] = r]
        /\ logged' = IF l THEN logged \cup {thr[t].plays} ELSE logged
        /\ UNCHANGED <<baseVars, posts, remote, program, txs, panicked, simPosts>>
    BY <1>3, <2>2 DEF Execute
  <2>4. l \in BOOLEAN
    OBVIOUS
  <2> HIDE DEF l
  <2>5. r \in ThreadStates /\ r.pc = "post" /\ r.plays = thr[t].plays /\ r.logs = l
    BY <2>2, <2>4 DEF ThreadStates, Pcs
  <2>6. ThreadInv(r)'
    BY <2>1, <2>3, <2>5 DEF ThreadInv, Plays
  <2> QED
    BY <2>1, <2>3, <2>5, <2>6, ThreadStep
<1>4. ASSUME PostProgram(t) PROVE Inv'
  <2>1. thr[t].plays \in Levels /\ (thr[t].logs => thr[t].plays \in logged)
    BY <1>4 DEF PostProgram, At, ThreadInv, Plays
  <2>2. CASE remote["program"] = Nothing
    BY <1>4, <2>2, EndsStep DEF PostProgram
  <2>3. CASE remote["program"] # Nothing
    BY <1>4, <2>1, <2>3, GotoStep DEF PostProgram, Pcs, Plays
  <2> QED
    BY <2>2, <2>3
<1>5. ASSUME PostMint(t) PROVE Inv'
  <2>1. thr[t].plays \in Levels /\ (thr[t].logs => thr[t].plays \in logged)
    BY <1>5 DEF PostMint, At, ThreadInv, Plays
  <2>2. CASE remote["mint"] # Nothing /\ thr[t].logs
    BY <1>5, <2>1, <2>2, GotoStep DEF PostMint, Pcs, Plays
  <2>3. CASE ~(remote["mint"] # Nothing /\ thr[t].logs)
    BY <1>5, <2>3, EndsStep DEF PostMint
  <2> QED
    BY <2>2, <2>3
<1>6. ASSUME Blockhash(t) PROVE Inv'
  <2>1. thr[t].plays \in Levels /\ thr[t].plays \in logged
    BY <1>6 DEF Blockhash, At, ThreadInv, Plays
  <2>2. CASE Goto(t, "send") /\ UNCHANGED panicked
    BY <1>6, <2>1, <2>2, GotoStep DEF Blockhash, Pcs, Plays
  <2>3. CASE panicked' = {"blockhash"} /\ UNCHANGED thr
    <3>1. UNCHANGED <<baseVars, posts, remote, program, txs, logged, simPosts>>
      BY <1>6 DEF Blockhash
    <3>2. PICK r : r = thr[t]
      OBVIOUS
    <3>3. ThreadInv(r)' /\ thr' = [thr EXCEPT ![t] = r]
      BY <2>3, <3>1, <3>2 DEF ThreadInv, baseVars
    <3> QED
      BY <2>3, <3>1, <3>2, <3>3, ThreadStep
  <2> QED
    BY <1>6, <2>2, <2>3 DEF Blockhash
<1>7. ASSUME Reload(t) PROVE Inv'
  <2>1. CASE thr' = [thr EXCEPT ![t].account = "mint", ![t].fetched = BaseAccount("mint"), ![t].pc = "reloaded"]
    <3>1. PICK r : r = [thr[t] EXCEPT !.account = "mint", !.fetched = BaseAccount("mint"), !.pc = "reloaded"]
      OBVIOUS
    <3>2. BaseAccount("mint") = level
      BY DEF BaseAccount
    <3>3. r \in ThreadStates /\ r.pc = "reloaded" /\ r.fetched \in pastLevels
      BY <3>1, <3>2 DEF ThreadStates, Pcs, Accounts
    <3>4. UNCHANGED <<baseVars, posts, remote, program, txs, panicked, logged, simPosts>>
      BY <1>7 DEF Reload
    <3>5. ThreadInv(r)'
      BY <3>3, <3>4 DEF ThreadInv, Plays, baseVars
    <3>6. thr' = [thr EXCEPT ![t] = r]
      BY <2>1, <3>1
    <3> QED
      BY <3>3, <3>4, <3>5, <3>6, ThreadStep
  <2>2. CASE Ends(t)
    BY <1>7, <2>2, EndsStep DEF Reload
  <2> QED
    BY <1>7, <2>1, <2>2 DEF Reload
<1>8. ASSUME Reloaded(t) PROVE Inv'
  <2>1. thr[t].fetched \in pastLevels /\ thr[t].fetched \in Levels /\ "mint" \in Accounts
    BY <1>8 DEF Reloaded, At, ThreadInv, ThreadStates, Accounts
  <2>2. remote' = [remote EXCEPT !["mint"] = thr[t].fetched]
    BY <1>8 DEF Reloaded
  <2>3. remote' \in [Accounts -> Levels \cup {Nothing}] /\ remote'["mint"] \in pastLevels \cup {Nothing}
    BY <2>1, <2>2
  <2> QED
    BY <1>8, <2>3, EndsStep DEF Reloaded
<1> QED
  BY <1>1, <1>2, <1>3, <1>4, <1>5, <1>6, <1>7, <1>8

\* send_transaction.
LEMMA SendSteps ==
    ASSUME Inv, NEW t \in Threads, Send(t)
    PROVE  Inv'
<1>1. /\ thr[t].plays \in Levels /\ thr[t].plays \in logged
      /\ UNCHANGED <<baseVars, remote, program, txs, panicked, logged>>
  BY GridFacts DEF Send, At, ThreadInv, Plays
<1>2. CASE Ends(t) /\ UNCHANGED <<posts, simPosts>>
  BY <1>1, <1>2, GridFacts, EndsStep
<1>3. CASE /\ posts' = [posts EXCEPT ![thr[t].plays] = @ + 1]
           /\ simPosts' = IF t \in Sims THEN simPosts \cup {thr[t].plays} ELSE simPosts
           /\ Goto(t, "reload")
  <2>1. /\ posts \in [Levels -> Nat] /\ simPosts \subseteq Levels
        /\ \A v \in Levels : posts[v] > 0 => v \in logged
    BY DEF Inv, TypeOK
  <2>2. /\ posts' \in [Levels -> Nat]
        /\ \A v \in Levels : posts'[v] > 0 => v \in logged'
    BY <1>1, <1>3, <2>1
  <2>3. simPosts' \subseteq Levels
    BY <1>1, <1>3, <2>1
  <2>4. PICK r : r = [thr[t] EXCEPT !.pc = "reload"]
    OBVIOUS
  <2>5. r \in ThreadStates /\ r.pc = "reload"
    BY <2>4, GridFacts DEF ThreadStates, Pcs
  <2>6. thr' = [thr EXCEPT ![t] = r]
    BY <1>3, <2>4 DEF Goto
  <2>7. thr' \in [Threads -> ThreadStates]
    BY <2>5, <2>6, GridFacts
  <2>8. UNCHANGED <<level, locker, userTxs, userLevels, pastLevels, remote, program, txs, panicked, logged>>
    BY <1>1 DEF baseVars
  <2>9. TypeOK'
    BY <2>2, <2>3, <2>7, <2>8 DEF Inv, TypeOK, ThreadStates
  <2>10. ASSUME NEW u \in Threads PROVE ThreadInv(thr[u])'
    <3>1. thr'[u] \in {thr[u], r}
      BY <2>6, GridFacts
    <3>2. CASE thr'[u] = r
      BY <2>5, <3>2 DEF ThreadInv, Plays
    <3>3. CASE thr'[u] = thr[u]
      <4>1. ThreadInv(thr[u])
        BY DEF Inv
      <4> QED
        BY <2>8, <3>3, <4>1 DEF ThreadInv
    <3> QED
      BY <3>1, <3>2, <3>3
  <2>11. (level \in pastLevels)' /\ LevelIsAccountedFor' /\ GridNeverHoldsLock' /\ CachedIsPast'
    BY <2>8 DEF Inv, LevelIsAccountedFor, GridNeverHoldsLock, CachedIsPast
  <2> QED
    BY <2>2, <2>9, <2>10, <2>11 DEF Inv
<1> QED
  BY <1>2, <1>3 DEF Send

\* What the base layer does leaves the grid alone, and only adds to the past.
LEMMA BaseStep ==
    ASSUME Inv, UNCHANGED gridVars, level' \in Levels, level' \in pastLevels', pastLevels \subseteq pastLevels',
           pastLevels' \subseteq Levels, locker' \in Users \cup {Nothing}, userLevels' \subseteq Levels, userTxs' \in Nat,
           posts' \in [Levels -> Nat], \A v \in Levels : posts'[v] > 0 => v \in logged,
           level' \in {0} \cup userLevels' \cup logged
    PROVE  Inv'
<1>1. UNCHANGED <<remote, program, thr, txs, panicked, logged, simPosts>>
  BY DEF gridVars
<1>2. TypeOK'
  BY <1>1 DEF Inv, TypeOK
<1>3. ASSUME NEW u \in Threads PROVE ThreadInv(thr[u])'
  <2>1. ThreadInv(thr[u])
    BY DEF Inv
  <2> QED
    BY <1>1, <2>1 DEF ThreadInv
<1>4. CachedIsPast'
  BY <1>1 DEF Inv, CachedIsPast
<1>5. LevelIsAccountedFor' /\ GridNeverHoldsLock'
  BY <1>1, HyperGridAssumption DEF LevelIsAccountedFor, GridNeverHoldsLock, PayerAssumption
<1> QED
  BY <1>1, <1>2, <1>3, <1>4, <1>5 DEF Inv

LEMMA BaseSteps ==
    ASSUME Inv,
           \/ \E v \in Levels : Land(v) \/ Lose(v)
           \/ \E u \in Users : UserSetLocker(u) \/ \E v \in Levels : UserSetValue(u, v)
    PROVE  Inv'
<1>0. /\ level \in Levels /\ level \in pastLevels /\ pastLevels \subseteq Levels /\ userLevels \subseteq Levels
      /\ locker \in Users \cup {Nothing} /\ userTxs \in Nat /\ posts \in [Levels -> Nat]
      /\ \A v \in Levels : posts[v] > 0 => v \in logged
      /\ level \in {0} \cup userLevels \cup logged
  BY DEF Inv, TypeOK, LevelIsAccountedFor, GridNeverHoldsLock
<1> DEFINE Less(v) == posts' = [posts EXCEPT ![v] = @ - 1]
<1>1. ASSUME NEW v \in Levels, posts[v] > 0, Less(v)
      PROVE  posts' \in [Levels -> Nat] /\ \A w \in Levels : posts'[w] > 0 => w \in logged
  BY <1>0, <1>1
<1>2. ASSUME NEW v \in Levels, Land(v) PROVE Inv'
  <2>1. /\ posts[v] > 0 /\ Less(v) /\ UNCHANGED <<userTxs, userLevels, gridVars>>
        /\ level' = v /\ locker' = Nothing /\ pastLevels' = pastLevels \cup {v}
    BY <1>2 DEF Land, SetLevel
  <2>2. v \in logged
    BY <1>0, <2>1
  <2> QED
    BY <1>0, <1>1, <2>1, <2>2, BaseStep
<1>3. ASSUME NEW v \in Levels, Lose(v) PROVE Inv'
  <2>1. /\ posts[v] > 0 /\ Less(v) /\ UNCHANGED <<level, locker, userTxs, userLevels, pastLevels, gridVars>>
    BY <1>3 DEF Lose, baseVars
  <2> QED
    BY <1>0, <1>1, <2>1, BaseStep
<1>4. ASSUME NEW u \in Users, UserSetLocker(u) PROVE Inv'
  <2>1. /\ locker' = u /\ userTxs' = userTxs + 1
        /\ UNCHANGED <<level, posts, userLevels, pastLevels, gridVars>>
    BY <1>4 DEF UserSetLocker
  <2> QED
    BY <1>0, <2>1, BaseStep
<1>5. ASSUME NEW u \in Users, NEW v \in Levels, UserSetValue(u, v) PROVE Inv'
  <2>1. /\ userTxs' = userTxs + 1 /\ userLevels' = userLevels \cup {v}
        /\ level' = v /\ locker' = Nothing /\ pastLevels' = pastLevels \cup {v}
        /\ UNCHANGED <<posts, gridVars>>
    BY <1>5 DEF UserSetValue, SetLevel
  <2> QED
    BY <1>0, <2>1, BaseStep
<1> QED
  BY <1>2, <1>3, <1>4, <1>5

-----------------------------------------------------------------------------
(* The results.                                                            *)

LEMMA InitInv == Init => Inv
<1> SUFFICES ASSUME Init PROVE Inv
  OBVIOUS
<1>1. Idle \in ThreadStates /\ ThreadInv(Idle)
  BY HyperGridAssumption DEF Idle, ThreadStates, ThreadInv, Plays, Pcs, Accounts, LevelsAssumption
<1>2. thr \in [Threads -> ThreadStates] /\ \A t \in Threads : ThreadInv(thr[t])
  BY <1>1 DEF Init
<1>3. "mint" \in Accounts
  BY DEF Accounts
<1>4. TypeOK
  BY <1>2, HyperGridAssumption DEF Init, TypeOK, ThreadStates, LevelsAssumption
<1>5. LevelIsAccountedFor /\ GridNeverHoldsLock /\ CachedIsPast
  BY <1>3, HyperGridAssumption DEF Init, LevelIsAccountedFor, GridNeverHoldsLock, CachedIsPast, PayerAssumption
<1> QED
  BY <1>2, <1>4, <1>5 DEF Init, Inv

LEMMA InvStep == Inv /\ [Next]_vars => Inv'
<1> SUFFICES ASSUME Inv, [Next]_vars PROVE Inv'
  OBVIOUS
<1>1. CASE UNCHANGED vars
  <2>1. UNCHANGED <<level, locker, posts, userTxs, userLevels, pastLevels, gridVars>>
    BY <1>1 DEF vars, baseVars
  <2> QED
    BY <2>1, BaseStep DEF Inv, TypeOK, LevelIsAccountedFor, GridNeverHoldsLock
<1>2. CASE EvictProgram
  <2>1. UNCHANGED <<baseVars, posts, remote, thr, txs, panicked, logged, simPosts>>
    BY <1>2 DEF EvictProgram
  <2>2. UNCHANGED <<level, locker, posts, userTxs, userLevels, pastLevels>> /\ program' = "missing"
    BY <1>2, <2>1 DEF EvictProgram, baseVars
  <2>3. TypeOK'
    BY <2>1, <2>2 DEF Inv, TypeOK
  <2>4. \A u \in Threads : ThreadInv(thr[u])'
    BY <2>1, <2>2 DEF Inv, ThreadInv
  <2>5. LevelIsAccountedFor' /\ GridNeverHoldsLock' /\ CachedIsPast'
    BY <2>1, <2>2 DEF Inv, LevelIsAccountedFor, GridNeverHoldsLock, CachedIsPast
  <2> QED
    BY <2>1, <2>2, <2>3, <2>4, <2>5 DEF Inv
<1>3. ASSUME NEW t \in Threads, (\E tx \in Txs : Begin(t, tx)) \/ Steps(t) PROVE Inv'
  BY <1>3, RemoteSteps, PlaySteps, SendSteps DEF Steps
<1> QED
  BY <1>1, <1>2, <1>3, BaseSteps DEF Next

LEMMA InvHolds == Spec => []Inv
<1>1. Init => Inv
  BY InitInv
<1>2. Inv /\ [Next]_vars => Inv'
  BY InvStep
<1> QED
  BY <1>1, <1>2, PTL DEF Spec

\* The types are kept (the state of the cache, the threads and the base layer).
THEOREM GridTypes == Spec => []TypeOK
<1>1. Inv => TypeOK
  BY DEF Inv
<1> QED
  BY <1>1, InvHolds, PTL

\* No level reaches the NFT that neither a user of the base layer set nor an
\* execution on the grid logged (post_status_to_baselayer).
THEOREM LevelsAccountedFor == Spec => []LevelIsAccountedFor
<1>1. Inv => LevelIsAccountedFor
  BY DEF Inv
<1> QED
  BY <1>1, InvHolds, PTL

\* Nobody finds the NFT locked by the grid (send_status_to_baselayer's two
\* instructions, and the locks users take).
THEOREM LockReleased == Spec => []GridNeverHoldsLock
<1>1. Inv => GridNeverHoldsLock
  BY DEF Inv
<1> QED
  BY <1>1, InvHolds, PTL

\* The cached NFT shows a level it has had (load_account_via_rpc, in whatever
\* order its answers come to be inserted).
THEOREM CacheShowsPast == Spec => []CachedIsPast
<1>1. Inv => CachedIsPast
  BY DEF Inv
<1> QED
  BY <1>1, InvHolds, PTL
=============================================================================
