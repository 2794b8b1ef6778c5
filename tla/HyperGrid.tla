------------------------------ MODULE HyperGrid ------------------------------
(***************************************************************************)
(* A grid and its base layer: transactions that migrate and deactivate     *)
(* base-layer accounts (check_remote_accounts, RemoteAccountLoader) and    *)
(* transactions that play an NFT of the hgnft program, whose new level the *)
(* grid posts to the base layer (post_status_to_baselayer,                 *)
(* send_status_to_baselayer). The base layer runs the posts in any order,  *)
(* among the transactions of its own users, and may lose them. Every RPC   *)
(* call can fail. The program, its data account and the NFT are accounts   *)
(* the grid has from the base layer only: the instructions name them       *)
(* read-only, so no bank stores them.                                      *)
(***************************************************************************)
EXTENDS Naturals, FiniteSets

CONSTANTS
    Threads,    \* banking and replay threads and simulations that run transactions
    Sims,       \* the simulations among them
    Recorders,  \* the threads whose executions record log messages
    Users,      \* the base layer's own users
    Levels,     \* levels of the NFT
    Txs,        \* transactions clients send
    MaxTxs,     \* transactions the grid runs
    MaxUserTxs, \* transactions of base-layer users
    Nothing     \* no account, no locker or no level

Accounts == {"program", "data", "mint"}

\* Simulations always record logs, the other threads if the node keeps
\* transaction statuses.
ThreadsAssumption == Sims \subseteq Recorders /\ Recorders \subseteq Threads
LevelsAssumption == 0 \in Levels /\ Nothing \notin Levels
\* A transaction may migrate or deactivate accounts in one instruction and play
\* the NFT in another.
TxsAssumption ==
    Txs \subseteq [op : {"migrate", "deactivate"}, accounts : SUBSET Accounts, plays : Levels \cup {Nothing}]
BoundsAssumption == MaxTxs \in Nat /\ MaxUserTxs \in Nat
PayerAssumption == "payer" \notin Users \cup {Nothing}

ASSUME HyperGridAssumption ==
    ThreadsAssumption /\ LevelsAssumption /\ TxsAssumption /\ BoundsAssumption /\ PayerAssumption

VARIABLES
    level,      \* base layer: Mint::level of the NFT
    locker,     \* base layer: Mint::locker of the NFT
    posts,      \* base layer: the posts in flight, by the level they set
    remote,     \* RemoteAccountLoader::account_cache, Nothing for a missing account
    program,    \* the program's entry in loaded_programs_cache
    thr,        \* the threads
    txs,        \* transactions the grid has begun
    userTxs,    \* transactions of base-layer users
    panicked,   \* the panics that have ended the process
    logged,     \* history: the levels "Fake NFT New Value" was logged with
    userLevels, \* history: the levels base-layer users set
    pastLevels, \* history: the levels the NFT has had on the base layer
    simPosts    \* history: the levels simulations have posted

baseVars == <<level, locker, userTxs, userLevels, pastLevels>>
gridVars == <<remote, program, thr, txs, panicked, logged, simPosts>>
vars == <<baseVars, posts, gridVars>>

\* What an RPC get_account returns of an account.
BaseAccount(a) == IF a = "mint" THEN level ELSE 0

Idle == [pc |-> "idle", op |-> "migrate", todo |-> {}, account |-> "mint", fetched |-> 0,
         plays |-> Nothing, logs |-> FALSE]

Init ==
    /\ level = 0 /\ locker = Nothing /\ posts = [v \in Levels |-> 0]
    /\ remote = [a \in Accounts |-> Nothing]
    /\ program = "missing"
    /\ thr = [t \in Threads |-> Idle]
    /\ txs = 0 /\ userTxs = 0 /\ panicked = {}
    /\ logged = {} /\ userLevels = {} /\ pastLevels = {0} /\ simPosts = {}

Running == panicked = {}
At(t, pc) == Running /\ thr[t].pc = pc
Goto(t, pc) == thr' = [thr EXCEPT ![t].pc = pc]
Ends(t) == thr' = [thr EXCEPT ![t] = Idle]

-----------------------------------------------------------------------------
(* check_remote_accounts, for every transaction that passed the checks of  *)
(* age and status: no matter whether it will be committed.                 *)

Begin(t, tx) ==
    /\ At(t, "idle") /\ txs < MaxTxs
    /\ txs' = txs + 1
    /\ thr' = [thr EXCEPT ![t] = [Idle EXCEPT !.pc = "remote", !.op = tx.op, !.todo = tx.accounts, !.plays = tx.plays]]
    /\ UNCHANGED <<baseVars, posts, remote, program, panicked, logged, simPosts>>

\* The next account of the instruction.
RemoteNext(t, a) ==
    /\ At(t, "remote") /\ a \in thr[t].todo
    /\ thr' = [thr EXCEPT ![t].todo = @ \ {a}, ![t].account = a,
                          ![t].pc = IF thr[t].op = "migrate" THEN "fetch" ELSE "deactivate"]
    /\ UNCHANGED <<baseVars, posts, remote, program, txs, panicked, logged, simPosts>>

\* load_account_via_rpc: the answer to get_account, or an error ...
Fetch(t) ==
    /\ At(t, "fetch")
    /\ \/ thr' = [thr EXCEPT ![t].fetched = BaseAccount(thr[t].account), ![t].pc = "insert"]
       \/ Goto(t, "remote")
    /\ UNCHANGED <<baseVars, posts, remote, program, txs, panicked, logged, simPosts>>

\* ... and its insertion into the cache. load_account goes on with the
\* programdata account of a program.
Insert(t) ==
    /\ At(t, "insert")
    /\ remote' = [remote EXCEPT ![thr[t].account] = thr[t].fetched]
    /\ thr' = IF thr[t].account = "program"
              THEN [thr EXCEPT ![t].account = "data", ![t].pc = "fetch"]
              ELSE [thr EXCEPT ![t].pc = "remote"]
    /\ UNCHANGED <<baseVars, posts, program, txs, panicked, logged, simPosts>>

\* deactivate_account: get the account, remove it, remove its programdata.
Deactivate(t) ==
    /\ At(t, "deactivate")
    /\ Goto(t, IF remote[thr[t].account] = Nothing THEN "remote" ELSE "remove")
    /\ UNCHANGED <<baseVars, posts, remote, program, txs, panicked, logged, simPosts>>

Remove(t) ==
    /\ At(t, "remove")
    /\ remote' = [remote EXCEPT ![thr[t].account] = Nothing]
    /\ thr' = IF thr[t].account = "program"
              THEN [thr EXCEPT ![t].account = "data"]
              ELSE [thr EXCEPT ![t].pc = "remote"]
    /\ UNCHANGED <<baseVars, posts, program, txs, panicked, logged, simPosts>>

RemoteDone(t) ==
    /\ At(t, "remote") /\ thr[t].todo = {}
    /\ IF thr[t].plays = Nothing THEN Ends(t) ELSE Goto(t, "filter")
    /\ UNCHANGED <<baseVars, posts, remote, program, txs, panicked, logged, simPosts>>

-----------------------------------------------------------------------------
(* load_and_execute_transactions, for a transaction that plays.            *)

\* filter_executable_program_accounts: a program that does not exist is not
\* loaded, and the transaction fails.
Filter(t) ==
    /\ At(t, "filter")
    /\ IF remote["program"] = Nothing THEN Ends(t) ELSE Goto(t, "program")
    /\ UNCHANGED <<baseVars, posts, remote, program, txs, panicked, logged, simPosts>>

\* replenish_program_cache loads a program that has no entry. A program without
\* its data gets a tombstone; one that is gone by now is an expect() that fails.
LoadProgram(t) ==
    /\ At(t, "program")
    /\ LET found == IF program # "missing" THEN program
                    ELSE IF remote["data"] = Nothing THEN "closed" ELSE "loaded" IN
       IF program = "missing" /\ remote["program"] = Nothing
       THEN /\ panicked' = {"load_program"}
            /\ UNCHANGED <<program, thr>>
       ELSE /\ program' = found
            /\ IF found = "closed" THEN Ends(t) ELSE Goto(t, "execute")
            /\ UNCHANGED panicked
    /\ UNCHANGED <<baseVars, posts, remote, txs, logged, simPosts>>

\* An entry is unloaded or pruned.
EvictProgram ==
    /\ Running /\ program # "missing"
    /\ program' = "missing"
    /\ UNCHANGED <<baseVars, posts, remote, thr, txs, panicked, logged, simPosts>>

\* load_accounts and the fakesetvalue instruction, which fails before it logs if
\* there is no NFT. What comes after it may fail the transaction as well.
Execute(t) ==
    /\ At(t, "execute")
    /\ LET logs == t \in Recorders /\ remote["mint"] # Nothing IN
       /\ thr' = [thr EXCEPT ![t].pc = "post", ![t].logs = logs]
       /\ logged' = IF logs THEN logged \cup {thr[t].plays} ELSE logged
    /\ UNCHANGED <<baseVars, posts, remote, program, txs, panicked, simPosts>>

-----------------------------------------------------------------------------
(* post_status_to_baselayer, after every execution, whatever its status.   *)

\* is_sonic_program: is the program still in the cache ...
PostProgram(t) ==
    /\ At(t, "post")
    /\ IF remote["program"] = Nothing THEN Ends(t) ELSE Goto(t, "postMint")
    /\ UNCHANGED <<baseVars, posts, remote, program, txs, panicked, logged, simPosts>>

\* Mutant: the level is the one the instruction asks for, logged or not.
PostMintUnlogged(t) ==
    /\ At(t, "postMint")
    /\ IF remote["mint"] # Nothing THEN Goto(t, "blockhash") ELSE Ends(t)
    /\ UNCHANGED <<baseVars, posts, remote, program, txs, panicked, logged, simPosts>>

\* ... and the NFT, and did the program log a new level?
PostMint(t) ==
    /\ At(t, "postMint")
    /\ IF remote["mint"] # Nothing /\ thr[t].logs THEN Goto(t, "blockhash") ELSE Ends(t)
    /\ UNCHANGED <<baseVars, posts, remote, program, txs, panicked, logged, simPosts>>

\* send_status_to_baselayer: get_latest_blockhash().unwrap() ...
Blockhash(t) ==
    /\ At(t, "blockhash")
    /\ \/ Goto(t, "send") /\ UNCHANGED panicked
       \/ panicked' = {"blockhash"} /\ UNCHANGED thr
    /\ UNCHANGED <<baseVars, posts, remote, program, txs, logged, simPosts>>

\* Mutant: a post that could not be sent is tried again.
SendAgain(t) ==
    /\ At(t, "send")
    /\ \/ /\ posts' = [posts EXCEPT ![thr[t].plays] = @ + 1]
          /\ simPosts' = IF t \in Sims THEN simPosts \cup {thr[t].plays} ELSE simPosts
          /\ Goto(t, "reload")
       \/ Goto(t, "blockhash") /\ UNCHANGED <<posts, simPosts>>
    /\ UNCHANGED <<baseVars, remote, program, txs, panicked, logged>>

\* ... send_transaction, which does not wait for a confirmation, and then the
\* NFT is loaded again.
Send(t) ==
    /\ At(t, "send")
    /\ \/ /\ posts' = [posts EXCEPT ![thr[t].plays] = @ + 1]
          /\ simPosts' = IF t \in Sims THEN simPosts \cup {thr[t].plays} ELSE simPosts
          /\ Goto(t, "reload")
       \/ Ends(t) /\ UNCHANGED <<posts, simPosts>>
    /\ UNCHANGED <<baseVars, remote, program, txs, panicked, logged>>

\* Mutant: what was posted is cached in place of what the base layer has.
ReloadPosted(t) ==
    /\ At(t, "reload")
    /\ thr' = [thr EXCEPT ![t].account = "mint", ![t].fetched = thr[t].plays, ![t].pc = "reloaded"]
    /\ UNCHANGED <<baseVars, posts, remote, program, txs, panicked, logged, simPosts>>

Reload(t) ==
    /\ At(t, "reload")
    /\ \/ thr' = [thr EXCEPT ![t].account = "mint", ![t].fetched = BaseAccount("mint"), ![t].pc = "reloaded"]
       \/ Ends(t)
    /\ UNCHANGED <<baseVars, posts, remote, program, txs, panicked, logged, simPosts>>

Reloaded(t) ==
    /\ At(t, "reloaded")
    /\ remote' = [remote EXCEPT !["mint"] = thr[t].fetched]
    /\ Ends(t)
    /\ UNCHANGED <<baseVars, posts, program, txs, panicked, logged, simPosts>>

-----------------------------------------------------------------------------
(* The hgnft program on the base layer.                                    *)

SetLevel(v) ==
    /\ level' = v /\ locker' = Nothing
    /\ pastLevels' = pastLevels \cup {v}

\* Mutant: a post is two transactions.
LandInTwo(v) ==
    /\ posts[v] > 0
    /\ IF locker = "payer"
       THEN posts' = [posts EXCEPT ![v] = @ - 1] /\ SetLevel(v)
       ELSE locker' = "payer" /\ UNCHANGED <<posts, level, pastLevels>>
    /\ UNCHANGED <<userTxs, userLevels, gridVars>>

\* A post is one transaction: setlocker by the payer, then setvalue.
Land(v) ==
    /\ posts[v] > 0
    /\ posts' = [posts EXCEPT ![v] = @ - 1]
    /\ SetLevel(v)
    /\ UNCHANGED <<userTxs, userLevels, gridVars>>

\* A post expires or is dropped.
Lose(v) ==
    /\ posts[v] > 0
    /\ posts' = [posts EXCEPT ![v] = @ - 1]
    /\ UNCHANGED <<baseVars, gridVars>>

\* setlocker asks for a signature, and not for the one of the locker.
UserSetLocker(u) ==
    /\ userTxs < MaxUserTxs
    /\ userTxs' = userTxs + 1
    /\ locker' = u
    /\ UNCHANGED <<level, posts, userLevels, pastLevels, gridVars>>

UserSetValue(u, v) ==
    /\ userTxs < MaxUserTxs /\ locker = u
    /\ userTxs' = userTxs + 1
    /\ userLevels' = userLevels \cup {v}
    /\ SetLevel(v)
    /\ UNCHANGED <<posts, gridVars>>

-----------------------------------------------------------------------------
\* The steps of a thread from Begin to the end of its transaction.
Steps(t) ==
    \/ \E a \in Accounts : RemoteNext(t, a)
    \/ Fetch(t) \/ Insert(t) \/ Deactivate(t) \/ Remove(t) \/ RemoteDone(t)
    \/ Filter(t) \/ LoadProgram(t) \/ Execute(t)
    \/ PostProgram(t) \/ PostMint(t) \/ Blockhash(t) \/ Send(t) \/ Reload(t) \/ Reloaded(t)

Next ==
    \/ \E t \in Threads : (\E tx \in Txs : Begin(t, tx)) \/ Steps(t)
    \/ EvictProgram
    \/ \E v \in Levels : Land(v) \/ Lose(v)
    \/ \E u \in Users : UserSetLocker(u) \/ \E v \in Levels : UserSetValue(u, v)

Spec == Init /\ [][Next]_vars

\* A thread runs on while it has a transaction: every RPC call returns or fails.
FairSpec == Spec /\ \A t \in Threads : WF_vars(Steps(t))

-----------------------------------------------------------------------------
Pcs == {"idle", "remote", "fetch", "insert", "deactivate", "remove", "filter", "program", "execute",
        "post", "postMint", "blockhash", "send", "reload", "reloaded"}

\* The variables have their types.
TypeOK ==
    /\ level \in Levels /\ locker \in Users \cup {"payer", Nothing}
    /\ posts \in [Levels -> Nat]
    /\ remote \in [Accounts -> Levels \cup {Nothing}]
    /\ program \in {"missing", "loaded", "closed"}
    /\ thr \in [Threads -> [pc : Pcs, op : {"migrate", "deactivate"}, todo : SUBSET Accounts,
                            account : Accounts, fetched : Levels, plays : Levels \cup {Nothing},
                            logs : BOOLEAN]]
    /\ txs \in Nat /\ userTxs \in Nat
    /\ panicked \in SUBSET {"load_program", "blockhash"}
    /\ logged \in SUBSET Levels /\ userLevels \in SUBSET Levels
    /\ pastLevels \in SUBSET Levels /\ simPosts \in SUBSET Levels

\* The level the NFT has on the base layer was set by a user or is one the
\* program logged in an execution on the grid (post_status_to_baselayer takes
\* the value from the log, between two looks at a cache others change).
LevelIsAccountedFor == level \in {0} \cup userLevels \cup logged

\* setlocker and setvalue of a post take effect together: nobody finds the NFT
\* locked by the grid's payer, whatever users and other posts do in between.
GridNeverHoldsLock == locker # "payer"

\* The grid's copy of the NFT shows a level the NFT has had, however the posts,
\* reloads, migrations and the users' transactions interleave.
CachedIsPast == remote["mint"] \in pastLevels \cup {Nothing}

\* A transaction ends: no answer or failure of the base layer keeps a thread in
\* check_remote_accounts or post_status_to_baselayer for ever.
TransactionsEnd == \A t \in Threads : (thr[t].pc # "idle") ~> (thr[t].pc = "idle" \/ ~Running)

\* simulate_transaction "Run transactions against a frozen bank without
\* committing the results": no simulation posts a level.
SimulationNotPosted == simPosts = {}
=============================================================================
