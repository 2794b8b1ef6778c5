------------------------------- MODULE Tower -------------------------------
(***************************************************************************)
(* A validator's votes: the tower of lockouts that the replay stage keeps  *)
(* in memory, the voting service that saves the tower and then sends the   *)
(* vote, the blockstore's roots, the vote account that the vote program    *)
(* keeps in every bank, and the restart that puts a saved tower and the    *)
(* roots found on disk together again.  A crash may come between any two   *)
(* of these steps.                                                         *)
(*                                                                         *)
(* The stakes and votes of the other validators are left open: whatever    *)
(* fork choice, switch proofs, vote thresholds and propagation checks may  *)
(* decide is allowed.                                                      *)
(***************************************************************************)
EXTENDS Integers, Sequences, FiniteSets

CONSTANTS
    MaxLockoutHistory,  \* MAX_LOCKOUT_HISTORY
    Lockout,            \* Lockout::lockout as a function of confirmation_count
    MaxSlot,            \* bound: highest slot
    MaxBlocks,          \* bound: blocks besides the genesis block
    MaxQueue,           \* bound: vote operations waiting for the voting service
    MaxCrashes          \* bound: crashes

(* MAX_LOCKOUT_HISTORY is 31 and the lockout is 2^confirmation_count: more *)
(* confirmations never lock a vote for less.  A tower of one vote would    *)
(* root it before is_locked_out looks at it.                               *)
ASSUME LockoutAssumption ==
    /\ MaxLockoutHistory \in Nat \ {0, 1}
    /\ MaxSlot \in Nat /\ MaxBlocks \in Nat
    /\ MaxQueue \in Nat /\ MaxCrashes \in Nat
    /\ Lockout \in [1 .. MaxLockoutHistory -> Nat]
    /\ \A c, d \in 1 .. MaxLockoutHistory : c <= d => Lockout[c] <= Lockout[d]

VARIABLES
    blocks,      \* blockstore: slot |-> [chain, account], every block replayed
    ledgerRoot,  \* blockstore: the newest rooted slot
    stored,      \* tower storage: the saved tower, none or one
    sent,        \* the vote state updates that left the node
    root,        \* BankForks::root
    uncomputed,  \* frozen banks whose ForkStats are not computed
    tower,       \* Tower
    pc,          \* the replay loop: "replay", or "push" before push_vote
    queue,       \* channel of VoteOps to the voting service
    sending,     \* the VoteOp the voting service has saved and not sent
    crashes      \* crashes so far

vars == <<blocks, ledgerRoot, stored, sent, root, uncomputed, tower, pc, queue,
          sending, crashes>>

Slots == 0 .. MaxSlot

(* A Lockout.  The votes of a vote state are a set: their slots are        *)
(* distinct, and their order on the stack is the order of the slots.       *)
Votes == [slot : Slots, conf : 1 .. MaxLockoutHistory]

(* A VoteStateUpdate, a saved tower or the vote state of an account.  The  *)
(* root of a new account is None; like None, slot 0 is below every vote.   *)
VoteStates == [votes : SUBSET Votes, root : Slots]

EmptyVoteState == [votes |-> {}, root |-> 0]

(* stray_restored_slot and whether last_vote_tx_blockhash is set live only *)
(* in memory.  Tower::last_vote names the same last slot as vote_state.    *)
Towers == [votes : SUBSET Votes, root : Slots, stray : SUBSET Slots,
           pushed : BOOLEAN]

VoteStateOf(t) == [votes |-> t.votes, root |-> t.root]

-----------------------------------------------------------------------------
(* The tower of lockouts                                                   *)

IsLockedOutAtSlot(v, s) == v.slot + Lockout[v.conf] >= s

SlotsOf(state) == {v.slot : v \in state.votes}

(* last_voted_slot as a set: none or one.                                  *)
LastVotedSlot(state) ==
    {s \in SlotsOf(state) : \A x \in SlotsOf(state) : x <= s}

(* Votes are popped from the top of the stack while they have expired.     *)
PopExpiredVotes(votes, s) ==
    {v \in votes : \E w \in votes : v.slot <= w.slot /\ IsLockedOutAtSlot(w, s)}

Below(votes, v) == {w \in votes : w.slot < v.slot}

DoubleLockouts(votes) ==
    {[v EXCEPT !.conf =
        IF Cardinality(votes) > Cardinality(Below(votes, v)) + @
        THEN @ + 1 ELSE @] : v \in votes}

(* The oldest vote of a full tower becomes the root.  Slots that are not   *)
(* newer than the last vote are ignored.                                   *)
ProcessNextVoteSlot(state, s) ==
    LET kept   == PopExpiredVotes(state.votes, s)
        oldest == {v \in kept : \A w \in kept : v.slot <= w.slot}
        rooted == IF Cardinality(kept) = MaxLockoutHistory THEN oldest ELSE {}
        votes  == (kept \ rooted) \cup {[slot |-> s, conf |-> 1]}
    IN  IF \E v \in state.votes : s <= v.slot
        THEN state
        ELSE [state EXCEPT !.votes = DoubleLockouts(votes),
                           !.root = IF rooted = {} THEN @
                                    ELSE (CHOOSE v \in rooted : TRUE).slot]

-----------------------------------------------------------------------------
(* BankForks: the banks that descend from the root, all of them frozen     *)

Descendants(r) == {b \in DOMAIN blocks : r \in blocks[b].chain}

Live == Descendants(root)

Leaves == {b \in Live : \A x \in Live : b \in blocks[x].chain => x = b}

(* BankForks::ancestors.                                                   *)
Ancestors(s) == {x \in blocks[s].chain \ {s} : x >= root}

IsRecent(s) ==
    /\ \A v \in tower.votes : v.slot < s
    /\ tower.votes = {} => s > tower.root

(* A mutant: votes on other forks are not looked at.                       *)
IsNotRecent(s) == ~IsRecent(s)

IsLockedOut(s) ==
    \/ ~IsRecent(s)
    \/ \E v \in ProcessNextVoteSlot(tower, s).votes :
          v.slot # s /\ v.slot \notin Ancestors(s)

-----------------------------------------------------------------------------
(* The vote program                                                        *)

(* check_update_vote_state_slots_are_valid in a bank whose parent has this *)
(* chain: all of the chain is in SlotHashes.                               *)
SlotsAreValid(account, update, chain) ==
    /\ update.votes # {}
    /\ \E v \in update.votes : \A w \in account.votes : w.slot < v.slot
    /\ SlotsOf(update) \cup {update.root} \subseteq chain

(* The checks of process_new_vote_state on the new state alone ...         *)
WellOrdered(update) ==
    /\ Cardinality(update.votes) <= MaxLockoutHistory
    /\ update.root # 0 => \A v \in update.votes : v.slot > update.root
    /\ \A v, w \in update.votes :
          v.slot < w.slot =>
            /\ v.conf > w.conf
            /\ \/ \E x \in update.votes : v.slot < x.slot /\ x.slot < w.slot
               \/ IsLockedOutAtSlot(v, w.slot)

(* ... and against the current one: a vote that is gone must have expired  *)
(* when the next vote that is left was made.                               *)
NoRollBack(account, update) ==
    /\ account.root <= update.root
    /\ \A v \in account.votes :
          v.slot > update.root =>
            \A w \in update.votes :
               ( /\ v.slot <= w.slot
                 /\ \A x \in update.votes : v.slot <= x.slot => w.slot <= x.slot ) =>
               IF v.slot = w.slot THEN v.conf <= w.conf
                                  ELSE ~IsLockedOutAtSlot(v, w.slot)

Accepted(account, update, chain) ==
    /\ SlotsAreValid(account, update, chain)
    /\ WellOrdered(update)
    /\ NoRollBack(account, update)

-----------------------------------------------------------------------------
(* Restoring a tower                                                       *)

(* SlotHistory at the replayed root r: the root's chain, to which the root *)
(* of a tower from the future is added.                                    *)
SlotHistory(saved, r) ==
    blocks[r].chain \cup (IF saved.root > r THEN {saved.root} ELSE {})

Anchors(saved, r) ==
    (SlotsOf(saved) \cup {saved.root}) \cap SlotHistory(saved, r)

(* adjust_lockouts_after_replay neither fails nor trips over an assertion. *)
Restorable(saved, r) ==
    /\ saved.votes = {} => saved.root = r
    /\ Anchors(saved, r) # {}
    /\ \A s \in (SlotsOf(saved) \cup {saved.root}) \ SlotHistory(saved, r) :
          \A a \in Anchors(saved, r) : a < s
    /\ \A v \in saved.votes : saved.root <= v.slot

(* A mutant: a restored tower is trimmed like one made from a bank.        *)
AdjustLockoutsByRoot(saved, r) ==
    [votes  |-> {v \in saved.votes : v.slot > r},
     root   |-> r,
     stray  |-> LastVotedSlot(saved),
     pushed |-> FALSE]

(* A mutant: initialize_root is forgotten.                                 *)
AdjustLockoutsOnly(saved, r) ==
    LET kept == {v \in saved.votes : \A a \in Anchors(saved, r) : a < v.slot}
    IN  [votes  |-> kept,
         root   |-> saved.root,
         stray  |-> LastVotedSlot([votes |-> kept, root |-> r]),
         pushed |-> FALSE]

(* Only the votes newer than the newest slot on the root's chain are kept. *)
AdjustLockoutsAfterReplay(saved, r) ==
    LET kept == {v \in saved.votes : \A a \in Anchors(saved, r) : a < v.slot}
    IN  [votes  |-> kept,
         root   |-> IF saved.root <= r THEN r ELSE saved.root,
         stray  |-> LastVotedSlot([votes |-> kept, root |-> r]),
         pushed |-> FALSE]

InitializeLockoutsFromBank(bank, r) ==
    [votes  |-> {v \in blocks[bank].account.votes : v.slot > r},
     root   |-> r,
     stray  |-> {},
     pushed |-> FALSE]

-----------------------------------------------------------------------------
(* The replay stage                                                        *)

(* A bank s on parent p is replayed and frozen.  Any of the votes that     *)
(* were sent may be in it, and may have been before: votes get lost, come  *)
(* late and come twice.                                                    *)
NewBank(p, s, landed) ==
    /\ pc = "replay"
    /\ p \in Live
    /\ Cardinality(DOMAIN blocks) <= MaxBlocks
    /\ s > p /\ s \notin DOMAIN blocks
    /\ \A u \in landed : Accepted(blocks[p].account, u, blocks[p].chain)
    /\ blocks' = [b \in DOMAIN blocks \cup {s} |->
                    IF b = s
                    THEN [chain   |-> blocks[p].chain \cup {s},
                          account |-> IF landed = {} THEN blocks[p].account
                                      ELSE CHOOSE u \in landed : TRUE]
                    ELSE blocks[b]]
    /\ uncomputed' = uncomputed \cup {s}
    /\ UNCHANGED <<ledgerRoot, stored, sent, root, tower, pc, queue, sending,
                   crashes>>

Adopted(account) ==
    [tower EXCEPT
        !.votes = IF tower.root > account.root
                  THEN {v \in account.votes : v.slot > tower.root}
                  ELSE account.votes,
        !.root = IF @ > account.root THEN @ ELSE account.root]

(* The part of compute_bank_stats that concerns the own vote account: when *)
(* a bank holds a newer vote than the tower, the tower becomes the bank's. *)
ComputeBankStats(s) ==
    /\ pc = "replay"
    /\ s \in uncomputed /\ \A x \in uncomputed : s <= x
    /\ uncomputed' = uncomputed \ {s}
    /\ tower' = IF \E a \in blocks[s].account.votes :
                      \A v \in tower.votes : v.slot < a.slot
                THEN Adopted(blocks[s].account)
                ELSE tower
    /\ UNCHANGED <<blocks, ledgerRoot, stored, sent, root, pc, queue, sending,
                   crashes>>

(* A mutant: the blockstore is not told of the new root.                   *)
RecordWithoutSetRoots(s) ==
    /\ pc = "replay"
    /\ uncomputed = {}
    /\ s \in Leaves
    /\ ~IsLockedOut(s)
    /\ tower' = ProcessNextVoteSlot(tower, s)
    /\ root' = tower'.root
    /\ pc' = "push"
    /\ UNCHANGED <<blocks, ledgerRoot, stored, sent, uncomputed, queue, sending,
                   crashes>>

(* handle_votable_bank up to push_vote: the vote is recorded; a new root   *)
(* is written to the blockstore and set in BankForks.  The bank s, chosen  *)
(* by fork choice, is the tip of a fork.                                   *)
RecordBankVote(s) ==
    /\ pc = "replay"
    /\ uncomputed = {}
    /\ s \in Leaves
    /\ ~IsLockedOut(s)
    /\ tower' = ProcessNextVoteSlot(tower, s)
    /\ IF tower'.root # tower.root
       THEN ledgerRoot' = tower'.root /\ root' = tower'.root
       ELSE UNCHANGED <<ledgerRoot, root>>
    /\ pc' = "push"
    /\ UNCHANGED <<blocks, stored, sent, uncomputed, queue, sending, crashes>>

(* push_vote.                                                              *)
PushVote ==
    /\ pc = "push"
    /\ Len(queue) < MaxQueue
    /\ pc' = "replay"
    /\ tower' = [tower EXCEPT !.pushed = TRUE]
    /\ queue' = Append(queue, [vote |-> VoteStateOf(tower), push |-> TRUE])
    /\ UNCHANGED <<blocks, ledgerRoot, stored, sent, root, uncomputed, sending,
                   crashes>>

(* generate_vote_tx makes no transaction: startup verification is not      *)
(* complete, wait_to_vote_slot is not reached.  Both are over by the time  *)
(* a first vote is pushed.                                                 *)
NoVoteTx ==
    /\ pc = "push"
    /\ ~tower.pushed
    /\ pc' = "replay"
    /\ UNCHANGED <<blocks, ledgerRoot, stored, sent, root, uncomputed, tower,
                   queue, sending, crashes>>

(* refresh_last_vote: only older votes have landed on the last vote's fork *)
(* and the blockhash of its transaction has expired, so it is sent once    *)
(* more.                                                                   *)
RefreshLastVote(bank) ==
    /\ pc = "replay"
    /\ uncomputed = {}
    /\ tower.pushed
    /\ Len(queue) < MaxQueue
    /\ bank \in Leaves
    /\ \E s \in LastVotedSlot(tower) :
          /\ s \in blocks[bank].chain
          /\ blocks[bank].account.votes # {}
          /\ \A a \in blocks[bank].account.votes : a.slot < s
    /\ queue' = Append(queue, [vote |-> VoteStateOf(tower), push |-> FALSE])
    /\ UNCHANGED <<blocks, ledgerRoot, stored, sent, root, uncomputed, tower,
                   pc, sending, crashes>>

-----------------------------------------------------------------------------
(* The voting service: handle_vote saves the tower, then sends the vote    *)

SaveTower ==
    /\ sending = {}
    /\ queue # <<>>
    /\ stored' = IF Head(queue).push THEN {Head(queue).vote} ELSE stored
    /\ sending' = {Head(queue).vote}
    /\ queue' = Tail(queue)
    /\ UNCHANGED <<blocks, ledgerRoot, sent, root, uncomputed, tower, pc, crashes>>

SendVote ==
    /\ sending # {}
    /\ sent' = sent \cup sending
    /\ sending' = {}
    /\ UNCHANGED <<blocks, ledgerRoot, stored, root, uncomputed, tower, pc,
                   queue, crashes>>

-----------------------------------------------------------------------------
(* The process dies and starts again.  Replay begins at the blockstore's   *)
(* root; past it, it takes the newest root r that a supermajority of the   *)
(* vote accounts in a replayed bank agree on.  A tower that cannot be      *)
(* restored is rebuilt from the vote account in the heaviest bank.         *)
Restart(r, heaviest) ==
    /\ crashes < MaxCrashes
    /\ r \in Descendants(ledgerRoot)
    /\ r # ledgerRoot => Descendants(r) # {r}
    /\ heaviest \in Descendants(r)
    /\ crashes' = crashes + 1
    /\ root' = r
    /\ ledgerRoot' = r
    /\ uncomputed' = Descendants(r)
    /\ tower' = IF \E saved \in stored : Restorable(saved, r)
                THEN AdjustLockoutsAfterReplay(CHOOSE saved \in stored : TRUE, r)
                ELSE InitializeLockoutsFromBank(heaviest, r)
    /\ pc' = "replay"
    /\ queue' = <<>>
    /\ sending' = {}
    /\ UNCHANGED <<blocks, stored, sent>>

Init ==
    /\ blocks = [b \in {0} |-> [chain |-> {0}, account |-> EmptyVoteState]]
    /\ ledgerRoot = 0
    /\ stored = {}
    /\ sent = {}
    /\ root = 0
    /\ uncomputed = {}
    /\ tower = [votes |-> {}, root |-> 0, stray |-> {}, pushed |-> FALSE]
    /\ pc = "replay"
    /\ queue = <<>>
    /\ sending = {}
    /\ crashes = 0

Next ==
    \/ \E p, s \in Slots : NewBank(p, s, {})
    \/ \E p, s \in Slots, u \in sent : NewBank(p, s, {u})
    \/ \E s \in Slots : ComputeBankStats(s)
    \/ \E s \in Slots : RecordBankVote(s)
    \/ PushVote
    \/ NoVoteTx
    \/ \E bank \in Slots : RefreshLastVote(bank)
    \/ SaveTower
    \/ SendVote
    \/ \E r, heaviest \in Slots : Restart(r, heaviest)

Spec == Init /\ [][Next]_vars

(* The admin RPC can take the authorized voter keypairs away and give them *)
(* back: then a vote is recorded for which generate_vote_tx makes no       *)
(* transaction, after others have been pushed.                             *)
NoAuthorizedVoter ==
    /\ pc = "push"
    /\ tower.pushed
    /\ pc' = "replay"
    /\ UNCHANGED <<blocks, ledgerRoot, stored, sent, root, uncomputed, tower,
                   queue, sending, crashes>>

SpecRekey == Init /\ [][Next \/ NoAuthorizedVoter]_vars

-----------------------------------------------------------------------------
(* Properties                                                              *)

(* No vote breaks the lockout of another: as long as a vote that was sent  *)
(* locks the validator in (last_locked_out_slot), it votes only for slots  *)
(* that descend from it, whatever crashed in between and whichever root    *)
(* the restart found.                                                      *)
LockoutsHonoured ==
    \A u, w \in sent : \A v \in u.votes : \A t \in LastVotedSlot(w) :
        (v.slot < t /\ t <= v.slot + Lockout[v.conf]) => v.slot \in blocks[t].chain

(* The vote program refuses no vote of this validator that arrives on the  *)
(* voted fork before a newer one: neither its lockouts nor its root ever   *)
(* go back on what the account holds, lost votes and restarts included.    *)
VotesAreAccepted ==
    \A u \in sent : \A b \in DOMAIN blocks :
        (/\ LastVotedSlot(u) \subseteq blocks[b].chain
         /\ \A a \in blocks[b].account.votes : \A t \in LastVotedSlot(u) : a.slot < t)
        => Accepted(blocks[b].account, u, blocks[b].chain)

(* A restart at any root that the startup may find restores the saved      *)
(* tower: no "diverged ancestor", no "no common slot for rooted tower", no *)
(* vote out of order, and no tower that is ahead of the blockstore's root  *)
(* ("REPROCESSING slots which has already been voted and ROOTED by us").   *)
TowerRestores ==
    \A saved \in stored :
        /\ saved.root <= ledgerRoot
        /\ \A r \in Descendants(ledgerRoot) : Restorable(saved, r)

(* The replay stage meets none of the panics around a vote: the root of    *)
(* the tower is an ancestor of every bank that is not locked out, the bank *)
(* of a new root exists, and the bank of the last vote exists unless the   *)
(* vote is a stray one from before a restart.                              *)
ReplayNeverPanics ==
    (pc = "replay" /\ uncomputed = {}) =>
        /\ \A s \in Leaves : ~IsLockedOut(s) =>
              LET voted == ProcessNextVoteSlot(tower, s)
              IN  /\ voted.root \in Ancestors(s) \cup {s}
                  /\ voted.root # tower.root => voted.root \in Live
        /\ LastVotedSlot(tower) \subseteq Live \cup tower.stray

(* The tower is written before a vote is submitted: the saved tower is     *)
(* never older than a vote that was sent.                                  *)
SavedBeforeSent ==
    \A u \in sent : \A t \in LastVotedSlot(u) :
        \E saved \in stored : \E s \in LastVotedSlot(saved) : t <= s

=============================================================================
