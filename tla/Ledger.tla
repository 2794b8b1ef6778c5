------------------------------- MODULE Ledger -------------------------------
(***************************************************************************)
(* What replay protection promises, with no blockhash queue, no status     *)
(* cache and no lock in sight: a fork is a set of transactions, a          *)
(* transaction enters it at most once, and a validator that restarts comes *)
(* back with a fork it had saved.  StatusCache.tla shows that the          *)
(* validator's data structures keep this promise.                          *)
(***************************************************************************)
EXTENDS Integers, Sequences

CONSTANTS
    Slots,          \* block numbers; slot 0 is the genesis block
    Transactions    \* everything a client can submit

VARIABLES
    ledger,         \* tip of a fork |-> where each transaction was processed
    saved           \* the forks a restart may come back with

vars == <<ledger, saved>>

Nowhere == [tx \in {} |-> << >>]

Init ==
    /\ ledger = [s \in {0} |-> Nowhere]
    /\ saved = {[slot |-> 0, done |-> Nowhere]}

(* A block starts on top of a block that it extends.                       *)
Extend ==
    /\ UNCHANGED saved
    /\ \E s \in Slots \ DOMAIN ledger, p \in DOMAIN ledger :
          ledger' = [x \in DOMAIN ledger \cup {s} |->
                        IF x = s THEN ledger[p] ELSE ledger[x]]

(* The promise: only a transaction that is nowhere on the fork is          *)
(* processed on it.                                                        *)
Process ==
    /\ UNCHANGED saved
    /\ \E s \in DOMAIN ledger :
        \E tx \in Transactions \ DOMAIN ledger[s] :
          ledger' = [ledger EXCEPT ![s] =
            [x \in DOMAIN ledger[s] \cup {tx} |->
                IF x = tx THEN <<s>> ELSE ledger[s][x]]]

(* Forks are given up: the root moves, or a block is dumped.               *)
Abandon ==
    /\ UNCHANGED saved
    /\ DOMAIN ledger' \subseteq DOMAIN ledger
    /\ ledger' = [s \in DOMAIN ledger' |-> ledger[s]]

(* A fork is saved, and older saved forks may be forgotten.                *)
Save ==
    /\ UNCHANGED ledger
    /\ \A f \in saved' \ saved :
            f.slot \in DOMAIN ledger /\ f.done = ledger[f.slot]

(* A restart keeps one saved fork and loses every other one.               *)
Restart ==
    \E f \in saved :
        /\ ledger' = [s \in {f.slot} |-> f.done]
        /\ saved' = {f}

Next == Save \/ Extend \/ Process \/ Abandon \/ Restart

Spec == Init /\ [][Next]_vars
=============================================================================
