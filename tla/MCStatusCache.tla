--------------------------- MODULE MCStatusCache ---------------------------
EXTENDS StatusCache, TLC

CONSTANTS t1, t2, k1, i1, i2

(* The code only compares key indexes.                                     *)
Symmetry == Permutations(Indexes)

Plain(h, k) == [recent |-> [durable |-> FALSE, hash |-> h], key |-> k]
Nonced(h, k) == [recent |-> [durable |-> TRUE, hash |-> h], key |-> k]

(* A transaction of the genesis block's hash, and one that a durable nonce *)
(* keeps valid for longer than any blockhash, each offered on both sides   *)
(* of slot 2; two threads compete for the first one in slot 3.             *)
MCSubmitted ==
    [w \in Threads \X Slots |->
        CASE w \in {<<t1, 1>>, <<t1, 3>>} -> {Plain(0, k1), Nonced(Genesis, k1)}
          [] w = <<t2, 3>> -> {Plain(0, k1)}
          [] OTHER -> {}]
=============================================================================
