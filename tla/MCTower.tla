------------------------------ MODULE MCTower ------------------------------
(* A small instance of Tower.                                              *)
EXTENDS Tower

(* INITIAL_LOCKOUT to the power of the confirmation count.                 *)
MCLockout == [c \in 1 .. MaxLockoutHistory |-> 2 ^ c]

=============================================================================
