--------------------------- MODULE MCAccountLocks ---------------------------
(* Account locks with one address, two batches of up to two transactions    *)
(* and a simulation.                                                        *)
EXTENDS AccountLocks

CONSTANTS k1, b1, b2, sim

MCKeys == {k1}
MCBatches == {b1, b2}
MCSims == {sim}
=============================================================================
