---------------------------- MODULE MCHyperGrid ----------------------------
(* HyperGrid for TLC: a banking thread and a simulation.                   *)
EXTENDS HyperGrid

CONSTANTS banking, sim

Tx(op, accounts, plays) == [op |-> op, accounts |-> accounts, plays |-> plays]

\* A migration of everything followed by a play that sets level 1, and the
\* deactivation of the program.
MCTxs == {Tx("migrate", {"program", "mint"}, 1),
          Tx("deactivate", {"program"}, Nothing)}
=============================================================================
