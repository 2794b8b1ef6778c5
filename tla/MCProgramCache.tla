--------------------------- MODULE MCProgramCache ---------------------------
(***************************************************************************)
(* The program cache with a handful of threads: r1 and r2 replay, sim      *)
(* simulates; prog is deployed on the grid, baseProg on the base layer.    *)
(***************************************************************************)
EXTENDS ProgramCache, TLC
CONSTANTS prog, baseProg, r1, r2, sim

MCSymmetry == Permutations({r1, r2})
=============================================================================
