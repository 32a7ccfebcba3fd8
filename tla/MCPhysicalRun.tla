--------------------------- MODULE MCPhysicalRun ----------------------------
(***************************************************************************)
(* Two runs, one after the other or interleaved command by command, on one *)
(* cluster.                                                                *)
(***************************************************************************)
EXTENDS PhysicalRun, TLC

CONSTANTS r1, r2

MCRuns == {r1, r2}
AnyOrder == Permutations(MCRuns)
=============================================================================
