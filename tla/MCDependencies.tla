--------------------------- MODULE MCDependencies ---------------------------
(***************************************************************************)
(* Two commits, one of which the branch names; a run with a worktree and   *)
(* one that reads the checkout.                                            *)
(***************************************************************************)
EXTENDS Dependencies

CONSTANTS c1, c2, deploy, plan

MCCommits  == {c1, c2}
MCTip      == c2
MCIsolated == {deploy}
MCDirect   == {plan}
=============================================================================
