---------------------------- MODULE MCWorktrees ----------------------------
(***************************************************************************)
(* Constants of Worktrees for TLC.                                         *)
(***************************************************************************)
EXTENDS Worktrees

CONSTANTS main, feature, m1, m2, w1, primary

MCManagers == {m1, m2}

MCLinked == {w1}

MCBranches == {main, feature}
=============================================================================
