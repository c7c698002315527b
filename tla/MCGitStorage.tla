---------------------------- MODULE MCGitStorage ----------------------------
(***************************************************************************)
(* Constants of GitStorage for TLC: two leaves, the internal node over     *)
(* them and the empty root; each can be the root of a tree.                *)
(***************************************************************************)
EXTENDS GitStorage

CONSTANTS empty, leaf1, leaf2, inner

MCDigests == {empty, leaf1, leaf2, inner}

MCChildren == [d \in MCDigests |-> IF d = inner THEN {leaf1, leaf2} ELSE {}]
=============================================================================
