---------------------------- MODULE MCRepository ----------------------------
(***************************************************************************)
(* Two processes, two branches and two keys; a file or RocksDB store       *)
(* differs from the other in the code that opens it only.                  *)
(***************************************************************************)
EXTENDS Repository, TLC

MCBackends == {"git", "memory", "rocksdb"}

(* Keys are never ordered.                                                 *)
Symmetries == Permutations(Keys)
=============================================================================
