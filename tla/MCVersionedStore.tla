-------------------------- MODULE MCVersionedStore --------------------------
(***************************************************************************)
(* Constants of VersionedStore for TLC.  Values are numbers and carry      *)
(* their own time; a semantic merge keeps the source's fields.             *)
(***************************************************************************)
EXTENDS StoreRefinement

CONSTANTS main, feature, k1, k2

MCBranches == {main, feature}

(* branch names, and refs/heads/main                                       *)
QualifiedNames == {main, feature, <<main>>}

MCTimestamp(v) == v

MCMergeJson(source, dest) == source
=============================================================================
