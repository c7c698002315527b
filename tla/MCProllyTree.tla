---------------------------- MODULE MCProllyTree ----------------------------
(***************************************************************************)
(* Constants of ProllyTree for TLC.  A value is a sequence of one number,  *)
(* as TLC does not compare a number with a digest.                         *)
(***************************************************************************)
EXTENDS ProllyTree

(* Stand-ins for XxHash64: a key or a value counts for itself, a digest    *)
(* for its first key and the number of its keys.                           *)
MCKeyHash(k) == k % Modulus

MCValueHash(v) ==
    (IF Len(v) = 1 THEN v[1] ELSE IF v[1] = <<>> THEN 0 ELSE v[1][1] + Len(v[1])) % Modulus

MCValues == {<<0>>, <<1>>}

OneValue == {<<0>>}

MCBatches == {[k \in S |-> <<0>>] : S \in {T \in SUBSET Keys : Cardinality(T) = 2}}
=============================================================================
