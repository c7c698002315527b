---------------------------- MODULE RollingHash ----------------------------
(***************************************************************************)
(* The rolling hash of src/src/node.rs that decides where a node is cut.   *)
(* An item stands for one key-value pair: the number hash_item(key) +      *)
(* hash_item(value), each already reduced modulo Modulus.  The code works  *)
(* in u64; Width is the number of values of that machine integer, so that  *)
(* a product that does not fit wraps as it does in a release build.        *)
(***************************************************************************)
EXTENDS Naturals, Sequences

CONSTANTS Base,      \* ProllyNode::base
          Modulus,   \* ProllyNode::modulus
          Width      \* 2^64 in the program

(***************************************************************************)
(* The products and sums of the code fit into the machine word.  With the  *)
(* defaults (257, 1000000007, 2^64) this is so; TreeConfig accepts any     *)
(* values.                                                                 *)
(***************************************************************************)
ASSUME HashParameters ==
    /\ Base \in Nat /\ Modulus \in Nat \ {0} /\ Width \in Nat
    /\ (Modulus - 1) * Base + 2 * (Modulus - 1) < Width
    /\ (Modulus - 1) * (Modulus - 1) < Width

Wrap(n) == n % Width

(***************************************************************************)
(* mod_exp: square and multiply.  loop[i] is what the variables hold after *)
(* i iterations; an exponent that has reached 0 ends the loop.             *)
(***************************************************************************)
ModExp(base, exp) ==
    LET loop[i \in 0..exp] ==
          IF i = 0 THEN [exp |-> exp, base |-> base % Modulus, result |-> 1]
          ELSE LET at == loop[i - 1]
               IN  IF at.exp = 0 THEN at
                   ELSE [exp |-> at.exp \div 2,
                         base |-> Wrap(at.base * at.base) % Modulus,
                         result |-> IF at.exp % 2 = 1
                                    THEN Wrap(at.result * at.base) % Modulus
                                    ELSE at.result]
    IN  loop[exp].result

(***************************************************************************)
(* initialize_rolling_hash: Horner's rule over the window.                 *)
(***************************************************************************)
InitializeRollingHash(items) ==
    LET h[n \in 0..Len(items)] ==
          IF n = 0 THEN 0
          ELSE Wrap(Wrap(h[n-1] * Base) + items[n]) % Modulus
    IN  h[Len(items)]

\* mutant: the power that belongs to a window one pair shorter
UpdateWithShortPower(oldHash, oldKey, oldValue, newItem, size) ==
    LET power == ModExp(Base, size - 1)
    IN  (Wrap(Wrap(oldHash * Base) + newItem) + 2 * Modulus
           - (Wrap(oldKey * power) % Modulus) - (Wrap(oldValue * power) % Modulus))
        % Modulus

(***************************************************************************)
(* update_rolling_hash: the window slides by one; the item that leaves it  *)
(* has been multiplied by Base^size by then.                               *)
(***************************************************************************)
UpdateRollingHash(oldHash, oldKey, oldValue, newItem, size) ==
    LET power == ModExp(Base, size)
        h1 == Wrap(Wrap(oldHash * Base) + newItem) % Modulus
        h2 == (h1 + Modulus - (Wrap(oldKey * power) % Modulus)) % Modulus
    IN  (h2 + Modulus - (Wrap(oldValue * power) % Modulus)) % Modulus

(***************************************************************************)
(* hash & pattern = pattern, for the patterns of the form 2^n - 1 that the *)
(* program uses (DEFAULT_PATTERN is 63).                                   *)
(***************************************************************************)
MatchesPattern(hash, pattern) == hash % (pattern + 1) = pattern
=============================================================================
