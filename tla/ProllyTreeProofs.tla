-------------------------- MODULE ProllyTreeProofs --------------------------
(***************************************************************************)
(* Theorems about the tree, for any keys, values, chunk sizes, hashes and  *)
(* storages.                                                               *)
(*                                                                         *)
(* insert, delete, find and the walks over the leaves are recursions       *)
(* through the storage.  What is to be shown of one is a family of sets of *)
(* answers, G[d] for d calls left, that the recursion goes through from    *)
(* call to call (InsertInduction and its sisters); one lemma per step of a *)
(* node (SortLast, Cut, Balance, ReplaceChild, ...) says what it does to   *)
(* the answer.  The loops of the batch calls and of the merge are treated  *)
(* in the same way.                                                        *)
(***************************************************************************)
EXTENDS ProllyTree, WellFoundedInduction, SequenceTheorems, FiniteSetTheorems, TLAPS

-----------------------------------------------------------------------------
(* Induction and recursive functions over the naturals                     *)

(***************************************************************************)
(* Every set of naturals that is not empty has a least element.            *)
(***************************************************************************)
LEMMA LeastNat ==
    ASSUME NEW S \in SUBSET Nat, S # {}
    PROVE  \E n \in S : \A m \in S : n <= m
<1>1. PICK W : IsWellFoundedOn(W, Nat) /\ \A m, n \in Nat : m < n => <<m, n>> \in W
  <2>1. \A m, n \in Nat : m < n => <<m, n>> \in OpToRel(<, Nat)
    BY DEF OpToRel
  <2> QED BY <2>1, NatLessThanWellFounded, Zenon
<1>2. \E n \in S : \A m \in S : ~(<<m, n>> \in W)
  <2>1. IsWellFoundedOn(W, Nat) /\ S \subseteq Nat
    BY <1>1
  <2> QED BY <2>1, WFMin, Zenon
<1>3. PICK n \in S : \A m \in S : ~(<<m, n>> \in W)
  BY <1>2
<1>4. \A m \in S : ~(m < n)
  BY <1>1, <1>3
<1> QED BY <1>4

(***************************************************************************)
(* A set that has every natural whose predecessors it has has them all.    *)
(***************************************************************************)
LEMMA CourseOfValues ==
    ASSUME NEW S, \A n \in Nat : 0..(n - 1) \subseteq S => n \in S
    PROVE  Nat \subseteq S
<1> SUFFICES ASSUME Nat \ S # {} PROVE FALSE
  OBVIOUS
<1>1. PICK n \in Nat \ S : \A m \in Nat \ S : n <= m
  <2>1. (Nat \ S) \in SUBSET Nat
    OBVIOUS
  <2> QED BY <2>1, LeastNat
<1>2. 0..(n - 1) \subseteq S
  BY <1>1
<1> QED BY <1>1, <1>2

(***************************************************************************)
(* A set that has 0 and goes on one by one up to N has all of 0..N.        *)
(***************************************************************************)
LEMMA StepByStep ==
    ASSUME NEW N \in Nat, NEW S, 0 \in S, \A n \in 1..N : n - 1 \in S => n \in S
    PROVE  0..N \subseteq S
<1> DEFINE T == S \cup {n \in Nat : n > N}
<1>1. ASSUME NEW n \in Nat, 0..(n - 1) \subseteq T PROVE n \in T
  <2>1. CASE n = 0
    BY <2>1
  <2>2. CASE n # 0
    <3>1. n - 1 \in T
      BY <1>1, <2>2
    <3> QED BY <2>2, <3>1
  <2> QED BY <2>1, <2>2
<1> HIDE DEF T
<1>2. Nat \subseteq T
  BY <1>1, CourseOfValues
<1> QED BY <1>2 DEF T

Steps(S, N, V) == \A n \in 1..N, v \in V : S[n][v] \in V

Iterates(f, N, V, a, S) ==
    f \in [0..N -> V] /\ f[0] = a /\ \A n \in 1..N : f[n] = S[n][f[n - 1]]

(***************************************************************************)
(* A function defined step by step within one set exists.                  *)
(***************************************************************************)
LEMMA RecursiveFunction ==
    ASSUME NEW N \in Nat, NEW V, NEW a \in V, NEW Step, Steps(Step, N, V)
    PROVE  \E f : Iterates(f, N, V, a, Step)
<1>0. \A n \in 1..N, v \in V : Step[n][v] \in V
  BY DEF Steps
<1> DEFINE P(n) == \E f \in [0..n -> V] : f[0] = a /\ \A m \in 1..n : f[m] = Step[m][f[m - 1]]
           S == {n \in 0..N : P(n)}
<1>1. 0 \in S
  <2> DEFINE f == [m \in 0..0 |-> a]
  <2>1. f \in [0..0 -> V] /\ f[0] = a /\ \A m \in 1..0 : f[m] = Step[m][f[m - 1]]
    OBVIOUS
  <2> HIDE DEF f
  <2>2. P(0) /\ 0 \in 0..N
    BY <2>1
  <2> QED BY <2>2
<1>2. ASSUME NEW n \in 1..N, n - 1 \in S PROVE n \in S
  <2>1. PICK g \in [0..(n - 1) -> V] : g[0] = a /\ \A m \in 1..(n - 1) : g[m] = Step[m][g[m - 1]]
    BY <1>2
  <2> DEFINE f == [m \in 0..n |-> IF m = n THEN Step[n][g[n - 1]] ELSE g[m]]
  <2>2. f \in [0..n -> V]
    <3>1. Step[n][g[n - 1]] \in V
      BY <1>0, <2>1
    <3>2. \A m \in 0..n : m # n => g[m] \in V
      BY <2>1
    <3> QED BY <3>1, <3>2
  <2>3. f[0] = a
    BY <2>1
  <2>4. ASSUME NEW m \in 1..n PROVE f[m] = Step[m][f[m - 1]]
    <3>1. f[m - 1] = g[m - 1]
      OBVIOUS
    <3>2. CASE m = n
      BY <3>1, <3>2
    <3>3. CASE m # n
      BY <2>1, <3>1, <3>3
    <3> QED BY <3>2, <3>3
  <2> HIDE DEF f
  <2> QED BY <2>2, <2>3, <2>4
<1>3. 0..N \subseteq S
  <2> HIDE DEF S
  <2> QED BY <1>1, <1>2, StepByStep
<1>4. N \in S
  BY <1>3
<1> QED BY <1>4 DEF Iterates

(***************************************************************************)
(* A number below the width of a word is itself.                           *)
(***************************************************************************)
LEMMA Unwrap ==
    ASSUME NEW n \in Nat, n < Width PROVE Wrap(n) = n
BY HashParameters DEF Wrap

(***************************************************************************)
(* A remainder is reduced and differs from its number by a multiple of the *)
(* modulus.                                                                *)
(***************************************************************************)
LEMMA ModBounds ==
    ASSUME NEW n \in Int
    PROVE  /\ n % Modulus \in 0..(Modulus - 1)
           /\ \E q \in Int : n = Modulus * q + (n % Modulus)
<1>1. n % Modulus \in 0..(Modulus - 1)
  BY HashParameters
<1>2. n \div Modulus \in Int /\ n = Modulus * (n \div Modulus) + (n % Modulus)
  BY HashParameters
<1> QED BY <1>1, <1>2

(***************************************************************************)
(* A reduced number that differs by a multiple of the modulus is the       *)
(* remainder.                                                              *)
(***************************************************************************)
LEMMA ModUnique ==
    ASSUME NEW n \in Int, NEW q \in Int, NEW r \in 0..(Modulus - 1), n = Modulus * q + r
    PROVE  n % Modulus = r
BY HashParameters

Congruent(a, b) == \E q \in Int : a = b + Modulus * q

(***************************************************************************)
(* A number is congruent to its remainder and to itself.                   *)
(***************************************************************************)
LEMMA CongruentMod ==
    ASSUME NEW n \in Int
    PROVE  Congruent(n % Modulus, n) /\ Congruent(n, n)
<1>1. PICK q \in Int : n = Modulus * q + (n % Modulus)
  BY ModBounds
<1>2. n % Modulus \in Int
  BY ModBounds
<1>3. n % Modulus = n + Modulus * (- q)
  BY <1>1, <1>2, HashParameters
<1>4. n = n + Modulus * 0
  BY HashParameters
<1> QED BY <1>3, <1>4 DEF Congruent

(***************************************************************************)
(* A reduced number congruent to b is the remainder of b.                  *)
(***************************************************************************)
LEMMA CongruentReduced ==
    ASSUME NEW a \in 0..(Modulus - 1), NEW b \in Int, Congruent(a, b)
    PROVE  a = b % Modulus
<1>1. PICK q \in Int : a = b + Modulus * q
  BY DEF Congruent
<1>2. b = Modulus * (- q) + a
  BY <1>1, HashParameters
<1> QED BY <1>2, ModUnique, HashParameters

(***************************************************************************)
(* Congruence is symmetric and goes through sums, differences and          *)
(* products.                                                               *)
(***************************************************************************)
LEMMA CongruentAlgebra ==
    ASSUME NEW a \in Int, NEW b \in Int, NEW c \in Int, NEW d \in Int,
           Congruent(a, b), Congruent(c, d)
    PROVE  /\ Congruent(b, a)
           /\ Congruent(a + c, b + d)
           /\ Congruent(a - c, b - d)
           /\ Congruent(a * c, b * d)
<1>1. PICK q \in Int : a = b + Modulus * q
  BY DEF Congruent
<1>2. PICK r \in Int : c = d + Modulus * r
  BY DEF Congruent
<1> USE HashParameters
<1>3. b = a + Modulus * (- q)
  BY <1>1
<1>4. a + c = (b + d) + Modulus * (q + r)
  BY <1>1, <1>2
<1>5. a - c = (b - d) + Modulus * (q - r)
  BY <1>1, <1>2
<1>6. a * c = (b * d) + Modulus * (b * r + d * q + Modulus * q * r)
  BY <1>1, <1>2
<1>7. - q \in Int /\ q + r \in Int /\ q - r \in Int /\ b * r + d * q + Modulus * q * r \in Int
  OBVIOUS
<1> QED BY <1>3, <1>4, <1>5, <1>6, <1>7 DEF Congruent

(***************************************************************************)
(* Congruence is transitive.                                               *)
(***************************************************************************)
LEMMA CongruentTrans ==
    ASSUME NEW a \in Int, NEW b \in Int, NEW c \in Int, Congruent(a, b), Congruent(b, c)
    PROVE  Congruent(a, c)
<1>1. PICK q \in Int : a = b + Modulus * q
  BY DEF Congruent
<1>2. PICK r \in Int : b = c + Modulus * r
  BY DEF Congruent
<1>3. a = c + Modulus * (q + r) /\ q + r \in Int
  BY <1>1, <1>2, HashParameters
<1> QED BY <1>3 DEF Congruent

PowerOf(b, N) == CHOOSE p : p = [j \in 0..N |-> IF j = 0 THEN 1 ELSE b * p[j - 1]]

(***************************************************************************)
(* The powers of b, by their recursion.                                    *)
(***************************************************************************)
LEMMA PowerUnfold ==
    ASSUME NEW b \in Nat, NEW N \in Nat
    PROVE  /\ PowerOf(b, N) = [j \in 0..N |-> IF j = 0 THEN 1 ELSE b * PowerOf(b, N)[j - 1]]
           /\ PowerOf(b, N) \in [0..N -> Nat]
           /\ PowerOf(b, N)[0] = 1
           /\ \A j \in 1..N : PowerOf(b, N)[j] = b * PowerOf(b, N)[j - 1]
<1> DEFINE V == Nat
           a == 1
           S == [j \in 1..N |-> [v \in Nat |-> b * v]]
<1>0. a \in V /\ \A j \in 1..N, v \in V : S[j][v] = b * v /\ S[j][v] \in V
  OBVIOUS
<1> HIDE DEF S, V, a
<1>1. PICK f : Iterates(f, N, V, a, S)
  BY <1>0, RecursiveFunction DEF Steps
<1> USE DEF Iterates
<1>2. \A j \in 1..N : f[j] = b * f[j - 1]
  <2>1. \A j \in 1..N : f[j - 1] \in V
    BY <1>1
  <2> QED BY <1>0, <1>1, <2>1
<1> USE DEF V, a
<1>3. f = [j \in 0..N |-> IF j = 0 THEN 1 ELSE b * f[j - 1]]
  BY <1>1, <1>2
<1> HIDE DEF S
<1>4. PowerOf(b, N) = [j \in 0..N |-> IF j = 0 THEN 1 ELSE b * PowerOf(b, N)[j - 1]]
  BY <1>3 DEF PowerOf
<1> DEFINE p == PowerOf(b, N)
<1> HIDE DEF p
<1>5. p = [j \in 0..N |-> IF j = 0 THEN 1 ELSE b * p[j - 1]]
  BY <1>4 DEF p
<1>6. \A j \in 0..N : p[j] \in Nat
  <2> DEFINE T == {j \in 0..N : p[j] \in Nat}
  <2>1. 0 \in T /\ \A j \in 1..N : j - 1 \in T => j \in T
    BY <1>5
  <2> HIDE DEF T
  <2>2. 0..N \subseteq T
    BY <2>1, StepByStep
  <2> QED BY <2>2 DEF T
<1> QED BY <1>5, <1>6 DEF p

(***************************************************************************)
(* The even powers of b are the powers of its square.                      *)
(***************************************************************************)
LEMMA PowerSquare ==
    ASSUME NEW b \in Nat, NEW N \in Nat
    PROVE  \A k \in 0..N : 2 * k <= N => PowerOf(b, N)[2 * k] = PowerOf(b * b, N)[k]
<1> DEFINE c == b * b
           p == PowerOf(b, N)
           q == PowerOf(c, N)
           T == {k \in 0..N : 2 * k <= N => p[2 * k] = q[k]}
<1>1. /\ p \in [0..N -> Nat] /\ p[0] = 1 /\ \A j \in 1..N : p[j] = b * p[j - 1]
      /\ q \in [0..N -> Nat] /\ q[0] = 1 /\ \A j \in 1..N : q[j] = c * q[j - 1]
  <2>1. c \in Nat
    OBVIOUS
  <2> HIDE DEF c
  <2> QED BY <2>1, PowerUnfold
<1> HIDE DEF p, q, c
<1>2. 0 \in T
  BY <1>1
<1>3. ASSUME NEW k \in 1..N, k - 1 \in T PROVE k \in T
  <2> SUFFICES ASSUME 2 * k <= N PROVE p[2 * k] = q[k]
    OBVIOUS
  <2>1. p[2 * k] = b * p[2 * k - 1] /\ p[2 * k - 1] = b * p[2 * k - 2]
    <3>1. 2 * k \in 1..N /\ 2 * k - 1 \in 1..N /\ (2 * k - 1) - 1 = 2 * k - 2
      OBVIOUS
    <3>2. \A j \in 1..N : p[j] = b * p[j - 1]
      BY <1>1
    <3> QED BY <3>1, <3>2
  <2>2. p[2 * (k - 1)] = q[k - 1] /\ 2 * (k - 1) = 2 * k - 2
    BY <1>3
  <2>3. q[k] = (b * b) * q[k - 1] /\ q[k - 1] \in Nat
    <3>1. k - 1 \in 0..N /\ q[k - 1] \in Nat
      BY <1>1
    <3>2. q[k] = c * q[k - 1]
      BY <1>1
    <3> QED BY <3>1, <3>2 DEF c
  <2>4. b * (b * q[k - 1]) = (b * b) * q[k - 1]
    BY <2>3
  <2> QED BY <2>1, <2>2, <2>3, <2>4
<1> HIDE DEF T
<1>4. 0..N \subseteq T
  BY <1>2, <1>3, StepByStep
<1> QED BY <1>4 DEF T, p, q, c

(***************************************************************************)
(* Congruent bases have congruent powers.                                  *)
(***************************************************************************)
LEMMA PowerCongruent ==
    ASSUME NEW b \in Nat, NEW c \in Nat, NEW N \in Nat, Congruent(b, c)
    PROVE  \A k \in 0..N : Congruent(PowerOf(b, N)[k], PowerOf(c, N)[k])
<1> DEFINE p == PowerOf(b, N)
           q == PowerOf(c, N)
           T == {k \in 0..N : Congruent(p[k], q[k])}
<1>1. /\ p \in [0..N -> Nat] /\ p[0] = 1 /\ \A j \in 1..N : p[j] = b * p[j - 1]
      /\ q \in [0..N -> Nat] /\ q[0] = 1 /\ \A j \in 1..N : q[j] = c * q[j - 1]
  BY PowerUnfold
<1> HIDE DEF p, q
<1>2. 0 \in T
  BY <1>1, CongruentMod
<1>3. ASSUME NEW k \in 1..N, k - 1 \in T PROVE k \in T
  <2>1. p[k - 1] \in Int /\ q[k - 1] \in Int /\ b \in Int /\ c \in Int
    BY <1>1
  <2>2. Congruent(b * p[k - 1], c * q[k - 1])
    BY <1>3, <2>1, CongruentAlgebra
  <2> QED BY <1>1, <2>2
<1> HIDE DEF T
<1>4. 0..N \subseteq T
  BY <1>2, <1>3, StepByStep
<1> QED BY <1>4 DEF T, p, q

(***************************************************************************)
(* mod_exp is the end of its loop, whose state is one function.            *)
(***************************************************************************)
LEMMA ModExpLoop ==
    ASSUME NEW base \in Nat, NEW exp \in Nat
    PROVE  \E f : /\ ModExp(base, exp) = f[exp].result
                  /\ f[0] = [exp |-> exp, base |-> base % Modulus, result |-> 1]
                  /\ \A i \in 1..exp :
                       f[i] = IF f[i - 1].exp = 0 THEN f[i - 1]
                              ELSE [exp |-> f[i - 1].exp \div 2,
                                    base |-> Wrap(f[i - 1].base * f[i - 1].base) % Modulus,
                                    result |-> IF f[i - 1].exp % 2 = 1
                                               THEN Wrap(f[i - 1].result * f[i - 1].base) % Modulus
                                               ELSE f[i - 1].result]
<1> DEFINE a == [exp |-> exp, base |-> base % Modulus, result |-> 1]
           G(at) == IF at.exp = 0 THEN at
                    ELSE [exp |-> at.exp \div 2,
                          base |-> Wrap(at.base * at.base) % Modulus,
                          result |-> IF at.exp % 2 = 1 THEN Wrap(at.result * at.base) % Modulus
                                     ELSE at.result]
           V == [exp : Nat, base : Nat, result : Nat]
           S == [i \in 1..exp |-> [v \in V |-> G(v)]]
           loop == CHOOSE h : h = [i \in 0..exp |-> IF i = 0 THEN a ELSE G(h[i - 1])]
<1>1. a \in V
  BY ModBounds
<1>2. ASSUME NEW v \in V PROVE G(v) \in V
  <2> DEFINE w1 == Wrap(v.base * v.base) % Modulus
             w2 == Wrap(v.result * v.base) % Modulus
  <2>1. \A n \in Nat : Wrap(n) % Modulus \in Nat
    BY HashParameters DEF Wrap
  <2>2. v.exp \in Nat /\ v.base * v.base \in Nat /\ v.result * v.base \in Nat /\ v.result \in Nat
    OBVIOUS
  <2>3. w1 \in Nat /\ w2 \in Nat /\ v.exp \div 2 \in Nat
    BY <2>1, <2>2
  <2> HIDE DEF w1, w2
  <2>4. [exp |-> v.exp \div 2, base |-> w1, result |-> IF v.exp % 2 = 1 THEN w2 ELSE v.result] \in V
    BY <2>2, <2>3
  <2> QED BY <2>4 DEF w1, w2
<1> HIDE DEF a, G, V
<1>0. \A i \in 1..exp, v \in V : S[i][v] = G(v) /\ S[i][v] \in V
  BY <1>2
<1> HIDE DEF S
<1>3. PICK f : Iterates(f, exp, V, a, S)
  BY <1>0, <1>1, RecursiveFunction DEF Steps
<1> USE DEF Iterates
<1>4. \A i \in 1..exp : f[i] = G(f[i - 1])
  <2>1. \A i \in 1..exp : f[i - 1] \in V
    BY <1>3
  <2> QED BY <1>0, <1>3, <2>1
<1>5. f = [i \in 0..exp |-> IF i = 0 THEN a ELSE G(f[i - 1])]
  BY <1>3, <1>4
<1>6. loop = [i \in 0..exp |-> IF i = 0 THEN a ELSE G(loop[i - 1])]
  BY <1>5
<1>7. ModExp(base, exp) = loop[exp].result
  BY DEF ModExp, a, G
<1> HIDE DEF loop
<1>8. loop[0] = a /\ \A i \in 1..exp : loop[i] = G(loop[i - 1])
  BY <1>6
<1> QED BY <1>7, <1>8 DEF a, G

Residues == 0..(Modulus - 1)

(***************************************************************************)
(* The products of mod_exp fit the word.                                   *)
(***************************************************************************)
LEMMA ProductFits ==
    ASSUME NEW a \in Residues \cup {1}, NEW b \in Residues
    PROVE  /\ a * b \in Nat
           /\ Wrap(a * b) = a * b
           /\ Wrap(b * a) = b * a
<1> USE HashParameters DEF Residues
<1>1. a * b \in Nat /\ b * a = a * b
  OBVIOUS
<1>2. a * b <= (Modulus - 1) * (Modulus - 1) \/ a * b <= Modulus - 1
  <2>1. CASE a \in 0..(Modulus - 1)
    <3>1. a * b <= (Modulus - 1) * b
      BY <2>1
    <3>2. (Modulus - 1) * b <= (Modulus - 1) * (Modulus - 1)
      OBVIOUS
    <3> QED BY <1>1, <3>1, <3>2
  <2>2. CASE a = 1
    BY <2>2
  <2> QED BY <2>1, <2>2
<1>3. Modulus - 1 <= (Modulus - 1) * (Modulus - 1)
  OBVIOUS
<1>4. a * b < Width
  BY <1>1, <1>2, <1>3
<1> QED BY <1>1, <1>4, Unwrap

(***************************************************************************)
(* mod_exp gives the power of its base, modulo the modulus.                *)
(***************************************************************************)
LEMMA ModExpIsPower ==
    ASSUME NEW base \in Nat, NEW exp \in Nat
    PROVE  /\ ModExp(base, exp) \in Residues \cup {1}
           /\ Congruent(ModExp(base, exp), PowerOf(base, exp)[exp])
<1>1. PICK f : /\ ModExp(base, exp) = f[exp].result
               /\ f[0] = [exp |-> exp, base |-> base % Modulus, result |-> 1]
               /\ \A i \in 1..exp :
                    f[i] = IF f[i - 1].exp = 0 THEN f[i - 1]
                           ELSE [exp |-> f[i - 1].exp \div 2,
                                 base |-> Wrap(f[i - 1].base * f[i - 1].base) % Modulus,
                                 result |-> IF f[i - 1].exp % 2 = 1
                                            THEN Wrap(f[i - 1].result * f[i - 1].base) % Modulus
                                            ELSE f[i - 1].result]
  BY ModExpLoop
<1> DEFINE goal == PowerOf(base, exp)[exp]
           Good(r, i) == /\ r.exp \in 0..(exp - i)
                         /\ r.base \in Residues
                         /\ r.result \in Residues \cup {1}
                         /\ Congruent(r.result * PowerOf(r.base, exp)[r.exp], goal)
           T == {i \in 0..exp : Good(f[i], i)}
<1>2. goal \in Int
  BY PowerUnfold
<1>3. \A n \in Int : n % Modulus \in Residues /\ Congruent(n % Modulus, n)
  BY ModBounds, CongruentMod DEF Residues
<1>4. 0 \in T
  <2>1. Congruent(PowerOf(base % Modulus, exp)[exp], goal)
    <3>1. base % Modulus \in Nat /\ Congruent(base % Modulus, base) /\ exp \in 0..exp
      BY <1>3 DEF Residues
    <3> QED BY <3>1, PowerCongruent
  <2>2. PowerOf(base % Modulus, exp)[exp] \in Int
    <3> DEFINE p == PowerOf(base % Modulus, exp)
    <3>1. base % Modulus \in Nat
      BY <1>3 DEF Residues
    <3>2. p \in [0..exp -> Nat]
      BY <3>1, PowerUnfold
    <3> HIDE DEF p
    <3>3. p[exp] \in Nat
      BY <3>2
    <3> QED BY <3>3 DEF p
  <2>3. 1 * PowerOf(base % Modulus, exp)[exp] = PowerOf(base % Modulus, exp)[exp]
    BY <2>2
  <2>4. f[0].exp = exp /\ f[0].base = base % Modulus /\ f[0].result = 1
    BY <1>1
  <2>5. Good(f[0], 0)
    <3>1. f[0].exp \in 0..(exp - 0) /\ f[0].base \in Residues /\ f[0].result \in Residues \cup {1}
      BY <1>3, <2>4
    <3> QED BY <2>1, <2>3, <2>4, <3>1
  <2> HIDE DEF Good
  <2> QED BY <2>5
<1> HIDE DEF goal
<1>5. ASSUME NEW i \in 1..exp, i - 1 \in T PROVE i \in T
  <2> DEFINE at == f[i - 1]
             e == at.exp
             b == at.base
             r == at.result
  <2>1. e \in 0..(exp - i + 1) /\ b \in Residues /\ r \in Residues \cup {1}
        /\ Congruent(r * PowerOf(b, exp)[e], goal)
    BY <1>5
  <2>2. f[i] = IF e = 0 THEN at
               ELSE [exp |-> e \div 2, base |-> Wrap(b * b) % Modulus,
                     result |-> IF e % 2 = 1 THEN Wrap(r * b) % Modulus ELSE r]
    BY <1>1
  <2>3. CASE e = 0
    <3>1. f[i] = at /\ at.exp \in 0..(exp - i)
      BY <2>2, <2>3
    <3> QED BY <1>5, <3>1
  <2>4. CASE e # 0
    <3> DEFINE c == (b * b) % Modulus
               k == e \div 2
               s == IF e % 2 = 1 THEN (r * b) % Modulus ELSE r
    <3>1. b \in Nat /\ b * b \in Nat /\ r \in Nat /\ r * b \in Nat
      BY <2>1, HashParameters DEF Residues
    <3>2. Wrap(b * b) = b * b /\ Wrap(r * b) = r * b
      BY <2>1, ProductFits
    <3>3. c \in Residues /\ c \in Nat /\ Congruent(c, b * b) /\ Congruent(b * b, c)
      <4>1. c \in Residues /\ Congruent(c, b * b)
        BY <1>3, <3>1
      <4>2. c \in Nat
        BY <4>1 DEF Residues
      <4> QED BY <3>1, <4>1, <4>2, CongruentAlgebra
    <3>4. k \in 0..(exp - i) /\ 2 * k <= exp /\ k \in 0..exp /\ (e = 2 * k \/ e = 2 * k + 1)
          /\ (e % 2 = 1 <=> e = 2 * k + 1)
      BY <2>1, <2>4
    <3> DEFINE P == PowerOf(b, exp)
               Q == PowerOf(c, exp)
    <3>5. P \in [0..exp -> Nat] /\ Q \in [0..exp -> Nat] /\ \A j \in 1..exp : P[j] = b * P[j - 1]
      BY <3>1, <3>3, PowerUnfold
    <3>6. Congruent(P[2 * k], Q[k])
      <4>1. P[2 * k] = PowerOf(b * b, exp)[k]
        BY <3>1, <3>4, PowerSquare
      <4>2. Congruent(PowerOf(b * b, exp)[k], Q[k])
        BY <3>1, <3>3, <3>4, PowerCongruent
      <4> QED BY <4>1, <4>2
    <3>7. s \in Residues \cup {1}
      BY <1>3, <2>1, <3>1
    <3> HIDE DEF c, k
    <3>8. P[2 * k] \in Nat /\ Q[k] \in Nat
      <4>1. 2 * k \in 0..exp
        BY <3>4
      <4> HIDE DEF P, Q
      <4> QED BY <3>4, <3>5, <4>1
    <3>9. Congruent(r * P[e], s * Q[k])
      <4>1. CASE e = 2 * k
        <5>1. s = r
          BY <3>4, <4>1
        <5> HIDE DEF P, Q, s
        <5>2. Congruent(r, r) /\ r \in Int /\ P[2 * k] \in Int /\ Q[k] \in Int
          BY <3>1, <3>8, CongruentMod
        <5>3. Congruent(r * P[2 * k], r * Q[k])
          BY <3>6, <5>2, CongruentAlgebra
        <5> QED BY <4>1, <5>1, <5>3
      <4>2. CASE e = 2 * k + 1
        <5>1. s = (r * b) % Modulus
          BY <3>4, <4>2
        <5>2. s \in Int /\ Congruent(s, r * b)
          BY <1>3, <3>1, <5>1 DEF Residues
        <5>3. e \in 1..exp /\ e - 1 = 2 * k
          BY <2>1, <3>4, <4>2
        <5> HIDE DEF P, Q, s
        <5>4. P[e] = b * P[2 * k]
          BY <3>5, <5>3
        <5>5. r * P[e] = (r * b) * P[2 * k]
          BY <3>1, <3>8, <5>4
        <5>6. Congruent(r * b, s)
          BY <3>1, <5>2, CongruentAlgebra
        <5>7. Congruent((r * b) * P[2 * k], s * Q[k])
          <6> DEFINE x == r * b
          <6>1. x \in Int /\ P[2 * k] \in Int /\ Q[k] \in Int /\ Congruent(x, s)
            BY <3>1, <3>8, <5>6
          <6> HIDE DEF x
          <6>2. Congruent(x * P[2 * k], s * Q[k])
            BY <3>6, <5>2, <6>1, CongruentAlgebra
          <6> QED BY <6>2 DEF x
        <5> QED BY <5>5, <5>7
      <4> QED BY <3>4, <4>1, <4>2
    <3>10. Congruent(s * Q[k], goal)
      <4>1. r * P[e] \in Int /\ s * Q[k] \in Int
        <5>1. P[e] \in Nat /\ s \in Int
          <6> HIDE DEF P, s
          <6>1. e \in 0..exp
            BY <2>1
          <6> QED BY <3>5, <3>7, <6>1, HashParameters DEF Residues
        <5> HIDE DEF P, Q, s
        <5> QED BY <3>1, <3>8, <5>1
      <4>2. Congruent(r * P[e], goal)
        BY <2>1
      <4> HIDE DEF P, Q, s
      <4>3. Congruent(s * Q[k], r * P[e])
        BY <3>9, <4>1, CongruentAlgebra, CongruentMod
      <4> QED BY <1>2, <4>1, <4>2, <4>3, CongruentTrans
    <3>11. f[i] = [exp |-> k, base |-> c, result |-> s]
      BY <2>2, <2>4, <3>2 DEF c, k
    <3>12. Good(f[i], i)
      <4>1. f[i].exp = k /\ f[i].base = c /\ f[i].result = s
        <5> HIDE DEF s
        <5> QED BY <3>11
      <4> HIDE DEF s
      <4> QED BY <3>3, <3>4, <3>7, <3>10, <4>1
    <3> HIDE DEF Good
    <3> QED BY <3>12
  <2> QED BY <2>3, <2>4
<1>6. 0..exp \subseteq T
  <2> HIDE DEF T
  <2> QED BY <1>4, <1>5, StepByStep
<1>7. Good(f[exp], exp)
  BY <1>6
<1>8. f[exp].exp = 0 /\ f[exp].result \in Residues \cup {1} /\ f[exp].base \in Residues
  BY <1>7
<1>9. f[exp].result * PowerOf(f[exp].base, exp)[f[exp].exp] = f[exp].result
  <2>1. f[exp].base \in Nat /\ f[exp].result \in Nat
    BY <1>8, HashParameters DEF Residues
  <2>2. PowerOf(f[exp].base, exp)[0] = 1
    BY <2>1, PowerUnfold
  <2> QED BY <1>8, <2>1, <2>2
<1> QED BY <1>1, <1>7, <1>8, <1>9 DEF goal

-----------------------------------------------------------------------------
(* The rolling hash of a window (chunk_content)                            *)

HashesReduced == \A x : KeyHash(x) \in 0..(Modulus - 1) /\ ValueHash(x) \in 0..(Modulus - 1)

(***************************************************************************)
(* The sums of two hashes and their products with the base fit the word.   *)
(***************************************************************************)
LEMMA ItemsFit ==
    ASSUME HashesReduced
    PROVE  /\ \A k, v : KeyHash(k) + ValueHash(v) \in 0..(2 * (Modulus - 1))
           /\ \A r \in Residues, i \in 0..(2 * (Modulus - 1)) :
                /\ r * Base \in Nat /\ Wrap(r * Base) = r * Base
                /\ r * Base + i \in Nat /\ Wrap(r * Base + i) = r * Base + i
<1> USE HashParameters
<1>1. ASSUME NEW k, NEW v PROVE KeyHash(k) + ValueHash(v) \in 0..(2 * (Modulus - 1))
  <2>1. KeyHash(k) \in 0..(Modulus - 1) /\ ValueHash(v) \in 0..(Modulus - 1)
    BY DEF HashesReduced
  <2> QED BY <2>1
<1>2. ASSUME NEW r \in Residues, NEW i \in 0..(2 * (Modulus - 1))
      PROVE  /\ r * Base \in Nat /\ Wrap(r * Base) = r * Base
             /\ r * Base + i \in Nat /\ Wrap(r * Base + i) = r * Base + i
  <2>1. r \in Nat /\ r <= Modulus - 1 /\ Modulus - 1 \in Nat
    BY DEF Residues
  <2>2. r * Base \in Nat /\ r * Base <= (Modulus - 1) * Base
    BY <2>1
  <2>3. r * Base + i < Width /\ r * Base < Width
    BY <2>2
  <2> QED BY <2>2, <2>3, Unwrap
<1> QED BY <1>1, <1>2

(***************************************************************************)
(* Horner's rule, with the products and sums that do not wrap.             *)
(***************************************************************************)
LEMMA HornerUnfold ==
    ASSUME HashesReduced, NEW N \in Nat, NEW items \in [1..N -> 0..(2 * (Modulus - 1))]
    PROVE  \E h \in [0..N -> Residues] :
             /\ InitializeRollingHash(items) = h[N]
             /\ h[0] = 0
             /\ \A i \in 1..N : h[i] = (h[i - 1] * Base + items[i]) % Modulus
<1> DEFINE V == Residues
           a == 0
           G(v, i) == Wrap(Wrap(v * Base) + items[i]) % Modulus
           S == [i \in 1..N |-> [v \in V |-> G(v, i)]]
           horner == CHOOSE h : h = [n \in 0..Len(items) |-> IF n = 0 THEN 0 ELSE G(h[n - 1], n)]
<1>1. a \in V /\ Len(items) = N
  BY HashParameters DEF Residues
<1>2. ASSUME NEW v \in V, NEW i \in 1..N
      PROVE  G(v, i) \in V /\ G(v, i) = (v * Base + items[i]) % Modulus
  <2>1. items[i] \in 0..(2 * (Modulus - 1))
    OBVIOUS
  <2>2. Wrap(v * Base) = v * Base /\ Wrap(v * Base + items[i]) = v * Base + items[i]
        /\ v * Base + items[i] \in Nat
    BY <2>1, ItemsFit
  <2>3. (v * Base + items[i]) % Modulus \in V
    BY <2>2, ModBounds DEF Residues
  <2> QED BY <2>2, <2>3
<1>3. InitializeRollingHash(items) = horner[N]
  BY <1>1 DEF InitializeRollingHash
<1> HIDE DEF G, V, a
<1>4. \A i \in 1..N, v \in V : S[i][v] = G(v, i) /\ S[i][v] \in V
  BY <1>2
<1> HIDE DEF S
<1>5. PICK f : Iterates(f, N, V, a, S)
  BY <1>1, <1>4, RecursiveFunction DEF Steps
<1>6. f \in [0..N -> V] /\ f[0] = 0 /\ \A i \in 1..N : f[i] = G(f[i - 1], i)
  <2>1. \A i \in 1..N : f[i - 1] \in V
    BY <1>5 DEF Iterates
  <2> QED BY <1>4, <1>5, <2>1 DEF Iterates, a
<1>7. f = [n \in 0..Len(items) |-> IF n = 0 THEN 0 ELSE G(f[n - 1], n)]
  BY <1>1, <1>6
<1>8. horner = [n \in 0..Len(items) |-> IF n = 0 THEN 0 ELSE G(horner[n - 1], n)]
  BY <1>7
<1> HIDE DEF horner
<1>9. horner[0] = 0 /\ \A i \in 1..N : horner[i] = G(horner[i - 1], i)
  BY <1>1, <1>8
<1> DEFINE T == {i \in 0..N : horner[i] \in V}
<1>10. 0 \in T /\ \A i \in 1..N : i - 1 \in T => i \in T
  BY <1>1, <1>2, <1>9 DEF a
<1>11. 0..N \subseteq T
  <2> HIDE DEF T
  <2> QED BY <1>10, StepByStep
<1>12. \A i \in 0..N : horner[i] \in V
  BY <1>11
<1>13. horner \in [0..N -> V]
  BY <1>1, <1>8, <1>12
<1>14. ASSUME NEW i \in 1..N PROVE horner[i] = (horner[i - 1] * Base + items[i]) % Modulus
  <2>1. i - 1 \in 0..N /\ horner[i - 1] \in V
    BY <1>12
  <2> QED BY <1>2, <1>9, <2>1
<1> QED BY <1>3, <1>9, <1>13, <1>14 DEF V

SumOf(n, e) ==
    CHOOSE s : s = [m \in 0..MinChunk |->
                      IF m = 0 THEN 0
                      ELSE s[m - 1] + Item(n, e - m + 1) * PowerOf(Base, MinChunk)[m - 1]]

(***************************************************************************)
(* The hash of a window, by the recursion of its sum.                      *)
(***************************************************************************)
LEMMA SumUnfold ==
    ASSUME HashesReduced, NEW n, NEW e
    PROVE  /\ WindowHash(n, e) = SumOf(n, e)[MinChunk] % Modulus
           /\ SumOf(n, e) \in [0..MinChunk -> Nat]
           /\ SumOf(n, e)[0] = 0
           /\ \A m \in 1..MinChunk :
                SumOf(n, e)[m] = SumOf(n, e)[m - 1] + Item(n, e - m + 1) * PowerOf(Base, MinChunk)[m - 1]
<1> DEFINE N == MinChunk
           P == PowerOf(Base, N)
           V == Nat
           a == 0
           G(v, m) == v + Item(n, e - m + 1) * P[m - 1]
           S == [m \in 1..N |-> [v \in V |-> G(v, m)]]
           sum == CHOOSE s : s = [m \in 0..N |-> IF m = 0 THEN a ELSE G(s[m - 1], m)]
<1>1. N \in Nat /\ Base \in Nat
  BY ChunkParameters, HashParameters
<1>2. P \in [0..N -> Nat]
  BY <1>1, PowerUnfold
<1>3. ASSUME NEW m \in 1..N, NEW v \in V PROVE G(v, m) \in V
  <2>1. Item(n, e - m + 1) \in Nat
    BY ItemsFit, HashParameters DEF Item
  <2>2. P[m - 1] \in Nat
    <3> HIDE DEF P
    <3> QED BY <1>1, <1>2
  <2> HIDE DEF P
  <2> QED BY <2>1, <2>2
<1>4. WindowHash(n, e) = sum[N] % Modulus
  BY DEF WindowHash, PowerOf
<1>5. SumOf(n, e) = sum
  BY DEF SumOf
<1> HIDE DEF G
<1>6. a \in V /\ \A m \in 1..N, v \in V : S[m][v] = G(v, m) /\ S[m][v] \in V
  BY <1>3
<1> HIDE DEF S, V, a
<1>7. PICK f : Iterates(f, N, V, a, S)
  BY <1>1, <1>6, RecursiveFunction DEF Steps
<1>8. f \in [0..N -> V] /\ f[0] = a /\ \A m \in 1..N : f[m] = G(f[m - 1], m)
  <2>1. \A m \in 1..N : f[m - 1] \in V
    BY <1>1, <1>7 DEF Iterates
  <2> QED BY <1>6, <1>7, <2>1 DEF Iterates
<1>9. f = [m \in 0..N |-> IF m = 0 THEN a ELSE G(f[m - 1], m)]
  BY <1>8
<1>10. sum = [m \in 0..N |-> IF m = 0 THEN a ELSE G(sum[m - 1], m)]
  BY <1>9
<1> HIDE DEF sum
<1> DEFINE T == {m \in 0..N : sum[m] \in V}
<1>11. 0 \in T /\ \A m \in 1..N : m - 1 \in T => m \in T
  BY <1>1, <1>3, <1>6, <1>10
<1>12. 0..N \subseteq T
  <2> HIDE DEF T
  <2> QED BY <1>1, <1>11, StepByStep
<1>13. sum \in [0..N -> V] /\ sum[0] = a
  BY <1>1, <1>10, <1>12
<1>14. \A m \in 1..N : sum[m] = G(sum[m - 1], m)
  BY <1>1, <1>10
<1> QED BY <1>4, <1>5, <1>13, <1>14 DEF V, a, G

(***************************************************************************)
(* The sum over a window that has moved on by one pair.                    *)
(***************************************************************************)
LEMMA SumShift ==
    ASSUME HashesReduced, NEW n, NEW e \in Nat
    PROVE  \A m \in 1..MinChunk :
             SumOf(n, e + 1)[m] = Item(n, e + 1) + Base * SumOf(n, e)[m - 1]
<1> DEFINE N == MinChunk
           P == PowerOf(Base, N)
           s == SumOf(n, e)
           t == SumOf(n, e + 1)
           T == {m \in 0..N : m # 0 => t[m] = Item(n, e + 1) + Base * s[m - 1]}
<1>1. N \in Nat /\ Base \in Nat /\ e + 1 \in Nat
  BY ChunkParameters, HashParameters
<1>2. P \in [0..N -> Nat] /\ P[0] = 1 /\ \A j \in 1..N : P[j] = Base * P[j - 1]
  BY <1>1, PowerUnfold
<1>3. /\ s \in [0..N -> Nat] /\ s[0] = 0 /\ \A m \in 1..N : s[m] = s[m - 1] + Item(n, e - m + 1) * P[m - 1]
      /\ t \in [0..N -> Nat] /\ t[0] = 0 /\ \A m \in 1..N : t[m] = t[m - 1] + Item(n, (e + 1) - m + 1) * P[m - 1]
  BY SumUnfold
<1>4. \A i : Item(n, i) \in Nat
  BY ItemsFit, HashParameters DEF Item
<1> HIDE DEF N, P, s, t
<1>5. 0 \in T
  BY <1>1
<1>6. ASSUME NEW m \in 1..N, m - 1 \in T PROVE m \in T
  <2>1. CASE m = 1
    <3>1. t[1] = 0 + Item(n, (e + 1) - 1 + 1) * 1
      BY <1>2, <1>3, <2>1
    <3>2. (e + 1) - 1 + 1 = e + 1 /\ Base * s[0] = 0
      BY <1>1, <1>3
    <3> QED BY <1>4, <2>1, <3>1, <3>2
  <2>2. CASE m # 1
    <3> DEFINE i == Item(n, e + 1)
               j == Item(n, (e + 1) - m + 1)
               p == P[m - 2]
    <3>1. m - 1 \in 1..N /\ m - 2 \in 0..N /\ (m - 1) - 1 = m - 2
      BY <1>1, <2>2
    <3>2. t[m] = t[m - 1] + j * P[m - 1] /\ t[m - 1] = i + Base * s[m - 2]
      BY <1>3, <1>6, <3>1
    <3>3. P[m - 1] = Base * p
      BY <1>2, <3>1
    <3>4. s[m - 1] = s[m - 2] + j * p
      <4>1. e - (m - 1) + 1 = (e + 1) - m + 1
        OBVIOUS
      <4> QED BY <1>3, <3>1, <4>1
    <3>5. i \in Nat /\ j \in Nat /\ p \in Nat /\ s[m - 2] \in Nat
      BY <1>2, <1>3, <1>4, <3>1
    <3> HIDE DEF i, j, p
    <3>6. (i + Base * s[m - 2]) + j * (Base * p) = i + Base * (s[m - 2] + j * p)
      BY <1>1, <3>5
    <3>7. t[m] = i + Base * s[m - 1]
      BY <3>2, <3>3, <3>4, <3>6
    <3> QED BY <3>7 DEF i
  <2> QED BY <2>1, <2>2
<1>7. 0..N \subseteq T
  <2> HIDE DEF T
  <2> QED BY <1>1, <1>5, <1>6, StepByStep
<1>8. \A m \in 1..N : t[m] = Item(n, e + 1) + Base * s[m - 1]
  BY <1>7
<1> QED BY <1>8 DEF s, t, N

Window(n, s) == [i \in 1..MinChunk |-> KeyHash(n.keys[s + i]) + ValueHash(n.vals[s + i])]

(***************************************************************************)
(* initialize_rolling_hash gives the hash of its window.                   *)
(***************************************************************************)
LEMMA InitialHash ==
    ASSUME HashesReduced, NEW n, NEW s \in Nat
    PROVE  InitializeRollingHash(Window(n, s)) = WindowHash(n, s + MinChunk)
<1> DEFINE N == MinChunk
           items == Window(n, s)
           E == s + N
           P == PowerOf(Base, N)
           sum == SumOf(n, E)
<1>1. N \in Nat /\ N # 0 /\ Base \in Nat /\ E \in Nat
  BY ChunkParameters, HashParameters
<1>2. items \in [1..N -> 0..(2 * (Modulus - 1))] /\ \A i \in 1..N : items[i] = Item(n, s + i)
  BY ItemsFit DEF Window, Item
<1> HIDE DEF items
<1>3. PICK h \in [0..N -> Residues] :
        /\ InitializeRollingHash(items) = h[N]
        /\ h[0] = 0
        /\ \A i \in 1..N : h[i] = (h[i - 1] * Base + items[i]) % Modulus
  BY <1>1, <1>2, HornerUnfold
<1>4. P \in [0..N -> Nat] /\ P[0] = 1 /\ \A j \in 1..N : P[j] = Base * P[j - 1]
  BY <1>1, PowerUnfold
<1>5. /\ WindowHash(n, E) = sum[N] % Modulus
      /\ sum \in [0..N -> Nat] /\ sum[0] = 0
      /\ \A m \in 1..N : sum[m] = sum[m - 1] + Item(n, E - m + 1) * P[m - 1]
  BY SumUnfold
<1>6. \A i : Item(n, i) \in Nat
  BY ItemsFit, HashParameters DEF Item
<1> DEFINE T == {i \in 0..N : Congruent(sum[N - i] + P[N - i] * h[i], sum[N])}
<1>7. \A i \in 0..N : sum[N - i] \in Nat /\ P[N - i] \in Nat /\ h[i] \in Nat /\ sum[i] \in Nat /\ P[i] \in Nat
  <2>1. \A i \in 0..N : N - i \in 0..N
    BY <1>1
  <2>2. \A i \in 0..N : h[i] \in Nat
    BY <1>3, HashParameters DEF Residues
  <2> HIDE DEF N, P, sum
  <2> QED BY <1>4, <1>5, <2>1, <2>2
<1> HIDE DEF N, P, sum
<1>8. 0 \in T
  <2>1. sum[N - 0] + P[N - 0] * h[0] = sum[N] /\ sum[N] \in Int
    BY <1>1, <1>3, <1>7
  <2> QED BY <1>1, <2>1, CongruentMod
<1> HIDE DEF E
<1>9. ASSUME NEW i \in 1..N, i - 1 \in T PROVE i \in T
  <2> DEFINE m == N - i
             x == Item(n, s + i)
             g == h[i - 1]
             y == g * Base + x
  <2>1. m \in 0..N /\ m + 1 \in 1..N /\ N - (i - 1) = m + 1 /\ (m + 1) - 1 = m /\ i - 1 \in 0..N /\ i \in 0..N
    BY <1>1
  <2>2. sum[m + 1] = sum[m] + x * P[m]
    <3>1. E - (m + 1) + 1 = s + i
      BY <1>1, <2>1 DEF E
    <3> QED BY <1>5, <2>1, <3>1
  <2>3. P[m + 1] = Base * P[m]
    BY <1>4, <2>1
  <2>4. h[i] = y % Modulus
    BY <1>2, <1>3
  <2>5. g \in Nat /\ x \in Nat /\ P[m] \in Nat /\ sum[m] \in Nat /\ y \in Int /\ h[i] \in Nat /\ sum[N] \in Nat
    BY <1>1, <1>6, <1>7, <2>1
  <2>6. Congruent(sum[m + 1] + P[m + 1] * g, sum[N])
    BY <1>9, <2>1
  <2>7. sum[m + 1] + P[m + 1] * g = sum[m] + P[m] * y
    <3> DEFINE p == P[m]
               z == sum[m]
    <3>1. sum[m + 1] + P[m + 1] * g = (z + x * p) + (Base * p) * g
      BY <2>2, <2>3
    <3>2. p \in Nat /\ z \in Nat /\ x \in Nat /\ g \in Nat /\ Base \in Nat
      BY <1>1, <2>5
    <3> HIDE DEF p, z, x, g
    <3>3. (z + x * p) + (Base * p) * g = z + p * (g * Base + x)
      BY <3>2
    <3> QED BY <3>1, <3>3 DEF p, z
  <2>8. Congruent(h[i], y)
    BY <2>4, <2>5, CongruentMod
  <2> HIDE DEF m, y, x, g
  <2>9. Congruent(P[m] * h[i], P[m] * y)
    <3>1. P[m] \in Int /\ h[i] \in Int /\ y \in Int /\ Congruent(P[m], P[m])
      BY <2>5, CongruentMod
    <3> QED BY <2>8, <3>1, CongruentAlgebra
  <2>10. P[m] * h[i] \in Int /\ P[m] * y \in Int
    BY <2>5
  <2>11. Congruent(sum[m] + P[m] * h[i], sum[m] + P[m] * y)
    <3>1. sum[m] \in Int /\ Congruent(sum[m], sum[m])
      BY <2>5, CongruentMod
    <3> QED BY <2>9, <2>10, <3>1, CongruentAlgebra
  <2>12. Congruent(sum[m] + P[m] * h[i], sum[N])
    <3>1. sum[m] + P[m] * h[i] \in Int /\ sum[m] + P[m] * y \in Int
      BY <2>5, <2>10
    <3>2. Congruent(sum[m] + P[m] * y, sum[N])
      BY <2>6, <2>7
    <3> QED BY <2>5, <2>11, <3>1, <3>2, CongruentTrans
  <2> QED BY <2>12 DEF m
<1>10. 0..N \subseteq T
  <2> HIDE DEF T
  <2> QED BY <1>1, <1>8, <1>9, StepByStep
<1>11. Congruent(sum[N - N] + P[N - N] * h[N], sum[N])
  BY <1>1, <1>10
<1>12. sum[N - N] + P[N - N] * h[N] = h[N] /\ h[N] \in Residues /\ sum[N] \in Int
  <2>1. N - N = 0 /\ N \in 0..N
    BY <1>1
  <2>2. h[N] \in Residues /\ h[N] \in Nat /\ sum[N] \in Int
    BY <1>3, <1>7, <2>1
  <2>3. sum[0] + P[0] * h[N] = h[N]
    BY <1>4, <1>5, <2>2
  <2> QED BY <2>1, <2>2, <2>3
<1>13. h[N] = sum[N] % Modulus
  BY <1>11, <1>12, CongruentReduced DEF Residues
<1> QED BY <1>3, <1>5, <1>13 DEF items, E, N

(***************************************************************************)
(* update_rolling_hash takes the hash of a window to the hash of the next. *)
(***************************************************************************)
LEMMA UpdatedHash ==
    ASSUME HashesReduced, NEW n, NEW e \in Nat
    PROVE  UpdateRollingHash(WindowHash(n, e),
                             KeyHash(n.keys[e + 1 - MinChunk]), ValueHash(n.vals[e + 1 - MinChunk]),
                             Item(n, e + 1), MinChunk)
             = WindowHash(n, e + 1)
<1> DEFINE N == MinChunk
           i == e + 1 - N
           k == KeyHash(n.keys[i])
           v == ValueHash(n.vals[i])
           x == Item(n, e + 1)
           old == WindowHash(n, e)
           power == ModExp(Base, N)
           s == SumOf(n, e)
           t == SumOf(n, e + 1)
           P == PowerOf(Base, N)
           h1 == (old * Base + x) % Modulus
           h2 == (h1 + Modulus - ((k * power) % Modulus)) % Modulus
           h3 == (h2 + Modulus - ((v * power) % Modulus)) % Modulus
<1>1. N \in Nat /\ N # 0 /\ Base \in Nat /\ Modulus \in Nat /\ Modulus # 0
  BY ChunkParameters, HashParameters
<1>2. k \in Residues /\ v \in Residues /\ Item(n, i) = k + v
  BY DEF HashesReduced, Residues, Item
<1>3. x \in 0..(2 * (Modulus - 1))
  BY ItemsFit DEF Item
<1>4. /\ s \in [0..N -> Nat] /\ t \in [0..N -> Nat]
      /\ old = s[N] % Modulus /\ WindowHash(n, e + 1) = t[N] % Modulus
      /\ \A m \in 1..N : s[m] = s[m - 1] + Item(n, e - m + 1) * P[m - 1]
  BY SumUnfold
<1>5. t[N] = x + Base * s[N - 1]
  BY <1>1, SumShift
<1>6. P \in [0..N -> Nat] /\ P[N] = Base * P[N - 1]
  BY <1>1, PowerUnfold
<1>7. power \in Residues \cup {1} /\ Congruent(power, P[N])
  BY <1>1, ModExpIsPower
<1> HIDE DEF N, i, k, v, x, old, power, s, t, P
<1>8. N \in 1..N /\ N - 1 \in 0..N /\ e - N + 1 = i /\ N \in 0..N
  BY <1>1 DEF i
<1>9. s[N] = s[N - 1] + (k + v) * P[N - 1]
  <2>1. Item(n, e - N + 1) = k + v
    BY <1>2, <1>8
  <2> QED BY <1>4, <1>8, <2>1
<1>10. /\ s[N] \in Nat /\ s[N - 1] \in Nat /\ t[N] \in Nat /\ P[N] \in Nat /\ P[N - 1] \in Nat
       /\ k \in Nat /\ v \in Nat /\ x \in Nat /\ power \in Nat
  BY <1>1, <1>2, <1>3, <1>4, <1>6, <1>7, <1>8 DEF Residues
<1>11. old \in Residues /\ Congruent(old, s[N])
  <2>1. s[N] \in Int /\ old = s[N] % Modulus
    BY <1>4, <1>10
  <2> QED BY <2>1, ModBounds, CongruentMod DEF Residues
<1>12. /\ Wrap(old * Base) = old * Base /\ Wrap(old * Base + x) = old * Base + x /\ old * Base + x \in Nat
       /\ Wrap(k * power) = k * power /\ Wrap(v * power) = v * power /\ k * power \in Nat /\ v * power \in Nat
  <2>1. Wrap(k * power) = k * power /\ Wrap(v * power) = v * power
    BY <1>2, <1>7, ProductFits
  <2>2. k * power \in Nat /\ v * power \in Nat
    BY <1>10
  <2> QED BY <1>3, <1>11, <2>1, <2>2, ItemsFit
<1>13. UpdateRollingHash(old, k, v, x, N) = h3
  BY <1>12 DEF UpdateRollingHash, power
<1>14. \A a \in Int : a % Modulus \in Residues /\ a % Modulus \in Int /\ Congruent(a % Modulus, a)
  BY ModBounds, CongruentMod DEF Residues
<1> DEFINE kp == k * power
           vp == v * power
<1>15. kp \in Int /\ vp \in Int /\ old * Base + x \in Int
  BY <1>12
<1>16. h1 \in Int /\ Congruent(h1, old * Base + x)
  BY <1>14, <1>15
<1> HIDE DEF h1, kp, vp
<1>17. Congruent(Modulus, 0)
  <2>1. Modulus = 0 + Modulus * 1 /\ 1 \in Int
    BY <1>1
  <2> QED BY <2>1 DEF Congruent
<1>18. h2 = (h1 + Modulus - (kp % Modulus)) % Modulus /\ h3 = (h2 + Modulus - (vp % Modulus)) % Modulus
  BY DEF kp, vp
<1> HIDE DEF h2, h3
<1>19. h2 \in Int /\ Congruent(h2, h1 - kp)
  <2> DEFINE a == h1 + Modulus - (kp % Modulus)
  <2>1. kp % Modulus \in Int /\ Congruent(kp % Modulus, kp)
    BY <1>14, <1>15
  <2>2. Congruent(h1 + Modulus, h1 + 0) /\ h1 + 0 = h1 /\ h1 + Modulus \in Int
    BY <1>1, <1>16, <1>17, CongruentMod, CongruentAlgebra
  <2>3. Congruent(a, h1 - kp) /\ a \in Int
    <3>1. h1 \in Int /\ kp \in Int /\ Congruent(h1 + Modulus, h1)
      BY <1>15, <1>16, <2>2
    <3>2. Congruent((h1 + Modulus) - (kp % Modulus), h1 - kp)
      BY <2>1, <2>2, <3>1, CongruentAlgebra
    <3>3. (h1 + Modulus) - (kp % Modulus) \in Int /\ a = (h1 + Modulus) - (kp % Modulus)
      BY <1>1, <2>1, <3>1
    <3> QED BY <3>2, <3>3
  <2>4. h2 = a % Modulus
    BY <1>18
  <2> HIDE DEF a
  <2>5. h2 \in Int /\ Congruent(h2, a) /\ h1 - kp \in Int
    BY <1>14, <1>15, <1>16, <2>3, <2>4
  <2> QED BY <2>3, <2>5, CongruentTrans
<1>20. h3 \in Residues /\ Congruent(h3, h2 - vp)
  <2> DEFINE a == h2 + Modulus - (vp % Modulus)
  <2>1. vp % Modulus \in Int /\ Congruent(vp % Modulus, vp)
    BY <1>14, <1>15
  <2>2. Congruent(h2 + Modulus, h2 + 0) /\ h2 + 0 = h2 /\ h2 + Modulus \in Int
    BY <1>1, <1>17, <1>19, CongruentMod, CongruentAlgebra
  <2>3. Congruent(a, h2 - vp) /\ a \in Int
    <3>1. h2 \in Int /\ vp \in Int /\ Congruent(h2 + Modulus, h2)
      BY <1>15, <1>19, <2>2
    <3>2. Congruent((h2 + Modulus) - (vp % Modulus), h2 - vp)
      BY <2>1, <2>2, <3>1, CongruentAlgebra
    <3>3. (h2 + Modulus) - (vp % Modulus) \in Int /\ a = (h2 + Modulus) - (vp % Modulus)
      BY <1>1, <2>1, <3>1
    <3> QED BY <3>2, <3>3
  <2>4. h3 = a % Modulus
    BY <1>18
  <2> HIDE DEF a
  <2>5. h3 \in Residues /\ h3 \in Int /\ Congruent(h3, a) /\ h2 - vp \in Int
    BY <1>14, <1>15, <1>19, <2>3, <2>4
  <2> QED BY <2>3, <2>5, CongruentTrans
<1>21. Congruent(h3, t[N])
  <2> DEFINE p == P[N]
             ob == old * Base
             sb == s[N] * Base
             kq == k * p
             vq == v * p
  <2>1. ob \in Int /\ sb \in Int /\ kq \in Int /\ vq \in Int /\ h3 \in Int
    <3>1. old \in Int /\ h3 \in Int
      BY <1>11, <1>20, HashParameters DEF Residues
    <3> QED BY <1>1, <1>10, <3>1
  <2>2. Congruent(ob, sb)
    <3>1. old \in Int /\ s[N] \in Int /\ Base \in Int /\ Congruent(Base, Base)
      BY <1>1, <1>10, <1>11, HashParameters, CongruentMod DEF Residues
    <3> QED BY <1>11, <3>1, CongruentAlgebra
  <2>3. Congruent(kp, kq) /\ Congruent(vp, vq)
    <3>1. k \in Int /\ v \in Int /\ power \in Int /\ p \in Int /\ Congruent(k, k) /\ Congruent(v, v)
      BY <1>10, CongruentMod
    <3> QED BY <1>7, <3>1, CongruentAlgebra DEF kp, vp
  <2> HIDE DEF ob, sb, kq, vq
  <2>4. Congruent(h1, sb + x)
    <3>1. Congruent(ob + x, sb + x) /\ ob + x \in Int /\ sb + x \in Int
      BY <1>10, <2>1, <2>2, CongruentMod, CongruentAlgebra
    <3>2. Congruent(h1, ob + x)
      BY <1>16 DEF ob
    <3> QED BY <1>16, <3>1, <3>2, CongruentTrans
  <2>5. Congruent(h2, (sb + x) - kq)
    <3>1. sb + x \in Int /\ (sb + x) - kq \in Int /\ h1 - kp \in Int
      BY <1>10, <1>15, <1>16, <2>1
    <3>2. Congruent(h1 - kp, (sb + x) - kq)
      BY <1>15, <1>16, <2>1, <2>3, <2>4, <3>1, CongruentAlgebra
    <3> QED BY <1>19, <3>1, <3>2, CongruentTrans
  <2>6. Congruent(h3, ((sb + x) - kq) - vq)
    <3>1. (sb + x) - kq \in Int /\ ((sb + x) - kq) - vq \in Int /\ h2 - vp \in Int
      BY <1>10, <1>15, <1>19, <2>1
    <3>2. Congruent(h2 - vp, ((sb + x) - kq) - vq)
      BY <1>15, <1>19, <2>1, <2>3, <2>5, <3>1, CongruentAlgebra
    <3> QED BY <1>20, <2>1, <3>1, <3>2, CongruentTrans
  <2>7. ((sb + x) - kq) - vq = t[N]
    <3> DEFINE q == P[N - 1]
               r == s[N - 1]
    <3>1. sb = (r + (k + v) * q) * Base /\ kq = k * (Base * q) /\ vq = v * (Base * q) /\ t[N] = x + Base * r
      BY <1>5, <1>6, <1>9 DEF sb, kq, vq
    <3>2. q \in Int /\ r \in Int /\ k \in Int /\ v \in Int /\ x \in Int
      BY <1>10
    <3> HIDE DEF q, r
    <3>3. (((r + (k + v) * q) * Base + x) - k * (Base * q)) - v * (Base * q) = x + Base * r
      BY <1>1, <3>2
    <3> QED BY <3>1, <3>3
  <2> QED BY <2>6, <2>7
<1>22. h3 = t[N] % Modulus
  BY <1>10, <1>20, <1>21, CongruentReduced DEF Residues
<1> QED BY <1>4, <1>13, <1>22 DEF N, i, k, v, x, old

-----------------------------------------------------------------------------
(* One chunk                                                               *)

(***************************************************************************)
(* Min and Max of a bounded nonempty set of numbers.                       *)
(***************************************************************************)
LEMMA MinOf ==
    ASSUME NEW S \in SUBSET Nat, S # {}
    PROVE  Min(S) \in S /\ \A m \in S : Min(S) <= m
<1>1. \E n \in S : \A m \in S : n <= m
  BY LeastNat
<1> QED BY <1>1 DEF Min

(***************************************************************************)
(* The greatest element of a bounded set of naturals that is not empty.    *)
(***************************************************************************)
LEMMA MaxOf ==
    ASSUME NEW N \in Nat, NEW S \in SUBSET (0..N), S # {}
    PROVE  Max(S) \in S /\ \A m \in S : Max(S) >= m
<1> DEFINE T == {N - m : m \in S}
<1>0. \A m \in S : m \in Nat /\ m <= N
  OBVIOUS
<1>1. T \in SUBSET Nat /\ T # {}
  <2>1. \A m \in S : N - m \in Nat
    BY <1>0
  <2>2. PICK m \in S : TRUE
    OBVIOUS
  <2>3. N - m \in T
    OBVIOUS
  <2> QED BY <2>1, <2>3
<1>2. PICK t \in T : \A m \in T : t <= m
  <2> HIDE DEF T
  <2> QED BY <1>1, LeastNat
<1>3. PICK x \in S : t = N - x
  BY <1>2
<1>4. \A m \in S : x >= m
  <2> SUFFICES ASSUME NEW m \in S PROVE x >= m
    OBVIOUS
  <2>1. t <= N - m
    BY <1>2
  <2>2. m \in Nat /\ x \in Nat
    BY <1>0
  <2> QED BY <1>3, <2>1, <2>2
<1> QED BY <1>4 DEF Max

(***************************************************************************)
(* The end NextCut finds: behind its window, and the first one where the   *)
(* window matches, if the chunk is not the last.                           *)
(***************************************************************************)
Starts(n) == {s \in Nat : Len(n.keys) \in Nat /\ s < Len(n.keys)}

(***************************************************************************)
(* A chunk has a pair and ends within the node.                            *)
(***************************************************************************)
LEMMA NextCutInside ==
    ASSUME NEW n, NEW s \in Starts(n)
    PROVE  NextCut(n, s) \in (s + 1)..Len(n.keys)
<1> DEFINE len == Len(n.keys)
           key(i) == KeyHash(n.keys[i])
           value(i) == ValueHash(n.vals[i])
           first == InitializeRollingHash([i \in 1..MinChunk |-> key(s + i) + value(s + i)])
           hash == CHOOSE h : h = [e \in 0..len |->
                     IF e <= s + MinChunk THEN first
                     ELSE UpdateRollingHash(h[e - 1], key(e - MinChunk), value(e - MinChunk),
                                            key(e) + value(e), MinChunk)]
           stops(e) == e = len \/ MinChunk >= MaxChunk \/ MatchesPattern(hash[e], Pattern)
           S == {e \in (s + MinChunk)..len : stops(e)}
<1>1. NextCut(n, s) = IF s + MinChunk >= len THEN len ELSE Min(S)
  BY DEF NextCut
<1>2. MinChunk \in Nat \ {0} /\ s \in Nat /\ len \in Nat /\ s < len
  BY ChunkParameters DEF Starts
<1>3. CASE s + MinChunk >= len
  BY <1>1, <1>2, <1>3
<1>4. CASE ~(s + MinChunk >= len)
  <2>1. len \in S
    BY <1>2, <1>4
  <2>2. S \in SUBSET Nat /\ S \subseteq (s + 1)..len
    BY <1>2
  <2> HIDE DEF S
  <2>3. Min(S) \in S
    BY <2>1, <2>2, MinOf
  <2> QED BY <1>1, <1>4, <2>2, <2>3
<1> QED BY <1>3, <1>4

Carried(n, len, from, first, hash) ==
    \A e \in 0..len :
      hash[e] = IF e <= from THEN first
                ELSE UpdateRollingHash(hash[e - 1], KeyHash(n.keys[e - MinChunk]),
                                       ValueHash(n.vals[e - MinChunk]), Item(n, e), MinChunk)

(***************************************************************************)
(* The hash that chunk_content carries along is the hash of the window     *)
(* alone: each update takes out the item that leaves and puts in the one   *)
(* that enters.                                                            *)
(***************************************************************************)
LEMMA CarriedHash ==
    ASSUME HashesReduced, NEW n, NEW len \in Nat, NEW from \in Nat, NEW first, NEW hash,
           first = WindowHash(n, from),
           Carried(n, len, from, first, hash)
    PROVE  \A e \in from..len : hash[e] = WindowHash(n, e)
<1> DEFINE T == {e \in 0..len : e >= from => hash[e] = WindowHash(n, e)}
<1>1. MinChunk \in Nat \ {0}
  BY ChunkParameters
<1>2. 0 \in T
  BY <1>1 DEF Carried
<1>3. ASSUME NEW e \in 1..len, e - 1 \in T PROVE e \in T
  <2>1. CASE e < from
    BY <1>1, <2>1
  <2>2. CASE e = from
    BY <1>1, <2>2 DEF Carried
  <2>3. CASE e > from
    <3>1. hash[e] = UpdateRollingHash(hash[e - 1], KeyHash(n.keys[e - MinChunk]),
                                      ValueHash(n.vals[e - MinChunk]), Item(n, e), MinChunk)
      <4>1. e \in 0..len /\ ~(e <= from)
        BY <1>1, <2>3
      <4> QED BY <4>1 DEF Carried
    <3>2. hash[e - 1] = WindowHash(n, e - 1)
      BY <1>1, <1>3, <2>3
    <3>3. e - 1 \in Nat /\ (e - 1) + 1 = e /\ (e - 1) + 1 - MinChunk = e - MinChunk
      BY <1>1
    <3> QED BY <3>1, <3>2, <3>3, UpdatedHash
  <2> QED BY <1>1, <2>1, <2>2, <2>3
<1>4. 0..len \subseteq T
  <2> HIDE DEF T
  <2> QED BY <1>2, <1>3, StepByStep
<1> QED BY <1>1, <1>4

(***************************************************************************)
(* A chunk ends where the window matches the pattern, or with the node,    *)
(* and at no earlier match.                                                *)
(***************************************************************************)
LEMMA NextCutMatches ==
    ASSUME HashesReduced, MinChunk < MaxChunk,
           NEW n, NEW s \in Starts(n)
    PROVE  LET c == NextCut(n, s)
           IN  /\ c = Len(n.keys) \/ WindowMatches(n, c)
               /\ \A e \in (s + MinChunk)..(c - 1) : ~WindowMatches(n, e)
<1> DEFINE len == Len(n.keys)
           key(i) == KeyHash(n.keys[i])
           value(i) == ValueHash(n.vals[i])
           first == InitializeRollingHash([i \in 1..MinChunk |-> key(s + i) + value(s + i)])
           G(h) == [e \in 0..len |->
                     IF e <= s + MinChunk THEN first
                     ELSE UpdateRollingHash(h[e - 1], key(e - MinChunk), value(e - MinChunk),
                                            key(e) + value(e), MinChunk)]
           hash == CHOOSE h : h = G(h)
           stops(e) == e = len \/ MinChunk >= MaxChunk \/ MatchesPattern(hash[e], Pattern)
           S == {e \in (s + MinChunk)..len : stops(e)}
           c == NextCut(n, s)
<1>1. c = IF s + MinChunk >= len THEN len ELSE Min(S)
  BY DEF NextCut
<1>2. MinChunk \in Nat \ {0} /\ MaxChunk \in Nat /\ s \in Nat /\ len \in Nat /\ s < len
  BY ChunkParameters DEF Starts
<1>3. CASE s + MinChunk >= len
  BY <1>1, <1>2, <1>3
<1>4. CASE ~(s + MinChunk >= len)
  <2>1. first = WindowHash(n, s + MinChunk)
    <3>1. InitializeRollingHash(Window(n, s)) = WindowHash(n, s + MinChunk)
      BY <1>2, InitialHash
    <3> QED BY <3>1 DEF Window
  <2>2. hash = G(hash)
    <3> DEFINE w == [e \in 0..len |-> IF e <= s + MinChunk THEN first ELSE WindowHash(n, e)]
    <3> HIDE DEF first
    <3>1. ASSUME NEW e \in 0..len, e > s + MinChunk
          PROVE  UpdateRollingHash(w[e - 1], key(e - MinChunk), value(e - MinChunk),
                                   key(e) + value(e), MinChunk) = WindowHash(n, e)
      <4>1. w[e - 1] = WindowHash(n, e - 1)
        BY <1>2, <2>1, <3>1
      <4>2. e - 1 \in Nat /\ (e - 1) + 1 = e /\ (e - 1) + 1 - MinChunk = e - MinChunk
        BY <1>2, <3>1
      <4>3. key(e) + value(e) = Item(n, e)
        BY DEF Item
      <4>4. UpdateRollingHash(WindowHash(n, e - 1), KeyHash(n.keys[(e - 1) + 1 - MinChunk]),
                              ValueHash(n.vals[(e - 1) + 1 - MinChunk]), Item(n, (e - 1) + 1), MinChunk)
              = WindowHash(n, (e - 1) + 1)
        BY <4>2, UpdatedHash
      <4> QED BY <4>1, <4>2, <4>3, <4>4
    <3>2. w = G(w)
      <4>1. \A e \in 0..len : ~(e <= s + MinChunk) => e > s + MinChunk
        BY <1>2
      <4> HIDE DEF key, value
      <4>2. \A e \in 0..len : w[e] = G(w)[e]
        BY <3>1, <4>1
      <4> QED BY <4>2
    <3> HIDE DEF w, G
    <3> QED BY <3>2
  <2>3. \A e \in (s + MinChunk)..len : hash[e] = WindowHash(n, e)
    <3> HIDE DEF first, hash
    <3>1. Carried(n, len, s + MinChunk, first, hash)
      BY <2>2 DEF Item, Carried
    <3> HIDE DEF G
    <3> DEFINE from == s + MinChunk
    <3>2. len \in Nat /\ from \in Nat
      BY <1>2
    <3>3. first = WindowHash(n, from) /\ Carried(n, len, from, first, hash)
      BY <2>1, <3>1
    <3> HIDE DEF len, from
    <3>4. ASSUME NEW e \in from..len PROVE hash[e] = WindowHash(n, e)
      BY <3>2, <3>3, CarriedHash
    <3> QED BY <3>4 DEF from
  <2> HIDE DEF hash
  <2>4. len \in S /\ S \in SUBSET Nat
    BY <1>2, <1>4
  <2>5. c \in S /\ \A e \in S : c <= e
    <3> HIDE DEF S, c
    <3> QED BY <1>1, <1>4, <2>4, MinOf
  <2>6. c = len \/ WindowMatches(n, c)
    BY <1>2, <2>3, <2>5 DEF WindowMatches
  <2>7. ASSUME NEW e \in (s + MinChunk)..(c - 1) PROVE ~WindowMatches(n, e)
    <3>1. c \in Nat /\ c <= len
      BY <1>2, <2>5
    <3>2. e \in (s + MinChunk)..len /\ ~(c <= e)
      BY <1>2, <3>1
    <3>3. ~stops(e)
      BY <2>5, <3>2
    <3> QED BY <2>3, <3>2, <3>3 DEF WindowMatches
  <2> QED BY <2>6, <2>7
<1> QED BY <1>3, <1>4

-----------------------------------------------------------------------------
(* All chunks of a node                                                    *)

Start(done, i) == IF i = 1 THEN 0 ELSE done[i - 1]

Cuts(n) == {done \in Seq(Nat) : \A i \in 1..Len(done) : done[i] \in (Start(done, i) + 1)..Len(n.keys)}

Matched(n, done) ==
    HashesReduced /\ MinChunk < MaxChunk =>
      \A i \in 1..Len(done) :
        /\ done[i] = Len(n.keys) \/ WindowMatches(n, done[i])
        /\ \A e \in (Start(done, i) + MinChunk)..(done[i] - 1) : ~WindowMatches(n, e)

(***************************************************************************)
(* The ends of the chunks go up and end with the node; each is a match and *)
(* no match is passed over.                                                *)
(***************************************************************************)
LEMMA ChunkEnds ==
    ASSUME NEW n, NEW len \in Nat, len = Len(n.keys)
    PROVE  /\ ChunkContent(n) \in Cuts(n)
           /\ Matched(n, ChunkContent(n))
           /\ len >= MinChunk => Last(ChunkContent(n)) = len /\ ChunkContent(n) # <<>>
<1> DEFINE V == {done \in Cuts(n) : Matched(n, done)}
           a == <<>>
           start(done) == IF done = <<>> THEN 0 ELSE Last(done)
           G(done) == IF start(done) = len THEN done ELSE Append(done, NextCut(n, start(done)))
           S == [i \in 1..len |-> [v \in V |-> G(v)]]
           ends == CHOOSE f : f = [i \in 0..len |-> IF i = 0 THEN a ELSE G(f[i - 1])]
<1>1. ChunkContent(n) = IF len < MinChunk THEN <<>> ELSE ends[len]
  BY DEF ChunkContent
<1>2. a \in V
  BY DEF Cuts, Matched
<1>3. \A done \in V : done \in Seq(Nat) /\ Len(done) \in Nat /\ start(done) \in 0..len
  <2> SUFFICES ASSUME NEW done \in V PROVE done \in Seq(Nat) /\ Len(done) \in Nat /\ start(done) \in 0..len
    OBVIOUS
  <2>1. done \in Seq(Nat) /\ Len(done) \in Nat
    BY DEF Cuts
  <2>2. CASE done = <<>>
    BY <2>1, <2>2
  <2>3. CASE done # <<>>
    <3>1. Len(done) \in 1..Len(done)
      BY <2>1, <2>3
    <3>2. done[Len(done)] \in Nat /\ done[Len(done)] <= Len(n.keys)
      BY <2>1, <3>1 DEF Cuts
    <3> QED BY <2>1, <2>3, <3>2 DEF Last
  <2> QED BY <2>2, <2>3
<1>4. ASSUME NEW done \in V, start(done) # len
      PROVE  /\ G(done) \in V /\ Len(G(done)) = Len(done) + 1
             /\ start(G(done)) \in (start(done) + 1)..len
  <2> DEFINE s == start(done)
             c == NextCut(n, s)
             new == Append(done, c)
             L == Len(done)
  <2>1. s \in Starts(n) /\ done \in Seq(Nat) /\ L \in Nat /\ s \in Nat
    BY <1>3, <1>4 DEF Starts
  <2>2. c \in (s + 1)..len
    BY <2>1, NextCutInside
  <2>3. /\ new \in Seq(Nat) /\ Len(new) = L + 1 /\ new[L + 1] = c
        /\ \A i \in 1..L : new[i] = done[i]
    <3> HIDE DEF s, c
    <3> QED BY <2>1, <2>2
  <2>4. Start(new, L + 1) = s
    <3>1. CASE L = 0
      BY <2>1, <3>1 DEF Start
    <3>2. CASE L # 0
      <4>1. new[L] = done[L] /\ done # <<>>
        BY <2>1, <2>3, <3>2
      <4> QED BY <2>1, <3>2, <4>1 DEF Start, Last
    <3> QED BY <3>1, <3>2
  <2>5. \A i \in 1..L : Start(new, i) = Start(done, i) /\ new[i] = done[i]
    BY <2>1, <2>3 DEF Start
  <2> HIDE DEF new, L
  <2>6. new \in Cuts(n)
    <3>1. \A i \in 1..L : done[i] \in (Start(done, i) + 1)..Len(n.keys)
      BY DEF Cuts, L
    <3>2. \A i \in 1..(L + 1) : new[i] \in (Start(new, i) + 1)..Len(n.keys)
      <4> HIDE DEF s, c
      <4> SUFFICES ASSUME NEW i \in 1..(L + 1) PROVE new[i] \in (Start(new, i) + 1)..Len(n.keys)
        OBVIOUS
      <4>1. CASE i \in 1..L
        BY <2>5, <3>1, <4>1
      <4>2. CASE i = L + 1
        BY <2>2, <2>3, <2>4, <4>2
      <4> QED BY <2>1, <4>1, <4>2
    <3> QED BY <2>3, <3>2 DEF Cuts
  <2>7. Matched(n, new)
    <3> SUFFICES ASSUME HashesReduced, MinChunk < MaxChunk, NEW i \in 1..(L + 1)
                 PROVE  /\ new[i] = Len(n.keys) \/ WindowMatches(n, new[i])
                        /\ \A e \in (Start(new, i) + MinChunk)..(new[i] - 1) : ~WindowMatches(n, e)
      BY <2>3 DEF Matched
    <3>1. CASE i \in 1..L
      <4>1. /\ done[i] = Len(n.keys) \/ WindowMatches(n, done[i])
            /\ \A e \in (Start(done, i) + MinChunk)..(done[i] - 1) : ~WindowMatches(n, e)
        BY <3>1 DEF Matched, L
      <4> QED BY <2>5, <3>1, <4>1
    <3>2. CASE i = L + 1
      <4>1. /\ c = Len(n.keys) \/ WindowMatches(n, c)
            /\ \A e \in (s + MinChunk)..(c - 1) : ~WindowMatches(n, e)
        <5> HIDE DEF s
        <5> QED BY <2>1, NextCutMatches
      <4> QED BY <2>3, <2>4, <3>2, <4>1
    <3> QED BY <2>1, <3>1, <3>2
  <2>8. G(done) = new
    BY <1>4 DEF new
  <2>9. start(new) = c
    BY <2>1, <2>3 DEF Last
  <2> QED BY <2>2, <2>3, <2>6, <2>7, <2>8, <2>9 DEF L
<1> HIDE DEF V, a, G
<1>5. \A done \in V : G(done) \in V
  BY <1>4 DEF G
<1>6. \A i \in 1..len, v \in V : S[i][v] = G(v) /\ S[i][v] \in V
  BY <1>5
<1> HIDE DEF S
<1>7. PICK f : Iterates(f, len, V, a, S)
  BY <1>2, <1>6, RecursiveFunction DEF Steps
<1>8. f \in [0..len -> V] /\ f[0] = a /\ \A i \in 1..len : f[i] = G(f[i - 1])
  <2>1. \A i \in 1..len : f[i - 1] \in V
    BY <1>7 DEF Iterates
  <2> QED BY <1>6, <1>7, <2>1 DEF Iterates
<1>9. f = [i \in 0..len |-> IF i = 0 THEN a ELSE G(f[i - 1])]
  BY <1>8
<1>10. ends = [i \in 0..len |-> IF i = 0 THEN a ELSE G(ends[i - 1])]
  BY <1>9
<1> HIDE DEF ends
<1> DEFINE T == {i \in 0..len : ends[i] \in V /\ start(ends[i]) >= i}
<1>11. 0 \in T
  BY <1>2, <1>10 DEF a
<1>12. ASSUME NEW i \in 1..len, i - 1 \in T PROVE i \in T
  <2> DEFINE v == ends[i - 1]
  <2>1. v \in V /\ start(v) >= i - 1 /\ start(v) \in 0..len
    BY <1>3, <1>12
  <2>2. ends[i] = G(v)
    BY <1>10
  <2> HIDE DEF v
  <2>3. CASE start(v) = len
    BY <2>1, <2>2, <2>3 DEF G
  <2>4. CASE start(v) # len
    BY <1>4, <2>1, <2>2, <2>4
  <2> QED BY <2>3, <2>4
<1>13. 0..len \subseteq T
  <2> HIDE DEF T
  <2> QED BY <1>11, <1>12, StepByStep
<1>14. ends[len] \in V /\ start(ends[len]) = len
  <2>1. len \in T
    BY <1>13
  <2>2. ends[len] \in V /\ start(ends[len]) >= len
    BY <2>1
  <2>3. start(ends[len]) \in 0..len
    BY <1>3, <2>2
  <2> QED BY <2>2, <2>3
<1>15. ChunkContent(n) \in V
  BY <1>1, <1>2, <1>14 DEF a
<1>16. ASSUME len >= MinChunk PROVE Last(ChunkContent(n)) = len /\ ChunkContent(n) # <<>>
  <2>1. MinChunk \in Nat \ {0} /\ ChunkContent(n) = ends[len]
    BY <1>1, <1>16, ChunkParameters
  <2> QED BY <1>14, <1>16, <2>1
<1> QED BY <1>15, <1>16 DEF V

-----------------------------------------------------------------------------
(* Values and digests: the universe the nodes are built from               *)

Ladder(f, n) ==
    f = [i \in 0..n |-> IF i = 0 THEN Values ELSE f[i - 1] \cup (Seq(Keys) \X Seq(f[i - 1]))]

(***************************************************************************)
(* Values and digests can be built up rank by rank.                        *)
(***************************************************************************)
LEMMA LadderExists == \A n \in Nat : \E f : Ladder(f, n)
<1> SUFFICES ASSUME NEW N \in Nat PROVE \E f : Ladder(f, N)
  OBVIOUS
<1> DEFINE Wider(S) == S \cup (Seq(Keys) \X Seq(S))
           T == {n \in 0..N : \E f : Ladder(f, n)}
<1>1. 0 \in T
  <2> DEFINE f == [i \in 0..0 |-> Values]
  <2>1. f = [i \in 0..0 |-> IF i = 0 THEN Values ELSE Wider(f[i - 1])]
    OBVIOUS
  <2> HIDE DEF f
  <2>2. Ladder(f, 0)
    BY <2>1 DEF Ladder
  <2> QED BY <2>2
<1>2. ASSUME NEW n \in 1..N, n - 1 \in T PROVE n \in T
  <2>1. PICK g : Ladder(g, n - 1)
    BY <1>2
  <2> HIDE DEF Wider
  <2>2. g = [i \in 0..(n - 1) |-> IF i = 0 THEN Values ELSE Wider(g[i - 1])]
    BY <2>1 DEF Ladder, Wider
  <2> DEFINE f == [i \in 0..n |-> IF i = n THEN Wider(g[n - 1]) ELSE g[i]]
  <2>3. \A i \in 0..n : f[i] = IF i = 0 THEN Values ELSE Wider(f[i - 1])
    <3> SUFFICES ASSUME NEW i \in 0..n PROVE f[i] = IF i = 0 THEN Values ELSE Wider(f[i - 1])
      OBVIOUS
    <3>1. CASE i = n
      BY <3>1
    <3>2. CASE i # n /\ i # 0
      <4>1. f[i] = g[i] /\ f[i - 1] = g[i - 1]
        BY <3>2
      <4>2. g[i] = Wider(g[i - 1])
        BY <2>2, <3>2
      <4> QED BY <3>2, <4>1, <4>2
    <3>3. CASE i = 0
      BY <2>2, <3>3
    <3> QED BY <3>1, <3>2, <3>3
  <2>4. f = [i \in 0..n |-> IF i = 0 THEN Values ELSE Wider(f[i - 1])]
    BY <2>3
  <2> HIDE DEF f
  <2>5. Ladder(f, n)
    BY <2>4 DEF Ladder, Wider
  <2> QED BY <2>5
<1>3. 0..N \subseteq T
  <2> HIDE DEF T
  <2> QED BY <1>1, <1>2, StepByStep
<1> QED BY <1>3

(***************************************************************************)
(* Each rank has the digests over the rank below.                          *)
(***************************************************************************)
LEMMA LadderGrows ==
    ASSUME NEW f, NEW N \in Nat, Ladder(f, N)
    PROVE  /\ f[0] = Values
           /\ \A n \in 0..N : Values \subseteq f[n]
           /\ \A n \in 0..N : Seq(Keys) \X Seq(f[n]) \subseteq
                 f[n] \cup (Seq(Keys) \X Seq(f[n]))
           /\ \A n \in 1..N : f[n] = f[n - 1] \cup (Seq(Keys) \X Seq(f[n - 1]))
<1>1. f[0] = Values /\ \A n \in 1..N : f[n] = f[n - 1] \cup (Seq(Keys) \X Seq(f[n - 1]))
  BY DEF Ladder
<1> DEFINE T == {n \in 0..N : Values \subseteq f[n]}
<1>2. 0 \in T /\ \A n \in 1..N : n - 1 \in T => n \in T
  BY <1>1
<1>3. 0..N \subseteq T
  <2> HIDE DEF T
  <2> QED BY <1>2, StepByStep
<1> QED BY <1>1, <1>3

(***************************************************************************)
(* Two ladders agree as far as both go.                                    *)
(***************************************************************************)
LEMMA LadderUnique ==
    ASSUME NEW N \in Nat, NEW M \in Nat, N <= M, NEW f, NEW g, Ladder(f, N), Ladder(g, M)
    PROVE  \A n \in 0..N : f[n] = g[n]
<1> DEFINE T == {n \in 0..N : f[n] = g[n]}
<1>1. /\ f[0] = Values /\ \A n \in 1..N : f[n] = f[n - 1] \cup (Seq(Keys) \X Seq(f[n - 1]))
      /\ g[0] = Values /\ \A n \in 1..M : g[n] = g[n - 1] \cup (Seq(Keys) \X Seq(g[n - 1]))
  BY LadderGrows
<1>2. 0 \in T
  BY <1>1
<1>4. ASSUME NEW n \in 1..N, n - 1 \in T PROVE n \in T
  <2>1. n \in 1..M /\ f[n - 1] = g[n - 1] /\ n \in 0..N
    BY <1>4
  <2>2. f[n] = f[n - 1] \cup (Seq(Keys) \X Seq(f[n - 1]))
    BY <1>1
  <2>3. g[n] = g[n - 1] \cup (Seq(Keys) \X Seq(g[n - 1]))
    BY <1>1, <2>1
  <2>4. f[n] = g[n]
    BY <2>1, <2>2, <2>3
  <2> QED BY <2>1, <2>4
<1>3. 0..N \subseteq T
  <2> HIDE DEF T
  <2> QED BY <1>2, <1>4, StepByStep
<1> QED BY <1>3

Rank(n) == (CHOOSE p : Ladder(p, n))[n]

(***************************************************************************)
(* Rank 0 has the values, rank n + 1 the digests over rank n.              *)
(***************************************************************************)
LEMMA RankStep ==
    /\ Values \subseteq Rank(0)
    /\ \A n \in Nat : Rank(n) \cup (Seq(Keys) \X Seq(Rank(n))) = Rank(n + 1)
<1>1. ASSUME NEW n \in Nat PROVE Rank(n) \cup (Seq(Keys) \X Seq(Rank(n))) = Rank(n + 1)
  <2> DEFINE f == CHOOSE p : Ladder(p, n)
             g == CHOOSE p : Ladder(p, n + 1)
  <2>1. n + 1 \in Nat /\ n <= n + 1
    OBVIOUS
  <2>2. Ladder(f, n) /\ Ladder(g, n + 1)
    BY <2>1, LadderExists
  <2>3. Rank(n) = f[n] /\ Rank(n + 1) = g[n + 1]
    BY DEF Rank
  <2> HIDE DEF f, g
  <2>4. f[n] = g[n]
    BY <2>1, <2>2, LadderUnique
  <2>5. g[n + 1] = g[n] \cup (Seq(Keys) \X Seq(g[n]))
    <3>1. n + 1 \in 1..(n + 1) /\ (n + 1) - 1 = n
      OBVIOUS
    <3> QED BY <2>1, <2>2, <3>1, LadderGrows
  <2> QED BY <2>3, <2>4, <2>5
<1>2. Values \subseteq Rank(0)
  <2> DEFINE f == CHOOSE p : Ladder(p, 0)
  <2>1. Ladder(f, 0)
    BY LadderExists
  <2>2. Rank(0) = f[0]
    BY DEF Rank
  <2> HIDE DEF f
  <2> QED BY <2>1, <2>2, LadderGrows
<1> QED BY <1>1, <1>2

Universe == UNION {Rank(n) : n \in Nat}

(***************************************************************************)
(* The universe has the values and the digests over itself.                *)
(***************************************************************************)
LEMMA UniverseStep == Values \subseteq Universe /\ Seq(Keys) \X Seq(Universe) \subseteq Universe
<1> DEFINE U == Universe
<1>0. U = UNION {Rank(n) : n \in Nat}
  BY DEF Universe
<1> HIDE DEF U
<1>1. Values \subseteq U
  BY <1>0, RankStep
<1>2. \A n \in Nat : Rank(n) \subseteq Rank(n + 1)
  BY RankStep
<1>3. \A N \in Nat : \A n \in Nat, m \in 0..N : Rank(n) \subseteq Rank(n + m)
  <2> SUFFICES ASSUME NEW N \in Nat, NEW n \in Nat PROVE \A m \in 0..N : Rank(n) \subseteq Rank(n + m)
    OBVIOUS
  <2> DEFINE T == {m \in 0..N : Rank(n) \subseteq Rank(n + m)}
  <2>1. 0 \in T
    OBVIOUS
  <2>2. ASSUME NEW m \in 1..N, m - 1 \in T PROVE m \in T
    <3>1. Rank(n) \subseteq Rank(n + (m - 1)) /\ n + (m - 1) \in Nat /\ (n + (m - 1)) + 1 = n + m
      BY <2>2
    <3>2. Rank(n + (m - 1)) \subseteq Rank((n + (m - 1)) + 1)
      BY <1>2, <3>1
    <3> QED BY <3>1, <3>2
  <2>3. 0..N \subseteq T
    <3> HIDE DEF T
    <3> QED BY <2>1, <2>2, StepByStep
  <2> QED BY <2>3
<1>4. \A n, m \in Nat : n <= m => Rank(n) \subseteq Rank(m)
  <2> SUFFICES ASSUME NEW n \in Nat, NEW m \in Nat, n <= m PROVE Rank(n) \subseteq Rank(m)
    OBVIOUS
  <2>1. m - n \in Nat /\ m - n \in 0..(m - n) /\ n + (m - n) = m
    OBVIOUS
  <2> QED BY <1>3, <2>1
<1>5. ASSUME NEW s \in Seq(U) PROVE \E n \in Nat : s \in Seq(Rank(n))
  <2> DEFINE L == Len(s)
             T == {l \in 0..L : \E n \in Nat : \A i \in 1..l : s[i] \in Rank(n)}
  <2>1. L \in Nat /\ \A i \in 1..L : s[i] \in U
    BY LenProperties, ElementOfSeq
  <2>2. 0 \in T
    BY <2>1
  <2>3. ASSUME NEW l \in 1..L, l - 1 \in T PROVE l \in T
    <3>1. PICK n \in Nat : \A i \in 1..(l - 1) : s[i] \in Rank(n)
      BY <2>3
    <3>2. PICK m \in Nat : s[l] \in Rank(m)
      BY <1>0, <2>1
    <3> DEFINE x == IF n <= m THEN m ELSE n
    <3>3. x \in Nat /\ Rank(n) \subseteq Rank(x) /\ Rank(m) \subseteq Rank(x)
      BY <1>4
    <3>4. \A i \in 1..l : s[i] \in Rank(x)
      <4>1. \A i \in 1..l : i \in 1..(l - 1) \/ i = l
        BY <2>1
      <4> HIDE DEF x
      <4> QED BY <3>1, <3>2, <3>3, <4>1
    <3> HIDE DEF x
    <3>5. \E y \in Nat : \A i \in 1..l : s[i] \in Rank(y)
      BY <3>3, <3>4
    <3>6. l \in 0..L
      BY <2>1
    <3> HIDE DEF L
    <3> QED BY <3>5, <3>6
  <2>4. 0..L \subseteq T
    <3> HIDE DEF T
    <3> QED BY <2>1, <2>2, <2>3, StepByStep
  <2>5. PICK n \in Nat : \A i \in 1..L : s[i] \in Rank(n)
    <3>1. L \in T
      <4>1. L \in 0..L
        BY <2>1
      <4> HIDE DEF T, L
      <4> QED BY <2>4, <4>1
    <3> HIDE DEF L
    <3> QED BY <3>1
  <2>6. s = [i \in 1..L |-> s[i]]
    BY <2>1, LenProperties
  <2>7. s \in Seq(Rank(n))
    <3> HIDE DEF L
    <3>1. s \in [1..L -> Rank(n)]
      BY <2>1, <2>5, <2>6
    <3> QED BY <2>1, <3>1, SeqDef
  <2> QED BY <2>7
<1>6. Seq(Keys) \X Seq(U) \subseteq U
  <2> SUFFICES ASSUME NEW ks \in Seq(Keys), NEW s \in Seq(U) PROVE <<ks, s>> \in U
    OBVIOUS
  <2>1. PICK n \in Nat : s \in Seq(Rank(n))
    BY <1>5
  <2>2. <<ks, s>> \in Seq(Keys) \X Seq(Rank(n)) /\ n + 1 \in Nat
    BY <2>1
  <2>3. <<ks, s>> \in Rank(n + 1)
    BY <2>2, RankStep
  <2> QED BY <1>0, <2>2, <2>3
<1> QED BY <1>1, <1>6 DEF U

-----------------------------------------------------------------------------
(* Sequences: what the operations on vectors give                          *)

(***************************************************************************)
(* Sequences that are taken apart and put together.                        *)
(***************************************************************************)
LEMMA PartOf ==
    ASSUME NEW S, NEW s \in Seq(S), NEW m \in 1..(Len(s) + 1), NEW n \in 0..Len(s)
    PROVE  /\ SubSeq(s, m, n) \in Seq(S)
           /\ Len(SubSeq(s, m, n)) = IF m <= n THEN n - m + 1 ELSE 0
           /\ \A i \in 1..(n - m + 1) : SubSeq(s, m, n)[i] = s[m + i - 1]
<1>1. Len(s) \in Nat /\ \A i \in m..n : s[i] \in S
  BY LenProperties
<1>2. m \in Int /\ n \in Int
  BY <1>1
<1> QED BY <1>1, <1>2, SubSeqProperties

Joins(r, s, t, S) ==
    /\ r \in Seq(S)
    /\ Len(s) \in Nat /\ Len(t) \in Nat
    /\ Len(r) = Len(s) + Len(t)
    /\ \A i \in 1..Len(s) : r[i] = s[i]
    /\ \A i \in 1..Len(t) : r[Len(s) + i] = t[i]

(***************************************************************************)
(* The length and the elements of two sequences put together.              *)
(***************************************************************************)
LEMMA Joined ==
    ASSUME NEW S, NEW s \in Seq(S), NEW t \in Seq(S)
    PROVE  Joins(s \o t, s, t, S)
<1>1. Len(s) \in Nat /\ Len(t) \in Nat
  BY LenProperties
<1>2. \A i \in 1..(Len(s) + Len(t)) : (s \o t)[i] = IF i <= Len(s) THEN s[i] ELSE t[i - Len(s)]
  BY ConcatProperties
<1>3. ASSUME NEW i \in 1..Len(t) PROVE (s \o t)[Len(s) + i] = t[i]
  <2>1. Len(s) + i \in 1..(Len(s) + Len(t)) /\ ~(Len(s) + i <= Len(s)) /\ (Len(s) + i) - Len(s) = i
    BY <1>1
  <2> QED BY <1>2, <2>1
<1>4. ASSUME NEW i \in 1..Len(s) PROVE (s \o t)[i] = s[i]
  BY <1>1, <1>2
<1> QED BY <1>1, <1>3, <1>4, ConcatProperties DEF Joins

(***************************************************************************)
(* The length and the elements of a sequence without its last.             *)
(***************************************************************************)
LEMMA FrontOf ==
    ASSUME NEW S, NEW s \in Seq(S), s # <<>>
    PROVE  /\ Front(s) \in Seq(S) /\ Len(Front(s)) = Len(s) - 1 /\ Len(s) \in Nat \ {0}
           /\ Last(s) \in S
           /\ \A i \in 1..(Len(s) - 1) : Front(s)[i] = s[i]
<1>1. Len(s) \in Nat \ {0}
  BY EmptySeq
<1>2. 1 \in 1..(Len(s) + 1) /\ Len(s) - 1 \in 0..Len(s) /\ Len(s) \in 1..Len(s)
  BY <1>1
<1>3. /\ Front(s) \in Seq(S) /\ Len(Front(s)) = Len(s) - 1
      /\ \A i \in 1..(Len(s) - 1) : Front(s)[i] = s[i]
  <2> DEFINE t == SubSeq(s, 1, Len(s) - 1)
  <2>1. /\ t \in Seq(S)
        /\ Len(t) = IF 1 <= Len(s) - 1 THEN (Len(s) - 1) - 1 + 1 ELSE 0
        /\ \A i \in 1..((Len(s) - 1) - 1 + 1) : t[i] = s[1 + i - 1]
    BY <1>2, PartOf
  <2>2. Front(s) = t
    BY DEF Front
  <2> HIDE DEF t
  <2>3. \A i \in 1..(Len(s) - 1) : t[i] = s[i]
    BY <1>1, <2>1
  <2> QED BY <1>1, <2>1, <2>2, <2>3
<1> QED BY <1>1, <1>2, <1>3, ElementOfSeq DEF Last

Inserts(r, s, i, e, S) ==
    /\ r \in Seq(S)
    /\ Len(s) \in Nat /\ Len(r) = Len(s) + 1
    /\ \A j \in 1..(i - 1) : r[j] = s[j]
    /\ r[i] = e
    /\ \A j \in i..Len(s) : r[j + 1] = s[j]

(***************************************************************************)
(* The length and the elements after Vec::insert.                          *)
(***************************************************************************)
LEMMA Inserted ==
    ASSUME NEW S, NEW s \in Seq(S), NEW i \in 1..(Len(s) + 1), NEW e \in S
    PROVE  Inserts(InsertAt(s, i, e), s, i, e, S)
<1> DEFINE a == SubSeq(s, 1, i - 1)
           b == SubSeq(s, i, Len(s))
           m == a \o <<e>>
<1>1. Len(s) \in Nat
  BY LenProperties
<1>2. a \in Seq(S) /\ Len(a) = i - 1 /\ \A j \in 1..(i - 1) : a[j] = s[j]
  <2>1. 1 \in 1..(Len(s) + 1) /\ i - 1 \in 0..Len(s)
    BY <1>1
  <2>2. /\ a \in Seq(S)
        /\ Len(a) = IF 1 <= i - 1 THEN (i - 1) - 1 + 1 ELSE 0
        /\ \A j \in 1..((i - 1) - 1 + 1) : a[j] = s[1 + j - 1]
    BY <2>1, PartOf
  <2> HIDE DEF a
  <2> QED BY <1>1, <2>2
<1>3. b \in Seq(S) /\ Len(b) = Len(s) - i + 1 /\ \A j \in 1..(Len(s) - i + 1) : b[j] = s[i + j - 1]
  <2>1. Len(s) \in 0..Len(s)
    BY <1>1
  <2>2. /\ b \in Seq(S)
        /\ Len(b) = IF i <= Len(s) THEN Len(s) - i + 1 ELSE 0
        /\ \A j \in 1..(Len(s) - i + 1) : b[j] = s[i + j - 1]
    BY <2>1, PartOf
  <2> HIDE DEF b
  <2> QED BY <1>1, <2>2
<1>4. InsertAt(s, i, e) = m \o b
  BY DEF InsertAt
<1> HIDE DEF a, b
<1> DEFINE x == <<e>>
<1>5. m \in Seq(S) /\ Len(m) = i /\ m[i] = e /\ \A j \in 1..(i - 1) : m[j] = a[j]
  <2>1. x \in Seq(S) /\ Len(x) = 1 /\ x[1] = e
    OBVIOUS
  <2> HIDE DEF x
  <2>2. Joins(m, a, x, S)
    BY <1>2, <2>1, Joined
  <2> HIDE DEF m
  <2> QED BY <1>1, <1>2, <2>1, <2>2 DEF Joins
<1> HIDE DEF m, x
<1> DEFINE r == m \o b
<1>6. Joins(r, m, b, S)
  BY <1>3, <1>5, Joined
<1> HIDE DEF r
<1>10. /\ r \in Seq(S) /\ Len(r) = i + Len(b)
       /\ \A j \in 1..i : r[j] = m[j]
       /\ \A j \in 1..Len(b) : r[i + j] = b[j]
  BY <1>5, <1>6 DEF Joins
<1>7. ASSUME NEW j \in i..Len(s) PROVE r[j + 1] = s[j]
  <2>1. j - i + 1 \in 1..Len(b) /\ i + (j - i + 1) = j + 1 /\ i + (j - i + 1) - 1 = j
    BY <1>1, <1>3
  <2>2. r[i + (j - i + 1)] = b[j - i + 1]
    BY <1>10, <2>1
  <2>3. b[j - i + 1] = s[i + (j - i + 1) - 1]
    BY <1>1, <1>3, <2>1
  <2> QED BY <2>1, <2>2, <2>3
<1>8. Len(r) = Len(s) + 1 /\ r[i] = e
  BY <1>1, <1>3, <1>5, <1>10
<1>9. ASSUME NEW j \in 1..(i - 1) PROVE r[j] = s[j]
  BY <1>2, <1>5, <1>10
<1>11. InsertAt(s, i, e) = r
  BY <1>4 DEF r
<1> QED BY <1>1, <1>7, <1>8, <1>9, <1>10, <1>11 DEF Inserts

(* A sequence with another one in the place of its i-th element.           *)
Splices(r, s, i, t, S) ==
    /\ r \in Seq(S)
    /\ Len(s) \in Nat /\ Len(t) \in Nat
    /\ Len(r) = Len(s) + Len(t) - 1
    /\ \A j \in 1..(i - 1) : r[j] = s[j]
    /\ \A j \in 1..Len(t) : r[i - 1 + j] = t[j]
    /\ \A j \in (i + 1)..Len(s) : r[j + Len(t) - 1] = s[j]

(***************************************************************************)
(* The length and the elements after one element has been replaced by      *)
(* several.                                                                *)
(***************************************************************************)
LEMMA Spliced ==
    ASSUME NEW S, NEW s \in Seq(S), NEW i \in 1..Len(s), NEW t \in Seq(S)
    PROVE  Splices(SubSeq(s, 1, i - 1) \o t \o SubSeq(s, i + 1, Len(s)), s, i, t, S)
<1> DEFINE a == SubSeq(s, 1, i - 1)
           b == SubSeq(s, i + 1, Len(s))
           m == a \o t
           r == m \o b
<1>1. Len(s) \in Nat /\ Len(t) \in Nat
  BY LenProperties
<1>2. a \in Seq(S) /\ Len(a) = i - 1 /\ \A j \in 1..(i - 1) : a[j] = s[j]
  <2>1. 1 \in 1..(Len(s) + 1) /\ i - 1 \in 0..Len(s)
    BY <1>1
  <2>2. /\ a \in Seq(S)
        /\ Len(a) = IF 1 <= i - 1 THEN (i - 1) - 1 + 1 ELSE 0
        /\ \A j \in 1..((i - 1) - 1 + 1) : a[j] = s[1 + j - 1]
    BY <2>1, PartOf
  <2> HIDE DEF a
  <2> QED BY <1>1, <2>2
<1>3. b \in Seq(S) /\ Len(b) = Len(s) - i /\ \A j \in 1..(Len(s) - i) : b[j] = s[i + j]
  <2>1. Len(s) \in 0..Len(s) /\ i + 1 \in 1..(Len(s) + 1)
    BY <1>1
  <2>2. /\ b \in Seq(S)
        /\ Len(b) = IF i + 1 <= Len(s) THEN Len(s) - (i + 1) + 1 ELSE 0
        /\ \A j \in 1..(Len(s) - (i + 1) + 1) : b[j] = s[(i + 1) + j - 1]
    BY <2>1, PartOf
  <2> HIDE DEF b
  <2> QED BY <1>1, <2>2
<1> HIDE DEF a, b
<1>4. /\ m \in Seq(S) /\ Len(m) = i - 1 + Len(t)
      /\ \A j \in 1..(i - 1) : m[j] = a[j]
      /\ \A j \in 1..Len(t) : m[i - 1 + j] = t[j]
  <2>1. Joins(m, a, t, S)
    BY <1>2, Joined
  <2> HIDE DEF m
  <2> QED BY <1>2, <2>1 DEF Joins
<1> HIDE DEF m
<1>5. /\ r \in Seq(S) /\ Len(r) = Len(m) + Len(b)
      /\ \A j \in 1..Len(m) : r[j] = m[j]
      /\ \A j \in 1..Len(b) : r[Len(m) + j] = b[j]
  <2>1. Joins(r, m, b, S)
    BY <1>3, <1>4, Joined
  <2> HIDE DEF r
  <2> QED BY <2>1 DEF Joins
<1> HIDE DEF r
<1>6. ASSUME NEW j \in (i + 1)..Len(s) PROVE r[j + Len(t) - 1] = s[j]
  <2>1. j - i \in 1..Len(b) /\ Len(m) + (j - i) = j + Len(t) - 1 /\ i + (j - i) = j
    BY <1>1, <1>3, <1>4
  <2>2. r[Len(m) + (j - i)] = b[j - i]
    BY <1>5, <2>1
  <2>3. b[j - i] = s[i + (j - i)]
    BY <1>3, <2>1
  <2> QED BY <2>1, <2>2, <2>3
<1>7. ASSUME NEW j \in 1..(i - 1) PROVE r[j] = s[j]
  <2>1. j \in 1..Len(m)
    BY <1>1, <1>4
  <2> QED BY <1>2, <1>4, <1>5, <2>1
<1>8. ASSUME NEW j \in 1..Len(t) PROVE r[i - 1 + j] = t[j]
  <2>1. i - 1 + j \in 1..Len(m)
    BY <1>1, <1>4
  <2> QED BY <1>4, <1>5, <2>1
<1>9. Len(r) = Len(s) + Len(t) - 1
  BY <1>1, <1>3, <1>4, <1>5
<1>10. Splices(r, s, i, t, S)
  BY <1>1, <1>5, <1>6, <1>7, <1>8, <1>9 DEF Splices
<1> QED BY <1>10 DEF r, m, a, b

Removes(r, s, i, S) ==
    /\ r \in Seq(S)
    /\ Len(s) \in Nat /\ Len(r) = Len(s) - 1
    /\ \A j \in 1..(i - 1) : r[j] = s[j]
    /\ \A j \in (i + 1)..Len(s) : r[j - 1] = s[j]

(***************************************************************************)
(* The length and the elements after Vec::remove.                          *)
(***************************************************************************)
LEMMA Removed ==
    ASSUME NEW S, NEW s \in Seq(S), NEW i \in 1..Len(s)
    PROVE  Removes(RemoveAt(s, i), s, i, S)
<1> DEFINE a == SubSeq(s, 1, i - 1)
           b == SubSeq(s, i + 1, Len(s))
           e == <<>>
           r == a \o e \o b
<1>1. e \in Seq(S) /\ Len(e) = 0 /\ Len(s) \in Nat
  BY LenProperties
<1>2. a \in Seq(S)
  <2>1. 1 \in 1..(Len(s) + 1) /\ i - 1 \in 0..Len(s)
    BY <1>1
  <2> QED BY <2>1, PartOf
<1>3. RemoveAt(s, i) = r
  <2>1. a \o e = a
    BY <1>2, ConcatEmptySeq
  <2> QED BY <2>1 DEF RemoveAt
<1> HIDE DEF e
<1>4. Splices(r, s, i, e, S)
  BY <1>1, Spliced
<1> HIDE DEF r
<1>5. \A j \in (i + 1)..Len(s) : j + Len(e) - 1 = j - 1
  BY <1>1
<1> QED BY <1>1, <1>3, <1>4, <1>5 DEF Splices, Removes

-----------------------------------------------------------------------------
(* Nodes and storage                                                       *)

Digests == Seq(Keys) \X Seq(Universe)

Node == {n \in [keys : Seq(Keys), vals : Seq(Universe), leaf : BOOLEAN, level : Nat,
                split : BOOLEAN, merged : BOOLEAN] : Len(n.keys) = Len(n.vals)}

Filed(st) == \A h \in DOMAIN st : Hash(st[h]) = h

Stores == {st \in UNION {[Dm -> Node] : Dm \in SUBSET Digests} : IsFiniteSet(DOMAIN st) /\ Filed(st)}

(***************************************************************************)
(* Values and digests are in the universe.                                 *)
(***************************************************************************)
LEMMA UniverseClosed ==
    Values \subseteq Universe /\ Digests \subseteq Universe
BY UniverseStep DEF Digests

(***************************************************************************)
(* The fields of a node and of its digest.                                 *)
(***************************************************************************)
LEMMA NodeFields ==
    ASSUME NEW n \in Node
    PROVE  /\ n.keys \in Seq(Keys) /\ n.vals \in Seq(Universe)
           /\ Len(n.keys) \in Nat /\ Len(n.vals) = Len(n.keys)
           /\ n.leaf \in BOOLEAN /\ n.level \in Nat /\ n.split \in BOOLEAN /\ n.merged \in BOOLEAN
           /\ Hash(n) \in Digests /\ Hash(n) \in Universe
           /\ Hash(n)[1] = n.keys /\ Hash(n)[2] = n.vals
           /\ DOMAIN n = {"keys", "vals", "leaf", "level", "split", "merged"}
<1>1. /\ n.keys \in Seq(Keys) /\ n.vals \in Seq(Universe) /\ Len(n.vals) = Len(n.keys)
      /\ n.leaf \in BOOLEAN /\ n.level \in Nat /\ n.split \in BOOLEAN /\ n.merged \in BOOLEAN
      /\ DOMAIN n = {"keys", "vals", "leaf", "level", "split", "merged"}
  BY DEF Node
<1>2. Len(n.keys) \in Nat
  BY <1>1, LenProperties
<1>3. Hash(n) \in Digests /\ Hash(n)[1] = n.keys /\ Hash(n)[2] = n.vals
  BY <1>1 DEF Hash, Digests
<1> QED BY <1>1, <1>2, <1>3, UniverseClosed

Fields(m, ks, vs, leaf, level, split, merged) ==
    /\ m \in Node
    /\ m.keys = ks /\ m.vals = vs /\ m.leaf = leaf /\ m.level = level
    /\ m.split = split /\ m.merged = merged
    /\ Hash(m) = <<ks, vs>>

(***************************************************************************)
(* A node with other keys and values.                                      *)
(***************************************************************************)
LEMMA NodeWith ==
    ASSUME NEW n \in Node, NEW ks \in Seq(Keys), NEW vs \in Seq(Universe), Len(ks) = Len(vs)
    PROVE  Fields([n EXCEPT !.keys = ks, !.vals = vs], ks, vs, n.leaf, n.level, n.split, n.merged)
<1> DEFINE m == [n EXCEPT !.keys = ks, !.vals = vs]
<1>1. m \in Node /\ m.keys = ks /\ m.vals = vs /\ m.leaf = n.leaf /\ m.level = n.level
      /\ m.split = n.split /\ m.merged = n.merged
  BY DEF Node
<1> HIDE DEF m
<1>2. Fields(m, ks, vs, n.leaf, n.level, n.split, n.merged)
  BY <1>1 DEF Fields, Hash
<1> QED BY <1>2 DEF m

(***************************************************************************)
(* A node with another flag or level.                                      *)
(***************************************************************************)
LEMMA NodeSet ==
    ASSUME NEW n \in Node, NEW leaf \in BOOLEAN, NEW level \in Nat, NEW flag \in BOOLEAN
    PROVE  /\ Fields([n EXCEPT !.leaf = leaf], n.keys, n.vals, leaf, n.level, n.split, n.merged)
           /\ Fields([n EXCEPT !.level = level], n.keys, n.vals, n.leaf, level, n.split, n.merged)
           /\ Fields([n EXCEPT !.split = flag], n.keys, n.vals, n.leaf, n.level, flag, n.merged)
           /\ Fields([n EXCEPT !.merged = flag], n.keys, n.vals, n.leaf, n.level, n.split, flag)
<1>1. [n EXCEPT !.leaf = leaf] \in Node
  BY DEF Node
<1>2. [n EXCEPT !.level = level] \in Node
  BY DEF Node
<1>3. [n EXCEPT !.split = flag] \in Node
  BY DEF Node
<1>4. [n EXCEPT !.merged = flag] \in Node
  BY DEF Node
<1>5. DOMAIN n = {"keys", "vals", "leaf", "level", "split", "merged"}
  BY NodeFields
<1> QED BY <1>1, <1>2, <1>3, <1>4, <1>5 DEF Fields, Hash

(***************************************************************************)
(* What the storage holds under a digest: a node with the keys and values  *)
(* of that digest, as stored and as get_node_by_hash gives it.             *)
(***************************************************************************)
LEMMA StoreFields ==
    ASSUME NEW st \in Stores
    PROVE  /\ DOMAIN st \subseteq Digests /\ IsFiniteSet(DOMAIN st)
           /\ Cardinality(DOMAIN st) \in Nat
           /\ \A h \in DOMAIN st :
                /\ st[h] \in Node /\ Hash(st[h]) = h /\ st[h].keys = h[1] /\ st[h].vals = h[2]
                /\ GetNode(st, h) \in Node /\ Hash(GetNode(st, h)) = h
                /\ GetNode(st, h).keys = h[1] /\ GetNode(st, h).vals = h[2]
                /\ GetNode(st, h).leaf = st[h].leaf /\ GetNode(st, h).level = st[h].level
<1>1. PICK Dm \in SUBSET Digests : st \in [Dm -> Node]
  BY DEF Stores
<1>2. IsFiniteSet(DOMAIN st) /\ Filed(st) /\ DOMAIN st = Dm
  BY <1>1 DEF Stores
<1>3. Cardinality(DOMAIN st) \in Nat
  BY <1>2, FS_CardinalityType
<1>4. ASSUME NEW h \in DOMAIN st
      PROVE  /\ st[h] \in Node /\ Hash(st[h]) = h /\ st[h].keys = h[1] /\ st[h].vals = h[2]
             /\ GetNode(st, h) \in Node /\ Hash(GetNode(st, h)) = h
             /\ GetNode(st, h).keys = h[1] /\ GetNode(st, h).vals = h[2]
             /\ GetNode(st, h).leaf = st[h].leaf /\ GetNode(st, h).level = st[h].level
  <2> DEFINE n == st[h]
             g == [n EXCEPT !.split = FALSE, !.merged = FALSE]
  <2>1. n \in Node /\ Hash(n) = h
    BY <1>1, <1>2 DEF Filed
  <2>2. n.keys = h[1] /\ n.vals = h[2]
    BY <2>1, NodeFields
  <2>3. GetNode(st, h) = n \/ GetNode(st, h) = g
    BY DEF GetNode
  <2> HIDE DEF n
  <2>4. g \in Node /\ g.keys = n.keys /\ g.vals = n.vals /\ g.leaf = n.leaf /\ g.level = n.level
    BY <2>1 DEF Node
  <2> HIDE DEF g
  <2>5. Hash(g) = Hash(n)
    BY <2>4 DEF Hash
  <2> QED BY <2>1, <2>2, <2>3, <2>4, <2>5 DEF n
<1> QED BY <1>1, <1>2, <1>3, <1>4

(***************************************************************************)
(* Finitely many nodes, each under its own digest, are a storage.          *)
(***************************************************************************)
LEMMA StoreIs ==
    ASSUME NEW Dm \in SUBSET Digests, NEW st \in [Dm -> Node], IsFiniteSet(Dm), \A h \in Dm : Hash(st[h]) = h
    PROVE  st \in Stores
BY DEF Stores, Filed

(***************************************************************************)
(* insert_node adds one digest and changes nothing under any other.        *)
(***************************************************************************)
LEMMA InsertNodeType ==
    ASSUME NEW st \in Stores, NEW n \in Node
    PROVE  /\ InsertNode(st, n) \in Stores
           /\ DOMAIN InsertNode(st, n) = DOMAIN st \cup {Hash(n)}
           /\ InsertNode(st, n)[Hash(n)] = n
           /\ \A h \in DOMAIN st : h # Hash(n) => InsertNode(st, n)[h] = st[h]
<1> DEFINE Dm == DOMAIN st \cup {Hash(n)}
           s == [h \in Dm |-> IF h = Hash(n) THEN n ELSE st[h]]
<1>1. s = InsertNode(st, n)
  BY DEF InsertNode
<1>2. Dm \in SUBSET Digests /\ IsFiniteSet(Dm)
  BY StoreFields, NodeFields, FS_AddElement
<1>3. \A h \in Dm : s[h] \in Node /\ Hash(s[h]) = h
  BY StoreFields
<1>4. s \in [Dm -> Node]
  <2> HIDE DEF Dm
  <2> QED BY <1>3
<1>5. s \in Stores
  <2> HIDE DEF Dm, s
  <2> QED BY <1>2, <1>3, <1>4, StoreIs
<1>6. DOMAIN s = Dm /\ s[Hash(n)] = n /\ \A h \in DOMAIN st : h # Hash(n) => s[h] = st[h]
  OBVIOUS
<1> QED BY <1>1, <1>5, <1>6

(***************************************************************************)
(* Storing several nodes adds their digests; what is then under one of     *)
(* them is one of the nodes.                                               *)
(***************************************************************************)
LEMMA InsertNodesType ==
    ASSUME NEW st \in Stores, NEW nodes \in Seq(Node)
    PROVE  /\ InsertNodes(st, nodes) \in Stores
           /\ DOMAIN InsertNodes(st, nodes) = DOMAIN st \cup {Hash(nodes[i]) : i \in 1..Len(nodes)}
           /\ \A h \in DOMAIN InsertNodes(st, nodes) :
                \/ h \in DOMAIN st /\ InsertNodes(st, nodes)[h] = st[h]
                \/ \E i \in 1..Len(nodes) : Hash(nodes[i]) = h /\ InsertNodes(st, nodes)[h] = nodes[i]
           /\ \A i \in 1..Len(nodes) :
                \E j \in 1..Len(nodes) :
                  /\ Hash(nodes[j]) = Hash(nodes[i])
                  /\ InsertNodes(st, nodes)[Hash(nodes[i])] = nodes[j]
<1> DEFINE N == Len(nodes)
           of(h) == {i \in 1..N : Hash(nodes[i]) = h}
           new == {Hash(nodes[i]) : i \in 1..N}
           Dm == DOMAIN st \cup new
           s == [h \in Dm |-> IF of(h) = {} THEN st[h] ELSE nodes[Max(of(h))]]
<1>1. s = InsertNodes(st, nodes)
  BY DEF InsertNodes
<1>2. N \in Nat /\ \A i \in 1..N : nodes[i] \in Node /\ Hash(nodes[i]) \in Digests
  BY LenProperties, ElementOfSeq, NodeFields
<1>3. Dm \in SUBSET Digests /\ IsFiniteSet(Dm)
  <2>1. IsFiniteSet(new)
    <3>1. IsFiniteSet(1..N)
      BY <1>2, FS_Interval
    <3> DEFINE f == [i \in 1..N |-> Hash(nodes[i])]
    <3>2. f \in Surjection(1..N, new)
      BY DEF Surjection
    <3> QED BY <3>1, <3>2, FS_Surjection
  <2> QED BY <1>2, <2>1, StoreFields, FS_Union
<1>4. ASSUME NEW h \in Dm
      PROVE  \/ of(h) = {} /\ h \in DOMAIN st /\ s[h] = st[h]
             \/ \E i \in 1..N : Hash(nodes[i]) = h /\ s[h] = nodes[i]
  <2>1. CASE of(h) = {}
    BY <2>1
  <2>2. CASE of(h) # {}
    <3> DEFINE S == of(h)
    <3>1. S \in SUBSET (0..N) /\ S # {}
      BY <2>2
    <3> HIDE DEF S
    <3>2. Max(S) \in S
      BY <1>2, <3>1, MaxOf
    <3>3. Max(of(h)) \in of(h)
      BY <3>2 DEF S
    <3> QED BY <2>2, <3>3
  <2> QED BY <2>1, <2>2
<1> HIDE DEF s
<1>5. \A h \in Dm : s[h] \in Node /\ Hash(s[h]) = h
  BY <1>2, <1>4, StoreFields
<1>6. s \in [Dm -> Node] /\ DOMAIN s = Dm
  <2> HIDE DEF Dm
  <2> QED BY <1>5 DEF s
<1>7. s \in Stores
  <2> HIDE DEF Dm, s
  <2> QED BY <1>3, <1>5, <1>6, StoreIs
<1>8. ASSUME NEW i \in 1..N
      PROVE  \E j \in 1..N : Hash(nodes[j]) = Hash(nodes[i]) /\ s[Hash(nodes[i])] = nodes[j]
  <2>1. Hash(nodes[i]) \in Dm /\ of(Hash(nodes[i])) # {}
    OBVIOUS
  <2> QED BY <1>4, <2>1
<1> QED BY <1>1, <1>4, <1>6, <1>7, <1>8

-----------------------------------------------------------------------------
(* Sorting and the next sibling                                            *)

(* The last pair of m has moved to position pos.                           *)
Moved(m, n, pos) ==
    /\ pos \in 1..Len(n.keys)
    /\ Inserts(m.keys, Front(n.keys), pos, Last(n.keys), Keys)
    /\ Inserts(m.vals, Front(n.vals), pos, Last(n.vals), Universe)

(***************************************************************************)
(* The sort keeps the pairs and everything but their order.                *)
(***************************************************************************)
LEMMA SortLastMoves ==
    ASSUME NEW n \in Node
    PROVE  /\ SortLast(n) \in Node
           /\ Len(SortLast(n).keys) = Len(n.keys)
           /\ SortLast(n).leaf = n.leaf /\ SortLast(n).level = n.level
           /\ SortLast(n).split = n.split /\ SortLast(n).merged = n.merged
           /\ n.keys = <<>> => SortLast(n) = n
           /\ n.keys # <<>> =>
                Moved(SortLast(n), n,
                      Cardinality({i \in 1..(Len(n.keys) - 1) : n.keys[i] < Last(n.keys)}) + 1)
<1> DEFINE L == Len(n.keys)
           k == Last(n.keys)
           S == {i \in 1..(L - 1) : n.keys[i] < k}
           pos == Cardinality(S) + 1
           ks == InsertAt(Front(n.keys), pos, k)
           vs == InsertAt(Front(n.vals), pos, Last(n.vals))
           m == [n EXCEPT !.keys = ks, !.vals = vs]
<1>1. CASE n.keys = <<>>
  BY <1>1, NodeFields DEF SortLast
<1>2. CASE n.keys # <<>>
  <2>1. L \in Nat \ {0} /\ n.vals # <<>> /\ Len(n.vals) = L
    <3>1. L \in Nat \ {0} /\ Len(n.vals) = L
      BY <1>2, NodeFields, EmptySeq
    <3> QED BY <3>1, EmptySeq
  <2>2. /\ Front(n.keys) \in Seq(Keys) /\ Len(Front(n.keys)) = L - 1 /\ k \in Keys
        /\ Front(n.vals) \in Seq(Universe) /\ Len(Front(n.vals)) = L - 1 /\ Last(n.vals) \in Universe
    BY <1>2, <2>1, NodeFields, FrontOf
  <2>3. pos \in 1..L
    <3>1. IsFiniteSet(1..(L - 1)) /\ Cardinality(1..(L - 1)) = L - 1
      <4> DEFINE m1 == L - 1
      <4>1. m1 \in Int /\ 1 \in Int /\ m1 >= 0
        BY <2>1
      <4> HIDE DEF m1
      <4>2. IsFiniteSet(1..m1) /\ Cardinality(1..m1) = IF 1 > m1 THEN 0 ELSE m1 - 1 + 1
        BY <4>1, FS_Interval
      <4>3. Cardinality(1..m1) = m1
        BY <4>1, <4>2
      <4> QED BY <4>2, <4>3 DEF m1
    <3>2. S \subseteq 1..(L - 1)
      OBVIOUS
    <3> HIDE DEF S
    <3>3. Cardinality(S) <= L - 1 /\ IsFiniteSet(S)
      BY <3>1, <3>2, FS_Subset
    <3>4. Cardinality(S) \in Nat
      BY <3>3, FS_CardinalityType
    <3> QED BY <2>1, <3>3, <3>4
  <2> HIDE DEF pos
  <2>4. Inserts(ks, Front(n.keys), pos, k, Keys)
    <3>1. pos \in 1..(Len(Front(n.keys)) + 1)
      BY <2>1, <2>2, <2>3
    <3> QED BY <2>2, <3>1, Inserted
  <2>5. Inserts(vs, Front(n.vals), pos, Last(n.vals), Universe)
    <3>1. pos \in 1..(Len(Front(n.vals)) + 1)
      BY <2>1, <2>2, <2>3
    <3> QED BY <2>2, <3>1, Inserted
  <2> HIDE DEF ks, vs
  <2>6. ks \in Seq(Keys) /\ vs \in Seq(Universe) /\ Len(ks) = L /\ Len(vs) = L
    BY <2>1, <2>2, <2>4, <2>5 DEF Inserts
  <2>7. Fields(m, ks, vs, n.leaf, n.level, n.split, n.merged)
    BY <2>6, NodeWith
  <2>8. SortLast(n) = m
    BY <1>2 DEF SortLast, pos, ks, vs
  <2> HIDE DEF m
  <2>9. Moved(m, n, pos)
    BY <2>3, <2>4, <2>5, <2>7 DEF Moved, Fields
  <2> QED BY <1>2, <2>6, <2>7, <2>8, <2>9 DEF Fields, pos
<1> QED BY <1>1, <1>2

(* What Balance finds to the right of n.                                   *)
Neighbour(n, st, parent) == NextSiblingHash(SortLast(n), st, parent) \cap DOMAIN st

NeighbourAt(n, st, p, j) ==
    /\ p \in DOMAIN st /\ n.keys # <<>>
    /\ j \in 1..Len(p[1])
    /\ p[1][j] > Last(n.keys)
    /\ \A i \in 1..(j - 1) : ~(p[1][i] > Last(n.keys))

(***************************************************************************)
(* The next sibling is the child behind the first separator of the stored  *)
(* parent that is greater than the last key.                               *)
(***************************************************************************)
LEMMA SiblingFound ==
    ASSUME NEW n \in Node, NEW st \in Stores, NEW parent
    PROVE  \/ NextSiblingHash(n, st, parent) = {}
           \/ /\ parent # <<>>
              /\ \E j : /\ NeighbourAt(n, st, parent[1], j)
                        /\ NextSiblingHash(n, st, parent) = {parent[1][2][j]}
<1> DEFINE h == parent[1]
           p == st[h]
           after == {i \in 1..Len(p.keys) : p.keys[i] > Last(n.keys)}
<1>1. SUFFICES ASSUME parent # <<>>, n.keys # <<>>, h \in DOMAIN st, after # {}
               PROVE  \E j : /\ NeighbourAt(n, st, h, j)
                             /\ NextSiblingHash(n, st, parent) = {h[2][j]}
  BY DEF NextSiblingHash
<1>2. NextSiblingHash(n, st, parent) = {p.vals[Min(after)]}
  BY <1>1 DEF NextSiblingHash
<1>3. p \in Node /\ p.keys = h[1] /\ p.vals = h[2]
  BY <1>1, StoreFields
<1>4. Len(p.keys) \in Nat /\ p.keys \in Seq(Keys) /\ n.keys \in Seq(Keys)
  BY <1>3, NodeFields
<1>5. after \in SUBSET Nat
  BY <1>4
<1>6. Min(after) \in after /\ \A m \in after : Min(after) <= m
  <2> HIDE DEF after
  <2> QED BY <1>1, <1>5, MinOf
<1> DEFINE j == Min(after)
<1>7. j \in 1..Len(h[1]) /\ h[1][j] > Last(n.keys)
  BY <1>3, <1>6
<1>8. ASSUME NEW i \in 1..(j - 1) PROVE ~(h[1][i] > Last(n.keys))
  <2>1. i \in 1..Len(p.keys) /\ ~(j <= i)
    BY <1>3, <1>4, <1>7
  <2>2. i \notin after
    BY <1>6, <2>1
  <2> QED BY <1>3, <2>1, <2>2
<1>9. NeighbourAt(n, st, h, j)
  BY <1>1, <1>7, <1>8 DEF NeighbourAt
<1> QED BY <1>2, <1>3, <1>9

(***************************************************************************)
(* The node that has taken in a sibling has its pairs behind its own and   *)
(* is marked as merged.                                                    *)
(***************************************************************************)
LEMMA TakeNextSiblingType ==
    ASSUME NEW n \in Node, NEW st \in Stores, NEW h \in DOMAIN st
    PROVE  /\ TakeNextSibling(n, st, {}) = n
           /\ Fields(TakeNextSibling(n, st, {h}), n.keys \o h[1], n.vals \o h[2],
                     n.leaf, n.level, n.split, TRUE)
           /\ Joins(n.keys \o h[1], n.keys, h[1], Keys)
           /\ Joins(n.vals \o h[2], n.vals, h[2], Universe)
<1> DEFINE s == GetNode(st, h)
           ks == n.keys \o s.keys
           vs == n.vals \o s.vals
           m == [n EXCEPT !.keys = ks, !.vals = vs]
           r == [m EXCEPT !.merged = TRUE]
<1>1. s \in Node /\ s.keys = h[1] /\ s.vals = h[2]
  BY StoreFields
<1>2. TakeNextSibling(n, st, {h}) = [n EXCEPT !.keys = @ \o s.keys, !.vals = @ \o s.vals, !.merged = TRUE]
  <2>1. (CHOOSE x \in {h} : TRUE) = h
    OBVIOUS
  <2> QED BY <2>1 DEF TakeNextSibling, MergeWithNextSibling
<1>3. DOMAIN n = {"keys", "vals", "leaf", "level", "split", "merged"}
  BY NodeFields
<1>4. TakeNextSibling(n, st, {h}) = r
  BY <1>2, <1>3
<1> HIDE DEF s
<1>5. Joins(ks, n.keys, s.keys, Keys) /\ Joins(vs, n.vals, s.vals, Universe)
  BY <1>1, NodeFields, Joined
<1> HIDE DEF ks, vs
<1>6. ks \in Seq(Keys) /\ vs \in Seq(Universe) /\ Len(ks) = Len(vs)
  BY <1>1, <1>5, NodeFields DEF Joins
<1>7. Fields(m, ks, vs, n.leaf, n.level, n.split, n.merged)
  BY <1>6, NodeWith
<1> HIDE DEF m
<1>8. Fields(r, m.keys, m.vals, m.leaf, m.level, m.split, TRUE)
  BY <1>7, NodeSet DEF Fields
<1>9. Fields(r, ks, vs, n.leaf, n.level, n.split, TRUE)
  BY <1>7, <1>8 DEF Fields
<1> QED BY <1>1, <1>4, <1>5, <1>9 DEF TakeNextSibling, ks, vs

-----------------------------------------------------------------------------
(* Cutting and balancing                                                   *)

PieceAt(p, n, s, e) ==
    /\ p \in Node
    /\ s \in Nat /\ e \in (s + 1)..Len(n.keys)
    /\ Len(p.keys) = e - s
    /\ \A j \in 1..(e - s) : p.keys[j] = n.keys[s + j] /\ p.vals[j] = n.vals[s + j]
    /\ p.leaf = n.leaf /\ p.level = n.level /\ p.split = n.split /\ p.merged = n.merged

(***************************************************************************)
(* The pieces of a node are nodes of its kind, none of them empty.         *)
(***************************************************************************)
LEMMA PiecesOf ==
    ASSUME NEW n \in Node, NEW ends \in Cuts(n)
    PROVE  /\ Pieces(n, ends) \in Seq(Node)
           /\ Len(ends) \in Nat /\ Len(Pieces(n, ends)) = Len(ends)
           /\ \A i \in 1..Len(ends) : PieceAt(Pieces(n, ends)[i], n, Start(ends, i), ends[i])
<1> DEFINE N == Len(ends)
           from(i) == IF i = 1 THEN 1 ELSE ends[i-1] + 1
           piece(i) == [n EXCEPT !.keys = SubSeq(@, from(i), ends[i]),
                                 !.vals = SubSeq(@, from(i), ends[i])]
           pieces == [i \in 1..N |-> piece(i)]
<1>1. Pieces(n, ends) = pieces
  BY DEF Pieces
<1>2. ends \in Seq(Nat) /\ N \in Nat /\ \A i \in 1..N : ends[i] \in (Start(ends, i) + 1)..Len(n.keys)
  BY LenProperties DEF Cuts
<1>3. ASSUME NEW i \in 1..N PROVE PieceAt(piece(i), n, Start(ends, i), ends[i])
  <2> DEFINE s == Start(ends, i)
             e == ends[i]
             ks == SubSeq(n.keys, s + 1, e)
             vs == SubSeq(n.vals, s + 1, e)
             p == [n EXCEPT !.keys = ks, !.vals = vs]
  <2>1. s \in Nat /\ from(i) = s + 1
    <3>1. CASE i = 1
      BY <3>1 DEF Start
    <3>2. CASE i # 1
      <4>1. i - 1 \in 1..N
        BY <1>2, <3>2
      <4>2. ends[i - 1] \in Nat
        BY <1>2, <4>1
      <4> QED BY <3>2, <4>2 DEF Start
    <3> QED BY <3>1, <3>2
  <2>2. piece(i) = p
    <3>1. DOMAIN n = {"keys", "vals", "leaf", "level", "split", "merged"}
      BY NodeFields
    <3> QED BY <2>1, <3>1
  <2>3. e \in (s + 1)..Len(n.keys) /\ e \in Nat /\ Len(n.keys) \in Nat
    BY <1>2, <2>1, NodeFields
  <2> HIDE DEF s, e, piece
  <2>4. /\ ks \in Seq(Keys) /\ Len(ks) = e - s
        /\ \A j \in 1..(e - s) : ks[j] = n.keys[s + j]
    <3>1. n.keys \in Seq(Keys) /\ s + 1 \in 1..(Len(n.keys) + 1) /\ e \in 0..Len(n.keys)
      BY <2>1, <2>3, NodeFields
    <3>2. /\ ks \in Seq(Keys)
          /\ Len(ks) = IF s + 1 <= e THEN e - (s + 1) + 1 ELSE 0
          /\ \A j \in 1..(e - (s + 1) + 1) : ks[j] = n.keys[(s + 1) + j - 1]
      BY <3>1, PartOf
    <3> HIDE DEF ks
    <3>3. Len(ks) = e - s
      BY <2>1, <2>3, <3>2
    <3>4. ASSUME NEW j \in 1..(e - s) PROVE ks[j] = n.keys[s + j]
      <4>1. j \in 1..(e - (s + 1) + 1) /\ (s + 1) + j - 1 = s + j
        BY <2>1, <2>3
      <4>2. ks[j] = n.keys[(s + 1) + j - 1]
        BY <3>2, <4>1
      <4> QED BY <4>1, <4>2
    <3> QED BY <3>2, <3>3, <3>4
  <2>5. /\ vs \in Seq(Universe) /\ Len(vs) = e - s
        /\ \A j \in 1..(e - s) : vs[j] = n.vals[s + j]
    <3>1. n.vals \in Seq(Universe) /\ s + 1 \in 1..(Len(n.vals) + 1) /\ e \in 0..Len(n.vals)
      BY <2>1, <2>3, NodeFields
    <3>2. /\ vs \in Seq(Universe)
          /\ Len(vs) = IF s + 1 <= e THEN e - (s + 1) + 1 ELSE 0
          /\ \A j \in 1..(e - (s + 1) + 1) : vs[j] = n.vals[(s + 1) + j - 1]
      BY <3>1, PartOf
    <3> HIDE DEF vs
    <3> QED BY <2>1, <2>3, <3>2
  <2> HIDE DEF ks, vs
  <2>6. Fields(p, ks, vs, n.leaf, n.level, n.split, n.merged)
    BY <2>4, <2>5, NodeWith
  <2> HIDE DEF p
  <2>7. PieceAt(p, n, s, e)
    BY <2>1, <2>3, <2>4, <2>5, <2>6 DEF Fields, PieceAt
  <2> QED BY <2>2, <2>7 DEF s, e
<1> HIDE DEF piece
<1>4. pieces \in Seq(Node) /\ Len(pieces) = N
  <2>1. \A i \in 1..N : piece(i) \in Node
    BY <1>3 DEF PieceAt
  <2> HIDE DEF N
  <2>2. pieces \in [1..N -> Node]
    BY <2>1
  <2>3. DOMAIN pieces = 1..N
    OBVIOUS
  <2> QED BY <1>2, <2>2, <2>3, SeqDef, LenProperties
<1> QED BY <1>1, <1>2, <1>3, <1>4

FirstKeys(pieces) == [i \in 1..Len(pieces) |-> pieces[i].keys[1]]
HashesOf(pieces) == [i \in 1..Len(pieces) |-> Hash(pieces[i])]

(***************************************************************************)
(* The node over the pieces is a node.                                     *)
(***************************************************************************)
LEMMA OverPieces ==
    ASSUME NEW n \in Node, NEW pieces \in Seq(Node), \A i \in 1..Len(pieces) : Len(pieces[i].keys) > 0
    PROVE  /\ FirstKeys(pieces) \in Seq(Keys) /\ HashesOf(pieces) \in Seq(Digests)
           /\ HashesOf(pieces) \in Seq(Universe)
           /\ Len(FirstKeys(pieces)) = Len(pieces) /\ Len(HashesOf(pieces)) = Len(pieces)
           /\ Fields(Over(n, pieces), FirstKeys(pieces), HashesOf(pieces), FALSE,
                     n.level, n.split, n.merged)
<1> DEFINE N == Len(pieces)
           ks == FirstKeys(pieces)
           vs == HashesOf(pieces)
           m == [n EXCEPT !.keys = ks, !.vals = vs]
           r == [m EXCEPT !.leaf = FALSE]
<1>1. N \in Nat /\ \A i \in 1..N : pieces[i] \in Node
  BY LenProperties, ElementOfSeq
<1>2. ASSUME NEW i \in 1..N PROVE pieces[i].keys[1] \in Keys /\ Hash(pieces[i]) \in Digests
  <2>1. pieces[i].keys \in Seq(Keys) /\ 1 \in 1..Len(pieces[i].keys) /\ Hash(pieces[i]) \in Digests
    BY <1>1, NodeFields
  <2> QED BY <2>1, ElementOfSeq
<1>3. ks \in [1..N -> Keys] /\ vs \in [1..N -> Digests] /\ DOMAIN ks = 1..N /\ DOMAIN vs = 1..N
  BY <1>2 DEF FirstKeys, HashesOf
<1> HIDE DEF ks, vs
<1>4. ks \in Seq(Keys) /\ vs \in Seq(Digests)
  BY <1>1, <1>3, SeqDef
<1>5. Len(ks) = N /\ Len(vs) = N
  BY <1>1, <1>3, <1>4, LenProperties
<1>6. vs \in Seq(Universe)
  BY <1>4, UniverseClosed, SeqMonotonic
<1>7. Fields(m, ks, vs, n.leaf, n.level, n.split, n.merged)
  BY <1>4, <1>5, <1>6, NodeWith
<1>8. Over(n, pieces) = r
  <2>1. DOMAIN n = {"keys", "vals", "leaf", "level", "split", "merged"}
    BY NodeFields
  <2> QED BY <2>1 DEF Over, ks, vs, FirstKeys, HashesOf
<1> HIDE DEF m
<1>9. Fields(r, m.keys, m.vals, FALSE, m.level, m.split, m.merged)
  BY <1>7, NodeSet DEF Fields
<1> HIDE DEF r
<1>10. Fields(r, ks, vs, FALSE, n.level, n.split, n.merged)
  BY <1>7, <1>9 DEF Fields
<1> QED BY <1>4, <1>5, <1>6, <1>8, <1>10 DEF ks, vs

(* The three ways a node leaves Cut.                                       *)
Whole(r, n, st) == r = [node |-> n, st |-> st]

RootSplit(r, n, st, pieces) ==
    /\ Fields(r.node, FirstKeys(pieces), HashesOf(pieces), FALSE, n.level + 1, n.split, n.merged)
    /\ \E e : /\ Fields(e, <<>>, <<>>, n.leaf, n.level, n.split, n.merged)
              /\ r.st = InsertNode(InsertNodes(st, pieces), e)

ListSplit(r, n, st, pieces) ==
    /\ Fields(r.node, FirstKeys(pieces), HashesOf(pieces), FALSE, n.level, TRUE, n.merged)
    /\ r.st = InsertNode(InsertNodes(st, pieces), r.node)

(***************************************************************************)
(* A balanced node is whole, or a root over its pieces, or the list of its *)
(* pieces.                                                                 *)
(***************************************************************************)
LEMMA CutCases ==
    ASSUME NEW n \in Node, NEW st \in Stores, NEW parent
    PROVE  LET r == Cut(n, st, parent)
               ends == ChunkContent(n)
               pieces == Pieces(n, ends)
           IN  /\ ends \in Cuts(n)
               /\ \/ Len(ends) <= 1 /\ Whole(r, n, st)
                  \/ Len(ends) > 1 /\ parent = <<>> /\ RootSplit(r, n, st, pieces)
                  \/ Len(ends) > 1 /\ parent # <<>> /\ ListSplit(r, n, st, pieces)
<1> DEFINE r == Cut(n, st, parent)
           ends == ChunkContent(n)
           pieces == Pieces(n, ends)
<1>1. ends \in Cuts(n)
  BY NodeFields, ChunkEnds
<1>2. r = SplitNode(n, pieces, st, parent)
  BY DEF Cut
<1> HIDE DEF ends
<1>3. /\ pieces \in Seq(Node) /\ Len(ends) \in Nat /\ Len(pieces) = Len(ends)
      /\ \A i \in 1..Len(ends) : PieceAt(pieces[i], n, Start(ends, i), ends[i])
  BY <1>1, PiecesOf
<1>4. \A i \in 1..Len(pieces) : Len(pieces[i].keys) > 0
  BY <1>3 DEF PieceAt
<1> HIDE DEF pieces, r
<1>5. CASE Len(ends) <= 1
  <2>1. Whole(r, n, st)
    BY <1>2, <1>3, <1>5 DEF SplitNode, Whole
  <2> QED BY <1>1, <1>5, <2>1 DEF r, ends, pieces
<1> DEFINE o == Over(n, pieces)
<1>6. Fields(o, FirstKeys(pieces), HashesOf(pieces), FALSE, n.level, n.split, n.merged)
  BY <1>3, <1>4, OverPieces
<1>7. o \in Node /\ n.level + 1 \in Nat
  BY <1>6, NodeFields DEF Fields
<1>8. CASE Len(ends) > 1 /\ parent = <<>>
  <2> DEFINE e == [n EXCEPT !.keys = <<>>, !.vals = <<>>]
             top == [o EXCEPT !.level = n.level + 1]
  <2>1. Fields(e, <<>>, <<>>, n.leaf, n.level, n.split, n.merged)
    <3>1. <<>> \in Seq(Keys) /\ <<>> \in Seq(Universe) /\ Len(<<>>) = Len(<<>>)
      OBVIOUS
    <3> QED BY <3>1, NodeWith
  <2>2. Fields(top, o.keys, o.vals, o.leaf, n.level + 1, o.split, o.merged)
    BY <1>7, NodeSet
  <2>3. Fields(top, FirstKeys(pieces), HashesOf(pieces), FALSE, n.level + 1, n.split, n.merged)
    BY <1>6, <2>2 DEF Fields
  <2>4. r = [node |-> top, st |-> InsertNode(InsertNodes(st, pieces), e)]
    BY <1>2, <1>3, <1>8 DEF SplitNode, SplitRoot
  <2> HIDE DEF top, e
  <2>5. RootSplit(r, n, st, pieces)
    BY <2>1, <2>3, <2>4 DEF RootSplit
  <2> QED BY <1>1, <1>8, <2>5 DEF r, ends, pieces
<1>9. CASE Len(ends) > 1 /\ parent # <<>>
  <2> DEFINE list == [o EXCEPT !.split = TRUE]
  <2>1. Fields(list, o.keys, o.vals, o.leaf, o.level, TRUE, o.merged)
    BY <1>7, NodeSet
  <2>2. Fields(list, FirstKeys(pieces), HashesOf(pieces), FALSE, n.level, TRUE, n.merged)
    BY <1>6, <2>1 DEF Fields
  <2>3. r = [node |-> list, st |-> InsertNode(InsertNodes(st, pieces), list)]
    BY <1>2, <1>3, <1>9 DEF SplitNode, ListOfPieces
  <2> HIDE DEF list
  <2>4. ListSplit(r, n, st, pieces)
    BY <2>2, <2>3 DEF ListSplit
  <2> QED BY <1>1, <1>9, <2>4 DEF r, ends, pieces
<1> QED BY <1>3, <1>5, <1>8, <1>9

(***************************************************************************)
(* Cutting gives a node and a storage that has lost nothing.               *)
(***************************************************************************)
LEMMA CutType ==
    ASSUME NEW n \in Node, NEW st \in Stores, NEW parent
    PROVE  /\ Cut(n, st, parent).node \in Node
           /\ Cut(n, st, parent).st \in Stores
           /\ DOMAIN st \subseteq DOMAIN Cut(n, st, parent).st
<1> DEFINE r == Cut(n, st, parent)
           ends == ChunkContent(n)
           pieces == Pieces(n, ends)
<1>1. /\ ends \in Cuts(n)
      /\ \/ Whole(r, n, st)
         \/ RootSplit(r, n, st, pieces)
         \/ ListSplit(r, n, st, pieces)
  BY CutCases
<1>2. pieces \in Seq(Node)
  BY <1>1, PiecesOf
<1> HIDE DEF r, ends, pieces
<1> DEFINE s == InsertNodes(st, pieces)
<1>3. s \in Stores /\ DOMAIN st \subseteq DOMAIN s
  BY <1>2, InsertNodesType
<1> HIDE DEF s
<1>4. CASE Whole(r, n, st)
  BY <1>4 DEF Whole, r
<1>5. CASE RootSplit(r, n, st, pieces)
  <2>1. PICK e \in Node : r.st = InsertNode(s, e)
    BY <1>5 DEF RootSplit, Fields, s
  <2>2. r.node \in Node
    BY <1>5 DEF RootSplit, Fields
  <2>3. r.st \in Stores /\ DOMAIN s \subseteq DOMAIN r.st
    <3>1. InsertNode(s, e) \in Stores /\ DOMAIN InsertNode(s, e) = DOMAIN s \cup {Hash(e)}
      BY <1>3, InsertNodeType
    <3> QED BY <2>1, <3>1
  <2> QED BY <1>3, <2>2, <2>3 DEF r
<1>6. CASE ListSplit(r, n, st, pieces)
  <2>1. r.node \in Node /\ r.st = InsertNode(s, r.node)
    BY <1>6 DEF ListSplit, Fields, s
  <2>2. r.st \in Stores /\ DOMAIN s \subseteq DOMAIN r.st
    <3> DEFINE m == r.node
    <3>0. m \in Node /\ r.st = InsertNode(s, m)
      BY <2>1
    <3> HIDE DEF m
    <3>1. InsertNode(s, m) \in Stores /\ DOMAIN InsertNode(s, m) = DOMAIN s \cup {Hash(m)}
      BY <1>3, <3>0, InsertNodeType
    <3> QED BY <3>0, <3>1
  <2> QED BY <1>3, <2>1, <2>2 DEF r
<1> QED BY <1>1, <1>4, <1>5, <1>6

(***************************************************************************)
(* So does balancing; the sibling taken in was stored.                     *)
(***************************************************************************)
LEMMA BalanceType ==
    ASSUME NEW n \in Node, NEW st \in Stores, NEW parent
    PROVE  /\ Balance(n, st, parent).node \in Node
           /\ Balance(n, st, parent).st \in Stores
           /\ DOMAIN st \subseteq DOMAIN Balance(n, st, parent).st
           /\ Balance(n, st, parent).joined \in SUBSET Digests
           /\ \E m \in Node : /\ Balance(n, st, parent).node = Cut(m, st, parent).node
                              /\ Balance(n, st, parent).st = Cut(m, st, parent).st
<1> DEFINE sorted == SortLast(n)
           found == NextSiblingHash(sorted, st, parent) \cap DOMAIN st
           m == TakeNextSibling(sorted, st, found)
           cut == Cut(m, st, parent)
<1>1. sorted \in Node
  BY SortLastMoves
<1>2. Balance(n, st, parent) = [node |-> cut.node, st |-> cut.st, joined |-> found]
  BY DEF Balance
<1> HIDE DEF sorted, cut
<1>3. found = {} \/ \E h \in DOMAIN st : found = {h}
  BY <1>1, SiblingFound
<1>4. m \in Node
  <2> HIDE DEF found
  <2>1. CASE found = {}
    <3>1. m = sorted
      BY <2>1 DEF TakeNextSibling
    <3> QED BY <1>1, <3>1
  <2>2. CASE \E h \in DOMAIN st : found = {h}
    <3>1. PICK h \in DOMAIN st : found = {h}
      BY <2>2
    <3>2. TakeNextSibling(sorted, st, {h}) \in Node
      BY <1>1, TakeNextSiblingType DEF Fields
    <3> QED BY <3>1, <3>2
  <2> QED BY <1>3, <2>1, <2>2
<1>5. found \in SUBSET Digests
  BY StoreFields
<1> HIDE DEF found, m
<1>6. cut.node \in Node /\ cut.st \in Stores /\ DOMAIN st \subseteq DOMAIN cut.st
  BY <1>4, CutType DEF cut
<1> QED BY <1>2, <1>4, <1>5, <1>6 DEF cut

-----------------------------------------------------------------------------
(* The steps of an insert and a delete at one node                         *)

(***************************************************************************)
(* The child of a key is the last whose separator is not greater, or the   *)
(* first.                                                                  *)
(***************************************************************************)
LEMMA ChildIndexType ==
    ASSUME NEW n \in Node, NEW key \in Keys
    PROVE  /\ ChildIndex(n, key) \in Nat \ {0}
           /\ n.vals # <<>> => /\ ChildIndex(n, key) \in 1..Len(n.keys)
                               /\ ChildIndex(n, key) \in 1..Len(n.vals)
                               /\ n.vals[ChildIndex(n, key)] \in Universe
           /\ ChildIndex(n, key) = 1 \/ n.keys[ChildIndex(n, key)] <= key
           /\ \A j \in 1..Len(n.keys) : j > ChildIndex(n, key) => n.keys[j] > key
<1> DEFINE below == {i \in 1..Len(n.keys) : n.keys[i] <= key}
           c == ChildIndex(n, key)
<1>1. /\ Len(n.keys) \in Nat /\ Len(n.vals) = Len(n.keys) /\ n.vals \in Seq(Universe)
      /\ key \in Nat /\ \A i \in 1..Len(n.keys) : n.keys[i] \in Nat
  BY NodeFields, ElementOfSeq, TreeAssumption
<1>2. c = IF below = {} THEN 1 ELSE Max(below)
  BY DEF ChildIndex
<1>3. below = {} \/ (Max(below) \in below /\ \A m \in below : Max(below) >= m)
  <2>1. below \in SUBSET (0..Len(n.keys))
    OBVIOUS
  <2> HIDE DEF below
  <2> QED BY <1>1, <2>1, MaxOf
<1> HIDE DEF c
<1>4. c \in Nat \ {0} /\ (c = 1 \/ n.keys[c] <= key) /\ (below = {} \/ c \in 1..Len(n.keys))
  BY <1>1, <1>2, <1>3
<1>5. ASSUME NEW j \in 1..Len(n.keys), j > c PROVE n.keys[j] > key
  <2>1. j \notin below
    <3> SUFFICES ASSUME j \in below PROVE FALSE
      OBVIOUS
    <3> HIDE DEF below
    <3>1. c >= j
      BY <1>2, <1>3
    <3> QED BY <1>4, <1>5, <3>1
  <2>2. ~(n.keys[j] <= key)
    BY <2>1
  <2>3. n.keys[j] \in Nat /\ key \in Nat
    BY <1>1
  <2> HIDE DEF below
  <2> QED BY <2>2, <2>3
<1>6. ASSUME n.vals # <<>> PROVE c \in 1..Len(n.keys) /\ c \in 1..Len(n.vals) /\ n.vals[c] \in Universe
  <2>1. Len(n.keys) # 0
    BY <1>1, <1>6, EmptySeq
  <2>2. c \in 1..Len(n.keys) /\ c \in 1..Len(n.vals)
    BY <1>1, <1>2, <1>4, <2>1
  <2> QED BY <1>1, <2>2, ElementOfSeq
<1> QED BY <1>4, <1>5, <1>6 DEF c

Overwrites(m, n, i, val) ==
    /\ m.keys = n.keys /\ i \in 1..Len(n.keys)
    /\ Len(m.vals) = Len(n.vals) /\ m.vals[i] = val
    /\ \A j \in 1..Len(n.vals) : j # i => m.vals[j] = n.vals[j]

Appends(m, n, key, val) ==
    /\ m.keys = Append(n.keys, key) /\ m.vals = Append(n.vals, val)

SameKind(m, n) ==
    /\ m.leaf = n.leaf /\ m.level = n.level /\ m.split = n.split /\ m.merged = n.merged

(***************************************************************************)
(* The length and the elements after one has been overwritten.             *)
(***************************************************************************)
LEMMA Overwritten ==
    ASSUME NEW S, NEW s \in Seq(S), NEW i \in 1..Len(s), NEW v \in S
    PROVE  /\ [s EXCEPT ![i] = v] \in Seq(S)
           /\ Len([s EXCEPT ![i] = v]) = Len(s)
           /\ [s EXCEPT ![i] = v][i] = v
           /\ \A j \in 1..Len(s) : j # i => [s EXCEPT ![i] = v][j] = s[j]
<1> DEFINE t == [s EXCEPT ![i] = v]
           L == Len(s)
<1>1. L \in Nat /\ s \in [1..L -> S] /\ i \in 1..L
  BY LenProperties
<1> HIDE DEF L
<1>2. t \in [1..L -> S] /\ DOMAIN t = 1..L /\ t[i] = v /\ \A j \in 1..L : j # i => t[j] = s[j]
  BY <1>1
<1> HIDE DEF t
<1>3. t \in Seq(S)
  BY <1>1, <1>2, SeqDef
<1>4. Len(t) = L
  BY <1>1, <1>2, <1>3, LenProperties
<1> QED BY <1>2, <1>3, <1>4 DEF t, L

(***************************************************************************)
(* A leaf in which a pair has been put: overwritten, or appended.          *)
(***************************************************************************)
LEMMA PutInLeafType ==
    ASSUME NEW n \in Node, NEW key \in Keys, NEW val \in Universe
    PROVE  /\ PutInLeaf(n, key, val) \in Node
           /\ SameKind(PutInLeaf(n, key, val), n)
           /\ \/ /\ \A i \in 1..Len(n.keys) : n.keys[i] # key
                 /\ Appends(PutInLeaf(n, key, val), n, key, val)
              \/ \E i : /\ n.keys[i] = key /\ \A j \in 1..(i - 1) : n.keys[j] # key
                        /\ Overwrites(PutInLeaf(n, key, val), n, i, val)
<1> DEFINE at == {i \in 1..Len(n.keys) : n.keys[i] = key}
           r == PutInLeaf(n, key, val)
<1>1. /\ n.keys \in Seq(Keys) /\ n.vals \in Seq(Universe)
      /\ Len(n.keys) \in Nat /\ Len(n.vals) = Len(n.keys)
      /\ DOMAIN n = {"keys", "vals", "leaf", "level", "split", "merged"}
  BY NodeFields
<1>2. CASE at = {}
  <2> DEFINE ks == Append(n.keys, key)
             vs == Append(n.vals, val)
             m == [n EXCEPT !.keys = ks, !.vals = vs]
  <2>1. r = m
    BY <1>2 DEF PutInLeaf
  <2>2. ks \in Seq(Keys) /\ vs \in Seq(Universe) /\ Len(ks) = Len(vs)
    BY <1>1, AppendProperties
  <2> HIDE DEF ks, vs
  <2>3. Fields(m, ks, vs, n.leaf, n.level, n.split, n.merged)
    BY <2>2, NodeWith
  <2>4. \A i \in 1..Len(n.keys) : n.keys[i] # key
    BY <1>2
  <2> HIDE DEF m, r
  <2>5. SameKind(r, n) /\ r \in Node /\ r.keys = ks /\ r.vals = vs
    BY <2>1, <2>3 DEF Fields, SameKind
  <2>6. Appends(r, n, key, val)
    BY <2>5 DEF Appends, ks, vs
  <2> QED BY <2>4, <2>5, <2>6 DEF r
<1>3. CASE at # {}
  <2> DEFINE i == Min(at)
             vs == [n.vals EXCEPT ![i] = val]
             m == [n EXCEPT !.keys = n.keys, !.vals = vs]
  <2>1. i \in at /\ \A j \in at : i <= j
    <3>1. at \in SUBSET Nat
      OBVIOUS
    <3> HIDE DEF at
    <3> QED BY <1>3, <3>1, MinOf
  <2>2. i \in 1..Len(n.keys) /\ n.keys[i] = key /\ i \in 1..Len(n.vals)
    BY <1>1, <2>1
  <2>3. \A j \in 1..(i - 1) : n.keys[j] # key
    <3> SUFFICES ASSUME NEW j \in 1..(i - 1), n.keys[j] = key PROVE FALSE
      OBVIOUS
    <3>1. j \in 1..Len(n.keys) /\ ~(i <= j)
      BY <1>1, <2>2
    <3> QED BY <2>1, <3>1
  <2>4. r = m
    BY <1>1, <1>3 DEF PutInLeaf
  <2> HIDE DEF i
  <2>5. /\ vs \in Seq(Universe) /\ Len(vs) = Len(n.vals) /\ vs[i] = val
        /\ \A j \in 1..Len(n.vals) : j # i => vs[j] = n.vals[j]
    BY <1>1, <2>2, Overwritten
  <2> HIDE DEF vs
  <2>6. Fields(m, n.keys, vs, n.leaf, n.level, n.split, n.merged)
    BY <1>1, <2>5, NodeWith
  <2> HIDE DEF m, r
  <2>7. SameKind(r, n) /\ r \in Node /\ r.keys = n.keys /\ r.vals = vs
    BY <2>4, <2>6 DEF Fields, SameKind
  <2>8. Overwrites(r, n, i, val)
    BY <2>2, <2>5, <2>7 DEF Overwrites
  <2> QED BY <2>2, <2>3, <2>7, <2>8 DEF r
<1> QED BY <1>2, <1>3

PairRemoved(m, n, i) ==
    /\ i \in 1..Len(n.keys)
    /\ Removes(m.keys, n.keys, i, Keys)
    /\ Removes(m.vals, n.vals, i, Universe)

(***************************************************************************)
(* A node without its i-th pair.                                           *)
(***************************************************************************)
LEMMA RemovePairType ==
    ASSUME NEW n \in Node, NEW i \in 1..Len(n.keys)
    PROVE  /\ RemovePair(n, i) \in Node
           /\ SameKind(RemovePair(n, i), n)
           /\ PairRemoved(RemovePair(n, i), n, i)
<1> DEFINE ks == RemoveAt(n.keys, i)
           vs == RemoveAt(n.vals, i)
           m == [n EXCEPT !.keys = ks, !.vals = vs]
           r == RemovePair(n, i)
<1>1. /\ n.keys \in Seq(Keys) /\ n.vals \in Seq(Universe)
      /\ Len(n.keys) \in Nat /\ Len(n.vals) = Len(n.keys)
      /\ DOMAIN n = {"keys", "vals", "leaf", "level", "split", "merged"}
  BY NodeFields
<1>2. r = m
  BY <1>1 DEF RemovePair
<1>3. Removes(ks, n.keys, i, Keys)
  BY <1>1, Removed
<1>4. Removes(vs, n.vals, i, Universe)
  <2>1. i \in 1..Len(n.vals)
    BY <1>1
  <2> QED BY <1>1, <2>1, Removed
<1> HIDE DEF ks, vs
<1>5. ks \in Seq(Keys) /\ vs \in Seq(Universe) /\ Len(ks) = Len(vs)
  BY <1>1, <1>3, <1>4 DEF Removes
<1>6. Fields(m, ks, vs, n.leaf, n.level, n.split, n.merged)
  BY <1>5, NodeWith
<1> HIDE DEF m, r
<1>7. SameKind(r, n) /\ r \in Node /\ r.keys = ks /\ r.vals = vs
  BY <1>2, <1>6 DEF Fields, SameKind
<1>8. PairRemoved(r, n, i)
  BY <1>3, <1>4, <1>7 DEF PairRemoved
<1> QED BY <1>7, <1>8 DEF r

(* What is left of the parent once the pair after child i is dropped.      *)
Rest(n, i, child) == IF Dropped(n, i, child) = {} THEN n ELSE RemovePair(n, i + 1)

(***************************************************************************)
(* A node without the pair that child i has swallowed.                     *)
(***************************************************************************)
LEMMA RestType ==
    ASSUME NEW n \in Node, NEW i \in 1..Len(n.keys), NEW child
    PROVE  /\ Rest(n, i, child) \in Node
           /\ SameKind(Rest(n, i, child), n)
           /\ i \in 1..Len(Rest(n, i, child).keys)
           /\ \/ Dropped(n, i, child) = {} /\ Rest(n, i, child) = n
              \/ /\ Dropped(n, i, child) = {n.vals[i + 1]}
                 /\ i + 1 \in 1..Len(n.keys)
                 /\ PairRemoved(Rest(n, i, child), n, i + 1)
<1>1. Len(n.keys) \in Nat
  BY NodeFields
<1>2. CASE Dropped(n, i, child) = {}
  BY <1>2 DEF Rest, SameKind
<1>3. CASE Dropped(n, i, child) # {}
  <2>1. i + 1 \in 1..Len(n.keys) /\ Dropped(n, i, child) = {n.vals[i + 1]}
    BY <1>1, <1>3 DEF Dropped
  <2> DEFINE m == Rest(n, i, child)
  <2>2. m = RemovePair(n, i + 1)
    BY <1>3 DEF Rest
  <2> HIDE DEF m
  <2>3. m \in Node /\ SameKind(m, n) /\ PairRemoved(m, n, i + 1)
    BY <2>1, <2>2, RemovePairType
  <2>4. i \in 1..Len(m.keys)
    <3>1. Len(m.keys) = Len(n.keys) - 1
      BY <2>3 DEF PairRemoved, Removes
    <3> QED BY <1>1, <2>1, <3>1
  <2> QED BY <2>1, <2>3, <2>4 DEF m
<1> QED BY <1>2, <1>3

Spliced2(r, m, i, child) ==
    /\ Splices(r.keys, m.keys, i, child.keys, Keys)
    /\ Splices(r.vals, m.vals, i, child.vals, Universe)

Renewed(r, m, i, child) ==
    /\ r.keys = m.keys
    /\ Len(r.vals) = Len(m.vals) /\ r.vals[i] = Hash(child)
    /\ \A j \in 1..Len(m.vals) : j # i => r.vals[j] = m.vals[j]

(***************************************************************************)
(* A node in which child i has been replaced by its pieces or by its new   *)
(* digest.                                                                 *)
(***************************************************************************)
LEMMA ReplaceChildType ==
    ASSUME NEW n \in Node, NEW i \in 1..Len(n.keys), NEW child \in Node
    PROVE  /\ ReplaceChild(n, i, child) \in Node
           /\ SameKind(ReplaceChild(n, i, child), n)
           /\ \/ child.split /\ Spliced2(ReplaceChild(n, i, child), Rest(n, i, child), i, child)
              \/ ~child.split /\ Renewed(ReplaceChild(n, i, child), Rest(n, i, child), i, child)
<1> DEFINE m == Rest(n, i, child)
           r == ReplaceChild(n, i, child)
<1>1. m \in Node /\ i \in 1..Len(m.keys) /\ SameKind(m, n)
  BY RestType
<1>2. /\ r = IF child.split
             THEN [m EXCEPT !.keys = SubSeq(@, 1, i - 1) \o child.keys \o SubSeq(@, i + 1, Len(@)),
                            !.vals = SubSeq(@, 1, i - 1) \o child.vals \o SubSeq(@, i + 1, Len(@))]
             ELSE [m EXCEPT !.vals[i] = Hash(child)]
  BY DEF ReplaceChild, Rest
<1> HIDE DEF m, r
<1>3. /\ m.keys \in Seq(Keys) /\ m.vals \in Seq(Universe)
      /\ Len(m.keys) \in Nat /\ Len(m.vals) = Len(m.keys)
      /\ DOMAIN m = {"keys", "vals", "leaf", "level", "split", "merged"}
  BY <1>1, NodeFields
<1>4. /\ child.keys \in Seq(Keys) /\ child.vals \in Seq(Universe) /\ Hash(child) \in Universe
      /\ Len(child.keys) \in Nat /\ Len(child.vals) = Len(child.keys)
  BY NodeFields
<1>5. CASE child.split
  <2> DEFINE ks == SubSeq(m.keys, 1, i - 1) \o child.keys \o SubSeq(m.keys, i + 1, Len(m.keys))
             vs == SubSeq(m.vals, 1, i - 1) \o child.vals \o SubSeq(m.vals, i + 1, Len(m.vals))
             p == [m EXCEPT !.keys = ks, !.vals = vs]
  <2>1. r = p
    BY <1>2, <1>3, <1>5
  <2>2. Splices(ks, m.keys, i, child.keys, Keys)
    BY <1>1, <1>3, <1>4, Spliced
  <2>3. Splices(vs, m.vals, i, child.vals, Universe)
    <3>1. i \in 1..Len(m.vals)
      BY <1>1, <1>3
    <3> QED BY <1>3, <1>4, <3>1, Spliced
  <2> HIDE DEF ks, vs
  <2>4. ks \in Seq(Keys) /\ vs \in Seq(Universe) /\ Len(ks) = Len(vs)
    BY <1>3, <1>4, <2>2, <2>3 DEF Splices
  <2>5. Fields(p, ks, vs, m.leaf, m.level, m.split, m.merged)
    BY <1>1, <2>4, NodeWith
  <2> HIDE DEF p
  <2>6. r \in Node /\ r.keys = ks /\ r.vals = vs /\ SameKind(r, n)
    BY <1>1, <2>1, <2>5 DEF Fields, SameKind
  <2>7. Spliced2(r, m, i, child)
    BY <2>2, <2>3, <2>6 DEF Spliced2
  <2> QED BY <1>5, <2>6, <2>7 DEF r, m
<1>6. CASE ~child.split
  <2> DEFINE vs == [m.vals EXCEPT ![i] = Hash(child)]
             p == [m EXCEPT !.keys = m.keys, !.vals = vs]
  <2>1. r = p
    BY <1>2, <1>3, <1>6
  <2>2. i \in 1..Len(m.vals)
    BY <1>1, <1>3
  <2>3. /\ vs \in Seq(Universe) /\ Len(vs) = Len(m.vals) /\ vs[i] = Hash(child)
        /\ \A j \in 1..Len(m.vals) : j # i => vs[j] = m.vals[j]
    BY <1>3, <1>4, <2>2, Overwritten
  <2> HIDE DEF vs
  <2>4. Fields(p, m.keys, vs, m.leaf, m.level, m.split, m.merged)
    BY <1>1, <1>3, <2>3, NodeWith
  <2> HIDE DEF p
  <2>5. r \in Node /\ r.keys = m.keys /\ r.vals = vs /\ SameKind(r, n)
    BY <1>1, <2>1, <2>4 DEF Fields, SameKind
  <2>6. Renewed(r, m, i, child)
    BY <2>3, <2>5 DEF Renewed
  <2> QED BY <1>6, <2>5, <2>6 DEF r, m
<1> QED BY <1>5, <1>6

(***************************************************************************)
(* A collapsed root is a node with the flags of the root.                  *)
(***************************************************************************)
LEMMA CollapseRootType ==
    ASSUME NEW n \in Node, NEW st \in Stores, NEW parent
    PROVE  /\ CollapseRoot(n, st, parent) \in Node
           /\ CollapseRoot(n, st, parent).split = n.split
           /\ CollapseRoot(n, st, parent).merged = n.merged
           /\ \/ CollapseRoot(n, st, parent) = n
              \/ /\ parent = <<>> /\ ~n.leaf /\ Len(n.keys) = 1 /\ n.level > 1
                 /\ n.vals[1] \in DOMAIN st
                 /\ Fields(CollapseRoot(n, st, parent), n.vals[1][1], n.vals[1][2],
                           st[n.vals[1]].leaf, st[n.vals[1]].level, n.split, n.merged)
<1> DEFINE r == CollapseRoot(n, st, parent)
           h == n.vals[1]
           c == GetNode(st, h)
<1>1. \/ r = n
      \/ /\ parent = <<>> /\ ~n.leaf /\ Len(n.keys) = 1 /\ n.level > 1 /\ h \in DOMAIN st
         /\ r = [n EXCEPT !.keys = c.keys, !.vals = c.vals, !.leaf = c.leaf, !.level = c.level]
  BY DEF CollapseRoot
<1>2. CASE r # n
  <2> DEFINE m == [n EXCEPT !.keys = c.keys, !.vals = c.vals]
             q == [m EXCEPT !.leaf = c.leaf]
             s == [q EXCEPT !.level = c.level]
  <2>1. /\ parent = <<>> /\ ~n.leaf /\ Len(n.keys) = 1 /\ n.level > 1 /\ h \in DOMAIN st
        /\ r = [n EXCEPT !.keys = c.keys, !.vals = c.vals, !.leaf = c.leaf, !.level = c.level]
    BY <1>1, <1>2
  <2>2. /\ c \in Node /\ c.keys = h[1] /\ c.vals = h[2] /\ c.leaf = st[h].leaf /\ c.level = st[h].level
    BY <2>1, StoreFields
  <2>3. DOMAIN n = {"keys", "vals", "leaf", "level", "split", "merged"}
    BY NodeFields
  <2> HIDE DEF c, h
  <2>4. r = s
    BY <2>1, <2>3
  <2>5. /\ c.keys \in Seq(Keys) /\ c.vals \in Seq(Universe) /\ Len(c.keys) = Len(c.vals)
        /\ c.leaf \in BOOLEAN /\ c.level \in Nat
    BY <2>2, NodeFields
  <2>6. Fields(m, c.keys, c.vals, n.leaf, n.level, n.split, n.merged)
    BY <2>5, NodeWith
  <2> HIDE DEF m
  <2>7. Fields(q, m.keys, m.vals, c.leaf, m.level, m.split, m.merged)
    <3>1. m \in Node
      BY <2>6 DEF Fields
    <3> QED BY <2>5, <3>1, NodeSet
  <2> HIDE DEF q
  <2>8. Fields(s, q.keys, q.vals, q.leaf, c.level, q.split, q.merged)
    <3>1. q \in Node
      BY <2>7 DEF Fields
    <3> QED BY <2>5, <3>1, NodeSet
  <2> HIDE DEF s, r
  <2>9. Fields(r, h[1], h[2], st[h].leaf, st[h].level, n.split, n.merged)
    BY <2>2, <2>4, <2>6, <2>7, <2>8 DEF Fields
  <2> QED BY <2>1, <2>9 DEF Fields, r, h
<1>3. CASE r = n
  BY <1>3
<1> QED BY <1>2, <1>3

-----------------------------------------------------------------------------
(* Induction along the recursions through the nodes                        *)

Unfolds(f, N, V, a, S) ==
    /\ f = [n \in 0..N |-> f[n]]
    /\ f[0] = a
    /\ \A n \in 0..N : f[n] \in V[n]
    /\ \A n \in 1..N : f[n] = S[n][f[n - 1]]

(***************************************************************************)
(* A function defined step by step through a family of sets exists.        *)
(***************************************************************************)
LEMMA RecursiveFamily ==
    ASSUME NEW N \in Nat, NEW V, NEW a \in V[0], NEW S,
           \A n \in 1..N : \A v \in V[n - 1] : S[n][v] \in V[n]
    PROVE  \E f : Unfolds(f, N, V, a, S)
<1> DEFINE T == {n \in 0..N : \E f : Unfolds(f, n, V, a, S)}
<1>1. 0 \in T
  <2> DEFINE f == [m \in 0..0 |-> a]
  <2>1. f = [m \in 0..0 |-> f[m]] /\ f[0] = a /\ \A n \in 0..0 : f[n] \in V[n]
    OBVIOUS
  <2> HIDE DEF f
  <2>2. Unfolds(f, 0, V, a, S)
    BY <2>1 DEF Unfolds
  <2> QED BY <2>2
<1>2. ASSUME NEW n \in 1..N, n - 1 \in T PROVE n \in T
  <2>1. PICK g : Unfolds(g, n - 1, V, a, S)
    BY <1>2
  <2> DEFINE f == [m \in 0..n |-> IF m = n THEN S[n][g[n - 1]] ELSE g[m]]
  <2>2. f = [m \in 0..n |-> f[m]] /\ f[0] = a
    BY <2>1 DEF Unfolds
  <2>3. ASSUME NEW m \in 0..n PROVE f[m] \in V[m]
    <3>1. CASE m = n
      BY <2>1, <3>1 DEF Unfolds
    <3>2. CASE m # n
      BY <2>1, <3>2 DEF Unfolds
    <3> QED BY <3>1, <3>2
  <2>4. ASSUME NEW m \in 1..n PROVE f[m] = S[m][f[m - 1]]
    <3>1. f[m - 1] = g[m - 1]
      OBVIOUS
    <3>2. CASE m = n
      BY <3>1, <3>2
    <3>3. CASE m # n
      <4>1. m \in 1..(n - 1) /\ f[m] = g[m]
        BY <3>3
      <4>2. g[m] = S[m][g[m - 1]]
        BY <2>1, <4>1 DEF Unfolds
      <4> QED BY <3>1, <4>1, <4>2
    <3> QED BY <3>2, <3>3
  <2> HIDE DEF f
  <2>5. Unfolds(f, n, V, a, S)
    BY <2>2, <2>3, <2>4 DEF Unfolds
  <2> QED BY <2>5
<1>3. 0..N \subseteq T
  <2> HIDE DEF T
  <2> QED BY <1>1, <1>2, StepByStep
<1> QED BY <1>3

Calls(n, st) == (DOMAIN st) \X (DOMAIN st \cup {Hash(n)})

(* below has an answer of G for every call.                                *)
Answered(below, C, G) == \A c \in C : below[c] \in G[c]

InsertSteps(st, key, val, C, N, G) ==
    /\ \A c \in C : Answer(GetNode(st, c[1]), st) \in G[0][c]
    /\ \A d \in 1..N : \A below : Answered(below, C, G[d - 1]) =>
         \A c \in C : InsertVia(GetNode(st, c[1]), key, val, st, <<c[2]>>, below) \in G[d][c]

(***************************************************************************)
(* Induction along Node::insert: if the answer without any call left is in *)
(* G[0], and answers for the children in G[d - 1] put the answer in G[d],  *)
(* then insert goes on from answers in G[N].                               *)
(***************************************************************************)
LEMMA InsertInduction ==
    ASSUME NEW st \in Stores, NEW n, NEW key, NEW val, NEW G, NEW C, C = Calls(n, st),
           NEW N, N = Cardinality(DOMAIN st),
           InsertSteps(st, key, val, C, N, G)
    PROVE  \E below : /\ Answered(below, C, G[N])
                      /\ NodeInsert(n, key, val, st) = InsertVia(n, key, val, st, <<>>, below)
<1> DEFINE V == [d \in 0..N |-> {b \in [C -> UNION {G[d][c] : c \in C}] : Answered(b, C, G[d])}]
           a == [c \in C |-> Answer(GetNode(st, c[1]), st)]
           F(b) == [c \in C |-> InsertVia(GetNode(st, c[1]), key, val, st, <<c[2]>>, b)]
           S == [d \in 1..N |-> [b \in V[d - 1] |-> F(b)]]
           f == CHOOSE f : f = [d \in 0..N |->
                  [c \in C |-> LET child == GetNode(st, c[1])
                               IN  IF d = 0 THEN Answer(child, st)
                                   ELSE InsertVia(child, key, val, st, <<c[2]>>, f[d - 1])]]
<1> USE DEF InsertSteps
<1>1. N \in Nat /\ 0 \in 0..N
  BY StoreFields
<1>2. NodeInsert(n, key, val, st) = InsertVia(n, key, val, st, <<>>, f[N])
  BY DEF NodeInsert, Calls
<1>3. a \in V[0]
  <2>1. \A c \in C : a[c] \in G[0][c]
    OBVIOUS
  <2>2. a \in [C -> UNION {G[0][c] : c \in C}]
    BY <2>1
  <2> HIDE DEF a
  <2> QED BY <1>1, <2>1, <2>2 DEF Answered
<1>4. \A d \in 1..N : \A b \in V[d - 1] : F(b) \in V[d]
  <2> SUFFICES ASSUME NEW d \in 1..N, NEW b \in V[d - 1] PROVE F(b) \in V[d]
    OBVIOUS
  <2>0. d \in 0..N /\ d - 1 \in 0..N
    BY <1>1
  <2>1. Answered(b, C, G[d - 1])
    BY <2>0
  <2>2. \A c \in C : F(b)[c] \in G[d][c]
    BY <2>1
  <2>3. F(b) \in [C -> UNION {G[d][c] : c \in C}]
    BY <2>2
  <2> HIDE DEF F
  <2> QED BY <2>0, <2>2, <2>3 DEF Answered
<1>5. \A d \in 0..N : \A b \in V[d] : Answered(b, C, G[d])
  OBVIOUS
<1>6. \A g : g = [d \in 0..N |-> [c \in C |-> LET child == GetNode(st, c[1])
                                              IN  IF d = 0 THEN Answer(child, st)
                                                  ELSE InsertVia(child, key, val, st, <<c[2]>>, g[d - 1])]]
             <=> g = [d \in 0..N |-> IF d = 0 THEN a ELSE F(g[d - 1])]
  <2> SUFFICES ASSUME NEW g
               PROVE  [d \in 0..N |-> [c \in C |-> LET child == GetNode(st, c[1])
                                              IN  IF d = 0 THEN Answer(child, st)
                                                  ELSE InsertVia(child, key, val, st, <<c[2]>>, g[d - 1])]]
                      = [d \in 0..N |-> IF d = 0 THEN a ELSE F(g[d - 1])]
    OBVIOUS
  <2> QED OBVIOUS
<1> HIDE DEF V, a, F
<1>7. \A d \in 1..N : \A b \in V[d - 1] : S[d][b] = F(b) /\ S[d][b] \in V[d]
  BY <1>4
<1> HIDE DEF S
<1>8. PICK g : Unfolds(g, N, V, a, S)
  BY <1>1, <1>3, <1>7, RecursiveFamily
<1>9. g = [d \in 0..N |-> IF d = 0 THEN a ELSE F(g[d - 1])]
  <2>1. \A d \in 1..N : g[d - 1] \in V[d - 1]
    <3>1. \A d \in 1..N : d - 1 \in 0..N
      BY <1>1
    <3> QED BY <1>8, <3>1 DEF Unfolds
  <2>2. ASSUME NEW d \in 0..N PROVE g[d] = IF d = 0 THEN a ELSE F(g[d - 1])
    <3>1. g[0] = a
      BY <1>8 DEF Unfolds
    <3>2. ASSUME d # 0 PROVE g[d] = F(g[d - 1])
      <4>1. d \in 1..N
        BY <1>1, <3>2
      <4>2. g[d] = S[d][g[d - 1]]
        BY <1>8, <4>1 DEF Unfolds
      <4> QED BY <1>7, <2>1, <4>1, <4>2
    <3> QED BY <3>1, <3>2
  <2>3. g = [d \in 0..N |-> g[d]]
    BY <1>8 DEF Unfolds
  <2> QED BY <2>2, <2>3
<1>10. f = [d \in 0..N |-> IF d = 0 THEN a ELSE F(f[d - 1])]
  BY <1>6, <1>9
<1> HIDE DEF f
<1> DEFINE T == {d \in 0..N : f[d] \in V[d]}
<1>11. 0 \in T
  BY <1>1, <1>3, <1>10
<1>12. ASSUME NEW d \in 1..N, d - 1 \in T PROVE d \in T
  BY <1>1, <1>4, <1>10, <1>12
<1>13. N \in T
  <2> HIDE DEF T
  <2>1. 0..N \subseteq T
    BY <1>1, <1>11, <1>12, StepByStep
  <2> QED BY <1>1, <2>1
<1> QED BY <1>1, <1>2, <1>5, <1>13
DeleteSteps(st, key, C, N, G) ==
    /\ \A c \in C : Answer(GetNode(st, c[1]), st) \in G[0][c]
    /\ \A d \in 1..N : \A below : Answered(below, C, G[d - 1]) =>
         \A c \in C : DeleteVia(GetNode(st, c[1]), key, st, <<c[2]>>, below) \in G[d][c]

(***************************************************************************)
(* The same for Node::delete.                                              *)
(***************************************************************************)
LEMMA DeleteInduction ==
    ASSUME NEW st \in Stores, NEW n, NEW key, NEW G, NEW C, C = Calls(n, st),
           NEW N, N = Cardinality(DOMAIN st),
           DeleteSteps(st, key, C, N, G)
    PROVE  \E below : /\ Answered(below, C, G[N])
                      /\ NodeDelete(n, key, st) = DeleteVia(n, key, st, <<>>, below)
<1> DEFINE V == [d \in 0..N |-> {b \in [C -> UNION {G[d][c] : c \in C}] : Answered(b, C, G[d])}]
           a == [c \in C |-> Answer(GetNode(st, c[1]), st)]
           F(b) == [c \in C |-> DeleteVia(GetNode(st, c[1]), key, st, <<c[2]>>, b)]
           S == [d \in 1..N |-> [b \in V[d - 1] |-> F(b)]]
           f == CHOOSE f : f = [d \in 0..N |->
                  [c \in C |-> LET child == GetNode(st, c[1])
                               IN  IF d = 0 THEN Answer(child, st)
                                   ELSE DeleteVia(child, key, st, <<c[2]>>, f[d - 1])]]
<1> USE DEF DeleteSteps
<1>1. N \in Nat /\ 0 \in 0..N
  BY StoreFields
<1>2. NodeDelete(n, key, st) = DeleteVia(n, key, st, <<>>, f[N])
  BY DEF NodeDelete, Calls
<1>3. a \in V[0]
  <2>1. \A c \in C : a[c] \in G[0][c]
    OBVIOUS
  <2>2. a \in [C -> UNION {G[0][c] : c \in C}]
    BY <2>1
  <2> HIDE DEF a
  <2> QED BY <1>1, <2>1, <2>2 DEF Answered
<1>4. \A d \in 1..N : \A b \in V[d - 1] : F(b) \in V[d]
  <2> SUFFICES ASSUME NEW d \in 1..N, NEW b \in V[d - 1] PROVE F(b) \in V[d]
    OBVIOUS
  <2>0. d \in 0..N /\ d - 1 \in 0..N
    BY <1>1
  <2>1. Answered(b, C, G[d - 1])
    BY <2>0
  <2>2. \A c \in C : F(b)[c] \in G[d][c]
    BY <2>1
  <2>3. F(b) \in [C -> UNION {G[d][c] : c \in C}]
    BY <2>2
  <2> HIDE DEF F
  <2> QED BY <2>0, <2>2, <2>3 DEF Answered
<1>5. \A d \in 0..N : \A b \in V[d] : Answered(b, C, G[d])
  OBVIOUS
<1>6. \A g : g = [d \in 0..N |-> [c \in C |-> LET child == GetNode(st, c[1])
                                              IN  IF d = 0 THEN Answer(child, st)
                                                  ELSE DeleteVia(child, key, st, <<c[2]>>, g[d - 1])]]
             <=> g = [d \in 0..N |-> IF d = 0 THEN a ELSE F(g[d - 1])]
  <2> SUFFICES ASSUME NEW g
               PROVE  [d \in 0..N |-> [c \in C |-> LET child == GetNode(st, c[1])
                                              IN  IF d = 0 THEN Answer(child, st)
                                                  ELSE DeleteVia(child, key, st, <<c[2]>>, g[d - 1])]]
                      = [d \in 0..N |-> IF d = 0 THEN a ELSE F(g[d - 1])]
    OBVIOUS
  <2> QED OBVIOUS
<1> HIDE DEF V, a, F
<1>7. \A d \in 1..N : \A b \in V[d - 1] : S[d][b] = F(b) /\ S[d][b] \in V[d]
  BY <1>4
<1> HIDE DEF S
<1>8. PICK g : Unfolds(g, N, V, a, S)
  BY <1>1, <1>3, <1>7, RecursiveFamily
<1>9. g = [d \in 0..N |-> IF d = 0 THEN a ELSE F(g[d - 1])]
  <2>1. \A d \in 1..N : g[d - 1] \in V[d - 1]
    <3>1. \A d \in 1..N : d - 1 \in 0..N
      BY <1>1
    <3> QED BY <1>8, <3>1 DEF Unfolds
  <2>2. ASSUME NEW d \in 0..N PROVE g[d] = IF d = 0 THEN a ELSE F(g[d - 1])
    <3>1. g[0] = a
      BY <1>8 DEF Unfolds
    <3>2. ASSUME d # 0 PROVE g[d] = F(g[d - 1])
      <4>1. d \in 1..N
        BY <1>1, <3>2
      <4>2. g[d] = S[d][g[d - 1]]
        BY <1>8, <4>1 DEF Unfolds
      <4> QED BY <1>7, <2>1, <4>1, <4>2
    <3> QED BY <3>1, <3>2
  <2>3. g = [d \in 0..N |-> g[d]]
    BY <1>8 DEF Unfolds
  <2> QED BY <2>2, <2>3
<1>10. f = [d \in 0..N |-> IF d = 0 THEN a ELSE F(f[d - 1])]
  BY <1>6, <1>9
<1> HIDE DEF f
<1> DEFINE T == {d \in 0..N : f[d] \in V[d]}
<1>11. 0 \in T
  BY <1>1, <1>3, <1>10
<1>12. ASSUME NEW d \in 1..N, d - 1 \in T PROVE d \in T
  BY <1>1, <1>4, <1>10, <1>12
<1>13. N \in T
  <2> HIDE DEF T
  <2>1. 0..N \subseteq T
    BY <1>1, <1>11, <1>12, StepByStep
  <2> QED BY <1>1, <2>1
<1> QED BY <1>1, <1>2, <1>5, <1>13
DescentSteps(st, key, C, N, G) ==
    /\ \A c \in C : <<GetNode(st, c)>> \in G[0][c]
    /\ \A d \in 1..N : \A below : Answered(below, C, G[d - 1]) =>
         \A c \in C : DescendFrom(GetNode(st, c), key, st, below) \in G[d][c]

(***************************************************************************)
(* The same for the descent of find and generate_proof.                    *)
(***************************************************************************)
LEMMA DescentInduction ==
    ASSUME NEW st \in Stores, NEW n, NEW key, NEW G, NEW C, C = DOMAIN st,
           NEW N, N = Cardinality(DOMAIN st),
           DescentSteps(st, key, C, N, G)
    PROVE  \E below : /\ Answered(below, C, G[N])
                      /\ Descent(n, key, st) = DescendFrom(n, key, st, below)
<1> DEFINE V == [d \in 0..N |-> {b \in [C -> UNION {G[d][c] : c \in C}] : Answered(b, C, G[d])}]
           a == [c \in C |-> <<GetNode(st, c)>>]
           F(b) == [c \in C |-> DescendFrom(GetNode(st, c), key, st, b)]
           S == [d \in 1..N |-> [b \in V[d - 1] |-> F(b)]]
           f == CHOOSE f : f = [d \in 0..N |->
                  [c \in C |-> IF d = 0 THEN <<GetNode(st, c)>> ELSE DescendFrom(GetNode(st, c), key, st, f[d - 1])]]
<1> USE DEF DescentSteps
<1>1. N \in Nat /\ 0 \in 0..N
  BY StoreFields
<1>2. Descent(n, key, st) = DescendFrom(n, key, st, f[N])
  BY DEF Descent
<1>3. a \in V[0]
  <2>1. \A c \in C : a[c] \in G[0][c]
    OBVIOUS
  <2>2. a \in [C -> UNION {G[0][c] : c \in C}]
    BY <2>1
  <2> HIDE DEF a
  <2> QED BY <1>1, <2>1, <2>2 DEF Answered
<1>4. \A d \in 1..N : \A b \in V[d - 1] : F(b) \in V[d]
  <2> SUFFICES ASSUME NEW d \in 1..N, NEW b \in V[d - 1] PROVE F(b) \in V[d]
    OBVIOUS
  <2>0. d \in 0..N /\ d - 1 \in 0..N
    BY <1>1
  <2>1. Answered(b, C, G[d - 1])
    BY <2>0
  <2>2. \A c \in C : F(b)[c] \in G[d][c]
    BY <2>1
  <2>3. F(b) \in [C -> UNION {G[d][c] : c \in C}]
    BY <2>2
  <2> HIDE DEF F
  <2> QED BY <2>0, <2>2, <2>3 DEF Answered
<1>5. \A d \in 0..N : \A b \in V[d] : Answered(b, C, G[d])
  OBVIOUS
<1>6. \A g : g = [d \in 0..N |-> [c \in C |-> IF d = 0 THEN <<GetNode(st, c)>> ELSE DescendFrom(GetNode(st, c), key, st, g[d - 1])]]
             <=> g = [d \in 0..N |-> IF d = 0 THEN a ELSE F(g[d - 1])]
  <2> SUFFICES ASSUME NEW g
               PROVE  [d \in 0..N |-> [c \in C |-> IF d = 0 THEN <<GetNode(st, c)>> ELSE DescendFrom(GetNode(st, c), key, st, g[d - 1])]]
                      = [d \in 0..N |-> IF d = 0 THEN a ELSE F(g[d - 1])]
    OBVIOUS
  <2> QED OBVIOUS
<1> HIDE DEF V, a, F
<1>7. \A d \in 1..N : \A b \in V[d - 1] : S[d][b] = F(b) /\ S[d][b] \in V[d]
  BY <1>4
<1> HIDE DEF S
<1>8. PICK g : Unfolds(g, N, V, a, S)
  BY <1>1, <1>3, <1>7, RecursiveFamily
<1>9. g = [d \in 0..N |-> IF d = 0 THEN a ELSE F(g[d - 1])]
  <2>1. \A d \in 1..N : g[d - 1] \in V[d - 1]
    <3>1. \A d \in 1..N : d - 1 \in 0..N
      BY <1>1
    <3> QED BY <1>8, <3>1 DEF Unfolds
  <2>2. ASSUME NEW d \in 0..N PROVE g[d] = IF d = 0 THEN a ELSE F(g[d - 1])
    <3>1. g[0] = a
      BY <1>8 DEF Unfolds
    <3>2. ASSUME d # 0 PROVE g[d] = F(g[d - 1])
      <4>1. d \in 1..N
        BY <1>1, <3>2
      <4>2. g[d] = S[d][g[d - 1]]
        BY <1>8, <4>1 DEF Unfolds
      <4> QED BY <1>7, <2>1, <4>1, <4>2
    <3> QED BY <3>1, <3>2
  <2>3. g = [d \in 0..N |-> g[d]]
    BY <1>8 DEF Unfolds
  <2> QED BY <2>2, <2>3
<1>10. f = [d \in 0..N |-> IF d = 0 THEN a ELSE F(f[d - 1])]
  BY <1>6, <1>9
<1> HIDE DEF f
<1> DEFINE T == {d \in 0..N : f[d] \in V[d]}
<1>11. 0 \in T
  BY <1>1, <1>3, <1>10
<1>12. ASSUME NEW d \in 1..N, d - 1 \in T PROVE d \in T
  BY <1>1, <1>4, <1>10, <1>12
<1>13. N \in T
  <2> HIDE DEF T
  <2>1. 0..N \subseteq T
    BY <1>1, <1>11, <1>12, StepByStep
  <2> QED BY <1>1, <2>1
<1> QED BY <1>1, <1>2, <1>5, <1>13
LeavesSteps(st, C, N, G) ==
    /\ \A c \in C : <<>> \in G[0][c]
    /\ \A d \in 1..N : \A below : Answered(below, C, G[d - 1]) =>
         \A c \in C : LeavesFrom(GetNode(st, c), st, below) \in G[d][c]

(***************************************************************************)
(* The same for the leaves that size counts.                               *)
(***************************************************************************)
LEMMA LeavesInduction ==
    ASSUME NEW st \in Stores, NEW n, NEW G, NEW C, C = DOMAIN st,
           NEW N, N = Cardinality(DOMAIN st),
           LeavesSteps(st, C, N, G)
    PROVE  \E below : /\ Answered(below, C, G[N])
                      /\ Leaves(n, st) = LeavesFrom(n, st, below)
<1> DEFINE V == [d \in 0..N |-> {b \in [C -> UNION {G[d][c] : c \in C}] : Answered(b, C, G[d])}]
           a == [c \in C |-> <<>>]
           F(b) == [c \in C |-> LeavesFrom(GetNode(st, c), st, b)]
           S == [d \in 1..N |-> [b \in V[d - 1] |-> F(b)]]
           f == CHOOSE f : f = [d \in 0..N |->
                  [c \in C |-> IF d = 0 THEN <<>> ELSE LeavesFrom(GetNode(st, c), st, f[d - 1])]]
<1> USE DEF LeavesSteps
<1>1. N \in Nat /\ 0 \in 0..N
  BY StoreFields
<1>2. Leaves(n, st) = LeavesFrom(n, st, f[N])
  BY DEF Leaves
<1>3. a \in V[0]
  <2>1. \A c \in C : a[c] \in G[0][c]
    OBVIOUS
  <2>2. a \in [C -> UNION {G[0][c] : c \in C}]
    BY <2>1
  <2> HIDE DEF a
  <2> QED BY <1>1, <2>1, <2>2 DEF Answered
<1>4. \A d \in 1..N : \A b \in V[d - 1] : F(b) \in V[d]
  <2> SUFFICES ASSUME NEW d \in 1..N, NEW b \in V[d - 1] PROVE F(b) \in V[d]
    OBVIOUS
  <2>0. d \in 0..N /\ d - 1 \in 0..N
    BY <1>1
  <2>1. Answered(b, C, G[d - 1])
    BY <2>0
  <2>2. \A c \in C : F(b)[c] \in G[d][c]
    BY <2>1
  <2>3. F(b) \in [C -> UNION {G[d][c] : c \in C}]
    BY <2>2
  <2> HIDE DEF F
  <2> QED BY <2>0, <2>2, <2>3 DEF Answered
<1>5. \A d \in 0..N : \A b \in V[d] : Answered(b, C, G[d])
  OBVIOUS
<1>6. \A g : g = [d \in 0..N |-> [c \in C |-> IF d = 0 THEN <<>> ELSE LeavesFrom(GetNode(st, c), st, g[d - 1])]]
             <=> g = [d \in 0..N |-> IF d = 0 THEN a ELSE F(g[d - 1])]
  <2> SUFFICES ASSUME NEW g
               PROVE  [d \in 0..N |-> [c \in C |-> IF d = 0 THEN <<>> ELSE LeavesFrom(GetNode(st, c), st, g[d - 1])]]
                      = [d \in 0..N |-> IF d = 0 THEN a ELSE F(g[d - 1])]
    OBVIOUS
  <2> QED OBVIOUS
<1> HIDE DEF V, a, F
<1>7. \A d \in 1..N : \A b \in V[d - 1] : S[d][b] = F(b) /\ S[d][b] \in V[d]
  BY <1>4
<1> HIDE DEF S
<1>8. PICK g : Unfolds(g, N, V, a, S)
  BY <1>1, <1>3, <1>7, RecursiveFamily
<1>9. g = [d \in 0..N |-> IF d = 0 THEN a ELSE F(g[d - 1])]
  <2>1. \A d \in 1..N : g[d - 1] \in V[d - 1]
    <3>1. \A d \in 1..N : d - 1 \in 0..N
      BY <1>1
    <3> QED BY <1>8, <3>1 DEF Unfolds
  <2>2. ASSUME NEW d \in 0..N PROVE g[d] = IF d = 0 THEN a ELSE F(g[d - 1])
    <3>1. g[0] = a
      BY <1>8 DEF Unfolds
    <3>2. ASSUME d # 0 PROVE g[d] = F(g[d - 1])
      <4>1. d \in 1..N
        BY <1>1, <3>2
      <4>2. g[d] = S[d][g[d - 1]]
        BY <1>8, <4>1 DEF Unfolds
      <4> QED BY <1>7, <2>1, <4>1, <4>2
    <3> QED BY <3>1, <3>2
  <2>3. g = [d \in 0..N |-> g[d]]
    BY <1>8 DEF Unfolds
  <2> QED BY <2>2, <2>3
<1>10. f = [d \in 0..N |-> IF d = 0 THEN a ELSE F(f[d - 1])]
  BY <1>6, <1>9
<1> HIDE DEF f
<1> DEFINE T == {d \in 0..N : f[d] \in V[d]}
<1>11. 0 \in T
  BY <1>1, <1>3, <1>10
<1>12. ASSUME NEW d \in 1..N, d - 1 \in T PROVE d \in T
  BY <1>1, <1>4, <1>10, <1>12
<1>13. N \in T
  <2> HIDE DEF T
  <2>1. 0..N \subseteq T
    BY <1>1, <1>11, <1>12, StepByStep
  <2> QED BY <1>1, <2>1
<1> QED BY <1>1, <1>2, <1>5, <1>13
NodesSteps(st, C, N, G) ==
    /\ \A c \in C : {} \in G[0][c]
    /\ \A d \in 1..N : \A below : Answered(below, C, G[d - 1]) =>
         \A c \in C : NodesFrom(GetNode(st, c), st, below) \in G[d][c]

(***************************************************************************)
(* The same for the nodes that collect_keys visits.                        *)
(***************************************************************************)
LEMMA NodesInduction ==
    ASSUME NEW st \in Stores, NEW n, NEW G, NEW C, C = DOMAIN st,
           NEW N, N = Cardinality(DOMAIN st),
           NodesSteps(st, C, N, G)
    PROVE  \E below : /\ Answered(below, C, G[N])
                      /\ NodesBelow(n, st) = NodesFrom(n, st, below)
<1> DEFINE V == [d \in 0..N |-> {b \in [C -> UNION {G[d][c] : c \in C}] : Answered(b, C, G[d])}]
           a == [c \in C |-> {}]
           F(b) == [c \in C |-> NodesFrom(GetNode(st, c), st, b)]
           S == [d \in 1..N |-> [b \in V[d - 1] |-> F(b)]]
           f == CHOOSE f : f = [d \in 0..N |->
                  [c \in C |-> IF d = 0 THEN {} ELSE NodesFrom(GetNode(st, c), st, f[d - 1])]]
<1> USE DEF NodesSteps
<1>1. N \in Nat /\ 0 \in 0..N
  BY StoreFields
<1>2. NodesBelow(n, st) = NodesFrom(n, st, f[N])
  BY DEF NodesBelow
<1>3. a \in V[0]
  <2>1. \A c \in C : a[c] \in G[0][c]
    OBVIOUS
  <2>2. a \in [C -> UNION {G[0][c] : c \in C}]
    BY <2>1
  <2> HIDE DEF a
  <2> QED BY <1>1, <2>1, <2>2 DEF Answered
<1>4. \A d \in 1..N : \A b \in V[d - 1] : F(b) \in V[d]
  <2> SUFFICES ASSUME NEW d \in 1..N, NEW b \in V[d - 1] PROVE F(b) \in V[d]
    OBVIOUS
  <2>0. d \in 0..N /\ d - 1 \in 0..N
    BY <1>1
  <2>1. Answered(b, C, G[d - 1])
    BY <2>0
  <2>2. \A c \in C : F(b)[c] \in G[d][c]
    BY <2>1
  <2>3. F(b) \in [C -> UNION {G[d][c] : c \in C}]
    BY <2>2
  <2> HIDE DEF F
  <2> QED BY <2>0, <2>2, <2>3 DEF Answered
<1>5. \A d \in 0..N : \A b \in V[d] : Answered(b, C, G[d])
  OBVIOUS
<1>6. \A g : g = [d \in 0..N |-> [c \in C |-> IF d = 0 THEN {} ELSE NodesFrom(GetNode(st, c), st, g[d - 1])]]
             <=> g = [d \in 0..N |-> IF d = 0 THEN a ELSE F(g[d - 1])]
  <2> SUFFICES ASSUME NEW g
               PROVE  [d \in 0..N |-> [c \in C |-> IF d = 0 THEN {} ELSE NodesFrom(GetNode(st, c), st, g[d - 1])]]
                      = [d \in 0..N |-> IF d = 0 THEN a ELSE F(g[d - 1])]
    OBVIOUS
  <2> QED OBVIOUS
<1> HIDE DEF V, a, F
<1>7. \A d \in 1..N : \A b \in V[d - 1] : S[d][b] = F(b) /\ S[d][b] \in V[d]
  BY <1>4
<1> HIDE DEF S
<1>8. PICK g : Unfolds(g, N, V, a, S)
  BY <1>1, <1>3, <1>7, RecursiveFamily
<1>9. g = [d \in 0..N |-> IF d = 0 THEN a ELSE F(g[d - 1])]
  <2>1. \A d \in 1..N : g[d - 1] \in V[d - 1]
    <3>1. \A d \in 1..N : d - 1 \in 0..N
      BY <1>1
    <3> QED BY <1>8, <3>1 DEF Unfolds
  <2>2. ASSUME NEW d \in 0..N PROVE g[d] = IF d = 0 THEN a ELSE F(g[d - 1])
    <3>1. g[0] = a
      BY <1>8 DEF Unfolds
    <3>2. ASSUME d # 0 PROVE g[d] = F(g[d - 1])
      <4>1. d \in 1..N
        BY <1>1, <3>2
      <4>2. g[d] = S[d][g[d - 1]]
        BY <1>8, <4>1 DEF Unfolds
      <4> QED BY <1>7, <2>1, <4>1, <4>2
    <3> QED BY <3>1, <3>2
  <2>3. g = [d \in 0..N |-> g[d]]
    BY <1>8 DEF Unfolds
  <2> QED BY <2>2, <2>3
<1>10. f = [d \in 0..N |-> IF d = 0 THEN a ELSE F(f[d - 1])]
  BY <1>6, <1>9
<1> HIDE DEF f
<1> DEFINE T == {d \in 0..N : f[d] \in V[d]}
<1>11. 0 \in T
  BY <1>1, <1>3, <1>10
<1>12. ASSUME NEW d \in 1..N, d - 1 \in T PROVE d \in T
  BY <1>1, <1>4, <1>10, <1>12
<1>13. N \in T
  <2> HIDE DEF T
  <2>1. 0..N \subseteq T
    BY <1>1, <1>11, <1>12, StepByStep
  <2> QED BY <1>1, <2>1
<1> QED BY <1>1, <1>2, <1>5, <1>13

-----------------------------------------------------------------------------
(* Insert                                                                  *)

Answers(st) ==
    {a \in [node : Node, st : Stores, joined : SUBSET Digests, strayed : BOOLEAN, deleted : BOOLEAN] :
       DOMAIN st \subseteq DOMAIN a.st}

(***************************************************************************)
(* The fields of an answer.                                                *)
(***************************************************************************)
LEMMA AnswerFields ==
    ASSUME NEW st, NEW a \in Answers(st)
    PROVE  /\ a.node \in Node /\ a.st \in Stores /\ a.joined \in SUBSET Digests
           /\ a.strayed \in BOOLEAN /\ a.deleted \in BOOLEAN
           /\ DOMAIN st \subseteq DOMAIN a.st
BY DEF Answers

(***************************************************************************)
(* The answer that changes nothing is one.                                 *)
(***************************************************************************)
LEMMA UnchangedType ==
    ASSUME NEW st \in Stores, NEW n \in Node
    PROVE  Answer(n, st) \in Answers(st)
BY DEF Answers, Answer

(* The balanced node an insert returns.                                    *)
Returns(r, b, parent, lost) ==
    r = [node |-> CollapseRoot(b.node, b.st, parent), st |-> b.st, joined |-> b.joined,
         strayed |-> lost, deleted |-> FALSE]

(***************************************************************************)
(* A balanced node is an answer.                                           *)
(***************************************************************************)
LEMMA ReturnsType ==
    ASSUME NEW st \in Stores, NEW s \in Stores, DOMAIN st \subseteq DOMAIN s, NEW n \in Node,
           NEW parent, NEW lost \in BOOLEAN, NEW r,
           Returns(r, Balance(n, s, parent), parent, lost)
    PROVE  r \in Answers(st)
<1> DEFINE b == Balance(n, s, parent)
<1>1. b.node \in Node /\ b.st \in Stores /\ DOMAIN s \subseteq DOMAIN b.st /\ b.joined \in SUBSET Digests
  BY BalanceType
<1> HIDE DEF b
<1> DEFINE c == CollapseRoot(b.node, b.st, parent)
<1>2. c \in Node
  BY <1>1, CollapseRootType
<1>3. r = [node |-> c, st |-> b.st, joined |-> b.joined, strayed |-> lost, deleted |-> FALSE]
  BY DEF Returns, b
<1> HIDE DEF c
<1> QED BY <1>1, <1>2, <1>3 DEF Answers

(***************************************************************************)
(* insert balances the leaf with its pair, the node whose child is         *)
(* missing, or the node with its new child.                                *)
(***************************************************************************)
LEMMA InsertCases ==
    ASSUME NEW n, NEW key, NEW val, NEW st, NEW parent, NEW below,
           NEW i, i = ChildIndex(n, key), NEW child, child = below[<<n.vals[i], Hash(n)>>],
           NEW r, r = InsertVia(n, key, val, st, parent, below)
    PROVE  \/ n.leaf /\ Returns(r, Balance(PutInLeaf(n, key, val), st, parent), parent, FALSE)
           \/ ~n.leaf /\ ~Leads(n, i, st) /\ Returns(r, Balance(n, st, parent), parent, FALSE)
           \/ /\ Leads(n, i, st)
              /\ Returns(r, Balance(ReplaceChild(n, i, child.node), InsertNode(child.st, child.node), parent),
                         parent, Astray(n, i, child))
<1> DEFINE leads == Leads(n, i, st)
           put == IF n.leaf THEN PutInLeaf(n, key, val)
                  ELSE IF leads THEN ReplaceChild(n, i, child.node) ELSE n
           under == IF leads THEN InsertNode(child.st, child.node) ELSE st
           b == Balance(put, under, parent)
<1>1. r = [node |-> CollapseRoot(b.node, b.st, parent), st |-> b.st, joined |-> b.joined,
           strayed |-> leads /\ Astray(n, i, child), deleted |-> FALSE]
  BY DEF InsertVia, InsertAnswer
<1>2. ASSUME NEW x, NEW lost, lost = (leads /\ Astray(n, i, child)), x = b
      PROVE  Returns(r, x, parent, lost)
  BY <1>1, <1>2 DEF Returns
<1>3. CASE n.leaf
  <2>1. ~leads /\ b = Balance(PutInLeaf(n, key, val), st, parent)
    BY <1>3 DEF Leads
  <2>2. FALSE = (leads /\ Astray(n, i, child))
    BY <2>1
  <2> HIDE DEF b, leads
  <2> QED BY <1>2, <1>3, <2>1, <2>2
<1>4. CASE ~n.leaf /\ ~leads
  <2>1. b = Balance(n, st, parent)
    BY <1>4
  <2>2. FALSE = (leads /\ Astray(n, i, child))
    BY <1>4
  <2>3. Returns(r, Balance(n, st, parent), parent, FALSE)
    <3> HIDE DEF b, leads
    <3> QED BY <1>2, <2>1, <2>2
  <2> QED BY <1>4, <2>3
<1>5. CASE ~n.leaf /\ leads
  <2>1. b = Balance(ReplaceChild(n, i, child.node), InsertNode(child.st, child.node), parent)
    BY <1>5
  <2>2. Astray(n, i, child) = (leads /\ Astray(n, i, child))
    <3> HIDE DEF leads
    <3> QED BY <1>5 DEF Astray
  <2>3. Returns(r, b, parent, Astray(n, i, child))
    <3> HIDE DEF b, leads
    <3> QED BY <1>2, <2>2
  <2> QED BY <1>5, <2>1, <2>3
<1> QED BY <1>3, <1>4, <1>5

(***************************************************************************)
(* insert at one node answers with a node and a storage that has lost      *)
(* nothing, if it does so for the children.                                *)
(***************************************************************************)
LEMMA InsertViaType ==
    ASSUME NEW st \in Stores, NEW n \in Node, NEW key \in Keys, NEW val \in Universe, NEW parent, NEW below,
           Leads(n, ChildIndex(n, key), st) =>
             below[<<n.vals[ChildIndex(n, key)], Hash(n)>>] \in Answers(st)
    PROVE  InsertVia(n, key, val, st, parent, below) \in Answers(st)
<1> DEFINE i == ChildIndex(n, key)
           child == below[<<n.vals[i], Hash(n)>>]
           r == InsertVia(n, key, val, st, parent, below)
           put == PutInLeaf(n, key, val)
<1>1. CASE Returns(r, Balance(put, st, parent), parent, FALSE)
  <2>1. put \in Node
    BY PutInLeafType
  <2> HIDE DEF r, put
  <2>2. r \in Answers(st)
    BY <1>1, <2>1, ReturnsType
  <2> QED BY <2>2 DEF r
<1>2. CASE Returns(r, Balance(n, st, parent), parent, FALSE)
  <2> HIDE DEF r
  <2>1. r \in Answers(st)
    BY <1>2, ReturnsType
  <2> QED BY <2>1 DEF r
<1> DEFINE m == ReplaceChild(n, i, child.node)
           s == InsertNode(child.st, child.node)
<1>3. CASE Leads(n, i, st) /\ Returns(r, Balance(m, s, parent), parent, Astray(n, i, child))
  <2>1. child \in Answers(st)
    BY <1>3
  <2>2. i \in 1..Len(n.keys)
    BY <1>3, ChildIndexType DEF Leads
  <2> HIDE DEF i, child
  <2>3. child.node \in Node /\ child.st \in Stores /\ DOMAIN st \subseteq DOMAIN child.st
    BY <2>1, AnswerFields
  <2>4. m \in Node
    BY <2>2, <2>3, ReplaceChildType
  <2>5. s \in Stores /\ DOMAIN st \subseteq DOMAIN s
    <3>1. s \in Stores /\ DOMAIN s = DOMAIN child.st \cup {Hash(child.node)}
      BY <2>3, InsertNodeType
    <3> HIDE DEF s
    <3> QED BY <2>3, <3>1
  <2>6. Astray(n, i, child) \in BOOLEAN
    BY <2>1, AnswerFields DEF Astray
  <2> HIDE DEF r, m, s
  <2>7. r \in Answers(st)
    BY <1>3, <2>4, <2>5, <2>6, ReturnsType
  <2> QED BY <2>7 DEF r
<1>4. \/ Returns(r, Balance(put, st, parent), parent, FALSE)
      \/ Returns(r, Balance(n, st, parent), parent, FALSE)
      \/ Leads(n, i, st) /\ Returns(r, Balance(m, s, parent), parent, Astray(n, i, child))
  BY InsertCases
<1> QED BY <1>1, <1>2, <1>3, <1>4

(* The calls that the recursion of n makes have answers over st.           *)
AnswersFor(C, N, st) == [d \in 0..N |-> [c \in C |-> Answers(st)]]

(***************************************************************************)
(* insert answers with a node and a storage that has lost nothing.         *)
(***************************************************************************)
LEMMA NodeInsertType ==
    ASSUME NEW st \in Stores, NEW n \in Node, NEW key \in Keys, NEW val \in Universe
    PROVE  NodeInsert(n, key, val, st) \in Answers(st)
<1> DEFINE C == Calls(n, st)
           N == Cardinality(DOMAIN st)
           G == AnswersFor(C, N, st)
<1>0. N \in Nat /\ 0 \in 0..N /\ N \in 0..N /\ \A d \in 1..N : d \in 0..N /\ d - 1 \in 0..N
  BY StoreFields
<1>1. \A d \in 0..N : \A c \in C : G[d][c] = Answers(st)
  BY DEF AnswersFor
<1>2. ASSUME NEW c \in C
      PROVE  GetNode(st, c[1]) \in Node /\ Hash(GetNode(st, c[1])) = c[1]
  <2>1. c[1] \in DOMAIN st
    BY DEF Calls
  <2> QED BY <2>1, StoreFields
<1>3. ASSUME NEW c \in C PROVE Answer(GetNode(st, c[1]), st) \in G[0][c]
  BY <1>0, <1>1, <1>2, UnchangedType
<1> HIDE DEF N, G
<1>4. ASSUME NEW d \in 1..N, NEW below, Answered(below, C, G[d - 1]), NEW c \in C
      PROVE  InsertVia(GetNode(st, c[1]), key, val, st, <<c[2]>>, below) \in G[d][c]
  <2> DEFINE m == GetNode(st, c[1])
             i == ChildIndex(m, key)
  <2>1. m \in Node /\ Hash(m) = c[1] /\ c[1] \in DOMAIN st
    BY <1>2 DEF Calls
  <2>2. ASSUME Leads(m, i, st) PROVE below[<<m.vals[i], Hash(m)>>] \in Answers(st)
    <3>1. <<m.vals[i], Hash(m)>> \in C
      BY <2>1, <2>2 DEF Leads, Calls
    <3> QED BY <1>0, <1>1, <1>4, <3>1 DEF Answered
  <2> HIDE DEF m
  <2>3. InsertVia(m, key, val, st, <<c[2]>>, below) \in Answers(st)
    BY <2>1, <2>2, InsertViaType
  <2> QED BY <1>0, <1>1, <2>3 DEF m
<1>5. PICK below : /\ Answered(below, C, G[N])
                   /\ NodeInsert(n, key, val, st) = InsertVia(n, key, val, st, <<>>, below)
  <2>1. C = Calls(n, st) /\ N = Cardinality(DOMAIN st)
    BY DEF N
  <2> HIDE DEF C
  <2>2. \A c \in C : Answer(GetNode(st, c[1]), st) \in G[0][c]
    BY <1>3
  <2>3. \A d \in 1..N : \A below : Answered(below, C, G[d - 1]) =>
             \A c \in C : InsertVia(GetNode(st, c[1]), key, val, st, <<c[2]>>, below) \in G[d][c]
    BY <1>4
  <2>4. InsertSteps(st, key, val, C, N, G)
    BY <2>2, <2>3 DEF InsertSteps
  <2> QED BY <2>1, <2>4, InsertInduction
<1>6. ASSUME Leads(n, ChildIndex(n, key), st)
      PROVE  below[<<n.vals[ChildIndex(n, key)], Hash(n)>>] \in Answers(st)
  <2>1. <<n.vals[ChildIndex(n, key)], Hash(n)>> \in C
    BY <1>6 DEF Leads, Calls
  <2> QED BY <1>0, <1>1, <1>5, <2>1 DEF Answered
<1> QED BY <1>5, <1>6, InsertViaType

-----------------------------------------------------------------------------
(* Delete, and the steps of the batch calls and the merge                  *)

(***************************************************************************)
(* delete at one node answers with a node and a storage that has lost      *)
(* nothing, if it does so for the children.                                *)
(***************************************************************************)
LEMMA DeleteViaType ==
    ASSUME NEW st \in Stores, NEW n \in Node, NEW key \in Keys, NEW parent, NEW below,
           Leads(n, ChildIndex(n, key), st) =>
             below[<<n.vals[ChildIndex(n, key)], Hash(n)>>] \in Answers(st)
    PROVE  DeleteVia(n, key, st, parent, below) \in Answers(st)
<1> DEFINE i == ChildIndex(n, key)
           child == below[<<n.vals[i], Hash(n)>>]
           at == {j \in 1..Len(n.keys) : n.keys[j] = key}
           removed == RemovePair(n, Min(at))
           b == Balance(removed, InsertNode(st, removed), parent)
           r == DeleteVia(n, key, st, parent, below)
<1>1. \/ r = Answer(n, st)
      \/ /\ at # {}
         /\ r = [node |-> b.node, st |-> b.st, joined |-> b.joined, strayed |-> FALSE, deleted |-> TRUE]
      \/ /\ Leads(n, i, st)
         /\ r = [node |-> ReplaceChild(n, i, child.node), st |-> InsertNode(child.st, child.node),
                 joined |-> {}, strayed |-> Astray(n, i, child), deleted |-> TRUE]
  BY DEF DeleteVia, DeleteAnswer, Leads
<1>2. CASE r = Answer(n, st)
  BY <1>2, UnchangedType
<1>3. CASE /\ at # {}
           /\ r = [node |-> b.node, st |-> b.st, joined |-> b.joined, strayed |-> FALSE, deleted |-> TRUE]
  <2>1. Min(at) \in at
    <3>1. at \in SUBSET Nat
      OBVIOUS
    <3> HIDE DEF at
    <3> QED BY <1>3, <3>1, MinOf
  <2>2. Min(at) \in 1..Len(n.keys)
    BY <2>1
  <2> HIDE DEF at
  <2>3. removed \in Node
    BY <2>2, RemovePairType
  <2> DEFINE s == InsertNode(st, removed)
  <2> HIDE DEF removed
  <2>4. s \in Stores /\ DOMAIN st \subseteq DOMAIN s
    BY <2>3, InsertNodeType
  <2> HIDE DEF s
  <2>5. b.node \in Node /\ b.st \in Stores /\ b.joined \in SUBSET Digests
    BY <2>3, <2>4, BalanceType DEF s
  <2>6. DOMAIN s \subseteq DOMAIN b.st
    BY <2>3, <2>4, BalanceType DEF s
  <2> HIDE DEF b, r
  <2>7. r \in Answers(st)
    BY <1>3, <2>4, <2>5, <2>6 DEF Answers
  <2> QED BY <2>7 DEF r
<1>4. CASE /\ Leads(n, i, st)
           /\ r = [node |-> ReplaceChild(n, i, child.node), st |-> InsertNode(child.st, child.node),
                   joined |-> {}, strayed |-> Astray(n, i, child), deleted |-> TRUE]
  <2>1. child \in Answers(st)
    BY <1>4
  <2>2. i \in 1..Len(n.keys)
    BY <1>4, ChildIndexType DEF Leads
  <2> HIDE DEF i, child
  <2> DEFINE m == ReplaceChild(n, i, child.node)
             s == InsertNode(child.st, child.node)
  <2>3. child.node \in Node /\ child.st \in Stores /\ DOMAIN st \subseteq DOMAIN child.st
    BY <2>1, AnswerFields
  <2>4. m \in Node
    BY <2>2, <2>3, ReplaceChildType
  <2>5. s \in Stores /\ DOMAIN s = DOMAIN child.st \cup {Hash(child.node)}
    BY <2>3, InsertNodeType
  <2>6. Astray(n, i, child) \in BOOLEAN
    BY <2>1, AnswerFields DEF Astray
  <2> HIDE DEF r, m, s
  <2>7. r \in Answers(st)
    BY <1>4, <2>3, <2>4, <2>5, <2>6 DEF Answers, m, s
  <2> QED BY <2>7 DEF r
<1> QED BY <1>1, <1>2, <1>3, <1>4

(***************************************************************************)
(* delete answers with a node and a storage that has lost nothing.         *)
(***************************************************************************)
LEMMA NodeDeleteType ==
    ASSUME NEW st \in Stores, NEW n \in Node, NEW key \in Keys
    PROVE  NodeDelete(n, key, st) \in Answers(st)
<1> DEFINE C == Calls(n, st)
           N == Cardinality(DOMAIN st)
           G == AnswersFor(C, N, st)
<1>0. N \in Nat /\ 0 \in 0..N /\ N \in 0..N /\ \A d \in 1..N : d \in 0..N /\ d - 1 \in 0..N
  BY StoreFields
<1>1. \A d \in 0..N : \A c \in C : G[d][c] = Answers(st)
  BY DEF AnswersFor
<1>2. ASSUME NEW c \in C
      PROVE  GetNode(st, c[1]) \in Node /\ Hash(GetNode(st, c[1])) = c[1]
  <2>1. c[1] \in DOMAIN st
    BY DEF Calls
  <2> QED BY <2>1, StoreFields
<1>3. ASSUME NEW c \in C PROVE Answer(GetNode(st, c[1]), st) \in G[0][c]
  BY <1>0, <1>1, <1>2, UnchangedType
<1> HIDE DEF N, G
<1>4. ASSUME NEW d \in 1..N, NEW below, Answered(below, C, G[d - 1]), NEW c \in C
      PROVE  DeleteVia(GetNode(st, c[1]), key, st, <<c[2]>>, below) \in G[d][c]
  <2> DEFINE m == GetNode(st, c[1])
             i == ChildIndex(m, key)
  <2>1. m \in Node /\ Hash(m) = c[1] /\ c[1] \in DOMAIN st
    BY <1>2 DEF Calls
  <2>2. ASSUME Leads(m, i, st) PROVE below[<<m.vals[i], Hash(m)>>] \in Answers(st)
    <3>1. <<m.vals[i], Hash(m)>> \in C
      BY <2>1, <2>2 DEF Leads, Calls
    <3> QED BY <1>0, <1>1, <1>4, <3>1 DEF Answered
  <2> HIDE DEF m
  <2>3. DeleteVia(m, key, st, <<c[2]>>, below) \in Answers(st)
    BY <2>1, <2>2, DeleteViaType
  <2> QED BY <1>0, <1>1, <2>3 DEF m
<1>5. PICK below : /\ Answered(below, C, G[N])
                   /\ NodeDelete(n, key, st) = DeleteVia(n, key, st, <<>>, below)
  <2>1. C = Calls(n, st) /\ N = Cardinality(DOMAIN st)
    BY DEF N
  <2> HIDE DEF C
  <2>2. DeleteSteps(st, key, C, N, G)
    BY <1>3, <1>4 DEF DeleteSteps
  <2> QED BY <2>1, <2>2, DeleteInduction
<1>6. ASSUME Leads(n, ChildIndex(n, key), st)
      PROVE  below[<<n.vals[ChildIndex(n, key)], Hash(n)>>] \in Answers(st)
  <2>1. <<n.vals[ChildIndex(n, key)], Hash(n)>> \in C
    BY <1>6 DEF Leads, Calls
  <2> QED BY <1>0, <1>1, <1>5, <2>1 DEF Answered
<1> QED BY <1>5, <1>6, DeleteViaType

(* Loops over the storage st.                                              *)
Loops(st) ==
    {r \in [ok : BOOLEAN, node : Node, st : Stores, saved : SUBSET Digests, strayed : BOOLEAN] :
       DOMAIN st \subseteq DOMAIN r.st /\ r.saved \subseteq DOMAIN r.st}

(***************************************************************************)
(* A loop goes on from an answer, or fails where it is.                    *)
(***************************************************************************)
LEMMA AfterType ==
    ASSUME NEW st, NEW r \in Loops(st), NEW a \in Answers(r.st), NEW saved \in SUBSET DOMAIN a.st
    PROVE  /\ After(r, a, saved) \in Loops(st)
           /\ Failed(r) \in Loops(st)
<1>1. Failed(r) \in Loops(st)
  BY DEF Failed, Loops
<1>2. a.node \in Node /\ a.st \in Stores /\ a.strayed \in BOOLEAN /\ DOMAIN r.st \subseteq DOMAIN a.st
  BY AnswerFields
<1>3. r.strayed \in BOOLEAN /\ DOMAIN st \subseteq DOMAIN r.st /\ r.saved \subseteq DOMAIN r.st
  BY DEF Loops
<1>4. DOMAIN a.st \subseteq Digests
  BY <1>2, StoreFields
<1> DEFINE x == r.saved \cup saved
           y == r.strayed \/ a.strayed
<1>5. x \in SUBSET Digests /\ x \subseteq DOMAIN a.st /\ y \in BOOLEAN
  BY <1>2, <1>3, <1>4
<1>6. After(r, a, saved) = [ok |-> TRUE, node |-> a.node, st |-> a.st, saved |-> x, strayed |-> y]
  BY DEF After
<1> HIDE DEF x, y
<1> QED BY <1>1, <1>2, <1>3, <1>5, <1>6 DEF Loops

(***************************************************************************)
(* The steps of the three loops go from a loop to a loop.                  *)
(***************************************************************************)
LEMMA NextTypesOf ==
    ASSUME NEW st, NEW r \in Loops(st), NEW k \in Keys, NEW v \in Universe
    PROVE  /\ InsertNext(r, k, v) \in Loops(st)
           /\ DeleteNext(r, k) \in Loops(st)
           /\ ApplyResult(r, k, v) \in Loops(st)
           /\ ApplyResult(r, k, Absent) \in Loops(st)
<1>0. r.node \in Node /\ r.st \in Stores
  BY DEF Loops
<1> DEFINE ins == NodeInsert(r.node, k, v, r.st)
           del == NodeDelete(r.node, k, r.st)
<1>1. ins \in Answers(r.st) /\ del \in Answers(r.st)
  BY <1>0, NodeInsertType, NodeDeleteType
<1> HIDE DEF ins, del
<1>2. After(r, ins, {}) \in Loops(st) /\ After(r, del, {}) \in Loops(st) /\ Failed(r) \in Loops(st)
  BY <1>1, AfterType
<1>3. InsertNext(r, k, v) \in Loops(st)
  BY <1>2 DEF InsertNext, ins
<1>4. DeleteNext(r, k) \in Loops(st)
  BY <1>2 DEF DeleteNext, del
<1>5. ASSUME NEW done \in {ins, del}
      PROVE  After(r, [done EXCEPT !.st = InsertNode(done.st, done.node)], {Hash(done.node)}) \in Loops(st)
  <2> DEFINE s == InsertNode(done.st, done.node)
             a == [done EXCEPT !.st = s]
             h == Hash(done.node)
  <2>1. done \in Answers(r.st) /\ done.node \in Node /\ done.st \in Stores
        /\ DOMAIN r.st \subseteq DOMAIN done.st
    BY <1>1, AnswerFields
  <2>2. s \in Stores /\ DOMAIN s = DOMAIN done.st \cup {h}
    BY <2>1, InsertNodeType
  <2>3. a \in Answers(r.st)
    <3> HIDE DEF s, h
    <3> QED BY <2>1, <2>2 DEF Answers
  <2>4. a.st = s /\ a.node = done.node /\ a.strayed = done.strayed
    BY <2>1 DEF Answers
  <2>5. After(r, a, {h}) \in Loops(st)
    <3>1. {h} \in SUBSET DOMAIN a.st
      BY <2>2, <2>4
    <3> HIDE DEF a, h
    <3> QED BY <2>3, <3>1, AfterType
  <2> QED BY <2>5
<1>6. ApplyResult(r, k, v) \in Loops(st) /\ ApplyResult(r, k, Absent) \in Loops(st)
  <2>1. ASSUME NEW side, NEW done, done = IF side = Absent THEN del ELSE NodeInsert(r.node, k, side, r.st),
               done \in {ins, del}
        PROVE  ApplyResult(r, k, side) \in Loops(st)
    BY <1>2, <1>5, <2>1 DEF ApplyResult, KeptAfter, del
  <2> QED BY <2>1 DEF ins
<1> QED BY <1>3, <1>4, <1>6

(* Loops whose root is stored as it is in memory.                          *)
SavedLoops(st) ==
    {r \in Loops(st) : Hash(r.node) \in DOMAIN r.st /\ r.st[Hash(r.node)].leaf = r.node.leaf}

(***************************************************************************)
(* The same, with the value of each step quantified.                       *)
(***************************************************************************)
LEMMA NextTypes ==
    ASSUME NEW st, NEW r \in Loops(st), NEW k \in Keys
    PROVE  /\ \A v \in Universe : InsertNext(r, k, v) \in Loops(st)
           /\ DeleteNext(r, k) \in Loops(st)
           /\ \A v \in Universe \cup {Absent} : ApplyResult(r, k, v) \in Loops(st)
<1>1. <<<<>>, <<>>>> \in Universe
  <2>1. EmptyRoot \in Node
    BY DEF EmptyRoot, MakeNode, Node
  <2>2. Hash(EmptyRoot) \in Universe /\ Hash(EmptyRoot) = <<<<>>, <<>>>>
    BY <2>1, NodeFields DEF Hash, EmptyRoot, MakeNode
  <2> QED BY <2>2
<1> QED BY <1>1, NextTypesOf

(***************************************************************************)
(* A step of a merge leaves its root stored.                               *)
(***************************************************************************)
LEMMA ApplyType ==
    ASSUME NEW st, NEW r \in SavedLoops(st), NEW k \in Keys, NEW v \in Universe \cup {Absent}
    PROVE  ApplyResult(r, k, v) \in SavedLoops(st)
<1> DEFINE done == IF v = Absent THEN NodeDelete(r.node, k, r.st)
                   ELSE NodeInsert(r.node, k, v, r.st)
           s == InsertNode(done.st, done.node)
           kept == [done EXCEPT !.st = s]
           q == ApplyResult(r, k, v)
<1>1. r \in Loops(st) /\ r.node \in Node /\ r.st \in Stores
  BY DEF SavedLoops, Loops
<1>2. q \in Loops(st)
  BY <1>1, NextTypes
<1>3. done \in Answers(r.st)
  BY <1>1, NodeInsertType, NodeDeleteType
<1>4. q = After(r, kept, {Hash(done.node)}) \/ q = Failed(r)
  BY DEF ApplyResult, KeptAfter
<1> HIDE DEF q, done
<1>5. done.node \in Node /\ done.st \in Stores
  BY <1>3, AnswerFields
<1>6. s[Hash(done.node)] = done.node /\ Hash(done.node) \in DOMAIN s
  BY <1>5, InsertNodeType
<1>7. kept.node = done.node /\ kept.st = s
  BY <1>3 DEF Answers
<1> HIDE DEF s, kept
<1>8. CASE q = After(r, kept, {Hash(done.node)})
  <2>1. q.node = done.node /\ q.st = s
    BY <1>7, <1>8 DEF After
  <2> QED BY <1>2, <1>6, <2>1 DEF SavedLoops, q
<1>9. CASE q = Failed(r)
  <2>1. q.node = r.node /\ q.st = r.st
    BY <1>1, <1>9 DEF Failed, Loops
  <2>2. Hash(r.node) \in DOMAIN r.st /\ r.st[Hash(r.node)].leaf = r.node.leaf
    BY DEF SavedLoops
  <2> QED BY <1>2, <2>1, <2>2 DEF SavedLoops, q
<1> QED BY <1>4, <1>8, <1>9

-----------------------------------------------------------------------------
(* The loops of the batch calls and the merge                              *)

Chosen(results, k) == CHOOSE side \in results[k] : TRUE

(* The loops of the batches and of a merge, j calls after they began.       *)
InsertRun(N, a, order, batch) ==
    CHOOSE f : f = [j \in 0..N |-> IF j = 0 THEN a
                                   ELSE InsertNext(f[j - 1], order[j], batch[order[j]])]

DeleteRun(N, a, order) ==
    CHOOSE f : f = [j \in 0..N |-> IF j = 0 THEN a ELSE DeleteNext(f[j - 1], order[j])]

MergeRun(N, a, order, results) ==
    CHOOSE f : f = [j \in 0..N |-> IF j = 0 THEN a
                                   ELSE ApplyResult(f[j - 1], order[j],
                                                    Chosen(results, order[j]))]

(***************************************************************************)
(* What a step of insert_batch keeps, the loop keeps.                      *)
(***************************************************************************)
LEMMA InsertLoop ==
    ASSUME NEW N \in Nat, NEW V, NEW a \in V, NEW order, NEW batch,
           \A j \in 1..N, v \in V : InsertNext(v, order[j], batch[order[j]]) \in V
    PROVE  InsertRun(N, a, order, batch)[N] \in V
<1> DEFINE F(j, v) == InsertNext(v, order[j], batch[order[j]])
           S == [j \in 1..N |-> [v \in V |-> F(j, v)]]
           loop == CHOOSE f : f = [j \in 0..N |-> IF j = 0 THEN a ELSE F(j, f[j - 1])]
<1>0. \A j \in 1..N, v \in V : F(j, v) \in V
  OBVIOUS
<1> HIDE DEF F
<1>1. \A j \in 1..N, v \in V : S[j][v] = F(j, v) /\ S[j][v] \in V
  BY <1>0
<1> HIDE DEF S
<1>2. PICK g : Iterates(g, N, V, a, S)
  BY <1>1, RecursiveFunction DEF Steps
<1>3. g = [j \in 0..N |-> IF j = 0 THEN a ELSE F(j, g[j - 1])]
  <2>1. \A j \in 1..N : g[j - 1] \in V
    BY <1>2 DEF Iterates
  <2>2. \A j \in 1..N : g[j] = F(j, g[j - 1])
    BY <1>1, <1>2, <2>1 DEF Iterates
  <2> QED BY <1>2, <2>2 DEF Iterates
<1>4. loop = [j \in 0..N |-> IF j = 0 THEN a ELSE F(j, loop[j - 1])]
  BY <1>3
<1> HIDE DEF loop
<1> DEFINE T == {j \in 0..N : loop[j] \in V}
<1>5. 0 \in T /\ \A j \in 1..N : j - 1 \in T => j \in T
  BY <1>0, <1>4
<1>6. loop[N] \in V
  <2> HIDE DEF T
  <2>1. 0..N \subseteq T
    BY <1>5, StepByStep
  <2> QED BY <2>1 DEF T
<1> QED BY <1>6 DEF loop, F, InsertRun

(***************************************************************************)
(* What a step of delete_batch keeps, the loop keeps.                      *)
(***************************************************************************)
LEMMA DeleteLoop ==
    ASSUME NEW N \in Nat, NEW V, NEW a \in V, NEW order,
           \A j \in 1..N, v \in V : DeleteNext(v, order[j]) \in V
    PROVE  DeleteRun(N, a, order)[N] \in V
<1> DEFINE F(j, v) == DeleteNext(v, order[j])
           S == [j \in 1..N |-> [v \in V |-> F(j, v)]]
           loop == CHOOSE f : f = [j \in 0..N |-> IF j = 0 THEN a ELSE F(j, f[j - 1])]
<1>0. \A j \in 1..N, v \in V : F(j, v) \in V
  OBVIOUS
<1> HIDE DEF F
<1>1. \A j \in 1..N, v \in V : S[j][v] = F(j, v) /\ S[j][v] \in V
  BY <1>0
<1> HIDE DEF S
<1>2. PICK g : Iterates(g, N, V, a, S)
  BY <1>1, RecursiveFunction DEF Steps
<1>3. g = [j \in 0..N |-> IF j = 0 THEN a ELSE F(j, g[j - 1])]
  <2>1. \A j \in 1..N : g[j - 1] \in V
    BY <1>2 DEF Iterates
  <2>2. \A j \in 1..N : g[j] = F(j, g[j - 1])
    BY <1>1, <1>2, <2>1 DEF Iterates
  <2> QED BY <1>2, <2>2 DEF Iterates
<1>4. loop = [j \in 0..N |-> IF j = 0 THEN a ELSE F(j, loop[j - 1])]
  BY <1>3
<1> HIDE DEF loop
<1> DEFINE T == {j \in 0..N : loop[j] \in V}
<1>5. 0 \in T /\ \A j \in 1..N : j - 1 \in T => j \in T
  BY <1>0, <1>4
<1>6. loop[N] \in V
  <2> HIDE DEF T
  <2>1. 0..N \subseteq T
    BY <1>5, StepByStep
  <2> QED BY <2>1 DEF T
<1> QED BY <1>6 DEF loop, F, DeleteRun

(***************************************************************************)
(* What a step of apply_merge_results keeps, the loop keeps.               *)
(***************************************************************************)
LEMMA MergeLoop ==
    ASSUME NEW N \in Nat, NEW V, NEW a \in V, NEW order, NEW results,
           \A j \in 1..N, v \in V :
             ApplyResult(v, order[j], Chosen(results, order[j])) \in V
    PROVE  MergeRun(N, a, order, results)[N] \in V
<1> DEFINE F(j, v) == ApplyResult(v, order[j], Chosen(results, order[j]))
           S == [j \in 1..N |-> [v \in V |-> F(j, v)]]
           loop == CHOOSE f : f = [j \in 0..N |-> IF j = 0 THEN a ELSE F(j, f[j - 1])]
<1>0. \A j \in 1..N, v \in V : F(j, v) \in V
  OBVIOUS
<1> HIDE DEF F
<1>1. \A j \in 1..N, v \in V : S[j][v] = F(j, v) /\ S[j][v] \in V
  BY <1>0
<1> HIDE DEF S
<1>2. PICK g : Iterates(g, N, V, a, S)
  BY <1>1, RecursiveFunction DEF Steps
<1>3. g = [j \in 0..N |-> IF j = 0 THEN a ELSE F(j, g[j - 1])]
  <2>1. \A j \in 1..N : g[j - 1] \in V
    BY <1>2 DEF Iterates
  <2>2. \A j \in 1..N : g[j] = F(j, g[j - 1])
    BY <1>1, <1>2, <2>1 DEF Iterates
  <2> QED BY <1>2, <2>2 DEF Iterates
<1>4. loop = [j \in 0..N |-> IF j = 0 THEN a ELSE F(j, loop[j - 1])]
  BY <1>3
<1> HIDE DEF loop
<1> DEFINE T == {j \in 0..N : loop[j] \in V}
<1>5. 0 \in T /\ \A j \in 1..N : j - 1 \in T => j \in T
  BY <1>0, <1>4
<1>6. loop[N] \in V
  <2> HIDE DEF T
  <2>1. 0..N \subseteq T
    BY <1>5, StepByStep
  <2> QED BY <2>1 DEF T
<1> QED BY <1>6 DEF loop, F, MergeRun

(***************************************************************************)
(* The value a node has for a key is one of its values, or absent.         *)
(***************************************************************************)
LEMMA SideType ==
    ASSUME NEW n \in Node, NEW k
    PROVE  /\ k \in Range(n.keys) =>
                \E i \in 1..Len(n.vals) : n.keys[i] = k /\ ValueIn(n, k) = n.vals[i]
           /\ Side(n, k) \in Universe \cup {Absent}
<1> DEFINE S == {i \in 1..Len(n.keys) : n.keys[i] = k}
<1>1. /\ n.keys \in Seq(Keys) /\ n.vals \in Seq(Universe) /\ Len(n.vals) = Len(n.keys)
      /\ DOMAIN n.keys = 1..Len(n.keys)
  BY NodeFields, LenProperties
<1>2. ASSUME k \in Range(n.keys)
      PROVE  \E i \in 1..Len(n.vals) : n.keys[i] = k /\ ValueIn(n, k) = n.vals[i]
  <2>1. S # {} /\ S \in SUBSET Nat
    BY <1>1, <1>2 DEF Range
  <2>2. Min(S) \in S
    <3> HIDE DEF S
    <3> QED BY <2>1, MinOf
  <2> QED BY <1>1, <2>2 DEF ValueIn
<1>3. \A i \in 1..Len(n.vals) : n.vals[i] \in Universe
  BY <1>1, ElementOfSeq
<1> QED BY <1>2, <1>3 DEF Side

(***************************************************************************)
(* A resolver answers with one of the two sides, or none.                  *)
(***************************************************************************)
LEMMA ResolveChooses ==
    ASSUME NEW resolver, NEW x, NEW y
    PROVE  R!Resolve(resolver, x, y) \subseteq {x, y}
BY DEF R!Resolve, R!Present, R!Later, NoTimestamp, KeepSource

(***************************************************************************)
(* A merge result is a side of the source or of the destination, for a key *)
(* of the source or of the base.                                           *)
(***************************************************************************)
LEMMA MergeResultsType ==
    ASSUME NEW s, NEW d, NEW b, NEW resolver, NEW k \in DOMAIN MergeResults(s, d, b, resolver),
           MergeResults(s, d, b, resolver)[k] # {}
    PROVE  /\ k \in Range(s.keys) \cup Range(b.keys)
           /\ Chosen(MergeResults(s, d, b, resolver), k) \in {Side(s, k), Side(d, k)}
<1> DEFINE m == MergeResults(s, d, b, resolver)
           c == Chosen(m, k)
<1>1. k \in Diff(b, s)
  BY DEF MergeResults
<1>2. m[k] \subseteq {Side(s, k), Side(d, k)}
  BY <1>1, ResolveChooses DEF MergeResults
<1>3. c \in m[k]
  <2>1. m[k] # {}
    OBVIOUS
  <2> HIDE DEF m
  <2> QED BY <2>1 DEF Chosen
<1> QED BY <1>1, <1>2, <1>3 DEF Diff

(* A sequence that orders the finite set S.                                *)
LEMMA Ordered ==
    ASSUME NEW S, IsFiniteSet(S), NEW order \in SetToSeqs(S)
    PROVE  /\ order \in Seq(S) /\ Len(order) \in Nat
           /\ \A j \in 1..Len(order) : order[j] \in S
<1>1. Cardinality(S) \in Nat /\ order \in [1..Cardinality(S) -> S]
  BY FS_CardinalityType DEF SetToSeqs
<1>2. order \in Seq(S)
  BY <1>1, SeqDef
<1> QED BY <1>2, LenProperties, ElementOfSeq

(***************************************************************************)
(* The elements of a sequence are finitely many.                           *)
(***************************************************************************)
LEMMA RangeFinite ==
    ASSUME NEW S, NEW s \in Seq(S)
    PROVE  IsFiniteSet(Range(s)) /\ Range(s) \subseteq S
<1> DEFINE N == Len(s)
<1>1. N \in Nat /\ DOMAIN s = 1..N /\ \A i \in 1..N : s[i] \in S
  BY LenProperties, ElementOfSeq
<1>2. IsFiniteSet(1..N)
  BY <1>1, FS_Interval
<1> DEFINE f == [i \in 1..N |-> s[i]]
<1>3. f \in Surjection(1..N, Range(s))
  BY <1>1 DEF Surjection, Range
<1> HIDE DEF f
<1>4. IsFiniteSet(Range(s))
  BY <1>2, <1>3, FS_Surjection
<1> QED BY <1>1, <1>4 DEF Range

-----------------------------------------------------------------------------
(* The types of the tree, operation by operation                           *)

Typing ==
    /\ root \in Node
    /\ store \in Stores
    /\ savedRoot = <<>> \/ \E h \in DOMAIN store : savedRoot = <<h>>
    /\ roots \subseteq DOMAIN store
    /\ strayed \in BOOLEAN
    /\ ops \in 0..MaxOps

(***************************************************************************)
(* The empty root is a node, the empty storage a storage.                  *)
(***************************************************************************)
LEMMA EmptyTree ==
    /\ EmptyRoot \in Node
    /\ EmptyStore \in Stores
<1>1. EmptyRoot \in Node
  BY DEF EmptyRoot, MakeNode, Node
<1>2. EmptyStore \in [{} -> Node]
  BY DEF EmptyStore
<1>3. EmptyStore \in Stores
  <2>1. {} \in SUBSET Digests /\ IsFiniteSet({}) /\ \A h \in {} : Hash(EmptyStore[h]) = h
    BY FS_EmptySet
  <2> QED BY <1>2, <2>1, StoreIs
<1> QED BY <1>1, <1>3

(***************************************************************************)
(* A call is one the client may make, and counted.                         *)
(***************************************************************************)
LEMMA CallCounts ==
    ASSUME Typing, NEW name, NEW arg, NEW answer, Call(name, arg, answer)
    PROVE  ops' \in 0..MaxOps /\ name \in Enabled
BY TreeAssumption DEF Typing, Call

(***************************************************************************)
(* A call that ends in persist_root keeps the types and loses no node.     *)
(***************************************************************************)
LEMMA PersistTyping ==
    ASSUME Typing, ops' \in 0..MaxOps, NEW r,
           r.node \in Node, r.st \in Stores, r.strayed \in BOOLEAN, DOMAIN store \subseteq DOMAIN r.st,
           Persist(r)
    PROVE  Typing' /\ DOMAIN store \subseteq DOMAIN store'
<1>1. /\ root' = r.node /\ store' = InsertNode(r.st, r.node) /\ savedRoot' = <<Hash(r.node)>>
      /\ roots' = roots \cup {Hash(r.node)} /\ strayed' = (strayed \/ r.strayed)
  BY DEF Persist
<1>2. store' \in Stores /\ DOMAIN store' = DOMAIN r.st \cup {Hash(r.node)}
  BY <1>1, InsertNodeType
<1>3. roots \subseteq DOMAIN store /\ strayed \in BOOLEAN
  BY DEF Typing
<1>4. roots' \subseteq DOMAIN store' /\ DOMAIN store \subseteq DOMAIN store'
  BY <1>1, <1>2, <1>3
<1>5. strayed' \in BOOLEAN
  BY <1>1, <1>3
<1>6. \E h \in DOMAIN store' : savedRoot' = <<h>>
  BY <1>1, <1>2
<1> QED BY <1>1, <1>2, <1>4, <1>5, <1>6 DEF Typing

(***************************************************************************)
(* A call that changes nothing keeps the types.                            *)
(***************************************************************************)
LEMMA SameTyping ==
    ASSUME Typing, ops' \in 0..MaxOps, UNCHANGED <<root, store, savedRoot, roots, strayed>>
    PROVE  Typing' /\ DOMAIN store \subseteq DOMAIN store'
BY DEF Typing

(***************************************************************************)
(* A batch call, which leaves its root in memory, keeps the types.         *)
(***************************************************************************)
LEMMA UnsavedTyping ==
    ASSUME Typing, ops' \in 0..MaxOps, NEW r \in Loops(store), Unsaved(r)
    PROVE  Typing' /\ DOMAIN store \subseteq DOMAIN store'
<1>1. /\ root' = r.node /\ store' = r.st /\ savedRoot' = savedRoot
      /\ roots' = roots /\ strayed' = (strayed \/ r.strayed)
  BY DEF Unsaved
<1>2. r.node \in Node /\ r.st \in Stores /\ r.strayed \in BOOLEAN /\ DOMAIN store \subseteq DOMAIN r.st
  BY DEF Loops
<1>3. /\ roots \subseteq DOMAIN store /\ strayed \in BOOLEAN
      /\ savedRoot = <<>> \/ \E h \in DOMAIN store : savedRoot = <<h>>
  BY DEF Typing
<1>4. roots' \subseteq DOMAIN store' /\ strayed' \in BOOLEAN
  BY <1>1, <1>2, <1>3
<1>5. savedRoot' = <<>> \/ \E h \in DOMAIN store' : savedRoot' = <<h>>
  BY <1>1, <1>2, <1>3
<1> QED BY <1>1, <1>2, <1>4, <1>5 DEF Typing

(***************************************************************************)
(* A loop may start with the root in memory, a merge with any stored root. *)
(***************************************************************************)
LEMMA LoopType ==
    ASSUME Typing
    PROVE  /\ Loop \in Loops(store)
           /\ \A h \in DOMAIN store : [Loop EXCEPT !.node = GetNode(store, h)] \in SavedLoops(store)
<1>1. root \in Node /\ store \in Stores
  BY DEF Typing
<1>2. Loop \in Loops(store)
  BY <1>1 DEF Loop, Loops
<1>3. ASSUME NEW h \in DOMAIN store
      PROVE  [Loop EXCEPT !.node = GetNode(store, h)] \in SavedLoops(store)
  <2> DEFINE g == GetNode(store, h)
             r == [Loop EXCEPT !.node = g]
  <2>1. g \in Node /\ Hash(g) = h /\ g.leaf = store[h].leaf
    BY <1>1, StoreFields
  <2> HIDE DEF g
  <2>2. r \in Loops(store) /\ r.node = g /\ r.st = store
    BY <1>1, <2>1 DEF Loop, Loops
  <2> HIDE DEF r
  <2>3. r \in SavedLoops(store)
    BY <2>1, <2>2 DEF SavedLoops
  <2> QED BY <2>3 DEF r, g
<1> QED BY <1>2, <1>3

(***************************************************************************)
(* insert and update keep the types and lose no node.                      *)
(***************************************************************************)
LEMMA InsertTyping ==
    ASSUME Typing, NEW k \in Keys, NEW v \in Values, Insert(k, v) \/ Update(k, v)
    PROVE  Typing' /\ DOMAIN store \subseteq DOMAIN store'
<1>1. root \in Node /\ store \in Stores /\ v \in Universe
  BY UniverseClosed DEF Typing
<1> DEFINE r == NodeInsert(root, k, v, store)
<1>2. r \in Answers(store)
  BY <1>1, NodeInsertType
<1> HIDE DEF r
<1>3. /\ r.node \in Node /\ r.st \in Stores /\ r.strayed \in BOOLEAN
      /\ DOMAIN store \subseteq DOMAIN r.st
  BY <1>2, AnswerFields
<1>4. ops' \in 0..MaxOps
  BY CallCounts DEF Insert, Update
<1>5. CASE Persist(r)
  BY <1>3, <1>4, <1>5, PersistTyping
<1>6. CASE UNCHANGED <<root, store, savedRoot, roots, strayed>>
  BY <1>4, <1>6, SameTyping
<1>7. Persist(r) \/ UNCHANGED <<root, store, savedRoot, roots, strayed>>
  BY DEF Insert, Update, r
<1> QED BY <1>5, <1>6, <1>7

(***************************************************************************)
(* delete keeps the types and loses no node.                               *)
(***************************************************************************)
LEMMA DeleteTyping ==
    ASSUME Typing, NEW k \in Keys, Delete(k)
    PROVE  Typing' /\ DOMAIN store \subseteq DOMAIN store'
<1>1. root \in Node /\ store \in Stores
  BY DEF Typing
<1> DEFINE r == NodeDelete(root, k, store)
<1>2. r \in Answers(store)
  BY <1>1, NodeDeleteType
<1>0. DeleteFrom(k, r)
  BY DEF Delete
<1> HIDE DEF r
<1>3. /\ r.node \in Node /\ r.st \in Stores /\ r.strayed \in BOOLEAN
      /\ DOMAIN store \subseteq DOMAIN r.st
  BY <1>2, AnswerFields
<1>4. ops' \in 0..MaxOps
  BY <1>0, CallCounts DEF DeleteFrom
<1>5. CASE Persist(r)
  BY <1>3, <1>4, <1>5, PersistTyping
<1>6. CASE UNCHANGED <<root, store, savedRoot, roots, strayed>>
  BY <1>4, <1>6, SameTyping
<1>7. Persist(r) \/ UNCHANGED <<root, store, savedRoot, roots, strayed>>
  BY <1>0 DEF DeleteFrom
<1> QED BY <1>5, <1>6, <1>7

(***************************************************************************)
(* What a step of insert_batch keeps is true of the end of any batch.      *)
(***************************************************************************)
LEMMA InsertBatchEnds ==
    ASSUME NEW batch \in Batches, NEW order \in InSortedOrder(DOMAIN batch), NEW V, NEW a \in V,
           \A r \in V, k \in Keys, v \in Values : InsertNext(r, k, v) \in V
    PROVE  InsertRun(Len(order), a, order, batch)[Len(order)] \in V
<1>1. /\ IsFiniteSet(DOMAIN batch) /\ DOMAIN batch \subseteq Keys
      /\ \A k \in DOMAIN batch : batch[k] \in Values
  BY TreeAssumption
<1>2. order \in SetToSeqs(DOMAIN batch)
  BY DEF InSortedOrder
<1>3. Len(order) \in Nat /\ \A j \in 1..Len(order) : order[j] \in DOMAIN batch
  BY <1>1, <1>2, Ordered
<1> DEFINE N == Len(order)
<1>4. N \in Nat /\ \A j \in 1..N, r \in V : InsertNext(r, order[j], batch[order[j]]) \in V
  BY <1>1, <1>3
<1> HIDE DEF N
<1>5. InsertRun(N, a, order, batch)[N] \in V
  BY <1>4, InsertLoop
<1> QED BY <1>5 DEF N

(***************************************************************************)
(* What a step of delete_batch keeps is true of the end of any batch.      *)
(***************************************************************************)
LEMMA DeleteBatchEnds ==
    ASSUME NEW batch \in Batches, NEW order \in InSortedOrder(DOMAIN batch), NEW V, NEW a \in V,
           \A r \in V, k \in Keys : DeleteNext(r, k) \in V
    PROVE  DeleteRun(Len(order), a, order)[Len(order)] \in V
<1>1. IsFiniteSet(DOMAIN batch) /\ DOMAIN batch \subseteq Keys
  BY TreeAssumption
<1>2. order \in SetToSeqs(DOMAIN batch)
  BY DEF InSortedOrder
<1>3. Len(order) \in Nat /\ \A j \in 1..Len(order) : order[j] \in DOMAIN batch
  BY <1>1, <1>2, Ordered
<1> DEFINE N == Len(order)
<1>4. N \in Nat /\ \A j \in 1..N, r \in V : DeleteNext(r, order[j]) \in V
  BY <1>1, <1>3
<1> HIDE DEF N
<1>5. DeleteRun(N, a, order)[N] \in V
  BY <1>4, DeleteLoop
<1> QED BY <1>5 DEF N

(***************************************************************************)
(* What a step of a merge keeps, for the sides of the source and of the    *)
(* destination, is true of its end.                                        *)
(***************************************************************************)
LEMMA MergeEnds ==
    ASSUME NEW s \in Node, NEW d \in Node, NEW b \in Node, NEW resolver,
           NEW results, results = MergeResults(s, d, b, resolver),
           \A k \in DOMAIN results : results[k] # {},
           NEW order \in SetToSeqs(DOMAIN results), NEW V, NEW a \in V,
           \A r \in V, k \in Keys : /\ ApplyResult(r, k, Side(s, k)) \in V
                                    /\ ApplyResult(r, k, Side(d, k)) \in V
    PROVE  MergeRun(Len(order), a, order, results)[Len(order)] \in V
<1>1. IsFiniteSet(DOMAIN results) /\ DOMAIN results \subseteq Keys
  <2>1. /\ IsFiniteSet(Range(s.keys)) /\ Range(s.keys) \subseteq Keys
        /\ IsFiniteSet(Range(b.keys)) /\ Range(b.keys) \subseteq Keys
    BY NodeFields, RangeFinite
  <2>2. IsFiniteSet(Range(s.keys) \cup Range(b.keys))
    BY <2>1, FS_Union
  <2>3. DOMAIN results \subseteq Range(s.keys) \cup Range(b.keys)
    BY DEF MergeResults, Diff
  <2> QED BY <2>1, <2>2, <2>3, FS_Subset
<1>2. Len(order) \in Nat /\ \A j \in 1..Len(order) : order[j] \in DOMAIN results
  BY <1>1, Ordered
<1>3. ASSUME NEW k \in DOMAIN results, NEW r \in V
      PROVE  ApplyResult(r, k, Chosen(results, k)) \in V
  <2> DEFINE c == Chosen(results, k)
  <2>1. c \in {Side(s, k), Side(d, k)}
    BY MergeResultsType
  <2>2. k \in Keys
    BY <1>1
  <2> HIDE DEF c
  <2>3. ApplyResult(r, k, c) \in V
    BY <2>1, <2>2
  <2> QED BY <2>3 DEF c
<1> DEFINE N == Len(order)
<1>4. N \in Nat /\ \A j \in 1..N, r \in V :
                     ApplyResult(r, order[j], Chosen(results, order[j])) \in V
  BY <1>2, <1>3
<1> HIDE DEF N
<1>5. MergeRun(N, a, order, results)[N] \in V
  BY <1>4, MergeLoop
<1> QED BY <1>5 DEF N

(***************************************************************************)
(* The batch calls keep the types and lose no node.                        *)
(***************************************************************************)
LEMMA BatchTyping ==
    ASSUME Typing, NEW batch \in Batches, InsertBatch(batch) \/ DeleteBatch(DOMAIN batch)
    PROVE  Typing' /\ DOMAIN store \subseteq DOMAIN store'
<1>1. \A r \in Loops(store), k \in Keys, v \in Values :
        InsertNext(r, k, v) \in Loops(store)
  BY NextTypes, UniverseClosed
<1>6. \A r \in Loops(store), k \in Keys : DeleteNext(r, k) \in Loops(store)
  BY NextTypes
<1>2. Loop \in Loops(store)
  BY LoopType
<1>3. ops' \in 0..MaxOps
  BY CallCounts DEF InsertBatch, DeleteBatch
<1>4. CASE InsertBatch(batch)
  <2>1. PICK order \in InSortedOrder(DOMAIN batch) :
          Unsaved(InsertRun(Len(order), Loop, order, batch)[Len(order)])
    BY <1>4 DEF InsertBatch, InsertRun
  <2>2. InsertRun(Len(order), Loop, order, batch)[Len(order)] \in Loops(store)
    BY <1>1, <1>2, InsertBatchEnds
  <2> QED BY <1>3, <2>1, <2>2, UnsavedTyping
<1>5. CASE DeleteBatch(DOMAIN batch)
  <2>1. PICK order \in InSortedOrder(DOMAIN batch) :
          Unsaved(DeleteRun(Len(order), Loop, order)[Len(order)])
    BY <1>5 DEF DeleteBatch, DeleteRun
  <2>2. DeleteRun(Len(order), Loop, order)[Len(order)] \in Loops(store)
    BY <1>6, <1>2, DeleteBatchEnds
  <2> QED BY <1>3, <2>1, <2>2, UnsavedTyping
<1> QED BY <1>4, <1>5

(***************************************************************************)
(* The end of a merge keeps the types and loses no node.                   *)
(***************************************************************************)
LEMMA MergedTyping ==
    ASSUME Typing, ops' \in 0..MaxOps, NEW r \in SavedLoops(store), Merged(r)
    PROVE  Typing' /\ DOMAIN store \subseteq DOMAIN store'
<1>1. /\ root' = r.node /\ store' = r.st /\ savedRoot' = <<Hash(r.node)>>
      /\ roots' = roots \cup r.saved /\ strayed' = (strayed \/ r.strayed)
  BY DEF Merged
<1>2. /\ r.node \in Node /\ r.st \in Stores /\ r.strayed \in BOOLEAN
      /\ DOMAIN store \subseteq DOMAIN r.st /\ r.saved \subseteq DOMAIN r.st
      /\ Hash(r.node) \in DOMAIN r.st
  BY DEF SavedLoops, Loops
<1>3. roots \subseteq DOMAIN store /\ strayed \in BOOLEAN
  BY DEF Typing
<1>4. roots' \subseteq DOMAIN store' /\ strayed' \in BOOLEAN
  BY <1>1, <1>2, <1>3
<1>5. \E h \in DOMAIN store' : savedRoot' = <<h>>
  BY <1>1, <1>2
<1> QED BY <1>1, <1>2, <1>4, <1>5 DEF Typing

(***************************************************************************)
(* merge_trees keeps the types and loses no node.                          *)
(***************************************************************************)
LEMMA MergeTyping ==
    ASSUME Typing, NEW s \in roots, NEW b \in roots, NEW resolver, MergeTrees(s, b, resolver)
    PROVE  Typing' /\ DOMAIN store \subseteq DOMAIN store'
<1> DEFINE d == savedRoot[1]
           results == MergeResults(store[s], store[d], store[b], resolver)
           open == {k \in DOMAIN results : results[k] = {}}
           start == [Loop EXCEPT !.node = GetNode(store, d)]
<1>1. /\ savedRoot # <<>>
      /\ ops' \in 0..MaxOps
      /\ \/ UNCHANGED <<root, store, savedRoot, roots, strayed>>
         \/ /\ open = {}
            /\ \E order \in SetToSeqs(DOMAIN results) :
                 Merged(MergeRun(Len(order), start, order, results)[Len(order)])
  BY CallCounts DEF MergeTrees, MergeRun, Chosen
<1>2. s \in DOMAIN store /\ b \in DOMAIN store /\ d \in DOMAIN store /\ store \in Stores
  BY <1>1 DEF Typing
<1>3. store[s] \in Node /\ store[b] \in Node /\ store[d] \in Node
  BY <1>2, StoreFields
<1>4. CASE UNCHANGED <<root, store, savedRoot, roots, strayed>>
  BY <1>1, <1>4, SameTyping
<1>5. CASE /\ open = {}
           /\ \E order \in SetToSeqs(DOMAIN results) :
                Merged(MergeRun(Len(order), start, order, results)[Len(order)])
  <2>1. PICK order \in SetToSeqs(DOMAIN results) :
                Merged(MergeRun(Len(order), start, order, results)[Len(order)])
    BY <1>5
  <2>2. \A k \in DOMAIN results : results[k] # {}
    BY <1>5
  <2>3. ASSUME NEW r \in SavedLoops(store), NEW k \in Keys
        PROVE  /\ ApplyResult(r, k, Side(store[s], k)) \in SavedLoops(store)
               /\ ApplyResult(r, k, Side(store[d], k)) \in SavedLoops(store)
    <3>1. \A side \in Universe \cup {Absent} : ApplyResult(r, k, side) \in SavedLoops(store)
      BY ApplyType
    <3> QED BY <1>3, <3>1, SideType
  <2>4. start \in SavedLoops(store)
    BY <1>2, LoopType
  <2>5. results = MergeResults(store[s], store[d], store[b], resolver)
    OBVIOUS
  <2> HIDE DEF results, start, d
  <2> DEFINE r == MergeRun(Len(order), start, order, results)[Len(order)]
  <2>6. r \in SavedLoops(store)
    BY <1>3, <2>2, <2>3, <2>4, <2>5, MergeEnds
  <2>7. Merged(r)
    BY <2>1
  <2> HIDE DEF r
  <2> QED BY <1>1, <2>6, <2>7, MergedTyping
<1> QED BY <1>1, <1>4, <1>5

-----------------------------------------------------------------------------
(* The type invariant                                                      *)

(***************************************************************************)
(* A new tree has the types.                                               *)
(***************************************************************************)
LEMMA InitTyping ==
    Init => Typing
<1> SUFFICES ASSUME Init PROVE Typing
  OBVIOUS
<1>1. root \in Node /\ store \in Stores
  BY EmptyTree DEF Init
<1>2. savedRoot = <<>> /\ roots \subseteq DOMAIN store /\ strayed \in BOOLEAN
  BY DEF Init
<1>3. ops \in 0..MaxOps
  BY TreeAssumption DEF Init
<1> QED BY <1>1, <1>2, <1>3 DEF Typing

(***************************************************************************)
(* persist_root keeps the types and loses no node.                         *)
(***************************************************************************)
LEMMA PersistRootTyping ==
    ASSUME Typing, PersistRoot
    PROVE  Typing' /\ DOMAIN store \subseteq DOMAIN store'
<1>1. ops' \in 0..MaxOps /\ Persist(Loop)
  BY CallCounts DEF PersistRoot
<1>2. /\ Loop.node \in Node /\ Loop.st \in Stores /\ Loop.strayed \in BOOLEAN
      /\ DOMAIN store \subseteq DOMAIN Loop.st
  BY DEF Typing, Loop
<1> QED BY <1>1, <1>2, PersistTyping

(***************************************************************************)
(* load_from_storage keeps the types.                                      *)
(***************************************************************************)
LEMMA ReloadTyping ==
    ASSUME Typing, Reload
    PROVE  Typing' /\ DOMAIN store \subseteq DOMAIN store'
<1>1. /\ ops' \in 0..MaxOps /\ savedRoot[1] \in DOMAIN store
      /\ root' = GetNode(store, savedRoot[1])
      /\ UNCHANGED <<store, savedRoot, roots, strayed>>
  BY CallCounts DEF Reload
<1>2. root' \in Node
  BY <1>1, StoreFields DEF Typing
<1> QED BY <1>1, <1>2 DEF Typing

(***************************************************************************)
(* Every step keeps the types, and no step loses a node.                   *)
(***************************************************************************)
LEMMA NextTyping ==
    ASSUME Typing, [Next]_vars
    PROVE  Typing' /\ DOMAIN store \subseteq DOMAIN store'
<1>1. CASE \E k \in Keys, v \in Values : Insert(k, v) \/ Update(k, v)
  BY <1>1, InsertTyping
<1>2. CASE \E k \in Keys : Delete(k)
  BY <1>2, DeleteTyping
<1>3. CASE \E batch \in Batches : InsertBatch(batch) \/ DeleteBatch(DOMAIN batch)
  BY <1>3, BatchTyping
<1>4. CASE PersistRoot
  BY <1>4, PersistRootTyping
<1>5. CASE Reload
  BY <1>5, ReloadTyping
<1>6. CASE \E s \in roots, b \in roots, resolver \in MergeResolvers : MergeTrees(s, b, resolver)
  BY <1>6, MergeTyping
<1>7. CASE UNCHANGED vars
  BY <1>7 DEF vars, Typing
<1> QED BY <1>1, <1>2, <1>3, <1>4, <1>5, <1>6, <1>7 DEF Next

(***************************************************************************)
(* The inductive form of the type invariant.                               *)
(***************************************************************************)
LEMMA TypingHolds == Spec => []Typing
<1>1. Typing /\ [Next]_vars => Typing'
  BY NextTyping
<1> QED BY InitTyping, <1>1, PTL DEF Spec

(***************************************************************************)
(* It implies the type invariant that TLC checks.                          *)
(***************************************************************************)
LEMMA TypingTypes ==
    Typing => TypeOK
<1> SUFFICES ASSUME Typing PROVE TypeOK
  OBVIOUS
<1>1. DOMAIN root = {"keys", "vals", "leaf", "level", "split", "merged"} /\ Len(root.keys) = Len(root.vals)
  BY NodeFields DEF Typing
<1>2. ASSUME NEW h \in DOMAIN store PROVE Hash(store[h]) = h /\ Len(h[1]) = Len(h[2])
  <2>1. store[h] \in Node /\ Hash(store[h]) = h /\ store[h].keys = h[1] /\ store[h].vals = h[2]
    BY StoreFields DEF Typing
  <2>2. Len(store[h].keys) = Len(store[h].vals)
    BY <2>1, NodeFields
  <2> QED BY <2>1, <2>2
<1>3. roots \cup Range(savedRoot) \subseteq DOMAIN store
  <2>1. Range(savedRoot) \subseteq DOMAIN store
    <3>1. CASE savedRoot = <<>>
      BY <3>1 DEF Range
    <3>2. CASE \E h \in DOMAIN store : savedRoot = <<h>>
      BY <3>2 DEF Range
    <3> QED BY <3>1, <3>2 DEF Typing
  <2> QED BY <2>1 DEF Typing
<1> QED BY <1>1, <1>2, <1>3 DEF TypeOK, Typing

(***************************************************************************)
(* TypeOK, for any keys, values, chunk sizes, hashes and storages: nodes   *)
(* pair keys with values, every stored node is filed under its own digest  *)
(* (get_hash, insert_node), and the digests that the configuration and the *)
(* history name are stored.                                                *)
(***************************************************************************)
THEOREM TypeCorrect == Spec => []TypeOK
BY TypingHolds, TypingTypes, PTL

-----------------------------------------------------------------------------
(* The leaves, and where chunks end                                        *)

FlattenSteps(ss, N, V) ==
    /\ ss[1] \in V[1]
    /\ \A i \in 2..N : \A v \in V[i - 1] : v \o ss[i] \in V[i]

(***************************************************************************)
(* Sequences put together one after the other, through a family of sets.   *)
(***************************************************************************)
LEMMA FlattenInto ==
    ASSUME NEW ss, NEW N \in Nat \ {0}, N = Len(ss), NEW V, FlattenSteps(ss, N, V)
    PROVE  FlattenSeq(ss) \in V[N]
<1> DEFINE M == N - 1
           W == [j \in 0..M |-> V[j + 1]]
           S == [j \in 1..M |-> [v \in W[j - 1] |-> v \o ss[j + 1]]]
           flatten == CHOOSE f : f = [i \in 1..N |-> IF i = 1 THEN ss[i] ELSE f[i - 1] \o ss[i]]
<1>1. FlattenSeq(ss) = flatten[N]
  BY DEF FlattenSeq
<1>2. M \in Nat /\ 0 \in 0..M
  OBVIOUS
<1>3. W[0] = V[1] /\ ss[1] \in W[0]
  BY <1>2 DEF FlattenSteps
<1>4. \A j \in 0..M : W[j] = V[j + 1]
  OBVIOUS
<1>5. \A j \in 1..M : \A v \in W[j - 1] : S[j][v] = v \o ss[j + 1]
  OBVIOUS
<1> HIDE DEF W, S
<1>6. \A j \in 1..M : \A v \in W[j - 1] : v \o ss[j + 1] \in W[j]
  <2> SUFFICES ASSUME NEW j \in 1..M, NEW v \in W[j - 1] PROVE v \o ss[j + 1] \in W[j]
    OBVIOUS
  <2>1. j + 1 \in 2..N /\ (j + 1) - 1 = j /\ j - 1 \in 0..M /\ j \in 0..M /\ (j - 1) + 1 = j
    BY <1>2
  <2>2. v \in V[(j + 1) - 1]
    BY <1>4, <2>1
  <2>3. v \o ss[j + 1] \in V[j + 1]
    BY <2>1, <2>2 DEF FlattenSteps
  <2> QED BY <1>4, <2>1, <2>3
<1>7. PICK g : Unfolds(g, M, W, ss[1], S)
  <2>1. \A j \in 1..M : \A v \in W[j - 1] : S[j][v] \in W[j]
    BY <1>5, <1>6
  <2> HIDE DEF M
  <2> QED BY <1>2, <1>3, <2>1, RecursiveFamily
<1>8. \A j \in 1..M : g[j] = g[j - 1] \o ss[j + 1]
  <2> SUFFICES ASSUME NEW j \in 1..M PROVE g[j] = g[j - 1] \o ss[j + 1]
    OBVIOUS
  <2>1. j - 1 \in 0..M
    BY <1>2
  <2> QED BY <1>5, <1>7, <2>1 DEF Unfolds
<1>9. g[0] = ss[1]
  BY <1>7 DEF Unfolds
<1> DEFINE f == [i \in 1..N |-> g[i - 1]]
<1>10. f = [i \in 1..N |-> IF i = 1 THEN ss[i] ELSE f[i - 1] \o ss[i]]
  <2> SUFFICES ASSUME NEW i \in 1..N PROVE g[i - 1] = IF i = 1 THEN ss[i] ELSE f[i - 1] \o ss[i]
    OBVIOUS
  <2>1. CASE i = 1
    BY <1>9, <2>1
  <2>2. CASE i # 1
    <3>1. i - 1 \in 1..M /\ i - 1 \in 1..N /\ (i - 1) + 1 = i
      BY <2>2
    <3>2. f[i - 1] = g[(i - 1) - 1]
      BY <3>1
    <3>3. g[i - 1] = g[(i - 1) - 1] \o ss[(i - 1) + 1]
      BY <1>8, <3>1
    <3> HIDE DEF f
    <3> QED BY <2>2, <3>1, <3>2, <3>3
  <2> QED BY <2>1, <2>2
<1> HIDE DEF f
<1>11. flatten = [i \in 1..N |-> IF i = 1 THEN ss[i] ELSE flatten[i - 1] \o ss[i]]
  BY <1>10
<1> HIDE DEF flatten
<1> DEFINE T == {j \in 0..M : flatten[j + 1] \in W[j]}
<1>12. 0 \in T
  <2>1. flatten[1] = ss[1]
    BY <1>11
  <2> QED BY <1>2, <1>3, <2>1
<1>13. ASSUME NEW j \in 1..M, j - 1 \in T PROVE j \in T
  <2>1. j + 1 \in 1..N /\ j + 1 # 1 /\ (j + 1) - 1 = (j - 1) + 1 /\ j \in 0..M
    BY <1>2
  <2>2. flatten[j + 1] = flatten[(j - 1) + 1] \o ss[j + 1]
    BY <1>11, <2>1
  <2>3. flatten[(j - 1) + 1] \in W[j - 1]
    BY <1>13
  <2> HIDE DEF M
  <2>4. flatten[j + 1] \in W[j]
    BY <1>6, <2>2, <2>3
  <2> QED BY <2>1, <2>4
<1>14. M \in T
  <2>1. 0..M \subseteq T
    <3> HIDE DEF T, M
    <3> QED BY <1>2, <1>12, <1>13, StepByStep
  <2> HIDE DEF T
  <2> QED BY <1>2, <2>1
<1>15. M + 1 = N /\ M \in 0..M
  BY <1>2
<1> QED BY <1>1, <1>4, <1>14, <1>15

(***************************************************************************)
(* Sequences over S put together are a sequence over S.                    *)
(***************************************************************************)
LEMMA FlattenType ==
    ASSUME NEW S, NEW ss \in Seq(Seq(S))
    PROVE  FlattenSeq(ss) \in Seq(S)
<1> DEFINE N == Len(ss)
           V == [i \in 1..N |-> Seq(S)]
<1>1. N \in Nat /\ \A i \in 1..N : ss[i] \in Seq(S)
  <2>1. N \in Nat
    BY LenProperties
  <2> QED BY <2>1, ElementOfSeq
<1>2. CASE N = 0
  <2>1. ss = <<>>
    BY <1>2, EmptySeq
  <2>2. FlattenSeq(ss) = ss
    BY <1>2 DEF FlattenSeq
  <2>3. <<>> \in Seq(S)
    OBVIOUS
  <2> HIDE DEF N, V
  <2> QED BY <2>1, <2>2, <2>3
<1>3. CASE N # 0
  <2>1. FlattenSteps(ss, N, V)
    <3>1. ss[1] \in V[1]
      BY <1>1, <1>3
    <3>2. \A i \in 2..N : \A v \in V[i - 1] : v \o ss[i] \in V[i]
      <4> SUFFICES ASSUME NEW i \in 2..N, NEW v \in V[i - 1] PROVE v \o ss[i] \in V[i]
        OBVIOUS
      <4>1. i \in 1..N /\ i - 1 \in 1..N
        BY <1>1
      <4>2. v \in Seq(S) /\ ss[i] \in Seq(S)
        BY <1>1, <4>1
      <4>3. v \o ss[i] \in Seq(S)
        BY <4>2, ConcatProperties
      <4> QED BY <4>1, <4>3
    <3> HIDE DEF V
    <3> QED BY <3>1, <3>2 DEF FlattenSteps
  <2>2. V[N] = Seq(S)
    BY <1>1, <1>3
  <2> HIDE DEF V
  <2>3. FlattenSeq(ss) \in V[N]
    <3>1. N \in Nat \ {0} /\ N = Len(ss)
      BY <1>1, <1>3
    <3> HIDE DEF N
    <3> QED BY <2>1, <3>1, FlattenInto
  <2> QED BY <2>2, <2>3
<1> QED BY <1>2, <1>3

(***************************************************************************)
(* The leaves below a node are nodes, if those below its children are.     *)
(***************************************************************************)
LEMMA LeavesFromType ==
    ASSUME NEW st \in Stores, NEW n \in Node, NEW below, \A c \in DOMAIN st : below[c] \in Seq(Node)
    PROVE  LeavesFrom(n, st, below) \in Seq(Node)
<1> DEFINE ss == [i \in 1..Len(n.vals) |-> IF n.vals[i] \in DOMAIN st THEN below[n.vals[i]] ELSE <<>>]
<1>1. Len(n.vals) \in Nat
  BY NodeFields
<1>2. \A i \in 1..Len(n.vals) : ss[i] \in Seq(Node)
  OBVIOUS
<1>3. ss \in Seq(Seq(Node))
  BY <1>1, <1>2, SeqDef
<1>4. LeavesFrom(n, st, below) = IF n.leaf THEN <<n>> ELSE FlattenSeq(ss)
  BY DEF LeavesFrom
<1> HIDE DEF ss
<1>5. FlattenSeq(ss) \in Seq(Node)
  BY <1>3, FlattenType
<1>6. <<n>> \in Seq(Node)
  OBVIOUS
<1> QED BY <1>4, <1>5, <1>6

(***************************************************************************)
(* The leaves below a node are nodes.                                      *)
(***************************************************************************)
LEMMA LeavesType ==
    ASSUME NEW st \in Stores, NEW n \in Node
    PROVE  Leaves(n, st) \in Seq(Node)
<1> DEFINE C == DOMAIN st
           N == Cardinality(DOMAIN st)
           G == [d \in 0..N |-> [c \in C |-> Seq(Node)]]
<1>1. N \in Nat
  BY StoreFields
<1>2. \A d \in 0..N, c \in C : G[d][c] = Seq(Node)
  OBVIOUS
<1>3. LeavesSteps(st, C, N, G)
  <2>1. \A c \in C : <<>> \in G[0][c]
    BY <1>1
  <2>2. ASSUME NEW d \in 1..N, NEW below, Answered(below, C, G[d - 1]), NEW c \in C
        PROVE  LeavesFrom(GetNode(st, c), st, below) \in G[d][c]
    <3>1. d \in 0..N /\ d - 1 \in 0..N
      BY <1>1
    <3>2. \A x \in DOMAIN st : below[x] \in Seq(Node)
      BY <1>2, <2>2, <3>1 DEF Answered
    <3>3. GetNode(st, c) \in Node
      BY StoreFields
    <3>4. LeavesFrom(GetNode(st, c), st, below) \in Seq(Node)
      BY <3>2, <3>3, LeavesFromType
    <3> QED BY <1>2, <3>1, <3>4
  <2> HIDE DEF C, N, G
  <2> QED BY <2>1, <2>2 DEF LeavesSteps
<1>4. C = DOMAIN st /\ N = Cardinality(DOMAIN st) /\ N \in 0..N
  BY <1>1
<1> HIDE DEF C, N, G
<1>5. PICK below : Answered(below, C, G[N]) /\ Leaves(n, st) = LeavesFrom(n, st, below)
  BY <1>3, <1>4, LeavesInduction
<1>6. \A c \in DOMAIN st : below[c] \in Seq(Node)
  BY <1>2, <1>4, <1>5 DEF Answered
<1> QED BY <1>5, <1>6, LeavesFromType

(***************************************************************************)
(* Their keys, side by side, are a sequence of keys.                       *)
(***************************************************************************)
LEMMA LeafKeysType ==
    ASSUME NEW st \in Stores, NEW n \in Node
    PROVE  LeafKeys(n, st) \in Seq(Keys)
<1> DEFINE l == Leaves(n, st)
           ks == [i \in 1..Len(l) |-> l[i].keys]
<1>1. l \in Seq(Node)
  BY LeavesType
<1>2. LeafKeys(n, st) = FlattenSeq(ks)
  BY DEF LeafKeys
<1> HIDE DEF l
<1>3. Len(l) \in Nat /\ \A i \in 1..Len(l) : l[i].keys \in Seq(Keys)
  BY <1>1, LenProperties, ElementOfSeq, NodeFields
<1>4. ks \in Seq(Seq(Keys))
  BY <1>3, SeqDef
<1> HIDE DEF ks
<1> QED BY <1>2, <1>4, FlattenType

(***************************************************************************)
(* In every state with the types, chunk_content cuts the pairs of the tree *)
(* where windows match.                                                    *)
(***************************************************************************)
LEMMA CutsMatch ==
    Typing /\ HashesReduced /\ MinChunk < MaxChunk => CutsAtWindows
<1> SUFFICES ASSUME Typing, HashesReduced, MinChunk < MaxChunk PROVE CutsAtWindows
  OBVIOUS
<1> DEFINE n == Pairs(root, store)
           ends == ChunkContent(n)
           len == Len(LeafKeys(root, store))
<1>1. root \in Node /\ store \in Stores
  BY DEF Typing
<1>2. LeafKeys(root, store) \in Seq(Keys)
  BY <1>1, LeafKeysType
<1>3. n.keys = LeafKeys(root, store)
  BY <1>1, NodeFields DEF Pairs
<1>4. len \in Nat /\ len = Len(n.keys)
  BY <1>2, <1>3, LenProperties
<1> SUFFICES ASSUME NEW i \in 1..Len(ends)
             PROVE  LET from == (IF i = 1 THEN 0 ELSE ends[i - 1]) + MinChunk
                    IN  /\ i = Len(ends) \/ WindowMatches(n, ends[i])
                        /\ \A e \in from..(ends[i] - 1) : ~WindowMatches(n, e)
  BY DEF CutsAtWindows
<1> HIDE DEF n, len
<1>5. ends \in Cuts(n) /\ Matched(n, ends)
  BY <1>4, ChunkEnds
<1>6. /\ ends[i] = Len(n.keys) \/ WindowMatches(n, ends[i])
      /\ \A e \in (Start(ends, i) + MinChunk)..(ends[i] - 1) : ~WindowMatches(n, e)
  BY <1>5 DEF Matched
<1>7. i = Len(ends) \/ ends[i] # Len(n.keys)
  <2> SUFFICES ASSUME i # Len(ends) PROVE ends[i] # Len(n.keys)
    OBVIOUS
  <2> HIDE DEF ends
  <2>1. Len(ends) \in Nat /\ ends \in Seq(Nat)
    BY <1>5 DEF Cuts
  <2>2. i + 1 \in 1..Len(ends) /\ i \in Nat
    BY <2>1
  <2>3. ends[i + 1] \in (Start(ends, i + 1) + 1)..Len(n.keys) /\ Start(ends, i + 1) = ends[i]
    BY <1>5, <2>2 DEF Cuts, Start
  <2>4. ends[i] \in Nat
    BY <2>1
  <2> QED BY <1>4, <2>3, <2>4
<1> QED BY <1>6, <1>7 DEF Start

(***************************************************************************)
(* CutsAtWindows, for any hashes that are reduced, as hash_item reduces    *)
(* them, and any chunk sizes with min_chunk_size below max_chunk_size:     *)
(* where chunk_content cuts depends on the last min_chunk_size pairs       *)
(* alone.                                                                  *)
(***************************************************************************)
THEOREM ChunksEndAtWindows ==
    ASSUME HashesReduced, MinChunk < MaxChunk
    PROVE  Spec => []CutsAtWindows
<1>1. Typing => CutsAtWindows
  BY CutsMatch
<1> QED BY <1>1, TypingHolds, PTL

-----------------------------------------------------------------------------
(* Descents and proofs                                                     *)

(* The step of a descent from m for a key, and where it leads.             *)
StepsTo(m, key, st, next) ==
    /\ Leads(m, ChildIndex(m, key), st)
    /\ m.vals[ChildIndex(m, key)] \in DOMAIN st
    /\ next = GetNode(st, m.vals[ChildIndex(m, key)])

Walks(n, key, st) ==
    {p \in Seq(Node) : /\ p # <<>> /\ p[1] = n
                       /\ \A i \in 1..(Len(p) - 1) : StepsTo(p[i], key, st, p[i + 1])}

(***************************************************************************)
(* A descent from a node goes on as the one from its child.                *)
(***************************************************************************)
LEMMA DescendFromWalks ==
    ASSUME NEW st \in Stores, NEW n \in Node, NEW key, NEW below,
           \A c \in DOMAIN st : below[c] \in Walks(GetNode(st, c), key, st)
    PROVE  DescendFrom(n, key, st, below) \in Walks(n, key, st)
<1> DEFINE i == ChildIndex(n, key)
           c == n.vals[i]
           q == <<n>> \o below[c]
           W(p, m) == /\ p # <<>> /\ p[1] = m
                      /\ \A j \in 1..(Len(p) - 1) : StepsTo(p[j], key, st, p[j + 1])
<1>1. CASE Leads(n, i, st)
  <2>1. c \in DOMAIN st
    BY <1>1 DEF Leads
  <2>2. DescendFrom(n, key, st, below) = q
    BY <1>1 DEF DescendFrom
  <2>3. below[c] \in Walks(GetNode(st, c), key, st)
    BY <2>1
  <2> DEFINE b == below[c]
  <2>3a. StepsTo(n, key, st, GetNode(st, c))
    BY <1>1, <2>1 DEF StepsTo
  <2> HIDE DEF c
  <2>4. b \in Seq(Node) /\ W(b, GetNode(st, c))
    BY <2>3 DEF Walks
  <2> HIDE DEF b
  <2>5. Len(b) \in Nat /\ Len(b) # 0
    BY <2>4, EmptySeq
  <2>6. <<n>> \in Seq(Node) /\ Len(<<n>>) = 1
    OBVIOUS
  <2> DEFINE r == <<n>> \o b
  <2>7. r \in Seq(Node) /\ Len(r) = 1 + Len(b)
        /\ \A j \in 1..(1 + Len(b)) : r[j] = IF j <= 1 THEN <<n>>[j] ELSE b[j - 1]
    BY <2>4, <2>6, ConcatProperties
  <2> HIDE DEF r
  <2>8. r[1] = n /\ r # <<>>
    BY <2>5, <2>7
  <2>9. ASSUME NEW j \in 1..(Len(r) - 1) PROVE StepsTo(r[j], key, st, r[j + 1])
    <3>1. j \in 1..Len(b) /\ r[j + 1] = b[j]
      BY <2>5, <2>7
    <3>2. CASE j = 1
      BY <2>3a, <2>4, <2>8, <3>1, <3>2
    <3>3. CASE j # 1
      <4>1. j - 1 \in 1..(Len(b) - 1) /\ r[j] = b[j - 1]
        BY <2>5, <2>7, <3>1, <3>3
      <4>2. StepsTo(b[j - 1], key, st, b[(j - 1) + 1])
        BY <2>4, <4>1
      <4>3. (j - 1) + 1 = j
        BY <3>1
      <4> QED BY <3>1, <4>1, <4>2, <4>3
    <3> QED BY <3>2, <3>3
  <2>10. r \in Walks(n, key, st)
    BY <2>7, <2>8, <2>9 DEF Walks
  <2> QED BY <2>2, <2>10 DEF r, b
<1>2. CASE ~Leads(n, i, st)
  <2>1. DescendFrom(n, key, st, below) = <<n>>
    BY <1>2 DEF DescendFrom
  <2>2. <<n>> \in Walks(n, key, st)
    <3>1. <<n>> \in Seq(Node) /\ <<n>> # <<>> /\ <<n>>[1] = n /\ Len(<<n>>) = 1
      OBVIOUS
    <3>2. \A j \in 1..(Len(<<n>>) - 1) : StepsTo(<<n>>[j], key, st, <<n>>[j + 1])
      BY <3>1
    <3> QED BY <3>1, <3>2 DEF Walks
  <2> QED BY <2>1, <2>2
<1> QED BY <1>1, <1>2

(***************************************************************************)
(* A descent starts at its node and goes from each node to the child of    *)
(* the key, as stored.                                                     *)
(***************************************************************************)
LEMMA DescentWalks ==
    ASSUME NEW st \in Stores, NEW n \in Node, NEW key
    PROVE  Descent(n, key, st) \in Walks(n, key, st)
<1> DEFINE C == DOMAIN st
           N == Cardinality(DOMAIN st)
           G == [d \in 0..N |-> [c \in C |-> Walks(GetNode(st, c), key, st)]]
<1>1. N \in Nat
  BY StoreFields
<1>2. \A d \in 0..N, c \in C : G[d][c] = Walks(GetNode(st, c), key, st)
  OBVIOUS
<1>3. DescentSteps(st, key, C, N, G)
  <2>1. ASSUME NEW c \in C PROVE <<GetNode(st, c)>> \in G[0][c]
    <3> DEFINE g == GetNode(st, c)
    <3>1. g \in Node
      BY StoreFields
    <3> HIDE DEF g
    <3>2. <<g>> \in Seq(Node) /\ <<g>> # <<>> /\ <<g>>[1] = g /\ Len(<<g>>) = 1
      BY <3>1
    <3>3. <<g>> \in Walks(g, key, st)
      BY <3>2 DEF Walks
    <3>4. 0 \in 0..N
      BY <1>1
    <3> HIDE DEF C, N, G
    <3> QED BY <1>2, <3>3, <3>4 DEF g
  <2>2. ASSUME NEW d \in 1..N, NEW below, Answered(below, C, G[d - 1]), NEW c \in C
        PROVE  DescendFrom(GetNode(st, c), key, st, below) \in G[d][c]
    <3>1. d \in 0..N /\ d - 1 \in 0..N
      BY <1>1
    <3>2. \A x \in DOMAIN st : below[x] \in Walks(GetNode(st, x), key, st)
      BY <1>2, <2>2, <3>1 DEF Answered
    <3>3. GetNode(st, c) \in Node
      BY StoreFields
    <3>4. DescendFrom(GetNode(st, c), key, st, below) \in Walks(GetNode(st, c), key, st)
      BY <3>2, <3>3, DescendFromWalks
    <3> QED BY <1>2, <3>1, <3>4
  <2> HIDE DEF C, N, G
  <2> QED BY <2>1, <2>2 DEF DescentSteps
<1>4. C = DOMAIN st /\ N = Cardinality(DOMAIN st) /\ N \in 0..N
  BY <1>1
<1> HIDE DEF C, N, G
<1>5. PICK below : Answered(below, C, G[N]) /\ Descent(n, key, st) = DescendFrom(n, key, st, below)
  BY <1>3, <1>4, DescentInduction
<1>6. \A c \in DOMAIN st : below[c] \in Walks(GetNode(st, c), key, st)
  BY <1>2, <1>4, <1>5 DEF Answered
<1> QED BY <1>5, <1>6, DescendFromWalks

(* The root is stored as it is in memory, or nothing has been stored.      *)
Rooted == root = EmptyRoot \/ (Hash(root) \in DOMAIN store /\ store[Hash(root)].leaf = root.leaf)

Viewed == view = Contents(root, store)

(***************************************************************************)
(* The digests of a proof are stored and lead from one to the next, if the *)
(* root is stored as it is in memory.                                      *)
(***************************************************************************)
LEMMA ProofFollowsWalk ==
    ASSUME NEW st \in Stores, NEW n \in Node, NEW key,
           Hash(n) \in DOMAIN st, st[Hash(n)].leaf = n.leaf,
           NEW p, p = Descent(n, key, st), NEW path, path = ProofPath(n, key, st)
    PROVE  /\ Len(path) = Len(p) /\ path # <<>> /\ path[1] = Hash(n)
           /\ \A i \in 1..Len(p) : path[i] \in DOMAIN st /\ st[path[i]].keys = p[i].keys
                                   /\ st[path[i]].vals = p[i].vals /\ st[path[i]].leaf = p[i].leaf
           /\ \A i \in 2..Len(p) : /\ st[path[i - 1]].vals # <<>>
                                   /\ path[i] = st[path[i - 1]].vals[ChildIndex(st[path[i - 1]], key)]
<1>1. /\ p \in Seq(Node) /\ p # <<>> /\ p[1] = n
      /\ \A i \in 1..(Len(p) - 1) : StepsTo(p[i], key, st, p[i + 1])
  BY DescentWalks DEF Walks
<1>2. Len(p) \in Nat /\ Len(p) >= 1 /\ \A i \in 1..Len(p) : p[i] \in Node
  BY <1>1, EmptySeq, LenProperties
<1>3. path = [i \in 1..Len(p) |-> Hash(p[i])]
  BY DEF ProofPath
<1>4. Len(path) = Len(p) /\ path # <<>> /\ \A i \in 1..Len(p) : path[i] = Hash(p[i])
  BY <1>2, <1>3
<1>5. path[1] = Hash(n)
  BY <1>1, <1>2, <1>4
<1>6. ASSUME NEW i \in 2..Len(p)
      PROVE  /\ p[i - 1].vals # <<>> /\ Hash(p[i]) = p[i - 1].vals[ChildIndex(p[i - 1], key)]
             /\ Hash(p[i]) \in DOMAIN st /\ st[Hash(p[i])].leaf = p[i].leaf
  <2> DEFINE c == p[i - 1].vals[ChildIndex(p[i - 1], key)]
  <2>1. i - 1 \in 1..(Len(p) - 1) /\ (i - 1) + 1 = i
    BY <1>2
  <2>2. StepsTo(p[i - 1], key, st, p[(i - 1) + 1])
    BY <1>1, <2>1
  <2>3. c \in DOMAIN st /\ p[i] = GetNode(st, c) /\ p[i - 1].vals # <<>>
    BY <2>1, <2>2 DEF StepsTo, Leads
  <2>4. Hash(p[i]) = c /\ st[c].leaf = p[i].leaf
    <3> HIDE DEF c
    <3> QED BY <2>3, StoreFields
  <2> QED BY <2>3, <2>4
<1>7. ASSUME NEW i \in 1..Len(p)
      PROVE  path[i] \in DOMAIN st /\ st[path[i]].keys = p[i].keys
             /\ st[path[i]].vals = p[i].vals /\ st[path[i]].leaf = p[i].leaf
  <2>1. path[i] \in DOMAIN st /\ st[path[i]].leaf = p[i].leaf
    <3>1. CASE i = 1
      BY <1>1, <1>5, <3>1
    <3>2. CASE i # 1
      BY <1>2, <1>4, <1>6, <3>2
    <3> QED BY <3>1, <3>2
  <2>2. path[i] = Hash(p[i]) /\ p[i] \in Node
    BY <1>2, <1>4
  <2>3. st[path[i]].keys = path[i][1] /\ st[path[i]].vals = path[i][2]
    BY <2>1, StoreFields
  <2> QED BY <2>1, <2>2, <2>3, NodeFields
<1>8. ASSUME NEW i \in 2..Len(p)
      PROVE  /\ st[path[i - 1]].vals # <<>>
             /\ path[i] = st[path[i - 1]].vals[ChildIndex(st[path[i - 1]], key)]
  <2>1. i - 1 \in 1..Len(p) /\ i \in 1..Len(p)
    BY <1>2
  <2>2. st[path[i - 1]].keys = p[i - 1].keys /\ st[path[i - 1]].vals = p[i - 1].vals
    BY <1>7, <2>1
  <2>3. ChildIndex(st[path[i - 1]], key) = ChildIndex(p[i - 1], key)
    BY <2>2 DEF ChildIndex
  <2> QED BY <1>4, <1>6, <2>1, <2>2, <2>3
<1> QED BY <1>4, <1>5, <1>7, <1>8

(***************************************************************************)
(* If the root is stored as it is in memory, proofs verify exactly for the *)
(* keys that find finds.                                                   *)
(***************************************************************************)
LEMMA RootedVerifies ==
    Typing /\ Rooted /\ Viewed => ProofsVerify
<1> SUFFICES ASSUME Typing, Rooted, Viewed, root # EmptyRoot, NEW k \in Keys
             PROVE  Verify(ProofPath(root, k, store), k, IF k \in DOMAIN view THEN {view[k]} ELSE {}, root, store)
                      <=> k \in DOMAIN view
  BY DEF ProofsVerify
<1> DEFINE p == Descent(root, k, store)
           path == ProofPath(root, k, store)
           end == Last(p)
           expected == IF k \in DOMAIN view THEN {view[k]} ELSE {}
<1>1. root \in Node /\ store \in Stores /\ Hash(root) \in DOMAIN store /\ store[Hash(root)].leaf = root.leaf
  BY DEF Typing, Rooted
<1>2. /\ Len(path) = Len(p) /\ path # <<>> /\ path[1] = Hash(root)
      /\ \A i \in 1..Len(p) : path[i] \in DOMAIN store /\ store[path[i]].keys = p[i].keys
                              /\ store[path[i]].vals = p[i].vals /\ store[path[i]].leaf = p[i].leaf
      /\ \A i \in 2..Len(p) : /\ store[path[i - 1]].vals # <<>>
                              /\ path[i] = store[path[i - 1]].vals[ChildIndex(store[path[i - 1]], k)]
  BY <1>1, ProofFollowsWalk
<1>3. p \in Seq(Node) /\ p # <<>>
  BY <1>1, DescentWalks DEF Walks
<1>4. NodeFind(root, k, store) = IF end.leaf /\ k \in Range(end.keys) THEN <<end>> ELSE <<>>
  BY DEF NodeFind
<1>5. Descends(root, k, store) <=> (end.leaf \/ end.vals # <<>>)
  BY DEF Descends
<1>6. view = [x \in {x \in Keys : Descends(root, x, store) /\ NodeFind(root, x, store) # <<>>} |->
                ValueIn(NodeFind(root, x, store)[1], x)]
  BY DEF Viewed, Contents
<1> HIDE DEF p, path
<1> DEFINE last == Len(p)
<1>7. last \in Nat /\ last \in 1..last /\ end = p[last] /\ end \in Node
  <2>1. last \in Nat /\ last # 0
    BY <1>3, EmptySeq
  <2> QED BY <1>3, <2>1, ElementOfSeq DEF Last
<1>8. store[path[last]].leaf = end.leaf /\ store[path[last]].keys = end.keys /\ store[path[last]].vals = end.vals
  BY <1>2, <1>7
<1>9. k \in DOMAIN view <=> end.leaf /\ k \in Range(end.keys)
  <2>1. DOMAIN view = {x \in Keys : Descends(root, x, store) /\ NodeFind(root, x, store) # <<>>}
    BY <1>6
  <2>2. k \in DOMAIN view <=> Descends(root, k, store) /\ NodeFind(root, k, store) # <<>>
    BY <2>1
  <2> HIDE DEF end
  <2>3. NodeFind(root, k, store) # <<>> <=> end.leaf /\ k \in Range(end.keys)
    BY <1>4
  <2> QED BY <1>5, <2>2, <2>3
<1>10. k \in DOMAIN view => view[k] \in Range(end.vals)
  <2> SUFFICES ASSUME k \in DOMAIN view PROVE view[k] \in Range(end.vals)
    OBVIOUS
  <2>1. NodeFind(root, k, store) = <<end>> /\ k \in Range(end.keys)
    <3> HIDE DEF end
    <3> QED BY <1>4, <1>9
  <2>2. view[k] = ValueIn(end, k)
    <3> HIDE DEF end
    <3> QED BY <1>6, <2>1
  <2>3. PICK i \in 1..Len(end.vals) : ValueIn(end, k) = end.vals[i]
    <3> DEFINE e == end
    <3>1. e \in Node /\ k \in Range(e.keys)
      BY <1>7, <2>1
    <3> HIDE DEF e
    <3>2. \E i \in 1..Len(e.vals) : ValueIn(e, k) = e.vals[i]
      BY <3>1, SideType
    <3> QED BY <3>2 DEF e
  <2>4. DOMAIN end.vals = 1..Len(end.vals)
    <3> HIDE DEF end
    <3> QED BY <1>7, NodeFields, LenProperties
  <2> HIDE DEF end
  <2> QED BY <2>2, <2>3, <2>4 DEF Range
<1>11. Verify(path, k, expected, root, store)
         <=> store[path[last]].leaf /\ LeafProves(store[path[last]], k, expected)
  BY <1>2 DEF Verify
<1>12. LeafProves(store[path[last]], k, expected)
         <=> k \in Range(end.keys) /\ (expected = {} \/ \E v \in expected : v \in Range(end.vals))
  BY <1>8 DEF LeafProves
<1>13. Verify(path, k, expected, root, store) <=> k \in DOMAIN view
  <2>1. CASE k \in DOMAIN view
    <3>1. expected = {view[k]}
      BY <2>1
    <3> HIDE DEF end, expected
    <3> QED BY <1>8, <1>9, <1>10, <1>11, <1>12, <2>1, <3>1
  <2>2. CASE k \notin DOMAIN view
    <3> HIDE DEF end, expected
    <3> QED BY <1>8, <1>9, <1>11, <1>12, <2>2
  <2> QED BY <2>1, <2>2
<1> QED BY <1>13 DEF path

-----------------------------------------------------------------------------
(* Every operation keeps the root stored as it is in memory                *)

(***************************************************************************)
(* Every step computes what find shows anew.                               *)
(***************************************************************************)
LEMMA ViewedKept ==
    ASSUME Viewed, [Next]_vars
    PROVE  Viewed'
<1>1. CASE Observe
  BY <1>1 DEF Observe, Viewed
<1>2. CASE UNCHANGED vars
  BY <1>2 DEF vars, Viewed
<1>3. Observe \/ UNCHANGED vars
  BY DEF Next, Insert, Update, Delete, InsertBatch, DeleteBatch, PersistRoot, Reload, MergeTrees
<1> QED BY <1>1, <1>2, <1>3

(***************************************************************************)
(* persist_root stores the root as it is in memory.                        *)
(***************************************************************************)
LEMMA PersistRooted ==
    ASSUME NEW r, r.node \in Node, r.st \in Stores, Persist(r)
    PROVE  Rooted'
<1>1. root' = r.node /\ store' = InsertNode(r.st, r.node)
  BY DEF Persist
<1>2. /\ Hash(r.node) \in DOMAIN InsertNode(r.st, r.node)
      /\ InsertNode(r.st, r.node)[Hash(r.node)] = r.node
  BY InsertNodeType
<1> QED BY <1>1, <1>2 DEF Rooted

(***************************************************************************)
(* So does a merge.                                                        *)
(***************************************************************************)
LEMMA MergeRooted ==
    ASSUME Typing, Rooted, NEW s \in roots, NEW b \in roots, NEW resolver, MergeTrees(s, b, resolver)
    PROVE  Rooted'
<1> DEFINE d == savedRoot[1]
           results == MergeResults(store[s], store[d], store[b], resolver)
           open == {k \in DOMAIN results : results[k] = {}}
           start == [Loop EXCEPT !.node = GetNode(store, d)]
<1>1. /\ savedRoot # <<>>
      /\ \/ UNCHANGED <<root, store, savedRoot, roots, strayed>>
         \/ /\ open = {}
            /\ \E order \in SetToSeqs(DOMAIN results) :
                 Merged(MergeRun(Len(order), start, order, results)[Len(order)])
  BY DEF MergeTrees, MergeRun, Chosen
<1>2. s \in DOMAIN store /\ b \in DOMAIN store /\ d \in DOMAIN store /\ store \in Stores
  BY <1>1 DEF Typing
<1>3. store[s] \in Node /\ store[b] \in Node /\ store[d] \in Node
  BY <1>2, StoreFields
<1>4. CASE UNCHANGED <<root, store, savedRoot, roots, strayed>>
  BY <1>4 DEF Rooted
<1>5. CASE /\ open = {}
           /\ \E order \in SetToSeqs(DOMAIN results) :
                Merged(MergeRun(Len(order), start, order, results)[Len(order)])
  <2>1. PICK order \in SetToSeqs(DOMAIN results) :
                Merged(MergeRun(Len(order), start, order, results)[Len(order)])
    BY <1>5
  <2>2. \A k \in DOMAIN results : results[k] # {}
    BY <1>5
  <2>3. ASSUME NEW r \in SavedLoops(store), NEW k \in Keys
        PROVE  /\ ApplyResult(r, k, Side(store[s], k)) \in SavedLoops(store)
               /\ ApplyResult(r, k, Side(store[d], k)) \in SavedLoops(store)
    <3>1. \A side \in Universe \cup {Absent} : ApplyResult(r, k, side) \in SavedLoops(store)
      BY ApplyType
    <3> QED BY <1>3, <3>1, SideType
  <2>4. start \in SavedLoops(store)
    BY <1>2, LoopType
  <2>5. results = MergeResults(store[s], store[d], store[b], resolver)
    OBVIOUS
  <2> HIDE DEF results, start, d
  <2> DEFINE r == MergeRun(Len(order), start, order, results)[Len(order)]
  <2>6. r \in SavedLoops(store)
    BY <1>3, <2>2, <2>3, <2>4, <2>5, MergeEnds
  <2>7. Merged(r)
    BY <2>1
  <2> HIDE DEF r
  <2>8. root' = r.node /\ store' = r.st
    BY <2>7 DEF Merged
  <2> QED BY <2>6, <2>8 DEF Rooted, SavedLoops
<1> QED BY <1>1, <1>4, <1>5

(***************************************************************************)
(* So does every step but those of the batch calls.                        *)
(***************************************************************************)
LEMMA NextRooted ==
    ASSUME Typing, Rooted, [Next]_vars, Enabled \cap {"insert_batch", "delete_batch"} = {}
    PROVE  Rooted'
<1>0. root \in Node /\ store \in Stores
  BY DEF Typing
<1>1. ASSUME NEW k \in Keys, NEW v \in Values, Insert(k, v) \/ Update(k, v) PROVE Rooted'
  <2> DEFINE r == NodeInsert(root, k, v, store)
  <2>1. r \in Answers(store)
    BY <1>0, NodeInsertType, UniverseClosed
  <2>2. Persist(r) \/ UNCHANGED <<root, store>>
    BY <1>1 DEF Insert, Update
  <2> HIDE DEF r
  <2>3. r.node \in Node /\ r.st \in Stores
    BY <2>1, AnswerFields
  <2> QED BY <2>2, <2>3, PersistRooted DEF Rooted
<1>2. ASSUME NEW k \in Keys, Delete(k) PROVE Rooted'
  <2> DEFINE r == NodeDelete(root, k, store)
  <2>1. r \in Answers(store)
    BY <1>0, NodeDeleteType
  <2>2. Persist(r) \/ UNCHANGED <<root, store>>
    BY <1>2 DEF Delete, DeleteFrom
  <2> HIDE DEF r
  <2>3. r.node \in Node /\ r.st \in Stores
    BY <2>1, AnswerFields
  <2> QED BY <2>2, <2>3, PersistRooted DEF Rooted
<1>3. ASSUME NEW batch \in Batches, InsertBatch(batch) \/ DeleteBatch(DOMAIN batch) PROVE FALSE
  BY <1>3 DEF InsertBatch, DeleteBatch, Call
<1>4. CASE PersistRoot
  <2>1. Persist(Loop)
    BY <1>4 DEF PersistRoot
  <2>2. Loop.node \in Node /\ Loop.st \in Stores
    BY <1>0 DEF Loop
  <2> QED BY <2>1, <2>2, PersistRooted
<1>5. CASE Reload
  <2> DEFINE h == savedRoot[1]
             g == GetNode(store, h)
  <2>1. h \in DOMAIN store /\ root' = g /\ store' = store
    BY <1>5 DEF Reload
  <2>2. Hash(g) = h /\ g.leaf = store[h].leaf
    BY <1>0, <2>1, StoreFields
  <2> HIDE DEF g, h
  <2> QED BY <2>1, <2>2 DEF Rooted
<1>6. CASE \E s \in roots, b \in roots, resolver \in MergeResolvers : MergeTrees(s, b, resolver)
  BY <1>6, MergeRooted
<1>7. CASE UNCHANGED vars
  BY <1>7 DEF vars, Rooted
<1> QED BY <1>1, <1>2, <1>3, <1>4, <1>5, <1>6, <1>7 DEF Next

(***************************************************************************)
(* A new tree shows no key.                                                *)
(***************************************************************************)
LEMMA EmptyViewed ==
    Init => Viewed /\ Rooted
<1> SUFFICES ASSUME Init PROVE Viewed /\ Rooted
  OBVIOUS
<1>1. root = EmptyRoot /\ store = EmptyStore /\ view = EmptyMap
  BY DEF Init
<1>2. ASSUME NEW k PROVE NodeFind(EmptyRoot, k, EmptyStore) = <<>>
  <2>1. EmptyRoot.leaf = TRUE /\ EmptyRoot.keys = <<>>
    BY DEF EmptyRoot, MakeNode
  <2>2. Descent(EmptyRoot, k, EmptyStore) = <<EmptyRoot>>
    BY <2>1 DEF Descent, DescendFrom, Leads
  <2>3. Last(<<EmptyRoot>>) = EmptyRoot
    BY DEF Last
  <2>4. Range(EmptyRoot.keys) = {}
    BY <2>1 DEF Range
  <2> QED BY <2>2, <2>3, <2>4 DEF NodeFind
<1>3. Contents(EmptyRoot, EmptyStore) = EmptyMap
  <2>1. {k \in Keys : Descends(EmptyRoot, k, EmptyStore) /\ NodeFind(EmptyRoot, k, EmptyStore) # <<>>} = {}
    BY <1>2
  <2> QED BY <2>1 DEF Contents, EmptyMap
<1> QED BY <1>1, <1>3 DEF Viewed, Rooted

(***************************************************************************)
(* What the model calls the view is what find shows for every key.         *)
(***************************************************************************)
LEMMA ViewIsContents == Spec => [](view = Contents(root, store))
<1>1. Init => Viewed
  BY EmptyViewed
<1>2. Viewed /\ [Next]_vars => Viewed'
  BY ViewedKept
<1>3. Viewed => view = Contents(root, store)
  BY DEF Viewed
<1> QED BY <1>1, <1>2, <1>3, PTL DEF Spec

(***************************************************************************)
(* ProofsVerify, for trees of any height and any keys and values, as long  *)
(* as insert_batch and delete_batch are not called, which leave the root   *)
(* unsaved: generate_proof gives a proof that verify accepts, with the     *)
(* value, exactly for the keys that find finds.                            *)
(***************************************************************************)
THEOREM ProofsAlwaysVerify ==
    ASSUME Enabled \cap {"insert_batch", "delete_batch"} = {}
    PROVE  Spec => []ProofsVerify
<1> DEFINE Inv == Typing /\ Rooted /\ Viewed
<1>1. Init => Inv
  BY InitTyping, EmptyViewed
<1>2. Inv /\ [Next]_vars => Inv'
  BY NextTyping, NextRooted, ViewedKept
<1>3. Inv => ProofsVerify
  BY RootedVerifies
<1> QED BY <1>1, <1>2, <1>3, PTL DEF Spec

-----------------------------------------------------------------------------
(* Levels of digests                                                       *)

Repeats(f, V, a, S) == f \in [Nat -> V] /\ f[0] = a /\ \A n \in Nat : f[n + 1] = S[f[n]]

(***************************************************************************)
(* One step repeated without end within a set: its sequence exists.        *)
(***************************************************************************)
LEMMA Repeated ==
    ASSUME NEW V, NEW a \in V, NEW S \in [V -> V]
    PROVE  \E f : Repeats(f, V, a, S)
<1> DEFINE P(g, n) == /\ g[0] = a
                      /\ \A m \in 0..n : g[m] \in V
                      /\ \A m \in 1..n : g[m] = S[g[m - 1]]
           p(n) == CHOOSE g : P(g, n)
           f == [n \in Nat |-> p(n)[n]]
<1>1. ASSUME NEW n \in Nat PROVE \E g : P(g, n)
  <2> DEFINE W == [m \in 0..n |-> V]
             T == [m \in 1..n |-> S]
  <2>1. a \in W[0] /\ \A m \in 1..n : \A v \in W[m - 1] : T[m][v] \in W[m]
    OBVIOUS
  <2>2. \A m \in 0..n : W[m] = V
    OBVIOUS
  <2>3. \A m \in 1..n : T[m] = S
    OBVIOUS
  <2> HIDE DEF W, T
  <2>4. PICK g : Unfolds(g, n, W, a, T)
    BY <2>1, RecursiveFamily
  <2>5. P(g, n)
    BY <2>2, <2>3, <2>4 DEF Unfolds
  <2> QED BY <2>5
<1>2. ASSUME NEW n \in Nat PROVE P(p(n), n)
  <2> HIDE DEF P
  <2> QED BY <1>1
<1>3. ASSUME NEW n \in Nat, NEW m \in Nat, n <= m, NEW g, NEW h, P(g, n), P(h, m)
      PROVE  g[n] = h[n]
  <2> DEFINE T == {i \in 0..n : g[i] = h[i]}
  <2>1. 0 \in T
    BY <1>3
  <2>2. ASSUME NEW i \in 1..n, i - 1 \in T PROVE i \in T
    BY <1>3, <2>2
  <2>3. 0..n \subseteq T
    <3> HIDE DEF T
    <3> QED BY <2>1, <2>2, StepByStep
  <2> QED BY <2>3
<1> HIDE DEF p
<1>4. \A n \in Nat : f[n] = p(n)[n]
  OBVIOUS
<1>5. ASSUME NEW n \in Nat PROVE f[n] \in V /\ f[n + 1] = S[f[n]]
  <2>1. n + 1 \in Nat /\ n <= n + 1 /\ n + 1 \in 1..(n + 1) /\ (n + 1) - 1 = n /\ n \in 0..n
    OBVIOUS
  <2>2. P(p(n), n) /\ P(p(n + 1), n + 1)
    BY <1>2, <2>1
  <2>3. p(n)[n] = p(n + 1)[n]
    <3> HIDE DEF P
    <3> QED BY <1>3, <2>1, <2>2
  <2>4. p(n + 1)[n + 1] = S[p(n + 1)[n]]
    BY <2>1, <2>2
  <2> QED BY <1>4, <2>1, <2>2, <2>3, <2>4
<1>6. f[0] = a
  BY <1>2, <1>4
<1>7. f \in [Nat -> V]
  BY <1>5
<1>8. Repeats(f, V, a, S)
  <2> HIDE DEF f
  <2> QED BY <1>5, <1>6, <1>7 DEF Repeats
<1> QED BY <1>8

Ground == Seq(Keys) \X Seq(Values)
Above(D0) == Seq(Keys) \X (Seq(D0) \ {<<>>})

Level == CHOOSE f : Repeats(f, SUBSET Digests, Ground, [D0 \in SUBSET Digests |-> Above(D0)])

(***************************************************************************)
(* Sequences over a set are sequences over any larger one.                 *)
(***************************************************************************)
LEMMA Monotone ==
    ASSUME NEW A, NEW B, A \subseteq B
    PROVE  Seq(A) \subseteq Seq(B)
<1> SUFFICES ASSUME NEW s \in Seq(A) PROVE s \in Seq(B)
  OBVIOUS
<1>1. Len(s) \in Nat /\ s \in [1..Len(s) -> A]
  BY LenProperties
<1>2. s \in [1..Len(s) -> B]
  BY <1>1
<1> QED BY <1>1, <1>2, SeqDef

(***************************************************************************)
(* Level[0] are the digests of leaves of values, Level[e + 1] those of     *)
(* nodes whose values are digests of Level[e].                             *)
(***************************************************************************)
LEMMA LevelIs ==
    /\ Level[0] = Ground
    /\ \A d \in Nat : Level[d] \in SUBSET Digests /\ Level[d + 1] = Above(Level[d])
<1> DEFINE V == SUBSET Digests
           S == [D0 \in V |-> Above(D0)]
<1>1. Ground \in V
  BY UniverseClosed, Monotone DEF Ground, Digests
<1>2. ASSUME NEW D0 \in V PROVE Above(D0) \in V
  <2>1. D0 \subseteq Universe
    BY UniverseClosed
  <2>2. Seq(D0) \subseteq Seq(Universe)
    BY <2>1, Monotone
  <2> QED BY <2>2 DEF Above, Digests
<1>3. S \in [V -> V]
  BY <1>2
<1>4. \A D0 \in V : S[D0] = Above(D0)
  OBVIOUS
<1>5. Level = CHOOSE f : Repeats(f, V, Ground, S)
  BY DEF Level
<1> HIDE DEF V, S
<1>6. Repeats(Level, V, Ground, S)
  BY <1>1, <1>3, <1>5, Repeated
<1>7. \A d \in Nat : Level[d] \in V
  BY <1>6 DEF Repeats
<1> QED BY <1>4, <1>6, <1>7 DEF Repeats, V

-----------------------------------------------------------------------------
(* What fits a level                                                       *)

(***************************************************************************)
(* The values in a digest of level 0 are values, above it digests one      *)
(* level down, and there is one at least.                                  *)
(***************************************************************************)
LEMMA LevelPairs ==
    ASSUME NEW d \in Nat, NEW h \in Level[d]
    PROVE  /\ h \in Digests /\ DOMAIN h = 1..2
           /\ d = 0 => h[2] \in Seq(Values)
           /\ d > 0 => d - 1 \in Nat /\ h[2] \in Seq(Level[d - 1]) /\ h[2] # <<>>
<1>1. h \in Digests
  BY LevelIs
<1>2. DOMAIN h = 1..2
  BY <1>1 DEF Digests
<1>3. d = 0 => h[2] \in Seq(Values)
  BY LevelIs DEF Ground
<1>4. ASSUME d > 0 PROVE d - 1 \in Nat /\ h[2] \in Seq(Level[d - 1]) /\ h[2] # <<>>
  <2>1. d - 1 \in Nat /\ (d - 1) + 1 = d
    BY <1>4
  <2>2. h \in Above(Level[d - 1])
    BY <2>1, LevelIs
  <2> QED BY <2>1, <2>2 DEF Above
<1> QED BY <1>1, <1>2, <1>3, <1>4

(***************************************************************************)
(* A digest is of one level only: a value is not taken for a digest.       *)
(***************************************************************************)
LEMMA LevelOnce ==
    \A d, e \in Nat : Level[d] \cap Level[e] # {} => d = e
<1>1. ASSUME NEW N \in Nat
      PROVE  \A d \in 0..N : \A e \in Nat : Level[d] \cap Level[e] # {} => d = e
  <2> DEFINE T == {d \in 0..N : \A e \in Nat : Level[d] \cap Level[e] # {} => d = e}
  <2>1. ASSUME NEW e \in Nat, e > 0, NEW h \in Level[0] \cap Level[e] PROVE FALSE
    <3>1. h[2] \in Seq(Values) /\ h[2] # <<>> /\ h[2] \in Seq(Level[e - 1]) /\ e - 1 \in Nat
      BY <2>1, LevelPairs
    <3>2. h[2][1] \in Values /\ h[2][1] \in Level[e - 1]
      BY <3>1, EmptySeq, ElementOfSeq, LenProperties
    <3>3. DOMAIN h[2][1] = 1..2
      BY <3>1, <3>2, LevelPairs
    <3> QED BY <3>2, <3>3, TreeAssumption
  <2>2. 0 \in T
    BY <2>1
  <2>3. ASSUME NEW d \in 1..N, d - 1 \in T, NEW e \in Nat, NEW h \in Level[d] \cap Level[e]
        PROVE  d = e
    <3>1. e # 0
      BY <2>1, <2>3
    <3>2. /\ h[2] \in Seq(Level[d - 1]) /\ h[2] # <<>> /\ h[2] \in Seq(Level[e - 1])
          /\ e - 1 \in Nat
      <4>1. d \in Nat /\ d > 0 /\ e > 0
        BY <3>1
      <4> QED BY <4>1, LevelPairs
    <3>3. h[2][1] \in Level[d - 1] /\ h[2][1] \in Level[e - 1]
      BY <3>2, EmptySeq, ElementOfSeq, LenProperties
    <3> QED BY <2>3, <3>2, <3>3
  <2>4. 0..N \subseteq T
    <3> HIDE DEF T
    <3>1. \A d \in 1..N : d - 1 \in T => d \in T
      BY <2>3 DEF T
    <3> QED BY <2>2, <3>1, StepByStep
  <2> QED BY <2>4
<1> QED BY <1>1

(* What the values of a node of level e may be.                             *)
Below(e, st) == IF e = 0 THEN Values ELSE Level[e - 1] \cap DOMAIN st

Holds(n, S) == \A j \in 1..Len(n.vals) : n.vals[j] \in S

Fits(n, e, st) ==
    /\ Holds(n, Below(e, st))
    /\ e > 0 => ~n.leaf /\ n.vals # <<>>
    /\ e = 0 /\ n.vals # <<>> => n.leaf

Sound(st) == \A h \in DOMAIN st : \E e \in Nat : Fits(st[h], e, st)

(***************************************************************************)
(* The digest of a node that fits a level is of that level.                *)
(***************************************************************************)
LEMMA FitsLevel ==
    ASSUME NEW st, NEW n \in Node, NEW e \in Nat, Fits(n, e, st)
    PROVE  Hash(n) \in Level[e]
<1>1. n.keys \in Seq(Keys) /\ n.vals \in Seq(Universe) /\ Hash(n) = <<n.keys, n.vals>>
  BY NodeFields DEF Hash
<1>2. ASSUME NEW S, Holds(n, S) PROVE n.vals \in Seq(S)
  <2>1. Len(n.vals) \in Nat /\ n.vals \in [1..Len(n.vals) -> Universe]
    BY <1>1, LenProperties
  <2>2. n.vals \in [1..Len(n.vals) -> S]
    BY <1>2, <2>1 DEF Holds
  <2> QED BY <2>1, <2>2, SeqDef
<1>3. CASE e = 0
  <2>1. n.vals \in Seq(Values)
    BY <1>2, <1>3 DEF Fits, Below
  <2> QED BY <1>1, <1>3, <2>1, LevelIs DEF Ground
<1>4. CASE e > 0
  <2>1. e - 1 \in Nat /\ (e - 1) + 1 = e
    BY <1>4
  <2>2. Holds(n, Level[e - 1]) /\ n.vals # <<>>
    BY <1>4 DEF Fits, Below, Holds
  <2>3. n.vals \in Seq(Level[e - 1])
    BY <1>2, <2>2
  <2>4. Hash(n) \in Above(Level[e - 1])
    BY <1>1, <2>2, <2>3 DEF Above
  <2> QED BY <2>1, <2>4, LevelIs
<1> QED BY <1>3, <1>4

(***************************************************************************)
(* A stored node fits the level of its digest, as stored and as            *)
(* get_node_by_hash returns it.                                            *)
(***************************************************************************)
LEMMA FitsAgain ==
    ASSUME NEW st \in Stores, Sound(st), NEW h \in DOMAIN st, NEW e \in Nat, h \in Level[e]
    PROVE  /\ Fits(st[h], e, st) /\ Fits(GetNode(st, h), e, st)
           /\ \A j \in 1..Len(h[2]) : h[2][j] \in Below(e, st)
<1>1. PICK f \in Nat : Fits(st[h], f, st)
  BY DEF Sound
<1>2. /\ st[h] \in Node /\ Hash(st[h]) = h /\ st[h].vals = h[2]
      /\ GetNode(st, h).vals = h[2] /\ GetNode(st, h).leaf = st[h].leaf
  BY StoreFields
<1>3. h \in Level[f]
  BY <1>1, <1>2, FitsLevel
<1>4. f = e
  BY <1>3, LevelOnce
<1> QED BY <1>1, <1>2, <1>4 DEF Fits, Holds

(***************************************************************************)
(* A node fits its level in a larger storage too.                          *)
(***************************************************************************)
LEMMA FitsGrows ==
    ASSUME NEW st, NEW s, DOMAIN st \subseteq DOMAIN s, NEW n, NEW e \in Nat, Fits(n, e, st)
    PROVE  Fits(n, e, s)
<1>1. Below(e, st) \subseteq Below(e, s)
  BY DEF Below
<1> QED BY <1>1 DEF Fits, Holds

(***************************************************************************)
(* The level looks at the values and the leaf flag only.                   *)
(***************************************************************************)
LEMMA FitsLike ==
    ASSUME NEW st, NEW n, NEW m, m.vals = n.vals, m.leaf = n.leaf, NEW e \in Nat, Fits(n, e, st)
    PROVE  Fits(m, e, st)
BY DEF Fits, Holds

(***************************************************************************)
(* insert_node of a node that fits a level keeps every stored node at one. *)
(***************************************************************************)
LEMMA StoreSound ==
    ASSUME NEW st \in Stores, Sound(st), NEW n \in Node, NEW e \in Nat, Fits(n, e, st)
    PROVE  Sound(InsertNode(st, n))
<1> DEFINE s == InsertNode(st, n)
<1>1. /\ DOMAIN s = DOMAIN st \cup {Hash(n)} /\ s[Hash(n)] = n
      /\ \A h \in DOMAIN st : h # Hash(n) => s[h] = st[h]
  BY InsertNodeType
<1> HIDE DEF s
<1>2. ASSUME NEW h \in DOMAIN s PROVE \E f \in Nat : Fits(s[h], f, s)
  <2>1. CASE h = Hash(n)
    <3>1. Fits(n, e, s)
      BY <1>1, FitsGrows
    <3> QED BY <1>1, <2>1, <3>1
  <2>2. CASE h # Hash(n)
    <3>1. h \in DOMAIN st /\ s[h] = st[h]
      BY <1>1, <2>2
    <3>2. PICK f \in Nat : Fits(st[h], f, st)
      BY <3>1 DEF Sound
    <3>3. Fits(st[h], f, s)
      BY <1>1, <3>2, FitsGrows
    <3> QED BY <3>1, <3>3
  <2> QED BY <2>1, <2>2
<1>3. Sound(s)
  BY <1>2 DEF Sound
<1> QED BY <1>3 DEF s

(***************************************************************************)
(* So does storing the pieces of a node.                                   *)
(***************************************************************************)
LEMMA StoreAllSound ==
    ASSUME NEW st \in Stores, Sound(st), NEW nodes \in Seq(Node), NEW e \in Nat,
           \A i \in 1..Len(nodes) : Fits(nodes[i], e, st)
    PROVE  Sound(InsertNodes(st, nodes))
<1> DEFINE s == InsertNodes(st, nodes)
<1>1. /\ DOMAIN st \subseteq DOMAIN s
      /\ \A h \in DOMAIN s : \/ h \in DOMAIN st /\ s[h] = st[h]
                             \/ \E i \in 1..Len(nodes) : Hash(nodes[i]) = h /\ s[h] = nodes[i]
  BY InsertNodesType
<1> HIDE DEF s
<1>2. ASSUME NEW h \in DOMAIN s PROVE \E f \in Nat : Fits(s[h], f, s)
  <2>1. CASE h \in DOMAIN st /\ s[h] = st[h]
    <3>2. PICK f \in Nat : Fits(st[h], f, st)
      BY <2>1 DEF Sound
    <3>3. Fits(st[h], f, s)
      BY <1>1, <3>2, FitsGrows
    <3> QED BY <2>1, <3>3
  <2>2. CASE \E i \in 1..Len(nodes) : Hash(nodes[i]) = h /\ s[h] = nodes[i]
    <3>1. PICK i \in 1..Len(nodes) : s[h] = nodes[i]
      BY <2>2
    <3>2. Fits(nodes[i], e, s)
      BY <1>1, FitsGrows
    <3> QED BY <3>1, <3>2
  <2> QED BY <1>1, <2>1, <2>2
<1>3. Sound(s)
  BY <1>2 DEF Sound
<1> QED BY <1>3 DEF s

-----------------------------------------------------------------------------
(* Members of sequences that one operation has changed                     *)

Of(r, S) == \A j \in 1..Len(r) : r[j] \in S

(***************************************************************************)
(* The members of a sequence after an insertion, a removal, a              *)
(* concatenation and a splice are those it had and those put in.           *)
(***************************************************************************)
LEMMA MembersOf ==
    ASSUME NEW S, NEW U, NEW r, NEW s, NEW i \in Nat \ {0}, Of(s, S)
    PROVE  /\ \A e \in S : Inserts(r, s, i, e, U) /\ i <= Len(s) + 1 => Of(r, S)
           /\ Removes(r, s, i, U) => Of(r, S)
           /\ \A t : Joins(r, s, t, U) /\ Of(t, S) => Of(r, S)
           /\ \A t : Splices(r, s, i, t, U) /\ i <= Len(s) /\ Of(t, S) => Of(r, S)
<1>1. ASSUME NEW e \in S, Inserts(r, s, i, e, U), i <= Len(s) + 1, NEW j \in 1..Len(r) PROVE r[j] \in S
  <2>0. Len(s) \in Nat
    BY <1>1 DEF Inserts
  <2>1. CASE j < i
    <3>1. j \in 1..(i - 1) /\ j \in 1..Len(s)
      BY <1>1, <2>0, <2>1
    <3>2. r[j] = s[j]
      BY <1>1, <3>1 DEF Inserts
    <3> QED BY <3>1, <3>2 DEF Of
  <2>2. CASE j = i
    BY <1>1, <2>2 DEF Inserts
  <2>3. CASE j > i
    <3>1. j - 1 \in i..Len(s) /\ (j - 1) + 1 = j /\ j - 1 \in 1..Len(s)
      BY <1>1, <2>3 DEF Inserts
    <3>2. r[j] = s[j - 1]
      BY <1>1, <3>1 DEF Inserts
    <3> QED BY <3>1, <3>2 DEF Of
  <2> QED BY <2>1, <2>2, <2>3
<1>2. ASSUME Removes(r, s, i, U), NEW j \in 1..Len(r) PROVE r[j] \in S
  <2>1. CASE j < i
    BY <1>2, <2>1 DEF Removes, Of
  <2>2. CASE j >= i
    <3>1. j + 1 \in (i + 1)..Len(s) /\ (j + 1) - 1 = j /\ j + 1 \in 1..Len(s)
      BY <1>2, <2>2 DEF Removes
    <3>2. r[j] = s[j + 1]
      BY <1>2, <3>1 DEF Removes
    <3> QED BY <3>1, <3>2 DEF Of
  <2> QED BY <2>1, <2>2
<1>3. ASSUME NEW t, Joins(r, s, t, U), Of(t, S), NEW j \in 1..Len(r) PROVE r[j] \in S
  <2>1. CASE j <= Len(s)
    BY <1>3, <2>1 DEF Joins, Of
  <2>2. CASE j > Len(s)
    <3>1. j - Len(s) \in 1..Len(t) /\ Len(s) + (j - Len(s)) = j
      BY <1>3, <2>2 DEF Joins
    <3>2. r[j] = t[j - Len(s)]
      BY <1>3, <3>1 DEF Joins
    <3> QED BY <1>3, <3>1, <3>2 DEF Of
  <2>3. Len(s) \in Nat
    BY <1>3 DEF Joins
  <2> QED BY <2>1, <2>2, <2>3
<1>4. ASSUME NEW t, Splices(r, s, i, t, U), i <= Len(s), Of(t, S), NEW j \in 1..Len(r) PROVE r[j] \in S
  <2>0. Len(s) \in Nat /\ Len(t) \in Nat
    BY <1>4 DEF Splices
  <2>1. CASE j < i
    <3>1. j \in 1..(i - 1) 
      BY <2>1
    <3>2. r[j] = s[j]
      BY <1>4, <3>1 DEF Splices
    <3> QED BY <1>4, <2>0, <2>1, <3>2 DEF Of
  <2>2. CASE j >= i /\ j < i + Len(t)
    <3>1. j - i + 1 \in 1..Len(t) /\ i - 1 + (j - i + 1) = j
      BY <2>0, <2>2
    <3>2. r[i - 1 + (j - i + 1)] = t[j - i + 1]
      BY <1>4, <3>1 DEF Splices
    <3> QED BY <1>4, <3>1, <3>2 DEF Of
  <2>3. CASE j >= i + Len(t)
    <3> DEFINE m == j - Len(t) + 1
    <3>1. m \in (i + 1)..Len(s) /\ m + Len(t) - 1 = j /\ m \in 1..Len(s)
      BY <1>4, <2>0, <2>3 DEF Splices
    <3> HIDE DEF m
    <3>2. r[m + Len(t) - 1] = s[m]
      BY <1>4, <3>1 DEF Splices
    <3> QED BY <3>1, <3>2 DEF Of
  <2> QED BY <2>0, <2>1, <2>2, <2>3
<1> QED BY <1>1, <1>2, <1>3, <1>4 DEF Of

-----------------------------------------------------------------------------
(* Sorting, the sibling and the cuts keep the level                        *)

(***************************************************************************)
(* Moving the last pair to its place keeps the level.                      *)
(***************************************************************************)
LEMMA SortLastFits ==
    ASSUME NEW n \in Node, NEW st, NEW e \in Nat, Fits(n, e, st)
    PROVE  Fits(SortLast(n), e, st)
<1> DEFINE m == SortLast(n)
           pos == Cardinality({i \in 1..(Len(n.keys) - 1) : n.keys[i] < Last(n.keys)}) + 1
<1>1. /\ m \in Node /\ Len(m.keys) = Len(n.keys) /\ m.leaf = n.leaf
      /\ n.keys = <<>> => m = n
      /\ n.keys # <<>> => Moved(m, n, pos)
  BY SortLastMoves
<1> HIDE DEF m, pos
<1>2. CASE n.keys = <<>>
  BY <1>1, <1>2 DEF m
<1>3. CASE n.keys # <<>>
  <2> DEFINE S == Below(e, st)
             s == Front(n.vals)
  <2>1. /\ n.vals \in Seq(Universe) /\ n.vals # <<>> /\ m.vals # <<>> /\ pos \in 1..Len(n.vals)
        /\ Len(n.vals) \in Nat
    <3>1. n.vals \in Seq(Universe) /\ Len(n.vals) = Len(n.keys) /\ Len(m.vals) = Len(m.keys) /\ Len(n.keys) \in Nat
      BY <1>1, NodeFields
    <3>2. Len(n.keys) # 0
      BY <1>3, EmptySeq, NodeFields
    <3>3. pos \in 1..Len(n.keys)
      BY <1>1, <1>3 DEF Moved
    <3> QED BY <1>1, <3>1, <3>2, <3>3, EmptySeq
  <2>2. /\ Len(s) = Len(n.vals) - 1 /\ \A i \in 1..(Len(n.vals) - 1) : s[i] = n.vals[i]
        /\ Last(n.vals) = n.vals[Len(n.vals)]
    BY <2>1, FrontOf DEF Last
  <2>3. Inserts(m.vals, s, pos, Last(n.vals), Universe)
    BY <1>1, <1>3 DEF Moved
  <2>4. Of(n.vals, S)
    BY DEF Fits, Holds, Of
  <2> HIDE DEF s, S
  <2>5. Of(s, S) /\ Last(n.vals) \in S /\ pos \in Nat \ {0} /\ pos <= Len(s) + 1
    BY <2>1, <2>2, <2>4 DEF Of
  <2>6. Of(m.vals, S)
    BY <2>3, <2>5, MembersOf
  <2> QED BY <1>1, <2>1, <2>6 DEF Fits, Holds, Of, S, m
<1> QED BY <1>2, <1>3

(* The parent, if there is one, is a node one level up.                     *)
Near(parent, e) == parent = <<>> \/ parent[1] \in Level[e + 1]

(***************************************************************************)
(* The sibling that the parent names is of the level of its children.      *)
(***************************************************************************)
LEMMA SiblingBelow ==
    ASSUME NEW n \in Node, NEW st \in Stores, Sound(st), NEW e \in Nat, NEW parent, Near(parent, e),
           NEW h \in NextSiblingHash(n, st, parent)
    PROVE  h \in Level[e] /\ n.keys # <<>> /\ NextSiblingHash(n, st, parent) = {h}
<1>1. /\ parent # <<>>
      /\ \E j : /\ NeighbourAt(n, st, parent[1], j)
                /\ NextSiblingHash(n, st, parent) = {parent[1][2][j]}
  BY SiblingFound
<1>2. PICK j : NeighbourAt(n, st, parent[1], j) /\ NextSiblingHash(n, st, parent) = {parent[1][2][j]}
  BY <1>1
<1> DEFINE p == parent[1]
<1>3. /\ p \in DOMAIN st /\ n.keys # <<>> /\ j \in 1..Len(p[1]) /\ p \in Level[e + 1]
      /\ h = p[2][j]
  BY <1>1, <1>2 DEF NeighbourAt, Near
<1> HIDE DEF p
<1>4. j \in 1..Len(p[2])
  BY <1>3, StoreFields, NodeFields
<1>5. e + 1 \in Nat /\ e + 1 # 0 /\ (e + 1) - 1 = e
  OBVIOUS
<1>6. h \in Below(e + 1, st)
  BY <1>3, <1>4, <1>5, FitsAgain
<1> QED BY <1>2, <1>3, <1>5, <1>6 DEF Below

(***************************************************************************)
(* A node that has taken in its sibling is of the level it was of.         *)
(***************************************************************************)
LEMMA TakeFits ==
    ASSUME NEW n \in Node, NEW st \in Stores, Sound(st), NEW e \in Nat, Fits(n, e, st),
           NEW parent, Near(parent, e),
           NEW found, found = NextSiblingHash(n, st, parent) \cap DOMAIN st
    PROVE  /\ TakeNextSibling(n, st, found) \in Node
           /\ Fits(TakeNextSibling(n, st, found), e, st)
           /\ TakeNextSibling(n, st, found).split = n.split
<1>1. CASE found = {}
  <2>1. TakeNextSibling(n, st, found) = n
    BY <1>1 DEF TakeNextSibling
  <2> QED BY <2>1
<1>2. CASE found # {}
  <2>1. PICK h \in found : TRUE
    BY <1>2
  <2>2. h \in Level[e] /\ n.keys # <<>> /\ found = {h} /\ h \in DOMAIN st
    <3>1. h \in NextSiblingHash(n, st, parent) /\ h \in DOMAIN st
      BY <2>1
    <3>2. h \in Level[e] /\ n.keys # <<>> /\ NextSiblingHash(n, st, parent) = {h}
      BY <3>1, SiblingBelow
    <3> QED BY <3>1, <3>2
  <2> DEFINE m == TakeNextSibling(n, st, {h})
             S == Below(e, st)
  <2>3. /\ m \in Node /\ m.vals = n.vals \o h[2] /\ m.leaf = n.leaf /\ m.split = n.split
        /\ Joins(n.vals \o h[2], n.vals, h[2], Universe)
    BY <2>2, TakeNextSiblingType DEF Fields
  <2> HIDE DEF m
  <2>4. Of(n.vals, S) /\ Of(h[2], S)
    BY <2>2, FitsAgain DEF Fits, Holds, Of
  <2> HIDE DEF S
  <2>5. Of(m.vals, S)
    <3>1. Joins(m.vals, n.vals, h[2], Universe) /\ 1 \in Nat \ {0}
      BY <2>3
    <3> QED BY <2>4, <3>1, MembersOf
  <2>6. n.vals # <<>> /\ m.vals # <<>>
    <3>1. Len(n.vals) # 0 /\ n.vals # <<>> /\ Len(n.vals) \in Nat
      BY <2>2, EmptySeq, NodeFields
    <3>2. Len(m.vals) = Len(n.vals) + Len(h[2]) /\ Len(h[2]) \in Nat
      BY <2>3 DEF Joins
    <3>3. m.vals \in Seq(Universe)
      BY <2>3, NodeFields
    <3>4. ASSUME NEW a \in Nat, NEW b \in Nat, a # 0 PROVE a + b # 0
      BY <3>4
    <3>5. Len(m.vals) # 0
      BY <3>1, <3>2, <3>4
    <3> QED BY <3>1, <3>3, <3>5, EmptySeq
  <2>7. Fits(m, e, st)
    BY <2>3, <2>5, <2>6 DEF Fits, Holds, Of, S
  <2> QED BY <2>2, <2>3, <2>7 DEF m
<1> QED BY <1>1, <1>2

(***************************************************************************)
(* The pieces of a node are of its level, and none is empty.               *)
(***************************************************************************)
LEMMA PiecesFit ==
    ASSUME NEW n \in Node, NEW st, NEW e \in Nat, Fits(n, e, st), NEW ends \in Cuts(n), NEW pieces,
           pieces = Pieces(n, ends)
    PROVE  /\ pieces \in Seq(Node) /\ Len(pieces) = Len(ends) /\ Len(ends) \in Nat
           /\ \A i \in 1..Len(pieces) : Fits(pieces[i], e, st) /\ Len(pieces[i].keys) > 0
<1>1. /\ pieces \in Seq(Node) /\ Len(pieces) = Len(ends) /\ Len(ends) \in Nat
      /\ \A i \in 1..Len(ends) : PieceAt(pieces[i], n, Start(ends, i), ends[i])
  BY PiecesOf
<1>2. ASSUME NEW i \in 1..Len(ends) PROVE Fits(pieces[i], e, st) /\ Len(pieces[i].keys) > 0
  <2> DEFINE p == pieces[i]
             f == Start(ends, i)
             g == ends[i]
  <2>1. PieceAt(p, n, f, g)
    BY <1>1
  <2> HIDE DEF p, f, g
  <2>2. /\ p \in Node /\ f \in Nat /\ g \in (f + 1)..Len(n.keys) /\ Len(p.keys) = g - f
        /\ p.leaf = n.leaf
        /\ \A j \in 1..(g - f) : p.vals[j] = n.vals[f + j]
    BY <2>1 DEF PieceAt
  <2>3. /\ Len(n.vals) = Len(n.keys) /\ Len(p.vals) = Len(p.keys)
        /\ n.vals \in Seq(Universe) /\ p.vals \in Seq(Universe) /\ Len(n.keys) \in Nat
    BY <2>2, NodeFields
  <2>4. Len(p.keys) > 0 /\ p.vals # <<>> /\ n.vals # <<>>
    BY <2>2, <2>3, EmptySeq
  <2>5. ASSUME NEW j \in 1..Len(p.vals) PROVE p.vals[j] \in Below(e, st)
    <3>1. j \in 1..(g - f) /\ f + j \in 1..Len(n.vals)
      BY <2>2, <2>3
    <3> QED BY <2>2, <3>1 DEF Fits, Holds
  <2>6. Fits(p, e, st)
    BY <2>2, <2>4, <2>5 DEF Fits, Holds
  <2> QED BY <2>4, <2>6 DEF p
<1> QED BY <1>1, <1>2

-----------------------------------------------------------------------------
(* Balancing keeps the level, or makes one more                            *)

(* What a node of level e has become when it is balanced.                   *)
Balanced(b, n, e, parent) ==
    /\ Sound(b.st)
    /\ \/ Fits(b.node, e, b.st) /\ b.node.split = n.split
       \/ Fits(b.node, e + 1, b.st) /\ (parent # <<>> => b.node.split)

(***************************************************************************)
(* A node over several stored pieces is one level above them.              *)
(***************************************************************************)
LEMMA PiecesBelow ==
    ASSUME NEW st \in Stores, Sound(st), NEW e \in Nat, NEW pieces \in Seq(Node), Len(pieces) > 1,
           \A i \in 1..Len(pieces) : Fits(pieces[i], e, st) /\ Len(pieces[i].keys) > 0,
           NEW m \in Node, m.vals = HashesOf(pieces), ~m.leaf,
           NEW s, s = InsertNodes(st, pieces)
    PROVE  Fits(m, e + 1, s) /\ s \in Stores /\ Sound(s)
<1>0. /\ s \in Stores
      /\ DOMAIN s = DOMAIN st \cup {Hash(pieces[i]) : i \in 1..Len(pieces)}
  BY InsertNodesType
<1>1. /\ s \in Stores /\ DOMAIN st \subseteq DOMAIN s
      /\ \A i \in 1..Len(pieces) : Hash(pieces[i]) \in DOMAIN s
  BY <1>0
<1>2. Sound(s)
  BY StoreAllSound
<1>3. Len(pieces) \in Nat /\ \A i \in 1..Len(pieces) : pieces[i] \in Node
  BY LenProperties, ElementOfSeq
<1>4. \A i \in 1..Len(pieces) : Hash(pieces[i]) \in Level[e] /\ Hash(pieces[i]) \in DOMAIN s
  BY <1>1, <1>3, FitsLevel
<1>5. Len(m.vals) = Len(pieces) /\ \A i \in 1..Len(pieces) : m.vals[i] = Hash(pieces[i])
  BY <1>3 DEF HashesOf
<1>6. e + 1 # 0 /\ (e + 1) - 1 = e /\ e + 1 > 0
  OBVIOUS
<1>7. Holds(m, Below(e + 1, s))
  BY <1>4, <1>5, <1>6 DEF Holds, Below
<1>8. m.vals # <<>>
  BY <1>5, <1>3, EmptySeq
<1> QED BY <1>1, <1>2, <1>6, <1>7, <1>8 DEF Fits

(***************************************************************************)
(* Cutting leaves the node at its level, or a node one level up over its   *)
(* pieces: a new root, or a list that is marked as split.                  *)
(***************************************************************************)
LEMMA CutFits ==
    ASSUME NEW n \in Node, NEW st \in Stores, Sound(st), NEW e \in Nat, Fits(n, e, st), NEW parent,
           NEW r, r = Cut(n, st, parent)
    PROVE  Balanced(r, n, e, parent)
<1> DEFINE ends == ChunkContent(n)
           pieces == Pieces(n, ends)
           s == InsertNodes(st, pieces)
<1>1. /\ ends \in Cuts(n)
      /\ \/ Len(ends) <= 1 /\ Whole(r, n, st)
         \/ Len(ends) > 1 /\ parent = <<>> /\ RootSplit(r, n, st, pieces)
         \/ Len(ends) > 1 /\ parent # <<>> /\ ListSplit(r, n, st, pieces)
  BY CutCases
<1> HIDE DEF ends
<1>2. /\ pieces \in Seq(Node) /\ Len(pieces) = Len(ends) /\ Len(ends) \in Nat
      /\ \A i \in 1..Len(pieces) : Fits(pieces[i], e, st) /\ Len(pieces[i].keys) > 0
  BY <1>1, PiecesFit
<1> HIDE DEF pieces
<1>3. s = InsertNodes(st, pieces)
  OBVIOUS
<1> HIDE DEF s
<1>4. CASE Whole(r, n, st)
  <2>1. r.node = n /\ r.st = st
    BY <1>4 DEF Whole
  <2> QED BY <2>1 DEF Balanced
<1>5. CASE Len(ends) > 1 /\ parent = <<>> /\ RootSplit(r, n, st, pieces)
  <2>1. r.node \in Node /\ r.node.vals = HashesOf(pieces) /\ ~r.node.leaf
    BY <1>5 DEF RootSplit, Fields
  <2>2. PICK x : Fields(x, <<>>, <<>>, n.leaf, n.level, n.split, n.merged) /\ r.st = InsertNode(s, x)
    BY <1>3, <1>5 DEF RootSplit
  <2>3. x \in Node /\ x.vals = <<>>
    BY <2>2 DEF Fields
  <2>4. Fits(r.node, e + 1, s) /\ s \in Stores /\ Sound(s)
    BY <1>2, <1>3, <1>5, <2>1, PiecesBelow
  <2>5. Fits(x, 0, s)
    BY <2>3 DEF Fits, Holds
  <2>6. Sound(r.st)
    BY <2>2, <2>3, <2>4, <2>5, StoreSound
  <2>7. DOMAIN s \subseteq DOMAIN r.st
    <3>1. DOMAIN InsertNode(s, x) = DOMAIN s \cup {Hash(x)}
      BY <2>3, <2>4, InsertNodeType
    <3> QED BY <2>2, <3>1
  <2>8. Fits(r.node, e + 1, r.st)
    BY <2>4, <2>7, FitsGrows
  <2> QED BY <1>5, <2>6, <2>8 DEF Balanced
<1>6. CASE Len(ends) > 1 /\ parent # <<>> /\ ListSplit(r, n, st, pieces)
  <2>1. r.node \in Node /\ r.node.vals = HashesOf(pieces) /\ ~r.node.leaf /\ r.node.split
    BY <1>6 DEF ListSplit, Fields
  <2>2. r.st = InsertNode(s, r.node)
    BY <1>3, <1>6 DEF ListSplit
  <2>4. Fits(r.node, e + 1, s) /\ s \in Stores /\ Sound(s)
    BY <1>2, <1>3, <1>6, <2>1, PiecesBelow
  <2>6. Sound(r.st)
    BY <2>1, <2>2, <2>4, StoreSound
  <2>7. DOMAIN s \subseteq DOMAIN r.st
    <3>1. DOMAIN InsertNode(s, r.node) = DOMAIN s \cup {Hash(r.node)}
      BY <2>1, <2>4, InsertNodeType
    <3> QED BY <2>2, <3>1
  <2>8. Fits(r.node, e + 1, r.st)
    BY <2>4, <2>7, FitsGrows
  <2> QED BY <2>1, <2>6, <2>8 DEF Balanced
<1> QED BY <1>1, <1>4, <1>5, <1>6

(***************************************************************************)
(* So does balancing as a whole.                                           *)
(***************************************************************************)
LEMMA BalanceFits ==
    ASSUME NEW n \in Node, NEW st \in Stores, Sound(st), NEW e \in Nat, Fits(n, e, st),
           NEW parent, Near(parent, e)
    PROVE  Balanced(Balance(n, st, parent), n, e, parent)
<1> DEFINE sorted == SortLast(n)
           found == NextSiblingHash(sorted, st, parent) \cap DOMAIN st
           m == TakeNextSibling(sorted, st, found)
           c == Cut(m, st, parent)
           b == Balance(n, st, parent)
<1>1. b.node = c.node /\ b.st = c.st
  BY DEF Balance
<1>2. sorted \in Node /\ Fits(sorted, e, st) /\ sorted.split = n.split
  BY SortLastFits, SortLastMoves
<1> HIDE DEF sorted
<1>3. m \in Node /\ Fits(m, e, st) /\ m.split = n.split
  BY <1>2, TakeFits
<1> HIDE DEF m, b
<1>4. Balanced(c, m, e, parent)
  BY <1>3, CutFits
<1> HIDE DEF c
<1>5. Balanced(b, n, e, parent)
  BY <1>1, <1>3, <1>4 DEF Balanced
<1> QED BY <1>5 DEF b

-----------------------------------------------------------------------------
(* What a parent takes in keeps its level                                  *)

(* A child of level e as its parent gets it back: split, it is the list of  *)
(* its pieces and one level up.                                             *)
Fine(a, e) ==
    /\ Sound(a.st)
    /\ a.node.split => Fits(a.node, e + 1, a.st)
    /\ ~a.node.split => Fits(a.node, e, a.st)

(***************************************************************************)
(* Once the child is stored, its digest, or what its list names, may stand *)
(* in its parent.                                                          *)
(***************************************************************************)
LEMMA FineStored ==
    ASSUME NEW e \in Nat, NEW a, a.node \in Node, a.st \in Stores, Fine(a, e),
           NEW t, t = InsertNode(a.st, a.node)
    PROVE  /\ t \in Stores /\ DOMAIN t = DOMAIN a.st \cup {Hash(a.node)} /\ Sound(t)
           /\ a.node.split => Holds(a.node, Below(e + 1, t)) /\ a.node.vals # <<>>
           /\ ~a.node.split => Hash(a.node) \in Below(e + 1, t)
<1>0. e + 1 \in Nat /\ e + 1 # 0 /\ (e + 1) - 1 = e /\ e + 1 > 0
  OBVIOUS
<1>1. t \in Stores /\ DOMAIN t = DOMAIN a.st \cup {Hash(a.node)}
  BY InsertNodeType
<1>2. CASE a.node.split
  <2>1. Fits(a.node, e + 1, a.st) /\ Sound(a.st)
    BY <1>2 DEF Fine
  <2>2. Sound(t)
    BY <1>0, <2>1, StoreSound
  <2>3. Fits(a.node, e + 1, t)
    BY <1>0, <1>1, <2>1, FitsGrows
  <2> QED BY <1>0, <1>1, <1>2, <2>2, <2>3 DEF Fits
<1>3. CASE ~a.node.split
  <2>1. Fits(a.node, e, a.st) /\ Sound(a.st)
    BY <1>3 DEF Fine
  <2>2. Sound(t)
    BY <2>1, StoreSound
  <2>3. Hash(a.node) \in Level[e]
    BY <2>1, FitsLevel
  <2> QED BY <1>0, <1>1, <1>3, <2>2, <2>3 DEF Below
<1> QED BY <1>2, <1>3

(***************************************************************************)
(* A parent that has taken in the answer for a child is of the level it    *)
(* was of.                                                                 *)
(***************************************************************************)
LEMMA ReplaceFits ==
    ASSUME NEW n \in Node, NEW st \in Stores, NEW e \in Nat, Fits(n, e + 1, st),
           NEW i \in 1..Len(n.keys), NEW a, a.node \in Node, a.st \in Stores,
           DOMAIN st \subseteq DOMAIN a.st, Fine(a, e),
           NEW m, m = ReplaceChild(n, i, a.node), NEW t, t = InsertNode(a.st, a.node)
    PROVE  /\ m \in Node /\ m.split = n.split
           /\ t \in Stores /\ Sound(t) /\ DOMAIN st \subseteq DOMAIN t
           /\ Fits(m, e + 1, t)
<1> DEFINE child == a.node
           S == Below(e + 1, t)
           rest == Rest(n, i, child)
<1>0. e + 1 \in Nat /\ e + 1 # 0 /\ e + 1 > 0
  OBVIOUS
<1>1. /\ t \in Stores /\ DOMAIN t = DOMAIN a.st \cup {Hash(child)} /\ Sound(t)
      /\ child.split => Holds(child, S) /\ child.vals # <<>>
      /\ ~child.split => Hash(child) \in S
  BY FineStored
<1>2. DOMAIN st \subseteq DOMAIN t
  BY <1>1
<1>3. Fits(n, e + 1, t)
  BY <1>0, <1>2, FitsGrows
<1>4. Of(n.vals, S) /\ ~n.leaf
  BY <1>0, <1>3 DEF Fits, Holds, Of
<1>5. child \in Node
  OBVIOUS
<1>6. /\ m \in Node /\ SameKind(m, n)
      /\ \/ child.split /\ Spliced2(m, rest, i, child)
         \/ ~child.split /\ Renewed(m, rest, i, child)
  BY <1>5, ReplaceChildType
<1>7. /\ rest \in Node /\ i \in 1..Len(rest.keys)
      /\ \/ rest = n
         \/ i + 1 \in 1..Len(n.keys) /\ PairRemoved(rest, n, i + 1)
  BY RestType
<1> HIDE DEF child, rest, S
<1>8. Of(rest.vals, S)
  <2>1. CASE rest = n
    BY <1>4, <2>1
  <2>2. CASE i + 1 \in 1..Len(n.keys) /\ PairRemoved(rest, n, i + 1)
    <3>1. Removes(rest.vals, n.vals, i + 1, Universe) /\ i + 1 \in Nat \ {0}
      BY <2>2 DEF PairRemoved
    <3> QED BY <1>4, <3>1, MembersOf
  <2> QED BY <1>7, <2>1, <2>2
<1>9. /\ Len(rest.vals) = Len(rest.keys) /\ Len(rest.vals) \in Nat /\ i \in 1..Len(rest.vals)
      /\ i \in Nat \ {0} /\ i <= Len(rest.vals)
  BY <1>7, NodeFields
<1>10. ASSUME child.split /\ Spliced2(m, rest, i, child)
       PROVE  Of(m.vals, S) /\ m.vals # <<>>
  <2>1. Splices(m.vals, rest.vals, i, child.vals, Universe)
    BY <1>10 DEF Spliced2
  <2>2. Of(child.vals, S) /\ child.vals # <<>>
    BY <1>1, <1>10 DEF Holds, Of
  <2>3. Of(m.vals, S)
    BY <1>8, <1>9, <2>1, <2>2, MembersOf
  <2>4. Len(child.vals) > 0
    BY <1>5, <2>2, NodeFields, EmptySeq
  <2>5. Len(m.vals) = Len(rest.vals) + Len(child.vals) - 1 /\ Len(child.vals) \in Nat
    BY <2>1 DEF Splices
  <2>6. Len(m.vals) > 0
    <3>1. ASSUME NEW x \in Nat, NEW y \in Nat, x >= 1, y > 0 PROVE x + y - 1 > 0
      BY <3>1
    <3>2. Len(rest.vals) >= 1
      BY <1>9
    <3> QED BY <1>9, <2>4, <2>5, <3>1, <3>2
  <2>7. m.vals # <<>>
    BY <1>6, <2>6, NodeFields, EmptySeq
  <2> QED BY <2>3, <2>7
<1>11. ASSUME ~child.split /\ Renewed(m, rest, i, child)
       PROVE  Of(m.vals, S) /\ m.vals # <<>>
  <2>1. /\ Len(m.vals) = Len(rest.vals) /\ m.vals[i] = Hash(child)
        /\ \A j \in 1..Len(rest.vals) : j # i => m.vals[j] = rest.vals[j]
    BY <1>11 DEF Renewed
  <2>2. Of(m.vals, S)
    BY <1>1, <1>8, <1>11, <2>1 DEF Of
  <2>3. Len(m.vals) > 0
    BY <1>9, <2>1
  <2>4. m.vals # <<>>
    BY <1>6, <2>3, NodeFields, EmptySeq
  <2> QED BY <2>2, <2>4
<1>12. Of(m.vals, S) /\ m.vals # <<>>
  BY <1>6, <1>10, <1>11
<1>13. m.leaf = n.leaf /\ m.split = n.split
  BY <1>6 DEF SameKind
<1>14. Fits(m, e + 1, t)
  BY <1>0, <1>4, <1>12, <1>13 DEF Fits, Holds, Of, S
<1> QED BY <1>1, <1>2, <1>6, <1>13, <1>14

-----------------------------------------------------------------------------
(* An insert at one node keeps the level                                   *)

(* What a call on a node of level e leaves: a sound storage and a node that *)
(* fits, for a parent where there is one.                                   *)
Left(r, e, parent) ==
    /\ Sound(r.st)
    /\ \E f \in Nat : Fits(r.node, f, r.st)
    /\ parent # <<>> => Fine(r, e)

(***************************************************************************)
(* What balancing leaves is an answer that a parent can take in.           *)
(***************************************************************************)
LEMMA BalancedLeft ==
    ASSUME NEW b, NEW n, NEW e \in Nat, NEW parent, Balanced(b, n, e, parent), parent # <<>> => ~n.split
    PROVE  Left(b, e, parent)
<1>1. e + 1 \in Nat
  OBVIOUS
<1>2. \E f \in Nat : Fits(b.node, f, b.st)
  BY <1>1 DEF Balanced
<1>3. ASSUME parent # <<>> PROVE Fine(b, e)
  BY <1>3 DEF Balanced, Fine
<1> QED BY <1>2, <1>3 DEF Balanced, Left

(***************************************************************************)
(* A root that becomes its only child is of some level, and only the root  *)
(* does.                                                                   *)
(***************************************************************************)
LEMMA CollapseFits ==
    ASSUME NEW st \in Stores, Sound(st), NEW n \in Node, NEW e \in Nat, Fits(n, e, st), NEW parent
    PROVE  /\ \E f \in Nat : Fits(CollapseRoot(n, st, parent), f, st)
           /\ parent # <<>> => CollapseRoot(n, st, parent) = n
<1> DEFINE c == CollapseRoot(n, st, parent)
<1>1. \/ c = n
      \/ /\ parent = <<>> /\ ~n.leaf /\ Len(n.keys) = 1
         /\ n.vals[1] \in DOMAIN st
         /\ Fields(c, n.vals[1][1], n.vals[1][2],
                   st[n.vals[1]].leaf, st[n.vals[1]].level, n.split, n.merged)
  BY CollapseRootType
<1> HIDE DEF c
<1>2. CASE c = n
  BY <1>2 DEF c
<1>3. CASE /\ parent = <<>> /\ ~n.leaf /\ Len(n.keys) = 1
           /\ n.vals[1] \in DOMAIN st
           /\ Fields(c, n.vals[1][1], n.vals[1][2],
                     st[n.vals[1]].leaf, st[n.vals[1]].level, n.split, n.merged)
  <2> DEFINE h == n.vals[1]
  <2>1. Len(n.vals) = 1 /\ n.vals # <<>>
    BY <1>3, NodeFields, EmptySeq
  <2>2. e # 0 /\ e - 1 \in Nat
    BY <1>3, <2>1 DEF Fits
  <2>3. h \in Level[e - 1] /\ h \in DOMAIN st
    BY <2>1, <2>2 DEF Fits, Holds, Below
  <2>4. c.vals = h[2] /\ c.leaf = st[h].leaf
    BY <1>3 DEF Fields
  <2> HIDE DEF h
  <2>5. Fits(st[h], e - 1, st)
    BY <2>2, <2>3, FitsAgain
  <2>6. c.vals = st[h].vals /\ c.leaf = st[h].leaf
    BY <2>3, <2>4, StoreFields
  <2>7. Fits(c, e - 1, st)
    BY <2>2, <2>5, <2>6, FitsLike
  <2> QED BY <1>3, <2>2, <2>7 DEF c
<1> QED BY <1>1, <1>2, <1>3

(***************************************************************************)
(* The answer of an insert at a node, from what it balances.               *)
(***************************************************************************)
LEMMA ReturnsFits ==
    ASSUME NEW s \in Stores, Sound(s), NEW m \in Node, NEW e \in Nat, Fits(m, e, s),
           NEW parent, Near(parent, e), parent # <<>> => ~m.split,
           NEW lost, NEW r, Returns(r, Balance(m, s, parent), parent, lost)
    PROVE  Left(r, e, parent)
<1> DEFINE b == Balance(m, s, parent)
           c == CollapseRoot(b.node, b.st, parent)
<1>1. Balanced(b, m, e, parent)
  BY BalanceFits
<1>2. b.node \in Node /\ b.st \in Stores
  BY BalanceType
<1>3. r.node = c /\ r.st = b.st
  BY DEF Returns
<1> HIDE DEF b
<1>4. Left(b, e, parent)
  BY <1>1, BalancedLeft
<1>5. PICK f \in Nat : Fits(b.node, f, b.st)
  BY <1>4 DEF Left
<1>6. Sound(b.st)
  BY <1>4 DEF Left
<1>7. (\E g \in Nat : Fits(c, g, b.st)) /\ (parent # <<>> => c = b.node)
  BY <1>2, <1>5, <1>6, CollapseFits
<1> HIDE DEF c
<1>8. parent # <<>> => Fine(r, e)
  BY <1>3, <1>4, <1>7 DEF Left, Fine
<1> QED BY <1>3, <1>6, <1>7, <1>8 DEF Left

(* The answer for a child of a node of level e is one of the level below.   *)
ChildFine(n, e, st, child) ==
    \A f \in Nat : e = f + 1 => child \in Answers(st) /\ Fine(child, f)

(***************************************************************************)
(* A node that a descent goes on from is above level 0.                    *)
(***************************************************************************)
LEMMA LeadsAbove ==
    ASSUME NEW st, NEW n, NEW i, NEW e \in Nat, Fits(n, e, st), Leads(n, i, st)
    PROVE  \E f \in Nat : e = f + 1
<1>1. e # 0
  BY DEF Fits, Leads
<1>2. e - 1 \in Nat /\ e = (e - 1) + 1
  BY <1>1
<1> QED BY <1>2

(***************************************************************************)
(* An insert at one node keeps the levels, if the answer for its child     *)
(* does.                                                                   *)
(***************************************************************************)
LEMMA InsertViaFits ==
    ASSUME NEW st \in Stores, Sound(st), NEW n \in Node, NEW key \in Keys, NEW val \in Values,
           NEW e \in Nat, Fits(n, e, st), NEW parent, Near(parent, e), parent # <<>> => ~n.split,
           NEW i, i = ChildIndex(n, key), NEW below, NEW child, child = below[<<n.vals[i], Hash(n)>>],
           Leads(n, i, st) => ChildFine(n, e, st, child),
           NEW r, r = InsertVia(n, key, val, st, parent, below)
    PROVE  Left(r, e, parent)
<1> DEFINE put == PutInLeaf(n, key, val)
           m == ReplaceChild(n, i, child.node)
           t == InsertNode(child.st, child.node)
<1>1. \/ n.leaf /\ Returns(r, Balance(put, st, parent), parent, FALSE)
      \/ Returns(r, Balance(n, st, parent), parent, FALSE)
      \/ Leads(n, i, st) /\ Returns(r, Balance(m, t, parent), parent, Astray(n, i, child))
  BY InsertCases
<1>2. CASE n.leaf /\ Returns(r, Balance(put, st, parent), parent, FALSE)
  <2>1. e = 0
    BY <1>2 DEF Fits
  <2>2. /\ put \in Node /\ SameKind(put, n)
        /\ \/ Appends(put, n, key, val)
           \/ \E j : Overwrites(put, n, j, val)
    BY PutInLeafType, UniverseClosed
  <2> HIDE DEF put
  <2>3. Holds(n, Values)
    BY <2>1 DEF Fits, Below
  <2>4. Holds(put, Values)
    <3>1. CASE Appends(put, n, key, val)
      <4>1. put.vals = Append(n.vals, val) /\ n.vals \in Seq(Universe) /\ Len(n.vals) \in Nat
            /\ val \in Universe
        BY <3>1, NodeFields, UniverseClosed DEF Appends
      <4>2. /\ Len(put.vals) = Len(n.vals) + 1 /\ put.vals[Len(n.vals) + 1] = val
            /\ \A j \in 1..Len(n.vals) : put.vals[j] = n.vals[j]
        BY <4>1, AppendProperties
      <4> QED BY <2>3, <4>1, <4>2 DEF Holds
    <3>2. CASE \E j : Overwrites(put, n, j, val)
      BY <2>3, <3>2 DEF Holds, Overwrites
    <3> QED BY <2>2, <3>1, <3>2
  <2>5. Fits(put, 0, st)
    BY <1>2, <2>2, <2>4 DEF Fits, Below, SameKind
  <2>6. put.split = n.split
    BY <2>2 DEF SameKind
  <2> QED BY <1>2, <2>1, <2>2, <2>5, <2>6, ReturnsFits
<1>3. CASE Returns(r, Balance(n, st, parent), parent, FALSE)
  BY <1>3, ReturnsFits
<1>4. CASE Leads(n, i, st) /\ Returns(r, Balance(m, t, parent), parent, Astray(n, i, child))
  <2>1. PICK f \in Nat : e = f + 1
    BY <1>4, LeadsAbove
  <2>2. child \in Answers(st) /\ Fine(child, f)
    BY <1>4, <2>1 DEF ChildFine
  <2>3. child.node \in Node /\ child.st \in Stores /\ DOMAIN st \subseteq DOMAIN child.st
    BY <2>2, AnswerFields
  <2>4. i \in 1..Len(n.keys)
    BY <1>4, ChildIndexType DEF Leads
  <2>5. m = ReplaceChild(n, i, child.node) /\ t = InsertNode(child.st, child.node)
    OBVIOUS
  <2> HIDE DEF m, t
  <2>6. m \in Node /\ m.split = n.split /\ t \in Stores /\ Sound(t) /\ Fits(m, f + 1, t)
    BY <2>1, <2>2, <2>3, <2>4, <2>5, ReplaceFits
  <2> QED BY <1>4, <2>1, <2>6, ReturnsFits
<1> HIDE DEF put, m, t
<1> QED BY <1>1, <1>2, <1>3, <1>4

-----------------------------------------------------------------------------
(* A delete at one node keeps the level                                    *)

(***************************************************************************)
(* A delete at one node keeps the levels, if the answer for its child      *)
(* does.                                                                   *)
(***************************************************************************)
LEMMA DeleteViaFits ==
    ASSUME NEW st \in Stores, Sound(st), NEW n \in Node, NEW key \in Keys,
           NEW e \in Nat, Fits(n, e, st), NEW parent, Near(parent, e), parent # <<>> => ~n.split,
           NEW i, i = ChildIndex(n, key), NEW below, NEW child, child = below[<<n.vals[i], Hash(n)>>],
           Leads(n, i, st) => ChildFine(n, e, st, child),
           NEW r, r = DeleteVia(n, key, st, parent, below)
    PROVE  Left(r, e, parent)
<1> DEFINE at == {j \in 1..Len(n.keys) : n.keys[j] = key}
           removed == RemovePair(n, Min(at))
           s == InsertNode(st, removed)
           b == Balance(removed, s, parent)
           m == ReplaceChild(n, i, child.node)
           t == InsertNode(child.st, child.node)
<1>1. \/ r.node = n /\ r.st = st
      \/ n.leaf /\ at # {} /\ r.node = b.node /\ r.st = b.st
      \/ Leads(n, i, st) /\ r.node = m /\ r.st = t
  <2>1. \/ r = Answer(n, st)
        \/ n.leaf /\ at # {} /\ r = DeleteAnswer(b)
        \/ /\ Leads(n, i, st)
           /\ r = [node |-> m, st |-> t, joined |-> {}, strayed |-> Astray(n, i, child), deleted |-> TRUE]
    BY DEF DeleteVia
  <2> HIDE DEF b, m, t
  <2> QED BY <2>1 DEF Answer, DeleteAnswer
<1>2. CASE r.node = n /\ r.st = st
  BY <1>2 DEF Left, Fine
<1>3. CASE n.leaf /\ at # {} /\ r.node = b.node /\ r.st = b.st
  <2>1. Min(at) \in 1..Len(n.keys)
    <3>1. at \in SUBSET Nat
      OBVIOUS
    <3>2. Min(at) \in at
      <4> HIDE DEF at
      <4> QED BY <1>3, <3>1, MinOf
    <3> QED BY <3>2
  <2> HIDE DEF at
  <2>2. e = 0
    BY <1>3 DEF Fits
  <2>3. removed \in Node /\ SameKind(removed, n) /\ Removes(removed.vals, n.vals, Min(at), Universe)
    BY <2>1, RemovePairType DEF PairRemoved
  <2>4. s = InsertNode(st, removed)
    OBVIOUS
  <2> HIDE DEF removed, s
  <2>5. Of(n.vals, Values) /\ Min(at) \in Nat \ {0}
    BY <2>1, <2>2 DEF Fits, Holds, Below, Of
  <2>6. Of(removed.vals, Values)
    BY <2>3, <2>5, MembersOf
  <2>7. Fits(removed, 0, st) /\ removed.split = n.split
    BY <1>3, <2>3, <2>6 DEF Fits, Holds, Of, Below, SameKind
  <2>8. s \in Stores /\ DOMAIN s = DOMAIN st \cup {Hash(removed)}
    BY <2>3, <2>4, InsertNodeType
  <2>9. Sound(s) /\ Fits(removed, 0, s)
    <3>1. Sound(s)
      BY <2>3, <2>4, <2>7, StoreSound
    <3>2. DOMAIN st \subseteq DOMAIN s
      BY <2>8
    <3> QED BY <2>7, <3>1, <3>2, FitsGrows
  <2>10. Balanced(b, removed, e, parent)
    BY <2>2, <2>3, <2>8, <2>9, BalanceFits
  <2> HIDE DEF b
  <2>11. Left(b, e, parent)
    BY <2>7, <2>10, BalancedLeft
  <2> QED BY <1>3, <2>11 DEF Left, Fine
<1>4. CASE Leads(n, i, st) /\ r.node = m /\ r.st = t
  <2>1. PICK f \in Nat : e = f + 1
    BY <1>4, LeadsAbove
  <2>2. child \in Answers(st) /\ Fine(child, f)
    BY <1>4, <2>1 DEF ChildFine
  <2>3. child.node \in Node /\ child.st \in Stores /\ DOMAIN st \subseteq DOMAIN child.st
    BY <2>2, AnswerFields
  <2>4. i \in 1..Len(n.keys)
    BY <1>4, ChildIndexType DEF Leads
  <2>5. m = ReplaceChild(n, i, child.node) /\ t = InsertNode(child.st, child.node)
    OBVIOUS
  <2> HIDE DEF m, t
  <2>6. m.split = n.split /\ Sound(t) /\ Fits(m, e, t)
    BY <2>1, <2>2, <2>3, <2>4, <2>5, ReplaceFits
  <2> QED BY <1>4, <2>6 DEF Left, Fine
<1> HIDE DEF at, b, m, t
<1> QED BY <1>1, <1>2, <1>3, <1>4

(* The answers over st for the child c[1] of the parent c[2].               *)
FineAnswers(st, c) ==
    {a \in Answers(st) :
       \A e \in Nat : c[1] \in Level[e] /\ c[2] \in Level[e + 1] => Fine(a, e)}

FineFor(C, N, st) == [d \in 0..N |-> [c \in C |-> FineAnswers(st, c)]]

(***************************************************************************)
(* The family of answers that the induction over a call is about.          *)
(***************************************************************************)
LEMMA FineForIs ==
    ASSUME NEW st, NEW C, NEW N \in Nat
    PROVE  \A d \in 0..N : \A c \in C : FineFor(C, N, st)[d][c] = FineAnswers(st, c)
BY DEF FineFor

(***************************************************************************)
(* A stored node with cleared flags is an answer of its level.             *)
(***************************************************************************)
LEMMA AnswerFine ==
    ASSUME ~StickyFlags, NEW st \in Stores, Sound(st), NEW h \in DOMAIN st, NEW g
    PROVE  Answer(GetNode(st, h), st) \in FineAnswers(st, <<h, g>>)
<1> DEFINE n == GetNode(st, h)
<1>1. n \in Node
  BY StoreFields
<1>2. ~n.split
  <2>1. st[h] \in Node
    BY StoreFields
  <2> QED BY <2>1 DEF GetNode, Node
<1>3. ASSUME NEW e \in Nat, h \in Level[e] PROVE Fits(n, e, st)
  BY <1>3, FitsAgain
<1> HIDE DEF n
<1>4. Answer(n, st) \in Answers(st)
  BY <1>1, UnchangedType
<1>5. Answer(n, st).node = n /\ Answer(n, st).st = st
  BY DEF Answer
<1>6. ASSUME NEW e \in Nat, h \in Level[e] PROVE Fine(Answer(n, st), e)
  BY <1>2, <1>3, <1>5, <1>6 DEF Fine
<1>7. Answer(n, st) \in FineAnswers(st, <<h, g>>)
  BY <1>4, <1>6 DEF FineAnswers
<1> QED BY <1>7 DEF n

(***************************************************************************)
(* The answers of the family are such as a parent can take in.             *)
(***************************************************************************)
LEMMA ChildIsFine ==
    ASSUME NEW st \in Stores, NEW n \in Node, NEW e \in Nat, Fits(n, e, st), NEW key \in Keys,
           NEW i, i = ChildIndex(n, key), Leads(n, i, st),
           NEW child \in FineAnswers(st, <<n.vals[i], Hash(n)>>)
    PROVE  ChildFine(n, e, st, child)
<1> SUFFICES ASSUME NEW f \in Nat, e = f + 1 PROVE child \in Answers(st) /\ Fine(child, f)
  BY DEF ChildFine
<1>1. Hash(n) \in Level[f + 1]
  BY FitsLevel
<1>2. i \in 1..Len(n.vals)
  BY ChildIndexType DEF Leads
<1>3. n.vals[i] \in Level[f]
  <2>1. e # 0 /\ e - 1 = f
    OBVIOUS
  <2> QED BY <1>2, <2>1 DEF Fits, Holds, Below
<1> QED BY <1>1, <1>3 DEF FineAnswers

-----------------------------------------------------------------------------
(* Insert and delete keep the levels                                       *)

(***************************************************************************)
(* One step of the recursion of insert stays within the family.            *)
(***************************************************************************)
LEMMA ChildInsertFine ==
    ASSUME ~StickyFlags, NEW st \in Stores, Sound(st), NEW key \in Keys, NEW val \in Values,
           NEW c, c[1] \in DOMAIN st, NEW below,
           \A h \in DOMAIN st : below[<<h, c[1]>>] \in FineAnswers(st, <<h, c[1]>>)
    PROVE  InsertVia(GetNode(st, c[1]), key, val, st, <<c[2]>>, below) \in FineAnswers(st, c)
<1> DEFINE n == GetNode(st, c[1])
           i == ChildIndex(n, key)
           child == below[<<n.vals[i], Hash(n)>>]
           r == InsertVia(n, key, val, st, <<c[2]>>, below)
<1>1. n \in Node /\ Hash(n) = c[1]
  BY StoreFields
<1>2. ~n.split
  <2>1. st[c[1]] \in Node
    BY StoreFields
  <2> QED BY <2>1 DEF GetNode, Node
<1>3. ASSUME NEW e \in Nat, c[1] \in Level[e] PROVE Fits(n, e, st)
  BY <1>3, FitsAgain
<1> HIDE DEF n
<1>4. ASSUME Leads(n, i, st) PROVE child \in FineAnswers(st, <<n.vals[i], Hash(n)>>)
  <2>1. n.vals[i] \in DOMAIN st
    BY <1>4 DEF Leads
  <2> QED BY <1>1, <2>1
<1>5. r \in Answers(st)
  <2>1. ASSUME Leads(n, i, st) PROVE child \in Answers(st)
    BY <1>4, <2>1 DEF FineAnswers
  <2> QED BY <1>1, <2>1, InsertViaType, UniverseClosed
<1>6. ASSUME NEW e \in Nat, c[1] \in Level[e], c[2] \in Level[e + 1] PROVE Fine(r, e)
  <2>1. Fits(n, e, st) /\ Near(<<c[2]>>, e)
    BY <1>3, <1>6 DEF Near
  <2> HIDE DEF i, child
  <2>2. ASSUME Leads(n, i, st) PROVE ChildFine(n, e, st, child)
    BY <1>1, <1>4, <2>1, <2>2, ChildIsFine DEF i
  <2> DEFINE parent == <<c[2]>>
  <2>3. parent # <<>> /\ Near(parent, e) /\ r = InsertVia(n, key, val, st, parent, below)
    BY <2>1
  <2> HIDE DEF r, parent
  <2>4. Left(r, e, parent)
    BY <1>1, <1>2, <2>1, <2>2, <2>3, InsertViaFits DEF i, child
  <2> QED BY <2>3, <2>4 DEF Left
<1> HIDE DEF r
<1>7. r \in FineAnswers(st, c)
  BY <1>5, <1>6 DEF FineAnswers
<1> QED BY <1>7 DEF r, n

(***************************************************************************)
(* Node::insert keeps every stored node at its level and answers a node of *)
(* some level.                                                             *)
(***************************************************************************)
LEMMA NodeInsertFits ==
    ASSUME ~StickyFlags, NEW st \in Stores, Sound(st), NEW n \in Node, NEW key \in Keys, NEW val \in Values,
           NEW e \in Nat, Fits(n, e, st), NEW r, r = NodeInsert(n, key, val, st)
    PROVE  /\ r \in Answers(st) /\ Sound(r.st)
           /\ \E f \in Nat : Fits(r.node, f, r.st)
<1> DEFINE C == Calls(n, st)
           N == Cardinality(DOMAIN st)
           G == FineFor(C, N, st)
<1>0. N \in Nat /\ 0 \in 0..N /\ N \in 0..N /\ \A d \in 1..N : d \in 0..N /\ d - 1 \in 0..N
  BY StoreFields
<1>1. C = Calls(n, st) /\ N = Cardinality(DOMAIN st)
  OBVIOUS
<1>2. \A c \in C : c[1] \in DOMAIN st /\ c = <<c[1], c[2]>>
        /\ \A h \in DOMAIN st : <<h, c[1]>> \in C
  BY DEF Calls
<1>3. \A h \in DOMAIN st : <<h, Hash(n)>> \in C
  BY DEF Calls
<1> HIDE DEF C, N
<1>4. \A d \in 0..N : \A c \in C : G[d][c] = FineAnswers(st, c)
  BY <1>0, FineForIs
<1> HIDE DEF G
<1>5. ASSUME NEW c \in C PROVE Answer(GetNode(st, c[1]), st) \in G[0][c]
  <2>1. Answer(GetNode(st, c[1]), st) \in FineAnswers(st, <<c[1], c[2]>>)
    BY <1>2, AnswerFine
  <2> QED BY <1>0, <1>2, <1>4, <2>1
<1>6. ASSUME NEW d \in 1..N, NEW below, Answered(below, C, G[d - 1]), NEW c \in C
      PROVE  InsertVia(GetNode(st, c[1]), key, val, st, <<c[2]>>, below) \in G[d][c]
  <2>1. ASSUME NEW h \in DOMAIN st PROVE below[<<h, c[1]>>] \in FineAnswers(st, <<h, c[1]>>)
    BY <1>0, <1>2, <1>4, <1>6 DEF Answered
  <2>2. InsertVia(GetNode(st, c[1]), key, val, st, <<c[2]>>, below) \in FineAnswers(st, c)
    BY <1>2, <2>1, ChildInsertFine
  <2> QED BY <1>0, <1>4, <2>2
<1>7. InsertSteps(st, key, val, C, N, G)
  BY <1>5, <1>6 DEF InsertSteps
<1>8. PICK below : /\ Answered(below, C, G[N])
                   /\ r = InsertVia(n, key, val, st, <<>>, below)
  BY <1>1, <1>7, InsertInduction
<1> DEFINE i == ChildIndex(n, key)
           child == below[<<n.vals[i], Hash(n)>>]
           parent == <<>>
<1>9. ASSUME Leads(n, i, st) PROVE child \in FineAnswers(st, <<n.vals[i], Hash(n)>>)
  <2>1. n.vals[i] \in DOMAIN st
    BY <1>9 DEF Leads
  <2>2. <<n.vals[i], Hash(n)>> \in C
    BY <1>3, <2>1
  <2> QED BY <1>0, <1>4, <1>8, <2>2 DEF Answered
<1>10. r \in Answers(st)
  BY NodeInsertType, UniverseClosed
<1> HIDE DEF i, child
<1>11. ASSUME Leads(n, i, st) PROVE ChildFine(n, e, st, child)
  BY <1>9, <1>11, ChildIsFine DEF i
<1>12. Near(parent, e) /\ parent = <<>> /\ r = InsertVia(n, key, val, st, parent, below)
  BY <1>8 DEF Near
<1> HIDE DEF parent
<1>13. Left(r, e, parent)
  BY <1>11, <1>12, InsertViaFits DEF i, child
<1> QED BY <1>10, <1>13 DEF Left

(***************************************************************************)
(* One step of the recursion of delete stays within the family.            *)
(***************************************************************************)
LEMMA ChildDeleteFine ==
    ASSUME ~StickyFlags, NEW st \in Stores, Sound(st), NEW key \in Keys,
           NEW c, c[1] \in DOMAIN st, NEW below,
           \A h \in DOMAIN st : below[<<h, c[1]>>] \in FineAnswers(st, <<h, c[1]>>)
    PROVE  DeleteVia(GetNode(st, c[1]), key, st, <<c[2]>>, below) \in FineAnswers(st, c)
<1> DEFINE n == GetNode(st, c[1])
           i == ChildIndex(n, key)
           child == below[<<n.vals[i], Hash(n)>>]
           r == DeleteVia(n, key, st, <<c[2]>>, below)
<1>1. n \in Node /\ Hash(n) = c[1]
  BY StoreFields
<1>2. ~n.split
  <2>1. st[c[1]] \in Node
    BY StoreFields
  <2> QED BY <2>1 DEF GetNode, Node
<1>3. ASSUME NEW e \in Nat, c[1] \in Level[e] PROVE Fits(n, e, st)
  BY <1>3, FitsAgain
<1> HIDE DEF n
<1>4. ASSUME Leads(n, i, st) PROVE child \in FineAnswers(st, <<n.vals[i], Hash(n)>>)
  <2>1. n.vals[i] \in DOMAIN st
    BY <1>4 DEF Leads
  <2> QED BY <1>1, <2>1
<1>5. r \in Answers(st)
  <2>1. ASSUME Leads(n, i, st) PROVE child \in Answers(st)
    BY <1>4, <2>1 DEF FineAnswers
  <2> QED BY <1>1, <2>1, DeleteViaType
<1>6. ASSUME NEW e \in Nat, c[1] \in Level[e], c[2] \in Level[e + 1] PROVE Fine(r, e)
  <2>1. Fits(n, e, st) /\ Near(<<c[2]>>, e)
    BY <1>3, <1>6 DEF Near
  <2> HIDE DEF i, child
  <2>2. ASSUME Leads(n, i, st) PROVE ChildFine(n, e, st, child)
    BY <1>1, <1>4, <2>1, <2>2, ChildIsFine DEF i
  <2> DEFINE parent == <<c[2]>>
  <2>3. parent # <<>> /\ Near(parent, e) /\ r = DeleteVia(n, key, st, parent, below)
    BY <2>1
  <2> HIDE DEF r, parent
  <2>4. Left(r, e, parent)
    BY <1>1, <1>2, <2>1, <2>2, <2>3, DeleteViaFits DEF i, child
  <2> QED BY <2>3, <2>4 DEF Left
<1> HIDE DEF r
<1>7. r \in FineAnswers(st, c)
  BY <1>5, <1>6 DEF FineAnswers
<1> QED BY <1>7 DEF r, n

(***************************************************************************)
(* Node::delete keeps every stored node at its level and answers a node of *)
(* some level.                                                             *)
(***************************************************************************)
LEMMA NodeDeleteFits ==
    ASSUME ~StickyFlags, NEW st \in Stores, Sound(st), NEW n \in Node, NEW key \in Keys,
           NEW e \in Nat, Fits(n, e, st), NEW r, r = NodeDelete(n, key, st)
    PROVE  /\ r \in Answers(st) /\ Sound(r.st)
           /\ \E f \in Nat : Fits(r.node, f, r.st)
<1> DEFINE C == Calls(n, st)
           N == Cardinality(DOMAIN st)
           G == FineFor(C, N, st)
<1>0. N \in Nat /\ 0 \in 0..N /\ N \in 0..N /\ \A d \in 1..N : d \in 0..N /\ d - 1 \in 0..N
  BY StoreFields
<1>1. C = Calls(n, st) /\ N = Cardinality(DOMAIN st)
  OBVIOUS
<1>2. \A c \in C : c[1] \in DOMAIN st /\ c = <<c[1], c[2]>>
        /\ \A h \in DOMAIN st : <<h, c[1]>> \in C
  BY DEF Calls
<1>3. \A h \in DOMAIN st : <<h, Hash(n)>> \in C
  BY DEF Calls
<1> HIDE DEF C, N
<1>4. \A d \in 0..N : \A c \in C : G[d][c] = FineAnswers(st, c)
  BY <1>0, FineForIs
<1> HIDE DEF G
<1>5. ASSUME NEW c \in C PROVE Answer(GetNode(st, c[1]), st) \in G[0][c]
  <2>1. Answer(GetNode(st, c[1]), st) \in FineAnswers(st, <<c[1], c[2]>>)
    BY <1>2, AnswerFine
  <2> QED BY <1>0, <1>2, <1>4, <2>1
<1>6. ASSUME NEW d \in 1..N, NEW below, Answered(below, C, G[d - 1]), NEW c \in C
      PROVE  DeleteVia(GetNode(st, c[1]), key, st, <<c[2]>>, below) \in G[d][c]
  <2>1. ASSUME NEW h \in DOMAIN st PROVE below[<<h, c[1]>>] \in FineAnswers(st, <<h, c[1]>>)
    BY <1>0, <1>2, <1>4, <1>6 DEF Answered
  <2>2. DeleteVia(GetNode(st, c[1]), key, st, <<c[2]>>, below) \in FineAnswers(st, c)
    BY <1>2, <2>1, ChildDeleteFine
  <2> QED BY <1>0, <1>4, <2>2
<1>7. DeleteSteps(st, key, C, N, G)
  BY <1>5, <1>6 DEF DeleteSteps
<1>8. PICK below : /\ Answered(below, C, G[N])
                   /\ r = DeleteVia(n, key, st, <<>>, below)
  BY <1>1, <1>7, DeleteInduction
<1> DEFINE i == ChildIndex(n, key)
           child == below[<<n.vals[i], Hash(n)>>]
           parent == <<>>
<1>9. ASSUME Leads(n, i, st) PROVE child \in FineAnswers(st, <<n.vals[i], Hash(n)>>)
  <2>1. n.vals[i] \in DOMAIN st
    BY <1>9 DEF Leads
  <2>2. <<n.vals[i], Hash(n)>> \in C
    BY <1>3, <2>1
  <2> QED BY <1>0, <1>4, <1>8, <2>2 DEF Answered
<1>10. r \in Answers(st)
  BY NodeDeleteType
<1> HIDE DEF i, child
<1>11. ASSUME Leads(n, i, st) PROVE ChildFine(n, e, st, child)
  BY <1>9, <1>11, ChildIsFine DEF i
<1>12. Near(parent, e) /\ parent = <<>> /\ r = DeleteVia(n, key, st, parent, below)
  BY <1>8 DEF Near
<1> HIDE DEF parent
<1>13. Left(r, e, parent)
  BY <1>11, <1>12, DeleteViaFits DEF i, child
<1> QED BY <1>10, <1>13 DEF Left

-----------------------------------------------------------------------------
(* The levels in the loops of the batch calls and the merge                *)

(* Every stored node is of some level, and the root in memory is.           *)
Leveled == Sound(store) /\ \E e \in Nat : Fits(root, e, store)

SoundLoops(st) == {r \in Loops(st) : Sound(r.st) /\ \E e \in Nat : Fits(r.node, e, r.st)}

(***************************************************************************)
(* A stored node is of the level of its digest when it is read.            *)
(***************************************************************************)
LEMMA GetFits ==
    ASSUME NEW st \in Stores, Sound(st), NEW h \in DOMAIN st
    PROVE  \E e \in Nat : h \in Level[e] /\ Fits(st[h], e, st) /\ Fits(GetNode(st, h), e, st)
<1>1. PICK e \in Nat : Fits(st[h], e, st)
  BY DEF Sound
<1>2. st[h] \in Node /\ Hash(st[h]) = h
  BY StoreFields
<1>3. h \in Level[e]
  BY <1>1, <1>2, FitsLevel
<1> QED BY <1>1, <1>3, FitsAgain

(***************************************************************************)
(* What merge_trees reads from a leaf is a value, never a digest.          *)
(***************************************************************************)
LEMMA SideIsValue ==
    ASSUME NEW st \in Stores, Sound(st), NEW h \in DOMAIN st, st[h].leaf, NEW k
    PROVE  Side(st[h], k) \in Values \cup {Absent}
<1> DEFINE n == st[h]
<1>1. PICK e \in Nat : Fits(n, e, st)
  BY GetFits
<1>2. n \in Node /\ n.leaf
  BY StoreFields
<1> HIDE DEF n
<1>3. e = 0
  BY <1>1, <1>2 DEF Fits
<1>4. Holds(n, Values)
  BY <1>1, <1>3 DEF Fits, Below
<1>5. k \in Range(n.keys) => \E i \in 1..Len(n.vals) : ValueIn(n, k) = n.vals[i]
  BY <1>2, SideType
<1>6. Side(n, k) \in Values \cup {Absent}
  BY <1>4, <1>5 DEF Side, Holds
<1> QED BY <1>6 DEF n

(***************************************************************************)
(* A loop goes on with levels after an answer that keeps them, and when it *)
(* fails.                                                                  *)
(***************************************************************************)
LEMMA LoopFits ==
    ASSUME NEW st, NEW r \in SoundLoops(st), NEW a \in Answers(r.st), NEW saved,
           Sound(a.st), \E f \in Nat : Fits(a.node, f, a.st)
    PROVE  /\ After(r, a, saved) \in Loops(st) => After(r, a, saved) \in SoundLoops(st)
           /\ Failed(r) \in SoundLoops(st)
<1>1. After(r, a, saved).node = a.node /\ After(r, a, saved).st = a.st
  BY DEF After
<1>2. r \in Loops(st) /\ Sound(r.st) /\ \E e \in Nat : Fits(r.node, e, r.st)
  BY DEF SoundLoops
<1>3. Failed(r) \in Loops(st) /\ Failed(r).node = r.node /\ Failed(r).st = r.st
  BY <1>2 DEF Failed, Loops
<1>4. Failed(r) \in SoundLoops(st)
  BY <1>2, <1>3 DEF SoundLoops
<1>5. ASSUME After(r, a, saved) \in Loops(st) PROVE After(r, a, saved) \in SoundLoops(st)
  BY <1>1, <1>5 DEF SoundLoops
<1> QED BY <1>4, <1>5

(***************************************************************************)
(* A loop that stores the root after each call goes on with levels.        *)
(***************************************************************************)
LEMMA KeptFits ==
    ASSUME NEW st, NEW r \in SoundLoops(st), NEW a \in Answers(r.st),
           Sound(a.st), \E f \in Nat : Fits(a.node, f, a.st)
    PROVE  KeptAfter(r, a) \in Loops(st) => KeptAfter(r, a) \in SoundLoops(st)
<1> DEFINE s == InsertNode(a.st, a.node)
           q == KeptAfter(r, a)
<1>0. a.node \in Node /\ a.st \in Stores
  BY AnswerFields
<1>1. q.node = a.node /\ q.st = s
  BY DEF KeptAfter, After, Answers
<1>2. PICK f \in Nat : Fits(a.node, f, a.st)
  OBVIOUS
<1>3. Sound(s)
  BY <1>0, <1>2, StoreSound
<1>4. DOMAIN a.st \subseteq DOMAIN s
  <2>1. DOMAIN s = DOMAIN a.st \cup {Hash(a.node)}
    BY <1>0, InsertNodeType
  <2> QED BY <2>1
<1> HIDE DEF s, q
<1>5. Fits(a.node, f, s)
  BY <1>2, <1>4, FitsGrows
<1>6. q \in Loops(st) => q \in SoundLoops(st)
  BY <1>1, <1>3, <1>5 DEF SoundLoops
<1> QED BY <1>6 DEF q

(***************************************************************************)
(* Every step of the loops of insert_batch, delete_batch and the merge     *)
(* keeps the levels.                                                       *)
(***************************************************************************)
LEMMA NextFits ==
    ASSUME ~StickyFlags, NEW st, NEW r \in SoundLoops(st), NEW k \in Keys
    PROVE  /\ \A v \in Values : InsertNext(r, k, v) \in SoundLoops(st)
           /\ DeleteNext(r, k) \in SoundLoops(st)
           /\ \A v \in Values \cup {Absent} : ApplyResult(r, k, v) \in SoundLoops(st)
<1>0. /\ r \in Loops(st) /\ r.node \in Node /\ r.st \in Stores
      /\ Sound(r.st) /\ \E e \in Nat : Fits(r.node, e, r.st)
  BY DEF SoundLoops, Loops
<1>1. PICK e \in Nat : Fits(r.node, e, r.st)
  BY <1>0
<1> DEFINE del == NodeDelete(r.node, k, r.st)
           ins(v) == NodeInsert(r.node, k, v, r.st)
<1>2. del \in Answers(r.st) /\ Sound(del.st) /\ \E f \in Nat : Fits(del.node, f, del.st)
  BY <1>0, <1>1, NodeDeleteFits
<1>3. ASSUME NEW v \in Values
      PROVE  ins(v) \in Answers(r.st) /\ Sound(ins(v).st) /\ \E f \in Nat : Fits(ins(v).node, f, ins(v).st)
  BY <1>0, <1>1, NodeInsertFits
<1> HIDE DEF del, ins
<1>4. Failed(r) \in SoundLoops(st)
  BY <1>2, LoopFits
<1>5. ASSUME NEW v \in Values PROVE InsertNext(r, k, v) \in SoundLoops(st)
  <2>1. InsertNext(r, k, v) \in Loops(st)
    BY <1>0, NextTypes, UniverseClosed
  <2>2. InsertNext(r, k, v) = After(r, ins(v), {}) \/ InsertNext(r, k, v) = Failed(r)
    BY DEF InsertNext, ins
  <2>3. After(r, ins(v), {}) \in Loops(st) => After(r, ins(v), {}) \in SoundLoops(st)
    BY <1>3, LoopFits
  <2> QED BY <1>4, <2>1, <2>2, <2>3
<1>6. DeleteNext(r, k) \in SoundLoops(st)
  <2>1. DeleteNext(r, k) \in Loops(st)
    BY <1>0, NextTypes
  <2>2. DeleteNext(r, k) = After(r, del, {}) \/ DeleteNext(r, k) = Failed(r)
    BY DEF DeleteNext, del
  <2>3. After(r, del, {}) \in Loops(st) => After(r, del, {}) \in SoundLoops(st)
    BY <1>2, LoopFits
  <2> QED BY <1>4, <2>1, <2>2, <2>3
<1>7. ASSUME NEW v \in Values \cup {Absent} PROVE ApplyResult(r, k, v) \in SoundLoops(st)
  <2> DEFINE q == ApplyResult(r, k, v)
  <2>1. q \in Loops(st)
    BY <1>0, NextTypes, UniverseClosed
  <2>2. \/ q = Failed(r)
        \/ v = Absent /\ q = KeptAfter(r, del)
        \/ v # Absent /\ q = KeptAfter(r, ins(v))
    BY DEF ApplyResult, del, ins
  <2>3. KeptAfter(r, del) \in Loops(st) => KeptAfter(r, del) \in SoundLoops(st)
    BY <1>2, KeptFits
  <2>4. ASSUME v # Absent
        PROVE  KeptAfter(r, ins(v)) \in Loops(st) => KeptAfter(r, ins(v)) \in SoundLoops(st)
    BY <1>3, <2>4, KeptFits
  <2> HIDE DEF q
  <2>5. q \in SoundLoops(st)
    BY <1>4, <2>1, <2>2, <2>3, <2>4
  <2> QED BY <2>5 DEF q
<1> QED BY <1>5, <1>6, <1>7

-----------------------------------------------------------------------------
(* The levels of the tree, operation by operation                          *)

(***************************************************************************)
(* persist_root of a node of some level.                                   *)
(***************************************************************************)
LEMMA PersistLeveled ==
    ASSUME NEW r, r.node \in Node, r.st \in Stores, Sound(r.st),
           \E f \in Nat : Fits(r.node, f, r.st), Persist(r)
    PROVE  Leveled'
<1>1. root' = r.node /\ store' = InsertNode(r.st, r.node)
  BY DEF Persist
<1>2. PICK f \in Nat : Fits(r.node, f, r.st)
  OBVIOUS
<1> DEFINE s == InsertNode(r.st, r.node)
<1>3. Sound(s)
  BY <1>2, StoreSound
<1>4. DOMAIN r.st \subseteq DOMAIN s
  <2>1. DOMAIN s = DOMAIN r.st \cup {Hash(r.node)}
    BY InsertNodeType
  <2> QED BY <2>1
<1>5. s = store'
  BY <1>1
<1> HIDE DEF s
<1>6. Fits(r.node, f, s)
  BY <1>2, <1>4, FitsGrows
<1>7. Sound(store') /\ Fits(root', f, store')
  BY <1>1, <1>3, <1>5, <1>6
<1> QED BY <1>7 DEF Leveled

(***************************************************************************)
(* insert and update keep the levels.                                      *)
(***************************************************************************)
LEMMA InsertLeveled ==
    ASSUME ~StickyFlags, Typing, Leveled, NEW k \in Keys, NEW v \in Values, Insert(k, v) \/ Update(k, v)
    PROVE  Leveled'
<1>1. root \in Node /\ store \in Stores /\ Sound(store) /\ \E e \in Nat : Fits(root, e, store)
  BY DEF Typing, Leveled
<1>2. PICK e \in Nat : Fits(root, e, store)
  BY <1>1
<1> DEFINE r == NodeInsert(root, k, v, store)
<1>3. r \in Answers(store) /\ Sound(r.st) /\ \E f \in Nat : Fits(r.node, f, r.st)
  BY <1>1, <1>2, NodeInsertFits
<1>4. Persist(r) \/ UNCHANGED <<root, store>>
  BY DEF Insert, Update
<1> HIDE DEF r
<1>5. r.node \in Node /\ r.st \in Stores
  BY <1>3, AnswerFields
<1>6. CASE Persist(r)
  BY <1>3, <1>5, <1>6, PersistLeveled
<1>7. CASE UNCHANGED <<root, store>>
  BY <1>7 DEF Leveled
<1> QED BY <1>4, <1>6, <1>7

(***************************************************************************)
(* delete keeps the levels.                                                *)
(***************************************************************************)
LEMMA DeleteLeveled ==
    ASSUME ~StickyFlags, Typing, Leveled, NEW k \in Keys, Delete(k)
    PROVE  Leveled'
<1>1. root \in Node /\ store \in Stores /\ Sound(store) /\ \E e \in Nat : Fits(root, e, store)
  BY DEF Typing, Leveled
<1>2. PICK e \in Nat : Fits(root, e, store)
  BY <1>1
<1> DEFINE r == NodeDelete(root, k, store)
<1>3. r \in Answers(store) /\ Sound(r.st) /\ \E f \in Nat : Fits(r.node, f, r.st)
  BY <1>1, <1>2, NodeDeleteFits
<1>4. Persist(r) \/ UNCHANGED <<root, store>>
  BY DEF Delete, DeleteFrom
<1> HIDE DEF r
<1>5. r.node \in Node /\ r.st \in Stores
  BY <1>3, AnswerFields
<1>6. CASE Persist(r)
  BY <1>3, <1>5, <1>6, PersistLeveled
<1>7. CASE UNCHANGED <<root, store>>
  BY <1>7 DEF Leveled
<1> QED BY <1>4, <1>6, <1>7

(***************************************************************************)
(* The loops start with levels, from the root and from a stored tree.      *)
(***************************************************************************)
LEMMA LoopStart ==
    ASSUME Typing, Leveled
    PROVE  /\ Loop \in SoundLoops(store)
           /\ \A h \in DOMAIN store : [Loop EXCEPT !.node = GetNode(store, h)] \in SoundLoops(store)
<1>1. root \in Node /\ store \in Stores /\ Sound(store) /\ \E e \in Nat : Fits(root, e, store)
  BY DEF Typing, Leveled
<1>2. Loop \in SoundLoops(store)
  <2>1. Loop.node = root /\ Loop.st = store /\ Loop \in Loops(store)
    BY LoopType DEF Loop
  <2> QED BY <1>1, <2>1 DEF SoundLoops
<1>3. ASSUME NEW h \in DOMAIN store
      PROVE  [Loop EXCEPT !.node = GetNode(store, h)] \in SoundLoops(store)
  <2> DEFINE g == GetNode(store, h)
             r == [Loop EXCEPT !.node = g]
  <2>1. r.node = g /\ r.st = store
    BY DEF Loop
  <2>2. r \in Loops(store)
    BY LoopType DEF SavedLoops
  <2>3. \E e \in Nat : Fits(g, e, store)
    BY <1>1, GetFits
  <2> HIDE DEF g, r
  <2>4. r \in SoundLoops(store)
    BY <1>1, <2>1, <2>2, <2>3 DEF SoundLoops
  <2> QED BY <2>4 DEF r, g
<1> QED BY <1>2, <1>3

(***************************************************************************)
(* A batch call that leaves its root unsaved keeps the levels.             *)
(***************************************************************************)
LEMMA UnsavedLeveled ==
    ASSUME NEW st, NEW r \in SoundLoops(st), Unsaved(r)
    PROVE  Leveled'
<1>1. root' = r.node /\ store' = r.st
  BY DEF Unsaved
<1> QED BY <1>1 DEF Leveled, SoundLoops

(***************************************************************************)
(* insert_batch and delete_batch keep the levels.                          *)
(***************************************************************************)
LEMMA BatchLeveled ==
    ASSUME ~StickyFlags, Typing, Leveled, NEW batch \in Batches,
           InsertBatch(batch) \/ DeleteBatch(DOMAIN batch)
    PROVE  Leveled'
<1> DEFINE V == SoundLoops(store)
<1>1. \A r \in V, k \in Keys, v \in Values : InsertNext(r, k, v) \in V
  BY NextFits
<1>2. \A r \in V, k \in Keys : DeleteNext(r, k) \in V
  BY NextFits
<1>3. Loop \in V
  BY LoopStart
<1>0. V = SoundLoops(store)
  OBVIOUS
<1> HIDE DEF V
<1>4. CASE InsertBatch(batch)
  <2>1. PICK order \in InSortedOrder(DOMAIN batch) :
          Unsaved(InsertRun(Len(order), Loop, order, batch)[Len(order)])
    BY <1>4 DEF InsertBatch, InsertRun
  <2>2. InsertRun(Len(order), Loop, order, batch)[Len(order)] \in V
    BY <1>1, <1>3, InsertBatchEnds
  <2> QED BY <1>0, <2>1, <2>2, UnsavedLeveled
<1>5. CASE DeleteBatch(DOMAIN batch)
  <2>1. PICK order \in InSortedOrder(DOMAIN batch) :
          Unsaved(DeleteRun(Len(order), Loop, order)[Len(order)])
    BY <1>5 DEF DeleteBatch, DeleteRun
  <2>2. DeleteRun(Len(order), Loop, order)[Len(order)] \in V
    BY <1>2, <1>3, DeleteBatchEnds
  <2> QED BY <1>0, <2>1, <2>2, UnsavedLeveled
<1> QED BY <1>4, <1>5

(***************************************************************************)
(* merge_trees keeps the levels: it puts the values of leaves into leaves. *)
(***************************************************************************)
LEMMA MergeLeveled ==
    ASSUME ~StickyFlags, Typing, Leveled, NEW s \in roots, NEW b \in roots, NEW resolver,
           MergeTrees(s, b, resolver)
    PROVE  Leveled'
<1> DEFINE d == savedRoot[1]
           results == MergeResults(store[s], store[d], store[b], resolver)
           open == {k \in DOMAIN results : results[k] = {}}
           start == [Loop EXCEPT !.node = GetNode(store, d)]
           V == SoundLoops(store)
<1>1. /\ savedRoot # <<>>
      /\ store[s].leaf /\ store[d].leaf
      /\ \/ UNCHANGED <<root, store, savedRoot, roots, strayed>>
         \/ /\ open = {}
            /\ \E order \in SetToSeqs(DOMAIN results) :
                 Merged(MergeRun(Len(order), start, order, results)[Len(order)])
  BY DEF MergeTrees, MergeRun, Chosen
<1>2. s \in DOMAIN store /\ b \in DOMAIN store /\ d \in DOMAIN store /\ store \in Stores
  BY <1>1 DEF Typing
<1>3. store[s] \in Node /\ store[b] \in Node /\ store[d] \in Node
  BY <1>2, StoreFields
<1>4. CASE UNCHANGED <<root, store, savedRoot, roots, strayed>>
  BY <1>4 DEF Leveled
<1>5. CASE /\ open = {}
           /\ \E order \in SetToSeqs(DOMAIN results) :
                Merged(MergeRun(Len(order), start, order, results)[Len(order)])
  <2>1. PICK order \in SetToSeqs(DOMAIN results) :
                Merged(MergeRun(Len(order), start, order, results)[Len(order)])
    BY <1>5
  <2>2. \A k \in DOMAIN results : results[k] # {}
    BY <1>5
  <2>3. ASSUME NEW r \in V, NEW k \in Keys
        PROVE  /\ ApplyResult(r, k, Side(store[s], k)) \in V
               /\ ApplyResult(r, k, Side(store[d], k)) \in V
    <3>1. \A side \in Values \cup {Absent} : ApplyResult(r, k, side) \in V
      BY NextFits
    <3>2. Sound(store)
      BY DEF Leveled
    <3>3. Side(store[s], k) \in Values \cup {Absent} /\ Side(store[d], k) \in Values \cup {Absent}
      <4> HIDE DEF d
      <4> QED BY <1>1, <1>2, <3>2, SideIsValue
    <3> HIDE DEF V, d
    <3> QED BY <3>1, <3>3
  <2>4. start \in V
    BY <1>2, LoopStart
  <2>5. results = MergeResults(store[s], store[d], store[b], resolver) /\ V = SoundLoops(store)
    OBVIOUS
  <2> HIDE DEF results, start, d, V
  <2> DEFINE r == MergeRun(Len(order), start, order, results)[Len(order)]
  <2>6. r \in V
    BY <1>3, <2>2, <2>3, <2>4, <2>5, MergeEnds
  <2>7. Merged(r)
    BY <2>1
  <2> HIDE DEF r
  <2>8. root' = r.node /\ store' = r.st
    BY <2>7 DEF Merged
  <2> QED BY <2>5, <2>6, <2>8 DEF Leveled, SoundLoops
<1> QED BY <1>1, <1>4, <1>5

(***************************************************************************)
(* Every step of the tree keeps the levels.                                *)
(***************************************************************************)
LEMMA NextLeveled ==
    ASSUME ~StickyFlags, Typing, Leveled, [Next]_vars
    PROVE  Leveled'
<1>1. root \in Node /\ store \in Stores /\ Sound(store) /\ \E e \in Nat : Fits(root, e, store)
  BY DEF Typing, Leveled
<1>4. CASE PersistRoot
  <2>1. Persist(Loop) /\ Loop.node = root /\ Loop.st = store
    BY <1>4 DEF PersistRoot, Loop
  <2> QED BY <1>1, <2>1, PersistLeveled
<1>5. CASE Reload
  <2> DEFINE h == savedRoot[1]
             g == GetNode(store, h)
  <2>1. h \in DOMAIN store /\ root' = g /\ store' = store
    BY <1>5 DEF Reload
  <2>2. \E e \in Nat : Fits(g, e, store)
    BY <1>1, <2>1, GetFits
  <2> HIDE DEF g, h
  <2> QED BY <1>1, <2>1, <2>2 DEF Leveled
<1>7. CASE UNCHANGED vars
  BY <1>7 DEF vars, Leveled
<1> QED BY <1>4, <1>5, <1>7, InsertLeveled, DeleteLeveled, BatchLeveled, MergeLeveled DEF Next

(***************************************************************************)
(* The empty tree is of level 0.                                           *)
(***************************************************************************)
LEMMA InitLeveled ==
    Init => Leveled
<1> SUFFICES ASSUME Init PROVE Leveled
  OBVIOUS
<1>1. root = EmptyRoot /\ store = EmptyStore
  BY DEF Init
<1>2. EmptyRoot.vals = <<>> /\ EmptyRoot.leaf = TRUE
  BY DEF EmptyRoot, MakeNode
<1>3. Fits(EmptyRoot, 0, EmptyStore)
  BY <1>2 DEF Fits, Holds
<1>4. DOMAIN EmptyStore = {}
  BY DEF EmptyStore
<1> QED BY <1>1, <1>3, <1>4 DEF Leveled, Sound

-----------------------------------------------------------------------------
(* A tree reads the same in a storage that has grown                       *)

(***************************************************************************)
(* A descent ends at level 0 and goes on to a stored child one level down  *)
(* above it.                                                               *)
(***************************************************************************)
LEMMA ChildOfLevel ==
    ASSUME NEW st \in Stores, Sound(st), NEW h \in DOMAIN st, NEW e \in Nat, h \in Level[e],
           NEW key \in Keys, NEW n, n = GetNode(st, h), NEW i, i = ChildIndex(n, key)
    PROVE  /\ e = 0 => ~Leads(n, i, st)
           /\ e > 0 => Leads(n, i, st) /\ e - 1 \in Nat /\ n.vals[i] \in DOMAIN st
                       /\ n.vals[i] \in Level[e - 1]
<1>1. Fits(n, e, st)
  BY FitsAgain
<1>2. n \in Node
  BY StoreFields
<1>3. n.vals # <<>> => i \in 1..Len(n.vals)
  BY <1>2, ChildIndexType
<1>4. ASSUME e = 0 PROVE ~Leads(n, i, st)
  BY <1>1, <1>4 DEF Fits, Leads
<1>5. ASSUME e > 0
      PROVE  Leads(n, i, st) /\ e - 1 \in Nat /\ n.vals[i] \in DOMAIN st /\ n.vals[i] \in Level[e - 1]
  <2>1. ~n.leaf /\ n.vals # <<>> /\ Holds(n, Level[e - 1] \cap DOMAIN st)
    BY <1>1, <1>5 DEF Fits, Below
  <2>2. n.vals[i] \in Level[e - 1] \cap DOMAIN st
    BY <1>3, <2>1 DEF Holds
  <2>3. e - 1 \in Nat
    BY <1>5
  <2> QED BY <2>1, <2>2, <2>3 DEF Leads
<1> QED BY <1>4, <1>5

(***************************************************************************)
(* Below a stored digest of level e every level down to 0 is stored, so    *)
(* the recursions have calls enough to reach the leaves.                   *)
(***************************************************************************)
LEMMA LevelsStored ==
    ASSUME NEW st \in Stores, Sound(st), NEW h \in DOMAIN st, NEW e \in Nat, h \in Level[e]
    PROVE  e < Cardinality(DOMAIN st)
<1> DEFINE T == {i \in 0..e : \E g \in DOMAIN st : g \in Level[e - i]}
<1>1. 0 \in T
  <2>1. e - 0 = e
    OBVIOUS
  <2> QED BY <2>1
<1>2. ASSUME NEW i \in 1..e, i - 1 \in T PROVE i \in T
  <2> DEFINE f == e - (i - 1)
  <2>1. f \in Nat /\ f > 0 /\ f - 1 = e - i
    OBVIOUS
  <2>2. PICK g \in DOMAIN st : g \in Level[f]
    BY <1>2
  <2> HIDE DEF f
  <2>3. Fits(st[g], f, st) /\ st[g] \in Node
    BY <2>1, <2>2, FitsAgain, StoreFields
  <2>4. st[g].vals # <<>> /\ Holds(st[g], Level[f - 1] \cap DOMAIN st)
    BY <2>1, <2>3 DEF Fits, Below
  <2>5. 1 \in 1..Len(st[g].vals)
    BY <2>3, <2>4, NodeFields, EmptySeq
  <2>6. st[g].vals[1] \in Level[f - 1] \cap DOMAIN st
    BY <2>4, <2>5 DEF Holds
  <2> QED BY <2>1, <2>6
<1>3. 0..e \subseteq T
  <2> HIDE DEF T
  <2> QED BY <1>1, <1>2, StepByStep
<1>4. \A j \in 0..e : \E g \in DOMAIN st : g \in Level[j]
  <2> SUFFICES ASSUME NEW j \in 0..e PROVE \E g \in DOMAIN st : g \in Level[j]
    OBVIOUS
  <2>1. e - j \in 0..e /\ e - (e - j) = j
    OBVIOUS
  <2>2. e - j \in T
    BY <1>3, <2>1
  <2> QED BY <2>1, <2>2
<1> DEFINE at == [j \in 0..e |-> CHOOSE g \in DOMAIN st : g \in Level[j]]
<1>5. \A j \in 0..e : at[j] \in DOMAIN st /\ at[j] \in Level[j]
  BY <1>4
<1>6. at \in [0..e -> DOMAIN st]
  BY <1>5
<1> HIDE DEF at
<1>7. at \in Injection(0..e, DOMAIN st)
  <2>1. ASSUME NEW i \in 0..e, NEW j \in 0..e, at[i] = at[j] PROVE i = j
    <3>1. Level[i] \cap Level[j] # {}
      BY <1>5, <2>1
    <3> QED BY <3>1, LevelOnce
  <2> QED BY <1>6, <2>1 DEF Injection, IsInjective
<1>8. Cardinality(0..e) <= Cardinality(DOMAIN st) /\ Cardinality(0..e) = e + 1
  <2>1. IsFiniteSet(DOMAIN st)
    BY StoreFields
  <2>2. Cardinality(0..e) <= Cardinality(DOMAIN st)
    BY <1>7, <2>1, FS_Injection
  <2>3. Cardinality(0..e) = e + 1
    <3>1. 0 \in Int /\ e \in Int
      OBVIOUS
    <3> QED BY <3>1, FS_Interval
  <2> QED BY <2>2, <2>3
<1>9. Cardinality(DOMAIN st) \in Nat
  BY StoreFields
<1> QED BY <1>8, <1>9

Long(h, key, st, N) ==
    {p \in Walks(GetNode(st, h), key, st) : \A e \in 0..N : h \in Level[e] => Len(p) = e + 1}

(***************************************************************************)
(* One step of a descent that reaches the leaves.                          *)
(***************************************************************************)
LEMMA LongGrows ==
    ASSUME NEW st \in Stores, Sound(st), NEW h \in DOMAIN st, NEW key \in Keys,
           NEW N \in Nat, NEW below, \A c \in DOMAIN st : below[c] \in Long(c, key, st, N)
    PROVE  DescendFrom(GetNode(st, h), key, st, below) \in Long(h, key, st, N + 1)
<1> DEFINE n == GetNode(st, h)
           i == ChildIndex(n, key)
           c == n.vals[i]
           p == DescendFrom(n, key, st, below)
<1>1. n \in Node
  BY StoreFields
<1>2. p \in Walks(n, key, st)
  <2>1. \A x \in DOMAIN st : below[x] \in Walks(GetNode(st, x), key, st)
    BY DEF Long
  <2> HIDE DEF n
  <2> QED BY <1>1, <2>1, DescendFromWalks
<1>3. ASSUME NEW e \in 0..(N + 1), h \in Level[e] PROVE Len(p) = e + 1
  <2>1. /\ e = 0 => ~Leads(n, i, st)
        /\ e > 0 => Leads(n, i, st) /\ c \in DOMAIN st /\ c \in Level[e - 1]
    BY <1>3, ChildOfLevel
  <2>2. p = IF Leads(n, i, st) THEN <<n>> \o below[c] ELSE <<n>>
    BY DEF DescendFrom
  <2> HIDE DEF n, i, c, p
  <2>3. CASE e = 0
    <3>1. Len(<<n>>) = 1
      OBVIOUS
    <3> QED BY <2>1, <2>2, <2>3, <3>1
  <2>4. CASE e > 0
    <3>1. below[c] \in Long(c, key, st, N) /\ e - 1 \in 0..N /\ e \in Nat
      BY <2>1, <2>4
    <3>2. below[c] \in Seq(Node) /\ Len(below[c]) = (e - 1) + 1
      BY <2>1, <2>4, <3>1 DEF Long, Walks
    <3>3. <<n>> \in Seq(Node) /\ Len(<<n>>) = 1
      BY <1>1
    <3>4. Len(<<n>> \o below[c]) = 1 + ((e - 1) + 1)
      BY <3>2, <3>3, ConcatProperties
    <3> QED BY <2>1, <2>2, <2>4, <3>1, <3>4
  <2> QED BY <2>3, <2>4
<1> HIDE DEF p
<1>4. p \in Long(h, key, st, N + 1)
  BY <1>2, <1>3 DEF Long
<1> QED BY <1>4 DEF p

(***************************************************************************)
(* A descent from a stored digest of level e visits e + 1 nodes.           *)
(***************************************************************************)
LEMMA DescentIsLong ==
    ASSUME NEW st \in Stores, Sound(st), NEW h \in DOMAIN st, NEW e \in Nat, h \in Level[e],
           NEW key \in Keys
    PROVE  /\ Descent(GetNode(st, h), key, st) \in Walks(GetNode(st, h), key, st)
           /\ Len(Descent(GetNode(st, h), key, st)) = e + 1
<1> DEFINE C == DOMAIN st
           N == Cardinality(DOMAIN st)
           G == [d \in 0..N |-> [c \in C |-> Long(c, key, st, d)]]
           n == GetNode(st, h)
<1>1. N \in Nat /\ e < N
  BY StoreFields, LevelsStored
<1>2. \A d \in 0..N, c \in C : G[d][c] = Long(c, key, st, d)
  OBVIOUS
<1>3. DescentSteps(st, key, C, N, G)
  <2>1. ASSUME NEW c \in C PROVE <<GetNode(st, c)>> \in G[0][c]
    <3> DEFINE g == GetNode(st, c)
    <3>1. g \in Node /\ g = GetNode(st, c)
      BY StoreFields
    <3> HIDE DEF g
    <3>2. <<g>> \in Seq(Node) /\ <<g>> # <<>> /\ <<g>>[1] = g /\ Len(<<g>>) = 1
      BY <3>1
    <3>3. <<g>> \in Walks(g, key, st)
      BY <3>2 DEF Walks
    <3>4. 0 \in 0..N /\ \A f \in 0..0 : f + 1 = 1
      BY <1>1
    <3>5. <<g>> \in Long(c, key, st, 0)
      BY <3>1, <3>2, <3>3, <3>4 DEF Long
    <3> HIDE DEF C, N, G
    <3> QED BY <1>2, <3>1, <3>4, <3>5
  <2>2. ASSUME NEW d \in 1..N, NEW below, Answered(below, C, G[d - 1]), NEW c \in C
        PROVE  DescendFrom(GetNode(st, c), key, st, below) \in G[d][c]
    <3>1. d \in 0..N /\ d - 1 \in 0..N /\ d - 1 \in Nat /\ (d - 1) + 1 = d
      BY <1>1
    <3>2. \A x \in DOMAIN st : below[x] \in Long(x, key, st, d - 1)
      BY <1>2, <2>2, <3>1 DEF Answered
    <3>3. DescendFrom(GetNode(st, c), key, st, below) \in Long(c, key, st, (d - 1) + 1)
      BY <3>1, <3>2, LongGrows
    <3> QED BY <1>2, <3>1, <3>3
  <2> HIDE DEF C, N, G
  <2> QED BY <2>1, <2>2 DEF DescentSteps
<1>4. C = DOMAIN st /\ N = Cardinality(DOMAIN st) /\ N \in 0..N /\ n = GetNode(st, h)
  BY <1>1
<1> HIDE DEF C, N, G, n
<1>5. PICK below : Answered(below, C, G[N]) /\ Descent(n, key, st) = DescendFrom(n, key, st, below)
  BY <1>3, <1>4, DescentInduction
<1>6. \A c \in DOMAIN st : below[c] \in Long(c, key, st, N)
  BY <1>2, <1>4, <1>5 DEF Answered
<1>7. Descent(n, key, st) \in Long(h, key, st, N + 1)
  BY <1>1, <1>4, <1>5, <1>6, LongGrows
<1>8. e \in 0..(N + 1)
  BY <1>1
<1> QED BY <1>4, <1>7, <1>8 DEF Long

(***************************************************************************)
(* The last of them is of level 0.                                         *)
(***************************************************************************)
LEMMA WalkDown ==
    ASSUME NEW st \in Stores, Sound(st), NEW h \in DOMAIN st, NEW e \in Nat, h \in Level[e],
           NEW key \in Keys, NEW p \in Walks(GetNode(st, h), key, st), Len(p) = e + 1
    PROVE  Last(p) \in Node /\ Fits(Last(p), 0, st)
<1> DEFINE At0(i) == \E g \in DOMAIN st : p[i + 1] = GetNode(st, g) /\ g \in Level[e - i]
           T == {i \in 0..e : At0(i)}
<1>0. /\ p \in Seq(Node) /\ p[1] = GetNode(st, h)
      /\ \A i \in 1..(Len(p) - 1) : StepsTo(p[i], key, st, p[i + 1])
  BY DEF Walks
<1>1. 0 \in T
  <2>1. 0 + 1 = 1 /\ e - 0 = e
    OBVIOUS
  <2> QED BY <1>0, <2>1
<1>2. ASSUME NEW i \in 1..e, i - 1 \in T PROVE i \in T
  <2> DEFINE f == e - (i - 1)
  <2>1. f \in Nat /\ f > 0 /\ f - 1 = e - i /\ (i - 1) + 1 = i /\ i \in 1..(Len(p) - 1)
    OBVIOUS
  <2>2. PICK g \in DOMAIN st : p[i] = GetNode(st, g) /\ g \in Level[f]
    BY <1>2, <2>1
  <2> HIDE DEF f
  <2>3. StepsTo(p[i], key, st, p[i + 1])
    BY <1>0, <2>1
  <2> DEFINE c == p[i].vals[ChildIndex(p[i], key)]
  <2>4. c \in DOMAIN st /\ p[i + 1] = GetNode(st, c)
    BY <2>3 DEF StepsTo
  <2>5. c \in Level[f - 1]
    BY <2>1, <2>2, ChildOfLevel
  <2> HIDE DEF c
  <2>6. At0(i)
    BY <2>1, <2>4, <2>5
  <2> QED BY <2>6
<1>3. 0..e \subseteq T
  <2> HIDE DEF T
  <2> QED BY <1>1, <1>2, StepByStep
<1>4. PICK g \in DOMAIN st : p[e + 1] = GetNode(st, g) /\ g \in Level[e - e]
  BY <1>3
<1>5. Last(p) = p[e + 1] /\ e - e = 0
  BY DEF Last
<1>6. Fits(GetNode(st, g), 0, st) /\ GetNode(st, g) \in Node
  BY <1>4, <1>5, FitsAgain, StoreFields
<1> QED BY <1>4, <1>5, <1>6

(***************************************************************************)
(* Two descents of one length from one digest for one key end in nodes     *)
(* with the same pairs, whatever the storages: the digests name the way.   *)
(***************************************************************************)
LEMMA SameWalk ==
    ASSUME NEW st \in Stores, NEW s \in Stores, NEW n, NEW m, NEW key, Hash(n) = Hash(m),
           NEW p \in Walks(n, key, st), NEW q \in Walks(m, key, s), Len(p) = Len(q)
    PROVE  Last(p).keys = Last(q).keys /\ Last(p).vals = Last(q).vals
<1> DEFINE Alike(a, b) == a.keys = b.keys /\ a.vals = b.vals
           N == Len(p) - 1
           T == {i \in 0..N : Alike(p[i + 1], q[i + 1])}
<1>0. /\ p \in Seq(Node) /\ p[1] = n /\ p # <<>> /\ q \in Seq(Node) /\ q[1] = m
      /\ \A i \in 1..(Len(p) - 1) : StepsTo(p[i], key, st, p[i + 1])
      /\ \A i \in 1..(Len(q) - 1) : StepsTo(q[i], key, s, q[i + 1])
  BY DEF Walks
<1>a. Len(p) \in Nat /\ N \in Nat
  BY <1>0, EmptySeq, LenProperties
<1>1. 0 \in T
  <2>1. 0 + 1 = 1 /\ 0 \in 0..N
    BY <1>a
  <2>2. Alike(n, m)
    BY DEF Hash
  <2> QED BY <1>0, <2>1, <2>2
<1>2. ASSUME NEW i \in 1..N, i - 1 \in T PROVE i \in T
  <2>1. (i - 1) + 1 = i /\ i \in 1..(Len(p) - 1) /\ i \in 1..(Len(q) - 1) /\ i \in 0..N
    BY <1>a
  <2>2. Alike(p[i], q[i])
    BY <1>2, <2>1
  <2>3. ChildIndex(p[i], key) = ChildIndex(q[i], key)
    BY <2>2 DEF ChildIndex
  <2> DEFINE c == p[i].vals[ChildIndex(p[i], key)]
  <2>4. c = q[i].vals[ChildIndex(q[i], key)]
    BY <2>2, <2>3
  <2>5. StepsTo(p[i], key, st, p[i + 1]) /\ StepsTo(q[i], key, s, q[i + 1])
    BY <1>0, <2>1
  <2>6. c \in DOMAIN st /\ p[i + 1] = GetNode(st, c)
    BY <2>5 DEF StepsTo
  <2>7. c \in DOMAIN s /\ q[i + 1] = GetNode(s, c)
    BY <2>4, <2>5 DEF StepsTo
  <2> HIDE DEF c
  <2>8. Alike(p[i + 1], q[i + 1])
    BY <2>6, <2>7, StoreFields
  <2> QED BY <2>1, <2>8
<1>3. 0..N \subseteq T
  <2> HIDE DEF T, N
  <2> QED BY <1>1, <1>2, <1>a, StepByStep
<1>4. N \in 0..N /\ N + 1 = Len(p)
  BY <1>a
<1>5. Alike(p[Len(p)], q[Len(p)])
  BY <1>3, <1>4
<1> QED BY <1>5 DEF Last

(***************************************************************************)
(* find sees a key exactly if the leaf its descent ends in has it.         *)
(***************************************************************************)
LEMMA FoundInLeaf ==
    ASSUME NEW st \in Stores, Sound(st), NEW h \in DOMAIN st, NEW key \in Keys,
           NEW n, n = GetNode(st, h), NEW end, end = Last(Descent(n, key, st))
    PROVE  /\ Descends(n, key, st) /\ NodeFind(n, key, st) # <<>> <=> key \in Range(end.keys)
           /\ key \in Range(end.keys) => ValueIn(NodeFind(n, key, st)[1], key) = ValueIn(end, key)
<1>1. PICK e \in Nat : h \in Level[e]
  BY GetFits
<1>2. end \in Node /\ Fits(end, 0, st)
  BY <1>1, DescentIsLong, WalkDown
<1>3. end.vals # <<>> => end.leaf
  BY <1>2 DEF Fits
<1>4. key \in Range(end.keys) => end.leaf
  <2> SUFFICES ASSUME key \in Range(end.keys) PROVE end.leaf
    OBVIOUS
  <2>1. Len(end.keys) # 0
    <3>1. PICK i \in DOMAIN end.keys : TRUE
      BY DEF Range
    <3>2. DOMAIN end.keys = 1..Len(end.keys)
      BY <1>2, NodeFields, LenProperties
    <3> QED BY <3>1, <3>2
  <2>2. end.vals # <<>>
    BY <1>2, <2>1, NodeFields, EmptySeq
  <2> QED BY <1>3, <2>2
<1>5. NodeFind(n, key, st) = IF end.leaf /\ key \in Range(end.keys) THEN <<end>> ELSE <<>>
  BY DEF NodeFind
<1>6. Descends(n, key, st) <=> (end.leaf \/ end.vals # <<>>)
  BY DEF Descends
<1>7. <<end>> # <<>> /\ <<end>>[1] = end
  OBVIOUS
<1> QED BY <1>4, <1>5, <1>6, <1>7

(***************************************************************************)
(* What find shows of a stored tree depends on its digest only.            *)
(***************************************************************************)
LEMMA SameContents ==
    ASSUME NEW st \in Stores, Sound(st), NEW s \in Stores, Sound(s),
           NEW h, h \in DOMAIN st, h \in DOMAIN s
    PROVE  Contents(GetNode(s, h), s) = Contents(GetNode(st, h), st)
<1> DEFINE n == GetNode(st, h)
           m == GetNode(s, h)
           E(k) == Last(Descent(n, k, st))
           F(k) == Last(Descent(m, k, s))
<1>1. PICK e \in Nat : h \in Level[e]
  BY GetFits
<1>2. ASSUME NEW k \in Keys
      PROVE  E(k).keys = F(k).keys /\ E(k).vals = F(k).vals
  <2> DEFINE p == Descent(n, k, st)
             q == Descent(m, k, s)
  <2>1. /\ p \in Walks(n, k, st) /\ Len(p) = e + 1
        /\ q \in Walks(m, k, s) /\ Len(q) = e + 1
    BY <1>1, DescentIsLong
  <2>2. Hash(n) = Hash(m)
    BY StoreFields
  <2> HIDE DEF p, q, n, m
  <2>3. Last(p).keys = Last(q).keys /\ Last(p).vals = Last(q).vals
    BY <2>1, <2>2, SameWalk
  <2> QED BY <2>3 DEF p, q
<1>3. ASSUME NEW k \in Keys
      PROVE  /\ Descends(n, k, st) /\ NodeFind(n, k, st) # <<>> <=> k \in Range(E(k).keys)
             /\ k \in Range(E(k).keys) => ValueIn(NodeFind(n, k, st)[1], k) = ValueIn(E(k), k)
  BY FoundInLeaf
<1>4. ASSUME NEW k \in Keys
      PROVE  /\ Descends(m, k, s) /\ NodeFind(m, k, s) # <<>> <=> k \in Range(F(k).keys)
             /\ k \in Range(F(k).keys) => ValueIn(NodeFind(m, k, s)[1], k) = ValueIn(F(k), k)
  BY FoundInLeaf
<1>5. ASSUME NEW k \in Keys
      PROVE  /\ (Descends(m, k, s) /\ NodeFind(m, k, s) # <<>>)
                  <=> (Descends(n, k, st) /\ NodeFind(n, k, st) # <<>>)
             /\ Descends(n, k, st) /\ NodeFind(n, k, st) # <<>>
                  => ValueIn(NodeFind(m, k, s)[1], k) = ValueIn(NodeFind(n, k, st)[1], k)
  <2>1. E(k).keys = F(k).keys /\ E(k).vals = F(k).vals
    BY <1>2
  <2>2. ValueIn(E(k), k) = ValueIn(F(k), k)
    <3> DEFINE a == E(k)
               b == F(k)
    <3>1. a.keys = b.keys /\ a.vals = b.vals
      BY <2>1
    <3> HIDE DEF a, b
    <3>2. ValueIn(a, k) = ValueIn(b, k)
      BY <3>1 DEF ValueIn
    <3> QED BY <3>2 DEF a, b
  <2> HIDE DEF n, m, E, F
  <2> QED BY <1>3, <1>4, <2>1, <2>2
<1> HIDE DEF n, m
<1> DEFINE A == {k \in Keys : Descends(n, k, st) /\ NodeFind(n, k, st) # <<>>}
           B == {k \in Keys : Descends(m, k, s) /\ NodeFind(m, k, s) # <<>>}
<1>6. A = B
  BY <1>5
<1>7. \A k \in A : ValueIn(NodeFind(m, k, s)[1], k) = ValueIn(NodeFind(n, k, st)[1], k)
  BY <1>5
<1>8. Contents(n, st) = [k \in A |-> ValueIn(NodeFind(n, k, st)[1], k)]
  BY DEF Contents
<1>9. Contents(m, s) = [k \in B |-> ValueIn(NodeFind(m, k, s)[1], k)]
  BY DEF Contents
<1> HIDE DEF A, B
<1>10. Contents(m, s) = Contents(n, st)
  BY <1>6, <1>7, <1>8, <1>9
<1> QED BY <1>10 DEF n, m

(***************************************************************************)
(* No operation changes what an older persisted root shows, as long as the *)
(* storage clears the flags split and merged when it returns a node (the   *)
(* map in memory and the files, the default). For any keys, values,        *)
(* batches, chunk sizes and hashes, and for every operation, the deletes   *)
(* and the merge included.                                                 *)
(***************************************************************************)
THEOREM OldRootsKept ==
    ASSUME ~StickyFlags
    PROVE  Spec => OldRootsKeepContents
<1> DEFINE Inv == Typing /\ Leveled
<1>1. Init => Inv
  BY InitTyping, InitLeveled
<1>2. Inv /\ [Next]_vars => Inv'
  BY NextTyping, NextLeveled
<1>3. Inv /\ Inv' /\ [Next]_vars
      => [\A h \in roots : Contents(GetNode(store', h), store') = Contents(GetNode(store, h), store)]_vars
  <2> SUFFICES ASSUME Inv, Inv', [Next]_vars, NEW h \in roots
               PROVE  Contents(GetNode(store', h), store') = Contents(GetNode(store, h), store)
    OBVIOUS
  <2>1. /\ store \in Stores /\ store' \in Stores /\ Sound(store) /\ Sound(store')
        /\ h \in DOMAIN store
    BY DEF Typing, Leveled
  <2>2. h \in DOMAIN store'
    BY <2>1, NextTyping
  <2> QED BY <2>1, <2>2, SameContents
<1> QED BY <1>1, <1>2, <1>3, PTL DEF Spec, OldRootsKeepContents
=============================================================================
