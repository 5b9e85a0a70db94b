------------------------------ MODULE Recursion ------------------------------
(***************************************************************************)
(* What the proofs of the other modules need of the natural numbers: that  *)
(* a set of them has a least and, if it is bounded, a greatest element,    *)
(* and that a function can be defined by recursion.  An induction is put   *)
(* as a search for the least counterexample.                               *)
(***************************************************************************)
EXTENDS Integers, FiniteSetsExt, WellFoundedInduction, TLAPS

\* Min (FiniteSetsExt) finds the least of any numbers.
LEMMA Least ==
    ASSUME NEW S \in SUBSET Nat, S # {}
    PROVE  Min(S) \in S /\ \A x \in S : Min(S) <= x
<1> DEFINE R == {ss \in Nat \X Nat : ss[1] < ss[2]}
<1>1. IsWellFoundedOn(R, Nat)
  BY NatLessThanWellFounded DEF OpToRel
<1>2. PICK x \in S : \A y \in S : ~(<<y, x>> \in R)
  BY <1>1, WFMin
<1>3. \A y \in S : x =< y
  <2> TAKE y \in S
  <2>1. x \in Nat /\ y \in Nat /\ ~(<<y, x>> \in R)
    BY <1>2
  <2>2. ~(<<y, x>>[1] < <<y, x>>[2])
    BY <2>1
  <2> QED BY <2>1, <2>2
<1> QED BY <1>3 DEF Min

\* Max finds the greatest of any numbers that are bounded.
LEMMA Greatest ==
    ASSUME NEW S \in SUBSET Nat, S # {}, NEW n \in Nat, \A x \in S : x <= n
    PROVE  Max(S) \in S /\ \A x \in S : x <= Max(S)
<1> DEFINE D == {n - x : x \in S}
<1>1. D \in SUBSET Nat /\ D # {}
  <2>1. \A x \in S : x \in Nat /\ x <= n /\ n - x \in Nat
    OBVIOUS
  <2> QED BY <2>1
<1>2. Min(D) \in D /\ \A d \in D : Min(D) <= d
  BY <1>1, Least
<1>3. PICK x \in S : Min(D) = n - x
  BY <1>2
<1>4. \A y \in S : y <= x
  <2> TAKE y \in S
  <2>1. Min(D) <= n - y
    BY <1>2
  <2> HIDE DEF D
  <2> QED BY <1>3, <2>1
<1> QED BY <1>3, <1>4 DEF Max

\* Induction: a set of numbers that has 0 and the successors of its elements.
LEMMA Induction ==
    ASSUME NEW P \in SUBSET Nat, 0 \in P, \A n \in P : n + 1 \in P
    PROVE  P = Nat
<1> SUFFICES ASSUME P # Nat PROVE FALSE
  OBVIOUS
<1> DEFINE D == Nat \ P
<1>1. Min(D) \in D /\ \A x \in D : Min(D) <= x
  BY Least
<1> DEFINE m == Min(D)
<1>2. m \in Nat /\ m \notin P /\ m # 0
  BY <1>1
<1>3. m - 1 \in P
  <2> HIDE DEF m
  <2> SUFFICES ASSUME m - 1 \notin P PROVE FALSE
    OBVIOUS
  <2>1. m - 1 \in D
    BY <1>2
  <2>2. m <= m - 1
    BY <1>1, <2>1 DEF m
  <2> QED BY <1>2, <2>2
<1> HIDE DEF m
<1> QED BY <1>2, <1>3

-----------------------------------------------------------------------------
(* Functions defined by recursion.                                          *)

\* f follows step from s0 on, as far as n.
Follows(f, n, s0, step) == f[0] = s0 /\ \A i \in 0..(n - 1) : f[i + 1] = step[i][f[i]]

LEMMA FollowsOnce ==
    ASSUME NEW f, NEW g, NEW s0, NEW step, NEW n \in Nat, NEW m \in Nat, m <= n,
           Follows(f, n, s0, step), Follows(g, m, s0, step)
    PROVE  f[m] = g[m]
<1> DEFINE P == {i \in Nat : i <= m => f[i] = g[i]}
<1>1. 0 \in P
  BY DEF Follows
<1>2. ASSUME NEW i \in P PROVE i + 1 \in P
  <2> SUFFICES ASSUME i + 1 <= m PROVE f[i + 1] = g[i + 1]
    BY <1>2
  <2>1. i \in Nat /\ f[i] = g[i] /\ i \in 0..(n - 1) /\ i \in 0..(m - 1)
    BY <1>2
  <2> QED BY <2>1 DEF Follows
<1> HIDE DEF P
<1>3. P = Nat
  BY <1>1, <1>2, Induction DEF P
<1> QED BY <1>3 DEF P

LEMMA Prefix ==
    ASSUME NEW S, NEW s0 \in S, NEW step \in [Nat -> [S -> S]], NEW n \in Nat
    PROVE  \E f \in [0..n -> S] : Follows(f, n, s0, step)
<1> DEFINE P == {k \in Nat : \E f \in [0..k -> S] : Follows(f, k, s0, step)}
<1>1. 0 \in P
  <2> DEFINE f == [i \in 0..0 |-> s0]
  <2>1. f \in [0..0 -> S] /\ Follows(f, 0, s0, step)
    BY DEF Follows
  <2> QED BY <2>1
<1>2. ASSUME NEW k \in P PROVE k + 1 \in P
  <2>1. PICK f \in [0..k -> S] : Follows(f, k, s0, step)
    BY <1>2
  <2>2. k \in Nat
    BY <1>2
  <2> HIDE DEF P
  <2> DEFINE next == step[k][f[k]]
             g == [i \in 0..(k + 1) |-> IF i = k + 1 THEN next ELSE f[i]]
  <2>3. next \in S
    <3>1. f[k] \in S
      BY <2>2
    <3> QED BY <2>2, <3>1
  <2> HIDE DEF next
  <2>4. \A i \in 0..(k + 1) : i # k + 1 => i \in 0..k
    BY <2>2
  <2>5. g \in [0..(k + 1) -> S]
    BY <2>3, <2>4
  <2>6. \A i \in 0..k : g[i] = f[i]
    BY <2>2
  <2>7. g[k + 1] = next
    BY <2>2
  <2> HIDE DEF g
  <2>8. ASSUME NEW i \in 0..k PROVE g[i + 1] = step[i][g[i]]
    <3>1. CASE i = k
      BY <2>2, <2>6, <2>7, <3>1 DEF next
    <3>2. CASE i # k
      <4>1. i \in 0..(k - 1) /\ i + 1 \in 0..k
        BY <2>2, <3>2
      <4> QED BY <2>1, <2>6, <4>1 DEF Follows
    <3> QED BY <3>1, <3>2
  <2>9. g[0] = s0
    BY <2>1, <2>2, <2>6 DEF Follows
  <2>10. \A i \in 0..((k + 1) - 1) : g[i + 1] = step[i][g[i]]
    <3>1. 0..((k + 1) - 1) = 0..k
      BY <2>2
    <3> QED BY <2>8, <3>1
  <2>11. Follows(g, k + 1, s0, step)
    BY ONLY <2>9, <2>10 DEF Follows
  <2> QED BY <2>2, <2>5, <2>11 DEF P
<1> HIDE DEF P
<1>3. P = Nat
  BY <1>1, <1>2, Induction DEF P
<1> QED BY <1>3 DEF P

\* f follows step from s0 on for ever, without leaving S.
Recursive(f, S, s0, step) ==
    /\ f \in [Nat -> S]
    /\ f[0] = s0
    /\ \A n \in Nat : f[n + 1] = step[n][f[n]]

LEMMA Recursively ==
    ASSUME NEW S, NEW s0 \in S, NEW step \in [Nat -> [S -> S]]
    PROVE  \E f : Recursive(f, S, s0, step)
<1> DEFINE prefix(n) == CHOOSE f \in [0..n -> S] : Follows(f, n, s0, step)
           f == [n \in Nat |-> prefix(n)[n]]
<1>1. \A n \in Nat : prefix(n) \in [0..n -> S] /\ Follows(prefix(n), n, s0, step)
  BY Prefix
<1> HIDE DEF prefix
<1>2. f \in [Nat -> S]
  BY <1>1
<1>3. f[0] = s0
  BY <1>1 DEF Follows
<1>4. ASSUME NEW n \in Nat PROVE f[n + 1] = step[n][f[n]]
  <2>1. n + 1 \in Nat /\ n <= n + 1 /\ n \in 0..(n + 1 - 1)
    OBVIOUS
  <2>2. prefix(n + 1)[n] = prefix(n)[n]
    BY <1>1, <2>1, FollowsOnce
  <2>3. prefix(n + 1)[n + 1] = step[n][prefix(n + 1)[n]]
    BY <1>1, <2>1 DEF Follows
  <2> QED BY <2>1, <2>2, <2>3
<1> QED BY <1>2, <1>3, <1>4 DEF Recursive
=============================================================================
