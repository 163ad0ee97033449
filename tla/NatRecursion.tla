---------------------------- MODULE NatRecursion ----------------------------
(***************************************************************************)
(* Induction over the natural numbers, and functions that are defined by   *)
(* recursion over them, in a form that speaks of sets and functions only.  *)
(***************************************************************************)
EXTENDS Naturals, WellFoundedInduction, TLAPS

\* A set of numbers that is not empty has a least one.
LEMMA LeastNatural ==
  ASSUME NEW T \in SUBSET Nat, T # {}
  PROVE  \E n \in T : \A m \in T : n <= m
<1> DEFINE R == OpToRel(<, Nat)
<1>1. IsWellFoundedOn(R, Nat)
  BY NatLessThanWellFounded
<1>2. \A m, n \in Nat : m < n => <<m, n>> \in R
  BY DEF OpToRel
<1> HIDE DEF R
<1>3. PICK n \in T : \A m \in T : ~(<<m, n>> \in R)
  BY <1>1, WFMin
<1>4. \A m \in T : ~(m < n)
  BY <1>2, <1>3
<1> QED BY <1>4

\* Induction: a set of numbers with 0 and the successors of its members.
LEMMA SetInduction ==
  ASSUME NEW S, 0 \in S, \A n \in Nat : n \in S => n + 1 \in S
  PROVE  \A n \in Nat : n \in S
<1> DEFINE T == {n \in Nat : n \notin S}
<1> SUFFICES ASSUME T # {} PROVE FALSE
  OBVIOUS
<1>1. PICK n \in T : \A m \in T : n <= m
  BY LeastNatural
<1>2. n # 0 /\ n \in Nat
  BY DEF T
<1>3. n - 1 \in Nat /\ ~(n <= n - 1) /\ (n - 1) + 1 = n
  BY <1>2
<1>4. n - 1 \in S
  BY <1>1, <1>3
<1> QED BY <1>1, <1>3, <1>4

\* f starts with a value and goes on by the steps of another function.
Recurs(f, T, N, first, step) ==
  /\ f \in [0 .. N -> T]
  /\ f[0] = first
  /\ \A n \in 1 .. N : f[n] = step[<<n, f[n - 1]>>]

\* There is such a function.
LEMMA Recursion ==
  ASSUME NEW T, NEW N \in Nat, NEW first \in T, NEW step \in [(1 .. N) \X T -> T]
  PROVE  \E f : Recurs(f, T, N, first, step)
<1> DEFINE Goes(f, k) == f[0] = first /\ \A n \in 1 .. k : f[n] = step[<<n, f[n - 1]>>]
           S == {k \in Nat : k <= N => \E f \in [0 .. k -> T] : Goes(f, k)}
<1>1. 0 \in S
  <2> DEFINE g == [n \in 0 .. 0 |-> first]
  <2>1. g \in [0 .. 0 -> T] /\ Goes(g, 0)
    OBVIOUS
  <2> QED BY <2>1
<1>2. ASSUME NEW k \in Nat, k \in S PROVE k + 1 \in S
  <2> SUFFICES ASSUME k + 1 <= N PROVE \E f \in [0 .. k + 1 -> T] : Goes(f, k + 1)
    OBVIOUS
  <2>1. PICK f \in [0 .. k -> T] : Goes(f, k)
    BY <1>2
  <2> DEFINE g == [n \in 0 .. k + 1 |-> IF n = k + 1 THEN step[<<n, f[k]>>] ELSE f[n]]
  <2>2. f[k] \in T /\ k + 1 \in 1 .. N
    BY <2>1
  <2>3. step[<<k + 1, f[k]>>] \in T
    BY <2>2
  <2>4. g \in [0 .. k + 1 -> T]
    BY <2>1, <2>3
  <2>5. Goes(g, k + 1)
    <3>1. g[0] = first
      BY <2>1
    <3>2. ASSUME NEW n \in 1 .. k + 1 PROVE g[n] = step[<<n, g[n - 1]>>]
      <4>1. CASE n = k + 1
        BY <4>1
      <4>2. CASE n # k + 1
        BY <4>2, <2>1
      <4> QED BY <4>1, <4>2
    <3> QED BY <3>1, <3>2
  <2> QED BY <2>4, <2>5
<1> HIDE DEF S
<1>3. \A k \in Nat : k \in S
  BY <1>1, <1>2, SetInduction
<1>4. N \in S
  BY <1>3
<1>5. \E f \in [0 .. N -> T] : Goes(f, N)
  <2> HIDE DEF Goes
  <2> QED BY <1>4 DEF S
<1> QED BY <1>5 DEF Recurs
=============================================================================
