---------------------------- MODULE NaturalFacts ----------------------------
(***************************************************************************)
(* Facts about the natural numbers that the proofs of several components   *)
(* rest on: the least element of a set, induction, the definition of a     *)
(* function by recursion, and the remainder of a division.                 *)
(***************************************************************************)
EXTENDS Integers, FiniteSetTheorems, TLAPS

\* A nonempty set of naturals has a least element: the initial segments below
\* its elements have a minimal one.
LEMMA LeastNatural ==
  ASSUME NEW T \in SUBSET Nat, T # {}
  PROVE  \E m \in T : \A r \in T : m <= r
<1> DEFINE Below == {0 .. m : m \in T}
<1>1. Below \subseteq FiniteSubsetsOf(Nat) /\ Below # {}
  <2>1. \A m \in T : 0 .. m \in SUBSET Nat /\ IsFiniteSet(0 .. m)
    BY FS_Interval
  <2> QED BY <2>1 DEF FiniteSubsetsOf
<1>2. PICK x \in Below : \A y \in Below : <<y, x>> \notin StrictSubsetOrdering(Nat)
  BY <1>1, WFMin, FS_StrictSubsetOrderingWellFounded
<1>3. PICK m \in T : x = 0 .. m
  BY DEF Below
<1>4. ASSUME NEW r \in T, ~(m <= r)
      PROVE  FALSE
  <2>1. 0 .. r \in Below /\ 0 .. r \subseteq 0 .. m /\ 0 .. r # 0 .. m
    <3>1. m \in 0 .. m /\ m \notin 0 .. r
      BY <1>4
    <3> QED BY <3>1, <1>4
  <2>2. <<0 .. r, 0 .. m>> \in (SUBSET Nat) \X (SUBSET Nat)
    OBVIOUS
  <2> QED BY <2>1, <2>2, <1>2, <1>3 DEF StrictSubsetOrdering
<1> QED BY <1>4

\* Induction up to n, for a set in place of a predicate.
LEMMA InductionUpTo ==
  ASSUME NEW n \in Nat, NEW T, 0 \in T, \A i \in 0 .. n - 1 : i \in T => i + 1 \in T
  PROVE  0 .. n \subseteq T
<1> SUFFICES ASSUME ~(0 .. n \subseteq T) PROVE FALSE
  OBVIOUS
<1>1. (0 .. n) \ T \in SUBSET Nat /\ (0 .. n) \ T # {}
  OBVIOUS
<1>2. PICK m \in (0 .. n) \ T : \A r \in (0 .. n) \ T : m <= r
  BY <1>1, LeastNatural
<1>3. m # 0 /\ m - 1 \in 0 .. n - 1 /\ m - 1 \in 0 .. n /\ ~(m <= m - 1) /\ m - 1 + 1 = m
  BY <1>2
<1>4. m - 1 \in T
  BY <1>2, <1>3
<1> QED BY <1>2, <1>3, <1>4

\* Steps that give the values of a function on 0 .. n, each from the last
StepsUpTo(n, S) == [1 .. n -> [S -> S]]

Follows(f, x, g, n, S) ==
  f \in [0 .. n -> S] /\ f[0] = x /\ \A i \in 1 .. n : f[i] = g[i][f[i - 1]]

\* A function on 0 .. n can be given by its first value and a step.
LEMMA RecursionUpTo ==
  ASSUME NEW n \in Nat, NEW S, NEW x \in S, NEW g \in StepsUpTo(n, S)
  PROVE  \E f : Follows(f, x, g, n, S)
<1> DEFINE T == {m \in 0 .. n : \E f \in [0 .. m -> S] :
                                  f[0] = x /\ \A i \in 1 .. m : f[i] = g[i][f[i - 1]]}
<1>1. 0 \in T
  <2>1. PICK f : f = [i \in 0 .. 0 |-> x]
    OBVIOUS
  <2>2. f \in [0 .. 0 -> S] /\ f[0] = x /\ \A i \in 1 .. 0 : f[i] = g[i][f[i - 1]]
    BY <2>1
  <2> QED BY <2>2
<1>2. ASSUME NEW m \in 0 .. n - 1, m \in T
      PROVE  m + 1 \in T
  <2>1. PICK f \in [0 .. m -> S] : f[0] = x /\ \A i \in 1 .. m : f[i] = g[i][f[i - 1]]
    BY <1>2
  <2>2. PICK h : h = [i \in 0 .. m + 1 |-> IF i = m + 1 THEN g[m + 1][f[m]] ELSE f[i]]
    OBVIOUS
  <2>3. g[m + 1][f[m]] \in S
    <3>1. m + 1 \in 1 .. n /\ m \in 0 .. m
      OBVIOUS
    <3>2. g[m + 1] \in [S -> S] /\ f[m] \in S
      BY <2>1, <3>1 DEF StepsUpTo
    <3> QED BY <3>2
  <2>4. h \in [0 .. m + 1 -> S] /\ h[0] = x
    BY <2>1, <2>2, <2>3
  <2>5. \A i \in 1 .. m + 1 : h[i] = g[i][h[i - 1]]
    <3> SUFFICES ASSUME NEW i \in 1 .. m + 1 PROVE h[i] = g[i][h[i - 1]]
      OBVIOUS
    <3>1. h[i - 1] = f[i - 1]
      BY <2>2
    <3>2. CASE i = m + 1
      BY <2>2, <3>1, <3>2
    <3>3. CASE i # m + 1
      <4>1. i \in 1 .. m /\ h[i] = f[i]
        BY <2>2, <3>3
      <4> QED BY <2>1, <3>1, <4>1
    <3> QED BY <3>2, <3>3
  <2> QED BY <2>4, <2>5
<1>3. n \in T
  <2> HIDE DEF T
  <2>1. 0 .. n \subseteq T
    BY <1>1, <1>2, InductionUpTo
  <2> QED BY <2>1
<1> QED BY <1>3 DEF Follows

\* The quotient and the remainder.
LEMMA DivMod ==
  ASSUME NEW a \in Int, NEW b \in Nat \ {0}
  PROVE  a \div b \in Int /\ a % b \in 0 .. b - 1 /\ a = (b * (a \div b)) + (a % b)
OBVIOUS

LEMMA RemainderIs ==
  ASSUME NEW b \in Nat \ {0}, NEW q \in Int, NEW r \in 0 .. b - 1
  PROVE  (q * b + r) % b = r /\ (q * b + r) \div b = q
<1> DEFINE x == q * b + r
<1>1. x \in Int
  OBVIOUS
<1>2. x \div b \in Int /\ x % b \in 0 .. b - 1 /\ x = (b * (x \div b)) + (x % b)
  BY <1>1, DivMod
<1> DEFINE p == x \div b
           s == x % b
<1>3. b * (q - p) = s - r
  BY <1>2
<1>4. q - p = 0
  <2>1. CASE q - p >= 1
    <3>1. b * (q - p) >= b
      BY <1>2, <2>1
    <3> QED BY <1>2, <1>3, <3>1
  <2>2. CASE q - p <= -1
    <3>1. b * (q - p) <= -b
      BY <1>2, <2>2
    <3> QED BY <1>2, <1>3, <3>1
  <2> QED BY <1>2, <2>1, <2>2
<1> QED BY <1>2, <1>3, <1>4
=============================================================================
