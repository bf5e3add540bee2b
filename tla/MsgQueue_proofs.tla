-------------------------- MODULE MsgQueue_proofs ---------------------------
(***************************************************************************)
(* The message queue counts what it holds, and implements Mailbox.         *)
(***************************************************************************)
EXTENDS MsgQueue, NaturalFacts

\* The sums of the first elements of w, of which Total is the last one
Sums(w) == CHOOSE f : f = [i \in 0 .. Len(w) |-> IF i = 0 THEN 0 ELSE f[i - 1] + w[i]]

\* The sums that Total is defined by.
LEMMA SumsAre ==
  ASSUME NEW w \in Seq(Nat)
  PROVE  /\ Sums(w) \in [0 .. Len(w) -> Nat] /\ Total(w) = Sums(w)[Len(w)]
         /\ Sums(w)[0] = 0
         /\ \A i \in 1 .. Len(w) : Sums(w)[i] = Sums(w)[i - 1] + w[i]
<1> DEFINE g == [i \in 1 .. Len(w) |-> [t \in Nat |-> t + w[i]]]
<1>1. Len(w) \in Nat /\ \A i \in 1 .. Len(w) : w[i] \in Nat
  OBVIOUS
<1>2. g \in [1 .. Len(w) -> [Nat -> Nat]]
  BY <1>1
<1>3. PICK f \in [0 .. Len(w) -> Nat] : f[0] = 0 /\ \A i \in 1 .. Len(w) : f[i] = g[i][f[i - 1]]
  <2> HIDE DEF g
  <2>1. PICK n, h : n = Len(w) /\ h = g
    OBVIOUS
  <2>2. 0 \in Nat /\ n \in Nat /\ h \in StepsUpTo(n, Nat)
    BY <1>1, <1>2, <2>1 DEF StepsUpTo
  <2>3. PICK f : Follows(f, 0, h, n, Nat)
    BY <2>2, RecursionUpTo
  <2> QED BY <2>1, <2>3 DEF Follows
<1>4. f = [i \in 0 .. Len(w) |-> IF i = 0 THEN 0 ELSE f[i - 1] + w[i]]
  <2>1. \A i \in 1 .. Len(w) : f[i] = f[i - 1] + w[i]
    <3> SUFFICES ASSUME NEW i \in 1 .. Len(w) PROVE f[i] = f[i - 1] + w[i]
      OBVIOUS
    <3>1. i - 1 \in 0 .. Len(w)
      BY <1>1
    <3>2. f[i - 1] \in Nat
      BY <1>3, <3>1
    <3>3. f[i] = g[i][f[i - 1]]
      BY <1>3
    <3> QED BY <3>2, <3>3
  <2>2. f = [i \in 0 .. Len(w) |-> f[i]] /\ \A i \in 0 .. Len(w) : i # 0 => i \in 1 .. Len(w)
    BY <1>1, <1>3
  <2> HIDE DEF g
  <2> QED BY <1>3, <2>1, <2>2
<1>5. Sums(w) = [i \in 0 .. Len(w) |-> IF i = 0 THEN 0 ELSE Sums(w)[i - 1] + w[i]]
  BY <1>4 DEF Sums
<1>6. Sums(w)[0] = 0 /\ \A i \in 1 .. Len(w) : Sums(w)[i] = Sums(w)[i - 1] + w[i]
  BY <1>1, <1>5
<1>7. Sums(w) \in [0 .. Len(w) -> Nat]
  <2> DEFINE T == {i \in 0 .. Len(w) : Sums(w)[i] \in Nat}
  <2>1. 0 .. Len(w) \subseteq T
    <3>1. 0 \in T
      BY <1>1, <1>6
    <3>2. \A i \in 0 .. Len(w) - 1 : i \in T => i + 1 \in T
      <4> SUFFICES ASSUME NEW i \in 0 .. Len(w) - 1, i \in T PROVE i + 1 \in T
        OBVIOUS
      <4>1. i + 1 \in 1 .. Len(w) /\ i + 1 - 1 = i /\ i + 1 \in 0 .. Len(w)
        BY <1>1
      <4>2. Sums(w)[i + 1] = Sums(w)[i] + w[i + 1]
        BY <1>6, <4>1
      <4>3. Sums(w)[i] \in Nat /\ w[i + 1] \in Nat
        BY <1>1, <4>1
      <4>4. Sums(w)[i + 1] \in Nat
        BY <4>2, <4>3
      <4> QED BY <4>1, <4>4
    <3> HIDE DEF T
    <3> QED BY <1>1, <3>1, <3>2, InductionUpTo
  <2> QED BY <1>5, <2>1
<1>8. Total(w) = Sums(w)[Len(w)]
  BY DEF Total, Sums
<1> QED BY <1>6, <1>7, <1>8

\* One weight more adds it to the total.
LEMMA TotalOfAppend ==
  ASSUME NEW w \in Seq(Nat), NEW x \in Nat
  PROVE  Total(Append(w, x)) = Total(w) + x
<1> DEFINE v == Append(w, x)
           n == Len(w)
           T == {i \in 0 .. n : Sums(v)[i] = Sums(w)[i]}
<1>1. v \in Seq(Nat) /\ Len(v) = n + 1 /\ n \in Nat /\ v[n + 1] = x /\ \A i \in 1 .. n : v[i] = w[i]
  OBVIOUS
<1> HIDE DEF v
<1>2. /\ Sums(v)[0] = 0 /\ Total(v) = Sums(v)[n + 1]
      /\ \A i \in 1 .. n + 1 : Sums(v)[i] = Sums(v)[i - 1] + v[i]
  BY <1>1, SumsAre
<1>3. /\ Sums(w)[0] = 0 /\ Total(w) = Sums(w)[n]
      /\ \A i \in 1 .. n : Sums(w)[i] = Sums(w)[i - 1] + w[i]
  BY SumsAre
<1>4. 0 .. n \subseteq T
  <2>1. 0 \in T
    BY <1>1, <1>2, <1>3
  <2>2. \A i \in 0 .. n - 1 : i \in T => i + 1 \in T
    <3> SUFFICES ASSUME NEW i \in 0 .. n - 1, i \in T PROVE i + 1 \in T
      OBVIOUS
    <3>1. i + 1 \in 1 .. n /\ i + 1 - 1 = i /\ i + 1 \in 1 .. n + 1
      BY <1>1
    <3> QED BY <1>1, <1>2, <1>3, <3>1
  <2> HIDE DEF T
  <2> QED BY <1>1, <2>1, <2>2, InductionUpTo
<1>5. Sums(v)[n] = Sums(w)[n]
  BY <1>1, <1>4
<1>6. n + 1 \in 1 .. n + 1 /\ n + 1 - 1 = n
  BY <1>1
<1>7. Total(v) = Total(w) + x
  BY <1>1, <1>2, <1>3, <1>5, <1>6
<1> QED BY <1>7 DEF v

\* Nothing weighs nothing.
LEMMA TotalOfNone == Total(<<>>) = 0
<1>1. <<>> \in Seq(Nat) /\ Len(<<>>) = 0
  OBVIOUS
<1> QED BY <1>1, SumsAre

\* What is left of the first elements of s, of which Without is the last one
Keep(s, gone) ==
  CHOOSE f : f = [i \in 0 .. Len(s) |->
                    IF i = 0 THEN <<>>
                    ELSE IF i \in gone THEN f[i - 1] ELSE Append(f[i - 1], s[i])]

\* K[i] is what is left of the first i elements.
Keeps(K, s, gone, S) ==
  /\ K \in [0 .. Len(s) -> Seq(S)] /\ Without(s, gone) = K[Len(s)] /\ K[0] = <<>>
  /\ \A i \in 1 .. Len(s) : K[i] = IF i \in gone THEN K[i - 1] ELSE Append(K[i - 1], s[i])

\* Without is the last of these.
LEMMA KeepIs ==
  ASSUME NEW S, NEW s \in Seq(S), NEW gone
  PROVE  Keeps(Keep(s, gone), s, gone, S)
<1> DEFINE g == [i \in 1 .. Len(s) |-> [t \in Seq(S) |-> IF i \in gone THEN t ELSE Append(t, s[i])]]
           K == Keep(s, gone)
<1>1. Len(s) \in Nat /\ <<>> \in Seq(S) /\ \A i \in 1 .. Len(s) : s[i] \in S
  OBVIOUS
<1>2. g \in [1 .. Len(s) -> [Seq(S) -> Seq(S)]]
  BY <1>1
<1>3. PICK f \in [0 .. Len(s) -> Seq(S)] : f[0] = <<>> /\ \A i \in 1 .. Len(s) : f[i] = g[i][f[i - 1]]
  <2> HIDE DEF g
  <2>1. PICK n, h, e : n = Len(s) /\ h = g /\ e = <<>>
    OBVIOUS
  <2>2. e \in Seq(S) /\ n \in Nat /\ h \in StepsUpTo(n, Seq(S))
    BY <1>1, <1>2, <2>1 DEF StepsUpTo
  <2>3. PICK f : Follows(f, e, h, n, Seq(S))
    BY <2>2, RecursionUpTo
  <2> QED BY <2>1, <2>3 DEF Follows
<1>4. f = [i \in 0 .. Len(s) |-> IF i = 0 THEN <<>>
                                 ELSE IF i \in gone THEN f[i - 1] ELSE Append(f[i - 1], s[i])]
  <2>1. \A i \in 1 .. Len(s) : f[i] = IF i \in gone THEN f[i - 1] ELSE Append(f[i - 1], s[i])
    <3> SUFFICES ASSUME NEW i \in 1 .. Len(s)
                 PROVE  f[i] = IF i \in gone THEN f[i - 1] ELSE Append(f[i - 1], s[i])
      OBVIOUS
    <3>1. i - 1 \in 0 .. Len(s)
      BY <1>1
    <3>2. f[i - 1] \in Seq(S)
      BY <1>3, <3>1
    <3>3. f[i] = g[i][f[i - 1]]
      BY <1>3
    <3> QED BY <3>2, <3>3
  <2>2. f = [i \in 0 .. Len(s) |-> f[i]] /\ \A i \in 0 .. Len(s) : i # 0 => i \in 1 .. Len(s)
    BY <1>1, <1>3
  <2> HIDE DEF g
  <2> QED BY <1>3, <2>1, <2>2
<1>5. K = [i \in 0 .. Len(s) |-> IF i = 0 THEN <<>>
                                 ELSE IF i \in gone THEN K[i - 1] ELSE Append(K[i - 1], s[i])]
  BY <1>4 DEF Keep
<1>6. Without(s, gone) = K[Len(s)]
  BY DEF Without, Keep
<1> HIDE DEF K
<1>7. K[0] = <<>> /\ \A i \in 1 .. Len(s) : K[i] = IF i \in gone THEN K[i - 1] ELSE Append(K[i - 1], s[i])
  <2>1. K[0] = <<>>
    <3>1. 0 \in 0 .. Len(s)
      BY <1>1
    <3> QED BY <1>5, <3>1
  <2>2. ASSUME NEW i \in 1 .. Len(s)
        PROVE  K[i] = IF i \in gone THEN K[i - 1] ELSE Append(K[i - 1], s[i])
    <3>1. i \in 0 .. Len(s) /\ i # 0
      BY <1>1
    <3> QED BY <1>5, <3>1
  <2> QED BY <2>1, <2>2
<1>8. K \in [0 .. Len(s) -> Seq(S)]
  <2> DEFINE T == {i \in 0 .. Len(s) : K[i] \in Seq(S)}
  <2>1. 0 .. Len(s) \subseteq T
    <3>1. 0 \in T
      <4>1. K[0] \in Seq(S)
        BY <1>1, <1>7, Zenon
      <4> QED BY <1>1, <4>1
    <3>2. \A i \in 0 .. Len(s) - 1 : i \in T => i + 1 \in T
      <4> SUFFICES ASSUME NEW i \in 0 .. Len(s) - 1, i \in T PROVE i + 1 \in T
        OBVIOUS
      <4>1. i + 1 \in 1 .. Len(s) /\ i + 1 - 1 = i
        BY <1>1
      <4>2. K[i] \in Seq(S) /\ s[i + 1] \in S
        BY <1>1, <4>1
      <4>3. Append(K[i], s[i + 1]) \in Seq(S)
        BY <4>2
      <4>4. K[i + 1] = IF i + 1 \in gone THEN K[i] ELSE Append(K[i], s[i + 1])
        BY <1>7, <4>1
      <4>5. K[i + 1] \in Seq(S)
        BY <4>2, <4>3, <4>4, Zenon
      <4> QED BY <1>1, <4>1, <4>5
    <3> HIDE DEF T
    <3> QED BY <1>1, <3>1, <3>2, InductionUpTo
  <2>2. \A i \in 0 .. Len(s) : K[i] \in Seq(S)
    BY <2>1
  <2> QED BY <1>5, <2>2
<1> QED BY <1>6, <1>7, <1>8 DEF K, Keeps

\* What is taken out of the total is what is counted back, if all that goes
\* weighs the same.
LEMMA TotalWithout ==
  ASSUME NEW w \in Seq(Nat), NEW gone, NEW b \in Nat,
         \A i \in 1 .. Len(w) : i \in gone => w[i] = b
  PROVE  /\ Without(w, gone) \in Seq(Nat) /\ Len(w) - Len(Without(w, gone)) \in Nat
         /\ Total(Without(w, gone)) + b * (Len(w) - Len(Without(w, gone))) = Total(w)
<1> DEFINE K == Keep(w, gone)
           n == Len(w)
           Fits(i) == i - Len(K[i]) \in Nat /\ Total(K[i]) + b * (i - Len(K[i])) = Sums(w)[i]
           T == {i \in 0 .. n : Fits(i)}
<1>1. /\ K \in [0 .. n -> Seq(Nat)] /\ Without(w, gone) = K[n] /\ K[0] = <<>>
      /\ \A i \in 1 .. n : K[i] = IF i \in gone THEN K[i - 1] ELSE Append(K[i - 1], w[i])
  BY KeepIs DEF Keeps
<1>2. /\ Sums(w) \in [0 .. n -> Nat] /\ Total(w) = Sums(w)[n] /\ Sums(w)[0] = 0
      /\ \A i \in 1 .. n : Sums(w)[i] = Sums(w)[i - 1] + w[i]
  BY SumsAre
<1>3. n \in Nat /\ \A i \in 1 .. n : w[i] \in Nat
  OBVIOUS
<1> HIDE DEF K
<1>4. 0 .. n \subseteq T
  <2>1. 0 \in T
    <3>1. Len(<<>>) = 0 /\ 0 - 0 = 0 /\ b * 0 = 0
      OBVIOUS
    <3>2. Len(K[0]) = 0 /\ Total(K[0]) = 0
      BY <1>1, <3>1, TotalOfNone, Zenon
    <3> QED BY <1>2, <1>3, <3>1, <3>2
  <2>2. \A i \in 0 .. n - 1 : i \in T => i + 1 \in T
    <3> SUFFICES ASSUME NEW i \in 0 .. n - 1, i \in T PROVE i + 1 \in T
      OBVIOUS
    <3>1. i + 1 \in 1 .. n /\ i + 1 - 1 = i /\ i \in 0 .. n /\ w[i + 1] \in Nat /\ i + 1 \in 0 .. n
      BY <1>3
    <3>2. PICK k \in Seq(Nat) : k = K[i]
      BY <1>1, <3>1
    <3>3. PICK x \in Nat : x = i - Len(k) /\ Total(k) + b * x = Sums(w)[i]
      BY <3>2
    <3>4. Sums(w)[i + 1] = Sums(w)[i] + w[i + 1]
      BY <1>2, <3>1
    <3>5. Total(k) \in Nat
      BY SumsAre
    <3>6. b * (x + 1) = b * x + b /\ b * x \in Nat
      OBVIOUS
    <3>7. CASE i + 1 \in gone
      <4>1. K[i + 1] = k /\ w[i + 1] = b
        <5>1. K[i + 1] = IF i + 1 \in gone THEN K[i] ELSE Append(K[i], w[i + 1])
          BY <1>1, <3>1
        <5> QED BY <3>1, <3>2, <3>7, <5>1
      <4>2. (i + 1) - Len(k) = x + 1
        BY <3>3
      <4>3. Total(k) + b * (x + 1) = Sums(w)[i + 1]
        BY <3>3, <3>4, <3>5, <3>6, <4>1
      <4>4. (i + 1) - Len(K[i + 1]) = x + 1 /\ Total(K[i + 1]) = Total(k)
        BY <4>1, <4>2
      <4>5. x + 1 \in Nat
        OBVIOUS
      <4>6. (i + 1) - Len(K[i + 1]) \in Nat /\ Total(K[i + 1]) + b * ((i + 1) - Len(K[i + 1])) = Sums(w)[i + 1]
        BY <4>3, <4>4, <4>5, Zenon
      <4>7. Fits(i + 1)
        BY <4>6, Zenon
      <4> HIDE DEF Fits
      <4> QED BY <3>1, <4>7
    <3>8. CASE i + 1 \notin gone
      <4>1. K[i + 1] = Append(k, w[i + 1])
        <5>1. K[i + 1] = IF i + 1 \in gone THEN K[i] ELSE Append(K[i], w[i + 1])
          BY <1>1, <3>1
        <5> QED BY <3>2, <3>8, <5>1
      <4>2. Total(Append(k, w[i + 1])) = Total(k) + w[i + 1]
        BY <3>1, TotalOfAppend
      <4>3. (i + 1) - Len(Append(k, w[i + 1])) = x
        BY <3>1, <3>3
      <4>4. Total(Append(k, w[i + 1])) + b * x = Sums(w)[i + 1]
        BY <3>1, <3>3, <3>4, <3>5, <3>6, <4>2
      <4>5. (i + 1) - Len(K[i + 1]) = x /\ Total(K[i + 1]) = Total(Append(k, w[i + 1]))
        BY <4>1, <4>3
      <4>6. (i + 1) - Len(K[i + 1]) \in Nat /\ Total(K[i + 1]) + b * ((i + 1) - Len(K[i + 1])) = Sums(w)[i + 1]
        BY <4>4, <4>5, Zenon
      <4>7. Fits(i + 1)
        BY <4>6, Zenon
      <4> HIDE DEF Fits
      <4> QED BY <3>1, <4>7
    <3> QED BY <3>7, <3>8
  <2> HIDE DEF T
  <2> QED BY <1>3, <2>1, <2>2, InductionUpTo
<1>5. n \in T /\ K[n] \in Seq(Nat)
  BY <1>1, <1>3, <1>4
<1> QED BY <1>1, <1>2, <1>5

\* l has the weights of the elements of k.
WeightsOf(l, k, B) == Len(l) = Len(k) /\ \A j \in 1 .. Len(k) : l[j] = B[k[j]]

\* One element more has one weight more.
LEMMA WeightsOfAppend ==
  ASSUME NEW S, NEW k \in Seq(S), NEW l \in Seq(Nat), NEW a \in S, NEW B \in [S -> Nat], WeightsOf(l, k, B)
  PROVE  WeightsOf(Append(l, B[a]), Append(k, a), B)
<1>1. PICK c \in Nat : c = B[a]
  OBVIOUS
<1>2. PICK t \in Seq(S), u \in Seq(Nat) : t = Append(k, a) /\ u = Append(l, c)
  <2>1. Append(k, a) \in Seq(S) /\ Append(l, c) \in Seq(Nat)
    OBVIOUS
  <2> QED BY <2>1, Zenon
<1>3. Len(l) = Len(k) /\ \A j \in 1 .. Len(k) : l[j] = B[k[j]]
  BY DEF WeightsOf
<1>4. /\ Len(t) = Len(k) + 1 /\ t[Len(k) + 1] = a /\ \A j \in 1 .. Len(k) : t[j] = k[j]
  BY <1>2
<1>5. /\ Len(u) = Len(k) + 1 /\ u[Len(k) + 1] = c /\ \A j \in 1 .. Len(k) : u[j] = l[j]
  BY <1>2, <1>3
<1>6. \A j \in 1 .. Len(k) + 1 : j \in 1 .. Len(k) \/ j = Len(k) + 1
  <2>1. Len(k) \in Nat
    OBVIOUS
  <2> QED BY <2>1
<1>7. WeightsOf(u, t, B)
  BY <1>1, <1>3, <1>4, <1>5, <1>6 DEF WeightsOf
<1> QED BY <1>1, <1>2, <1>7

\* The weights of what is left are those that are left of the weights.
LEMMA WeightsWithout ==
  ASSUME NEW S, NEW s \in Seq(S), NEW gone, NEW w \in Seq(Nat), NEW B \in [S -> Nat], WeightsOf(w, s, B)
  PROVE  WeightsOf(Without(w, gone), Without(s, gone), B)
<1> DEFINE n == Len(s)
<1>0. PICK K : Keeps(K, s, gone, S)
  BY KeepIs
<1>1. /\ K \in [0 .. n -> Seq(S)] /\ Without(s, gone) = K[n] /\ K[0] = <<>>
      /\ \A i \in 1 .. n : K[i] = IF i \in gone THEN K[i - 1] ELSE Append(K[i - 1], s[i])
  BY <1>0 DEF Keeps
<1>2. n \in Nat /\ Len(w) = n /\ \A i \in 1 .. n : s[i] \in S /\ w[i] = B[s[i]]
  BY DEF WeightsOf
<1>9. PICK J : Keeps(J, w, gone, Nat)
  BY KeepIs
<1>3. /\ J \in [0 .. n -> Seq(Nat)] /\ Without(w, gone) = J[n] /\ J[0] = <<>>
      /\ \A i \in 1 .. n : J[i] = IF i \in gone THEN J[i - 1] ELSE Append(J[i - 1], w[i])
  BY <1>2, <1>9 DEF Keeps
<1> DEFINE T == {i \in 0 .. n : WeightsOf(J[i], K[i], B)}
<1>4. 0 .. n \subseteq T
  <2>1. 0 \in T
    <3>1. WeightsOf(<<>>, <<>>, B)
      BY DEF WeightsOf
    <3>2. WeightsOf(J[0], K[0], B)
      BY <1>1, <1>3, <3>1, Zenon
    <3> QED BY <1>2, <3>2
  <2>2. \A i \in 0 .. n - 1 : i \in T => i + 1 \in T
    <3> SUFFICES ASSUME NEW i \in 0 .. n - 1, i \in T PROVE i + 1 \in T
      OBVIOUS
    <3>1. i + 1 \in 1 .. n /\ (i + 1) - 1 = i /\ i \in 0 .. n /\ i + 1 \in 0 .. n
      BY <1>2
    <3>2. PICK k \in Seq(S), l \in Seq(Nat) : k = K[i] /\ l = J[i] /\ WeightsOf(l, k, B)
      BY <1>1, <1>3, <3>1
    <3>3. PICK a \in S : a = s[i + 1] /\ B[a] = w[i + 1]
      BY <1>2, <3>1
    <3>4. K[i + 1] = IF i + 1 \in gone THEN k ELSE Append(k, a)
      <4>1. K[i + 1] = IF i + 1 \in gone THEN K[(i + 1) - 1] ELSE Append(K[(i + 1) - 1], s[i + 1])
        BY <1>1, <3>1
      <4> QED BY <3>1, <3>2, <3>3, <4>1, Zenon
    <3>5. J[i + 1] = IF i + 1 \in gone THEN l ELSE Append(l, B[a])
      <4>1. J[i + 1] = IF i + 1 \in gone THEN J[(i + 1) - 1] ELSE Append(J[(i + 1) - 1], w[i + 1])
        BY <1>3, <3>1
      <4> QED BY <3>1, <3>2, <3>3, <4>1, Zenon
    <3>6. WeightsOf(Append(l, B[a]), Append(k, a), B)
      BY <3>2, WeightsOfAppend
    <3>7. WeightsOf(J[i + 1], K[i + 1], B)
      BY <3>2, <3>4, <3>5, <3>6, Zenon
    <3> QED BY <3>1, <3>7
  <2> HIDE DEF T
  <2> QED BY <1>2, <2>1, <2>2, InductionUpTo
<1>5. n \in T
  BY <1>2, <1>4
<1>6. WeightsOf(J[n], K[n], B)
  BY <1>5
<1> QED BY <1>1, <1>3, <1>6

\* The elements t that are left of the first m of s, in their order: e tells
\* where each one was.
PlacesIn(e, t, s, gone, m) ==
  /\ e \in [1 .. Len(t) -> 1 .. m]
  /\ \A j \in 1 .. Len(t) : e[j] \notin gone /\ t[j] = s[e[j]]
  /\ \A i, j \in 1 .. Len(t) : i < j => e[i] < e[j]
  /\ \A i \in 1 .. m : i \notin gone => \E j \in 1 .. Len(t) : e[j] = i

\* Nothing is left of nothing.
LEMMA PlacesOfNone ==
  ASSUME NEW s, NEW gone
  PROVE  PlacesIn([j \in 1 .. 0 |-> 0], <<>>, s, gone, 0)
BY DEF PlacesIn

\* An element that is gone leaves the others where they are.
LEMMA PlacesOfGone ==
  ASSUME NEW S, NEW k \in Seq(S), NEW s, NEW gone, NEW m \in Nat, m + 1 \in gone,
         NEW e, PlacesIn(e, k, s, gone, m)
  PROVE  PlacesIn(e, k, s, gone, m + 1)
<1>1. \A i \in 1 .. m + 1 : i \notin gone => i \in 1 .. m
  OBVIOUS
<1>2. e \in [1 .. Len(k) -> 1 .. m + 1]
  BY DEF PlacesIn
<1> QED BY <1>1, <1>2 DEF PlacesIn

\* An element that stays is the last of those that do.
LEMMA PlacesOfAppend ==
  ASSUME NEW S, NEW k \in Seq(S), NEW s, NEW gone, NEW m \in Nat, m + 1 \notin gone, NEW a \in S, a = s[m + 1],
         NEW e, PlacesIn(e, k, s, gone, m)
  PROVE  \E f : PlacesIn(f, Append(k, a), s, gone, m + 1)
<1>1. PICK t \in Seq(S), n \in Nat : t = Append(k, a) /\ n = Len(k)
  <2>1. Append(k, a) \in Seq(S) /\ Len(k) \in Nat
    OBVIOUS
  <2> QED BY <2>1, Zenon
<1>2. Len(t) = n + 1 /\ t[n + 1] = a /\ \A j \in 1 .. n : t[j] = k[j]
  BY <1>1
<1>3. PICK f : f = [j \in 1 .. n + 1 |-> IF j = n + 1 THEN m + 1 ELSE e[j]]
  OBVIOUS
<1>4. \A j \in 1 .. n : e[j] \in 1 .. m /\ e[j] \notin gone /\ t[j] = s[e[j]]
  BY <1>1, <1>2 DEF PlacesIn
<1>5. f[n + 1] = m + 1 /\ (\A j \in 1 .. n : f[j] = e[j]) /\ f \in [1 .. n + 1 -> 1 .. m + 1]
  <2>1. \A j \in 1 .. n + 1 : j \in 1 .. n \/ j = n + 1
    OBVIOUS
  <2>2. \A j \in 1 .. n : j \in 1 .. n + 1 /\ j # n + 1
    OBVIOUS
  <2>3. n + 1 \in 1 .. n + 1 /\ m + 1 \in 1 .. m + 1 /\ 1 .. m \subseteq 1 .. m + 1
    OBVIOUS
  <2> QED BY <1>3, <1>4, <2>1, <2>2, <2>3
<1>6. ASSUME NEW j \in 1 .. n + 1
      PROVE  f[j] \notin gone /\ t[j] = s[f[j]]
  <2>1. CASE j = n + 1
    BY <1>2, <1>5, <2>1
  <2>2. CASE j \in 1 .. n
    BY <1>4, <1>5, <2>2
  <2> QED BY <2>1, <2>2
<1>7. ASSUME NEW i \in 1 .. n + 1, NEW j \in 1 .. n + 1, i < j
      PROVE  f[i] < f[j]
  <2>1. i \in 1 .. n /\ f[i] = e[i] /\ e[i] \in 1 .. m
    BY <1>4, <1>5, <1>7
  <2>2. CASE j = n + 1
    BY <1>5, <2>1, <2>2
  <2>3. CASE j \in 1 .. n
    <3>1. e[i] < e[j]
      BY <1>1, <1>7, <2>1, <2>3 DEF PlacesIn
    <3> QED BY <1>5, <2>1, <2>3, <3>1
  <2> QED BY <2>2, <2>3
<1>8. ASSUME NEW i \in 1 .. m + 1, i \notin gone
      PROVE  \E j \in 1 .. n + 1 : f[j] = i
  <2>1. CASE i = m + 1
    <3>1. n + 1 \in 1 .. n + 1
      OBVIOUS
    <3> QED BY <1>5, <2>1, <3>1
  <2>2. CASE i \in 1 .. m
    <3>1. PICK j \in 1 .. n : e[j] = i
      BY <1>1, <1>8, <2>2 DEF PlacesIn
    <3>2. j \in 1 .. n + 1
      BY <3>1
    <3> QED BY <1>5, <3>1, <3>2
  <2> QED BY <2>1, <2>2
<1>9. PlacesIn(f, t, s, gone, m + 1)
  BY <1>2, <1>5, <1>6, <1>7, <1>8 DEF PlacesIn
<1> QED BY <1>1, <1>9

\* What is left is in the order it was in.
LEMMA PlacesAre ==
  ASSUME NEW S, NEW s \in Seq(S), NEW gone
  PROVE  Without(s, gone) \in Seq(S) /\ \E e : PlacesIn(e, Without(s, gone), s, gone, Len(s))
<1> DEFINE n == Len(s)
<1>0. PICK K : Keeps(K, s, gone, S)
  BY KeepIs
<1>1. /\ K \in [0 .. n -> Seq(S)] /\ Without(s, gone) = K[n] /\ K[0] = <<>>
      /\ \A i \in 1 .. n : K[i] = IF i \in gone THEN K[i - 1] ELSE Append(K[i - 1], s[i])
  BY <1>0 DEF Keeps
<1>2. n \in Nat /\ (\A i \in 1 .. n : s[i] \in S)
  OBVIOUS
<1> DEFINE T == {m \in 0 .. n : \E e : PlacesIn(e, K[m], s, gone, m)}
<1>3. 0 .. n \subseteq T
  <2>1. 0 \in T
    <3>1. PICK e : PlacesIn(e, <<>>, s, gone, 0)
      BY PlacesOfNone
    <3>2. PlacesIn(e, K[0], s, gone, 0)
      BY <1>1, <3>1, Zenon
    <3> QED BY <1>2, <3>2
  <2>2. \A m \in 0 .. n - 1 : m \in T => m + 1 \in T
    <3> SUFFICES ASSUME NEW m \in 0 .. n - 1, m \in T PROVE m + 1 \in T
      OBVIOUS
    <3>1. m + 1 \in 1 .. n /\ (m + 1) - 1 = m /\ m \in 0 .. n /\ m + 1 \in 0 .. n /\ m \in Nat
      BY <1>2
    <3>6. PICK k \in Seq(S) : k = K[m] /\ \E e : PlacesIn(e, k, s, gone, m)
      BY <1>1, <3>1
    <3>2. PICK e : k = K[m] /\ PlacesIn(e, k, s, gone, m)
      BY <3>6
    <3>3. PICK a \in S : a = s[m + 1]
      BY <1>2, <3>1
    <3>4. K[m + 1] = IF m + 1 \in gone THEN k ELSE Append(k, a)
      <4>1. K[m + 1] = IF m + 1 \in gone THEN K[(m + 1) - 1] ELSE Append(K[(m + 1) - 1], s[m + 1])
        BY <1>1, <3>1
      <4> QED BY <3>1, <3>2, <3>3, <4>1, Zenon
    <3>5. PICK f : PlacesIn(f, K[m + 1], s, gone, m + 1)
      <4>1. CASE m + 1 \in gone
        <5>1. PlacesIn(e, k, s, gone, m + 1)
          BY <3>1, <3>2, <4>1, PlacesOfGone
        <5> QED BY <3>4, <4>1, <5>1, Zenon
      <4>2. CASE m + 1 \notin gone
        <5>1. \E f : PlacesIn(f, Append(k, a), s, gone, m + 1)
          BY <3>1, <3>2, <3>3, <4>2, PlacesOfAppend
        <5> QED BY <3>4, <4>2, <5>1, Zenon
      <4> QED BY <4>1, <4>2
    <3> QED BY <3>1, <3>5
  <2> HIDE DEF T
  <2> QED BY <1>2, <2>1, <2>2, InductionUpTo
<1>4. n \in T /\ K[n] \in Seq(S)
  BY <1>1, <1>2, <1>3
<1> QED BY <1>1, <1>4

\* What a node may be, and what it takes
Nodes   == [frame : 1 .. Len(sent), at : Nat]
\* The memory that each message takes, and what is invariant of the counts.
SizeTable == [n \in Nodes |-> BytesOf(n)]

CountInv ==
  /\ sent \in Seq([msg : Messages, at : Nat]) /\ now \in Nat
  /\ queue \in Seq(Nodes)
  /\ memory \in 0 .. CountRange - 1
  /\ CountsExact

\* A message takes a positive number of bytes.
LEMMA NodesTakeBytes ==
  ASSUME CountInv
  PROVE  /\ \A n \in Nodes : Text(n) \in Messages /\ BytesOf(n) = NodeSize + Length[Text(n)] /\ BytesOf(n) \in Nat
         /\ SizeTable \in [Nodes -> Nat] /\ \A n \in Nodes : SizeTable[n] = BytesOf(n)
<1>1. \A n \in Nodes : Text(n) \in Messages
  <2> SUFFICES ASSUME NEW n \in Nodes PROVE Text(n) \in Messages
    OBVIOUS
  <2>1. n.frame \in 1 .. Len(sent)
    BY DEF Nodes
  <2>2. sent \in Seq([msg : Messages, at : Nat])
    BY DEF CountInv
  <2>3. PICK R, s, i : R = [msg : Messages, at : Nat] /\ s = sent /\ i = n.frame
    OBVIOUS
  <2>4. s \in Seq(R) /\ i \in 1 .. Len(s)
    BY <2>1, <2>2, <2>3, Zenon
  <2>5. s[i] \in R
    BY <2>4
  <2>6. s[i].msg \in Messages
    BY <2>3, <2>5
  <2> QED BY <2>3, <2>6 DEF Text
<1>2. \A n \in Nodes : BytesOf(n) = NodeSize + Length[Text(n)] /\ BytesOf(n) \in Nat
  BY <1>1, MsgQueueAssumption DEF BytesOf
<1> QED BY <1>1, <1>2 DEF SizeTable

\* The weights of the messages that wait.
LEMMA WeightsOfQueue ==
  ASSUME NEW S, NEW q \in Seq(S), NEW B \in [S -> Nat]
  PROVE  /\ [i \in 1 .. Len(q) |-> B[q[i]]] \in Seq(Nat)
         /\ Len([i \in 1 .. Len(q) |-> B[q[i]]]) = Len(q)
         /\ WeightsOf([i \in 1 .. Len(q) |-> B[q[i]]], q, B)
<1>1. Len(q) \in Nat /\ \A i \in 1 .. Len(q) : q[i] \in S /\ B[q[i]] \in Nat
  OBVIOUS
<1>2. PICK n \in Nat : n = Len(q)
  BY <1>1
<1>3. PICK w : w = [i \in 1 .. n |-> B[q[i]]]
  OBVIOUS
<1>4. w \in Seq(Nat) /\ Len(w) = n
  BY <1>1, <1>2, <1>3
<1> QED BY <1>2, <1>3, <1>4 DEF WeightsOf

\* Weights are known by their elements.
LEMMA WeightsAre ==
  ASSUME NEW S, NEW q \in Seq(S), NEW B \in [S -> Nat], NEW w \in Seq(Nat), WeightsOf(w, q, B)
  PROVE  w = [i \in 1 .. Len(q) |-> B[q[i]]]
<1>1. w = [i \in 1 .. Len(w) |-> w[i]]
  OBVIOUS
<1> QED BY <1>1 DEF WeightsOf

\* Consumed is their total.
LEMMA ConsumedIs ==
  ASSUME CountInv
  PROVE  Consumed = Total([i \in 1 .. Len(queue) |-> SizeTable[queue[i]]])
<1>1. \A i \in 1 .. Len(queue) : SizeTable[queue[i]] = BytesOf(queue[i])
  BY NodesTakeBytes DEF CountInv
<1>2. [i \in 1 .. Len(queue) |-> SizeTable[queue[i]]] = [i \in 1 .. Len(queue) |-> BytesOf(queue[i])]
  BY <1>1
<1> QED BY <1>2 DEF Consumed

\* A number below the range of the count is its own remainder.
LEMMA SmallRemainder ==
  ASSUME NEW b \in Nat \ {0}, NEW r \in 0 .. b - 1
  PROVE  r % b = r
<1>1. (0 * b + r) % b = r
  BY RemainderIs
<1>2. 0 * b + r = r
  OBVIOUS
<1> QED BY <1>1, <1>2

\* At first nothing waits.
LEMMA CountBegins == QueueInit => CountInv
<1> SUFFICES ASSUME QueueInit PROVE CountInv
  OBVIOUS
<1>1. sent = <<>> /\ queue = <<>> /\ memory = 0 /\ numWaitingMsgs = 0 /\ now = 0
  BY DEF QueueInit
<1>2. Consumed = 0
  <2>1. PICK w : w = [i \in 1 .. Len(queue) |-> BytesOf(queue[i])]
    OBVIOUS
  <2>2. Len(queue) = 0
    BY <1>1
  <2>3. w = [i \in 1 .. 0 |-> w[i]]
    BY <2>1, <2>2
  <2>4. w \in Seq(Nat) /\ Len(w) = 0
    BY <2>3
  <2>5. Total(w) = 0
    BY <2>4, SumsAre
  <2> QED BY <2>1, <2>5 DEF Consumed
<1>3. /\ sent \in Seq([msg : Messages, at : Nat]) /\ queue \in Seq(Nodes) /\ now \in Nat
      /\ memory \in 0 .. CountRange - 1
  BY <1>1, MsgQueueAssumption
<1>4. CountsExact
  BY <1>1, <1>2 DEF CountsExact
<1> QED BY <1>3, <1>4 DEF CountInv

\* A node is added, and its bytes are counted.
LEMMA AddCounts ==
  ASSUME CountInv, NEW f \in Frames, addMsgToMsgQueue(f)
  PROVE  CountInv'
<1>1. UNCHANGED <<now, sent>> /\ f \in 1 .. Len(sent)
  BY DEF addMsgToMsgQueue, Frames, CountInv
<1>2. Nodes' = Nodes
  BY <1>1 DEF Nodes
<1>3. CASE UNCHANGED listVars
  <2>1. Consumed' = Consumed
    BY <1>1, <1>3 DEF Consumed, listVars, BytesOf, Text
  <2> QED BY <1>1, <1>2, <1>3, <2>1 DEF CountInv, CountsExact, listVars
<1>4. CASE ~UNCHANGED listVars
  <2>1. PICK n : n = [frame |-> f, at |-> now]
    OBVIOUS
  <2>2. /\ ~TooMuchMemory /\ queue' = Append(queue, n)
        /\ memory' = (memory + BytesOf(n)) % CountRange /\ numWaitingMsgs' = numWaitingMsgs + 1
    BY <1>4, <2>1 DEF addMsgToMsgQueue
  <2>3. n \in Nodes
    BY <1>1, <2>1 DEF Nodes, CountInv
  <2>4. PICK S, q, B, b : S = Nodes /\ q = queue /\ B = SizeTable /\ b = BytesOf(n)
    OBVIOUS
  <2>15. q \in Seq(S) /\ B \in [S -> Nat] /\ b \in Nat /\ b = B[n] /\ n \in S
    BY <2>3, <2>4, NodesTakeBytes DEF CountInv
  <2>5. PICK w \in Seq(Nat) : w = [i \in 1 .. Len(q) |-> B[q[i]]] /\ WeightsOf(w, q, B)
    BY <2>15, WeightsOfQueue, Zenon
  <2>6. Append(q, n) \in Seq(S) /\ Append(w, b) \in Seq(Nat) /\ WeightsOf(Append(w, b), Append(q, n), B)
    <3>1. Append(q, n) \in Seq(S) /\ Append(w, b) \in Seq(Nat)
      BY <2>15
    <3>2. WeightsOf(Append(w, B[n]), Append(q, n), B)
      BY <2>15, <2>5, WeightsOfAppend
    <3> QED BY <2>15, <3>1, <3>2, Zenon
  <2>7. Append(w, b) = [i \in 1 .. Len(Append(q, n)) |-> B[Append(q, n)[i]]]
    BY <2>6, <2>15, WeightsAre, Zenon
  <2>8. \A m \in S : NodeSize + Length[sent[m.frame].msg] = B[m]
    BY <2>4, NodesTakeBytes DEF BytesOf, Text
  <2>9. Consumed' = Total(Append(w, b))
    <3>1. PICK r, u : r = Append(q, n) /\ u = Append(w, b)
      OBVIOUS
    <3>2. u = [i \in 1 .. Len(r) |-> B[r[i]]] /\ r \in Seq(S)
      BY <2>6, <2>7, <3>1, Zenon
    <3>3. \A i \in 1 .. Len(r) : NodeSize + Length[sent[r[i].frame].msg] = B[r[i]]
      BY <2>8, <3>2
    <3>4. u = [i \in 1 .. Len(r) |-> NodeSize + Length[sent[r[i].frame].msg]]
      BY <3>2, <3>3
    <3>5. queue' = r /\ sent' = sent
      BY <1>1, <2>2, <2>4, <3>1
    <3> QED BY <3>1, <3>4, <3>5 DEF Consumed, BytesOf, Text
  <2>10. Total(Append(w, b)) = Total(w) + b
    BY <2>15, TotalOfAppend
  <2>11. memory = Total(w)
    BY <2>4, <2>5, ConsumedIs DEF CountInv, CountsExact
  <2>12. memory + b \in 0 .. CountRange - 1 /\ CountRange \in Nat \ {0}
    <3>1. b = NodeSize + Length[Text(n)] /\ Text(n) \in Messages
      BY <2>3, <2>4, NodesTakeBytes
    <3>2. memory <= MemLimit /\ memory \in Nat
      BY <2>2, MsgQueueAssumption DEF TooMuchMemory, CountInv
    <3> QED BY <3>1, <3>2, MsgQueueAssumption
  <2>13. memory' = memory + b
    BY <2>2, <2>4, <2>12, SmallRemainder
  <2>14. Len(queue') = Len(queue) + 1 /\ queue' \in Seq(Nodes)
    BY <2>2, <2>4, <2>6, <2>15
  <2> QED BY <1>1, <1>2, <2>2, <2>9, <2>10, <2>11, <2>12, <2>13, <2>14 DEF CountInv, CountsExact
<1> QED BY <1>3, <1>4

\* The bytes of the nodes that are dropped are counted back.
LEMMA CheckCounts ==
  ASSUME CountInv, LengthsAgree, checkMessages
  PROVE  CountInv'
<1>1. UNCHANGED <<now, sent>> /\ queue # <<>> /\ queue' = Without(queue, Taken)
      /\ memory' = (memory - Freed * BytesOf(Head(queue))) % CountRange
      /\ numWaitingMsgs' = numWaitingMsgs - Freed /\ Freed = Len(queue) - Len(Without(queue, Taken))
  BY DEF checkMessages, Others, Freed
<1>2. Nodes' = Nodes
  BY <1>1 DEF Nodes
<1>3. PICK S, q, B, gone, b : S = Nodes /\ q = queue /\ B = SizeTable /\ gone = Taken /\ b = BytesOf(Head(queue))
  OBVIOUS
<1>14. q \in Seq(S) /\ B \in [S -> Nat] /\ b \in Nat /\ b = B[q[1]]
  <2>1. Head(queue) = queue[1] /\ queue[1] \in Nodes
    BY <1>1 DEF CountInv
  <2> QED BY <1>3, <2>1, NodesTakeBytes DEF CountInv
<1>4. PICK w \in Seq(Nat) : w = [i \in 1 .. Len(q) |-> B[q[i]]] /\ WeightsOf(w, q, B) /\ Len(w) = Len(q)
  BY <1>14, WeightsOfQueue, Zenon
<1>5. \A i \in 1 .. Len(w) : i \in gone => w[i] = b
  <2> SUFFICES ASSUME NEW i \in 1 .. Len(q), i \in Taken PROVE B[q[i]] = B[q[1]]
    <3>1. \A i \in 1 .. Len(q) : w[i] = B[q[i]]
      BY <1>4
    <3> QED BY <1>3, <1>4, <1>14, <3>1
  <2>1. CASE i = 1
    BY <2>1
  <2>2. CASE i # 1
    <3>1. IsCopy(queue[i], queue[1])
      BY <2>2 DEF Taken
    <3>2. queue[i] \in Nodes /\ queue[1] \in Nodes
      BY <1>1, <1>3, <1>14
    <3>3. CrcOfMsg[Text(queue[i])] = CrcOfMsg[Text(queue[1])]
      BY <3>1 DEF IsCopy
    <3>4. Length[Text(queue[i])] = Length[Text(queue[1])]
      BY <3>2, <3>3, NodesTakeBytes DEF LengthsAgree
    <3> QED BY <1>3, <3>2, <3>4, NodesTakeBytes
  <2> QED BY <2>1, <2>2
<1>6. PICK v \in Seq(Nat), x \in Nat :
        v = Without(w, gone) /\ x = Len(w) - Len(v) /\ Total(v) + b * x = Total(w)
  BY <1>5, <1>14, TotalWithout, Zenon
<1>7. PICK r \in Seq(S) : r = Without(q, gone)
  BY <1>14, PlacesAre, Zenon
<1>8. v = [i \in 1 .. Len(r) |-> B[r[i]]] /\ Len(v) = Len(r)
  <2>1. WeightsOf(v, r, B)
    BY <1>4, <1>6, <1>7, <1>14, WeightsWithout
  <2> QED BY <1>14, <2>1, WeightsAre DEF WeightsOf
<1>9. Consumed' = Total(v)
  <2>1. \A m \in S : NodeSize + Length[sent[m.frame].msg] = B[m]
    BY <1>3, NodesTakeBytes DEF BytesOf, Text
  <2>2. \A i \in 1 .. Len(r) : NodeSize + Length[sent[r[i].frame].msg] = B[r[i]]
    BY <2>1
  <2>3. v = [i \in 1 .. Len(r) |-> NodeSize + Length[sent[r[i].frame].msg]]
    BY <1>8, <2>2
  <2>4. queue' = r /\ sent' = sent
    BY <1>1, <1>3, <1>7
  <2> QED BY <2>3, <2>4 DEF Consumed, BytesOf, Text
<1>10. memory = Total(w) /\ numWaitingMsgs = Len(q) /\ memory \in 0 .. CountRange - 1
  BY <1>3, <1>4, ConsumedIs DEF CountInv, CountsExact
<1>11. Freed = x /\ Len(queue') = Len(r)
  BY <1>1, <1>3, <1>4, <1>6, <1>7, <1>8
<1>12. memory' = Total(v) /\ Total(v) \in 0 .. CountRange - 1
  <2>1. b * x \in Nat /\ x * b = b * x
    <3>1. b \in Nat
      BY <1>14
    <3> QED BY <3>1
  <2>2. Total(v) \in Nat
    <3>1. PICK f, n : f = Sums(v) /\ n = Len(v) /\ n \in Nat
      OBVIOUS
    <3>2. f \in [0 .. n -> Nat] /\ Total(v) = f[n]
      BY <3>1, SumsAre, Zenon
    <3> QED BY <3>1, <3>2
  <2>3. PICK p : p = b * x /\ p \in Nat
    BY <2>1, Zenon
  <2>4. Total(v) + p = memory /\ Freed * BytesOf(Head(queue)) = p
    <3>1. Total(v) + p = Total(w) /\ x * b = p
      BY <1>6, <2>1, <2>3, Zenon
    <3> QED BY <1>3, <1>10, <1>11, <3>1, Zenon
  <2>5. memory - p = Total(v) /\ Total(v) \in 0 .. CountRange - 1 /\ CountRange \in Nat \ {0}
    BY <1>10, <2>2, <2>3, <2>4, MsgQueueAssumption
  <2>6. memory' = Total(v) % CountRange
    <3>1. memory' = (memory - Freed * BytesOf(Head(queue))) % CountRange
      BY <1>1
    <3>2. memory' = (memory - p) % CountRange
      BY <2>4, <3>1, Zenon
    <3>3. memory - p = Total(v)
      BY <2>5
    <3> QED BY <3>2, <3>3, Zenon
  <2> QED BY <2>5, <2>6, SmallRemainder
<1>13. numWaitingMsgs' = Len(queue')
  <2>1. Len(w) \in Nat /\ Len(v) \in Nat
    OBVIOUS
  <2>2. numWaitingMsgs' = Len(w) - x
    BY <1>1, <1>4, <1>10, <1>11
  <2>3. Len(w) - x = Len(v)
    BY <1>6, <2>1
  <2> QED BY <1>8, <1>11, <2>2, <2>3
<1> QED BY <1>1, <1>2, <1>3, <1>7, <1>9, <1>12, <1>13 DEF CountInv, CountsExact

\* Every step counts what it adds or frees.
LEMMA CountStep ==
  ASSUME CountInv, LengthsAgree, [QueueNext]_queueVars
  PROVE  CountInv'
<1>1. CASE UNCHANGED <<sent, queue, memory, numWaitingMsgs>> /\ now' \in Nat
  <2>1. Consumed' = Consumed
    BY <1>1 DEF Consumed, BytesOf, Text
  <2> QED BY <1>1, <2>1 DEF CountInv, CountsExact, Nodes
<1>2. ASSUME NEW m \in Messages, Send(m)
      PROVE  CountInv'
  <2>1. sent' = Append(sent, [msg |-> m, at |-> now]) /\ UNCHANGED <<now, queue, memory, numWaitingMsgs>>
    BY <1>2 DEF Send, listVars
  <2>2. sent' \in Seq([msg : Messages, at : Nat]) /\ Len(sent') = Len(sent) + 1
        /\ \A f \in 1 .. Len(sent) : sent'[f] = sent[f]
    BY <2>1 DEF CountInv
  <2>3. Nodes \subseteq Nodes' /\ \A n \in Nodes : BytesOf(n)' = BytesOf(n)
    BY <2>2 DEF Nodes, BytesOf, Text, CountInv
  <2>4. queue' \in Seq(Nodes')
    BY <2>1, <2>3 DEF CountInv
  <2>5. Consumed' = Consumed
    <3>1. \A i \in 1 .. Len(queue) : queue[i] \in Nodes
      BY DEF CountInv
    <3>2. \A i \in 1 .. Len(queue) : sent'[queue[i].frame] = sent[queue[i].frame]
      BY <2>2, <3>1 DEF Nodes
    <3>3. queue' = queue
      BY <2>1
    <3>4. [i \in 1 .. Len(queue') |-> NodeSize + Length[sent'[queue'[i].frame].msg]]
            = [i \in 1 .. Len(queue) |-> NodeSize + Length[sent[queue[i].frame].msg]]
      BY <3>2, <3>3
    <3> QED BY <3>4 DEF Consumed, BytesOf, Text
  <2> QED BY <2>1, <2>2, <2>4, <2>5 DEF CountInv, CountsExact
<1>3. CASE Tick
  BY <1>1, <1>3 DEF Tick, listVars, CountInv
<1>4. CASE UNCHANGED queueVars
  BY <1>1, <1>4 DEF queueVars, listVars, CountInv
<1> QED BY <1>2, <1>3, <1>4, AddCounts, CheckCounts DEF QueueNext

\* The two counts of addMsgToMsgQueue and checkMessages are those of the list,
\* for all messages, channels and bounds, when messages with the same CRC are of
\* the same length: what is freed is counted by the length of the copy handled.
THEOREM CountsAreExact == LengthsAgree => (QueueSpec => []CountsExact)
<1> SUFFICES ASSUME LengthsAgree PROVE QueueSpec => []CountsExact
  OBVIOUS
<1>1. CountInv => CountsExact
  BY DEF CountInv
<1>2. CountInv /\ [QueueNext]_queueVars => CountInv'
  BY CountStep
<1> QED BY <1>1, <1>2, CountBegins, PTL DEF QueueSpec

----------------------------------------------------------------------------
(* The refinement.                                                         *)

\* Frames with the same text are FrameTime apart.
SentApart ==
  /\ \A f \in 1 .. Len(sent) : sent[f].at <= now
  /\ \A f, g \in 1 .. Len(sent) :
       f < g /\ sent[f].msg = sent[g].msg => sent[g].at - sent[f].at >= FrameTime

\* The node n was added when its frame was over, and is not too old.
InTime(n) ==
  /\ sent[n.frame].at <= n.at /\ n.at - sent[n.frame].at <= Spread
  /\ n.at <= now /\ now - n.at <= MaxAge

\* The list is in the order of arrival.
InOrder == \A i, j \in 1 .. Len(queue) : i < j => queue[i].at <= queue[j].at

\* Each message that waits came within the time its copies take, and the list is
\* in the order in which frames were sent.
TimesInv ==
  /\ sent \in Seq([msg : Messages, at : Nat]) /\ now \in Nat /\ Len(sent) <= MaxFrames
  /\ queue \in Seq(Nodes)
  /\ SentApart
  /\ \A i \in 1 .. Len(queue) : InTime(queue[i])
  /\ InOrder

\* At first nothing was sent.
LEMMA TimesBegin == QueueInit => TimesInv
<1> SUFFICES ASSUME QueueInit PROVE TimesInv
  OBVIOUS
<1>1. sent = <<>> /\ queue = <<>> /\ now = 0
  BY DEF QueueInit
<1>2. sent \in Seq([msg : Messages, at : Nat]) /\ queue \in Seq(Nodes) /\ Len(sent) = 0 /\ Len(queue) = 0
  BY <1>1
<1> QED BY <1>1, <1>2, MsgQueueAssumption DEF TimesInv, SentApart, InOrder

\* What a frame on the air is.
LEMMA FrameIs ==
  ASSUME TimesInv, NEW f \in 1 .. Len(sent)
  PROVE  sent[f].msg \in Messages /\ sent[f].at \in Nat
<1>1. PICK R, s : R = [msg : Messages, at : Nat] /\ s = sent
  OBVIOUS
<1>2. s \in Seq(R) /\ f \in 1 .. Len(s)
  BY <1>1, Zenon DEF TimesInv
<1>3. s[f] \in R
  BY <1>2
<1> QED BY <1>1, <1>3

\* The frame of a message that waits was sent.
LEMMA NodeIs ==
  ASSUME TimesInv, NEW i \in 1 .. Len(queue)
  PROVE  /\ queue[i].frame \in 1 .. Len(sent) /\ queue[i].at \in Nat
         /\ sent[queue[i].frame].msg \in Messages /\ sent[queue[i].frame].at \in Nat
<1>1. PICK N, q : N = Nodes /\ q = queue
  OBVIOUS
<1>2. q \in Seq(N) /\ i \in 1 .. Len(q)
  BY <1>1, Zenon DEF TimesInv
<1>3. q[i] \in N
  BY <1>2
<1>4. queue[i] \in Nodes
  BY <1>1, <1>3
<1>5. queue[i].frame \in 1 .. Len(sent) /\ queue[i].at \in Nat
  BY <1>4 DEF Nodes
<1> QED BY <1>5, FrameIs

\* A frame is sent after the last was over.
LEMMA TimesSend ==
  ASSUME TimesInv, NEW m \in Messages, Send(m)
  PROVE  TimesInv'
<1>1. sent' = Append(sent, [msg |-> m, at |-> now]) /\ now' = now /\ queue' = queue
      /\ Len(sent) < MaxFrames
      /\ \A f \in 1 .. Len(sent) : sent[f].msg = m => now - sent[f].at >= FrameTime
  BY DEF Send, listVars
<1>2. PICK n : n = [msg |-> m, at |-> now]
  OBVIOUS
<1>3. n \in [msg : Messages, at : Nat] /\ n.msg = m /\ n.at = now
  BY <1>2 DEF TimesInv
<1>4. /\ sent' \in Seq([msg : Messages, at : Nat]) /\ Len(sent') = Len(sent) + 1 /\ Len(sent) \in Nat
      /\ (\A f \in 1 .. Len(sent) : sent'[f] = sent[f]) /\ sent'[Len(sent) + 1] = n
  BY <1>1, <1>2, <1>3 DEF TimesInv
<1>5. Len(sent') <= MaxFrames
  BY <1>1, <1>4, MsgQueueAssumption
<1>6. SentApart'
  <2>1. \A f \in 1 .. Len(sent') : f \in 1 .. Len(sent) \/ f = Len(sent) + 1
    BY <1>4
  <2>2. \A f \in 1 .. Len(sent') : sent'[f].at <= now
    <3>1. now <= now /\ \A f \in 1 .. Len(sent) : sent[f].at <= now
      BY DEF TimesInv, SentApart
    <3> QED BY <1>3, <1>4, <2>1, <3>1
  <2>3. ASSUME NEW f \in 1 .. Len(sent'), NEW g \in 1 .. Len(sent'), f < g, sent'[f].msg = sent'[g].msg
        PROVE  sent'[g].at - sent'[f].at >= FrameTime
    <3>1. f \in 1 .. Len(sent)
      BY <1>4, <2>3
    <3>2. CASE g \in 1 .. Len(sent)
      BY <1>4, <2>3, <3>1, <3>2 DEF TimesInv, SentApart
    <3>3. CASE g = Len(sent) + 1
      <4>1. sent'[g] = n /\ sent'[f] = sent[f]
        BY <1>4, <3>1, <3>3
      <4>2. sent[f].msg = m /\ sent'[g].at = now
        BY <1>3, <2>3, <4>1
      <4> QED BY <1>1, <3>1, <4>1, <4>2
    <3> QED BY <2>1, <3>2, <3>3
  <2> QED BY <1>1, <2>2, <2>3 DEF SentApart
<1>7. Nodes \subseteq Nodes'
  BY <1>4 DEF Nodes
<1>8. queue' \in Seq(Nodes')
  BY <1>1, <1>7 DEF TimesInv
<1>9. \A i \in 1 .. Len(queue) : sent'[queue[i].frame] = sent[queue[i].frame]
  BY <1>4, NodeIs
<1>10. (\A i \in 1 .. Len(queue) : InTime(queue[i]))'
  BY <1>1, <1>9 DEF TimesInv, InTime
<1>11. InOrder'
  BY <1>1 DEF TimesInv, InOrder
<1> QED BY <1>1, <1>4, <1>5, <1>6, <1>8, <1>10, <1>11 DEF TimesInv

\* Time goes on while no message becomes too old.
LEMMA TimesTick ==
  ASSUME TimesInv, Tick
  PROVE  TimesInv'
<1>1. now' = now + 1 /\ UNCHANGED <<sent, queue>> /\ \A i \in 1 .. Len(queue) : now' - queue[i].at <= MaxAge
  BY DEF Tick, listVars
<1>2. now \in Nat /\ now' \in Nat
  BY <1>1 DEF TimesInv
<1>3. SentApart'
  <2>1. \A f \in 1 .. Len(sent) : sent[f].at <= now'
    BY <1>1, <1>2, FrameIs DEF TimesInv, SentApart
  <2> QED BY <1>1, <2>1 DEF TimesInv, SentApart
<1>4. (\A i \in 1 .. Len(queue) : InTime(queue[i]))'
  BY <1>1, <1>2, NodeIs DEF TimesInv, InTime
<1>5. InOrder' /\ Nodes' = Nodes
  BY <1>1 DEF TimesInv, InOrder, Nodes
<1> QED BY <1>1, <1>2, <1>3, <1>4, <1>5 DEF TimesInv

\* A copy is added behind those of frames sent before.
LEMMA TimesAdd ==
  ASSUME TimesInv, TextsApart, NEW f \in Frames, addMsgToMsgQueue(f)
  PROVE  TimesInv'
<1>1. UNCHANGED <<now, sent>> /\ f \in 1 .. Len(sent) /\ now - sent[f].at <= Spread
  BY DEF addMsgToMsgQueue, Frames, TimesInv
<1>2. Nodes' = Nodes /\ SentApart'
  BY <1>1 DEF Nodes, TimesInv, SentApart
<1>3. CASE queue' = queue
  <2>1. InOrder' /\ (\A i \in 1 .. Len(queue) : InTime(queue[i]))'
    BY <1>1, <1>3 DEF TimesInv, InOrder, InTime
  <2> QED BY <1>1, <1>2, <1>3, <2>1 DEF TimesInv
<1>4. CASE queue' # queue
  <2>1. PICK n : n = [frame |-> f, at |-> now]
    OBVIOUS
  <2>2. queue' = Append(queue, n)
    BY <1>4, <2>1 DEF addMsgToMsgQueue, listVars
  <2>3. n \in Nodes /\ n.frame = f /\ n.at = now /\ now \in Nat
    BY <1>1, <2>1 DEF Nodes, TimesInv
  <2>4. /\ queue' \in Seq(Nodes) /\ Len(queue') = Len(queue) + 1 /\ Len(queue) \in Nat
        /\ (\A i \in 1 .. Len(queue) : queue'[i] = queue[i]) /\ queue'[Len(queue) + 1] = n
    BY <2>2, <2>3 DEF TimesInv
  <2>5. \A i \in 1 .. Len(queue') : i \in 1 .. Len(queue) \/ i = Len(queue) + 1
    BY <2>4
  <2>6. (\A i \in 1 .. Len(queue) : InTime(queue[i]))'
    <3>1. sent[f].at <= now /\ now - now <= MaxAge
      BY <1>1, <2>3, MsgQueueAssumption DEF TimesInv, SentApart
    <3>2. \A i \in 1 .. Len(queue) : InTime(queue[i])
      BY DEF TimesInv
    <3>3. \A i \in 1 .. Len(queue') :
            /\ sent[queue'[i].frame].at <= queue'[i].at
            /\ queue'[i].at - sent[queue'[i].frame].at <= Spread
            /\ queue'[i].at <= now /\ now - queue'[i].at <= MaxAge
      BY <1>1, <2>3, <2>4, <2>5, <3>1, <3>2 DEF InTime
    <3> QED BY <1>1, <3>3 DEF InTime
  <2>7. InOrder'
    <3>1. \A i \in 1 .. Len(queue) : queue[i].at <= now
      BY DEF TimesInv, InTime
    <3>2. ASSUME NEW i \in 1 .. Len(queue'), NEW j \in 1 .. Len(queue'), i < j
          PROVE  queue'[i].at <= queue'[j].at
      <4>1. i \in 1 .. Len(queue)
        BY <2>4, <3>2
      <4>2. CASE j \in 1 .. Len(queue)
        BY <2>4, <3>2, <4>1, <4>2 DEF TimesInv, InOrder
      <4>3. CASE j = Len(queue) + 1
        BY <2>3, <2>4, <3>1, <4>1, <4>3
      <4> QED BY <2>5, <4>2, <4>3
    <3> QED BY <3>2 DEF InOrder
  <2> QED BY <1>1, <1>2, <2>4, <2>6, <2>7 DEF TimesInv
<1> QED BY <1>3, <1>4

\* What checkMessages leaves is in the order it was in.
LEMMA TimesCheck ==
  ASSUME TimesInv, checkMessages
  PROVE  TimesInv'
<1>1. UNCHANGED <<now, sent>> /\ queue' = Without(queue, Taken)
  BY DEF checkMessages, Others
<1>2. PICK N, q, r, gone : N = Nodes /\ q = queue /\ r = queue' /\ gone = Taken
  OBVIOUS
<1>3. q \in Seq(N) /\ r = Without(q, gone)
  BY <1>1, <1>2, Zenon DEF TimesInv
<1>4. r \in Seq(N) /\ \E e : PlacesIn(e, r, q, gone, Len(q))
  BY <1>3, PlacesAre, Zenon
<1>5. PICK e : PlacesIn(e, r, q, gone, Len(q))
  BY <1>4
<1>6. \A j \in 1 .. Len(r) : e[j] \in 1 .. Len(q) /\ r[j] = q[e[j]]
  BY <1>5 DEF PlacesIn
<1>7. \A i, j \in 1 .. Len(r) : i < j => e[i] < e[j]
  BY <1>5 DEF PlacesIn
<1>8. Nodes' = Nodes /\ SentApart'
  BY <1>1 DEF Nodes, TimesInv, SentApart
<1>9. (\A i \in 1 .. Len(queue) : InTime(queue[i]))'
  <2>1. \A i \in 1 .. Len(q) : InTime(q[i])
    BY <1>2 DEF TimesInv
  <2>2. \A j \in 1 .. Len(r) : InTime(r[j])
    BY <1>6, <2>1
  <2> QED BY <1>1, <1>2, <2>2 DEF InTime
<1>10. InOrder'
  <2>1. \A i, j \in 1 .. Len(q) : i < j => q[i].at <= q[j].at
    BY <1>2 DEF TimesInv, InOrder
  <2>2. \A i, j \in 1 .. Len(r) : i < j => r[i].at <= r[j].at
    BY <1>6, <1>7, <2>1
  <2> QED BY <1>2, <2>2 DEF InOrder
<1> QED BY <1>1, <1>2, <1>4, <1>8, <1>9, <1>10 DEF TimesInv

\* Every step keeps the invariant.
LEMMA TimesStep ==
  ASSUME TimesInv, TextsApart, [QueueNext]_queueVars
  PROVE  TimesInv'
<1>1. CASE UNCHANGED queueVars
  BY <1>1 DEF queueVars, listVars, TimesInv, Nodes, SentApart, InTime, InOrder
<1> QED BY <1>1, TimesSend, TimesTick, TimesAdd, TimesCheck DEF QueueNext

\* FirstHeard, of any list
FirstOf(q, f) ==
  LET waiting == {i \in 1 .. Len(q) : q[i].frame = f}
  IN  IF waiting = {} THEN Never
      ELSE q[CHOOSE i \in waiting : \A j \in waiting : i <= j].at

\* i is the first place of frame f in q.
FirstPlace(i, q, f) ==
  /\ i \in 1 .. Len(q) /\ q[i].frame = f
  /\ \A j \in 1 .. Len(q) : q[j].frame = f => i <= j

\* FirstOf finds the first copy, if one waits.
LEMMA FirstIs ==
  ASSUME NEW S, NEW q \in Seq(S), NEW f
  PROVE  /\ (\A i \in 1 .. Len(q) : q[i].frame # f) => FirstOf(q, f) = Never
         /\ \A i : FirstPlace(i, q, f) => FirstOf(q, f) = q[i].at
         /\ (\A i \in 1 .. Len(q) : q[i].frame # f) \/ \E i : FirstPlace(i, q, f)
<1> DEFINE waiting == {i \in 1 .. Len(q) : q[i].frame = f}
<1>1. (\A i \in 1 .. Len(q) : q[i].frame # f) => FirstOf(q, f) = Never
  BY DEF FirstOf
<1>2. ASSUME NEW i, FirstPlace(i, q, f)
      PROVE  FirstOf(q, f) = q[i].at
  <2>1. i \in waiting /\ (\A j \in waiting : i <= j) /\ waiting \subseteq Nat
    BY <1>2 DEF FirstPlace
  <2>2. FirstOf(q, f) = q[CHOOSE k \in waiting : \A j \in waiting : k <= j].at
    BY <2>1 DEF FirstOf
  <2>3. \A k \in waiting : (\A j \in waiting : k <= j) => k = i
    BY <2>1
  <2> HIDE DEF waiting
  <2>4. (CHOOSE k \in waiting : \A j \in waiting : k <= j) = i
    BY <2>1, <2>3
  <2> QED BY <2>2, <2>4
<1>3. CASE waiting # {}
  <2>1. waiting \in SUBSET Nat
    OBVIOUS
  <2>2. PICK i \in waiting : \A j \in waiting : i <= j
    BY <1>3, <2>1, LeastNatural
  <2> QED BY <1>1, <1>2, <2>2 DEF FirstPlace
<1> QED BY <1>1, <1>2, <1>3

\* The mapped state is told by FirstOf.
LEMMA HeardIs == \A f : FirstHeard(f) = FirstOf(queue, f)
BY DEF FirstHeard, FirstOf

\* The first places of the frames in a longer list
LEMMA FirstOfAppend ==
  ASSUME NEW S, NEW q \in Seq(S), NEW n \in S, NEW g
  PROVE  /\ n.frame # g => FirstOf(Append(q, n), g) = FirstOf(q, g)
         /\ (\E i : FirstPlace(i, q, g)) => FirstOf(Append(q, n), g) = FirstOf(q, g)
         /\ n.frame = g /\ (\A i \in 1 .. Len(q) : q[i].frame # g) => FirstOf(Append(q, n), g) = n.at
<1>1. PICK r : r = Append(q, n)
  OBVIOUS
<1>2. /\ r \in Seq(S) /\ Len(q) \in Nat /\ Len(r) = Len(q) + 1 /\ r[Len(q) + 1] = n
      /\ \A i \in 1 .. Len(q) : i \in 1 .. Len(r) /\ r[i] = q[i]
  BY <1>1
<1>3. \A i \in 1 .. Len(r) : i \in 1 .. Len(q) \/ i = Len(q) + 1
  BY <1>2
<1>4. ASSUME NEW i, FirstPlace(i, q, g)
      PROVE  FirstOf(r, g) = FirstOf(q, g)
  <2>1. FirstPlace(i, r, g)
    BY <1>2, <1>3, <1>4 DEF FirstPlace
  <2>2. r[i] = q[i]
    BY <1>2, <1>4 DEF FirstPlace
  <2>3. FirstOf(r, g) = r[i].at /\ FirstOf(q, g) = q[i].at
    BY <1>2, <1>4, <2>1, FirstIs
  <2> QED BY <2>2, <2>3
<1>5. CASE \A i \in 1 .. Len(q) : q[i].frame # g
  <2>1. CASE n.frame # g
    <3>1. \A i \in 1 .. Len(r) : r[i].frame # g
      BY <1>2, <1>3, <1>5, <2>1
    <3>2. FirstOf(r, g) = Never /\ FirstOf(q, g) = Never
      BY <1>2, <1>5, <3>1, FirstIs
    <3>3. ~\E i : FirstPlace(i, q, g)
      BY <1>5 DEF FirstPlace
    <3> QED BY <1>1, <2>1, <3>2, <3>3
  <2>2. CASE n.frame = g
    <3>1. FirstPlace(Len(q) + 1, r, g)
      BY <1>2, <1>3, <1>5, <2>2 DEF FirstPlace
    <3>2. FirstOf(r, g) = n.at
      BY <1>2, <3>1, FirstIs
    <3>3. ~\E i : FirstPlace(i, q, g)
      BY <1>5 DEF FirstPlace
    <3> QED BY <1>1, <2>2, <3>2, <3>3
  <2> QED BY <2>1, <2>2
<1>6. CASE \E i : FirstPlace(i, q, g)
  <2>1. FirstOf(r, g) = FirstOf(q, g)
    BY <1>4, <1>6
  <2>2. ~\A i \in 1 .. Len(q) : q[i].frame # g
    BY <1>6 DEF FirstPlace
  <2> QED BY <1>1, <2>1, <2>2
<1> QED BY <1>5, <1>6, FirstIs

\* Times so close are not cut by abs.
LEMMA AbsIs ==
  ASSUME NEW d \in Nat, d < IntRange \div 2
  PROVE  AbsInt(d) = d
<1>1. IntRange \in Nat \ {0} /\ IntRange \div 2 \in Nat /\ IntRange \div 2 <= IntRange
  BY MsgQueueAssumption
<1>2. d \in 0 .. IntRange - 1
  BY <1>1
<1>3. d % IntRange = d
  BY <1>1, <1>2, SmallRemainder
<1> QED BY <1>3 DEF AbsInt

\* Two nodes: those of one frame are copies, those of two frames are not.
LEMMA CopiesAre ==
  ASSUME TimesInv, TextsApart, NEW i \in 2 .. Len(queue), queue # <<>>
  PROVE  IsCopy(queue[i], queue[1]) <=> queue[i].frame = queue[1].frame
<1>1. Len(queue) \in Nat /\ i \in 1 .. Len(queue) /\ 1 \in 1 .. Len(queue) /\ 1 < i
  BY DEF TimesInv
<1>2. PICK a, b, f, g, s, t, d :
        /\ a = queue[1].at /\ b = queue[i].at /\ f = queue[1].frame /\ g = queue[i].frame
        /\ s = sent[f].at /\ t = sent[g].at /\ d = b - a
  OBVIOUS
<1>3. a \in Nat /\ b \in Nat /\ s \in Nat /\ t \in Nat /\ f \in 1 .. Len(sent) /\ g \in 1 .. Len(sent)
  BY <1>1, <1>2, NodeIs
<1>4. a <= b
  BY <1>1, <1>2 DEF TimesInv, InOrder
<1>5. s <= a /\ a - s <= Spread /\ now - a <= MaxAge /\ t <= b /\ b - t <= Spread /\ b <= now /\ now \in Nat
  <2>1. InTime(queue[1]) /\ InTime(queue[i])
    BY <1>1 DEF TimesInv
  <2> QED BY <1>2, <2>1 DEF InTime, TimesInv
<1>6. d \in Nat /\ d < IntRange \div 2
  <2>1. PICK half : half = IntRange \div 2
    OBVIOUS
  <2>2. half \in Nat /\ MaxAge \in Nat
    BY <2>1, MsgQueueAssumption
  <2>3. MaxAge < half
    BY <2>1, Zenon DEF TextsApart
  <2>4. d = b - a
    BY <1>2
  <2>5. d \in Nat /\ d < half
    BY <1>3, <1>4, <1>5, <2>2, <2>3, <2>4
  <2> QED BY <2>1, <2>5
<1>10. Spread \in Nat /\ CloseTime \in Nat /\ FrameTime \in Nat /\ d = b - a
      /\ Spread < CloseTime /\ CloseTime + Spread <= FrameTime
  BY <1>2, MsgQueueAssumption DEF TextsApart
<1>7. closeTimes(queue[1].at, queue[i].at) <=> d < CloseTime
  BY <1>2, <1>6, AbsIs DEF closeTimes
<1>8. CASE f = g
  <2>1. d < CloseTime
    <3>1. s = t
      BY <1>2, <1>8
    <3> QED BY <1>10, <1>3, <1>4, <1>5, <3>1
  <2>2. Text(queue[i]) = Text(queue[1])
    BY <1>2, <1>8 DEF Text
  <2>3. closeTimes(queue[1].at, queue[i].at)
    BY <1>7, <2>1
  <2> QED BY <1>2, <1>8, <2>2, <2>3 DEF IsCopy
<1>9. CASE f # g
  <2> SUFFICES ASSUME IsCopy(queue[i], queue[1]) PROVE FALSE
    BY <1>2, <1>9
  <2>1. sent[f].msg = sent[g].msg
    <3>1. PICK m, l : m = sent[f].msg /\ l = sent[g].msg
      OBVIOUS
    <3>2. m \in Messages /\ l \in Messages
      BY <1>3, <3>1, FrameIs
    <3>3. CrcOfMsg[l] = CrcOfMsg[m]
      BY <1>2, <3>1 DEF IsCopy, Text
    <3> QED BY <3>1, <3>2, <3>3 DEF TextsApart
  <2>2. d < CloseTime
    BY <1>7 DEF IsCopy
  <2>4. CASE f < g
    <3>1. t - s >= FrameTime
      BY <1>2, <1>3, <2>1, <2>4 DEF TimesInv, SentApart
    <3> QED BY <1>10, <1>3, <1>5, <2>2, <3>1
  <2>5. CASE g < f
    <3>1. s - t >= FrameTime
      BY <1>2, <1>3, <2>1, <2>5 DEF TimesInv, SentApart
    <3> QED BY <1>10, <1>3, <1>4, <1>5, <3>1
  <2>6. f < g \/ g < f
    BY <1>3, <1>9
  <2> QED BY <2>4, <2>5, <2>6
<1> QED BY <1>8, <1>9

\* The places in gone are those of frame h.
AreOf(gone, q, h) == \A i \in 1 .. Len(q) : i \in gone <=> q[i].frame = h

\* checkMessages takes the nodes of the first one's frame and no other.
LEMMA TakenIs ==
  ASSUME TimesInv, TextsApart, queue # <<>>
  PROVE  AreOf(Taken, queue, queue[1].frame)
<1> SUFFICES ASSUME NEW i \in 1 .. Len(queue)
             PROVE  i \in Taken <=> queue[i].frame = queue[1].frame
  BY DEF AreOf
<1>1. CASE i = 1
  BY <1>1 DEF Taken
<1>2. CASE i # 1
  <2>1. i \in 2 .. Len(queue) /\ Len(queue) \in Nat
    BY <1>2 DEF TimesInv
  <2>2. i \in Taken <=> IsCopy(queue[i], queue[1])
    BY <1>2, <2>1 DEF Taken
  <2> QED BY <2>1, <2>2, CopiesAre
<1> QED BY <1>1, <1>2

\* The first places when all nodes of a frame, and only those, are taken out
LEMMA FirstOfWithout ==
  ASSUME NEW S, NEW q \in Seq(S), NEW gone, NEW h, AreOf(gone, q, h), NEW g
  PROVE  FirstOf(Without(q, gone), g) = IF g = h THEN Never ELSE FirstOf(q, g)
<1>1. Without(q, gone) \in Seq(S) /\ \E e : PlacesIn(e, Without(q, gone), q, gone, Len(q))
  BY PlacesAre
<1>8. PICK r \in Seq(S) : r = Without(q, gone) /\ \E e : PlacesIn(e, r, q, gone, Len(q))
  BY <1>1
<1>2. PICK e : r = Without(q, gone) /\ PlacesIn(e, r, q, gone, Len(q))
  BY <1>8
<1>3. \A j \in 1 .. Len(r) : e[j] \in 1 .. Len(q) /\ e[j] \notin gone /\ r[j] = q[e[j]]
  BY <1>2 DEF PlacesIn
<1>4. \A i, j \in 1 .. Len(r) : i < j => e[i] < e[j]
  BY <1>2 DEF PlacesIn
<1>5. \A i \in 1 .. Len(q) : i \notin gone => \E j \in 1 .. Len(r) : e[j] = i
  BY <1>2 DEF PlacesIn
<1>6. CASE g = h
  <2>1. \A j \in 1 .. Len(r) : r[j].frame # g
    BY <1>3, <1>6 DEF AreOf
  <2>2. FirstOf(r, g) = Never
    BY <2>1, FirstIs
  <2> QED BY <1>2, <1>6, <2>2
<1>7. CASE g # h
  <2>1. CASE \A i \in 1 .. Len(q) : q[i].frame # g
    <3>1. \A j \in 1 .. Len(r) : r[j].frame # g
      BY <1>3, <2>1
    <3>2. FirstOf(r, g) = Never /\ FirstOf(q, g) = Never
      BY <2>1, <3>1, FirstIs
    <3> QED BY <1>2, <1>7, <3>2
  <2>2. ASSUME NEW i, FirstPlace(i, q, g)
        PROVE  FirstOf(r, g) = FirstOf(q, g)
    <3>1. i \in 1 .. Len(q) /\ q[i].frame = g /\ \A k \in 1 .. Len(q) : q[k].frame = g => i <= k
      BY <2>2 DEF FirstPlace
    <3>2. PICK j \in 1 .. Len(r) : e[j] = i
      BY <1>5, <1>7, <3>1 DEF AreOf
    <3>3. \A k \in 1 .. Len(r) : r[k].frame = g => j <= k
      <4> SUFFICES ASSUME NEW k \in 1 .. Len(r), r[k].frame = g, k < j PROVE FALSE
        OBVIOUS
      <4>1. e[k] < i /\ e[k] \in 1 .. Len(q) /\ q[e[k]].frame = g
        BY <1>3, <1>4, <3>2
      <4> QED BY <3>1, <4>1
    <3>4. FirstPlace(j, r, g) /\ r[j] = q[i]
      BY <1>3, <3>1, <3>2, <3>3 DEF FirstPlace
    <3>5. FirstOf(r, g) = r[j].at /\ FirstOf(q, g) = q[i].at
      BY <2>2, <3>4, FirstIs
    <3> QED BY <3>4, <3>5
  <2> QED BY <1>2, <1>7, <2>1, <2>2, FirstIs
<1> QED BY <1>6, <1>7

\* What the refinement mapping gives Mailbox
LEMMA HeardMaps ==
  ASSUME TimesInv, NEW g
  PROVE  /\ (\A i \in 1 .. Len(queue) : queue[i].frame # g) => FirstHeard(g) = Never
         /\ \A i \in 1 .. Len(queue) : queue[i].frame = g => FirstHeard(g) # Never
         /\ FirstHeard(g) # Never => /\ FirstHeard(g) \in Nat /\ FirstHeard(g) <= now
                                    /\ \E i : FirstPlace(i, queue, g)
         /\ \A i \in 1 .. Len(queue) : queue[i].frame = g => queue[1].at <= FirstHeard(g)
<1>1. PICK N, q : N = Nodes /\ q = queue /\ q \in Seq(N)
  BY DEF TimesInv
<1>2. FirstHeard(g) = FirstOf(q, g)
  BY <1>1, HeardIs
<1>3. ASSUME NEW i, FirstPlace(i, q, g)
      PROVE  FirstOf(q, g) \in Nat /\ FirstOf(q, g) <= now /\ queue[1].at <= FirstOf(q, g)
  <2>1. FirstOf(q, g) = queue[i].at /\ i \in 1 .. Len(queue)
    BY <1>1, <1>3, FirstIs DEF FirstPlace
  <2>2. 1 \in 1 .. Len(queue) /\ Len(queue) \in Nat
    BY <2>1
  <2>3. queue[i].at \in Nat /\ queue[1].at \in Nat /\ queue[i].at <= now
    BY <2>1, <2>2, NodeIs DEF TimesInv, InTime
  <2>4. queue[1].at <= queue[i].at
    <3>1. CASE i = 1
      BY <2>3, <3>1
    <3>2. CASE i # 1
      BY <2>1, <2>2, <3>2 DEF TimesInv, InOrder
    <3> QED BY <3>1, <3>2
  <2> QED BY <2>1, <2>3, <2>4
<1>4. CASE \A i \in 1 .. Len(q) : q[i].frame # g
  <2>1. FirstOf(q, g) = Never
    BY <1>1, <1>4, FirstIs
  <2> QED BY <1>1, <1>2, <1>4, <2>1
<1>5. CASE \E i : FirstPlace(i, q, g)
  <2>1. Never \notin Nat
    BY MsgQueueAssumption
  <2>2. FirstOf(q, g) \in Nat /\ FirstOf(q, g) <= now /\ queue[1].at <= FirstOf(q, g)
    BY <1>3, <1>5
  <2>3. ~\A i \in 1 .. Len(q) : q[i].frame # g
    BY <1>5 DEF FirstPlace
  <2> QED BY <1>1, <1>2, <1>5, <2>1, <2>2, <2>3
<1> QED BY <1>1, <1>4, <1>5, FirstIs

\* While the list stays as it is so does Mailbox.
LEMMA ListStays ==
  ASSUME queue' = queue
  PROVE  [f \in Frames |-> FirstHeard(f)]' = [f \in Frames |-> FirstHeard(f)]
BY DEF FirstHeard

\* Adding a copy is hearing a frame, or a stutter.
LEMMA HearMaps ==
  ASSUME TimesInv, NEW f \in Frames, addMsgToMsgQueue(f)
  PROVE  [Box!Next]_([g \in Frames |-> FirstHeard(g)])
<1>1. CASE queue' = queue
  BY <1>1, ListStays
<1>2. CASE queue' # queue
  <2>1. PICK n : n = [frame |-> f, at |-> now]
    OBVIOUS
  <2>2. queue' = Append(queue, n)
    BY <1>2, <2>1 DEF addMsgToMsgQueue, listVars
  <2>3. f \in 1 .. Len(sent) /\ now \in Nat
    BY DEF addMsgToMsgQueue, Frames, TimesInv
  <2>4. n \in Nodes /\ n.frame = f /\ n.at = now
    BY <2>1, <2>3 DEF Nodes
  <2>5. PICK N, q, r : N = Nodes /\ q = queue /\ r = queue' /\ q \in Seq(N)
    BY DEF TimesInv
  <2>6. r = Append(q, n) /\ n \in N
    BY <2>2, <2>4, <2>5
  <2>7. \A g : FirstHeard(g) = FirstOf(q, g) /\ FirstHeard(g)' = FirstOf(r, g)
    BY <2>5 DEF FirstHeard, FirstOf
  <2>8. \A g : g # f => FirstHeard(g)' = FirstHeard(g)
    BY <2>4, <2>5, <2>6, <2>7, FirstOfAppend
  <2>9. CASE \E i : FirstPlace(i, q, f)
    <3>1. FirstHeard(f)' = FirstHeard(f)
      BY <2>5, <2>6, <2>7, <2>9, FirstOfAppend
    <3>2. \A g \in Frames : FirstHeard(g)' = FirstHeard(g)
      BY <2>8, <3>1
    <3> QED BY <3>2
  <2>10. CASE \A i \in 1 .. Len(q) : q[i].frame # f
    <3>1. FirstHeard(f)' = now /\ FirstHeard(f) = Never
      BY <2>4, <2>5, <2>6, <2>7, <2>10, FirstOfAppend, FirstIs
    <3>2. now # Never
      BY <2>3, MsgQueueAssumption
    <3>3. \A g \in Frames : FirstHeard(g) # Never => FirstHeard(g) <= now
      BY HeardMaps
    <3>4. PICK h, k : h = [g \in Frames |-> FirstHeard(g)] /\ k = [g \in Frames |-> FirstHeard(g)']
      OBVIOUS
    <3>5. k = [h EXCEPT ![f] = now]
      BY <2>8, <3>1, <3>4
    <3>6. h[f] = Never /\ k[f] = now /\ \A g \in Frames : h[g] # Never => h[g] <= now
      BY <3>1, <3>3, <3>4
    <3>7. /\ f \notin {g \in Frames : h[g] # Never}
          /\ \E t \in {k[f]} \ {Never} :
               /\ \A g \in {g \in Frames : h[g] # Never} : h[g] <= t
               /\ k = [h EXCEPT ![f] = t]
      BY <3>2, <3>5, <3>6
    <3>8. Box!Hear(f)
      BY <3>4, <3>7 DEF Box!Hear, Box!Waiting
    <3> QED BY <3>8 DEF Box!Next
  <2> QED BY <2>5, <2>9, <2>10, FirstIs
<1> QED BY <1>1, <1>2

\* checkMessages handles the frame that was heard first, with all its copies, and
\* no other.
LEMMA HandleMaps ==
  ASSUME TimesInv, TextsApart, checkMessages
  PROVE  Box!Next
<1>1. queue # <<>> /\ queue' = Without(queue, Taken)
  BY DEF checkMessages, Others
<1>2. PICK N, q, r, gone, f :
        N = Nodes /\ q = queue /\ r = queue' /\ gone = Taken /\ f = queue[1].frame /\ q \in Seq(N)
  BY DEF TimesInv
<1>3. 1 \in 1 .. Len(queue)
  BY <1>1 DEF TimesInv
<1>4. f \in Frames
  <2>1. f \in 1 .. Len(sent) /\ Len(sent) <= MaxFrames /\ Len(sent) \in Nat
    BY <1>2, <1>3, NodeIs DEF TimesInv
  <2> QED BY <2>1, MsgQueueAssumption DEF Frames
<1>5. AreOf(gone, q, f)
  BY <1>1, <1>2, TakenIs
<1>6. \A g : FirstHeard(g) = FirstOf(q, g) /\ FirstHeard(g)' = FirstOf(r, g)
  BY <1>2 DEF FirstHeard, FirstOf
<1>7. r = Without(q, gone)
  BY <1>1, <1>2
<1>8. \A g : FirstOf(r, g) = IF g = f THEN Never ELSE FirstOf(q, g)
  <2> SUFFICES ASSUME NEW g PROVE FirstOf(r, g) = IF g = f THEN Never ELSE FirstOf(q, g)
    OBVIOUS
  <2>1. q \in Seq(N)
    BY <1>2
  <2>2. FirstOf(Without(q, gone), g) = IF g = f THEN Never ELSE FirstOf(q, g)
    BY <1>5, <2>1, FirstOfWithout
  <2> QED BY <1>7, <2>2, Zenon
<1>9. FirstHeard(f) = queue[1].at
  <2>1. FirstPlace(1, q, f)
    BY <1>2, <1>3 DEF FirstPlace
  <2> QED BY <1>2, <1>6, <2>1, FirstIs
<1>10. FirstHeard(f) # Never
  BY <1>2, <1>3, HeardMaps
<1>11. ASSUME NEW g \in Frames, FirstHeard(g) # Never
       PROVE  FirstHeard(f) <= FirstHeard(g)
  <2>1. PICK i : FirstPlace(i, queue, g)
    BY <1>11, HeardMaps
  <2> QED BY <1>9, <2>1, HeardMaps DEF FirstPlace
<1>12. PICK h, k : h = [g \in Frames |-> FirstHeard(g)] /\ k = [g \in Frames |-> FirstHeard(g)']
  OBVIOUS
<1>13. k = [h EXCEPT ![f] = Never]
  BY <1>6, <1>8, <1>12
<1>14. h[f] # Never /\ \A g \in Frames : h[g] # Never => h[f] <= h[g]
  BY <1>4, <1>10, <1>11, <1>12
<1>15. Box!Handle(f)
  BY <1>4, <1>12, <1>13, <1>14 DEF Box!Handle, Box!Waiting
<1> QED BY <1>4, <1>15 DEF Box!Next

\* Every step is one of Mailbox or a stutter.
LEMMA BoxStep ==
  ASSUME TimesInv, TextsApart, [QueueNext]_queueVars
  PROVE  [Box!Next]_([f \in Frames |-> FirstHeard(f)])
<1>1. CASE queue' = queue
  BY <1>1, ListStays
<1>2. ASSUME NEW f \in Frames, addMsgToMsgQueue(f)
      PROVE  [Box!Next]_([g \in Frames |-> FirstHeard(g)])
  BY <1>2, HearMaps
<1>3. CASE checkMessages
  BY <1>3, HandleMaps
<1> QED BY <1>1, <1>2, <1>3 DEF QueueNext, Send, Tick, queueVars, listVars

\* Nothing was heard at first.
LEMMA BoxBegins == QueueInit => Box!Init
<1> SUFFICES ASSUME QueueInit PROVE Box!Init
  OBVIOUS
<1>1. Len(queue) = 0
  BY DEF QueueInit
<1>2. \A f \in Frames : FirstHeard(f) = Never
  BY <1>1 DEF FirstHeard
<1>3. [f \in Frames |-> FirstHeard(f)] = [f \in Frames |-> Never]
  BY <1>2
<1> QED BY <1>3 DEF Box!Init

\* The list implements Mailbox, when TextsApart: the copies of a frame that wait
\* together are handled once, frames with the same text are each handled, and in
\* the order in which they were heard.
THEOREM QueueImplementsMailbox == TextsApart => (QueueSpec => ImplementsMailbox)
<1> SUFFICES ASSUME TextsApart PROVE QueueSpec => ImplementsMailbox
  OBVIOUS
<1>1. TimesInv /\ [QueueNext]_queueVars => TimesInv'
  BY TimesStep
<1>2. TimesInv /\ [QueueNext]_queueVars => [Box!Next]_([f \in Frames |-> FirstHeard(f)])
  BY BoxStep
<1> QED BY <1>1, <1>2, TimesBegin, BoxBegins, PTL DEF QueueSpec, ImplementsMailbox, Box!Spec
=============================================================================
