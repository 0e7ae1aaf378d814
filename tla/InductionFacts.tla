--------------------------- MODULE InductionFacts ---------------------------
(* Induction as facts about sets of numbers, for proofs about functions    *)
(* that are defined step by step, such as the lists the modules collect;   *)
(* and sequences place by place.  Nothing here is about the program.       *)
EXTENDS Integers, SequencesExt, WellFoundedInduction, TLAPS

Below == {p \in Nat \X Nat : p[1] < p[2]}
LEMMA BelowWellFounded == IsWellFoundedOn(Below, Nat)
BY NatLessThanWellFounded, Zenon DEF Below, OpToRel

LEMMA LeastNumber ==
  ASSUME NEW S \in SUBSET Nat, S # {}
  PROVE  \E x \in S : \A y \in S : x <= y
<1>1. PICK x \in S : \A y \in S : ~(<<y, x>> \in Below)
  BY BelowWellFounded, WFMin
<1>2. ASSUME NEW y \in S PROVE x <= y
  <2>1. x \in Nat /\ y \in Nat
    OBVIOUS
  <2>2. ~(<<y, x>> \in Below)
    BY <1>1
  <2>3. ~(y < x)
    BY <2>1, <2>2 DEF Below
  <2> QED BY <2>1, <2>3
<1> QED BY <1>2

(* Induction, as a fact about sets of numbers.                             *)
LEMMA AllNumbers ==
  ASSUME NEW S, 0 \in S, \A n \in Nat : n \in S => n + 1 \in S
  PROVE  Nat \subseteq S
<1> SUFFICES ASSUME Nat \ S # {} PROVE FALSE
  OBVIOUS
<1>1. PICK x \in Nat \ S : \A y \in Nat \ S : x <= y
  BY LeastNumber
<1>2. x # 0 /\ x - 1 \in Nat /\ (x - 1) + 1 = x /\ ~(x <= x - 1)
  BY <1>1
<1>3. x - 1 \in S
  BY <1>1, <1>2
<1> QED BY <1>1, <1>2, <1>3

(* A function defined step by step exists.                                 *)
Stays(V, N, s) == \A v \in V, i \in 1..N : s[<<v, i>>] \in V
LEMMA Iterates ==
  ASSUME NEW V, NEW b \in V, NEW N \in Nat, NEW s, Stays(V, N, s)
  PROVE  \E f \in [0..N -> V] : f[0] = b /\ \A i \in 1..N : f[i] = s[<<f[i - 1], i>>]
<1> DEFINE Upto(n, f) == f[0] = b /\ \A i \in 1..n : f[i] = s[<<f[i - 1], i>>]
           S == {n \in Nat : n <= N => \E f \in [0..n -> V] : Upto(n, f)}
<1>1. 0 \in S
  <2> DEFINE f == [i \in 0..0 |-> b]
  <2>1. f \in [0..0 -> V] /\ f[0] = b
    OBVIOUS
  <2>2. \A i \in 1..0 : FALSE
    OBVIOUS
  <2> HIDE DEF f
  <2> QED BY <2>1, <2>2
<1>2. ASSUME NEW n \in Nat, n \in S
      PROVE  n + 1 \in S
  <2> SUFFICES ASSUME n + 1 <= N PROVE \E f \in [0..(n + 1) -> V] : Upto(n + 1, f)
    OBVIOUS
  <2>1. PICK g \in [0..n -> V] : Upto(n, g)
    BY <1>2
  <2> DEFINE f == [i \in 0..(n + 1) |-> IF i = n + 1 THEN s[<<g[n], n + 1>>] ELSE g[i]]
  <2>2. f \in [0..(n + 1) -> V] /\ f[0] = g[0] /\ f[n + 1] = s[<<g[n], n + 1>>]
    <3>1. g[n] \in V /\ n + 1 \in 1..N /\ s[<<g[n], n + 1>>] \in V
      BY DEF Stays
    <3> QED BY <3>1
  <2>3. \A i \in 0..n : f[i] = g[i]
    OBVIOUS
  <2> HIDE DEF f
  <2>4. ASSUME NEW i \in 1..(n + 1)
        PROVE  f[i] = s[<<f[i - 1], i>>]
    <3>1. CASE i = n + 1
      <4>1. i - 1 = n /\ n \in 0..n /\ f[n] = g[n]
        BY <2>3, <3>1
      <4> QED BY <2>2, <3>1, <4>1
    <3>2. CASE i # n + 1
      <4>1. i \in 1..n /\ i \in 0..n /\ i - 1 \in 0..n
        BY <3>2
      <4>2. f[i] = g[i] /\ f[i - 1] = g[i - 1] /\ g[i] = s[<<g[i - 1], i>>]
        BY <2>1, <2>3, <4>1
      <4> QED BY <4>2
    <3> QED BY <3>1, <3>2
  <2>5. Upto(n + 1, f)
    BY <2>1, <2>2, <2>4
  <2> QED BY <2>2, <2>5
<1> HIDE DEF S
<1>3. N \in S
  BY <1>1, <1>2, AllNumbers
<1> QED BY <1>3 DEF S

-----------------------------------------------------------------------------
LEMMA SameSequence ==
  ASSUME NEW S, NEW s \in Seq(S), NEW t \in Seq(S), Len(s) = Len(t),
         \A i \in 1..Len(s) : s[i] = t[i]
  PROVE  s = t
OBVIOUS

(* Two sequences, one after the other.                                     *)
Joined(c, s, t) ==
  /\ Len(c) = Len(s) + Len(t)
  /\ \A i \in 1..Len(s) : c[i] = s[i]
  /\ \A i \in 1..Len(t) : c[Len(s) + i] = t[i]

LEMMA JoinedIs ==
  ASSUME NEW S, NEW s \in Seq(S), NEW t \in Seq(S)
  PROVE  s \o t \in Seq(S) /\ Joined(s \o t, s, t)
BY DEF Joined

LEMMA PrefixIs ==
  ASSUME NEW S, NEW s \in Seq(S), NEW t \in Seq(S)
  PROVE  IsPrefix(s, t) <=> Len(s) <= Len(t) /\ \A i \in 1..Len(s) : s[i] = t[i]
<1> DEFINE m == Len(s)
           n == Len(t)
           u == SubSeq(s, 1, m)
           v == SubSeq(t, 1, m)
<1>1. m \in Nat /\ n \in Nat
  OBVIOUS
<1>2. Len(u) = m /\ u \in Seq(S) /\ \A i \in 1..m : u[i] = s[i]
  OBVIOUS
<1>3. m <= n => Len(v) = m /\ v \in Seq(S) /\ \A i \in 1..m : v[i] = t[i]
  OBVIOUS
<1>4. IsPrefix(s, t) <=> m <= n /\ u = v
  BY DEF IsPrefix
<1> HIDE DEF u, v
<1>5. ASSUME m <= n, \A i \in 1..m : s[i] = t[i]
      PROVE  u = v
  BY <1>2, <1>3, <1>5
<1>6. ASSUME m <= n, u = v
      PROVE  \A i \in 1..m : s[i] = t[i]
  BY <1>2, <1>3, <1>6
<1> QED BY <1>4, <1>5, <1>6

(* What the joined lists have when every list adds to it.                  *)
LEMMA FlattenedSteps ==
  ASSUME NEW T, NEW seqs \in Seq(Seq(T)), NEW R, <<0, <<>>>> \in R,
         \A i \in 1..Len(seqs), v \in Seq(T) : <<i - 1, v>> \in R => <<i, v \o seqs[i]>> \in R
  PROVE  FlattenSeq(seqs) \in Seq(T) /\ <<Len(seqs), FlattenSeq(seqs)>> \in R
<1> DEFINE N == Len(seqs)
           V == Seq(T)
           e == <<>>
           Is(f) == f = [i \in 1..N |-> IF i = 1 THEN seqs[i] ELSE f[i - 1] \o seqs[i]]
           flat == CHOOSE f : Is(f)
           s == [p \in V \X (1..N) |-> p[1] \o seqs[p[2]]]
<1>a. FlattenSeq(seqs) = IF N = 0 THEN seqs ELSE flat[N]
  BY DEF FlattenSeq
<1>1. N \in Nat /\ e \in V /\ \A i \in 1..N : seqs[i] \in V
  OBVIOUS
<1>2. CASE N = 0
  <2>1. seqs = <<>>
    BY <1>2
  <2> HIDE DEF flat
  <2>2. FlattenSeq(seqs) = seqs
    BY <1>a, <1>2
  <2> QED BY <1>1, <1>2, <2>1, <2>2
<1>3. CASE N # 0
  <2>1. FlattenSeq(seqs) = flat[N]
    BY <1>a, <1>3
  <2>2. \A v, w \in V : v \o w \in V /\ e \o w = w
    OBVIOUS
  <2>3. \A v \in V, i \in 1..N : s[<<v, i>>] = v \o seqs[i]
    OBVIOUS
  <2> HIDE DEF N, V, s, e
  <2>4. Stays(V, N, s)
    <3>1. \A v \in V, i \in 1..N : s[<<v, i>>] = v \o seqs[i] /\ v \o seqs[i] \in V
      BY <1>1, <2>2, <2>3
    <3> QED BY <3>1 DEF Stays
  <2>5. PICK f \in [0..N -> V] : f[0] = e /\ \A i \in 1..N : f[i] = s[<<f[i - 1], i>>]
    BY <1>1, <2>4, Iterates
  <2> DEFINE g == [i \in 1..N |-> f[i]]
  <2>6. Is(g)
    <3>1. ASSUME NEW i \in 1..N
          PROVE  g[i] = IF i = 1 THEN seqs[i] ELSE g[i - 1] \o seqs[i]
      <4>1. i \in Nat /\ i - 1 \in 0..N /\ f[i - 1] \in V /\ f[i] = f[i - 1] \o seqs[i]
        <5>1. i \in Nat /\ i - 1 \in 0..N
          BY <1>1
        <5>2. f[i - 1] \in V
          BY <2>5, <5>1
        <5> QED BY <2>3, <2>5, <5>1, <5>2
      <4>2. CASE i = 1
        <5>1. f[i - 1] = e
          BY <2>5, <4>2
        <5> QED BY <1>1, <2>2, <4>1, <4>2, <5>1
      <4>3. CASE i # 1
        <5>1. i - 1 \in 1..N
          BY <1>1, <4>1, <4>3
        <5> QED BY <4>1, <4>3, <5>1
      <4> QED BY <4>2, <4>3
    <3> QED BY <3>1
  <2> HIDE DEF g
  <2>7. Is(flat)
    BY <2>6
  <2> HIDE DEF flat
  <2>8. /\ DOMAIN flat = 1..N
        /\ \A i \in 1..N : flat[i] = IF i = 1 THEN seqs[i] ELSE flat[i - 1] \o seqs[i]
    BY <2>7
  <2> DEFINE S == {n \in Nat : n + 1 <= N => flat[n + 1] \in V /\ <<n + 1, flat[n + 1]>> \in R}
  <2>9. 0 \in S
    <3>1. 1 \in 1..N /\ 0 + 1 = 1 /\ 0 \in Nat
      BY <1>1, <1>3
    <3>2. flat[1] = seqs[1] /\ flat[1] \in V
      BY <1>1, <2>8, <3>1
    <3>3. <<1, e \o seqs[1]>> \in R /\ e \o seqs[1] = seqs[1]
      <4>1. <<1 - 1, e>> \in R /\ e \in V
        BY <1>1 DEF e
      <4>2. <<1, e \o seqs[1]>> \in R
        BY <3>1, <4>1 DEF N, V
      <4> QED BY <2>2, <3>2, <4>2
    <3> QED BY <3>1, <3>2, <3>3
  <2>10. ASSUME NEW n \in Nat, n \in S PROVE n + 1 \in S
    <3> DEFINE m == (n + 1) + 1
    <3> SUFFICES ASSUME m <= N PROVE flat[m] \in V /\ <<m, flat[m]>> \in R
      OBVIOUS
    <3>1. m \in 1..N /\ m # 1 /\ m - 1 = n + 1 /\ n + 1 <= N
      BY <1>1
    <3> HIDE DEF m
    <3>2. flat[m - 1] \in V /\ <<m - 1, flat[m - 1]>> \in R /\ flat[m] = flat[m - 1] \o seqs[m]
      BY <2>8, <2>10, <3>1
    <3>3. <<m, flat[m - 1] \o seqs[m]>> \in R
      BY <3>1, <3>2 DEF N, V
    <3> QED BY <1>1, <2>2, <3>1, <3>2, <3>3
  <2> HIDE DEF S
  <2>11. Nat \subseteq S
    BY <2>9, <2>10, AllNumbers
  <2>12. N - 1 \in Nat /\ (N - 1) + 1 = N
    BY <1>1, <1>3
  <2>13. flat[N] \in V /\ <<N, flat[N]>> \in R
    BY <2>11, <2>12 DEF S
  <2> QED BY <2>1, <2>13 DEF V, N
<1> QED BY <1>2, <1>3

LEMMA FlattenedIs ==
  ASSUME NEW T, NEW seqs \in Seq(Seq(T))
  PROVE  FlattenSeq(seqs) \in Seq(T)
<1> DEFINE R == Nat \X Seq(T)
<1>1. <<0, <<>>>> \in R
  <2>1. <<>> \in Seq(T) /\ 0 \in Nat
    OBVIOUS
  <2> QED BY <2>1
<1>2. \A i \in 1..Len(seqs), v \in Seq(T) : v \o seqs[i] \in Seq(T) /\ i \in Nat
  OBVIOUS
<1>3. \A i \in 1..Len(seqs), v \in Seq(T) : <<i - 1, v>> \in R => <<i, v \o seqs[i]>> \in R
  BY <1>2
<1> HIDE DEF R
<1> QED BY <1>1, <1>3, FlattenedSteps
=============================================================================
