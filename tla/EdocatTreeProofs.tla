------------------------- MODULE EdocatTreeProofs -------------------------
(***************************************************************************)
(* Theorems about walking a folder of the eDoCat driver, for trees of any  *)
(* names, sizes and depths and any number of calls.                        *)
(*                                                                         *)
(* Whatever others change meanwhile: TypeOK and OnlyTheTargetIsNamed.  The *)
(* strengthening, TreeInv, knows the tree (its paths, its nodes and that   *)
(* no id was given twice), what each task of the agenda is about (FitTasks:*)
(* the folders a delete looks at lie below its source, the nodes it will   *)
(* name were there), and that within holds whatever is at or below the     *)
(* source now.  Each change of the tree, by the driver or by others, is    *)
(* shown to leave a tree: a node stored, a branch cut, a branch moved or   *)
(* given another name.                                                     *)
(*                                                                         *)
(* As long as others change nothing: LeavesFirst and all of WalksAreExact. *)
(* The strengthening, AloneInv, says what the agenda still amounts to.  A  *)
(* count has left out exactly the branches it still lists (CountsAre).  A  *)
(* delete comes to every node that is left, deepest first, and drops only  *)
(* leaves (DeletePlan).  A copy makes every node of the source that has no *)
(* copy yet, and none twice (CopyPlan, Mirrored).  What is still to be     *)
(* done shrinks with every call, which bounds the calls and the nodes.     *)
(***************************************************************************)
EXTENDS EdocatTree, FiniteSetTheorems, InductionFacts

LEMMA PathsAre ==
  ASSUME TreeConstantsOK
  PROVE  \A p : p \in Paths <=> p \in Seq(Names) /\ Len(p) \in 1..MaxDepth
<1>1. ASSUME NEW p \in Paths PROVE p \in Seq(Names) /\ Len(p) \in 1..MaxDepth
  <2>1. PICK k \in 1..MaxDepth : p \in [1..k -> Names]
    BY DEF Paths
  <2>2. k \in Nat
    BY TreeConstantsOK DEF TreeConstantsOK
  <2>3. p \in Seq(Names) /\ Len(p) = k
    BY <2>1, <2>2
  <2> QED BY <2>3
<1>2. ASSUME NEW p \in Seq(Names), Len(p) \in 1..MaxDepth PROVE p \in Paths
  <2>1. p \in [1..Len(p) -> Names]
    OBVIOUS
  <2> QED BY <1>2, <2>1 DEF Paths
<1> QED BY <1>1, <1>2

(* The set of sequences that list a finite set.                            *)
LEMMA ListedIs ==
  ASSUME NEW S, IsFiniteSet(S), NEW o \in SetToSeqs(S)
  PROVE  o \in Seq(S) /\ DOMAIN o = 1..Len(o)
<1>1. Cardinality(S) \in Nat
  BY FS_CardinalityType
<1>2. o \in [1..Cardinality(S) -> S]
  BY DEF SetToSeqs
<1> QED BY <1>1, <1>2

LEMMA FrontIs ==
  ASSUME NEW S, NEW s \in Seq(S), Len(s) # 0
  PROVE  /\ Front(s) \in Seq(S) /\ Len(Front(s)) = Len(s) - 1 /\ Last(s) \in S
         /\ \A i \in 1..(Len(s) - 1) : Front(s)[i] = s[i]
<1> DEFINE n == Len(s) - 1
           f == SubSeq(s, 1, n)
<1>1. n \in Nat /\ n + 1 = Len(s) /\ s[Len(s)] \in S
  OBVIOUS
<1>2. f \in Seq(S) /\ Len(f) = n /\ \A i \in 1..n : f[i] = s[i]
  BY <1>1
<1>3. Front(s) = f /\ Last(s) = s[Len(s)]
  BY DEF Front, Last
<1> HIDE DEF f
<1> QED BY <1>1, <1>2, <1>3

(* A name below a folder, and the same folder with another name.           *)
LEMMA SiblingIs ==
  ASSUME NEW S, NEW s \in Seq(S), NEW x \in S
  PROVE  /\ s \o <<x>> \in Seq(S) /\ Len(s \o <<x>>) = Len(s) + 1
         /\ Front(s \o <<x>>) = s /\ \A i \in 1..Len(s) : (s \o <<x>>)[i] = s[i]
<1> DEFINE t == s \o <<x>>
           n == Len(s)
<1>1. /\ t \in Seq(S) /\ Len(t) = n + 1 /\ n \in Nat /\ t[n + 1] = x
      /\ \A i \in 1..n : t[i] = s[i]
  OBVIOUS
<1> HIDE DEF t
<1>2. /\ Front(t) \in Seq(S) /\ Len(Front(t)) = n
      /\ \A i \in 1..n : Front(t)[i] = t[i]
  BY <1>1, FrontIs
<1>3. Front(t) = s
  BY <1>1, <1>2
<1> QED BY <1>1, <1>3 DEF t

(* y is x with q in the place of p.                                        *)
Replaced(y, x, p, q) ==
  /\ Len(y) = Len(q) + (Len(x) - Len(p))
  /\ \A i \in 1..Len(q) : y[i] = q[i]
  /\ \A i \in 1..(Len(x) - Len(p)) : y[Len(q) + i] = x[Len(p) + i]

LEMMA ReplacedIs ==
  ASSUME NEW S, NEW x \in Seq(S), NEW p \in Seq(S), NEW q \in Seq(S), Len(p) <= Len(x)
  PROVE  LET y == q \o SubSeq(x, Len(p) + 1, Len(x)) IN y \in Seq(S) /\ Replaced(y, x, p, q)
<1> DEFINE m == Len(p)
           n == Len(x)
           rest == SubSeq(x, m + 1, n)
           y == q \o rest
<1>1. m \in Nat /\ n \in Nat /\ m <= n /\ Len(q) \in Nat
  OBVIOUS
<1>2. /\ rest \in Seq(S) /\ Len(rest) = n - m
      /\ \A i \in 1..(n - m) : rest[i] = x[m + i]
  BY <1>1
<1> HIDE DEF rest
<1>3. y \in Seq(S) /\ Joined(y, q, rest)
  BY <1>2, JoinedIs
<1> HIDE DEF y
<1>4. y \in Seq(S) /\ Replaced(y, x, p, q)
  BY <1>1, <1>2, <1>3 DEF Replaced, Joined
<1> QED BY <1>4 DEF rest, y

(* Put back, it is the path it was.                                        *)
LEMMA ReplacedBack ==
  ASSUME NEW S, NEW x \in Seq(S), NEW p \in Seq(S), NEW q \in Seq(S), NEW y \in Seq(S),
         NEW z \in Seq(S), IsPrefix(p, x), Replaced(y, x, p, q), Replaced(z, y, q, p)
  PROVE  z = x
<1> DEFINE m == Len(p)
           n == Len(x)
           k == Len(q)
<1>1. /\ m \in Nat /\ n \in Nat /\ k \in Nat
      /\ m <= n /\ \A i \in 1..m : p[i] = x[i]
  BY PrefixIs
<1>2. Len(y) - k = n - m /\ Len(z) = n
  BY <1>1 DEF Replaced
<1>3. /\ \A i \in 1..m : z[i] = p[i]
      /\ \A i \in 1..(n - m) : z[m + i] = y[k + i]
      /\ \A i \in 1..(n - m) : y[k + i] = x[m + i]
  BY <1>2 DEF Replaced
<1>4. ASSUME NEW i \in 1..n PROVE z[i] = x[i]
  <2>1. CASE i <= m
    BY <1>1, <1>3, <2>1
  <2>2. CASE ~(i <= m)
    <3>1. i - m \in 1..(n - m) /\ m + (i - m) = i
      BY <1>1, <2>2
    <3> QED BY <1>3, <3>1
  <2> QED BY <2>1, <2>2
<1> QED BY <1>2, <1>4, SameSequence

(* The path of a moved node's parent is the moved path of the parent.      *)
LEMMA ReplacedFront ==
  ASSUME NEW S, NEW x \in Seq(S), NEW p \in Seq(S), NEW q \in Seq(S), NEW y \in Seq(S),
         NEW z \in Seq(S), Len(p) < Len(x), Replaced(y, x, p, q), Replaced(z, Front(x), p, q)
  PROVE  Front(y) = z
<1> DEFINE m == Len(p)
           n == Len(x)
           k == Len(q)
           f == Front(x)
           g == Front(y)
<1>1. m \in Nat /\ n \in Nat /\ k \in Nat /\ m < n /\ n # 0
  OBVIOUS
<1>2. f \in Seq(S) /\ Len(f) = n - 1 /\ \A i \in 1..(n - 1) : f[i] = x[i]
  BY <1>1, FrontIs
<1>3. Len(y) = k + (n - m) /\ Len(y) # 0 /\ Len(y) - 1 = k + ((n - 1) - m)
  BY <1>1 DEF Replaced
<1>4. g \in Seq(S) /\ Len(g) = Len(y) - 1 /\ \A i \in 1..(Len(y) - 1) : g[i] = y[i]
  BY <1>3, FrontIs
<1> HIDE DEF f, g
<1>5. /\ Len(z) = k + ((n - 1) - m)
      /\ \A i \in 1..k : z[i] = q[i]
      /\ \A i \in 1..((n - 1) - m) : z[k + i] = f[m + i]
  BY <1>1, <1>2 DEF Replaced, f
<1>6. /\ \A i \in 1..k : y[i] = q[i]
      /\ \A i \in 1..(n - m) : y[k + i] = x[m + i]
  BY DEF Replaced
<1>7. ASSUME NEW i \in 1..(k + ((n - 1) - m)) PROVE g[i] = z[i]
  <2>1. i \in 1..(Len(y) - 1) /\ g[i] = y[i]
    BY <1>3, <1>4
  <2>2. CASE i <= k
    BY <1>5, <1>6, <2>1, <2>2
  <2>3. CASE ~(i <= k)
    <3> DEFINE j == i - k
    <3>1. /\ j \in 1..((n - 1) - m) /\ j \in 1..(n - m) /\ k + j = i
          /\ m + j \in 1..(n - 1)
      BY <1>1, <2>3
    <3>2. y[k + j] = x[m + j] /\ z[k + j] = f[m + j] /\ f[m + j] = x[m + j]
      BY <1>2, <1>5, <1>6, <3>1
    <3> QED BY <2>1, <3>1, <3>2
  <2> QED BY <2>2, <2>3
<1>8. g = z
  BY <1>3, <1>4, <1>5, <1>7
<1> QED BY <1>8 DEF g

LEMMA PrefixOrder ==
  ASSUME NEW S, NEW p \in Seq(S), NEW q \in Seq(S), NEW r \in Seq(S)
  PROVE  /\ IsPrefix(p, p)
         /\ IsPrefix(p, q) /\ IsPrefix(q, r) => IsPrefix(p, r)
         /\ IsPrefix(p, q) /\ Len(p) = Len(q) => p = q
<1>1. IsPrefix(p, p)
  BY PrefixIs
<1>2. ASSUME IsPrefix(p, q), IsPrefix(q, r) PROVE IsPrefix(p, r)
  <2>1. /\ Len(p) <= Len(q) /\ \A i \in 1..Len(p) : p[i] = q[i]
        /\ Len(q) <= Len(r) /\ \A i \in 1..Len(q) : q[i] = r[i]
    BY <1>2, PrefixIs
  <2>2. Len(p) <= Len(r) /\ \A i \in 1..Len(p) : p[i] = r[i]
    BY <2>1
  <2> QED BY <2>2, PrefixIs
<1>3. ASSUME IsPrefix(p, q), Len(p) = Len(q) PROVE p = q
  BY <1>3, PrefixIs, SameSequence
<1> QED BY <1>1, <1>2, <1>3

(* A path is below another when its parent is, or it is the other.         *)
LEMMA PrefixOfParent ==
  ASSUME NEW S, NEW p \in Seq(S), NEW x \in Seq(S), Len(x) # 0
  PROVE  /\ IsPrefix(p, Front(x)) => IsPrefix(p, x) /\ Len(p) < Len(x)
         /\ IsPrefix(p, x) /\ Len(p) # Len(x) => IsPrefix(p, Front(x)) /\ Len(p) < Len(x)
<1> DEFINE f == Front(x)
<1>1. f \in Seq(S) /\ Len(f) = Len(x) - 1 /\ \A i \in 1..(Len(x) - 1) : f[i] = x[i]
  BY FrontIs
<1> HIDE DEF f
<1>2. /\ IsPrefix(p, f) <=> Len(p) <= Len(f) /\ \A i \in 1..Len(p) : p[i] = f[i]
      /\ IsPrefix(p, x) <=> Len(p) <= Len(x) /\ \A i \in 1..Len(p) : p[i] = x[i]
  BY <1>1, PrefixIs
<1>3. ASSUME IsPrefix(p, f) PROVE IsPrefix(p, x) /\ Len(p) < Len(x)
  BY <1>1, <1>2, <1>3
<1>4. ASSUME IsPrefix(p, x), Len(p) # Len(x) PROVE IsPrefix(p, f) /\ Len(p) < Len(x)
  BY <1>1, <1>2, <1>4
<1> QED BY <1>3, <1>4 DEF f

LEMMA ReplacedBegins ==
  ASSUME NEW S, NEW x \in Seq(S), NEW p \in Seq(S), NEW q \in Seq(S), NEW y \in Seq(S),
         IsPrefix(p, x), Replaced(y, x, p, q)
  PROVE  /\ IsPrefix(q, y)
         /\ x = p => y = q
<1>1. Len(p) <= Len(x) /\ Len(q) <= Len(y)
  BY PrefixIs DEF Replaced
<1>2. IsPrefix(q, y)
  BY <1>1, PrefixIs DEF Replaced
<1>3. ASSUME x = p PROVE y = q
  <2>1. Len(y) = Len(q)
    BY <1>3 DEF Replaced
  <2> QED BY <2>1, SameSequence DEF Replaced
<1> QED BY <1>2, <1>3

-----------------------------------------------------------------------------
(* Trees.                                                                  *)

LEMMA NodesAre ==
  ASSUME TreeConstantsOK, NEW t, WellFormed(t), NEW x \in DOMAIN t
  PROVE  /\ x \in Seq(Names) /\ Len(x) \in 1..MaxDepth /\ Len(x) # 0 /\ x # <<>>
         /\ Front(x) \in Seq(Names) /\ Len(Front(x)) = Len(x) - 1
         /\ t[x] \in Node /\ t[x].id \in Ids /\ t[x].body \in Contents \cup {Folder}
         /\ IsFolder(t, Front(x))
<1>1. x \in Paths /\ t[x] \in Node /\ IsFolder(t, Front(x))
  BY DEF WellFormed
<1>2. x \in Seq(Names) /\ Len(x) \in 1..MaxDepth /\ Len(x) # 0
  BY <1>1, PathsAre DEF TreeConstantsOK
<1>3. Front(x) \in Seq(Names) /\ Len(Front(x)) = Len(x) - 1
  BY <1>2, FrontIs
<1> QED BY <1>1, <1>2, <1>3 DEF Node

(* What is above a path in use is in use.                                  *)
LEMMA AncestorsAreThere ==
  ASSUME TreeConstantsOK, NEW t, WellFormed(t), NEW q \in Seq(Names), Len(q) # 0,
         NEW y \in DOMAIN t, IsPrefix(q, y)
  PROVE  q \in DOMAIN t
<1> DEFINE S == {n \in Nat : \A x \in DOMAIN t :
                               Len(x) = Len(q) + n /\ IsPrefix(q, x) => q \in DOMAIN t}
<1>1. 0 \in S
  <2>1. ASSUME NEW x \in DOMAIN t, Len(x) = Len(q) + 0, IsPrefix(q, x) PROVE q = x
    BY <2>1, NodesAre, PrefixOrder
  <2> QED BY <2>1
<1>2. ASSUME NEW n \in Nat, n \in S PROVE n + 1 \in S
  <2>1. ASSUME NEW x \in DOMAIN t, Len(x) = Len(q) + (n + 1), IsPrefix(q, x)
        PROVE  q \in DOMAIN t
    <3> DEFINE f == Front(x)
    <3>1. /\ x \in Seq(Names) /\ Len(x) # 0 /\ f \in Seq(Names) /\ Len(f) = Len(x) - 1
          /\ IsFolder(t, f)
      BY NodesAre
    <3>2. Len(q) \in Nat /\ Len(q) # Len(x) /\ Len(f) = Len(q) + n /\ Len(f) # 0
      BY <2>1, <3>1
    <3>3. IsPrefix(q, f)
      BY <2>1, <3>1, <3>2, PrefixOfParent
    <3>4. f \in DOMAIN t
      BY <3>1, <3>2 DEF IsFolder
    <3> HIDE DEF f
    <3> QED BY <1>2, <3>2, <3>3, <3>4
  <2> QED BY <1>2, <2>1
<1> HIDE DEF S
<1>3. Nat \subseteq S
  BY <1>1, <1>2, AllNumbers
<1> DEFINE d == Len(y) - Len(q)
<1>4. y \in Seq(Names) /\ Len(q) <= Len(y)
  BY NodesAre, PrefixIs
<1>5. d \in Nat /\ Len(y) = Len(q) + d
  BY <1>4
<1> HIDE DEF d
<1> QED BY <1>3, <1>5 DEF S

(* Where the nodes at and below p are when they are moved to q.            *)
MovedTo(x, p, q) == q \o SubSeq(x, Len(p) + 1, Len(x))

LEMMA MovedToIs ==
  ASSUME NEW p \in Seq(Names), NEW q \in Seq(Names), NEW x \in Seq(Names), IsPrefix(p, x)
  PROVE  /\ MovedTo(x, p, q) \in Seq(Names) /\ Replaced(MovedTo(x, p, q), x, p, q)
         /\ IsPrefix(q, MovedTo(x, p, q))
         /\ MovedTo(MovedTo(x, p, q), q, p) = x
         /\ Len(MovedTo(x, p, q)) = Len(q) + (Len(x) - Len(p))
<1> DEFINE y == MovedTo(x, p, q)
           z == MovedTo(y, q, p)
<1>1. Len(p) <= Len(x)
  BY PrefixIs
<1>2. y \in Seq(Names) /\ Replaced(y, x, p, q)
  BY <1>1, ReplacedIs DEF MovedTo
<1> HIDE DEF y
<1>3. IsPrefix(q, y)
  BY <1>2, ReplacedBegins
<1>4. Len(q) <= Len(y)
  BY <1>2, <1>3, PrefixIs
<1>5. z \in Seq(Names) /\ Replaced(z, y, q, p)
  BY <1>2, <1>4, ReplacedIs DEF MovedTo
<1> HIDE DEF z
<1>6. z = x
  BY <1>2, <1>5, ReplacedBack
<1>7. Len(y) = Len(q) + (Len(x) - Len(p))
  BY <1>2 DEF Replaced
<1> QED BY <1>2, <1>3, <1>6, <1>7 DEF y, z

LEMMA RekeyedIs ==
  ASSUME TreeConstantsOK, NEW t, WellFormed(t), NEW p \in DOMAIN t, NEW q \in Seq(Names),
         Len(q) # 0, q \notin DOMAIN t \/ q = p
  PROVE  LET u == Rekeyed(t, p, q) IN
         /\ DOMAIN u = (DOMAIN t \ Branch(t, p)) \cup {MovedTo(x, p, q) : x \in Branch(t, p)}
         /\ \A x \in Branch(t, p) : u[MovedTo(x, p, q)] = t[x]
         /\ \A y \in DOMAIN t \ Branch(t, p) :
              u[y] = t[y] /\ \A x \in Branch(t, p) : MovedTo(x, p, q) # y
<1> DEFINE moved == Branch(t, p)
           D == (DOMAIN t \ moved) \cup {MovedTo(x, p, q) : x \in moved}
           u == Rekeyed(t, p, q)
<1>1. p \in Seq(Names) /\ \A x \in moved : x \in DOMAIN t /\ x \in Seq(Names) /\ IsPrefix(p, x)
  BY NodesAre DEF Branch
<1>2. u = [y \in D |-> IF \E x \in moved : MovedTo(x, p, q) = y
                       THEN t[MovedTo(y, q, p)] ELSE t[y]]
  BY DEF Rekeyed, MovedTo
<1>3. ASSUME NEW x \in moved PROVE u[MovedTo(x, p, q)] = t[x]
  <2>1. MovedTo(x, p, q) \in D
    OBVIOUS
  <2>2. MovedTo(MovedTo(x, p, q), q, p) = x
    BY <1>1, MovedToIs
  <2> HIDE DEF D, u, moved
  <2> QED BY <1>2, <2>1, <2>2
<1>4. ASSUME NEW y \in DOMAIN t \ moved, NEW x \in moved PROVE MovedTo(x, p, q) # y
  <2> SUFFICES ASSUME MovedTo(x, p, q) = y PROVE FALSE
    OBVIOUS
  <2>1. IsPrefix(q, y)
    BY <1>1, MovedToIs
  <2>2. q \in DOMAIN t
    BY <2>1, AncestorsAreThere
  <2>3. q = p
    BY <2>2
  <2> QED BY <2>1, <2>3 DEF Branch
<1>5. ASSUME NEW y \in DOMAIN t \ moved PROVE u[y] = t[y]
  <2>1. y \in D
    OBVIOUS
  <2> HIDE DEF D, u, moved
  <2> QED BY <1>2, <1>4, <2>1
<1>6. DOMAIN u = D
  <2> HIDE DEF D, u, moved
  <2> QED BY <1>2
<1> QED BY <1>3, <1>4, <1>5, <1>6

(* A moved branch makes a tree of the same nodes.                          *)
LEMMA RekeyedStays ==
  ASSUME TreeConstantsOK, NEW t, WellFormed(t), NEW p \in DOMAIN t, NEW q \in Seq(Names),
         Len(q) # 0, (q \notin DOMAIN t /\ ~IsPrefix(p, q)) \/ q = p, IsFolder(t, Front(q)),
         \A x \in Branch(t, p) : Len(x) - Len(p) + Len(q) <= MaxDepth
  PROVE  LET u == Rekeyed(t, p, q) IN
         WellFormed(u) /\ IdsOf(u, DOMAIN u) = IdsOf(t, DOMAIN t)
<1> DEFINE B == Branch(t, p)
           u == Rekeyed(t, p, q)
           to(x) == MovedTo(x, p, q)
<1>1. /\ DOMAIN u = (DOMAIN t \ B) \cup {to(x) : x \in B}
      /\ \A x \in B : u[to(x)] = t[x]
      /\ \A y \in DOMAIN t \ B : u[y] = t[y] /\ \A x \in B : to(x) # y
  <2>1. q \notin DOMAIN t \/ q = p
    OBVIOUS
  <2> QED BY <2>1, RekeyedIs, Zenon
<1>2. /\ p \in Seq(Names) /\ Len(p) \in Nat /\ Len(p) # 0
      /\ \A x \in B : x \in DOMAIN t /\ x \in Seq(Names) /\ IsPrefix(p, x)
      /\ p \in B
  BY NodesAre, PrefixOrder DEF Branch
<1>3. \A x \in B : /\ to(x) \in Seq(Names) /\ Replaced(to(x), x, p, q)
                   /\ IsPrefix(q, to(x)) /\ MovedTo(to(x), q, p) = x
                   /\ Len(to(x)) = Len(q) + (Len(x) - Len(p))
  BY <1>2, MovedToIs
<1>4. \A x \in DOMAIN t : x \notin B <=> ~IsPrefix(p, x)
  BY DEF Branch
<1>a. u = [y \in DOMAIN u |-> u[y]]
  BY DEF Rekeyed
<1> HIDE DEF B, u, to
<1>5. DOMAIN u \subseteq Paths
  <2>1. DOMAIN t \subseteq Paths
    BY DEF WellFormed
  <2>2. ASSUME NEW x \in B PROVE to(x) \in Paths
    <3>1. Len(p) <= Len(x) /\ Len(x) \in Nat /\ Len(q) \in Nat
      BY <1>2, PrefixIs
    <3>2. Len(to(x)) \in 1..MaxDepth
      BY <1>3, <3>1 DEF TreeConstantsOK, B
    <3> QED BY <1>3, <3>2, PathsAre
  <2> QED BY <1>1, <2>1, <2>2
<1>6. ASSUME NEW y \in DOMAIN t \ B PROVE u[y] \in Node /\ IsFolder(u, Front(y))
  <2>1. /\ y \in Seq(Names) /\ Len(y) # 0 /\ Front(y) \in Seq(Names) /\ t[y] \in Node
        /\ IsFolder(t, Front(y))
    BY NodesAre
  <2>2. CASE Front(y) = <<>>
    BY <1>1, <2>1, <2>2 DEF IsFolder
  <2>3. CASE Front(y) \in DOMAIN t /\ t[Front(y)].body = Folder
    <3>1. Front(y) \notin B
      BY <1>2, <1>4, <2>1, <2>3, PrefixOfParent
    <3> QED BY <1>1, <2>1, <2>3, <3>1 DEF IsFolder
  <2> QED BY <2>1, <2>2, <2>3 DEF IsFolder
<1>7. ASSUME NEW x \in B PROVE u[to(x)] \in Node /\ IsFolder(u, Front(to(x)))
  <2>1. /\ x \in DOMAIN t /\ x \in Seq(Names) /\ Len(x) # 0 /\ Front(x) \in Seq(Names)
        /\ Len(Front(x)) = Len(x) - 1 /\ t[x] \in Node /\ IsFolder(t, Front(x))
    BY <1>2, NodesAre
  <2>2. CASE Len(p) = Len(x)
    <3>1. x = p
      BY <1>2, <2>1, <2>2, PrefixOrder
    <3>2. to(x) = q
      BY <1>2, <1>3, <3>1, ReplacedBegins
    <3>3. ASSUME q # p, Front(q) # <<>> PROVE Front(q) \in DOMAIN t \ B
      <4>1. Front(q) \in DOMAIN t
        BY <3>3 DEF IsFolder
      <4>2. Front(q) \in Seq(Names)
        BY FrontIs
      <4>3. ~IsPrefix(p, Front(q))
        BY <1>2, <3>3, PrefixOfParent
      <4> QED BY <1>4, <4>1, <4>3
    <3>4. ASSUME q = p, Front(q) # <<>> PROVE Front(q) \in DOMAIN t \ B
      <4>1. Front(q) \in DOMAIN t
        BY <3>4 DEF IsFolder
      <4>2. ~IsPrefix(p, Front(q))
        BY <1>2, <3>4, PrefixOfParent
      <4> QED BY <1>4, <4>1, <4>2
    <3>5. IsFolder(u, Front(q))
      BY <1>1, <3>3, <3>4 DEF IsFolder
    <3> QED BY <1>1, <2>1, <3>2, <3>5
  <2>3. CASE Len(p) # Len(x)
    <3>1. IsPrefix(p, Front(x)) /\ Len(p) < Len(x)
      BY <1>2, <2>1, <2>3, PrefixOfParent
    <3>2. Front(x) \in DOMAIN t /\ t[Front(x)].body = Folder /\ Front(x) \in B
      <4>1. Front(x) # <<>>
        BY <1>2, <2>1, <3>1
      <4> QED BY <1>4, <2>1, <3>1, <4>1 DEF IsFolder
    <3>3. Front(to(x)) = to(Front(x))
      BY <1>2, <1>3, <2>1, <3>1, <3>2, ReplacedFront
    <3> QED BY <1>1, <2>1, <3>2, <3>3 DEF IsFolder
  <2> QED BY <2>2, <2>3
<1> DEFINE Is(y, x) == IF x \in B THEN y = to(x) ELSE y = x
<1>8. \A y \in DOMAIN u : \E x \in DOMAIN t : Is(y, x) /\ u[y] = t[x]
  BY <1>1, <1>2
<1>9. \A x \in DOMAIN t : \E y \in DOMAIN u : Is(y, x) /\ u[y] = t[x]
  BY <1>1, <1>2
<1>10. \A y, z \in DOMAIN u : u[y].id = u[z].id => y = z
  BY <1>8 DEF WellFormed
<1>11. IdsOf(u, DOMAIN u) = IdsOf(t, DOMAIN t)
  BY <1>8, <1>9 DEF IdsOf
<1>12. u \in [DOMAIN u -> Node]
  BY <1>1, <1>6, <1>7, <1>a
<1>13. WellFormed(u)
  BY <1>1, <1>5, <1>6, <1>7, <1>10, <1>12 DEF WellFormed
<1> QED BY <1>11, <1>13 DEF u

-----------------------------------------------------------------------------
(* The strengthening.                                                      *)

Numbered(t, n) == \A p \in DOMAIN t : t[p].id < n

Kinds(op) == CASE op = "copy"     -> {"count", "make", "fill", "read"}
               [] op = "delete"   -> {"count", "sweep", "visit", "last", "drop"}
               [] op = "rename"   -> {"rename"}
               [] op = "mkdir"    -> {"make"}
               [] op = "download" -> {"count", "zip", "content"}

(* A task of the operation: the folders and children a delete will look    *)
(* at are below its source, and a node that will be named was there.       *)
FitTasks(q, w) ==
  {t \in Task : /\ t.do \in Kinds(q.op)
                /\ t.do \in {"sweep", "visit", "last"} => t.at \in Paths /\ IsPrefix(q.src, t.at)
                /\ t.do \in {"drop", "rename"} => t.id \in w}

Stored == WellFormed(tree) /\ Numbered(tree, next) /\ next \in 1..MaxIds + 1

(* Counting is not all there is to do.                                     *)
EndsInPlan(s) == s # <<>> => s[Len(s)].do # "count"

(* A rename is one call, so that nothing follows the change it makes.      *)
Working ==
  /\ phase \in {"ready", "look", "count", "act", "done"}
  /\ query \in Queries
  /\ agenda \in Seq(FitTasks(query, within))
  /\ phase \in {"count", "act"} => agenda # <<>>
  /\ query.op = "rename" => Len(agenda) <= 1
  /\ EndsInPlan(agenda)
  /\ phase = "look" => query.op # "mkdir"
  /\ total \in Nat
  /\ visited \subseteq {p \in Paths : IsPrefix(query.src, p)}
  /\ result \in {"none", "ok", "failed"}

Recorded ==
  /\ edits \in 0..MaxEdits /\ calls \in Nat
  /\ within \subseteq Ids /\ mine \subseteq Ids /\ gone \subseteq Ids /\ got \subseteq Ids
  /\ named \subseteq within

(* What is at or below the source was noticed by within.                   *)
TargetIsKnown == phase # "done" /\ query.op \in {"delete", "rename"} =>
                   IdsOf(tree, Branch(tree, query.src)) \subseteq within

TreeInv == Stored /\ Working /\ Recorded /\ TargetIsKnown

LEMMA TreeInvIsEnough ==
  ASSUME TreeInv
  PROVE  TypeOK /\ OnlyTheTargetIsNamed
<1>1. \A k \in DOMAIN agenda : agenda[k] \in Task
  BY DEF TreeInv, Working, FitTasks
<1>2. UNION {within, mine, named, gone, got} \subseteq Ids
  BY DEF TreeInv, Recorded
<1> QED BY <1>1, <1>2 DEF TreeInv, Stored, Working, Recorded, TypeOK, OnlyTheTargetIsNamed

LEMMA TreesAreFinite ==
  ASSUME TreeConstantsOK, NEW t, WellFormed(t)
  PROVE  IsFiniteSet(DOMAIN t) /\ Cardinality(DOMAIN t) \in 0..MaxIds
<1> DEFINE f == [p \in DOMAIN t |-> t[p].id]
<1>1. f \in Injection(DOMAIN t, Ids)
  <2>1. \A p \in DOMAIN t : t[p].id \in Ids
    BY NodesAre
  <2>2. \A p, q \in DOMAIN t : t[p].id = t[q].id => p = q
    BY DEF WellFormed
  <2> QED BY <2>1, <2>2 DEF Injection, IsInjective
<1>2. IsFiniteSet(Ids) /\ Cardinality(Ids) = MaxIds
  <2>1. MaxIds \in Nat /\ 1 \in Int /\ MaxIds \in Int
    BY DEF TreeConstantsOK
  <2>2. IsFiniteSet(1..MaxIds) /\ Cardinality(1..MaxIds) = IF 1 > MaxIds THEN 0 ELSE MaxIds - 1 + 1
    BY <2>1, FS_Interval
  <2> QED BY <2>1, <2>2 DEF Ids
<1> HIDE DEF f
<1>3. IsFiniteSet(DOMAIN t) /\ Cardinality(DOMAIN t) <= MaxIds
  BY <1>1, <1>2, FS_Injection
<1>4. Cardinality(DOMAIN t) \in Nat
  BY <1>3, FS_CardinalityType
<1> QED BY <1>3, <1>4 DEF TreeConstantsOK

(* A tree without a branch.                                                *)
LEMMA CutStays ==
  ASSUME TreeConstantsOK, NEW t, WellFormed(t), NEW p \in DOMAIN t
  PROVE  LET u == Cut(t, Branch(t, p)) IN
         /\ WellFormed(u)
         /\ DOMAIN u \subseteq DOMAIN t /\ \A x \in DOMAIN u : u[x] = t[x]
<1> DEFINE B == Branch(t, p)
           u == Cut(t, B)
<1>1. /\ DOMAIN u = DOMAIN t \ B /\ \A x \in DOMAIN u : u[x] = t[x]
      /\ u = [x \in DOMAIN u |-> u[x]]
  BY DEF Cut
<1>2. p \in Seq(Names) /\ \A x \in DOMAIN t : x \notin B <=> ~IsPrefix(p, x)
  BY NodesAre DEF Branch
<1> HIDE DEF B, u
<1>3. ASSUME NEW x \in DOMAIN u PROVE u[x] \in Node /\ IsFolder(u, Front(x))
  <2>1. x \in DOMAIN t /\ x \in Seq(Names) /\ Len(x) # 0 /\ t[x] \in Node /\ IsFolder(t, Front(x))
    BY <1>1, NodesAre
  <2>2. CASE Front(x) = <<>>
    BY <1>1, <2>1, <2>2 DEF IsFolder
  <2>3. CASE Front(x) # <<>>
    <3>1. Front(x) \in DOMAIN t /\ t[Front(x)].body = Folder
      BY <2>1, <2>3 DEF IsFolder
    <3>2. Front(x) \notin B
      BY <1>1, <1>2, <2>1, <3>1, PrefixOfParent
    <3> QED BY <1>1, <2>1, <3>1, <3>2 DEF IsFolder
  <2> QED BY <2>2, <2>3
<1>4. u \in [DOMAIN u -> Node]
  BY <1>1, <1>3
<1>5. WellFormed(u)
  BY <1>1, <1>3, <1>4 DEF WellFormed
<1> QED BY <1>1, <1>5 DEF B, u

(* A new node is where it was to be made or, that name taken, beside it.   *)
StoredAt(y, p, body) ==
  /\ y \in Paths \ DOMAIN tree /\ y \in Seq(Names) /\ Len(y) = Len(p) /\ Front(y) = Front(p)
  /\ p \notin DOMAIN tree => y = p
  /\ DOMAIN tree' = DOMAIN tree \cup {y} /\ \A x \in DOMAIN tree : tree'[x] = tree[x]
  /\ tree'[y] = [id |-> next, body |-> body]
  /\ tree' = [x \in DOMAIN tree' |-> tree'[x]]

LEMMA StoreIs ==
  ASSUME TreeConstantsOK, NEW p, NEW body, Store(p, body)
  PROVE  p \in Seq(Names) /\ Len(p) # 0 /\ \E y : StoredAt(y, p, body)
<1>1. p \in Paths
  BY DEF Store
<1>2. PICK y \in Landing(p) :
        tree' = [x \in DOMAIN tree \cup {y} |->
                   IF x = y THEN [id |-> next, body |-> body] ELSE tree[x]]
  BY DEF Store
<1>3. p \in Seq(Names) /\ Len(p) \in 1..MaxDepth /\ Len(p) # 0
  BY <1>1, PathsAre DEF TreeConstantsOK
<1>4. Front(p) \in Seq(Names) /\ Len(Front(p)) = Len(p) - 1
  BY <1>3, FrontIs
<1>5. /\ y \in Paths \ DOMAIN tree /\ y \in Seq(Names) /\ Len(y) = Len(p) /\ Front(y) = Front(p)
      /\ p \notin DOMAIN tree => y = p
  <2>1. CASE p \notin DOMAIN tree
    BY <1>1, <1>2, <1>3, <2>1 DEF Landing
  <2>2. CASE p \in DOMAIN tree
    <3>1. PICK n \in Spare : y = Front(p) \o <<n>> /\ y \notin DOMAIN tree
      BY <1>2, <2>2 DEF Landing
    <3>2. n \in Names
      BY DEF TreeConstantsOK
    <3>3. y \in Seq(Names) /\ Len(y) = Len(p) /\ Front(y) = Front(p)
      BY <1>3, <1>4, <3>1, <3>2, SiblingIs
    <3> QED BY <1>3, <2>2, <3>1, <3>3, PathsAre DEF TreeConstantsOK
  <2> QED BY <2>1, <2>2
<1>6. /\ DOMAIN tree' = DOMAIN tree \cup {y} /\ tree'[y] = [id |-> next, body |-> body]
      /\ \A x \in DOMAIN tree : tree'[x] = tree[x]
      /\ tree' = [x \in DOMAIN tree' |-> tree'[x]]
  BY <1>2, <1>5
<1> QED BY <1>3, <1>5, <1>6 DEF StoredAt

(* A new node in a folder leaves a tree.                                   *)
LEMMA StoreStays ==
  ASSUME TreeConstantsOK, WellFormed(tree), Numbered(tree, next), next \in 1..MaxIds + 1,
         NEW p, NEW body \in Contents \cup {Folder}, Store(p, body)
  PROVE  WellFormed(tree') /\ Numbered(tree', next') /\ next \in Ids /\ next' \in 1..MaxIds + 1
<1>1. next \in Ids /\ IsFolder(tree, Front(p)) /\ next' = next + 1
  BY DEF Store
<1>2. PICK q : StoredAt(q, p, body)
  BY StoreIs
<1>3. /\ q \in Paths /\ q \notin DOMAIN tree /\ Front(q) = Front(p)
      /\ DOMAIN tree' = DOMAIN tree \cup {q} /\ tree'[q] = [id |-> next, body |-> body]
      /\ \A x \in DOMAIN tree : tree'[x] = tree[x] /\ x # q
      /\ tree' = [x \in DOMAIN tree' |-> tree'[x]]
  BY <1>2 DEF StoredAt
<1>4. next \in Nat /\ next + 1 \in 1..MaxIds + 1
  BY <1>1 DEF Ids, TreeConstantsOK
<1>5. tree'[q] \in Node
  BY <1>1, <1>3 DEF Node
<1>6. \A x : IsFolder(tree, x) => IsFolder(tree', x)
  BY <1>3 DEF IsFolder
<1>7. ASSUME NEW x \in DOMAIN tree PROVE tree[x].id \in Nat /\ tree[x].id < next
  BY NodesAre DEF Numbered, Ids
<1>8. \A x, y \in DOMAIN tree' : tree'[x].id = tree'[y].id => x = y
  BY <1>3, <1>4, <1>7 DEF WellFormed
<1>9. tree' \in [DOMAIN tree' -> Node]
  BY <1>3, <1>5 DEF WellFormed
<1>10. WellFormed(tree')
  BY <1>1, <1>3, <1>6, <1>8, <1>9 DEF WellFormed
<1>11. Numbered(tree', next + 1)
  BY <1>3, <1>4, <1>7 DEF Numbered
<1> QED BY <1>1, <1>4, <1>10, <1>11

(* A node named by its id.                                                 *)
LEMMA FoundById ==
  ASSUME NEW i, Known(i)
  PROVE  PathOfId(tree, i) \in DOMAIN tree /\ tree[PathOfId(tree, i)].id = i
BY DEF Known, PathOfId, IdsOf

-----------------------------------------------------------------------------
(* Tasks.                                                                  *)

LEMMA QueriesAre ==
  ASSUME TreeConstantsOK, NEW q \in Queries
  PROVE  /\ q.op \in Ops /\ q.src \in Paths /\ q.dst \in Paths
         /\ q.src \in Seq(Names) /\ q.dst \in Seq(Names) /\ Len(q.dst) # 0
<1>1. q.op \in Ops /\ q.src \in Paths /\ q.dst \in Paths
  BY DEF TreeConstantsOK, Query
<1> QED BY <1>1, PathsAre DEF TreeConstantsOK

LEMMA TasksAre ==
  ASSUME NEW t \in Task
  PROVE  /\ t.do \in {"count", "sweep", "visit", "last"} => t.at \in Seq(Names)
         /\ t.do \in {"fill", "read"} => t.at \in Seq(Names) /\ t.to \in Seq(Names)
         /\ t.do = "make" => t.at \in Seq(Names) /\ t.body \in Contents \cup {Folder}
         /\ t.do \in {"drop", "rename", "content", "zip"} => t.id \in Ids
BY DEF Task

LEMMA TasksFit ==
  ASSUME NEW q, NEW w
  PROVE  /\ \A p \in Seq(Names) :
              q.op \in {"copy", "delete", "download"} => Count(p) \in FitTasks(q, w)
         /\ \A p \in Seq(Names), body \in Contents \cup {Folder} :
              q.op \in {"copy", "mkdir"} => Make(p, body) \in FitTasks(q, w)
         /\ \A p, to \in Seq(Names) :
              q.op = "copy" => /\ Fill(p, to) \in FitTasks(q, w)
                               /\ [do |-> "read", at |-> p, to |-> to] \in FitTasks(q, w)
         /\ \A p \in Paths \cap Seq(Names) :
              q.op = "delete" /\ IsPrefix(q.src, p) =>
                /\ Sweep(p) \in FitTasks(q, w) /\ Visit(p) \in FitTasks(q, w)
                /\ [do |-> "last", at |-> p] \in FitTasks(q, w)
         /\ \A i \in Ids \cap w :
              /\ q.op = "delete" => Drop(i) \in FitTasks(q, w)
              /\ q.op = "rename" => [do |-> "rename", id |-> i] \in FitTasks(q, w)
         /\ \A i \in Ids :
              q.op = "download" => /\ [do |-> "zip", id |-> i] \in FitTasks(q, w)
                                   /\ [do |-> "content", id |-> i] \in FitTasks(q, w)
<1> USE DEF FitTasks, Kinds, Task
<1>1. \A p \in Seq(Names) :
        q.op \in {"copy", "delete", "download"} => Count(p) \in FitTasks(q, w)
  BY DEF Count
<1>2. \A p \in Seq(Names), body \in Contents \cup {Folder} :
        q.op \in {"copy", "mkdir"} => Make(p, body) \in FitTasks(q, w)
  BY DEF Make
<1>3. \A p, to \in Seq(Names) :
        q.op = "copy" => /\ Fill(p, to) \in FitTasks(q, w)
                         /\ [do |-> "read", at |-> p, to |-> to] \in FitTasks(q, w)
  BY DEF Fill
<1>4. \A p \in Paths \cap Seq(Names) :
        q.op = "delete" /\ IsPrefix(q.src, p) =>
          /\ Sweep(p) \in FitTasks(q, w) /\ Visit(p) \in FitTasks(q, w)
          /\ [do |-> "last", at |-> p] \in FitTasks(q, w)
  BY DEF Sweep, Visit
<1>5. \A i \in Ids \cap w :
        /\ q.op = "delete" => Drop(i) \in FitTasks(q, w)
        /\ q.op = "rename" => [do |-> "rename", id |-> i] \in FitTasks(q, w)
  BY DEF Drop
<1>6. \A i \in Ids :
        q.op = "download" => /\ [do |-> "zip", id |-> i] \in FitTasks(q, w)
                             /\ [do |-> "content", id |-> i] \in FitTasks(q, w)
  OBVIOUS
<1> QED BY <1>1, <1>2, <1>3, <1>4, <1>5, <1>6

(* The task that is due, and the operations it may be part of.             *)
LEMMA DueIs ==
  ASSUME TreeConstantsOK, Working, NEW kind, Due(kind)
  PROVE  LET task == Head(agenda) IN
         /\ phase \in {"count", "act"} /\ agenda # <<>>
         /\ task \in FitTasks(query, within) /\ task \in Task /\ task.do = kind
         /\ kind \in Kinds(query.op) /\ query.op \in Ops
         /\ Tail(agenda) \in Seq(FitTasks(query, within)) /\ Len(Tail(agenda)) = Len(agenda) - 1
<1> DEFINE F == FitTasks(query, within)
<1>1. agenda \in Seq(F) /\ agenda # <<>> /\ Head(agenda).do = kind /\ phase \in {"count", "act"}
  BY DEF Working, Due
<1>2. Head(agenda) \in F /\ Tail(agenda) \in Seq(F) /\ Len(Tail(agenda)) = Len(agenda) - 1
  <2> HIDE DEF F
  <2> QED BY <1>1
<1>3. Head(agenda) \in Task /\ kind \in Kinds(query.op)
  BY <1>1, <1>2 DEF FitTasks
<1>4. query.op \in Ops
  BY QueriesAre DEF Working
<1> QED BY <1>1, <1>2, <1>3, <1>4

-----------------------------------------------------------------------------
(* The ways a step ends.                                                   *)

LEMMA JoinedTasks ==
  ASSUME NEW F, NEW s \in Seq(F), NEW t \in Seq(F), t # <<>>, EndsInPlan(t)
  PROVE  s \o t \in Seq(F) /\ s \o t # <<>> /\ EndsInPlan(s \o t)
<1> DEFINE u == s \o t
<1>1. u \in Seq(F) /\ Joined(u, s, t) /\ Len(s) \in Nat /\ Len(t) \in Nat \ {0}
  BY JoinedIs
<1> HIDE DEF u
<1>2. Len(u) = Len(s) + Len(t) /\ u # <<>>
  BY <1>1 DEF Joined
<1>3. Len(t) \in 1..Len(t)
  BY <1>1
<1>4. u[Len(s) + Len(t)] = t[Len(t)]
  BY <1>1, <1>3 DEF Joined
<1>5. u[Len(u)].do # "count"
  BY <1>2, <1>4 DEF EndsInPlan
<1> QED BY <1>1, <1>2, <1>5 DEF EndsInPlan, u

LEMMA TailEnds ==
  ASSUME NEW F, NEW s \in Seq(F), s # <<>>, EndsInPlan(s)
  PROVE  /\ Tail(s) \in Seq(F) /\ EndsInPlan(Tail(s)) /\ Len(Tail(s)) = Len(s) - 1
         /\ Head(s) \in F
         /\ Head(s).do = "count" => Tail(s) # <<>>
<1> DEFINE t == Tail(s)
           n == Len(s)
<1>1. /\ t \in Seq(F) /\ Len(t) = n - 1 /\ n \in Nat \ {0} /\ Head(s) = s[1] /\ s[1] \in F
      /\ \A i \in 1..(n - 1) : t[i] = s[i + 1]
  OBVIOUS
<1> HIDE DEF t
<1>2. t # <<>> => t[Len(t)] = s[n]
  BY <1>1
<1>3. Head(s).do = "count" => n # 1
  BY <1>1 DEF EndsInPlan
<1>4. EndsInPlan(t)
  <2>1. s[n].do # "count"
    BY DEF EndsInPlan
  <2> QED BY <1>2, <2>1 DEF EndsInPlan
<1>5. Head(s).do = "count" => t # <<>>
  BY <1>1, <1>3
<1> QED BY <1>1, <1>4, <1>5 DEF t

LEMMA FinishStays ==
  ASSUME TreeConstantsOK, Working, NEW res \in {"ok", "failed"}, Finish(res)
  PROVE  Working'
BY DEF Working, Finish, EndsInPlan

LEMMA GoStays ==
  ASSUME TreeConstantsOK, Working, NEW tasks \in Seq(FitTasks(query, within)), Go(tasks),
         query.op = "rename" => Len(tasks) <= 1, EndsInPlan(tasks),
         within' = within, total' \in Nat,
         visited' \subseteq {p \in Paths : IsPrefix(query.src, p)}
  PROVE  Working'
BY DEF Working, Go

LEMMA GoOnStays ==
  ASSUME TreeConstantsOK, Working, NEW kind, Due(kind), GoOn, within' = within
  PROVE  Working'
<1>1. /\ Tail(agenda) \in Seq(FitTasks(query, within)) /\ Len(Tail(agenda)) = Len(agenda) - 1
      /\ agenda \in Seq(FitTasks(query, within)) /\ agenda # <<>>
  BY DueIs DEF Working
<1>2. query.op = "rename" => Len(Tail(agenda)) <= 1
  BY <1>1 DEF Working
<1>3. Go(Tail(agenda)) /\ UNCHANGED <<total, visited>>
  BY DEF GoOn
<1>4. /\ total' \in Nat /\ visited' \subseteq {p \in Paths : IsPrefix(query.src, p)}
  BY <1>3 DEF Working
<1>5. EndsInPlan(Tail(agenda))
  BY <1>1, TailEnds DEF Working
<1> QED BY <1>1, <1>2, <1>3, <1>4, <1>5, GoStays

(* These tasks are done first; a rename adds none.                         *)
Steps(q, w) == {t \in FitTasks(q, w) : t.do # "count"}

LEMMA AddStays ==
  ASSUME TreeConstantsOK, Working, NEW kind, Due(kind), kind # "rename",
         NEW first \in Seq(Steps(query, within)), Go(first \o Tail(agenda)),
         within' = within, total' \in Nat,
         visited' \subseteq {p \in Paths : IsPrefix(query.src, p)}
  PROVE  Working'
<1> DEFINE F == FitTasks(query, within)
           G == Steps(query, within)
           tasks == first \o Tail(agenda)
<1>1. /\ agenda \in Seq(F) /\ agenda # <<>> /\ EndsInPlan(agenda)
      /\ query.op # "rename"
  BY DueIs DEF Working, Kinds, Ops
<1>2. Tail(agenda) \in Seq(F) /\ EndsInPlan(Tail(agenda))
  BY <1>1, TailEnds
<1>3. tasks \in Seq(F) /\ EndsInPlan(tasks)
  <2>1. G \subseteq F /\ \A x \in G : x.do # "count"
    BY DEF Steps
  <2> HIDE DEF F, G
  <2>2. first \in Seq(G) /\ first \in Seq(F)
    BY <2>1 DEF G
  <2>3. CASE Tail(agenda) = <<>>
    <3>1. tasks = first
      <4>1. first \o <<>> = first
        BY <2>2
      <4> QED BY <2>3, <4>1
    <3>2. first # <<>> => first[Len(first)] \in G
      BY <2>2
    <3>3. EndsInPlan(first)
      BY <2>1, <3>2 DEF EndsInPlan
    <3> QED BY <2>2, <3>1, <3>3
  <2>4. CASE Tail(agenda) # <<>>
    BY <1>2, <2>2, <2>4, JoinedTasks
  <2> QED BY <2>3, <2>4
<1> HIDE DEF F, tasks
<1>4. Working'
  BY <1>1, <1>3, GoStays DEF F, tasks
<1> QED BY <1>4

(* A step that only reads.                                                 *)
LEMMA ReadingStays ==
  ASSUME TreeInv, phase # "done", query' = query, UNCHANGED <<upstream, history>>,
         calls' \in Nat, Working'
  PROVE  TreeInv'
BY DEF TreeInv, Stored, Recorded, TargetIsKnown, upstream, history, Numbered

-----------------------------------------------------------------------------
(* One lemma for each action.                                              *)

LEMMA InitInv ==
  ASSUME TreeConstantsOK, Init
  PROVE  TreeInv
<1>1. WellFormed(tree) /\ query \in Queries
  BY DEF Init, TreeConstantsOK
<1>2. next \in 1..MaxIds + 1
  <2>1. MaxIds \in Nat /\ Cardinality(DOMAIN tree) \in 0..MaxIds
    BY <1>1, TreesAreFinite DEF TreeConstantsOK
  <2> QED BY <2>1 DEF Init
<1>3. Stored
  BY <1>1, <1>2 DEF Stored, Init, Numbered
<1>4. Working
  <2>1. <<>> \in Seq(FitTasks(query, within)) /\ Len(<<>>) = 0 /\ EndsInPlan(<<>>)
    BY DEF EndsInPlan
  <2> QED BY <1>1, <2>1 DEF Working, Init
<1>5. within \subseteq Ids
  BY <1>1, NodesAre DEF Init, IdsOf, Branch
<1>6. Recorded
  BY <1>5 DEF Recorded, Init, TreeConstantsOK
<1>7. TargetIsKnown
  BY DEF TargetIsKnown, Init
<1> QED BY <1>3, <1>4, <1>6, <1>7 DEF TreeInv

LEMMA ReceiveInv ==
  ASSUME TreeConstantsOK, TreeInv, Receive, calls' \in Nat
  PROVE  TreeInv'
<1>1. /\ phase = "ready" /\ UNCHANGED <<upstream, query, total, visited, result, history>>
      /\ query' = query /\ within' = within /\ Working
  BY DEF Receive, TreeInv, history
<1>2. CASE query.op = "mkdir"
  <2> DEFINE task == Make(query.dst, Folder)
  <2>1. task \in FitTasks(query, within)
    BY <1>1, <1>2, TasksFit, QueriesAre DEF Working
  <2>2. agenda' = <<task>> /\ phase' = "act"
    BY <1>2 DEF Receive
  <2> HIDE DEF task
  <2>3. agenda' \in Seq(FitTasks(query, within)) /\ agenda' # <<>> /\ Len(agenda') = 1
    BY <2>1, <2>2
  <2>a. EndsInPlan(agenda')
    BY <2>2, <2>3 DEF EndsInPlan, task, Make
  <2>4. Working'
    BY <1>1, <2>a, <2>2, <2>3 DEF Working
  <2> QED BY <1>1, <2>4, ReadingStays
<1>3. CASE query.op # "mkdir"
  <2>1. agenda' = agenda /\ phase' = "look"
    BY <1>3 DEF Receive
  <2>2. Working'
    BY <1>1, <1>3, <2>1 DEF Working
  <2> QED BY <1>1, <2>2, ReadingStays
<1> QED BY <1>2, <1>3

(* What an operation will do with its source is what it may do.            *)
LEMMA PlanFits ==
  ASSUME TreeConstantsOK, TreeInv, phase # "done", query.src \in DOMAIN tree,
         query.op # "mkdir"
  PROVE  LET plan == Plan(query, tree[query.src]) IN
         /\ plan \in Seq(FitTasks(query, within)) /\ plan # <<>> /\ EndsInPlan(plan)
         /\ query.op = "rename" => Len(plan) <= 1
<1> DEFINE n == tree[query.src]
           F == FitTasks(query, within)
           plan == Plan(query, n)
           zip == [do |-> "zip", id |-> n.id]
           rename == [do |-> "rename", id |-> n.id]
           content == [do |-> "content", id |-> n.id]
<1>1. /\ query \in Queries /\ WellFormed(tree) /\ query.op \in Ops \ {"mkdir"}
      /\ query.src \in Paths \cap Seq(Names) /\ query.dst \in Seq(Names)
  BY QueriesAre DEF TreeInv, Working, Stored
<1>2. n.id \in Ids /\ n.body \in Contents \cup {Folder} /\ IsPrefix(query.src, query.src)
  BY <1>1, NodesAre, PrefixOrder
<1>3. query.op \in {"delete", "rename"} => n.id \in within
  BY <1>2 DEF TreeInv, TargetIsKnown, IdsOf, Branch
<1>4. /\ query.op = "copy" => /\ Make(query.dst, Folder) \in F /\ Fill(query.src, query.dst) \in F
                              /\ Make(query.dst, n.body) \in F
      /\ query.op = "delete" => Sweep(query.src) \in F /\ Drop(n.id) \in F
      /\ query.op = "rename" => rename \in F
      /\ query.op = "download" => zip \in F /\ content \in F
  BY <1>1, <1>2, <1>3, TasksFit
<1>5. \/ query.op = "copy" /\ plan = <<Make(query.dst, Folder), Fill(query.src, query.dst)>>
      \/ query.op = "copy" /\ plan = <<Make(query.dst, n.body)>>
      \/ query.op = "delete" /\ plan = <<Sweep(query.src)>>
      \/ query.op = "delete" /\ plan = <<Drop(n.id)>>
      \/ query.op = "rename" /\ plan = <<rename>>
      \/ query.op = "download" /\ (plan = <<zip>> \/ plan = <<content>>)
  BY <1>1 DEF Plan, Ops
<1> HIDE DEF F, plan, n, zip, rename, content
<1>6. /\ \A x \in F : <<x>> \in Seq(F) /\ <<x>> # <<>> /\ Len(<<x>>) <= 1
      /\ \A x, y \in F : <<x, y>> \in Seq(F) /\ <<x, y>> # <<>>
  OBVIOUS
<1>7. /\ plan \in Seq(F) /\ plan # <<>>
      /\ query.op = "rename" => Len(plan) <= 1
  BY <1>4, <1>5, <1>6
<1>8. \A x \in Seq(Names), y \in Contents \cup {Folder}, i \in Ids :
        Make(x, y).do # "count" /\ Sweep(x).do # "count" /\ Drop(i).do # "count"
  BY DEF Make, Sweep, Drop
<1>9. \A x, y \in Seq(Names) : Fill(x, y).do # "count"
  BY DEF Fill
<1>10. rename.do # "count" /\ zip.do # "count" /\ content.do # "count"
  BY DEF rename, zip, content
<1>11. /\ \A x : x.do # "count" => EndsInPlan(<<x>>)
       /\ \A x, y : y.do # "count" => EndsInPlan(<<x, y>>)
  BY DEF EndsInPlan
<1>12. /\ Make(query.dst, n.body).do # "count" /\ Sweep(query.src).do # "count"
       /\ Drop(n.id).do # "count" /\ Fill(query.src, query.dst).do # "count"
       /\ Make(query.dst, Folder).do # "count"
  BY <1>1, <1>2, <1>8, <1>9
<1>13. EndsInPlan(plan)
  BY <1>5, <1>10, <1>11, <1>12
<1> QED BY <1>7, <1>13 DEF F, plan, n

LEMMA LookInv ==
  ASSUME TreeConstantsOK, TreeInv, Look, calls' \in Nat
  PROVE  TreeInv'
<1>1. /\ phase = "look" /\ UNCHANGED <<upstream, history>> /\ within' = within
      /\ Working
  BY DEF Look, TreeInv, history
<1>2. CASE Finish("failed")
  <2>1. Working' /\ query' = query
    BY <1>1, <1>2, FinishStays DEF Finish
  <2> QED BY <1>1, <2>1, ReadingStays
<1>3. CASE ~Finish("failed")
  <2> DEFINE plan == Plan(query, tree[query.src])
             F == FitTasks(query, within)
  <2>1. /\ query.src \in DOMAIN tree /\ UNCHANGED <<query, total, visited, result>>
        /\ \/ /\ query.op # "rename" /\ phase' = "count"
              /\ agenda' = <<Count(query.src)>> \o plan
           \/ phase' = "act" /\ agenda' = plan
    BY <1>3 DEF Look
  <2>2. /\ plan \in Seq(F) /\ plan # <<>> /\ EndsInPlan(plan)
        /\ query.op = "rename" => Len(plan) <= 1
    BY <1>1, <2>1, PlanFits DEF Working
  <2>3. /\ query.op \in Ops /\ query.op # "mkdir" /\ query.src \in Seq(Names)
    BY <1>1, QueriesAre DEF Working
  <2> HIDE DEF plan
  <2>4. CASE phase' = "act" /\ agenda' = plan
    <3>1. query.op = "rename" => Len(plan) <= 1
      BY <2>2
    <3>2. Working'
      BY <1>1, <2>1, <2>2, <2>4, <3>1 DEF Working
    <3> QED BY <1>1, <2>1, <3>2, ReadingStays
  <2>5. CASE query.op # "rename" /\ phase' = "count" /\ agenda' = <<Count(query.src)>> \o plan
    <3> DEFINE task == Count(query.src)
    <3>1. task \in F
      <4>1. query.op \in {"copy", "delete", "download"}
        BY <2>3, <2>5 DEF Ops
      <4> QED BY <2>3, <4>1, TasksFit
    <3> HIDE DEF task, F
    <3>2. /\ <<task>> \o plan \in Seq(F) /\ <<task>> \o plan # <<>>
          /\ EndsInPlan(<<task>> \o plan)
      <4>1. <<task>> \in Seq(F)
        BY <3>1
      <4> QED BY <2>2, <4>1, JoinedTasks
    <3>3. agenda' \in Seq(F) /\ agenda' # <<>> /\ EndsInPlan(agenda')
      BY <2>5, <3>2 DEF task
    <3>4. Working'
      BY <1>1, <2>1, <2>5, <3>3 DEF Working, F
    <3> QED BY <1>1, <2>1, <3>4, ReadingStays
  <2> QED BY <2>1, <2>4, <2>5
<1> QED BY <1>2, <1>3

LEMMA ListingIs ==
  ASSUME TreeConstantsOK, WellFormed(tree), NEW p
  PROVE  /\ IsFiniteSet(Listing(p)) /\ Listing(p) \subseteq DOMAIN tree
         /\ \A q \in Listing(p) : IsPrefix(p, q)
<1>1. Listing(p) \subseteq DOMAIN tree /\ \A q \in Listing(p) : IsPrefix(p, q)
  BY DEF Listing, Kids, IsStrictPrefix
<1> QED BY <1>1, TreesAreFinite, FS_Subset

(* A task for each element of a list.                                      *)
LEMMA TasksFor ==
  ASSUME NEW F, NEW S, IsFiniteSet(S), NEW order \in SetToSeqs(S), NEW task,
         \A x \in S : task[x] \in F
  PROVE  [k \in DOMAIN order |-> task[order[k]]] \in Seq(F)
<1>1. order \in Seq(S) /\ DOMAIN order = 1..Len(order)
  BY ListedIs
<1>2. \A k \in 1..Len(order) : task[order[k]] \in F
  BY <1>1
<1> QED BY <1>1, <1>2

LEMMA CountFolderInv ==
  ASSUME TreeConstantsOK, TreeInv, CountFolder, calls' \in Nat
  PROVE  TreeInv'
<1>1. /\ Working /\ WellFormed(tree) /\ Due("count")
      /\ UNCHANGED <<upstream, history>> /\ within' = within
  BY DEF TreeInv, Stored, CountFolder, history
<1>2. /\ phase # "done" /\ Tail(agenda) \in Seq(FitTasks(query, within))
      /\ query.op \in {"copy", "delete", "download"}
  BY <1>1, DueIs DEF Kinds, Ops
<1>3. CASE Finish("failed")
  <2>1. Working' /\ query' = query
    BY <1>1, <1>3, FinishStays DEF Finish
  <2> QED BY <1>1, <1>2, <2>1, ReadingStays
<1>4. CASE ~Finish("failed")
  <2> DEFINE kids == Listing(Head(agenda).at)
             sum == total + 1 + Cardinality(kids \ Dirs(kids))
             F == FitTasks(query, within)
  <2>1. PICK order \in SetToSeqs(Counted(kids)) :
          LET left == [k \in DOMAIN order |-> Count(order[k])] \o Tail(agenda) IN
          /\ total' = sum
          /\ IF Head(left).do = "count"
             THEN phase' = "count" /\ agenda' = left /\ UNCHANGED result
             ELSE IF sum > MaxOf(query.op)
             THEN phase' = "done" /\ agenda' = <<>> /\ result' = "failed"
             ELSE phase' = "act" /\ agenda' = left /\ UNCHANGED result
          /\ UNCHANGED <<query, visited>>
    BY <1>4 DEF CountFolder
  <2> DEFINE task == [p \in Counted(kids) |-> Count(p)]
             first == [k \in DOMAIN order |-> Count(order[k])]
             left == first \o Tail(agenda)
  <2>2. /\ IsFiniteSet(Counted(kids)) /\ Counted(kids) \subseteq Seq(Names)
        /\ IsFiniteSet(kids \ Dirs(kids))
    <3>1. IsFiniteSet(kids) /\ kids \subseteq DOMAIN tree
      BY <1>1, ListingIs
    <3>2. kids \subseteq Seq(Names)
      BY <1>1, <3>1, NodesAre
    <3>3. Counted(kids) \subseteq kids
      BY DEF Counted, Dirs
    <3> QED BY <3>1, <3>2, <3>3, FS_Subset
  <2>3. sum \in Nat
    BY <1>1, <2>2, FS_CardinalityType DEF Working
  <2>4. left \in Seq(F) /\ left # <<>> /\ EndsInPlan(left)
    <3>1. \A p \in Counted(kids) : task[p] \in F
      BY <1>2, <2>2, TasksFit
    <3> HIDE DEF task, kids
    <3>2. [k \in DOMAIN order |-> task[order[k]]] \in Seq(F)
      BY <2>2, <3>1, TasksFor
    <3>3. first = [k \in DOMAIN order |-> task[order[k]]]
      <4>1. order \in Seq(Counted(kids)) /\ DOMAIN order = 1..Len(order)
        BY <2>2, ListedIs
      <4>2. \A k \in DOMAIN order : order[k] \in Counted(kids)
        BY <4>1
      <4> QED BY <4>2 DEF task
    <3>4. /\ agenda \in Seq(F) /\ agenda # <<>> /\ Head(agenda).do = "count"
          /\ EndsInPlan(agenda)
      BY <1>1, DueIs DEF Working
    <3> HIDE DEF first, F
    <3>5. Tail(agenda) \in Seq(F) /\ EndsInPlan(Tail(agenda)) /\ Tail(agenda) # <<>>
      BY <3>4, TailEnds
    <3> QED BY <3>2, <3>3, <3>5, JoinedTasks
  <2> HIDE DEF left, sum, F
  <2>5. /\ total' = sum /\ UNCHANGED <<query, visited>>
        /\ \/ phase' \in {"count", "act"} /\ agenda' = left /\ UNCHANGED result
           \/ phase' = "done" /\ agenda' = <<>> /\ result' = "failed"
    BY <2>1 DEF left, sum
  <2>6. <<>> \in Seq(FitTasks(query, within)) /\ EndsInPlan(<<>>)
    BY DEF EndsInPlan
  <2>7. /\ agenda' \in Seq(FitTasks(query', within')) /\ EndsInPlan(agenda')
        /\ phase' # "done" => agenda' # <<>>
        /\ phase' \in {"count", "act", "done"} /\ result' \in {"none", "ok", "failed"}
    BY <1>1, <2>4, <2>5, <2>6 DEF F, Working
  <2>8. Working' /\ query' = query
    BY <1>1, <1>2, <2>3, <2>5, <2>7 DEF Working
  <2> QED BY <1>1, <1>2, <2>8, ReadingStays
<1> QED BY <1>3, <1>4

(* What the actions that read and go on have in common.                    *)
LEMMA ReadsAndAdds ==
  ASSUME TreeConstantsOK, TreeInv, NEW kind, Due(kind), kind # "rename",
         UNCHANGED <<upstream, history>>, calls' \in Nat,
         \/ Finish("failed")
         \/ /\ \E first \in Seq(Steps(query, within)) : Go(first \o Tail(agenda))
            /\ total' = total /\ visited' \subseteq {p \in Paths : IsPrefix(query.src, p)}
  PROVE  TreeInv'
<1>1. Working /\ within' = within /\ phase # "done" /\ total \in Nat
  BY DueIs DEF TreeInv, Working, history
<1>2. CASE Finish("failed")
  <2>1. Working' /\ query' = query
    BY <1>1, <1>2, FinishStays DEF Finish
  <2> QED BY <1>1, <2>1, ReadingStays
<1>3. ASSUME NEW first \in Seq(Steps(query, within)), Go(first \o Tail(agenda)), total' = total,
             visited' \subseteq {p \in Paths : IsPrefix(query.src, p)}
      PROVE  TreeInv'
  <2>1. Working'
    BY <1>1, <1>3, AddStays
  <2>2. query' = query
    BY <1>3 DEF Go
  <2> QED BY <1>1, <2>1, <2>2, ReadingStays
<1> QED BY <1>2, <1>3

LEMMA StepsAre ==
  ASSUME NEW q, NEW w
  PROVE  /\ \A t \in FitTasks(q, w) : t.do # "count" => t \in Steps(q, w)
         /\ \A p, to, i, body : /\ Make(p, body).do # "count" /\ Fill(p, to).do # "count"
                                /\ Sweep(p).do # "count" /\ Visit(p).do # "count"
                                /\ Drop(i).do # "count"
                                /\ [do |-> "read", at |-> p, to |-> to].do # "count"
                                /\ [do |-> "last", at |-> p].do # "count"
BY DEF Steps, Make, Fill, Sweep, Visit, Drop

(* What a copy does for the children of a folder.                          *)
LEMMA FillTasks ==
  ASSUME TreeConstantsOK, WellFormed(tree), query.op = "copy", NEW to \in Seq(Names), NEW kids,
         IsFiniteSet(kids), kids \subseteq DOMAIN tree, NEW order \in SetToSeqs(kids)
  PROVE  [k \in DOMAIN order |-> CopyTasks(order[k], to)] \in Seq(Seq(Steps(query, within)))
<1> DEFINE G == Steps(query, within)
           lists == [p \in kids |-> CopyTasks(p, to)]
           seqs == [k \in DOMAIN order |-> CopyTasks(order[k], to)]
<1>1. \A p \in kids : p \in Seq(Names) /\ Len(p) # 0
  BY NodesAre
<1>2. ASSUME NEW p \in kids PROVE CopyTasks(p, to) \in Seq(G)
  <2> DEFINE q == to \o <<Last(p)>>
             read == [do |-> "read", at |-> p, to |-> q]
  <2>1. Last(p) \in Names
    BY <1>1, FrontIs
  <2>2. q \in Seq(Names) /\ p \in Seq(Names)
    BY <1>1, <2>1, SiblingIs
  <2>3. Make(q, Folder) \in G /\ Fill(p, q) \in G /\ read \in G
    BY <2>2, TasksFit, StepsAre
  <2>4. \/ CopyTasks(p, to) = <<Make(q, Folder), Fill(p, q)>>
        \/ CopyTasks(p, to) = <<read>>
    BY DEF CopyTasks
  <2> HIDE DEF G, read, q
  <2>5. \A x, y \in G : <<x>> \in Seq(G) /\ <<x, y>> \in Seq(G)
    OBVIOUS
  <2>6. <<Make(q, Folder), Fill(p, q)>> \in Seq(G) /\ <<read>> \in Seq(G)
    BY <2>3, <2>5, Zenon
  <2> QED BY <2>4, <2>6, Zenon
<1>3. \A p \in kids : lists[p] \in Seq(G)
  BY <1>2
<1> HIDE DEF lists, G
<1>4. [k \in DOMAIN order |-> lists[order[k]]] \in Seq(Seq(G))
  BY <1>3, TasksFor
<1>5. order \in Seq(kids) /\ DOMAIN order = 1..Len(order)
  BY ListedIs
<1>6. seqs = [k \in DOMAIN order |-> lists[order[k]]]
  <2>1. \A k \in DOMAIN order : order[k] \in kids
    BY <1>5
  <2> QED BY <2>1 DEF lists
<1> QED BY <1>4, <1>6 DEF G

LEMMA FillFolderInv ==
  ASSUME TreeConstantsOK, TreeInv, FillFolder, calls' \in Nat
  PROVE  TreeInv'
<1> DEFINE task == Head(agenda)
           G == Steps(query, within)
           kids == Listing(task.at)
<1>1. /\ Working /\ WellFormed(tree) /\ Due("fill")
      /\ UNCHANGED <<upstream, history>>
      /\ visited \subseteq {p \in Paths : IsPrefix(query.src, p)}
  BY DEF TreeInv, Stored, FillFolder, Working
<1>2. task \in Task /\ task.do = "fill" /\ query.op = "copy"
  BY <1>1, DueIs DEF Kinds, Ops
<1>3. task.to \in Seq(Names)
  BY <1>2, TasksAre
<1>4. /\ kids \subseteq DOMAIN tree /\ IsFiniteSet(kids)
      /\ \A p \in kids : p \in Seq(Names) /\ Len(p) # 0
  BY <1>1, ListingIs, NodesAre
<1>5. CASE Finish("failed")
  BY <1>1, <1>5, ReadsAndAdds
<1>6. CASE ~Finish("failed")
  <2>1. PICK order \in SetToSeqs(kids) :
          /\ Go(FlattenSeq([k \in DOMAIN order |-> CopyTasks(order[k], task.to)]) \o Tail(agenda))
          /\ UNCHANGED <<total, visited>>
    BY <1>6 DEF FillFolder
  <2> DEFINE seqs == [k \in DOMAIN order |-> CopyTasks(order[k], task.to)]
  <2>2. seqs \in Seq(Seq(G))
    BY <1>1, <1>2, <1>3, <1>4, FillTasks
  <2>3. FlattenSeq(seqs) \in Seq(G)
    <3> HIDE DEF seqs, G
    <3> QED BY <2>2, FlattenedIs
  <2> QED BY <1>1, <2>1, <2>3, ReadsAndAdds
<1> QED BY <1>5, <1>6

LEMMA ReadChildInv ==
  ASSUME TreeConstantsOK, TreeInv, ReadChild, calls' \in Nat
  PROVE  TreeInv'
<1> DEFINE task == Head(agenda)
           G == Steps(query, within)
           next1 == Make(task.to, tree[task.at].body)
<1>1. /\ Working /\ WellFormed(tree) /\ Due("read")
      /\ UNCHANGED <<upstream, history>>
      /\ visited \subseteq {p \in Paths : IsPrefix(query.src, p)}
  BY DEF TreeInv, Stored, ReadChild, Working
<1>2. task \in Task /\ task.do = "read" /\ query.op = "copy"
  BY <1>1, DueIs DEF Kinds, Ops
<1>3. task.to \in Seq(Names)
  BY <1>2, TasksAre
<1>4. CASE Finish("failed")
  BY <1>1, <1>4, ReadsAndAdds
<1>5. CASE ~Finish("failed")
  <2>1. task.at \in DOMAIN tree /\ Go(<<next1>> \o Tail(agenda)) /\ UNCHANGED <<total, visited>>
    BY <1>5 DEF ReadChild
  <2>2. tree[task.at].body \in Contents \cup {Folder}
    BY <1>1, <2>1, NodesAre
  <2>3. next1 \in G
    BY <1>2, <1>3, <2>2, TasksFit, StepsAre
  <2>4. <<next1>> \in Seq(G)
    BY <2>3
  <2> QED BY <1>1, <2>1, <2>4, ReadsAndAdds
<1> QED BY <1>4, <1>5

(* Every task of a delete is about what is or was below its source.        *)
LEMMA DeleteTasks ==
  ASSUME TreeConstantsOK, Working, NEW kind \in {"sweep", "visit", "last"}, Due(kind)
  PROVE  LET p == Head(agenda).at IN
         /\ query.op = "delete" /\ p \in Paths /\ p \in Seq(Names) /\ IsPrefix(query.src, p)
         /\ query.src \in Seq(Names) /\ phase # "done"
<1> DEFINE task == Head(agenda)
<1>1. /\ task \in FitTasks(query, within) /\ task.do = kind /\ query.op = "delete"
      /\ phase # "done"
  BY DueIs DEF Kinds, Ops
<1>2. task.at \in Paths /\ IsPrefix(query.src, task.at)
  BY <1>1 DEF FitTasks
<1> QED BY <1>1, <1>2, PathsAre, QueriesAre DEF Working

LEMMA SweepFolderInv ==
  ASSUME TreeConstantsOK, TreeInv, SweepFolder, calls' \in Nat
  PROVE  TreeInv'
<1> DEFINE p == Head(agenda).at
           G == Steps(query, within)
<1>1. /\ Working /\ WellFormed(tree) /\ Due("sweep")
      /\ UNCHANGED <<upstream, history>> /\ within' = within
      /\ visited \subseteq {q \in Paths : IsPrefix(query.src, q)}
  BY DEF TreeInv, Stored, SweepFolder, Working, history
<1>2. /\ query.op = "delete" /\ p \in Paths /\ p \in Seq(Names) /\ IsPrefix(query.src, p)
      /\ query.src \in Seq(Names) /\ phase # "done"
  BY <1>1, DeleteTasks
<1>3. CASE Finish("failed")
  BY <1>1, <1>3, ReadsAndAdds
<1>4. CASE p \in visited /\ GoOn
  <2>1. Working' /\ query' = query
    BY <1>1, <1>4, GoOnStays DEF GoOn, Go
  <2> QED BY <1>1, <1>2, <2>1, ReadingStays
<1>5. CASE ~Finish("failed") /\ ~(p \in visited /\ GoOn)
  <2>1. PICK found \in Swept(p) : \E order \in DeepestFirst(found) :
          visited' = visited \cup {p} /\ total' = total
          /\ Go(SweepTasks(order, p) \o Tail(agenda))
    BY <1>5 DEF SweepFolder
  <2>2. PICK order \in DeepestFirst(found) :
          visited' = visited \cup {p} /\ total' = total
          /\ Go(SweepTasks(order, p) \o Tail(agenda))
    BY <2>1
  <2> DEFINE visits == [k \in DOMAIN order |-> Visit(order[k])]
             last == [do |-> "last", at |-> p]
             visit == [q \in found |-> Visit(q)]
  <2>3. found \subseteq DOMAIN tree /\ \A q \in found : IsPrefix(p, q)
    <3>1. Listing(p) \subseteq DOMAIN tree /\ \A q \in Listing(p) : IsPrefix(p, q)
      BY <1>1, ListingIs
    <3>2. found = Listing(p) \/ found = Branch(tree, p) \ {p}
      BY DEF Swept
    <3> QED BY <3>1, <3>2 DEF Branch
  <2>4. IsFiniteSet(found) /\ order \in SetToSeqs(found)
    BY <1>1, <2>3, TreesAreFinite, FS_Subset DEF DeepestFirst
  <2>5. ASSUME NEW q \in found PROVE Visit(q) \in G
    <3>1. q \in DOMAIN tree /\ IsPrefix(p, q)
      BY <2>3
    <3>2. q \in Paths /\ q \in Seq(Names)
      BY <1>1, <3>1, NodesAre DEF WellFormed
    <3>3. IsPrefix(query.src, q)
      BY <1>2, <3>1, <3>2, PrefixOrder
    <3> QED BY <1>2, <3>2, <3>3, TasksFit, StepsAre
  <2>6. last \in G
    BY <1>2, TasksFit, StepsAre
  <2>7. visits \in Seq(G)
    <3>1. \A q \in found : visit[q] \in G
      BY <2>5
    <3> HIDE DEF visit, G
    <3>2. [k \in DOMAIN order |-> visit[order[k]]] \in Seq(G)
      BY <2>4, <3>1, TasksFor
    <3>3. \A k \in DOMAIN order : order[k] \in found
      <4>1. order \in Seq(found) /\ DOMAIN order = 1..Len(order)
        BY <2>4, ListedIs
      <4> QED BY <4>1
    <3>4. visits = [k \in DOMAIN order |-> visit[order[k]]]
      BY <3>3 DEF visit
    <3> QED BY <3>2, <3>4
  <2>8. SweepTasks(order, p) \in Seq(G)
    <3>1. SweepTasks(order, p) = visits \o <<last>>
      BY DEF SweepTasks
    <3> HIDE DEF visits, last, G
    <3>2. <<last>> \in Seq(G)
      BY <2>6
    <3>3. visits \o <<last>> \in Seq(G)
      BY <2>7, <3>2
    <3> QED BY <3>1, <3>3
  <2>9. visited' \subseteq {q \in Paths : IsPrefix(query.src, q)}
    BY <1>1, <1>2, <2>2
  <2> QED BY <1>1, <2>2, <2>8, <2>9, ReadsAndAdds
<1> QED BY <1>3, <1>4, <1>5

(* A node found at or below the source is one of those within knows.       *)
LEMMA FoundIsKnown ==
  ASSUME TreeConstantsOK, TreeInv, phase # "done", query.op = "delete",
         NEW p \in DOMAIN tree, IsPrefix(query.src, p)
  PROVE  Drop(tree[p].id) \in Steps(query, within)
<1>1. tree[p].id \in within
  BY DEF TreeInv, TargetIsKnown, IdsOf, Branch
<1>2. tree[p].id \in Ids
  BY NodesAre DEF TreeInv, Stored
<1> QED BY <1>1, <1>2, TasksFit, StepsAre

LEMMA VisitChildInv ==
  ASSUME TreeConstantsOK, TreeInv, VisitChild, calls' \in Nat
  PROVE  TreeInv'
<1> DEFINE p == Head(agenda).at
           G == Steps(query, within)
           tasks == IF p \in DOMAIN tree THEN Present(p) ELSE Absent(Head(agenda))
<1>1. /\ Working /\ Due("visit") /\ UNCHANGED <<upstream, history>>
      /\ visited \subseteq {q \in Paths : IsPrefix(query.src, q)}
  BY DEF TreeInv, VisitChild, Working
<1>2. /\ query.op = "delete" /\ p \in Paths /\ p \in Seq(Names) /\ IsPrefix(query.src, p)
      /\ query.src \in Seq(Names) /\ phase # "done"
  BY <1>1, DeleteTasks
<1>3. CASE Finish("failed")
  BY <1>1, <1>3, ReadsAndAdds
<1>4. CASE ~Finish("failed")
  <2>1. Go(tasks \o Tail(agenda)) /\ UNCHANGED <<total, visited>>
    BY <1>4 DEF VisitChild
  <2>2. tasks \in Seq(G)
    <3>1. CASE p \notin DOMAIN tree
      BY <3>1 DEF Absent
    <3>2. CASE p \in DOMAIN tree
      <4>1. Sweep(p) \in G /\ Drop(tree[p].id) \in G
        BY <1>2, <3>2, FoundIsKnown, TasksFit, StepsAre
      <4>2. tasks = <<Sweep(p)>> \/ tasks = <<Drop(tree[p].id)>>
        BY <3>2 DEF Present
      <4> HIDE DEF G, tasks
      <4>3. <<Sweep(p)>> \in Seq(G) /\ <<Drop(tree[p].id)>> \in Seq(G)
        BY <4>1
      <4> QED BY <4>2, <4>3
    <3> QED BY <3>1, <3>2
  <2> HIDE DEF tasks
  <2> QED BY <1>1, <2>1, <2>2, ReadsAndAdds
<1> QED BY <1>3, <1>4

LEMMA VisitLastInv ==
  ASSUME TreeConstantsOK, TreeInv, VisitLast, calls' \in Nat
  PROVE  TreeInv'
<1> DEFINE p == Head(agenda).at
           G == Steps(query, within)
           tasks == IF p \in DOMAIN tree THEN <<Drop(tree[p].id)>> ELSE <<>>
<1>1. /\ Working /\ Due("last") /\ UNCHANGED <<upstream, history>>
      /\ visited \subseteq {q \in Paths : IsPrefix(query.src, q)}
  BY DEF TreeInv, VisitLast, Working
<1>2. /\ query.op = "delete" /\ p \in Paths /\ p \in Seq(Names) /\ IsPrefix(query.src, p)
      /\ query.src \in Seq(Names) /\ phase # "done"
  BY <1>1, DeleteTasks
<1>3. CASE Finish("failed")
  BY <1>1, <1>3, ReadsAndAdds
<1>4. CASE ~Finish("failed")
  <2>1. Go(tasks \o Tail(agenda)) /\ UNCHANGED <<total, visited>>
    BY <1>4 DEF VisitLast
  <2>2. tasks \in Seq(G)
    <3>1. CASE p \notin DOMAIN tree
      BY <3>1
    <3>2. CASE p \in DOMAIN tree
      <4>1. Drop(tree[p].id) \in G
        BY <1>2, <3>2, FoundIsKnown
      <4> HIDE DEF G
      <4>2. <<Drop(tree[p].id)>> \in Seq(G)
        BY <4>1
      <4> QED BY <3>2, <4>2
    <3> QED BY <3>1, <3>2
  <2> HIDE DEF tasks
  <2> QED BY <1>1, <2>1, <2>2, ReadsAndAdds
<1> QED BY <1>3, <1>4

(* How a call that changes something ends: the answer came or was lost.    *)
LEMMA AnsweredStays ==
  ASSUME TreeConstantsOK, Working, NEW kind, Due(kind), GoOn \/ Finish("failed"),
         within' = within
  PROVE  Working' /\ query' = query
<1>1. CASE GoOn
  BY <1>1, GoOnStays DEF GoOn, Go
<1>2. CASE Finish("failed")
  BY <1>2, FinishStays DEF Finish
<1> QED BY <1>1, <1>2

LEMMA MakeNodeInv ==
  ASSUME TreeConstantsOK, TreeInv, MakeNode, calls' \in Nat
  PROVE  TreeInv'
<1> DEFINE task == Head(agenda)
<1>1. /\ Working /\ Stored /\ Recorded /\ Due("make")
      /\ UNCHANGED <<before, edits, within, named, gone, got>>
  BY DEF TreeInv, MakeNode
<1>2. task \in Task /\ task.do = "make" /\ query.op \in {"copy", "mkdir"}
  BY <1>1, DueIs DEF Kinds, Ops
<1>3. task.body \in Contents \cup {Folder}
  BY <1>2, TasksAre
<1>4. CASE Finish("failed") /\ UNCHANGED <<upstream, mine>>
  <2>1. Working' /\ query' = query
    BY <1>1, <1>4, AnsweredStays
  <2>2. Stored' /\ Recorded'
    BY <1>1, <1>4 DEF Stored, Numbered, Recorded, upstream
  <2> QED BY <1>2, <2>1, <2>2 DEF TreeInv, TargetIsKnown
<1>5. CASE /\ Store(task.at, task.body) /\ mine' = mine \cup {next}
           /\ GoOn \/ Finish("failed")
  <2>1. Working' /\ query' = query
    BY <1>1, <1>5, AnsweredStays
  <2>2. Stored' /\ next \in Ids
    BY <1>1, <1>3, <1>5, StoreStays DEF Stored
  <2>3. Recorded'
    BY <1>1, <1>5, <2>2 DEF Recorded
  <2> QED BY <1>2, <2>1, <2>2, <2>3 DEF TreeInv, TargetIsKnown
<1> QED BY <1>4, <1>5 DEF MakeNode

(* The node a task names was at or below the source.                       *)
LEMMA NamedIsKnown ==
  ASSUME TreeConstantsOK, Working, NEW kind \in {"drop", "rename"}, Due(kind)
  PROVE  Head(agenda).id \in within
<1>1. Head(agenda) \in FitTasks(query, within) /\ Head(agenda).do = kind
  BY DueIs
<1> QED BY <1>1 DEF FitTasks

LEMMA DropNodeInv ==
  ASSUME TreeConstantsOK, TreeInv, DropNode, calls' \in Nat
  PROVE  TreeInv'
<1> DEFINE i == Head(agenda).id
           S == Branch(tree, PathOfId(tree, i))
<1>1. /\ Working /\ Stored /\ Recorded /\ TargetIsKnown /\ Due("drop")
      /\ UNCHANGED <<next, before, edits, within, mine, got>>
      /\ named' = named \cup {i}
      /\ GoOn \/ Finish("failed")
  BY DEF TreeInv, DropNode
<1>2. /\ i \in within /\ phase # "done" /\ query.op = "delete"
  BY <1>1, NamedIsKnown, DueIs DEF Kinds, Ops
<1>3. Working' /\ query' = query
  BY <1>1, AnsweredStays
<1>4. CASE UNCHANGED <<tree, gone>>
  <2>1. Stored' /\ Recorded'
    BY <1>1, <1>2, <1>4 DEF Stored, Numbered, Recorded
  <2>2. TargetIsKnown'
    BY <1>1, <1>2, <1>3, <1>4 DEF TargetIsKnown
  <2> QED BY <1>3, <2>1, <2>2 DEF TreeInv
<1>5. CASE Known(i) /\ tree' = Cut(tree, S) /\ gone' = gone \cup IdsOf(tree, S)
  <2>1. PathOfId(tree, i) \in DOMAIN tree /\ WellFormed(tree)
    BY <1>1, <1>5, FoundById DEF Stored
  <2>2. /\ WellFormed(tree') /\ DOMAIN tree' \subseteq DOMAIN tree
        /\ \A x \in DOMAIN tree' : tree'[x] = tree[x]
    BY <1>5, <2>1, CutStays
  <2>3. Stored'
    BY <1>1, <2>2 DEF Stored, Numbered
  <2>4. IdsOf(tree, S) \subseteq Ids
    <3>1. S \subseteq DOMAIN tree
      BY DEF Branch
    <3> HIDE DEF S
    <3> QED BY <2>1, <3>1, NodesAre DEF IdsOf
  <2>5. Recorded'
    BY <1>1, <1>2, <1>5, <2>4 DEF Recorded
  <2>6. IdsOf(tree', Branch(tree', query.src)) \subseteq IdsOf(tree, Branch(tree, query.src))
    BY <2>2 DEF IdsOf, Branch
  <2>7. TargetIsKnown'
    BY <1>1, <1>2, <1>3, <2>6 DEF TargetIsKnown
  <2> QED BY <1>3, <2>3, <2>5, <2>7 DEF TreeInv
<1> QED BY <1>4, <1>5 DEF DropNode

LEMMA RenameNodeInv ==
  ASSUME TreeConstantsOK, TreeInv, RenameNode, calls' \in Nat
  PROVE  TreeInv'
<1> DEFINE i == Head(agenda).id
           p == PathOfId(tree, i)
           q == Front(p) \o <<Last(query.dst)>>
<1>1. /\ Working /\ Stored /\ Recorded /\ Due("rename")
      /\ UNCHANGED <<next, before, edits, within, mine, gone, got>>
      /\ named' = named \cup {i}
      /\ GoOn \/ Finish("failed")
  BY DEF TreeInv, RenameNode
<1>2. i \in within
  BY <1>1, NamedIsKnown
<1>3. Working' /\ query' = query
  BY <1>1, AnsweredStays
<1>4. Recorded'
  BY <1>1, <1>2 DEF Recorded
<1>5. phase' = "done"
  <2>1. query.op = "rename" /\ Len(Tail(agenda)) = Len(agenda) - 1
    BY <1>1, DueIs DEF Kinds, Ops
  <2>2. Tail(agenda) \in Seq(FitTasks(query, within))
    BY <1>1, DueIs
  <2>3. Tail(agenda) = <<>>
    BY <1>1, <2>1, <2>2 DEF Working
  <2> QED BY <1>1, <2>3 DEF GoOn, Go, Finish
<1>6. CASE UNCHANGED tree
  BY <1>1, <1>3, <1>4, <1>5, <1>6 DEF TreeInv, TargetIsKnown, Stored, Numbered
<1>7. CASE /\ Known(i)
           /\ q \notin DOMAIN tree \/ q = p
           /\ tree' = Rekeyed(tree, p, q)
  <2>1. p \in DOMAIN tree /\ WellFormed(tree)
    BY <1>1, <1>7, FoundById DEF Stored
  <2>2. /\ p \in Seq(Names) /\ Len(p) \in 1..MaxDepth /\ Len(p) # 0 /\ Front(p) \in Seq(Names)
        /\ Len(Front(p)) = Len(p) - 1 /\ IsFolder(tree, Front(p))
    BY <2>1, NodesAre
  <2>3. Last(query.dst) \in Names
    BY <1>1, QueriesAre, FrontIs DEF Working
  <2>4. q \in Seq(Names) /\ Len(q) = Len(p) /\ Len(q) # 0 /\ Front(q) = Front(p)
    BY <2>2, <2>3, SiblingIs
  <2> HIDE DEF p, q
  <2>5. q # p => ~IsPrefix(p, q)
    BY <2>2, <2>4, PrefixOrder
  <2>6. \A x \in Branch(tree, p) : Len(x) - Len(p) + Len(q) <= MaxDepth
    <3>1. ASSUME NEW x \in DOMAIN tree PROVE Len(x) \in 1..MaxDepth
      BY <2>1, NodesAre
    <3> QED BY <2>2, <2>4, <3>1 DEF Branch, TreeConstantsOK
  <2>7. WellFormed(tree') /\ IdsOf(tree', DOMAIN tree') = IdsOf(tree, DOMAIN tree)
    BY <1>7, <2>1, <2>2, <2>4, <2>5, <2>6, RekeyedStays
  <2>8. Numbered(tree', next)
    BY <1>1, <2>7 DEF Stored, Numbered, IdsOf
  <2>9. Stored'
    BY <1>1, <2>7, <2>8 DEF Stored
  <2> QED BY <1>3, <1>4, <1>5, <2>9 DEF TreeInv, TargetIsKnown
<1> QED BY <1>1, <1>6, <1>7 DEF RenameNode

LEMMA ReadContentInv ==
  ASSUME TreeConstantsOK, TreeInv, ReadContent, calls' \in Nat
  PROVE  TreeInv'
<1> DEFINE task == Head(agenda)
<1>1. /\ Working /\ Stored /\ Recorded /\ Due("content")
      /\ UNCHANGED <<upstream, before, edits, within, mine, named, gone>>
      /\ GoOn \/ Finish("failed")
      /\ got' = got \/ got' = {task.id}
  BY DEF TreeInv, ReadContent
<1>2. task \in Task /\ task.do = "content" /\ query.op = "download"
  BY <1>1, DueIs DEF Kinds, Ops
<1>3. task.id \in Ids
  BY <1>2, TasksAre
<1>4. Working' /\ query' = query
  BY <1>1, AnsweredStays
<1>5. Recorded' /\ Stored'
  BY <1>1, <1>3 DEF Recorded, Stored, Numbered, upstream
<1> QED BY <1>2, <1>4, <1>5 DEF TreeInv, TargetIsKnown

LEMMA ReadZipInv ==
  ASSUME TreeConstantsOK, TreeInv, ReadZip, calls' \in Nat
  PROVE  TreeInv'
<1> DEFINE i == Head(agenda).id
           S == Branch(tree, PathOfId(tree, i))
<1>1. /\ Working /\ Stored /\ Recorded /\ Due("zip")
      /\ UNCHANGED <<upstream, before, edits, within, mine, named, gone>>
      /\ GoOn \/ Finish("failed")
      /\ got' = got \/ got' = IdsOf(tree, S)
  BY DEF TreeInv, ReadZip
<1>2. query.op = "download"
  BY <1>1, DueIs DEF Kinds, Ops
<1>3. IdsOf(tree, S) \subseteq Ids
  <2>1. S \subseteq DOMAIN tree /\ WellFormed(tree)
    BY <1>1 DEF Branch, Stored
  <2> HIDE DEF S
  <2> QED BY <2>1, NodesAre DEF IdsOf
<1>4. Working' /\ query' = query
  BY <1>1, AnsweredStays
<1>5. Recorded' /\ Stored'
  BY <1>1, <1>3 DEF Recorded, Stored, Numbered, upstream
<1> QED BY <1>2, <1>4, <1>5 DEF TreeInv, TargetIsKnown

(* Other clients leave a tree, and within takes in what they put below the *)
(* source.                                                                 *)
LEMMA EditStays ==
  ASSUME TreeConstantsOK, TreeInv, Stored', Edit, calls' = calls
  PROVE  TreeInv'
<1>1. /\ Working /\ Recorded /\ UNCHANGED <<handler, before, mine, named, gone, got>>
      /\ edits < MaxEdits /\ edits' = edits + 1
      /\ within' = within \cup IdsOf(tree', Branch(tree', query.src))
  BY DEF TreeInv, Edit
<1>2. UNCHANGED <<phase, query, agenda, total, visited, result>>
  BY <1>1 DEF handler
<1>3. IdsOf(tree', Branch(tree', query.src)) \subseteq Ids
  <2>1. WellFormed(tree')
    BY DEF Stored
  <2> DEFINE S == Branch(tree', query.src)
             t == tree'
  <2>2. S \subseteq DOMAIN t
    BY DEF Branch
  <2> HIDE DEF S, t
  <2>3. WellFormed(t)
    BY <2>1 DEF t
  <2>4. IdsOf(t, S) \subseteq Ids
    BY <2>2, <2>3, NodesAre DEF IdsOf
  <2> QED BY <2>4 DEF S, t
<1>4. Recorded'
  BY <1>1, <1>3 DEF Recorded, TreeConstantsOK
<1>5. agenda \in Seq(FitTasks(query, within'))
  <2>1. FitTasks(query, within) \subseteq FitTasks(query, within')
    BY <1>1 DEF FitTasks
  <2> DEFINE F == FitTasks(query, within)
             G == FitTasks(query, within')
  <2>2. agenda \in Seq(F)
    BY <1>1 DEF Working
  <2>3. F \subseteq G
    BY <2>1
  <2> HIDE DEF F, G
  <2>4. agenda \in Seq(G)
    BY <2>2, <2>3
  <2> QED BY <2>4 DEF G
<1>6. Working'
  BY <1>1, <1>2, <1>5 DEF Working, EndsInPlan
<1>7. TargetIsKnown'
  BY <1>1, <1>2 DEF TargetIsKnown
<1> QED BY <1>4, <1>6, <1>7 DEF TreeInv

LEMMA OthersCreateInv ==
  ASSUME TreeConstantsOK, TreeInv, OthersCreate, calls' = calls
  PROVE  TreeInv'
<1>1. PICK p \in Paths \ DOMAIN tree, body \in Contents \cup {Folder} : Store(p, body)
  BY DEF OthersCreate
<1>2. Stored' /\ Edit
  BY <1>1, StoreStays DEF TreeInv, Stored, OthersCreate
<1> QED BY <1>2, EditStays

LEMMA OthersDeleteInv ==
  ASSUME TreeConstantsOK, TreeInv, OthersDelete, calls' = calls
  PROVE  TreeInv'
<1>1. PICK p \in DOMAIN tree : tree' = Cut(tree, Branch(tree, p))
  BY DEF OthersDelete
<1>2. /\ WellFormed(tree') /\ DOMAIN tree' \subseteq DOMAIN tree
      /\ \A x \in DOMAIN tree' : tree'[x] = tree[x]
  BY <1>1, CutStays DEF TreeInv, Stored
<1>3. Stored' /\ Edit
  BY <1>2 DEF TreeInv, Stored, Numbered, OthersDelete
<1> QED BY <1>3, EditStays

LEMMA OthersMoveInv ==
  ASSUME TreeConstantsOK, TreeInv, OthersMove, calls' = calls
  PROVE  TreeInv'
<1>1. PICK p \in DOMAIN tree, q \in Paths \ DOMAIN tree :
        /\ ~IsPrefix(p, q) /\ IsFolder(tree, Front(q))
        /\ \A x \in Branch(tree, p) : Len(x) - Len(p) + Len(q) <= MaxDepth
        /\ tree' = Rekeyed(tree, p, q)
  BY DEF OthersMove
<1>2. q \in Seq(Names) /\ Len(q) # 0
  BY PathsAre DEF TreeConstantsOK
<1>3. WellFormed(tree') /\ IdsOf(tree', DOMAIN tree') = IdsOf(tree, DOMAIN tree)
  BY <1>1, <1>2, RekeyedStays DEF TreeInv, Stored
<1>4. Numbered(tree', next)
  BY <1>3 DEF TreeInv, Stored, Numbered, IdsOf
<1>5. Stored' /\ Edit
  BY <1>3, <1>4 DEF TreeInv, Stored, OthersMove
<1> QED BY <1>5, EditStays

LEMMA TreeStutter ==
  ASSUME TreeInv, UNCHANGED vars
  PROVE  TreeInv'
BY DEF TreeInv, Stored, Working, Recorded, TargetIsKnown, vars, upstream, handler, history,
       Numbered, EndsInPlan

LEMMA NextInv ==
  ASSUME TreeConstantsOK, TreeInv, Next
  PROVE  TreeInv'
<1>1. Call => calls' \in Nat
  BY DEF TreeInv, Recorded, Call
<1> QED
  BY <1>1, ReceiveInv, LookInv, CountFolderInv, MakeNodeInv, FillFolderInv, ReadChildInv,
     SweepFolderInv, VisitChildInv, VisitLastInv, DropNodeInv, RenameNodeInv, ReadContentInv,
     ReadZipInv, OthersCreateInv, OthersDeleteInv, OthersMoveInv DEF Next

(* What any run keeps: the tree is a tree, every task is one of the        *)
(* operation's, whatever others do and whichever calls fail.               *)
THEOREM TreeStays == Spec => []TypeOK
<1>1. Init => TreeInv
  BY InitInv, TreeConstantsOK
<1>2. TreeInv /\ [Next]_vars => TreeInv'
  BY NextInv, TreeStutter, TreeConstantsOK
<1>3. TreeInv => TypeOK
  BY TreeInvIsEnough
<1> QED BY <1>1, <1>2, <1>3, PTL DEF Spec

(* The driver looks paths up and acts on uuids afterwards; what it names   *)
(* was at or below the requested path at some time since the request       *)
(* arrived.                                                                *)
THEOREM OnlyTheTargetIsNamedHolds == Spec => []OnlyTheTargetIsNamed
<1>1. Init => TreeInv
  BY InitInv, TreeConstantsOK
<1>2. TreeInv /\ [Next]_vars => TreeInv'
  BY NextInv, TreeStutter, TreeConstantsOK
<1>3. TreeInv => OnlyTheTargetIsNamed
  BY TreeInvIsEnough
<1> QED BY <1>1, <1>2, <1>3, PTL DEF Spec

-----------------------------------------------------------------------------
(* Left alone.  Paths in a tree that nobody else changes.                  *)

LEMMA PathOfNode ==
  ASSUME NEW t, WellFormed(t), NEW p \in DOMAIN t
  PROVE  PathOfId(t, t[p].id) = p
BY DEF PathOfId, WellFormed

LEMMA BranchIs ==
  ASSUME TreeConstantsOK, NEW t, WellFormed(t), NEW p \in Seq(Names)
  PROVE  /\ Branch(t, p) \subseteq DOMAIN t
         /\ p \in DOMAIN t => p \in Branch(t, p)
         /\ p # <<>> /\ p \notin DOMAIN t => Branch(t, p) = {}
<1>1. ASSUME p # <<>>, p \notin DOMAIN t, NEW y \in Branch(t, p) PROVE FALSE
  <2>1. Len(p) # 0
    BY <1>1
  <2> QED BY <1>1, <2>1, AncestorsAreThere DEF Branch
<1>2. IsPrefix(p, p)
  BY PrefixOrder
<1> QED BY <1>1, <1>2 DEF Branch

(* Between a folder and what is below it lies one of its children.         *)
LEMMA ChildOnTheWay ==
  ASSUME TreeConstantsOK, NEW t, WellFormed(t), NEW p \in Seq(Names),
         NEW y \in DOMAIN t, IsPrefix(p, y), y # p
  PROVE  /\ IsFolder(t, p)
         /\ \E c \in DOMAIN t : /\ Len(c) = Len(p) + 1 /\ IsPrefix(p, c) /\ c # p
                                /\ IsPrefix(c, y) /\ Front(c) = p
<1> DEFINE n == Len(p) + 1
           c == SubSeq(y, 1, n)
<1>1. y \in Seq(Names) /\ Len(p) \in Nat
  BY NodesAre
<1>2. Len(p) < Len(y) /\ \A i \in 1..Len(p) : p[i] = y[i]
  <2>1. Len(p) <= Len(y) /\ \A i \in 1..Len(p) : p[i] = y[i]
    BY <1>1, PrefixIs
  <2>2. Len(p) # Len(y)
    BY <1>1, PrefixOrder
  <2> QED BY <1>1, <2>1, <2>2
<1>3. c \in Seq(Names) /\ Len(c) = n /\ \A i \in 1..n : c[i] = y[i]
  BY <1>1, <1>2
<1> HIDE DEF c
<1>4. IsPrefix(p, c) /\ IsPrefix(c, y) /\ c # p
  BY <1>1, <1>2, <1>3, PrefixIs
<1>5. c \in DOMAIN t
  BY <1>1, <1>3, <1>4, AncestorsAreThere
<1>6. Front(c) = p
  <2>a. Len(c) # 0 /\ Len(c) - 1 = Len(p)
    BY <1>1, <1>3
  <2>1. /\ Front(c) \in Seq(Names) /\ Len(Front(c)) = Len(p)
        /\ \A i \in 1..Len(p) : Front(c)[i] = c[i]
    BY <1>3, <2>a, FrontIs
  <2>2. \A i \in 1..Len(p) : c[i] = p[i]
    BY <1>1, <1>2, <1>3
  <2>3. \A i \in 1..Len(Front(c)) : Front(c)[i] = p[i]
    BY <2>1, <2>2
  <2> QED BY <2>1, <2>3, SameSequence
<1>7. IsFolder(t, p)
  BY <1>5, <1>6 DEF WellFormed
<1> QED BY <1>3, <1>4, <1>5, <1>6, <1>7

LEMMA LeafIs ==
  ASSUME TreeConstantsOK, NEW t, WellFormed(t), NEW p \in DOMAIN t, t[p].body # Folder
  PROVE  Branch(t, p) = {p}
<1>1. p \in Seq(Names) /\ p # <<>>
  BY NodesAre
<1>2. p \in Branch(t, p)
  BY <1>1, BranchIs
<1>3. ASSUME NEW y \in Branch(t, p), y # p PROVE FALSE
  <2>1. IsFolder(t, p)
    BY <1>1, <1>3, ChildOnTheWay DEF Branch
  <2> QED BY <1>1, <2>1 DEF IsFolder
<1> QED BY <1>2, <1>3

(* A sequence whose first element is replaced by some others.              *)
LEMMA HeadReplaced ==
  ASSUME NEW F, NEW s \in Seq(F), s # <<>>, NEW f \in Seq(F)
  PROVE  LET u == f \o Tail(s) IN
         /\ u \in Seq(F) /\ Len(u) = Len(f) + (Len(s) - 1)
         /\ Len(f) \in Nat /\ Len(s) \in Nat \ {0} /\ Head(s) = s[1] /\ s[1] \in F
         /\ \A i \in 1..Len(f) : u[i] = f[i]
         /\ \A i \in 2..Len(s) : u[Len(f) + i - 1] = s[i]
         /\ \A k \in 1..Len(u) : \/ k \in 1..Len(f)
                                 \/ \E i \in 2..Len(s) : k = Len(f) + i - 1
<1> DEFINE m == Len(f)
           n == Len(s)
           r == Tail(s)
           u == f \o r
<1>1. m \in Nat /\ n \in Nat \ {0} /\ Head(s) = s[1] /\ s[1] \in F
  OBVIOUS
<1>2. r \in Seq(F) /\ Len(r) = n - 1 /\ \A i \in 1..(n - 1) : r[i] = s[i + 1]
  OBVIOUS
<1> HIDE DEF r
<1>3. u \in Seq(F) /\ Joined(u, f, r)
  BY <1>2, JoinedIs
<1> HIDE DEF u
<1>4. /\ Len(u) = m + (n - 1)
      /\ \A i \in 1..m : u[i] = f[i]
      /\ \A i \in 1..(n - 1) : u[m + i] = r[i]
  BY <1>2, <1>3 DEF Joined
<1>5. ASSUME NEW i \in 2..n PROVE u[m + i - 1] = s[i]
  <2>1. i - 1 \in 1..(n - 1) /\ m + (i - 1) = m + i - 1 /\ (i - 1) + 1 = i
    BY <1>1
  <2> QED BY <1>2, <1>4, <2>1
<1>6. ASSUME NEW k \in 1..Len(u), ~(k \in 1..m) PROVE \E i \in 2..n : k = m + i - 1
  <2>1. (k - m) + 1 \in 2..n /\ k = m + ((k - m) + 1) - 1
    BY <1>1, <1>4, <1>6
  <2> QED BY <2>1
<1> QED BY <1>1, <1>3, <1>4, <1>5, <1>6 DEF u, r

(* Every element of a finite set is in a sequence that lists it, once.     *)
LEMMA ListsAll ==
  ASSUME NEW S, IsFiniteSet(S), NEW o \in SetToSeqs(S)
  PROVE  /\ o \in Seq(S) /\ DOMAIN o = 1..Len(o)
         /\ \A j, k \in 1..Len(o) : j # k => o[j] # o[k]
         /\ \A y \in S : \E k \in 1..Len(o) : o[k] = y
<1> DEFINE n == Cardinality(S)
           D == 1..n
<1>1. n \in Nat
  BY FS_CardinalityType
<1>2. o \in [D -> S] /\ \A i, j \in D : i # j => o[i] # o[j]
  BY DEF SetToSeqs
<1>3. o \in Seq(S) /\ Len(o) = n /\ DOMAIN o = 1..Len(o)
  BY <1>1, <1>2
<1>4. o \in Injection(D, S)
  BY <1>2 DEF Injection, IsInjective
<1>5. Cardinality(D) = n
  <2>1. 1 \in Int /\ n \in Int
    BY <1>1
  <2>2. Cardinality(1..n) = IF 1 > n THEN 0 ELSE n - 1 + 1
    BY <2>1, FS_Interval
  <2> QED BY <1>1, <2>2
<1> HIDE DEF D
<1>6. o \in Surjection(D, S)
  BY <1>4, <1>5, FS_Injection
<1>7. \A y \in S : \E k \in D : o[k] = y
  BY <1>6 DEF Surjection
<1> QED BY <1>2, <1>3, <1>7 DEF D

(* The branches of two paths neither of which is above the other.          *)
Apart(p, q) == ~IsPrefix(p, q) /\ ~IsPrefix(q, p)

(* Children of one folder are apart, and apart from whatever the folder    *)
(* is.                                                                     *)
LEMMA ChildrenAreApart ==
  ASSUME NEW p \in Seq(Names), NEW c \in Seq(Names), Len(c) = Len(p) + 1, IsPrefix(p, c)
  PROVE  /\ \A d \in Seq(Names) : Len(d) = Len(c) /\ d # c => Apart(c, d)
         /\ \A q \in Seq(Names) : Apart(p, q) => Apart(c, q)
         /\ ~IsPrefix(c, p) /\ Front(c) = p /\ c # p
<1>1. Len(p) \in Nat /\ Len(c) \in Nat /\ Len(c) # 0 /\ c # p
  OBVIOUS
<1>2. ASSUME NEW d \in Seq(Names), Len(d) = Len(c), d # c PROVE Apart(c, d)
  BY <1>2, PrefixOrder DEF Apart
<1>3. ~IsPrefix(c, p)
  <2>1. ~(Len(c) <= Len(p))
    BY <1>1
  <2> QED BY <2>1, PrefixIs
<1>4. Front(c) = p
  <2>1. /\ Front(c) \in Seq(Names) /\ Len(Front(c)) = Len(c) - 1
        /\ \A i \in 1..(Len(c) - 1) : Front(c)[i] = c[i]
    BY <1>1, FrontIs
  <2>2. Len(c) - 1 = Len(p) /\ \A i \in 1..Len(p) : p[i] = c[i]
    BY <1>1, PrefixIs
  <2> QED BY <2>1, <2>2, SameSequence
<1>5. ASSUME NEW q \in Seq(Names), Apart(p, q) PROVE Apart(c, q)
  <2>1. ~IsPrefix(c, q)
    BY <1>5, PrefixOrder DEF Apart
  <2>2. ASSUME IsPrefix(q, c) PROVE FALSE
    <3>1. CASE Len(q) = Len(c)
      BY <1>5, <2>2, <3>1, PrefixOrder DEF Apart
    <3>2. CASE Len(q) # Len(c)
      BY <1>1, <1>4, <1>5, <2>2, <3>2, PrefixOfParent DEF Apart
    <3> QED BY <3>1, <3>2
  <2> QED BY <2>1, <2>2 DEF Apart
<1> QED BY <1>1, <1>2, <1>3, <1>4, <1>5

LEMMA KidsAre ==
  ASSUME TreeConstantsOK, WellFormed(tree), NEW p \in Seq(Names)
  PROVE  /\ \A c : c \in Kids(p) <=> c \in DOMAIN tree /\ Len(c) = Len(p) + 1 /\ IsPrefix(p, c)
         /\ Kids(p) \subseteq DOMAIN tree /\ Kids(p) \subseteq Seq(Names)
         /\ \A c, d \in Kids(p) : c # d => Apart(c, d)
         /\ \A c \in Kids(p) : ~IsPrefix(c, p) /\ Front(c) = p /\ c # p
         /\ \A c \in Kids(p), q \in Seq(Names) : Apart(p, q) => Apart(c, q)
         /\ \A y \in DOMAIN tree : IsPrefix(p, y) /\ y # p =>
              IsFolder(tree, p) /\ \E c \in Kids(p) : IsPrefix(c, y)
<1>1. \A c : c \in Kids(p) <=> c \in DOMAIN tree /\ Len(c) = Len(p) + 1 /\ IsPrefix(p, c)
  <2>1. Len(p) \in Nat
    OBVIOUS
  <2>2. \A c \in DOMAIN tree : Len(c) = Len(p) + 1 => p # c
    BY <2>1
  <2> QED BY <2>2 DEF Kids, IsStrictPrefix
<1>2. Kids(p) \subseteq DOMAIN tree /\ Kids(p) \subseteq Seq(Names)
  BY <1>1, NodesAre
<1>3. ASSUME NEW c \in Kids(p)
      PROVE  /\ \A d \in Seq(Names) : Len(d) = Len(c) /\ d # c => Apart(c, d)
             /\ \A q \in Seq(Names) : Apart(p, q) => Apart(c, q)
             /\ ~IsPrefix(c, p) /\ Front(c) = p /\ c # p
  BY <1>1, <1>2, ChildrenAreApart
<1>4. \A c, d \in Kids(p) : c # d => Apart(c, d)
  BY <1>1, <1>2, <1>3
<1>5. ASSUME NEW y \in DOMAIN tree, IsPrefix(p, y), y # p
      PROVE  IsFolder(tree, p) /\ \E c \in Kids(p) : IsPrefix(c, y)
  BY <1>1, <1>5, ChildOnTheWay
<1> QED BY <1>1, <1>2, <1>3, <1>4, <1>5

-----------------------------------------------------------------------------
(* Left alone: counting.                                                   *)

(* These folders of the tree are yet to be counted, then comes the plan.   *)
Listed(p, s, plan) ==
  /\ Len(s) = Len(p) + Len(plan)
  /\ \A i \in 1..Len(p) : s[i] = Count(p[i])
  /\ \A i \in 1..Len(plan) : s[Len(p) + i] = plan[i]

(* They lie apart, at or below the source; the nodes that are not at or    *)
(* below one of them are the ones counted so far.                          *)
Uncounted(p, t, q) == {x \in Branch(t, q.src) : \E k \in 1..Len(p) : IsPrefix(p[k], x)}

CountsAre(p, n, t, q) ==
  /\ \A k \in 1..Len(p) : t[p[k]].body = Folder /\ IsPrefix(q.src, p[k])
  /\ \A j, k \in 1..Len(p) : j # k => Apart(p[j], p[k])
  /\ n = Cardinality(Branch(t, q.src) \ Uncounted(p, t, q))

LEMMA CountOne ==
  ASSUME TreeConstantsOK, WellFormed(tree), query \in Queries,
         NEW p \in Seq(DOMAIN tree), p # <<>>, NEW n \in Nat, CountsAre(p, n, tree, query),
         NEW order \in SetToSeqs(Dirs(Kids(p[1])))
  PROVE  LET kids == Kids(p[1])
             u == order \o Tail(p) IN
         /\ u \in Seq(DOMAIN tree)
         /\ CountsAre(u, n + 1 + Cardinality(kids \ Dirs(kids)), tree, query)
<1> DEFINE one == p[1]
           kids == Kids(one)
           dirs == Dirs(kids)
           docs == kids \ dirs
           u == order \o Tail(p)
           B == Branch(tree, query.src)
           m == Len(order)
           S == Seq(Names)
<1>1. /\ one \in DOMAIN tree /\ one \in S /\ query.src \in S /\ Len(p) \in Nat \ {0}
      /\ \A k \in 1..Len(p) : p[k] \in DOMAIN tree /\ p[k] \in S
  <2>1. Len(p) \in Nat \ {0} /\ one \in DOMAIN tree /\ \A k \in 1..Len(p) : p[k] \in DOMAIN tree
    OBVIOUS
  <2> QED BY <2>1, NodesAre, QueriesAre
<1>2. /\ kids \subseteq DOMAIN tree /\ kids \subseteq S
      /\ \A c \in kids : IsPrefix(one, c) /\ ~IsPrefix(c, one) /\ c # one
      /\ \A c, d \in kids : c # d => Apart(c, d)
      /\ \A c \in kids, q \in S : Apart(one, q) => Apart(c, q)
      /\ \A y \in DOMAIN tree : IsPrefix(one, y) /\ y # one => \E c \in kids : IsPrefix(c, y)
  BY <1>1, KidsAre
<1>3. IsFiniteSet(DOMAIN tree) /\ IsFiniteSet(dirs) /\ IsFiniteSet(docs) /\ IsFiniteSet(B)
  BY <1>2, TreesAreFinite, FS_Subset DEF Dirs, Branch
<1>4. /\ order \in Seq(dirs) /\ m \in Nat
      /\ \A k \in 1..m : order[k] \in dirs
      /\ \A j, k \in 1..m : j # k => order[j] # order[k]
      /\ \A y \in dirs : \E k \in 1..m : order[k] = y
  <2> HIDE DEF kids, dirs
  <2>1. order \in SetToSeqs(dirs)
    BY DEF dirs, kids
  <2> QED BY <1>3, <2>1, ListsAll
<1>5. dirs = {c \in kids : tree[c].body = Folder} /\ order \in Seq(DOMAIN tree)
  <2>1. dirs = {c \in kids : tree[c].body = Folder}
    BY DEF Dirs, IsDir
  <2> QED BY <1>2, <1>4, <2>1
<1>6. /\ u \in Seq(DOMAIN tree) /\ Len(u) = m + (Len(p) - 1)
      /\ \A k \in 1..m : u[k] = order[k]
      /\ \A i \in 2..Len(p) : u[m + i - 1] = p[i]
      /\ \A k \in 1..Len(u) : k \in 1..m \/ \E i \in 2..Len(p) : k = m + i - 1
  BY <1>5, HeadReplaced
<1> HIDE DEF u, kids, dirs, docs, B
<1>7. /\ \A k \in 1..Len(p) : tree[p[k]].body = Folder /\ IsPrefix(query.src, p[k])
      /\ \A j, k \in 1..Len(p) : j # k => Apart(p[j], p[k])
      /\ n = Cardinality(B \ Uncounted(p, tree, query))
  BY DEF CountsAre, B
<1>8. \A i \in 2..Len(p) : Apart(one, p[i]) /\ i \in 1..Len(p)
  <2>1. ASSUME NEW i \in 2..Len(p) PROVE i # 1 /\ 1 \in 1..Len(p) /\ i \in 1..Len(p)
    BY <1>1
  <2> QED BY <1>7, <2>1
<1>9. ASSUME NEW k \in 1..m
      PROVE  /\ order[k] \in kids /\ tree[order[k]].body = Folder /\ order[k] \in S
             /\ IsPrefix(query.src, order[k]) /\ IsPrefix(one, order[k])
             /\ \A i \in 2..Len(p) : Apart(order[k], p[i]) /\ Apart(p[i], order[k])
  <2>1. order[k] \in kids /\ tree[order[k]].body = Folder /\ order[k] \in S
    BY <1>2, <1>4, <1>5
  <2>2. 1 \in 1..Len(p) /\ IsPrefix(query.src, one) /\ IsPrefix(one, order[k])
    BY <1>1, <1>2, <1>7, <2>1
  <2>3. IsPrefix(query.src, order[k])
    BY <1>1, <2>1, <2>2, PrefixOrder
  <2>4. \A i \in 2..Len(p) : Apart(order[k], p[i])
    BY <1>1, <1>2, <1>8, <2>1
  <2> QED BY <2>1, <2>2, <2>3, <2>4 DEF Apart
<1>10. ASSUME NEW k \in 1..Len(u)
       PROVE  tree[u[k]].body = Folder /\ IsPrefix(query.src, u[k])
  <2>1. CASE k \in 1..m
    BY <1>6, <1>9, <2>1
  <2>2. ASSUME NEW i \in 2..Len(p), k = m + i - 1
        PROVE  tree[u[k]].body = Folder /\ IsPrefix(query.src, u[k])
    <3>1. u[k] = p[i] /\ i \in 1..Len(p)
      BY <1>6, <1>8, <2>2
    <3> QED BY <1>7, <3>1
  <2> QED BY <1>6, <2>1, <2>2
<1>11. ASSUME NEW j \in 1..Len(u), NEW k \in 1..Len(u), j # k PROVE Apart(u[j], u[k])
  <2>1. CASE j \in 1..m /\ k \in 1..m
    <3>1. /\ u[j] = order[j] /\ u[k] = order[k] /\ order[j] # order[k]
          /\ order[j] \in kids /\ order[k] \in kids
      BY <1>4, <1>6, <1>9, <1>11, <2>1
    <3> QED BY <1>2, <3>1
  <2>2. ASSUME NEW i \in 2..Len(p), j = m + i - 1, k \in 1..m PROVE Apart(u[j], u[k])
    BY <1>6, <1>9, <2>2
  <2>3. ASSUME NEW i \in 2..Len(p), k = m + i - 1, j \in 1..m PROVE Apart(u[j], u[k])
    BY <1>6, <1>9, <2>3
  <2>4. ASSUME NEW i \in 2..Len(p), NEW h \in 2..Len(p), j = m + i - 1, k = m + h - 1
        PROVE  Apart(u[j], u[k])
    BY <1>6, <1>7, <1>8, <1>11, <2>4
  <2> QED BY <1>6, <2>1, <2>2, <2>3, <2>4
<1> DEFINE V == Uncounted(p, tree, query)
           W == Uncounted(u, tree, query)
<1>12. /\ \A x : x \in V <=> x \in B /\ \E k \in 1..Len(p) : IsPrefix(p[k], x)
       /\ \A x : x \in W <=> x \in B /\ \E k \in 1..Len(u) : IsPrefix(u[k], x)
       /\ \A x \in B : x \in DOMAIN tree /\ x \in S /\ IsPrefix(query.src, x)
       /\ \A x \in DOMAIN tree : IsPrefix(query.src, x) => x \in B
  BY NodesAre DEF Uncounted, B, Branch
<1> HIDE DEF V, W
<1> DEFINE Now(x) == (\E k \in 1..m : IsPrefix(order[k], x))
                       \/ (\E i \in 2..Len(p) : IsPrefix(p[i], x))
<1>13. \A x : x \in W <=> x \in B /\ Now(x)
  <2>1. ASSUME NEW x \in W
        PROVE  x \in B /\ Now(x)
    <3>1. PICK k \in 1..Len(u) : IsPrefix(u[k], x)
      BY <1>12
    <3> QED BY <1>6, <1>12, <3>1
  <2>2. ASSUME NEW x \in B, NEW k \in 1..m, IsPrefix(order[k], x) PROVE x \in W
    <3>1. k \in 1..Len(u) /\ u[k] = order[k]
      BY <1>1, <1>4, <1>6
    <3> QED BY <1>12, <2>2, <3>1
  <2>3. ASSUME NEW x \in B, NEW i \in 2..Len(p), IsPrefix(p[i], x) PROVE x \in W
    <3>1. m + i - 1 \in 1..Len(u) /\ u[m + i - 1] = p[i]
      BY <1>1, <1>4, <1>6
    <3> QED BY <1>12, <2>3, <3>1
  <2> QED BY <2>1, <2>2, <2>3
<1>14. B \ W = (B \ V) \cup (docs \cup {one})
  <2>1. ASSUME NEW x \in W PROVE x \in V
    <3>1. CASE \E i \in 2..Len(p) : IsPrefix(p[i], x)
      BY <1>8, <1>12, <1>13, <2>1, <3>1
    <3>2. ASSUME NEW k \in 1..m, IsPrefix(order[k], x) PROVE x \in V
      <4>1. IsPrefix(one, x) /\ 1 \in 1..Len(p)
        BY <1>1, <1>9, <1>12, <1>13, <2>1, <3>2, PrefixOrder
      <4> QED BY <1>12, <1>13, <2>1, <4>1
    <3> QED BY <1>13, <2>1, <3>1, <3>2
  <2>2. one \in B \ W
    <3>1. one \in B
      BY <1>1, <1>7, <1>12
    <3>2. \A k \in 1..m : ~IsPrefix(order[k], one)
      BY <1>2, <1>9
    <3>3. \A i \in 2..Len(p) : ~IsPrefix(p[i], one)
      BY <1>8 DEF Apart
    <3> QED BY <1>13, <3>1, <3>2, <3>3
  <2>3. ASSUME NEW d \in docs PROVE d \in B \ W
    <3>1. d \in kids /\ tree[d].body # Folder /\ d \in DOMAIN tree /\ d \in S /\ IsPrefix(one, d)
      BY <1>2, <1>5 DEF docs
    <3>2. d \in B
      BY <1>1, <1>7, <1>12, <3>1, PrefixOrder
    <3>3. \A k \in 1..m : ~IsPrefix(order[k], d)
      BY <1>2, <1>9, <3>1 DEF Apart
    <3>4. \A i \in 2..Len(p) : ~IsPrefix(p[i], d)
      BY <1>1, <1>2, <1>8, <3>1 DEF Apart
    <3> QED BY <1>13, <3>2, <3>3, <3>4
  <2>4. ASSUME NEW x \in V, x \notin W, x # one PROVE x \in docs
    <3>1. PICK k \in 1..Len(p) : IsPrefix(p[k], x)
      BY <1>12, <2>4
    <3>2. k = 1
      <4>1. k # 1 => k \in 2..Len(p)
        BY <1>1
      <4> QED BY <1>12, <1>13, <2>4, <3>1, <4>1
    <3>3. x \in DOMAIN tree /\ x \in S
      BY <1>12, <2>4
    <3>4. PICK c \in kids : IsPrefix(c, x)
      BY <1>2, <2>4, <3>1, <3>2, <3>3
    <3>5. tree[c].body # Folder
      <4>1. c \in dirs => \E j \in 1..m : order[j] = c
        BY <1>4
      <4> QED BY <1>5, <1>12, <1>13, <2>4, <3>4, <4>1
    <3>6. c \in DOMAIN tree /\ Branch(tree, c) = {c}
      BY <1>2, <3>4, <3>5, LeafIs
    <3>7. x = c
      BY <3>3, <3>4, <3>6 DEF Branch
    <3> QED BY <1>5, <3>4, <3>5, <3>7 DEF docs
  <2>5. V \subseteq B
    BY <1>12
  <2> QED BY <2>1, <2>2, <2>3, <2>4, <2>5
<1>15. (B \ V) \cap (docs \cup {one}) = {}
  <2>1. 1 \in 1..Len(p) /\ IsPrefix(one, one)
    BY <1>1, PrefixOrder
  <2>2. \A d \in docs : IsPrefix(one, d)
    BY <1>2 DEF docs
  <2> QED BY <1>12, <2>1, <2>2
<1> HIDE DEF one
<1>16. /\ Cardinality(docs \cup {one}) = Cardinality(docs) + 1 /\ Cardinality(docs) \in Nat
       /\ IsFiniteSet(docs \cup {one})
  <2>1. one \notin docs
    BY <1>2 DEF docs
  <2> QED BY <1>3, <2>1, FS_AddElement, FS_CardinalityType
<1>17. Cardinality(B \ W) = n + 1 + Cardinality(docs)
  <2> DEFINE X == B \ V
             Y == docs \cup {one}
             Z == B \ W
  <2>1. IsFiniteSet(X) /\ IsFiniteSet(Y) /\ X \cap Y = {} /\ Z = X \cup Y
    BY <1>3, <1>14, <1>15, <1>16, FS_Subset
  <2>2. Cardinality(X) = n /\ Cardinality(Y) = Cardinality(docs) + 1
    BY <1>7, <1>16 DEF V
  <2> SUFFICES Cardinality(Z) = n + 1 + Cardinality(docs)
    OBVIOUS
  <2> HIDE DEF X, Y, Z
  <2>3. Cardinality(X \cup Y) = Cardinality(X) + Cardinality(Y) - Cardinality(X \cap Y)
    BY <2>1, FS_Union
  <2>4. Cardinality(X \cap Y) = 0
    <3>1. IsFiniteSet(X \cap Y)
      BY <2>1, FS_Subset
    <3> QED BY <2>1, <3>1, FS_EmptySet
  <2> QED BY <1>16, <2>1, <2>2, <2>3, <2>4
<1> DEFINE sum == n + 1 + Cardinality(docs)
<1> HIDE DEF sum
<1>18. CountsAre(u, sum, tree, query)
  BY <1>10, <1>11, <1>17 DEF CountsAre, W, B, sum
<1> QED BY <1>6, <1>18 DEF u, docs, dirs, kids, one, sum

(* A list of folders of the tree, each with a task to count it.            *)
LEMMA ListedNext ==
  ASSUME NEW F, NEW s \in Seq(F), NEW P, NEW p \in Seq(P), p # <<>>, NEW o \in Seq(P),
         NEW first \in Seq(F), NEW plan \in Seq(F), Listed(p, s, plan),
         Listed(o, first, <<>>)
  PROVE  /\ s # <<>> /\ Listed(o \o Tail(p), first \o Tail(s), plan)
         /\ first \o Tail(s) \in Seq(F)
<1> DEFINE m == Len(o)
           u == o \o Tail(p)
           v == first \o Tail(s)
           h == Len(p)
           l == Len(plan)
<1>0. m \in Nat /\ h \in Nat \ {0} /\ l \in Nat /\ s # <<>>
  BY DEF Listed
<1>a. Len(first) = m /\ \A i \in 1..m : first[i] = Count(o[i])
  BY <1>0 DEF Listed
<1>1. /\ Len(s) = h + l
      /\ \A i \in 1..h : s[i] = Count(p[i])
      /\ \A i \in 1..l : s[h + i] = plan[i]
  BY DEF Listed
<1>2. /\ Len(u) = m + (h - 1)
      /\ \A i \in 1..m : u[i] = o[i]
      /\ \A i \in 2..h : u[m + i - 1] = p[i]
      /\ \A k \in 1..Len(u) : k \in 1..m \/ \E i \in 2..h : k = m + i - 1
  BY HeadReplaced
<1>3. /\ v \in Seq(F) /\ Len(v) = m + (Len(s) - 1)
      /\ \A i \in 1..m : v[i] = first[i]
      /\ \A i \in 2..Len(s) : v[m + i - 1] = s[i]
  <2>1. /\ v \in Seq(F) /\ Len(v) = Len(first) + (Len(s) - 1)
        /\ Len(first) \in Nat /\ Len(s) \in Nat \ {0} /\ Head(s) = s[1] /\ s[1] \in F
        /\ \A i \in 1..Len(first) : v[i] = first[i]
        /\ \A i \in 2..Len(s) : v[Len(first) + i - 1] = s[i]
        /\ \A k \in 1..Len(v) : \/ k \in 1..Len(first)
                                \/ \E i \in 2..Len(s) : k = Len(first) + i - 1
    BY <1>0, HeadReplaced
  <2>2. Len(first) = m
    BY <1>a
  <2> HIDE DEF m, v
  <2> QED BY <2>1, <2>2
<1> HIDE DEF u, v
<1>4. Len(v) = Len(u) + l
  BY <1>0, <1>1, <1>2, <1>3
<1>5. ASSUME NEW k \in 1..Len(u) PROVE v[k] = Count(u[k])
  <2>1. CASE k \in 1..m
    BY <1>2, <1>3, <1>a, <2>1
  <2>2. ASSUME NEW i \in 2..h, k = m + i - 1 PROVE v[k] = Count(u[k])
    <3>1. i \in 2..Len(s) /\ i \in 1..h
      BY <1>0, <1>1
    <3>2. v[m + i - 1] = s[i] /\ s[i] = Count(p[i]) /\ u[m + i - 1] = p[i]
      BY <1>1, <1>2, <1>3, <3>1
    <3> QED BY <2>2, <3>2
  <2> QED BY <1>2, <2>1, <2>2
<1>6. ASSUME NEW i \in 1..l PROVE v[Len(u) + i] = plan[i]
  <2> DEFINE j == h + i
  <2>1. j \in 2..Len(s) /\ m + j - 1 = Len(u) + i
    BY <1>0, <1>1, <1>2
  <2>2. v[m + j - 1] = s[j] /\ s[j] = plan[i]
    BY <1>1, <1>3, <2>1
  <2> QED BY <2>1, <2>2
<1> QED BY <1>0, <1>3, <1>4, <1>5, <1>6 DEF Listed, u, v

(* Until it acts, a request that is left alone finds the tree as it was;   *)
(* it acts when everything at or below its source is counted and accepted. *)
Fresh == tree = before /\ mine = {} /\ gone = {} /\ got = {} /\ visited = {}

Accepted(b, q) ==
  q.op \in {"copy", "delete", "download"} => Cardinality(Branch(b, q.src)) <= MaxOf(q.op)

Counting ==
  /\ query.src \in DOMAIN tree /\ query.op \in {"copy", "delete", "download"}
  /\ calls <= 2 + total
  /\ \E p \in Seq(DOMAIN tree) :
       /\ p # <<>> /\ Listed(p, agenda, Plan(query, tree[query.src]))
       /\ CountsAre(p, total, tree, query)

Planned ==
  /\ Fresh /\ query.src \in DOMAIN tree /\ query.op # "mkdir"
  /\ agenda = Plan(query, tree[query.src])
  /\ calls <= 2 + Cardinality(Branch(tree, query.src))
  /\ Accepted(tree, query)

Preparing ==
  /\ phase \in {"ready", "look", "count"} => Fresh /\ result = "none"
  /\ phase = "ready" => calls = 0 /\ total = 0
  /\ phase = "look" => calls = 1 /\ total = 0 /\ query.op # "mkdir"
  /\ phase = "count" => Counting

Refused == Fresh /\ result = "failed"

LEMMA LookAlone ==
  ASSUME TreeConstantsOK, TreeInv, Preparing, Look, Call
  PROVE  \/ phase' = "done" /\ Refused' /\ calls' = 2
         \/ phase' = "count" /\ Preparing'
         \/ phase' = "act" /\ Planned'
<1> USE DEF Call
<1>1. /\ phase = "look" /\ UNCHANGED <<upstream, history>> /\ Fresh /\ result = "none"
      /\ calls = 1 /\ total = 0 /\ query.op # "mkdir"
      /\ query \in Queries /\ WellFormed(tree) /\ calls' = 2
  BY DEF Look, Preparing, TreeInv, Working, Stored
<1>2. CASE Finish("failed")
  BY <1>1, <1>2 DEF Finish, Refused, Fresh, upstream, history
<1>3. CASE ~Finish("failed")
  <2> DEFINE src == query.src
             B == Branch(tree, src)
             plan == Plan(query, tree[src])
  <2>1. /\ src \in DOMAIN tree /\ UNCHANGED <<query, total, visited, result>>
        /\ IF IsDir(src) /\ query.op # "rename"
           THEN phase' = "count" /\ agenda' = <<Count(src)>> \o plan
           ELSE phase' = "act" /\ agenda' = plan
    BY <1>3 DEF Look
  <2>2. src \in Seq(Names) /\ query.op \in Ops
    BY <1>1, QueriesAre
  <2>3. Fresh' /\ tree' = tree
    BY <1>1, <2>1 DEF Fresh, upstream, history
  <2>4. IsFiniteSet(B) /\ Cardinality(B) \in Nat
    BY <1>1, TreesAreFinite, FS_Subset, FS_CardinalityType DEF Branch
  <2>5. CASE IsDir(src) /\ query.op # "rename"
    <3> DEFINE p == <<src>>
    <3>1. p \in Seq(DOMAIN tree) /\ p # <<>> /\ Len(p) = 1 /\ p[1] = src
      BY <2>1
    <3>2. Listed(p, agenda', plan)
      <4> DEFINE F == FitTasks(query, within)
      <4>1. plan \in Seq(F)
        BY <1>1, <2>1, PlanFits
      <4>2. Count(src) \in F
        BY <1>1, <2>2, <2>5, TasksFit DEF Ops
      <4> HIDE DEF F, plan
      <4>3. <<Count(src)>> \in Seq(F) /\ Len(<<Count(src)>>) = 1
            /\ <<Count(src)>>[1] = Count(src)
        BY <4>2
      <4>4. Joined(<<Count(src)>> \o plan, <<Count(src)>>, plan)
        BY <4>1, <4>3, JoinedIs
      <4>5. agenda' = <<Count(src)>> \o plan
        BY <2>1, <2>5
      <4> QED BY <3>1, <4>3, <4>4, <4>5 DEF Joined, Listed
    <3>3. CountsAre(p, 0, tree, query)
      <4> DEFINE V == B \ Uncounted(p, tree, query)
      <4>1. V = {}
        BY <3>1 DEF Uncounted, Branch
      <4>2. Cardinality(V) = 0
        <5> HIDE DEF V
        <5> QED BY <4>1, FS_EmptySet, Zenon
      <4>3. IsPrefix(src, src)
        BY <2>2, PrefixOrder
      <4> HIDE DEF p
      <4>4. tree[src].body = Folder
        BY <2>5 DEF IsDir
      <4> QED BY <3>1, <4>2, <4>3, <4>4 DEF CountsAre
    <3> HIDE DEF p, plan
    <3>4. Counting'
      <4>1. query.op \in {"copy", "delete", "download"}
        BY <1>1, <2>2, <2>5 DEF Ops
      <4>2. \E r \in Seq(DOMAIN tree') :
              /\ r # <<>> /\ Listed(r, agenda', Plan(query', tree'[query'.src]))
              /\ CountsAre(r, total', tree', query')
        <5>1. query' = query /\ tree' = tree /\ total' = 0
          BY <1>1, <2>1, <2>3
        <5> QED BY <3>1, <3>2, <3>3, <5>1 DEF plan
      <4> QED BY <1>1, <2>1, <2>3, <4>1, <4>2 DEF Counting
    <3> QED BY <1>1, <2>1, <2>3, <2>5, <3>4 DEF Preparing
  <2>6. CASE ~(IsDir(src) /\ query.op # "rename")
    <3>1. src \in B
      BY <2>1, <2>2, PrefixOrder DEF Branch
    <3>2. Cardinality(B) # 0
      <4> HIDE DEF B
      <4> QED BY <2>4, <3>1, FS_EmptySet
    <3>3. Accepted(tree, query)
      <4>1. CASE query.op = "rename"
        BY <4>1 DEF Accepted
      <4>2. CASE tree[src].body # Folder
        <5>1. B = {src}
          BY <1>1, <2>1, <4>2, LeafIs
        <5>2. Cardinality({src}) = 1
          BY FS_Singleton
        <5>3. Cardinality(B) = 1
          BY <5>1, <5>2, Zenon
        <5>4. query.op \in {"copy", "delete", "download"} => 1 <= MaxOf(query.op)
          BY DEF MaxOf, TreeConstantsOK
        <5> HIDE DEF B
        <5> QED BY <5>3, <5>4 DEF Accepted, B
      <4> QED BY <2>6, <4>1, <4>2 DEF IsDir
    <3>4. calls' <= 2 + Cardinality(B)
      BY <1>1, <2>4, <3>2
    <3>5. Planned'
      BY <1>1, <2>1, <2>3, <2>6, <3>3, <3>4 DEF Planned
    <3> QED BY <2>1, <2>6, <3>5
  <2> QED BY <2>5, <2>6
<1> QED BY <1>2, <1>3

LEMMA CountAlone ==
  ASSUME TreeConstantsOK, TreeInv, Preparing, phase = "count", CountFolder, Call
  PROVE  \/ phase' = "done" /\ Refused' /\ calls' <= 3 + Cardinality(Branch(tree, query.src))
         \/ phase' = "count" /\ Preparing'
         \/ phase' = "act" /\ Planned'
<1> USE DEF Call
<1> DEFINE src == query.src
           B == Branch(tree, src)
           F == FitTasks(query, within)
           plan == Plan(query, tree[src])
<1>1. /\ UNCHANGED <<upstream, history>> /\ Fresh /\ result = "none" /\ Counting
      /\ query \in Queries /\ WellFormed(tree) /\ agenda \in Seq(F) /\ total \in Nat
      /\ src \in DOMAIN tree /\ query.op \in {"copy", "delete", "download"}
      /\ calls \in Nat /\ calls' = calls + 1
  BY DEF CountFolder, Preparing, TreeInv, Working, Stored, Counting, Recorded
<1>2. PICK p \in Seq(DOMAIN tree) :
        p # <<>> /\ Listed(p, agenda, plan) /\ CountsAre(p, total, tree, query)
  BY <1>1 DEF Counting
<1>3. IsFiniteSet(B) /\ Cardinality(B) \in Nat /\ total <= Cardinality(B)
      /\ calls <= 2 + total
  <2>1. IsFiniteSet(B)
    BY <1>1, TreesAreFinite, FS_Subset DEF Branch
  <2>2. total = Cardinality(B \ Uncounted(p, tree, query))
    BY <1>2 DEF CountsAre
  <2> HIDE DEF B
  <2> DEFINE W == Uncounted(p, tree, query)
  <2> HIDE DEF W
  <2>3. Cardinality(B \ W) <= Cardinality(B) /\ Cardinality(B) \in Nat
    BY <2>1, FS_Subset, FS_CardinalityType
  <2> QED BY <1>1, <2>1, <2>2, <2>3 DEF Counting, W
<1>4. CASE Finish("failed")
  BY <1>1, <1>3, <1>4 DEF Finish, Refused, Fresh, upstream, history
<1>5. CASE ~Finish("failed")
  <2> DEFINE one == p[1]
             kids == Kids(one)
             n == Cardinality(kids \ Dirs(kids))
  <2>1. /\ agenda # <<>> /\ Head(agenda) = Count(one) /\ one \in DOMAIN tree
        /\ tree[one].body = Folder /\ plan \in Seq(F) /\ plan # <<>> /\ EndsInPlan(plan)
        /\ \A k \in 1..Len(plan) : plan[k].do # "count"
    <3>1. Len(p) # 0 /\ 1 \in 1..Len(p) /\ one \in DOMAIN tree /\ p[1] = one
      BY <1>2
    <3>2. Len(agenda) # 0 /\ agenda[1] = Count(one)
      <4>1. Len(agenda) = Len(p) + Len(plan)
        BY <1>2 DEF Listed
      <4>2. plan \in Seq(F)
        BY <1>1, PlanFits
      <4> HIDE DEF plan
      <4>3. Len(p) \in Nat /\ Len(plan) \in Nat
        BY <4>2
      <4> QED BY <1>2, <3>1, <4>1, <4>3 DEF Listed
    <3>3. Head(agenda) = agenda[1] /\ agenda # <<>>
      BY <1>1, <3>2
    <3>4. tree[one].body = Folder
      BY <1>2, <3>1 DEF CountsAre
    <3>5. plan \in Seq(F) /\ plan # <<>> /\ EndsInPlan(plan)
      BY <1>1, PlanFits
    <3>6. \A k \in 1..Len(plan) : plan[k].do # "count"
      <4>1. \/ plan = <<Make(query.dst, Folder), Fill(src, query.dst)>>
            \/ \E t : t.do # "count" /\ plan = <<t>>
        BY <1>1 DEF Plan, Make, Drop, Sweep
      <4>2. /\ \A t : t.do # "count" => \A k \in 1..Len(<<t>>) : <<t>>[k].do # "count"
            /\ \A t, u : t.do # "count" /\ u.do # "count" =>
                           \A k \in 1..Len(<<t, u>>) : <<t, u>>[k].do # "count"
        OBVIOUS
      <4>3. Make(query.dst, Folder).do # "count" /\ Fill(src, query.dst).do # "count"
        BY DEF Make, Fill
      <4> HIDE DEF plan
      <4> QED BY <4>1, <4>2, <4>3
    <3> QED BY <3>1, <3>2, <3>3, <3>4, <3>5, <3>6
  <2>2. Head(agenda).at = one /\ Listing(one) = kids
    BY <2>1 DEF Count, Listing, IsFolder
  <2>3. PICK order \in SetToSeqs(Dirs(kids)) :
          LET left == [k \in DOMAIN order |-> Count(order[k])] \o Tail(agenda) IN
          /\ total' = total + 1 + n
          /\ IF Head(left).do = "count"
             THEN phase' = "count" /\ agenda' = left /\ UNCHANGED result
             ELSE IF total + 1 + n > MaxOf(query.op)
             THEN phase' = "done" /\ agenda' = <<>> /\ result' = "failed"
             ELSE phase' = "act" /\ agenda' = left /\ UNCHANGED result
          /\ UNCHANGED <<query, visited>>
    BY <1>5, <2>2 DEF CountFolder, Counted
  <2> DEFINE first == [k \in DOMAIN order |-> Count(order[k])]
             left == first \o Tail(agenda)
             u == order \o Tail(p)
             sum == total + 1 + n
  <2>4. IsFiniteSet(Dirs(kids)) /\ Dirs(kids) \subseteq DOMAIN tree /\ n \in Nat
        /\ Dirs(kids) \subseteq Seq(Names)
    <3>1. kids \subseteq DOMAIN tree
      BY DEF Kids
    <3>2. Dirs(kids) \subseteq kids
      BY DEF Dirs
    <3> HIDE DEF kids
    <3>3. IsFiniteSet(kids) /\ IsFiniteSet(kids \ Dirs(kids))
      BY <1>1, <3>1, TreesAreFinite, FS_Subset
    <3>4. Dirs(kids) \subseteq Seq(Names)
      BY <1>1, <3>1, <3>2, NodesAre
    <3> QED BY <3>1, <3>2, <3>3, <3>4, FS_CardinalityType, FS_Subset
  <2>5. /\ order \in Seq(DOMAIN tree) /\ DOMAIN order = 1..Len(order)
        /\ \A k \in 1..Len(order) : order[k] \in Dirs(kids)
    <3> DEFINE D == Dirs(kids)
    <3>1. order \in Seq(D) /\ DOMAIN order = 1..Len(order)
      BY <2>4, ListedIs
    <3>2. D \subseteq DOMAIN tree
      BY <2>4
    <3> HIDE DEF D
    <3> QED BY <3>1, <3>2 DEF D
  <2>6. first \in Seq(F) /\ Listed(order, first, <<>>)
    <3>1. \A k \in 1..Len(order) : Count(order[k]) \in F
      BY <1>1, <2>4, <2>5, TasksFit
    <3>2. first \in Seq(F) /\ Len(first) = Len(order)
          /\ \A k \in 1..Len(order) : first[k] = Count(order[k])
      <4> HIDE DEF F
      <4> QED BY <2>5, <3>1
    <3> HIDE DEF first
    <3>3. Len(order) + Len(<<>>) = Len(order) /\ Len(<<>>) = 0
      BY <2>5
    <3> QED BY <3>2, <3>3 DEF Listed
  <2>7. Listed(u, left, plan) /\ left \in Seq(F)
    <3> HIDE DEF F, plan, first
    <3> QED BY <1>1, <1>2, <2>1, <2>5, <2>6, ListedNext
  <2>8. u \in Seq(DOMAIN tree) /\ CountsAre(u, sum, tree, query)
    BY <1>1, <1>2, CountOne
  <2>9. calls' <= 2 + sum /\ Fresh' /\ tree' = tree /\ query' = query /\ total' = sum
        /\ calls' \in Nat /\ sum \in Nat
    <3>1. total' = sum /\ query' = query /\ visited' = visited
      BY <2>3
    <3>2. calls' <= 2 + sum /\ sum \in Nat /\ calls' \in Nat
      <4> HIDE DEF n
      <4> QED BY <1>1, <1>3, <2>4
    <3> QED BY <1>1, <3>1, <3>2 DEF Fresh, upstream, history
  <2> HIDE DEF first, left, u, sum, plan, F
  <2>10. CASE Head(left).do = "count"
    <3>1. phase' = "count" /\ agenda' = left /\ UNCHANGED result
      BY <2>3, <2>10 DEF left, first
    <3>2. u # <<>>
      <4>1. ASSUME u = <<>> PROVE FALSE
        <5>1. Len(u) = 0
          BY <4>1
        <5>2. Len(left) = Len(plan) /\ \A k \in 1..Len(plan) : left[k] = plan[k]
          BY <2>1, <2>7, <5>1 DEF Listed
        <5>3. Len(plan) # 0 /\ 1 \in 1..Len(plan) /\ Head(left) = left[1]
          BY <2>1, <2>7, <5>2
        <5> QED BY <2>1, <2>10, <5>2, <5>3
      <4> QED BY <4>1
    <3>3. Counting'
      <4>1. \E r \in Seq(DOMAIN tree') :
              /\ r # <<>> /\ Listed(r, agenda', Plan(query', tree'[query'.src]))
              /\ CountsAre(r, total', tree', query')
        BY <2>7, <2>8, <2>9, <3>1, <3>2 DEF plan
      <4> QED BY <1>1, <2>9, <4>1 DEF Counting
    <3> QED BY <1>1, <2>9, <3>1, <3>3 DEF Preparing
  <2>11. CASE Head(left).do # "count"
    <3>1. \/ phase' = "done" /\ result' = "failed"
          \/ sum <= MaxOf(query.op) /\ phase' = "act" /\ agenda' = left
      <4>1. MaxOf(query.op) \in Nat
        BY <1>1 DEF MaxOf, TreeConstantsOK
      <4>2. IF sum > MaxOf(query.op)
            THEN phase' = "done" /\ agenda' = <<>> /\ result' = "failed"
            ELSE phase' = "act" /\ agenda' = left /\ UNCHANGED result
        BY <2>3, <2>11 DEF left, first, sum
      <4> QED BY <2>9, <4>1, <4>2
    <3>2. CASE phase' = "done" /\ result' = "failed"
      BY <1>1, <1>3, <2>9, <3>2 DEF Refused
    <3>3. CASE sum <= MaxOf(query.op) /\ phase' = "act" /\ agenda' = left
      <4>1. Len(u) = 0
        <5>1. ASSUME Len(u) # 0 PROVE FALSE
          <6>1. 1 \in 1..Len(u) /\ Len(u) \in Nat /\ Len(plan) \in Nat
            BY <2>1, <2>8, <5>1
          <6>2. left[1] = Count(u[1]) /\ Len(left) # 0
            BY <2>7, <6>1 DEF Listed
          <6>3. Head(left) = left[1]
            BY <2>7, <6>2
          <6> QED BY <2>11, <6>2, <6>3 DEF Count
        <5> QED BY <5>1
      <4>2. left = plan
        <5>1. Len(left) = Len(plan) /\ \A k \in 1..Len(plan) : left[k] = plan[k]
          BY <2>1, <2>7, <4>1 DEF Listed
        <5> QED BY <2>1, <2>7, <5>1, SameSequence
      <4>3. sum = Cardinality(B)
        <5>1. sum = Cardinality(B \ Uncounted(u, tree, query))
          BY <2>8 DEF CountsAre
        <5>2. Uncounted(u, tree, query) = {}
          BY <4>1 DEF Uncounted
        <5> DEFINE W == Uncounted(u, tree, query)
                   X == B \ W
        <5> HIDE DEF B, W
        <5>3. X = B
          BY <5>2 DEF W
        <5>4. sum = Cardinality(X)
          BY <5>1 DEF W
        <5> HIDE DEF X
        <5> QED BY <5>3, <5>4
      <4>4. Accepted(tree, query)
        BY <3>3, <4>3 DEF Accepted
      <4>5. Planned'
        BY <1>1, <2>9, <3>3, <4>2, <4>3, <4>4 DEF Planned, plan
      <4> QED BY <3>3, <4>5
    <3> QED BY <3>1, <3>2, <3>3
  <2> QED BY <2>10, <2>11
<1> QED BY <1>4, <1>5

-----------------------------------------------------------------------------
(* Left alone: deleting.                                                   *)

(* The node a task of a delete is about.                                   *)
At(t, task) == IF task.do = "drop" THEN PathOfId(t, task.id) ELSE task.at

(* What is yet to be done with it.                                         *)
Rank(task) == CASE task.do = "drop"  -> 1
                [] task.do = "last"  -> 2
                [] task.do = "sweep" -> 3
                [] task.do = "visit" -> 4

Final(p) == [do |-> "last", at |-> p]

LEMMA TaskPlaces ==
  ASSUME NEW t, WellFormed(t), NEW p
  PROVE  /\ At(t, Visit(p)) = p /\ Visit(p).do = "visit" /\ Rank(Visit(p)) = 4
         /\ At(t, Sweep(p)) = p /\ Sweep(p).do = "sweep" /\ Rank(Sweep(p)) = 3
         /\ At(t, Final(p)) = p /\ Final(p).do = "last" /\ Rank(Final(p)) = 2
         /\ p \in DOMAIN t => /\ At(t, Drop(t[p].id)) = p /\ Drop(t[p].id).id = t[p].id
                              /\ Drop(t[p].id).do = "drop" /\ Rank(Drop(t[p].id)) = 1
BY PathOfNode DEF At, Rank, Visit, Sweep, Drop, Final

Leaf(t, p) == \A x \in DOMAIN t : IsPrefix(p, x) => x = p

(* Task k is about a node at or below the source; a node to be deleted     *)
(* next has nothing below it.                                              *)
PlaceOK(s, k, t, q) ==
  /\ s[k].do \in {"drop", "last", "sweep", "visit"}
  /\ At(t, s[k]) \in DOMAIN t /\ IsPrefix(q.src, At(t, s[k]))
  /\ s[k].do = "drop" => k = 1 /\ Leaf(t, At(t, s[k])) /\ t[At(t, s[k])].id = s[k].id

Covered(s, n, t, x) == \E j \in 1..n : IsPrefix(At(t, s[j]), x)

(* Deepest first: no task is about a node below that of an earlier one,    *)
(* and all that is below a folder comes before the folder.                 *)
DeepFirst(s, t) ==
  /\ \A j, k \in 1..Len(s) : j < k => ~IsPrefix(At(t, s[j]), At(t, s[k]))
  /\ \A k \in 1..Len(s) : s[k].do = "last" =>
       \A x \in DOMAIN t : IsPrefix(At(t, s[k]), x) /\ x # At(t, s[k]) => Covered(s, k - 1, t, x)

(* A folder that was visited and is still there is only to be deleted.     *)
Seen(s, t, p) == \E k \in 1..Len(s) : s[k].do \in {"last", "drop"} /\ At(t, s[k]) = p

DeletePlan(s, t, v, q) ==
  /\ \A k \in 1..Len(s) : PlaceOK(s, k, t, q)
  /\ DeepFirst(s, t)
  /\ \A x \in Branch(t, q.src) : Covered(s, Len(s), t, x)
  /\ \A p \in v \cap DOMAIN t : Seen(s, t, p)

(* What is left of at most four calls for every node.                      *)
Left(s, t, q) ==
  {z \in Branch(t, q.src) \X (1..4) :
     \A k \in 1..Len(s) : At(t, s[k]) = z[1] => z[2] <= Rank(s[k])}

(* These tasks do what a task of rank r about the node a asks for.         *)
Replaces(f, a, r, t) ==
  /\ \A k \in 1..Len(f) :
       /\ f[k].do \in {"drop", "last", "sweep", "visit"}
       /\ At(t, f[k]) \in DOMAIN t /\ IsPrefix(a, At(t, f[k]))
       /\ f[k].do = "drop" => k = 1 /\ Leaf(t, At(t, f[k])) /\ t[At(t, f[k])].id = f[k].id
  /\ DeepFirst(f, t)
  /\ \A x \in DOMAIN t : IsPrefix(a, x) => Covered(f, Len(f), t, x)
  /\ \E k \in 1..Len(f) : At(t, f[k]) = a /\ Rank(f[k]) < r

LEMMA RankIs ==
  ASSUME NEW task, task.do \in {"drop", "last", "sweep", "visit"}
  PROVE  Rank(task) \in 1..4
BY DEF Rank

LEMMA DeleteGoesOn ==
  ASSUME TreeConstantsOK, NEW t, WellFormed(t), NEW q \in Queries, NEW v, NEW w, NEW F,
         NEW s \in Seq(F), s # <<>>, NEW f \in Seq(F), DeletePlan(s, t, v, q),
         Replaces(f, At(t, s[1]), Rank(s[1]), t),
         \A p \in w \cap DOMAIN t :
           \/ Seen(f, t, p)
           \/ p \in v /\ (p = At(t, s[1]) => s[1].do \notin {"last", "drop"})
  PROVE  LET u == f \o Tail(s)
             z == <<At(t, s[1]), Rank(s[1])>> IN
         /\ DeletePlan(u, t, w, q)
         /\ z \in Left(s, t, q) /\ Left(u, t, q) \subseteq Left(s, t, q) \ {z}
<1> DEFINE u == f \o Tail(s)
           m == Len(f)
           n == Len(s)
           a == At(t, s[1])
           z == <<a, Rank(s[1])>>
           P == Seq(Names)
<1>1. /\ u \in Seq(F) /\ Len(u) = m + (n - 1) /\ m \in Nat /\ n \in Nat \ {0}
      /\ \A i \in 1..m : u[i] = f[i]
      /\ \A i \in 2..n : u[m + i - 1] = s[i]
      /\ \A k \in 1..Len(u) : k \in 1..m \/ \E i \in 2..n : k = m + i - 1
  BY HeadReplaced
<1>2. q.src \in P /\ \A x \in DOMAIN t : x \in P
  BY NodesAre, QueriesAre
<1> HIDE DEF u
<1>3. \A k \in 1..n : PlaceOK(s, k, t, q)
  BY DEF DeletePlan
<1>4. a \in DOMAIN t /\ IsPrefix(q.src, a) /\ a \in P /\ Rank(s[1]) \in 1..4 /\ 1 \in 1..n
  <2>1. 1 \in 1..n
    BY <1>1
  <2>2. a \in DOMAIN t /\ IsPrefix(q.src, a) /\ s[1].do \in {"drop", "last", "sweep", "visit"}
    BY <1>3, <2>1 DEF PlaceOK
  <2> QED BY <1>2, <2>1, <2>2, RankIs
<1>5. \A k \in 1..m :
        /\ f[k].do \in {"drop", "last", "sweep", "visit"}
        /\ At(t, f[k]) \in DOMAIN t /\ IsPrefix(a, At(t, f[k]))
        /\ f[k].do = "drop" => k = 1 /\ Leaf(t, At(t, f[k])) /\ t[At(t, f[k])].id = f[k].id
  BY DEF Replaces
<1>6. \A j, k \in 1..n : j < k => ~IsPrefix(At(t, s[j]), At(t, s[k]))
  BY DEF DeletePlan, DeepFirst
<1>7. \A j, k \in 1..m : j < k => ~IsPrefix(At(t, f[j]), At(t, f[k]))
  BY DEF Replaces, DeepFirst
<1>8. \A x \in DOMAIN t : IsPrefix(a, x) => Covered(f, m, t, x)
  BY DEF Replaces
<1> HIDE DEF a
<1>9. ASSUME NEW k \in 1..Len(u) PROVE PlaceOK(u, k, t, q)
  <2>1. CASE k \in 1..m
    <3>1. IsPrefix(q.src, At(t, f[k]))
      BY <1>2, <1>4, <1>5, <2>1, PrefixOrder
    <3> QED BY <1>1, <1>5, <2>1, <3>1 DEF PlaceOK
  <2>2. ASSUME NEW i \in 2..n, k = m + i - 1 PROVE PlaceOK(u, k, t, q)
    <3>1. i \in 1..n /\ i # 1 /\ u[k] = s[i]
      BY <1>1, <2>2
    <3> QED BY <1>3, <3>1 DEF PlaceOK
  <2> QED BY <1>1, <2>1, <2>2
<1>10. ASSUME NEW x \in DOMAIN t, NEW i \in 1..n, Covered(s, i, t, x)
       PROVE  Covered(u, m + i - 1, t, x)
  <2>1. PICK j \in 1..i : IsPrefix(At(t, s[j]), x)
    BY <1>10 DEF Covered
  <2>2. CASE j = 1
    <3>1. PICK h \in 1..m : IsPrefix(At(t, f[h]), x)
      BY <1>8, <2>1, <2>2 DEF Covered, a
    <3>2. h \in 1..(m + i - 1) /\ u[h] = f[h]
      BY <1>1
    <3> QED BY <3>1, <3>2 DEF Covered
  <2>3. CASE j # 1
    <3>1. j \in 2..n /\ m + j - 1 \in 1..(m + i - 1)
      BY <1>1, <2>3
    <3>2. u[m + j - 1] = s[j]
      BY <1>1, <3>1
    <3> QED BY <2>1, <3>1, <3>2 DEF Covered
  <2> QED BY <2>2, <2>3
<1>11. DeepFirst(u, t)
  <2>1. ASSUME NEW j \in 1..Len(u), NEW k \in 1..Len(u), j < k
        PROVE  ~IsPrefix(At(t, u[j]), At(t, u[k]))
    <3>1. CASE k \in 1..m
      <4>1. j \in 1..m /\ u[j] = f[j] /\ u[k] = f[k]
        BY <1>1, <2>1, <3>1
      <4> QED BY <1>7, <2>1, <3>1, <4>1
    <3>2. ASSUME NEW i \in 2..n, k = m + i - 1, j \in 1..m
          PROVE  ~IsPrefix(At(t, u[j]), At(t, u[k]))
      <4>a. u[j] = f[j]
        BY <1>1, <3>2
      <4>b. u[k] = s[i]
        BY <1>1, <3>2
      <4>1. u[j] = f[j] /\ u[k] = s[i] /\ i \in 1..n /\ 1 < i
        BY <1>1, <4>a, <4>b
      <4>2. ~IsPrefix(a, At(t, s[i]))
        BY <1>4, <1>6, <4>1 DEF a
      <4>3. At(t, s[i]) \in P /\ At(t, f[j]) \in P /\ IsPrefix(a, At(t, f[j]))
        BY <1>2, <1>3, <1>5, <3>2, <4>1 DEF PlaceOK
      <4> QED BY <1>4, <4>1, <4>2, <4>3, PrefixOrder
    <3>3. ASSUME NEW i \in 2..n, k = m + i - 1, NEW h \in 2..n, j = m + h - 1
          PROVE  ~IsPrefix(At(t, u[j]), At(t, u[k]))
      <4>a. u[j] = s[h]
        BY <1>1, <3>3
      <4>b. u[k] = s[i]
        BY <1>1, <3>3
      <4>c. i \in 1..n /\ h \in 1..n /\ h < i
        BY <1>1, <2>1, <3>3
      <4>1. u[j] = s[h] /\ u[k] = s[i] /\ i \in 1..n /\ h \in 1..n /\ h < i
        BY <4>a, <4>b, <4>c
      <4> QED BY <1>6, <4>1
    <3> QED BY <1>1, <3>1, <3>2, <3>3
  <2>2. ASSUME NEW k \in 1..Len(u), u[k].do = "last",
               NEW x \in DOMAIN t, IsPrefix(At(t, u[k]), x), x # At(t, u[k])
        PROVE  Covered(u, k - 1, t, x)
    <3>1. CASE k \in 1..m
      <4>1. Covered(f, k - 1, t, x)
        BY <1>1, <2>2, <3>1 DEF Replaces, DeepFirst
      <4>2. PICK h \in 1..(k - 1) : IsPrefix(At(t, f[h]), x)
        BY <4>1 DEF Covered
      <4>3. u[h] = f[h]
        <5>1. h \in 1..m
          BY <1>1, <3>1
        <5> QED BY <1>1, <5>1
      <4> QED BY <4>2, <4>3 DEF Covered
    <3>2. ASSUME NEW i \in 2..n, k = m + i - 1 PROVE Covered(u, k - 1, t, x)
      <4>1. u[k] = s[i] /\ i \in 1..n /\ i - 1 \in 1..n /\ m + (i - 1) - 1 = k - 1
        BY <1>1, <3>2
      <4>2. Covered(s, i - 1, t, x)
        BY <2>2, <4>1 DEF DeletePlan, DeepFirst
      <4> QED BY <1>10, <4>1, <4>2
    <3> QED BY <1>1, <3>1, <3>2
  <2> QED BY <2>1, <2>2 DEF DeepFirst
<1>12. \A x \in Branch(t, q.src) : Covered(u, Len(u), t, x)
  <2>1. n \in 1..n /\ Len(u) = m + n - 1
    BY <1>1
  <2>2. \A x \in Branch(t, q.src) : x \in DOMAIN t /\ Covered(s, n, t, x)
    BY DEF DeletePlan, Branch
  <2> QED BY <1>10, <2>1, <2>2
<1>13. ASSUME NEW p \in w \cap DOMAIN t PROVE Seen(u, t, p)
  <2>1. CASE Seen(f, t, p)
    <3>1. PICK k \in 1..m : f[k].do \in {"last", "drop"} /\ At(t, f[k]) = p
      BY <2>1 DEF Seen
    <3>2. k \in 1..Len(u) /\ u[k] = f[k]
      BY <1>1
    <3> QED BY <3>1, <3>2 DEF Seen
  <2>2. CASE p \in v /\ (p = a => s[1].do \notin {"last", "drop"})
    <3>1. PICK i \in 1..n : s[i].do \in {"last", "drop"} /\ At(t, s[i]) = p
      BY <2>2 DEF DeletePlan, Seen
    <3>2. i # 1
      BY <2>2, <3>1 DEF a
    <3>3. i \in 2..n /\ m + i - 1 \in 1..Len(u)
      BY <1>1, <3>2
    <3>4. u[m + i - 1] = s[i]
      BY <1>1, <3>3
    <3> QED BY <3>1, <3>3, <3>4 DEF Seen
  <2> QED BY <2>1, <2>2 DEF a
<1>14. DeletePlan(u, t, w, q)
  BY <1>9, <1>11, <1>12, <1>13 DEF DeletePlan
<1>15. z \in Left(s, t, q)
  <2>1. ASSUME NEW k \in 1..n, At(t, s[k]) = a PROVE k = 1
    <3>1. k # 1 => 1 < k
      BY <1>1
    <3>2. IsPrefix(a, a)
      BY <1>4, PrefixOrder
    <3> QED BY <1>4, <1>6, <2>1, <3>1, <3>2 DEF a
  <2>2. a \in Branch(t, q.src)
    BY <1>4 DEF Branch
  <2>3. z \in Branch(t, q.src) \X (1..4) /\ z[1] = a /\ z[2] = Rank(s[1])
    BY <1>4, <2>2
  <2>4. \A k \in 1..n : At(t, s[k]) = z[1] => z[2] <= Rank(s[k])
    <3> HIDE DEF z
    <3> QED BY <1>4, <2>1, <2>3
  <2> HIDE DEF z
  <2> QED BY <2>3, <2>4 DEF Left
<1>16. PICK g \in 1..m : At(t, f[g]) = a /\ Rank(f[g]) < Rank(s[1])
  BY DEF Replaces, a
<1>17. g \in 1..Len(u) /\ u[g] = f[g] /\ Rank(f[g]) \in 1..4
  <2>1. g \in 1..Len(u) /\ u[g] = f[g]
    BY <1>1
  <2>2. f[g].do \in {"drop", "last", "sweep", "visit"}
    BY <1>5
  <2> QED BY <2>1, <2>2, RankIs
<1>18. ASSUME NEW y \in Left(u, t, q) PROVE y \in Left(s, t, q) /\ y # z
  <2>1. y \in Branch(t, q.src) \X (1..4)
        /\ \A k \in 1..Len(u) : At(t, u[k]) = y[1] => y[2] <= Rank(u[k])
    BY DEF Left
  <2>2. y[2] \in 1..4
    BY <2>1
  <2>3. y[1] = a => y[2] < Rank(s[1])
    BY <1>4, <1>16, <1>17, <2>1, <2>2
  <2>4. y # z
    BY <1>4, <2>2, <2>3
  <2>5. ASSUME NEW k \in 1..n, At(t, s[k]) = y[1] PROVE y[2] <= Rank(s[k])
    <3>1. CASE k = 1
      BY <1>4, <2>2, <2>3, <2>5, <3>1 DEF a
    <3>2. CASE k # 1
      <4>1. k \in 2..n /\ m + k - 1 \in 1..Len(u)
        BY <1>1, <3>2
      <4>2. u[m + k - 1] = s[k]
        BY <1>1, <4>1
      <4> QED BY <2>1, <2>5, <4>1, <4>2
    <3> QED BY <3>1, <3>2
  <2> QED BY <2>1, <2>4, <2>5 DEF Left
<1> HIDE DEF z
<1> QED BY <1>14, <1>15, <1>18 DEF u, z, a

LEMMA LeafIsBranch ==
  ASSUME TreeConstantsOK, NEW t, WellFormed(t), NEW p \in DOMAIN t, Leaf(t, p)
  PROVE  Branch(t, p) = {p}
<1>1. p \in Branch(t, p)
  BY NodesAre, PrefixOrder DEF Branch
<1> QED BY <1>1 DEF Leaf, Branch

(* The node of the first task is deleted.                                  *)
LEMMA DeleteDrops ==
  ASSUME TreeConstantsOK, NEW t, WellFormed(t), NEW q \in Queries, NEW v, NEW F,
         NEW s \in Seq(F), s # <<>>, DeletePlan(s, t, v, q), s[1].do = "drop",
         NEW r, DOMAIN r = DOMAIN t \ {At(t, s[1])}, \A x \in DOMAIN r : r[x] = t[x]
  PROVE  LET u == Tail(s)
             z == <<At(t, s[1]), Rank(s[1])>> IN
         /\ DeletePlan(u, r, v, q)
         /\ z \in Left(s, t, q) /\ Left(u, r, q) \subseteq Left(s, t, q) \ {z}
<1> DEFINE u == Tail(s)
           n == Len(s)
           a == At(t, s[1])
           z == <<a, Rank(s[1])>>
           P == Seq(Names)
<1>1. /\ u \in Seq(F) /\ Len(u) = n - 1 /\ n \in Nat \ {0}
      /\ \A i \in 1..Len(u) : u[i] = s[i + 1] /\ i + 1 \in 2..n /\ i + 1 \in 1..n
      /\ \A i \in 2..n : i - 1 \in 1..Len(u) /\ u[i - 1] = s[i] /\ i \in 1..n
  <2>1. /\ u \in Seq(F) /\ Len(u) = n - 1 /\ n \in Nat \ {0}
        /\ \A i \in 1..(n - 1) : u[i] = s[i + 1]
    OBVIOUS
  <2> HIDE DEF u, n
  <2>2. \A i \in 2..n : i - 1 \in 1..(n - 1) /\ (i - 1) + 1 = i /\ i \in 1..n
    BY <2>1
  <2>3. \A i \in 1..(n - 1) : i + 1 \in 2..n /\ i + 1 \in 1..n
    BY <2>1
  <2> QED BY <2>1, <2>2, <2>3
<1>2. q.src \in P /\ \A x \in DOMAIN t : x \in P
  BY NodesAre, QueriesAre
<1> HIDE DEF u
<1>3. \A k \in 1..n : PlaceOK(s, k, t, q)
  BY DEF DeletePlan
<1>4. /\ 1 \in 1..n /\ a \in DOMAIN t /\ IsPrefix(q.src, a) /\ a \in P
      /\ Leaf(t, a) /\ Rank(s[1]) = 1
  BY <1>1, <1>2, <1>3 DEF PlaceOK, Rank
<1>5. \A j, k \in 1..n : j < k => ~IsPrefix(At(t, s[j]), At(t, s[k]))
  BY DEF DeletePlan, DeepFirst
<1>6. \A x \in DOMAIN t : x \in DOMAIN r <=> x # a
  OBVIOUS
<1> HIDE DEF a
<1>7. ASSUME NEW i \in 2..n
      PROVE  /\ s[i].do # "drop" /\ At(r, s[i]) = At(t, s[i])
             /\ At(t, s[i]) \in DOMAIN r /\ At(t, s[i]) # a
             /\ i \in 1..n
  <2>1. i \in 1..n /\ 1 < i /\ i # 1
    BY <1>1
  <2>2. s[i].do # "drop" /\ At(t, s[i]) \in DOMAIN t
    BY <1>3, <2>1 DEF PlaceOK
  <2>3. At(r, s[i]) = At(t, s[i])
    BY <2>2 DEF At
  <2>4. ~IsPrefix(a, At(t, s[i]))
    BY <1>4, <1>5, <2>1 DEF a
  <2>5. IsPrefix(a, a)
    BY <1>4, PrefixOrder
  <2>6. At(t, s[i]) # a
    BY <2>4, <2>5
  <2> QED BY <1>6, <2>1, <2>2, <2>3, <2>6
<1>8. ASSUME NEW k \in 1..Len(u) PROVE PlaceOK(u, k, r, q)
  <2>1. u[k] = s[k + 1] /\ k + 1 \in 2..n /\ k + 1 \in 1..n
    BY <1>1
  <2> QED BY <1>3, <1>7, <2>1 DEF PlaceOK
<1>9. ASSUME NEW x \in DOMAIN r, NEW i \in 1..n, Covered(s, i, t, x)
      PROVE  Covered(u, i - 1, r, x)
  <2>1. PICK j \in 1..i : IsPrefix(At(t, s[j]), x)
    BY <1>9 DEF Covered
  <2>2. x # a /\ x \in DOMAIN t
    BY <1>6
  <2>3. j # 1
    BY <1>4, <2>1, <2>2 DEF Leaf, a
  <2>4. j \in 2..n /\ j - 1 \in 1..(i - 1)
    BY <1>1, <2>3
  <2>5. u[j - 1] = s[j] /\ At(r, s[j]) = At(t, s[j])
    BY <1>1, <1>7, <2>4
  <2> QED BY <2>1, <2>4, <2>5 DEF Covered
<1>10. DeepFirst(u, r)
  <2>1. ASSUME NEW j \in 1..Len(u), NEW k \in 1..Len(u), j < k
        PROVE  ~IsPrefix(At(r, u[j]), At(r, u[k]))
    <3>a. u[j] = s[j + 1] /\ j + 1 \in 2..n /\ j + 1 \in 1..n
      BY <1>1
    <3>b. u[k] = s[k + 1] /\ k + 1 \in 2..n /\ k + 1 \in 1..n
      BY <1>1
    <3>c. j + 1 < k + 1
      BY <1>1, <2>1
    <3>1. /\ u[j] = s[j + 1] /\ j + 1 \in 2..n /\ j + 1 \in 1..n /\ j + 1 < k + 1
          /\ u[k] = s[k + 1] /\ k + 1 \in 2..n /\ k + 1 \in 1..n
      BY <3>a, <3>b, <3>c
    <3> QED BY <1>5, <1>7, <3>1
  <2>2. ASSUME NEW k \in 1..Len(u), u[k].do = "last",
               NEW x \in DOMAIN r, IsPrefix(At(r, u[k]), x), x # At(r, u[k])
        PROVE  Covered(u, k - 1, r, x)
    <3>1. u[k] = s[k + 1] /\ k + 1 \in 2..n /\ k + 1 \in 1..n /\ k \in 1..n
          /\ (k + 1) - 1 = k
      BY <1>1
    <3>2. At(r, u[k]) = At(t, s[k + 1]) /\ x \in DOMAIN t
      BY <1>7, <3>1
    <3>3. Covered(s, k, t, x)
      BY <2>2, <3>1, <3>2 DEF DeletePlan, DeepFirst
    <3> QED BY <1>9, <3>1, <3>3
  <2> QED BY <2>1, <2>2 DEF DeepFirst
<1>11. ASSUME NEW x \in Branch(r, q.src) PROVE Covered(u, Len(u), r, x) /\ x \in Branch(t, q.src)
  <2>1. x \in DOMAIN r /\ x \in Branch(t, q.src)
    BY DEF Branch
  <2>2. Covered(s, n, t, x) /\ n \in 1..n /\ n - 1 = Len(u)
    BY <1>1, <2>1 DEF DeletePlan
  <2> QED BY <1>9, <2>1, <2>2
<1>12. ASSUME NEW p \in v \cap DOMAIN r PROVE Seen(u, r, p)
  <2>1. p \in v \cap DOMAIN t /\ p # a
    BY <1>6
  <2>2. PICK i \in 1..n : s[i].do \in {"last", "drop"} /\ At(t, s[i]) = p
    BY <2>1 DEF DeletePlan, Seen
  <2>3. i \in 2..n
    <3>1. i # 1
      BY <2>1, <2>2 DEF a
    <3> QED BY <1>1, <3>1
  <2>4. u[i - 1] = s[i] /\ i - 1 \in 1..Len(u) /\ At(r, s[i]) = p
    BY <1>1, <1>7, <2>2, <2>3
  <2> QED BY <2>2, <2>4 DEF Seen
<1>13. DeletePlan(u, r, v, q)
  BY <1>8, <1>10, <1>11, <1>12 DEF DeletePlan
<1>14. z \in Left(s, t, q)
  <2>1. ASSUME NEW k \in 1..n, At(t, s[k]) = a PROVE k = 1
    <3>1. k # 1 => k \in 2..n
      BY <1>1
    <3> QED BY <1>7, <2>1, <3>1
  <2>2. a \in Branch(t, q.src)
    BY <1>4 DEF Branch
  <2>3. z \in Branch(t, q.src) \X (1..4) /\ z[1] = a /\ z[2] = Rank(s[1])
    BY <1>4, <2>2
  <2>4. \A k \in 1..n : At(t, s[k]) = z[1] => z[2] <= Rank(s[k])
    <3> HIDE DEF z
    <3> QED BY <1>4, <2>1, <2>3
  <2> HIDE DEF z
  <2> QED BY <2>3, <2>4 DEF Left
<1>15. ASSUME NEW y \in Left(u, r, q) PROVE y \in Left(s, t, q) /\ y # z
  <2>1. y \in Branch(r, q.src) \X (1..4)
        /\ \A k \in 1..Len(u) : At(r, u[k]) = y[1] => y[2] <= Rank(u[k])
    BY DEF Left
  <2>2. y[1] \in DOMAIN r /\ y[1] # a /\ y \in Branch(t, q.src) \X (1..4)
    BY <1>6, <1>11, <2>1 DEF Branch
  <2>3. y # z
    BY <2>2
  <2>4. ASSUME NEW k \in 1..n, At(t, s[k]) = y[1] PROVE y[2] <= Rank(s[k])
    <3>1. k \in 2..n
      <4>1. k # 1
        BY <2>2, <2>4 DEF a
      <4> QED BY <1>1, <4>1
    <3>2. u[k - 1] = s[k] /\ k - 1 \in 1..Len(u) /\ At(r, s[k]) = y[1]
      BY <1>1, <1>7, <2>4, <3>1
    <3> QED BY <2>1, <3>2
  <2> QED BY <2>2, <2>3, <2>4 DEF Left
<1> HIDE DEF z
<1> QED BY <1>13, <1>14, <1>15 DEF u, z, a

(* Each of the other steps replaces its task by others.                    *)
LEMMA OneTaskReplaces ==
  ASSUME TreeConstantsOK, NEW t, WellFormed(t), NEW a \in DOMAIN t, NEW r, NEW new,
         new.do \in {"drop", "sweep"}, At(t, new) = a, Rank(new) < r,
         new.do = "drop" => Leaf(t, a) /\ t[a].id = new.id
  PROVE  Replaces(<<new>>, a, r, t)
<1> DEFINE f == <<new>>
<1>1. Len(f) = 1 /\ f[1] = new /\ \A k \in 1..Len(f) : k = 1
  OBVIOUS
<1>2. IsPrefix(a, a)
  BY NodesAre, PrefixOrder
<1> HIDE DEF f
<1>3. DeepFirst(f, t)
  BY <1>1 DEF DeepFirst
<1>4. \A k \in 1..Len(f) :
        /\ f[k].do \in {"drop", "last", "sweep", "visit"}
        /\ At(t, f[k]) \in DOMAIN t /\ IsPrefix(a, At(t, f[k]))
        /\ f[k].do = "drop" => k = 1 /\ Leaf(t, At(t, f[k])) /\ t[At(t, f[k])].id = f[k].id
  BY <1>1, <1>2 
<1>5. \A x \in DOMAIN t : IsPrefix(a, x) => Covered(f, Len(f), t, x)
  BY <1>1 DEF Covered
<1>6. \E k \in 1..Len(f) : At(t, f[k]) = a /\ Rank(f[k]) < r
  BY <1>1 
<1> QED BY <1>3, <1>4, <1>5, <1>6 DEF Replaces, f

LEMMA SweepReplaces ==
  ASSUME TreeConstantsOK, WellFormed(tree), NEW p \in DOMAIN tree,
         NEW found \in Swept(p), NEW order \in DeepestFirst(found)
  PROVE  /\ Replaces(SweepTasks(order, p), p, 3, tree)
         /\ Seen(SweepTasks(order, p), tree, p)
         /\ SweepTasks(order, p) \in Seq({Visit(c) : c \in found} \cup {Final(p)})
<1> DEFINE m == Len(order)
           last == Final(p)
           f == SweepTasks(order, p)
           P == Seq(Names)
<1>1. p \in P /\ \A x \in DOMAIN tree : x \in P
  BY NodesAre
<1>2. /\ found \subseteq DOMAIN tree
      /\ \A c \in found : IsPrefix(p, c) /\ c # p
      /\ \A x \in DOMAIN tree : IsPrefix(p, x) /\ x # p => \E c \in found : IsPrefix(c, x)
  <2>1. CASE found = Branch(tree, p) \ {p}
    BY <1>1, <2>1, PrefixOrder DEF Branch
  <2>2. CASE found = Listing(p)
    BY <1>1, <2>2, KidsAre DEF Listing
  <2> QED BY <2>1, <2>2 DEF Swept
<1>3. IsFiniteSet(found) /\ order \in SetToSeqs(found)
      /\ \A j, k \in DOMAIN order : j < k => Len(order[j]) >= Len(order[k])
  BY <1>2, TreesAreFinite, FS_Subset DEF DeepestFirst
<1>4. /\ order \in Seq(found) /\ m \in Nat /\ DOMAIN order = 1..m
      /\ \A k \in 1..m : order[k] \in found
      /\ \A j, k \in 1..m : j # k => order[j] # order[k]
      /\ \A c \in found : \E k \in 1..m : order[k] = c
  <2>1. /\ order \in Seq(found) /\ DOMAIN order = 1..Len(order)
        /\ \A j, k \in 1..Len(order) : j # k => order[j] # order[k]
        /\ \A c \in found : \E k \in 1..Len(order) : order[k] = c
    BY <1>3, ListsAll
  <2> QED BY <2>1
<1>5. /\ Len(f) = m + 1 /\ \A k \in 1..m : f[k] = Visit(order[k])
      /\ f[m + 1] = last /\ f \in Seq({Visit(c) : c \in found} \cup {last})
  <2> DEFINE g == [k \in 1..m |-> Visit(order[k])]
             T == {Visit(c) : c \in found}
  <2>1. f = g \o <<last>>
    BY <1>4 DEF SweepTasks, Final
  <2>2. g \in Seq(T) /\ Len(g) = m /\ \A k \in 1..m : g[k] = Visit(order[k])
    BY <1>4
  <2> HIDE DEF f, g, T, last
  <2> DEFINE G == T \cup {last}
  <2>3. g \in Seq(G) /\ <<last>> \in Seq(G) /\ Len(<<last>>) = 1 /\ <<last>>[1] = last
    BY <2>2
  <2> HIDE DEF G
  <2>4. Joined(f, g, <<last>>) /\ f \in Seq(G)
    BY <2>1, <2>3, JoinedIs
  <2>5. f \in Seq({Visit(c) : c \in found} \cup {last})
    BY <2>4 DEF G, T
  <2> QED BY <2>2, <2>3, <2>4, <2>5 DEF Joined
<1> HIDE DEF f, last
<1>6. \A k \in 1..Len(f) : k \in 1..m \/ k = m + 1
  BY <1>4, <1>5
<1>7. \A k \in 1..m : /\ At(tree, f[k]) = order[k] /\ f[k].do = "visit"
                      /\ order[k] \in DOMAIN tree /\ order[k] \in P
                      /\ IsPrefix(p, order[k]) /\ order[k] # p
  <2>1. \A k \in 1..m : order[k] \in found
    BY <1>4
  <2>2. \A c \in found : c \in DOMAIN tree /\ c \in P /\ IsPrefix(p, c) /\ c # p
    BY <1>1, <1>2
  <2>3. \A c : At(tree, Visit(c)) = c /\ Visit(c).do = "visit"
    BY DEF At, Visit
  <2> QED BY <1>5, <2>1, <2>2, <2>3
<1>8. At(tree, f[m + 1]) = p /\ f[m + 1].do = "last" /\ Rank(f[m + 1]) = 2
      /\ m + 1 \in 1..Len(f)
  BY <1>4, <1>5, TaskPlaces DEF last
<1>9. IsPrefix(p, p)
  BY <1>1, PrefixOrder
<1>10. ASSUME NEW k \in 1..Len(f)
       PROVE  /\ f[k].do \in {"last", "visit"}
              /\ At(tree, f[k]) \in DOMAIN tree /\ IsPrefix(p, At(tree, f[k]))
  BY <1>6, <1>7, <1>8, <1>9
<1>11. ASSUME NEW x \in DOMAIN tree, IsPrefix(p, x), x # p PROVE Covered(f, m, tree, x)
  <2>1. PICK c \in found : IsPrefix(c, x)
    BY <1>2, <1>11
  <2>2. PICK k \in 1..m : order[k] = c
    BY <1>4
  <2> QED BY <1>7, <2>1, <2>2 DEF Covered
<1>12. DeepFirst(f, tree)
  <2>1. ASSUME NEW j \in 1..Len(f), NEW k \in 1..Len(f), j < k
        PROVE  ~IsPrefix(At(tree, f[j]), At(tree, f[k]))
    <3>1. j \in 1..m
      BY <1>4, <1>5, <2>1
    <3>2. CASE k = m + 1
      <4>1. ~IsPrefix(order[j], p)
        <5>1. Len(p) < Len(order[j])
          <6>1. Len(p) <= Len(order[j]) /\ Len(p) # Len(order[j])
            BY <1>1, <1>7, <3>1, PrefixIs, PrefixOrder
          <6> QED BY <1>1, <1>7, <3>1, <6>1
        <5>2. ~(Len(order[j]) <= Len(p))
          BY <1>1, <1>7, <3>1, <5>1
        <5> QED BY <1>1, <1>7, <3>1, <5>2, PrefixIs
      <4> QED BY <1>7, <1>8, <3>1, <3>2, <4>1
    <3>3. CASE k \in 1..m
      <4>1. order[j] # order[k] /\ Len(order[j]) >= Len(order[k])
            /\ order[j] \in P /\ order[k] \in P
        <5>1. j # k /\ j \in DOMAIN order /\ k \in DOMAIN order
          BY <1>4, <2>1, <3>1, <3>3
        <5>2. Len(order[j]) >= Len(order[k])
          BY <1>3, <2>1, <5>1
        <5> QED BY <1>4, <1>7, <3>1, <3>3, <5>1, <5>2
      <4>2. ASSUME IsPrefix(order[j], order[k]) PROVE FALSE
        <5>1. Len(order[j]) <= Len(order[k])
          BY <4>1, <4>2, PrefixIs
        <5>2. Len(order[j]) = Len(order[k])
          BY <4>1, <5>1
        <5> QED BY <4>1, <4>2, <5>2, PrefixOrder
      <4> QED BY <1>7, <3>1, <3>3, <4>2
    <3> QED BY <1>6, <3>2, <3>3
  <2>2. ASSUME NEW k \in 1..Len(f), f[k].do = "last",
               NEW x \in DOMAIN tree, IsPrefix(At(tree, f[k]), x), x # At(tree, f[k])
        PROVE  Covered(f, k - 1, tree, x)
    <3>1. k = m + 1 /\ k - 1 = m
      BY <1>4, <1>6, <1>7, <2>2
    <3> QED BY <1>8, <1>11, <2>2, <3>1
  <2> QED BY <2>1, <2>2 DEF DeepFirst
<1>13. ASSUME NEW x \in DOMAIN tree, IsPrefix(p, x) PROVE Covered(f, Len(f), tree, x)
  BY <1>8, <1>13 DEF Covered
<1>14. Replaces(f, p, 3, tree)
  <2>1. \A k \in 1..Len(f) :
          /\ f[k].do \in {"drop", "last", "sweep", "visit"}
          /\ At(tree, f[k]) \in DOMAIN tree /\ IsPrefix(p, At(tree, f[k]))
          /\ f[k].do = "drop" =>
               k = 1 /\ Leaf(tree, At(tree, f[k])) /\ tree[At(tree, f[k])].id = f[k].id
    BY <1>8, <1>10
  <2>2. \A x \in DOMAIN tree : IsPrefix(p, x) => Covered(f, Len(f), tree, x)
    BY <1>8, <1>13
  <2>3. \E k \in 1..Len(f) : At(tree, f[k]) = p /\ Rank(f[k]) < 3
    BY <1>8
  <2> QED BY <1>12, <2>1, <2>2, <2>3 DEF Replaces
<1>15. Seen(f, tree, p)
  BY <1>8 DEF Seen
<1> QED BY <1>5, <1>14, <1>15 DEF f, last

LEMMA ShrinksByOne ==
  ASSUME NEW S, IsFiniteSet(S), NEW z \in S, NEW T, T \subseteq S \ {z}
  PROVE  /\ IsFiniteSet(T) /\ Cardinality(T) \in Nat /\ Cardinality(S) \in Nat
         /\ Cardinality(T) + 1 <= Cardinality(S)
<1> DEFINE U == S \ {z}
<1>1. IsFiniteSet(U) /\ Cardinality(U) = Cardinality(S) - 1 /\ Cardinality(S) \in Nat
  BY FS_RemoveElement, FS_CardinalityType
<1> HIDE DEF U
<1>2. IsFiniteSet(T) /\ Cardinality(T) <= Cardinality(U) /\ Cardinality(T) \in Nat
  <2>1. T \in SUBSET U
    BY DEF U
  <2> QED BY <1>1, <2>1, FS_Subset, FS_CardinalityType
<1> QED BY <1>1, <1>2

LEMMA FourEach ==
  ASSUME NEW B, IsFiniteSet(B), NEW S, S \subseteq B \X (1..4)
  PROVE  /\ IsFiniteSet(S) /\ Cardinality(S) \in Nat /\ Cardinality(B) \in Nat
         /\ Cardinality(S) <= 4 * Cardinality(B)
<1> DEFINE D == 1..4
           U == B \X D
<1>1. IsFiniteSet(D) /\ Cardinality(D) = 4
  <2>1. 1 \in Int /\ 4 \in Int
    OBVIOUS
  <2>2. IsFiniteSet(1..4) /\ Cardinality(1..4) = IF 1 > 4 THEN 0 ELSE 4 - 1 + 1
    BY <2>1, FS_Interval
  <2> QED BY <2>2
<1> HIDE DEF D
<1>2. IsFiniteSet(U) /\ Cardinality(U) = Cardinality(B) * Cardinality(D)
  BY <1>1, FS_Product
<1>3. S \in SUBSET U
  BY DEF U, D
<1> HIDE DEF U
<1>4. IsFiniteSet(S) /\ Cardinality(S) <= Cardinality(U) /\ Cardinality(S) \in Nat
      /\ Cardinality(B) \in Nat
  BY <1>2, <1>3, FS_Subset, FS_CardinalityType
<1>5. Cardinality(U) = Cardinality(B) * 4
  BY <1>1, <1>2
<1>6. Cardinality(B) * 4 = 4 * Cardinality(B)
  BY <1>4
<1> QED BY <1>4, <1>5, <1>6

LEMMA BranchesAreFinite ==
  ASSUME TreeConstantsOK, NEW t, WellFormed(t), NEW p
  PROVE  /\ IsFiniteSet(Branch(t, p)) /\ Cardinality(Branch(t, p)) \in Nat
         /\ Cardinality(Branch(t, p)) <= Cardinality(DOMAIN t)
<1>1. Branch(t, p) \in SUBSET DOMAIN t
  BY DEF Branch
<1> QED BY <1>1, TreesAreFinite, FS_Subset, FS_CardinalityType

(* What a delete has done to the tree so far, while it goes on and when it *)
(* has ended.                                                              *)
Removed ==
  /\ DOMAIN tree \subseteq DOMAIN before /\ \A x \in DOMAIN tree : tree[x] = before[x]
  /\ \A x \in DOMAIN before : ~IsPrefix(query.src, x) => x \in DOMAIN tree
  /\ gone \subseteq IdsOf(before, Branch(before, query.src))
  /\ mine = {} /\ got = {}

Budget == 2 + 5 * Cardinality(Branch(before, query.src))

Deleting ==
  /\ Removed /\ Accepted(before, query)
  /\ DeletePlan(agenda, tree, visited, query)
  /\ calls + Cardinality(Left(agenda, tree, query)) <= Budget

Deleted ==
  /\ Removed /\ (gone = {} \/ Accepted(before, query))
  /\ result = "ok" => Branch(tree, query.src) = {}
  /\ calls <= Budget

LEMMA LeftIs ==
  ASSUME TreeConstantsOK, NEW t, WellFormed(t), NEW q, NEW s
  PROVE  /\ IsFiniteSet(Left(s, t, q)) /\ Cardinality(Left(s, t, q)) \in Nat
         /\ Cardinality(Left(s, t, q)) <= 4 * Cardinality(Branch(t, q.src))
<1>1. Left(s, t, q) \subseteq Branch(t, q.src) \X (1..4)
  BY DEF Left
<1> QED BY <1>1, BranchesAreFinite, FourEach

LEMMA FreshIsRemoved ==
  ASSUME Fresh
  PROVE  Removed
BY DEF Fresh, Removed, IdsOf

LEMMA PlannedDelete == TreeInv /\ Planned /\ query.op = "delete" => Deleting
<1> SUFFICES ASSUME TreeInv, Planned, query.op = "delete" PROVE Deleting
  OBVIOUS
<1> USE TreeConstantsOK
<1> DEFINE src == query.src
           B == Branch(tree, src)
           node == tree[src]
<1>1. /\ WellFormed(tree) /\ Fresh /\ src \in DOMAIN tree /\ tree = before /\ visited = {}
      /\ agenda = Plan(query, node) /\ calls \in Nat
      /\ calls <= 2 + Cardinality(B) /\ Accepted(before, query)
  BY DEF TreeInv, Stored, Recorded, Planned, Fresh
<1>2. Removed
  BY <1>1, FreshIsRemoved
<1>3. calls + Cardinality(Left(agenda, tree, query)) <= Budget
  <2> DEFINE l == Cardinality(Left(agenda, tree, query))
             b == Cardinality(B)
  <2>1. l \in Nat /\ b \in Nat /\ l <= 4 * b
    BY <1>1, LeftIs, BranchesAreFinite
  <2>2. calls <= 2 + b
    BY <1>1
  <2>3. Budget = 2 + 5 * b
    BY <1>1 DEF Budget
  <2> HIDE DEF l, b
  <2>4. calls + l <= 2 + 5 * b
    BY <1>1, <2>1, <2>2
  <2> QED BY <2>3, <2>4 DEF l
<1>4. DeletePlan(agenda, tree, visited, query)
  <2> DEFINE new == IF node.body = Folder THEN Sweep(src) ELSE Drop(node.id)
  <2>1. agenda = <<new>>
    BY <1>1 DEF Plan
  <2>2. /\ Len(agenda) = 1 /\ agenda[1] = new /\ \A k \in 1..Len(agenda) : k = 1
    BY <2>1
  <2>3. /\ new.do \in {"sweep", "drop"} /\ At(tree, new) = src
        /\ new.do = "drop" => Leaf(tree, src) /\ node.id = new.id
    <3>1. CASE node.body = Folder
      <4>1. new = Sweep(src)
        BY <3>1
      <4>2. At(tree, Sweep(src)) = src /\ Sweep(src).do = "sweep"
        BY <1>1, TaskPlaces
      <4> HIDE DEF new
      <4> QED BY <4>1, <4>2
    <3>2. CASE node.body # Folder
      <4>1. Branch(tree, src) = {src}
        BY <1>1, <3>2, LeafIs
      <4>2. Leaf(tree, src)
        BY <4>1 DEF Leaf, Branch
      <4>3. new = Drop(node.id)
        BY <3>2
      <4>4. /\ At(tree, Drop(node.id)) = src /\ Drop(node.id).do = "drop"
            /\ Drop(node.id).id = node.id
        BY <1>1, TaskPlaces
      <4> HIDE DEF new
      <4> QED BY <4>2, <4>3, <4>4
    <3> QED BY <3>1, <3>2
  <2> HIDE DEF new
  <2>4. IsPrefix(src, src)
    BY <1>1, NodesAre, PrefixOrder
  <2>5. \A k \in 1..Len(agenda) : PlaceOK(agenda, k, tree, query)
    BY <1>1, <2>2, <2>3, <2>4 DEF PlaceOK
  <2>6. DeepFirst(agenda, tree)
    BY <2>2, <2>3 DEF DeepFirst
  <2>7. \A x \in Branch(tree, src) : Covered(agenda, Len(agenda), tree, x)
    BY <2>2, <2>3 DEF Covered, Branch
  <2> QED BY <1>1, <2>5, <2>6, <2>7 DEF DeletePlan
<1> QED BY <1>1, <1>2, <1>3, <1>4 DEF Deleting

(* The first task of a delete.                                             *)
LEMMA DeleteHead ==
  ASSUME TreeConstantsOK, TreeInv, Deleting, phase = "act", query.op = "delete"
  PROVE  LET task == agenda[1] IN
         /\ agenda \in Seq(FitTasks(query, within)) /\ agenda # <<>>
         /\ Head(agenda) = task
         /\ WellFormed(tree) /\ query \in Queries /\ calls \in Nat
         /\ PlaceOK(agenda, 1, tree, query)
         /\ \A k \in 1..Len(agenda) : k # 1 => At(tree, agenda[k]) # At(tree, task)
         /\ \A p \in visited \cap DOMAIN tree :
              p = At(tree, task) => task.do \in {"last", "drop"}
<1> DEFINE F == FitTasks(query, within)
           a == At(tree, agenda[1])
<1>1. /\ agenda \in Seq(F) /\ agenda # <<>> /\ DeletePlan(agenda, tree, visited, query)
      /\ WellFormed(tree) /\ query \in Queries /\ calls \in Nat
  BY DEF TreeInv, Working, Stored, Recorded, Deleting
<1>2. Len(agenda) \in Nat \ {0} /\ 1 \in 1..Len(agenda) /\ Head(agenda) = agenda[1]
  <2> HIDE DEF F
  <2> QED BY <1>1
<1>3. PlaceOK(agenda, 1, tree, query)
  BY <1>1, <1>2 DEF DeletePlan
<1>4. IsPrefix(a, a)
  BY <1>1, <1>3, NodesAre, PrefixOrder DEF PlaceOK
<1>5. ASSUME NEW k \in 1..Len(agenda), k # 1 PROVE At(tree, agenda[k]) # a
  <2>1. 1 < k
    BY <1>5
  <2> QED BY <1>1, <1>2, <1>4, <1>5, <2>1 DEF DeletePlan, DeepFirst
<1>6. ASSUME NEW p \in visited \cap DOMAIN tree, p = a PROVE agenda[1].do \in {"last", "drop"}
  <2>1. PICK k \in 1..Len(agenda) : agenda[k].do \in {"last", "drop"} /\ At(tree, agenda[k]) = p
    BY <1>1 DEF DeletePlan, Seen
  <2> QED BY <1>5, <1>6, <2>1
<1> QED BY <1>1, <1>2, <1>3, <1>5, <1>6

(* The steps of a delete: it fails, puts other tasks in the place of one,  *)
(* or deletes a node.                                                      *)
LEMMA BudgetIs ==
  ASSUME TreeConstantsOK, WellFormed(before)
  PROVE  /\ Budget \in Nat /\ Budget <= 2 + 5 * Cardinality(DOMAIN before)
<1> DEFINE b == Cardinality(Branch(before, query.src))
           n == Cardinality(DOMAIN before)
<1>1. b \in Nat /\ b <= n /\ n \in Nat
  BY BranchesAreFinite, TreesAreFinite, FS_CardinalityType
<1> HIDE DEF b, n
<1>2. 2 + 5 * b \in Nat /\ 2 + 5 * b <= 2 + 5 * n
  BY <1>1
<1> QED BY <1>2 DEF b, n, Budget

LEMMA DeleteFails ==
  ASSUME TreeConstantsOK, TreeInv, WellFormed(before), Removed,
         gone = {} \/ Accepted(before, query),
         calls < Budget, Finish("failed"), Call, UNCHANGED <<upstream, before, gone, mine, got>>
  PROVE  Deleted'
<1>1. /\ UNCHANGED <<tree, before, query, gone, mine, got>> /\ result' = "failed"
      /\ calls' = calls + 1 /\ calls \in Nat
  BY DEF Finish, Call, upstream, TreeInv, Recorded
<1>2. Removed' /\ (gone = {} \/ Accepted(before, query))' /\ Budget' = Budget
  BY <1>1 DEF Deleting, Removed, Budget
<1>3. calls' <= Budget
  BY <1>1, BudgetIs
<1> QED BY <1>1, <1>2, <1>3 DEF Deleted

(* Nothing else changes.                                                   *)
LEMMA DeleteContinues ==
  ASSUME TreeConstantsOK, TreeInv, WellFormed(before), Deleting, phase = "act",
         query.op = "delete", Call, UNCHANGED <<upstream, history>>,
         NEW F, agenda \in Seq(F), NEW f \in Seq(F), Go(f \o Tail(agenda)),
         Replaces(f, At(tree, agenda[1]), Rank(agenda[1]), tree),
         \A p \in visited' \cap DOMAIN tree :
           \/ Seen(f, tree, p)
           \/ p \in visited /\ (p = At(tree, agenda[1]) => agenda[1].do \notin {"last", "drop"})
  PROVE  phase' = "act" /\ Deleting'
<1> DEFINE u == f \o Tail(agenda)
           z == <<At(tree, agenda[1]), Rank(agenda[1])>>
           L == Left(agenda, tree, query)
           M == Left(u, tree, query)
<1>1. /\ agenda # <<>> /\ WellFormed(tree) /\ query \in Queries /\ calls \in Nat
      /\ DeletePlan(agenda, tree, visited, query)
  BY DeleteHead DEF Deleting
<1>2. /\ DeletePlan(u, tree, visited', query)
      /\ z \in L /\ M \subseteq L \ {z}
  BY <1>1, DeleteGoesOn
<1>3. u # <<>>
  <2>1. Len(f) # 0
    <3>1. \E k \in 1..Len(f) : TRUE
      BY DEF Replaces
    <3> QED BY <3>1
  <2>2. u \in Seq(F) /\ Len(u) = Len(f) + Len(Tail(agenda))
    <3>1. Tail(agenda) \in Seq(F)
      BY <1>1
    <3> QED BY <3>1
  <2>3. Len(Tail(agenda)) \in Nat
    BY <1>1
  <2> HIDE DEF u
  <2>4. Len(u) # 0
    BY <2>1, <2>2, <2>3
  <2> QED BY <2>4
<1>4. phase' = "act" /\ agenda' = u /\ query' = query
  BY <1>3 DEF Go
<1>5. /\ tree' = tree /\ before' = before /\ gone' = gone /\ mine' = mine /\ got' = got
      /\ calls' = calls + 1
  BY DEF upstream, history, Call
<1>6. Removed' /\ Accepted(before, query)' /\ Budget' = Budget
  BY <1>4, <1>5 DEF Deleting, Removed, Budget
<1>7. calls' + Cardinality(M) <= Budget
  <2>1. IsFiniteSet(L) /\ Cardinality(L) \in Nat
    BY <1>1, LeftIs
  <2>2. calls + Cardinality(L) <= Budget /\ Budget \in Nat
    BY BudgetIs DEF Deleting
  <2> HIDE DEF L, M, z
  <2>3. Cardinality(M) + 1 <= Cardinality(L) /\ Cardinality(M) \in Nat
    BY <1>2, <2>1, ShrinksByOne
  <2> QED BY <1>1, <1>5, <2>1, <2>2, <2>3
<1>8. DeletePlan(agenda', tree', visited', query') /\ Left(agenda', tree', query') = M
  BY <1>2, <1>4, <1>5
<1> HIDE DEF M
<1> QED BY <1>4, <1>6, <1>7, <1>8 DEF Deleting

LEMMA DeleteHasCalls ==
  ASSUME TreeConstantsOK, TreeInv, WellFormed(before), Deleting, phase = "act",
         query.op = "delete"
  PROVE  calls < Budget
<1> DEFINE L == Left(agenda, tree, query)
           a == At(tree, agenda[1])
           z == <<a, 1>>
<1>1. /\ agenda # <<>> /\ WellFormed(tree) /\ query \in Queries /\ calls \in Nat
      /\ PlaceOK(agenda, 1, tree, query)
      /\ \A k \in 1..Len(agenda) : PlaceOK(agenda, k, tree, query)
  BY DeleteHead DEF Deleting, DeletePlan
<1>2. z \in L
  <2>1. a \in Branch(tree, query.src)
    BY <1>1 DEF PlaceOK, Branch
  <2>2. \A k \in 1..Len(agenda) : 1 <= Rank(agenda[k])
    BY <1>1, RankIs DEF PlaceOK
  <2> HIDE DEF a
  <2>3. z \in Branch(tree, query.src) \X (1..4) /\ z[2] = 1
    BY <2>1
  <2> HIDE DEF z
  <2> QED BY <2>2, <2>3 DEF Left
<1>3. IsFiniteSet(L) /\ Cardinality(L) \in Nat /\ calls + Cardinality(L) <= Budget
      /\ Budget \in Nat
  BY <1>1, LeftIs, BudgetIs DEF Deleting
<1> HIDE DEF L
<1>4. Cardinality(L) # 0
  BY <1>2, <1>3, FS_EmptySet
<1> QED BY <1>1, <1>3, <1>4

LEMMA DeleteStops ==
  ASSUME TreeConstantsOK, TreeInv, WellFormed(before), Deleting, phase = "act",
         query.op = "delete", Finish("failed"), Call,
         UNCHANGED <<upstream, before, gone, mine, got>>
  PROVE  phase' = "done" /\ Deleted'
<1>1. calls < Budget
  BY DeleteHasCalls
<1>2. Removed /\ Accepted(before, query) /\ phase' = "done"
  BY DEF Deleting, Finish
<1> QED BY <1>1, <1>2, DeleteFails

LEMMA SweepFolderAlone ==
  ASSUME TreeConstantsOK, TreeInv, WellFormed(before), Deleting, phase = "act",
         query.op = "delete", SweepFolder, Call
  PROVE  \/ phase' = "act" /\ Deleting'
         \/ phase' = "done" /\ Deleted'
<1> DEFINE p == agenda[1].at
           F == FitTasks(query, within)
<1>1. /\ agenda \in Seq(F) /\ agenda # <<>> /\ Head(agenda) = agenda[1]
      /\ WellFormed(tree) /\ PlaceOK(agenda, 1, tree, query)
      /\ \A x \in visited \cap DOMAIN tree :
           x = At(tree, agenda[1]) => agenda[1].do \in {"last", "drop"}
  BY DeleteHead
<1>2. agenda[1].do = "sweep" /\ UNCHANGED <<upstream, history>>
  BY <1>1 DEF SweepFolder, Due
<1>3. At(tree, agenda[1]) = p /\ Rank(agenda[1]) = 3 /\ p \in DOMAIN tree
  BY <1>1, <1>2 DEF At, Rank, PlaceOK
<1>4. CASE Finish("failed")
  BY <1>2, <1>4, DeleteStops DEF upstream, history
<1>5. CASE ~Finish("failed")
  <2>1. p \notin visited
    BY <1>1, <1>2, <1>3
  <2>2. PICK found \in Swept(p) : \E order \in DeepestFirst(found) :
          visited' = visited \cup {p} /\ Go(SweepTasks(order, p) \o Tail(agenda))
    BY <1>1, <1>5, <2>1 DEF SweepFolder
  <2>3. PICK order \in DeepestFirst(found) :
          visited' = visited \cup {p} /\ Go(SweepTasks(order, p) \o Tail(agenda))
    BY <2>2
  <2> DEFINE f == SweepTasks(order, p)
             T == {Visit(c) : c \in found} \cup {Final(p)}
             G == F \cup T
  <2>4. Replaces(f, p, 3, tree) /\ Seen(f, tree, p) /\ f \in Seq(T)
    BY <1>1, <1>3, SweepReplaces
  <2>5. agenda \in Seq(G) /\ f \in Seq(G)
    <3> HIDE DEF F, T, f
    <3> QED BY <1>1, <2>4
  <2> HIDE DEF f, G
  <2>6. \A x \in visited' \cap DOMAIN tree :
          \/ Seen(f, tree, x)
          \/ x \in visited /\ (x = At(tree, agenda[1]) => agenda[1].do \notin {"last", "drop"})
    BY <1>2, <2>3, <2>4
  <2>7. Go(f \o Tail(agenda))
    BY <2>3 DEF f
  <2>8. Replaces(f, At(tree, agenda[1]), Rank(agenda[1]), tree)
    BY <1>3, <2>4
  <2> QED BY <1>2, <2>5, <2>6, <2>7, <2>8, DeleteContinues
<1> QED BY <1>4, <1>5

LEMMA OneTaskContinues ==
  ASSUME TreeConstantsOK, TreeInv, WellFormed(before), Deleting, phase = "act",
         query.op = "delete", Call, UNCHANGED <<upstream, history>>, visited' = visited,
         NEW new, Go(<<new>> \o Tail(agenda)), NEW a, a = At(tree, agenda[1]),
         new.do \in {"drop", "sweep"}, At(tree, new) = a, Rank(new) < Rank(agenda[1]),
         new.do = "drop" => Leaf(tree, a) /\ tree[a].id = new.id,
         agenda[1].do = "last" => new.do = "drop", agenda[1].do # "drop"
  PROVE  phase' = "act" /\ Deleting'
<1> DEFINE F == FitTasks(query, within)
           f == <<new>>
           G == F \cup {new}
<1>1. /\ agenda \in Seq(F) /\ WellFormed(tree) /\ PlaceOK(agenda, 1, tree, query)
      /\ \A x \in visited \cap DOMAIN tree : x = a => agenda[1].do \in {"last", "drop"}
  BY DeleteHead
<1>2. a \in DOMAIN tree
  BY <1>1 DEF PlaceOK
<1>3. agenda \in Seq(G) /\ f \in Seq(G) /\ Len(f) = 1 /\ f[1] = new
  <2> HIDE DEF F
  <2> QED BY <1>1
<1>4. Replaces(f, a, Rank(agenda[1]), tree)
  BY <1>1, <1>2, OneTaskReplaces
<1> HIDE DEF f, G
<1>5. \A x \in visited' \cap DOMAIN tree :
        \/ Seen(f, tree, x)
        \/ x \in visited /\ (x = a => agenda[1].do \notin {"last", "drop"})
  <2>1. new.do = "drop" => Seen(f, tree, a)
    BY <1>3 DEF Seen
  <2> QED BY <1>1, <2>1
<1>6. Go(f \o Tail(agenda))
  BY DEF f
<1> QED BY <1>3, <1>4, <1>5, <1>6, DeleteContinues

LEMMA VisitChildAlone ==
  ASSUME TreeConstantsOK, TreeInv, WellFormed(before), Deleting, phase = "act",
         query.op = "delete", VisitChild, Call
  PROVE  \/ phase' = "act" /\ Deleting'
         \/ phase' = "done" /\ Deleted'
<1> DEFINE p == agenda[1].at
<1>1. /\ Head(agenda) = agenda[1] /\ WellFormed(tree) /\ PlaceOK(agenda, 1, tree, query)
  BY DeleteHead
<1>2. agenda[1].do = "visit" /\ UNCHANGED <<upstream, history>>
  BY <1>1 DEF VisitChild, Due
<1>3. At(tree, agenda[1]) = p /\ Rank(agenda[1]) = 4 /\ p \in DOMAIN tree
  BY <1>1, <1>2 DEF At, Rank, PlaceOK
<1>4. CASE Finish("failed")
  BY <1>2, <1>4, DeleteStops DEF upstream, history
<1>5. CASE ~Finish("failed")
  <2>1. Go(Present(p) \o Tail(agenda)) /\ visited' = visited
    BY <1>1, <1>3, <1>5 DEF VisitChild
  <2>2. CASE IsDir(p)
    <3> DEFINE new == Sweep(p)
    <3>1. At(tree, new) = p /\ new.do = "sweep" /\ Rank(new) = 3
      BY <1>1, TaskPlaces
    <3>2. Go(<<new>> \o Tail(agenda))
      BY <2>1, <2>2 DEF Present
    <3> HIDE DEF new
    <3> QED BY <1>2, <1>3, <2>1, <3>1, <3>2, OneTaskContinues
  <2>3. CASE ~IsDir(p)
    <3> DEFINE new == Drop(tree[p].id)
    <3>1. At(tree, new) = p /\ new.do = "drop" /\ Rank(new) = 1 /\ new.id = tree[p].id
      BY <1>1, <1>3, TaskPlaces
    <3>2. Go(<<new>> \o Tail(agenda))
      BY <2>1, <2>3 DEF Present
    <3>3. Leaf(tree, p)
      <4>1. Branch(tree, p) = {p}
        BY <1>1, <1>3, <2>3, LeafIs DEF IsDir
      <4> QED BY <4>1 DEF Leaf, Branch
    <3> HIDE DEF new
    <3> QED BY <1>2, <1>3, <2>1, <3>1, <3>2, <3>3, OneTaskContinues
  <2> QED BY <2>2, <2>3
<1> QED BY <1>4, <1>5

LEMMA VisitLastAlone ==
  ASSUME TreeConstantsOK, TreeInv, WellFormed(before), Deleting, phase = "act",
         query.op = "delete", VisitLast, Call
  PROVE  \/ phase' = "act" /\ Deleting'
         \/ phase' = "done" /\ Deleted'
<1> DEFINE p == agenda[1].at
<1>1. /\ agenda # <<>> /\ Head(agenda) = agenda[1] /\ WellFormed(tree)
      /\ PlaceOK(agenda, 1, tree, query) /\ agenda \in Seq(FitTasks(query, within))
  BY DeleteHead
<1>2. agenda[1].do = "last" /\ UNCHANGED <<upstream, history>>
  BY <1>1 DEF VisitLast, Due
<1>3. At(tree, agenda[1]) = p /\ Rank(agenda[1]) = 2 /\ p \in DOMAIN tree
  BY <1>1, <1>2 DEF At, Rank, PlaceOK
<1>4. CASE Finish("failed")
  BY <1>2, <1>4, DeleteStops DEF upstream, history
<1>5. CASE ~Finish("failed")
  <2> DEFINE new == Drop(tree[p].id)
  <2>1. Go(<<new>> \o Tail(agenda)) /\ visited' = visited
    BY <1>1, <1>3, <1>5 DEF VisitLast
  <2>2. At(tree, new) = p /\ new.do = "drop" /\ Rank(new) = 1 /\ new.id = tree[p].id
    BY <1>1, <1>3, TaskPlaces
  <2>3. Leaf(tree, p)
    <3>1. 1 \in 1..Len(agenda)
      BY <1>1
    <3>2. \A x \in DOMAIN tree : IsPrefix(p, x) /\ x # p => Covered(agenda, 1 - 1, tree, x)
      BY <1>2, <1>3, <3>1 DEF Deleting, DeletePlan, DeepFirst
    <3>3. \A x : ~Covered(agenda, 1 - 1, tree, x)
      BY DEF Covered
    <3> QED BY <3>2, <3>3 DEF Leaf
  <2> HIDE DEF new
  <2> QED BY <1>2, <1>3, <2>1, <2>2, <2>3, OneTaskContinues
<1> QED BY <1>4, <1>5

(* A delete takes one node at a time.                                      *)
LEMMA DropNodeAlone ==
  ASSUME TreeConstantsOK, TreeInv, WellFormed(before), Deleting, phase = "act",
         query.op = "delete", DropNode, Call
  PROVE  /\ \/ phase' = "act" /\ Deleting'
            \/ phase' = "done" /\ Deleted'
         /\ \E i : gone' \subseteq gone \cup {i}
<1> DEFINE i == agenda[1].id
           a == At(tree, agenda[1])
           F == FitTasks(query, within)
           u == Tail(agenda)
           z == <<a, Rank(agenda[1])>>
           L == Left(agenda, tree, query)
           M == Left(u, tree', query)
<1>1. /\ agenda \in Seq(F) /\ agenda # <<>> /\ Head(agenda) = agenda[1]
      /\ WellFormed(tree) /\ query \in Queries /\ calls \in Nat
      /\ PlaceOK(agenda, 1, tree, query)
  BY DeleteHead
<1>2. /\ agenda[1].do = "drop" /\ UNCHANGED <<next, before, edits, within, mine, got>>
      /\ GoOn \/ Finish("failed")
  BY <1>1 DEF DropNode, Due
<1>3. /\ a \in DOMAIN tree /\ Leaf(tree, a) /\ tree[a].id = i /\ PathOfId(tree, i) = a
      /\ Known(i) /\ IsPrefix(query.src, a)
  BY <1>1, <1>2 DEF At, PlaceOK, Known, IdsOf
<1>4. CASE Finish("failed") /\ UNCHANGED <<tree, gone>>
  BY <1>2, <1>4, DeleteStops DEF upstream
<1>5. CASE ~(Finish("failed") /\ UNCHANGED <<tree, gone>>)
  <2>1. Branch(tree, a) = {a}
    BY <1>1, <1>3, LeafIsBranch
  <2>2. tree' = Cut(tree, Branch(tree, a)) /\ gone' = gone \cup IdsOf(tree, Branch(tree, a))
    BY <1>1, <1>3, <1>5 DEF DropNode
  <2>3. /\ DOMAIN tree' = DOMAIN tree \ {a} /\ \A x \in DOMAIN tree' : tree'[x] = tree[x]
        /\ gone' = gone \cup {i}
    BY <1>3, <2>1, <2>2 DEF Cut, IdsOf
  <2>4. /\ DeletePlan(u, tree', visited, query)
        /\ z \in L /\ M \subseteq L \ {z}
    BY <1>1, <1>2, <2>3, DeleteDrops DEF Deleting
  <2>5. query' = query /\ before' = before /\ mine' = mine /\ got' = got
        /\ calls' = calls + 1 /\ visited' = visited
    BY <1>2 DEF GoOn, Go, Finish, Call
  <2>6. Removed'
    <3>1. /\ DOMAIN tree' \subseteq DOMAIN before' /\ \A x \in DOMAIN tree' : tree'[x] = before'[x]
          /\ \A x \in DOMAIN before' : ~IsPrefix(query'.src, x) => x \in DOMAIN tree'
      BY <1>3, <2>3, <2>5 DEF Deleting, Removed
    <3>2. i \in IdsOf(before, Branch(before, query.src))
      <4>1. a \in DOMAIN before /\ before[a].id = i
        BY <1>3 DEF Deleting, Removed
      <4> QED BY <1>3, <4>1 DEF IdsOf, Branch
    <3>3. gone' \subseteq IdsOf(before', Branch(before', query'.src)) /\ mine' = {} /\ got' = {}
      BY <2>3, <2>5, <3>2 DEF Deleting, Removed
    <3> QED BY <3>1, <3>3 DEF Removed
  <2>7. Accepted(before, query)' /\ Budget' = Budget
    BY <2>5 DEF Deleting, Budget
  <2>8. calls' + Cardinality(M) <= Budget /\ calls' <= Budget
    <3>1. IsFiniteSet(L) /\ Cardinality(L) \in Nat
      BY <1>1, LeftIs
    <3>2. calls + Cardinality(L) <= Budget /\ Budget \in Nat
      BY BudgetIs DEF Deleting
    <3> HIDE DEF L, M, z
    <3>3. Cardinality(M) + 1 <= Cardinality(L) /\ Cardinality(M) \in Nat
      BY <2>4, <3>1, ShrinksByOne
    <3> QED BY <1>1, <2>5, <3>1, <3>2, <3>3
  <2>9. CASE Finish("failed")
    <3>1. phase' = "done" /\ result' = "failed"
      BY <2>9 DEF Finish
    <3>2. Deleted'
      BY <2>6, <2>7, <2>8, <3>1 DEF Deleted
    <3> QED BY <2>3, <3>1, <3>2
  <2>10. CASE GoOn
    <3>1. /\ agenda' = u
          /\ \/ u = <<>> /\ phase' = "done"
             \/ u # <<>> /\ phase' = "act"
      <4>1. Go(u)
        BY <2>10 DEF GoOn
      <4> HIDE DEF u
      <4>2. agenda' = u /\ (u = <<>> => phase' = "done") /\ (u # <<>> => phase' = "act")
        BY <4>1 DEF Go
      <4> QED BY <4>2
    <3>2. CASE u = <<>> /\ phase' = "done"
      <4> HIDE DEF u
      <4>1. Len(u) = 0
        BY <3>2
      <4>2. Branch(tree', query.src) = {}
        <5>1. \A x \in Branch(tree', query.src) : Covered(u, Len(u), tree', x)
          BY <2>4 DEF DeletePlan
        <5>2. \A x : ~Covered(u, Len(u), tree', x)
          BY <4>1 DEF Covered
        <5> QED BY <5>1, <5>2
      <4>3. Deleted'
        BY <2>5, <2>6, <2>7, <2>8, <4>2 DEF Deleted
      <4> QED BY <2>3, <3>2, <4>3
    <3>3. CASE u # <<>> /\ phase' = "act"
      <4>1. DeletePlan(agenda', tree', visited', query') /\ Left(agenda', tree', query') = M
        BY <2>4, <2>5, <3>1
      <4> HIDE DEF M, u
      <4>2. Deleting'
        BY <2>6, <2>7, <2>8, <4>1 DEF Deleting
      <4> QED BY <2>3, <3>3, <4>2
    <3> QED BY <3>1, <3>2, <3>3
  <2> QED BY <1>2, <2>9, <2>10
<1>6. gone' = gone \/ gone' = gone \cup {i}
  <2>1. Branch(tree, a) = {a}
    BY <1>1, <1>3, LeafIsBranch
  <2>2. IdsOf(tree, Branch(tree, a)) = {i}
    BY <1>3, <2>1 DEF IdsOf
  <2> QED BY <1>1, <1>3, <2>2 DEF DropNode
<1> HIDE DEF i
<1> QED BY <1>4, <1>5, <1>6

-----------------------------------------------------------------------------
(* Left alone: the whole run.                                              *)

(* As long as it counts, what is due is a folder to count.                 *)
LEMMA CountingHead ==
  ASSUME TreeConstantsOK, TreeInv, Counting
  PROVE  agenda # <<>> /\ Head(agenda).do = "count"
<1> DEFINE P == DOMAIN tree
           F == FitTasks(query, within)
           plan == Plan(query, tree[query.src])
<1>1. agenda \in Seq(F)
  BY DEF TreeInv, Working
<1>2. PICK p \in Seq(P) : p # <<>> /\ Listed(p, agenda, plan)
  BY DEF Counting
<1> HIDE DEF P, F, plan
<1>3. /\ Len(plan) \in Nat /\ Len(agenda) = Len(p) + Len(plan)
      /\ \A i \in 1..Len(p) : agenda[i] = Count(p[i])
  BY <1>2 DEF Listed
<1>4. Len(p) \in Nat \ {0} /\ 1 \in 1..Len(p)
  BY <1>2
<1>5. agenda[1] = Count(p[1]) /\ Count(p[1]).do = "count"
  BY <1>3, <1>4 DEF Count
<1>6. agenda # <<>> /\ Head(agenda) = agenda[1]
  BY <1>1, <1>3, <1>4
<1> QED BY <1>5, <1>6

LEMMA EditsShow ==
  ASSUME TreeInv, OthersCreate \/ OthersDelete \/ OthersMove
  PROVE  edits' # 0
BY DEF TreeInv, Recorded, OthersCreate, OthersDelete, OthersMove, Edit

(* What the steps of the handler leave alone.                              *)
LEMMA HandlerKeeps ==
  ASSUME TreeInv, Next, edits' = 0
  PROVE  /\ edits = 0 /\ before' = before /\ query' = query
         /\ Call /\ ~OthersCreate /\ ~OthersDelete /\ ~OthersMove
<1>1. ~OthersCreate /\ ~OthersDelete /\ ~OthersMove
  BY EditsShow
<1>2. Call
  BY <1>1 DEF Next
<1>3. edits' = edits /\ before' = before
  BY <1>1 DEF Next, Receive, Look, CountFolder, MakeNode, FillFolder, ReadChild, SweepFolder,
     VisitChild, VisitLast, DropNode, RenameNode, ReadContent, ReadZip, history
<1>4. query' = query
  BY <1>1 DEF Next, Receive, Look, CountFolder, MakeNode, FillFolder, ReadChild, SweepFolder,
     VisitChild, VisitLast, DropNode, RenameNode, ReadContent, ReadZip, Finish, GoOn, Go
<1> QED BY <1>1, <1>2, <1>3, <1>4

(* Until it acts, a request goes on, is refused or has its plan.           *)
LEMMA PreparingGoesOn ==
  ASSUME TreeConstantsOK, TreeInv, WellFormed(before), Preparing, query.op # "mkdir",
         phase \in {"ready", "look", "count"}, Next, edits' = 0
  PROVE  /\ gone' = gone
         /\ \/ phase' \in {"look", "count"} /\ Preparing'
            \/ phase' = "done" /\ Refused' /\ calls' <= Budget'
            \/ phase' = "act" /\ Planned'
<1> DEFINE b == Cardinality(Branch(before, query.src))
<1>1. before' = before /\ query' = query /\ Call
  BY HandlerKeeps
<1>2. b \in Nat /\ Budget' = 2 + 5 * b /\ Fresh
  BY <1>1, BranchesAreFinite DEF Budget, Preparing
<1>3. CASE phase = "ready"
  <2>1. Receive
    BY <1>3, HandlerKeeps DEF Next, Look, CountFolder, MakeNode, FillFolder, ReadChild, SweepFolder,
       VisitChild, VisitLast, DropNode, RenameNode, ReadContent, ReadZip, Due
  <2>2. /\ phase' = "look" /\ UNCHANGED <<upstream, query, total, visited, result, history>>
        /\ calls = 0 /\ total = 0 /\ Fresh /\ result = "none"
    BY <1>3, <2>1 DEF Receive, Preparing
  <2>3. calls' = 1 /\ Fresh' /\ gone' = gone
    BY <1>1, <2>2 DEF Call, Fresh, upstream, history
  <2> QED BY <1>1, <2>2, <2>3 DEF Preparing
<1>4. CASE phase = "look"
  <2>1. Look
    BY <1>4, HandlerKeeps DEF Next, Receive, CountFolder, MakeNode, FillFolder, ReadChild,
       SweepFolder, VisitChild, VisitLast, DropNode, RenameNode, ReadContent, ReadZip, Due
  <2>2. gone' = gone
    BY <2>1 DEF Look, history
  <2>3. 2 <= Budget'
    BY <1>2
  <2> QED BY <1>1, <2>1, <2>2, <2>3, LookAlone
<1>5. CASE phase = "count"
  <2>1. Counting /\ agenda # <<>> /\ Head(agenda).do = "count"
    BY <1>5, CountingHead DEF Preparing
  <2>2. CountFolder
    BY <1>5, <2>1, HandlerKeeps DEF Next, Receive, Look, MakeNode, FillFolder, ReadChild,
       SweepFolder, VisitChild, VisitLast, DropNode, RenameNode, ReadContent, ReadZip, Due
  <2>3. gone' = gone
    BY <2>2 DEF CountFolder, history
  <2>4. tree = before /\ query.src \in Branch(tree, query.src)
    <3>1. query.src \in DOMAIN tree /\ WellFormed(tree) /\ tree = before
      BY <1>2, <2>1 DEF Counting, TreeInv, Stored, Fresh
    <3> QED BY <3>1, NodesAre, PrefixOrder DEF Branch
  <2>5. b # 0
    <3>1. IsFiniteSet(Branch(before, query.src)) /\ Branch(before, query.src) # {}
      BY <2>4, BranchesAreFinite
    <3> QED BY <3>1, FS_EmptySet
  <2>6. 3 + b <= Budget'
    BY <1>2, <2>5
  <2>7. calls' \in Nat /\ (calls' <= 3 + b => calls' <= Budget')
    <3> HIDE DEF b
    <3>1. calls' \in Nat
      BY <1>1 DEF Call, TreeInv, Recorded
    <3> QED BY <1>2, <2>6, <3>1
  <2>8. \/ phase' = "done" /\ Refused' /\ calls' <= 3 + b
        \/ phase' = "count" /\ Preparing'
        \/ phase' = "act" /\ Planned'
    BY <1>1, <1>5, <2>2, <2>4, CountAlone
  <2> QED BY <2>3, <2>7, <2>8
<1> QED BY <1>3, <1>4, <1>5

DeleteInv ==
  /\ WellFormed(before)
  /\ query.op = "delete" /\ edits = 0 =>
       /\ Preparing
       /\ phase = "act" => Deleting
       /\ phase = "done" => Deleted

LEMMA StartsFresh ==
  ASSUME TreeConstantsOK, Init
  PROVE  WellFormed(before) /\ Preparing /\ phase = "ready"
BY DEF Init, TreeConstantsOK, Preparing, Fresh

LEMMA DeleteInit ==
  ASSUME TreeConstantsOK, Init
  PROVE  DeleteInv
BY StartsFresh DEF DeleteInv

(* The handler has nothing to do when it is done.                          *)
LEMMA DoneIsDone ==
  ASSUME TreeInv, phase = "done", Next
  PROVE  FALSE
BY DEF Next, Receive, Look, CountFolder, MakeNode, FillFolder, ReadChild, SweepFolder,
   VisitChild, VisitLast, DropNode, RenameNode, ReadContent, ReadZip, Due,
   OthersCreate, OthersDelete, OthersMove, Edit

(* A step of a delete that is left alone.                                  *)
LEMMA DeleteNext ==
  ASSUME TreeConstantsOK, TreeInv, DeleteInv, Next, query.op = "delete", edits' = 0
  PROVE  DeleteInv' /\ \E i : gone' \subseteq gone \cup {i}
<1> USE TreeConstantsOK
<1>1. /\ edits = 0 /\ before' = before /\ query' = query /\ Call /\ WellFormed(before)
      /\ ~OthersCreate /\ ~OthersDelete /\ ~OthersMove
  BY HandlerKeeps DEF DeleteInv
<1>2. /\ Preparing
      /\ phase = "act" => Deleting
      /\ phase \in {"ready", "look", "count", "act"} /\ query \in Queries
  BY <1>1, DoneIsDone DEF DeleteInv, TreeInv, Working
<1>3. CASE phase \in {"ready", "look", "count"}
  <2>1. /\ gone' = gone
        /\ \/ phase' \in {"look", "count"} /\ Preparing'
           \/ phase' = "done" /\ Refused' /\ calls' <= Budget'
           \/ phase' = "act" /\ Planned'
    BY <1>1, <1>2, <1>3, PreparingGoesOn
  <2>2. TreeInv'
    BY NextInv
  <2>3. (TreeInv /\ Planned /\ query.op = "delete" => Deleting)'
    BY PlannedDelete, PTL
  <2>4. CASE phase' \in {"look", "count"} /\ Preparing'
    BY <1>1, <2>1, <2>4 DEF DeleteInv
  <2>5. CASE phase' = "done" /\ Refused' /\ calls' <= Budget'
    <3>1. Fresh' /\ result' = "failed"
      BY <2>5 DEF Refused
    <3>2. Removed'
      BY <3>1 DEF Fresh, Removed, IdsOf
    <3>3. gone' = {}
      BY <3>1 DEF Fresh
    <3>4. Deleted' /\ Preparing'
      BY <2>5, <3>1, <3>2, <3>3 DEF Deleted, Preparing
    <3> QED BY <1>1, <2>1, <2>5, <3>4 DEF DeleteInv
  <2>6. CASE phase' = "act" /\ Planned'
    <3>1. Deleting' /\ Preparing'
      BY <1>1, <2>2, <2>3, <2>6 DEF Preparing
    <3> QED BY <1>1, <2>1, <2>6, <3>1 DEF DeleteInv
  <2>7. gone' \subseteq gone \cup {0}
    BY <2>1
  <2> QED BY <2>1, <2>4, <2>5, <2>6, <2>7
<1>4. CASE phase = "act"
  <2>1. Deleting
    BY <1>2, <1>4
  <2>2. agenda # <<>> /\ Head(agenda).do \in {"drop", "last", "sweep", "visit"}
    BY <1>4, <2>1, DeleteHead DEF PlaceOK
  <2>3. SweepFolder \/ VisitChild \/ VisitLast \/ DropNode
    BY <1>1, <1>4, <2>2 DEF Next, Receive, Look, CountFolder, MakeNode, FillFolder, ReadChild,
       RenameNode, ReadContent, ReadZip, Due
  <2>4. /\ \/ phase' = "act" /\ Deleting'
           \/ phase' = "done" /\ Deleted'
        /\ \E i : gone' \subseteq gone \cup {i}
    <3>1. CASE SweepFolder
      <4>1. gone' \subseteq gone \cup {0}
        BY <3>1 DEF SweepFolder, history
      <4> QED BY <1>1, <1>4, <2>1, <3>1, <4>1, SweepFolderAlone
    <3>2. CASE VisitChild
      <4>1. gone' \subseteq gone \cup {0}
        BY <3>2 DEF VisitChild, history
      <4> QED BY <1>1, <1>4, <2>1, <3>2, <4>1, VisitChildAlone
    <3>3. CASE VisitLast
      <4>1. gone' \subseteq gone \cup {0}
        BY <3>3 DEF VisitLast, history
      <4> QED BY <1>1, <1>4, <2>1, <3>3, <4>1, VisitLastAlone
    <3>4. CASE DropNode
      BY <1>1, <1>4, <2>1, <3>4, DropNodeAlone
    <3> QED BY <2>3, <3>1, <3>2, <3>3, <3>4
  <2>5. Preparing'
    BY <2>4 DEF Preparing
  <2> QED BY <1>1, <2>4, <2>5 DEF DeleteInv
<1> QED BY <1>2, <1>3, <1>4

LEMMA DeleteStutter ==
  ASSUME DeleteInv, UNCHANGED vars
  PROVE  DeleteInv'
<1>1. UNCHANGED <<tree, next, phase, query, agenda, total, visited, result, before, edits, calls,
                  within, mine, named, gone, got>>
  BY DEF vars, upstream, handler, history
<1> QED BY <1>1 DEF DeleteInv, Preparing, Deleting, Deleted, Fresh, Counting, Removed, Accepted,
           Budget

LEMMA DeleteStays ==
  ASSUME TreeConstantsOK, TreeInv, DeleteInv, [Next]_vars
  PROVE  DeleteInv'
<1>1. CASE UNCHANGED vars
  BY <1>1, DeleteStutter
<1>2. CASE Next /\ edits' = 0
  <2>1. query' = query /\ before' = before
    BY <1>2, HandlerKeeps
  <2>2. CASE query.op = "delete"
    BY <1>2, <2>2, DeleteNext
  <2>3. CASE query.op # "delete"
    BY <2>1, <2>3 DEF DeleteInv
  <2> QED BY <2>2, <2>3
<1>3. CASE Next /\ edits' # 0
  <2>1. before' = before
    BY <1>3 DEF Next, Receive, Look, CountFolder, MakeNode, FillFolder, ReadChild, SweepFolder,
       VisitChild, VisitLast, DropNode, RenameNode, ReadContent, ReadZip, history,
       OthersCreate, OthersDelete, OthersMove, Edit
  <2> QED BY <1>3, <2>1 DEF DeleteInv
<1> QED BY <1>1, <1>2, <1>3

(* As long as nobody else changes the tree, no call of a delete takes more *)
(* than one node: a folder is empty by the time it is deleted, for every   *)
(* tree, both kinds of answers and every order (_delete_folder_tree).      *)
THEOREM LeavesFirstHolds == Spec => LeavesFirst
<1>1. Init => TreeInv /\ DeleteInv
  BY InitInv, DeleteInit, TreeConstantsOK
<1>2. TreeInv /\ DeleteInv /\ [Next]_vars => (TreeInv /\ DeleteInv)'
  BY NextInv, TreeStutter, DeleteStays, TreeConstantsOK
<1>3. TreeInv /\ DeleteInv /\ [Next]_vars =>
        [query.op = "delete" /\ edits' = 0 => Cardinality(gone' \ gone) <= 1]_vars
  <2> SUFFICES ASSUME TreeInv, DeleteInv, Next, query.op = "delete", edits' = 0
               PROVE  Cardinality(gone' \ gone) <= 1
    OBVIOUS
  <2>1. PICK i : gone' \subseteq gone \cup {i}
    BY TreeConstantsOK, DeleteNext
  <2>2. gone' \ gone = {} \/ gone' \ gone = {i}
    BY <2>1
  <2>3. Cardinality({}) = 0 /\ Cardinality({i}) = 1
    BY FS_EmptySet, FS_Singleton
  <2> QED BY <2>2, <2>3
<1> QED BY <1>1, <1>2, <1>3, PTL DEF Spec, LeavesFirst

LEMMA DeleteTakesAll ==
  ASSUME TreeInv, DeleteInv
  PROVE  DeleteIsComplete
<1> SUFFICES ASSUME query.op = "delete", edits = 0
             PROVE  /\ Cut(tree, Branch(tree, query.src)) = Cut(before, Branch(before, query.src))
                    /\ Ok => Branch(tree, query.src) = {}
  BY DEF DeleteIsComplete, Undisturbed
<1>1. Removed \/ tree = before
  BY DEF DeleteInv, Preparing, Deleting, Deleted, Fresh, TreeInv, Working
<1>2. Cut(tree, Branch(tree, query.src)) = Cut(before, Branch(before, query.src))
  <2>1. CASE tree = before
    BY <2>1
  <2>2. CASE Removed
    <3>1. DOMAIN tree \ Branch(tree, query.src) = DOMAIN before \ Branch(before, query.src)
      BY <2>2 DEF Removed, Branch
    <3>2. \A x \in DOMAIN tree \ Branch(tree, query.src) : tree[x] = before[x]
      BY <2>2 DEF Removed
    <3> QED BY <3>1, <3>2 DEF Cut
  <2> QED BY <1>1, <2>1, <2>2
<1>3. Ok => Branch(tree, query.src) = {}
  BY DEF Ok, DeleteInv, Deleted
<1> QED BY <1>2, <1>3

(* A delete that nobody disturbs removes nothing outside its target, and   *)
(* all of the target when it reports success, for every tree and limit     *)
(* and whichever calls fail (delete_item, _delete_folder_tree).            *)
THEOREM DeleteIsCompleteHolds == Spec => []DeleteIsComplete
<1>1. Init => TreeInv /\ DeleteInv
  BY InitInv, DeleteInit, TreeConstantsOK
<1>2. TreeInv /\ DeleteInv /\ [Next]_vars => (TreeInv /\ DeleteInv)'
  BY NextInv, TreeStutter, DeleteStays, TreeConstantsOK
<1>3. TreeInv /\ DeleteInv => DeleteIsComplete
  BY DeleteTakesAll
<1> QED BY <1>1, <1>2, <1>3, PTL DEF Spec

(* What a request that only creates nodes has done to the tree: what was   *)
(* there is as it was, and the rest is its own.                            *)
Grown ==
  /\ \A x \in DOMAIN before : x \in DOMAIN tree /\ tree[x] = before[x] /\ before[x].id \notin mine
  /\ \A x \in DOMAIN tree : x \notin DOMAIN before => tree[x].id \in mine
  /\ gone = {} /\ got = {}

LEMMA FreshIsGrown ==
  ASSUME Fresh
  PROVE  Grown
BY DEF Fresh, Grown

LEMMA StoreGrows ==
  ASSUME TreeConstantsOK, TreeInv, Grown, NEW p, NEW body, Store(p, body),
         mine' = mine \cup {next}, UNCHANGED <<before, gone, got>>
  PROVE  Grown'
<1>0. PICK y : StoredAt(y, p, body)
  BY StoreIs
<1>1. /\ y \notin DOMAIN tree /\ DOMAIN tree' = DOMAIN tree \cup {y}
      /\ \A x \in DOMAIN tree : tree'[x] = tree[x]
      /\ tree'[y] = [id |-> next, body |-> body]
  BY <1>0 DEF StoredAt
<1>2. \A x \in DOMAIN tree : tree[x].id # next
  <2>1. ASSUME NEW x \in DOMAIN tree PROVE tree[x].id # next
    <3>1. tree[x].id \in Nat /\ tree[x].id < next
      BY NodesAre DEF TreeInv, Stored, Numbered, Ids
    <3> QED BY <3>1
  <2> QED BY <2>1
<1>3. tree'[y].id = next
  BY <1>1
<1> QED BY <1>1, <1>2, <1>3 DEF Grown

LEMMA GrownAddsOnly ==
  ASSUME WellFormed(before), Grown
  PROVE  LET new == {p \in DOMAIN tree : tree[p].id \in mine} IN
         Cut(tree, new) = before /\ new = DOMAIN tree \ DOMAIN before
<1> DEFINE new == {p \in DOMAIN tree : tree[p].id \in mine}
<1>1. new = DOMAIN tree \ DOMAIN before /\ DOMAIN tree \ new = DOMAIN before
  BY DEF Grown
<1> HIDE DEF new
<1>2. before = [p \in DOMAIN before |-> before[p]]
  BY DEF WellFormed
<1>3. Cut(tree, new) = [p \in DOMAIN before |-> before[p]]
  BY <1>1 DEF Cut, Grown
<1> QED BY <1>1, <1>2, <1>3 DEF new

-----------------------------------------------------------------------------
(* Left alone: renaming, downloading, creating a folder: one call.         *)

Asking ==
  LET task == Head(agenda) IN
  /\ Fresh /\ Accepted(before, query) /\ Tail(agenda) = <<>> /\ calls < Budget
  /\ task.do \in {"rename", "zip", "content", "make"}
  /\ task.do \in {"zip", "content"} => query.src \in DOMAIN tree /\ task.id = tree[query.src].id

Asked ==
  /\ gone = {} /\ calls <= Budget
  /\ got \subseteq IdsOf(before, Branch(before, query.src))
  /\ got # {} => query.op = "download" /\ Accepted(before, query)
  /\ IsFiniteSet(mine) /\ Cardinality(mine) <= 1
  /\ query.op = "mkdir" => Grown

OneCall == query.op \in {"rename", "download", "mkdir"}

AskInv ==
  OneCall /\ edits = 0 =>
    /\ Preparing
    /\ phase = "act" => Asking
    /\ phase = "done" => Asked

LEMMA FreshIsAsked ==
  ASSUME Fresh, calls <= Budget
  PROVE  Asked
<1>1. IsFiniteSet({}) /\ Cardinality({}) = 0
  BY FS_EmptySet
<1>2. mine = {} /\ gone = {} /\ got = {} /\ tree = before
  BY DEF Fresh
<1>3. Grown
  BY FreshIsGrown
<1> QED BY <1>1, <1>2, <1>3 DEF Asked

LEMMA PlannedAsk == TreeInv /\ WellFormed(before) /\ Planned /\ OneCall => Asking
<1> SUFFICES ASSUME TreeInv, WellFormed(before), Planned, OneCall PROVE Asking
  OBVIOUS
<1> USE TreeConstantsOK
<1> DEFINE b == Cardinality(Branch(tree, query.src))
           n == tree[query.src]
<1>1. /\ Fresh /\ tree = before /\ query.src \in DOMAIN tree /\ query.op \in {"rename", "download"}
      /\ agenda = Plan(query, n) /\ calls <= 2 + b /\ Accepted(before, query) /\ calls \in Nat
  BY DEF Planned, Fresh, OneCall, TreeInv, Recorded
<1> DEFINE ask(kind) == [do |-> kind, id |-> n.id]
<1>2. \E kind \in {"rename", "zip", "content"} : agenda = <<ask(kind)>>
  <2>1. CASE query.op = "rename"
    BY <1>1, <2>1 DEF Plan
  <2>2. CASE query.op = "download" /\ n.body = Folder
    BY <1>1, <2>2 DEF Plan
  <2>3. CASE query.op = "download" /\ n.body # Folder
    BY <1>1, <2>3 DEF Plan
  <2> QED BY <1>1, <2>1, <2>2, <2>3
<1>3. /\ Head(agenda).do \in {"rename", "zip", "content"} /\ Head(agenda).id = n.id
      /\ Tail(agenda) = <<>>
  <2>1. PICK kind \in {"rename", "zip", "content"} : agenda = <<ask(kind)>>
    BY <1>2
  <2>2. ask(kind).do = kind /\ ask(kind).id = n.id
    OBVIOUS
  <2> HIDE DEF ask
  <2>3. Head(agenda) = ask(kind) /\ Tail(agenda) = <<>>
    BY <2>1
  <2> QED BY <2>2, <2>3
<1>4. calls < Budget
  <2>1. query.src \in Branch(tree, query.src) /\ IsFiniteSet(Branch(tree, query.src)) /\ b \in Nat
    <3>1. WellFormed(tree) /\ query.src \in Seq(Names)
      BY <1>1, NodesAre DEF TreeInv, Stored
    <3>2. query.src \in Branch(tree, query.src)
      BY <1>1, <3>1, PrefixOrder DEF Branch
    <3> QED BY <3>1, <3>2, BranchesAreFinite
  <2>2. b # 0
    BY <2>1, FS_EmptySet
  <2>3. Budget = 2 + 5 * b
    BY <1>1 DEF Budget
  <2> HIDE DEF b
  <2> QED BY <1>1, <2>1, <2>2, <2>3
<1> QED BY <1>1, <1>3, <1>4 DEF Asking

LEMMA AskNext ==
  ASSUME TreeConstantsOK, TreeInv, WellFormed(before), AskInv, Next, OneCall, edits' = 0
  PROVE  AskInv'
<1>1. /\ edits = 0 /\ before' = before /\ query' = query /\ Call /\ calls' = calls + 1
      /\ calls \in Nat /\ Budget \in Nat /\ Budget' = Budget
      /\ ~OthersCreate /\ ~OthersDelete /\ ~OthersMove
  BY HandlerKeeps, BudgetIs DEF Call, TreeInv, Recorded, Budget
<1>2. /\ Preparing
      /\ phase = "act" => Asking
      /\ phase \in {"ready", "look", "count", "act"} /\ query \in Queries
  BY <1>1, DoneIsDone DEF AskInv, TreeInv, Working
<1>3. CASE phase \in {"ready", "look", "count"} /\ query.op # "mkdir"
  <2>1. /\ \/ phase' \in {"look", "count"} /\ Preparing'
           \/ phase' = "done" /\ Refused' /\ calls' <= Budget'
           \/ phase' = "act" /\ Planned'
    BY <1>1, <1>2, <1>3, PreparingGoesOn
  <2>2. TreeInv'
    BY NextInv
  <2>3. (TreeInv /\ WellFormed(before) /\ Planned /\ OneCall => Asking)'
    BY PlannedAsk, PTL
  <2>4. CASE phase' \in {"look", "count"} /\ Preparing'
    BY <2>4 DEF AskInv
  <2>5. CASE phase' = "done" /\ Refused' /\ calls' <= Budget'
    <3>1. (Fresh /\ calls <= Budget => Asked)'
      BY FreshIsAsked, PTL
    <3>2. Asked' /\ Preparing'
      BY <2>5, <3>1 DEF Refused, Preparing
    <3> QED BY <2>5, <3>2 DEF AskInv
  <2>6. CASE phase' = "act" /\ Planned'
    <3>1. Asking' /\ Preparing'
      BY <1>1, <2>2, <2>3, <2>6 DEF Preparing, OneCall
    <3> QED BY <2>6, <3>1 DEF AskInv
  <2> QED BY <2>1, <2>4, <2>5, <2>6
<1>4. CASE phase \in {"ready", "look", "count"} /\ query.op = "mkdir"
  <2>1. phase = "ready" /\ Fresh /\ calls = 0
    BY <1>2, <1>4 DEF Preparing, Counting
  <2>2. Receive
    BY <1>1, <2>1 DEF Next, Look, CountFolder, MakeNode, FillFolder, ReadChild, SweepFolder,
       VisitChild, VisitLast, DropNode, RenameNode, ReadContent, ReadZip, Due
  <2>3. /\ phase' = "act" /\ agenda' = <<Make(query.dst, Folder)>>
        /\ UNCHANGED <<tree, visited, mine, gone, got>>
    BY <1>4, <2>2 DEF Receive, upstream, history
  <2>4. Tail(agenda') = <<>> /\ Head(agenda').do = "make"
    BY <2>3 DEF Make
  <2>5. calls' < Budget'
    <3>1. Cardinality(Branch(before, query.src)) \in Nat
      BY BranchesAreFinite
    <3> QED BY <1>1, <2>1, <3>1 DEF Budget
  <2>6. Fresh' /\ Accepted(before, query)'
    BY <1>1, <1>4, <2>1, <2>3 DEF Fresh, Accepted
  <2>7. Asking' /\ Preparing'
    BY <2>3, <2>4, <2>5, <2>6 DEF Asking, Preparing
  <2> QED BY <2>3, <2>7 DEF AskInv
<1>5. CASE phase = "act"
  <2> DEFINE task == Head(agenda)
  <2>1. /\ Fresh /\ Accepted(before, query) /\ Tail(agenda) = <<>> /\ calls < Budget
        /\ task.do \in {"rename", "zip", "content", "make"}
        /\ task.do \in {"zip", "content"} =>
             query.src \in DOMAIN tree /\ task.id = tree[query.src].id
    BY <1>2, <1>5 DEF Asking
  <2>2. calls' <= Budget' /\ Accepted(before, query)'
    BY <1>1, <2>1
  <2>3. RenameNode \/ ReadZip \/ ReadContent \/ MakeNode
    BY <1>1, <1>5, <2>1 DEF Next, Receive, Look, CountFolder, FillFolder, ReadChild, SweepFolder,
       VisitChild, VisitLast, DropNode, Due
  <2>4. phase' = "done" /\ gone' = {}
    <3>1. GoOn => phase' = "done"
      BY <2>1 DEF GoOn, Go
    <3>2. Finish("failed") => phase' = "done"
      BY DEF Finish
    <3>3. gone' = gone
      BY <2>3 DEF RenameNode, ReadZip, ReadContent, MakeNode
    <3> QED BY <2>1, <2>3, <3>1, <3>2, <3>3 DEF RenameNode, ReadZip, ReadContent, MakeNode, Fresh
  <2>5. IsFiniteSet({}) /\ Cardinality({}) = 0 /\ IsFiniteSet({next}) /\ Cardinality({next}) = 1
    BY FS_EmptySet, FS_Singleton
  <2>6. CASE RenameNode
    <3>1. query.op = "rename" /\ mine' = mine /\ got' = got
      BY <2>6, DueIs DEF TreeInv, RenameNode, Kinds, Ops
    <3>2. Asked'
      BY <1>1, <2>1, <2>2, <2>4, <2>5, <3>1 DEF Asked, Fresh
    <3> QED BY <2>4, <3>2 DEF AskInv, Preparing
  <2>7. CASE ReadZip \/ ReadContent
    <3>1. /\ mine' = mine /\ task.do \in {"zip", "content"} /\ query.op = "download"
      <4>1. CASE ReadZip
        BY <4>1, DueIs DEF TreeInv, ReadZip, Kinds, Ops, Due
      <4>2. CASE ReadContent
        BY <4>2, DueIs DEF TreeInv, ReadContent, Kinds, Ops, Due
      <4> QED BY <2>7, <4>1, <4>2
    <3>2. query.src \in DOMAIN tree /\ PathOfId(tree, task.id) = query.src /\ WellFormed(tree)
      BY <2>1, <3>1, PathOfNode DEF TreeInv, Stored
    <3>3. query.src \in Branch(tree, query.src)
      BY <3>2, NodesAre, PrefixOrder DEF Branch
    <3>4. got' \subseteq IdsOf(tree, Branch(tree, query.src))
      <4>1. {task.id} \subseteq IdsOf(tree, Branch(tree, query.src))
        BY <2>1, <3>1, <3>3 DEF IdsOf
      <4> QED BY <2>1, <2>7, <3>2, <4>1 DEF ReadZip, ReadContent, Fresh
    <3>5. Asked'
      BY <1>1, <2>1, <2>2, <2>4, <2>5, <3>1, <3>4 DEF Asked, Fresh
    <3> QED BY <2>4, <3>5 DEF AskInv, Preparing
  <2>8. CASE MakeNode
    <3>1. UNCHANGED <<before, gone, got>> /\ query.op = "mkdir"
      BY <2>8, DueIs DEF TreeInv, MakeNode, Kinds, OneCall, Ops
    <3>2. \/ UNCHANGED <<tree, mine>>
          \/ Store(task.at, task.body) /\ mine' = mine \cup {next}
      BY <2>8 DEF MakeNode, upstream
    <3>3. mine' = {} \/ mine' = {next}
      BY <2>1, <3>2 DEF Fresh
    <3>4. Grown'
      <4>1. Grown
        BY <2>1, FreshIsGrown
      <4>2. CASE UNCHANGED <<tree, mine>>
        BY <3>1, <4>1, <4>2 DEF Grown
      <4>3. CASE Store(task.at, task.body) /\ mine' = mine \cup {next}
        BY <3>1, <4>1, <4>3, StoreGrows
      <4> QED BY <3>2, <4>2, <4>3
    <3>5. Asked'
      <4>1. got' = {} /\ IsFiniteSet(mine') /\ Cardinality(mine') <= 1
        <5>1. got' = {}
          BY <2>1, <3>1 DEF Fresh
        <5>2. CASE mine' = {}
          BY <2>5, <5>1, <5>2
        <5>3. CASE mine' = {next}
          BY <2>5, <5>1, <5>3
        <5> QED BY <3>3, <5>2, <5>3
      <4> QED BY <2>2, <2>4, <3>4, <4>1 DEF Asked
    <3> QED BY <2>4, <3>5 DEF AskInv, Preparing
  <2> QED BY <2>3, <2>6, <2>7, <2>8
<1> QED BY <1>2, <1>3, <1>4, <1>5

-----------------------------------------------------------------------------
(* Left alone: copying.                                                    *)

(* Where the copy of a node of the source will be.                         *)
CopyOf(x, q) == MovedTo(x, q.src, q.dst)

LEMMA CopyOfIs ==
  ASSUME TreeConstantsOK, NEW q \in Queries, NEW x \in Seq(Names), IsPrefix(q.src, x)
  PROVE  LET y == CopyOf(x, q) IN
         /\ y \in Seq(Names) /\ IsPrefix(q.dst, y) /\ Len(y) # 0
         /\ Replaced(y, x, q.src, q.dst)
         /\ MovedTo(y, q.dst, q.src) = x
         /\ x = q.src => y = q.dst
<1> DEFINE y == MovedTo(x, q.src, q.dst)
<1>1. q.src \in Seq(Names) /\ q.dst \in Seq(Names) /\ Len(q.dst) # 0
  <2>1. q.dst \in Paths /\ q.src \in Paths
    BY DEF TreeConstantsOK, Query
  <2> QED BY <2>1, PathsAre DEF TreeConstantsOK
<1>2. /\ y \in Seq(Names) /\ Replaced(y, x, q.src, q.dst) /\ IsPrefix(q.dst, y)
      /\ MovedTo(y, q.dst, q.src) = x
  BY <1>1, MovedToIs
<1> HIDE DEF y
<1>3. x = q.src => y = q.dst
  BY <1>1, <1>2, ReplacedBegins
<1>4. Len(y) # 0
  BY <1>1, <1>2, PrefixIs
<1> QED BY <1>2, <1>3, <1>4 DEF y, CopyOf

LEMMA CopyOfChild ==
  ASSUME TreeConstantsOK, NEW q \in Queries, NEW p \in Seq(Names), IsPrefix(q.src, p),
         NEW c \in Seq(Names), Len(c) = Len(p) + 1, IsPrefix(p, c)
  PROVE  CopyOf(c, q) = CopyOf(p, q) \o <<Last(c)>>
<1> DEFINE y == CopyOf(c, q)
           z == CopyOf(p, q)
           n == Last(c)
           w == z \o <<n>>
<1>1. /\ q.src \in Seq(Names) /\ q.dst \in Seq(Names) /\ Len(c) # 0 /\ Len(p) \in Nat
      /\ Front(c) = p
  BY QueriesAre, ChildrenAreApart
<1>2. IsPrefix(q.src, c) /\ Len(q.src) <= Len(p)
  BY <1>1, PrefixOrder, PrefixIs
<1>3. /\ y \in Seq(Names) /\ Replaced(y, c, q.src, q.dst) /\ Len(y) # 0
      /\ z \in Seq(Names) /\ Replaced(z, p, q.src, q.dst)
  BY <1>2, CopyOfIs
<1> HIDE DEF y, z
<1>4. Len(q.src) < Len(c)
  BY <1>1, <1>2
<1>5. Front(y) = z
  BY <1>1, <1>3, <1>4, ReplacedFront
<1>6. Len(y) = Len(z) + 1 /\ \A i \in 1..Len(z) : y[i] = z[i]
  <2>1. Len(Front(y)) = Len(y) - 1 /\ \A i \in 1..(Len(y) - 1) : Front(y)[i] = y[i]
    BY <1>3, FrontIs
  <2>2. Len(z) = Len(y) - 1 /\ Len(y) \in Nat
    BY <1>3, <1>5, <2>1
  <2> QED BY <1>5, <2>1, <2>2
<1>7. n \in Names /\ n = c[Len(c)]
  BY <1>1 DEF Last
<1>8. y[Len(y)] = n
  <2> DEFINE d == Len(c) - Len(q.src)
  <2>1. d \in 1..d /\ Len(q.src) + d = Len(c) /\ Len(q.dst) + d = Len(y)
    BY <1>1, <1>3, <1>4 DEF Replaced
  <2>2. y[Len(q.dst) + d] = c[Len(q.src) + d]
    BY <1>3, <2>1 DEF Replaced
  <2> QED BY <1>7, <2>1, <2>2
<1>9. /\ w \in Seq(Names) /\ Len(w) = Len(z) + 1 /\ w[Len(z) + 1] = n
      /\ \A i \in 1..Len(z) : w[i] = z[i]
  BY <1>3, <1>7
<1> HIDE DEF w
<1>10. \A i \in 1..Len(y) : y[i] = w[i]
  <2>1. \A i \in 1..Len(y) : i \in 1..Len(z) \/ i = Len(z) + 1
    BY <1>3, <1>6
  <2> QED BY <1>6, <1>8, <1>9, <2>1
<1>11. y = w
  BY <1>3, <1>6, <1>9, <1>10, SameSequence
<1> QED BY <1>11 DEF y, z, w

(* Two paths above the same one are one above the other.                   *)
LEMMA PrefixesCompare ==
  ASSUME NEW S, NEW p \in Seq(S), NEW q \in Seq(S), NEW x \in Seq(S),
         IsPrefix(p, x), IsPrefix(q, x)
  PROVE  IsPrefix(p, q) \/ IsPrefix(q, p)
<1>1. /\ \A i \in 1..Len(p) : p[i] = x[i]
      /\ \A i \in 1..Len(q) : q[i] = x[i]
  BY PrefixIs
<1>2. Len(p) \in Nat /\ Len(q) \in Nat
  OBVIOUS
<1>3. CASE Len(p) <= Len(q)
  <2>1. \A i \in 1..Len(p) : p[i] = q[i]
    BY <1>1, <1>2, <1>3
  <2> QED BY <1>3, <2>1, PrefixIs
<1>4. CASE Len(q) <= Len(p)
  <2>1. \A i \in 1..Len(q) : q[i] = p[i]
    BY <1>1, <1>2, <1>4
  <2> QED BY <1>4, <2>1, PrefixIs
<1> QED BY <1>2, <1>3, <1>4

(* A node made at or below the destination, or beside it, is not in a      *)
(* source that is elsewhere.                                               *)
LEMMA MadeElsewhere ==
  ASSUME NEW S, NEW src \in Seq(S), NEW dst \in Seq(S), NEW p \in Seq(S), NEW y \in Seq(S),
         IsPrefix(dst, p), Len(p) # 0, Len(y) = Len(p), Front(y) = Front(p), src # y,
         ~IsPrefix(src, dst), ~IsPrefix(dst, src)
  PROVE  ~IsPrefix(src, y)
<1> SUFFICES ASSUME IsPrefix(src, y) PROVE FALSE
  OBVIOUS
<1>1. Len(src) # Len(y) /\ Len(y) # 0
  BY PrefixOrder
<1>2. IsPrefix(src, Front(p))
  BY <1>1, PrefixOfParent
<1>3. IsPrefix(src, p)
  BY <1>2, PrefixOfParent
<1> QED BY <1>3, PrefixesCompare

(* The nodes of the source that a task will have copied in the end, and    *)
(* the ones it will have read or listed.                                   *)
Makes(t, x, q) ==
  \/ t.do = "make" /\ t.at = CopyOf(x, q)
  \/ t.do = "read" /\ t.at = x
  \/ t.do = "fill" /\ IsPrefix(t.at, x) /\ t.at # x
Reads(t, x) ==
  \/ t.do = "read" /\ t.at = x
  \/ t.do = "fill" /\ IsPrefix(t.at, x)

ToMake(s, b, q) == {x \in Branch(b, q.src) : \E k \in 1..Len(s) : Makes(s[k], x, q)}
ToRead(s, b, q) == {x \in Branch(b, q.src) : \E k \in 1..Len(s) : Reads(s[k], x)}

(* A task copies something of the source to its place.                     *)
Sensible(t, b, q) ==
  /\ t.do \in {"make", "read", "fill"}
  /\ t.do = "make" => \E x \in Branch(b, q.src) : t.at = CopyOf(x, q) /\ t.body = b[x].body
  /\ t.do \in {"read", "fill"} => t.at \in Branch(b, q.src) /\ t.to = CopyOf(t.at, q)
  /\ t.do = "fill" => b[t.at].body = Folder

(* Tasks that make or read the same.                                       *)
Clash(t, u, b, q) ==
  \E x \in Branch(b, q.src) : \/ Makes(t, x, q) /\ Makes(u, x, q)
                              \/ Reads(t, x) /\ Reads(u, x)

CopyPlan(s, b, q) ==
  /\ \A k \in 1..Len(s) : Sensible(s[k], b, q)
  /\ \A j, k \in 1..Len(s) : j # k => ~Clash(s[j], s[k], b, q)

(* These tasks do no more than the task they are put in the place of.      *)
Within(f, t, b, q) ==
  \A k \in 1..Len(f), x \in Branch(b, q.src) :
    (Makes(f[k], x, q) => Makes(t, x, q)) /\ (Reads(f[k], x) => Reads(t, x))

LEMMA CopyGoesOn ==
  ASSUME NEW F, NEW s \in Seq(F), s # <<>>, NEW f \in Seq(F), NEW b, NEW q,
         CopyPlan(s, b, q), CopyPlan(f, b, q), Within(f, s[1], b, q)
  PROVE  LET u == f \o Tail(s)
             B == Branch(b, q.src) IN
         /\ CopyPlan(u, b, q)
         /\ ToMake(u, b, q) = (ToMake(s, b, q) \ {x \in B : Makes(s[1], x, q)}) \cup ToMake(f, b, q)
         /\ ToRead(u, b, q) = (ToRead(s, b, q) \ {x \in B : Reads(s[1], x)}) \cup ToRead(f, b, q)
<1> DEFINE u == f \o Tail(s)
           B == Branch(b, q.src)
           m == Len(f)
           n == Len(s)
<1>1. /\ u \in Seq(F) /\ Len(u) = m + (n - 1) /\ m \in Nat /\ n \in Nat \ {0}
      /\ \A i \in 1..m : u[i] = f[i]
      /\ \A i \in 2..n : u[m + i - 1] = s[i]
      /\ \A k \in 1..Len(u) : k \in 1..m \/ \E i \in 2..n : k = m + i - 1
  BY HeadReplaced
<1> HIDE DEF u
<1>2. /\ \A k \in 1..n : Sensible(s[k], b, q)
      /\ \A j, k \in 1..n : j # k => ~Clash(s[j], s[k], b, q)
      /\ \A k \in 1..m : Sensible(f[k], b, q)
      /\ \A j, k \in 1..m : j # k => ~Clash(f[j], f[k], b, q)
  BY DEF CopyPlan
<1>3. \A i \in 2..n : i \in 1..n /\ i # 1 /\ 1 \in 1..n
  BY <1>1
<1>4. \A k \in 1..m : \A t : Clash(f[k], t, b, q) => Clash(s[1], t, b, q)
  BY DEF Within, Clash
<1>5. \A t, v : Clash(t, v, b, q) => Clash(v, t, b, q)
  BY DEF Clash
<1>6. ASSUME NEW k \in 1..Len(u) PROVE Sensible(u[k], b, q)
  <2>1. CASE k \in 1..m
    BY <1>1, <1>2, <2>1
  <2>2. ASSUME NEW i \in 2..n, k = m + i - 1 PROVE Sensible(u[k], b, q)
    BY <1>1, <1>2, <1>3, <2>2
  <2> QED BY <1>1, <2>1, <2>2
<1>7. ASSUME NEW j \in 1..m, NEW i \in 2..n PROVE ~Clash(f[j], s[i], b, q)
  BY <1>2, <1>3, <1>4
<1>8. ASSUME NEW j \in 1..Len(u), NEW k \in 1..Len(u), j # k PROVE ~Clash(u[j], u[k], b, q)
  <2>1. CASE j \in 1..m /\ k \in 1..m
    BY <1>1, <1>2, <1>8, <2>1
  <2>2. ASSUME NEW i \in 2..n, k = m + i - 1, j \in 1..m PROVE ~Clash(u[j], u[k], b, q)
    BY <1>1, <1>7, <2>2
  <2>3. ASSUME NEW i \in 2..n, j = m + i - 1, k \in 1..m PROVE ~Clash(u[j], u[k], b, q)
    BY <1>1, <1>5, <1>7, <2>3
  <2>4. ASSUME NEW i \in 2..n, j = m + i - 1, NEW h \in 2..n, k = m + h - 1
        PROVE  ~Clash(u[j], u[k], b, q)
    <3>1. i # h
      BY <1>8, <2>4
    <3> QED BY <1>1, <1>2, <1>3, <2>4, <3>1
  <2> QED BY <1>1, <2>1, <2>2, <2>3, <2>4
<1>9. CopyPlan(u, b, q)
  BY <1>6, <1>8 DEF CopyPlan
<1>10. ASSUME NEW x \in B
       PROVE  /\ (\E k \in 1..Len(u) : Makes(u[k], x, q)) <=>
                   \/ (\E i \in 1..n : Makes(s[i], x, q)) /\ ~Makes(s[1], x, q)
                   \/ \E k \in 1..m : Makes(f[k], x, q)
              /\ (\E k \in 1..Len(u) : Reads(u[k], x)) <=>
                   \/ (\E i \in 1..n : Reads(s[i], x)) /\ ~Reads(s[1], x)
                   \/ \E k \in 1..m : Reads(f[k], x)
  <2>1. ASSUME NEW i \in 2..n
        PROVE  /\ ~(Makes(s[1], x, q) /\ Makes(s[i], x, q))
               /\ ~(Reads(s[1], x) /\ Reads(s[i], x))
    <3>1. ~Clash(s[1], s[i], b, q)
      BY <1>2, <1>3
    <3> QED BY <3>1 DEF Clash
  <2>2. \A k \in 1..m : k \in 1..Len(u) /\ u[k] = f[k]
    BY <1>1
  <2>3. \A i \in 2..n : m + i - 1 \in 1..Len(u) /\ u[m + i - 1] = s[i]
    BY <1>1
  <2>4. \A i \in 1..n : i = 1 \/ i \in 2..n
    BY <1>1
  <2>5. \A k \in 1..Len(u) : (\E j \in 1..m : u[k] = f[j]) \/ \E i \in 2..n : u[k] = s[i]
    BY <1>1
  <2> QED BY <1>3, <2>1, <2>2, <2>3, <2>4, <2>5
<1>11. ToMake(u, b, q) = (ToMake(s, b, q) \ {x \in B : Makes(s[1], x, q)}) \cup ToMake(f, b, q)
  BY <1>10 DEF ToMake
<1>12. ToRead(u, b, q) = (ToRead(s, b, q) \ {x \in B : Reads(s[1], x)}) \cup ToRead(f, b, q)
  BY <1>10 DEF ToRead
<1> QED BY <1>9, <1>11, <1>12 DEF u

(* Nothing is left of an empty plan.                                       *)
LEMMA NothingToCopy ==
  ASSUME NEW b, NEW q
  PROVE  /\ CopyPlan(<<>>, b, q) /\ ToMake(<<>>, b, q) = {} /\ ToRead(<<>>, b, q) = {}
         /\ \A t : Within(<<>>, t, b, q)
<1>1. Len(<<>>) = 0 /\ \A k \in 1..0 : FALSE
  OBVIOUS
<1> QED BY <1>1 DEF CopyPlan, ToMake, ToRead, Within

(* To a free place, the new nodes are copies, and all copies are there     *)
(* except the ones that are to be made.                                    *)
Copies(t, b, q) ==
  q.dst \notin DOMAIN b =>
    \A y \in DOMAIN t : y \notin DOMAIN b =>
      \E x \in Branch(b, q.src) : y = CopyOf(x, q) /\ t[y].body = b[x].body

Mirrored(t, b, q, left) ==
  q.dst \notin DOMAIN b =>
    \A x \in Branch(b, q.src) : CopyOf(x, q) \in DOMAIN t <=> x \notin left

(* No node is new in the source.                                           *)
CopyKeeps ==
  /\ Grown /\ Accepted(before, query) /\ query.src \in DOMAIN before
  /\ \A x \in DOMAIN tree : IsPrefix(query.src, x) => x \in DOMAIN before
  /\ Copies(tree, before, query)

SourceSize == Cardinality(Branch(before, query.src))

Copying ==
  LET made == ToMake(agenda, before, query)
      read == ToRead(agenda, before, query) IN
  /\ CopyKeeps
  /\ CopyPlan(agenda, before, query)
  /\ Mirrored(tree, before, query, made)
  /\ IsFiniteSet(mine) /\ Cardinality(mine) + Cardinality(made) <= SourceSize
  /\ calls + (Cardinality(made) + Cardinality(read)) <= 2 + 3 * SourceSize

Copied ==
  /\ calls <= Budget
  /\ \/ Refused
     \/ /\ CopyKeeps
        /\ result = "ok" => Mirrored(tree, before, query, {})
        /\ IsFiniteSet(mine) /\ Cardinality(mine) <= SourceSize

LEMMA CopySizes ==
  ASSUME TreeConstantsOK, WellFormed(before), NEW s
  PROVE  LET made == ToMake(s, before, query)
             read == ToRead(s, before, query) IN
         /\ SourceSize \in Nat /\ Budget = 2 + 5 * SourceSize
         /\ IsFiniteSet(made) /\ Cardinality(made) \in Nat
         /\ IsFiniteSet(read) /\ Cardinality(read) \in Nat
<1> DEFINE B == Branch(before, query.src)
<1>1. IsFiniteSet(B) /\ Cardinality(B) \in Nat
  BY BranchesAreFinite
<1>2. ToMake(s, before, query) \in SUBSET B /\ ToRead(s, before, query) \in SUBSET B
  BY DEF ToMake, ToRead
<1> HIDE DEF B
<1>3. /\ IsFiniteSet(ToMake(s, before, query)) /\ IsFiniteSet(ToRead(s, before, query))
  BY <1>1, <1>2, FS_Subset
<1> QED BY <1>1, <1>3, FS_CardinalityType DEF SourceSize, Budget, B

(* A copy has calls left.                                                  *)
LEMMA CopyHasCalls ==
  ASSUME TreeConstantsOK, TreeInv, WellFormed(before), Copying
  PROVE  calls \in Nat /\ calls < Budget
<1> DEFINE n == SourceSize
           m == Cardinality(ToMake(agenda, before, query))
           r == Cardinality(ToRead(agenda, before, query))
<1>1. n \in Nat /\ m \in Nat /\ r \in Nat /\ Budget = 2 + 5 * n
  BY CopySizes
<1>2. n # 0
  <2>1. query.src \in Branch(before, query.src) /\ IsFiniteSet(Branch(before, query.src))
    <3>1. query.src \in DOMAIN before /\ query.src \in Seq(Names)
      <4>1. query.src \in DOMAIN before
        BY DEF Copying, CopyKeeps
      <4> QED BY <4>1, NodesAre
    <3>2. query.src \in Branch(before, query.src)
      BY <3>1, PrefixOrder DEF Branch
    <3> QED BY <3>2, BranchesAreFinite
  <2> QED BY <2>1, FS_EmptySet DEF SourceSize
<1>3. calls \in Nat /\ calls + (m + r) <= 2 + 3 * n
  BY DEF TreeInv, Recorded, Copying
<1> HIDE DEF n, m, r
<1>4. calls <= 2 + 3 * n /\ 2 + 3 * n < 2 + 5 * n
  BY <1>1, <1>2, <1>3
<1> QED BY <1>1, <1>3, <1>4

LEMMA CopyStops ==
  ASSUME TreeConstantsOK, TreeInv, WellFormed(before), Copying, Finish("failed"), Call,
         UNCHANGED <<tree, before, mine, gone, got>>
  PROVE  phase' = "done" /\ Copied'
<1>1. /\ phase' = "done" /\ result' = "failed" /\ query' = query /\ calls' = calls + 1
      /\ calls \in Nat /\ calls < Budget /\ Budget' = Budget /\ SourceSize' = SourceSize
  BY CopyHasCalls DEF Finish, Call, Budget, SourceSize
<1>2. CopyKeeps'
  BY <1>1 DEF Copying, CopyKeeps, Grown
<1>3. IsFiniteSet(mine') /\ Cardinality(mine') <= SourceSize'
  <2> DEFINE m == Cardinality(ToMake(agenda, before, query))
             k == Cardinality(mine)
  <2>1. k \in Nat /\ m \in Nat /\ SourceSize \in Nat /\ IsFiniteSet(mine) /\ k + m <= SourceSize
    BY CopySizes, FS_CardinalityType DEF Copying
  <2> HIDE DEF m
  <2> QED BY <1>1, <2>1
<1>4. calls' <= Budget'
  <2>1. Budget \in Nat
    BY BudgetIs
  <2> QED BY <1>1, <2>1
<1> QED BY <1>1, <1>2, <1>3, <1>4 DEF Copied

(* Other tasks in the place of one that reads or lists a node.             *)
LEMMA CopyContinues ==
  ASSUME TreeConstantsOK, TreeInv, WellFormed(before), Copying, Call,
         UNCHANGED <<upstream, history>>,
         NEW F, agenda \in Seq(F), agenda # <<>>, NEW f \in Seq(F), Go(f \o Tail(agenda)),
         CopyPlan(f, before, query), Within(f, agenda[1], before, query),
         \A x \in Branch(before, query.src) :
           Makes(agenda[1], x, query) => x \in ToMake(f, before, query),
         NEW p \in Branch(before, query.src), Reads(agenda[1], p), p \notin ToRead(f, before, query)
  PROVE  \/ phase' = "act" /\ Copying'
         \/ phase' = "done" /\ Copied'
<1> DEFINE u == f \o Tail(agenda)
           B == Branch(before, query.src)
           m == ToMake(agenda, before, query)
           r == ToRead(agenda, before, query)
           v == ToRead(u, before, query)
<1>1. /\ CopyPlan(u, before, query)
      /\ ToMake(u, before, query) =
           (m \ {x \in B : Makes(agenda[1], x, query)}) \cup ToMake(f, before, query)
      /\ v = (r \ {x \in B : Reads(agenda[1], x)}) \cup ToRead(f, before, query)
  BY CopyGoesOn DEF Copying
<1>2. /\ 1 \in 1..Len(agenda)
      /\ \A x \in ToMake(f, before, query) : x \in B /\ Makes(agenda[1], x, query)
      /\ \A x \in ToRead(f, before, query) : x \in B /\ Reads(agenda[1], x)
  BY DEF Within, ToMake, ToRead
<1>3. /\ \A x \in B : Makes(agenda[1], x, query) => x \in m
      /\ \A x \in B : Reads(agenda[1], x) => x \in r
  BY <1>2 DEF ToMake, ToRead
<1>4. ToMake(u, before, query) = m
  <2> HIDE DEF u, m
  <2> QED BY <1>1, <1>2, <1>3 DEF ToMake
<1>5. p \in r /\ v \subseteq r \ {p}
  <2> HIDE DEF u, r, v
  <2> QED BY <1>1, <1>2, <1>3
<1>6. /\ query' = query /\ before' = before /\ tree' = tree /\ mine' = mine /\ gone' = gone
      /\ got' = got /\ calls' = calls + 1 /\ calls \in Nat /\ SourceSize' = SourceSize
      /\ agenda' = u /\ (u = <<>> => phase' = "done") /\ (u # <<>> => phase' = "act")
  <2> HIDE DEF u
  <2>1. Go(u)
    BY DEF u
  <2> QED BY <2>1 DEF Go, upstream, history, Call, TreeInv, Recorded, SourceSize
<1> HIDE DEF u
<1>7. CopyKeeps'
  BY <1>6 DEF Copying, CopyKeeps, Grown
<1>8. /\ IsFiniteSet(mine') /\ Cardinality(mine') + Cardinality(m) <= SourceSize'
      /\ Mirrored(tree', before', query', m)
  BY <1>6 DEF Copying
<1>9. calls' + (Cardinality(m) + Cardinality(v)) <= 2 + 3 * SourceSize
  <2> DEFINE k == Cardinality(m)
             h == Cardinality(r)
             l == Cardinality(v)
  <2>1. SourceSize \in Nat /\ k \in Nat /\ IsFiniteSet(r) /\ h \in Nat
    BY CopySizes
  <2>2. calls + (k + h) <= 2 + 3 * SourceSize
    BY DEF Copying
  <2>3. l + 1 <= h /\ l \in Nat
    <3> HIDE DEF r, v
    <3> QED BY <1>5, <2>1, ShrinksByOne
  <2> DEFINE n == SourceSize
             c == calls'
  <2>4. c = calls + 1 /\ calls \in Nat
    BY <1>6
  <2> HIDE DEF k, h, l, n, c
  <2>5. c + (k + l) <= 2 + 3 * n
    <3>1. n \in Nat /\ k \in Nat /\ h \in Nat /\ calls + (k + h) <= 2 + 3 * n
      BY <2>1, <2>2 DEF n
    <3>2. c + (k + l) <= calls + (k + h)
      BY <2>3, <2>4, <3>1
    <3> QED BY <2>3, <2>4, <3>1, <3>2
  <2> QED BY <2>5 DEF k, l, n, c
<1>10. CASE u # <<>>
  <2>1. ToMake(agenda', before', query') = m /\ ToRead(agenda', before', query') = v
    BY <1>4, <1>6
  <2>2. CopyPlan(agenda', before', query')
    BY <1>1, <1>6
  <2> HIDE DEF m, v
  <2>3. Copying'
    BY <1>6, <1>7, <1>8, <1>9, <2>1, <2>2 DEF Copying
  <2> QED BY <1>6, <1>10, <2>3
<1>11. CASE u = <<>>
  <2>1. m = {}
    BY <1>4, <1>11, NothingToCopy
  <2>2. calls' <= Budget'
    <3>1. calls' \in Nat /\ calls < Budget /\ Budget \in Nat /\ Budget' = Budget
      BY <1>6, CopyHasCalls, BudgetIs DEF Budget
    <3> QED BY <1>6, <3>1
  <2>3. Cardinality(mine') <= SourceSize'
    <3>1. Cardinality(m) = 0 /\ Cardinality(mine') \in Nat
      BY <1>8, <2>1, FS_EmptySet, FS_CardinalityType
    <3> HIDE DEF m
    <3> QED BY <1>8, <3>1
  <2>4. Mirrored(tree', before', query', {})
    BY <1>8, <2>1
  <2>5. Copied'
    BY <1>7, <1>8, <2>2, <2>3, <2>4 DEF Copied
  <2> QED BY <1>6, <1>11, <2>5
<1> QED BY <1>10, <1>11

LEMMA SourceIs ==
  ASSUME TreeConstantsOK, TreeInv, WellFormed(before), NEW x \in Branch(before, query.src)
  PROVE  /\ query \in Queries /\ query.src \in Seq(Names) /\ query.dst \in Seq(Names)
         /\ x \in DOMAIN before /\ x \in Seq(Names) /\ Len(x) # 0 /\ IsPrefix(query.src, x)
         /\ CopyOf(x, query) \in Seq(Names) /\ Len(CopyOf(x, query)) # 0
         /\ IsPrefix(query.dst, CopyOf(x, query))
         /\ \A y \in Branch(before, query.src) : CopyOf(y, query) = CopyOf(x, query) => y = x
<1>1. /\ query \in Queries /\ query.src \in Seq(Names) /\ query.dst \in Seq(Names)
  BY QueriesAre DEF TreeInv, Working
<1>2. \A y \in Branch(before, query.src) :
        y \in DOMAIN before /\ y \in Seq(Names) /\ Len(y) # 0 /\ IsPrefix(query.src, y)
  BY NodesAre DEF Branch
<1>3. \A y \in Branch(before, query.src) : MovedTo(CopyOf(y, query), query.dst, query.src) = y
  BY <1>1, <1>2, CopyOfIs
<1>4. /\ CopyOf(x, query) \in Seq(Names) /\ Len(CopyOf(x, query)) # 0
      /\ IsPrefix(query.dst, CopyOf(x, query))
  BY <1>1, <1>2, CopyOfIs
<1>5. \A y \in Branch(before, query.src) : CopyOf(y, query) = CopyOf(x, query) => y = x
  BY <1>3
<1> QED BY <1>1, <1>2, <1>4, <1>5

(* What a task makes and reads.                                            *)
LEMMA TasksCopy ==
  ASSUME TreeConstantsOK, TreeInv, WellFormed(before), NEW x \in Branch(before, query.src), NEW t
  PROVE  /\ t.do = "make" /\ t.at = CopyOf(x, query) =>
              \A y \in Branch(before, query.src) :
                (Makes(t, y, query) <=> y = x) /\ ~Reads(t, y)
         /\ t.do = "read" /\ t.at = x =>
              \A y \in Branch(before, query.src) :
                (Makes(t, y, query) <=> y = x) /\ (Reads(t, y) <=> y = x)
         /\ t.do = "fill" /\ t.at = x =>
              \A y \in Branch(before, query.src) :
                (Makes(t, y, query) <=> IsPrefix(x, y) /\ y # x) /\ (Reads(t, y) <=> IsPrefix(x, y))
<1>1. \A y \in Branch(before, query.src) : CopyOf(y, query) = CopyOf(x, query) => y = x
  BY SourceIs
<1> QED BY <1>1 DEF Makes, Reads

(* The first task of a copy.                                               *)
LEMMA CopyHead ==
  ASSUME TreeConstantsOK, TreeInv, WellFormed(before), Copying, phase = "act"
  PROVE  /\ agenda \in Seq(FitTasks(query, within)) /\ agenda # <<>> /\ Head(agenda) = agenda[1]
         /\ 1 \in 1..Len(agenda) /\ Sensible(agenda[1], before, query)
<1> DEFINE F == FitTasks(query, within)
<1>1. agenda \in Seq(F) /\ agenda # <<>>
  BY DEF TreeInv, Working
<1>2. 1 \in 1..Len(agenda) /\ Head(agenda) = agenda[1]
  <2> HIDE DEF F
  <2> QED BY <1>1
<1> QED BY <1>1, <1>2 DEF Copying, CopyPlan

LEMMA ReadChildAlone ==
  ASSUME TreeConstantsOK, TreeInv, WellFormed(before), Copying, phase = "act", ReadChild, Call
  PROVE  \/ phase' = "act" /\ Copying'
         \/ phase' = "done" /\ Copied'
<1> DEFINE p == agenda[1].at
           new == Make(agenda[1].to, tree[p].body)
           f == <<new>>
           F == FitTasks(query, within) \cup {new}
<1>1. /\ agenda \in Seq(FitTasks(query, within)) /\ agenda # <<>> /\ Head(agenda) = agenda[1]
      /\ Sensible(agenda[1], before, query)
  BY CopyHead
<1>2. agenda[1].do = "read" /\ UNCHANGED <<upstream, history>>
  BY <1>1 DEF ReadChild, Due
<1>3. p \in Branch(before, query.src) /\ agenda[1].to = CopyOf(p, query)
  BY <1>1, <1>2 DEF Sensible
<1>4. CASE Finish("failed")
  BY <1>2, <1>4, CopyStops DEF upstream, history
<1>5. CASE ~Finish("failed")
  <2>1. Go(f \o Tail(agenda))
    BY <1>1, <1>5 DEF ReadChild
  <2>2. new.do = "make" /\ new.at = CopyOf(p, query) /\ new.body = before[p].body
    <3>1. tree[p] = before[p]
      BY <1>3 DEF Copying, CopyKeeps, Grown, Branch
    <3> QED BY <1>3, <3>1 DEF Make
  <2>3. \A y \in Branch(before, query.src) : (Makes(new, y, query) <=> y = p) /\ ~Reads(new, y)
    BY <1>3, <2>2, TasksCopy
  <2>4. \A y \in Branch(before, query.src) :
          (Makes(agenda[1], y, query) <=> y = p) /\ (Reads(agenda[1], y) <=> y = p)
    BY <1>2, <1>3, TasksCopy
  <2>5. Sensible(new, before, query)
    BY <1>3, <2>2 DEF Sensible
  <2> HIDE DEF new
  <2>6. /\ f \in Seq(F) /\ agenda \in Seq(F) /\ Len(f) = 1 /\ f[1] = new
        /\ 1 \in 1..Len(f) /\ \A k \in 1..Len(f) : k = 1
    BY <1>1
  <2> HIDE DEF f, p, F
  <2>7. CopyPlan(f, before, query)
    BY <2>5, <2>6 DEF CopyPlan
  <2>8. Within(f, agenda[1], before, query)
    BY <2>3, <2>4, <2>6 DEF Within
  <2>9. /\ \A x \in Branch(before, query.src) :
             Makes(agenda[1], x, query) => x \in ToMake(f, before, query)
        /\ p \notin ToRead(f, before, query)
    BY <2>3, <2>4, <2>6 DEF ToMake, ToRead
  <2>10. Reads(agenda[1], p)
    BY <1>3, <2>4
  <2> QED BY <1>1, <1>2, <1>3, <2>1, <2>6, <2>7, <2>8, <2>9, <2>10, CopyContinues
<1> QED BY <1>4, <1>5

LEMMA MakeNodeAlone ==
  ASSUME TreeConstantsOK, TreeInv, WellFormed(before), Copying, phase = "act", ~Overlapping,
         query.op = "copy", MakeNode, Call
  PROVE  \/ phase' = "act" /\ Copying'
         \/ phase' = "done" /\ Copied'
<1> DEFINE task == agenda[1]
           F == FitTasks(query, within)
           B == Branch(before, query.src)
           u == Tail(agenda)
           m == ToMake(agenda, before, query)
           v == ToMake(u, before, query)
           r == ToRead(agenda, before, query)
           w == ToRead(u, before, query)
<1>1. /\ agenda \in Seq(F) /\ agenda # <<>> /\ Head(agenda) = task
      /\ 1 \in 1..Len(agenda) /\ Sensible(task, before, query)
  BY CopyHead
<1>2. /\ task.do = "make" /\ UNCHANGED <<before, gone, got>> /\ query' = query
      /\ calls' = calls + 1
      /\ \/ Finish("failed") /\ UNCHANGED <<upstream, mine>>
         \/ /\ Store(task.at, task.body)
            /\ mine' = mine \cup {next}
            /\ GoOn \/ Finish("failed")
  <2>1. GoOn \/ Finish("failed")
    BY DEF MakeNode
  <2>2. query' = query
    BY <2>1 DEF GoOn, Go, Finish
  <2> QED BY <1>1, <2>2 DEF MakeNode, Due, Call
<1>3. PICK x \in B : task.at = CopyOf(x, query) /\ task.body = before[x].body
  BY <1>1, <1>2 DEF Sensible
<1>4. CASE Finish("failed") /\ UNCHANGED <<upstream, mine>>
  BY <1>2, <1>4, CopyStops DEF upstream
<1>5. CASE ~(Finish("failed") /\ UNCHANGED <<upstream, mine>>)
  <2>1. Store(task.at, task.body) /\ mine' = mine \cup {next} /\ (GoOn \/ Finish("failed"))
    BY <1>2, <1>5
  <2>2. /\ query \in Queries /\ query.src \in Seq(Names) /\ query.dst \in Seq(Names)
        /\ task.at \in Seq(Names) /\ Len(task.at) # 0 /\ IsPrefix(query.dst, task.at)
        /\ \A y \in B : CopyOf(y, query) = task.at => y = x
    BY <1>3, SourceIs
  <2>a. PICK y : StoredAt(y, task.at, task.body)
    BY <2>1, StoreIs
  <2>3. /\ y \notin DOMAIN tree /\ y \in Seq(Names)
        /\ Len(y) = Len(task.at) /\ Front(y) = Front(task.at)
        /\ task.at \notin DOMAIN tree => y = task.at
        /\ DOMAIN tree' = DOMAIN tree \cup {y} /\ \A z \in DOMAIN tree : tree'[z] = tree[z]
        /\ tree'[y].body = task.body
    BY <2>a DEF StoredAt
  <2>4. Grown'
    BY <1>2, <2>1, StoreGrows DEF Copying, CopyKeeps
  <2>5. y \notin DOMAIN before /\ query.src \in DOMAIN before /\ query.src \in DOMAIN tree
    BY <2>3 DEF Copying, CopyKeeps, Grown
  <2>6. ~IsPrefix(query.src, y)
    <3>1. ~IsPrefix(query.src, query.dst) /\ ~IsPrefix(query.dst, query.src)
      BY DEF Overlapping
    <3> QED BY <2>2, <2>3, <2>5, <3>1, MadeElsewhere
  <2>7. \A k \in B : (Makes(task, k, query) <=> k = x) /\ ~Reads(task, k)
    BY <1>2, <1>3, TasksCopy
  <2>8. /\ CopyPlan(u, before, query) /\ v = m \ {x} /\ w = r /\ x \in m
    <3> DEFINE e == <<>>
    <3>1. /\ CopyPlan(e, before, query) /\ ToMake(e, before, query) = {}
          /\ ToRead(e, before, query) = {} /\ Within(e, task, before, query)
      BY NothingToCopy
    <3>2. e \in Seq(F) /\ e \o Tail(agenda) = u
      <4>1. u \in Seq(F) /\ e \in Seq(F)
        <5> HIDE DEF F
        <5> QED BY <1>1
      <4> QED BY <4>1
    <3> HIDE DEF e, F
    <3>3. CopyPlan(agenda, before, query)
      BY DEF Copying
    <3> DEFINE c == e \o Tail(agenda)
    <3>4. /\ CopyPlan(c, before, query)
          /\ ToMake(c, before, query) =
               (m \ {k \in B : Makes(task, k, query)}) \cup ToMake(e, before, query)
          /\ ToRead(c, before, query) =
               (r \ {k \in B : Reads(task, k)}) \cup ToRead(e, before, query)
      BY <1>1, <3>1, <3>2, <3>3, CopyGoesOn
    <3> HIDE DEF c
    <3>5. c = u
      BY <3>2 DEF c
    <3>6. {k \in B : Makes(task, k, query)} = {x} /\ {k \in B : Reads(task, k)} = {}
      BY <1>3, <2>7
    <3>7. x \in m
      BY <1>1, <1>3, <2>7 DEF ToMake
    <3> HIDE DEF u, m, r
    <3> QED BY <3>1, <3>4, <3>5, <3>6, <3>7
  <2>9. Copies(tree', before', query')
    <3> SUFFICES ASSUME query.dst \notin DOMAIN before,
                        NEW z \in DOMAIN tree', z \notin DOMAIN before
                 PROVE  \E k \in B : z = CopyOf(k, query) /\ tree'[z].body = before[k].body
      BY <1>2 DEF Copies
    <3>1. CASE z \in DOMAIN tree
      BY <2>3, <3>1 DEF Copying, CopyKeeps, Copies
    <3>2. CASE z = y
      <4>1. task.at \notin DOMAIN tree
        BY <1>3, <2>8 DEF Copying, Mirrored
      <4>2. z = task.at /\ tree'[z].body = task.body
        BY <2>3, <3>2, <4>1
      <4> QED BY <1>3, <4>2
    <3> QED BY <2>3, <3>1, <3>2
  <2>10. CopyKeeps'
    <3>1. /\ Accepted(before, query)' /\ query'.src \in DOMAIN before'
          /\ \A z \in DOMAIN tree' : IsPrefix(query'.src, z) => z \in DOMAIN before'
      BY <1>2, <2>3, <2>6 DEF Copying, CopyKeeps
    <3> QED BY <2>4, <2>9, <3>1 DEF CopyKeeps
  <2>11. Mirrored(tree', before', query', v)
    <3> SUFFICES ASSUME query.dst \notin DOMAIN before, NEW k \in B
                 PROVE  CopyOf(k, query) \in DOMAIN tree' <=> k \notin v
      BY <1>2 DEF Mirrored
    <3>1. \A z \in B : CopyOf(z, query) \in DOMAIN tree <=> z \notin m
      BY DEF Copying, Mirrored
    <3>2. y = task.at
      BY <1>3, <2>3, <2>8, <3>1
    <3> HIDE DEF m, v
    <3> QED BY <1>3, <2>2, <2>3, <2>8, <3>1, <3>2
  <2>12. /\ IsFiniteSet(mine') /\ Cardinality(mine') + Cardinality(v) <= SourceSize
         /\ Cardinality(mine') <= SourceSize
         /\ calls' + (Cardinality(v) + Cardinality(w)) <= 2 + 3 * SourceSize
    <3> DEFINE a == Cardinality(mine)
               b == Cardinality(mine')
               c == Cardinality(m)
               d == Cardinality(v)
               l == Cardinality(r)
               n == SourceSize
               e == calls'
    <3>1. /\ IsFiniteSet(mine) /\ a + c <= n /\ calls + (c + l) <= 2 + 3 * n
      BY DEF Copying
    <3>2. n \in Nat /\ IsFiniteSet(m) /\ c \in Nat /\ d \in Nat /\ l \in Nat
      BY CopySizes
    <3>3. IsFiniteSet(mine') /\ b <= a + 1 /\ a \in Nat /\ b \in Nat
      <4> DEFINE s == mine \cup {next}
      <4>1. IsFiniteSet(s) /\ Cardinality(s) \in {a, a + 1} /\ a \in Nat
        BY <3>1, FS_AddElement, FS_CardinalityType
      <4>2. s = mine'
        BY <2>1
      <4> HIDE DEF a, s
      <4> QED BY <4>1, <4>2
    <3>4. d + 1 <= c
      <4> HIDE DEF m, v
      <4> QED BY <2>8, <3>2, ShrinksByOne
    <3>5. e = calls + 1 /\ calls \in Nat /\ Cardinality(w) = l
      BY <1>2, <2>8 DEF TreeInv, Recorded
    <3> HIDE DEF a, b, c, d, l, n, e, v, w
    <3>6. b + d <= n /\ b <= n /\ e + (d + l) <= 2 + 3 * n
      BY <3>1, <3>2, <3>3, <3>4, <3>5
    <3> QED BY <3>3, <3>5, <3>6 DEF b, d, n, e
  <2>13. /\ SourceSize' = SourceSize /\ calls' <= Budget'
    <3>1. SourceSize' = SourceSize /\ Budget' = Budget
      BY <1>2 DEF SourceSize, Budget
    <3>2. calls \in Nat /\ calls < Budget /\ Budget \in Nat
      BY CopyHasCalls, BudgetIs
    <3> QED BY <1>2, <3>1, <3>2
  <2>14. CASE Finish("failed")
    <3>1. phase' = "done" /\ result' = "failed"
      BY <2>14 DEF Finish
    <3>2. Copied'
      BY <2>10, <2>12, <2>13, <3>1 DEF Copied
    <3> QED BY <3>1, <3>2
  <2>15. CASE GoOn
    <3>1. agenda' = u /\ (u = <<>> => phase' = "done") /\ (u # <<>> => phase' = "act")
      <4>1. Go(u)
        BY <2>15 DEF GoOn
      <4> HIDE DEF u
      <4> QED BY <4>1 DEF Go
    <3> HIDE DEF u
    <3>2. CASE u = <<>>
      <4>1. v = {}
        BY <3>2, NothingToCopy
      <4>2. Mirrored(tree', before', query', {})
        BY <2>11, <4>1
      <4>3. Copied'
        BY <2>10, <2>12, <2>13, <4>2 DEF Copied
      <4> QED BY <3>1, <3>2, <4>3
    <3>3. CASE u # <<>>
      <4>1. ToMake(agenda', before', query') = v /\ ToRead(agenda', before', query') = w
        BY <1>2, <3>1
      <4>2. CopyPlan(agenda', before', query')
        BY <1>2, <2>8, <3>1
      <4> HIDE DEF v, w
      <4>3. Copying'
        BY <2>10, <2>11, <2>12, <2>13, <4>1, <4>2 DEF Copying
      <4> QED BY <3>1, <3>3, <4>3
    <3> QED BY <3>2, <3>3
  <2> QED BY <2>1, <2>14, <2>15
<1> QED BY <1>4, <1>5

(* Two plans for different nodes.                                          *)
LEMMA PlansJoin ==
  ASSUME NEW T, NEW v \in Seq(T), NEW w \in Seq(T), NEW b, NEW q,
         CopyPlan(v, b, q), CopyPlan(w, b, q),
         ToMake(v, b, q) \cap ToMake(w, b, q) = {}, ToRead(v, b, q) \cap ToRead(w, b, q) = {}
  PROVE  /\ CopyPlan(v \o w, b, q)
         /\ ToMake(v \o w, b, q) = ToMake(v, b, q) \cup ToMake(w, b, q)
         /\ ToRead(v \o w, b, q) = ToRead(v, b, q) \cup ToRead(w, b, q)
<1> DEFINE u == v \o w
           m == Len(v)
           n == Len(w)
           B == Branch(b, q.src)
<1>1. /\ u \in Seq(T) /\ Len(u) = m + n /\ m \in Nat /\ n \in Nat
      /\ \A i \in 1..m : u[i] = v[i]
      /\ \A i \in 1..n : u[m + i] = w[i]
  BY JoinedIs DEF Joined
<1> HIDE DEF u
<1>2. \A k \in 1..Len(u) : k \in 1..m \/ \E i \in 1..n : k = m + i
  <2>1. ASSUME NEW k \in 1..Len(u), ~(k \in 1..m) PROVE k - m \in 1..n /\ k = m + (k - m)
    BY <1>1, <2>1
  <2> QED BY <2>1
<1>3. /\ \A k \in 1..m : Sensible(v[k], b, q)
      /\ \A k \in 1..n : Sensible(w[k], b, q)
      /\ \A j, k \in 1..m : j # k => ~Clash(v[j], v[k], b, q)
      /\ \A j, k \in 1..n : j # k => ~Clash(w[j], w[k], b, q)
  BY DEF CopyPlan
<1>4. ASSUME NEW j \in 1..m, NEW k \in 1..n
      PROVE  ~Clash(v[j], w[k], b, q) /\ ~Clash(w[k], v[j], b, q)
  BY DEF Clash, ToMake, ToRead
<1>5. ASSUME NEW k \in 1..Len(u) PROVE Sensible(u[k], b, q)
  BY <1>1, <1>2, <1>3
<1>6. ASSUME NEW j \in 1..Len(u), NEW k \in 1..Len(u), j # k PROVE ~Clash(u[j], u[k], b, q)
  <2>1. CASE j \in 1..m /\ k \in 1..m
    BY <1>1, <1>3, <1>6, <2>1
  <2>2. ASSUME NEW i \in 1..n, k = m + i, j \in 1..m PROVE ~Clash(u[j], u[k], b, q)
    BY <1>1, <1>4, <2>2
  <2>3. ASSUME NEW i \in 1..n, j = m + i, k \in 1..m PROVE ~Clash(u[j], u[k], b, q)
    BY <1>1, <1>4, <2>3
  <2>4. ASSUME NEW i \in 1..n, j = m + i, NEW h \in 1..n, k = m + h PROVE ~Clash(u[j], u[k], b, q)
    <3>1. i # h
      BY <1>6, <2>4
    <3> QED BY <1>1, <1>3, <2>4, <3>1
  <2> QED BY <1>2, <2>1, <2>2, <2>3, <2>4
<1>7. ASSUME NEW x \in B
      PROVE  /\ (\E k \in 1..Len(u) : Makes(u[k], x, q)) <=>
                  (\E k \in 1..m : Makes(v[k], x, q)) \/ \E k \in 1..n : Makes(w[k], x, q)
             /\ (\E k \in 1..Len(u) : Reads(u[k], x)) <=>
                  (\E k \in 1..m : Reads(v[k], x)) \/ \E k \in 1..n : Reads(w[k], x)
  <2>1. \A k \in 1..m : k \in 1..Len(u) /\ u[k] = v[k]
    BY <1>1
  <2>2. \A k \in 1..n : m + k \in 1..Len(u) /\ u[m + k] = w[k]
    BY <1>1
  <2>3. \A k \in 1..Len(u) : (\E j \in 1..m : u[k] = v[j]) \/ \E j \in 1..n : u[k] = w[j]
    BY <1>1, <1>2
  <2> QED BY <2>1, <2>2, <2>3
<1>8. CopyPlan(u, b, q)
  BY <1>5, <1>6 DEF CopyPlan
<1>9. /\ ToMake(u, b, q) = ToMake(v, b, q) \cup ToMake(w, b, q)
      /\ ToRead(u, b, q) = ToRead(v, b, q) \cup ToRead(w, b, q)
  BY <1>7 DEF ToMake, ToRead
<1> QED BY <1>8, <1>9 DEF u

(* A plan that copies what is at or below these paths.                     *)
CopiesBelow(f, S) ==
  /\ CopyPlan(f, before, query)
  /\ \A x \in Branch(before, query.src) :
       /\ x \in ToMake(f, before, query) <=> \E c \in S : IsPrefix(c, x)
       /\ x \in ToRead(f, before, query) => \E c \in S : IsPrefix(c, x)

LEMMA OneTaskPlan ==
  ASSUME NEW t, NEW b, NEW q, Sensible(t, b, q)
  PROVE  /\ CopyPlan(<<t>>, b, q)
         /\ ToMake(<<t>>, b, q) = {x \in Branch(b, q.src) : Makes(t, x, q)}
         /\ ToRead(<<t>>, b, q) = {x \in Branch(b, q.src) : Reads(t, x)}
<1> DEFINE f == <<t>>
<1>1. Len(f) = 1 /\ f[1] = t /\ 1 \in 1..Len(f) /\ \A k \in 1..Len(f) : k = 1
  OBVIOUS
<1> HIDE DEF f
<1>2. CopyPlan(f, b, q)
  BY <1>1 DEF CopyPlan
<1>3. /\ ToMake(f, b, q) = {x \in Branch(b, q.src) : Makes(t, x, q)}
      /\ ToRead(f, b, q) = {x \in Branch(b, q.src) : Reads(t, x)}
  BY <1>1 DEF ToMake, ToRead
<1> QED BY <1>2, <1>3 DEF f

LEMMA TwoIs ==
  ASSUME NEW a, NEW b
  PROVE  <<a>> \o <<b>> = <<a, b>>
<1> DEFINE T == {a, b}
           v == <<a>>
           w == <<b>>
           two == <<a, b>>
<1>1. v \in Seq(T)
  OBVIOUS
<1>2. w \in Seq(T)
  OBVIOUS
<1>3. two \in Seq(T)
  OBVIOUS
<1>4. Len(v) = 1 /\ Len(w) = 1 /\ Len(two) = 2 /\ v[1] = a /\ w[1] = b /\ two[1] = a /\ two[2] = b
  OBVIOUS
<1> HIDE DEF T, v, w, two
<1>5. v \o w \in Seq(T) /\ Joined(v \o w, v, w)
  BY <1>1, <1>2, JoinedIs
<1> DEFINE c == v \o w
<1>6. Len(c) = 2 /\ c[1] = a /\ c[1 + 1] = b
  BY <1>4, <1>5 DEF Joined
<1> HIDE DEF c
<1>7. c = two
  <2>1. c \in Seq(T)
    BY <1>5 DEF c
  <2>2. \A i \in 1..Len(c) : c[i] = two[i]
    BY <1>4, <1>6
  <2> QED BY <1>3, <1>4, <1>6, <2>1, <2>2, SameSequence
<1> QED BY <1>7 DEF c, v, w, two

(* Make and fill a folder: all that is at and below it is copied.          *)
LEMMA FolderPlan ==
  ASSUME TreeConstantsOK, TreeInv, WellFormed(before),
         NEW c \in Branch(before, query.src), before[c].body = Folder
  PROVE  LET f == <<Make(CopyOf(c, query), Folder), Fill(c, CopyOf(c, query))>> IN
         /\ CopiesBelow(f, {c})
         /\ \A x \in Branch(before, query.src) : x \in ToRead(f, before, query) <=> IsPrefix(c, x)
<1> DEFINE to == CopyOf(c, query)
           make == Make(to, Folder)
           fill == Fill(c, to)
           v == <<make>>
           w == <<fill>>
           T == {make, fill}
           B == Branch(before, query.src)
<1>1. /\ make.do = "make" /\ make.at = to /\ make.body = Folder
      /\ fill.do = "fill" /\ fill.at = c /\ fill.to = to
  BY DEF Make, Fill
<1> HIDE DEF make, fill
<1>a. v \in Seq(T)
  OBVIOUS
<1>b. w \in Seq(T)
  OBVIOUS
<1>2. v \o w = <<make, fill>>
  BY TwoIs
<1>3. Sensible(make, before, query) /\ Sensible(fill, before, query)
  BY <1>1 DEF Sensible
<1>4. \A y \in B : /\ (Makes(make, y, query) <=> y = c) /\ ~Reads(make, y)
                   /\ (Makes(fill, y, query) <=> IsPrefix(c, y) /\ y # c)
                   /\ (Reads(fill, y) <=> IsPrefix(c, y))
  BY <1>1, TasksCopy
<1>5. /\ CopyPlan(v, before, query) /\ CopyPlan(w, before, query)
      /\ ToMake(v, before, query) = {x \in B : Makes(make, x, query)}
      /\ ToRead(v, before, query) = {x \in B : Reads(make, x)}
      /\ ToMake(w, before, query) = {x \in B : Makes(fill, x, query)}
      /\ ToRead(w, before, query) = {x \in B : Reads(fill, x)}
  BY <1>3, OneTaskPlan
<1>6. IsPrefix(c, c)
  BY SourceIs, PrefixOrder
<1> HIDE DEF v, w, T
<1>7. /\ ToMake(v, before, query) \cap ToMake(w, before, query) = {}
      /\ ToRead(v, before, query) \cap ToRead(w, before, query) = {}
  BY <1>4, <1>5
<1>8. /\ CopyPlan(v \o w, before, query)
      /\ ToMake(v \o w, before, query) = ToMake(v, before, query) \cup ToMake(w, before, query)
      /\ ToRead(v \o w, before, query) = ToRead(v, before, query) \cup ToRead(w, before, query)
  BY <1>a, <1>b, <1>5, <1>7, PlansJoin
<1>9. \A x \in B : /\ x \in ToMake(v \o w, before, query) <=> IsPrefix(c, x)
                   /\ x \in ToRead(v \o w, before, query) <=> IsPrefix(c, x)
  BY <1>4, <1>5, <1>6, <1>8
<1>10. CopiesBelow(v \o w, {c})
  BY <1>8, <1>9 DEF CopiesBelow
<1> QED BY <1>2, <1>9, <1>10 DEF make, fill

(* The tasks for a child.                                                  *)
LEMMA ChildPlan ==
  ASSUME TreeConstantsOK, TreeInv, WellFormed(before), Copying,
         NEW p \in Branch(before, query.src), NEW c \in Kids(p)
  PROVE  /\ c \in Branch(before, query.src)
         /\ CopiesBelow(CopyTasks(c, CopyOf(p, query)), {c})
<1> DEFINE B == Branch(before, query.src)
<1>1. /\ query \in Queries /\ query.src \in Seq(Names) /\ p \in Seq(Names) /\ IsPrefix(query.src, p)
      /\ WellFormed(tree)
  BY SourceIs DEF TreeInv, Stored
<1>2. /\ c \in DOMAIN tree /\ Len(c) = Len(p) + 1 /\ IsPrefix(p, c) /\ c \in Seq(Names)
  BY <1>1, KidsAre
<1>3. c \in B /\ c \in DOMAIN before /\ tree[c] = before[c]
  <2>1. IsPrefix(query.src, c)
    BY <1>1, <1>2, PrefixOrder
  <2> QED BY <1>2, <2>1 DEF Copying, CopyKeeps, Grown, Branch
<1>4. CopyOf(p, query) \o <<Last(c)>> = CopyOf(c, query)
  BY <1>1, <1>2, CopyOfChild
<1>5. CASE before[c].body = Folder
  <2>1. CopyTasks(c, CopyOf(p, query)) =
          <<Make(CopyOf(c, query), Folder), Fill(c, CopyOf(c, query))>>
    BY <1>3, <1>4, <1>5 DEF CopyTasks, IsDir
  <2> QED BY <1>3, <1>5, <2>1, FolderPlan
<1>6. CASE before[c].body # Folder
  <2> DEFINE read == [do |-> "read", at |-> c, to |-> CopyOf(c, query)]
  <2>1. CopyTasks(c, CopyOf(p, query)) = <<read>>
    BY <1>3, <1>4, <1>6 DEF CopyTasks, IsDir
  <2>2. read.do = "read" /\ read.at = c /\ read.to = CopyOf(c, query)
    OBVIOUS
  <2> HIDE DEF read
  <2>3. Sensible(read, before, query)
    BY <1>3, <2>2 DEF Sensible
  <2>4. \A y \in B : (Makes(read, y, query) <=> y = c) /\ (Reads(read, y) <=> y = c)
    BY <1>3, <2>2, TasksCopy
  <2>5. \A y \in B : IsPrefix(c, y) <=> y = c
    <3>1. Branch(before, c) = {c}
      BY <1>3, <1>6, LeafIs
    <3>2. \A y \in B : IsPrefix(c, y) => y \in Branch(before, c)
      BY DEF Branch
    <3>3. IsPrefix(c, c)
      BY <1>2, PrefixOrder
    <3> QED BY <3>1, <3>2, <3>3
  <2>6. /\ CopyPlan(<<read>>, before, query)
        /\ ToMake(<<read>>, before, query) = {x \in B : Makes(read, x, query)}
        /\ ToRead(<<read>>, before, query) = {x \in B : Reads(read, x)}
    BY <2>3, OneTaskPlan
  <2>7. CopiesBelow(<<read>>, {c})
    BY <2>4, <2>5, <2>6 DEF CopiesBelow
  <2> QED BY <1>3, <2>1, <2>7
<1> QED BY <1>5, <1>6

(* Plans for nodes that lie apart.                                         *)
LEMMA ApartJoin ==
  ASSUME TreeConstantsOK, TreeInv, WellFormed(before), NEW T, NEW v \in Seq(T), NEW w \in Seq(T),
         NEW S, S \subseteq Seq(Names), NEW c \in Seq(Names), \A d \in S : Apart(d, c),
         CopiesBelow(v, S), CopiesBelow(w, {c})
  PROVE  CopiesBelow(v \o w, S \cup {c})
<1> DEFINE B == Branch(before, query.src)
           u == v \o w
<1>1. ASSUME NEW x \in B, NEW d \in S, IsPrefix(d, x), IsPrefix(c, x) PROVE FALSE
  <2>1. d \in Seq(Names) /\ x \in Seq(Names) /\ Apart(d, c)
    BY SourceIs
  <2> QED BY <1>1, <2>1, PrefixesCompare DEF Apart
<1>2. /\ \A x \in B : x \in ToMake(v, before, query) <=> \E d \in S : IsPrefix(d, x)
      /\ \A x \in B : x \in ToRead(v, before, query) => \E d \in S : IsPrefix(d, x)
      /\ \A x \in B : x \in ToMake(w, before, query) <=> IsPrefix(c, x)
      /\ \A x \in B : x \in ToRead(w, before, query) => IsPrefix(c, x)
      /\ CopyPlan(v, before, query) /\ CopyPlan(w, before, query)
  BY DEF CopiesBelow
<1>3. /\ ToMake(v, before, query) \cap ToMake(w, before, query) = {}
      /\ ToRead(v, before, query) \cap ToRead(w, before, query) = {}
  <2>1. \A f : ToMake(f, before, query) \subseteq B /\ ToRead(f, before, query) \subseteq B
    BY DEF ToMake, ToRead
  <2> QED BY <1>1, <1>2, <2>1
<1>4. /\ CopyPlan(u, before, query)
      /\ ToMake(u, before, query) = ToMake(v, before, query) \cup ToMake(w, before, query)
      /\ ToRead(u, before, query) = ToRead(v, before, query) \cup ToRead(w, before, query)
  BY <1>2, <1>3, PlansJoin
<1> HIDE DEF u
<1>5. CopiesBelow(u, S \cup {c})
  BY <1>2, <1>4 DEF CopiesBelow
<1> QED BY <1>5 DEF u

LEMMA KidsListed ==
  ASSUME TreeConstantsOK, WellFormed(tree), NEW p \in Seq(Names), NEW order \in SetToSeqs(Kids(p))
  PROVE  /\ order \in Seq(Kids(p)) /\ Len(order) \in Nat
         /\ \A j, k \in 1..Len(order) : j # k => order[j] # order[k]
         /\ \A y \in Kids(p) : \E k \in 1..Len(order) : order[k] = y
         /\ \A k \in 1..Len(order) : order[k] \in Kids(p)
<1> DEFINE K == Kids(p)
<1>1. IsFiniteSet(K)
  BY KidsAre, TreesAreFinite, FS_Subset
<1>2. order \in SetToSeqs(K)
  OBVIOUS
<1> HIDE DEF K
<1>3. /\ order \in Seq(K)
      /\ \A j, k \in 1..Len(order) : j # k => order[j] # order[k]
      /\ \A y \in K : \E k \in 1..Len(order) : order[k] = y
  BY <1>1, <1>2, ListsAll
<1>4. Len(order) \in Nat /\ \A k \in 1..Len(order) : order[k] \in K
  BY <1>3
<1> QED BY <1>3, <1>4 DEF K

(* The tasks for all children of a folder.                                 *)
LEMMA FillPlan ==
  ASSUME TreeConstantsOK, TreeInv, WellFormed(before), Copying,
         NEW p \in Branch(before, query.src), NEW order \in SetToSeqs(Kids(p)),
         NEW T, NEW seqs \in Seq(Seq(T)), Len(seqs) = Len(order),
         \A k \in 1..Len(order) : seqs[k] = CopyTasks(order[k], CopyOf(p, query))
  PROVE  CopiesBelow(FlattenSeq(seqs), Kids(p))
<1> DEFINE n == Len(order)
           Before(i) == {order[j] : j \in 1..i}
           R == {r \in Nat \X Seq(T) : CopiesBelow(r[2], Before(r[1]))}
<1>1. /\ p \in Seq(Names) /\ WellFormed(tree)
  BY SourceIs DEF TreeInv, Stored
<1>2. /\ Kids(p) \subseteq DOMAIN tree /\ Kids(p) \subseteq Seq(Names)
      /\ \A c, d \in Kids(p) : c # d => Apart(c, d)
  BY <1>1, KidsAre
<1>3. /\ order \in Seq(Kids(p)) /\ n \in Nat
      /\ \A j, k \in 1..n : j # k => order[j] # order[k]
      /\ \A y \in Kids(p) : \E k \in 1..n : order[k] = y
      /\ \A k \in 1..n : order[k] \in Kids(p)
  BY <1>1, KidsListed
<1>4. <<0, <<>>>> \in R
  <2> DEFINE e == <<>>
  <2>1. Before(0) = {}
    OBVIOUS
  <2>2. e \in Seq(T)
    OBVIOUS
  <2>3. CopiesBelow(e, {})
    BY NothingToCopy DEF CopiesBelow
  <2> HIDE DEF e, Before
  <2>4. <<0, e>> \in R
    BY <2>1, <2>2, <2>3
  <2> QED BY <2>4 DEF e
<1>5. ASSUME NEW i \in 1..Len(seqs), NEW v \in Seq(T), <<i - 1, v>> \in R
      PROVE  <<i, v \o seqs[i]>> \in R
  <2>1. /\ i \in 1..n /\ i \in Nat /\ i - 1 \in Nat
        /\ order[i] \in Kids(p) /\ order[i] \in Seq(Names)
    BY <1>2, <1>3
  <2>2. CopiesBelow(v, Before(i - 1))
    <3> HIDE DEF Before
    <3> QED BY <1>5
  <2>3. CopiesBelow(seqs[i], {order[i]})
    BY <2>1, ChildPlan
  <2>4. Before(i - 1) \subseteq Kids(p) /\ \A d \in Before(i - 1) : Apart(d, order[i])
    <3>1. ASSUME NEW j \in 1..(i - 1) PROVE order[j] \in Kids(p) /\ order[j] # order[i]
      BY <1>3, <2>1
    <3> QED BY <1>2, <2>1, <3>1
  <2>5. Before(i) = Before(i - 1) \cup {order[i]}
    <3>1. \A j : j \in 1..i <=> j \in 1..(i - 1) \/ j = i
      BY <2>1
    <3> QED BY <3>1
  <2>6. seqs[i] \in Seq(T)
    OBVIOUS
  <2> DEFINE w == seqs[i]
  <2> HIDE DEF Before, w
  <2>7. CopiesBelow(v \o w, Before(i - 1) \cup {order[i]})
    BY <1>2, <2>1, <2>2, <2>3, <2>4, <2>6, ApartJoin DEF w
  <2>8. v \o w \in Seq(T)
    BY <2>6 DEF w
  <2> QED BY <2>1, <2>5, <2>7, <2>8 DEF w
<1>6. Before(n) = Kids(p)
  BY <1>3
<1> HIDE DEF R
<1>7. <<Len(seqs), FlattenSeq(seqs)>> \in R
  BY <1>4, <1>5, FlattenedSteps
<1> DEFINE f == FlattenSeq(seqs)
<1> HIDE DEF f, Before
<1>8. CopiesBelow(f, Before(n))
  <2>1. <<n, f>> \in R
    BY <1>7 DEF f
  <2> QED BY <2>1 DEF R
<1> QED BY <1>6, <1>8 DEF f

LEMMA FillFolderAlone ==
  ASSUME TreeConstantsOK, TreeInv, WellFormed(before), Copying, phase = "act",
         query.op = "copy", FillFolder, Call
  PROVE  \/ phase' = "act" /\ Copying'
         \/ phase' = "done" /\ Copied'
<1> DEFINE task == agenda[1]
           p == task.at
           F == FitTasks(query, within)
           G == Steps(query, within)
           B == Branch(before, query.src)
<1>1. /\ agenda \in Seq(F) /\ agenda # <<>> /\ Head(agenda) = task
      /\ Sensible(task, before, query)
  BY CopyHead
<1>2. task.do = "fill" /\ UNCHANGED <<upstream, history>>
  BY <1>1 DEF FillFolder, Due
<1>3. p \in B /\ task.to = CopyOf(p, query) /\ before[p].body = Folder
  BY <1>1, <1>2 DEF Sensible
<1>4. /\ p \in Seq(Names) /\ task.to \in Seq(Names) /\ p \in DOMAIN before /\ IsPrefix(query.src, p)
      /\ WellFormed(tree)
  BY <1>3, SourceIs DEF TreeInv, Stored
<1>5. CASE Finish("failed")
  BY <1>2, <1>5, CopyStops DEF upstream, history
<1>6. CASE ~Finish("failed")
  <2>1. Listing(p) = Kids(p)
    <3>1. p \in DOMAIN tree /\ tree[p] = before[p]
      BY <1>4 DEF Copying, CopyKeeps, Grown
    <3> QED BY <1>3, <3>1 DEF Listing, IsFolder
  <2>2. PICK order \in SetToSeqs(Kids(p)) :
          Go(FlattenSeq([k \in DOMAIN order |-> CopyTasks(order[k], task.to)]) \o Tail(agenda))
    BY <1>1, <1>6, <2>1 DEF FillFolder
  <2> DEFINE seqs == [k \in DOMAIN order |-> CopyTasks(order[k], task.to)]
             f == FlattenSeq(seqs)
  <2>3. seqs \in Seq(Seq(G))
    <3>1. IsFiniteSet(Kids(p)) /\ Kids(p) \subseteq DOMAIN tree
      BY <1>4, <2>1, ListingIs
    <3> QED BY <1>4, <3>1, FillTasks
  <2>4. /\ Len(seqs) = Len(order)
        /\ \A k \in 1..Len(order) : seqs[k] = CopyTasks(order[k], CopyOf(p, query))
    <3>1. DOMAIN order = 1..Len(order) /\ Len(order) \in Nat
      BY <1>4, KidsListed
    <3> QED BY <1>3, <3>1
  <2>5. Go(f \o Tail(agenda))
    BY <2>2
  <2> HIDE DEF seqs, G
  <2>6. CopiesBelow(f, Kids(p))
    BY <1>3, <2>3, <2>4, FillPlan
  <2>7. f \in Seq(G)
    BY <2>3, FlattenedIs
  <2> HIDE DEF f
  <2>8. f \in Seq(F)
    <3>1. G \subseteq F
      BY DEF Steps, G
    <3> HIDE DEF F
    <3> QED BY <2>7, <3>1
  <2>9. /\ \A c \in Kids(p) : c \in Seq(Names) /\ IsPrefix(p, c) /\ ~IsPrefix(c, p)
        /\ \A y \in DOMAIN tree : IsPrefix(p, y) /\ y # p => \E c \in Kids(p) : IsPrefix(c, y)
    BY <1>4, KidsAre
  <2>10. \A x \in B : x \in DOMAIN tree /\ x \in Seq(Names)
    BY SourceIs DEF Copying, CopyKeeps, Grown
  <2>11. \A x \in B : (\E c \in Kids(p) : IsPrefix(c, x)) <=> IsPrefix(p, x) /\ x # p
    <3>1. ASSUME NEW x \in B, NEW c \in Kids(p), IsPrefix(c, x) PROVE IsPrefix(p, x) /\ x # p
      BY <1>4, <2>9, <2>10, <3>1, PrefixOrder
    <3> QED BY <2>9, <2>10, <3>1
  <2>12. \A x \in B : /\ (Makes(task, x, query) <=> IsPrefix(p, x) /\ x # p)
                      /\ (Reads(task, x) <=> IsPrefix(p, x))
    BY <1>2, <1>3, TasksCopy
  <2>13. /\ CopyPlan(f, before, query)
         /\ \A x \in B : /\ x \in ToMake(f, before, query) <=> IsPrefix(p, x) /\ x # p
                         /\ x \in ToRead(f, before, query) => IsPrefix(p, x) /\ x # p
    <3>1. /\ CopyPlan(f, before, query)
          /\ \A x \in B : /\ x \in ToMake(f, before, query) <=> \E c \in Kids(p) : IsPrefix(c, x)
                          /\ x \in ToRead(f, before, query) => \E c \in Kids(p) : IsPrefix(c, x)
      BY <2>6 DEF CopiesBelow
    <3> QED BY <2>11, <3>1
  <2>14. Within(f, task, before, query)
    <3>1. ASSUME NEW k \in 1..Len(f), NEW x \in B
          PROVE  /\ Makes(f[k], x, query) => Makes(task, x, query)
                 /\ Reads(f[k], x) => Reads(task, x)
      <4>1. /\ Makes(f[k], x, query) => x \in ToMake(f, before, query)
            /\ Reads(f[k], x) => x \in ToRead(f, before, query)
        BY DEF ToMake, ToRead
      <4> QED BY <2>12, <2>13, <4>1
    <3> QED BY <3>1 DEF Within
  <2>15. /\ \A x \in B : Makes(task, x, query) => x \in ToMake(f, before, query)
         /\ p \notin ToRead(f, before, query)
    BY <1>3, <2>12, <2>13
  <2>16. Reads(task, p)
    <3>1. IsPrefix(p, p)
      BY <1>4, PrefixOrder
    <3> QED BY <1>3, <2>12, <3>1
  <2> HIDE DEF p, F
  <2> QED BY <1>1, <1>2, <1>3, <2>5, <2>8, <2>13, <2>14, <2>15, <2>16, CopyContinues
<1> QED BY <1>5, <1>6

-----------------------------------------------------------------------------
(* The whole copy.                                                         *)

LEMMA PlannedCopy == TreeInv /\ WellFormed(before) /\ Planned /\ query.op = "copy" => Copying
<1> SUFFICES ASSUME TreeInv, WellFormed(before), Planned, query.op = "copy" PROVE Copying
  OBVIOUS
<1> USE TreeConstantsOK
<1> DEFINE src == query.src
           dst == query.dst
           B == Branch(before, src)
           node == before[src]
           made == ToMake(agenda, before, query)
           read == ToRead(agenda, before, query)
<1>1. /\ Fresh /\ tree = before /\ src \in DOMAIN before /\ agenda = Plan(query, node)
      /\ calls \in Nat /\ calls <= 2 + Cardinality(B) /\ Accepted(before, query)
  BY DEF Planned, Fresh, TreeInv, Recorded
<1>2. src \in B
  <2>1. src \in Seq(Names) /\ IsPrefix(src, src)
    BY <1>1, NodesAre, PrefixOrder
  <2> QED BY <1>1, <2>1 DEF Branch
<1>3. CopyOf(src, query) = dst
  <2>1. src \in Seq(Names) /\ query \in Queries /\ IsPrefix(src, src)
    BY <1>2, SourceIs
  <2> QED BY <2>1, CopyOfIs
<1>4. CopyPlan(agenda, before, query) /\ \A x \in B : x \in made
  <2>1. CASE node.body = Folder
    <3> DEFINE f == <<Make(dst, Folder), Fill(src, dst)>>
    <3>1. agenda = f
      BY <1>1, <2>1 DEF Plan
    <3>2. CopiesBelow(f, {src})
      BY <1>2, <1>3, <2>1, FolderPlan
    <3> HIDE DEF f
    <3>3. \A x \in B : IsPrefix(src, x)
      BY DEF Branch
    <3> QED BY <3>1, <3>2, <3>3 DEF CopiesBelow
  <2>2. CASE node.body # Folder
    <3> DEFINE task == Make(dst, node.body)
    <3>1. agenda = <<task>>
      BY <1>1, <2>2 DEF Plan
    <3>2. task.do = "make" /\ task.at = CopyOf(src, query) /\ task.body = node.body
      BY <1>3 DEF Make
    <3> HIDE DEF task
    <3>3. Sensible(task, before, query)
      BY <1>2, <3>2 DEF Sensible
    <3>4. Makes(task, src, query)
      BY <3>2 DEF Makes
    <3>5. B = {src}
      BY <1>1, <2>2, LeafIs
    <3>6. /\ CopyPlan(<<task>>, before, query)
          /\ ToMake(<<task>>, before, query) = {x \in B : Makes(task, x, query)}
      BY <3>3, OneTaskPlan
    <3> QED BY <3>1, <3>4, <3>5, <3>6
  <2> QED BY <2>1, <2>2
<1>5. made = B /\ read \subseteq B
  <2>1. made \subseteq B /\ read \subseteq B
    BY DEF ToMake, ToRead
  <2> QED BY <1>4, <2>1
<1>6. Mirrored(tree, before, query, made)
  <2> SUFFICES ASSUME dst \notin DOMAIN before, NEW x \in B
               PROVE  CopyOf(x, query) \notin DOMAIN before
    BY <1>1, <1>5 DEF Mirrored
  <2>1. /\ dst \in Seq(Names) /\ CopyOf(x, query) \in Seq(Names) /\ IsPrefix(dst, CopyOf(x, query))
        /\ query \in Queries
    BY SourceIs
  <2>2. Len(dst) # 0
    BY <2>1, QueriesAre
  <2> QED BY <2>1, <2>2, AncestorsAreThere
<1>7. CopyKeeps
  <2>1. Grown
    BY <1>1, FreshIsGrown
  <2> QED BY <1>1, <2>1 DEF CopyKeeps, Copies
<1>8. /\ IsFiniteSet(mine) /\ Cardinality(mine) + Cardinality(made) <= SourceSize
      /\ calls + (Cardinality(made) + Cardinality(read)) <= 2 + 3 * SourceSize
  <2> DEFINE n == SourceSize
             k == Cardinality(mine)
             m == Cardinality(made)
             r == Cardinality(read)
  <2>1. IsFiniteSet(mine) /\ k = 0
    BY <1>1, FS_EmptySet DEF Fresh
  <2>2. m = n /\ n \in Nat
    BY <1>5, CopySizes DEF SourceSize
  <2>3. r \in Nat /\ r <= n
    <3>1. IsFiniteSet(B)
      BY BranchesAreFinite
    <3> HIDE DEF B, read
    <3>2. Cardinality(read) <= Cardinality(B)
      BY <1>5, <3>1, FS_Subset
    <3>3. Cardinality(read) \in Nat
      BY CopySizes DEF read
    <3> QED BY <3>2, <3>3 DEF SourceSize, B
  <2>4. calls <= 2 + n
    BY <1>1 DEF SourceSize
  <2> HIDE DEF k, m, r, n
  <2>5. k + m <= n /\ calls + (m + r) <= 2 + 3 * n
    BY <1>1, <2>1, <2>2, <2>3, <2>4
  <2> QED BY <2>1, <2>5 DEF k, m, n, r
<1> QED BY <1>4, <1>6, <1>7, <1>8 DEF Copying

(* No step of a copy touches what was there.                               *)
LEMMA CopyGrows ==
  ASSUME TreeConstantsOK, TreeInv, Grown, Next, query.op = "copy", edits' = 0
  PROVE  Grown'
<1>1. before' = before /\ ~OthersCreate /\ ~OthersDelete /\ ~OthersMove
  BY HandlerKeeps
<1>2. Working
  BY DEF TreeInv
<1>3. ~Due("drop") /\ ~Due("rename") /\ ~Due("content") /\ ~Due("zip")
  BY <1>2, DueIs DEF Kinds
<1>4. CASE MakeNode
  <2>1. \/ UNCHANGED <<tree, mine>>
        \/ Store(Head(agenda).at, Head(agenda).body) /\ mine' = mine \cup {next}
    BY <1>4 DEF MakeNode, upstream
  <2>2. UNCHANGED <<before, gone, got>>
    BY <1>4 DEF MakeNode
  <2>3. CASE UNCHANGED <<tree, mine>>
    BY <2>2, <2>3 DEF Grown
  <2>4. CASE Store(Head(agenda).at, Head(agenda).body) /\ mine' = mine \cup {next}
    BY <2>2, <2>4, StoreGrows
  <2> QED BY <2>1, <2>3, <2>4
<1>5. CASE UNCHANGED <<upstream, history>>
  BY <1>5 DEF Grown, upstream, history
<1>6. MakeNode \/ UNCHANGED <<upstream, history>>
  BY <1>1, <1>3 DEF Next, Receive, Look, CountFolder, FillFolder, ReadChild, SweepFolder,
     VisitChild, VisitLast, DropNode, RenameNode, ReadContent, ReadZip
<1> QED BY <1>4, <1>5, <1>6

CopyInv ==
  query.op = "copy" /\ edits = 0 =>
    /\ Grown
    /\ ~Overlapping =>
         /\ Preparing
         /\ phase = "act" => Copying
         /\ phase = "done" => Copied

LEMMA CopyNext ==
  ASSUME TreeConstantsOK, TreeInv, WellFormed(before), CopyInv, Next, query.op = "copy", edits' = 0
  PROVE  CopyInv'
<1> USE TreeConstantsOK
<1>1. /\ edits = 0 /\ before' = before /\ query' = query /\ Call /\ WellFormed(before)
      /\ ~OthersCreate /\ ~OthersDelete /\ ~OthersMove
  BY HandlerKeeps
<1>2. Grown' /\ (Overlapping' <=> Overlapping)
  BY <1>1, CopyGrows DEF CopyInv, Overlapping
<1>3. CASE Overlapping
  BY <1>2, <1>3 DEF CopyInv
<1>4. CASE ~Overlapping
  <2>1. /\ Preparing
        /\ phase = "act" => Copying
        /\ phase \in {"ready", "look", "count", "act"} /\ query \in Queries
    BY <1>1, <1>4, DoneIsDone DEF CopyInv, TreeInv, Working
  <2>2. CASE phase \in {"ready", "look", "count"}
    <3>1. \/ phase' \in {"look", "count"} /\ Preparing'
          \/ phase' = "done" /\ Refused' /\ calls' <= Budget'
          \/ phase' = "act" /\ Planned'
      BY <2>1, <2>2, PreparingGoesOn
    <3>2. (TreeInv /\ WellFormed(before) /\ Planned /\ query.op = "copy" => Copying)'
      BY PlannedCopy, PTL
    <3>3. TreeInv'
      BY NextInv
    <3>4. CASE phase' \in {"look", "count"} /\ Preparing'
      BY <1>2, <3>4 DEF CopyInv
    <3>5. CASE phase' = "done" /\ Refused' /\ calls' <= Budget'
      BY <1>2, <3>5 DEF CopyInv, Copied, Preparing
    <3>6. CASE phase' = "act" /\ Planned'
      <4>1. Copying' /\ Preparing'
        BY <1>1, <3>2, <3>3, <3>6 DEF Preparing
      <4> QED BY <1>2, <3>6, <4>1 DEF CopyInv
    <3> QED BY <3>1, <3>4, <3>5, <3>6
  <2>3. CASE phase = "act"
    <3>1. Copying
      BY <2>1, <2>3
    <3>2. Head(agenda).do \in {"make", "read", "fill"}
      BY <2>3, <3>1, CopyHead DEF Sensible
    <3>3. MakeNode \/ ReadChild \/ FillFolder
      BY <1>1, <2>3, <3>2 DEF Next, Receive, Look, CountFolder, SweepFolder, VisitChild, VisitLast,
         DropNode, RenameNode, ReadContent, ReadZip, Due
    <3>4. \/ phase' = "act" /\ Copying'
          \/ phase' = "done" /\ Copied'
      BY <1>1, <1>4, <2>3, <3>1, <3>3, MakeNodeAlone, ReadChildAlone, FillFolderAlone
    <3>5. Preparing'
      BY <3>4 DEF Preparing
    <3> QED BY <1>2, <3>4, <3>5 DEF CopyInv
  <2> QED BY <2>1, <2>2, <2>3
<1> QED BY <1>3, <1>4

-----------------------------------------------------------------------------
(* Left alone: every operation.                                            *)

AloneInv == DeleteInv /\ AskInv /\ CopyInv

LEMMA AloneInit ==
  ASSUME TreeConstantsOK, Init
  PROVE  AloneInv
<1>1. WellFormed(before) /\ Preparing /\ phase = "ready"
  BY StartsFresh
<1>2. Grown
  BY <1>1, FreshIsGrown DEF Preparing
<1> QED BY <1>1, <1>2, DeleteInit DEF AloneInv, AskInv, CopyInv

LEMMA AloneStutter ==
  ASSUME AloneInv, UNCHANGED vars
  PROVE  AloneInv'
<1>1. UNCHANGED <<tree, next, phase, query, agenda, total, visited, result, before, edits, calls,
                  within, mine, named, gone, got>>
  BY DEF vars, upstream, handler, history
<1>2. DeleteInv'
  BY DeleteStutter DEF AloneInv
<1>3. Preparing' = Preparing
  BY <1>1 DEF Preparing, Fresh, Counting
<1>4. AskInv'
  BY <1>1, <1>3 DEF AloneInv, AskInv, OneCall, Asking, Asked, Fresh, Accepted, Grown, Budget
<1>5. CopyInv'
  <2>1. /\ Grown' = Grown /\ CopyKeeps' = CopyKeeps /\ Copying' = Copying /\ Copied' = Copied
        /\ Overlapping' = Overlapping
    BY <1>1 DEF Grown, CopyKeeps, Copying, Copied, Overlapping, Refused, Fresh, Budget, SourceSize,
       Accepted
  <2> QED BY <1>1, <1>3, <2>1 DEF AloneInv, CopyInv
<1> QED BY <1>2, <1>4, <1>5 DEF AloneInv

LEMMA AloneStays ==
  ASSUME TreeConstantsOK, TreeInv, AloneInv, [Next]_vars
  PROVE  AloneInv'
<1>1. DeleteInv' /\ WellFormed(before)
  BY DeleteStays DEF AloneInv, DeleteInv
<1>2. CASE UNCHANGED vars
  BY <1>2, AloneStutter
<1>3. CASE Next /\ edits' # 0
  BY <1>1, <1>3 DEF AloneInv, AskInv, CopyInv
<1>4. CASE Next /\ edits' = 0
  <2>1. query' = query
    BY <1>4, HandlerKeeps
  <2>2. AskInv'
    <3>1. CASE OneCall
      BY <1>1, <1>4, <3>1, AskNext DEF AloneInv
    <3>2. CASE ~OneCall
      BY <2>1, <3>2 DEF AskInv, OneCall
    <3> QED BY <3>1, <3>2
  <2>3. CopyInv'
    <3>1. CASE query.op = "copy"
      BY <1>1, <1>4, <3>1, CopyNext DEF AloneInv
    <3>2. CASE query.op # "copy"
      BY <2>1, <3>2 DEF CopyInv
    <3> QED BY <3>1, <3>2
  <2> QED BY <1>1, <2>2, <2>3 DEF AloneInv
<1> QED BY <1>2, <1>3, <1>4

(* A copied branch has the shape of its source.                            *)
LEMMA SuffixKept ==
  ASSUME TreeConstantsOK, NEW q \in Queries, NEW x \in Seq(Names), IsPrefix(q.src, x)
  PROVE  LET y == CopyOf(x, q) IN
         SubSeq(y, Len(q.dst) + 1, Len(y)) = SubSeq(x, Len(q.src) + 1, Len(x))
<1> DEFINE y == CopyOf(x, q)
           m == Len(q.src)
           n == Len(q.dst)
           u == SubSeq(y, n + 1, Len(y))
           v == SubSeq(x, m + 1, Len(x))
<1>1. y \in Seq(Names) /\ Replaced(y, x, q.src, q.dst)
  BY CopyOfIs
<1>2. q.src \in Seq(Names) /\ q.dst \in Seq(Names) /\ m \in Nat /\ n \in Nat /\ Len(x) \in Nat
  BY QueriesAre
<1>3. m <= Len(x)
  BY <1>2, PrefixIs
<1>4. /\ Len(y) = n + (Len(x) - m)
      /\ \A i \in 1..(Len(x) - m) : y[n + i] = x[m + i]
  BY <1>1 DEF Replaced
<1> HIDE DEF y, m, n
<1>5. v \in Seq(Names) /\ Len(v) = Len(x) - m /\ \A i \in 1..(Len(x) - m) : v[i] = x[m + i]
  BY <1>2, <1>3
<1>6. u \in Seq(Names) /\ Len(u) = Len(x) - m /\ \A i \in 1..(Len(x) - m) : u[i] = y[n + i]
  BY <1>1, <1>2, <1>3, <1>4
<1> HIDE DEF u, v
<1>7. u = v
  <2>1. Len(u) = Len(v) /\ \A i \in 1..Len(u) : u[i] = v[i]
    BY <1>4, <1>5, <1>6
  <2> QED BY <1>5, <1>6, <2>1, SameSequence
<1> QED BY <1>7 DEF u, v, y, m, n

LEMMA CopyIsMirrored ==
  ASSUME TreeConstantsOK, TreeInv, WellFormed(before), CopyKeeps, query.dst \notin DOMAIN before
  PROVE  /\ Branch(tree, query.dst) = DOMAIN tree \ DOMAIN before
         /\ Shape(tree, query.dst) \subseteq Shape(before, query.src)
         /\ Mirrored(tree, before, query, {}) => Shape(tree, query.dst) = Shape(before, query.src)
<1> DEFINE src == query.src
           dst == query.dst
           B == Branch(before, src)
           C == Branch(tree, dst)
           new == DOMAIN tree \ DOMAIN before
           old(x) == SubSeq(x, Len(src) + 1, Len(x))
           end(y) == SubSeq(y, Len(dst) + 1, Len(y))
<1>1. query \in Queries /\ dst \in Seq(Names) /\ Len(dst) # 0
  BY QueriesAre DEF TreeInv, Working
<1>2. \A y \in new : \E x \in B : y = CopyOf(x, query) /\ tree[y].body = before[x].body
  BY DEF CopyKeeps, Copies
<1>3. \A x \in B : /\ x \in Seq(Names) /\ IsPrefix(src, x) /\ IsPrefix(dst, CopyOf(x, query))
                   /\ CopyOf(x, query) \in Seq(Names)
                   /\ \A z \in B : CopyOf(z, query) = CopyOf(x, query) => z = x
  BY SourceIs
<1>4. \A x \in B : end(CopyOf(x, query)) = old(x)
  BY <1>1, <1>3, SuffixKept
<1>5. \A y \in DOMAIN before : ~IsPrefix(dst, y)
  BY <1>1, AncestorsAreThere
<1>6. C = new
  <2>1. \A y \in new : IsPrefix(dst, y)
    BY <1>2, <1>3
  <2> QED BY <1>5, <2>1 DEF Branch
<1>7. \A y \in C : \E x \in B :
        y = CopyOf(x, query) /\ end(y) = old(x) /\ tree[y].body = before[x].body
  <2> HIDE DEF new, C, B, old, end
  <2>1. \A y \in C : \E x \in B : y = CopyOf(x, query) /\ tree[y].body = before[x].body
    BY <1>2, <1>6
  <2> QED BY <1>4, <2>1
<1>8. /\ Shape(tree, dst) = {<<end(y), tree[y].body>> : y \in C}
      /\ Shape(before, src) = {<<old(x), before[x].body>> : x \in B}
  BY DEF Shape
<1>9. Shape(tree, dst) \subseteq Shape(before, src)
  <2> HIDE DEF C, B, old, end
  <2> QED BY <1>7, <1>8
<1>10. ASSUME Mirrored(tree, before, query, {})
       PROVE  Shape(before, src) \subseteq Shape(tree, dst)
  <2>1. ASSUME NEW x \in B PROVE \E y \in C : end(y) = old(x) /\ tree[y].body = before[x].body
    <3> DEFINE y == CopyOf(x, query)
    <3>1. y \in DOMAIN tree
      BY <1>10 DEF Mirrored
    <3>2. y \in C
      BY <1>3, <3>1 DEF Branch
    <3>3. PICK z \in B : y = CopyOf(z, query) /\ end(y) = old(z) /\ tree[y].body = before[z].body
      <4> HIDE DEF y, B, C, old, end
      <4> QED BY <1>7, <3>2
    <3>4. z = x
      BY <1>3, <3>3
    <3> HIDE DEF y, B, C, old, end
    <3> QED BY <3>2, <3>3, <3>4
  <2> HIDE DEF C, B, old, end
  <2> QED BY <1>8, <2>1
<1> QED BY <1>6, <1>9, <1>10

(* What became of a copy.                                                  *)
LEMMA CopyAlone ==
  ASSUME TreeInv, CopyInv, query.op = "copy", edits = 0, ~Overlapping
  PROVE  /\ Grown
         /\ \/ Fresh /\ ~Ok
            \/ CopyKeeps /\ (Ok => Mirrored(tree, before, query, {}))
<1>1. /\ Grown /\ Preparing
      /\ phase = "act" => Copying
      /\ phase = "done" => Copied
      /\ phase \in {"ready", "look", "count", "act", "done"}
  BY DEF CopyInv, TreeInv, Working
<1> QED BY <1>1 DEF Preparing, Copying, Copied, Refused, Ok

LEMMA CopyMirrors ==
  ASSUME TreeConstantsOK, TreeInv, AloneInv
  PROVE  CopyMirrorsSource
<1> SUFFICES ASSUME query.op \in {"copy", "mkdir"}, edits = 0
             PROVE  LET new == {p \in DOMAIN tree : tree[p].id \in mine} IN
                    /\ Cut(tree, new) = before
                    /\ query.op = "copy" /\ query.dst \notin DOMAIN before /\ ~Overlapping =>
                         /\ new = Branch(tree, query.dst)
                         /\ Shape(tree, query.dst) \subseteq Shape(before, query.src)
                         /\ Ok => Shape(tree, query.dst) = Shape(before, query.src)
  BY DEF CopyMirrorsSource, Undisturbed
<1> DEFINE new == {p \in DOMAIN tree : tree[p].id \in mine}
<1>1. WellFormed(before) /\ AskInv /\ CopyInv
  BY DEF AloneInv, DeleteInv
<1>2. Grown
  <2>1. CASE query.op = "copy"
    BY <1>1, <2>1 DEF CopyInv
  <2>2. CASE query.op = "mkdir"
    <3>1. Fresh \/ Grown
      BY <1>1, <2>2 DEF AskInv, OneCall, Preparing, Asking, Asked, TreeInv, Working
    <3> QED BY <3>1, FreshIsGrown
  <2> QED BY <2>1, <2>2
<1>3. Cut(tree, new) = before /\ new = DOMAIN tree \ DOMAIN before
  BY <1>1, <1>2, GrownAddsOnly
<1>4. ASSUME query.op = "copy", query.dst \notin DOMAIN before, ~Overlapping
      PROVE  /\ new = Branch(tree, query.dst)
             /\ Shape(tree, query.dst) \subseteq Shape(before, query.src)
             /\ Ok => Shape(tree, query.dst) = Shape(before, query.src)
  <2>1. CASE Fresh /\ ~Ok
    <3>1. new = {}
      BY <2>1 DEF Fresh
    <3>2. Branch(tree, query.dst) = {}
      <4>1. query.dst \in Seq(Names) /\ query.dst # <<>>
        <5>1. query.dst \in Seq(Names) /\ Len(query.dst) # 0
          BY QueriesAre DEF TreeInv, Working
        <5>2. Len(<<>>) = 0
          OBVIOUS
        <5> QED BY <5>1, <5>2
      <4> QED BY <1>1, <1>4, <2>1, <4>1, BranchIs DEF Fresh
    <3>3. Shape(tree, query.dst) = {}
      BY <3>2 DEF Shape
    <3> QED BY <2>1, <3>1, <3>2, <3>3
  <2>2. CASE CopyKeeps /\ (Ok => Mirrored(tree, before, query, {}))
    <3> HIDE DEF new
    <3> QED BY <1>1, <1>3, <1>4, <2>2, CopyIsMirrored
  <2> QED BY <1>1, <1>4, <2>1, <2>2, CopyAlone
<1> HIDE DEF new
<1>5. /\ Cut(tree, new) = before
      /\ query.op = "copy" /\ query.dst \notin DOMAIN before /\ ~Overlapping =>
           /\ new = Branch(tree, query.dst)
           /\ Shape(tree, query.dst) \subseteq Shape(before, query.src)
           /\ Ok => Shape(tree, query.dst) = Shape(before, query.src)
  BY <1>3, <1>4
<1> QED BY <1>5 DEF new

(* No more ids than nodes.                                                 *)
LEMMA IdsAreFew ==
  ASSUME NEW t, NEW S, IsFiniteSet(S), NEW T \in SUBSET IdsOf(t, S)
  PROVE  IsFiniteSet(T) /\ Cardinality(T) <= Cardinality(S) /\ Cardinality(T) \in Nat
<1> DEFINE U == IdsOf(t, S)
           f == [x \in S |-> t[x].id]
<1>1. f \in Surjection(S, U)
  BY DEF IdsOf, Surjection
<1> HIDE DEF U, f
<1>3. IsFiniteSet(U) /\ Cardinality(U) <= Cardinality(S)
  BY <1>1, FS_Surjection
<1>4. T \in SUBSET U
  BY DEF U
<1>5. IsFiniteSet(T) /\ Cardinality(T) <= Cardinality(U)
  BY <1>3, <1>4, FS_Subset
<1>6. Cardinality(T) \in Nat /\ Cardinality(U) \in Nat /\ Cardinality(S) \in Nat
  BY <1>3, <1>5, FS_CardinalityType
<1> QED BY <1>3, <1>5, <1>6

LEMMA NoneIsFew ==
  /\ IsFiniteSet({}) /\ Cardinality({}) = 0
  /\ TreeConstantsOK => /\ 0 <= CopyMax /\ 1 <= CopyMax
                        /\ 0 <= DeleteMax /\ 0 <= DownloadMax
BY FS_EmptySet DEF TreeConstantsOK

LEMMA WithinLimitsAlone ==
  ASSUME TreeConstantsOK, TreeInv, AloneInv
  PROVE  WithinLimits
<1> SUFFICES ASSUME edits = 0, ~Overlapping
             PROVE  /\ Cardinality(mine) <= CopyMax
                    /\ Cardinality(gone) <= DeleteMax
                    /\ Cardinality(got) <= DownloadMax
  BY DEF WithinLimits, Undisturbed
<1> DEFINE B == Branch(before, query.src)
           n == Cardinality(B)
<1>1. /\ WellFormed(before) /\ DeleteInv /\ AskInv /\ CopyInv
      /\ phase \in {"ready", "look", "count", "act", "done"} /\ query.op \in Ops
  BY QueriesAre DEF AloneInv, DeleteInv, TreeInv, Working
<1>2. IsFiniteSet(B) /\ n \in Nat
  BY <1>1, BranchesAreFinite
<1>3. /\ CopyMax \in Nat /\ DeleteMax \in Nat /\ DownloadMax \in Nat
      /\ Cardinality({}) = 0 /\ 0 <= CopyMax /\ 1 <= CopyMax /\ 0 <= DeleteMax /\ 0 <= DownloadMax
  BY NoneIsFew DEF TreeConstantsOK
<1>4. CASE mine = {} /\ gone = {} /\ got = {}
  BY <1>3, <1>4
<1>5. CASE query.op = "delete"
  <2>1. /\ mine = {} /\ got = {}
        /\ gone = {} \/ (gone \in SUBSET IdsOf(before, B) /\ n <= DeleteMax)
    <3>1. Accepted(before, query) => n <= DeleteMax
      BY <1>5 DEF Accepted, MaxOf
    <3>2. Fresh \/ (Removed /\ (gone = {} \/ Accepted(before, query)))
      BY <1>1, <1>5 DEF DeleteInv, Preparing, Deleting, Deleted
    <3>3. CASE Fresh
      BY <3>3 DEF Fresh
    <3>4. CASE Removed /\ (gone = {} \/ Accepted(before, query))
      <4>1. mine = {} /\ got = {} /\ gone \in SUBSET IdsOf(before, B)
        BY <3>4 DEF Removed
      <4> QED BY <3>1, <3>4, <4>1
    <3> QED BY <3>2, <3>3, <3>4
  <2>2. CASE gone \in SUBSET IdsOf(before, B) /\ n <= DeleteMax
    <3>1. Cardinality(gone) <= n /\ Cardinality(gone) \in Nat
      <4> HIDE DEF B
      <4> QED BY <1>2, <2>2, IdsAreFew
    <3>2. Cardinality(gone) <= DeleteMax
      <4> DEFINE g == Cardinality(gone)
      <4> HIDE DEF g, n
      <4> QED BY <1>2, <1>3, <2>2, <3>1
    <3> QED BY <1>3, <2>1, <3>2
  <2> QED BY <1>4, <2>1, <2>2
<1>6. CASE query.op = "copy"
  <2>1. CASE Fresh
    BY <1>4, <2>1 DEF Fresh
  <2>2. CASE CopyKeeps
    <3>1. gone = {} /\ got = {}
      BY <2>2 DEF CopyKeeps, Grown
    <3>2. SourceSize <= CopyMax /\ SourceSize \in Nat
      BY <1>2, <1>6, <2>2 DEF CopyKeeps, Accepted, MaxOf, SourceSize
    <3>3. CASE mine = {}
      BY <1>4, <3>1, <3>3
    <3>4. CASE IsFiniteSet(mine) /\ Cardinality(mine) <= SourceSize
      <4>1. Cardinality(mine) \in Nat
        BY <3>4, FS_CardinalityType
      <4>2. Cardinality(mine) <= CopyMax
        BY <1>3, <3>2, <3>4, <4>1
      <4> QED BY <1>3, <3>1, <4>2
    <3>5. ASSUME Copying PROVE IsFiniteSet(mine) /\ Cardinality(mine) <= SourceSize
      <4> DEFINE k == Cardinality(mine)
                 m == Cardinality(ToMake(agenda, before, query))
      <4>1. IsFiniteSet(mine) /\ k + m <= SourceSize
        BY <3>5 DEF Copying
      <4>2. k \in Nat /\ m \in Nat
        BY <1>1, <4>1, CopySizes, FS_CardinalityType
      <4> HIDE DEF m
      <4> QED BY <3>2, <4>1, <4>2
    <3> QED BY <1>1, <1>6, <3>3, <3>4, <3>5 DEF CopyInv, Preparing, Fresh, Copied, Refused
  <2> QED BY <1>1, <1>6, <2>1, <2>2, CopyAlone
<1>7. CASE OneCall
  <2>1. CASE Fresh
    BY <1>4, <2>1 DEF Fresh
  <2>2. CASE Asked
    <3>1. gone = {} /\ IsFiniteSet(mine) /\ Cardinality(mine) <= 1
      BY <2>2 DEF Asked
    <3>2. Cardinality(mine) <= CopyMax
      <4>1. Cardinality(mine) \in Nat
        BY <3>1, FS_CardinalityType
      <4> QED BY <1>3, <3>1, <4>1
    <3>3. Cardinality(got) <= DownloadMax
      <4>1. CASE got = {}
        BY <1>3, <4>1
      <4>2. CASE got # {}
        <5>1. query.op = "download" => n <= DownloadMax
          BY <2>2, <4>2 DEF Asked, Accepted, MaxOf
        <5>2. query.op = "download"
          BY <2>2, <4>2 DEF Asked
        <5>3. Cardinality(got) <= n /\ Cardinality(got) \in Nat
          <6> HIDE DEF B
          <6> QED BY <1>2, <2>2, IdsAreFew DEF Asked, B
        <5> DEFINE g == Cardinality(got)
        <5> HIDE DEF g, n
        <5> QED BY <1>2, <1>3, <5>1, <5>2, <5>3
      <4> QED BY <4>1, <4>2
    <3> QED BY <1>3, <3>1, <3>2, <3>3
  <2> QED BY <1>1, <1>7, <2>1, <2>2 DEF AskInv, Preparing, Asking
<1> QED BY <1>1, <1>5, <1>6, <1>7 DEF Ops, OneCall

(* Before a request acts, it has made at most two calls more than it       *)
(* counted nodes.                                                          *)
LEMMA PreparingCalls ==
  ASSUME TreeConstantsOK, TreeInv, WellFormed(before), Preparing,
         phase \in {"ready", "look", "count"}
  PROVE  calls <= Budget
<1> DEFINE B == Branch(before, query.src)
           b == Cardinality(B)
<1>1. b \in Nat /\ IsFiniteSet(B) /\ Budget = 2 + 5 * b
  BY BranchesAreFinite DEF Budget
<1>2. CASE phase \in {"ready", "look"}
  <2>1. calls = 0 \/ calls = 1
    BY <1>2 DEF Preparing
  <2> HIDE DEF b
  <2> QED BY <1>1, <2>1
<1>3. CASE phase = "count"
  <2>1. Counting /\ tree = before
    BY <1>3 DEF Preparing, Fresh
  <2>2. PICK p \in Seq(DOMAIN tree) : CountsAre(p, total, tree, query)
    BY <2>1 DEF Counting
  <2> DEFINE S == B \ Uncounted(p, tree, query)
  <2>3. total = Cardinality(S) /\ calls <= 2 + total
    BY <2>1, <2>2 DEF CountsAre, Counting
  <2>4. S \in SUBSET B
    OBVIOUS
  <2> HIDE DEF B, S
  <2>5. total <= b /\ total \in Nat
    BY <1>1, <2>3, <2>4, FS_Subset, FS_CardinalityType
  <2>6. calls \in Nat
    BY DEF TreeInv, Recorded
  <2> HIDE DEF b
  <2> QED BY <1>1, <2>3, <2>5, <2>6
<1> QED BY <1>2, <1>3

LEMMA AloneCalls ==
  ASSUME TreeConstantsOK, TreeInv, AloneInv, edits = 0, ~Overlapping
  PROVE  calls <= Budget
<1>1. /\ WellFormed(before) /\ DeleteInv /\ AskInv /\ CopyInv /\ calls \in Nat /\ Budget \in Nat
      /\ phase \in {"ready", "look", "count", "act", "done"} /\ query.op \in Ops
  <2>1. WellFormed(before)
    BY DEF AloneInv, DeleteInv
  <2> QED BY <2>1, QueriesAre, BudgetIs DEF AloneInv, TreeInv, Working, Recorded
<1>2. Preparing
  BY <1>1 DEF DeleteInv, AskInv, CopyInv, OneCall, Ops
<1>3. CASE phase \in {"ready", "look", "count"}
  BY <1>1, <1>2, <1>3, PreparingCalls
<1>4. CASE phase = "act"
  <2>1. CASE query.op = "delete"
    <3>1. Deleting
      BY <1>1, <1>4, <2>1 DEF DeleteInv
    <3> QED BY <1>1, <1>4, <2>1, <3>1, DeleteHasCalls
  <2>2. CASE query.op = "copy"
    <3>1. Copying
      BY <1>1, <1>4, <2>2 DEF CopyInv
    <3> QED BY <1>1, <3>1, CopyHasCalls
  <2>3. CASE OneCall
    BY <1>1, <1>4, <2>3 DEF AskInv, Asking
  <2> QED BY <1>1, <2>1, <2>2, <2>3 DEF OneCall, Ops
<1>5. CASE phase = "done"
  BY <1>1, <1>5 DEF DeleteInv, AskInv, CopyInv, OneCall, Ops, Deleted, Asked, Copied
<1> QED BY <1>1, <1>3, <1>4, <1>5

LEMMA AloneIsEnough ==
  ASSUME TreeConstantsOK, TreeInv, AloneInv
  PROVE  Undisturbed => WalksAreExact
<1> SUFFICES ASSUME Undisturbed PROVE WalksAreExact
  OBVIOUS
<1>1. CopyMirrorsSource /\ WithinLimits
  BY CopyMirrors, WithinLimitsAlone
<1>2. DeleteIsComplete
  BY DeleteTakesAll DEF AloneInv
<1>3. CallsBounded
  <2> DEFINE n == Cardinality(DOMAIN before)
  <2> SUFFICES ASSUME ~Overlapping PROVE calls <= 2 + 5 * n
    BY DEF CallsBounded, Undisturbed
  <2>1. WellFormed(before) /\ calls \in Nat
    BY DEF AloneInv, DeleteInv, TreeInv, Recorded
  <2>2. Budget \in Nat /\ Budget <= 2 + 5 * n
    BY <2>1, BudgetIs
  <2>3. n \in Nat
    BY <2>1, TreesAreFinite
  <2>4. calls <= Budget
    BY AloneCalls DEF Undisturbed
  <2> HIDE DEF n
  <2> QED BY <2>1, <2>2, <2>3, <2>4
<1> QED BY <1>1, <1>2, <1>3 DEF WalksAreExact

LEMMA AloneAlways == Spec => [](TreeInv /\ AloneInv)
<1>1. Init => TreeInv /\ AloneInv
  BY InitInv, AloneInit, TreeConstantsOK
<1>2. TreeInv /\ AloneInv /\ [Next]_vars => (TreeInv /\ AloneInv)'
  BY NextInv, TreeStutter, AloneStays, TreeConstantsOK
<1> QED BY <1>1, <1>2, PTL DEF Spec

(* As long as nobody else changes the tree, an operation has done exactly  *)
(* what it was asked, within its limits and a bounded number of calls, for *)
(* every tree the request may find, every order in which the server lists  *)
(* it and whichever calls fail (copy_item, delete_item, download_item,     *)
(* make_dir and the functions of edocat_tree.py they call).                *)
THEOREM WalksAreExactAlone == Spec => [](Undisturbed => WalksAreExact)
<1>1. TreeInv /\ AloneInv => (Undisturbed => WalksAreExact)
  BY AloneIsEnough, TreeConstantsOK
<1> QED BY <1>1, AloneAlways, PTL

(* A copy changes nothing that was there, adds only copies of its source   *)
(* below its destination and, when it reports success, all of them         *)
(* (copy_item, _copy_folder_contents, make_dir).                           *)
THEOREM CopyMirrorsSourceHolds == Spec => []CopyMirrorsSource
<1>1. TreeInv /\ AloneInv => CopyMirrorsSource
  BY CopyMirrors, TreeConstantsOK
<1> QED BY <1>1, AloneAlways, PTL

(* The limits, compared with a count made before the walk, hold for what   *)
(* the walk then creates, deletes or delivers (_count_folder_tree_nodes    *)
(* and the maxNodes of copy_item, delete_item and download_item).          *)
THEOREM WithinLimitsHolds == Spec => []WithinLimits
<1>1. TreeInv /\ AloneInv => WithinLimits
  BY WithinLimitsAlone, TreeConstantsOK
<1> QED BY <1>1, AloneAlways, PTL
=============================================================================
