------------------------- MODULE AlfrescoCacheProofs -------------------------
(***************************************************************************)
(* What is proved of AlfrescoCache, for any requests, tickets, trees, names*)
(* and depths of paths, any set of calls and any size of the caches: the   *)
(* types, that no request changes something twice, that the caches hold    *)
(* what the server said, and that a change is made only where its paths    *)
(* led.  ShapeInv says what a request carries at each stage, MemoryInv     *)
(* what it and the caches know, and from which facts.                      *)
(***************************************************************************)
EXTENDS AlfrescoCache, SequenceTheorems, TLAPS

-----------------------------------------------------------------------------
(* Paths, and which nodes answer to them.                                  *)
LEMMA PathIsSeq ==
  ASSUME NEW p \in Paths
  PROVE  /\ p \in Seq(Names) /\ Len(p) \in 0..Depth /\ Len(p) \in Nat
         /\ p \in [1..Len(p) -> Names]
<1>1. PICK k \in 0..Depth : p \in [1..k -> Names]
  BY DEF Paths
<1>2. k \in Nat
  BY CacheConstantsOK DEF CacheConstantsOK
<1>3. p \in Seq(Names)
  BY <1>1, <1>2, SMT
<1>4. Len(p) = k
  BY <1>1, <1>2, SMT
<1> QED BY <1>1, <1>2, <1>3, <1>4

LEMMA PathOfLength ==
  ASSUME NEW k \in 0..Depth, NEW p \in [1..k -> Names]
  PROVE  p \in Paths /\ p \in Seq(Names) /\ Len(p) = k
<1>1. p \in Paths
  BY DEF Paths
<1>2. k \in Nat
  BY CacheConstantsOK DEF CacheConstantsOK
<1> QED BY <1>1, <1>2

LEMMA PrefixIsPath ==
  ASSUME NEW p \in Paths, NEW i \in 0..Len(p)
  PROVE  /\ Prefix(p, i) \in Paths /\ Len(Prefix(p, i)) = i
         /\ \A j \in 1..i : Prefix(p, i)[j] = p[j]
         /\ i = Len(p) => Prefix(p, i) = p
<1>1. i \in 0..Depth /\ Prefix(p, i) \in [1..i -> Names]
  BY PathIsSeq, CacheConstantsOK DEF Prefix, CacheConstantsOK
<1>2. i = Len(p) => Prefix(p, i) = p
  BY PathIsSeq DEF Prefix
<1> QED BY <1>1, <1>2, PathOfLength DEF Prefix

LEMMA ParentIsPath ==
  ASSUME NEW p \in Paths
  PROVE  Parent(p) \in Paths
<1>1. CASE p = <<>>
  BY <1>1, PrefixIsPath, PathIsSeq, EmptySeq DEF Parent
<1>2. CASE p # <<>>
  <2>1. Len(p) - 1 \in 0..Len(p)
    BY <1>2, PathIsSeq, EmptySeq
  <2> QED BY <1>2, <2>1, PrefixIsPath DEF Parent
<1> QED BY <1>1, <1>2

LEMMA RestIsPath ==
  ASSUME NEW p \in Paths, Len(p) > 1
  PROVE  /\ Rest(p) \in Paths /\ Len(Rest(p)) = Len(p) - 1 /\ Rest(p) # <<>>
         /\ \A j \in 1..(Len(p) - 1) : Rest(p)[j] = p[j + 1]
<1>1. Len(p) - 1 \in 0..Depth /\ Rest(p) \in [1..(Len(p) - 1) -> Names]
  BY PathIsSeq, CacheConstantsOK DEF Rest, CacheConstantsOK
<1>2. Rest(p) \in Paths /\ Len(Rest(p)) = Len(p) - 1
  BY <1>1, PathOfLength
<1>3. Len(p) \in Nat
  BY PathIsSeq
<1>4. Rest(p) # <<>>
  BY <1>2, <1>3, EmptySeq
<1> QED BY <1>1, <1>2, <1>4 DEF Rest

LEMMA AnswersBy ==
  ASSUME NEW F, NEW p, NEW l, l = Len(p), NEW k \in 0..l, NEW c \in [0..l -> Nodes],
         k < l \/ p = <<>>, c[k] = Root,
         \A j \in (k + 1)..l : <<c[j - 1], p[j], c[j]>> \in F
  PROVE  Answers(F, p, c[l])
BY DEF Answers

LEMMA AnswersRoot ==
  ASSUME NEW F, NEW p \in Paths
  PROVE  Answers(F, Prefix(p, 0), Root)
<1> DEFINE w == Prefix(p, 0)
           c == [j \in 0..0 |-> Root]
<1>1. Len(w) = 0 /\ w = <<>>
  BY PathIsSeq, PrefixIsPath, EmptySeq
<1>2. c \in [0..0 -> Nodes] /\ c[0] = Root
  BY CacheConstantsOK DEF CacheConstantsOK
<1>3. c \in [0..Len(w) -> Nodes] /\ c[Len(w)] = Root /\ 0 \in 0..Len(w)
  BY <1>1, <1>2
<1>4. \A j \in (0 + 1)..Len(w) : <<c[j - 1], w[j], c[j]>> \in F
  BY <1>1
<1> HIDE DEF c, w
<1> QED BY <1>1, <1>2, <1>3, <1>4 DEF Answers, w

LEMMA AnswersMore ==
  ASSUME NEW F, NEW G, F \subseteq G, NEW p, NEW n, Answers(F, p, n)
  PROVE  Answers(G, p, n)
BY DEF Answers

(* One segment further.                                                    *)
LEMMA AnswersOnward ==
  ASSUME NEW F, NEW w \in Paths, NEW i \in 0..(Len(w) - 1), NEW u, NEW n \in Nodes,
         Answers(F, Prefix(w, i), u), <<u, w[i + 1], n>> \in F
  PROVE  Answers(F, Prefix(w, i + 1), n)
<1> DEFINE p == Prefix(w, i)
           x == Prefix(w, i + 1)
<1>1. Len(w) \in Nat /\ i \in 0..Len(w) /\ i + 1 \in 0..Len(w) /\ i \in Nat
  BY PathIsSeq
<1>2. Len(p) = i /\ Len(x) = i + 1 /\ \A j \in 1..i : p[j] = x[j]
  BY <1>1, PrefixIsPath
<1>3. x[i + 1] = w[i + 1] /\ x # <<>>
  BY <1>1, <1>2, PrefixIsPath, EmptySeq
<1> HIDE DEF p, x
<1>4. PICK k \in 0..i, c \in [0..i -> Nodes] :
        /\ c[k] = Root /\ c[i] = u
        /\ \A j \in (k + 1)..i : <<c[j - 1], p[j], c[j]>> \in F
  BY <1>2 DEF Answers, p
<1> DEFINE d == [j \in 0..(i + 1) |-> IF j = i + 1 THEN n ELSE c[j]]
<1>5. d \in [0..(i + 1) -> Nodes] /\ d[k] = Root /\ d[i + 1] = n
  BY <1>1, <1>4
<1>6. \A j \in (k + 1)..(i + 1) : <<d[j - 1], x[j], d[j]>> \in F
  <2> TAKE j \in (k + 1)..(i + 1)
  <2>1. CASE j = i + 1
    <3>1. j - 1 = i /\ d[j] = n /\ d[j - 1] = u /\ x[j] = w[i + 1]
      BY <1>1, <1>3, <1>4, <2>1
    <3> QED BY <3>1
  <2>2. CASE j # i + 1
    <3>1. j \in (k + 1)..i /\ d[j] = c[j] /\ d[j - 1] = c[j - 1] /\ x[j] = p[j]
      BY <1>1, <1>2, <1>4, <2>2
    <3> QED BY <1>4, <3>1
  <2> QED BY <2>1, <2>2
<1>7. k \in 0..(i + 1) /\ k < i + 1
  BY <1>1
<1> HIDE DEF d
<1> QED BY <1>2, <1>5, <1>6, <1>7, AnswersBy DEF x

(* The second attempt, without the first segment, answers to the path too. *)
LEMMA AnswersToRest ==
  ASSUME NEW F, NEW p \in Paths, Len(p) > 1, NEW n, Answers(F, Rest(p), n)
  PROVE  Answers(F, p, n)
<1> DEFINE l == Len(p) - 1
           w == Rest(p)
<1>1. l \in Nat /\ Len(p) = l + 1 /\ Len(w) = l /\ w # <<>> /\ p # <<>>
      /\ \A j \in 1..l : w[j] = p[j + 1]
  BY RestIsPath, PathIsSeq, EmptySeq
<1> HIDE DEF l, w
<1>2. PICK k \in 0..l, c \in [0..l -> Nodes] :
        /\ k < l /\ c[k] = Root /\ c[l] = n
        /\ \A j \in (k + 1)..l : <<c[j - 1], w[j], c[j]>> \in F
  BY <1>1 DEF Answers, w
<1> DEFINE d == [j \in 0..(l + 1) |-> IF j = 0 THEN Root ELSE c[j - 1]]
<1>3. d \in [0..(l + 1) -> Nodes] /\ d[k + 1] = Root /\ d[l + 1] = n
  BY <1>1, <1>2, CacheConstantsOK DEF CacheConstantsOK
<1>4. \A j \in (k + 2)..(l + 1) : <<d[j - 1], p[j], d[j]>> \in F
  <2> TAKE j \in (k + 2)..(l + 1)
  <2>1. j - 1 \in (k + 1)..l /\ j - 1 # 0 /\ j # 0 /\ j \in 0..(l + 1) /\ j - 1 \in 0..(l + 1)
    BY <1>1, <1>2
  <2>2. d[j] = c[j - 1] /\ d[j - 1] = c[j - 1 - 1] /\ w[j - 1] = p[j]
    BY <1>1, <1>2, <2>1
  <2> QED BY <1>2, <2>1, <2>2
<1>5. k + 1 \in 0..(l + 1) /\ k + 1 < l + 1 /\ (k + 1) + 1 = k + 2
  BY <1>1, <1>2
<1> HIDE DEF d
<1> QED BY <1>1, <1>3, <1>4, <1>5, AnswersBy

-----------------------------------------------------------------------------
(* What a request still has to look up decides what it will know.          *)
Folder(c) == Parent(IF c.op = "mkdir" THEN c.src ELSE c.dst)
Fits(c, look)  == /\ look.as = "node" => look.path = c.src
                  /\ look.as = "up" => look.path = Folder(c)
                  /\ look.as = "up" /\ c.op # "rename" => look.must = TRUE
Named(c, todo) == \A j \in 1..Len(todo) : Fits(c, todo[j])
Needed(c, todo) ==
  c.op \in {"copy", "mkdir", "upload"} =>
    \E j \in 1..Len(todo) : todo[j].as = "up"

(* What holds of a request by the stage it is at.                          *)
Formed(q) ==
  /\ q.pc # "idle" => /\ q.call \in Calls /\ q.ticket \in Tickets
                      /\ Named(q.call, q.todo)
                      /\ q.up # None \/ Needed(q.call, q.todo)
  /\ q.pc = "next" => q.i = 0
  /\ q.pc = "walk" => q.todo # <<>> /\ q.i <= Len(q.walk) /\ q.at # None
  /\ q.pc \in {"child", "ask", "keep", "got"} => q.i < Len(q.walk) /\ q.at # None
  /\ q.pc \in {"act", "clear"} => q.todo = <<>>
  /\ q.acts = IF q.pc = "clear" THEN 1 ELSE 0

ShapeInv == TypeOK /\ \A r \in Requests : Formed(req[r])

LEMMA ConcatTwo ==
  ASSUME NEW S, NEW s \in Seq(S), NEW t \in Seq(S), Len(s) = 2, Len(t) = 2
  PROVE  /\ s \o t \in Seq(S) /\ Len(s \o t) = 4
         /\ (s \o t)[1] = s[1] /\ (s \o t)[2] = s[2]
         /\ (s \o t)[3] = t[1] /\ (s \o t)[4] = t[2]
<1>1. s \o t \in Seq(S) /\ Len(s \o t) = Len(s) + Len(t)
      /\ \A i \in 1 .. Len(s) + Len(t) :
           (s \o t)[i] = IF i <= Len(s) THEN s[i] ELSE t[i - Len(s)]
  BY ConcatProperties
<1> DEFINE w == s \o t
<1>2. Len(w) = 4 /\ \A i \in 1..4 : w[i] = IF i <= 2 THEN s[i] ELSE t[i - 2]
  BY <1>1
<1> HIDE DEF w
<1>3. w[1] = s[1] /\ w[2] = s[2] /\ w[3] = t[1] /\ w[4] = t[2]
  BY <1>2
<1> QED BY <1>1, <1>2, <1>3 DEF w

LEMMA LookIs ==
  ASSUME NEW c, NEW p \in Paths, NEW as \in {"node", "up", "none"},
         as = "node" => p = c.src, as = "up" => p = Folder(c)
  PROVE  /\ Look(p, TRUE, as) \in Lookup /\ Look(p, FALSE, as) \in Lookup
         /\ Fits(c, Look(p, TRUE, as)) /\ Look(p, TRUE, as).as = as
         /\ as # "up" \/ c.op = "rename" => Fits(c, Look(p, FALSE, as))
BY DEF Look, Lookup, Fits

LEMMA PlanIs ==
  ASSUME NEW c \in Calls
  PROVE  Plan(c) \in Seq(Lookup) /\ Named(c, Plan(c)) /\ Needed(c, Plan(c))
<1>1. c.op \in Ops /\ c.src \in Paths /\ c.dst \in Paths
      /\ Parent(c.src) \in Paths /\ Parent(c.dst) \in Paths
  BY ParentIsPath, CacheConstantsOK DEF CacheConstantsOK, Call
<1> DEFINE Good(s) == /\ s \in Seq(Lookup) /\ Len(s) = 2
                      /\ Fits(c, s[1]) /\ Fits(c, s[2])
           Ups(s)  == s[1].as = "up"
           A == Resolve(c.src, TRUE, "node", "none")
           B == Resolve(c.dst, FALSE, "none", "up")
           C == Resolve(Parent(c.dst), TRUE, "up", "none")
           D == Resolve(c.src, FALSE, "none", "none")
           E == Resolve(Parent(c.src), TRUE, "up", "none")
<1>a. ASSUME NEW x \in Lookup, NEW y \in Lookup, Fits(c, x), Fits(c, y)
      PROVE  Good(<<x, y>>) /\ (x.as = "up" => Ups(<<x, y>>))
  BY <1>a
<1>2. Good(A)
  <2> DEFINE x == Look(c.src, TRUE, "node")
             y == Look(Parent(c.src), TRUE, "none")
  <2>1. x \in Lookup /\ Fits(c, x)
    BY <1>1, LookIs DEF Folder
  <2>2. y \in Lookup /\ Fits(c, y)
    BY <1>1, LookIs, ParentIsPath DEF Folder
  <2>3. A = <<x, y>>
    BY DEF Resolve
  <2> HIDE DEF x, y, A
  <2> QED BY <1>a, <2>1, <2>2, <2>3
<1>10. Good(D)
  <2> DEFINE x == Look(c.src, FALSE, "none")
             y == Look(Parent(c.src), FALSE, "none")
  <2>1. x \in Lookup /\ Fits(c, x)
    BY <1>1, LookIs DEF Folder
  <2>2. y \in Lookup /\ Fits(c, y)
    BY <1>1, LookIs, ParentIsPath DEF Folder
  <2>3. D = <<x, y>>
    BY DEF Resolve
  <2> HIDE DEF x, y, D
  <2> QED BY <1>a, <2>1, <2>2, <2>3
<1>3. c.op = "rename" => Good(B)
  <2> HAVE c.op = "rename"
  <2> DEFINE x == Look(c.dst, FALSE, "none")
             y == Look(Parent(c.dst), FALSE, "up")
  <2>1. x \in Lookup /\ Fits(c, x)
    BY <1>1, LookIs DEF Folder
  <2>2. y \in Lookup /\ Fits(c, y)
    BY <1>1, LookIs, ParentIsPath DEF Folder
  <2>3. B = <<x, y>>
    BY DEF Resolve
  <2> HIDE DEF x, y, B
  <2> QED BY <1>a, <2>1, <2>2, <2>3
<1>4. c.op \in {"copy", "upload"} => Good(C) /\ Ups(C)
  <2> HAVE c.op \in {"copy", "upload"}
  <2> DEFINE x == Look(Parent(c.dst), TRUE, "up")
             y == Look(Parent(Parent(c.dst)), TRUE, "none")
  <2>1. x \in Lookup /\ Fits(c, x) /\ x.as = "up"
    BY <1>1, LookIs DEF Folder
  <2>2. y \in Lookup /\ Fits(c, y)
    BY <1>1, LookIs, ParentIsPath DEF Folder
  <2>3. C = <<x, y>>
    BY DEF Resolve
  <2> HIDE DEF x, y, C
  <2> QED BY <1>a, <2>1, <2>2, <2>3
<1>5. c.op = "mkdir" => Good(E) /\ Ups(E)
  <2> HAVE c.op = "mkdir"
  <2> DEFINE x == Look(Parent(c.src), TRUE, "up")
             y == Look(Parent(Parent(c.src)), TRUE, "none")
  <2>1. x \in Lookup /\ Fits(c, x) /\ x.as = "up"
    BY <1>1, LookIs DEF Folder
  <2>2. y \in Lookup /\ Fits(c, y)
    BY <1>1, LookIs, ParentIsPath DEF Folder
  <2>3. E = <<x, y>>
    BY DEF Resolve
  <2> HIDE DEF x, y, E
  <2> QED BY <1>a, <2>1, <2>2, <2>3
<1>6. /\ c.op \in {"list", "delete"} => Plan(c) = A
      /\ c.op = "rename" => Plan(c) = A \o B
      /\ c.op = "copy" => Plan(c) = A \o C
      /\ c.op = "mkdir" => Plan(c) = D \o E
      /\ c.op = "upload" => Plan(c) = C
  BY DEF Plan
<1> HIDE DEF A, B, C, D, E, Good, Ups
<1>7. ASSUME NEW s, Good(s)
      PROVE  s \in Seq(Lookup) /\ Named(c, s) /\ (Ups(s) => Needed(c, s))
  BY <1>7 DEF Good, Ups, Named, Needed
<1>8. ASSUME NEW s, NEW t, Good(s), Good(t)
      PROVE  s \o t \in Seq(Lookup) /\ Named(c, s \o t) /\ (Ups(t) => Needed(c, s \o t))
  <2> DEFINE w == s \o t
  <2>1. /\ w \in Seq(Lookup) /\ Len(w) = 4
        /\ w[1] = s[1] /\ w[2] = s[2] /\ w[3] = t[1] /\ w[4] = t[2]
    BY <1>8, ConcatTwo DEF Good
  <2> HIDE DEF w
  <2>2. Named(c, w)
    BY <1>8, <2>1 DEF Good, Named
  <2>3. Ups(t) => Needed(c, w)
    BY <2>1 DEF Ups, Needed
  <2> QED BY <2>1, <2>2, <2>3 DEF w
<1>9. ~(c.op \in {"copy", "mkdir", "upload"}) => \A s : Needed(c, s)
  BY DEF Needed
<1> QED BY <1>1, <1>2, <1>3, <1>4, <1>5, <1>6, <1>7, <1>8, <1>9, <1>10 DEF Ops

-----------------------------------------------------------------------------
(* Requests.                                                               *)
LEMMA Basics ==
  /\ Root \in Nodes /\ Depth \in Nat /\ 0 \in 0..Depth /\ <<>> \in Paths /\ Len(<<>>) = 0
  /\ Calls \subseteq Call /\ None \notin Nodes /\ Unknown \notin Nodes \cup {None}
  /\ None \notin Place
<1>1. Root \in Nodes /\ Depth \in Nat /\ Calls \subseteq Call /\ None \notin Nodes
      /\ Unknown \notin Nodes \cup {None} /\ None \notin Place
  BY CacheConstantsOK DEF CacheConstantsOK
<1>2. 0 \in 0..Depth
  BY <1>1
<1>3. <<>> \in [1..0 -> Names]
  OBVIOUS
<1>4. <<>> \in Paths
  BY <1>2, <1>3, PathOfLength
<1> QED BY <1>1, <1>2, <1>4, EmptySeq

LEMMA IdleIs == Idle \in Request /\ Formed(Idle)
<1>1. Idle \in Request
  BY Basics DEF Idle, Request, Stages
<1>2. Formed(Idle)
  BY DEF Idle, Formed
<1> QED BY <1>1, <1>2

Fresh(c, t, todo) == [Idle EXCEPT !.pc = "next", !.call = c, !.ticket = t, !.todo = todo]

LEMMA FreshIs ==
  ASSUME NEW c \in Call, NEW t \in Tickets, NEW todo \in Seq(Lookup), NEW q,
         q = Fresh(c, t, todo)
  PROVE  /\ q \in Request /\ q.pc = "next" /\ q.call = c /\ q.ticket = t /\ q.todo = todo
         /\ q.i = 0 /\ q.node = None /\ q.up = None /\ q.acts = 0
<1>1. q \in Request
  BY IdleIs DEF Fresh, Request, Stages
<1>2. /\ q.pc = "next" /\ q.call = c /\ q.ticket = t /\ q.todo = todo
      /\ q.i = 0 /\ q.node = None /\ q.up = None /\ q.acts = 0
  BY DEF Fresh, Idle
<1> QED BY <1>1, <1>2

LEMMA StartingIs ==
  ASSUME NEW c \in Calls, NEW t \in Tickets
  PROVE  /\ Starting(c, t) \in Request /\ Formed(Starting(c, t))
         /\ Starting(c, t).node = None /\ Starting(c, t).up = None
         /\ Starting(c, t).pc = "next"
<1> DEFINE todo == Plan(c)
           q == Starting(c, t)
<1>1. todo \in Seq(Lookup) /\ Named(c, todo) /\ Needed(c, todo)
  BY PlanIs
<1>2. c \in Call
  BY Basics
<1>3. q = Fresh(c, t, todo)
  BY Zenon DEF Starting, Fresh
<1> HIDE DEF todo, q
<1>4. /\ q \in Request /\ q.pc = "next" /\ q.call = c /\ q.ticket = t /\ q.todo = todo
      /\ q.i = 0 /\ q.node = None /\ q.up = None /\ q.acts = 0
  BY <1>1, <1>2, <1>3, FreshIs
<1>5. Formed(q)
  BY <1>1, <1>4 DEF Formed
<1> QED BY <1>4, <1>5 DEF q

LEMMA WalkFromIs ==
  ASSUME NEW q \in Request, Formed(q), q.todo # <<>>, q.pc # "idle", q.pc # "clear",
         NEW p \in Paths, NEW again \in BOOLEAN
  PROVE  WalkFrom(q, p, again) \in Request /\ Formed(WalkFrom(q, p, again))
<1>1. WalkFrom(q, p, again) \in Request
  BY Basics DEF WalkFrom, Request, Stages
<1>2. Len(p) \in Nat
  BY PathIsSeq
<1>3. Formed(WalkFrom(q, p, again))
  BY <1>2, Basics DEF WalkFrom, Request, Formed
<1> QED BY <1>1, <1>3

LEMMA FoundIs ==
  ASSUME NEW q \in Request, Formed(q), q.todo # <<>>, q.pc # "idle", q.pc # "clear",
         NEW n \in Nodes \cup {None}, Head(q.todo).must = TRUE => n # None
  PROVE  Found(q, n) \in Request /\ Formed(Found(q, n))
<1>1. /\ q.todo \in Seq(Lookup) /\ Head(q.todo) \in Lookup /\ Tail(q.todo) \in Seq(Lookup)
      /\ Len(Tail(q.todo)) = Len(q.todo) - 1 /\ Head(q.todo) = q.todo[1]
      /\ \A j \in 1..Len(Tail(q.todo)) : Tail(q.todo)[j] = q.todo[j + 1]
  BY HeadTailProperties DEF Request
<1>2. Found(q, n) \in Request
  BY <1>1, Basics DEF Found, Request, Stages
<1> DEFINE nq == Found(q, n)
<1>3. /\ nq.pc = "next" /\ nq.call = q.call /\ nq.ticket = q.ticket /\ nq.i = 0
      /\ nq.todo = Tail(q.todo) /\ nq.acts = q.acts
      /\ nq.up = IF Head(q.todo).as = "up" THEN n ELSE q.up
  BY DEF Found, Request
<1> HIDE DEF nq
<1>4. Named(q.call, nq.todo)
  BY <1>1, <1>3 DEF Formed, Named
<1>5. nq.up # None \/ Needed(q.call, nq.todo)
  <2> SUFFICES ASSUME q.call.op \in {"copy", "mkdir", "upload"}, nq.up = None
               PROVE  \E j \in 1..Len(nq.todo) : nq.todo[j].as = "up"
    BY DEF Needed
  <2>4. Len(q.todo) \in Nat /\ 1 \in 1..Len(q.todo)
    BY <1>1, LenProperties, EmptySeq
  <2>5. Head(q.todo).as # "up" /\ q.up = None
    BY <1>1, <1>3, <2>4 DEF Formed, Named, Fits
  <2>1. PICK j \in 1..Len(q.todo) : q.todo[j].as = "up"
    BY <2>5 DEF Formed, Needed
  <2>2. j # 1
    BY <1>1, <2>1, <2>5
  <2>3. j - 1 \in 1..Len(nq.todo) /\ nq.todo[j - 1] = q.todo[j]
    <3>1. Len(q.todo) \in Nat /\ Len(Tail(q.todo)) \in Nat
      BY <1>1, LenProperties
    <3>2. j - 1 \in 1..Len(Tail(q.todo)) /\ (j - 1) + 1 = j
      BY <1>1, <2>2, <3>1
    <3> QED BY <1>1, <1>3, <3>2
  <2> QED BY <2>1, <2>3
<1>6. Formed(nq)
  BY <1>3, <1>4, <1>5 DEF Formed
<1> QED BY <1>2, <1>6 DEF nq

-----------------------------------------------------------------------------
(* The server and the caches.                                              *)
StoresOK ==
  /\ place \in [Nodes -> Place \cup {None}]
  /\ used \subseteq Nodes
  /\ pathCache \in [Tickets \X Paths -> Nodes \cup {None}]
  /\ childCache \in [Tickets \X Nodes \X Names -> Nodes \cup {None, Unknown}]
  /\ edits \in 0..MaxEdits
  /\ seen \in [Tickets -> SUBSET Fact]
  /\ tainted \in [Tickets -> BOOLEAN]

LEMMA TypeParts == TypeOK <=> StoresOK /\ req \in [Requests -> Request]
BY DEF TypeOK, StoresOK

(* What _cache_set may leave under each key.                               *)
LEMMA CacheSetIs ==
  ASSUME NEW D, NEW V, NEW store \in [D -> V], NEW absent \in V, NEW key \in D,
         NEW value \in V, NEW new \in CacheSet(store, absent, key, value)
  PROVE  /\ new \in [D -> V]
         /\ \A k \in D : new[k] \in {store[k], absent} \/ (k = key /\ new[k] = value)
<1>1. CASE new = [store EXCEPT ![key] = value]
  BY <1>1
<1>2. CASE \E old \in D : new = [store EXCEPT ![key] = value, ![old] = absent]
  BY <1>2
<1> QED BY <1>1, <1>2 DEF CacheSet, Entries

LEMMA PathSetIs ==
  ASSUME StoresOK, NEW t \in Tickets, NEW p \in Paths, NEW n \in Nodes,
         pathCache' \in CacheSet(pathCache, None, <<t, p>>, n)
  PROVE  /\ pathCache' \in [Tickets \X Paths -> Nodes \cup {None}]
         /\ \A k \in Tickets \X Paths :
              pathCache'[k] \in {pathCache[k], None} \/ (k = <<t, p>> /\ pathCache'[k] = n)
<1> DEFINE D == Tickets \X Paths
           V == Nodes \cup {None}
           key == <<t, p>>
<1>1. pathCache \in [D -> V] /\ None \in V /\ key \in D /\ n \in V
  BY DEF StoresOK
<1> HIDE DEF D, V, key
<1>2. pathCache' \in CacheSet(pathCache, None, key, n)
  BY DEF key
<1>3. /\ pathCache' \in [D -> V]
      /\ \A k \in D : pathCache'[k] \in {pathCache[k], None} \/ (k = key /\ pathCache'[k] = n)
  BY <1>1, <1>2, CacheSetIs
<1> QED BY <1>3 DEF D, V, key

LEMMA ChildSetIs ==
  ASSUME StoresOK, NEW key, key \in Tickets \X Nodes \X Names, NEW n, n \in Nodes \cup {None},
         childCache' \in CacheSet(childCache, Unknown, key, n)
  PROVE  /\ childCache' \in [Tickets \X Nodes \X Names -> Nodes \cup {None, Unknown}]
         /\ \A k \in Tickets \X Nodes \X Names :
              childCache'[k] \in {childCache[k], Unknown} \/ (k = key /\ childCache'[k] = n)
<1> DEFINE D == Tickets \X Nodes \X Names
           V == Nodes \cup {None, Unknown}
<1>1. childCache \in [D -> V] /\ Unknown \in V /\ key \in D /\ n \in V
  BY DEF StoresOK
<1> DEFINE c == childCache
           d == childCache'
<1>2. d \in CacheSet(c, Unknown, key, n) /\ c \in [D -> V]
  BY <1>1
<1> HIDE DEF D, V, c, d
<1>3. /\ d \in [D -> V]
      /\ \A k \in D : d[k] \in {c[k], Unknown} \/ (k = key /\ d[k] = n)
  BY <1>1, <1>2, CacheSetIs
<1> QED BY <1>3 DEF D, V, c, d

LEMMA ServerKept ==
  ASSUME StoresOK, UNCHANGED <<Server, Caches>>
  PROVE  StoresOK'
BY DEF StoresOK, Server, Caches

LEMMA ChildIs == \A u, m : Child(u, m) \in Nodes \cup {None}
BY DEF Child

LEMMA FactsAre == Facts \subseteq Fact
BY ChildIs DEF Facts, Fact

LEMMA FactsWillBe == Facts' \subseteq Fact
<1>1. \A u, m : Child(u, m)' \in Nodes \cup {None}
  BY DEF Child
<1> QED BY <1>1 DEF Facts, Fact

LEMMA EditedStores ==
  ASSUME StoresOK, NEW tree \in [Nodes -> Place \cup {None}], Edited(tree), UNCHANGED Caches
  PROVE  StoresOK'
<1>1. place' \in [Nodes -> Place \cup {None}] /\ used' \subseteq Nodes
  BY DEF Edited, StoresOK
<1>2. edits' \in 0..MaxEdits
  BY CacheConstantsOK DEF CacheConstantsOK, Edited, StoresOK
<1>3. seen' \in [Tickets -> SUBSET Fact]
  BY FactsWillBe DEF Edited, StoresOK
<1> QED BY <1>1, <1>2, <1>3 DEF StoresOK, Caches

LEMMA RemovedIs ==
  ASSUME StoresOK, NEW n
  PROVE  Removed(n) \in [Nodes -> Place \cup {None}]
BY DEF StoresOK, Removed

LEMMA PutIs ==
  ASSUME StoresOK, NEW n, NEW u \in Nodes, NEW m \in Names
  PROVE  Put(n, u, m) \in [Nodes -> Place \cup {None}]
<1>1. [up |-> u, name |-> m] \in Place
  BY DEF Place
<1> HIDE DEF Place
<1> QED BY <1>1 DEF StoresOK, Put

LEMMA BecomesShape ==
  ASSUME ShapeInv, StoresOK', NEW r \in Requests, NEW q \in Request, Formed(q), Becomes(r, q)
  PROVE  ShapeInv'
<1>1. req' \in [Requests -> Request] /\ \A x \in Requests : Formed(req'[x])
  BY TypeParts DEF ShapeInv, Becomes
<1>2. TypeOK'
  BY <1>1 DEF TypeOK, StoresOK
<1> QED BY <1>1, <1>2 DEF ShapeInv, Formed, Named, Needed, Fits, Folder

LEMMA StoredStores ==
  ASSUME ShapeInv, NEW r \in Requests, req[r].ticket \in Tickets, Stored(r)
  PROVE  tainted' \in [Tickets -> BOOLEAN]
BY TypeParts DEF ShapeInv, Stored, StoresOK, Request

-----------------------------------------------------------------------------
(* Every step keeps the shape.                                             *)
LEMMA QuietShape ==
  ASSUME ShapeInv, NEW r \in Requests, NEW q \in Request, Formed(q), Becomes(r, q),
         UNCHANGED <<Server, Caches>>
  PROVE  ShapeInv'
BY ServerKept, BecomesShape, TypeParts DEF ShapeInv

LEMMA EditShape ==
  ASSUME ShapeInv, NEW r \in Requests, NEW q \in Request, Formed(q), Becomes(r, q),
         NEW tree \in [Nodes -> Place \cup {None}], Edited(tree), UNCHANGED Caches
  PROVE  ShapeInv'
BY EditedStores, BecomesShape, TypeParts DEF ShapeInv

LEMMA Walking ==
  ASSUME NEW q \in Request, Formed(q), q.pc \in {"walk", "child", "ask", "keep", "got"}
  PROVE  /\ q.walk \in Paths /\ Len(q.walk) \in 0..Depth /\ q.i \in 0..Len(q.walk)
         /\ q.at \in Nodes /\ q.ticket \in Tickets
         /\ q.i < Len(q.walk) => /\ q.i + 1 \in 0..Len(q.walk) /\ q.i + 1 \in 0..Depth
                                /\ q.walk[q.i + 1] \in Names /\ Reached(q) \in Paths
<1>1. q.walk \in Paths /\ q.i \in 0..Depth /\ q.at \in Nodes /\ q.ticket \in Tickets
      /\ q.i <= Len(q.walk)
  BY PathIsSeq DEF Formed, Request
<1>2. Len(q.walk) \in 0..Depth /\ Len(q.walk) \in Nat /\ q.walk \in [1..Len(q.walk) -> Names]
  BY <1>1, PathIsSeq
<1>3. q.i \in 0..Len(q.walk)
  BY <1>1, <1>2, Basics
<1>4. ASSUME q.i < Len(q.walk)
      PROVE  q.i + 1 \in 0..Len(q.walk) /\ q.i + 1 \in 0..Depth
             /\ q.i + 1 \in 1..Len(q.walk)
  BY <1>2, <1>3, <1>4, Basics
<1> QED BY <1>1, <1>2, <1>3, <1>4, PrefixIsPath DEF Reached

LEMMA OnwardIs ==
  ASSUME NEW q \in Request, Formed(q), q.pc \in {"walk", "got"}, q.todo # <<>>,
         q.i < Len(q.walk), NEW n \in Nodes
  PROVE  Onward(q, n) \in Request /\ Formed(Onward(q, n))
<1>1. Onward(q, n) \in Request
  BY Walking DEF Onward, Request, Stages
<1>2. Formed(Onward(q, n))
  <2>1. n # None /\ q.i + 1 <= Len(q.walk)
    BY Walking, Basics
  <2> QED BY <2>1, <1>1 DEF Onward, Request, Formed
<1> QED BY <1>1, <1>2

LEMMA HeadIs ==
  ASSUME NEW q \in Request, q.todo # <<>>
  PROVE  Head(q.todo) \in Lookup /\ Head(q.todo).path \in Paths
<1>1. q.todo \in Seq(Lookup)
  BY DEF Request
<1>2. Head(q.todo) \in Lookup
  BY <1>1, HeadTailProperties
<1> QED BY <1>2 DEF Lookup

LEMMA PathHitShape ==
  ASSUME ShapeInv, NEW r \in Requests, PathHit(r)
  PROVE  ShapeInv'
<1> DEFINE q == req[r]
<1>1. q \in Request /\ Formed(q) /\ q.pc = "next" /\ q.todo # <<>>
  BY TypeParts DEF ShapeInv, PathHit
<1>2. Head(q.todo).path \in Paths /\ q.ticket \in Tickets
  BY <1>1, HeadIs DEF Formed
<1>3. pathCache[<<q.ticket, Head(q.todo).path>>] \in Nodes
  BY <1>2, TypeParts DEF ShapeInv, StoresOK, PathHit
<1> HIDE DEF q
<1>4. /\ Found(q, pathCache[<<q.ticket, Head(q.todo).path>>]) \in Request
      /\ Formed(Found(q, pathCache[<<q.ticket, Head(q.todo).path>>]))
  BY <1>1, <1>3, FoundIs, Basics
<1> QED BY <1>4, QuietShape DEF PathHit, q

LEMMA PathMissShape ==
  ASSUME ShapeInv, NEW r \in Requests, PathMiss(r)
  PROVE  ShapeInv'
<1> DEFINE q == req[r]
<1>1. q \in Request /\ Formed(q) /\ q.pc = "next" /\ q.todo # <<>>
  BY TypeParts DEF ShapeInv, PathMiss
<1>2. Head(q.todo).path \in Paths
  BY <1>1, HeadIs
<1> HIDE DEF q
<1>3. /\ WalkFrom(q, Head(q.todo).path, FALSE) \in Request
      /\ Formed(WalkFrom(q, Head(q.todo).path, FALSE))
  BY <1>1, <1>2, WalkFromIs
<1> QED BY <1>3, QuietShape DEF PathMiss, q

LEMMA SegmentHitShape ==
  ASSUME ShapeInv, NEW r \in Requests, SegmentHit(r)
  PROVE  ShapeInv'
<1> DEFINE q == req[r]
           n == pathCache[<<q.ticket, Reached(q)>>]
<1>1. q \in Request /\ Formed(q) /\ q.pc = "walk" /\ q.todo # <<>> /\ q.i < Len(q.walk)
  BY TypeParts DEF ShapeInv, SegmentHit, Formed
<1>2. n \in Nodes
  BY <1>1, Walking, TypeParts DEF ShapeInv, StoresOK, SegmentHit
<1> HIDE DEF q, n
<1>3. Onward(q, n) \in Request /\ Formed(Onward(q, n))
  BY <1>1, <1>2, OnwardIs
<1> QED BY <1>3, QuietShape DEF SegmentHit, q, n

(* A step that leaves all but the stage and the child alone.               *)
LEMMA StageIs ==
  ASSUME NEW q \in Request, Formed(q), q.pc \in {"walk", "child", "ask", "keep", "got"},
         NEW s \in {"child", "ask", "keep", "got"}, q.i < Len(q.walk),
         NEW n \in Nodes \cup {None}
  PROVE  /\ [q EXCEPT !.pc = s] \in Request /\ Formed([q EXCEPT !.pc = s])
         /\ [q EXCEPT !.pc = s, !.got = n] \in Request
         /\ Formed([q EXCEPT !.pc = s, !.got = n])
<1>1. [q EXCEPT !.pc = s] \in Request
  BY DEF Request, Stages
<1>2. [q EXCEPT !.pc = s, !.got = n] \in Request
  BY DEF Request, Stages
<1>3. Formed([q EXCEPT !.pc = s])
  BY DEF Formed, Request
<1>4. Formed([q EXCEPT !.pc = s, !.got = n])
  BY DEF Formed, Request
<1> QED BY <1>1, <1>2, <1>3, <1>4

LEMMA ChildKeyIs ==
  ASSUME NEW q \in Request, Formed(q), q.pc \in {"child", "ask", "keep", "got"}
  PROVE  ChildKey(q) \in Tickets \X Nodes \X Names /\ q.i < Len(q.walk)
BY Walking DEF ChildKey, Formed

LEMMA SegmentMissShape ==
  ASSUME ShapeInv, NEW r \in Requests, SegmentMiss(r)
  PROVE  ShapeInv'
<1>1. req[r] \in Request /\ Formed(req[r]) /\ req[r].pc = "walk" /\ req[r].i < Len(req[r].walk)
  BY TypeParts DEF ShapeInv, SegmentMiss
<1>2. [req[r] EXCEPT !.pc = "child"] \in Request /\ Formed([req[r] EXCEPT !.pc = "child"])
  BY <1>1, StageIs
<1> QED BY <1>2, QuietShape DEF SegmentMiss

LEMMA ChildHitShape ==
  ASSUME ShapeInv, NEW r \in Requests, ChildHit(r)
  PROVE  ShapeInv'
<1> DEFINE q == req[r]
           n == childCache[ChildKey(q)]
<1>1. q \in Request /\ Formed(q) /\ q.pc = "child"
  BY TypeParts DEF ShapeInv, ChildHit
<1>2. n \in Nodes \cup {None} /\ q.i < Len(q.walk)
  BY <1>1, ChildKeyIs, TypeParts DEF ShapeInv, StoresOK, ChildHit
<1> HIDE DEF q, n
<1>3. [q EXCEPT !.pc = "got", !.got = n] \in Request /\ Formed([q EXCEPT !.pc = "got", !.got = n])
  BY <1>1, <1>2, StageIs
<1> QED BY <1>3, QuietShape DEF ChildHit, q, n

LEMMA ChildMissShape ==
  ASSUME ShapeInv, NEW r \in Requests, ChildMiss(r)
  PROVE  ShapeInv'
<1>1. req[r] \in Request /\ Formed(req[r]) /\ req[r].pc = "child" /\ req[r].i < Len(req[r].walk)
  BY TypeParts DEF ShapeInv, ChildMiss, Formed
<1>2. [req[r] EXCEPT !.pc = "ask"] \in Request /\ Formed([req[r] EXCEPT !.pc = "ask"])
  BY <1>1, StageIs
<1> QED BY <1>2, QuietShape DEF ChildMiss

LEMMA AskShape ==
  ASSUME ShapeInv, NEW r \in Requests, Ask(r)
  PROVE  ShapeInv'
<1> DEFINE q == req[r]
           s == IF Childless(q.at) THEN "got" ELSE "keep"
           n == Child(q.at, q.walk[q.i + 1])
<1>1. q \in Request /\ Formed(q) /\ q.pc = "ask" /\ q.i < Len(q.walk)
  BY TypeParts DEF ShapeInv, Ask, Formed
<1>2. n \in Nodes \cup {None} /\ s \in {"got", "keep"}
  BY ChildIs
<1>3. Becomes(r, [q EXCEPT !.pc = s, !.got = n])
  BY DEF Ask
<1> HIDE DEF q, n, s
<1>4. [q EXCEPT !.pc = s, !.got = n] \in Request /\ Formed([q EXCEPT !.pc = s, !.got = n])
  BY <1>1, <1>2, StageIs
<1> QED BY <1>3, <1>4, QuietShape DEF Ask

LEMMA KeepChildShape ==
  ASSUME ShapeInv, NEW r \in Requests, KeepChild(r)
  PROVE  ShapeInv'
<1> DEFINE q == req[r]
<1>1. q \in Request /\ Formed(q) /\ q.pc = "keep" /\ StoresOK
  BY TypeParts DEF ShapeInv, KeepChild
<1>2. q.ticket \in Tickets /\ ChildKey(q) \in Tickets \X Nodes \X Names /\ q.i < Len(q.walk)
  BY <1>1, ChildKeyIs, Walking
<1>3. /\ childCache' \in CacheSet(childCache, Unknown, ChildKey(q), q.got)
      /\ Becomes(r, [q EXCEPT !.pc = "got"]) /\ Stored(r)
      /\ UNCHANGED <<place, used, edits, seen, pathCache>>
  BY DEF KeepChild, Server
<1>4. q.got \in Nodes \cup {None}
  BY <1>1 DEF Request
<1> HIDE DEF q
<1>5. childCache' \in [Tickets \X Nodes \X Names -> Nodes \cup {None, Unknown}]
  BY <1>1, <1>2, <1>3, <1>4, ChildSetIs
<1>6. StoresOK'
  BY <1>1, <1>2, <1>3, <1>5, StoredStores DEF StoresOK, q
<1>7. [q EXCEPT !.pc = "got"] \in Request /\ Formed([q EXCEPT !.pc = "got"])
  BY <1>1, <1>2, <1>4, StageIs
<1> QED BY <1>3, <1>6, <1>7, BecomesShape

LEMMA KeepSegmentShape ==
  ASSUME ShapeInv, NEW r \in Requests, KeepSegment(r)
  PROVE  ShapeInv'
<1> DEFINE q == req[r]
<1>1. q \in Request /\ Formed(q) /\ q.pc = "got" /\ StoresOK /\ q.todo # <<>> /\ q.got # None
  BY TypeParts DEF ShapeInv, KeepSegment
<1>2. q.i < Len(q.walk)
  BY <1>1 DEF Formed
<1>3. /\ pathCache' \in CacheSet(pathCache, None, <<q.ticket, Reached(q)>>, q.got)
      /\ Becomes(r, Onward(q, q.got)) /\ Stored(r)
      /\ UNCHANGED <<place, used, edits, seen, childCache>>
  BY DEF KeepSegment, Server
<1>4. q.got \in Nodes
  BY <1>1 DEF Request
<1> HIDE DEF q
<1>5. q.ticket \in Tickets /\ Reached(q) \in Paths
  BY <1>1, <1>2, Walking
<1>6. pathCache' \in [Tickets \X Paths -> Nodes \cup {None}]
  BY <1>1, <1>3, <1>4, <1>5, PathSetIs
<1>7. StoresOK'
  BY <1>1, <1>3, <1>5, <1>6, StoredStores DEF StoresOK, q
<1>8. Onward(q, q.got) \in Request /\ Formed(Onward(q, q.got))
  BY <1>1, <1>2, <1>4, OnwardIs
<1> QED BY <1>3, <1>7, <1>8, BecomesShape

LEMMA NoChildShape ==
  ASSUME ShapeInv, NEW r \in Requests, NoChild(r)
  PROVE  ShapeInv'
<1> DEFINE q == req[r]
<1>1. q \in Request /\ Formed(q) /\ q.pc = "got" /\ q.todo # <<>>
  BY TypeParts DEF ShapeInv, NoChild
<1>2. CASE ~q.again /\ Len(q.walk) > 1
  <2>1. Becomes(r, WalkFrom(q, Rest(q.walk), TRUE)) /\ UNCHANGED <<Server, Caches>>
    BY <1>2 DEF NoChild
  <2> HIDE DEF q
  <2>2. WalkFrom(q, Rest(q.walk), TRUE) \in Request /\ Formed(WalkFrom(q, Rest(q.walk), TRUE))
    BY <1>1, <1>2, Walking, RestIsPath, WalkFromIs
  <2> QED BY <2>1, <2>2, QuietShape
<1>3. CASE ~(~q.again /\ Len(q.walk) > 1) /\ Head(q.todo).must
  BY <1>3, IdleIs, QuietShape DEF NoChild
<1>4. CASE ~(~q.again /\ Len(q.walk) > 1) /\ ~Head(q.todo).must
  <2>1. Becomes(r, Found(q, None)) /\ UNCHANGED <<Server, Caches>>
    BY <1>4 DEF NoChild
  <2>2. Head(q.todo).must # TRUE
    BY <1>4
  <2> HIDE DEF q
  <2>3. Found(q, None) \in Request /\ Formed(Found(q, None))
    BY <1>1, <2>2, FoundIs
  <2> QED BY <2>1, <2>3, QuietShape
<1> QED BY <1>2, <1>3, <1>4

LEMMA KeepPathShape ==
  ASSUME ShapeInv, NEW r \in Requests, KeepPath(r)
  PROVE  ShapeInv'
<1> DEFINE q == req[r]
<1>1. q \in Request /\ Formed(q) /\ q.pc = "walk" /\ StoresOK /\ q.todo # <<>>
  BY TypeParts DEF ShapeInv, KeepPath, Formed
<1>2. /\ pathCache' \in CacheSet(pathCache, None, <<q.ticket, Head(q.todo).path>>, q.at)
      /\ Becomes(r, Found(q, q.at)) /\ Stored(r)
      /\ UNCHANGED <<place, used, edits, seen, childCache>>
  BY DEF KeepPath, Server
<1> HIDE DEF q
<1>3. q.at \in Nodes /\ q.at # None /\ q.ticket \in Tickets /\ Head(q.todo).path \in Paths
  BY <1>1, Walking, HeadIs, Basics
<1>4. pathCache' \in [Tickets \X Paths -> Nodes \cup {None}]
  BY <1>1, <1>2, <1>3, PathSetIs
<1>5. StoresOK'
  BY <1>1, <1>2, <1>3, <1>4, StoredStores DEF StoresOK, q
<1>6. Found(q, q.at) \in Request /\ Formed(Found(q, q.at))
  BY <1>1, <1>3, FoundIs
<1> QED BY <1>2, <1>5, <1>6, BecomesShape

LEMMA LeafIs ==
  ASSUME NEW p \in Paths, p # <<>>
  PROVE  Leaf(p) \in Names /\ <<Leaf(p)>> \in Paths /\ Len(<<Leaf(p)>>) = 1
<1>1. Len(p) \in 1..Len(p) /\ Len(p) \in 0..Depth /\ p \in [1..Len(p) -> Names]
  BY PathIsSeq, EmptySeq
<1>2. Leaf(p) \in Names /\ 1 \in 0..Depth
  BY <1>1, Basics DEF Leaf
<1>3. <<Leaf(p)>> \in [1..1 -> Names]
  BY <1>2
<1> QED BY <1>2, <1>3, PathOfLength

LEMMA ReadyShape ==
  ASSUME ShapeInv, NEW r \in Requests, Ready(r)
  PROVE  ShapeInv'
<1> DEFINE q == req[r]
<1>1. q \in Request /\ Formed(q) /\ q.pc = "next" /\ q.todo = <<>> /\ q.call \in Calls
  BY TypeParts DEF ShapeInv, Ready, Formed
<1>2. CASE q.call.op = "upload"
  <2> DEFINE w == <<Leaf(q.call.dst)>>
             nq == [q EXCEPT !.pc = "child", !.at = q.up, !.walk = w]
  <2>1. Becomes(r, nq) /\ UNCHANGED <<Server, Caches>>
    BY <1>2 DEF Ready
  <2>2. w \in Paths /\ Len(w) = 1
    BY <1>1, <1>2, LeafIs, CacheConstantsOK DEF CacheConstantsOK, Call
  <2>3. q.up # None
    BY <1>1, <1>2, Basics DEF Formed, Needed
  <2> HIDE DEF q, w
  <2>4. nq \in Request
    BY <1>1, <2>2 DEF Request, Stages
  <2>5. /\ nq.pc = "child" /\ nq.at = q.up /\ nq.walk = w /\ nq.call = q.call
        /\ nq.ticket = q.ticket /\ nq.todo = q.todo /\ nq.up = q.up /\ nq.i = 0 /\ nq.acts = q.acts
    BY <1>1 DEF Formed, Request
  <2> HIDE DEF nq
  <2>7. /\ nq.call \in Calls /\ nq.ticket \in Tickets /\ Named(nq.call, nq.todo)
        /\ nq.acts = 0
    BY <1>1, <2>5 DEF Formed
  <2>a. nq.at # None /\ nq.up # None
    BY <2>3, <2>5
  <2>b. Len(nq.walk) = 1
    BY <2>2, <2>5
  <2>8. nq.i < Len(nq.walk) /\ nq.at # None /\ nq.up # None
    BY <2>a, <2>b, <2>5
  <2>6. Formed(nq)
    BY <2>5, <2>7, <2>8 DEF Formed
  <2> QED BY <2>1, <2>4, <2>6, QuietShape
<1>3. CASE q.call.op # "upload"
  <2> DEFINE nq == [q EXCEPT !.pc = "act"]
  <2>1. Becomes(r, nq) /\ UNCHANGED <<Server, Caches>>
    BY <1>3 DEF Ready
  <2> HIDE DEF q
  <2>2. nq \in Request
    BY <1>1 DEF Request, Stages
  <2>3. Formed(nq)
    BY <1>1 DEF Formed, Request
  <2> QED BY <2>1, <2>2, <2>3, QuietShape
<1> QED BY <1>2, <1>3

LEMMA ReadyToUploadShape ==
  ASSUME ShapeInv, NEW r \in Requests, ReadyToUpload(r)
  PROVE  ShapeInv'
<1> DEFINE q == req[r]
           nq == [q EXCEPT !.pc = "act"]
<1>1. q \in Request /\ Formed(q) /\ q.pc = "got" /\ q.todo = <<>>
      /\ Becomes(r, nq) /\ UNCHANGED <<Server, Caches>>
  BY TypeParts DEF ShapeInv, ReadyToUpload
<1> HIDE DEF q
<1>2. nq \in Request
  BY <1>1 DEF Request, Stages
<1>3. Formed(nq)
  BY <1>1 DEF Formed, Request
<1> QED BY <1>1, <1>2, <1>3, QuietShape

LEMMA AgainIs ==
  ASSUME NEW q \in Request, Formed(q), q.pc # "idle", q.pc # "clear", NEW t \in Tickets
  PROVE  /\ Again(q, t) \in Request /\ Formed(Again(q, t))
         /\ Again(q, t).pc = "next" /\ Again(q, t).node = None /\ Again(q, t).up = None
<1> DEFINE s == Starting(q.call, t)
<1>1. q.call \in Calls /\ q.acts = 0
  BY DEF Formed
<1>2. s \in Request /\ Formed(s) /\ s.pc = "next" /\ s.node = None /\ s.up = None
  BY <1>1, StartingIs
<1>3. Again(q, t) = [s EXCEPT !.retried = TRUE, !.acts = q.acts]
  BY Zenon DEF Again
<1> HIDE DEF s
<1>4. [s EXCEPT !.retried = TRUE, !.acts = q.acts] \in Request
  BY <1>1, <1>2 DEF Request
<1>5. Formed([s EXCEPT !.retried = TRUE, !.acts = q.acts])
  BY <1>1, <1>2 DEF Formed, Request
<1>6. LET a == [s EXCEPT !.retried = TRUE, !.acts = q.acts] IN
        a.pc = "next" /\ a.node = None /\ a.up = None
  BY <1>2 DEF Request
<1> QED BY <1>3, <1>4, <1>5, <1>6

LEMMA RenewShape ==
  ASSUME ShapeInv, NEW r \in Requests, Renew(r)
  PROVE  ShapeInv'
<1>1. req[r] \in Request /\ Formed(req[r]) /\ req[r].pc \in {"ask", "act"}
  BY TypeParts DEF ShapeInv, Renew
<1>2. PICK t \in Tickets : Becomes(r, Again(req[r], t))
  BY DEF Renew, Tickets
<1> QED BY <1>1, <1>2, AgainIs, QuietShape DEF Renew

LEMMA GiveUpShape ==
  ASSUME ShapeInv, NEW r \in Requests, GiveUp(r)
  PROVE  ShapeInv'
<1> DEFINE q == req[r]
<1>1. q \in Request /\ Formed(q) /\ q.pc = "ask" /\ q.todo # <<>> /\ Head(q.todo).must # TRUE
  BY TypeParts DEF ShapeInv, GiveUp
<1> HIDE DEF q
<1>2. Found(q, None) \in Request /\ Formed(Found(q, None))
  BY <1>1, FoundIs
<1> QED BY <1>2, QuietShape DEF GiveUp, q

LEMMA BackToIdleShape ==
  ASSUME ShapeInv, NEW r \in Requests, Fail(r) \/ Read(r) \/ AskForVersion(r)
  PROVE  ShapeInv'
BY IdleIs, QuietShape DEF Fail, Read, AskForVersion

LEMMA BeginShape ==
  ASSUME ShapeInv, NEW r \in Requests, NEW c \in Calls, NEW t \in Sessions, Begin(r, c, t)
  PROVE  ShapeInv'
BY StartingIs, QuietShape DEF Begin, Tickets

LEMMA DoneIs ==
  ASSUME NEW q \in Request, Formed(q), q.pc = "act", NEW d,
         d = [[q EXCEPT !.acts = @ + 1] EXCEPT !.pc = "clear"]
  PROVE  d \in Request /\ Formed(d)
<1>1. q.acts = 0
  BY DEF Formed
<1> DEFINE e == [q EXCEPT !.acts = @ + 1]
<1>a. e \in Request
  BY <1>1 DEF Request
<1>b. d = [e EXCEPT !.pc = "clear"]
  OBVIOUS
<1>2. d \in Request
  <2> HIDE DEF e
  <2> QED BY <1>a, <1>b DEF Request, Stages
<1>3. /\ d.pc = "clear" /\ d.call = q.call /\ d.ticket = q.ticket /\ d.todo = q.todo
      /\ d.up = q.up /\ d.acts = 1
  BY <1>1 DEF Request
<1>4. Formed(d)
  BY <1>3 DEF Formed
<1> QED BY <1>2, <1>4

LEMMA DoneShape ==
  ASSUME ShapeInv, StoresOK', NEW r \in Requests, req[r].pc = "act", Done(r)
  PROVE  ShapeInv'
<1> DEFINE q == req[r]
           d == [[q EXCEPT !.acts = @ + 1] EXCEPT !.pc = "clear"]
<1>1. q \in Request /\ Formed(q)
  BY TypeParts DEF ShapeInv
<1>2. Becomes(r, d) \/ Becomes(r, Idle)
  BY Zenon DEF Done, AfterLost
<1>3. d \in Request /\ Formed(d)
  <2> HIDE DEF q
  <2> QED BY <1>1, DoneIs DEF q
<1> HIDE DEF d
<1> QED BY <1>2, <1>3, IdleIs, BecomesShape

LEMMA DeleteShape ==
  ASSUME ShapeInv, NEW r \in Requests, Delete(r)
  PROVE  ShapeInv'
<1>1. StoresOK'
  BY EditedStores, RemovedIs, TypeParts DEF ShapeInv, Delete
<1> QED BY <1>1, DoneShape DEF Delete, Acting

(* The name an operation puts something under.                             *)
LEMMA NamedLeaf ==
  ASSUME NEW c \in Calls
  PROVE  /\ c.op \in {"rename", "copy", "upload"} => Leaf(c.dst) \in Names
         /\ c.op = "mkdir" => Leaf(c.src) \in Names
<1>1. c.src \in Paths /\ c.dst \in Paths
  BY Basics DEF Call
<1> QED BY <1>1, LeafIs, CacheConstantsOK DEF CacheConstantsOK

LEMMA RenameShape ==
  ASSUME ShapeInv, NEW r \in Requests, Rename(r)
  PROVE  ShapeInv'
<1> DEFINE q == req[r]
           m == Leaf(q.call.dst)
<1>1. q \in Request /\ Formed(q) /\ q.pc = "act" /\ q.call.op = "rename" /\ q.up # None
      /\ StoresOK
  BY TypeParts DEF ShapeInv, Rename, Acting
<1>2. q.up \in Nodes /\ m \in Names
  BY <1>1, NamedLeaf DEF Formed, Request
<1>3. Edited(Put(q.node, q.up, m)) /\ Done(r) /\ UNCHANGED Caches
  BY DEF Rename
<1> HIDE DEF m
<1>4. StoresOK'
  BY <1>1, <1>2, <1>3, PutIs, EditedStores
<1> QED BY <1>1, <1>3, <1>4, DoneShape

LEMMA CreateShape ==
  ASSUME ShapeInv, NEW r \in Requests, Create(r)
  PROVE  ShapeInv'
<1> DEFINE q == req[r]
           m == Leaf(IF q.call.op = "mkdir" THEN q.call.src ELSE q.call.dst)
<1>1. q \in Request /\ Formed(q) /\ q.pc = "act" /\ q.call.op \in {"copy", "mkdir", "upload"}
      /\ StoresOK
  BY TypeParts DEF ShapeInv, Create, Acting
<1>2. m \in Names
  BY <1>1, NamedLeaf DEF Formed
<1>3. q.up \in Nodes
  <2>1. q.todo = <<>>
    BY <1>1 DEF Formed
  <2>2. ~Needed(q.call, q.todo)
    BY <1>1, <2>1, Basics DEF Needed
  <2> QED BY <1>1, <2>2 DEF Formed, Request
<1>4. PICK n \in Nodes \ used : Edited(Put(n, q.up, m))
  BY DEF Create
<1>5. Done(r) /\ UNCHANGED Caches
  BY DEF Create
<1> HIDE DEF m
<1>6. StoresOK'
  BY <1>1, <1>2, <1>3, <1>4, <1>5, PutIs, EditedStores
<1> QED BY <1>1, <1>5, <1>6, DoneShape

LEMMA UpdateShape ==
  ASSUME ShapeInv, NEW r \in Requests, Update(r)
  PROVE  ShapeInv'
BY ServerKept, DoneShape, TypeParts DEF ShapeInv, Update, Acting

(* What the end of a change leaves of another request.                     *)
LEMMA LateIs ==
  ASSUME NEW q \in Request, Formed(q), NEW t, NEW d,
         d = [q EXCEPT !.late = @ \/ q.ticket = t]
  PROVE  d \in Request /\ Formed(d)
<1>1. d \in Request
  BY DEF Request
<1>2. /\ d.pc = q.pc /\ d.call = q.call /\ d.ticket = q.ticket /\ d.todo = q.todo
      /\ d.up = q.up /\ d.acts = q.acts /\ d.i = q.i /\ d.walk = q.walk /\ d.at = q.at
  BY DEF Request
<1>3. Formed(d)
  BY <1>2 DEF Formed
<1> QED BY <1>1, <1>3

LEMMA ClearShape ==
  ASSUME ShapeInv, NEW r \in Requests, Clear(r)
  PROVE  ShapeInv'
<1> DEFINE t == req[r].ticket
<1>1. \A x \in Requests : req[x] \in Request /\ Formed(req[x])
  BY TypeParts DEF ShapeInv
<1>2. StoresOK /\ t \in Tickets
  BY <1>1, TypeParts DEF ShapeInv, Clear, Formed
<1>3. /\ Emptied(t) /\ seen' = [seen EXCEPT ![t] = Facts]
      /\ tainted' = [tainted EXCEPT ![t] = FALSE] /\ UNCHANGED <<place, used, edits>>
  BY DEF Clear
<1>4. pathCache' \in [Tickets \X Paths -> Nodes \cup {None}]
  BY <1>2, <1>3 DEF Emptied, StoresOK
<1>5. childCache' \in [Tickets \X Nodes \X Names -> Nodes \cup {None, Unknown}]
  <2> DEFINE D == Tickets \X Nodes \X Names
             c == childCache
             V == Nodes \cup {None, Unknown}
  <2>1. childCache' = [k \in D |-> IF k[1] = t THEN Unknown ELSE c[k]] /\ c \in [D -> V]
        /\ Unknown \in V
    BY <1>2, <1>3 DEF Emptied, StoresOK
  <2> HIDE DEF D, c, V
  <2> QED BY <2>1 DEF D, V
<1>6. seen' \in [Tickets -> SUBSET Fact] /\ tainted' \in [Tickets -> BOOLEAN]
  BY <1>2, <1>3, FactsAre DEF StoresOK
<1>7. StoresOK'
  BY <1>2, <1>3, <1>4, <1>5, <1>6 DEF StoresOK
<1>8. req' = [x \in Requests |-> IF x = r THEN Idle
                                 ELSE [req[x] EXCEPT !.late = @ \/ req[x].ticket = t]]
  BY DEF Clear
<1>9. \A x \in Requests : req'[x] \in Request /\ Formed(req'[x])
  <2> TAKE x \in Requests
  <2>1. CASE x = r
    BY <1>8, <2>1, IdleIs
  <2>2. CASE x # r
    <3>1. req'[x] = [req[x] EXCEPT !.late = @ \/ req[x].ticket = t]
      BY <1>8, <2>2
    <3> QED BY <1>1, <3>1, LateIs
  <2> QED BY <2>1, <2>2
<1>10. req' \in [Requests -> Request]
  BY <1>8, <1>9
<1>11. TypeOK'
  BY <1>7, <1>10 DEF TypeOK, StoresOK
<1> QED BY <1>9, <1>11 DEF ShapeInv, Formed, Named, Needed, Fits, Folder

LEMMA OthersShape ==
  ASSUME ShapeInv, Others
  PROVE  ShapeInv'
<1>1. UNCHANGED Caches /\ req' = req /\ StoresOK
  BY TypeParts DEF Others, ShapeInv
<1>2. PICK tree \in [Nodes -> Place \cup {None}] : Edited(tree)
  BY <1>1, RemovedIs, PutIs DEF Others
<1>3. StoresOK'
  BY <1>1, <1>2, EditedStores
<1>4. TypeOK'
  BY <1>1, <1>3 DEF ShapeInv, TypeOK, StoresOK
<1> QED BY <1>1, <1>4 DEF ShapeInv, Formed, Named, Needed, Fits, Folder

LEMMA InitShape == Init => ShapeInv
<1> SUFFICES ASSUME Init PROVE ShapeInv
  OBVIOUS
<1>1. used \subseteq Nodes /\ edits \in 0..MaxEdits /\ req \in [Requests -> Request]
  BY Basics, IdleIs, CacheConstantsOK DEF Init, CacheConstantsOK
<1>2. seen \in [Tickets -> SUBSET Fact] /\ tainted \in [Tickets -> BOOLEAN]
      /\ pathCache \in [Tickets \X Paths -> Nodes \cup {None}]
  BY FactsAre DEF Init
<1>3. childCache \in [Tickets \X Nodes \X Names -> Nodes \cup {None, Unknown}]
  BY DEF Init
<1>4. TypeOK
  BY <1>1, <1>2, <1>3 DEF TypeOK, Init
<1> QED BY <1>4, IdleIs DEF ShapeInv, Init

LEMMA StepShape ==
  ASSUME ShapeInv, NEW r \in Requests, Step(r)
  PROVE  ShapeInv'
BY PathHitShape, PathMissShape, SegmentHitShape, SegmentMissShape, ChildHitShape,
   ChildMissShape, AskShape, KeepChildShape, KeepSegmentShape, NoChildShape, KeepPathShape,
   ReadyShape, ReadyToUploadShape, RenewShape, GiveUpShape, BackToIdleShape, DeleteShape,
   RenameShape, CreateShape, UpdateShape, ClearShape DEF Step

LEMMA NextShape == ShapeInv /\ [Next]_vars => ShapeInv'
<1> SUFFICES ASSUME ShapeInv, [Next]_vars PROVE ShapeInv'
  OBVIOUS
<1>1. CASE \E r \in Requests, c \in Calls, t \in Sessions : Begin(r, c, t)
  BY <1>1, BeginShape
<1>2. CASE \E r \in Requests : Step(r)
  BY <1>2, StepShape
<1>3. CASE Others
  BY <1>3, OthersShape
<1>4. CASE UNCHANGED vars
  <2>1. UNCHANGED <<Server, Caches>> /\ req' = req
    BY <1>4 DEF vars, Server, Caches
  <2>2. TypeOK'
    BY <2>1, ServerKept DEF TypeOK, StoresOK, ShapeInv
  <2> QED BY <2>1, <2>2 DEF ShapeInv, Formed, Named, Needed, Fits, Folder
<1> QED BY <1>1, <1>2, <1>3, <1>4 DEF Next

(* At each stage a request carries what the driver's code at that point    *)
(* reads: the call and the ticket it works for, a folder where it puts     *)
(* something, an index within the path.                                    *)
THEOREM ShapeStays == Spec => []ShapeInv
BY InitShape, NextShape, PTL DEF Spec

(* Every value the driver and its client keep is of the kind the code      *)
(* expects; _resolve_path, child_by_name and the walk never leave a        *)
(* request with a node or an index outside the path.                       *)
THEOREM CacheTypeOK == Spec => []TypeOK
<1>1. ShapeInv => TypeOK
  BY DEF ShapeInv
<1> QED BY <1>1, ShapeStays, PTL

(* _run_with_ticket_retry may repeat an operation with a new ticket, but   *)
(* no request changes the repository twice.                                *)
THEOREM ActsAtMostOnce == Spec => []AtMostOnce
<1>1. ShapeInv => AtMostOnce
  BY DEF ShapeInv, AtMostOnce, Formed
<1> QED BY <1>1, ShapeStays, PTL

(* What a request has looked up was so, by the facts F.                    *)
Known(F, q) ==
  /\ q.node # None => Answers(F, q.call.src, q.node)
  /\ q.up # None => Answers(F, Folder(q.call), q.up)
  /\ q.pc \in {"walk", "child", "ask", "keep", "got"} /\ q.todo # <<>> =>
       /\ Answers(F, Prefix(q.walk, q.i), q.at)
       /\ q.again # TRUE => q.walk = Head(q.todo).path
       /\ q.again = TRUE => Len(Head(q.todo).path) > 1 /\ q.walk = Rest(Head(q.todo).path)
  /\ q.pc \in {"keep", "got"} => <<q.at, q.walk[q.i + 1], q.got>> \in F

Trusted(taint, q) == q.pc # "idle" /\ q.late # TRUE /\ taint[q.ticket] # TRUE

PathsTold(F, cache, t) ==
  \A p \in Paths : cache[<<t, p>>] # None => Answers(F, p, cache[<<t, p>>])
ChildrenTold(F, cache, t) ==
  \A u \in Nodes, m \in Names :
    cache[<<t, u, m>>] # Unknown => <<u, m, cache[<<t, u, m>>]>> \in F

MemoryInv ==
  /\ ShapeInv
  /\ \A t \in Tickets : Facts \subseteq seen[t]
  /\ CachesRemember
  /\ \A r \in Requests : Trusted(tainted, req[r]) => Known(seen[req[r].ticket], req[r])

LEMMA CachesTell ==
  CachesRemember <=> \A t \in Tickets : tainted[t] # TRUE =>
                        PathsTold(seen[t], pathCache, t) /\ ChildrenTold(seen[t], childCache, t)
BY DEF CachesRemember, PathsTold, ChildrenTold

LEMMA CachesWillTell ==
  CachesRemember' <=> \A t \in Tickets : tainted'[t] # TRUE =>
                        PathsTold(seen'[t], pathCache', t) /\ ChildrenTold(seen'[t], childCache', t)
BY DEF CachesRemember, PathsTold, ChildrenTold

LEMMA KnownMore ==
  ASSUME NEW F, NEW G, F \subseteq G, NEW q, Known(F, q)
  PROVE  Known(G, q)
BY AnswersMore DEF Known

LEMMA ToldMore ==
  ASSUME NEW F, NEW G, F \subseteq G, NEW pc, NEW cc, NEW t,
         PathsTold(F, pc, t), ChildrenTold(F, cc, t)
  PROVE  PathsTold(G, pc, t) /\ ChildrenTold(G, cc, t)
BY AnswersMore DEF PathsTold, ChildrenTold

-----------------------------------------------------------------------------
(* What a request knows after each of its steps.                           *)
LEMMA KnownFound ==
  ASSUME NEW q \in Request, Formed(q), q.todo # <<>>, q.pc # "idle", NEW F, Known(F, q),
         NEW n, n # None => Answers(F, Head(q.todo).path, n)
  PROVE  Known(F, Found(q, n))
<1> DEFINE nq == Found(q, n)
<1>1. /\ q.todo \in Seq(Lookup) /\ Head(q.todo) = q.todo[1] /\ 1 \in 1..Len(q.todo)
  BY HeadTailProperties, EmptySeq, LenProperties DEF Request
<1>2. Fits(q.call, Head(q.todo))
  BY <1>1 DEF Formed, Named
<1>3. /\ nq.pc = "next" /\ nq.call = q.call
      /\ nq.node = IF Head(q.todo).as = "node" THEN n ELSE q.node
      /\ nq.up = IF Head(q.todo).as = "up" THEN n ELSE q.up
  BY DEF Found, Request
<1> HIDE DEF nq
<1>4. nq.node # None => Answers(F, nq.call.src, nq.node)
  BY <1>2, <1>3 DEF Known, Fits
<1>5. nq.up # None => Answers(F, Folder(nq.call), nq.up)
  BY <1>2, <1>3 DEF Known, Fits
<1>6. Known(F, nq)
  BY <1>3, <1>4, <1>5 DEF Known
<1> QED BY <1>6 DEF nq

LEMMA KnownWalk ==
  ASSUME NEW q \in Request, NEW F, Known(F, q), NEW p \in Paths, NEW again \in BOOLEAN,
         again # TRUE => p = Head(q.todo).path,
         again = TRUE => Len(Head(q.todo).path) > 1 /\ p = Rest(Head(q.todo).path)
  PROVE  Known(F, WalkFrom(q, p, again))
<1> DEFINE nq == WalkFrom(q, p, again)
<1>1. /\ nq.pc = "walk" /\ nq.call = q.call /\ nq.node = q.node /\ nq.up = q.up
      /\ nq.walk = p /\ nq.i = 0 /\ nq.at = Root /\ nq.todo = q.todo
  BY DEF WalkFrom, Request
<1>2. nq.again = again
  BY DEF WalkFrom, Request
<1>3. Answers(F, Prefix(p, 0), Root)
  BY AnswersRoot
<1> HIDE DEF nq
<1>4. Known(F, nq)
  BY <1>1, <1>2, <1>3 DEF Known
<1> QED BY <1>4 DEF nq

LEMMA KnownOnward ==
  ASSUME NEW q \in Request, NEW F, Known(F, q), q.pc \in {"walk", "got"}, q.todo # <<>>,
         NEW n, Answers(F, Prefix(q.walk, q.i + 1), n)
  PROVE  Known(F, Onward(q, n))
<1> DEFINE nq == Onward(q, n)
<1>1. /\ nq.pc = "walk" /\ nq.call = q.call /\ nq.node = q.node /\ nq.up = q.up
      /\ nq.walk = q.walk /\ nq.i = q.i + 1 /\ nq.at = n /\ nq.todo = q.todo
  BY DEF Onward, Request
<1>2. nq.again = q.again
  BY DEF Onward, Request
<1> HIDE DEF nq
<1>4. Known(F, nq)
  BY <1>1, <1>2 DEF Known
<1> QED BY <1>4 DEF nq

LEMMA KnownStage ==
  ASSUME NEW q \in Request, NEW F, Known(F, q),
         q.pc \in {"walk", "child", "ask", "keep", "got"},
         NEW s \in {"child", "ask", "keep", "got"}, NEW n,
         s \in {"keep", "got"} => <<q.at, q.walk[q.i + 1], n>> \in F
  PROVE  /\ Known(F, [q EXCEPT !.pc = s, !.got = n])
         /\ n = q.got => Known(F, [q EXCEPT !.pc = s])
<1>0. ASSUME NEW nq, nq.pc = s, nq.call = q.call, nq.node = q.node, nq.up = q.up,
             nq.walk = q.walk, nq.i = q.i, nq.at = q.at, nq.todo = q.todo,
             nq.again = q.again, nq.got = n
      PROVE  Known(F, nq)
  BY <1>0 DEF Known
<1> DEFINE a == [q EXCEPT !.pc = s, !.got = n]
           b == [q EXCEPT !.pc = s]
<1>1. /\ a.pc = s /\ a.call = q.call /\ a.node = q.node /\ a.up = q.up
      /\ a.walk = q.walk /\ a.i = q.i /\ a.at = q.at /\ a.todo = q.todo /\ a.got = n
  BY DEF Request
<1>2. a.again = q.again
  BY DEF Request
<1>3. /\ b.pc = s /\ b.call = q.call /\ b.node = q.node /\ b.up = q.up
      /\ b.walk = q.walk /\ b.i = q.i /\ b.at = q.at /\ b.todo = q.todo /\ b.got = q.got
  BY DEF Request
<1>4. b.again = q.again
  BY DEF Request
<1> HIDE DEF a, b
<1>5. Known(F, a)
  BY <1>0, <1>1, <1>2
<1>6. n = q.got => Known(F, b)
  BY <1>0, <1>3, <1>4
<1> QED BY <1>5, <1>6 DEF a, b

LEMMA KnownKept ==
  ASSUME NEW q, NEW F, Known(F, q), NEW nq, nq.call = q.call, nq.node = q.node, nq.up = q.up,
         \/ nq.pc \in {"next", "act", "clear"}
         \/ nq.pc = "child" /\ nq.todo = <<>>
  PROVE  Known(F, nq)
BY DEF Known

LEMMA KnownNew ==
  ASSUME NEW F, NEW q, q.pc \in {"idle", "next"}, q.node = None, q.up = None
  PROVE  Known(F, q)
BY DEF Known

-----------------------------------------------------------------------------
(* Steps that change neither the server nor a cache.                       *)
LEMMA FactsKept ==
  ASSUME place' = place
  PROVE  Facts' = Facts
BY DEF Facts, Child, Alive

LEMMA QuietMemory ==
  ASSUME MemoryInv, ShapeInv', NEW r \in Requests, NEW q, Becomes(r, q),
         UNCHANGED <<Server, Caches>>,
         Trusted(tainted, q) => Known(seen[q.ticket], q)
  PROVE  MemoryInv'
<1>1. /\ seen' = seen /\ tainted' = tainted /\ pathCache' = pathCache
      /\ childCache' = childCache /\ Facts' = Facts
  BY FactsKept DEF Server, Caches
<1>2. CachesRemember'
  BY <1>1, CachesTell, CachesWillTell DEF MemoryInv
<1>3. \A x \in Requests : Trusted(tainted', req'[x]) => Known(seen'[req'[x].ticket], req'[x])
  <2> TAKE x \in Requests
  <2>1. req'[x] = IF x = r THEN q ELSE req[x]
    BY TypeParts DEF Becomes, MemoryInv, ShapeInv
  <2> QED BY <1>1, <2>1 DEF MemoryInv
<1> QED BY <1>1, <1>2, <1>3 DEF MemoryInv

LEMMA MemoryParts ==
  ASSUME MemoryInv, NEW r \in Requests
  PROVE  /\ ShapeInv /\ StoresOK /\ req[r] \in Request /\ Formed(req[r])
         /\ Trusted(tainted, req[r]) => Known(seen[req[r].ticket], req[r])
         /\ \A t \in Tickets : tainted[t] # TRUE =>
              PathsTold(seen[t], pathCache, t) /\ ChildrenTold(seen[t], childCache, t)
BY TypeParts, CachesTell DEF MemoryInv, ShapeInv

LEMMA FoundKeeps ==
  ASSUME NEW q \in Request, NEW n
  PROVE  Found(q, n).ticket = q.ticket /\ (Found(q, n).late = TRUE <=> q.late = TRUE)
<1>1. Found(q, n).ticket = q.ticket
  BY DEF Found, Request
<1>2. Found(q, n).late = q.late
  BY DEF Found, Request
<1> QED BY <1>1, <1>2

LEMMA WalkFromKeeps ==
  ASSUME NEW q \in Request, NEW p, NEW again
  PROVE  /\ WalkFrom(q, p, again).ticket = q.ticket
         /\ (WalkFrom(q, p, again).late = TRUE <=> q.late = TRUE)
<1>1. WalkFrom(q, p, again).ticket = q.ticket
  BY DEF WalkFrom, Request
<1>2. WalkFrom(q, p, again).late = q.late
  BY DEF WalkFrom, Request
<1> QED BY <1>1, <1>2

LEMMA OnwardKeeps ==
  ASSUME NEW q \in Request, NEW n
  PROVE  Onward(q, n).ticket = q.ticket /\ (Onward(q, n).late = TRUE <=> q.late = TRUE)
<1>1. Onward(q, n).ticket = q.ticket
  BY DEF Onward, Request
<1>2. Onward(q, n).late = q.late
  BY DEF Onward, Request
<1> QED BY <1>1, <1>2

LEMMA StageKeeps ==
  ASSUME NEW q \in Request, NEW s, NEW n
  PROVE  /\ [q EXCEPT !.pc = s, !.got = n].ticket = q.ticket
         /\ ([q EXCEPT !.pc = s, !.got = n].late = TRUE <=> q.late = TRUE)
         /\ [q EXCEPT !.pc = s].ticket = q.ticket
         /\ ([q EXCEPT !.pc = s].late = TRUE <=> q.late = TRUE)
<1>1. [q EXCEPT !.pc = s, !.got = n].ticket = q.ticket
  BY DEF Request
<1>2. [q EXCEPT !.pc = s, !.got = n].late = q.late
  BY DEF Request
<1>3. [q EXCEPT !.pc = s].ticket = q.ticket
  BY DEF Request
<1>4. [q EXCEPT !.pc = s].late = q.late
  BY DEF Request
<1> QED BY <1>1, <1>2, <1>3, <1>4

LEMMA PathHitMemory ==
  ASSUME MemoryInv, NEW r \in Requests, PathHit(r)
  PROVE  MemoryInv'
<1> DEFINE q == req[r]
           n == pathCache[<<q.ticket, Head(q.todo).path>>]
           nq == Found(q, n)
<1>1. /\ q \in Request /\ Formed(q) /\ q.pc = "next" /\ q.todo # <<>> /\ n # None
      /\ Becomes(r, nq) /\ UNCHANGED <<Server, Caches>>
  BY MemoryParts DEF PathHit
<1>2. Head(q.todo).path \in Paths /\ q.ticket \in Tickets
  BY <1>1, HeadIs DEF Formed
<1>3. ASSUME Trusted(tainted, nq)
      PROVE  Known(seen[nq.ticket], nq)
  <2>1. nq.ticket = q.ticket /\ Trusted(tainted, q)
    <3> HIDE DEF q
    <3>1. nq.ticket = q.ticket /\ (nq.late = TRUE <=> q.late = TRUE)
      BY <1>1, FoundKeeps
    <3> HIDE DEF nq
    <3> QED BY <1>1, <1>3, <3>1 DEF Trusted
  <2>2. Known(seen[q.ticket], q) /\ Answers(seen[q.ticket], Head(q.todo).path, n)
    BY <1>1, <1>2, <2>1, MemoryParts DEF PathsTold, Trusted
  <2> HIDE DEF q, n
  <2> QED BY <1>1, <2>1, <2>2, KnownFound
<1> HIDE DEF nq
<1> QED BY <1>1, <1>3, QuietMemory, PathHitShape DEF MemoryInv

LEMMA PathMissMemory ==
  ASSUME MemoryInv, NEW r \in Requests, PathMiss(r)
  PROVE  MemoryInv'
<1> DEFINE q == req[r]
           p == Head(q.todo).path
           nq == WalkFrom(q, p, FALSE)
<1>1. /\ q \in Request /\ Formed(q) /\ q.pc = "next" /\ q.todo # <<>>
      /\ Becomes(r, nq) /\ UNCHANGED <<Server, Caches>>
  BY MemoryParts DEF PathMiss
<1>2. p \in Paths
  BY <1>1, HeadIs
<1>3. ASSUME Trusted(tainted, nq)
      PROVE  Known(seen[nq.ticket], nq)
  <2>1. nq.ticket = q.ticket /\ Trusted(tainted, q)
    <3> HIDE DEF q, p
    <3>1. nq.ticket = q.ticket /\ (nq.late = TRUE <=> q.late = TRUE)
      BY <1>1, WalkFromKeeps
    <3> HIDE DEF nq
    <3> QED BY <1>1, <1>3, <3>1 DEF Trusted
  <2>2. Known(seen[q.ticket], q)
    BY <2>1, MemoryParts
  <2> HIDE DEF q
  <2> QED BY <1>1, <1>2, <2>1, <2>2, KnownWalk
<1> HIDE DEF nq
<1> QED BY <1>1, <1>3, QuietMemory, PathMissShape DEF MemoryInv

LEMMA SegmentHitMemory ==
  ASSUME MemoryInv, NEW r \in Requests, SegmentHit(r)
  PROVE  MemoryInv'
<1> DEFINE q == req[r]
           n == pathCache[<<q.ticket, Reached(q)>>]
           nq == Onward(q, n)
<1>1. /\ q \in Request /\ Formed(q) /\ q.pc = "walk" /\ q.i < Len(q.walk) /\ n # None
      /\ Becomes(r, nq) /\ UNCHANGED <<Server, Caches>>
  BY MemoryParts DEF SegmentHit
<1>2. Reached(q) \in Paths /\ q.ticket \in Tickets /\ q.todo # <<>>
  BY <1>1, Walking DEF Formed
<1>3. ASSUME Trusted(tainted, nq)
      PROVE  Known(seen[nq.ticket], nq)
  <2>1. nq.ticket = q.ticket /\ Trusted(tainted, q)
    <3> HIDE DEF q, n
    <3>1. nq.ticket = q.ticket /\ (nq.late = TRUE <=> q.late = TRUE)
      BY <1>1, OnwardKeeps
    <3> HIDE DEF nq
    <3> QED BY <1>1, <1>3, <3>1 DEF Trusted
  <2>2. Known(seen[q.ticket], q) /\ Answers(seen[q.ticket], Reached(q), n)
    BY <1>1, <1>2, <2>1, MemoryParts DEF PathsTold, Trusted
  <2> HIDE DEF q, n
  <2> QED BY <1>1, <1>2, <2>1, <2>2, KnownOnward DEF Reached
<1> HIDE DEF nq
<1> QED BY <1>1, <1>3, QuietMemory, SegmentHitShape DEF MemoryInv

LEMMA SegmentMissMemory ==
  ASSUME MemoryInv, NEW r \in Requests, SegmentMiss(r)
  PROVE  MemoryInv'
<1> DEFINE q == req[r]
           nq == [q EXCEPT !.pc = "child"]
<1>1. /\ q \in Request /\ Formed(q) /\ q.pc = "walk"
      /\ Becomes(r, nq) /\ UNCHANGED <<Server, Caches>>
  BY MemoryParts DEF SegmentMiss
<1>2. ASSUME Trusted(tainted, nq)
      PROVE  Known(seen[nq.ticket], nq)
  <2>1. nq.ticket = q.ticket /\ Trusted(tainted, q)
    <3> HIDE DEF q
    <3>1. nq.ticket = q.ticket /\ (nq.late = TRUE <=> q.late = TRUE)
      BY <1>1, StageKeeps
    <3> HIDE DEF nq
    <3> QED BY <1>1, <1>2, <3>1 DEF Trusted
  <2>2. Known(seen[q.ticket], q)
    BY <2>1, MemoryParts
  <2> HIDE DEF q
  <2> QED BY <1>1, <2>1, <2>2, KnownStage
<1> HIDE DEF nq
<1> QED BY <1>1, <1>2, QuietMemory, SegmentMissShape DEF MemoryInv

LEMMA ChildHitMemory ==
  ASSUME MemoryInv, NEW r \in Requests, ChildHit(r)
  PROVE  MemoryInv'
<1> DEFINE q == req[r]
           m == q.walk[q.i + 1]
           n == childCache[<<q.ticket, q.at, m>>]
           nq == [q EXCEPT !.pc = "got", !.got = n]
<1>1. /\ q \in Request /\ Formed(q) /\ q.pc = "child" /\ n # Unknown
      /\ Becomes(r, nq) /\ UNCHANGED <<Server, Caches>>
  BY MemoryParts DEF ChildHit, ChildKey
<1>2. q.at \in Nodes /\ m \in Names /\ q.ticket \in Tickets
  BY <1>1, Walking DEF Formed
<1>3. ASSUME Trusted(tainted, nq)
      PROVE  Known(seen[nq.ticket], nq)
  <2>1. nq.ticket = q.ticket /\ Trusted(tainted, q)
    <3> HIDE DEF q, n
    <3>1. nq.ticket = q.ticket /\ (nq.late = TRUE <=> q.late = TRUE)
      BY <1>1, StageKeeps
    <3> HIDE DEF nq
    <3> QED BY <1>1, <1>3, <3>1 DEF Trusted
  <2>2. Known(seen[q.ticket], q) /\ <<q.at, m, n>> \in seen[q.ticket]
    BY <1>1, <1>2, <2>1, MemoryParts DEF ChildrenTold, Trusted
  <2> HIDE DEF q, n
  <2> QED BY <1>1, <2>1, <2>2, KnownStage
<1> HIDE DEF nq
<1> QED BY <1>1, <1>3, QuietMemory, ChildHitShape DEF MemoryInv

LEMMA ChildMissMemory ==
  ASSUME MemoryInv, NEW r \in Requests, ChildMiss(r)
  PROVE  MemoryInv'
<1> DEFINE q == req[r]
           nq == [q EXCEPT !.pc = "ask"]
<1>1. /\ q \in Request /\ Formed(q) /\ q.pc = "child"
      /\ Becomes(r, nq) /\ UNCHANGED <<Server, Caches>>
  BY MemoryParts DEF ChildMiss
<1>2. ASSUME Trusted(tainted, nq)
      PROVE  Known(seen[nq.ticket], nq)
  <2>1. nq.ticket = q.ticket /\ Trusted(tainted, q)
    <3> HIDE DEF q
    <3>1. nq.ticket = q.ticket /\ (nq.late = TRUE <=> q.late = TRUE)
      BY <1>1, StageKeeps
    <3> HIDE DEF nq
    <3> QED BY <1>1, <1>2, <3>1 DEF Trusted
  <2>2. Known(seen[q.ticket], q)
    BY <2>1, MemoryParts
  <2> HIDE DEF q
  <2> QED BY <1>1, <2>1, <2>2, KnownStage
<1> HIDE DEF nq
<1> QED BY <1>1, <1>2, QuietMemory, ChildMissShape DEF MemoryInv

LEMMA AskMemory ==
  ASSUME MemoryInv, NEW r \in Requests, Ask(r)
  PROVE  MemoryInv'
<1> DEFINE q == req[r]
           m == q.walk[q.i + 1]
           n == Child(q.at, m)
           s == IF Childless(q.at) THEN "got" ELSE "keep"
           nq == [q EXCEPT !.pc = s, !.got = n]
<1>1. /\ q \in Request /\ Formed(q) /\ q.pc = "ask" /\ Alive(q.at)
      /\ Becomes(r, nq) /\ UNCHANGED <<Server, Caches>> /\ s \in {"got", "keep"}
  BY MemoryParts DEF Ask
<1>2. q.at \in Nodes /\ m \in Names /\ q.ticket \in Tickets
  BY <1>1, Walking DEF Formed
<1>3. <<q.at, m, n>> \in seen[q.ticket]
  BY <1>1, <1>2 DEF MemoryInv, Facts
<1>4. ASSUME Trusted(tainted, nq)
      PROVE  Known(seen[nq.ticket], nq)
  <2> HIDE DEF s, n
  <2>1. nq.ticket = q.ticket /\ Trusted(tainted, q)
    <3> HIDE DEF q
    <3>1. nq.ticket = q.ticket /\ (nq.late = TRUE <=> q.late = TRUE)
      BY <1>1, StageKeeps
    <3> HIDE DEF nq
    <3> QED BY <1>1, <1>4, <3>1 DEF Trusted
  <2>2. Known(seen[q.ticket], q)
    BY <2>1, MemoryParts
  <2> HIDE DEF q
  <2> QED BY <1>1, <1>3, <2>1, <2>2, KnownStage
<1> HIDE DEF nq
<1> QED BY <1>1, <1>4, QuietMemory, AskShape DEF MemoryInv

LEMMA NoChildMemory ==
  ASSUME MemoryInv, NEW r \in Requests, NoChild(r)
  PROVE  MemoryInv'
<1> DEFINE q == req[r]
<1>1. /\ q \in Request /\ Formed(q) /\ q.pc = "got" /\ q.todo # <<>>
      /\ UNCHANGED <<Server, Caches>> /\ ShapeInv'
  BY MemoryParts, NoChildShape DEF NoChild
<1>2. CASE q.again # TRUE /\ Len(q.walk) > 1
  <2> DEFINE nq == WalkFrom(q, Rest(q.walk), TRUE)
  <2>1. Becomes(r, nq)
    BY <1>2 DEF NoChild
  <2>2. ASSUME Trusted(tainted, nq)
        PROVE  Known(seen[nq.ticket], nq)
    <3>1. nq.ticket = q.ticket /\ Trusted(tainted, q)
      <4> HIDE DEF q
      <4>1. nq.ticket = q.ticket /\ (nq.late = TRUE <=> q.late = TRUE)
        BY <1>1, WalkFromKeeps
      <4> HIDE DEF nq
      <4> QED BY <1>1, <2>2, <4>1 DEF Trusted
    <3>2. Known(seen[q.ticket], q)
      BY <3>1, MemoryParts
    <3> HIDE DEF q
    <3>3. q.walk = Head(q.todo).path /\ q.walk \in Paths
      BY <1>1, <1>2, <3>2, Walking DEF Known
    <3>4. Rest(q.walk) \in Paths
      BY <1>2, <3>3, RestIsPath
    <3> QED BY <1>1, <1>2, <3>1, <3>2, <3>3, <3>4, KnownWalk
  <2> HIDE DEF nq
  <2> QED BY <1>1, <2>1, <2>2, QuietMemory
<1>3. CASE ~(q.again # TRUE /\ Len(q.walk) > 1) /\ Becomes(r, Idle)
  <2>1. ~Trusted(tainted, Idle)
    BY DEF Trusted, Idle
  <2> QED BY <1>1, <1>3, <2>1, QuietMemory
<1>4. CASE ~(q.again # TRUE /\ Len(q.walk) > 1) /\ Becomes(r, Found(q, None))
  <2> DEFINE nq == Found(q, None)
  <2>2. ASSUME Trusted(tainted, nq)
        PROVE  Known(seen[nq.ticket], nq)
    <3>1. nq.ticket = q.ticket /\ Trusted(tainted, q)
      <4> HIDE DEF q
      <4>1. nq.ticket = q.ticket /\ (nq.late = TRUE <=> q.late = TRUE)
        BY <1>1, FoundKeeps
      <4> HIDE DEF nq
      <4> QED BY <1>1, <2>2, <4>1 DEF Trusted
    <3>2. Known(seen[q.ticket], q)
      BY <3>1, MemoryParts
    <3> HIDE DEF q
    <3> QED BY <1>1, <3>1, <3>2, KnownFound
  <2> HIDE DEF nq
  <2> QED BY <1>1, <1>4, <2>2, QuietMemory DEF nq
<1> QED BY <1>2, <1>3, <1>4 DEF NoChild

LEMMA GiveUpMemory ==
  ASSUME MemoryInv, NEW r \in Requests, GiveUp(r)
  PROVE  MemoryInv'
<1> DEFINE q == req[r]
           nq == Found(q, None)
<1>1. /\ q \in Request /\ Formed(q) /\ q.pc = "ask" /\ q.todo # <<>>
      /\ Becomes(r, nq) /\ UNCHANGED <<Server, Caches>>
  BY MemoryParts DEF GiveUp
<1>2. ASSUME Trusted(tainted, nq)
      PROVE  Known(seen[nq.ticket], nq)
  <2>1. nq.ticket = q.ticket /\ Trusted(tainted, q)
    <3> HIDE DEF q
    <3>1. nq.ticket = q.ticket /\ (nq.late = TRUE <=> q.late = TRUE)
      BY <1>1, FoundKeeps
    <3> HIDE DEF nq
    <3> QED BY <1>1, <1>2, <3>1 DEF Trusted
  <2>2. Known(seen[q.ticket], q)
    BY <2>1, MemoryParts
  <2> HIDE DEF q
  <2> QED BY <1>1, <2>1, <2>2, KnownFound
<1> HIDE DEF nq
<1> QED BY <1>1, <1>2, QuietMemory, GiveUpShape DEF MemoryInv

-----------------------------------------------------------------------------
(* Steps that store.                                                       *)
LEMMA StoredTaints ==
  ASSUME MemoryInv, NEW r \in Requests, req[r].ticket \in Tickets, req[r].pc # "idle",
         Stored(r), NEW t \in Tickets, tainted'[t] # TRUE
  PROVE  /\ tainted[t] # TRUE
         /\ t = req[r].ticket => Trusted(tainted, req[r])
<1>1. tainted \in [Tickets -> BOOLEAN] /\ req[r].late \in BOOLEAN
  BY MemoryParts DEF StoresOK, Request
<1>2. t # req[r].ticket => tainted'[t] = tainted[t]
  BY <1>1 DEF Stored
<1>3. t = req[r].ticket => tainted'[t] = (tainted[t] \/ req[r].late)
  BY <1>1 DEF Stored
<1>4. t = req[r].ticket => tainted[t] # TRUE /\ req[r].late # TRUE
  BY <1>1, <1>3
<1> QED BY <1>2, <1>4 DEF Trusted

LEMMA PathStored ==
  ASSUME MemoryInv, NEW r \in Requests, req[r].ticket \in Tickets, req[r].pc # "idle",
         Stored(r), UNCHANGED <<seen, childCache>>, NEW p \in Paths, NEW n \in Nodes,
         pathCache' \in CacheSet(pathCache, None, <<req[r].ticket, p>>, n),
         Trusted(tainted, req[r]) => Answers(seen[req[r].ticket], p, n)
  PROVE  CachesRemember'
<1> SUFFICES ASSUME NEW t \in Tickets, tainted'[t] # TRUE
             PROVE  PathsTold(seen'[t], pathCache', t) /\ ChildrenTold(seen'[t], childCache', t)
  BY CachesWillTell
<1>1. tainted[t] # TRUE /\ (t = req[r].ticket => Trusted(tainted, req[r]))
  BY StoredTaints
<1>2. PathsTold(seen[t], pathCache, t) /\ ChildrenTold(seen[t], childCache, t)
  BY <1>1, MemoryParts
<1>3. \A k \in Tickets \X Paths :
        pathCache'[k] \in {pathCache[k], None} \/ (k = <<req[r].ticket, p>> /\ pathCache'[k] = n)
  BY PathSetIs, MemoryParts
<1>4. ASSUME NEW x \in Paths, pathCache'[<<t, x>>] # None
      PROVE  Answers(seen[t], x, pathCache'[<<t, x>>])
  <2>1. CASE pathCache'[<<t, x>>] = pathCache[<<t, x>>]
    BY <1>2, <1>4, <2>1 DEF PathsTold
  <2>2. CASE t = req[r].ticket /\ x = p /\ pathCache'[<<t, x>>] = n
    BY <1>1, <2>2
  <2> QED BY <1>3, <1>4, <2>1, <2>2
<1> QED BY <1>2, <1>4 DEF PathsTold

LEMMA ChildStored ==
  ASSUME MemoryInv, NEW r \in Requests, req[r].ticket \in Tickets, req[r].pc # "idle",
         Stored(r), UNCHANGED <<seen, pathCache>>, NEW u \in Nodes, NEW m \in Names,
         NEW n \in Nodes \cup {None},
         childCache' \in CacheSet(childCache, Unknown, <<req[r].ticket, u, m>>, n),
         Trusted(tainted, req[r]) => <<u, m, n>> \in seen[req[r].ticket]
  PROVE  CachesRemember'
<1> SUFFICES ASSUME NEW t \in Tickets, tainted'[t] # TRUE
             PROVE  PathsTold(seen'[t], pathCache', t) /\ ChildrenTold(seen'[t], childCache', t)
  BY CachesWillTell
<1>1. tainted[t] # TRUE /\ (t = req[r].ticket => Trusted(tainted, req[r]))
  BY StoredTaints
<1>2. PathsTold(seen[t], pathCache, t) /\ ChildrenTold(seen[t], childCache, t)
  BY <1>1, MemoryParts
<1> DEFINE key == <<req[r].ticket, u, m>>
<1>a. key \in Tickets \X Nodes \X Names
  OBVIOUS
<1>b. childCache' \in CacheSet(childCache, Unknown, key, n)
  OBVIOUS
<1>3. \A k \in Tickets \X Nodes \X Names :
        childCache'[k] \in {childCache[k], Unknown} \/ (k = key /\ childCache'[k] = n)
  <2> HIDE DEF key
  <2> QED BY <1>a, <1>b, ChildSetIs, MemoryParts
<1>4. ASSUME NEW v \in Nodes, NEW x \in Names, childCache'[<<t, v, x>>] # Unknown
      PROVE  <<v, x, childCache'[<<t, v, x>>]>> \in seen[t]
  <2>1. CASE childCache'[<<t, v, x>>] = childCache[<<t, v, x>>]
    BY <1>2, <1>4, <2>1 DEF ChildrenTold
  <2>2. CASE t = req[r].ticket /\ v = u /\ x = m /\ childCache'[<<t, v, x>>] = n
    BY <1>1, <2>2
  <2> QED BY <1>3, <1>4, <2>1, <2>2
<1> QED BY <1>2, <1>4 DEF ChildrenTold

LEMMA StoreMemory ==
  ASSUME MemoryInv, ShapeInv', CachesRemember', NEW r \in Requests, NEW q, Becomes(r, q),
         Stored(r), UNCHANGED Server, req[r].ticket \in Tickets, req[r].pc # "idle",
         q.ticket = req[r].ticket,
         Trusted(tainted, req[r]) => Known(seen[q.ticket], q)
  PROVE  MemoryInv'
<1>1. seen' = seen /\ Facts' = Facts
  BY FactsKept DEF Server
<1>2. \A x \in Requests : Trusted(tainted', req'[x]) => Known(seen'[req'[x].ticket], req'[x])
  <2> SUFFICES ASSUME NEW x \in Requests, Trusted(tainted', req'[x])
               PROVE  Known(seen'[req'[x].ticket], req'[x])
    OBVIOUS
  <2>1. req'[x] = IF x = r THEN q ELSE req[x]
    BY TypeParts DEF Becomes, MemoryInv, ShapeInv
  <2>2. CASE x = r
    BY <1>1, <2>1, <2>2, StoredTaints DEF Trusted
  <2>3. CASE x # r
    <3>1. req[x].ticket \in Tickets /\ req'[x] = req[x]
      BY <2>1, <2>3, MemoryParts DEF Trusted, Formed
    <3>2. Trusted(tainted, req[x])
      BY <3>1, StoredTaints DEF Trusted
    <3> QED BY <1>1, <3>1, <3>2, MemoryParts
  <2> QED BY <2>2, <2>3
<1> QED BY <1>1, <1>2 DEF MemoryInv

LEMMA KeepChildMemory ==
  ASSUME MemoryInv, NEW r \in Requests, KeepChild(r)
  PROVE  MemoryInv'
<1> DEFINE q == req[r]
           m == q.walk[q.i + 1]
           nq == [q EXCEPT !.pc = "got"]
<1>1. /\ q \in Request /\ Formed(q) /\ q.pc = "keep" /\ ShapeInv'
      /\ Becomes(r, nq) /\ Stored(r) /\ UNCHANGED Server /\ UNCHANGED <<seen, pathCache>>
      /\ childCache' \in CacheSet(childCache, Unknown, <<q.ticket, q.at, m>>, q.got)
  BY MemoryParts, KeepChildShape DEF KeepChild, ChildKey, Server
<1>2. q.at \in Nodes /\ m \in Names /\ q.ticket \in Tickets /\ q.got \in Nodes \cup {None}
  BY <1>1, Walking DEF Formed, Request
<1>3. Trusted(tainted, q) => Known(seen[q.ticket], q) /\ <<q.at, m, q.got>> \in seen[q.ticket]
  BY <1>1, MemoryParts DEF Known
<1>4. CachesRemember'
  BY <1>1, <1>2, <1>3, ChildStored
<1>5. nq.ticket = q.ticket
  BY <1>1, StageKeeps
<1>6. Trusted(tainted, q) => Known(seen[q.ticket], nq)
  <2> HIDE DEF q
  <2> QED BY <1>1, <1>3, KnownStage
<1> HIDE DEF nq
<1> QED BY <1>1, <1>2, <1>4, <1>5, <1>6, StoreMemory

LEMMA KeepSegmentMemory ==
  ASSUME MemoryInv, NEW r \in Requests, KeepSegment(r)
  PROVE  MemoryInv'
<1> DEFINE q == req[r]
           nq == Onward(q, q.got)
<1>1. /\ q \in Request /\ Formed(q) /\ q.pc = "got" /\ q.todo # <<>> /\ q.got # None /\ ShapeInv'
      /\ Becomes(r, nq) /\ Stored(r) /\ UNCHANGED Server /\ UNCHANGED <<seen, childCache>>
      /\ pathCache' \in CacheSet(pathCache, None, <<q.ticket, Reached(q)>>, q.got)
  BY MemoryParts, KeepSegmentShape DEF KeepSegment, Server
<1>2. q.i < Len(q.walk) /\ q.got \in Nodes
  BY <1>1 DEF Formed, Request
<1>3. Reached(q) \in Paths /\ q.ticket \in Tickets /\ q.walk \in Paths
      /\ q.i \in 0..(Len(q.walk) - 1)
  BY <1>1, <1>2, Walking, PathIsSeq
<1>4. Trusted(tainted, q) => Known(seen[q.ticket], q) /\ Answers(seen[q.ticket], Reached(q), q.got)
  <2> HAVE Trusted(tainted, q)
  <2>1. Known(seen[q.ticket], q)
    BY MemoryParts
  <2> HIDE DEF q
  <2> QED BY <1>1, <1>2, <1>3, <2>1, AnswersOnward DEF Known, Reached
<1>5. CachesRemember'
  BY <1>1, <1>2, <1>3, <1>4, PathStored
<1>6. nq.ticket = q.ticket
  BY <1>1, OnwardKeeps
<1>7. Trusted(tainted, q) => Known(seen[q.ticket], nq)
  <2> HIDE DEF q
  <2> QED BY <1>1, <1>4, KnownOnward DEF Reached
<1> HIDE DEF nq
<1> QED BY <1>1, <1>3, <1>5, <1>6, <1>7, StoreMemory

LEMMA KeepPathMemory ==
  ASSUME MemoryInv, NEW r \in Requests, KeepPath(r)
  PROVE  MemoryInv'
<1> DEFINE q == req[r]
           p == Head(q.todo).path
           nq == Found(q, q.at)
<1>1. /\ q \in Request /\ Formed(q) /\ q.pc = "walk" /\ q.i = Len(q.walk) /\ ShapeInv'
      /\ Becomes(r, nq) /\ Stored(r) /\ UNCHANGED Server /\ UNCHANGED <<seen, childCache>>
      /\ pathCache' \in CacheSet(pathCache, None, <<q.ticket, p>>, q.at)
  BY MemoryParts, KeepPathShape DEF KeepPath, Server
<1>2. q.todo # <<>> /\ q.at \in Nodes /\ q.ticket \in Tickets /\ q.walk \in Paths
  BY <1>1, Walking DEF Formed
<1>3. p \in Paths
  BY <1>1, <1>2, HeadIs
<1>4. Trusted(tainted, q) => Known(seen[q.ticket], q) /\ Answers(seen[q.ticket], p, q.at)
  <2> HAVE Trusted(tainted, q)
  <2>1. Known(seen[q.ticket], q)
    BY MemoryParts
  <2>2. Prefix(q.walk, q.i) = q.walk
    BY <1>1, <1>2, PrefixIsPath, PathIsSeq
  <2> HIDE DEF q
  <2>3. Answers(seen[q.ticket], q.walk, q.at)
    BY <1>1, <1>2, <2>1, <2>2 DEF Known
  <2>4. q.walk = p \/ (Len(p) > 1 /\ q.walk = Rest(p))
    BY <1>1, <1>2, <2>1 DEF Known
  <2> HIDE DEF p
  <2>5. Answers(seen[q.ticket], p, q.at)
    BY <1>3, <2>3, <2>4, AnswersToRest
  <2> QED BY <2>1, <2>5
<1>5. CachesRemember'
  BY <1>1, <1>2, <1>3, <1>4, PathStored
<1>6. nq.ticket = q.ticket
  BY <1>1, FoundKeeps
<1>7. Trusted(tainted, q) => Known(seen[q.ticket], nq)
  <2> HIDE DEF q
  <2> QED BY <1>1, <1>2, <1>4, KnownFound
<1> HIDE DEF nq
<1> QED BY <1>1, <1>2, <1>5, <1>6, <1>7, StoreMemory

-----------------------------------------------------------------------------
(* From the lookups to the change, and back to the start.                  *)
LEMMA ReadyMemory ==
  ASSUME MemoryInv, NEW r \in Requests, Ready(r)
  PROVE  MemoryInv'
<1> DEFINE q == req[r]
           a == [q EXCEPT !.pc = "child", !.at = q.up, !.walk = <<Leaf(q.call.dst)>>]
           b == [q EXCEPT !.pc = "act"]
<1>1. /\ q \in Request /\ q.pc = "next" /\ q.todo = <<>> /\ UNCHANGED <<Server, Caches>>
      /\ Becomes(r, a) \/ Becomes(r, b)
  BY MemoryParts DEF Ready
<1> SUFFICES ASSUME NEW nq \in {a, b}, Becomes(r, nq)
             PROVE  MemoryInv'
  BY <1>1
<1>2. Trusted(tainted, q) => Known(seen[q.ticket], q)
  BY MemoryParts
<1> HIDE DEF q
<1>3. /\ nq.call = q.call /\ nq.node = q.node /\ nq.up = q.up /\ nq.ticket = q.ticket
      /\ nq.todo = <<>> /\ nq.pc \in {"child", "act"}
  BY <1>1 DEF Request
<1>4. nq.late = q.late
  BY <1>1 DEF Request
<1> HIDE DEF a, b
<1>5. ASSUME Trusted(tainted, nq)
      PROVE  Known(seen[nq.ticket], nq)
  <2>1. Known(seen[q.ticket], q)
    BY <1>1, <1>2, <1>3, <1>4, <1>5 DEF Trusted
  <2> QED BY <1>3, <2>1, KnownKept
<1> QED BY <1>1, <1>5, QuietMemory, ReadyShape DEF MemoryInv

LEMMA ReadyToUploadMemory ==
  ASSUME MemoryInv, NEW r \in Requests, ReadyToUpload(r)
  PROVE  MemoryInv'
<1> DEFINE q == req[r]
           nq == [q EXCEPT !.pc = "act"]
<1>1. q \in Request /\ q.pc = "got" /\ UNCHANGED <<Server, Caches>> /\ Becomes(r, nq)
  BY MemoryParts DEF ReadyToUpload
<1>2. Trusted(tainted, q) => Known(seen[q.ticket], q)
  BY MemoryParts
<1> HIDE DEF q
<1>3. /\ nq.call = q.call /\ nq.node = q.node /\ nq.up = q.up /\ nq.ticket = q.ticket
      /\ nq.pc = "act"
  BY <1>1 DEF Request
<1>4. nq.late = q.late
  BY <1>1 DEF Request
<1> HIDE DEF nq
<1>5. ASSUME Trusted(tainted, nq)
      PROVE  Known(seen[nq.ticket], nq)
  <2>1. Known(seen[q.ticket], q)
    BY <1>1, <1>2, <1>3, <1>4, <1>5 DEF Trusted
  <2> QED BY <1>3, <2>1, KnownKept
<1> QED BY <1>1, <1>5, QuietMemory, ReadyToUploadShape DEF MemoryInv

LEMMA BeginMemory ==
  ASSUME MemoryInv, NEW r \in Requests, NEW c \in Calls, NEW t \in Sessions, Begin(r, c, t)
  PROVE  MemoryInv'
<1> DEFINE nq == Starting(c, t)
<1>1. Becomes(r, nq) /\ UNCHANGED <<Server, Caches>> /\ ShapeInv'
  BY BeginShape DEF Begin, MemoryInv
<1>2. nq.pc = "next" /\ nq.node = None /\ nq.up = None
  BY StartingIs DEF Tickets
<1> HIDE DEF nq
<1> QED BY <1>1, <1>2, KnownNew, QuietMemory

LEMMA RenewMemory ==
  ASSUME MemoryInv, NEW r \in Requests, Renew(r)
  PROVE  MemoryInv'
<1>1. req[r] \in Request /\ Formed(req[r]) /\ req[r].pc \in {"ask", "act"}
  BY MemoryParts DEF Renew
<1>2. PICK t \in Tickets : Becomes(r, Again(req[r], t))
  BY DEF Renew, Tickets
<1> DEFINE nq == Again(req[r], t)
<1>3. nq.pc = "next" /\ nq.node = None /\ nq.up = None
  BY <1>1, AgainIs
<1>4. Becomes(r, nq) /\ UNCHANGED <<Server, Caches>> /\ ShapeInv'
  BY <1>2, RenewShape DEF Renew, MemoryInv
<1> HIDE DEF nq
<1> QED BY <1>3, <1>4, KnownNew, QuietMemory

LEMMA BackToIdleMemory ==
  ASSUME MemoryInv, NEW r \in Requests, Fail(r) \/ Read(r) \/ AskForVersion(r)
  PROVE  MemoryInv'
<1>1. Becomes(r, Idle) /\ UNCHANGED <<Server, Caches>> /\ ShapeInv'
  BY BackToIdleShape DEF Fail, Read, AskForVersion, MemoryInv
<1>2. ~Trusted(tainted, Idle)
  BY DEF Trusted, Idle
<1> QED BY <1>1, <1>2, QuietMemory

-----------------------------------------------------------------------------
(* Changes of the tree.                                                    *)
LEMMA EditMemory ==
  ASSUME MemoryInv, ShapeInv', NEW tree, Edited(tree), UNCHANGED Caches,
         \A x \in Requests : Trusted(tainted, req'[x]) =>
           req'[x].ticket \in Tickets /\ Known(seen[req'[x].ticket], req'[x])
  PROVE  MemoryInv'
<1>1. /\ pathCache' = pathCache /\ childCache' = childCache /\ tainted' = tainted
      /\ \A t \in Tickets : seen'[t] = seen[t] \cup Facts'
  BY DEF Caches, Edited
<1>2. CachesRemember'
  <2> SUFFICES ASSUME NEW t \in Tickets, tainted'[t] # TRUE
               PROVE  PathsTold(seen'[t], pathCache', t) /\ ChildrenTold(seen'[t], childCache', t)
    BY CachesWillTell
  <2>1. PathsTold(seen[t], pathCache, t) /\ ChildrenTold(seen[t], childCache, t)
    BY <1>1, CachesTell DEF MemoryInv
  <2>2. seen[t] \subseteq seen'[t]
    BY <1>1
  <2> QED BY <1>1, <2>1, <2>2, ToldMore
<1>3. \A x \in Requests : Trusted(tainted', req'[x]) => Known(seen'[req'[x].ticket], req'[x])
  <2> SUFFICES ASSUME NEW x \in Requests, Trusted(tainted', req'[x])
               PROVE  Known(seen'[req'[x].ticket], req'[x])
    OBVIOUS
  <2>1. req'[x].ticket \in Tickets /\ Known(seen[req'[x].ticket], req'[x])
    BY <1>1
  <2>2. seen[req'[x].ticket] \subseteq seen'[req'[x].ticket]
    BY <1>1, <2>1
  <2> QED BY <2>1, <2>2, KnownMore
<1>4. \A t \in Tickets : Facts' \subseteq seen'[t]
  BY <1>1
<1> QED BY <1>2, <1>3, <1>4 DEF MemoryInv

(* What the requests know when one of them has made its change.            *)
LEMMA DoneKnown ==
  ASSUME MemoryInv, NEW r \in Requests, req[r].pc = "act", Done(r), NEW x \in Requests,
         Trusted(tainted, req'[x])
  PROVE  req'[x].ticket \in Tickets /\ Known(seen[req'[x].ticket], req'[x])
<1> DEFINE q == req[r]
           e == [q EXCEPT !.acts = @ + 1]
           d == [e EXCEPT !.pc = "clear"]
<1>1. Becomes(r, d) \/ Becomes(r, Idle)
  BY Zenon DEF Done, AfterLost
<1>2. req \in [Requests -> Request]
  BY TypeParts DEF MemoryInv, ShapeInv
<1>3. CASE x # r
  <2>1. req'[x] = req[x]
    BY <1>1, <1>2, <1>3 DEF Becomes
  <2> QED BY <2>1, MemoryParts DEF Trusted, Formed
<1>4. CASE x = r /\ Becomes(r, Idle)
  <2>1. req'[x] = Idle
    BY <1>2, <1>4 DEF Becomes
  <2> QED BY <2>1 DEF Trusted, Idle
<1>5. CASE x = r /\ Becomes(r, d)
  <2>1. req'[x] = d
    BY <1>2, <1>5, Zenon DEF Becomes
  <2>2. q \in Request /\ Formed(q) /\ (Trusted(tainted, q) => Known(seen[q.ticket], q))
    BY MemoryParts
  <2>3. q.ticket \in Tickets /\ q.pc # "idle"
    BY <2>2 DEF Formed
  <2> HIDE DEF q
  <2>4. /\ d.call = q.call /\ d.node = q.node /\ d.up = q.up /\ d.ticket = q.ticket
        /\ d.pc = "clear"
    BY <2>2 DEF Request
  <2>5. d.late = q.late
    BY <2>2 DEF Request
  <2> HIDE DEF d
  <2>6. Known(seen[q.ticket], q)
    BY <2>1, <2>2, <2>3, <2>4, <2>5 DEF Trusted
  <2> QED BY <2>1, <2>3, <2>4, <2>6, KnownKept
<1> QED BY <1>1, <1>3, <1>4, <1>5

LEMMA ChangeMemory ==
  ASSUME MemoryInv, NEW r \in Requests, Delete(r) \/ Rename(r) \/ Create(r)
  PROVE  MemoryInv'
<1>1. req[r].pc = "act" /\ Done(r) /\ UNCHANGED Caches /\ ShapeInv'
  BY DeleteShape, RenameShape, CreateShape DEF Delete, Rename, Create, Acting, MemoryInv
<1>2. PICK tree : Edited(tree)
  BY DEF Delete, Rename, Create
<1> QED BY <1>1, <1>2, DoneKnown, EditMemory

LEMMA UpdateMemory ==
  ASSUME MemoryInv, NEW r \in Requests, Update(r)
  PROVE  MemoryInv'
<1>1. req[r].pc = "act" /\ Done(r) /\ UNCHANGED <<Server, Caches>> /\ ShapeInv'
  BY UpdateShape DEF Update, Acting, MemoryInv
<1>2. /\ seen' = seen /\ tainted' = tainted /\ pathCache' = pathCache
      /\ childCache' = childCache /\ Facts' = Facts
  BY <1>1, FactsKept DEF Server, Caches
<1>3. CachesRemember'
  BY <1>2, CachesTell, CachesWillTell DEF MemoryInv
<1>4. \A x \in Requests : Trusted(tainted', req'[x]) => Known(seen'[req'[x].ticket], req'[x])
  BY <1>1, <1>2, DoneKnown
<1> QED BY <1>1, <1>2, <1>3, <1>4 DEF MemoryInv

LEMMA OthersMemory ==
  ASSUME MemoryInv, Others
  PROVE  MemoryInv'
<1>1. UNCHANGED Caches /\ req' = req /\ ShapeInv'
  BY OthersShape DEF Others, MemoryInv
<1>2. PICK tree : Edited(tree)
  BY DEF Others
<1>3. \A x \in Requests : Trusted(tainted, req'[x]) =>
        req'[x].ticket \in Tickets /\ Known(seen[req'[x].ticket], req'[x])
  BY <1>1, MemoryParts DEF Trusted, Formed
<1> QED BY <1>1, <1>2, <1>3, EditMemory

-----------------------------------------------------------------------------
(* The caches of a ticket are emptied, and its other requests are late.    *)
LEMMA ClearMemory ==
  ASSUME MemoryInv, NEW r \in Requests, Clear(r)
  PROVE  MemoryInv'
<1> DEFINE t == req[r].ticket
<1>1. ShapeInv' /\ StoresOK /\ t \in Tickets
  BY ClearShape, MemoryParts DEF MemoryInv, Clear, Formed
<1>2. /\ Emptied(t) /\ seen' = [seen EXCEPT ![t] = Facts]
      /\ tainted' = [tainted EXCEPT ![t] = FALSE] /\ Facts' = Facts
  BY FactsKept DEF Clear
<1>3. \A s \in Tickets : s # t => seen'[s] = seen[s] /\ tainted'[s] = tainted[s]
  BY <1>1, <1>2 DEF StoresOK
<1>4. seen'[t] = Facts
  BY <1>1, <1>2 DEF StoresOK
<1>5. CachesRemember'
  <2> SUFFICES ASSUME NEW s \in Tickets, tainted'[s] # TRUE
               PROVE  PathsTold(seen'[s], pathCache', s) /\ ChildrenTold(seen'[s], childCache', s)
    BY CachesWillTell
  <2>1. \A p \in Paths :
          pathCache'[<<s, p>>] = IF s = t THEN None ELSE pathCache[<<s, p>>]
    BY <1>1, <1>2 DEF Emptied, StoresOK
  <2>2. \A u \in Nodes, m \in Names :
          childCache'[<<s, u, m>>] = IF s = t THEN Unknown ELSE childCache[<<s, u, m>>]
    BY <1>1, <1>2 DEF Emptied, StoresOK
  <2>3. CASE s = t
    BY <2>1, <2>2, <2>3 DEF PathsTold, ChildrenTold
  <2>4. CASE s # t
    BY <1>3, <2>1, <2>2, <2>4, MemoryParts DEF PathsTold, ChildrenTold
  <2> QED BY <2>3, <2>4
<1>6. \A x \in Requests : Trusted(tainted', req'[x]) => Known(seen'[req'[x].ticket], req'[x])
  <2> SUFFICES ASSUME NEW x \in Requests, Trusted(tainted', req'[x])
               PROVE  Known(seen'[req'[x].ticket], req'[x])
    OBVIOUS
  <2>1. x # r
    <3>1. x = r => req'[x] = Idle
      BY DEF Clear
    <3> QED BY <3>1 DEF Trusted, Idle
  <2> DEFINE q == req[x]
             d == [q EXCEPT !.late = @ \/ q.ticket = t]
  <2>2. req'[x] = d
    BY <2>1 DEF Clear
  <2>3. q \in Request /\ Formed(q) /\ (Trusted(tainted, q) => Known(seen[q.ticket], q))
    BY MemoryParts
  <2> HIDE DEF q
  <2>4. /\ d.pc = q.pc /\ d.call = q.call /\ d.node = q.node /\ d.up = q.up
        /\ d.ticket = q.ticket /\ d.todo = q.todo /\ d.walk = q.walk /\ d.i = q.i
        /\ d.at = q.at /\ d.got = q.got
    BY <2>3 DEF Request
  <2>5. d.again = q.again
    BY <2>3 DEF Request
  <2>6. d.late = (q.late \/ q.ticket = t)
    BY <2>3 DEF Request
  <2>7. q.late # TRUE /\ q.ticket # t
    BY <2>2, <2>3, <2>6 DEF Trusted, Request
  <2> HIDE DEF d
  <2>8. q.pc # "idle" /\ q.ticket \in Tickets
    BY <2>2, <2>3, <2>4 DEF Trusted, Formed
  <2>9. Known(seen[q.ticket], q) /\ seen'[q.ticket] = seen[q.ticket]
    BY <1>3, <2>2, <2>3, <2>4, <2>7, <2>8 DEF Trusted
  <2>10. Known(seen[q.ticket], d)
    BY <2>4, <2>5, <2>9 DEF Known
  <2> QED BY <2>2, <2>4, <2>9, <2>10
<1>7. \A s \in Tickets : Facts' \subseteq seen'[s]
  BY <1>2, <1>3, <1>4 DEF MemoryInv
<1> QED BY <1>1, <1>5, <1>6, <1>7 DEF MemoryInv

LEMMA InitMemory == Init => MemoryInv
<1> SUFFICES ASSUME Init PROVE MemoryInv
  OBVIOUS
<1>1. ShapeInv
  BY InitShape
<1>2. \A t \in Tickets : Facts \subseteq seen[t]
  BY DEF Init
<1>3. \A t \in Tickets : PathsTold(seen[t], pathCache, t) /\ ChildrenTold(seen[t], childCache, t)
  BY DEF Init, PathsTold, ChildrenTold
<1>4. \A r \in Requests : ~Trusted(tainted, req[r])
  BY DEF Init, Trusted, Idle
<1> QED BY <1>1, <1>2, <1>3, <1>4, CachesTell DEF MemoryInv

LEMMA StepMemory ==
  ASSUME MemoryInv, NEW r \in Requests, Step(r)
  PROVE  MemoryInv'
BY PathHitMemory, PathMissMemory, SegmentHitMemory, SegmentMissMemory, ChildHitMemory,
   ChildMissMemory, AskMemory, KeepChildMemory, KeepSegmentMemory, NoChildMemory,
   KeepPathMemory, ReadyMemory, ReadyToUploadMemory, RenewMemory, GiveUpMemory,
   BackToIdleMemory, ChangeMemory, UpdateMemory, ClearMemory DEF Step

LEMMA NextMemory == MemoryInv /\ [Next]_vars => MemoryInv'
<1> SUFFICES ASSUME MemoryInv, [Next]_vars PROVE MemoryInv'
  OBVIOUS
<1>1. CASE \E r \in Requests, c \in Calls, t \in Sessions : Begin(r, c, t)
  BY <1>1, BeginMemory
<1>2. CASE \E r \in Requests : Step(r)
  BY <1>2, StepMemory
<1>3. CASE Others
  BY <1>3, OthersMemory
<1>4. CASE UNCHANGED vars
  <2>1. ShapeInv'
    BY NextShape, <1>4 DEF MemoryInv
  <2>2. /\ seen' = seen /\ tainted' = tainted /\ pathCache' = pathCache
        /\ childCache' = childCache /\ Facts' = Facts /\ req' = req
    BY <1>4, FactsKept DEF vars
  <2>3. CachesRemember'
    BY <2>2, CachesTell, CachesWillTell DEF MemoryInv
  <2> QED BY <2>1, <2>2, <2>3 DEF MemoryInv
<1> QED BY <1>1, <1>2, <1>3, <1>4 DEF Next

(* The inductive invariant: the facts of now are among those seen, and     *)
(* what the caches and the requests hold was so by the facts seen since    *)
(* the ticket's caches were last emptied.                                  *)
THEOREM MemoryStays == Spec => []MemoryInv
BY InitMemory, NextMemory, PTL DEF Spec

(* _path_cache and _child_cache hold only what the server said since       *)
(* _invalidate_structure_cache last emptied them for the ticket, unless a  *)
(* request that began before that stored in them after.                    *)
THEOREM CachesRememberHolds == Spec => []CachesRemember
<1>1. MemoryInv => CachesRemember
  BY DEF MemoryInv
<1> QED BY <1>1, MemoryStays, PTL

(* A rename, delete, copy, make_dir or upload acts on a node its path led  *)
(* to at some time since its ticket's last change, and puts something into *)
(* a folder the parent of its path led to.                                 *)
THEOREM ActsWhereNamedHolds == Spec => ActsWhereNamed
<1> DEFINE A == \A r \in Requests :
                  LET q == req[r] IN
                  Acts(r) /\ req'[r] # q /\ ~q.late /\ ~tainted[q.ticket] =>
                    /\ q.node # None => Answers(seen[q.ticket], q.call.src, q.node)
                    /\ q.up # None =>
                         Answers(seen[q.ticket],
                                 Parent(IF q.call.op = "mkdir" THEN q.call.src ELSE q.call.dst),
                                 q.up)
<1>1. ASSUME MemoryInv PROVE A
  <2> SUFFICES ASSUME NEW r \in Requests, Acts(r), ~req[r].late, ~tainted[req[r].ticket]
               PROVE  /\ req[r].node # None =>
                           Answers(seen[req[r].ticket], req[r].call.src, req[r].node)
                      /\ req[r].up # None =>
                           Answers(seen[req[r].ticket], Folder(req[r].call), req[r].up)
    BY DEF Folder
  <2>1. Trusted(tainted, req[r])
    BY DEF Acts, Trusted
  <2> QED BY <1>1, <2>1, MemoryParts DEF Known
<1>2. MemoryInv /\ [Next]_vars => [A]_vars
  BY <1>1
<1> HIDE DEF A
<1>3. Spec => [][A]_vars
  BY <1>2, MemoryStays, PTL DEF Spec
<1> QED BY <1>3 DEF A, ActsWhereNamed
=============================================================================
