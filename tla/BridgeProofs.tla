----------------------------- MODULE BridgeProofs -----------------------------
(***************************************************************************)
(* Theorems about what MCBridge checks.  The functions without a state:    *)
(* what a run finds for small sets of arguments holds for all of them,     *)
(* whatever the names, the texts and the statuses are and however long the *)
(* lists.  And reading a folder page by page: FolderIsRead holds for       *)
(* folders of any length, pages of any size, any limit and any number of   *)
(* changes by others.                                                      *)
(*                                                                         *)
(* The strengthening of FolderIsRead, PagingInv, says where the query      *)
(* stands: page * Limit nodes were read, all of them full pages; what was  *)
(* in the folder from the start and now lies before that place was read;   *)
(* and a page that came before begins with a node that since moved no      *)
(* further than nodes were added.                                          *)
(***************************************************************************)
EXTENDS ShareUrl, ErrorRules, AuthRules, PathRules, ConfigFiles, EdocatPaging, InductionFacts

LEMMA MinIs ==
  ASSUME NEW S \in SUBSET Nat, NEW m \in S, \A y \in S : m <= y
  PROVE  Min(S) = m
<1>1. \A x \in S : (\A y \in S : x <= y) => x = m
  OBVIOUS
<1> QED BY <1>1 DEF Min

(* The first of a set of places, or 0.                                     *)
Earliest(I) == IF I # {} THEN Min(I) ELSE 0

LEMMA EarliestOfOne ==
  /\ \A k \in Nat : Earliest({k}) = k
  /\ Earliest({}) = 0
<1>1. ASSUME NEW k \in Nat PROVE Min({k}) = k
  BY MinIs
<1> QED BY <1>1 DEF Earliest

-----------------------------------------------------------------------------
(* Share links.                                                             *)

(* A function answers with a success, or with a failure and its code.      *)
Outcome(d) == d.ok = TRUE \/ (d.ok = FALSE /\ d = Failure(d.code))

LEMMA FailureOutcome ==
  ASSUME NEW c
  PROVE  Failure(c).ok = FALSE /\ Failure(c).code = c /\ Outcome(Failure(c))
BY DEF Failure, Outcome

LEMMA PlanOutcome ==
  ASSUME NEW q, NEW dest
  PROVE  Plan(q, dest).ok = TRUE /\ Outcome(Plan(q, dest))
BY DEF Plan, Outcome

LEMMA SharedOutcome ==
  ASSUME NEW q, NEW url
  PROVE  Outcome(Shared(q, url))
<1>1. CASE q.conn # "sharing"
  BY <1>1, FailureOutcome DEF Shared
<1>2. CASE q.conn = "sharing" /\ url = Broken
  BY <1>2, FailureOutcome DEF Shared
<1>3. CASE q.conn = "sharing" /\ url # Broken
  BY <1>3 DEF Shared, Outcome
<1> QED BY <1>1, <1>2, <1>3

LEMMA DestinationOutcome ==
  ASSUME NEW q, NEW rest, Outcome(rest)
  PROVE  Outcome(WithDestination(q, rest))
<1> DEFINE to == Shared(q, q.destShare)
<1>1. CASE Given(q.dest)
  BY <1>1, FailureOutcome, PlanOutcome DEF WithDestination, Unless
<1>2. CASE ~Given(q.dest) /\ Given(q.destShare)
  <2>1. WithDestination(q, rest) = IF ~to.ok THEN Failure(to.code) ELSE Plan(q, to.path)
    BY <1>2 DEF WithDestination, Unless
  <2> HIDE DEF to
  <2> QED BY <2>1, FailureOutcome, PlanOutcome
<1>3. CASE ~Given(q.dest) /\ ~Given(q.destShare)
  BY <1>3 DEF WithDestination
<1> QED BY <1>1, <1>2, <1>3

(* A request that passes the checks both functions make first.             *)
Passes(q) == ~Conflict(q) /\ Shared(q, q.share).ok /\ Override(q) # Blank

(* Both make these checks alike.                                           *)
LEMMA SameRefusals ==
  ASSUME NEW q, ~Passes(q)
  PROVE  Validate(q) = Execute(q)
<1>1. CASE Conflict(q)
  BY <1>1 DEF Validate, Execute, Unless
<1>2. CASE ~Conflict(q) /\ ~Shared(q, q.share).ok
  BY <1>2 DEF Validate, Execute, Unless
<1>3. CASE ~Conflict(q) /\ Shared(q, q.share).ok /\ Override(q) = Blank
  BY <1>3 DEF Validate, Execute, Unless
<1> QED BY <1>1, <1>2, <1>3 DEF Passes

(* Past them, what is left to check is the destination and a file name.    *)
LEMMA SameAnswers ==
  ASSUME NEW q \in ShareRequest, Passes(q), q.auth
  PROVE  \/ Validate(q) = Execute(q)
         \/ q.op = "upload" /\ ~q.file /\ ~Execute(q).ok /\ ~Validate(q).ok
<1> DEFINE dest == WithDestination(q, Failure("BAD_PATH"))
           file == WithDestination(q, Plan(q, Source(q)))
<1>1. Outcome(dest) /\ Outcome(file)
  BY DestinationOutcome, FailureOutcome, PlanOutcome
<1>2. Execute(q) = IF NeedsDestination(q) THEN dest
                   ELSE IF q.op = "upload" THEN Unless(~q.file, "BAD_PATH", file)
                   ELSE IF q.op \in Operations THEN Plan(q, Absent)
                   ELSE Failure("NOT_SUPPORTED")
  BY DEF Execute, Passes, Unless
<1> DEFINE plan == IF NeedsDestination(q) THEN dest
                   ELSE IF q.op = "upload" THEN file ELSE Plan(q, Absent)
<1>3. Validate(q) = Unless(q.op \notin Operations, "NOT_SUPPORTED",
                    Unless(~plan.ok, plan.code,
                    Unless(q.op = "upload" /\ ~q.file, "BAD_PATH", plan)))
  BY DEF Validate, Passes, Unless
<1> HIDE DEF dest, file
<1>4. CASE q.op \notin Operations
  BY <1>2, <1>3, <1>4 DEF NeedsDestination, Operations, Unless
<1>5. CASE NeedsDestination(q)
  BY <1>1, <1>2, <1>3, <1>5 DEF NeedsDestination, Operations, Unless, Outcome
<1>6. CASE q.op = "upload" /\ q.file
  BY <1>1, <1>2, <1>3, <1>6 DEF NeedsDestination, Operations, Unless, Outcome
<1>7. CASE q.op = "upload" /\ ~q.file
  <2>1. Execute(q) = Failure("BAD_PATH")
    BY <1>2, <1>7 DEF NeedsDestination, Unless
  <2>2. Validate(q) \in {Failure(file.code), Failure("BAD_PATH")}
    BY <1>3, <1>7 DEF NeedsDestination, Operations, Unless
  <2> QED BY <1>7, <2>1, <2>2, FailureOutcome
<1>8. CASE q.op \in Operations \ {"upload"} /\ ~NeedsDestination(q)
  BY <1>2, <1>3, <1>8, PlanOutcome DEF Unless
<1> QED BY <1>4, <1>5, <1>6, <1>7, <1>8

(* The dry run settles the override before it validates, and loses nothing.*)
LEMMA DryRunValidates ==
  ASSUME NEW q \in ShareRequest
  PROVE  DryRun(q) = Validate(q)
<1> DEFINE s == [q EXCEPT !.override = Override(q), !.legacy = Absent]
<1>1. CASE Conflict(q)
  BY <1>1 DEF DryRun, Validate, Unless
<1>2. CASE ~Conflict(q)
  <2>1. /\ s.conn = q.conn /\ s.share = q.share /\ s.op = q.op
        /\ s.destShare = q.destShare /\ s.dest = q.dest /\ s.file = q.file
        /\ s.override = Override(q) /\ s.legacy = Absent
    BY DEF ShareRequest
  <2> HIDE DEF s
  <2>2. ~Conflict(s) /\ Override(s) = Override(q)
    BY <2>1 DEF Conflict, Override, FirstOf, Given
  <2>3. \A url : Shared(s, url) = Shared(q, url)
    BY <2>1 DEF Shared
  <2>4. Source(s) = Source(q) /\ (NeedsDestination(s) <=> NeedsDestination(q))
    BY <2>1, <2>2, <2>3 DEF Source, NeedsDestination
  <2>5. \A d : Plan(s, d) = Plan(q, d)
    BY <2>1, <2>2, <2>4 DEF Plan
  <2>6. \A rest : WithDestination(s, rest) = WithDestination(q, rest)
    BY <2>1, <2>3, <2>5 DEF WithDestination
  <2>7. Validate(s) = Validate(q)
    BY <1>2, <2>1, <2>2, <2>3, <2>4, <2>5, <2>6 DEF Validate, Unless
  <2> QED BY <1>2, <2>7 DEF DryRun, Unless, s
<1> QED BY <1>1, <1>2

LEMMA NothingWithoutCredentials ==
  ASSUME NEW q, ~q.auth
  PROVE  ~Execute(q).ok
BY FailureOutcome DEF Execute, Unless

(* Whatever the paths and the request: a validation and a dry run tell what*)
(* the execution will do.                                                  *)
THEOREM DryRunsTell ==
  ASSUME Asks("share") => call.request \in ShareRequest
  PROVE  DryRunTells
BY SameRefusals, SameAnswers, DryRunValidates, NothingWithoutCredentials DEF DryRunTells

-----------------------------------------------------------------------------
(* Errors.                                                                 *)

Raisable == [class : STRING, status : Nat]

(* The place of the case that decides about a class, or 0.                 *)
Fitting(class) == {i \in 1..Len(Cases) : Cases[i][1] \in Bases(class)}
Deciding(class) == Earliest(Fitting(class))

LEMMA CaseOf ==
  ASSUME NEW class
  PROVE  Deciding(class) =
           CASE class = "auth" -> 1 [] class = "notfound" -> 2 [] class = "version" -> 3
             [] class = "operation" -> 4 [] class = "precheck" -> 5
             [] class = "value" -> 6 [] OTHER -> 0
<1> DEFINE I == Fitting(class)
<1>2. Bases(class) = CASE class = "version"  -> {"version", "operation"}
                       [] class = "precheck" -> {"precheck", "value"}
                       [] OTHER              -> {class}
  BY DEF Bases
<1>3. /\ Len(Cases) = 6
      /\ Cases[1][1] = "auth" /\ Cases[2][1] = "notfound" /\ Cases[3][1] = "version"
      /\ Cases[4][1] = "operation" /\ Cases[5][1] = "precheck" /\ Cases[6][1] = "value"
  BY DEF Cases
<1>4. /\ class = "auth" => I = {1}
      /\ class = "notfound" => I = {2}
      /\ class = "version" => I = {3, 4}
      /\ class = "operation" => I = {4}
      /\ class = "precheck" => I = {5, 6}
      /\ class = "value" => I = {6}
      /\ class \notin {"auth", "notfound", "version", "operation", "precheck", "value"} => I = {}
  BY <1>2, <1>3 DEF Fitting
<1>5. \A i \in 1..6 : Min({i}) = i
  <2> SUFFICES ASSUME NEW i \in 1..6 PROVE Min({i}) = i
    OBVIOUS
  <2> QED BY MinIs
<1>6. Min({3, 4}) = 3 /\ Min({5, 6}) = 5
  BY MinIs
<1> HIDE DEF I
<1>7. Deciding(class) = IF I # {} THEN Min(I) ELSE 0
  BY DEF Deciding, Earliest, I
<1> QED BY <1>4, <1>5, <1>6, <1>7

LEMMA NearestStatus ==
  ASSUME NEW chain \in Seq(Raisable),
         NEW nearest, nearest = {k \in DOMAIN chain : /\ chain[k].status > 0
                                                      /\ \A j \in 1..(k - 1) : chain[j].status = 0}
  PROVE  /\ \A k \in nearest : UpstreamStatus(chain) = chain[k].status /\ chain[k].status > 0
         /\ nearest = {} => UpstreamStatus(chain) = 0
<1> DEFINE I == {i \in 1..Len(chain) : chain[i].status > 0}
           s == IF I # {} THEN Min(I) ELSE 0
<1>1. UpstreamStatus(chain) = IF s = 0 THEN 0 ELSE chain[s].status
  BY DEF UpstreamStatus, SelectInSeq
<1>2. I \in SUBSET Nat /\ DOMAIN chain = 1..Len(chain) /\ 0 \notin I
  OBVIOUS
<1>3. ASSUME NEW k \in nearest
      PROVE  s = k /\ k # 0 /\ chain[k].status > 0
  <2>1. k \in I /\ k \in Nat /\ k # 0
    BY <1>2
  <2>2. \A y \in I : k <= y
    <3> SUFFICES ASSUME NEW y \in I, y < k PROVE FALSE
      BY <1>2, <2>1
    <3>1. y \in 1..(k - 1)
      BY <1>2, <2>1
    <3> QED BY <3>1
  <2>3. Min(I) = k
    <3> HIDE DEF I
    <3> QED BY <1>2, <2>1, <2>2, MinIs
  <2> QED BY <2>1, <2>3
<1>4. ASSUME nearest = {}
      PROVE  I = {}
  <2> SUFFICES ASSUME I # {} PROVE FALSE
    OBVIOUS
  <2>1. PICK x \in I : \A y \in I : x <= y
    <3> HIDE DEF I
    <3> QED BY <1>2, LeastNumber
  <2>2. \A j \in 1..(x - 1) : chain[j].status = 0
    <3> SUFFICES ASSUME NEW j \in 1..(x - 1), chain[j].status # 0 PROVE FALSE
      OBVIOUS
    <3>1. j \in 1..Len(chain) /\ j < x
      OBVIOUS
    <3>2. chain[j] \in Raisable
      BY <3>1
    <3>3. chain[j].status > 0
      BY <3>2 DEF Raisable
    <3>4. j \in I
      BY <3>1, <3>3
    <3> QED BY <2>1, <3>1, <3>4
  <2>3. x \in nearest
    BY <1>2, <2>2
  <2> QED BY <1>4, <2>3
<1> HIDE DEF I
<1> QED BY <1>1, <1>3, <1>4

(* Whatever is raised, however long the chain of its causes and whatever   *)
(* their status: the client is told what kind of failure it was, and a stat*)
(* the status nearest to it.                                               *)
THEOREM FailuresAreTold ==
  ASSUME Asks("error") => call.chain \in Seq(Raisable) /\ call.chain # <<>>
  PROVE  FailuresKeepMeaning
<1> SUFFICES ASSUME Asks("error")
    PROVE LET chain   == call.chain
              class   == Head(chain).class
              nearest == {k \in DOMAIN chain : /\ chain[k].status > 0
                                               /\ \A j \in 1..(k - 1) : chain[j].status = 0}
              told    == HttpStatus(chain, call.op)
          IN
          /\ Code(chain) = "ACCESS_DENIED" <=> class \in {"auth", "version"}
          /\ Code(chain) = "BAD_PATH" <=> class = "value"
          /\ Code(chain) = "NOT_SUPPORTED" <=> class = "notfound"
          /\ call.op # "stat" => told = 200
          /\ call.op = "stat" /\ class \in {"auth", "operation"} =>
               \A k \in nearest : told = chain[k].status
          /\ class = "version" \/ nearest = {} => told = 200
  BY DEF FailuresKeepMeaning
<1> DEFINE chain   == call.chain
           class   == Head(chain).class
           nearest == {k \in DOMAIN chain : /\ chain[k].status > 0
                                            /\ \A j \in 1..(k - 1) : chain[j].status = 0}
           told    == HttpStatus(chain, call.op)
           k == Deciding(class)
<1>1. k = CASE class = "auth" -> 1 [] class = "notfound" -> 2 [] class = "version" -> 3
            [] class = "operation" -> 4 [] class = "precheck" -> 5
            [] class = "value" -> 6 [] OTHER -> 0
  BY CaseOf
<1>2. Code(chain) = IF k = 0 THEN "INTERNAL_ERROR" ELSE Cases[k][2]
  BY DEF Code, SelectInSeq, Deciding, Earliest, Fitting
<1>3. PassesStatus(chain) <=> k # 0 /\ Cases[k][1] \in {"auth", "operation"}
  BY DEF PassesStatus, SelectInSeq, Deciding, Earliest, Fitting
<1>4. /\ \A i \in nearest : UpstreamStatus(chain) = chain[i].status /\ chain[i].status > 0
      /\ nearest = {} => UpstreamStatus(chain) = 0
  <2>1. chain \in Seq(Raisable)
    OBVIOUS
  <2> HIDE DEF chain
  <2>2. nearest = {i \in DOMAIN chain : /\ chain[i].status > 0
                                        /\ \A j \in 1..(i - 1) : chain[j].status = 0}
    OBVIOUS
  <2> HIDE DEF nearest
  <2> QED BY <2>1, <2>2, NearestStatus
<1>5. told = IF call.op = "stat" /\ PassesStatus(chain) /\ UpstreamStatus(chain) > 0
             THEN UpstreamStatus(chain) ELSE 200
  BY DEF HttpStatus
<1> HIDE DEF k, nearest, told, class, chain
<1>6. /\ Code(chain) = "ACCESS_DENIED" <=> class \in {"auth", "version"}
      /\ Code(chain) = "BAD_PATH" <=> class = "value"
      /\ Code(chain) = "NOT_SUPPORTED" <=> class = "notfound"
  BY <1>1, <1>2 DEF Cases
<1>7. PassesStatus(chain) <=> class \in {"auth", "operation"}
  BY <1>1, <1>3 DEF Cases
<1>8. /\ call.op # "stat" => told = 200
      /\ call.op = "stat" /\ class \in {"auth", "operation"} =>
           \A i \in nearest : told = chain[i].status
      /\ class = "version" \/ nearest = {} => told = 200
  BY <1>4, <1>5, <1>7
<1> QED BY <1>6, <1>8 DEF chain, class, nearest, told

-----------------------------------------------------------------------------
(* Credentials.                                                            *)

LEMMA OnceKeeps ==
  ASSUME NEW Name, NEW list \in Seq(Name), NEW n \in Name
  PROVE  Once(list, n) \in Seq(Name)
BY DEF Once

(* What deduplication builds up, step by step.                             *)
LEMMA Deduplication ==
  ASSUME NEW Name, NEW names \in Seq(Name)
  PROVE  \E kept \in [0..Len(names) -> Seq(Name)] :
           /\ kept[0] = <<>>
           /\ \A n \in 1..Len(names) : kept[n] = Once(kept[n - 1], names[n])
           /\ Deduplicated(names) = kept[Len(names)]
<1> DEFINE N == Len(names)
           V == Seq(Name)
           Is(f) == f = [n \in 0..N |-> IF n = 0 THEN <<>> ELSE Once(f[n - 1], names[n])]
           kept == CHOOSE f : Is(f)
           s == [p \in V \X (1..N) |-> Once(p[1], names[p[2]])]
           e == <<>>
<1>1. N \in Nat /\ \A i \in 1..N : names[i] \in Name
  OBVIOUS
<1>2. e \in V
  OBVIOUS
<1>3. \A v \in V, i \in 1..N : Once(v, names[i]) \in V
  BY <1>1, OnceKeeps
<1>4. \A v \in V, i \in 1..N : s[<<v, i>>] = Once(v, names[i])
  OBVIOUS
<1>5. Deduplicated(names) = kept[N]
  BY DEF Deduplicated
<1> HIDE DEF N, V, s, e
<1>6. Stays(V, N, s)
  BY <1>3, <1>4 DEF Stays
<1>7. PICK f \in [0..N -> V] : f[0] = e /\ \A i \in 1..N : f[i] = s[<<f[i - 1], i>>]
  BY <1>1, <1>2, <1>6, Iterates
<1>8. Is(f)
  <2>1. ASSUME NEW i \in 1..N PROVE f[i] = Once(f[i - 1], names[i])
    <3>1. i - 1 \in 0..N /\ f[i - 1] \in V
      BY <1>1, <1>7
    <3> QED BY <1>4, <1>7, <3>1
  <2> QED BY <1>1, <1>7, <2>1 DEF e
<1>9. Is(kept)
  BY <1>8
<1> HIDE DEF kept
<1>10. DOMAIN kept = 0..N /\ kept[0] = e /\ \A i \in 1..N : kept[i] = Once(kept[i - 1], names[i])
  BY <1>1, <1>9 DEF e
<1> DEFINE S == {n \in Nat : n <= N => kept[n] \in V}
<1>11. 0 \in S
  BY <1>2, <1>10
<1>12. ASSUME NEW n \in Nat, n \in S
       PROVE  n + 1 \in S
  <2> SUFFICES ASSUME n + 1 <= N PROVE kept[n + 1] \in V
    OBVIOUS
  <2>1. n + 1 \in 1..N /\ (n + 1) - 1 = n /\ n <= N
    BY <1>1
  <2>2. kept[n + 1] = Once(kept[n], names[n + 1]) /\ kept[n] \in V
    BY <1>10, <1>12, <2>1
  <2> QED BY <1>3, <2>1, <2>2
<1> HIDE DEF S
<1>13. Nat \subseteq S
  BY <1>11, <1>12, AllNumbers
<1>14. \A n \in 0..N : kept[n] \in V
  BY <1>1, <1>13 DEF S
<1>15. kept = [n \in 0..N |-> kept[n]]
  BY <1>9
<1>16. kept \in [0..N -> V]
  BY <1>14, <1>15
<1> QED BY <1>5, <1>10, <1>16 DEF N, V, e

(* A list keeps to the first n of the names: it has just those, none twice,*)
(* begins like them, and a name on it follows, or is, its base alone.      *)
Keeps(list, names, n) ==
  /\ \A i \in 1..Len(list) : \E j \in 1..n : list[i] = names[j]
  /\ \A j \in 1..n : \E i \in 1..Len(list) : list[i] = names[j]
  /\ \A i, j \in 1..Len(list) : list[i] = list[j] => i = j
  /\ n > 0 => Len(list) > 0 /\ list[1] = names[1]
  /\ \A i \in 1..Len(list) : \E j \in 1..i : list[j] = <<list[i][1]>>

BasesFirst(names) == \A i \in 1..Len(names) : \E j \in 1..i : names[j] = <<names[i][1]>>

LEMMA OnceMore ==
  ASSUME NEW Name, NEW names \in Seq(Name), BasesFirst(names), NEW n \in 1..Len(names),
         NEW list \in Seq(Name), Keeps(list, names, n - 1)
  PROVE  Keeps(Once(list, names[n]), names, n)
<1> DEFINE x == names[n]
           new == Once(list, x)
<1>1. CASE Contains(list, x)
  <2>1. new = list /\ \E i \in 1..Len(list) : list[i] = x
    BY <1>1 DEF Once, Contains
  <2>2. \A j \in 1..n : j = n \/ j \in 1..(n - 1)
    OBVIOUS
  <2>3. \A i \in 1..Len(list) : \E j \in 1..n : list[i] = names[j]
    BY DEF Keeps
  <2>4. \A j \in 1..n : \E i \in 1..Len(list) : list[i] = names[j]
    BY <2>1, <2>2 DEF Keeps
  <2>5. n - 1 > 0
    <3> SUFFICES ASSUME n = 1 PROVE FALSE
      OBVIOUS
    <3>1. 1..(n - 1) = {}
      OBVIOUS
    <3> QED BY <2>1, <3>1 DEF Keeps
  <2>6. Len(list) > 0 /\ list[1] = names[1]
    BY <2>5 DEF Keeps
  <2>7. /\ \A i, j \in 1..Len(list) : list[i] = list[j] => i = j
        /\ \A i \in 1..Len(list) : \E j \in 1..i : list[j] = <<list[i][1]>>
    BY DEF Keeps
  <2>8. Keeps(list, names, n)
    BY <2>3, <2>4, <2>6, <2>7, Zenon DEF Keeps
  <2> QED BY <2>1, <2>8
<1>2. CASE ~Contains(list, x)
  <2> DEFINE L == Len(list)
  <2>1. /\ new = Append(list, x) /\ Len(new) = L + 1 /\ L \in Nat /\ new[L + 1] = x
        /\ \A i \in 1..L : new[i] = list[i]
    BY <1>2 DEF Once
  <2>2. \A i \in 1..L : list[i] # x
    BY <1>2 DEF Contains
  <2>3. \A i \in 1..(L + 1) : i = L + 1 \/ i \in 1..L
    BY <2>1
  <2>4. \A j \in 1..n : j = n \/ j \in 1..(n - 1)
    OBVIOUS
  <2>5. \A i \in 1..(L + 1) : \E j \in 1..n : new[i] = names[j]
    <3> SUFFICES ASSUME NEW i \in 1..(L + 1) PROVE \E j \in 1..n : new[i] = names[j]
      OBVIOUS
    <3>1. CASE i = L + 1
      BY <2>1, <3>1
    <3>2. CASE i \in 1..L
      <4>1. PICK j \in 1..(n - 1) : list[i] = names[j]
        BY <3>2 DEF Keeps
      <4>2. j \in 1..n
        OBVIOUS
      <4> QED BY <2>1, <3>2, <4>1, <4>2
    <3> QED BY <2>3, <3>1, <3>2
  <2>6. \A j \in 1..n : \E i \in 1..(L + 1) : new[i] = names[j]
    <3> SUFFICES ASSUME NEW j \in 1..n PROVE \E i \in 1..(L + 1) : new[i] = names[j]
      OBVIOUS
    <3>1. CASE j = n
      BY <2>1, <3>1
    <3>2. CASE j \in 1..(n - 1)
      <4>1. PICK i \in 1..L : list[i] = names[j]
        BY <3>2 DEF Keeps
      <4>2. i \in 1..(L + 1)
        BY <2>1
      <4> QED BY <2>1, <4>1, <4>2
    <3> QED BY <2>4, <3>1, <3>2
  <2>7. \A i, j \in 1..(L + 1) : new[i] = new[j] => i = j
    <3>1. \A i, j \in 1..L : list[i] = list[j] => i = j
      BY DEF Keeps
    <3> HIDE DEF new, x, L
    <3> QED BY <2>1, <2>2, <2>3, <3>1
  <2>8. L + 1 > 0 /\ new[1] = names[1]
    <3>1. CASE n = 1
      <4>1. L = 0
        <5> SUFFICES ASSUME L # 0 PROVE FALSE
          OBVIOUS
        <5>1. 1 \in 1..L /\ 1..(n - 1) = {}
          BY <2>1, <3>1
        <5> QED BY <5>1 DEF Keeps
      <4> QED BY <2>1, <3>1, <4>1
    <3>2. CASE n # 1
      <4>1. n - 1 > 0
        BY <3>2
      <4>2. L > 0 /\ list[1] = names[1]
        BY <4>1 DEF Keeps
      <4> QED BY <2>1, <4>2
    <3> QED BY <3>1, <3>2
  <2>9. \A i \in 1..(L + 1) : \E j \in 1..i : new[j] = <<new[i][1]>>
    <3> SUFFICES ASSUME NEW i \in 1..(L + 1) PROVE \E j \in 1..i : new[j] = <<new[i][1]>>
      OBVIOUS
    <3>1. CASE i \in 1..L
      <4>1. PICK j \in 1..i : list[j] = <<list[i][1]>>
        BY <3>1 DEF Keeps
      <4>2. j \in 1..L
        BY <2>1, <3>1
      <4> QED BY <2>1, <3>1, <4>1, <4>2
    <3>2. CASE i = L + 1
      <4>1. PICK m \in 1..n : names[m] = <<x[1]>>
        BY DEF BasesFirst
      <4>2. CASE m = n
        <5>1. new[i] = <<new[i][1]>> /\ i \in 1..i
          BY <2>1, <3>2, <4>1, <4>2
        <5> QED BY <5>1
      <4>3. CASE m \in 1..(n - 1)
        <5>1. PICK j \in 1..L : list[j] = names[m]
          BY <4>3 DEF Keeps
        <5>2. j \in 1..i
          BY <2>1, <3>2
        <5> QED BY <2>1, <3>2, <4>1, <5>1, <5>2
      <4> QED BY <2>4, <4>2, <4>3
    <3> QED BY <2>3, <3>1, <3>2
  <2> HIDE DEF new, x, L
  <2>10. Len(new) = L + 1
    BY <2>1
  <2> QED BY <2>5, <2>6, <2>7, <2>8, <2>9, <2>10 DEF Keeps, new, x
<1> QED BY <1>1, <1>2

LEMMA DeduplicatedKeeps ==
  ASSUME NEW Name, NEW names \in Seq(Name), BasesFirst(names)
  PROVE  Deduplicated(names) \in Seq(Name) /\ Keeps(Deduplicated(names), names, Len(names))
<1> DEFINE N == Len(names)
           e == <<>>
<1>1. N \in Nat
  OBVIOUS
<1>2. PICK kept \in [0..N -> Seq(Name)] :
        /\ kept[0] = e
        /\ \A n \in 1..N : kept[n] = Once(kept[n - 1], names[n])
        /\ Deduplicated(names) = kept[N]
  BY Deduplication
<1>3. Keeps(e, names, 0)
  <2>1. Len(e) = 0 /\ 1..0 = {}
    OBVIOUS
  <2> HIDE DEF e
  <2> QED BY <2>1 DEF Keeps
<1> HIDE DEF e, N
<1> DEFINE S == {n \in Nat : n <= N => Keeps(kept[n], names, n)}
<1>4. 0 \in S
  BY <1>2, <1>3
<1>5. ASSUME NEW n \in Nat, n \in S
      PROVE  n + 1 \in S
  <2> SUFFICES ASSUME n + 1 <= N PROVE Keeps(kept[n + 1], names, n + 1)
    OBVIOUS
  <2>1. n + 1 \in 1..N /\ (n + 1) - 1 = n /\ n \in 0..N /\ n <= N
    BY <1>1
  <2>2. kept[n + 1] = Once(kept[n], names[n + 1]) /\ kept[n] \in Seq(Name)
    BY <1>2, <2>1
  <2>3. Keeps(kept[n], names, (n + 1) - 1)
    BY <1>5, <2>1
  <2> QED BY <2>1, <2>2, <2>3, OnceMore DEF N
<1> HIDE DEF S
<1>6. Nat \subseteq S
  BY <1>4, <1>5, AllNumbers
<1>7. N \in 0..N /\ N <= N
  BY <1>1
<1> QED BY <1>1, <1>2, <1>6, <1>7 DEF S, N

(* Where a name stands first, or 0.                                        *)
PlaceOf(names, n) ==
  Earliest({i \in 1..Len(names) : names[i] = n})

LEMMA FirstAt ==
  ASSUME NEW Name, NEW names \in Seq(Name), NEW n, NEW j \in 1..Len(names), names[j] = n
  PROVE  PlaceOf(names, n) \in 1..j
<1> DEFINE I == {i \in 1..Len(names) : names[i] = n}
           p == PlaceOf(names, n)
<1>1. p = IF I # {} THEN Min(I) ELSE 0
  BY DEF PlaceOf, Earliest
<1>2. I \in SUBSET Nat /\ I # {} /\ j \in I /\ \A i \in I : i >= 1
  OBVIOUS
<1> HIDE DEF I, p
<1>3. PICK x \in I : \A y \in I : x <= y
  BY <1>2, LeastNumber
<1>4. Min(I) = x
  BY <1>2, <1>3, MinIs
<1> QED BY <1>1, <1>2, <1>3, <1>4 DEF p

LEMMA ShortNames ==
  ASSUME NEW T, NEW a \in T, NEW b \in T, NEW c \in T
  PROVE  /\ <<a>> \in Seq(T) /\ <<a>>[1] = a
         /\ <<a, b, c>> \in Seq(T) /\ <<a, b, c>>[1] = a
OBVIOUS

(* The names that come of one base.                                        *)
FromBase(list, base, Word) ==
  /\ list \in Seq(Seq(Word)) /\ BasesFirst(list)
  /\ ~Given(base) => list = <<>>
  /\ Given(base) => /\ Len(list) > 0 /\ list[1] = <<base>>
                    /\ \A i \in 1..Len(list) : list[i][1] = base

LEMMA NamesFromAre ==
  ASSUME NEW Word, {"/", ":"} \subseteq Word,
         NEW base \in Word \cup {Absent}, NEW win \in Seq(Word)
  PROVE  FromBase(NamesFrom(base, win), base, Word)
<1> DEFINE list == NamesFrom(base, win)
           N == 2 * Len(win) + 1
<1>1. CASE ~Given(base)
  <2>1. list = <<>> /\ list \in Seq(Seq(Word)) /\ Len(list) = 0
    BY <1>1 DEF NamesFrom
  <2> QED BY <1>1, <2>1 DEF BasesFirst, FromBase
<1>2. CASE Given(base)
  <2>0. base \in Word
    BY <1>2 DEF Given
  <2>1. N \in Nat /\ N >= 1
    OBVIOUS
  <2>2. list = [k \in 1..N |->
                  IF k = 1 THEN <<base>>
                  ELSE <<base, IF k % 2 = 0 THEN "/" ELSE ":", win[k \div 2]>>]
    BY <1>2 DEF NamesFrom
  <2> HIDE DEF list
  <2>3. ASSUME NEW k \in 1..N
        PROVE  list[k] \in Seq(Word) /\ list[k][1] = base
    <3>1. CASE k = 1
      <4>1. list[k] = <<base>>
        BY <2>2, <3>1
      <4> QED BY <2>0, <4>1, ShortNames
    <3>2. CASE k # 1
      <4>1. k \div 2 \in 1..Len(win)
        BY <3>2
      <4>2. win[k \div 2] \in Word
        BY <4>1
      <4> DEFINE sep == IF k % 2 = 0 THEN "/" ELSE ":"
                 w == win[k \div 2]
      <4>3. list[k] = <<base, sep, w>>
        BY <2>2, <3>2
      <4>4. sep \in Word
        <5>1. sep \in {"/", ":"}
          OBVIOUS
        <5> QED BY <5>1
      <4>5. w \in Word
        BY <4>2
      <4> HIDE DEF sep, w
      <4>6. <<base, sep, w>> \in Seq(Word) /\ <<base, sep, w>>[1] = base
        BY <2>0, <4>4, <4>5, ShortNames
      <4> QED BY <4>3, <4>6
    <3> QED BY <3>1, <3>2
  <2>4. list[1] = <<base>> /\ DOMAIN list = 1..N
    BY <2>1, <2>2
  <2> HIDE DEF N
  <2>5. list = [k \in 1..N |-> list[k]]
    BY <2>2
  <2>6. list \in [1..N -> Seq(Word)]
    BY <2>3, <2>5
  <2>7. list \in Seq(Seq(Word)) /\ Len(list) = N
    BY <2>1, <2>6
  <2>8. BasesFirst(list)
    <3>1. 1 \in 1..N /\ \A i \in 1..N : 1 \in 1..i
      BY <2>1
    <3> QED BY <2>3, <2>4, <2>7, <3>1 DEF BasesFirst
  <2>9. Len(list) > 0
    BY <2>1, <2>7
  <2> QED BY <1>2, <2>3, <2>4, <2>7, <2>8, <2>9 DEF list, FromBase
<1> QED BY <1>1, <1>2

LEMMA BasesFirstBoth ==
  ASSUME NEW Name, NEW a \in Seq(Name), NEW b \in Seq(Name), BasesFirst(a), BasesFirst(b)
  PROVE  a \o b \in Seq(Name) /\ BasesFirst(a \o b)
<1> DEFINE c == a \o b
           m == Len(a)
           n == Len(b)
<1>1. /\ c \in Seq(Name) /\ Len(c) = m + n /\ m \in Nat /\ n \in Nat
      /\ \A i \in 1..(m + n) : c[i] = IF i <= m THEN a[i] ELSE b[i - m]
  OBVIOUS
<1> HIDE DEF c
<1>2. ASSUME NEW i \in 1..(m + n)
      PROVE  \E j \in 1..i : c[j] = <<c[i][1]>>
  <2>1. CASE i <= m
    <3>0. i \in 1..m
      BY <1>1, <2>1
    <3>1. PICK j \in 1..i : a[j] = <<a[i][1]>>
      BY <3>0 DEF BasesFirst
    <3>2. j \in 1..(m + n) /\ j <= m /\ c[j] = a[j] /\ c[i] = a[i]
      BY <1>1, <2>1
    <3> QED BY <3>1, <3>2
  <2>2. CASE i > m
    <3>1. i - m \in 1..n
      BY <1>1, <2>2
    <3>2. PICK j \in 1..(i - m) : b[j] = <<b[i - m][1]>>
      BY <3>1 DEF BasesFirst
    <3>3. j + m \in 1..i /\ j + m \in 1..(m + n) /\ ~(j + m <= m) /\ (j + m) - m = j /\ ~(i <= m)
      BY <1>1, <2>2
    <3> QED BY <1>1, <3>2, <3>3
  <2> QED BY <1>1, <2>1, <2>2
<1> QED BY <1>1, <1>2 DEF BasesFirst, c

(* The names a request leads to, as its parts put them together.           *)
HeadsOf(s) == {s[i][1] : i \in 1..Len(s)}

LEMMA NamesTogether ==
  ASSUME NEW Name, NEW a \in Seq(Name), NEW b \in Seq(Name)
  PROVE  /\ HeadsOf(a \o b) = HeadsOf(a) \cup HeadsOf(b)
         /\ Len(a) > 0 => Len(a \o b) > 0 /\ (a \o b)[1] = a[1]
         /\ Len(a) = 0 => a \o b = b
<1> DEFINE c == a \o b
           m == Len(a)
           n == Len(b)
<1>1. /\ Len(c) = m + n /\ m \in Nat /\ n \in Nat
      /\ \A i \in 1..(m + n) : c[i] = IF i <= m THEN a[i] ELSE b[i - m]
  OBVIOUS
<1>2. m = 0 => c = b
  OBVIOUS
<1> HIDE DEF c
<1>3. \A i \in 1..(m + n) : (i \in 1..m /\ c[i] = a[i]) \/ (i - m \in 1..n /\ c[i] = b[i - m])
  <2> SUFFICES ASSUME NEW i \in 1..(m + n)
      PROVE (i \in 1..m /\ c[i] = a[i]) \/ (i - m \in 1..n /\ c[i] = b[i - m])
    OBVIOUS
  <2>0. c[i] = IF i <= m THEN a[i] ELSE b[i - m]
    BY <1>1
  <2>1. i <= m => i \in 1..m
    BY <1>1
  <2>2. ~(i <= m) => i - m \in 1..n
    BY <1>1
  <2> HIDE DEF m, n
  <2> QED BY <2>0, <2>1, <2>2
<1>4. \A i \in 1..m : i \in 1..(m + n) /\ c[i] = a[i]
  BY <1>1
<1>5. \A i \in 1..n : i + m \in 1..(m + n) /\ c[i + m] = b[i]
  <2> SUFFICES ASSUME NEW i \in 1..n PROVE i + m \in 1..(m + n) /\ c[i + m] = b[i]
    OBVIOUS
  <2>1. i + m \in 1..(m + n) /\ ~(i + m <= m) /\ (i + m) - m = i
    BY <1>1
  <2> QED BY <1>1, <2>1
<1>6. {c[i][1] : i \in 1..(m + n)} = {a[i][1] : i \in 1..m} \cup {b[i][1] : i \in 1..n}
  <2>1. ASSUME NEW x \in {c[i][1] : i \in 1..(m + n)}
        PROVE  x \in {a[i][1] : i \in 1..m} \cup {b[i][1] : i \in 1..n}
    BY <1>3
  <2>2. ASSUME NEW x \in {a[i][1] : i \in 1..m} PROVE x \in {c[i][1] : i \in 1..(m + n)}
    BY <1>4
  <2>3. ASSUME NEW x \in {b[i][1] : i \in 1..n} PROVE x \in {c[i][1] : i \in 1..(m + n)}
    BY <1>5
  <2> QED BY <2>1, <2>2, <2>3
<1>7. m > 0 => Len(c) > 0 /\ c[1] = a[1]
  BY <1>1
<1> QED BY <1>1, <1>2, <1>6, <1>7 DEF c, HeadsOf

(* The calls, over any set of words.                                       *)
OrNone(S) == S \cup {Absent}
AuthSettings(Word) ==
  [mode : OrNone(Word), required : OrNone(BOOLEAN), scheme : OrNone(Word),
   id : OrNone(Word), target : OrNone(Word), base : OrNone(Word)]
AuthRequests(Word) ==
  [id : OrNone(Word), target : OrNone(Word), user : OrNone(Word), password : OrNone(Word),
   token : OrNone(Word), win : Seq(Word)]

LEMMA EffectiveIs ==
  ASSUME NEW cfg, NEW req, NEW found
  PROVE  LET eff == Effective(cfg, req, found) IN
         /\ eff.user \in {req.user, FirstOf(req.user, found.user)}
         /\ eff.password \in {req.password, FirstOf(req.password, found.password)}
         /\ eff.token \in {req.token, FirstOf(req.token, found.token)}
         /\ HasSecret(req) => eff = Own(req)
         /\ Given(req.user) => eff.user = req.user
         /\ Given(req.password) => eff.password = req.password
         /\ Given(req.token) => eff.token = req.token
         /\ \/ eff.user = req.user /\ eff.password = req.password
            \/ eff.user = FirstOf(req.user, found.user)
<1> DEFINE eff == Effective(cfg, req, found)
<1>1. eff = Own(req) \/ (eff = Completed(req, found) /\ ~HasSecret(req))
  BY DEF Effective
<1>2. CASE eff = Own(req)
  <2>1. eff.user = req.user /\ eff.password = req.password /\ eff.token = req.token
    BY <1>2 DEF Own
  <2> HIDE DEF eff
  <2> QED BY <1>2, <2>1 DEF eff
<1>3. CASE eff = Completed(req, found) /\ ~HasSecret(req)
  <2>1. /\ eff.user = FirstOf(req.user, found.user)
        /\ eff.password = FirstOf(req.password, found.password)
        /\ eff.token = FirstOf(req.token, found.token)
    BY <1>3 DEF Completed
  <2> HIDE DEF eff
  <2> QED BY <1>3, <2>1 DEF FirstOf, eff
<1> QED BY <1>1, <1>2, <1>3

(* What each driver sends, by what it has.                                 *)
LEMMA WhatIsSent ==
  ASSUME NEW cfg, NEW c, NEW default,
         \A w1, w2, w3 : Absent # <<w1>> /\ Absent # <<w1, w2>> /\ Absent # <<w1, w2, w3>>
  PROVE  LET web == Headers("webdav", cfg, c, default)
             edo == Headers("edocat", cfg, c, default)
             alf == Headers("alfresco", cfg, c, default)
         IN
         /\ Scheme(cfg, default) = "none" => ~Given(web)
         /\ Required(cfg) /\ Scheme(cfg, default) # "none" => Given(web)
         /\ ~Required(cfg) => web # <<"raises">>
         /\ Given(c.user) => Given(edo)
         /\ edo # <<"raises">>
         /\ Given(alf)
         /\ alf = <<"raises">> => ~HasSecret(c)
<1> DEFINE scheme == Scheme(cfg, default)
           web == Headers("webdav", cfg, c, default)
           edo == Headers("edocat", cfg, c, default)
           alf == Headers("alfresco", cfg, c, default)
<1>1. /\ \A w : <<"token", w>> # <<"raises">> /\ <<"bearer", w>> # <<"raises">>
                /\ <<"ticket", w>> # <<"raises">>
      /\ \A w, v : <<"basic", w, v>> # <<"raises">> /\ <<"ticket", w, v>> # <<"raises">>
  OBVIOUS
<1>2. /\ scheme = "none" => ~Given(web)
      /\ Required(cfg) /\ scheme # "none" => Given(web)
      /\ ~Required(cfg) => web # <<"raises">>
  <2>1. web = IF scheme = "none" THEN Absent
              ELSE IF Given(c.token) THEN <<"token", c.token>>
              ELSE IF scheme = "bearer" /\ Given(c.password) THEN <<"bearer", c.password>>
              ELSE IF Given(c.user)  THEN <<"basic", c.user, c.password>>
              ELSE IF Required(cfg)  THEN <<"raises">>
              ELSE Absent
    BY DEF Headers, WebdavSends
  <2> HIDE DEF web, scheme
  <2> QED BY <1>1, <2>1 DEF Given
<1>3. (Given(c.user) => Given(edo)) /\ edo # <<"raises">>
  <2>1. edo = IF Given(c.user) THEN <<"basic", c.user, FirstOf(c.password, c.token)>> ELSE Absent
    BY DEF Headers, EdocatSends
  <2> HIDE DEF edo
  <2> QED BY <1>1, <2>1 DEF Given
<1>4. Given(alf) /\ (alf = <<"raises">> => ~HasSecret(c))
  <2>1. alf = IF Given(c.token) THEN <<"ticket", c.token>>
              ELSE IF Given(c.user) /\ Given(c.password) THEN <<"ticket", c.user, c.password>>
              ELSE <<"raises">>
    BY DEF Headers, AlfrescoSends
  <2> HIDE DEF alf
  <2>2. Given(alf)
    BY <1>1, <2>1 DEF Given
  <2>3. alf = <<"raises">> => ~HasSecret(c)
    BY <1>1, <2>1 DEF HasSecret
  <2> QED BY <2>2, <2>3
<1> QED BY <1>2, <1>3, <1>4

(* What a connection advertises is what it enforces, but for the cases     *)
(* named, in whatever way it is set up, whatever a request brings and the  *)
(* bridge found, and whichever driver it has.                              *)
THEOREM AdvertisedEnforced ==
  ASSUME \A w1, w2, w3 : Absent # <<w1>> /\ Absent # <<w1, w2>> /\ Absent # <<w1, w2, w3>>,
         Asks("auth") => call.driver \in {"webdav", "edocat", "alfresco"}
  PROVE  AdvertisedIsEnforced
<1> DEFINE cfg    == call.config
           req    == call.request
           eff    == Effective(cfg, req, call.found)
           sent   == Headers(call.driver, cfg, eff, call.default)
           scheme == Scheme(cfg, call.default)
           denied == Denied(cfg, req, call.found)
           driver == call.driver
<1>0. SUFFICES ASSUME Asks("auth") PROVE AdvertisedIsEnforced
  BY DEF AdvertisedIsEnforced
<1>1. Requirements(cfg).required = Required(cfg)
  BY DEF Requirements
<1>2. Mode(cfg) \in {"none", "winuser", "credentials"}
  BY DEF Mode
<1>3. /\ Mode(cfg) = "none" => scheme = "none"
      /\ Mode(cfg) = "none" => eff = Own(req)
  BY DEF Scheme, Effective
<1>4. denied <=> Mode(cfg) = "credentials" /\ Required(cfg) /\ ~HasSecret(eff)
  BY DEF Denied
<1>5. /\ driver = "webdav" /\ scheme = "none" => ~Given(sent)
      /\ driver = "webdav" /\ Required(cfg) /\ scheme # "none" => Given(sent)
      /\ driver = "webdav" /\ ~Required(cfg) => sent # <<"raises">>
      /\ driver = "edocat" /\ Given(eff.user) => Given(sent)
      /\ driver = "edocat" => sent # <<"raises">>
      /\ driver = "alfresco" => Given(sent)
      /\ driver = "alfresco" /\ sent = <<"raises">> => ~HasSecret(eff)
  <2> HIDE DEF cfg, eff
  <2> QED BY WhatIsSent
<1>6. /\ ListDenied(cfg, req, call.found) => Required(cfg)
      /\ ListDenied(cfg, Absent, call.found) <=> Required(cfg)
  BY <1>1, <1>4 DEF ListDenied, Given
<1>7. Mode(cfg) = "none" => sent = Headers(driver, cfg, Own(req), call.default)
  BY <1>3
<1>8. driver \in {"webdav", "edocat", "alfresco"}
  BY <1>0
<1> HIDE DEF cfg, req, eff, sent, scheme, denied, driver
<1>9. ~Required(cfg) => ~denied /\ (sent = <<"raises">> => driver = "alfresco" /\ ~HasSecret(eff))
  BY <1>4, <1>5, <1>8
<1>10. Required(cfg) /\ ~denied /\ ~Given(sent) =>
         \/ driver = "webdav" /\ scheme = "none"
         \/ driver = "edocat" /\ ~Given(eff.user) /\ (Mode(cfg) = "credentials" => Given(eff.token))
  BY <1>4, <1>5, <1>8 DEF HasSecret
<1>11. Mode(cfg) = "none" /\ Given(sent) => driver # "webdav"
  BY <1>3, <1>5
<1> QED BY <1>1, <1>6, <1>7, <1>9, <1>10, <1>11
        DEF AdvertisedIsEnforced, cfg, req, eff, sent, scheme, denied, driver

(* The names a request is served under, in the order they are tried.       *)
LEMMA NamesAre ==
  ASSUME NEW Word, {"/", ":"} \subseteq Word,
         NEW cfg \in AuthSettings(Word), NEW req \in AuthRequests(Word)
  PROVE  LET names == NamesToTry(cfg, req) IN
         /\ names \in Seq(Seq(Word))
         /\ \A i, j \in DOMAIN names : names[i] = names[j] => i = j
         /\ Given(req.id) => names[1] = <<req.id>>
         /\ \A i \in 1..Len(names) : \E j \in 1..i : names[j] = <<names[i][1]>>
         /\ {names[i][1] : i \in DOMAIN names} =
              {CredentialId(cfg, req), Target(cfg, req), cfg.base} \ {Absent}
<1> DEFINE Names == Seq(Seq(Word))
           x == CredentialId(cfg, req)
           y == Target(cfg, req)
           z == cfg.base
           a == NamesFrom(x, req.win)
           b == NamesFrom(y, req.win)
           c == NamesFrom(z, req.win)
           raw == a \o b \o c
           names == NamesToTry(cfg, req)
<1>1. /\ x \in Word \cup {Absent} /\ y \in Word \cup {Absent} /\ z \in Word \cup {Absent}
      /\ req.win \in Seq(Word) /\ (Given(req.id) => x = req.id)
  BY DEF AuthSettings, AuthRequests, OrNone, CredentialId, Target, FirstOf
<1> HIDE DEF x, y, z
<1>2. a \in Names /\ b \in Names /\ c \in Names /\ BasesFirst(a) /\ BasesFirst(b) /\ BasesFirst(c)
  <2>1. FromBase(a, x, Word) /\ FromBase(b, y, Word) /\ FromBase(c, z, Word)
    BY <1>1, NamesFromAre
  <2> HIDE DEF a, b, c
  <2> QED BY <2>1 DEF FromBase
<1>3. ASSUME NEW u \in Word \cup {Absent}
      PROVE  HeadsOf(NamesFrom(u, req.win)) = {u} \ {Absent}
  <2> DEFINE list == NamesFrom(u, req.win)
  <2>1. FromBase(list, u, Word)
    BY <1>1, NamesFromAre
  <2> HIDE DEF list
  <2>2. CASE Given(u)
    <3>1. Len(list) \in Nat /\ 1 \in 1..Len(list) /\ \A i \in 1..Len(list) : list[i][1] = u
      BY <2>1, <2>2 DEF FromBase
    <3>2. {list[i][1] : i \in 1..Len(list)} = {u}
      BY <3>1
    <3> QED BY <2>2, <3>2 DEF Given, list, HeadsOf
  <2>3. CASE ~Given(u)
    <3>1. Len(list) = 0
      BY <2>1, <2>3 DEF FromBase
    <3>2. {list[i][1] : i \in 1..Len(list)} = {}
      BY <3>1
    <3> QED BY <2>3, <3>2 DEF Given, list, HeadsOf
  <2> QED BY <2>2, <2>3
<1>4. HeadsOf(a) = {x} \ {Absent} /\ HeadsOf(b) = {y} \ {Absent} /\ HeadsOf(c) = {z} \ {Absent}
  <2> QED BY <1>1, <1>3
<1>5. Given(x) => Len(a) > 0 /\ a[1] = <<x>>
  <2>1. FromBase(a, x, Word)
    BY <1>1, NamesFromAre
  <2> HIDE DEF a
  <2> QED BY <2>1 DEF FromBase
<1> HIDE DEF a, b, c
<1>6. /\ raw \in Names /\ BasesFirst(raw)
      /\ HeadsOf(raw) = HeadsOf(a) \cup HeadsOf(b) \cup HeadsOf(c)
      /\ Len(a) > 0 => Len(raw) > 0 /\ raw[1] = a[1]
  <2> DEFINE ab == a \o b
  <2>1. ab \in Names /\ BasesFirst(ab)
    BY <1>2, BasesFirstBoth
  <2>2. HeadsOf(ab) = HeadsOf(a) \cup HeadsOf(b) /\ (Len(a) > 0 => Len(ab) > 0 /\ ab[1] = a[1])
    BY <1>2, NamesTogether
  <2>3. raw = ab \o c
    OBVIOUS
  <2> HIDE DEF ab
  <2>4. raw \in Names /\ BasesFirst(raw)
    BY <1>2, <2>1, <2>3, BasesFirstBoth
  <2>5. /\ HeadsOf(ab \o c) = HeadsOf(ab) \cup HeadsOf(c)
        /\ Len(ab) > 0 => Len(ab \o c) > 0 /\ (ab \o c)[1] = ab[1]
    BY <1>2, <2>1, NamesTogether
  <2> HIDE DEF raw
  <2> QED BY <2>2, <2>3, <2>4, <2>5
<1> HIDE DEF raw
<1>7. names = Deduplicated(raw)
  BY DEF NamesToTry, raw, a, b, c, x, y, z
<1> HIDE DEF names
<1>8. names \in Names /\ Keeps(names, raw, Len(raw))
  BY <1>6, <1>7, DeduplicatedKeeps
<1>9. DOMAIN names = 1..Len(names)
  BY <1>8
<1>10. HeadsOf(names) = HeadsOf(raw)
  <2> DEFINE m == Len(names)
             n == Len(raw)
  <2>1. /\ \A i \in 1..m : \E j \in 1..n : names[i] = raw[j]
        /\ \A j \in 1..n : \E i \in 1..m : names[i] = raw[j]
    BY <1>8 DEF Keeps
  <2> HIDE DEF m, n
  <2>2. {names[i][1] : i \in 1..m} = {raw[i][1] : i \in 1..n}
    BY <2>1
  <2> QED BY <2>2 DEF m, n, HeadsOf
<1>11. HeadsOf(names) = {x, y, z} \ {Absent}
  <2> QED BY <1>4, <1>6, <1>10
<1>12. ASSUME Given(req.id)
       PROVE  names[1] = <<req.id>>
  <2>1. x = req.id /\ Len(raw) > 0 /\ raw[1] = <<x>>
    BY <1>1, <1>5, <1>6, <1>12
  <2>2. names[1] = raw[1]
    BY <1>6, <1>8, <2>1 DEF Keeps
  <2> QED BY <2>1, <2>2
<1>13. /\ \A i, j \in 1..Len(names) : names[i] = names[j] => i = j
       /\ \A i \in 1..Len(names) : \E j \in 1..i : names[j] = <<names[i][1]>>
  BY <1>8 DEF Keeps
<1> QED BY <1>8, <1>9, <1>11, <1>12, <1>13 DEF names, x, y, z, HeadsOf

(* What a request brings comes first, however many names lead to what the  *)
(* bridge finds.                                                           *)
THEOREM RequestsFirst ==
  ASSUME NEW Word, {"/", ":"} \subseteq Word,
         Asks("auth") => /\ call.config \in AuthSettings(Word)
                         /\ call.request \in AuthRequests(Word)
  PROVE  RequestComesFirst
<1> SUFFICES ASSUME Asks("auth") PROVE RequestComesFirst
  BY DEF RequestComesFirst
<1> DEFINE cfg   == call.config
           req   == call.request
           eff   == Effective(cfg, req, call.found)
           names == NamesToTry(cfg, req)
<1>1. /\ names \in Seq(Seq(Word))
      /\ \A i, j \in DOMAIN names : names[i] = names[j] => i = j
      /\ Given(req.id) => names[1] = <<req.id>>
      /\ \A i \in 1..Len(names) : \E j \in 1..i : names[j] = <<names[i][1]>>
      /\ {names[i][1] : i \in DOMAIN names} =
           {CredentialId(cfg, req), Target(cfg, req), cfg.base} \ {Absent}
  BY NamesAre
<1>2. /\ HasSecret(req) => eff = Own(req)
      /\ Given(req.password) => eff.password = req.password
      /\ Given(req.token) => eff.token = req.token
  BY EffectiveIs
<1>3. Given(eff.password) /\ eff.password # req.password =>
        eff.user = call.found.user \/ Given(req.user)
  <2>1. \/ eff.user = req.user /\ eff.password = req.password
        \/ eff.user = FirstOf(req.user, call.found.user)
    BY EffectiveIs
  <2> HIDE DEF eff
  <2> QED BY <2>1 DEF FirstOf
<1>4. \A i \in DOMAIN names :
        SelectInSeq(names, LAMBDA m : m = <<names[i][1]>>) \in 1..i
  <2> SUFFICES ASSUME NEW i \in DOMAIN names
      PROVE SelectInSeq(names, LAMBDA m : m = <<names[i][1]>>) \in 1..i
    OBVIOUS
  <2> HIDE DEF names
  <2>1. i \in 1..Len(names) /\ Len(names) \in Nat
    BY <1>1
  <2>2. PICK j \in 1..i : names[j] = <<names[i][1]>>
    BY <1>1, <2>1
  <2>3. j \in 1..Len(names) /\ 1..j \subseteq 1..i
    BY <2>1
  <2> DEFINE n == <<names[i][1]>>
  <2>4. names[j] = n
    BY <2>2
  <2> HIDE DEF n
  <2>5. PlaceOf(names, n) \in 1..j
    BY <1>1, <2>3, <2>4, FirstAt
  <2> QED BY <2>3, <2>5 DEF n, PlaceOf, Earliest, SelectInSeq
<1> QED BY <1>1, <1>2, <1>3, <1>4 DEF RequestComesFirst

(* Both rules of the credentials.                                          *)
THEOREM CredentialsKeepRules ==
  ASSUME NEW Word, {"/", ":"} \subseteq Word,
         Asks("auth") => /\ call.config \in AuthSettings(Word)
                         /\ call.request \in AuthRequests(Word)
                         /\ call.driver \in {"webdav", "edocat", "alfresco"},
         \A w1, w2, w3 : Absent # <<w1>> /\ Absent # <<w1, w2>> /\ Absent # <<w1, w2, w3>>
  PROVE  CredentialRules
BY AdvertisedEnforced, RequestsFirst DEF CredentialRules

-----------------------------------------------------------------------------
(* Paths.                                                                  *)

(* A path below a folder that begins with root, without the root and again *)
(* with it.                                                                *)
LEMMA WithoutAndWith ==
  ASSUME NEW S, NEW root \in Seq(S), NEW path \in Seq(S), IsPrefix(root, path)
  PROVE  LET rest == SubSeq(path, Len(root) + 1, Len(path)) IN
         /\ rest \in Seq(S) /\ Len(rest) = Len(path) - Len(root)
         /\ root \o rest = path
<1> DEFINE m == Len(root)
           n == Len(path)
           rest == SubSeq(path, m + 1, n)
           c == root \o rest
<1>1. m \in Nat /\ n \in Nat /\ m <= n /\ \A i \in 1..m : root[i] = path[i]
  BY PrefixIs
<1>2. /\ rest \in Seq(S) /\ Len(rest) = n - m
      /\ \A i \in 1..(n - m) : rest[i] = path[m + i]
  BY <1>1
<1> HIDE DEF rest
<1>3. /\ c \in Seq(S) /\ Len(c) = n
      /\ \A i \in 1..n : c[i] = IF i <= m THEN root[i] ELSE rest[i - m]
  BY <1>1, <1>2
<1> HIDE DEF c
<1>4. ASSUME NEW i \in 1..n
      PROVE  c[i] = path[i]
  <2>1. CASE i <= m
    BY <1>1, <1>3, <2>1
  <2>2. CASE ~(i <= m)
    <3>1. i - m \in 1..(n - m) /\ m + (i - m) = i
      BY <1>1, <2>2
    <3> QED BY <1>2, <1>3, <2>2, <3>1
  <2> QED BY <2>1, <2>2
<1>5. c = path
  BY <1>3, <1>4
<1> QED BY <1>2, <1>5 DEF rest, c

LEMMA PrefixOfBoth ==
  ASSUME NEW S, NEW s \in Seq(S), NEW t \in Seq(S)
  PROVE  IsPrefix(s, s \o t)
<1>1. /\ s \o t \in Seq(S) /\ Len(s) <= Len(s \o t)
      /\ \A i \in 1..Len(s) : s[i] = (s \o t)[i]
  OBVIOUS
<1> QED BY <1>1, PrefixIs

LEMMA Appended ==
  ASSUME NEW S, NEW s \in Seq(S), NEW x \in S
  PROVE  LET t == Append(s, x) IN
         /\ t \in Seq(S) /\ t # <<>> /\ Len(t) = Len(s) + 1
         /\ Last(t) = x /\ Front(t) = s
         /\ \A y \in S : Append(s, y) = t => y = x
         /\ t # s
<1> DEFINE t == Append(s, x)
           n == Len(s)
<1>1. /\ t \in Seq(S) /\ Len(t) = n + 1 /\ n \in Nat /\ t[n + 1] = x
      /\ \A i \in 1..n : t[i] = s[i]
  OBVIOUS
<1>2. \A y \in S : Append(s, y)[n + 1] = y
  OBVIOUS
<1> HIDE DEF t
<1>3. Last(t) = x
  BY <1>1 DEF Last
<1>4. Front(t) = s
  <2>1. (n + 1) - 1 = n
    OBVIOUS
  <2> DEFINE f == SubSeq(t, 1, n)
  <2>2. f \in Seq(S) /\ Len(f) = n /\ \A i \in 1..n : f[i] = t[i]
    BY <1>1
  <2>3. Front(t) = f
    BY <1>1, <2>1 DEF Front
  <2> HIDE DEF f
  <2>4. f = s
    BY <1>1, <2>2
  <2> QED BY <2>3, <2>4
<1>5. t # <<>> /\ t # s
  BY <1>1
<1> QED BY <1>1, <1>2, <1>3, <1>4, <1>5 DEF t

LEMMA Together ==
  ASSUME NEW S, NEW s \in Seq(S), NEW t \in Seq(S)
  PROVE  /\ s \o t \in Seq(S)
         /\ Len(s \o t) = Len(s) + Len(t)
         /\ \A i \in 1..Len(s) : (s \o t)[i] = s[i]
  OBVIOUS

(* Resolving what is resolved changes nothing.                             *)
LEMMA ResolvedStays ==
  ASSUME NEW S, NoName \in S, NEW path \in Seq(S), NEW root \in Seq(S)
  PROVE  /\ ResolvePath(path, root) \in Seq(S)
         /\ ResolvePath(ResolvePath(path, root), root) = ResolvePath(path, root)
<1> DEFINE e == <<>>
           resolved == ResolvePath(path, root)
<1>1. CASE path = e
  <2>1. resolved = root
    BY <1>1 DEF ResolvePath
  <2>2. ResolvePath(root, root) = root
    <3>1. root # e => IsPrefix(root, root)
      BY PrefixIs
    <3> QED BY <3>1 DEF ResolvePath, AtOrBelow
  <2> QED BY <2>1, <2>2
<1>2. CASE path # e /\ AtOrBelow(path, root)
  BY <1>2 DEF ResolvePath
<1>3. CASE path # e /\ ~AtOrBelow(path, root) /\ root = e
  <2> DEFINE one == <<NoName>>
             r == one \o path
  <2>1. resolved = r
    BY <1>3 DEF ResolvePath
  <2>2. one \in Seq(S) /\ Len(one) = 1 /\ one[1] = NoName
    OBVIOUS
  <2> HIDE DEF one
  <2>3. r \in Seq(S) /\ Len(r) >= 1 /\ r[1] = NoName
    <3> HIDE DEF e, resolved
    <3>1. r \in Seq(S) /\ Len(r) = Len(one) + Len(path) /\ r[1] = one[1]
      <4>1. 1 \in 1..Len(one)
        BY <2>2
      <4>2. one \in Seq(S)
        BY <2>2
      <4> HIDE <2>2
      <4>3. r \in Seq(S)
        BY <4>2, Together
      <4>4. Len(r) = Len(one) + Len(path)
        BY <4>2, Together
      <4>5. \A i \in 1..Len(one) : r[i] = one[i]
        BY <4>2, Together
      <4> HIDE DEF r
      <4> QED BY <4>1, <4>3, <4>4, <4>5
    <3>2. Len(path) \in Nat
      OBVIOUS
    <3> HIDE DEF r
    <3> QED BY <2>2, <3>1, <3>2
  <2>4. r # e /\ Head(r) = NoName
    <3> HIDE DEF r
    <3> QED BY <2>3
  <2> HIDE DEF r
  <2>5. ResolvePath(r, root) = r
    BY <1>3, <2>4 DEF ResolvePath, AtOrBelow
  <2> QED BY <2>1, <2>3, <2>5
<1>4. CASE path # e /\ ~AtOrBelow(path, root) /\ root # e
  <2> DEFINE r == root \o path
  <2>1. resolved = r
    BY <1>4 DEF ResolvePath
  <2>2. r \in Seq(S) /\ r # e
    BY <1>4
  <2>3. IsPrefix(root, r)
    BY PrefixOfBoth
  <2> HIDE DEF r
  <2>4. ResolvePath(r, root) = r
    BY <1>4, <2>2, <2>3 DEF ResolvePath, AtOrBelow
  <2> QED BY <2>1, <2>2, <2>4
<1> QED BY <1>1, <1>2, <1>3, <1>4

(* A folder's children as the server reports them.                         *)
Shown(dir, name, style) ==
  IF style = "own" \/ dir = <<>> \/ Last(dir) # name THEN Append(dir, name) ELSE dir

LEMMA NodePathIs ==
  ASSUME NEW S, NEW dir \in Seq(S), NEW name \in S, NEW style
  PROVE  NodePath([path |-> IF style = "own" THEN Append(dir, name) ELSE dir,
                   name |-> name]) = Shown(dir, name, style)
<1> DEFINE t == Append(dir, name)
<1>1. t # <<>> /\ Last(t) = name
  BY Appended
<1> HIDE DEF t
<1>2. CASE style = "own"
  <2> DEFINE node == [path |-> t, name |-> name]
  <2>1. node.path = t /\ node.name = name
    OBVIOUS
  <2> HIDE DEF node
  <2>2. NodePath(node) = t
    BY <1>1, <2>1 DEF NodePath
  <2> QED BY <1>2, <2>2 DEF node, Shown, t
<1>3. CASE style # "own"
  <2> DEFINE node == [path |-> dir, name |-> name]
  <2>1. node.path = dir /\ node.name = name
    OBVIOUS
  <2> HIDE DEF node
  <2>2. NodePath(node) = IF dir # <<>> /\ Last(dir) = name THEN dir ELSE t
    BY <2>1 DEF NodePath, t
  <2>3. Shown(dir, name, style) = IF dir # <<>> /\ Last(dir) = name THEN dir ELSE t
    BY <1>3 DEF Shown, t
  <2> QED BY <1>3, <2>2, <2>3 DEF node
<1> QED BY <1>2, <1>3

LEMMA ReportedAre ==
  ASSUME NEW S, NEW dir \in Seq(S), NEW names \in Seq(S), NEW style
  PROVE  LET nodes == Reported(dir, names, style) IN
         /\ DOMAIN nodes = 1..Len(names) /\ Len(nodes) = Len(names) /\ Len(names) \in Nat
         /\ \A k \in 1..Len(names) : /\ nodes[k].name = names[k]
                                     /\ NodePath(nodes[k]) = Shown(dir, names[k], style)
<1> DEFINE Of(k) == [path |-> IF style = "own" THEN Append(dir, names[k]) ELSE dir,
                     name |-> names[k]]
           nodes == [k \in DOMAIN names |-> Of(k)]
<1>1. DOMAIN names = 1..Len(names) /\ Len(names) \in Nat
      /\ \A k \in 1..Len(names) : names[k] \in S
  OBVIOUS
<1>2. \A k \in 1..Len(names) : NodePath(Of(k)) = Shown(dir, names[k], style)
  BY <1>1, NodePathIs
<1>3. \A k \in 1..Len(names) : Of(k).name = names[k]
  OBVIOUS
<1>4. nodes = Reported(dir, names, style)
  BY DEF Reported
<1> HIDE DEF Of
<1>5. DOMAIN nodes = 1..Len(names) /\ \A k \in 1..Len(names) : nodes[k] = Of(k)
  BY <1>1
<1>6. Len(nodes) = Len(names)
  BY <1>1, <1>5
<1> HIDE DEF nodes
<1>7. \A k \in 1..Len(names) : /\ nodes[k].name = names[k]
                               /\ NodePath(nodes[k]) = Shown(dir, names[k], style)
  BY <1>2, <1>3, <1>5
<1> QED BY <1>1, <1>4, <1>5, <1>6, <1>7

(* The first place of a node with that path, or of one with that name in   *)
(* that folder.                                                            *)
LEMMA FindExactIs ==
  ASSUME NEW nodes, NEW target
  PROVE  LET same == {i \in 1..Len(nodes) : NodePath(nodes[i]) = target}
             near == {i \in 1..Len(nodes) : /\ target # <<>> /\ nodes[i].name = Last(target)
                                            /\ ParentText(NodePath(nodes[i])) = ParentText(target)}
         IN FindExact(nodes, target) = IF Earliest(same) # 0 THEN Earliest(same) ELSE Earliest(near)
BY DEF FindExact, SelectInSeq, Earliest

Distinct(s) == \A i, j \in 1..Len(s) : s[i] = s[j] => i = j

Named(s) == \A i \in 1..Len(s) : s[i] # NoName

(* A child is found under its own path ...                                 *)
LEMMA FoundBelowRoot ==
  ASSUME NEW S, NEW dir \in Seq(S), NEW names \in Seq(S), NEW style, Distinct(names),
         NEW k \in 1..Len(names),
         Shown(dir, names[k], style) = Append(dir, names[k])
  PROVE  FindExact(Reported(dir, names, style), Append(dir, names[k])) = k
<1> DEFINE nodes == Reported(dir, names, style)
           target == Append(dir, names[k])
           same == {i \in 1..Len(nodes) : NodePath(nodes[i]) = target}
<1>1. /\ DOMAIN nodes = 1..Len(names) /\ Len(nodes) = Len(names) /\ Len(names) \in Nat
      /\ \A j \in 1..Len(names) : NodePath(nodes[j]) = Shown(dir, names[j], style)
  BY ReportedAre
<1>2. \A j \in 1..Len(names) : names[j] \in S
  OBVIOUS
<1>3. target # dir
  BY <1>2, Appended
<1>4. ASSUME NEW j \in 1..Len(names), Append(dir, names[j]) = target
      PROVE  j = k
  <2>1. names[j] = names[k]
    BY <1>2, <1>4, Appended
  <2> QED BY <2>1 DEF Distinct
<1> HIDE DEF nodes, target
<1>5. ASSUME NEW j \in 1..Len(names), NodePath(nodes[j]) = target
      PROVE  j = k
  BY <1>1, <1>3, <1>4, <1>5 DEF Shown
<1>6. NodePath(nodes[k]) = target
  BY <1>1 DEF target
<1>7. same = {k}
  BY <1>1, <1>5, <1>6
<1>8. k # 0 /\ k \in Nat
  BY <1>1
<1>9. Earliest(same) = k
  BY <1>7, <1>8, EarliestOfOne
<1>10. FindExact(nodes, target) = Earliest(same)
  <2> HIDE DEF same
  <2>1. FindExact(nodes, target)
          = IF Earliest(same) # 0 THEN Earliest(same)
            ELSE Earliest({i \in 1..Len(nodes) :
                             /\ target # <<>> /\ nodes[i].name = Last(target)
                             /\ ParentText(NodePath(nodes[i])) = ParentText(target)})
    BY FindExactIs DEF same
  <2> QED BY <1>8, <1>9, <2>1
<1> QED BY <1>9, <1>10 DEF nodes, target

(* ... and, at the top of a library that is the root, under a path that    *)
(* begins with two slashes.                                                *)
TopIsFound(names, style, k) ==
  LET target == Append(<<NoName>>, names[k]) IN
  FindExact(Reported(<<>>, names, style), target) = k /\ ParentText(target) = <<>>

LEMMA FoundAtTop ==
  ASSUME NEW S, NEW names \in Seq(S), NEW style, Distinct(names), NoName \in S,
         Named(names), NEW k \in 1..Len(names)
  PROVE  TopIsFound(names, style, k)
<1> DEFINE e == <<>>
           top == <<NoName>>
           nodes == Reported(e, names, style)
           target == Append(top, names[k])
           same == {i \in 1..Len(nodes) : NodePath(nodes[i]) = target}
           near == {i \in 1..Len(nodes) : /\ target # e /\ nodes[i].name = Last(target)
                                          /\ ParentText(NodePath(nodes[i])) = ParentText(target)}
<1>0. e \in Seq(S) /\ Len(e) = 0 /\ top \in Seq(S) /\ Len(top) = 1 /\ top # e
  OBVIOUS
<1>1. \A j \in 1..Len(names) : names[j] \in S
  OBVIOUS
<1> HIDE DEF e, top
<1>2. /\ DOMAIN nodes = 1..Len(names) /\ Len(nodes) = Len(names) /\ Len(names) \in Nat
      /\ \A j \in 1..Len(names) : /\ nodes[j].name = names[j]
                                  /\ NodePath(nodes[j]) = Shown(e, names[j], style)
  <2> HIDE DEF same, near, target
  <2>1. e \in Seq(S)
    BY <1>0
  <2> QED BY <2>1, ReportedAre
<1> HIDE DEF nodes
<1>3. \A j \in 1..Len(names) : Shown(e, names[j], style) = Append(e, names[j])
  BY DEF Shown, e
<1>4. /\ target # e /\ Last(target) = names[k] /\ Front(target) = top /\ Len(target) = 2
  <2>1. Last(target) = names[k] /\ Front(target) = top /\ Len(target) = Len(top) + 1
    <3>1. top \in Seq(S) /\ names[k] \in S
      BY <1>0, <1>1
    <3> QED BY <3>1, Appended
  <2> HIDE DEF target
  <2>2. Len(target) = 2
    BY <1>0, <2>1
  <2>3. Len(target) # Len(e)
    BY <1>0, <2>2
  <2>4. target # e
    BY <2>3, Zenon
  <2> QED BY <2>1, <2>2, <2>4
<1> HIDE DEF target
<1>5. ASSUME NEW j \in 1..Len(names)
      PROVE  /\ Append(e, names[j]) # e /\ Front(Append(e, names[j])) = e
             /\ Append(e, names[j]) # target
  <2> DEFINE t == Append(e, names[j])
  <2>1. Front(t) = e /\ t # e /\ Len(t) = Len(e) + 1
    <3>1. e \in Seq(S) /\ names[j] \in S
      BY <1>0, <1>1
    <3> QED BY <3>1, Appended
  <2> HIDE DEF t
  <2>2. Len(t) = 1
    BY <1>0, <2>1
  <2>3. Len(t) # Len(target)
    BY <1>4, <2>2
  <2>4. t # target
    BY <2>3, Zenon
  <2> QED BY <2>1, <2>4 DEF t
<1>6. ParentText(target) = e
  BY <1>4 DEF ParentText, ParentOf, e, top
<1>7. \A j \in 1..Len(names) : ParentText(Append(e, names[j])) = e
  BY <1>0, <1>5 DEF ParentText, ParentOf, e, top
<1>8. same = {}
  BY <1>2, <1>3, <1>5
<1>9. near = {k}
  <2>1. ASSUME NEW j \in 1..Len(names), names[j] = names[k] PROVE j = k
    BY <2>1 DEF Distinct
  <2>2. \A j \in 1..Len(names) : ParentText(NodePath(nodes[j])) = e
    BY <1>2, <1>3, <1>7
  <2>3. near = {i \in 1..Len(names) : names[i] = names[k]}
    BY <1>2, <1>4, <1>6, <2>2
  <2> HIDE DEF near
  <2> QED BY <2>1, <2>3
<1>10. FindExact(nodes, target) = IF Earliest(same) # 0 THEN Earliest(same) ELSE Earliest(near)
  BY FindExactIs DEF e
<1> HIDE DEF same, near
<1>11. k \in Nat
  BY <1>2
<1>12. FindExact(nodes, target) = k
  BY <1>8, <1>9, <1>10, <1>11, EarliestOfOne
<1> QED BY <1>6, <1>12 DEF e, top, nodes, target, TopIsFound

(* The path shown for a child.                                             *)
LEMMA PublicIs ==
  ASSUME NEW S, NEW path \in Seq(S), NEW root \in Seq(S)
  PROVE  /\ PublicPath(path, root) \in Seq(S)
         /\ IsPrefix(root, path) => /\ root \o PublicPath(path, root) = path
                                    /\ Len(PublicPath(path, root)) = Len(path) - Len(root)
         /\ root = <<>> => PublicPath(path, root) = path
<1> DEFINE p == PublicPath(path, root)
<1>1. CASE IsPrefix(root, path)
  <2>1. p = SubSeq(path, Len(root) + 1, Len(path))
    BY <1>1 DEF PublicPath
  <2>2. p \in Seq(S) /\ Len(p) = Len(path) - Len(root) /\ root \o p = path
    BY <1>1, <2>1, WithoutAndWith
  <2> HIDE DEF p
  <2>3. root = <<>> => root \o p = p
    BY <2>2
  <2> QED BY <2>2, <2>3 DEF p
<1>2. CASE ~IsPrefix(root, path)
  <2>1. p = path
    BY <1>2 DEF PublicPath
  <2>2. root = <<>> => IsPrefix(root, path)
    <3> DEFINE e == <<>>
    <3>1. e \in Seq(S) /\ Len(e) = 0 /\ Len(path) \in Nat
      OBVIOUS
    <3> HIDE DEF e
    <3>2. IsPrefix(e, path)
      <4>1. Len(e) <= Len(path) /\ \A i \in 1..Len(e) : e[i] = path[i]
        BY <3>1
      <4> QED BY <3>1, <4>1, PrefixIs
    <3> QED BY <3>2 DEF e
  <2> QED BY <1>2, <2>1, <2>2
<1> QED BY <1>1, <1>2

(* A stat of what exists, and of what exists with its last name doubled.   *)
LEMMA StatFinds ==
  ASSUME NEW S, NEW path \in Seq(S), path # <<>>, NEW existing, path \in existing,
         Append(path, Last(path)) \notin existing
  PROVE  StatPath(Append(path, Last(path)), existing) = path
<1> DEFINE n == Len(path)
           t == Append(path, Last(path))
<1>1. n \in Nat /\ n >= 1 /\ path[n] \in S
  OBVIOUS
<1>2. Last(path) = path[n]
  BY DEF Last
<1>3. Front(t) = path
  BY <1>1, <1>2, Appended
<1>4. Len(t) = n + 1 /\ t[n + 1] = path[n] /\ t[n] = path[n]
  BY <1>1, <1>2
<1> HIDE DEF t
<1>5. Len(t) >= 2 /\ t[Len(t)] = t[Len(t) - 1]
  <2>1. n + 1 >= 2 /\ (n + 1) - 1 = n
    BY <1>1
  <2> QED BY <1>4, <2>1
<1>6. WithoutRepeat(t) = path
  BY <1>3, <1>5 DEF WithoutRepeat
<1>7. t \notin existing
  BY DEF t
<1>8. StatPath(t, existing) = path
  BY <1>6, <1>7 DEF StatPath
<1> QED BY <1>8 DEF t

LEMMA PrefixExtends ==
  ASSUME NEW S, NEW root \in Seq(S), NEW dir \in Seq(S), IsPrefix(root, dir), NEW n \in S
  PROVE  IsPrefix(root, Append(dir, n))
<1> DEFINE t == Append(dir, n)
<1>1. Len(root) <= Len(dir) /\ \A i \in 1..Len(root) : root[i] = dir[i]
  BY PrefixIs
<1>2. t \in Seq(S) /\ Len(t) = Len(dir) + 1 /\ \A i \in 1..Len(dir) : t[i] = dir[i]
  OBVIOUS
<1>3. Len(dir) \in Nat /\ Len(root) \in Nat
  OBVIOUS
<1> HIDE DEF t
<1>4. Len(root) <= Len(t) /\ \A i \in 1..Len(root) : root[i] = t[i]
  BY <1>1, <1>2, <1>3
<1>5. IsPrefix(root, t)
  BY <1>2, <1>4, PrefixIs
<1> QED BY <1>5 DEF t

(* What is listed is found again, whatever the names are, however deep the *)
(* folder and the library lie and however many children there are: names   *)
(* are not empty, a folder lists one child under a name, and a client gets *)
(* to the folder below the library.                                        *)
THEOREM ListedFound ==
  ASSUME NEW S, NoName \notin S,
         Asks("path") =>
           /\ call.root \in Seq(S) /\ call.folder \in Seq(S) /\ IsPrefix(call.root, call.folder)
           /\ call.names \in Seq(S) /\ Distinct(call.names)
           /\ call.style \in {"own", "folder"}
  PROVE  ListedIsFound
<1> SUFFICES ASSUME Asks("path") PROVE ListedIsFound
  BY DEF ListedIsFound
<1> DEFINE root == call.root
           dir == call.folder
           names == call.names
           style == call.style
           nodes == Reported(dir, names, style)
           listed == {Append(dir, names[k]) : k \in DOMAIN names} \cup {dir}
           T == S \cup {NoName}
           shown(k) == PublicPath(NodePath(nodes[k]), root)
           parsed(k) == ParseWfx(BuildWfx("c", shown(k)))
           resolved(k) == ResolvePath(parsed(k).path, root)
           split(k) == ParentAndName(parsed(k).path, root)
           ambiguous(k) == \/ root # <<>> /\ IsPrefix(root, shown(k))
                           \/ style = "folder" /\ dir # <<>> /\ Last(dir) = nodes[k].name
                           \/ root = <<>> /\ dir # <<>>
<1>1. /\ root \in Seq(S) /\ dir \in Seq(S) /\ IsPrefix(root, dir)
      /\ names \in Seq(S) /\ Distinct(names) /\ style \in {"own", "folder"}
  OBVIOUS
<1>2. DOMAIN names = 1..Len(names) /\ \A k \in DOMAIN names : names[k] \in S
  BY <1>1
<1>3. \A path \in listed : StatPath(path, listed) = path
  BY DEF StatPath
<1>4. ASSUME NEW path \in listed, path # <<>>, Append(path, Last(path)) \notin listed
      PROVE  StatPath(Append(path, Last(path)), listed) = path
  <2>1. path \in Seq(S)
    <3>1. path = dir \/ \E k \in DOMAIN names : path = Append(dir, names[k])
      OBVIOUS
    <3> HIDE DEF root, dir, names, style, nodes, listed
    <3>2. \A k \in DOMAIN names : Append(dir, names[k]) \in Seq(S)
      BY <1>1, <1>2
    <3> QED BY <1>1, <3>1, <3>2
  <2> HIDE DEF listed, root, dir, names, nodes
  <2>2. path # <<>>
    BY <1>4
  <2>3. path \in listed /\ Append(path, Last(path)) \notin listed
    BY <1>4
  <2> QED BY <2>1, <2>2, <2>3, StatFinds, Zenon
<1> HIDE DEF root, dir, names, style
<1>5. /\ DOMAIN nodes = DOMAIN names
      /\ \A k \in DOMAIN names : /\ nodes[k].name = names[k]
                                  /\ NodePath(nodes[k]) = Shown(dir, names[k], style)
  BY <1>1, <1>2, ReportedAre
<1> HIDE DEF nodes, listed
<1>6. ASSUME NEW k \in DOMAIN nodes
      PROVE  /\ parsed(k).ok
             /\ ResolvePath(resolved(k), root) = resolved(k)
             /\ ~ambiguous(k) => /\ FindExact(nodes, resolved(k)) = k
                                 /\ split(k).name = nodes[k].name
                                 /\ ParentText(resolved(k)) = dir
  <2> DEFINE e == <<>>
             n == names[k]
             p == Shown(dir, n, style)
             q == PublicPath(p, root)
             r == ResolvePath(q, root)
             target == Append(dir, n)
  <2>1. n \in S /\ k \in 1..Len(names) /\ nodes[k].name = n /\ NodePath(nodes[k]) = p
    BY <1>2, <1>5
  <2>2. p \in Seq(S)
    BY <1>1, <2>1 DEF Shown
  <2>3. /\ target \in Seq(S) /\ Last(target) = n /\ Front(target) = dir
        /\ target # e /\ Len(target) = Len(dir) + 1
    BY <1>1, <2>1, Appended
  <2> HIDE DEF p, n, target
  <2>4. q \in Seq(S)
    BY <1>1, <2>2, PublicIs
  <2> HIDE DEF q
  <2>5. parsed(k).ok /\ parsed(k).path = q
    <3>1. shown(k) = q
      BY <2>1 DEF q
    <3>2. ParseWfx(BuildWfx("c", q)) = [ok |-> TRUE, connection |-> "c", path |-> q]
      BY DEF ParseWfx, BuildWfx, NoName
    <3> HIDE DEF shown
    <3> QED BY <3>1, <3>2
  <2>6. resolved(k) = r /\ split(k) = ParentAndName(q, root)
    BY <2>5
  <2>7. ResolvePath(r, root) = r
    <3>1. NoName \in T /\ q \in Seq(T) /\ root \in Seq(T)
      BY <1>1, <2>4
    <3> HIDE DEF T
    <3> QED BY <3>1, ResolvedStays
  <2>8. ASSUME ~ambiguous(k)
        PROVE  /\ FindExact(nodes, r) = k
               /\ ParentAndName(q, root).name = n
               /\ ParentText(r) = dir
    <3>1. /\ root # e => ~IsPrefix(root, q)
          /\ ~(style = "folder" /\ dir # e /\ Last(dir) = n)
          /\ root = e => dir = e
      BY <2>1, <2>8 DEF q
    <3>2. p = target
      BY <1>1, <3>1 DEF p, Shown, target
    <3> HIDE DEF e
    <3>3. CASE root # e
      <4>1. FindExact(nodes, target) = k
        BY <1>1, <2>1, <3>2, FoundBelowRoot DEF nodes, target, p, n
      <4>2. r = target
        <5>1. IsPrefix(root, target)
          BY <1>1, <2>1, PrefixExtends DEF target
        <5>2. root \o q = target /\ Len(q) = Len(target) - Len(root) /\ Len(root) <= Len(dir)
          BY <1>1, <2>2, <3>2, <5>1, PublicIs, PrefixIs DEF q
        <5>3. q # e
          <6>1. Len(q) # 0
            BY <1>1, <2>3, <5>2
          <6> QED BY <6>1 DEF e
        <5> QED BY <3>1, <3>3, <5>2, <5>3 DEF ResolvePath, AtOrBelow, e
      <4>3. ParentText(target) = dir
        <5>1. dir # <<NoName>>
          <6>1. dir[1] # NoName \/ Len(dir) # 1
            BY <1>1
          <6> QED BY <6>1
        <5> QED BY <2>3, <5>1 DEF ParentText, ParentOf, e
      <4>4. ParentAndName(q, root).name = n
        BY <2>3, <4>2 DEF ParentAndName, e
      <4> QED BY <4>1, <4>2, <4>3, <4>4
    <3>4. CASE root = e
      <4> DEFINE deep == Append(<<NoName>>, n)
      <4>1. dir = e /\ target = Append(e, n)
        BY <3>1, <3>4 DEF target
      <4>2. q = target
        BY <1>1, <2>2, <3>2, <3>4, PublicIs DEF q, e
      <4>3. r = deep
        <5>1. Head(target) = n /\ <<NoName>> \o target = deep
          BY <2>1, <4>1 DEF e
        <5>2. n # NoName
          BY <2>1
        <5> QED BY <2>3, <3>4, <4>2, <5>1, <5>2 DEF ResolvePath, AtOrBelow, e
      <4>4. NoName \in T /\ names \in Seq(T) /\ Named(names)
        BY <1>1 DEF Named
      <4>5. FindExact(nodes, deep) = k /\ ParentText(deep) = e
        <5> HIDE DEF T, n, nodes, e, deep
        <5>1. k \in 1..Len(names) /\ Distinct(names)
          BY <1>1, <2>1
        <5>2. TopIsFound(names, style, k)
          BY <4>4, <5>1, FoundAtTop
        <5> QED BY <4>1, <5>2, Zenon DEF nodes, n, e, deep, TopIsFound
      <4>6. ParentAndName(q, root).name = n
        <5>1. Last(deep) = n /\ deep # e
          <6> DEFINE top == <<NoName>>
          <6>1. top \in Seq(T) /\ n \in T
            BY <2>1
          <6> HIDE DEF T, top, e
          <6>2. Last(Append(top, n)) = n /\ Append(top, n) # <<>>
            BY <6>1, Appended
          <6> QED BY <6>2, Zenon DEF top, e
        <5> HIDE DEF deep
        <5> QED BY <4>3, <5>1 DEF ParentAndName, e
      <4> QED BY <4>1, <4>3, <4>5, <4>6
    <3> QED BY <3>3, <3>4
  <2> QED BY <2>1, <2>5, <2>6, <2>7, <2>8
<1> QED BY <1>3, <1>4, <1>6 DEF ListedIsFound, root, dir, names, style, nodes, listed

-----------------------------------------------------------------------------
(* Layers of configuration.                                                *)

(* The texts, values and sections made of keys in K and texts in T.        *)
Maps(K, T)     == UNION {[D -> T] : D \in SUBSET K}
Entries(K, T)  == {Text(t) : t \in T} \cup {Section(m) : m \in Maps(K, T)}
Sections(K, T) == UNION {[D -> Entries(K, T)] : D \in SUBSET K}

LEMMA MapIs ==
  ASSUME NEW K, NEW T
  PROVE  \A m : m \in Maps(K, T) <=> /\ m = [a \in DOMAIN m |-> m[a]] /\ DOMAIN m \subseteq K
                                     /\ \A a \in DOMAIN m : m[a] \in T
BY DEF Maps

LEMMA ValueIs ==
  ASSUME NEW K, NEW T, NEW v \in Entries(K, T)
  PROVE  \/ v.kind = "text" /\ v = Text(v.is) /\ v.is \in T /\ v.kind # "section"
         \/ v.kind = "section" /\ v = Section(v.of) /\ v.of \in Maps(K, T) /\ v.kind # "text"
<1>1. CASE \E t \in T : v = Text(t)
  BY <1>1 DEF Text
<1>2. CASE \E m \in Maps(K, T) : v = Section(m)
  BY <1>2 DEF Section
<1> QED BY <1>1, <1>2 DEF Entries

LEMMA SectionIs ==
  ASSUME NEW K, NEW T
  PROVE  \A s : s \in Sections(K, T) <=> /\ s = [a \in DOMAIN s |-> s[a]] /\ DOMAIN s \subseteq K
                                         /\ \A a \in DOMAIN s : s[a] \in Entries(K, T)
BY DEF Sections

(* The leaves of a section.                                                *)
AtText(s, k, leaf) == k \in DOMAIN s /\ s[k].kind = "text" /\ leaf = <<<<k>>, s[k].is>>
AtSection(s, k, a, leaf) ==
  /\ k \in DOMAIN s /\ s[k].kind # "text" /\ a \in DOMAIN s[k].of
  /\ leaf = <<<<k, a>>, s[k].of[a]>>

LEMMA LeafIs ==
  ASSUME NEW s, NEW leaf
  PROVE  leaf \in Leaves(s) <=> \/ \E k : AtText(s, k, leaf)
                                \/ \E k, a : AtSection(s, k, a, leaf)
BY DEF Leaves, AtText, AtSection

MergedTexts(m, base, over) ==
  /\ DOMAIN m = DOMAIN base \cup DOMAIN over
  /\ \A a \in DOMAIN over : m[a] = over[a]
  /\ \A a \in DOMAIN base \ DOMAIN over : m[a] = base[a]

LEMMA MergeTextsIs ==
  ASSUME NEW K, NEW T, NEW base \in Maps(K, T), NEW over \in Maps(K, T)
  PROVE  /\ MergeTexts(base, over) \in Maps(K, T)
         /\ MergedTexts(MergeTexts(base, over), base, over)
<1> DEFINE m == [a \in DOMAIN base \cup DOMAIN over |->
                   IF a \in DOMAIN over THEN over[a] ELSE base[a]]
<1>1. /\ DOMAIN base \subseteq K /\ \A a \in DOMAIN base : base[a] \in T
      /\ DOMAIN over \subseteq K /\ \A a \in DOMAIN over : over[a] \in T
  BY MapIs
<1>2. m \in Maps(K, T)
  <2>1. m \in [DOMAIN base \cup DOMAIN over -> T]
    BY <1>1
  <2> QED BY <1>1, <2>1 DEF Maps
<1> QED BY <1>2 DEF MergeTexts, MergedTexts

(* What overrides is there, and what it leaves out is the base's.          *)
Merged(m, base, over) ==
  /\ DOMAIN m = DOMAIN base \cup DOMAIN over
  /\ \A k \in DOMAIN over :
       (k \notin DOMAIN base \/ base[k].kind # "section" \/ over[k].kind # "section")
         => m[k] = over[k]
  /\ \A k \in DOMAIN base \ DOMAIN over : m[k] = base[k]
  /\ \A k \in DOMAIN base \cap DOMAIN over :
       base[k].kind = "section" /\ over[k].kind = "section"
         => m[k] = Section(MergeTexts(base[k].of, over[k].of))

LEMMA MergeIs ==
  ASSUME NEW K, NEW T, NEW base \in Sections(K, T), NEW over \in Sections(K, T)
  PROVE  Merge(base, over) \in Sections(K, T) /\ Merged(Merge(base, over), base, over)
<1> DEFINE Both(k) == k \in DOMAIN base /\ base[k].kind = "section" /\ over[k].kind = "section"
           At(k) == IF k \notin DOMAIN over THEN base[k]
                    ELSE IF Both(k) THEN Section(MergeTexts(base[k].of, over[k].of))
                    ELSE over[k]
           m == [k \in DOMAIN base \cup DOMAIN over |-> At(k)]
<1>1. Merge(base, over) = m
  BY DEF Merge
<1>2. /\ DOMAIN base \subseteq K /\ \A k \in DOMAIN base : base[k] \in Entries(K, T)
      /\ DOMAIN over \subseteq K /\ \A k \in DOMAIN over : over[k] \in Entries(K, T)
  BY SectionIs
<1>3. ASSUME NEW k \in DOMAIN base \cup DOMAIN over
      PROVE  At(k) \in Entries(K, T)
  <2>1. CASE k \in DOMAIN over /\ Both(k)
    <3>1. base[k].of \in Maps(K, T) /\ over[k].of \in Maps(K, T)
      BY <1>2, <2>1, ValueIs
    <3>2. MergeTexts(base[k].of, over[k].of) \in Maps(K, T)
      BY <3>1, MergeTextsIs
    <3> QED BY <2>1, <3>2 DEF Entries
  <2>2. CASE ~(k \in DOMAIN over /\ Both(k))
    BY <1>2, <2>2
  <2> QED BY <2>1, <2>2
<1> HIDE DEF At
<1>4. m \in Sections(K, T)
  <2>1. m \in [DOMAIN base \cup DOMAIN over -> Entries(K, T)]
    BY <1>3
  <2> QED BY <1>2, <2>1 DEF Sections
<1> QED BY <1>1, <1>4 DEF At, Merged

Unblanked(m, texts) ==
  /\ \A a : a \in DOMAIN m <=> a \in DOMAIN texts /\ texts[a] # NoText
  /\ \A a \in DOMAIN m : m[a] = texts[a]

LEMMA NonBlankIs ==
  ASSUME NEW K, NEW T, NEW texts \in Maps(K, T)
  PROVE  NonBlank(texts) \in Maps(K, T) /\ Unblanked(NonBlank(texts), texts)
<1> DEFINE D == {a \in DOMAIN texts : texts[a] # NoText}
           m == [a \in D |-> texts[a]]
<1>1. DOMAIN texts \subseteq K /\ \A a \in DOMAIN texts : texts[a] \in T
  BY MapIs
<1>2. m \in [D -> T] /\ D \in SUBSET K
  BY <1>1
<1>3. m \in Maps(K, T)
  BY <1>2 DEF Maps
<1> QED BY <1>3 DEF NonBlank, Unblanked

(* No blank text and no section without a text is left.                    *)
AllStripped(m, section) ==
  /\ DOMAIN m \subseteq DOMAIN section
  /\ \A k \in DOMAIN section :
       k \in DOMAIN m <=> Stripped(section[k]) \notin {Text(NoText), Section(EmptyMap)}
  /\ \A k \in DOMAIN m : m[k] = Stripped(section[k])

LEMMA StripIs ==
  ASSUME NEW K, NEW T, NEW section \in Sections(K, T)
  PROVE  Strip(section) \in Sections(K, T) /\ AllStripped(Strip(section), section)
<1> DEFINE D == {k \in DOMAIN section :
                   Stripped(section[k]) \notin {Text(NoText), Section(EmptyMap)}}
           At(k) == Stripped(section[k])
           m == [k \in D |-> At(k)]
<1>1. DOMAIN section \subseteq K /\ \A k \in DOMAIN section : section[k] \in Entries(K, T)
  BY SectionIs
<1>2. ASSUME NEW k \in DOMAIN section
      PROVE  At(k) \in Entries(K, T)
  <2>1. CASE section[k].kind = "text"
    BY <1>1, <2>1 DEF Stripped
  <2>2. CASE section[k].kind # "text"
    <3>1. section[k].of \in Maps(K, T)
      BY <1>1, <2>2, ValueIs
    <3>2. NonBlank(section[k].of) \in Maps(K, T)
      BY <3>1, NonBlankIs
    <3> QED BY <2>2, <3>2 DEF Entries, Stripped
  <2> QED BY <2>1, <2>2
<1> HIDE DEF At
<1>3. m \in [D -> Entries(K, T)] /\ D \in SUBSET K
  BY <1>1, <1>2
<1>4. m \in Sections(K, T)
  BY <1>3 DEF Sections
<1> QED BY <1>4 DEF Strip, At, AllStripped

LEMMA SectionPart ==
  ASSUME NEW m
  PROVE  Section(m).kind = "section" /\ Section(m).kind # "text" /\ Section(m).of = m
BY DEF Section

(* What overrides is in a merge, with what is left of the base ...         *)
LEMMA MergeHasOver ==
  ASSUME NEW K, NEW T, NEW base \in Sections(K, T), NEW over \in Sections(K, T),
         NEW leaf \in Leaves(over)
  PROVE  leaf \in Leaves(Merge(base, over))
<1> DEFINE m == Merge(base, over)
<1>1. /\ \A k \in DOMAIN base : base[k] \in Entries(K, T)
      /\ \A k \in DOMAIN over : over[k] \in Entries(K, T)
  BY SectionIs
<1>2. /\ DOMAIN m = DOMAIN base \cup DOMAIN over
      /\ \A k \in DOMAIN over :
           (k \notin DOMAIN base \/ base[k].kind # "section" \/ over[k].kind # "section")
             => m[k] = over[k]
      /\ \A k \in DOMAIN base \cap DOMAIN over :
           base[k].kind = "section" /\ over[k].kind = "section"
             => m[k] = Section(MergeTexts(base[k].of, over[k].of))
  <2>1. Merged(m, base, over)
    BY MergeIs
  <2> HIDE DEF m
  <2> QED BY <2>1 DEF Merged
<1> HIDE DEF m
<1>3. ASSUME NEW k, AtText(over, k, leaf)
      PROVE  AtText(m, k, leaf)
  BY <1>1, <1>2, <1>3, ValueIs DEF AtText
<1>4. ASSUME NEW k, NEW a, AtSection(over, k, a, leaf)
      PROVE  AtSection(m, k, a, leaf)
  <2>1. /\ k \in DOMAIN over /\ over[k].kind = "section" /\ over[k].of \in Maps(K, T)
        /\ a \in DOMAIN over[k].of /\ over[k].kind # "text"
    BY <1>1, <1>4, ValueIs DEF AtSection
  <2>2. CASE k \in DOMAIN base /\ base[k].kind = "section"
    <3>1. base[k].of \in Maps(K, T)
      BY <1>1, <2>2, ValueIs
    <3> DEFINE t == MergeTexts(base[k].of, over[k].of)
    <3>2. a \in DOMAIN t /\ t[a] = over[k].of[a]
      <4>1. MergedTexts(t, base[k].of, over[k].of)
        BY <2>1, <3>1, MergeTextsIs
      <4> HIDE DEF t
      <4> QED BY <2>1, <3>1, <4>1 DEF MergedTexts
    <3> HIDE DEF t
    <3>3. m[k] = Section(t)
      BY <1>2, <2>1, <2>2 DEF t
    <3>4. m[k].kind # "text" /\ m[k].of = t
      BY <3>3, SectionPart
    <3> QED BY <1>2, <1>4, <2>1, <3>2, <3>4 DEF AtSection
  <2>3. CASE ~(k \in DOMAIN base /\ base[k].kind = "section")
    BY <1>2, <1>4, <2>1, <2>3 DEF AtSection
  <2> QED BY <2>2, <2>3
<1>5. \E k : AtText(m, k, leaf) \/ \E a : AtSection(m, k, a, leaf)
  BY <1>3, <1>4, LeafIs
<1> QED BY <1>5, LeafIs DEF m

LEMMA MergeHasOnly ==
  ASSUME NEW K, NEW T, NEW base \in Sections(K, T), NEW over \in Sections(K, T),
         NEW leaf \in Leaves(Merge(base, over))
  PROVE  leaf \in Leaves(base) \/ leaf \in Leaves(over)
<1> DEFINE m == Merge(base, over)
<1>1. /\ \A k \in DOMAIN base : base[k] \in Entries(K, T)
      /\ \A k \in DOMAIN over : over[k] \in Entries(K, T)
  BY SectionIs
<1>2. /\ DOMAIN m = DOMAIN base \cup DOMAIN over
      /\ \A k \in DOMAIN over :
           (k \notin DOMAIN base \/ base[k].kind # "section" \/ over[k].kind # "section")
             => m[k] = over[k]
      /\ \A k \in DOMAIN base \ DOMAIN over : m[k] = base[k]
      /\ \A k \in DOMAIN base \cap DOMAIN over :
           base[k].kind = "section" /\ over[k].kind = "section"
             => m[k] = Section(MergeTexts(base[k].of, over[k].of))
  <2>1. Merged(m, base, over)
    BY MergeIs
  <2> HIDE DEF m
  <2> QED BY <2>1 DEF Merged
<1> HIDE DEF m
<1>3. ASSUME NEW k, k \in DOMAIN m
      PROVE  \/ k \in DOMAIN over /\ m[k] = over[k]
             \/ k \in DOMAIN base /\ m[k] = base[k]
             \/ /\ k \in DOMAIN base /\ k \in DOMAIN over
                /\ base[k].kind = "section" /\ over[k].kind = "section"
                /\ m[k] = Section(MergeTexts(base[k].of, over[k].of))
  BY <1>2, <1>3
<1>4. ASSUME NEW k, AtText(m, k, leaf)
      PROVE  AtText(over, k, leaf) \/ AtText(base, k, leaf)
  <2>1. k \in DOMAIN m /\ m[k].kind = "text"
    BY <1>4 DEF AtText
  <2>2. \A t : m[k] # Section(t)
    BY <2>1, SectionPart
  <2>3. (k \in DOMAIN over /\ m[k] = over[k]) \/ (k \in DOMAIN base /\ m[k] = base[k])
    BY <1>3, <2>1, <2>2
  <2> QED BY <1>4, <2>3 DEF AtText
<1>5. ASSUME NEW k, NEW a, AtSection(m, k, a, leaf)
      PROVE  AtSection(over, k, a, leaf) \/ AtSection(base, k, a, leaf)
  <2>1. k \in DOMAIN m
    BY <1>5 DEF AtSection
  <2>2. CASE k \in DOMAIN over /\ m[k] = over[k]
    BY <1>5, <2>2 DEF AtSection
  <2>3. CASE k \in DOMAIN base /\ m[k] = base[k]
    BY <1>5, <2>3 DEF AtSection
  <2>4. CASE /\ k \in DOMAIN base /\ k \in DOMAIN over
             /\ base[k].kind = "section" /\ over[k].kind = "section"
             /\ m[k] = Section(MergeTexts(base[k].of, over[k].of))
    <3> DEFINE t == MergeTexts(base[k].of, over[k].of)
    <3>1. /\ base[k].of \in Maps(K, T) /\ over[k].of \in Maps(K, T)
          /\ base[k].kind # "text" /\ over[k].kind # "text"
      BY <1>1, <2>4, ValueIs
    <3>2. /\ DOMAIN t = DOMAIN base[k].of \cup DOMAIN over[k].of
          /\ \A b \in DOMAIN over[k].of : t[b] = over[k].of[b]
          /\ \A b \in DOMAIN base[k].of \ DOMAIN over[k].of : t[b] = base[k].of[b]
      <4>1. MergedTexts(t, base[k].of, over[k].of)
        BY <3>1, MergeTextsIs
      <4> HIDE DEF t
      <4> QED BY <3>1, <4>1 DEF MergedTexts
    <3>3. m[k].of = t
      BY <2>4, SectionPart
    <3> HIDE DEF t
    <3>4. a \in DOMAIN t /\ leaf = <<<<k, a>>, t[a]>>
      BY <1>5, <3>3 DEF AtSection
    <3>5. CASE a \in DOMAIN over[k].of
      BY <2>4, <3>1, <3>2, <3>4, <3>5 DEF AtSection
    <3>6. CASE a \notin DOMAIN over[k].of
      BY <2>4, <3>1, <3>2, <3>4, <3>6 DEF AtSection
    <3> QED BY <3>5, <3>6
  <2> QED BY <1>3, <2>1, <2>2, <2>3, <2>4
<1>6. \/ \E k : AtText(m, k, leaf)
      \/ \E k, a : AtSection(m, k, a, leaf)
  BY LeafIs DEF m
<1>7. \/ \E k : AtText(over, k, leaf) \/ AtText(base, k, leaf)
      \/ \E k, a : AtSection(over, k, a, leaf) \/ AtSection(base, k, a, leaf)
  BY <1>4, <1>5, <1>6
<1> QED BY <1>7, LeafIs

(* ... which is what has nothing that overrides it.                        *)
Overridden(over, leaf) ==
  \/ \E k \in DOMAIN over : leaf[1] = <<k>>
  \/ \E k \in DOMAIN over : \E a : /\ leaf[1] = <<k, a>>
                                   /\ over[k].kind = "text" \/ a \in DOMAIN over[k].of

LEMMA MergeHasBase ==
  ASSUME NEW K, NEW T, NEW base \in Sections(K, T), NEW over \in Sections(K, T),
         NEW leaf \in Leaves(base)
  PROVE  leaf \in Leaves(Merge(base, over)) \/ Overridden(over, leaf)
<1> DEFINE m == Merge(base, over)
<1> SUFFICES ASSUME ~Overridden(over, leaf)
             PROVE  leaf \in Leaves(m)
  OBVIOUS
<1>1. /\ \A k \in DOMAIN base : base[k] \in Entries(K, T)
      /\ \A k \in DOMAIN over : over[k] \in Entries(K, T)
  BY SectionIs
<1>2. /\ DOMAIN m = DOMAIN base \cup DOMAIN over
      /\ \A k \in DOMAIN base \ DOMAIN over : m[k] = base[k]
      /\ \A k \in DOMAIN base \cap DOMAIN over :
           base[k].kind = "section" /\ over[k].kind = "section"
             => m[k] = Section(MergeTexts(base[k].of, over[k].of))
  <2>1. Merged(m, base, over)
    BY MergeIs
  <2> HIDE DEF m
  <2> QED BY <2>1 DEF Merged
<1> HIDE DEF m
<1>3. ASSUME NEW k, AtText(base, k, leaf)
      PROVE  AtText(m, k, leaf)
  <2>1. leaf[1] = <<k>>
    BY <1>3 DEF AtText
  <2>2. k \notin DOMAIN over
    BY <2>1 DEF Overridden
  <2> QED BY <1>2, <1>3, <2>2 DEF AtText
<1>4. ASSUME NEW k, NEW a, AtSection(base, k, a, leaf)
      PROVE  AtSection(m, k, a, leaf)
  <2>1. leaf[1] = <<k, a>>
    BY <1>4 DEF AtSection
  <2>2. k \in DOMAIN over => over[k].kind # "text" /\ a \notin DOMAIN over[k].of
    BY <2>1 DEF Overridden
  <2>3. k \in DOMAIN base /\ base[k].kind = "section" /\ base[k].of \in Maps(K, T)
    BY <1>1, <1>4, ValueIs DEF AtSection
  <2>4. CASE k \in DOMAIN over
    <3> DEFINE t == MergeTexts(base[k].of, over[k].of)
    <3>1. over[k].kind = "section" /\ over[k].of \in Maps(K, T)
      BY <1>1, <2>2, <2>4, ValueIs
    <3>2. a \in DOMAIN t /\ t[a] = base[k].of[a]
      <4>1. MergedTexts(t, base[k].of, over[k].of)
        BY <1>4, <2>2, <2>3, <2>4, <3>1, MergeTextsIs
      <4> HIDE DEF t
      <4> QED BY <1>4, <2>2, <2>3, <2>4, <3>1, <4>1 DEF MergedTexts, AtSection
    <3> HIDE DEF t
    <3>3. m[k] = Section(t)
      BY <1>2, <2>3, <2>4, <3>1 DEF t
    <3>4. m[k].kind # "text" /\ m[k].of = t
      BY <3>3, SectionPart
    <3> QED BY <1>2, <1>4, <2>3, <3>2, <3>4 DEF AtSection
  <2>5. CASE k \notin DOMAIN over
    BY <1>2, <1>4, <2>5 DEF AtSection
  <2> QED BY <2>4, <2>5
<1>5. \E k : AtText(m, k, leaf) \/ \E a : AtSection(m, k, a, leaf)
  BY <1>3, <1>4, LeafIs
<1> QED BY <1>5, LeafIs

(* What is left of a section when blanks are stripped is what is not blank.*)
LEMMA StrippedIs ==
  ASSUME NEW K, NEW T, NEW v \in Entries(K, T)
  PROVE  /\ v.kind = "text" => Stripped(v) = v
         /\ v.kind = "section" => /\ Stripped(v) = Section(NonBlank(v.of))
                                  /\ Unblanked(NonBlank(v.of), v.of)
<1>1. v.kind = "section" => v.of \in Maps(K, T) /\ v.kind # "text"
  BY ValueIs
<1>2. v.kind = "section" => Unblanked(NonBlank(v.of), v.of)
  BY <1>1, NonBlankIs
<1> QED BY <1>1, <1>2 DEF Stripped

LEMMA TextIs ==
  /\ \A m, t : Section(m) # Text(t)
  /\ \A s, t : Text(s) = Text(t) => s = t
  /\ \A m, n : Section(m) = Section(n) => m = n
<1>1. \A m, t : Section(m).kind # Text(t).kind
  BY DEF Section, Text
<1>2. \A s : Text(s).is = s /\ Section(s).of = s
  BY DEF Section, Text
<1> QED BY <1>1, <1>2

LEMMA StripHas ==
  ASSUME NEW K, NEW T, NEW section \in Sections(K, T),
         NEW leaf \in Leaves(section), leaf[2] # NoText
  PROVE  leaf \in Leaves(Strip(section))
<1> DEFINE m == Strip(section)
<1>1. \A k \in DOMAIN section : section[k] \in Entries(K, T)
  BY SectionIs
<1>2. AllStripped(m, section)
  BY StripIs
<1> HIDE DEF m
<1>3. ASSUME NEW k, AtText(section, k, leaf)
      PROVE  AtText(m, k, leaf)
  <2>1. /\ k \in DOMAIN section /\ section[k] \in Entries(K, T) /\ section[k].kind = "text"
        /\ section[k].is # NoText
    BY <1>1, <1>3 DEF AtText
  <2>2. Stripped(section[k]) = section[k] /\ section[k] = Text(section[k].is)
    BY <2>1, StrippedIs, ValueIs
  <2>3. Stripped(section[k]) # Text(NoText) /\ Stripped(section[k]) # Section(EmptyMap)
    BY <2>1, <2>2, TextIs
  <2>4. k \in DOMAIN m /\ m[k] = section[k]
    BY <1>2, <2>1, <2>2, <2>3 DEF AllStripped
  <2> QED BY <1>3, <2>4 DEF AtText
<1>4. ASSUME NEW k, NEW a, AtSection(section, k, a, leaf)
      PROVE  AtSection(m, k, a, leaf)
  <2>1. /\ k \in DOMAIN section /\ section[k] \in Entries(K, T) /\ section[k].kind # "text"
        /\ a \in DOMAIN section[k].of /\ section[k].of[a] # NoText
    BY <1>1, <1>4 DEF AtSection
  <2>2. section[k].kind = "section"
    BY <2>1, ValueIs
  <2> DEFINE n == NonBlank(section[k].of)
  <2>3. Stripped(section[k]) = Section(n) /\ Unblanked(n, section[k].of)
    BY <2>1, <2>2, StrippedIs
  <2> HIDE DEF n
  <2>4. a \in DOMAIN n /\ n[a] = section[k].of[a]
    BY <2>1, <2>3 DEF Unblanked
  <2>5. n # EmptyMap
    BY <2>4 DEF EmptyMap
  <2>6. k \in DOMAIN m /\ m[k] = Section(n)
    BY <1>2, <2>1, <2>3, <2>5, TextIs DEF AllStripped
  <2>7. m[k].kind # "text" /\ m[k].of = n
    BY <2>6, SectionPart
  <2> QED BY <1>4, <2>4, <2>6, <2>7 DEF AtSection
<1>5. \E k : AtText(m, k, leaf) \/ \E a : AtSection(m, k, a, leaf)
  BY <1>3, <1>4, LeafIs
<1> QED BY <1>5, LeafIs DEF m

LEMMA StripHasOnly ==
  ASSUME NEW K, NEW T, NEW section \in Sections(K, T),
         NEW leaf \in Leaves(Strip(section))
  PROVE  leaf \in Leaves(section) /\ leaf[2] # NoText
<1> DEFINE m == Strip(section)
<1>1. \A k \in DOMAIN section : section[k] \in Entries(K, T)
  BY SectionIs
<1>2. AllStripped(m, section)
  BY StripIs
<1> HIDE DEF m
<1>3. ASSUME NEW k, AtText(m, k, leaf)
      PROVE  AtText(section, k, leaf) /\ leaf[2] # NoText
  <2>1. /\ k \in DOMAIN section /\ section[k] \in Entries(K, T) /\ m[k] = Stripped(section[k])
        /\ m[k] # Text(NoText) /\ m[k].kind = "text" /\ leaf = <<<<k>>, m[k].is>>
    BY <1>1, <1>2, <1>3 DEF AtText, AllStripped
  <2>2. section[k].kind = "text"
    BY <2>1, StrippedIs, SectionPart, ValueIs
  <2>3. m[k] = section[k] /\ section[k] = Text(section[k].is)
    BY <2>1, <2>2, StrippedIs, ValueIs
  <2>4. section[k].is # NoText
    BY <2>1, <2>3
  <2> QED BY <2>1, <2>2, <2>3, <2>4 DEF AtText
<1>4. ASSUME NEW k, NEW a, AtSection(m, k, a, leaf)
      PROVE  AtSection(section, k, a, leaf) /\ leaf[2] # NoText
  <2>1. /\ k \in DOMAIN section /\ section[k] \in Entries(K, T) /\ m[k] = Stripped(section[k])
        /\ m[k].kind # "text" /\ a \in DOMAIN m[k].of /\ leaf = <<<<k, a>>, m[k].of[a]>>
    BY <1>1, <1>2, <1>4 DEF AtSection, AllStripped
  <2>2. section[k].kind = "section" /\ section[k].kind # "text"
    BY <2>1, StrippedIs, ValueIs
  <2> DEFINE n == NonBlank(section[k].of)
  <2>3. m[k] = Section(n) /\ Unblanked(n, section[k].of)
    BY <2>1, <2>2, StrippedIs
  <2> HIDE DEF n
  <2>4. m[k].of = n
    BY <2>3, SectionPart
  <2>5. a \in DOMAIN section[k].of /\ n[a] = section[k].of[a] /\ n[a] # NoText
    BY <2>1, <2>3, <2>4 DEF Unblanked
  <2> QED BY <2>1, <2>2, <2>4, <2>5 DEF AtSection
<1>5. \/ \E k : AtText(m, k, leaf)
      \/ \E k, a : AtSection(m, k, a, leaf)
  BY LeafIs DEF m
<1>6. /\ \/ \E k : AtText(section, k, leaf)
         \/ \E k, a : AtSection(section, k, a, leaf)
      /\ leaf[2] # NoText
  BY <1>3, <1>4, <1>5
<1> QED BY <1>6, LeafIs

(* A key that is left has a text that is left.                             *)
LEMMA StripHasSome ==
  ASSUME NEW K, NEW T, NEW section \in Sections(K, T), NEW k \in DOMAIN Strip(section)
  PROVE  \E leaf \in Leaves(Strip(section)) : leaf[1] = <<k>> \/ \E a \in K : leaf[1] = <<k, a>>
<1> DEFINE m == Strip(section)
<1>1. \A j \in DOMAIN section : section[j] \in Entries(K, T)
  BY SectionIs
<1>2. AllStripped(m, section)
  BY StripIs
<1> HIDE DEF m
<1>3. /\ k \in DOMAIN section /\ section[k] \in Entries(K, T) /\ m[k] = Stripped(section[k])
      /\ m[k] # Section(EmptyMap) /\ k \in DOMAIN m
  BY <1>1, <1>2 DEF AllStripped, m
<1>4. CASE section[k].kind = "text"
  <2> DEFINE leaf == <<<<k>>, m[k].is>>
  <2>1. m[k] = section[k]
    BY <1>3, <1>4, StrippedIs
  <2>2. AtText(m, k, leaf)
    BY <1>3, <1>4, <2>1 DEF AtText
  <2>3. leaf \in Leaves(m) /\ leaf[1] = <<k>>
    BY <2>2, LeafIs
  <2> QED BY <2>3 DEF m
<1>5. CASE section[k].kind = "section"
  <2> DEFINE n == NonBlank(section[k].of)
  <2>1. m[k] = Section(n) /\ Unblanked(n, section[k].of) /\ section[k].of \in Maps(K, T)
    BY <1>3, <1>5, StrippedIs, ValueIs
  <2>2. n \in Maps(K, T)
    BY <2>1, NonBlankIs
  <2> HIDE DEF n
  <2>3. n # EmptyMap /\ n = [a \in DOMAIN n |-> n[a]] /\ DOMAIN n \subseteq K
    BY <1>3, <2>1, <2>2, MapIs
  <2>4. DOMAIN n # {}
    BY <2>3 DEF EmptyMap
  <2>5. PICK a \in DOMAIN n : TRUE
    BY <2>4
  <2> DEFINE leaf == <<<<k, a>>, n[a]>>
  <2>6. m[k].kind # "text" /\ m[k].of = n
    BY <2>1, SectionPart
  <2>7. AtSection(m, k, a, leaf)
    BY <1>3, <2>5, <2>6 DEF AtSection
  <2>8. leaf \in Leaves(m) /\ leaf[1] = <<k, a>> /\ a \in K
    BY <2>3, <2>5, <2>7, LeafIs
  <2> QED BY <2>8 DEF m
<1> QED BY <1>3, <1>4, <1>5, ValueIs

LEMMA RelatedOnes ==
  ASSUME NEW K, NEW k \in K, NEW a \in K, NEW b \in K
  PROVE  /\ Related(<<k>>, <<k>>) /\ Related(<<k, a>>, <<k>>)
         /\ Related(<<k>>, <<k, a>>) /\ Related(<<k, a>>, <<k, a>>)
<1> DEFINE one == <<k>>
           two == <<k, a>>
<1>1. /\ one \in Seq(K) /\ Len(one) = 1 /\ one[1] = k
      /\ two \in Seq(K) /\ Len(two) = 2 /\ two[1] = k
  OBVIOUS
<1> HIDE DEF one, two
<1>2. IsPrefix(one, one) /\ IsPrefix(one, two) /\ IsPrefix(two, two)
  BY <1>1, PrefixIs
<1> QED BY <1>2 DEF Related, one, two

LEMMA PathIs ==
  ASSUME NEW K, NEW T, NEW s \in Sections(K, T), NEW leaf \in Leaves(s)
  PROVE  \E k \in K : leaf[1] = <<k>> \/ \E a \in K : leaf[1] = <<k, a>>
<1>1. DOMAIN s \subseteq K /\ \A k \in DOMAIN s : s[k] \in Entries(K, T)
  BY SectionIs
<1>2. ASSUME NEW k, AtText(s, k, leaf)
      PROVE  k \in K /\ leaf[1] = <<k>>
  BY <1>1, <1>2 DEF AtText
<1>3. ASSUME NEW k, NEW a, AtSection(s, k, a, leaf)
      PROVE  k \in K /\ a \in K /\ leaf[1] = <<k, a>>
  <2>1. s[k].of \in Maps(K, T)
    BY <1>1, <1>3, ValueIs DEF AtSection
  <2>2. DOMAIN s[k].of \subseteq K
    BY <2>1, MapIs
  <2> QED BY <1>1, <1>3, <2>2 DEF AtSection
<1> QED BY <1>2, <1>3, LeafIs

(* What keeps a driver's text from a connection is a text of its own.      *)
LEMMA OverriddenBy ==
  ASSUME NEW K, NEW T, NEW base \in Sections(K, T), NEW own \in Sections(K, T),
         NEW leaf \in Leaves(base), Overridden(Strip(own), leaf)
  PROVE  \E o \in Leaves(Strip(own)) : Related(o[1], leaf[1])
<1> DEFINE m == Strip(own)
<1>1. m \in Sections(K, T)
  BY StripIs
<1>2. \A k \in DOMAIN m : \E o \in Leaves(m) : o[1] = <<k>> \/ \E a \in K : o[1] = <<k, a>>
  BY StripHasSome
<1>3. PICK k \in K : leaf[1] = <<k>> \/ \E a \in K : leaf[1] = <<k, a>>
  BY PathIs
<1> HIDE DEF m
<1>4. DOMAIN m \subseteq K /\ \A j \in DOMAIN m : m[j] \in Entries(K, T)
  BY <1>1, SectionIs
<1>5. CASE leaf[1] = <<k>>
  <2>1. k \in DOMAIN m
    BY <1>5 DEF Overridden, m
  <2>2. PICK o \in Leaves(m) : o[1] = <<k>> \/ \E a \in K : o[1] = <<k, a>>
    BY <1>2, <2>1
  <2>3. Related(o[1], leaf[1])
    BY <1>5, <2>2, RelatedOnes
  <2> QED BY <2>2, <2>3 DEF m
<1>6. CASE \E a \in K : leaf[1] = <<k, a>>
  <2>1. PICK a \in K : leaf[1] = <<k, a>>
    BY <1>6
  <2>2. k \in DOMAIN m /\ (m[k].kind = "text" \/ a \in DOMAIN m[k].of)
    BY <2>1 DEF Overridden, m
  <2> DEFINE o1 == <<<<k>>, m[k].is>>
             o2 == <<<<k, a>>, m[k].of[a]>>
  <2>3. CASE m[k].kind = "text"
    <3>1. AtText(m, k, o1)
      BY <2>2, <2>3 DEF AtText
    <3>2. o1 \in Leaves(m) /\ o1[1] = <<k>>
      BY <3>1, LeafIs
    <3>3. Related(o1[1], leaf[1])
      BY <2>1, <3>2, RelatedOnes
    <3> QED BY <3>2, <3>3 DEF m
  <2>4. CASE m[k].kind # "text"
    <3>1. AtSection(m, k, a, o2)
      BY <2>2, <2>4 DEF AtSection
    <3>2. o2 \in Leaves(m) /\ o2[1] = <<k, a>>
      BY <3>1, LeafIs
    <3>3. Related(o2[1], leaf[1])
      BY <2>1, <3>2, RelatedOnes
    <3> QED BY <3>2, <3>3 DEF m
  <2> QED BY <2>3, <2>4
<1> QED BY <1>3, <1>5, <1>6

(* The files a connection is put together from.                            *)
Files(K, T) == [root : Sections(K, T), inner : Sections(K, T) \cup {Absent}] \cup {Absent}

LEMMA ExtractIs ==
  ASSUME NEW K, NEW T, NEW file \in Files(K, T), Given(file)
  PROVE  Extract(file) \in Sections(K, T) /\ Leaves(Extract(file)) \subseteq FileLeaves(file)
<1>1. file.root \in Sections(K, T) /\ (Given(file.inner) => file.inner \in Sections(K, T))
  BY DEF Files, Given
<1>2. CASE Given(file.inner)
  <2>1. Extract(file) = Merge(file.root, file.inner)
    BY <1>2 DEF Extract
  <2>2. FileLeaves(file) = Leaves(file.root) \cup Leaves(file.inner)
    BY <1>2 DEF FileLeaves
  <2>3. Merge(file.root, file.inner) \in Sections(K, T)
    BY <1>1, <1>2, MergeIs
  <2>4. \A leaf \in Leaves(Merge(file.root, file.inner)) :
          leaf \in Leaves(file.root) \/ leaf \in Leaves(file.inner)
    BY <1>1, <1>2, MergeHasOnly
  <2> QED BY <2>1, <2>2, <2>3, <2>4
<1>3. CASE ~Given(file.inner)
  BY <1>1, <1>3 DEF Extract, FileLeaves
<1> QED BY <1>2, <1>3

LEMMA LayeredIs ==
  ASSUME NEW K, NEW T, NEW base \in Files(K, T), NEW local \in Files(K, T)
  PROVE  /\ Layered(base, local) \in Sections(K, T)
         /\ Leaves(Layered(base, local)) \subseteq FileLeaves(base) \cup FileLeaves(local)
<1>1. CASE ~Given(base)
  <2>1. Layered(base, local) = EmptyMap
    BY <1>1 DEF Layered
  <2>2. EmptyMap \in Sections(K, T)
    <3>1. EmptyMap \in [{} -> Entries(K, T)]
      BY DEF EmptyMap
    <3> QED BY <3>1 DEF Sections
  <2>3. Leaves(EmptyMap) = {}
    <3>1. DOMAIN EmptyMap = {}
      BY DEF EmptyMap
    <3> QED BY <3>1 DEF Leaves
  <2> QED BY <2>1, <2>2, <2>3
<1>2. CASE Given(base) /\ ~Given(local)
  <2>1. Layered(base, local) = Extract(base)
    BY <1>2 DEF Layered
  <2> QED BY <1>2, <2>1, ExtractIs
<1>3. CASE Given(base) /\ Given(local)
  <2>1. Layered(base, local) = Merge(Extract(base), Extract(local))
    BY <1>3 DEF Layered
  <2>2. /\ Extract(base) \in Sections(K, T) /\ Extract(local) \in Sections(K, T)
        /\ Leaves(Extract(base)) \subseteq FileLeaves(base)
        /\ Leaves(Extract(local)) \subseteq FileLeaves(local)
    BY <1>3, ExtractIs
  <2>3. Merge(Extract(base), Extract(local)) \in Sections(K, T)
    BY <2>2, MergeIs
  <2>4. \A leaf \in Leaves(Merge(Extract(base), Extract(local))) :
          leaf \in Leaves(Extract(base)) \/ leaf \in Leaves(Extract(local))
    BY <2>2, MergeHasOnly
  <2> QED BY <2>1, <2>2, <2>3, <2>4
<1> QED BY <1>1, <1>2, <1>3

(* The text that names the driver gets through.                            *)
LEMMA DriverStays ==
  ASSUME NEW K, NEW T, NEW base \in Sections(K, T), NEW own \in Sections(K, T),
         HasDriver(own)
  PROVE  Merge(base, Strip(own))["driver"] = own["driver"]
<1> DEFINE over == Strip(own)
           m == Merge(base, over)
           k == "driver"
<1>1. AllStripped(over, own) /\ over \in Sections(K, T)
  BY StripIs
<1> HIDE DEF over
<1>2. Merged(m, base, over)
  BY <1>1, MergeIs
<1> HIDE DEF m, k
<1>3. k \in DOMAIN own /\ own[k] # Text(NoText) /\ own[k].kind = "text"
  BY DEF HasDriver, k
<1>4. own[k] \in Entries(K, T)
  BY <1>3, SectionIs
<1>5. Stripped(own[k]) = own[k] /\ own[k] = Text(own[k].is)
  BY <1>3, <1>4, StrippedIs, ValueIs
<1>6. own[k] # Section(EmptyMap)
  BY <1>5, TextIs
<1>7. k \in DOMAIN over /\ over[k] = own[k]
  BY <1>1, <1>3, <1>5, <1>6 DEF AllStripped
<1>8. over[k].kind # "section"
  BY <1>3, <1>7
<1>9. m[k] = own[k]
  BY <1>2, <1>7, <1>8 DEF Merged
<1> QED BY <1>9 DEF m, over, k

(* What a connection gets from its files, whatever keys and texts they     *)
(* hold (load_driver_config, load_connection_config).                      *)
THEOREM LayersAreKept ==
  ASSUME NEW K, NEW T,
         Asks("config") =>
           {call.driver.old, call.driver.oldLocal, call.driver.new, call.driver.newLocal,
            call.connection.oldLocal, call.connection.new, call.connection.newLocal}
             \subseteq Files(K, T)
  PROVE  ConfigLayers
<1> SUFFICES ASSUME Asks("config") PROVE ConfigLayers
  BY DEF ConfigLayers
<1> DEFINE c == call.connection
           d == call.driver
           load == LoadConnection(c, d)
           driver == LoadDriver(d)
           section == OwnSection(c)
           local == ConnectionLocal(c)
           last == IF Given(local) THEN local ELSE c.new
           found(f) == Given(f.oldLocal) \/ Given(f.newLocal)
           files == {DriverBase(d), DriverLocal(d), c.new, local}
<1>1. /\ DriverBase(d) \in Files(K, T) /\ DriverLocal(d) \in Files(K, T)
      /\ c.new \in Files(K, T) /\ local \in Files(K, T)
  BY DEF DriverBase, DriverLocal, ConnectionLocal, FirstOf
<1>2. found(c) => Given(local)
  BY DEF ConnectionLocal, FirstOf
<1>3. found(d) /\ ~Given(DriverLocal(d)) => Given(d.old) /\ ~Given(d.oldLocal)
  BY DEF DriverLocal, FirstOf
<1>4. /\ driver \in Sections(K, T)
      /\ Leaves(driver) \subseteq FileLeaves(DriverBase(d)) \cup FileLeaves(DriverLocal(d))
  BY <1>1, LayeredIs DEF LoadDriver
<1>5. /\ section \in Sections(K, T)
      /\ Leaves(section) \subseteq FileLeaves(c.new) \cup FileLeaves(local)
  BY <1>1, LayeredIs DEF OwnSection
<1>7. ASSUME HasDriver(section)
      PROVE  /\ \A leaf \in Leaves(Extract(last)) : leaf[2] # NoText => leaf \in Leaves(load)
             /\ \A leaf \in Leaves(driver) :
                  \/ leaf \in Leaves(load)
                  \/ \E o \in Leaves(section) : o[2] # NoText /\ Related(o[1], leaf[1])
             /\ \A leaf \in Leaves(load) : leaf[2] = NoText => leaf \in Leaves(driver)
             /\ Leaves(load) \subseteq UNION {FileLeaves(f) : f \in files}
             /\ Metadata(c).driver = load["driver"]
  <2> DEFINE over == Strip(section)
  <2>1. load = Merge(driver, over)
    BY <1>7 DEF LoadConnection
  <2>2. over \in Sections(K, T)
    BY <1>5, StripIs
  <2>3. Metadata(c).driver = section["driver"]
    BY <1>7 DEF Metadata
  <2>4. load["driver"] = section["driver"]
    BY <1>4, <1>5, <1>7, <2>1, DriverStays
  <2>5. Given(c.new)
    <3>1. DOMAIN EmptyMap = {}
      BY DEF EmptyMap
    <3> QED BY <1>7, <3>1 DEF OwnSection, Layered, HasDriver
  <2>6. /\ Given(local) => section = Merge(Extract(c.new), Extract(local))
        /\ ~Given(local) => section = Extract(c.new)
    BY <2>5 DEF OwnSection, Layered
  <2> HIDE DEF c, d, load, driver, section, local, over
  <2>7. ASSUME NEW leaf \in Leaves(Extract(last)), leaf[2] # NoText
        PROVE  leaf \in Leaves(load)
    <3>1. leaf \in Leaves(section)
      <4>1. CASE Given(local)
        <5>1. Extract(c.new) \in Sections(K, T) /\ Extract(local) \in Sections(K, T)
          BY <1>1, <2>5, <4>1, ExtractIs
        <5>2. leaf \in Leaves(Extract(local))
          BY <2>7, <4>1
        <5> HIDE DEF last
        <5> QED BY <2>6, <4>1, <5>1, <5>2, MergeHasOver
      <4>2. CASE ~Given(local)
        BY <2>6, <2>7, <4>2
      <4> QED BY <4>1, <4>2
    <3> HIDE DEF last
    <3>2. leaf \in Leaves(over)
      BY <1>5, <2>7, <3>1, StripHas DEF over
    <3> QED BY <1>4, <2>1, <2>2, <3>2, MergeHasOver
  <2>8. ASSUME NEW leaf \in Leaves(driver)
        PROVE  \/ leaf \in Leaves(load)
               \/ \E o \in Leaves(section) : o[2] # NoText /\ Related(o[1], leaf[1])
    <3>1. leaf \in Leaves(load) \/ Overridden(over, leaf)
      BY <1>4, <2>1, <2>2, <2>8, MergeHasBase
    <3>2. Overridden(over, leaf) => \E o \in Leaves(over) : Related(o[1], leaf[1])
      BY <1>4, <1>5, <2>8, OverriddenBy DEF over
    <3>3. \A o \in Leaves(over) : o \in Leaves(section) /\ o[2] # NoText
      BY <1>5, StripHasOnly DEF over
    <3> QED BY <3>1, <3>2, <3>3
  <2>9. ASSUME NEW leaf \in Leaves(load)
        PROVE  leaf \in Leaves(driver) \/ (leaf \in Leaves(section) /\ leaf[2] # NoText)
    <3>1. leaf \in Leaves(driver) \/ leaf \in Leaves(over)
      BY <1>4, <2>1, <2>2, <2>9, MergeHasOnly
    <3> QED BY <1>5, <3>1, StripHasOnly DEF over
  <2>10. Leaves(load) \subseteq UNION {FileLeaves(f) : f \in files}
    BY <1>4, <1>5, <2>9
  <2> QED BY <2>3, <2>4, <2>7, <2>8, <2>9, <2>10
<1> QED BY <1>2, <1>3, <1>7 DEF ConfigLayers

-----------------------------------------------------------------------------
(* Sequences: a page of a folder, and a folder with one node more or less. *)

LEMMA LeastIs ==
  ASSUME NEW a \in Nat, NEW b \in Nat
  PROVE  /\ Least(a, b) \in Nat /\ Least(a, b) <= a /\ Least(a, b) <= b
         /\ a <= b => Least(a, b) = a
         /\ b <= a => Least(a, b) = b
         /\ Least(Least(a, b), b) = Least(a, b)
BY DEF Least

(* A page holds the nodes after the first b of a folder, at most n.        *)
IsPage(q, nodes, b, n) ==
  /\ Len(q) = IF Len(nodes) <= b THEN 0 ELSE IF Len(nodes) <= b + n THEN Len(nodes) - b ELSE n
  /\ \A j \in 1..Len(q) : q[j] = nodes[b + j]

LEMMA PageIs ==
  ASSUME NEW S, NEW nodes \in Seq(S), NEW p \in Nat, NEW n \in Nat \ {0}
  PROVE  PageOf(nodes, p, n) \in Seq(S) /\ IsPage(PageOf(nodes, p, n), nodes, p * n, n)
<1> DEFINE b == p * n
           L == Len(nodes)
           h == Least(L, b + n)
           q == SubSeq(nodes, b + 1, h)
<1>1. b \in Nat /\ (p + 1) * n = b + n /\ L \in Nat /\ n >= 1 /\ b + n \in Nat
  OBVIOUS
<1>2. q = PageOf(nodes, p, n)
  BY <1>1 DEF PageOf
<1> HIDE DEF b
<1>3. h \in Nat /\ h <= L /\ (L <= b + n => h = L) /\ (b + n <= L => h = b + n)
  BY <1>1, LeastIs
<1> HIDE DEF h
<1>4. q \in Seq(S) /\ Len(q) = IF b + 1 <= h THEN h - b ELSE 0
  <2>1. \A i \in (b + 1)..h : i \in 1..L
    BY <1>1, <1>3
  <2> QED BY <1>1, <1>3, <2>1
<1>5. \A j \in 1..Len(q) : q[j] = nodes[b + j]
  BY <1>1, <1>3, <1>4
<1> HIDE DEF q, L
<1>6. Len(q) = IF L <= b THEN 0 ELSE IF L <= b + n THEN L - b ELSE n
  BY <1>1, <1>3, <1>4
<1> QED BY <1>2, <1>4, <1>5, <1>6 DEF IsPage, b, L

(* What is on a page is in the folder.                                     *)
LEMMA OnPage ==
  ASSUME NEW S, NEW nodes \in Seq(S), NEW q \in Seq(S), NEW b \in Nat, NEW n \in Nat,
         IsPage(q, nodes, b, n)
  PROVE  /\ \A j \in 1..Len(q) : b + j \in 1..Len(nodes)
         /\ Len(nodes) > b => b + Len(q) <= Len(nodes)
         /\ Len(q) <= n
BY DEF IsPage

(* A node put into a folder moves those behind it one place.               *)
Inserted(new, nodes, k, x) ==
  /\ Len(new) = Len(nodes) + 1
  /\ \A j \in 1..(k - 1) : new[j] = nodes[j]
  /\ new[k] = x
  /\ \A j \in k..Len(nodes) : new[j + 1] = nodes[j]

LEMMA InsertAtIs ==
  ASSUME NEW S, NEW nodes \in Seq(S), NEW k \in 1..(Len(nodes) + 1), NEW x \in S
  PROVE  InsertAt(nodes, k, x) \in Seq(S) /\ Inserted(InsertAt(nodes, k, x), nodes, k, x)
<1> DEFINE L == Len(nodes)
           u == SubSeq(nodes, 1, k - 1)
           o == <<x>>
           v == SubSeq(nodes, k, L)
           uo == u \o o
           new == uo \o v
<1>1. L \in Nat /\ k \in Nat /\ k >= 1 /\ k <= L + 1
  OBVIOUS
<1>2. u \in Seq(S) /\ Len(u) = k - 1 /\ \A j \in 1..(k - 1) : u[j] = nodes[j]
  BY <1>1
<1>3. v \in Seq(S) /\ Len(v) = (L + 1) - k /\ \A j \in 1..((L + 1) - k) : v[j] = nodes[(k - 1) + j]
  BY <1>1
<1>4. o \in Seq(S) /\ Len(o) = 1 /\ o[1] = x
  OBVIOUS
<1>5. new = InsertAt(nodes, k, x)
  BY DEF InsertAt
<1> HIDE DEF u, v, o, L
<1>6. /\ uo \in Seq(S) /\ Len(uo) = k /\ uo[k] = x
      /\ \A j \in 1..(k - 1) : uo[j] = nodes[j]
  <2>1. uo \in Seq(S) /\ Joined(uo, u, o)
    BY <1>2, <1>4, JoinedIs
  <2> HIDE DEF uo
  <2>2. /\ Len(uo) = Len(u) + Len(o)
        /\ \A i \in 1..Len(u) : uo[i] = u[i]
        /\ uo[Len(u) + 1] = o[1]
    <3>1. 1 \in 1..Len(o)
      BY <1>4
    <3> QED BY <2>1, <3>1 DEF Joined
  <2>3. Len(u) + 1 = k /\ Len(uo) = k
    BY <1>1, <1>2, <1>4, <2>2
  <2> QED BY <1>2, <1>4, <2>1, <2>2, <2>3
<1> HIDE DEF uo
<1>7. /\ new \in Seq(S) /\ Len(new) = L + 1
      /\ \A j \in 1..k : new[j] = uo[j]
      /\ \A j \in 1..((L + 1) - k) : new[k + j] = v[j]
  <2>1. new \in Seq(S) /\ Joined(new, uo, v)
    BY <1>3, <1>6, JoinedIs
  <2> HIDE DEF new
  <2>2. Len(new) = k + ((L + 1) - k)
    BY <1>3, <1>6, <2>1 DEF Joined
  <2>3. Len(new) = L + 1
    BY <1>1, <2>2
  <2> QED BY <1>3, <1>6, <2>1, <2>3 DEF Joined
<1> HIDE DEF new
<1>8. \A j \in 1..(k - 1) : new[j] = nodes[j]
  BY <1>1, <1>6, <1>7
<1>9. new[k] = x
  BY <1>1, <1>6, <1>7
<1>10. ASSUME NEW j \in k..L
       PROVE  new[j + 1] = nodes[j]
  <2>1. (j + 1) - k \in 1..((L + 1) - k) /\ k + ((j + 1) - k) = j + 1
        /\ (k - 1) + ((j + 1) - k) = j
    BY <1>1
  <2> QED BY <1>3, <1>7, <2>1
<1> QED BY <1>5, <1>7, <1>8, <1>9, <1>10 DEF Inserted, L

(* Where the nodes of a folder are after a node was put into it.           *)
LEMMA InsertedWhere ==
  ASSUME NEW S, NEW nodes \in Seq(S), NEW k \in 1..(Len(nodes) + 1), NEW x \in S,
         NEW new \in Seq(S), Inserted(new, nodes, k, x)
  PROVE  /\ \A j \in 1..Len(new) : \/ j < k /\ j \in 1..Len(nodes) /\ new[j] = nodes[j]
                                   \/ j = k /\ new[j] = x
                                   \/ j > k /\ j - 1 \in 1..Len(nodes) /\ new[j] = nodes[j - 1]
         /\ \A j \in 1..Len(nodes) : \/ j \in 1..Len(new) /\ new[j] = nodes[j]
                                     \/ j + 1 \in 1..Len(new) /\ new[j + 1] = nodes[j]
<1> DEFINE L == Len(nodes)
<1>1. /\ L \in Nat /\ k \in 1..(L + 1) /\ Len(new) = L + 1
      /\ \A j \in 1..(k - 1) : new[j] = nodes[j]
      /\ new[k] = x
      /\ \A j \in k..L : new[j + 1] = nodes[j]
  BY DEF Inserted
<1> HIDE DEF L
<1>2. ASSUME NEW j \in 1..(L + 1)
      PROVE  \/ j < k /\ j \in 1..L /\ new[j] = nodes[j]
             \/ j = k /\ new[j] = x
             \/ j > k /\ j - 1 \in 1..L /\ new[j] = nodes[j - 1]
  <2>1. CASE j < k
    <3>1. j \in 1..(k - 1) /\ j \in 1..L
      BY <1>1, <2>1
    <3> QED BY <1>1, <2>1, <3>1
  <2>2. CASE j = k
    <3>1. new[j] = x
      BY <1>1, <2>2
    <3> QED BY <2>2, <3>1
  <2>3. CASE j > k
    <3>1. j - 1 \in k..L /\ j - 1 \in 1..L /\ (j - 1) + 1 = j
      BY <1>1, <2>3
    <3>2. new[(j - 1) + 1] = nodes[j - 1]
      BY <1>1, <3>1
    <3> QED BY <2>3, <3>1, <3>2
  <2> QED BY <1>1, <2>1, <2>2, <2>3
<1>3. ASSUME NEW j \in 1..L
      PROVE  \/ j \in 1..(L + 1) /\ new[j] = nodes[j]
             \/ j + 1 \in 1..(L + 1) /\ new[j + 1] = nodes[j]
  <2>1. CASE j < k
    <3>1. j \in 1..(k - 1) /\ j \in 1..(L + 1)
      BY <1>1, <2>1
    <3> QED BY <1>1, <3>1
  <2>2. CASE ~(j < k)
    <3>1. j \in k..L /\ j + 1 \in 1..(L + 1)
      BY <1>1, <2>2
    <3>2. new[j + 1] = nodes[j]
      BY <1>1, <3>1
    <3> QED BY <3>1, <3>2
  <2> QED BY <2>1, <2>2
<1> QED BY <1>1, <1>2, <1>3 DEF L

Injective(s) == \A i, j \in 1..Len(s) : s[i] = s[j] => i = j

LEMMA InsertedInjective ==
  ASSUME NEW S, NEW nodes \in Seq(S), NEW k \in 1..(Len(nodes) + 1), NEW x \in S,
         NEW new \in Seq(S), Inserted(new, nodes, k, x),
         Injective(nodes), \A i \in 1..Len(nodes) : nodes[i] # x
  PROVE  Injective(new)
<1>1. \A j \in 1..Len(new) : \/ j < k /\ j \in 1..Len(nodes) /\ new[j] = nodes[j]
                             \/ j = k /\ new[j] = x
                             \/ j > k /\ j - 1 \in 1..Len(nodes) /\ new[j] = nodes[j - 1]
  BY InsertedWhere
<1>2. ASSUME NEW i \in 1..Len(new), NEW j \in 1..Len(new), new[i] = new[j]
      PROVE  i = j
  <2>1. \A m, n \in 1..Len(nodes) : nodes[m] = nodes[n] => m = n
    BY DEF Injective
  <2>2. i \in Nat /\ j \in Nat /\ k \in Nat
    OBVIOUS
  <2>3. (i = k) => (j = k)
    BY <1>1, <1>2
  <2>4. (j = k) => (i = k)
    BY <1>1, <1>2
  <2> DEFINE before(n) == IF n < k THEN n ELSE n - 1
  <2>5. i # k => before(i) \in 1..Len(nodes) /\ new[i] = nodes[before(i)]
    BY <1>1, <2>2
  <2>6. j # k => before(j) \in 1..Len(nodes) /\ new[j] = nodes[before(j)]
    BY <1>1, <2>2
  <2>7. i # k => before(i) = before(j)
    <3> HIDE DEF before
    <3> QED BY <1>2, <2>1, <2>4, <2>5, <2>6
  <2> QED BY <2>2, <2>3, <2>4, <2>7
<1> QED BY <1>2 DEF Injective

LEMMA RemoveAtIs ==
  ASSUME NEW S, NEW nodes \in Seq(S), NEW k \in 1..Len(nodes), Injective(nodes)
  PROVE  RemoveAt(nodes, k) \in Seq(S) /\ Injective(RemoveAt(nodes, k))
<1> DEFINE L == Len(nodes)
           u == SubSeq(nodes, 1, k - 1)
           v == SubSeq(nodes, k + 1, L)
           new == u \o v
<1>1. L \in Nat /\ k \in Nat /\ k >= 1 /\ k <= L
  OBVIOUS
<1>2. u \in Seq(S) /\ Len(u) = k - 1 /\ \A j \in 1..(k - 1) : u[j] = nodes[j]
  BY <1>1
<1>3. v \in Seq(S) /\ Len(v) = L - k /\ \A j \in 1..(L - k) : v[j] = nodes[k + j]
  BY <1>1
<1>4. new = RemoveAt(nodes, k)
  BY DEF RemoveAt
<1> HIDE DEF u, v, L
<1>5. /\ new \in Seq(S) /\ Len(new) = L - 1
      /\ \A j \in 1..(k - 1) : new[j] = u[j]
      /\ \A j \in 1..(L - k) : new[(k - 1) + j] = v[j]
  <2>1. new \in Seq(S) /\ Joined(new, u, v)
    BY <1>2, <1>3, JoinedIs
  <2> HIDE DEF new
  <2>2. Len(new) = (k - 1) + (L - k)
    BY <1>2, <1>3, <2>1 DEF Joined
  <2>3. Len(new) = L - 1
    BY <1>1, <2>2
  <2> QED BY <1>2, <1>3, <2>1, <2>3 DEF Joined
<1> HIDE DEF new
<1> DEFINE after(n) == IF n < k THEN n ELSE n + 1
<1>6. ASSUME NEW j \in 1..(L - 1)
      PROVE  after(j) \in 1..L /\ new[j] = nodes[after(j)]
  <2>1. CASE j < k
    <3>1. j \in 1..(k - 1) /\ j <= k - 1 /\ j \in 1..L
      BY <1>1, <2>1
    <3> QED BY <1>2, <1>5, <2>1, <3>1
  <2>2. CASE ~(j < k)
    <3>1. /\ j - (k - 1) \in 1..(L - k) /\ (k - 1) + (j - (k - 1)) = j
          /\ k + (j - (k - 1)) = j + 1 /\ j + 1 \in 1..L
      BY <1>1, <2>2
    <3> QED BY <1>3, <1>5, <2>2, <3>1
  <2> QED BY <2>1, <2>2
<1>7. \A i, j \in 1..(L - 1) : after(i) = after(j) => i = j
  BY <1>1
<1>8. \A i, j \in 1..L : nodes[i] = nodes[j] => i = j
  BY DEF Injective, L
<1> HIDE DEF after
<1>9. \A i, j \in 1..(L - 1) : new[i] = new[j] => i = j
  BY <1>6, <1>7, <1>8
<1> QED BY <1>4, <1>5, <1>9 DEF Injective

-----------------------------------------------------------------------------
(* The strengthening.  Every page asked for has the same limit, whatever   *)
(* the client makes of the answers.                                        *)
Held    == ToSet(PageNodes)
Limit   == Least(PageSize, habit.cap)
Quiet   == edits.added = 0 /\ edits.removed = 0
Trusted == habit.kind = "honest" /\ (habit.cap >= PageSize \/ "size" \in habit.tells)

PagingTypes ==
  /\ folder \in Seq(Held) /\ Injective(folder)
  /\ habit \in Habits
  /\ page \in Nat /\ size \in Nat \ {0}
  /\ got \in Seq(Held) /\ signatures \subseteq Seq(Held)
  /\ paging \in {"asking", "done", "failed"}
  /\ opened \in Seq(Held) /\ edits \in [added : Nat, removed : Nat]

SizeKept == size = PageSize \/ ("size" \in habit.tells /\ size = Limit)

(* A server that repeats itself has given its first page, once.            *)
RepeatsKept ==
  habit.kind = "repeats" /\ Quiet =>
    got = <<>> \/ (got \in signatures /\ IsPage(got, folder, 0, Limit))

(* The pages read so far were full; they had what was there from the start *)
(* before their end, and no node moved further than others were added.     *)
Walked(b) ==
  /\ b <= Len(folder) /\ Len(got) = b
  /\ Quiet => folder = opened /\ \A j \in 1..b : got[j] = folder[j]
  /\ \A j \in 1..b : folder[j] \in ToSet(opened) => folder[j] \in ToSet(got)
  /\ \A x \in ToSet(opened) : \E j \in 1..Len(folder) : folder[j] = x
  /\ \A s \in signatures : s # <<>> =>
       \E j \in 1..Len(folder) : folder[j] = s[1] /\ j + Limit <= b + 1 + edits.added

Walking == paging = "asking" /\ Trusted /\ edits.removed = 0 => Walked(page * Limit)

Arrived ==
  /\ Complete /\ Quiet => got = opened
  /\ Complete /\ edits.removed = 0 /\ edits.added < Limit => ToSet(opened) \subseteq ToSet(got)

PagingInv == PagingTypes /\ SizeKept /\ RepeatsKept /\ Walking /\ Arrived

(* A set of a sequence, the limit of a page, and the server's answer.      *)
LEMMA InToSet ==
  ASSUME NEW S, NEW s \in Seq(S)
  PROVE  \A x : x \in ToSet(s) <=> \E i \in 1..Len(s) : s[i] = x
BY DEF ToSet

LEMMA LimitIs ==
  ASSUME PagingTypes, SizeKept
  PROVE  /\ Limit \in Nat \ {0} /\ Limit <= PageSize /\ Limit <= habit.cap
         /\ PageSize \in Nat \ {0} /\ habit.cap \in Nat \ {0}
         /\ habit.cap >= PageSize => Limit = PageSize
         /\ Least(size, habit.cap) = Limit
<1>1. PageSize \in Nat \ {0} /\ habit.cap \in Nat \ {0}
  BY PagingConstantsOK DEF PagingTypes, HabitType
<1>2. /\ Limit \in Nat /\ Limit <= PageSize /\ Limit <= habit.cap
      /\ habit.cap >= PageSize => Limit = PageSize
      /\ Least(Limit, habit.cap) = Limit
  BY <1>1, LeastIs DEF Limit
<1>3. Limit # 0
  BY <1>1 DEF Limit, Least
<1>4. Least(size, habit.cap) = Limit
  BY <1>2 DEF SizeKept, Limit
<1> QED BY <1>1, <1>2, <1>3, <1>4

LEMMA AnswerIs ==
  ASSUME PagingTypes, SizeKept
  PROVE  /\ Answer.nodes \in Seq(Held) /\ Answer.size = Limit
         /\ habit.kind = "repeats" => IsPage(Answer.nodes, folder, 0, Limit)
         /\ habit.kind = "honest" =>
              /\ IsPage(Answer.nodes, folder, page * Limit, Limit)
              /\ Answer.count = Len(Answer.nodes) /\ Answer.total = Len(folder)
              /\ Answer.more <=> Len(folder) > page * Limit + Limit
<1> DEFINE c == Limit
           p == IF habit.kind = "repeats" THEN 0 ELSE page
           a == Answer
<1>1. c \in Nat \ {0} /\ Least(size, habit.cap) = c
  BY LimitIs
<1>2. page \in Nat /\ p \in Nat /\ folder \in Seq(Held)
  BY DEF PagingTypes
<1>3. a = [nodes |-> IF habit.kind = "junk" THEN <<>> ELSE PageOf(folder, p, c),
           count |-> IF habit.kind = "junk" THEN c ELSE Len(PageOf(folder, p, c)),
           size  |-> c,
           more  |-> habit.kind = "junk" \/ Len(folder) > (p + 1) * c,
           total |-> IF habit.kind = "junk" THEN Len(folder) + MaxPages * c ELSE Len(folder)]
  BY <1>1 DEF Answer
<1> HIDE DEF c, a
<1>4. a.nodes = (IF habit.kind = "junk" THEN <<>> ELSE PageOf(folder, p, c)) /\ a.size = c
  BY <1>3
<1>5. habit.kind = "honest" =>
        /\ a.count = Len(PageOf(folder, p, c)) /\ a.total = Len(folder)
        /\ a.more <=> Len(folder) > (p + 1) * c
  BY <1>3
<1>6. PageOf(folder, p, c) \in Seq(Held) /\ IsPage(PageOf(folder, p, c), folder, p * c, c)
  BY <1>1, <1>2, PageIs
<1>7. a.nodes \in Seq(Held)
  BY <1>4, <1>6
<1>8. habit.kind = "repeats" => IsPage(a.nodes, folder, 0, c)
  <2>1. 0 * c = 0
    BY <1>1
  <2> QED BY <1>4, <1>6, <2>1
<1>9. habit.kind = "honest" => /\ IsPage(a.nodes, folder, page * c, c)
                               /\ a.count = Len(a.nodes) /\ a.total = Len(folder)
                               /\ a.more <=> Len(folder) > page * c + c
  <2>1. (page + 1) * c = page * c + c
    BY <1>1, <1>2
  <2> QED BY <1>4, <1>5, <1>6, <2>1
<1> QED BY <1>4, <1>7, <1>8, <1>9 DEF a, c

(* With a server that can be trusted, a page that is not the last is full, *)
(* and the last one is where the folder ends.                              *)
LEMMA LastPageIs ==
  ASSUME PagingTypes, SizeKept, Trusted,
         NEW b, b = page * Limit, b <= Len(folder), Len(got) = b
  PROVE  LET all == got \o Answer.nodes IN
         /\ LastPage(Answer, all) => Len(folder) <= b + Limit
         /\ ~LastPage(Answer, all) => Len(Answer.nodes) = Limit
<1> DEFINE c == Limit
           a == Answer
           nodes == a.nodes
           all == got \o nodes
           L == Len(folder)
<1>1. c \in Nat \ {0} /\ (habit.cap >= PageSize => c = PageSize)
  BY LimitIs
<1>2. /\ nodes \in Seq(Held) /\ a.size = c
      /\ IsPage(nodes, folder, b, c)
      /\ a.count = Len(nodes) /\ a.total = L
      /\ a.more <=> L > b + c
  BY AnswerIs DEF Trusted
<1>3. got \in Seq(Held) /\ L \in Nat /\ b \in Nat
  BY <1>1 DEF PagingTypes
<1>4. Len(all) = b + Len(nodes) /\ Len(nodes) \in Nat
  BY <1>2, <1>3
<1>5. Len(nodes) = IF L <= b THEN 0 ELSE IF L <= b + c THEN L - b ELSE c
  BY <1>2 DEF IsPage
<1>6. EffectiveSize(a) = c
  BY <1>1, <1>2 DEF EffectiveSize, Trusted, SizeKept
<1>7. LastPage(a, all) <=> \/ "next" \in habit.tells /\ ~a.more
                           \/ "total" \in habit.tells /\ Len(all) >= L
                           \/ Len(nodes) < c
  BY <1>2, <1>6 DEF LastPage
<1> HIDE DEF c, a, nodes, all, L
<1>8. b <= L
  BY DEF L
<1>9. LastPage(a, all) => L <= b + c
  <2>1. a.more <=> L > b + c
    BY <1>2
  <2> QED BY <1>1, <1>3, <1>4, <1>5, <1>7, <1>8, <2>1
<1>10. ~LastPage(a, all) => Len(nodes) = c
  <2>1. ~LastPage(a, all) => ~(Len(nodes) < c)
    BY <1>7
  <2> QED BY <1>1, <1>3, <1>4, <1>5, <1>8, <2>1
<1> QED BY <1>9, <1>10 DEF c, a, nodes, all, L

-----------------------------------------------------------------------------
(* The steps.                                                              *)

(* A query begins with nothing read.                                       *)
LEMMA PagingStarts == PagingInit => PagingInv
<1> SUFFICES ASSUME PagingInit PROVE PagingInv
  OBVIOUS
<1>1. PICK k \in 0..Len(PageNodes) : folder = SubSeq(PageNodes, 1, k)
  BY DEF PagingInit
<1>2. /\ habit \in Habits /\ page = 0 /\ size = PageSize /\ got = <<>> /\ signatures = {}
      /\ paging = "asking" /\ opened = folder /\ edits = [added |-> 0, removed |-> 0]
  BY DEF PagingInit
<1>3. PageNodes \in Seq(Held) /\ Injective(PageNodes)
  <2>1. PageNodes \in Seq(Held) /\ IsInjective(PageNodes)
    BY PagingConstantsOK DEF Held
  <2> QED BY <2>1 DEF IsInjective, Injective
<1>4. folder \in Seq(Held) /\ Len(folder) = k /\ \A j \in 1..k : folder[j] = PageNodes[j]
  BY <1>1, <1>3
<1>5. Injective(folder)
  BY <1>3, <1>4 DEF Injective
<1>6. PagingTypes
  <2>1. size \in Nat \ {0}
    BY <1>2, PagingConstantsOK
  <2>2. got \in Seq(Held)
    BY <1>2
  <2>3. edits \in [added : Nat, removed : Nat]
    BY <1>2
  <2> QED BY <1>2, <1>4, <1>5, <2>1, <2>2, <2>3 DEF PagingTypes
<1>7. SizeKept /\ RepeatsKept /\ Arrived
  BY <1>2 DEF SizeKept, RepeatsKept, Arrived, Complete
<1>8. Walked(0)
  <2>1. 0 <= Len(folder) /\ Len(got) = 0
    BY <1>2, <1>4
  <2>2. \A j \in 1..0 : FALSE
    OBVIOUS
  <2>3. \A x \in ToSet(opened) : \E j \in 1..Len(folder) : folder[j] = x
    BY <1>2, <1>4, InToSet
  <2> QED BY <1>2, <2>1, <2>2, <2>3 DEF Walked
<1>9. page * Limit = 0
  <2>1. Limit \in Nat
    BY <1>6, <1>7, LimitIs
  <2> QED BY <1>2, <2>1
<1>10. Walking
  BY <1>8, <1>9 DEF Walking
<1> QED BY <1>6, <1>7, <1>10 DEF PagingInv

(* Two pages of the same place are the same.                               *)
LEMMA SamePage ==
  ASSUME NEW S, NEW q \in Seq(S), NEW r \in Seq(S), NEW nodes \in Seq(S),
         NEW b \in Nat, NEW n \in Nat, IsPage(q, nodes, b, n), IsPage(r, nodes, b, n)
  PROVE  q = r
<1>1. Len(q) = Len(r) /\ \A j \in 1..Len(q) : q[j] = r[j]
  BY DEF IsPage
<1> QED BY <1>1

(* What has been read when one more page is.                               *)
Read(all, m) ==
  /\ m <= Len(folder) /\ Len(all) = m
  /\ Quiet => folder = opened /\ \A j \in 1..m : all[j] = folder[j]
  /\ \A j \in 1..m : folder[j] \in ToSet(opened) => folder[j] \in ToSet(all)

LEMMA ReadOn ==
  ASSUME PagingTypes, NEW b \in Nat, NEW c \in Nat, Walked(b),
         NEW nodes \in Seq(Held), IsPage(nodes, folder, b, c)
  PROVE  Read(got \o nodes, b + Len(nodes))
<1> DEFINE all == got \o nodes
           m == b + Len(nodes)
<1>1. got \in Seq(Held) /\ folder \in Seq(Held) /\ Len(got) = b /\ b <= Len(folder)
  BY DEF PagingTypes, Walked
<1>2. all \in Seq(Held) /\ Joined(all, got, nodes)
  BY <1>1, JoinedIs
<1>3. Len(nodes) \in Nat /\ Len(folder) \in Nat
  BY <1>1
<1> HIDE DEF all
<1>4. /\ Len(all) = m /\ m \in Nat
      /\ \A i \in 1..b : all[i] = got[i]
      /\ \A i \in 1..Len(nodes) : all[b + i] = nodes[i]
  BY <1>1, <1>2, <1>3 DEF Joined
<1>5. /\ Len(nodes) = IF Len(folder) <= b THEN 0
                      ELSE IF Len(folder) <= b + c THEN Len(folder) - b ELSE c
      /\ \A j \in 1..Len(nodes) : nodes[j] = folder[b + j]
  BY DEF IsPage
<1>6. m <= Len(folder)
  BY <1>1, <1>3, <1>5
<1>7. \A j \in 1..m : \/ j \in 1..b
                      \/ j - b \in 1..Len(nodes) /\ b + (j - b) = j
  BY <1>3
<1>8. \A j \in 1..m : \/ j \in 1..b /\ all[j] = got[j]
                      \/ all[j] = folder[j]
  <2> SUFFICES ASSUME NEW j \in 1..m
               PROVE  (j \in 1..b /\ all[j] = got[j]) \/ all[j] = folder[j]
    OBVIOUS
  <2>1. CASE j \in 1..b
    BY <1>4, <2>1
  <2>2. CASE j - b \in 1..Len(nodes) /\ b + (j - b) = j
    <3>1. all[b + (j - b)] = nodes[j - b] /\ nodes[j - b] = folder[b + (j - b)]
      BY <1>4, <1>5, <2>2
    <3> QED BY <2>2, <3>1
  <2> QED BY <1>7, <2>1, <2>2
<1>9. Quiet => folder = opened /\ \A j \in 1..m : all[j] = folder[j]
  BY <1>8 DEF Walked
<1>10. ASSUME NEW j \in 1..m, folder[j] \in ToSet(opened)
       PROVE  folder[j] \in ToSet(all)
  <2>1. \A x : x \in ToSet(all) <=> \E i \in 1..m : all[i] = x
    BY <1>2, <1>4, InToSet
  <2>2. CASE all[j] = folder[j]
    BY <2>1, <2>2
  <2>3. CASE j \in 1..b
    <3>1. folder[j] \in ToSet(got)
      BY <1>10, <2>3 DEF Walked
    <3>2. PICK i \in 1..b : got[i] = folder[j]
      BY <1>1, <3>1, InToSet
    <3>3. i \in 1..m /\ all[i] = folder[j]
      BY <1>3, <1>4, <3>2
    <3> QED BY <2>1, <3>3
  <2> QED BY <1>8, <2>2, <2>3
<1> QED BY <1>4, <1>6, <1>9, <1>10 DEF Read, all

(* All of the folder was read.                                             *)
LEMMA ReadToTheEnd ==
  ASSUME PagingTypes, NEW b \in Nat, Walked(b),
         NEW all \in Seq(Held), Read(all, Len(folder))
  PROVE  /\ Quiet => all = opened
         /\ ToSet(opened) \subseteq ToSet(all)
<1>1. folder \in Seq(Held) /\ opened \in Seq(Held)
  BY DEF PagingTypes
<1>2. Len(all) = Len(folder)
  BY DEF Read
<1>3. Quiet => all = opened
  <2> SUFFICES ASSUME Quiet PROVE all = opened
    OBVIOUS
  <2>1. folder = opened /\ \A j \in 1..Len(folder) : all[j] = folder[j]
    BY DEF Read
  <2>2. Len(all) = Len(opened) /\ \A j \in 1..Len(opened) : all[j] = opened[j]
    BY <1>2, <2>1
  <2> QED BY <1>1, <2>2
<1>4. ASSUME NEW x \in ToSet(opened)
      PROVE  x \in ToSet(all)
  <2>1. PICK j \in 1..Len(folder) : folder[j] = x
    BY DEF Walked
  <2> QED BY <2>1 DEF Read
<1> QED BY <1>3, <1>4

(* A page that came before means that as many nodes were added as a page   *)
(* holds.                                                                  *)
LEMMA RepeatedMeansAdded ==
  ASSUME PagingTypes, SizeKept, NEW b \in Nat, Walked(b),
         NEW nodes \in Seq(Held), IsPage(nodes, folder, b, Limit), Repeated(nodes)
  PROVE  Limit <= edits.added
<1> DEFINE c == Limit
<1>1. nodes # <<>> /\ nodes \in signatures
  BY DEF Repeated
<1>2. Len(nodes) \in Nat /\ Len(nodes) # 0
  BY <1>1
<1>3. 1 \in 1..Len(nodes)
  BY <1>2
<1>4. nodes[1] = folder[b + 1] /\ b + 1 \in 1..Len(folder)
  <2>1. /\ Len(nodes) = IF Len(folder) <= b THEN 0
                        ELSE IF Len(folder) <= b + c THEN Len(folder) - b ELSE c
        /\ \A j \in 1..Len(nodes) : nodes[j] = folder[b + j]
    BY DEF IsPage
  <2>2. Len(folder) \in Nat
    BY DEF PagingTypes
  <2>3. ~(Len(folder) <= b)
    BY <1>2, <2>1
  <2> QED BY <1>3, <2>1, <2>2, <2>3
<1>5. PICK j \in 1..Len(folder) : folder[j] = nodes[1] /\ j + c <= b + 1 + edits.added
  BY <1>1 DEF Walked
<1>6. j = b + 1
  BY <1>4, <1>5 DEF PagingTypes, Injective
<1>7. c \in Nat /\ edits.added \in Nat
  BY LimitIs DEF PagingTypes
<1> HIDE DEF c
<1>8. c <= edits.added
  BY <1>5, <1>6, <1>7
<1> QED BY <1>8 DEF c

(* A server that repeats its first page adds it once.                      *)
LEMMA RepeatsStay ==
  ASSUME PagingInv, AskPage
  PROVE  RepeatsKept'
<1> DEFINE nodes == Answer.nodes
<1> SUFFICES ASSUME habit.kind = "repeats", Quiet
             PROVE  got' = <<>> \/ (got' \in signatures' /\ IsPage(got', folder, 0, Limit))
  <2>1. habit' = habit /\ folder' = folder /\ edits' = edits
    BY DEF AskPage
  <2>2. Limit' = Limit /\ (Quiet' <=> Quiet)
    BY <2>1 DEF Limit, Quiet
  <2>3. IsPage(got', folder, 0, Limit) => IsPage(got, folder, 0, Limit)'
    BY <2>1, <2>2 DEF IsPage
  <2> QED BY <2>1, <2>2, <2>3 DEF RepeatsKept
<1>1. PagingTypes /\ SizeKept /\ RepeatsKept
  BY DEF PagingInv
<1>2. got = <<>> \/ (got \in signatures /\ IsPage(got, folder, 0, Limit))
  BY <1>1 DEF RepeatsKept
<1>3. nodes \in Seq(Held) /\ IsPage(nodes, folder, 0, Limit)
  BY <1>1, AnswerIs
<1>4. got \in Seq(Held) /\ folder \in Seq(Held) /\ Limit \in Nat
  BY <1>1, LimitIs DEF PagingTypes
<1>5. CASE Repeated(nodes)
  <2>1. got' = got /\ signatures' = signatures
    BY <1>5 DEF AskPage
  <2> QED BY <1>2, <2>1
<1>6. CASE ~Repeated(nodes)
  <2>1. got' = got \o nodes /\ signatures' = signatures \cup {nodes}
    BY <1>6 DEF AskPage
  <2>2. CASE got = <<>>
    <3>1. <<>> \o nodes = nodes
      BY <1>3
    <3> HIDE DEF nodes
    <3> QED BY <1>3, <2>1, <2>2, <3>1
  <2>3. CASE got \in signatures /\ IsPage(got, folder, 0, Limit)
    <3>1. nodes = got
      BY <1>3, <1>4, <2>3, SamePage
    <3>2. nodes = <<>>
      BY <1>6, <2>3, <3>1 DEF Repeated
    <3>3. <<>> \o <<>> = <<>>
      OBVIOUS
    <3> QED BY <2>1, <3>1, <3>2, <3>3
  <2> QED BY <1>2, <2>2, <2>3
<1> QED BY <1>5, <1>6

(* The size asked for stays the first, or is the told limit.               *)
LEMMA AskTypes ==
  ASSUME PagingInv, AskPage
  PROVE  PagingTypes' /\ SizeKept'
<1> DEFINE nodes == Answer.nodes
           a == Answer
<1>1. PagingTypes /\ SizeKept
  BY DEF PagingInv
<1>2. nodes \in Seq(Held) /\ a.size = Limit
  BY <1>1, AnswerIs
<1>3. UNCHANGED <<folder, habit, opened, edits>>
  BY DEF AskPage
<1>4. Limit \in Nat \ {0} /\ Limit' = Limit
  BY <1>1, <1>3, LimitIs DEF Limit
<1>5. /\ page' \in {page, NextPage(page)}
      /\ size' \in {size, EffectiveSize(a)}
      /\ got' \in {got, got \o nodes}
      /\ signatures' \in {signatures, signatures \cup {nodes}}
      /\ paging' \in {"asking", "done"}
  BY DEF AskPage
<1>6. got \o nodes \in Seq(Held)
  BY <1>1, <1>2 DEF PagingTypes
<1>7. NextPage(page) \in Nat /\ page \in Nat
  BY <1>1 DEF PagingTypes, NextPage
<1>8. EffectiveSize(a) = IF "size" \in habit.tells THEN Limit ELSE size
  BY <1>2 DEF EffectiveSize
<1> HIDE DEF nodes, a
<1>9. size' = size \/ ("size" \in habit.tells /\ size' = Limit)
  BY <1>5, <1>8
<1>10. SizeKept'
  BY <1>1, <1>3, <1>4, <1>9 DEF SizeKept
<1>11. size' \in Nat \ {0}
  BY <1>1, <1>4, <1>9 DEF PagingTypes
<1>12. page' \in Nat /\ got' \in Seq(Held) /\ signatures' \subseteq Seq(Held)
  BY <1>1, <1>2, <1>5, <1>6, <1>7 DEF PagingTypes
<1>13. PagingTypes'
  <2>1. Held' = Held
    BY DEF Held
  <2>2. Injective(folder)'
    BY <1>1, <1>3 DEF PagingTypes, Injective
  <2> QED BY <1>1, <1>3, <1>5, <1>11, <1>12, <2>1, <2>2 DEF PagingTypes
<1> QED BY <1>10, <1>13

(* A full page moves the query on by a page.                               *)
LEMMA AskWalks ==
  ASSUME PagingInv, AskPage
  PROVE  Walking'
<1> DEFINE nodes == Answer.nodes
           a == Answer
           all == got \o nodes
           b == page * Limit
           c == Limit
<1>1. UNCHANGED <<folder, habit, opened, edits>> /\ paging = "asking"
  BY DEF AskPage
<1>2. Limit' = Limit /\ (Trusted' <=> Trusted) /\ (Quiet' <=> Quiet)
  BY <1>1 DEF Limit, Trusted, Quiet
<1> SUFFICES ASSUME paging' = "asking", Trusted, edits.removed = 0
             PROVE  Walked(page * Limit)'
  BY <1>1, <1>2 DEF Walking
<1>3. PagingTypes /\ SizeKept /\ Walked(b)
  BY <1>1 DEF PagingInv, Walking
<1>4. /\ ~LastPage(a, all) /\ got' = all
      /\ signatures' = signatures \cup {nodes}
      /\ page' = NextPage(page)
  BY DEF AskPage
<1>5. nodes \in Seq(Held) /\ IsPage(nodes, folder, b, c)
  BY <1>3, AnswerIs DEF Trusted
<1>6. c \in Nat \ {0} /\ page \in Nat /\ b \in Nat /\ page' * c = b + c
  <2>1. c \in Nat \ {0} /\ page \in Nat
    BY <1>3, LimitIs DEF PagingTypes
  <2>2. (page + 1) * c = page * c + c /\ page * c \in Nat
    BY <2>1
  <2> QED BY <1>4, <2>1, <2>2 DEF NextPage
<1>7. b <= Len(folder) /\ Len(got) = b
  BY <1>3 DEF Walked
<1>8. Len(nodes) = c
  BY <1>3, <1>4, <1>7, LastPageIs
<1>9. Read(all, b + c)
  <2> HIDE DEF nodes, b, c
  <2>1. Read(all, b + Len(nodes))
    BY <1>3, <1>5, <1>6, ReadOn
  <2> QED BY <1>8, <2>1
<1>10. nodes[1] = folder[b + 1] /\ b + 1 \in 1..Len(folder)
  <2>1. 1 \in 1..Len(nodes)
    BY <1>6, <1>8
  <2>2. folder \in Seq(Held)
    BY <1>3 DEF PagingTypes
  <2> HIDE DEF nodes, b, c
  <2>3. \A j \in 1..Len(nodes) : b + j \in 1..Len(folder)
    BY <1>5, <1>6, <2>2, OnPage
  <2> QED BY <1>5, <2>1, <2>3 DEF IsPage
<1> HIDE DEF nodes, a, all, b, c
<1>11. edits.added \in Nat /\ Len(folder) \in Nat
  BY <1>3 DEF PagingTypes
<1>12. ASSUME NEW s \in signatures', s # <<>>
       PROVE  \E j \in 1..Len(folder) : folder[j] = s[1] /\ j + c <= (b + c) + 1 + edits.added
  <2>1. CASE s \in signatures
    <3>1. PICK j \in 1..Len(folder) : folder[j] = s[1] /\ j + c <= b + 1 + edits.added
      BY <1>3, <1>12, <2>1 DEF Walked, c
    <3>2. j + c <= (b + c) + 1 + edits.added
      BY <1>6, <1>11, <3>1
    <3> QED BY <3>1, <3>2
  <2>2. CASE s = nodes
    <3>1. (b + 1) + c <= (b + c) + 1 + edits.added
      BY <1>6, <1>11
    <3> QED BY <1>10, <2>2, <3>1
  <2> QED BY <1>4, <1>12, <2>1, <2>2
<1>13. \A x \in ToSet(opened) : \E j \in 1..Len(folder) : folder[j] = x
  BY <1>3 DEF Walked
<1>14. Limit' = c /\ page' * Limit' = b + c
  BY <1>2, <1>6 DEF c
<1>15. got' = all
  BY <1>4
<1> QED
  <2> DEFINE e == page' * Limit'
  <2>1. e = b + c
    BY <1>14
  <2>2. /\ e <= Len(folder') /\ Len(got') = e
        /\ Quiet' => folder' = opened' /\ \A j \in 1..e : got'[j] = folder'[j]
        /\ \A j \in 1..e : folder'[j] \in ToSet(opened') => folder'[j] \in ToSet(got')
    <3> HIDE DEF e
    <3> QED BY <1>1, <1>2, <1>9, <1>15, <2>1 DEF Read
  <2>3. \A x \in ToSet(opened') : \E j \in 1..Len(folder') : folder'[j] = x
    BY <1>1, <1>13
  <2>4. \A s \in signatures' : s # <<>> =>
          \E j \in 1..Len(folder') : folder'[j] = s[1] /\ j + Limit' <= e + 1 + edits'.added
    <3> HIDE DEF e
    <3> QED BY <1>1, <1>12, <1>14, <2>1
  <2> QED BY <2>2, <2>3, <2>4 DEF Walked

(* A query that ends with a server that can be trusted has read everything.*)
LEMMA AskArrives ==
  ASSUME PagingInv, AskPage
  PROVE  Arrived'
<1> DEFINE nodes == Answer.nodes
           a == Answer
           all == got \o nodes
           b == page * Limit
           c == Limit
           L == Len(folder)
<1>1. UNCHANGED <<folder, habit, opened, edits>> /\ paging = "asking"
  BY DEF AskPage
<1>2. Limit' = Limit /\ (Trusted' <=> Trusted) /\ (Quiet' <=> Quiet)
  BY <1>1 DEF Limit, Trusted, Quiet
<1> SUFFICES ASSUME paging' = "done", Trusted, edits.removed = 0, L <= MaxPages * c
             PROVE  /\ Quiet => got' = opened
                    /\ edits.added < c => ToSet(opened) \subseteq ToSet(got')
  <2>1. Complete' => paging' = "done" /\ Trusted /\ L <= MaxPages * c
    BY <1>1, <1>2 DEF Complete, Trusted, Limit
  <2>2. Quiet => edits.removed = 0
    BY DEF Quiet
  <2> HIDE DEF c, L
  <2>3. /\ Complete' /\ Quiet => got' = opened
        /\ Complete' /\ edits.removed = 0 /\ edits.added < c => ToSet(opened) \subseteq ToSet(got')
    BY <2>1, <2>2
  <2> QED BY <1>1, <1>2, <2>3 DEF Arrived, c
<1>3. PagingTypes /\ SizeKept /\ Walked(b)
  BY <1>1 DEF PagingInv, Walking
<1>4. nodes \in Seq(Held) /\ IsPage(nodes, folder, b, c)
  BY <1>3, AnswerIs DEF Trusted
<1>5. c \in Nat \ {0} /\ page \in Nat /\ b \in Nat /\ NextPage(page) * c = b + c
  <2>1. c \in Nat \ {0} /\ page \in Nat
    BY <1>3, LimitIs DEF PagingTypes
  <2>2. (page + 1) * c = page * c + c /\ page * c \in Nat
    BY <2>1
  <2> QED BY <2>1, <2>2 DEF NextPage
<1>6. b <= L /\ Len(got) = b /\ L \in Nat
  BY <1>3 DEF Walked, PagingTypes
<1>7. CASE Repeated(nodes)
  <2> HIDE DEF nodes, b
  <2>1. c <= edits.added
    BY <1>3, <1>4, <1>5, <1>7, RepeatedMeansAdded
  <2>2. edits.added \in Nat
    BY <1>3 DEF PagingTypes
  <2> HIDE DEF c
  <2>3. ~(edits.added < c) /\ edits.added # 0
    BY <1>5, <2>1, <2>2
  <2> QED BY <2>3 DEF Quiet
<1>8. CASE ~Repeated(nodes)
  <2>1. /\ got' = all
        /\ LastPage(a, all) \/ ~(NextPage(page) < MaxPages)
    BY <1>8 DEF AskPage
  <2>3. L <= b + c
    <3>1. CASE LastPage(a, all)
      BY <1>3, <1>6, <3>1, LastPageIs
    <3>2. CASE ~(NextPage(page) < MaxPages)
      <4>1. MaxPages \in Nat /\ NextPage(page) \in Nat
        BY <1>5, PagingConstantsOK DEF NextPage
      <4> HIDE DEF c, L, b
      <4>2. MaxPages <= NextPage(page)
        BY <3>2, <4>1
      <4>3. MaxPages * c <= NextPage(page) * c
        <5> DEFINE d == NextPage(page) - MaxPages
        <5>1. d \in Nat /\ MaxPages + d = NextPage(page)
          BY <4>1, <4>2
        <5> HIDE DEF d
        <5>2. (MaxPages + d) * c = MaxPages * c + d * c /\ d * c \in Nat /\ MaxPages * c \in Nat
          BY <1>5, <4>1, <5>1
        <5> QED BY <5>1, <5>2
      <4>4. MaxPages * c \in Nat
        BY <1>5, <4>1
      <4> QED BY <1>5, <1>6, <4>3, <4>4
    <3> QED BY <2>1, <3>1, <3>2
  <2>4. Len(nodes) = L - b
    <3>1. Len(nodes) = IF L <= b THEN 0 ELSE IF L <= b + c THEN L - b ELSE c
      BY <1>4 DEF IsPage
    <3> HIDE DEF nodes, b, c, L
    <3> QED BY <1>5, <1>6, <2>3, <3>1
  <2>5. Read(all, L)
    <3> HIDE DEF nodes, b, c, L
    <3>1. Read(got \o nodes, b + Len(nodes))
      BY <1>3, <1>4, <1>5, ReadOn
    <3>2. b + Len(nodes) = L
      BY <1>5, <1>6, <2>4
    <3> QED BY <3>1, <3>2
  <2>6. all \in Seq(Held)
    BY <1>3, <1>4 DEF PagingTypes
  <2> HIDE DEF all, b
  <2>7. (Quiet => all = opened) /\ ToSet(opened) \subseteq ToSet(all)
    BY <1>3, <1>5, <2>5, <2>6, ReadToTheEnd DEF L
  <2> QED BY <2>1, <2>7
<1> QED BY <1>7, <1>8

(* A page asked for keeps the invariant, and so does what others change.   *)
LEMMA AskKeeps ==
  ASSUME PagingInv, AskPage PROVE PagingInv'
BY AskTypes, AskWalks, AskArrives, RepeatsStay DEF PagingInv

LEMMA AddKeeps ==
  ASSUME PagingInv, NEW k \in 1..(Len(folder) + 1), NEW x \in Held,
         x \notin ToSet(folder), x \notin ToSet(opened), paging = "asking",
         folder' = InsertAt(folder, k, x), edits' = [edits EXCEPT !.added = @ + 1],
         UNCHANGED <<habit, page, size, got, signatures, paging, opened>>
  PROVE  PagingInv'
<1>1. PagingTypes /\ SizeKept /\ Walking
  BY DEF PagingInv
<1>2. folder \in Seq(Held) /\ edits.added \in Nat /\ edits.removed \in Nat
  BY <1>1 DEF PagingTypes
<1>3. folder' \in Seq(Held) /\ Inserted(folder', folder, k, x)
  BY <1>2, InsertAtIs
<1>4. \A i \in 1..Len(folder) : folder[i] # x
  BY <1>2, InToSet
<1>5. Injective(folder')
  BY <1>1, <1>2, <1>3, <1>4, InsertedInjective DEF PagingTypes
<1>6. /\ edits' \in [added : Nat, removed : Nat]
      /\ edits'.added = edits.added + 1 /\ edits'.removed = edits.removed
  BY <1>1 DEF PagingTypes
<1>7. PagingTypes' /\ SizeKept'
  <2>1. Held' = Held /\ Limit' = Limit
    BY DEF Held, Limit
  <2>2. Injective(folder)'
    BY <1>5 DEF Injective
  <2> QED BY <1>1, <1>3, <1>6, <2>1, <2>2 DEF PagingTypes, SizeKept
<1>8. ~Quiet'
  BY <1>2, <1>6 DEF Quiet
<1>9. RepeatsKept' /\ Arrived'
  BY <1>8 DEF RepeatsKept, Arrived, Complete
<1>10. Walking'
  <2> DEFINE b == page * Limit
  <2>1. Limit' = Limit /\ (Trusted' <=> Trusted)
    BY DEF Limit, Trusted
  <2> SUFFICES ASSUME Trusted, edits.removed = 0 PROVE Walked(page * Limit)'
    BY <1>6, <2>1 DEF Walking
  <2>2. Walked(b)
    BY <1>1 DEF Walking
  <2>3. Limit \in Nat /\ page \in Nat
    BY <1>1, LimitIs DEF PagingTypes
  <2>4. b \in Nat
    BY <2>3
  <2>5. (page * Limit)' = b
    BY <2>1
  <2> HIDE DEF b
  <2>6. /\ b <= Len(folder) /\ Len(got) = b
        /\ \A j \in 1..b : folder[j] \in ToSet(opened) => folder[j] \in ToSet(got)
    BY <2>2 DEF Walked
  <2>7. /\ \A j \in 1..Len(folder') : \/ j < k /\ j \in 1..Len(folder) /\ folder'[j] = folder[j]
                                      \/ j = k /\ folder'[j] = x
                                      \/ /\ j > k /\ j - 1 \in 1..Len(folder)
                                         /\ folder'[j] = folder[j - 1]
        /\ \A j \in 1..Len(folder) : \/ j \in 1..Len(folder') /\ folder'[j] = folder[j]
                                     \/ j + 1 \in 1..Len(folder') /\ folder'[j + 1] = folder[j]
    BY <1>2, <1>3, InsertedWhere
  <2>8. Len(folder) \in Nat /\ Len(folder') = Len(folder) + 1
    BY <1>2, <1>3 DEF Inserted
  <2>9. ASSUME NEW j \in 1..b, folder'[j] \in ToSet(opened)
        PROVE  folder'[j] \in ToSet(got)
    <3>1. j \in 1..Len(folder')
      BY <2>4, <2>6, <2>8
    <3>2. CASE j < k /\ folder'[j] = folder[j]
      BY <2>6, <2>9, <3>2
    <3>3. CASE j = k /\ folder'[j] = x
      BY <2>9, <3>3
    <3>4. CASE j > k /\ folder'[j] = folder[j - 1]
      <4>1. j - 1 \in 1..b
        BY <2>4, <3>4
      <4> QED BY <2>6, <2>9, <3>4, <4>1
    <3> QED BY <2>7, <3>1, <3>2, <3>3, <3>4
  <2>10. ASSUME NEW y \in ToSet(opened)
         PROVE  \E j \in 1..Len(folder') : folder'[j] = y
    <3>1. PICK j \in 1..Len(folder) : folder[j] = y
      BY <2>2 DEF Walked
    <3> QED BY <2>7, <3>1
  <2>11. ASSUME NEW s \in signatures, s # <<>>
         PROVE  \E j \in 1..Len(folder') : folder'[j] = s[1] /\ j + Limit <= b + 1 + edits'.added
    <3>1. PICK j \in 1..Len(folder) : folder[j] = s[1] /\ j + Limit <= b + 1 + edits.added
      BY <2>2, <2>11 DEF Walked
    <3>2. /\ j + Limit <= b + 1 + edits'.added
          /\ (j + 1) + Limit <= b + 1 + edits'.added
      <4> DEFINE m == edits.added
                 n == Limit
      <4>1. m \in Nat /\ n \in Nat /\ j \in Nat /\ j + n <= b + 1 + m /\ edits'.added = m + 1
        BY <1>2, <1>6, <2>3, <3>1
      <4> HIDE DEF m, n
      <4>2. j + n <= b + 1 + (m + 1) /\ (j + 1) + n <= b + 1 + (m + 1)
        BY <2>4, <4>1
      <4> QED BY <4>1, <4>2 DEF n
    <3>3. CASE j \in 1..Len(folder') /\ folder'[j] = folder[j]
      BY <3>1, <3>2, <3>3
    <3>4. CASE j + 1 \in 1..Len(folder') /\ folder'[j + 1] = folder[j]
      BY <3>1, <3>2, <3>4
    <3> QED BY <2>7, <3>3, <3>4
  <2>12. b <= Len(folder') /\ Len(got') = b
    BY <2>4, <2>6, <2>8
  <2> QED BY <1>8, <2>1, <2>5, <2>9, <2>10, <2>11, <2>12 DEF Walked
<1> QED BY <1>7, <1>9, <1>10 DEF PagingInv

LEMMA RemoveKeeps ==
  ASSUME PagingInv, NEW k \in DOMAIN folder, paging = "asking",
         folder' = RemoveAt(folder, k), edits' = [edits EXCEPT !.removed = @ + 1],
         UNCHANGED <<habit, page, size, got, signatures, paging, opened>>
  PROVE  PagingInv'
<1>1. PagingTypes /\ SizeKept
  BY DEF PagingInv
<1>2. folder \in Seq(Held) /\ k \in 1..Len(folder) /\ edits.removed \in Nat
  BY <1>1 DEF PagingTypes
<1>3. folder' \in Seq(Held) /\ Injective(folder')
  BY <1>1, <1>2, RemoveAtIs DEF PagingTypes
<1>4. edits' \in [added : Nat, removed : Nat] /\ edits'.removed = edits.removed + 1
  BY <1>1 DEF PagingTypes
<1>5. PagingTypes' /\ SizeKept'
  <2>1. Held' = Held /\ Limit' = Limit
    BY DEF Held, Limit
  <2>2. Injective(folder)'
    BY <1>3 DEF Injective
  <2> QED BY <1>1, <1>3, <1>4, <2>1, <2>2 DEF PagingTypes, SizeKept
<1>6. edits'.removed # 0
  BY <1>2, <1>4
<1> QED BY <1>5, <1>6 DEF PagingInv, RepeatsKept, Walking, Arrived, Quiet, Complete

(* Each step of a query keeps it (query_nodes, page by page).              *)
LEMMA PagingContinues == PagingInv /\ [PagingNext]_pagingVars => PagingInv'
<1> SUFFICES ASSUME PagingInv, [PagingNext]_pagingVars PROVE PagingInv'
  OBVIOUS
<1>1. CASE AskPage
  BY <1>1, AskKeeps
<1>2. CASE PageFails
  <2>1. /\ UNCHANGED <<folder, habit, page, size, got, signatures, opened, edits>>
        /\ paging' = "failed"
    BY <1>2 DEF PageFails
  <2>2. Held' = Held /\ Limit' = Limit /\ (Quiet' <=> Quiet)
    BY <2>1 DEF Held, Limit, Quiet
  <2>3. PagingTypes' /\ SizeKept' /\ RepeatsKept'
    <3>1. Injective(folder)' <=> Injective(folder)
      BY <2>1 DEF Injective
    <3>2. IsPage(got, folder, 0, Limit)' <=> IsPage(got, folder, 0, Limit)
      BY <2>1, <2>2 DEF IsPage
    <3> QED BY <2>1, <2>2, <3>1, <3>2 DEF PagingInv, PagingTypes, SizeKept, RepeatsKept
  <2> QED BY <2>1, <2>3 DEF PagingInv, Walking, Arrived, Complete
<1>3. CASE EditFolder
  <2>1. /\ paging = "asking"
        /\ UNCHANGED <<habit, page, size, got, signatures, paging, opened>>
    BY <1>3 DEF EditFolder
  <2>2. CASE \E k \in 1..(Len(folder) + 1),
                n \in ToSet(PageNodes) \ (ToSet(folder) \cup ToSet(opened)) :
               /\ folder' = InsertAt(folder, k, n)
               /\ edits' = [edits EXCEPT !.added = @ + 1]
    <3>1. PICK k \in 1..(Len(folder) + 1), n \in Held :
            /\ n \notin ToSet(folder) /\ n \notin ToSet(opened)
            /\ folder' = InsertAt(folder, k, n)
            /\ edits' = [edits EXCEPT !.added = @ + 1]
      BY <2>2 DEF Held
    <3> QED BY <2>1, <3>1, AddKeeps
  <2>3. CASE \E k \in DOMAIN folder :
               /\ folder' = RemoveAt(folder, k)
               /\ edits' = [edits EXCEPT !.removed = @ + 1]
    BY <2>1, <2>3, RemoveKeeps
  <2> QED BY <1>3, <2>2, <2>3 DEF EditFolder
<1>4. CASE UNCHANGED pagingVars
  <2>1. UNCHANGED <<folder, habit, page, size, got, signatures, paging, opened, edits>>
    BY <1>4 DEF pagingVars
  <2> QED BY <2>1 DEF PagingInv, PagingTypes, SizeKept, RepeatsKept, Walking, Arrived,
                Held, Limit, Quiet, Trusted, Walked, Injective, IsPage, Complete
<1> QED BY <1>1, <1>2, <1>3, <1>4 DEF PagingNext

(* The strengthening says enough.                                          *)
LEMMA InvMeansRead == PagingInv => FolderIsRead
<1> SUFFICES ASSUME PagingInv PROVE FolderIsRead
  OBVIOUS
<1>1. PagingTypes /\ SizeKept /\ RepeatsKept /\ Arrived
  BY DEF PagingInv
<1>2. folder \in Seq(Held) /\ got \in Seq(Held) /\ Injective(folder)
  BY <1>1 DEF PagingTypes
<1>3. habit.kind = "repeats" /\ Quiet => IsInjective(got)
  <2> SUFFICES ASSUME habit.kind = "repeats", Quiet PROVE IsInjective(got)
    OBVIOUS
  <2>1. CASE got = <<>>
    BY <2>1 DEF IsInjective
  <2>2. CASE IsPage(got, folder, 0, Limit)
    <3>1. Limit \in Nat
      BY <1>1, LimitIs
    <3>2. /\ \A j \in 1..Len(got) : 0 + j \in 1..Len(folder)
      BY <1>2, <2>2, <3>1, OnPage
    <3>3. \A j \in 1..Len(got) : j \in 1..Len(folder) /\ got[j] = folder[j]
      <4>1. \A j \in 1..Len(got) : 0 + j = j
        OBVIOUS
      <4> QED BY <2>2, <3>2, <4>1 DEF IsPage
    <3>4. \A i, j \in 1..Len(got) : got[i] = got[j] => i = j
      BY <1>2, <3>3 DEF Injective
    <3>5. DOMAIN got = 1..Len(got)
      BY <1>2
    <3> QED BY <3>4, <3>5 DEF IsInjective
  <2> QED BY <1>1, <2>1, <2>2 DEF RepeatsKept
<1>4. ToSet(got) \subseteq Held
  BY <1>2 DEF ToSet
<1> QED BY <1>1, <1>3, <1>4 DEF Arrived, FolderIsRead, Quiet, Limit, Held

(* The strengthening holds of every query, whatever the server's habit and *)
(* whatever others do to the folder.                                       *)
THEOREM PagingStays == PagingSpec => []PagingInv
<1>1. PagingInit => PagingInv
  BY PagingStarts
<1>2. PagingInv /\ [PagingNext]_pagingVars => PagingInv'
  BY PagingContinues
<1> QED BY <1>1, <1>2, PTL DEF PagingSpec

(* A quiet folder is read completely, in order and once; one that grows by *)
(* less than a page meanwhile is read without missing a node; a server     *)
(* that repeats itself adds its page once; nothing is invented             *)
(* (query_nodes of clients/edocat_client.py).                              *)
THEOREM FolderIsReadHolds == PagingSpec => []FolderIsRead
<1>1. PagingInv => FolderIsRead
  BY InvMeansRead
<1> QED BY <1>1, PagingStays, PTL
=============================================================================
