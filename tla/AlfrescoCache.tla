---------------------------- MODULE AlfrescoCache ----------------------------
(***************************************************************************)
(* How the Alfresco driver finds and changes nodes (drivers/alfresco.py)   *)
(* through the path and child caches of its client (clients/               *)
(* alfresco_client.py).  The server knows nodes by id, the bridge's        *)
(* callers by path: an operation resolves its paths segment by segment,    *)
(* then acts on the id it got.  Each access to a cache is atomic (under    *)
(* _cache_lock) and so is each call to the server; requests, other         *)
(* sessions and other clients of the server interleave between them.       *)
(***************************************************************************)
EXTENDS Integers, Sequences, FiniteSets

CONSTANTS
  Requests,   \* handlers that call the driver
  Sessions,   \* tickets that requests bring (Basic tokens)
  Renewed,    \* tickets that create_ticket returns
  Nodes,      \* node ids
  Root,       \* the document library
  Names,      \* names of nodes, as the server compares them
  Depth,      \* how deep paths go
  Calls,      \* the calls of the driver that are made
  Limit,      \* _cache_limit
  MaxEdits,   \* bound: changes of the tree
  None, Unknown

Tickets == Sessions \cup Renewed
Paths   == UNION {[1..k -> Names] : k \in 0..Depth}
Place   == [up: Nodes, name: Names]
Ops     == {"list", "delete", "rename", "copy", "mkdir", "upload"}
Call    == [op: Ops, src: Paths, dst: Paths]

ASSUME CacheConstantsOK ==
  /\ Root \in Nodes /\ IsFiniteSet(Nodes)
  /\ Depth \in Nat /\ Limit \in Nat \ {0} /\ MaxEdits \in Nat
  /\ Calls \subseteq Call
  /\ \A c \in Calls : c.op \in {"rename", "copy", "upload"} => c.dst # <<>>
  /\ \A c \in Calls : c.op = "mkdir" => c.src # <<>>
  /\ Sessions \cap Renewed = {}
  /\ None \notin Nodes \cup Place /\ Unknown \notin Nodes \cup {None}

VARIABLES
  place,      \* the server's tree: where each node is, None if it is not
  used,       \* ids the server has given out
  pathCache,  \* _path_cache: node by ticket and path, None if absent
  childCache, \* _child_cache: node or None by ticket, parent and name, else Unknown
  req,        \* what each request is at
  \* history and bound
  edits,      \* changes of the tree so far
  seen,       \* seen[t]: what was the case since t's caches were last emptied
  tainted     \* tainted[t]: a request that began before that stored since

vars == <<place, used, pathCache, childCache, req, edits, seen, tainted>>

Prefix(p, i) == [j \in 1..i |-> p[j]]
Parent(p)    == Prefix(p, IF p = <<>> THEN 0 ELSE Len(p) - 1)
Rest(p)      == [j \in 1..(Len(p) - 1) |-> p[j + 1]]
Leaf(p)      == p[Len(p)]

-----------------------------------------------------------------------------
(* The server                                                              *)

Alive(n) == n = Root \/ place[n] # None
Mut_Child(u, m) ==
  IF \E n \in Nodes : place[n] = [up |-> u, name |-> m]
  THEN CHOOSE n \in Nodes : place[n] = [up |-> u, name |-> m]
  ELSE Unknown
Child(u, m) ==
  IF \E n \in Nodes : place[n] = [up |-> u, name |-> m]
  THEN CHOOSE n \in Nodes : place[n] = [up |-> u, name |-> m]
  ELSE None
Childless(u) == \A m \in Names : Child(u, m) = None

Subtree(n) ==
  {k \in Nodes : \A S \in SUBSET Nodes :
     (n \in S /\ \A c \in Nodes : place[c] # None /\ place[c].up \in S => c \in S) => k \in S}

Removed(n)     == [k \in Nodes |-> IF k \in Subtree(n) THEN None ELSE place[k]]
Put(n, u, m)   == [place EXCEPT ![n] = [up |-> u, name |-> m]]
Vacant(u, m)   == Alive(u) /\ Child(u, m) = None
Movable(n, u)  == n # Root /\ Alive(n) /\ u \notin Subtree(n)

(* A fact: the child of u by the name m was v.                             *)
Fact  == Nodes \X Names \X (Nodes \cup {None})
Facts == {<<u, m, Child(u, m)>> : u \in {n \in Nodes : Alive(n)}, m \in Names}

Edited(tree) ==
  /\ edits < MaxEdits /\ edits' = edits + 1
  /\ place' = tree
  /\ used' = used \cup {n \in Nodes : tree[n] # None}
  /\ seen' = [t \in Tickets |-> seen[t] \cup Facts']

-----------------------------------------------------------------------------
(* Requests                                                                *)

Look(p, must, as) == [path |-> p, must |-> must, as |-> as]

(* _resolve_path looks up the path and then its parent.                    *)
Resolve(p, must, as, upAs) == <<Look(p, must, as), Look(Parent(p), must, upAs)>>

(* What an operation looks up before it acts: the node it is about, and    *)
(* the folder it puts something into.                                      *)
Plan(c) ==
  CASE c.op \in {"list", "delete"} -> Resolve(c.src, TRUE, "node", "none")
    [] c.op = "rename" -> Resolve(c.src, TRUE, "node", "none")
                            \o Resolve(c.dst, FALSE, "none", "up")
    [] c.op = "copy"   -> Resolve(c.src, TRUE, "node", "none")
                            \o Resolve(Parent(c.dst), TRUE, "up", "none")
    [] c.op = "mkdir"  -> Resolve(c.src, FALSE, "none", "none")
                            \o Resolve(Parent(c.src), TRUE, "up", "none")
    [] c.op = "upload" -> Resolve(Parent(c.dst), TRUE, "up", "none")

Lookup == [path: Paths, must: BOOLEAN, as: {"node", "up", "none"}]
Stages == {"idle", "next", "walk", "child", "ask", "keep", "got", "act", "clear"}

(* walk[1..i] is behind the request, at the node at; got is the last child *)
(* it asked for.  again: the second attempt, without the first segment.    *)
Request ==
  [pc: Stages, call: Call \cup {None}, ticket: Tickets \cup {None}, todo: Seq(Lookup),
   walk: Paths, i: 0..Depth, at: Nodes \cup {None}, got: Nodes \cup {None}, again: BOOLEAN,
   node: Nodes \cup {None}, up: Nodes \cup {None}, retried: BOOLEAN,
   late: BOOLEAN,     \* its ticket's caches were emptied since it began
   acts: 0..2]        \* how often it has changed something

Idle == [pc |-> "idle", call |-> None, ticket |-> None, todo |-> <<>>, walk |-> <<>>,
         i |-> 0, at |-> None, got |-> None, again |-> FALSE, node |-> None, up |-> None,
         retried |-> FALSE, late |-> FALSE, acts |-> 0]

Starting(c, t) == [Idle EXCEPT !.pc = "next", !.call = c, !.ticket = t, !.todo = Plan(c)]

TypeOK ==
  /\ place \in [Nodes -> Place \cup {None}]
  /\ used \subseteq Nodes
  /\ pathCache \in [Tickets \X Paths -> Nodes \cup {None}]
  /\ childCache \in [Tickets \X Nodes \X Names -> Nodes \cup {None, Unknown}]
  /\ req \in [Requests -> Request]
  /\ edits \in 0..MaxEdits
  /\ seen \in [Tickets -> SUBSET Fact]
  /\ tainted \in [Tickets -> BOOLEAN]

(* Any tree, empty caches.                                                 *)
Init ==
  /\ place \in [Nodes -> Place \cup {None}]
  /\ place[Root] = None
  /\ \A n \in Nodes \ {Root} : place[n] # None => n \in Subtree(Root)
  /\ \A n, k \in Nodes : place[n] # None /\ place[n] = place[k] => n = k
  /\ used = {Root} \cup {n \in Nodes : place[n] # None}
  /\ pathCache = [k \in Tickets \X Paths |-> None]
  /\ childCache = [k \in Tickets \X Nodes \X Names |-> Unknown]
  /\ req = [r \in Requests |-> Idle]
  /\ edits = 0
  /\ seen = [t \in Tickets |-> Facts]
  /\ tainted = [t \in Tickets |-> FALSE]

(* _cache_set: at the limit another entry goes, the oldest one in the      *)
(* code, any one here.                                                     *)
Entries(store, absent) == {k \in DOMAIN store : store[k] # absent}
CacheSet(store, absent, key, value) ==
  IF key \in Entries(store, absent) \/ Cardinality(Entries(store, absent)) < Limit
  THEN {[store EXCEPT ![key] = value]}
  ELSE {[store EXCEPT ![key] = value, ![old] = absent] : old \in Entries(store, absent)}

Becomes(r, q) == req' = [req EXCEPT ![r] = q]
Server        == <<place, used, edits, seen>>
Caches        == <<pathCache, childCache, tainted>>

Stored(r) == tainted' = [tainted EXCEPT ![req[r].ticket] = @ \/ req[r].late]

Begin(r, c, t) ==
  /\ req[r].pc = "idle"
  /\ Becomes(r, Starting(c, t))
  /\ UNCHANGED <<Server, Caches>>

(* A lookup ends at node n; the request keeps what it needs of it.         *)
Found(q, n) ==
  [q EXCEPT !.pc = "next", !.todo = Tail(q.todo), !.walk = <<>>, !.i = 0, !.at = None,
            !.got = None, !.again = FALSE,
            !.node = IF Head(q.todo).as = "node" THEN n ELSE @,
            !.up = IF Head(q.todo).as = "up" THEN n ELSE @]

(* resolve_node_by_relative_path finds the whole path in the cache ...     *)
PathHit(r) ==
  LET q == req[r]
      n == pathCache[<<q.ticket, Head(q.todo).path>>] IN
  /\ q.pc = "next" /\ q.todo # <<>> /\ n # None
  /\ Becomes(r, Found(q, n))
  /\ UNCHANGED <<Server, Caches>>

(* ... or walks from the document library.                                 *)
WalkFrom(q, p, again) ==
  [q EXCEPT !.pc = "walk", !.walk = p, !.i = 0, !.at = Root, !.got = None, !.again = again]

PathMiss(r) ==
  LET q == req[r] IN
  /\ q.pc = "next" /\ q.todo # <<>> /\ pathCache[<<q.ticket, Head(q.todo).path>>] = None
  /\ Becomes(r, WalkFrom(q, Head(q.todo).path, FALSE))
  /\ UNCHANGED <<Server, Caches>>

(* The path as far as the next segment, the key of that in the path cache. *)
Reached(q) == Prefix(q.walk, q.i + 1)
Onward(q, n) == [q EXCEPT !.pc = "walk", !.i = @ + 1, !.at = n, !.got = None]

SegmentHit(r) ==
  LET q == req[r]
      n == pathCache[<<q.ticket, Reached(q)>>] IN
  /\ q.pc = "walk" /\ q.i < Len(q.walk) /\ n # None
  /\ Becomes(r, Onward(q, n))
  /\ UNCHANGED <<Server, Caches>>

SegmentMiss(r) ==
  LET q == req[r] IN
  /\ q.pc = "walk" /\ q.i < Len(q.walk) /\ pathCache[<<q.ticket, Reached(q)>>] = None
  /\ Becomes(r, [q EXCEPT !.pc = "child"])
  /\ UNCHANGED <<Server, Caches>>

(* child_by_name: the child cache, the server's listing, the child cache.  *)
ChildKey(q) == <<q.ticket, q.at, q.walk[q.i + 1]>>

ChildHit(r) ==
  LET q == req[r] IN
  /\ q.pc = "child" /\ childCache[ChildKey(q)] # Unknown
  /\ Becomes(r, [q EXCEPT !.pc = "got", !.got = childCache[ChildKey(q)]])
  /\ UNCHANGED <<Server, Caches>>

ChildMiss(r) ==
  LET q == req[r] IN
  /\ q.pc = "child" /\ childCache[ChildKey(q)] = Unknown
  /\ Becomes(r, [q EXCEPT !.pc = "ask"])
  /\ UNCHANGED <<Server, Caches>>

(* That an empty folder has no such child is not remembered.               *)
Ask(r) ==
  LET q == req[r] IN
  /\ q.pc = "ask" /\ Alive(q.at)
  /\ Becomes(r, [q EXCEPT !.pc = IF Childless(q.at) THEN "got" ELSE "keep",
                          !.got = Child(q.at, q.walk[q.i + 1])])
  /\ UNCHANGED <<Server, Caches>>

KeepChild(r) ==
  LET q == req[r] IN
  /\ q.pc = "keep"
  /\ childCache' \in CacheSet(childCache, Unknown, ChildKey(q), q.got)
  /\ Stored(r)
  /\ Becomes(r, [q EXCEPT !.pc = "got"])
  /\ UNCHANGED <<Server, pathCache>>

KeepSegment(r) ==
  LET q == req[r] IN
  /\ q.pc = "got" /\ q.todo # <<>> /\ q.got # None
  /\ pathCache' \in CacheSet(pathCache, None, <<q.ticket, Reached(q)>>, q.got)
  /\ Stored(r)
  /\ Becomes(r, Onward(q, q.got))
  /\ UNCHANGED <<Server, childCache>>

(* Without the child the walk is tried again without its first segment;    *)
(* a lookup that must succeed then ends the operation.                     *)
NoChild(r) ==
  LET q == req[r] IN
  /\ q.pc = "got" /\ q.todo # <<>> /\ q.got = None
  /\ Becomes(r, IF ~q.again /\ Len(q.walk) > 1 THEN WalkFrom(q, Rest(q.walk), TRUE)
                ELSE IF Head(q.todo).must THEN Idle
                ELSE Found(q, None))
  /\ UNCHANGED <<Server, Caches>>

KeepPath(r) ==
  LET q == req[r] IN
  /\ q.pc = "walk" /\ q.i = Len(q.walk)
  /\ pathCache' \in CacheSet(pathCache, None, <<q.ticket, Head(q.todo).path>>, q.at)
  /\ Stored(r)
  /\ Becomes(r, Found(q, q.at))
  /\ UNCHANGED <<Server, childCache>>

(* All is looked up; an upload also looks for its name in the folder.      *)
Ready(r) ==
  LET q == req[r] IN
  /\ q.pc = "next" /\ q.todo = <<>>
  /\ Becomes(r, IF q.call.op = "upload"
                THEN [q EXCEPT !.pc = "child", !.at = q.up, !.walk = <<Leaf(q.call.dst)>>]
                ELSE [q EXCEPT !.pc = "act"])
  /\ UNCHANGED <<Server, Caches>>

ReadyToUpload(r) ==
  LET q == req[r] IN
  /\ q.pc = "got" /\ q.todo = <<>>
  /\ Becomes(r, [q EXCEPT !.pc = "act"])
  /\ UNCHANGED <<Server, Caches>>

(* 401 or 403: once, the whole operation is repeated with a new ticket.    *)
Mut_AgainAndAgain(q, t) == [Starting(q.call, t) EXCEPT !.acts = q.acts]
Again(q, t) == [Starting(q.call, t) EXCEPT !.retried = TRUE, !.acts = q.acts]

Renew(r) ==
  LET q == req[r] IN
  /\ q.pc \in {"ask", "act"} /\ ~q.retried
  /\ \E t \in Renewed : Becomes(r, Again(q, t))
  /\ UNCHANGED <<Server, Caches>>

(* A lookup that need not succeed is given up on a timeout.                *)
GiveUp(r) ==
  LET q == req[r] IN
  /\ q.pc = "ask" /\ q.todo # <<>> /\ ~Head(q.todo).must
  /\ Becomes(r, Found(q, None))
  /\ UNCHANGED <<Server, Caches>>

(* Any call may fail: no such node, the name is taken, no right to it.     *)
Fail(r) ==
  /\ req[r].pc \in {"ask", "act"}
  /\ Becomes(r, Idle)
  /\ UNCHANGED <<Server, Caches>>

-----------------------------------------------------------------------------
(* What the operations do.  The server's answer to a change may be lost;   *)
(* the driver takes that for a failure.                                    *)

Mut_AfterLost(q) == IF q.retried THEN Idle ELSE Again(q, q.ticket)
AfterLost(q) == Idle

Done(r) ==
  LET q == [req[r] EXCEPT !.acts = @ + 1] IN
  Becomes(r, [q EXCEPT !.pc = "clear"]) \/ Becomes(r, AfterLost(q))

Acting(r, ops) == req[r].pc = "act" /\ req[r].call.op \in ops

Read(r) ==
  /\ Acting(r, {"list"}) /\ Alive(req[r].node)
  /\ Becomes(r, Idle)
  /\ UNCHANGED <<Server, Caches>>

Delete(r) ==
  LET n == req[r].node IN
  /\ Acting(r, {"delete"}) /\ Alive(n) /\ n # Root
  /\ Edited(Removed(n))
  /\ Done(r)
  /\ UNCHANGED Caches

Rename(r) ==
  LET q == req[r]
      m == Leaf(q.call.dst) IN
  /\ Acting(r, {"rename"}) /\ q.up # None
  /\ Movable(q.node, q.up) /\ Alive(q.up) /\ Child(q.up, m) \in {None, q.node}
  /\ Edited(Put(q.node, q.up, m))
  /\ Done(r)
  /\ UNCHANGED Caches

(* copy_item of a file, make_dir, and upload_item of a new document        *)
Create(r) ==
  LET q == req[r]
      m == Leaf(IF q.call.op = "mkdir" THEN q.call.src ELSE q.call.dst) IN
  /\ Acting(r, {"copy", "mkdir", "upload"})
  /\ q.call.op = "copy" => Alive(q.node)
  /\ q.call.op = "upload" => q.got = None
  /\ Vacant(q.up, m)
  /\ \E n \in Nodes \ used : Edited(Put(n, q.up, m))
  /\ Done(r)
  /\ UNCHANGED Caches

(* An upload onto a document puts a new version into it ...                *)
Update(r) ==
  /\ Acting(r, {"upload"}) /\ req[r].got # None /\ Alive(req[r].got)
  /\ Done(r)
  /\ UNCHANGED <<Server, Caches>>

(* ... if the caller chose to.                                             *)
AskForVersion(r) ==
  /\ Acting(r, {"upload"}) /\ req[r].got # None
  /\ Becomes(r, Idle)
  /\ UNCHANGED <<Server, Caches>>

(* _invalidate_structure_cache: every entry of this ticket, in both caches. *)
Mut_EmptiedPaths(t) ==
  /\ pathCache' = [k \in DOMAIN pathCache |-> IF k[1] = t THEN None ELSE pathCache[k]]
  /\ UNCHANGED childCache
Emptied(t) ==
  /\ pathCache' = [k \in DOMAIN pathCache |-> IF k[1] = t THEN None ELSE pathCache[k]]
  /\ childCache' = [k \in DOMAIN childCache |-> IF k[1] = t THEN Unknown ELSE childCache[k]]

Clear(r) ==
  LET t == req[r].ticket IN
  /\ req[r].pc = "clear"
  /\ Emptied(t)
  /\ seen' = [seen EXCEPT ![t] = Facts]
  /\ tainted' = [tainted EXCEPT ![t] = FALSE]
  /\ req' = [x \in Requests |->
               IF x = r THEN Idle
               ELSE [req[x] EXCEPT !.late = @ \/ req[x].ticket = t]]
  /\ UNCHANGED <<place, used, edits>>

-----------------------------------------------------------------------------
(* Other clients of the server                                             *)
Others ==
  /\ \/ \E n \in Nodes \ {Root} : Alive(n) /\ Edited(Removed(n))
     \/ \E n \in Nodes, u \in Nodes, m \in Names :
          Movable(n, u) /\ Vacant(u, m) /\ Edited(Put(n, u, m))
     \/ \E n \in Nodes \ used, u \in Nodes, m \in Names : Vacant(u, m) /\ Edited(Put(n, u, m))
  /\ UNCHANGED <<Caches, req>>

Step(r) ==
  \/ PathHit(r) \/ PathMiss(r) \/ SegmentHit(r) \/ SegmentMiss(r)
  \/ ChildHit(r) \/ ChildMiss(r) \/ Ask(r) \/ KeepChild(r) \/ KeepSegment(r)
  \/ NoChild(r) \/ KeepPath(r) \/ Ready(r) \/ ReadyToUpload(r)
  \/ Renew(r) \/ GiveUp(r) \/ Fail(r)
  \/ Read(r) \/ Delete(r) \/ Rename(r) \/ Create(r) \/ Update(r) \/ AskForVersion(r)
  \/ Clear(r)

Next ==
  \/ \E r \in Requests : \/ \E c \in Calls, t \in Sessions : Begin(r, c, t)
                         \/ Step(r)
  \/ Others

Spec == Init /\ [][Next]_vars

(* A handler that began runs on; every call to the server has a timeout.   *)
FairSpec == Spec /\ \A r \in Requests : WF_vars(Step(r))

-----------------------------------------------------------------------------
(* By the facts F, node n answers to path p: it is at the end of p, or of  *)
(* p without some leading segments.                                        *)
Answers(F, p, n) ==
  \E k \in 0..Len(p) : \E c \in [0..Len(p) -> Nodes] :
    /\ k < Len(p) \/ p = <<>>
    /\ c[k] = Root /\ c[Len(p)] = n
    /\ \A j \in (k + 1)..Len(p) : <<c[j - 1], p[j], c[j]>> \in F

(* What a ticket's caches say was the case at some time since they were    *)
(* last emptied, link by link, unless a request that began before stored   *)
(* in them after.                                                          *)
CachesRemember ==
  \A t \in Tickets : ~tainted[t] =>
    /\ \A p \in Paths : pathCache[<<t, p>>] # None => Answers(seen[t], p, pathCache[<<t, p>>])
    /\ \A u \in Nodes, m \in Names :
         childCache[<<t, u, m>>] # Unknown => <<u, m, childCache[<<t, u, m>>]>> \in seen[t]

(* A request moves, deletes or puts something only where its paths led at  *)
(* some time since its ticket's last change.                               *)
Acts(r) == req[r].pc = "act" /\ place' # place /\ req' # req
ActsWhereNamed ==
  [][\A r \in Requests :
       LET q == req[r] IN
       Acts(r) /\ req'[r] # q /\ ~q.late /\ ~tainted[q.ticket] =>
         /\ q.node # None => Answers(seen[q.ticket], q.call.src, q.node)
         /\ q.up # None =>
              Answers(seen[q.ticket],
                      Parent(IF q.call.op = "mkdir" THEN q.call.src ELSE q.call.dst), q.up)]_vars

(* Repeating an operation with a new ticket repeats no change.             *)
AtMostOnce == \A r \in Requests : req[r].acts <= 1

(* Every request is answered, however often the tree changes meanwhile.    *)
RequestsEnd == \A r \in Requests : req[r].pc # "idle" ~> req[r].pc = "idle"
=============================================================================
