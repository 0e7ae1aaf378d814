----------------------------- MODULE EdocatTree -----------------------------
(***************************************************************************)
(* The folder operations of the eDoCat driver (drivers/edocat.py,          *)
(* edocat_tree.py, edocat_items.py): copy, delete, rename, make_dir and    *)
(* download.  eDoCat has no call that copies or safely deletes a folder,   *)
(* so the driver walks the tree itself, one REST call at a time, while     *)
(* other clients of the server create, move and delete nodes.  Any call    *)
(* may fail, and a change may take effect and have its answer lost; a      *)
(* bridge that stops in the middle leaves what such a failure leaves.      *)
(***************************************************************************)
EXTENDS Naturals, FiniteSets, SequencesExt

CONSTANTS
  Names,        \* names of nodes
  Spare,        \* the names the server gives to a node whose name is taken
  Contents,     \* contents of documents
  Folder,       \* what a folder has in the place of a content
  MaxDepth,     \* bound: how deep the tree grows
  MaxIds,       \* bound: how many nodes are ever created
  MaxEdits,     \* bound: changes by other clients during the request
  Trees,        \* the trees a request may find
  Queries,      \* the requests clients may send
  Answers,      \* what a query of a folder returns: "children", "subtree"
  CopyMax,      \* copy.maxNodes
  DeleteMax,    \* delete.maxNodes
  DownloadMax,  \* download.maxNodes
  ZipEndpoint   \* is download.zipEndpoint configured?

Ids   == 1..MaxIds
Paths == UNION {[1..k -> Names] : k \in 1..MaxDepth}
Ops   == {"copy", "delete", "rename", "mkdir", "download"}
Query == [op: Ops, src: Paths, dst: Paths]
Node  == [id: Ids, body: Contents \cup {Folder}]   \* id is the node's uuid

(* A tree maps the paths in use to nodes; a node's parent is a folder of   *)
(* the tree or the library's root.                                         *)
IsFolder(t, p)   == p = <<>> \/ (p \in DOMAIN t /\ t[p].body = Folder)
WellFormed(t) ==
  /\ DOMAIN t \subseteq Paths /\ t \in [DOMAIN t -> Node]
  /\ \A p \in DOMAIN t : IsFolder(t, Front(p))
  /\ \A p, q \in DOMAIN t : t[p].id = t[q].id => p = q

ASSUME TreeConstantsOK ==
  /\ Spare \subseteq Names
  /\ Folder \notin Contents
  /\ MaxDepth \in Nat \ {0} /\ MaxIds \in Nat /\ MaxEdits \in Nat
  /\ \A t \in Trees : WellFormed(t)
  /\ Queries \subseteq Query
  /\ Answers \subseteq {"children", "subtree"}
  /\ {CopyMax, DeleteMax, DownloadMax} \subseteq Nat \ {0}
  /\ ZipEndpoint \in BOOLEAN

VARIABLES
  tree,      \* upstream: the nodes by path
  next,      \* upstream: the id of the next node
  phase,     \* "ready", "look", "count", "act" or "done"
  query,     \* the request
  agenda,    \* calls and recursive calls still to be made, the next one first
  total,     \* _count_folder_tree_nodes: nodes counted so far
  visited,   \* _delete_folder_tree: the set seen
  result,    \* "none", "ok" or "failed"
  \* history, read by the properties only
  before,    \* the tree the request found
  edits,     \* changes by other clients since
  calls,     \* steps of the handler: its calls, the server's answers included
  within,    \* ids that were at or below the request's source since
  mine,      \* ids the request created
  named,     \* ids the request asked the server to delete or to rename
  gone,      \* ids that left the tree through the request
  got        \* ids whose content the client received

upstream == <<tree, next>>
handler  == <<phase, query, agenda, total, visited, result>>
history  == <<before, edits, within, mine, named, gone, got>>
vars     == <<upstream, handler, history, calls>>

Branch(t, p)  == {q \in DOMAIN t : IsPrefix(p, q)}
IdsOf(t, S)   == {t[q].id : q \in S}
PathOfId(t, i) == CHOOSE p \in DOMAIN t : t[p].id = i
Known(i)      == i \in IdsOf(tree, DOMAIN tree)

(* The work left: recursive calls ("count", "fill", "sweep"), their steps  *)
(* over one child ("read", "visit", "last") and single calls.              *)
Task ==
  [do: {"count", "sweep", "visit", "last"}, at: Seq(Names)]
  \cup [do: {"fill", "read"}, at: Seq(Names), to: Seq(Names)]
  \cup [do: {"make"}, at: Seq(Names), body: Contents \cup {Folder}]
  \cup [do: {"drop", "rename", "content", "zip"}, id: Ids]

TypeOK ==
  /\ WellFormed(tree)
  /\ next \in 1..MaxIds + 1
  /\ phase \in {"ready", "look", "count", "act", "done"}
  /\ query \in Queries
  /\ \A k \in DOMAIN agenda : agenda[k] \in Task
  /\ total \in Nat
  /\ visited \subseteq {p \in Paths : IsPrefix(query.src, p)}
  /\ result \in {"none", "ok", "failed"}
  /\ edits \in 0..MaxEdits /\ calls \in Nat
  /\ UNION {within, mine, named, gone, got} \subseteq Ids

Init ==
  /\ tree \in Trees
  /\ next = Cardinality(DOMAIN tree) + 1
  /\ \A p \in DOMAIN tree : tree[p].id < next
  /\ phase = "ready"
  /\ query \in Queries
  /\ agenda = <<>>
  /\ total = 0
  /\ visited = {}
  /\ result = "none"
  /\ before = tree
  /\ edits = 0 /\ calls = 0
  /\ within = IdsOf(tree, Branch(tree, query.src))
  /\ mine = {} /\ named = {} /\ gone = {} /\ got = {}

-----------------------------------------------------------------------------
(* Steps shared by the actions.                                            *)

Finish(res) ==
  /\ phase' = "done" /\ result' = res /\ agenda' = <<>>
  /\ UNCHANGED <<query, total, visited>>

(* Go on with these tasks; the operation is done when there are none.      *)
Go(tasks) ==
  /\ agenda' = tasks
  /\ IF tasks = <<>> THEN phase' = "done" /\ result' = "ok"
                     ELSE phase' = "act" /\ UNCHANGED result
  /\ UNCHANGED query

GoOn == Go(Tail(agenda)) /\ UNCHANGED <<total, visited>>

Due(kind) == phase \in {"count", "act"} /\ Head(agenda).do = kind

Kids(p)    == {q \in DOMAIN tree : Len(q) = Len(p) + 1 /\ IsStrictPrefix(p, q)}
IsDir(p)   == tree[p].body = Folder
Dirs(S)    == {q \in S : IsDir(q)}

(* A query of a path that is gone may also be answered with no nodes.      *)
Listing(p) == IF IsFolder(tree, p) THEN Kids(p) ELSE {}

MaxOf(op) == CASE op = "copy"     -> CopyMax
               [] op = "delete"   -> DeleteMax
               [] op = "download" -> DownloadMax

(* What an operation does once the size of its source is accepted.         *)
Count(p)      == [do |-> "count", at |-> p]
Make(p, body) == [do |-> "make", at |-> p, body |-> body]
Fill(p, q)    == [do |-> "fill", at |-> p, to |-> q]
Sweep(p)      == [do |-> "sweep", at |-> p]
Drop(i)       == [do |-> "drop", id |-> i]

Plan(q, n) ==
  CASE q.op = "copy" /\ n.body = Folder   -> <<Make(q.dst, Folder), Fill(q.src, q.dst)>>
    [] q.op = "copy" /\ n.body # Folder   -> <<Make(q.dst, n.body)>>
    [] q.op = "delete" /\ n.body = Folder -> <<Sweep(q.src)>>
    [] q.op = "delete" /\ n.body # Folder -> <<Drop(n.id)>>
    [] q.op = "rename"                    -> <<[do |-> "rename", id |-> n.id]>>
    [] q.op = "download" /\ n.body = Folder -> <<[do |-> "zip", id |-> n.id]>>
    [] q.op = "download" /\ n.body # Folder -> <<[do |-> "content", id |-> n.id]>>

-----------------------------------------------------------------------------
(* The request arrives and looks its source up (_query_single_node); only  *)
(* make_dir creates without looking.                                       *)

Receive ==
  /\ phase = "ready"
  /\ IF query.op = "mkdir"
     THEN phase' = "act" /\ agenda' = <<Make(query.dst, Folder)>>
     ELSE phase' = "look" /\ UNCHANGED agenda
  /\ UNCHANGED <<upstream, query, total, visited, result, history>>

(* A folder is counted before it is copied, deleted or downloaded.         *)
Look ==
  /\ phase = "look"
  /\ \/ Finish("failed")
     \/ /\ query.src \in DOMAIN tree
        /\ query.op = "rename" => Front(query.dst) = Front(query.src)
        /\ LET plan == Plan(query, tree[query.src]) IN
           IF IsDir(query.src) /\ query.op # "rename"
           THEN phase' = "count" /\ agenda' = <<Count(query.src)>> \o plan
           ELSE phase' = "act" /\ agenda' = plan
        /\ UNCHANGED <<query, total, visited, result>>
  /\ UNCHANGED <<upstream, history>>

(* _count_folder_tree_nodes, and the limit when nothing is left to count.  *)
Counted(kids) == Dirs(kids)

CountFolder ==
  /\ Due("count")
  /\ \/ Finish("failed")
     \/ LET kids == Listing(Head(agenda).at)
            sum  == total + 1 + Cardinality(kids \ Dirs(kids)) IN
        \E order \in SetToSeqs(Counted(kids)) :
          LET left == [k \in DOMAIN order |-> Count(order[k])] \o Tail(agenda) IN
          /\ total' = sum
          /\ IF Head(left).do = "count"
             THEN phase' = "count" /\ agenda' = left /\ UNCHANGED result
             ELSE IF sum > MaxOf(query.op)
             THEN phase' = "done" /\ agenda' = <<>> /\ result' = "failed"
             ELSE phase' = "act" /\ agenda' = left /\ UNCHANGED result
          /\ UNCHANGED <<query, visited>>
  /\ UNCHANGED <<upstream, history>>

-----------------------------------------------------------------------------
(* The server stores a new node, under another name when its name is taken *)
(* (autoRename), and refuses one whose folder does not exist.              *)

Landing(p) ==
  IF p \notin DOMAIN tree THEN {p}
  ELSE {q \in {Front(p) \o <<n>> : n \in Spare} : q \notin DOMAIN tree}

Store(p, body) ==
  /\ p \in Paths /\ next \in Ids        \* the bounds
  /\ IsFolder(tree, Front(p))
  /\ \E q \in Landing(p) :
       tree' = [x \in DOMAIN tree \cup {q} |->
                  IF x = q THEN [id |-> next, body |-> body] ELSE tree[x]]
  /\ next' = next + 1

(* create_node                                                             *)
MakeNode ==
  /\ Due("make")
  /\ \/ Finish("failed") /\ UNCHANGED <<upstream, mine>>
     \/ /\ Store(Head(agenda).at, Head(agenda).body)
        /\ mine' = mine \cup {next}
        /\ GoOn \/ Finish("failed")     \* the answer may be lost
  /\ UNCHANGED <<before, edits, within, named, gone, got>>

(* _copy_folder_contents: make and fill every child folder, read and make  *)
(* every child document.                                                   *)
Mut_CopyTasks(p, to) ==
  LET q == to \o <<Last(p)>> IN
  IF IsDir(p) THEN <<Make(q, Folder)>> ELSE <<[do |-> "read", at |-> p, to |-> q]>>
CopyTasks(p, to) ==
  LET q == to \o <<Last(p)>> IN
  IF IsDir(p) THEN <<Make(q, Folder), Fill(p, q)>>
              ELSE <<[do |-> "read", at |-> p, to |-> q]>>

FillFolder ==
  /\ Due("fill")
  /\ \/ Finish("failed")
     \/ \E order \in SetToSeqs(Listing(Head(agenda).at)) :
          /\ Go(FlattenSeq([k \in DOMAIN order |->
                              CopyTasks(order[k], Head(agenda).to)])
                \o Tail(agenda))
          /\ UNCHANGED <<total, visited>>
  /\ UNCHANGED <<upstream, history>>

(* The child is looked up again with its content; its type may have changed.*)
ReadChild ==
  /\ Due("read")
  /\ \/ Finish("failed")
     \/ /\ Head(agenda).at \in DOMAIN tree
        /\ Go(<<Make(Head(agenda).to, tree[Head(agenda).at].body)>> \o Tail(agenda))
        /\ UNCHANGED <<total, visited>>
  /\ UNCHANGED <<upstream, history>>
-----------------------------------------------------------------------------
(* _delete_folder_tree: the nodes a query of the folder names, the deepest *)
(* first, then the folder itself.                                          *)

Mut_Swept(p) == {Kids(Front(p))}     \* startswith without the separator
Swept(p) ==
  {IF how = "children" \/ ~IsFolder(tree, p) THEN Listing(p) ELSE Branch(tree, p) \ {p} :
     how \in Answers}

DeepestFirst(S) ==
  {o \in SetToSeqs(S) : \A j, k \in DOMAIN o : j < k => Len(o[j]) >= Len(o[k])}

Visit(p) == [do |-> "visit", at |-> p]
SweepTasks(order, p) ==
  [k \in DOMAIN order |-> Visit(order[k])] \o <<[do |-> "last", at |-> p]>>

SweepFolder ==
  LET p == Head(agenda).at IN
  /\ Due("sweep")
  /\ \/ Finish("failed")
     \/ p \in visited /\ GoOn
     \/ /\ p \notin visited
        /\ visited' = visited \cup {p}
        /\ \E found \in Swept(p) : \E order \in DeepestFirst(found) :
             Go(SweepTasks(order, p) \o Tail(agenda))
        /\ UNCHANGED total
  /\ UNCHANGED <<upstream, history>>

(* Every child is looked up again; one that is gone is skipped.            *)
Absent(task)     == <<>>
Mut_Present(p)   == <<Drop(tree[p].id)>>
Present(p)       == IF IsDir(p) THEN <<Sweep(p)>> ELSE <<Drop(tree[p].id)>>

VisitChild ==
  LET p == Head(agenda).at IN
  /\ Due("visit")
  /\ \/ Finish("failed")
     \/ /\ Go((IF p \in DOMAIN tree THEN Present(p) ELSE Absent(Head(agenda)))
              \o Tail(agenda))
        /\ UNCHANGED <<total, visited>>
  /\ UNCHANGED <<upstream, history>>

VisitLast ==             \* whatever the folder's path names by now
  LET p == Head(agenda).at IN
  /\ Due("last")
  /\ \/ Finish("failed")
     \/ /\ Go((IF p \in DOMAIN tree THEN <<Drop(tree[p].id)>> ELSE <<>>)
              \o Tail(agenda))
        /\ UNCHANGED <<total, visited>>
  /\ UNCHANGED <<upstream, history>>

Cut(t, S) == [p \in DOMAIN t \ S |-> t[p]]

(* delete_nodes by uuid: the server deletes the node where it is by now,   *)
(* with everything below it.                                               *)
DropNode ==
  LET i == Head(agenda).id IN
  /\ Due("drop")
  /\ named' = named \cup {i}
  /\ \/ Finish("failed") /\ UNCHANGED <<tree, gone>>
     \/ ~Known(i) /\ GoOn /\ UNCHANGED <<tree, gone>>
     \/ /\ Known(i)
        /\ LET S == Branch(tree, PathOfId(tree, i)) IN
           tree' = Cut(tree, S) /\ gone' = gone \cup IdsOf(tree, S)
        /\ GoOn \/ Finish("failed")
  /\ UNCHANGED <<next, before, edits, within, mine, got>>

-----------------------------------------------------------------------------
(* The branch at p becomes the branch at q.                                *)
Rekeyed(t, p, q) ==
  LET moved == Branch(t, p)
      to(x) == q \o SubSeq(x, Len(p) + 1, Len(x))
      from(y) == p \o SubSeq(y, Len(q) + 1, Len(y)) IN
  [y \in (DOMAIN t \ moved) \cup {to(x) : x \in moved} |->
     IF \E x \in moved : to(x) = y THEN t[from(y)] ELSE t[y]]

(* rename_item: update_node with autoRename = false, by uuid: the new name *)
(* is given to the node where it is by now, unless it is taken there.      *)
RenameNode ==
  LET i == Head(agenda).id
      p == PathOfId(tree, i)
      q == Front(p) \o <<Last(query.dst)>> IN
  /\ Due("rename")
  /\ named' = named \cup {i}
  /\ \/ Finish("failed") /\ UNCHANGED tree
     \/ /\ Known(i)
        /\ q \notin DOMAIN tree \/ q = p
        /\ tree' = Rekeyed(tree, p, q)
        /\ GoOn \/ Finish("failed")
  /\ UNCHANGED <<next, before, edits, within, mine, gone, got>>

(* download_item of a document: read by uuid, refused unless it is still   *)
(* at the requested path.                                                  *)
ReadContent ==
  LET i == Head(agenda).id IN
  /\ Due("content")
  /\ \/ Finish("failed") /\ UNCHANGED got
     \/ /\ Known(i) /\ PathOfId(tree, i) = query.src
        /\ got' = {i}
        /\ GoOn
  /\ UNCHANGED <<upstream, before, edits, within, mine, named, gone>>

(* _download_zip_for_node: the server packs what is below the uuid.        *)
ReadZip ==
  LET i == Head(agenda).id IN
  /\ Due("zip")
  /\ \/ Finish("failed") /\ UNCHANGED got
     \/ /\ ZipEndpoint /\ Known(i)
        /\ got' = IdsOf(tree, Branch(tree, PathOfId(tree, i)))
        /\ GoOn
  /\ UNCHANGED <<upstream, before, edits, within, mine, named, gone>>

-----------------------------------------------------------------------------
(* Other clients of the server.                                            *)

Edit ==
  /\ phase \notin {"ready", "done"}
  /\ edits < MaxEdits /\ edits' = edits + 1
  /\ within' = within \cup IdsOf(tree', Branch(tree', query.src))
  /\ UNCHANGED <<handler, before, mine, named, gone, got>>

OthersCreate ==
  /\ \E p \in Paths \ DOMAIN tree, body \in Contents \cup {Folder} : Store(p, body)
  /\ Edit

OthersDelete ==
  /\ \E p \in DOMAIN tree : tree' = Cut(tree, Branch(tree, p))
  /\ UNCHANGED next
  /\ Edit

OthersMove ==
  /\ \E p \in DOMAIN tree, q \in Paths \ DOMAIN tree :
       /\ ~IsPrefix(p, q) /\ IsFolder(tree, Front(q))
       /\ \A x \in Branch(tree, p) : Len(x) - Len(p) + Len(q) <= MaxDepth
       /\ tree' = Rekeyed(tree, p, q)
  /\ UNCHANGED next
  /\ Edit

Call == calls' = calls + 1

Next ==
  \/ Receive /\ Call
  \/ Look /\ Call
  \/ CountFolder /\ Call
  \/ MakeNode /\ Call
  \/ FillFolder /\ Call
  \/ ReadChild /\ Call
  \/ SweepFolder /\ Call
  \/ VisitChild /\ Call
  \/ VisitLast /\ Call
  \/ DropNode /\ Call
  \/ RenameNode /\ Call
  \/ ReadContent /\ Call
  \/ ReadZip /\ Call
  \/ OthersCreate /\ UNCHANGED calls
  \/ OthersDelete /\ UNCHANGED calls
  \/ OthersMove /\ UNCHANGED calls

Spec == Init /\ [][Next]_vars

-----------------------------------------------------------------------------
(* Properties.                                                             *)

Undisturbed == edits = 0
Ok          == phase = "done" /\ result = "ok"
Shape(t, p) == {<<SubSeq(q, Len(p) + 1, Len(q)), t[q].body>> : q \in Branch(t, p)}
Overlapping ==
  query.op = "copy" /\ (IsPrefix(query.src, query.dst) \/ IsPrefix(query.dst, query.src))

(* Undisturbed, a copy changes no node that was there, not even one at its *)
(* destination or in a folder copied into itself.  One to a free path      *)
(* elsewhere adds only parts of its source, below its destination (a       *)
(* failure leaves the part it had made), and one that reports success has  *)
(* copied the whole source (copy_item, _copy_folder_contents, make_dir).   *)
CopyMirrorsSource ==
  query.op \in {"copy", "mkdir"} /\ Undisturbed =>
    LET new == {p \in DOMAIN tree : tree[p].id \in mine} IN
    /\ Cut(tree, new) = before
    /\ query.op = "copy" /\ query.dst \notin DOMAIN before /\ ~Overlapping =>
         /\ new = Branch(tree, query.dst)
         /\ Shape(tree, query.dst) \subseteq Shape(before, query.src)
         /\ Ok => Shape(tree, query.dst) = Shape(before, query.src)

(* A delete that nobody disturbs removes nothing outside its target, and   *)
(* all of its target when it reports success (delete_item,                 *)
(* _delete_folder_tree).                                                   *)
DeleteIsComplete ==
  query.op = "delete" /\ Undisturbed =>
    /\ Cut(tree, Branch(tree, query.src)) = Cut(before, Branch(before, query.src))
    /\ Ok => Branch(tree, query.src) = {}

(* Undisturbed, no single call of a delete takes more than one node: a     *)
(* folder is empty when it is deleted, so the walk that fails or is        *)
(* stopped never took more than it had counted (_delete_folder_tree        *)
(* deletes the deepest nodes first).                                       *)
LeavesFirst ==
  [][query.op = "delete" /\ edits' = 0 => Cardinality(gone' \ gone) <= 1]_vars

(* Undisturbed, an operation creates, removes or delivers no more nodes    *)
(* than its maxNodes allows, though the limit is only compared with a      *)
(* count made beforehand.  A copy of a folder into itself or onto a folder *)
(* above it is the exception: it may find its own copies and copy them too.*)
WithinLimits ==
  Undisturbed /\ ~Overlapping =>
    /\ Cardinality(mine) <= CopyMax
    /\ Cardinality(gone) <= DeleteMax
    /\ Cardinality(got) <= DownloadMax

(* Whatever others do meanwhile, the driver asks the server to delete or   *)
(* rename only nodes that were at or below the requested path at some time *)
(* since the request arrived, although it names them by uuid after looking *)
(* their paths up (delete_item, rename_item).                              *)
OnlyTheTargetIsNamed == named \subseteq within

(* The walk ends: left alone, it makes no more than five calls for every   *)
(* node, and a change by others makes it at most walk everything it has    *)
(* found or made once more; a copy that may find its own copies is the     *)
(* exception (seen in _delete_folder_tree, the recursion of all three).    *)
CallsBounded ==
  LET n == Cardinality(DOMAIN before) IN
  ~Overlapping => calls <= 2 + 5 * (IF Undisturbed THEN n ELSE 2^edits * (n + edits))

(* Left alone, an operation does what it was asked, no more and, when it   *)
(* reports success, no less: copies mirror their source, deletes take      *)
(* their target, and both keep to the limits.  Alone or not, it ends.      *)
WalksAreExact == CopyMirrorsSource /\ DeleteIsComplete /\ WithinLimits /\ CallsBounded
=============================================================================
