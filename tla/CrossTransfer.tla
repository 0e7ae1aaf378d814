--------------------------- MODULE CrossTransfer ---------------------------
(***************************************************************************)
(* Copy, move and upload through the bridge (services/bridge_service.py    *)
(* copy_path, rename_path, upload_path; services/bridge_transfer_ops.py).  *)
(* A request is a handler running in the thread pool: it interleaves with  *)
(* the other requests and with the upstream servers' other clients at      *)
(* every upstream call.  Every such call may be refused, may fail, or may  *)
(* take effect and have its answer lost.                                   *)
(***************************************************************************)
EXTENDS Naturals, FiniteSets

CONSTANTS
  Requests,      \* the handler threads, each serving one request
  Conns,         \* configured connections
  Stores,        \* upstream repositories
  StoreOf,       \* [Conns -> Stores]: the repository behind a connection
  Kind,          \* [Conns -> Kinds]: the driver of a connection
  Versioned,     \* [Conns -> BOOLEAN]: versioning_capabilities()["supported"]
  Paths,         \* file paths, all in the same folder of their repository
  Root,          \* the path "/", which names no file
  Spots,         \* Paths, and other places in a repository a node may be at
  Leads,         \* where looking a path up through a connection may end
  Contents,      \* document contents
  Size,          \* [Contents -> Sizes]: against the inline upload limit
  Depth,         \* number of folders from the repository root to the files
  Queries,       \* the requests clients may send
  Busy,          \* the repositories that have clients other than the bridge
  PutHonoursOverwrite, \* does the WebDAV server obey "Overwrite: F" on PUT?
  None

Kinds == {"alfresco", "edocat", "webdav"}
Sizes == {"empty", "inline", "large"}
Ops   == {"copy", "move", "upload"}
Nodes == Conns \X (Paths \cup {Root})

(* source and destination, plus the caller's explicit choices; an upload   *)
(* brings its content with it and its src is unused                        *)
Query == [op: Ops, src: Conns \X Paths, dst: Nodes, content: Contents,
          overwrite: BOOLEAN, versioning: BOOLEAN]

ASSUME ConstantsOK ==
  /\ StoreOf \in [Conns -> Stores]
  /\ Kind \in [Conns -> Kinds]
  /\ Versioned \in [Conns -> BOOLEAN]
  /\ Size \in [Contents -> Sizes]
  /\ Root \notin Spots /\ Paths \subseteq Spots
  /\ None \notin Contents \cup Query \cup Requests \cup Spots
  /\ Leads \in [Conns -> [Paths \cup {Root} -> SUBSET Spots]]
  /\ \A c \in Conns, p \in Paths :
       p \in Leads[c][p] /\ (Kind[c] # "alfresco" => Leads[c][p] = {p})
  /\ Depth \in Nat
  /\ Queries \subseteq Query
  /\ Busy \subseteq Stores
  /\ PutHonoursOverwrite \in BOOLEAN

ASSUME NoneIsNoAnswer ==
  None \notin {"ok", "failed", "conflict", "version_required", "crashed"}

VARIABLES
  file,      \* upstream: file[s][m] is the content at spot m, or None
  dirs,      \* upstream: how many folders of the chain exist in s
  pc,        \* where each request is
  query,     \* what it was asked
  absent,    \* target_item is None in _cross_connection_existing_target_response
  got,       \* download_result.content_base64
  level,     \* folders ensure_folder_chain has passed
  temp,      \* the temporary file of _upload_downloaded_content
  result,    \* the answer, or the upload's result while the request still runs
  \* history, read by the properties only
  readAt,    \* the spot this request downloaded from
  landed,    \* content a server accepted from this request
  landedAt,  \* the spot it is at, None when the server gave it another name
  replaced,  \* content this request's upload took the place of
  removed,   \* content that left the source because of this request
  took,      \* the spot it was taken from
  touched,   \* some upstream write of this request took effect
  raced      \* someone else wrote at readAt after this request read there

upstream == <<file, dirs>>
local    == <<query, absent, got, level, temp>>
history  == <<readAt, landed, landedAt, replaced, removed, took, touched, raced>>
vars     == <<file, dirs, pc, query, absent, got, level, temp, result, readAt,
              landed, landedAt, replaced, removed, took, touched, raced>>

PCs     == {"ready", "check", "describe", "download", "stage", "folder",
            "mkdir", "put", "cleanup", "remove", "native", "clone", "done"}
Results == {None, "ok", "failed", "conflict", "version_required", "crashed"}
Uploading == {"folder", "mkdir", "put", "cleanup"}

Src(r)      == query[r].src
Dst(r)      == query[r].dst
Place(n)    == <<StoreOf[n[1]], n[2]>>           \* repository and path of a node
In(n, m)    == <<StoreOf[n[1]], m>>              \* spot m of the repository of n
Held(place) == file[place[1]][place[2]]
Chosen(r)   == IF Versioned[Dst(r)[1]] THEN query[r].versioning
                                       ELSE query[r].overwrite

(* The Alfresco driver looks every path up anew, in caches of the ticket   *)
(* that keep nodes wherever these went and that other requests fill and    *)
(* empty, and a path that leads nowhere without its first segment          *)
(* (AlfrescoCache).  So one lookup tells nothing of the next: each ends at *)
(* some spot of its own among Lead(n), where n itself is always one.       *)
Lead(n)     == Leads[n[1]][n[2]]
Astray(n)   == Kind[n[1]] = "alfresco"           \* a lookup may end elsewhere

(* Where the spots of a repository are that a connection leads to, and     *)
(* whether there is a folder for a file there.                             *)
Reach(s)    == Paths \cup UNION {Leads[c][p] : c \in {c \in Conns : StoreOf[c] = s},
                                               p \in Paths}
Inside(place) == place[2] \in Paths => dirs[place[1]] = Depth

TypeOK ==
  /\ file \in [Stores -> [Spots -> Contents \cup {None}]]
  /\ dirs \in [Stores -> 0..Depth]
  /\ pc \in [Requests -> PCs]
  /\ query \in [Requests -> Query \cup {None}]
  /\ absent \in [Requests -> BOOLEAN]
  /\ got \in [Requests -> Contents \cup {None}]
  /\ level \in [Requests -> 0..Depth]
  /\ temp \in [Requests -> {"none", "live", "orphan"}]
  /\ result \in [Requests -> Results]
  /\ readAt \in [Requests -> Spots \cup {None}]
  /\ landed \in [Requests -> Contents \cup {None}]
  /\ landedAt \in [Requests -> Spots \cup {None}]
  /\ replaced \in [Requests -> Contents \cup {None}]
  /\ removed \in [Requests -> Contents \cup {None}]
  /\ took \in [Requests -> Spots \cup {None}]
  /\ touched \in [Requests -> BOOLEAN]
  /\ raced \in [Requests -> BOOLEAN]

-----------------------------------------------------------------------------
(* Steps shared by the actions.                                            *)

Init ==
  /\ dirs \in [Stores -> 0..Depth]
  /\ file \in [Stores -> [Spots -> Contents \cup {None}]]
  /\ \A s \in Stores, m \in Spots :
       file[s][m] # None => m \in Reach(s) /\ Inside(<<s, m>>)
  /\ pc = [r \in Requests |-> "ready"]
  /\ query = [r \in Requests |-> None]
  /\ absent = [r \in Requests |-> FALSE]
  /\ got = [r \in Requests |-> None]
  /\ level = [r \in Requests |-> 0]
  /\ temp = [r \in Requests |-> "none"]
  /\ result = [r \in Requests |-> None]
  /\ readAt = [r \in Requests |-> None]
  /\ landed = [r \in Requests |-> None]
  /\ landedAt = [r \in Requests |-> None]
  /\ replaced = [r \in Requests |-> None]
  /\ removed = [r \in Requests |-> None]
  /\ took = [r \in Requests |-> None]
  /\ touched = [r \in Requests |-> FALSE]
  /\ raced = [r \in Requests |-> FALSE]

Goto(r, l)     == pc' = [pc EXCEPT ![r] = l]
Answer(r, res) == Goto(r, "done") /\ result' = [result EXCEPT ![r] = res]

(* A request that stops here has made no upstream write in this step.      *)
Stop(r, res) == Answer(r, res) /\ UNCHANGED <<upstream, local, history>>

(* Where a request goes with the upload's result: only a move whose upload *)
(* succeeded deletes its source.                                           *)
Mut_AfterUnchecked(r, res) == IF query[r].op = "move" THEN "remove" ELSE "done"
AfterUpload(r, res) ==
  IF res = "ok" /\ query[r].op = "move" THEN "remove" ELSE "done"

(* Leaving the upload: the finally clause first unlinks the temporary file.*)
Mut_LeaveNoFinally(r, res) ==
  /\ result' = [result EXCEPT ![r] = res]
  /\ Goto(r, IF temp[r] = "live" /\ res = "ok" THEN "cleanup"
                                              ELSE AfterUpload(r, res))
LeaveUpload(r, res) ==
  /\ result' = [result EXCEPT ![r] = res]
  /\ Goto(r, IF temp[r] = "live" THEN "cleanup" ELSE AfterUpload(r, res))

(* ensure_folder_chain is done once it has passed every folder.            *)
Mut_AfterFolderLate(l) == IF l > Depth THEN "put" ELSE "folder"
AfterFolder(l) == IF l = Depth THEN "put" ELSE "folder"

(* A write of c at place, seen by every other request that has downloaded  *)
(* what it carries from there.                                             *)
Race(place, who) ==
  raced' = [x \in Requests |->
             \/ raced[x]
             \/ /\ x # who
                /\ readAt[x] # None
                /\ In(Src(x), readAt[x]) = place]

WriteAt(place, c, who) ==
  /\ file' = [file EXCEPT ![place[1]][place[2]] = c]
  /\ Race(place, who)

(* What is at place is read, and what was at place is gone.                *)
Fetch(r, place) ==
  /\ Held(place) # None
  /\ got' = [got EXCEPT ![r] = Held(place)]
  /\ readAt' = [readAt EXCEPT ![r] = place[2]]
Take(r, place) ==
  /\ Held(place) # None
  /\ removed' = [removed EXCEPT ![r] = Held(place)]
  /\ took' = [took EXCEPT ![r] = place[2]]

-----------------------------------------------------------------------------
(* The request arrives: _resolve and _validated_connection_auth come before *)
(* anything else and may fail; then the handler branches.                   *)

Begin(r, q, l) ==
  /\ pc[r] = "ready"
  /\ query' = [query EXCEPT ![r] = q]
  /\ Goto(r, l)

Reject(r, q) ==          \* unknown connection, no credentials, bad path, ...
  /\ Begin(r, q, "done")
  /\ result' = [result EXCEPT ![r] = "failed"]
  /\ UNCHANGED <<upstream, absent, got, level, temp, history>>

CrossConnection(q) == q.op # "upload" /\ q.src[1] # q.dst[1]

StartTransfer(r, q) ==
  /\ CrossConnection(q)
  /\ q.dst[2] # Root     \* else "requires a destination file name"
  /\ Begin(r, q, "check")
  /\ UNCHANGED <<upstream, absent, got, level, temp, result, history>>

StartNative(r, q) ==
  /\ q.op # "upload" /\ ~CrossConnection(q)
  /\ Begin(r, q, "native")
  /\ UNCHANGED <<upstream, absent, got, level, temp, result, history>>

StartUpload(r, q) ==
  /\ q.op = "upload" /\ q.dst[2] # Root
  /\ Size[q.content] # "large"     \* else "Upload blocked: inline ..."
  /\ Begin(r, q, AfterFolder(0))
  /\ got' = [got EXCEPT ![r] = q.content]
  /\ UNCHANGED <<upstream, absent, level, temp, result, history>>

-----------------------------------------------------------------------------
(* _cross_connection_existing_target_response                              *)

(* What stat_item may say of "no such item": the Alfresco driver turns a   *)
(* transport error into it, and answers from its caches.                   *)
Missing(n) == IF Astray(n) THEN BOOLEAN ELSE {Held(Place(n)) = None}

Mut_ProceedsAlways(r, missing) == TRUE
Proceeds(r, missing) == missing \/ Chosen(r)

CheckTarget(r) ==
  /\ pc[r] = "check"
  /\ \/ Stop(r, "failed")
     \/ \E missing \in Missing(Dst(r)) :
          /\ absent' = [absent EXCEPT ![r] = missing]
          /\ Goto(r, IF Proceeds(r, missing) THEN "download" ELSE "describe")
          /\ UNCHANGED <<upstream, query, got, level, temp, result, history>>

(* The conflict answer describes the source, so it is looked up first.     *)
DescribeConflict(r) ==
  /\ pc[r] = "describe"
  /\ Stop(r, "conflict") \/ Stop(r, "failed")

-----------------------------------------------------------------------------
(* Download, and the temporary file of a payload too large to go inline.   *)

Download(r) ==
  /\ pc[r] = "download"
  /\ \/ Stop(r, "failed")
     \/ \E m \in Lead(Src(r)) :
          /\ Fetch(r, In(Src(r), m))
          /\ Size[got'[r]] # "empty"      \* else "returned no content"
          /\ Goto(r, IF Size[got'[r]] = "large" THEN "stage" ELSE AfterFolder(0))
          /\ UNCHANGED <<upstream, query, absent, level, temp, result,
                         landed, landedAt, replaced, removed, took, touched, raced>>

(* _write_base64_to_temp_file removes what it wrote when it fails, and     *)
(* ignores a removal that fails too.                                       *)
Stage(r) ==
  /\ pc[r] = "stage"
  /\ \/ /\ temp' = [temp EXCEPT ![r] = "live"]
        /\ Goto(r, AfterFolder(0))
        /\ UNCHANGED result
     \/ /\ \E left \in {"none", "orphan"} : temp' = [temp EXCEPT ![r] = left]
        /\ Answer(r, "failed")
  /\ UNCHANGED <<upstream, query, absent, got, level, history>>

-----------------------------------------------------------------------------
(* ensure_folder_chain: one stat_item and perhaps one make_dir per folder. *)

Mut_PassFolderStays(r) ==
  /\ Goto(r, AfterFolder(level[r]))
  /\ UNCHANGED <<level, result>>
PassFolder(r) ==
  /\ level' = [level EXCEPT ![r] = level[r] + 1]
  /\ Goto(r, AfterFolder(level[r] + 1))
  /\ UNCHANGED result

StatFolder(r) ==
  LET d == Dst(r)[1] IN
  /\ pc[r] = "folder"
  /\ \/ LeaveUpload(r, "failed") /\ UNCHANGED level
     \/ /\ dirs[StoreOf[d]] > level[r] \/ Kind[d] = "alfresco"
        /\ PassFolder(r)
     \/ /\ dirs[StoreOf[d]] <= level[r] \/ Kind[d] = "alfresco"
        /\ Goto(r, "mkdir")
        /\ UNCHANGED <<level, result>>
  /\ UNCHANGED <<upstream, query, absent, got, temp, history>>

Touch(r) == touched' = [touched EXCEPT ![r] = TRUE]

(* make_dir took effect; its answer may still be lost.                     *)
FolderMade(r) ==
  /\ PassFolder(r) \/ (LeaveUpload(r, "failed") /\ UNCHANGED level)
  /\ Touch(r)

MakeFolder(r) ==
  LET d == Dst(r)[1]
      s == StoreOf[d] IN
  /\ pc[r] = "mkdir"
  /\ \/ LeaveUpload(r, "failed") /\ UNCHANGED <<level, dirs, touched>>
     \/ dirs[s] = level[r] /\ FolderMade(r)
        /\ dirs' = [dirs EXCEPT ![s] = level[r] + 1]
     \/ Kind[d] = "alfresco"                           \* 409 counts as made
        /\ PassFolder(r) /\ UNCHANGED <<dirs, touched>>
     \/ Kind[d] = "alfresco"                           \* made in another folder
        /\ FolderMade(r) /\ UNCHANGED dirs
     \/ dirs[s] > level[r] /\ Kind[d] = "edocat"        \* made as "name (1)"
        /\ FolderMade(r) /\ UNCHANGED dirs
  /\ UNCHANGED <<file, query, absent, got, temp,
                 readAt, landed, landedAt, replaced, removed, took, raced>>

-----------------------------------------------------------------------------
(* upload_item of the destination's driver.  A driver that looks the       *)
(* target up before it writes relies on the server to refuse a name that   *)
(* appeared, or a node that went, in between: those are refusals here.     *)

(* The server accepted got[r]; its answer may still be lost.               *)
Accept(r, over) ==
  /\ landed' = [landed EXCEPT ![r] = got[r]]
  /\ replaced' = [replaced EXCEPT ![r] = over]
  /\ Touch(r)
  /\ LeaveUpload(r, "ok") \/ LeaveUpload(r, "failed")
  /\ UNCHANGED <<dirs, readAt, removed, took, local>>

AcceptAt(r, place, over) ==
  /\ Inside(place)
  /\ landedAt' = [landedAt EXCEPT ![r] = place[2]]
  /\ WriteAt(place, got[r], r)
  /\ Accept(r, over)

(* Without autoRename = false eDoCat stores a taken name as "name (1)".    *)
AcceptBeside(r) ==
  /\ Inside(Place(Dst(r)))
  /\ landedAt' = [landedAt EXCEPT ![r] = None]
  /\ UNCHANGED <<file, raced>>
  /\ Accept(r, None)

NotAccepted(r, res) ==
  /\ LeaveUpload(r, res)
  /\ UNCHANGED <<upstream, local, history>>

UploadNew(r, place) ==
  /\ Held(place) = None
  /\ Kind[Dst(r)[1]] = "edocat" => ~query[r].versioning  \* "target does not exist"
  /\ AcceptAt(r, place, None)

UploadVersion(r, place) ==
  /\ Held(place) # None
  /\ Kind[Dst(r)[1]] \in {"alfresco", "edocat"} /\ query[r].versioning
  /\ AcceptAt(r, place, Held(place))

UploadOver(r, place) ==  \* PUT onto a resource that exists
  /\ Held(place) # None
  /\ Kind[Dst(r)[1]] = "webdav"
  /\ query[r].overwrite \/ ~PutHonoursOverwrite
  /\ AcceptAt(r, place, Held(place))

Mut_SiblingReplaces(r, place) ==
  /\ Held(place) # None
  /\ Kind[Dst(r)[1]] = "edocat" /\ ~query[r].versioning /\ ~query[r].overwrite
  /\ AcceptAt(r, place, Held(place))
UploadSibling(r, place) ==
  /\ Held(place) # None
  /\ Kind[Dst(r)[1]] = "edocat" /\ ~query[r].versioning /\ ~query[r].overwrite
  /\ AcceptBeside(r)

(* The Alfresco driver raises VersionRequiredError for a document that     *)
(* exists, or that its cache still holds, without a version choice.        *)
Mut_RefusedAsConflict(r) ==
  /\ Kind[Dst(r)[1]] = "alfresco" /\ ~query[r].versioning
  /\ NotAccepted(r, "conflict")
VersionRequired(r) ==
  /\ Kind[Dst(r)[1]] = "alfresco" /\ ~query[r].versioning
  /\ NotAccepted(r, "version_required")

Put(r) ==
  /\ pc[r] = "put"
  /\ \/ NotAccepted(r, "failed")
     \/ VersionRequired(r)
     \/ \E m \in Lead(Dst(r)) :
          LET place == In(Dst(r), m) IN
          \/ UploadNew(r, place) \/ UploadVersion(r, place) \/ UploadOver(r, place)
          \/ UploadSibling(r, place)

(* finally: os.unlink(temp_path); a failure is only logged.                *)
Cleanup(r) ==
  /\ pc[r] = "cleanup"
  /\ \E left \in {"none", "orphan"} : temp' = [temp EXCEPT ![r] = left]
  /\ Goto(r, AfterUpload(r, result[r]))
  /\ UNCHANGED <<upstream, query, absent, got, level, result, history>>

-----------------------------------------------------------------------------
(* The last step of a cross-connection move, and the whole of an operation *)
(* within one connection, which one request to its server settles, but for *)
(* a copy within eDoCat.                                                   *)

RemoveOutcomes == {"ok", "failed"}

(* delete_item looks the source up once more.                              *)
RemoveAt(r, place) ==
  /\ Take(r, place)
  /\ file' = [file EXCEPT ![place[1]][place[2]] = None]
  /\ Touch(r)
  /\ \E res \in RemoveOutcomes : Answer(r, res)   \* the answer may be lost
  /\ UNCHANGED <<dirs, local, readAt, landed, landedAt, replaced, raced>>

Mut_RemoveSwallowed(r) ==
  /\ pc[r] = "remove"
  /\ Stop(r, "ok") \/ \E m \in Lead(Src(r)) : RemoveAt(r, In(Src(r), m))
Remove(r) ==
  /\ pc[r] = "remove"
  /\ Stop(r, "failed") \/ \E m \in Lead(Src(r)) : RemoveAt(r, In(Src(r), m))

ByClone(r) == Kind[Src(r)[1]] = "edocat" /\ query[r].op = "copy"

(* A name that is taken is refused, but a node moved to where it is stays. *)
NativeDone(r, from, to) ==
  LET c == Held(from) IN
  /\ ~ByClone(r)
  /\ c # None
  /\ \/ Held(to) = None
     \/ to = from /\ query[r].op = "move" /\ Astray(Dst(r))
  /\ landed' = [landed EXCEPT ![r] = c]
  /\ landedAt' = [landedAt EXCEPT ![r] = to[2]]
  /\ IF query[r].op = "move"
     THEN /\ Take(r, from)
          /\ file' = [file EXCEPT ![from[1]][from[2]] = None, ![to[1]][to[2]] = c]
     ELSE /\ UNCHANGED <<removed, took>>
          /\ file' = [file EXCEPT ![to[1]][to[2]] = c]
  /\ Race(to, r)
  /\ Touch(r)
  /\ \E res \in RemoveOutcomes : Answer(r, res)
  /\ UNCHANGED <<dirs, local, readAt, replaced>>

(* eDoCat copies a file by reading it with its content ...                 *)
ReadToClone(r, from) ==
  /\ ByClone(r)
  /\ Fetch(r, from)
  /\ Goto(r, "clone")
  /\ UNCHANGED <<upstream, query, absent, level, temp, result,
                 landed, landedAt, replaced, removed, took, touched, raced>>

Native(r) ==
  /\ pc[r] = "native"
  /\ \/ Stop(r, "failed")
     \/ /\ Dst(r)[2] # Root
        /\ \E m \in Lead(Src(r)) :
             \/ ReadToClone(r, In(Src(r), m))
             \/ \E t \in Lead(Dst(r)) : NativeDone(r, In(Src(r), m), In(Dst(r), t))

(* ... and creating a node that, without autoRename = false, takes another *)
(* name when the one asked for is taken.                                   *)
Clone(r) ==
  /\ pc[r] = "clone"
  /\ \/ Stop(r, "failed")
     \/ Held(Place(Dst(r))) = None /\ AcceptAt(r, Place(Dst(r)), None)
     \/ Held(Place(Dst(r))) # None /\ AcceptBeside(r)

-----------------------------------------------------------------------------
(* The bridge process stops: every handler running dies without an answer, *)
(* and the temporary files they had stay behind.                           *)
Running == {r \in Requests : pc[r] \notin {"ready", "done"}}

Crash ==
  /\ Running # {}
  /\ pc' = [r \in Requests |-> IF r \in Running THEN "done" ELSE pc[r]]
  /\ result' = [r \in Requests |-> IF r \in Running THEN "crashed" ELSE result[r]]
  /\ temp' = [r \in Requests |-> IF temp[r] = "live" THEN "orphan" ELSE temp[r]]
  /\ UNCHANGED <<upstream, query, absent, got, level, history>>

(* Other clients of the upstream servers.                                  *)
OtherWrite(s, m, c) ==
  /\ Inside(<<s, m>>)
  /\ file[s][m] # c
  /\ WriteAt(<<s, m>>, c, None)
  /\ UNCHANGED <<dirs, pc, local, result,
                 readAt, landed, landedAt, replaced, removed, took, touched>>

OtherDelete(s, m) ==
  /\ file[s][m] # None
  /\ file' = [file EXCEPT ![s][m] = None]
  /\ UNCHANGED <<dirs, pc, local, result, history>>

OtherFolders(s) ==
  /\ \/ dirs[s] < Depth /\ dirs' = [dirs EXCEPT ![s] = @ + 1]
     \/ /\ dirs[s] > 0 /\ \A p \in Paths : file[s][p] = None
        /\ dirs' = [dirs EXCEPT ![s] = @ - 1]
  /\ UNCHANGED <<file, pc, local, result, history>>

-----------------------------------------------------------------------------
Start(r) ==
  \E q \in Queries :
    Reject(r, q) \/ StartTransfer(r, q) \/ StartNative(r, q) \/ StartUpload(r, q)

(* The next step of the handler of a request it has begun to serve.        *)
Continue(r) ==
  \/ CheckTarget(r) \/ DescribeConflict(r) \/ Download(r) \/ Stage(r)
  \/ StatFolder(r) \/ MakeFolder(r) \/ Put(r) \/ Cleanup(r)
  \/ Remove(r) \/ Native(r) \/ Clone(r)

Others == \E s \in Busy :
  \/ \E m \in Reach(s) : OtherDelete(s, m) \/ \E c \in Contents : OtherWrite(s, m, c)
  \/ OtherFolders(s)

Next == (\E r \in Requests : Start(r) \/ Continue(r)) \/ Crash \/ Others

Spec == Init /\ [][Next]_vars

(* Each handler has a thread and each upstream call a timeout, so a        *)
(* handler that began keeps taking steps.                                  *)
Fairness == \A r \in Requests : WF_vars(Continue(r))
FairSpec == Spec /\ Fairness

-----------------------------------------------------------------------------
(* What the bridge must get right.                                         *)

(* A move (rename_path) takes a document, from where its source leads,     *)
(* only after a server accepted content read from where it leads, and what *)
(* it takes is what it delivered, with two exceptions: someone else wrote  *)
(* there after the read, or the Alfresco driver's second lookup of the     *)
(* same path ended at another place than its first.                        *)
Keeps(r) ==
  removed[r] # None =>
    /\ query[r].op = "move"
    /\ landed[r] # None
    /\ took[r] \in Lead(Src(r))
    /\ \/ removed[r] = landed[r]
       \/ raced[r]
       \/ Astray(Src(r)) /\ took[r] # readAt[r]
MoveKeepsDocument == \A r \in Requests : Keeps(r)

(* A document that was at the target is replaced only by the caller's      *)
(* explicit choice (a version, or overwrite on a connection without        *)
(* versions); the one exception is a document that appeared after the      *)
(* request looked, on a server that ignores "Overwrite: F".                *)
ReplaceOnlyByChoice ==
  \A r \in Requests :
    replaced[r] # None =>
      \/ Chosen(r)
      \/ Kind[Dst(r)[1]] = "webdav" /\ ~PutHonoursOverwrite
         /\ (query[r].op = "upload" \/ absent[r])

(* An answer that asks the user to choose (version_required or             *)
(* overwrite_required) has changed nothing upstream, so cancelling leaves  *)
(* no trace; the driver's own later refusal stores and removes no document.*)
ConflictLeavesNoTrace ==
  \A r \in Requests :
    /\ result[r] = "conflict" => ~touched[r]
    /\ result[r] = "version_required" => landed[r] = None /\ removed[r] = None

(* Success is only reported for a document the target's server accepted,   *)
(* never for an empty download, and of a move whose source this very       *)
(* request removed: of two moves of one document one succeeds.             *)
OkIsEarned ==
  \A r \in Requests :
    pc[r] = "done" /\ result[r] = "ok" =>
      /\ landed[r] # None
      /\ CrossConnection(query[r]) => Size[landed[r]] # "empty"
      /\ query[r].op = "move" => removed[r] # None

(* Two requests cannot both succeed in moving the same document away: of   *)
(* two moves that succeed each has taken a document, and from different    *)
(* places unless something was put there again.  Through Alfresco the      *)
(* second of two moves of one path may win, too, with the document the     *)
(* path leads to then; where a lookup cannot go astray it cannot.          *)
MovedAway(r) == /\ pc[r] = "done" /\ result[r] = "ok"
                /\ query[r].op = "move"
OneMoveWins ==
  \A r1, r2 \in Requests :
    /\ r1 # r2 /\ MovedAway(r1) /\ MovedAway(r2)
    /\ StoreOf[Src(r1)[1]] = StoreOf[Src(r2)[1]] /\ StoreOf[Src(r1)[1]] \notin Busy
    => /\ None \notin {took[r1], took[r2]}
       /\ \/ took[r1] # took[r2]
          \/ \E x \in Requests : /\ landed[x] # None
                                  /\ In(Dst(x), landedAt[x]) = In(Src(r1), took[r1])

(* When two connections lead to one repository, a move may be of a         *)
(* document onto itself.  The existing document is then the target, so     *)
(* nothing is deleted unless the caller chose to replace it, or the        *)
(* document was not there when the request looked.                         *)
SelfMoveNeedsChoice ==
  \A r \in Requests :
    /\ removed[r] # None /\ CrossConnection(query[r])
    /\ Place(Src(r)) = Place(Dst(r))
    => Chosen(r) \/ absent[r]

(* A temporary file lives only while its upload is running: every way out  *)
(* of the upload unlinks it, and only a failed unlink or a crash leaves it.*)
TempFileReclaimed ==
  \A r \in Requests : temp[r] = "live" => pc[r] \in Uploading

(* Declared for eDoCat and Alfresco as "existing_upload":                  *)
(* "version_required": without a version choice an upload onto a document  *)
(* that exists does not succeed.                                           *)
ExistingUploadNeedsVersionChoice ==
  \A r \in Requests :
    /\ pc[r] = "done" /\ result[r] = "ok"
    /\ Versioned[Dst(r)[1]] /\ ~query[r].versioning
    => landedAt[r] # None

(* What MoveKeepsDocument needs to be inductive: how far a request is      *)
(* determines what it has read, delivered and taken, and until someone     *)
(* else writes there the place it read still holds what it read.           *)
Steps(r) ==
  /\ readAt[r] # None => query[r] # None /\ readAt[r] \in Lead(Src(r))
  /\ removed[r] # None => took[r] # None
  /\ pc[r] = "ready" <=> query[r] = None
  /\ pc[r] \notin {"ready", "native", "done"} => Dst(r)[2] # Root
  /\ pc[r] = "native" => Src(r)[1] = Dst(r)[1]
  /\ pc[r] \in {"ready", "check", "describe", "download", "native"} =>
       /\ got[r] = None /\ readAt[r] = None
       /\ landed[r] = None /\ removed[r] = None
  /\ pc[r] \in {"stage", "folder", "mkdir", "put", "clone"} =>
       got[r] # None /\ landed[r] = None /\ removed[r] = None
  /\ pc[r] = "cleanup" =>
       got[r] # None /\ removed[r] = None /\ (result[r] = "ok" => landed[r] = got[r])
  /\ pc[r] \in {"stage", "clone"} \cup Uploading =>
       query[r].op = "upload" \/ readAt[r] # None
  /\ pc[r] = "remove" =>
       /\ query[r].op = "move" /\ got[r] # None /\ readAt[r] # None
       /\ landed[r] = got[r] /\ removed[r] = None
SourceKept(r) ==
  readAt[r] # None /\ removed[r] = None /\ ~raced[r] =>
    Held(In(Src(r), readAt[r])) \in {got[r], None}
FolderLevel(r) ==
  /\ pc[r] \in {"ready", "check", "describe", "download", "stage", "native"} =>
       level[r] = 0
  /\ pc[r] \in {"folder", "mkdir"} => level[r] < Depth
TransferInv ==
  \A r \in Requests : Steps(r) /\ SourceKept(r) /\ FolderLevel(r)

(* Every request that begins is answered: the folder loop ends, and no     *)
(* failure leaves a handler waiting.                                       *)
RequestsAreAnswered ==
  \A r \in Requests : query[r] # None ~> pc[r] = "done"

(* The request seen from outside: what it read, delivered, took and        *)
(* answered.  Folders, temporary files, checks and retries are hidden.     *)
Promise == INSTANCE TransferContract WITH
  Sources <- LAMBDA q : {In(q.src, m) : m \in Lead(q.src)},
  Targets <- LAMBDA q : {In(q.dst, m) : m \in Lead(q.dst)},
  ask <- query, read <- got, stored <- landed, taken <- removed,
  answer <- [r \in Requests |-> IF pc[r] = "done" THEN result[r] ELSE None]

(* The handlers of copy_path, rename_path and upload_path implement the    *)
(* contract: read, deliver, take, answer, each at most once, in that order *)
(* and nothing else in the repositories.                                   *)
Contract == Promise!Spec
=============================================================================
