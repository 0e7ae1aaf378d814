# A TLA+ model of dms-provider-bridge

dms-provider-bridge is an HTTP service that lets Total Commander browse and
change documents in several document management systems (Alfresco, eDoCat,
WebDAV) as if they were directories.  It keeps no documents of its own: every
operation is a sequence of calls to upstream servers, run in a thread pool, and
every such call can be refused, fail, or take effect and have its answer lost.
What it does keep are caches, temporary files and JSON configuration files
that its own administration pages rewrite while requests are being served.

The modules here model that sequence of calls and that shared state, TLC checks
them on small instances, and TLAPS proves the central invariants for instances
of any size.  Paths below are relative to `src/dms_provider_bridge/` unless
they begin with `tests/`, `docs/` or `README`.

## Inventory of the system

| Component | State it keeps | Operations | What is hard about it | What makes it right |
|---|---|---|---|---|
| Transfers (`services/bridge_service.py`, `bridge_transfer_ops.py`) | per request: what it read, a temporary file; upstream: documents and folders | copy, move, upload; across connections a copy is download + upload, a move also deletes the source | no transaction across servers; checks made before the write; the source looked up anew for the delete; lost answers; crash between upload and delete | no document is replaced unasked, and none lost but for what others wrote at the source or an Alfresco lookup found elsewhere; "ok" is true; temporary files go |
| Connection runtimes (`services/connection_runtime_service.py`, `core/config_loader.py`) | a cache of driver objects built from JSON files | get a runtime, list what is registered, clear | no lock; several file reads per runtime; clear while a request is building | requests use the configuration the files hold |
| Configuration pages (`app/routes/config.py`) | `config/connections/*.json`, `config/drivers/*.json` and their `.tmp` files | save, delete, reload, audit, show | two pages at once; one shared `.tmp` per file; checks before the write; a crash in the middle | files stay valid JSON, mounts unique, nothing overwritten unconfirmed, the runtime cache told |
| Alfresco client (`clients/alfresco_client.py`) | path, child and document-library caches, per ticket | resolve a path, create, move, delete nodes | results stored after an invalidation; other tickets; a size limit | a path resolves to the node that is there |
| Alfresco driver (`drivers/alfresco.py`) | none but the client | the file operations; a call refused with 401 is repeated with a new ticket | repeating what was half done; an existing document needs a version choice | each operation takes effect at most once |
| eDoCat driver (`drivers/edocat.py`, `edocat_*.py`) | a cache of version labels | the file operations; copying and deleting folders node by node | partial trees; count limits checked before the work; names the server changes; versions fetched before an upload and cached after it | no more than the tree asked for is touched; versions do not go back |
| eDoCat client (`clients/edocat_client.py`) | none | paged queries | pages that repeat or lack totals | the loop ends with every node once |
| WebDAV driver (`drivers/webdav.py`) | none | PROPFIND, MKCOL, PUT, COPY, MOVE, DELETE | servers that ignore `Overwrite: F` (README) | as for transfers |
| Credentials (`services/auth_resolver.py`, `core/credentials.py`) | a process-wide credential cache | resolve the credentials of a request | entries never expire | the credentials used are the configured ones |
| Bridge routes (`app/routes/bridge.py`) | the temporary file of an `upload-raw` | one call into the services each | the only `async` handler runs the upload on the event loop | the temporary file goes |
| Share links (`services/bridge_share_url.py`) | none | validate, dry run, execute | checked in different orders by different functions | a dry run tells what the execution does |
| Names, configuration layers, errors (`drivers/edocat_paths.py`, `core/config_loader.py`, `services/bridge_errors.py`) | none | functions | many cases, applied in a certain order | what is listed is found again; no setting is lost; a failure keeps its meaning |
| Logging, installers, compatibility package | none that an operation reads back | | | |

Components meet in three places.  A request asks the runtime cache for the
drivers of its connections and then calls them; the pages write the files those
runtimes were built from and clear the cache; and every request resolves its
credentials through one process-wide cache.

`PROJECT.json` lists every component with its status, and every hazard at its
line with the properties that would catch it.

## Modules

| Module | Stands for | Used by |
|---|---|---|
| `TransferContract` | what one transfer promises: read, deliver, take, answer, each at most once | `CrossTransfer` (as `Promise`) |
| `CrossTransfer` | `copy_path`, `rename_path`, `upload_path`, the three drivers as they see them, other clients of the servers, a crash | `MCCrossTransfer`, `CrossTransferProofs` |
| `ConnectionRuntime` | `get_connection_runtime` step by step, down to the files of the registry; writes of files, clears of the cache, restarts | `MCConnectionRuntime`, `ConnectionRuntimeProofs` |
| `ConfigAdmin` | `config_save` and `config_delete` step by step, edits by hand, restarts | `MCConfigAdmin`, `ConfigAdminProofs` |
| `AlfrescoCache` | the Alfresco client's path and child caches, the path walk, the driver's operations, their repetition with a new ticket | `MCAlfrescoCache`, `AlfrescoCacheProofs` |
| `EdocatTree` | one operation of the eDoCat driver on a folder or a document, call by call, with other clients | `MCEdocatTree`, `EdocatTreeProofs` |
| `RawUpload` | `bridge_upload_raw` on the event loop, list and stat in the thread pool, `resolve_effective_auth`, the credential and version caches | `MCBridge`, `RawUploadProofs` |
| `EdocatPaging` | `query_nodes` against servers of several habits | `MCBridge`, `BridgeProofs` |
| `Call` | one call of a function without state, which the next five have in common | |
| `ShareUrl` | validation, dry run and execution of a share URL request | `MCBridge`, `BridgeProofs` |
| `ConfigFiles` | how the files of drivers and connections are merged | `MCBridge`, `BridgeProofs` |
| `PathRules` | paths of eDoCat nodes, WFX paths, the second attempt of a stat | `MCBridge`, `BridgeProofs` |
| `ErrorRules` | which code and HTTP status an exception gets | `MCBridge`, `BridgeProofs` |
| `AuthRules` | what a connection requires, which names are tried, what is denied and sent | `MCBridge`, `BridgeProofs` |

The `MC` modules hold the instances for TLC and no code of the bridge, and
`InductionFacts` states induction over numbers, and sequences place by place, in the form
the proofs use them.

### CrossTransfer

`file[s][m]` is the document at spot `m` of repository `s`, `dirs[s]` how many
folders of the chain to the paths exist.  The spots are the paths, which the
requests name, and other places in a repository.  A connection is a way into a
repository (`StoreOf`) through a driver (`Kind`); two connections may lead to the
same one.
A request stands at `pc[r]`:

    check -> describe                     _cross_connection_existing_target_response
      |
    download -> stage                     copy_path's download, _write_base64_to_temp_file
      |
    folder <-> mkdir                      ensure_folder_chain
      |
    put                                   upload_item of the destination's driver
      |
    cleanup                               the finally clause around the upload
      |
    remove                                rename_path's delete of the source

and within one connection at `native` (and `clone`, as eDoCat copies a file by
reading it and creating another).  Each upstream call is one step; it may be
refused, fail, or succeed with its answer lost.  The drivers differ where the
transfers can tell: Alfresco's `stat_item` reports a transport error as "no such
item", its upload refuses an existing document without a version choice; eDoCat
gives an upload whose name is taken another name; a WebDAV PUT replaces, and
whether `Overwrite: F` stops it depends on the server (`PutHonoursOverwrite`).
`readAt`, `landed`, `landedAt`, `replaced`, `removed`, `took`, `touched` and `raced`
record what happened, for the properties only.

**Lookups through Alfresco.**  The Alfresco driver resolves the path anew for the
stat, the download, the upload and the delete of one request, each time through
caches that are kept per ticket, do not expire, and are filled and emptied by other
requests of the session, by a full cache, and by a renewed ticket; a path
that leads nowhere is tried again without its first segment, and so is a
destination folder.  So where one lookup ended says nothing of where the next
will.  `Leads[c][p]` is the set of spots a lookup of `p` through connection `c` may
end at, `p` itself always among them, and each lookup chooses one of them for
itself (`Lead`); for the other drivers, which ask the server every time, it is
just `p`.  This takes in every history of the caches without keeping one; which
histories there are, and what a cached node can be, is the subject of
`AlfrescoCache`.  Consequently a move out of Alfresco promises less than one out
of the others, and `MoveKeepsDocument` and `OneMoveWins` say how much:

* what a move takes is from where its source leads, and it takes it only after a
  server accepted what it read from where its source leads;
* it takes just what it delivered, unless someone else wrote at the place after
  the read, or the second lookup ended at another place than the first.  Then the
  document at that other place is gone without having been copied, and the move
  answers "ok";
* two moves that both answer "ok" did not take one and the same document.  From the
  other drivers this means that one of two moves of one path fails; through
  Alfresco the second may win with what its path leads to once the first has
  emptied the caches.

A driver that looks a target up and then writes does so in one step here, with
the server's refusal as an outcome: the names are unique in one folder of the
server, so a name that appeared in between is a refusal.

### ConnectionRuntime

`connFile` and `drvFile` are the JSON files, `cache` is
`_CONNECTION_RUNTIME_CACHE`.  One step is one access to a directory, a file or
the cache:

    keys -> drivers [-> driverFiles]   list_registered_connections
      |
    resolve -> lookup                  connection_driver_name, the cache
      |
    probe -> readConn -> readDrv       load_connection_config, load_driver_config
      |
    store                              the factory's result into the cache

The list is read in rounds (`Round`): the directory of the connections is
listed and then each file is read for its key, each connection so found is
looked up for its driver, and if no name is left the drivers' directory is
listed and its files are read.  Files written in between make a list of
connections there never was together; it may come out empty although there were
connections all the time, and then the drivers' names pass for connections.
`ServesCurrent` says when: only for a driver's name, and only after two writes
during the listing.  The theorem shows that one is not enough.

A file is written or removed, and the cache is cleared, at any moment
(`WriteFile`, `Clear`): in which order a page does so is the subject of
`ConfigAdmin`.  A runtime is abstracted to the driver class, the connection's
section and the driver's section it was built from.  `late`, `overtaken`,
`steady`, `there`, `writes` and `dirty` are history.

### ConfigAdmin

`disk` holds the connection files, `tmp` their `<file>.tmp`.  A save checks
read-only names, reads the driver keys, lists the connection files, reads their
mounts one by one, looks whether its target exists, truncates the temporary
file, fills it, moves it, and clears the runtime cache.  Sharing is as on
Windows, where the bridge is installed: a file that a rival has open for writing
cannot be moved, and any file access may fail.  `skipped[f]` remembers which
files the save that wrote `f` had not compared with in their present contents;
`contended[a]` that another save used the same temporary file.

`ConnectionRuntime` lets every file be written and the cache be cleared at any
moment; `ConfigAdmin` says which writes a page makes and that it clears after them.

### AlfrescoCache

`place` is the server's tree (the folder and name of each node), `used` the ids
it has given out; `pathCache` and `childCache` are `_path_cache` and
`_child_cache`, keyed by ticket.  A request resolves the paths of its call
(`Plan`), then acts on the ids it found:

    next -> walk -> child -> ask -> keep -> got      per lookup, per segment
      |
    act -> clear

`next` is `resolve_node_by_relative_path` before it looks for the whole path in
the cache, `walk` stands before a segment, `child` and `ask` are `child_by_name`
before its cache and before the server's listing, `keep` and `got` before the
two caches are written, `act` before the change and `clear` before
`_invalidate_structure_cache`.  Every cache access and every call to the server
is a step of its own, so requests, sessions and other clients (`Others`) come
between any two.  A call may answer 401 or 403, on which the operation starts
again with a ticket from `Renewed`, once; it may fail; a change may succeed and
its answer get lost, and then no cache is emptied.

`seen[t]` is history: every parent-name-child fact that was the case since
ticket `t`'s caches were last emptied.  `late` marks a request that was under
way when they were, `tainted[t]` that such a request has stored since.  What
the caches promise is said with them: outside of `tainted`, every entry is a
chain of facts in `seen` (`CachesRemember`), so a cached path never mixes the
tree before this session's change with the one after, though its links need
not have held at one moment.  `Answers` includes the paths the code answers
for by leaving out a leading segment: the second attempt of
`resolve_node_by_relative_path` stores what it finds under the whole path.
`ActsWhereNamed` says the same of the ids that a change uses.

Abstracted: the document library is one fixed node (`Root`), since
`_doclib_cache` is never emptied; folders have one page of children; names are
what the server compares, without the case folding around it; files and
folders are not told apart, and a copy copies one node; `stat_item` and search
change nothing and are left out; at the limit any entry may go, where the code
drops the oldest.  A reload of the configuration makes a new client with empty
caches, which is a new instance.

### EdocatTree

`tree` maps paths to nodes with an id and a body, `agenda` is the work left: the
calls of a recursion that walks a tree are tasks, taken from the front, and a
folder's children are added in any order of theirs.  One task is one call
to the server:

    look -> count ...                  _count_folder_tree_nodes, then the limit
      |
    make, fill, read                   copy_item, _copy_folder_contents, make_dir
    sweep, visit, last, drop           delete_item, _delete_folder_tree
    rename | content | zip             rename_item, download_item

Any call may fail; one that changes something may take effect and have its
answer lost; and `OthersCreate`, `OthersDelete`, `OthersMove` come between any
two.  The server names nodes by id: a delete or rename acts on the node where
it is by now, and a name that is taken becomes another (`Spare`).  `before`,
`within`, `mine`, `named`, `gone`, `got`, `calls` are history.

Abstracted: looking up one node (`_query_single_node`) is one step; a query of
a path that is gone fails or is answered with nothing; a document always has
its content, where the server decides whether a query returns it.  A folder may
be copied into itself.  The code does not refuse it, and its walk then goes on
as long as the server accepts longer paths; here only the bounds end it.  Or it
may be copied onto a folder above it: what is copied from one of its folders may then
land in another that the walk has yet to list, and is copied again, past
`copy.maxNodes` (five names deep, so that the run's trees do not show it).  The
parts `WithinLimits` and `CallsBounded` of `WalksAreExact` leave both cases out.

### RawUpload

A raw upload is a coroutine: it gives up the event loop only between chunks, so
from the end of its file on (`EndOfFile`) to its `finally` clause it keeps it
(`loop`), and no other coroutine takes a step (`RunsAlone`).  List and stat run
in the thread pool and do.

    ready -> stream ->                                an upload's chunks
    resolve -> lookup -> load -> store -> ...         resolve_effective_auth
    find -> put -> pop -> cleanup                     upload_item, the finally clause
    cached -> fetch -> keep                           a list's or stat's version

A credential is a model value; one of `Secretless` can be read and not used.
The credential manager changes at any time, and a restart empties both caches.
`held`, `missing`, `floor`, `reported`, `overtaken`, `early` are history.
What the code promises of versions is said with them: a list or a stat reports
no version older than one an upload had reported before it began, unless the
cached version was fetched before that upload emptied the cache and stored
after it, which the code does not prevent (`VersionsNotOlder`).

### EdocatPaging

The server has a folder, which others change, and a habit: how many nodes it
puts on a page, which of page size, total and "more" it tells, and whether it is
honest, repeats a page or answers with entries that are no nodes.  One step
asks for one page.  A node that is removed shifts the rest, and one that stays
may then be missed; a server that limits its pages and does not say so cuts a
listing short, since a short page is taken for the last.  Both are
what the code does, and `FolderIsRead` says where it can be
trusted.

### Functions without state

`ShareUrl`, `ConfigFiles`, `PathRules`, `ErrorRules` and `AuthRules` are
operators.  `call` holds the arguments of one call, and each property
compares what different functions make of the same arguments: the validation
with the execution, what is listed with what is found, what is advertised with
what is denied and sent.  What is sent depends on the driver (`Headers`): WebDAV
sends what `authorization_headers` makes of the resolved credentials and their
scheme; eDoCat a user with a password or token and otherwise nothing, whatever the
mode; Alfresco a ticket, the token or one for the user and the password, and
without either it does not go on.  `AdvertisedIsEnforced` names what follows: a
connection that requires credentials goes to the server without any only with
WebDAV's scheme `none`, or to eDoCat without a user (in mode `credentials` only
with a token, in the other modes also with nothing found); and one of mode `none`
sends only what the request itself brought, and never to WebDAV.  An
initial state is a call and nothing happens after it.  How
a share URL is parsed is left out: it stands for a path or for none.

## Runs

| Run | Question | Answer |
|---|---|---|
| `one` | one transfer or upload between Alfresco, WebDAV and eDoCat, a native eDoCat copy, and a document moved onto itself through two connections, two folders deep, against every failure, lost answer, crash and other client | what a move takes it has delivered, but for the two exceptions named; nothing is replaced unasked, success is earned, the answer comes, and every step is one of `TransferContract` |
| `two` | two transfers of one document at once | two moves that win took different documents, unless something was put there again |
| `existing` (violation) | does an upload onto an existing document need the version choice the eDoCat driver declares? | no: without it the server stores a second document under another name and the bridge reports success |
| `cache` | the runtime cache among two requests for one name, writes, clears and restarts; one request that lists the registry file by file while three names come and go | stale only behind a request that a clear overtook; what is served is current and was a connection meanwhile, but for a driver's name after two writes during the listing |
| `reload` (violation) | does the request after a reload use the current files? | not when another request was still building the runtime |
| `saves` | two pages, two files, one mount | a mount is shared only when one save had not looked at the other's file as it is now; every change reaches the cache |
| `same_file` | two pages, one file, one temporary file, edits by hand at any moment, even to something that is not JSON | valid JSON and the submitted payload unless both used the temporary file at once; no silent overwrite |
| `rename` (violation) | is a mount in use always refused? | no: saving under another key leaves out the file the editor had opened, and that file stays |
| `alf_overlap` | two requests of one session look up and delete one document, others change the tree | caches hold only what was the case since they were last emptied, unless a request from before that stored in them |
| `alf_changes` | rename, copy, make, upload, delete by one client, with refused tickets, lost answers and caches of two entries | no change is made twice, every request ends, everything is put, moved and deleted where its path led since the session's last change |
| `edocat_tree` | one copy, delete, rename, download or `mkdir` on eDoCat, each call failing or not, while others change the tree once | undisturbed, a copy mirrors its source and a delete takes its target and nothing else, within the limits and leaf by leaf; disturbed, only nodes from the requested path are named; either way the calls stay bounded |
| `bridge` | two requests on one eDoCat document; one paged query; one call of each function without state | uploads take turns and end, temporary files go, the caches hold what was there, versions do not go back; the paging ends with every node; the functions agree with each other |

### Bounds, and why they are enough

* `one`: two folders let the chain be complete, half there or absent; three
  contents of the three sizes let a payload be empty, inline or staged in a
  temporary file; both repositories are `Busy`, so other clients write, delete
  and create or remove folders at any moment.  Four connections lead to two
  repositories, so that one pair has a repository in common.  Beside the path
  there is one spot, `e`, where a lookup through the Alfresco connection may end
  as well: one is enough for the download and the delete to end at different
  places, either way round.  What others do after the answer concerns no
  request and is not followed (`SomeoneIsServed`); a behaviour in which the request
  is never answered lies wholly among the states that are followed, so the
  constraint hides none from `RequestsAreAnswered`.
* `two`: two requests, two paths and the spot `e`; nobody else writes, so that
  whatever is lost was lost by the two.
* `cache`, `reload`: one driver and connections beside it, one of which may also
  bear the driver's name; one value for the remaining settings, against an absent
  file.  A mixed runtime shows as a connection's section with a driver's that
  is no longer there.  `cache` joins two questions (`OneOrTwo`).  Two requests at
  once are for one name, with one name beside the driver in use, and one of them
  lists at a time: what they share is the entry of that name in the cache.  A
  request alone is among two more names, so that one may appear behind the list
  while another goes before it; `writes` counts to two.  The theorems hold for any
  number of requests, names and writes.
* `saves`: one mount, since only its equality counts, and forms that do not
  overwrite; `same_file` has two mounts and both kinds of form.
* `alf_overlap`: a delete by one request and one more change is the least in
  which an overtaken request can store what is gone; two ids beside the root are
  a folder and a document in it, or a document and what replaces it.  Its caches
  are never full.  `alf_changes`: caches of two entries lose some in every walk
  of a path of two segments; one id beside the root is created, moved,
  updated and deleted.  `copy` needs two ids that are free to differ, so only
  its failures happen there; its success is the action `Create` like that of
  `mkdir`.
* `edocat_tree`: paths of up to three names, four trees: a folder with a document
  and a folder in it beside another folder (just what an operation may touch,
  four nodes), the same with one node more, three folders inside
  each other, a document beside a folder.  Ten ids are enough for every copy
  that is not of a folder into itself.  One change by others (`MaxEdits`) comes
  at every point; `OnlyTheTargetIsNamed` and the bound on the calls are what it
  can break.
* `bridge`: every pair of six requests, where the pairs that share nothing
  show nothing; a limit of three bytes in chunks of two makes an upload end
  below, at and above it and inside a chunk, and the driver's limit is one
  less; two versions, and one change of the manager or restart, are the
  least that make a cache stale.  A folder of up to five nodes in
  pages of two and at most four pages ends on a page's border, past it, and at
  the client's limit, with two changes.  The parts do not interact: `MCBridge`
  starts one of them and leaves the others at rest, so that the states add
  up instead of multiplying.
* Symmetry is used among requests or handlers and, in `ConfigAdmin`, among
  mounts and among files that are treated alike.  No run with symmetry checks
  liveness.
* Every handler is used again and again except in `CrossTransfer`, where a
  request is served once; `two` therefore really ends, and its configuration
  does not check deadlock.  Nor do those of `edocat_tree` and `bridge`, where one
  operation, two requests, one query or one call are all there is.

### Fairness

`RequestsAreAnswered` needs `WF_vars(Continue(r))` and `RequestsEnd`, in
`AlfrescoCache` and in `RawUpload`, `WF_vars(Step(r))` for each request.  A
handler has a thread of its own in the pool and every upstream call has a
timeout, so a handler that began takes another step; a coroutine that is due is
run by the loop once it is free.  `PagingEnds` needs `WF` of `AskPage` for the same
reason.  `MCBridge` states each for its part only and checks both as
`EveryoneIsAnswered`.  Nothing is assumed of the
other clients, of arrivals or of the crash.

## What is proved

`CrossTransferProofs`.  `MoveKeepsDocument` says that what a move took is what a
server had accepted, unless someone else wrote at the place it read from, or the
Alfresco driver found another place for the delete.  It is not inductive: that the
delivered content is what is then deleted depends on how far the request is, and on
the place that was read from still holding what was read.  `Strong` is `TypeOK`, `TransferInv` and `MoveKeepsDocument`;
`TransferInv` relates the step a request is at to what it has read, delivered
and taken (`Steps`), says that the place the download ended at (`readAt`) holds
what was read, or nothing, until someone else writes there (`SourceKept`), and bounds
the folder loop (`FolderLevel`).  The read was made where the source leads and the
delete ends where the source leads, so the two are at one place when lookups cannot
go astray (`OneSpot`), and otherwise `took` differs from `readAt`, as the property
says.  Each
action has a lemma; writes by other requests go through `WriteNoticed` and
`RemovalNoticed`, which say that every reader of the written place is marked.
The theorems are `StrongInvariant`, `TypeCorrect`, `TransferInvariant` and
`MoveSafe`, from `ConstantsOK` alone, for any `Leads`; no run repeats `TransferInv`.

`ConnectionRuntimeProofs`.  A fresh cache needs to know that what a request is
about to store is what the files say.  `IInv` adds, per request, `Frame` (what a
step implies about the locals), `Reads` (as long as no file was written under
the request, what it has read is what the files say) and `Looks`.  The last is
about a request that lists, for a name that has not been registered meanwhile:
before any write the list has just the files there are, and after one write
either a connection it will find is still there, or the driver files, which are
not that name's, will be listed (`OneWrite`: a write changes one name).  So the
list cannot come out with the name.  A step of one request leaves the others alone
(`ServingStep`); a write ends every request's being undisturbed, a clear
overtakes whoever is running.  The theorems are `RuntimeInvariant`,
`RuntimeTypeCorrect`, `CacheIsFresh`, and `UndisturbedIsServedCurrent`, from
`RuntimeConstantsOK` and `NoneIsNoRecord`; the last also says when a name that is
no connection is served.

`ConfigAdminProofs`.  Why mounts stay unique lies in the middle of a save: when
the file is moved, nothing says any more what was compared.  `IInv` adds, per
handler, `Placed` (a save has a target and a payload, and every file it has yet
to read counts as unseen), `Checked` (once the mounts are read without a fault, no
file it has seen in its present contents has the mount of the payload), `Looked`
(without leave to overwrite, the target is absent or appeared since) and `OwnTmp`
(an uncontended handler finds in the tmp what it put there), and between handlers
`Noticed`: of two that fill or move one tmp both are marked contended.  A change of
a file becomes unseen to every save in progress, which keeps `Checked` and
`Looked` of the others (`DiskOther`) and lets the writer's own facts establish the
invariants about the files (`DiskFiles`).  The theorems are `ConfigInvariant`,
`ConfigTypeCorrect`, `MountsStayUnique`, `FilesStayWhole`, `ChangesAreAnnounced`,
and `SavedIsSubmitted`, which also says what a save without leave may replace, from
`ConfigConstantsOK` and `TornIsNoDoc`.  Nothing is claimed of two saves that share a tmp at once, whose file may
even be a mixture of both.

The second part of `CrossTransferProofs` goes on from `Strong`.  `AnsInv` says of
each request, by the step it is at, whether its temporary file can be live, what
it can have touched, that what it has replaced the caller chose or it found absent
(`Replaced`), and what an answer means.  From it follow `TempFileIsReclaimed`,
`ConflictsLeaveNoTrace`, `SuccessIsEarned`, `ReplacedByChoice` and
`SelfMoveIsChosen`.  They assume `NoneIsNoAnswer`, and `ReplacedByChoice` that just
the drivers other than WebDAV have versions, as `versioning_capabilities` says.
`OneMoveSucceeds` is about two requests and needs `MovesInv`: the place a move
took its document from (`TookFrom`) stays empty, or something was put there since
(`Emptied`, `Restored`), so whoever takes from that place after that takes what was
put there (`Twice`).  Every step is
shown to keep what was delivered and taken, and where (`Recorded`), to fill an empty place
only for such a reason (`Filled`), and to take only from a place that is not
empty (`Takes`).

`TransferImplementsContract` is the refinement: every step of every handler, and
of the servers' other clients, is a step of `TransferContract` or leaves its
variables alone.  What a step of the handlers keeps is its request's (`Kept`), so
each action is either a read, a delivery, a taking or an answer of one request,
and `AnsInv` tells that the contract allows it there.  The contract reads, delivers
and takes at places its source and target lead to (`Sources`, `Targets`, which are
all the spots of `Lead`), each time at one of its own choice, since that is all the
Alfresco driver keeps; for the other drivers there is only one.  The contract's own guard
for an answer of success is what `AnsInv` says "ok" means.

`AlfrescoCacheProofs`.  What a cache holds was found by a walk of several calls,
so that it was so is a statement about every walk in progress.  `ShapeInv` says
what a request carries at each step (its ticket, how far in which path it is,
the folder it stands on); `TypeOK` and `AtMostOnce` are parts of it.  `MemoryInv` adds
that the links a walk has passed and the nodes it has found are facts its ticket
has seen since its caches were last emptied, unless the request is late or the
ticket tainted (`Trusted`).  A step of another request, session or client only
adds facts (`FactsKept`), and the change that empties a ticket's caches makes
its other requests late.  A path that is answered for without its first
segment is a chain from a later place (`Answers`), and a chain stays one when facts
are added or a segment is appended.  `CachesRememberHolds` and
`ActsWhereNamedHolds` follow, from `CacheConstantsOK`, for any tree, names, depth,
sessions and cache size.

`RawUploadProofs`.  Its invariant `IInv` ties where a request stands to what it has
read, which limits it has passed, whether it keeps the loop, whether it has
a temporary file, and what its credential and version may be; of two requests
it says that at most one keeps the loop.  `UploadInvariant`, `TurnsAreTaken`,
`UploadsAreEnded`, `CacheHoldsWhatWasHeld` and `VersionsGoForward` follow.  `OInv`
adds the types and, per request, `Order`: the names it has passed were absent when
it looked and are just those before the one it stands at, which is the one its
credential is held under.  `UploadTypeOK` and `NamesAreTriedInOrder` follow.  All from
`UploadConstantsOK`, for any number of requests, names, versions and changes and
any limits.  It asks for `MaxVersion >= 1`: the types are wrong without it, as a
document on the server has a version.

`BridgeProofs`, on paging.  `PagingInv` says that with a server to be trusted the query has
read `page * Limit` nodes, all on full pages; that what was in the folder from the
start and lies before that place was read (`Walked`); and that a page which came
before begins with a node that has since moved no further than nodes were added,
so that a repeated page ends the query early only after a page's worth of
additions.  `FolderIsReadHolds` follows from `PagingConstantsOK`, for folders of any
length, pages of any size, any limit of pages and any changes.

`BridgeProofs`, on the functions without state.
* `DryRunsTell`: validation, dry run and execution agree for every request over any
  set of paths, from `ShareConstantsOK`.
* `FailuresAreTold`: for chains of causes of any length.
* `CredentialsKeepRules`, from `AdvertisedEnforced` and `RequestsFirst` and, for what
  the three drivers send, `WhatIsSent`: for names over
  any alphabet that contains the two separators the code puts in.
* `ListedFound`: for a listing of any length whose names are distinct and not empty,
  in a folder at or below the document library, which is where a client gets to.
* `LayersAreKept`: for any keys and texts in any of the seven files.

`EdocatTreeProofs`.  A delete or a rename looks a path up and names a uuid some calls
later, when the node may be elsewhere; that it was at or below the requested path
at some time (`OnlyTheTargetIsNamed`) has to be carried by the work that is left.
`TreeInv` says what every task of the agenda is about (`FitTasks`: the folders and
children a delete will look at are below its source, the nodes it will name are in
`within`), that whatever is at or below the source now is in `within`, and that
the server's nodes form a tree whose ids were given out once.  The last is what most of
the lemmas are about: a node stored, a branch cut (`CutStays`) and a branch moved
or given another name (`RekeyedStays`) leave a tree, for paths of any length.
`TreeStays` and `OnlyTheTargetIsNamedHolds` follow from `TreeConstantsOK`, for any
trees, limits, answers and number of changes by others.

The second part of `EdocatTreeProofs` is about a request that is left alone
(`Undisturbed`).  That a copy mirrors its source, or a delete leaves nothing, is a
statement about a whole tree that a recursion has still to walk, so `AloneInv` says of
the agenda, with respect to the tree the request found, what it still amounts to.
* While it counts (`Counting`), the agenda lists folders that lie apart from each
  other, and what was counted is all of the source outside them (`CountsAre`).
* A delete (`Deleting`) has a task for, or above, every node that is left, and its
  tasks are in an order (`DeepFirst`) in which whatever lies below a node goes
  before it, so that a node is a leaf when it is dropped (`DeletePlan`).  Each task
  is replaced by ones that do the same (`Replaces`), and with every call at least one
  of four steps per node is done with (`Left`).
* A copy (`Copying`) has tasks of which no two make or read the same node
  (`CopyPlan`); what they will make is what is not at its place yet (`Mirrored`);
  everything new is a copy of a node of the source (`Copies`) and lies outside it
  (`MadeElsewhere`).  A folder's tasks are joined child by child
  (`FlattenedSteps`, `FillPlan`).
* The other operations make one call (`Asking`).
Counting what is left bounds the calls (`Budget`), and the nodes made with it.  So
follow `LeavesFirstHolds`, `DeleteIsCompleteHolds`, `CopyMirrorsSourceHolds`,
`WithinLimitsHolds` and, all together, `WalksAreExactAlone`, from `TreeConstantsOK`.
A change by others ends the claim; what a copy onto a folder above it or into
itself may make is left out where the properties leave it out.

Several of these functions collect a list step by step (`Deduplicated`,
`Candidates`, the children of a folder).  `InductionFacts` states induction over the
natural numbers for sets of numbers (`AllNumbers`) and for sequences of values
that are computed one from the other (`Iterates`), which the provers can use,
where the library's theorem takes an operator.

### Only model-checked

* The liveness properties (`RequestsAreAnswered`, `RequestsEnd`, `EveryoneIsAnswered`),
  because the prover does not reason about fairness.
* `EdocatTree`: that a walk which others disturb ends, the part of `CallsBounded`
  for `edits > 0`.  Its bound doubles with every change, and the provers do not
  reason about powers.

## What is abstracted, and what is not modelled

* Documents, settings and payloads are model values; names and paths are never
  built from characters.  The shape checks of a payload (`_validate_config_payload`
  apart from driver and mount) answer with an error and change nothing.
* In `CrossTransfer` all paths are in one folder chain of their repository, and
  folders themselves are not transferred; a spot that holds no document may hold a
  folder.  The caches of the Alfresco client are not kept there: each lookup ends
  anywhere among the spots its path may lead to (see above), and `AlfrescoCache`
  says what the caches can hold.  A spot that is no path has its folder whatever
  happens to the chain.
* In `ConnectionRuntime` a user's file merged over the machine's is one file, and
  a file's key is its name.  The audit's own requests for runtimes are requests
  like any other.
* In `ConfigAdmin` a page of the driver section is one step; a payload is written
  in one piece; a file's key is its name.
* Each driver, client and service is `partly` modelled: every function that
  changes state is there, but the fields of the items they return, the encoding of
  requests and the parsing of answers are not.
* Native search (`search_path` and the drivers' `search_items`) is not modelled: it
  changes nothing, and its results are matched by text.  Nor is the HTML of the
  pages, the default connection, environment variables, or the layout of the Windows
  credential structure.
* Logging, utilities, the compatibility package and the installers are not
  modelled: nothing an operation does depends on them.
* `_doclib_cache` of the Alfresco client is never emptied: a document library that
  is created anew is not found again by a ticket that knew the old one.  There
  is no protocol to check, so the model has one fixed library.

## Plan

Done: every module of the table with its runs, and the proofs above.  What is
left, in this order:

1. Compose `ConfigAdmin` with `ConnectionRuntime`, whose `WriteFile` and `Clear`
   it refines.
