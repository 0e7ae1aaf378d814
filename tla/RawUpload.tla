------------------------------ MODULE RawUpload ------------------------------
(***************************************************************************)
(* Requests about one eDoCat document: raw uploads of a new version        *)
(* (app/routes/bridge.py bridge_upload_raw, services upload_path,          *)
(* drivers/edocat.py upload_item) and the list and stat requests that      *)
(* report its version.  They share the credential cache                    *)
(* (services/auth_resolver.py) and the driver's version cache.             *)
(*                                                                         *)
(* A raw upload is a coroutine on the event loop that hands control back   *)
(* only while it waits for a chunk; from upload_path on it keeps the loop. *)
(* List and stat run in the thread pool.  Both interleave with changes of  *)
(* the Windows Credential Manager and with other clients of the server.    *)
(***************************************************************************)
EXTENDS Naturals, SequencesExt

CONSTANTS
  Requests,
  Targets,     \* names of entries of the Windows Credential Manager
  Users,       \* what a credential may be read as; one without a secret
  Secretless,  \*   is of no use, though it can be read
  Queries,     \* the requests clients may send
  RawMax,      \* the limit of the route, in bytes
  DriverMax,   \* upload.maxBase64Bytes of the driver
  Chunk,       \* bytes read at a time
  MaxVersion,  \* bound: versions of the document
  MaxChanges,  \* bound: changes of the credential manager, and restarts
  None

(* The parts of a request that matter: the names it may find credentials   *)
(* under, the credentials it brings itself and the size of what it sends.  *)
Query == [op: {"upload", "list", "stat"}, bases: Seq(Targets \cup {None}),
          inline: Users \cup {None}, size: Nat]

ASSUME UploadConstantsOK ==
  /\ Queries \subseteq Query
  /\ Secretless \subseteq Users
  /\ {RawMax, DriverMax, MaxChanges} \subseteq Nat
  /\ {Chunk, MaxVersion} \subseteq Nat \ {0}
  /\ None \notin Targets \cup Users \cup Requests

VARIABLES
  version,     \* upstream: the document's current version
  manager,     \* the Windows Credential Manager
  credCache,   \* _CREDENTIAL_CACHE
  verCache,    \* the driver's _alfresco_version_cache, for this document
  loop,        \* the request that keeps the event loop, or None
  pc, query,
  todo,        \* candidates still to be tried
  auth,        \* the effective credentials, or None
  loaded,      \* a credential read from the manager and not yet cached
  uploaded,    \* uploaded_bytes
  temp,        \* the temporary file of the upload
  label,       \* the version fetched, created or found in the cache
  result,
  changes,     \* changes of the manager and restarts so far
  \* history, read by the properties only
  held,        \* the credentials the manager held since the program started
  missing,     \* candidates the manager lacked at some time since the request
  floor,       \* the newest version the bridge had reported at that time
  reported,    \* the newest version a finished upload reported
  overtaken,   \* the cached version was fetched before an upload emptied it
  early        \* fetched before the last upload that emptied the cache

outside == <<version, manager, changes, held, missing>>
caches  == <<credCache, verCache, overtaken>>
request == <<query, todo, auth, loaded, uploaded, temp, label, result>>
seen    == <<floor, reported, early>>
vars    == <<outside, caches, request, seen, loop, pc>>

PCs == {"ready", "stream", "resolve", "lookup", "load", "store", "find", "put",
        "pop", "cleanup", "cached", "fetch", "keep", "done"}
Sync == {"resolve", "lookup", "load", "store", "find", "put", "pop"}   \* of an upload

TypeOK ==
  /\ version \in 1..MaxVersion
  /\ manager \in [Targets -> Users \cup {None}]
  /\ credCache \in [Targets -> Users \cup {None}]
  /\ verCache \in 0..MaxVersion
  /\ loop \in Requests \cup {None}
  /\ pc \in [Requests -> PCs]
  /\ \A r \in Requests :
       /\ query[r] \in Queries
       /\ \A k \in DOMAIN todo[r] : todo[r][k] \in Targets
       /\ pc[r] \in {"lookup", "load", "store"} => todo[r] # <<>>
       /\ uploaded[r] \in 0..RawMax
       /\ loop = r => query[r].op = "upload" /\ pc[r] \in Sync
  /\ auth \in [Requests -> Users \cup {None}]
  /\ loaded \in [Requests -> Users \cup {None}]
  /\ temp \in [Requests -> {"none", "live", "orphan"}]
  /\ label \in [Requests -> 0..MaxVersion]
  /\ result \in [Requests -> {"none", "ok", "failed", "denied", "too_large"}]
  /\ changes \in 0..MaxChanges

Init ==
  /\ version = 1
  /\ manager \in [Targets -> Users \cup {None}]
  /\ credCache = [t \in Targets |-> None]
  /\ verCache = 0                      \* nothing cached
  /\ loop = None
  /\ pc = [r \in Requests |-> "ready"]
  /\ query \in [Requests -> Queries]
  /\ todo = [r \in Requests |-> <<>>]
  /\ auth = [r \in Requests |-> None]
  /\ loaded = [r \in Requests |-> None]
  /\ uploaded = [r \in Requests |-> 0]
  /\ temp = [r \in Requests |-> "none"]
  /\ label = [r \in Requests |-> 0]
  /\ result = [r \in Requests |-> "none"]
  /\ changes = 0
  /\ held = [t \in Targets |-> {manager[t]} \ {None}]
  /\ missing = [r \in Requests |-> {}]
  /\ floor = [r \in Requests |-> 0]
  /\ reported = 0
  /\ overtaken = FALSE
  /\ early = {}

-----------------------------------------------------------------------------
(* Steps shared by the actions.                                            *)

Goto(r, l) == pc' = [pc EXCEPT ![r] = l]

IsUpload(r) == query[r].op = "upload"

(* Leaving the handler: an upload passes its finally clause, giving the    *)
(* event loop back when it waits for the file to close.                    *)
Mut_LeaveKept(r, res) ==
  /\ result' = [result EXCEPT ![r] = res]
  /\ Goto(r, IF IsUpload(r) /\ res # "too_large" THEN "cleanup" ELSE "done")
  /\ loop' = IF loop = r THEN None ELSE loop
Leave(r, res) ==
  /\ result' = [result EXCEPT ![r] = res]
  /\ Goto(r, IF IsUpload(r) THEN "cleanup" ELSE "done")
  /\ loop' = IF loop = r THEN None ELSE loop

(* A coroutine runs only while nobody else keeps the event loop; a thread  *)
(* of the pool, once it was started, runs at any time.                     *)
Mut_RunsAlone(r) == TRUE
Mut_RunsWhenFree(r) == loop = None   \* waits for the loop it keeps
RunsAlone(r)     == loop \in {None, r}

At(r, l) ==
  /\ pc[r] = l
  /\ IsUpload(r) \/ l = "ready" => RunsAlone(r)

Stay == UNCHANGED <<pc, loop, result>>

(* The names to look up: the request's credential_id, its target and the   *)
(* connection's targetBase, without repetition.                            *)
Add(list, t) == IF t = None \/ Contains(list, t) THEN list ELSE Append(list, t)
Candidates(q) ==
  LET found[n \in 0..Len(q.bases)] ==
        IF n = 0 THEN <<>> ELSE Add(found[n - 1], q.bases[n])
  IN  found[Len(q.bases)]

Usable(c) == c # None /\ c \notin Secretless

-----------------------------------------------------------------------------
(* The request arrives.  An upload's chunks go to a temporary file first.  *)

Arrive(r) ==
  /\ At(r, "ready")
  /\ floor' = [floor EXCEPT ![r] = reported]
  /\ missing' = [missing EXCEPT ![r] = {t \in Targets : manager[t] = None}]
  /\ temp' = [temp EXCEPT ![r] = IF IsUpload(r) THEN "live" ELSE "none"]
  /\ Goto(r, IF IsUpload(r) THEN "stream" ELSE "resolve")
  /\ UNCHANGED <<version, manager, changes, held, caches, query, todo, auth,
                 loaded, uploaded, label, result, reported, early, loop>>

Smaller(a, b) == IF a < b THEN a ELSE b
Mut_TooLate(n)  == n > RawMax + Chunk
TooLarge(n) == n > RawMax

(* One chunk: too much is refused before it is written, and writing may    *)
(* fail.  The empty chunk ends the loop; from then on nothing is awaited.  *)
ReadChunk(r) ==
  LET n == Smaller(Chunk, query[r].size - uploaded[r]) IN
  /\ At(r, "stream") /\ n > 0
  /\ IF TooLarge(uploaded[r] + n)
     THEN Leave(r, "too_large") /\ UNCHANGED uploaded
     ELSE \/ Leave(r, "failed") /\ UNCHANGED uploaded
          \/ /\ uploaded' = [uploaded EXCEPT ![r] = @ + n]
             /\ Stay
  /\ UNCHANGED <<outside, caches, seen, query, todo, auth, loaded, temp, label>>

EndOfFile(r) ==
  /\ At(r, "stream") /\ uploaded[r] = query[r].size
  /\ loop' = r
  /\ Goto(r, "resolve")
  /\ UNCHANGED <<outside, caches, seen, request>>

-----------------------------------------------------------------------------
(* resolve_effective_auth: a secret that came with the request is used as  *)
(* it is, else the candidates are tried in order.                          *)

AfterAuth(r) ==
  CASE query[r].op = "upload" -> "find"
    [] query[r].op = "list"   -> "cached"
    [] query[r].op = "stat"   -> "fetch"

(* The credentials are settled: the request goes on, or is denied.         *)
Settle(r, c) ==
  /\ auth' = [auth EXCEPT ![r] = c]
  /\ IF Usable(c) THEN Goto(r, AfterAuth(r)) /\ UNCHANGED <<loop, result>>
                  ELSE Leave(r, "denied")

Resolve(r) ==
  LET q == query[r] IN
  /\ At(r, "resolve")
  /\ IF Usable(q.inline) \/ Candidates(q) = <<>>
     THEN Settle(r, q.inline) /\ UNCHANGED todo
     ELSE /\ todo' = [todo EXCEPT ![r] = Candidates(q)]
          /\ Goto(r, "lookup")
          /\ UNCHANGED <<auth, loop, result>>
  /\ UNCHANGED <<outside, caches, seen, query, loaded, uploaded, temp, label>>

(* Under the lock: a cached credential is used, whatever it holds.         *)
Lookup(r) ==
  LET c == credCache[Head(todo[r])] IN
  /\ At(r, "lookup")
  /\ IF c # None THEN Settle(r, c)
                 ELSE Goto(r, "load") /\ UNCHANGED <<auth, loop, result>>
  /\ UNCHANGED <<outside, caches, seen, query, todo, loaded, uploaded, temp, label>>

(* Without the lock: the manager is asked; the next candidate is tried     *)
(* only when it has no such entry.                                         *)
Mut_Rest(list) == IF Len(list) > 1 THEN SubSeq(list, 3, Len(list)) ELSE <<>>
Rest(list) == Tail(list)

ReadEntry(t) == manager[t]

Load(r) ==
  LET c    == ReadEntry(Head(todo[r]))
      rest == Rest(todo[r])
  IN
  /\ At(r, "load")
  /\ IF c # None
     THEN /\ loaded' = [loaded EXCEPT ![r] = c]
          /\ Goto(r, "store")
          /\ UNCHANGED <<todo, loop, result>>
     ELSE /\ todo' = [todo EXCEPT ![r] = rest]
          /\ IF rest = <<>> THEN Leave(r, "denied")
                            ELSE Goto(r, "lookup") /\ UNCHANGED <<loop, result>>
          /\ UNCHANGED loaded
  /\ UNCHANGED <<outside, caches, seen, query, auth, uploaded, temp, label>>

(* Under the lock again: what was read is cached under its own name.       *)
Mut_StoreAs(r) == Head(Candidates(query[r]))
StoreAs(r)     == Head(todo[r])

Store(r) ==
  /\ At(r, "store")
  /\ credCache' = [credCache EXCEPT ![StoreAs(r)] = loaded[r]]
  /\ loaded' = [loaded EXCEPT ![r] = None]
  /\ Settle(r, loaded[r])
  /\ UNCHANGED <<outside, verCache, overtaken, seen, query, todo, uploaded,
                 temp, label>>

-----------------------------------------------------------------------------
(* The upload of a version, in the driver.                                 *)

(* The size is checked and the node queried; the query may fail.           *)
Find(r) ==
  /\ At(r, "find")
  /\ IF query[r].size > DriverMax
     THEN Leave(r, "failed")
     ELSE \/ Leave(r, "failed")
          \/ Goto(r, "put") /\ UNCHANGED <<loop, result>>
  /\ UNCHANGED <<outside, caches, seen, query, todo, auth, loaded, uploaded,
                 temp, label>>

(* The version is created, and its answer names it or is lost; or the call *)
(* fails.  An exception leaves the version cache as it is.                 *)
Put(r) ==
  /\ At(r, "put")
  /\ \/ Leave(r, "failed") /\ UNCHANGED <<version, label>>
     \/ /\ version < MaxVersion
        /\ version' = version + 1
        /\ \/ Leave(r, "failed") /\ UNCHANGED label
           \/ /\ label' = [label EXCEPT ![r] = version + 1]
              /\ Goto(r, "pop") /\ UNCHANGED <<loop, result>>
  /\ UNCHANGED <<manager, changes, held, missing, caches, seen, query, todo,
                 auth, loaded, uploaded, temp>>

Mut_Emptied(cached) == cached
Emptied(cached)     == 0

(* The cached version is forgotten.  What others fetched before and have   *)
(* not stored yet is older than what this upload reports.                  *)
Pop(r) ==
  /\ At(r, "pop")
  /\ verCache' = Emptied(verCache)
  /\ overtaken' = FALSE
  /\ reported' = IF label[r] > reported THEN label[r] ELSE reported
  /\ early' = early \cup {s \in Requests : pc[s] = "keep"}
  /\ Leave(r, "ok")
  /\ UNCHANGED <<outside, credCache, query, todo, auth, loaded, uploaded, temp,
                 label, floor>>

(* The finally clause: the temporary file is removed if the system lets it.*)
Cleanup(r) ==
  /\ At(r, "cleanup")
  /\ temp' \in {[temp EXCEPT ![r] = "none"], [temp EXCEPT ![r] = "orphan"]}
  /\ Goto(r, "done")
  /\ UNCHANGED <<outside, caches, seen, query, todo, auth, loaded, uploaded,
                 label, result, loop>>

-----------------------------------------------------------------------------
(* The version that a list or a stat reports.                              *)

(* A list takes the cached version.                                        *)
Cached(r) ==
  /\ At(r, "cached")
  /\ IF verCache # 0
     THEN /\ label' = [label EXCEPT ![r] = verCache]
          /\ early' = IF overtaken THEN early \cup {r} ELSE early
          /\ Leave(r, "ok")
     ELSE Goto(r, "fetch") /\ UNCHANGED <<label, early, loop, result>>
  /\ UNCHANGED <<outside, caches, query, todo, auth, loaded, uploaded, temp,
                 floor, reported>>

(* The node is read; when that fails the item goes out without a version.  *)
Fetch(r) ==
  /\ At(r, "fetch")
  /\ \/ Leave(r, "ok") /\ UNCHANGED label
     \/ /\ label' = [label EXCEPT ![r] = version]
        /\ Goto(r, "keep") /\ UNCHANGED <<loop, result>>
  /\ UNCHANGED <<outside, caches, seen, query, todo, auth, loaded, uploaded, temp>>

Keep(r) ==
  /\ At(r, "keep")
  /\ verCache' = label[r]
  /\ overtaken' = (r \in early)
  /\ Leave(r, "ok")
  /\ UNCHANGED <<outside, credCache, seen, query, todo, auth, loaded, uploaded,
                 temp, label>>

-----------------------------------------------------------------------------
(* What happens around the bridge.                                         *)

OthersUpload ==
  /\ version < MaxVersion /\ version' = version + 1
  /\ UNCHANGED <<manager, changes, held, missing, caches, request, seen, loop, pc>>

(* An entry of the credential manager is set or removed.                   *)
ManagerChanges ==
  /\ changes < MaxChanges /\ changes' = changes + 1
  /\ \E t \in Targets, c \in Users \cup {None} :
       /\ c # manager[t]
       /\ manager' = [manager EXCEPT ![t] = c]
       /\ held' = [held EXCEPT ![t] = @ \cup ({c} \ {None})]
       /\ missing' = IF c # None THEN missing
                     ELSE [r \in Requests |-> missing[r] \cup {t}]
  /\ UNCHANGED <<version, caches, request, seen, loop, pc>>

(* The process ends and starts anew: its memory is gone, the temporary     *)
(* files stay, and the requests it was working on are never answered.      *)
Restart ==
  LET Lost == {r \in Requests : pc[r] \notin {"ready", "done"}} IN
  /\ changes < MaxChanges /\ changes' = changes + 1
  /\ credCache' = [t \in Targets |-> None]
  /\ held' = [t \in Targets |-> {manager[t]} \ {None}]
  /\ verCache' = 0 /\ overtaken' = FALSE
  /\ loop' = None
  /\ pc' = [r \in Requests |-> IF r \in Lost THEN "done" ELSE pc[r]]
  /\ result' = [r \in Requests |-> IF r \in Lost THEN "none" ELSE result[r]]
  /\ loaded' = [r \in Requests |-> None]
  /\ temp' = [r \in Requests |-> IF temp[r] = "live" THEN "orphan" ELSE temp[r]]
  /\ UNCHANGED <<version, manager, missing, query, todo, auth, uploaded, label, seen>>

-----------------------------------------------------------------------------
Step(r) ==
  \/ Arrive(r) \/ ReadChunk(r) \/ EndOfFile(r) \/ Resolve(r) \/ Lookup(r)
  \/ Load(r) \/ Store(r) \/ Find(r) \/ Put(r) \/ Pop(r) \/ Cleanup(r)
  \/ Cached(r) \/ Fetch(r) \/ Keep(r)

Next ==
  \/ \E r \in Requests : Step(r)
  \/ OthersUpload \/ ManagerChanges \/ Restart

(* Calls time out and chunks come or end, so a request that may run does.  *)
Fairness == \A r \in Requests : WF_vars(Step(r))

Spec == Init /\ [][Next]_vars /\ Fairness

-----------------------------------------------------------------------------
(* What the cache holds for a name was under that name in the manager at   *)
(* some time since the program started, never under another name.          *)
CachedWasHeld ==
  \A t \in Targets : credCache[t] # None => credCache[t] \in held[t]

(* Precedence of the candidates (services/auth_resolver.py:276-300): a     *)
(* request works with the first of its names that was there, every earlier *)
(* one having been absent at some time while it looked; it is denied only  *)
(* when all were absent or when the first that was there has no secret.    *)
ResolvesInOrder ==
  \A r \in Requests :
    LET q       == query[r]
        names   == Candidates(q)
        skipped == SubSeq(names, 1, Len(names) - Len(todo[r]))
        looked  == ~Usable(q.inline) /\ names # <<>>
    IN
    /\ auth[r] # None =>
         IF looked THEN /\ auth[r] \in held[Head(todo[r])] \/ pc[r] = "done"
                        /\ \A k \in DOMAIN skipped : skipped[k] \in missing[r]
                   ELSE auth[r] = q.inline
    /\ result[r] = "ok" => Usable(auth[r])
    /\ result[r] = "denied" /\ looked =>
         \/ \A k \in DOMAIN names : names[k] \in missing[r]
         \/ auth[r] \in Secretless

(* Read-your-writes of versions (drivers/edocat.py:387-440, 937): once an  *)
(* upload reported a version, a stat never reports an older one, and       *)
(* neither does the cache or a list, except when the cached version was    *)
(* fetched before the upload finished and stored afterwards.               *)
VersionsNotOlder ==
  /\ verCache # 0 => verCache >= reported \/ overtaken
  /\ \A r \in Requests :
       /\ ~IsUpload(r) /\ result[r] = "ok" /\ label[r] # 0
       /\ query[r].op = "list" => r \notin early
       => label[r] >= floor[r]

(* However a raw upload ends, it has given its temporary file back or tried *)
(* to (app/routes/bridge.py:250-306, drivers/edocat.py:887-892).  Just the *)
(* uploads over the raw limit are refused as too large, what goes on is    *)
(* complete, and only what both limits allow becomes a version.            *)
UploadsEndRight ==
  \A r \in Requests :
    /\ pc[r] = "done" => temp[r] # "live"
    /\ result[r] = "too_large" => query[r].size > RawMax
    /\ IsUpload(r) /\ pc[r] \in Sync =>
         query[r].size <= RawMax /\ uploaded[r] = query[r].size
    /\ IsUpload(r) /\ result[r] = "ok" => query[r].size <= DriverMax

(* Uploads past their last chunk take turns: upload_path keeps the event   *)
(* loop, so no two of them are in the driver at once.                      *)
UploadsTakeTurns ==
  \A r, s \in Requests :
    {pc[r], pc[s]} \subseteq Sync /\ IsUpload(r) /\ IsUpload(s) => r = s

(* Every request that arrived ends, though one waits for another's upload. *)
RequestsEnd ==
  \A r \in Requests : pc[r] # "ready" ~> pc[r] = "done"
=============================================================================
