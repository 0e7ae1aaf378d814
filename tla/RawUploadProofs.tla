--------------------------- MODULE RawUploadProofs ---------------------------
(* Theorems about RawUpload, for every value of its constants: any number  *)
(* of requests, any limits and chunk size, any credential manager.         *)
EXTENDS RawUpload, InductionFacts

(* The parts of the strengthening, each inductive with those before it.    *)

Shapes ==
  /\ version \in Nat /\ verCache \in Nat /\ reported \in Nat
  /\ query \in [Requests -> Queries]
  /\ pc \in [Requests -> PCs]
  /\ uploaded \in [Requests -> Nat]
  /\ label \in [Requests -> Nat]
  /\ floor \in [Requests -> Nat]
  /\ temp \in [Requests -> {"none", "live", "orphan"}]
  /\ result \in [Requests -> {"none", "ok", "failed", "denied", "too_large"}]
  /\ DOMAIN loaded = Requests /\ DOMAIN todo = Requests /\ DOMAIN auth = Requests
  /\ DOMAIN credCache = Targets /\ DOMAIN manager = Targets
  /\ DOMAIN held = Targets /\ DOMAIN missing = Requests

(* Which requests pass where, and when they have a result.                 *)
Stages(r) ==
  /\ pc[r] \in {"stream", "find", "put", "pop", "cleanup"} => IsUpload(r)
  /\ pc[r] = "cached" => query[r].op = "list"
  /\ pc[r] \in {"fetch", "keep"} => ~IsUpload(r)
  /\ result[r] # "none" => pc[r] \in {"cleanup", "done"}

(* Past its last chunk an upload keeps the event loop.                     *)
Turn(r) == IsUpload(r) /\ pc[r] \in Sync => loop = r

(* What was read of an upload, and which limits it has passed.             *)
Sizes(r) ==
  /\ pc[r] = "ready" => uploaded[r] = 0
  /\ pc[r] = "stream" => uploaded[r] <= RawMax /\ uploaded[r] <= query[r].size
  /\ IsUpload(r) /\ pc[r] \in Sync =>
       query[r].size <= RawMax /\ uploaded[r] = query[r].size
  /\ pc[r] \in {"put", "pop"} => query[r].size <= DriverMax
  /\ result[r] = "too_large" => query[r].size > RawMax
  /\ IsUpload(r) /\ result[r] = "ok" => query[r].size <= DriverMax

(* Only a running upload has a temporary file to give back.                *)
File(r) == pc[r] = "done" \/ ~IsUpload(r) => temp[r] # "live"

(* A credential on its way to the cache, and what the manager holds, count *)
(* as held under the name they belong to.                                  *)
HeldNow == \A t \in Targets : manager[t] # None => manager[t] \in held[t]
Carries(r) ==
  pc[r] = "store" /\ Head(todo[r]) \in Targets => loaded[r] \in held[Head(todo[r])]

(* A version on its way to the cache is new, or known to be overtaken; no  *)
(* request expects more than was reported, nor was more reported than      *)
(* there is.                                                               *)
Newest == reported <= version /\ (verCache # 0 => verCache >= reported \/ overtaken)
Version(r) ==
  /\ floor[r] <= reported
  /\ pc[r] = "pop" => label[r] <= version
  /\ pc[r] = "keep" => label[r] >= floor[r] /\ (label[r] >= reported \/ r \in early)
  /\ ~IsUpload(r) /\ pc[r] \notin {"keep", "done"} => label[r] = 0
  /\ ~IsUpload(r) /\ result[r] = "ok" /\ label[r] # 0
       /\ (query[r].op = "list" => r \notin early) => label[r] >= floor[r]

(* The strengthening that is inductive.                                    *)
IInv ==
  /\ Shapes
  /\ \A r \in Requests : Stages(r)
  /\ \A r \in Requests : Turn(r)
  /\ \A r \in Requests : Sizes(r)
  /\ \A r \in Requests : File(r)
  /\ CachedWasHeld /\ HeldNow /\ \A r \in Requests : Carries(r)
  /\ Newest /\ \A r \in Requests : Version(r)

LEMMA QueryFields ==
  ASSUME Shapes, NEW r \in Requests
  PROVE  query[r].op \in {"upload", "list", "stat"} /\ query[r].size \in Nat
BY UploadConstantsOK DEF Shapes, Query

(* One lemma per action.                                                   *)

LEMMA ArriveIInv ==
  ASSUME IInv, NEW r \in Requests, Arrive(r)
  PROVE  IInv'
<1> USE DEF IInv, Arrive, At, Goto, outside, caches, request, seen, Shapes
<1>1. Shapes'
  BY QueryFields, UploadConstantsOK DEF PCs
<1>2. \A x \in Requests : Stages(x)'
  BY QueryFields, UploadConstantsOK DEF Stages, IsUpload
<1>3. \A x \in Requests : Turn(x)'
  BY QueryFields, UploadConstantsOK DEF Turn, Stages, IsUpload, RunsAlone, Sync
<1>4. \A x \in Requests : Sizes(x)'
  BY QueryFields, UploadConstantsOK DEF Sizes, Stages, IsUpload, Sync
<1>5. \A x \in Requests : File(x)'
  BY QueryFields, UploadConstantsOK DEF File, Stages, IsUpload
<1>6. CachedWasHeld' /\ HeldNow' /\ \A x \in Requests : Carries(x)'
  BY QueryFields, UploadConstantsOK DEF CachedWasHeld, HeldNow, Carries
<1>7. Newest' /\ \A x \in Requests : Version(x)'
  BY QueryFields, UploadConstantsOK DEF Newest, Version, Stages, IsUpload
<1> QED BY <1>1, <1>2, <1>3, <1>4, <1>5, <1>6, <1>7 DEF IInv

LEMMA ReadChunkIInv ==
  ASSUME IInv, NEW r \in Requests, ReadChunk(r)
  PROVE  IInv'
<1> USE DEF IInv, ReadChunk, TooLarge, Smaller, Leave, Stay, At, Goto,
            outside, caches, request, seen, Shapes
<1>1. Shapes'
  BY QueryFields, UploadConstantsOK DEF PCs
<1>2. \A x \in Requests : Stages(x)'
  BY QueryFields, UploadConstantsOK DEF Stages, IsUpload
<1>3. \A x \in Requests : Turn(x)'
  BY QueryFields, UploadConstantsOK DEF Turn, Stages, IsUpload, RunsAlone, Sync
<1>4. \A x \in Requests : Sizes(x)'
  BY QueryFields, UploadConstantsOK DEF Sizes, Stages, IsUpload, Sync
<1>5. \A x \in Requests : File(x)'
  BY QueryFields, UploadConstantsOK DEF File, Stages, IsUpload
<1>6. CachedWasHeld' /\ HeldNow' /\ \A x \in Requests : Carries(x)'
  BY QueryFields, UploadConstantsOK DEF CachedWasHeld, HeldNow, Carries
<1>7. Newest' /\ \A x \in Requests : Version(x)'
  BY QueryFields, UploadConstantsOK DEF Newest, Version, Stages, IsUpload
<1> QED BY <1>1, <1>2, <1>3, <1>4, <1>5, <1>6, <1>7 DEF IInv

LEMMA EndOfFileIInv ==
  ASSUME IInv, NEW r \in Requests, EndOfFile(r)
  PROVE  IInv'
<1> USE DEF IInv, EndOfFile, At, Goto, outside, caches, request, seen, Shapes
<1>1. Shapes'
  BY QueryFields, UploadConstantsOK DEF PCs
<1>2. \A x \in Requests : Stages(x)'
  BY QueryFields, UploadConstantsOK DEF Stages, IsUpload
<1>3. \A x \in Requests : Turn(x)'
  BY QueryFields, UploadConstantsOK DEF Turn, Stages, IsUpload, RunsAlone, Sync
<1>4. \A x \in Requests : Sizes(x)'
  BY QueryFields, UploadConstantsOK DEF Sizes, Stages, IsUpload, Sync
<1>5. \A x \in Requests : File(x)'
  BY QueryFields, UploadConstantsOK DEF File, Stages, IsUpload
<1>6. CachedWasHeld' /\ HeldNow' /\ \A x \in Requests : Carries(x)'
  BY QueryFields, UploadConstantsOK DEF CachedWasHeld, HeldNow, Carries
<1>7. Newest' /\ \A x \in Requests : Version(x)'
  BY QueryFields, UploadConstantsOK DEF Newest, Version, Stages, IsUpload
<1> QED BY <1>1, <1>2, <1>3, <1>4, <1>5, <1>6, <1>7 DEF IInv

LEMMA ResolveIInv ==
  ASSUME IInv, NEW r \in Requests, Resolve(r)
  PROVE  IInv'
<1>a. At(r, "resolve") /\ UNCHANGED <<outside, caches, seen, query, loaded, uploaded, temp, label>>
  BY DEF Resolve
<1>b. \/ Goto(r, "lookup") /\ UNCHANGED <<loop, result>>
      \/ Settle(r, query[r].inline)
  BY DEF Resolve
<1>c. /\ DOMAIN todo' = Requests /\ DOMAIN auth' = Requests
      /\ \A x \in Requests \ {r} : todo'[x] = todo[x]
  BY DEF Resolve, Settle, IInv, Shapes
<1> USE DEF IInv, Settle, Leave, AfterAuth, At, Goto, outside, caches,
            request, seen, Shapes
<1>1. Shapes'
  BY QueryFields, UploadConstantsOK, <1>a, <1>b, <1>c DEF PCs
<1>2. \A x \in Requests : Stages(x)'
  BY QueryFields, UploadConstantsOK, <1>a, <1>b, <1>c DEF Stages, IsUpload
<1>3. \A x \in Requests : Turn(x)'
  BY QueryFields, UploadConstantsOK, <1>a, <1>b, <1>c DEF Turn, Stages,
       IsUpload, RunsAlone, Sync
<1>4. \A x \in Requests : Sizes(x)'
  BY QueryFields, UploadConstantsOK, <1>a, <1>b, <1>c DEF Sizes, Stages,
       IsUpload, Sync
<1>5. \A x \in Requests : File(x)'
  BY QueryFields, UploadConstantsOK, <1>a, <1>b, <1>c DEF File, Stages,
       IsUpload
<1>6. CachedWasHeld' /\ HeldNow' /\ \A x \in Requests : Carries(x)'
  <2>1. /\ pc'[r] # "store"
        /\ \A x \in Requests \ {r} : pc'[x] = pc[x]
  BY <1>b, QueryFields DEF IInv, Shapes, Settle, Leave, AfterAuth, Goto,
       IsUpload
  <2>2. UNCHANGED <<manager, held, credCache, loaded>>
    BY <1>a DEF outside, caches
  <2>3. CachedWasHeld' /\ HeldNow'
    BY <2>2 DEF IInv, CachedWasHeld, HeldNow
  <2>4. \A x \in Requests : Carries(x)'
    BY <1>c, <2>1, <2>2 DEF IInv, Carries
  <2> QED BY <2>3, <2>4
<1>7. Newest' /\ \A x \in Requests : Version(x)'
  BY QueryFields, UploadConstantsOK, <1>a, <1>b, <1>c DEF Newest, Version,
       Stages, IsUpload
<1> QED BY <1>1, <1>2, <1>3, <1>4, <1>5, <1>6, <1>7 DEF IInv

LEMMA LookupIInv ==
  ASSUME IInv, NEW r \in Requests, Lookup(r)
  PROVE  IInv'
<1> USE DEF IInv, Lookup, Settle, Leave, AfterAuth, At, Goto, outside, caches,
            request, seen, Shapes
<1>1. Shapes'
  BY QueryFields, UploadConstantsOK DEF PCs
<1>2. \A x \in Requests : Stages(x)'
  BY QueryFields, UploadConstantsOK DEF Stages, IsUpload
<1>3. \A x \in Requests : Turn(x)'
  BY QueryFields, UploadConstantsOK DEF Turn, Stages, IsUpload, RunsAlone, Sync
<1>4. \A x \in Requests : Sizes(x)'
  BY QueryFields, UploadConstantsOK DEF Sizes, Stages, IsUpload, Sync
<1>5. \A x \in Requests : File(x)'
  BY QueryFields, UploadConstantsOK DEF File, Stages, IsUpload
<1>6. CachedWasHeld' /\ HeldNow' /\ \A x \in Requests : Carries(x)'
  BY QueryFields, UploadConstantsOK DEF CachedWasHeld, HeldNow, Carries
<1>7. Newest' /\ \A x \in Requests : Version(x)'
  BY QueryFields, UploadConstantsOK DEF Newest, Version, Stages, IsUpload
<1> QED BY <1>1, <1>2, <1>3, <1>4, <1>5, <1>6, <1>7 DEF IInv

LEMMA LoadIInv ==
  ASSUME IInv, NEW r \in Requests, Load(r)
  PROVE  IInv'
<1> USE DEF IInv, Load, Leave, ReadEntry, Rest, At, Goto, outside, caches,
            request, seen, Shapes
<1>1. Shapes'
  BY QueryFields, UploadConstantsOK DEF PCs
<1>2. \A x \in Requests : Stages(x)'
  <2>1. \A x \in Requests \ {r} : Stages(x)'
    BY QueryFields DEF Stages, IsUpload
  <2>2. /\ pc'[r] \in {"store", "cleanup", "done", "lookup"}
        /\ pc'[r] = "cleanup" => IsUpload(r)
    BY QueryFields, UploadConstantsOK DEF IsUpload, Stages
  <2>3. result'[r] # "none" => pc'[r] \in {"cleanup", "done"}
    BY QueryFields, UploadConstantsOK DEF Stages
  <2>4. Stages(r)'
    BY <2>2, <2>3, QueryFields DEF Stages, IsUpload
  <2> QED BY <2>1, <2>4
<1>3. \A x \in Requests : Turn(x)'
  BY QueryFields, UploadConstantsOK DEF Turn, Stages, IsUpload, RunsAlone, Sync
<1>4. \A x \in Requests : Sizes(x)'
  BY QueryFields, UploadConstantsOK DEF Sizes, Stages, IsUpload, Sync
<1>5. \A x \in Requests : File(x)'
  BY QueryFields, UploadConstantsOK DEF File, Stages, IsUpload
<1>6. CachedWasHeld' /\ HeldNow' /\ \A x \in Requests : Carries(x)'
  <2> DEFINE t == Head(todo[r])
  <2>1. UNCHANGED <<manager, held, credCache>>
    BY DEF Load, outside, caches
  <2>2. CachedWasHeld' /\ HeldNow'
    BY <2>1 DEF IInv, CachedWasHeld, HeldNow
  <2>3. \A x \in Requests \ {r} : Carries(x)'
    BY <2>1 DEF IInv, Load, Leave, Goto, Shapes, Carries
  <2>4. CASE manager[t] # None
    <3>1. todo' = todo /\ loaded'[r] = manager[t]
      BY <2>4 DEF Load, ReadEntry, IInv, Shapes
    <3> QED BY <3>1, <2>1, <2>3, <2>2, <2>4 DEF IInv, HeldNow, Carries
  <2>5. CASE manager[t] = None
    <3>1. pc'[r] # "store"
      BY <2>5, QueryFields DEF Load, ReadEntry, Leave, Goto, IInv, Shapes
    <3> QED BY <3>1, <2>3, <2>2 DEF Carries
  <2> QED BY <2>4, <2>5
<1>7. Newest' /\ \A x \in Requests : Version(x)'
  <2>1. Newest'
    BY DEF Newest
  <2>2. \A x \in Requests \ {r} : Version(x)'
    BY QueryFields DEF Version, IsUpload
  <2>3. /\ pc'[r] \in {"store", "cleanup", "done", "lookup"}
        /\ pc'[r] = "done" => result'[r] = "denied"
    BY QueryFields, UploadConstantsOK DEF IsUpload
  <2>4. Version(r)'
    BY <2>3, QueryFields DEF Version, Stages, IsUpload
  <2> QED BY <2>1, <2>2, <2>4
<1> QED BY <1>1, <1>2, <1>3, <1>4, <1>5, <1>6, <1>7 DEF IInv

LEMMA StoreIInv ==
  ASSUME IInv, NEW r \in Requests, Store(r)
  PROVE  IInv'
<1> USE DEF IInv, Store, Settle, Leave, AfterAuth, StoreAs, At, Goto, outside,
            caches, request, seen, Shapes
<1>1. Shapes'
  BY QueryFields, UploadConstantsOK DEF PCs
<1>2. \A x \in Requests : Stages(x)'
  BY QueryFields, UploadConstantsOK DEF Stages, IsUpload
<1>3. \A x \in Requests : Turn(x)'
  BY QueryFields, UploadConstantsOK DEF Turn, Stages, IsUpload, RunsAlone, Sync
<1>4. \A x \in Requests : Sizes(x)'
  BY QueryFields, UploadConstantsOK DEF Sizes, Stages, IsUpload, Sync
<1>5. \A x \in Requests : File(x)'
  BY QueryFields, UploadConstantsOK DEF File, Stages, IsUpload
<1>6. CachedWasHeld' /\ HeldNow' /\ \A x \in Requests : Carries(x)'
  BY QueryFields, UploadConstantsOK DEF CachedWasHeld, HeldNow, Carries
<1>7. Newest' /\ \A x \in Requests : Version(x)'
  BY QueryFields, UploadConstantsOK DEF Newest, Version, Stages, IsUpload
<1> QED BY <1>1, <1>2, <1>3, <1>4, <1>5, <1>6, <1>7 DEF IInv

LEMMA FindIInv ==
  ASSUME IInv, NEW r \in Requests, Find(r)
  PROVE  IInv'
<1> USE DEF IInv, Find, Leave, At, Goto, outside, caches, request, seen,
            Shapes
<1>1. Shapes'
  BY QueryFields, UploadConstantsOK DEF PCs
<1>2. \A x \in Requests : Stages(x)'
  BY QueryFields, UploadConstantsOK DEF Stages, IsUpload
<1>3. \A x \in Requests : Turn(x)'
  BY QueryFields, UploadConstantsOK DEF Turn, Stages, IsUpload, RunsAlone, Sync
<1>4. \A x \in Requests : Sizes(x)'
  BY QueryFields, UploadConstantsOK DEF Sizes, Stages, IsUpload, Sync
<1>5. \A x \in Requests : File(x)'
  BY QueryFields, UploadConstantsOK DEF File, Stages, IsUpload
<1>6. CachedWasHeld' /\ HeldNow' /\ \A x \in Requests : Carries(x)'
  BY QueryFields, UploadConstantsOK DEF CachedWasHeld, HeldNow, Carries
<1>7. Newest' /\ \A x \in Requests : Version(x)'
  BY QueryFields, UploadConstantsOK DEF Newest, Version, Stages, IsUpload
<1> QED BY <1>1, <1>2, <1>3, <1>4, <1>5, <1>6, <1>7 DEF IInv

LEMMA PutIInv ==
  ASSUME IInv, NEW r \in Requests, Put(r)
  PROVE  IInv'
<1> USE DEF IInv, Put, Leave, At, Goto, outside, caches, request, seen, Shapes
<1>1. Shapes'
  BY QueryFields, UploadConstantsOK DEF PCs
<1>2. \A x \in Requests : Stages(x)'
  BY QueryFields, UploadConstantsOK DEF Stages, IsUpload
<1>3. \A x \in Requests : Turn(x)'
  BY QueryFields, UploadConstantsOK DEF Turn, Stages, IsUpload, RunsAlone, Sync
<1>4. \A x \in Requests : Sizes(x)'
  BY QueryFields, UploadConstantsOK DEF Sizes, Stages, IsUpload, Sync
<1>5. \A x \in Requests : File(x)'
  BY QueryFields, UploadConstantsOK DEF File, Stages, IsUpload
<1>6. CachedWasHeld' /\ HeldNow' /\ \A x \in Requests : Carries(x)'
  BY QueryFields, UploadConstantsOK DEF CachedWasHeld, HeldNow, Carries
<1>7. Newest' /\ \A x \in Requests : Version(x)'
  BY QueryFields, UploadConstantsOK DEF Newest, Version, Stages, IsUpload
<1> QED BY <1>1, <1>2, <1>3, <1>4, <1>5, <1>6, <1>7 DEF IInv

LEMMA PopIInv ==
  ASSUME IInv, NEW r \in Requests, Pop(r)
  PROVE  IInv'
<1> USE DEF IInv, Pop, Leave, Emptied, At, Goto, outside, caches, request,
            seen, Shapes
<1>1. Shapes'
  BY QueryFields, UploadConstantsOK DEF PCs
<1>2. \A x \in Requests : Stages(x)'
  BY QueryFields, UploadConstantsOK DEF Stages, IsUpload
<1>3. \A x \in Requests : Turn(x)'
  BY QueryFields, UploadConstantsOK DEF Turn, Stages, IsUpload, RunsAlone, Sync
<1>4. \A x \in Requests : Sizes(x)'
  BY QueryFields, UploadConstantsOK DEF Sizes, Stages, IsUpload, Sync
<1>5. \A x \in Requests : File(x)'
  BY QueryFields, UploadConstantsOK DEF File, Stages, IsUpload
<1>6. CachedWasHeld' /\ HeldNow' /\ \A x \in Requests : Carries(x)'
  BY QueryFields, UploadConstantsOK DEF CachedWasHeld, HeldNow, Carries
<1>7. Newest' /\ \A x \in Requests : Version(x)'
  BY QueryFields, UploadConstantsOK DEF Newest, Version, Stages, IsUpload
<1> QED BY <1>1, <1>2, <1>3, <1>4, <1>5, <1>6, <1>7 DEF IInv

LEMMA CleanupIInv ==
  ASSUME IInv, NEW r \in Requests, Cleanup(r)
  PROVE  IInv'
<1> USE DEF IInv, Cleanup, At, Goto, outside, caches, request, seen, Shapes
<1>1. Shapes'
  BY QueryFields, UploadConstantsOK DEF PCs
<1>2. \A x \in Requests : Stages(x)'
  BY QueryFields, UploadConstantsOK DEF Stages, IsUpload
<1>3. \A x \in Requests : Turn(x)'
  BY QueryFields, UploadConstantsOK DEF Turn, Stages, IsUpload, RunsAlone, Sync
<1>4. \A x \in Requests : Sizes(x)'
  BY QueryFields, UploadConstantsOK DEF Sizes, Stages, IsUpload, Sync
<1>5. \A x \in Requests : File(x)'
  BY QueryFields, UploadConstantsOK DEF File, Stages, IsUpload
<1>6. CachedWasHeld' /\ HeldNow' /\ \A x \in Requests : Carries(x)'
  BY QueryFields, UploadConstantsOK DEF CachedWasHeld, HeldNow, Carries
<1>7. Newest' /\ \A x \in Requests : Version(x)'
  BY QueryFields, UploadConstantsOK DEF Newest, Version, Stages, IsUpload
<1> QED BY <1>1, <1>2, <1>3, <1>4, <1>5, <1>6, <1>7 DEF IInv

LEMMA CachedIInv ==
  ASSUME IInv, NEW r \in Requests, Cached(r)
  PROVE  IInv'
<1> USE DEF IInv, Cached, Leave, At, Goto, outside, caches, request, seen,
            Shapes
<1>1. Shapes'
  BY QueryFields, UploadConstantsOK DEF PCs
<1>2. \A x \in Requests : Stages(x)'
  BY QueryFields, UploadConstantsOK DEF Stages, IsUpload
<1>3. \A x \in Requests : Turn(x)'
  BY QueryFields, UploadConstantsOK DEF Turn, Stages, IsUpload, RunsAlone, Sync
<1>4. \A x \in Requests : Sizes(x)'
  BY QueryFields, UploadConstantsOK DEF Sizes, Stages, IsUpload, Sync
<1>5. \A x \in Requests : File(x)'
  BY QueryFields, UploadConstantsOK DEF File, Stages, IsUpload
<1>6. CachedWasHeld' /\ HeldNow' /\ \A x \in Requests : Carries(x)'
  BY QueryFields, UploadConstantsOK DEF CachedWasHeld, HeldNow, Carries
<1>7. Newest' /\ \A x \in Requests : Version(x)'
  BY QueryFields, UploadConstantsOK DEF Newest, Version, Stages, IsUpload
<1> QED BY <1>1, <1>2, <1>3, <1>4, <1>5, <1>6, <1>7 DEF IInv

LEMMA FetchIInv ==
  ASSUME IInv, NEW r \in Requests, Fetch(r)
  PROVE  IInv'
<1> USE DEF IInv, Fetch, Leave, At, Goto, outside, caches, request, seen,
            Shapes
<1>1. Shapes'
  BY QueryFields, UploadConstantsOK DEF PCs
<1>2. \A x \in Requests : Stages(x)'
  BY QueryFields, UploadConstantsOK DEF Stages, IsUpload
<1>3. \A x \in Requests : Turn(x)'
  BY QueryFields, UploadConstantsOK DEF Turn, Stages, IsUpload, RunsAlone, Sync
<1>4. \A x \in Requests : Sizes(x)'
  BY QueryFields, UploadConstantsOK DEF Sizes, Stages, IsUpload, Sync
<1>5. \A x \in Requests : File(x)'
  BY QueryFields, UploadConstantsOK DEF File, Stages, IsUpload
<1>6. CachedWasHeld' /\ HeldNow' /\ \A x \in Requests : Carries(x)'
  BY QueryFields, UploadConstantsOK DEF CachedWasHeld, HeldNow, Carries
<1>7. Newest' /\ \A x \in Requests : Version(x)'
  BY QueryFields, UploadConstantsOK DEF Newest, Version, Stages, IsUpload
<1> QED BY <1>1, <1>2, <1>3, <1>4, <1>5, <1>6, <1>7 DEF IInv

LEMMA KeepIInv ==
  ASSUME IInv, NEW r \in Requests, Keep(r)
  PROVE  IInv'
<1> USE DEF IInv, Keep, Leave, At, Goto, outside, caches, request, seen,
            Shapes
<1>1. Shapes'
  BY QueryFields, UploadConstantsOK DEF PCs
<1>2. \A x \in Requests : Stages(x)'
  BY QueryFields, UploadConstantsOK DEF Stages, IsUpload
<1>3. \A x \in Requests : Turn(x)'
  BY QueryFields, UploadConstantsOK DEF Turn, Stages, IsUpload, RunsAlone, Sync
<1>4. \A x \in Requests : Sizes(x)'
  BY QueryFields, UploadConstantsOK DEF Sizes, Stages, IsUpload, Sync
<1>5. \A x \in Requests : File(x)'
  BY QueryFields, UploadConstantsOK DEF File, Stages, IsUpload
<1>6. CachedWasHeld' /\ HeldNow' /\ \A x \in Requests : Carries(x)'
  BY QueryFields, UploadConstantsOK DEF CachedWasHeld, HeldNow, Carries
<1>7. Newest' /\ \A x \in Requests : Version(x)'
  BY QueryFields, UploadConstantsOK DEF Newest, Version, Stages, IsUpload
<1> QED BY <1>1, <1>2, <1>3, <1>4, <1>5, <1>6, <1>7 DEF IInv

LEMMA OthersUploadIInv ==
  ASSUME IInv, OthersUpload
  PROVE  IInv'
<1> USE DEF IInv, OthersUpload, outside, caches, request, seen, Shapes
<1>1. Shapes'
  BY QueryFields, UploadConstantsOK DEF PCs
<1>2. \A x \in Requests : Stages(x)'
  BY QueryFields, UploadConstantsOK DEF Stages, IsUpload
<1>3. \A x \in Requests : Turn(x)'
  BY QueryFields, UploadConstantsOK DEF Turn, Stages, IsUpload, RunsAlone, Sync
<1>4. \A x \in Requests : Sizes(x)'
  BY QueryFields, UploadConstantsOK DEF Sizes, Stages, IsUpload, Sync
<1>5. \A x \in Requests : File(x)'
  BY QueryFields, UploadConstantsOK DEF File, Stages, IsUpload
<1>6. CachedWasHeld' /\ HeldNow' /\ \A x \in Requests : Carries(x)'
  BY QueryFields, UploadConstantsOK DEF CachedWasHeld, HeldNow, Carries
<1>7. Newest' /\ \A x \in Requests : Version(x)'
  BY QueryFields, UploadConstantsOK DEF Newest, Version, Stages, IsUpload
<1> QED BY <1>1, <1>2, <1>3, <1>4, <1>5, <1>6, <1>7 DEF IInv

LEMMA ManagerChangesIInv ==
  ASSUME IInv, ManagerChanges
  PROVE  IInv'
<1> USE DEF IInv, ManagerChanges, outside, caches, request, seen, Shapes
<1>1. Shapes'
  BY QueryFields, UploadConstantsOK DEF PCs
<1>2. \A x \in Requests : Stages(x)'
  BY QueryFields, UploadConstantsOK DEF Stages, IsUpload
<1>3. \A x \in Requests : Turn(x)'
  BY QueryFields, UploadConstantsOK DEF Turn, Stages, IsUpload, RunsAlone, Sync
<1>4. \A x \in Requests : Sizes(x)'
  BY QueryFields, UploadConstantsOK DEF Sizes, Stages, IsUpload, Sync
<1>5. \A x \in Requests : File(x)'
  BY QueryFields, UploadConstantsOK DEF File, Stages, IsUpload
<1>6. CachedWasHeld' /\ HeldNow' /\ \A x \in Requests : Carries(x)'
  BY QueryFields, UploadConstantsOK DEF CachedWasHeld, HeldNow, Carries
<1>7. Newest' /\ \A x \in Requests : Version(x)'
  BY QueryFields, UploadConstantsOK DEF Newest, Version, Stages, IsUpload
<1> QED BY <1>1, <1>2, <1>3, <1>4, <1>5, <1>6, <1>7 DEF IInv

LEMMA RestartIInv ==
  ASSUME IInv, Restart
  PROVE  IInv'
<1> USE DEF IInv, Restart, outside, caches, request, seen, Shapes
<1>1. Shapes'
  BY QueryFields, UploadConstantsOK DEF PCs
<1>2. \A x \in Requests : Stages(x)'
  BY QueryFields, UploadConstantsOK DEF Stages, IsUpload
<1>3. \A x \in Requests : Turn(x)'
  BY QueryFields, UploadConstantsOK DEF Turn, Stages, IsUpload, RunsAlone, Sync
<1>4. \A x \in Requests : Sizes(x)'
  BY QueryFields, UploadConstantsOK DEF Sizes, Stages, IsUpload, Sync
<1>5. \A x \in Requests : File(x)'
  BY QueryFields, UploadConstantsOK DEF File, Stages, IsUpload
<1>6. CachedWasHeld' /\ HeldNow' /\ \A x \in Requests : Carries(x)'
  BY QueryFields, UploadConstantsOK DEF CachedWasHeld, HeldNow, Carries
<1>7. Newest' /\ \A x \in Requests : Version(x)'
  BY QueryFields, UploadConstantsOK DEF Newest, Version, Stages, IsUpload
<1> QED BY <1>1, <1>2, <1>3, <1>4, <1>5, <1>6, <1>7 DEF IInv

LEMMA InitIInv == Init => IInv
<1> SUFFICES ASSUME Init PROVE IInv
  OBVIOUS
<1> USE UploadConstantsOK DEF Init
<1>1. Shapes
  BY DEF Shapes, PCs
<1>2. \A r \in Requests : Stages(r) /\ Turn(r) /\ File(r)
  BY DEF Stages, Turn, File, Sync
<1>3. \A r \in Requests : Sizes(r)
  BY DEF Sizes, Sync
<1>4. CachedWasHeld /\ HeldNow /\ \A r \in Requests : Carries(r)
  BY DEF CachedWasHeld, HeldNow, Carries
<1>5. Newest /\ \A r \in Requests : Version(r)
  BY DEF Newest, Version
<1> QED BY <1>1, <1>2, <1>3, <1>4, <1>5 DEF IInv

LEMMA StutterIInv == IInv /\ UNCHANGED vars => IInv'
<1> SUFFICES ASSUME IInv, UNCHANGED vars PROVE IInv'
  OBVIOUS
<1> USE DEF IInv, vars, outside, caches, request, seen
<1>1. Shapes'
  BY DEF Shapes
<1>2. \A r \in Requests : Stages(r)' /\ Turn(r)' /\ File(r)' /\ Sizes(r)'
  BY DEF Stages, Turn, File, Sizes, IsUpload
<1>3. CachedWasHeld' /\ HeldNow' /\ \A r \in Requests : Carries(r)'
  BY DEF CachedWasHeld, HeldNow, Carries
<1>4. Newest' /\ \A r \in Requests : Version(r)'
  BY DEF Newest, Version, IsUpload
<1> QED BY <1>1, <1>2, <1>3, <1>4

LEMMA UploadStep ==
  ASSUME IInv, [Next]_vars
  PROVE  IInv'
<1>1. ASSUME NEW r \in Requests, Step(r) PROVE IInv'
  BY <1>1, ArriveIInv, ReadChunkIInv, EndOfFileIInv, ResolveIInv, LookupIInv,
     LoadIInv, StoreIInv, FindIInv, PutIInv, PopIInv, CleanupIInv,
     CachedIInv, FetchIInv, KeepIInv
     DEF Step
<1>2. CASE OthersUpload \/ ManagerChanges \/ Restart
  BY <1>2, OthersUploadIInv, ManagerChangesIInv, RestartIInv
<1>3. CASE UNCHANGED vars
  BY <1>3, StutterIInv
<1> QED BY <1>1, <1>2, <1>3 DEF Next

(* The strengthening holds in every reachable state: each action of a      *)
(* request, of the other clients, of the credential manager and of the     *)
(* process keeps it.                                                       *)
THEOREM UploadInvariant == Spec => []IInv
<1>1. IInv /\ [Next]_vars => IInv'
  BY UploadStep
<1> QED BY <1>1, InitIInv, PTL DEF Spec

(* No two raw uploads are in the driver at once, however many there are.   *)
THEOREM TurnsAreTaken == Spec => []UploadsTakeTurns
<1>1. IInv => UploadsTakeTurns
  BY DEF IInv, Turn, UploadsTakeTurns
<1> QED BY <1>1, UploadInvariant, PTL

(* Neither limit is passed, nor refuses what it allows, wherever the chunks*)
(* of an upload end; and whichever way it ends, its temporary file is not  *)
(* left behind without an attempt to remove it.                            *)
THEOREM UploadsAreEnded == Spec => []UploadsEndRight
<1>1. IInv => UploadsEndRight
  BY DEF IInv, File, Sizes, UploadsEndRight
<1> QED BY <1>1, UploadInvariant, PTL

(* The credential cache holds under a name only what was stored under that *)
(* name, for any number of requests, names and changes.                    *)
THEOREM CacheHoldsWhatWasHeld == Spec => []CachedWasHeld
<1>1. IInv => CachedWasHeld
  BY DEF IInv
<1> QED BY <1>1, UploadInvariant, PTL

(* Reported versions do not go back, except through a cached version that  *)
(* an upload had overtaken.                                                *)
THEOREM VersionsGoForward == Spec => []VersionsNotOlder
<1>1. IInv => VersionsNotOlder
  BY DEF IInv, Newest, Version, VersionsNotOlder
<1> QED BY <1>1, UploadInvariant, PTL

-----------------------------------------------------------------------------
(* What a request looks credentials up under.                              *)

LEMMA AddIs ==
  ASSUME NEW list \in Seq(Targets), NEW t \in Targets \cup {None}
  PROVE  Add(list, t) \in Seq(Targets)
BY DEF Add

LEMMA CandidatesAre ==
  ASSUME NEW q \in Query
  PROVE  Candidates(q) \in Seq(Targets)
<1> DEFINE N == Len(q.bases)
           V == Seq(Targets)
           b == q.bases
           Is(f) == f = [n \in 0..N |-> IF n = 0 THEN <<>> ELSE Add(f[n - 1], b[n])]
           found == CHOOSE f : Is(f)
           s == [p \in V \X (1..N) |-> Add(p[1], b[p[2]])]
           e == <<>>
<1>1. N \in Nat /\ \A i \in 1..N : b[i] \in Targets \cup {None}
  BY DEF Query
<1>2. e \in V
  OBVIOUS
<1>3. \A v \in V, i \in 1..N : Add(v, b[i]) \in V
  BY <1>1, AddIs
<1>4. \A v \in V, i \in 1..N : s[<<v, i>>] = Add(v, b[i])
  OBVIOUS
<1>5. Candidates(q) = found[N]
  BY DEF Candidates
<1> HIDE DEF N, V, b, s, e
<1>a. Stays(V, N, s)
  BY <1>3, <1>4 DEF Stays
<1>6. PICK f \in [0..N -> V] : f[0] = e /\ \A i \in 1..N : f[i] = s[<<f[i - 1], i>>]
  BY <1>1, <1>2, <1>a, Iterates
<1>7. Is(f)
  <2>1. ASSUME NEW i \in 1..N PROVE f[i] = Add(f[i - 1], b[i])
    <3>1. i - 1 \in 0..N /\ f[i - 1] \in V
      BY <1>1, <1>6
    <3> QED BY <1>4, <1>6, <3>1
  <2> QED BY <1>1, <1>6, <2>1 DEF e
<1>8. Is(found)
  BY <1>7
<1> HIDE DEF found
<1> DEFINE S == {n \in Nat : n <= N => found[n] \in V}
<1>9. 0 \in S
  BY <1>1, <1>2, <1>8 DEF e
<1>10. ASSUME NEW n \in Nat, n \in S
       PROVE  n + 1 \in S
  <2> SUFFICES ASSUME n + 1 <= N PROVE found[n + 1] \in V
    OBVIOUS
  <2>1. n + 1 \in 0..N /\ n + 1 # 0 /\ (n + 1) - 1 = n /\ n + 1 \in 1..N /\ n <= N
    BY <1>1
  <2>2. found[n + 1] = Add(found[n], b[n + 1]) /\ found[n] \in V
    BY <1>8, <1>10, <2>1
  <2> QED BY <1>1, <2>1, <2>2, AddIs DEF V
<1> HIDE DEF S, Is
<1>11. N \in S
  BY <1>1, <1>9, <1>10, AllNumbers
<1> QED BY <1>5, <1>11 DEF S, V

(* The types, with which credential candidates and histories come.         *)
Typed ==
  /\ version \in 1..MaxVersion /\ verCache \in 0..MaxVersion /\ changes \in 0..MaxChanges
  /\ manager \in [Targets -> Users \cup {None}]
  /\ credCache \in [Targets -> Users \cup {None}]
  /\ auth \in [Requests -> Users \cup {None}]
  /\ loaded \in [Requests -> Users \cup {None}]
  /\ todo \in [Requests -> Seq(Targets)]
  /\ uploaded \in [Requests -> 0..RawMax]
  /\ label \in [Requests -> 0..MaxVersion]
  /\ held \in [Targets -> SUBSET Users]
  /\ missing \in [Requests -> SUBSET Targets]
  /\ loop \in Requests \cup {None}
  /\ loop \in Requests => IsUpload(loop) /\ pc[loop] \in Sync

(* A request looks for credentials under its names, and those it has       *)
(* passed over lacked an entry at some time meanwhile.                     *)
Looks(r) == ~Usable(query[r].inline) /\ Candidates(query[r]) # <<>>
Tried(names, list, lacked) ==
  LET n == Len(names) - Len(list) IN
  /\ n >= 0
  /\ \A k \in 1..Len(list) : list[k] = names[n + k]
  /\ \A k \in 1..n : names[k] \in lacked

Before  == {"ready", "stream", "resolve"}
Looking == {"lookup", "load", "store"}
Working == {"find", "put", "pop", "cached", "fetch", "keep"}

Order(r) ==
  /\ pc[r] \in Before => todo[r] = <<>> /\ auth[r] = None
  /\ pc[r] \in Looking => Looks(r) /\ todo[r] # <<>> /\ auth[r] = None
  /\ pc[r] = "store" => loaded[r] \in Users
  /\ Looks(r) /\ (todo[r] # <<>> \/ result[r] = "denied") =>
       Tried(Candidates(query[r]), todo[r], missing[r])
  /\ Looks(r) /\ auth[r] # None =>
       todo[r] # <<>> /\ (auth[r] \in held[Head(todo[r])] \/ pc[r] = "done")
  /\ ~Looks(r) /\ auth[r] # None => auth[r] = query[r].inline
  /\ pc[r] \in Working \/ result[r] = "ok" => Usable(auth[r])
  /\ result[r] = "denied" /\ Looks(r) => todo[r] = <<>> \/ auth[r] \in Secretless
  /\ pc[r] # "ready" => \A t \in Targets : manager[t] = None => t \in missing[r]

OInv == IInv /\ Typed /\ \A r \in Requests : Order(r)

LEMMA UploadBasics ==
  /\ {RawMax, DriverMax, MaxVersion, MaxChanges} \subseteq Nat /\ Chunk \in Nat /\ MaxVersion >= 1
  /\ Secretless \subseteq Users /\ None \notin Users /\ None \notin Targets
  /\ None \notin Requests
BY UploadConstantsOK

LEMMA QueryParts ==
  ASSUME Shapes, NEW r \in Requests
  PROVE  /\ query[r] \in Query /\ query[r].inline \in Users \cup {None}
         /\ Candidates(query[r]) \in Seq(Targets)
BY UploadConstantsOK, CandidatesAre DEF Shapes, Query

(* A step that leaves what a request looked up alone.                      *)
Same(r) ==
  /\ query'[r] = query[r] /\ todo'[r] = todo[r] /\ auth'[r] = auth[r]
  /\ loaded'[r] = loaded[r] /\ missing'[r] = missing[r]

LEMMA OrderSame ==
  ASSUME NEW r \in Requests, Order(r), Same(r), pc'[r] = pc[r], result'[r] = result[r],
         manager' = manager, held' = held
  PROVE  Order(r)'
BY DEF Order, Same, Looks

LEMMA OrderMoves ==
  ASSUME NEW r \in Requests, Order(r), Same(r), manager' = manager, held' = held,
         pc'[r] \in Before => pc[r] \in Before, pc'[r] \notin Looking,
         pc'[r] \in Working \/ result'[r] = "ok" => pc[r] \in Working \/ result[r] = "ok",
         result'[r] = "denied" => result[r] = "denied",
         pc[r] # "ready", pc[r] # "done"
  PROVE  Order(r)'
BY DEF Order, Same, Looks, Looking

(* What the steps of one request leave alone of the others'.               *)
Alone(r) ==
  /\ manager' = manager /\ held' = held
  /\ \A x \in Requests \ {r} : Same(x) /\ pc'[x] = pc[x] /\ result'[x] = result[x]

LEMMA OrderAlone ==
  ASSUME OInv, NEW r \in Requests, Alone(r), Order(r)'
  PROVE  \A x \in Requests : Order(x)'
<1> SUFFICES ASSUME NEW x \in Requests, x # r PROVE Order(x)'
  OBVIOUS
<1> QED BY OrderSame DEF OInv, Alone

LEMMA ReadChunkOrder ==
  ASSUME OInv, NEW r \in Requests, ReadChunk(r)
  PROVE  \A x \in Requests : Order(x)'
<1>1. Alone(r) /\ Same(r)
  BY DEF ReadChunk, TooLarge, Smaller, Stay, Leave, At, Goto, Alone, Same, OInv, IInv, Shapes,
         outside, caches, request, seen
<1>2. /\ pc'[r] \in Before => pc[r] \in Before
      /\ pc'[r] \notin Looking /\ pc[r] # "ready" /\ pc[r] # "done"
      /\ pc'[r] \in Working \/ result'[r] = "ok" => pc[r] \in Working \/ result[r] = "ok"
      /\ result'[r] = "denied" => result[r] = "denied"
  BY DEF ReadChunk, TooLarge, Smaller, Stay, Leave, At, Goto, OInv, IInv, Shapes,
         Before, Looking, Working
<1>3. Order(r)'
  BY <1>1, <1>2, OrderMoves DEF OInv, Alone
<1> QED BY <1>1, <1>3, OrderAlone

LEMMA EndOfFileOrder ==
  ASSUME OInv, NEW r \in Requests, EndOfFile(r)
  PROVE  \A x \in Requests : Order(x)'
<1>1. Alone(r) /\ Same(r)
  <2>1. UNCHANGED <<manager, held, missing, query, todo, auth, loaded, result>>
    BY DEF EndOfFile, outside, request
  <2>2. \A x \in Requests \ {r} : pc'[x] = pc[x]
    BY DEF EndOfFile, Goto, OInv, IInv, Shapes
  <2> QED BY <2>1, <2>2 DEF Alone, Same
<1>2. /\ pc'[r] \in Before => pc[r] \in Before
      /\ pc'[r] \notin Looking /\ pc[r] # "ready" /\ pc[r] # "done"
      /\ pc'[r] \in Working \/ result'[r] = "ok" => pc[r] \in Working \/ result[r] = "ok"
      /\ result'[r] = "denied" => result[r] = "denied"
  BY DEF EndOfFile, request, At, Goto, OInv, IInv, Shapes, Before, Looking, Working
<1>3. Order(r)'
  BY <1>1, <1>2, OrderMoves DEF OInv, Alone
<1> QED BY <1>1, <1>3, OrderAlone

LEMMA FindOrder ==
  ASSUME OInv, NEW r \in Requests, Find(r)
  PROVE  \A x \in Requests : Order(x)'
<1>1. Alone(r) /\ Same(r)
  BY DEF Find, Leave, At, Goto, Alone, Same, OInv, IInv, Shapes,
         outside, caches, request, seen
<1>2. /\ pc'[r] \in Before => pc[r] \in Before
      /\ pc'[r] \notin Looking /\ pc[r] # "ready" /\ pc[r] # "done"
      /\ pc'[r] \in Working \/ result'[r] = "ok" => pc[r] \in Working \/ result[r] = "ok"
      /\ result'[r] = "denied" => result[r] = "denied"
  BY DEF Find, Leave, At, Goto, OInv, IInv, Shapes, Before, Looking, Working
<1>3. Order(r)'
  BY <1>1, <1>2, OrderMoves DEF OInv, Alone
<1> QED BY <1>1, <1>3, OrderAlone

LEMMA PutOrder ==
  ASSUME OInv, NEW r \in Requests, Put(r)
  PROVE  \A x \in Requests : Order(x)'
<1>1. Alone(r) /\ Same(r)
  BY DEF Put, Leave, At, Goto, Alone, Same, OInv, IInv, Shapes,
         outside, caches, request, seen
<1>2. /\ pc'[r] \in Before => pc[r] \in Before
      /\ pc'[r] \notin Looking /\ pc[r] # "ready" /\ pc[r] # "done"
      /\ pc'[r] \in Working \/ result'[r] = "ok" => pc[r] \in Working \/ result[r] = "ok"
      /\ result'[r] = "denied" => result[r] = "denied"
  BY DEF Put, Leave, At, Goto, OInv, IInv, Shapes, Before, Looking, Working
<1>3. Order(r)'
  BY <1>1, <1>2, OrderMoves DEF OInv, Alone
<1> QED BY <1>1, <1>3, OrderAlone

LEMMA PopOrder ==
  ASSUME OInv, NEW r \in Requests, Pop(r)
  PROVE  \A x \in Requests : Order(x)'
<1>1. Alone(r) /\ Same(r)
  BY DEF Pop, Leave, Emptied, At, Goto, Alone, Same, OInv, IInv, Shapes,
         outside, caches, request, seen
<1>2. /\ pc'[r] \in Before => pc[r] \in Before
      /\ pc'[r] \notin Looking /\ pc[r] # "ready" /\ pc[r] # "done"
      /\ pc'[r] \in Working \/ result'[r] = "ok" => pc[r] \in Working \/ result[r] = "ok"
      /\ result'[r] = "denied" => result[r] = "denied"
  BY DEF Pop, Leave, Emptied, At, Goto, OInv, IInv, Shapes, Before, Looking, Working
<1>3. Order(r)'
  BY <1>1, <1>2, OrderMoves DEF OInv, Alone
<1> QED BY <1>1, <1>3, OrderAlone

LEMMA CleanupOrder ==
  ASSUME OInv, NEW r \in Requests, Cleanup(r)
  PROVE  \A x \in Requests : Order(x)'
<1>1. Alone(r) /\ Same(r)
  BY DEF Cleanup, At, Goto, Alone, Same, OInv, IInv, Shapes,
         outside, caches, request, seen
<1>2. /\ pc'[r] \in Before => pc[r] \in Before
      /\ pc'[r] \notin Looking /\ pc[r] # "ready" /\ pc[r] # "done"
      /\ pc'[r] \in Working \/ result'[r] = "ok" => pc[r] \in Working \/ result[r] = "ok"
      /\ result'[r] = "denied" => result[r] = "denied"
  BY DEF Cleanup, At, Goto, OInv, IInv, Shapes, Before, Looking, Working
<1>3. Order(r)'
  BY <1>1, <1>2, OrderMoves DEF OInv, Alone
<1> QED BY <1>1, <1>3, OrderAlone

LEMMA CachedOrder ==
  ASSUME OInv, NEW r \in Requests, Cached(r)
  PROVE  \A x \in Requests : Order(x)'
<1>1. Alone(r) /\ Same(r)
  BY DEF Cached, Leave, At, Goto, Alone, Same, OInv, IInv, Shapes,
         outside, caches, request, seen
<1>2. /\ pc'[r] \in Before => pc[r] \in Before
      /\ pc'[r] \notin Looking /\ pc[r] # "ready" /\ pc[r] # "done"
      /\ pc'[r] \in Working \/ result'[r] = "ok" => pc[r] \in Working \/ result[r] = "ok"
      /\ result'[r] = "denied" => result[r] = "denied"
  BY DEF Cached, Leave, At, Goto, OInv, IInv, Shapes, Before, Looking, Working
<1>3. Order(r)'
  BY <1>1, <1>2, OrderMoves DEF OInv, Alone
<1> QED BY <1>1, <1>3, OrderAlone

LEMMA FetchOrder ==
  ASSUME OInv, NEW r \in Requests, Fetch(r)
  PROVE  \A x \in Requests : Order(x)'
<1>1. Alone(r) /\ Same(r)
  BY DEF Fetch, Leave, At, Goto, Alone, Same, OInv, IInv, Shapes,
         outside, caches, request, seen
<1>2. /\ pc'[r] \in Before => pc[r] \in Before
      /\ pc'[r] \notin Looking /\ pc[r] # "ready" /\ pc[r] # "done"
      /\ pc'[r] \in Working \/ result'[r] = "ok" => pc[r] \in Working \/ result[r] = "ok"
      /\ result'[r] = "denied" => result[r] = "denied"
  BY DEF Fetch, Leave, At, Goto, OInv, IInv, Shapes, Before, Looking, Working
<1>3. Order(r)'
  BY <1>1, <1>2, OrderMoves DEF OInv, Alone
<1> QED BY <1>1, <1>3, OrderAlone

LEMMA KeepOrder ==
  ASSUME OInv, NEW r \in Requests, Keep(r)
  PROVE  \A x \in Requests : Order(x)'
<1>1. Alone(r) /\ Same(r)
  BY DEF Keep, Leave, At, Goto, Alone, Same, OInv, IInv, Shapes,
         outside, caches, request, seen
<1>2. /\ pc'[r] \in Before => pc[r] \in Before
      /\ pc'[r] \notin Looking /\ pc[r] # "ready" /\ pc[r] # "done"
      /\ pc'[r] \in Working \/ result'[r] = "ok" => pc[r] \in Working \/ result[r] = "ok"
      /\ result'[r] = "denied" => result[r] = "denied"
  BY DEF Keep, Leave, At, Goto, OInv, IInv, Shapes, Before, Looking, Working
<1>3. Order(r)'
  BY <1>1, <1>2, OrderMoves DEF OInv, Alone
<1> QED BY <1>1, <1>3, OrderAlone


LEMMA ArriveOrder ==
  ASSUME OInv, NEW r \in Requests, Arrive(r)
  PROVE  \A x \in Requests : Order(x)'
<1>1. Alone(r)
  BY DEF Arrive, At, Goto, Alone, Same, OInv, IInv, Shapes, caches
<1>2. /\ query' = query /\ todo' = todo /\ auth' = auth /\ result' = result /\ loaded' = loaded
      /\ manager' = manager /\ pc[r] = "ready" /\ pc'[r] \in {"stream", "resolve"}
      /\ missing'[r] = {t \in Targets : manager[t] = None}
  BY DEF Arrive, At, Goto, OInv, IInv, Shapes
<1>3. todo[r] = <<>> /\ auth[r] = None /\ result[r] = "none"
  BY <1>2 DEF OInv, Order, Before, IInv, Stages, Shapes
<1>4. Order(r)'
  BY <1>2, <1>3 DEF Order, Looks, Before, Looking, Working
<1> QED BY <1>1, <1>4, OrderAlone

LEMMA TriedAll ==
  ASSUME NEW names \in Seq(Targets), NEW lacked
  PROVE  Tried(names, names, lacked)
BY DEF Tried

LEMMA TriedNext ==
  ASSUME NEW names \in Seq(Targets), NEW list \in Seq(Targets), NEW lacked,
         Tried(names, list, lacked), list # <<>>, Head(list) \in lacked
  PROVE  Tried(names, Tail(list), lacked)
<1>1. /\ Len(list) \in Nat /\ Len(list) > 0 /\ Len(Tail(list)) = Len(list) - 1
      /\ Head(list) = list[1] /\ Len(names) \in Nat
      /\ \A k \in 1..(Len(list) - 1) : Tail(list)[k] = list[k + 1]
  OBVIOUS
<1> DEFINE n == Len(names) - Len(list)
           rest == Tail(list)
           m == Len(names) - Len(rest)
<1>2. n \in Nat /\ m = n + 1
  BY <1>1 DEF Tried
<1>3. ASSUME NEW k \in 1..Len(rest)
      PROVE  rest[k] = names[m + k]
  <2>1. k + 1 \in 1..Len(list) /\ k \in 1..(Len(list) - 1) /\ n + (k + 1) = m + k
    BY <1>1, <1>2
  <2>2. rest[k] = list[k + 1] /\ list[k + 1] = names[n + (k + 1)]
    BY <1>1, <2>1 DEF Tried
  <2> QED BY <2>1, <2>2
<1>4. ASSUME NEW k \in 1..m
      PROVE  names[k] \in lacked
  <2>1. CASE k = m
    <3>1. 1 \in 1..Len(list) /\ list[1] = names[n + 1]
      BY <1>1 DEF Tried
    <3> QED BY <1>1, <1>2, <2>1, <3>1
  <2>2. CASE k # m
    <3>1. k \in 1..n
      BY <1>2, <2>2
    <3> QED BY <3>1 DEF Tried
  <2> QED BY <2>1, <2>2
<1> QED BY <1>2, <1>3, <1>4 DEF Tried

(* The credentials are settled with c: what that makes of the order.       *)
LEMMA SettleMoves ==
  ASSUME OInv, NEW r \in Requests, NEW c, Settle(r, c), query' = query
  PROVE  /\ auth'[r] = c
         /\ Usable(c) => pc'[r] \in Working /\ result'[r] = result[r]
         /\ ~Usable(c) => pc'[r] \in {"cleanup", "done"} /\ result'[r] = "denied"
<1>1. query[r].op \in {"upload", "list", "stat"}
  BY QueryFields DEF OInv, IInv
<1>2. auth'[r] = c
  BY DEF Settle, OInv, IInv, Shapes
<1>3. CASE Usable(c)
  <2>1. pc'[r] = AfterAuth(r) /\ result' = result
    BY <1>3 DEF Settle, Goto, OInv, IInv, Shapes
  <2> QED BY <1>1, <1>2, <1>3, <2>1 DEF AfterAuth, Working
<1>4. CASE ~Usable(c)
  <2>1. pc'[r] \in {"cleanup", "done"} /\ result'[r] = "denied"
    BY <1>4 DEF Settle, Leave, Goto, OInv, IInv, Shapes
  <2> QED BY <1>2, <1>4, <2>1
<1> QED BY <1>3, <1>4

LEMMA SettleAlone ==
  ASSUME OInv, NEW r \in Requests, NEW c, Settle(r, c)
  PROVE  \A x \in Requests \ {r} : auth'[x] = auth[x] /\ pc'[x] = pc[x] /\ result'[x] = result[x]
BY DEF Settle, Leave, Goto, OInv, IInv, Shapes

LEMMA ResolveOrder ==
  ASSUME OInv, NEW r \in Requests, Resolve(r)
  PROVE  \A x \in Requests : Order(x)'
<1> DEFINE q == query[r]
           names == Candidates(q)
<1>1. /\ query' = query /\ loaded' = loaded /\ manager' = manager /\ held' = held
      /\ missing' = missing /\ pc[r] = "resolve"
  BY DEF Resolve, At, outside
<1>2. todo[r] = <<>> /\ auth[r] = None /\ result[r] = "none"
      /\ \A t \in Targets : manager[t] = None => t \in missing[r]
  BY <1>1 DEF OInv, Order, Before, IInv, Stages, Shapes
<1>3. names \in Seq(Targets)
  BY QueryParts DEF OInv, IInv
<1>4. CASE ~Looks(r)
  <2>1. Settle(r, q.inline) /\ todo' = todo
    BY <1>4 DEF Resolve, Looks
  <2>2. Alone(r)
    BY <1>1, <2>1, SettleAlone DEF Alone, Same
  <2>3. /\ auth'[r] = q.inline
        /\ \/ pc'[r] \in Working /\ result'[r] = "none" /\ Usable(q.inline)
           \/ pc'[r] \in {"cleanup", "done"} /\ result'[r] = "denied"
    BY <1>1, <1>2, <2>1, SettleMoves
  <2>4. ~Looks(r)'
    BY <1>1, <1>4 DEF Looks
  <2>5. Order(r)'
    BY <1>1, <1>2, <2>1, <2>3, <2>4 DEF Order, Before, Looking, Working
  <2> QED BY <2>2, <2>5, OrderAlone
<1>5. CASE Looks(r)
  <2>1. /\ todo' = [todo EXCEPT ![r] = names] /\ Goto(r, "lookup")
        /\ UNCHANGED <<auth, loop, result>> /\ names # <<>>
    BY <1>5 DEF Resolve, Looks
  <2>2. todo'[r] = names /\ pc'[r] = "lookup"
    BY <2>1 DEF Goto, OInv, IInv, Shapes
  <2>3. Alone(r)
    BY <1>1, <2>1 DEF Alone, Same, Goto, OInv, IInv, Shapes
  <2>4. Looks(r)'
    BY <1>1, <1>5 DEF Looks
  <2>5. Tried(names, names, missing[r])
    BY <1>3, TriedAll
  <2>6. Order(r)'
    BY <1>1, <1>2, <2>1, <2>2, <2>4, <2>5 DEF Order, Before, Looking, Working
  <2> QED BY <2>3, <2>6, OrderAlone
<1> QED BY <1>4, <1>5

(* The credential c was looked up under the first name not passed over.    *)
LEMMA SettleOrder ==
  ASSUME OInv, NEW r \in Requests, NEW c \in Users, Settle(r, c), pc[r] \in {"lookup", "store"},
         c \in held[Head(todo[r])],
         UNCHANGED <<query, todo, manager, held, missing>>
  PROVE  Order(r)'
<1>1. Looks(r) /\ todo[r] # <<>> /\ result[r] = "none" /\ c # None
      /\ Tried(Candidates(query[r]), todo[r], missing[r])
      /\ \A t \in Targets : manager[t] = None => t \in missing[r]
  BY UploadBasics DEF OInv, Order, Looking, IInv, Stages, Shapes
<1>2. /\ auth'[r] = c
      /\ Usable(c) => pc'[r] \in Working /\ result'[r] = result[r]
      /\ ~Usable(c) => pc'[r] \in {"cleanup", "done"} /\ result'[r] = "denied"
  BY SettleMoves
<1>3. ~Usable(c) => c \in Secretless
  BY <1>1 DEF Usable
<1>4. Looks(r)'
  BY <1>1 DEF Looks
<1>5. CASE Usable(c)
  BY <1>1, <1>2, <1>4, <1>5 DEF Order, Before, Looking, Working
<1>6. CASE ~Usable(c)
  BY <1>1, <1>2, <1>3, <1>4, <1>6 DEF Order, Before, Looking, Working
<1> QED BY <1>5, <1>6

LEMMA LookupOrder ==
  ASSUME OInv, NEW r \in Requests, Lookup(r)
  PROVE  \A x \in Requests : Order(x)'
<1> DEFINE t == Head(todo[r])
           c == credCache[t]
<1>1. /\ query' = query /\ loaded' = loaded /\ manager' = manager /\ held' = held
      /\ missing' = missing /\ todo' = todo /\ pc[r] = "lookup"
  BY DEF Lookup, At, outside
<1>2. todo[r] # <<>> /\ todo[r] \in Seq(Targets) /\ t \in Targets
  BY <1>1 DEF OInv, Typed, Order, Looking
<1>3. CASE c # None
  <2>1. Settle(r, c)
    BY <1>3 DEF Lookup
  <2>2. c \in held[t] /\ c \in Users
    BY <1>2, <1>3 DEF OInv, IInv, CachedWasHeld, Typed
  <2>3. Alone(r)
    BY <1>1, <2>1, SettleAlone DEF Alone, Same
  <2> HIDE DEF c
  <2>4. Order(r)'
    BY <1>1, <2>1, <2>2, SettleOrder
  <2> QED BY <2>3, <2>4, OrderAlone
<1>4. CASE c = None
  <2>1. Goto(r, "load") /\ UNCHANGED <<auth, loop, result>>
    BY <1>4 DEF Lookup
  <2>2. pc'[r] = "load" /\ Alone(r) /\ Same(r) /\ result' = result
    BY <1>1, <2>1 DEF Goto, Alone, Same, OInv, IInv, Shapes
  <2>3. Order(r)'
    BY <1>1, <2>2 DEF OInv, Order, Same, Looks, Before, Looking, Working
  <2> QED BY <2>2, <2>3, OrderAlone
<1> QED BY <1>3, <1>4

LEMMA StoreOrder ==
  ASSUME OInv, NEW r \in Requests, Store(r)
  PROVE  \A x \in Requests : Order(x)'
<1> DEFINE c == loaded[r]
<1>1. /\ query' = query /\ manager' = manager /\ held' = held
      /\ missing' = missing /\ todo' = todo /\ pc[r] = "store" /\ Settle(r, c)
      /\ loaded' = [loaded EXCEPT ![r] = None]
  BY DEF Store, At, outside
<1>2. todo[r] # <<>> /\ Head(todo[r]) \in Targets /\ c \in Users
  BY <1>1 DEF OInv, Typed, Order, Looking
<1>3. c \in held[Head(todo[r])]
  BY <1>1, <1>2 DEF OInv, IInv, Carries
<1>4. Alone(r)
  BY <1>1, SettleAlone DEF Alone, Same, OInv, IInv, Shapes
<1> HIDE DEF c
<1>5. Order(r)'
  BY <1>1, <1>2, <1>3, SettleOrder
<1> QED BY <1>4, <1>5, OrderAlone

LEMMA LoadOrder ==
  ASSUME OInv, NEW r \in Requests, Load(r)
  PROVE  \A x \in Requests : Order(x)'
<1> DEFINE t == Head(todo[r])
           c == manager[t]
           names == Candidates(query[r])
           rest == Tail(todo[r])
<1>1. /\ query' = query /\ manager' = manager /\ held' = held /\ auth' = auth
      /\ missing' = missing /\ pc[r] = "load"
  BY DEF Load, At, outside
<1>2. /\ todo[r] # <<>> /\ todo[r] \in Seq(Targets) /\ t \in Targets /\ names \in Seq(Targets)
      /\ c \in Users \cup {None}
  BY <1>1, QueryParts DEF OInv, IInv, Typed, Order, Looking
<1>3. /\ Looks(r) /\ auth[r] = None /\ result[r] = "none" /\ Tried(names, todo[r], missing[r])
      /\ \A x \in Targets : manager[x] = None => x \in missing[r]
  BY <1>1, <1>2 DEF OInv, Order, Looking, IInv, Stages, Shapes
<1>4. Looks(r)'
  BY <1>1, <1>3 DEF Looks
<1>5. CASE c # None
  <2>1. /\ loaded' = [loaded EXCEPT ![r] = c] /\ Goto(r, "store")
        /\ UNCHANGED <<todo, loop, result>>
    BY <1>5 DEF Load, ReadEntry
  <2>2. loaded'[r] = c /\ pc'[r] = "store" /\ Alone(r)
    BY <1>1, <2>1 DEF Goto, Alone, Same, OInv, IInv, Shapes
  <2>3. Order(r)'
    BY <1>1, <1>2, <1>3, <1>4, <1>5, <2>1, <2>2 DEF Order, Before, Looking, Working
  <2> QED BY <2>2, <2>3, OrderAlone
<1>6. CASE c = None
  <2>1. /\ todo' = [todo EXCEPT ![r] = rest] /\ loaded' = loaded
        /\ IF rest = <<>> THEN Leave(r, "denied")
                          ELSE Goto(r, "lookup") /\ UNCHANGED <<loop, result>>
    BY <1>6 DEF Load, ReadEntry, Rest
  <2>2. todo'[r] = rest /\ Alone(r)
    BY <1>1, <2>1 DEF Goto, Leave, Alone, Same, OInv, IInv, Shapes
  <2>3. Tried(names, rest, missing[r])
    BY <1>2, <1>3, <1>6, TriedNext
  <2>4. CASE rest = <<>>
    <3>1. pc'[r] \in {"cleanup", "done"} /\ result'[r] = "denied"
      BY <2>1, <2>4 DEF Leave, Goto, OInv, IInv, Shapes
    <3> QED BY <1>1, <1>3, <1>4, <2>2, <2>3, <2>4, <3>1, OrderAlone
            DEF Order, Before, Looking, Working
  <2>5. CASE rest # <<>>
    <3>1. pc'[r] = "lookup" /\ result' = result
      BY <2>1, <2>5 DEF Goto, OInv, IInv, Shapes
    <3> QED BY <1>1, <1>3, <1>4, <2>2, <2>3, <2>5, <3>1, OrderAlone
            DEF Order, Before, Looking, Working
  <2> QED BY <2>4, <2>5
<1> QED BY <1>5, <1>6

LEMMA OthersUploadOrder ==
  ASSUME OInv, OthersUpload
  PROVE  \A x \in Requests : Order(x)'
<1> SUFFICES ASSUME NEW x \in Requests PROVE Order(x)'
  OBVIOUS
<1> QED BY OrderSame DEF OthersUpload, OInv, Same, request

LEMMA ManagerChangesOrder ==
  ASSUME OInv, ManagerChanges
  PROVE  \A x \in Requests : Order(x)'
<1>1. PICK t \in Targets, c \in Users \cup {None} :
        /\ manager' = [manager EXCEPT ![t] = c]
        /\ held' = [held EXCEPT ![t] = @ \cup ({c} \ {None})]
        /\ missing' = IF c # None THEN missing ELSE [r \in Requests |-> missing[r] \cup {t}]
  BY DEF ManagerChanges
<1>2. UNCHANGED <<query, todo, auth, loaded, result, pc>>
  BY DEF ManagerChanges, request
<1> SUFFICES ASSUME NEW x \in Requests PROVE Order(x)'
  OBVIOUS
<1>3. missing[x] \subseteq missing'[x]
  BY <1>1 DEF OInv, IInv, Shapes
<1>4. \A k \in Targets : held[k] \subseteq held'[k]
  BY <1>1 DEF OInv, IInv, Shapes
<1>5. \A k \in Targets : manager'[k] = None => manager[k] = None \/ k \in missing'[x]
  BY <1>1 DEF OInv, IInv, Shapes
<1>6. Tried(Candidates(query[x]), todo[x], missing[x]) =>
        Tried(Candidates(query[x]), todo[x], missing'[x])
  BY <1>3 DEF Tried
<1>7. todo[x] # <<>> => Head(todo[x]) \in Targets
  BY DEF OInv, Typed
<1>8. Looks(x)' <=> Looks(x)
  BY <1>2 DEF Looks
<1>9. Order(x)
  BY DEF OInv
<1> QED BY <1>2, <1>3, <1>4, <1>5, <1>6, <1>7, <1>8, <1>9 DEF Order

LEMMA RestartOrder ==
  ASSUME OInv, Restart
  PROVE  \A x \in Requests : Order(x)'
<1> SUFFICES ASSUME NEW x \in Requests PROVE Order(x)'
  OBVIOUS
<1>1. /\ UNCHANGED <<manager, missing, query, todo, auth>>
      /\ \/ pc[x] \in {"ready", "done"} /\ pc'[x] = pc[x] /\ result'[x] = result[x]
         \/ pc[x] \notin {"ready", "done"} /\ pc'[x] = "done" /\ result'[x] = "none"
  BY DEF Restart
<1>2. Looks(x)' <=> Looks(x)
  BY <1>1 DEF Looks
<1>3. Order(x)
  BY DEF OInv
<1> QED BY <1>1, <1>2, <1>3 DEF Order, Before, Looking, Working

(* Who keeps the event loop after a step of r.                             *)
LoopKept == /\ loop' \in Requests \cup {None}
            /\ loop' \in Requests => IsUpload(loop)' /\ pc'[loop'] \in Sync

LEMMA LoopStays ==
  ASSUME OInv, NEW r \in Requests, query' = query, loop' \in {loop, None},
         \A x \in Requests \ {r} : pc'[x] = pc[x],
         loop' = r => pc'[r] \in Sync
  PROVE  LoopKept
<1>1. loop \in Requests \cup {None} /\ (loop \in Requests => IsUpload(loop) /\ pc[loop] \in Sync)
  BY DEF OInv, Typed
<1>2. None \notin Requests
  BY UploadBasics
<1> QED BY <1>1, <1>2 DEF LoopKept, IsUpload

LEMMA LeaveLoop ==
  ASSUME OInv, NEW r \in Requests, NEW res, Leave(r, res), query' = query
  PROVE  LoopKept
<1>1. \A x \in Requests \ {r} : pc'[x] = pc[x]
  BY DEF Leave, Goto, OInv, IInv, Shapes
<1>2. loop' \in {loop, None} /\ loop' # r
  BY UploadBasics DEF Leave
<1> QED BY <1>1, <1>2, LoopStays

LEMMA GotoLoop ==
  ASSUME OInv, NEW r \in Requests, NEW l, Goto(r, l), loop' = loop, query' = query,
         l \in Sync \/ pc[r] \notin Sync \/ ~IsUpload(r)
  PROVE  LoopKept
<1>1. pc' = [pc EXCEPT ![r] = l] /\ pc \in [Requests -> PCs]
  BY DEF Goto, OInv, IInv, Shapes
<1>2. loop = r => pc[r] \in Sync /\ IsUpload(r)
  BY DEF OInv, Typed
<1>3. loop' = r => pc'[r] \in Sync
  BY <1>1, <1>2
<1>4. \A x \in Requests \ {r} : pc'[x] = pc[x]
  BY <1>1
<1> QED BY <1>3, <1>4, LoopStays

LEMMA FindTyped ==
  ASSUME OInv, NEW r \in Requests, Find(r)
  PROVE  Typed'
<1>1. UNCHANGED <<version, manager, changes, held, missing, credCache, verCache, auth,
                loaded, todo, uploaded, label, query>>
  BY DEF Find, outside, caches, request
<1>2. LoopKept
  <2>1. (\E res \in {"ok", "failed"} : Leave(r, res)) \/ (Goto(r, "put") /\ loop' = loop)
    BY DEF Find
  <2>2. pc[r] = "find"
    BY DEF Find, At
  <2> QED BY <1>1, <2>1, <2>2, LeaveLoop, GotoLoop DEF Sync
<1> QED BY <1>1, <1>2 DEF OInv, Typed, LoopKept

LEMMA CleanupTyped ==
  ASSUME OInv, NEW r \in Requests, Cleanup(r)
  PROVE  Typed'
<1>1. UNCHANGED <<version, manager, changes, held, missing, credCache, verCache, auth,
                loaded, todo, uploaded, label, query>>
  BY DEF Cleanup, outside, caches, request
<1>2. LoopKept
  <2>1. Goto(r, "done") /\ loop' = loop /\ pc[r] = "cleanup"
    BY DEF Cleanup, At
  <2> QED BY <1>1, <2>1, GotoLoop DEF Sync
<1> QED BY <1>1, <1>2 DEF OInv, Typed, LoopKept

LEMMA KeepTyped ==
  ASSUME OInv, NEW r \in Requests, Keep(r)
  PROVE  Typed'
<1>1. UNCHANGED <<version, manager, changes, held, missing, credCache, auth, loaded,
                todo, uploaded, label, query>>
  BY DEF Keep, outside, caches, request
<1>2. verCache' \in 0..MaxVersion
  BY DEF Keep, OInv, Typed
<1>3. LoopKept
  BY <1>1, LeaveLoop DEF Keep
<1> QED BY <1>1, <1>2, <1>3 DEF OInv, Typed, LoopKept

LEMMA PopTyped ==
  ASSUME OInv, NEW r \in Requests, Pop(r)
  PROVE  Typed'
<1>1. UNCHANGED <<version, manager, changes, held, missing, credCache, auth, loaded,
                todo, uploaded, label, query>>
  BY DEF Pop, outside, caches, request
<1>2. verCache' \in 0..MaxVersion
  BY UploadBasics DEF Pop, Emptied
<1>3. LoopKept
  BY <1>1, LeaveLoop DEF Pop
<1> QED BY <1>1, <1>2, <1>3 DEF OInv, Typed, LoopKept

LEMMA FetchTyped ==
  ASSUME OInv, NEW r \in Requests, Fetch(r)
  PROVE  Typed'
<1>1. UNCHANGED <<version, manager, changes, held, missing, credCache, verCache, auth,
                loaded, todo, uploaded, query>>
  BY DEF Fetch, outside, caches, request
<1>2. label' \in [Requests -> 0..MaxVersion]
  <2>1. label \in [Requests -> 0..MaxVersion] /\ version \in 0..MaxVersion
    BY DEF OInv, Typed
  <2>2. label' = label \/ label' = [label EXCEPT ![r] = version]
    BY DEF Fetch
  <2> QED BY <2>1, <2>2
<1>3. LoopKept
  <2>1. (\E res \in {"ok", "failed"} : Leave(r, res)) \/ (Goto(r, "keep") /\ loop' = loop)
    BY DEF Fetch
  <2>2. pc[r] = "fetch"
    BY DEF Fetch, At
  <2> QED BY <1>1, <2>1, <2>2, LeaveLoop, GotoLoop DEF Sync
<1> QED BY <1>1, <1>2, <1>3 DEF OInv, Typed, LoopKept

LEMMA CachedTyped ==
  ASSUME OInv, NEW r \in Requests, Cached(r)
  PROVE  Typed'
<1>1. UNCHANGED <<version, manager, changes, held, missing, credCache, verCache, auth,
                loaded, todo, uploaded, query>>
  BY DEF Cached, outside, caches, request
<1>2. label' \in [Requests -> 0..MaxVersion]
  <2>1. label \in [Requests -> 0..MaxVersion] /\ verCache \in 0..MaxVersion
    BY DEF OInv, Typed
  <2>2. label' = label \/ label' = [label EXCEPT ![r] = verCache]
    BY DEF Cached
  <2> QED BY <2>1, <2>2
<1>3. LoopKept
  <2>1. (\E res \in {"ok", "failed"} : Leave(r, res)) \/ (Goto(r, "fetch") /\ loop' = loop)
    BY DEF Cached
  <2>2. pc[r] = "cached"
    BY DEF Cached, At
  <2> QED BY <1>1, <2>1, <2>2, LeaveLoop, GotoLoop DEF Sync
<1> QED BY <1>1, <1>2, <1>3 DEF OInv, Typed, LoopKept

LEMMA PutTyped ==
  ASSUME OInv, NEW r \in Requests, Put(r)
  PROVE  Typed'
<1>1. UNCHANGED <<manager, changes, held, missing, credCache, verCache, auth, loaded,
                todo, uploaded, query>>
  BY DEF Put, outside, caches, request
<1>2. version' \in 1..MaxVersion /\ label' \in [Requests -> 0..MaxVersion]
  <2>1. version \in 1..MaxVersion /\ label \in [Requests -> 0..MaxVersion] /\ MaxVersion \in Nat
    BY UploadBasics DEF OInv, Typed
  <2>2. \/ UNCHANGED <<version, label>>
        \/ /\ version < MaxVersion /\ version' = version + 1
           /\ label' = label \/ label' = [label EXCEPT ![r] = version + 1]
    BY DEF Put
  <2> QED BY <2>1, <2>2
<1>3. LoopKept
  <2>1. (\E res \in {"ok", "failed"} : Leave(r, res)) \/ (Goto(r, "pop") /\ loop' = loop)
    BY DEF Put
  <2>2. pc[r] = "put"
    BY DEF Put, At
  <2> QED BY <1>1, <2>1, <2>2, LeaveLoop, GotoLoop DEF Sync
<1> QED BY <1>1, <1>2, <1>3 DEF OInv, Typed, LoopKept

LEMMA ReadChunkTyped ==
  ASSUME OInv, NEW r \in Requests, ReadChunk(r)
  PROVE  Typed'
<1>1. UNCHANGED <<version, manager, changes, held, missing, credCache, verCache, auth,
                loaded, todo, label, query>>
  BY DEF ReadChunk, outside, caches, request
<1>2. uploaded' \in [Requests -> 0..RawMax]
  <2> DEFINE n == Smaller(Chunk, query[r].size - uploaded[r])
  <2>1. \/ uploaded' = uploaded
        \/ /\ uploaded' = [uploaded EXCEPT ![r] = @ + n]
           /\ ~TooLarge(uploaded[r] + n) /\ n > 0
    BY DEF ReadChunk
  <2>2. /\ uploaded \in [Requests -> 0..RawMax] /\ query[r].size \in Nat
        /\ Chunk \in Nat /\ RawMax \in Nat
    BY QueryFields, UploadBasics DEF OInv, IInv, Typed
  <2>3. n \in Int
    BY <2>2 DEF Smaller
  <2> HIDE DEF n
  <2> QED BY <2>1, <2>2, <2>3 DEF TooLarge
<1>3. LoopKept
  <2>1. CASE Leave(r, "too_large") \/ Leave(r, "failed")
    BY <1>1, <2>1, LeaveLoop
  <2>2. CASE Stay
    BY <1>1, <2>2 DEF Stay, LoopKept, OInv, Typed, IsUpload
  <2> QED BY <2>1, <2>2 DEF ReadChunk
<1> QED BY <1>1, <1>2, <1>3 DEF OInv, Typed, LoopKept

LEMMA ArriveTyped ==
  ASSUME OInv, NEW r \in Requests, Arrive(r)
  PROVE  Typed'
<1>1. UNCHANGED <<version, manager, changes, held, credCache, verCache, auth, loaded, todo,
                  uploaded, label, query>>
  BY DEF Arrive, caches
<1>2. missing' \in [Requests -> SUBSET Targets]
  BY DEF Arrive, OInv, Typed
<1>3. LoopKept
  <2>1. pc[r] = "ready" /\ loop' = loop /\ \E l \in PCs : Goto(r, l)
    BY DEF Arrive, At, PCs
  <2> QED BY <1>1, <2>1, GotoLoop DEF Sync
<1> QED BY <1>1, <1>2, <1>3 DEF OInv, Typed, LoopKept

LEMMA EndOfFileTyped ==
  ASSUME OInv, NEW r \in Requests, EndOfFile(r)
  PROVE  Typed'
<1>1. UNCHANGED <<version, manager, changes, held, missing, credCache, verCache, auth, loaded,
                  todo, uploaded, label, query>>
  BY DEF EndOfFile, outside, caches, request
<1>2. loop' = r /\ pc'[r] = "resolve" /\ IsUpload(r)
  BY DEF EndOfFile, At, Goto, OInv, IInv, Shapes, Stages
<1>3. LoopKept
  BY <1>1, <1>2 DEF LoopKept, IsUpload, Sync
<1> QED BY <1>1, <1>3 DEF OInv, Typed, LoopKept

(* The settled credentials and the place of a request.                     *)
LEMMA SettleTyped ==
  ASSUME OInv, NEW r \in Requests, NEW c \in Users \cup {None}, Settle(r, c), query' = query,
         pc[r] \in {"resolve", "lookup", "store"}
  PROVE  /\ auth' \in [Requests -> Users \cup {None}]
         /\ loop' \in Requests \cup {None}
         /\ loop' \in Requests => IsUpload(loop)' /\ pc'[loop'] \in Sync
<1>1. auth \in [Requests -> Users \cup {None}] /\ auth' = [auth EXCEPT ![r] = c]
  BY DEF Settle, OInv, Typed
<1>2. /\ \A x \in Requests : x # r => pc'[x] = pc[x]
      /\ loop' \in {loop, None}
      /\ loop' = r => pc'[r] = AfterAuth(r)
  BY UploadBasics DEF Settle, Leave, Goto, OInv, IInv, Shapes
<1>3. loop \in Requests \cup {None} /\ (loop \in Requests => IsUpload(loop) /\ pc[loop] \in Sync)
  BY DEF OInv, Typed
<1>4. loop' = r => loop' = loop /\ IsUpload(r) /\ AfterAuth(r) = "find"
  BY <1>2, <1>3, UploadBasics DEF AfterAuth, IsUpload
<1>5. None \notin Requests
  BY UploadBasics
<1> QED BY <1>1, <1>2, <1>3, <1>4, <1>5 DEF IsUpload, Sync

LEMMA ResolveTyped ==
  ASSUME OInv, NEW r \in Requests, Resolve(r)
  PROVE  Typed'
<1>1. /\ UNCHANGED <<version, manager, changes, held, missing, credCache, verCache, query, loaded,
                      uploaded, label>>
      /\ pc[r] = "resolve"
  BY DEF Resolve, At, outside, caches
<1>2. query[r].inline \in Users \cup {None} /\ Candidates(query[r]) \in Seq(Targets)
  BY QueryParts DEF OInv, IInv
<1>3. CASE Settle(r, query[r].inline) /\ todo' = todo
  <2>1. /\ auth' \in [Requests -> Users \cup {None}]
        /\ loop' \in Requests \cup {None}
        /\ loop' \in Requests => IsUpload(loop)' /\ pc'[loop'] \in Sync
    BY <1>1, <1>2, <1>3, SettleTyped
  <2> QED BY <1>1, <1>3, <2>1 DEF OInv, Typed
<1>4. CASE /\ todo' = [todo EXCEPT ![r] = Candidates(query[r])]
           /\ Goto(r, "lookup") /\ UNCHANGED <<auth, loop, result>>
  <2>1. todo' \in [Requests -> Seq(Targets)]
    BY <1>2, <1>4 DEF OInv, Typed
  <2>2. loop' \in Requests => IsUpload(loop)' /\ pc'[loop'] \in Sync
    BY <1>1, <1>4 DEF OInv, Typed, IInv, Shapes, Goto, IsUpload, Sync
  <2> QED BY <1>1, <1>4, <2>1, <2>2 DEF OInv, Typed
<1> QED BY <1>3, <1>4 DEF Resolve

LEMMA LookupTyped ==
  ASSUME OInv, NEW r \in Requests, Lookup(r)
  PROVE  Typed'
<1> DEFINE c == credCache[Head(todo[r])]
<1>1. /\ UNCHANGED <<version, manager, changes, held, missing, credCache, verCache, query, todo,
                      loaded, uploaded, label>>
      /\ pc[r] = "lookup"
  BY DEF Lookup, At, outside, caches
<1>2. todo[r] # <<>> /\ todo[r] \in Seq(Targets)
  BY <1>1 DEF OInv, Order, Looking, Typed
<1>3. c \in Users \cup {None}
  BY <1>2 DEF OInv, Typed
<1>4. /\ auth' \in [Requests -> Users \cup {None}]
      /\ loop' \in Requests \cup {None}
      /\ loop' \in Requests => IsUpload(loop)' /\ pc'[loop'] \in Sync
  <2>1. CASE Settle(r, c)
    <3> HIDE DEF c
    <3> QED BY <1>1, <1>3, <2>1, SettleTyped
  <2>2. CASE Goto(r, "load") /\ UNCHANGED <<auth, loop, result>>
    BY <1>1, <2>2 DEF OInv, Typed, IInv, Shapes, Goto, IsUpload, Sync
  <2> QED BY <2>1, <2>2 DEF Lookup
<1> QED BY <1>1, <1>4 DEF OInv, Typed

LEMMA StoreTyped ==
  ASSUME OInv, NEW r \in Requests, Store(r)
  PROVE  Typed'
<1> DEFINE c == loaded[r]
           t == Head(todo[r])
<1>1. /\ UNCHANGED <<version, manager, changes, held, missing, verCache>>
      /\ UNCHANGED <<query, todo, uploaded, label>>
      /\ pc[r] = "store" /\ Settle(r, c) /\ loaded' = [loaded EXCEPT ![r] = None]
      /\ credCache' = [credCache EXCEPT ![t] = c]
  BY DEF Store, StoreAs, At, outside
<1>2. c \in Users
  BY <1>1 DEF OInv, Order
<1>4. loaded' \in [Requests -> Users \cup {None}] /\ credCache' \in [Targets -> Users \cup {None}]
  BY <1>1, <1>2 DEF OInv, Typed
<1>3. /\ auth' \in [Requests -> Users \cup {None}]
      /\ loop' \in Requests \cup {None}
      /\ loop' \in Requests => IsUpload(loop)' /\ pc'[loop'] \in Sync
  <2> HIDE DEF c
  <2> QED BY <1>1, <1>2, SettleTyped
<1> QED BY <1>1, <1>3, <1>4 DEF OInv, Typed

LEMMA LoadTyped ==
  ASSUME OInv, NEW r \in Requests, Load(r)
  PROVE  Typed'
<1> DEFINE c == manager[Head(todo[r])]
           rest == Tail(todo[r])
<1>1. /\ UNCHANGED <<version, manager, changes, held, missing, credCache, verCache, query, auth,
                      uploaded, label>>
      /\ pc[r] = "load"
  BY DEF Load, At, outside, caches
<1>2. todo[r] # <<>> /\ todo[r] \in Seq(Targets)
  BY <1>1 DEF OInv, Order, Looking, Typed
<1>3. c \in Users \cup {None} /\ rest \in Seq(Targets)
  BY <1>2 DEF OInv, Typed
<1>4. /\ loaded' = loaded \/ loaded' = [loaded EXCEPT ![r] = c]
      /\ todo' = todo \/ todo' = [todo EXCEPT ![r] = rest]
  BY DEF Load, ReadEntry, Rest
<1>5. loaded' \in [Requests -> Users \cup {None}] /\ todo' \in [Requests -> Seq(Targets)]
  BY <1>3, <1>4 DEF OInv, Typed
<1>6. /\ loop' \in {loop, None}
      /\ \A x \in Requests : x # r => pc'[x] = pc[x]
      /\ loop' = r => pc'[r] \in {"store", "lookup"}
  BY UploadBasics DEF Load, Leave, Goto, OInv, IInv, Shapes
<1>7. /\ loop' \in Requests \cup {None}
      /\ loop' \in Requests => IsUpload(loop)' /\ pc'[loop'] \in Sync
  BY <1>1, <1>6, UploadBasics DEF OInv, Typed, IsUpload, Sync
<1> QED BY <1>1, <1>5, <1>7 DEF OInv, Typed

LEMMA AroundTyped ==
  ASSUME OInv, OthersUpload \/ ManagerChanges \/ Restart
  PROVE  Typed'
<1> USE UploadBasics DEF OInv, Typed
<1>1. CASE OthersUpload
  BY <1>1 DEF OthersUpload, caches, request, IsUpload
<1>2. CASE ManagerChanges
  <2>1. UNCHANGED <<version, caches, request, loop, pc>> /\ changes' \in 0..MaxChanges
    BY <1>2 DEF ManagerChanges
  <2>2. PICK t \in Targets, c \in Users \cup {None} :
          /\ manager' = [manager EXCEPT ![t] = c]
          /\ held' = [held EXCEPT ![t] = @ \cup ({c} \ {None})]
          /\ missing' = IF c # None THEN missing ELSE [r \in Requests |-> missing[r] \cup {t}]
    BY <1>2 DEF ManagerChanges
  <2>3. /\ manager' \in [Targets -> Users \cup {None}]
        /\ held' \in [Targets -> SUBSET Users]
        /\ missing' \in [Requests -> SUBSET Targets]
    BY <2>2
  <2> QED BY <2>1, <2>3 DEF caches, request, IsUpload
<1>3. CASE Restart
  <2>1. UNCHANGED <<version, manager, missing, query, todo, auth, uploaded, label>>
    BY <1>3 DEF Restart
  <2>2. /\ changes' \in 0..MaxChanges /\ verCache' = 0 /\ loop' = None
        /\ credCache' = [t \in Targets |-> None]
        /\ held' = [t \in Targets |-> {manager[t]} \ {None}]
        /\ loaded' = [r \in Requests |-> None]
    BY <1>3 DEF Restart
  <2>3. held' \in [Targets -> SUBSET Users] /\ 0 \in 0..MaxVersion
    BY <2>2
  <2> QED BY <2>1, <2>2, <2>3
<1> QED BY <1>1, <1>2, <1>3

LEMMA NextOInv ==
  ASSUME OInv, [Next]_vars
  PROVE  OInv'
<1>0. IInv /\ IInv'
  BY UploadStep DEF OInv
<1>1. ASSUME NEW r \in Requests, Step(r)
      PROVE  Typed' /\ \A x \in Requests : Order(x)'
  <2>1. CASE Arrive(r) \/ ReadChunk(r) \/ EndOfFile(r) \/ Resolve(r) \/ Lookup(r)
             \/ Load(r) \/ Store(r)
    BY <2>1, ArriveTyped, ArriveOrder, ReadChunkTyped, ReadChunkOrder, EndOfFileTyped,
       EndOfFileOrder, ResolveTyped, ResolveOrder, LookupTyped, LookupOrder,
       LoadTyped, LoadOrder, StoreTyped, StoreOrder
  <2>2. CASE Find(r) \/ Put(r) \/ Pop(r) \/ Cleanup(r) \/ Cached(r) \/ Fetch(r) \/ Keep(r)
    BY <2>2, FindTyped, FindOrder, PutTyped, PutOrder, PopTyped, PopOrder, CleanupTyped,
       CleanupOrder, CachedTyped, CachedOrder, FetchTyped, FetchOrder, KeepTyped, KeepOrder
  <2> QED BY <1>1, <2>1, <2>2 DEF Step
<1>2. CASE OthersUpload \/ ManagerChanges \/ Restart
  <2>1. Typed'
    BY <1>2, AroundTyped
  <2>2. \A x \in Requests : Order(x)'
    BY <1>2, OthersUploadOrder, ManagerChangesOrder, RestartOrder
  <2> QED BY <1>0, <2>1, <2>2 DEF OInv
<1>3. CASE UNCHANGED vars
  <2>1. UNCHANGED <<version, verCache, changes, manager, credCache, auth, loaded, todo, uploaded,
                    label, held, missing, loop, query, pc, result>>
    BY <1>3 DEF vars, outside, caches, request
  <2>2. Typed'
    BY <2>1 DEF OInv, Typed, IsUpload
  <2>3. \A x \in Requests : Order(x)'
    BY <2>1 DEF OInv, Order, Looks
  <2> QED BY <1>0, <2>2, <2>3 DEF OInv
<1> QED BY <1>0, <1>1, <1>2, <1>3 DEF Next, OInv

LEMMA InitOInv == Init => OInv
<1> SUFFICES ASSUME Init PROVE OInv
  OBVIOUS
<1> USE UploadBasics DEF Init
<1>1. Typed
  <2>1. /\ version \in 1..MaxVersion /\ verCache \in 0..MaxVersion /\ changes \in 0..MaxChanges
        /\ uploaded \in [Requests -> 0..RawMax] /\ label \in [Requests -> 0..MaxVersion]
    OBVIOUS
  <2>2. /\ held \in [Targets -> SUBSET Users] /\ missing \in [Requests -> SUBSET Targets]
        /\ todo \in [Requests -> Seq(Targets)]
    <3> DEFINE e == <<>>
    <3>1. e \in Seq(Targets) /\ todo = [r \in Requests |-> e]
      OBVIOUS
    <3> HIDE DEF e
    <3> QED BY <3>1
  <2> QED BY <2>1, <2>2 DEF Typed
<1>2. ASSUME NEW r \in Requests PROVE Order(r)
  <2>1. pc[r] = "ready" /\ todo[r] = <<>> /\ auth[r] = None /\ result[r] = "none"
    OBVIOUS
  <2> QED BY <2>1 DEF Order, Looking, Working
<1> QED BY <1>1, <1>2, InitIInv DEF OInv

(* What was looked up, and what comes of it, in every reachable state.     *)
THEOREM OrderStays == Spec => []OInv
<1>1. OInv /\ [Next]_vars => OInv'
  BY NextOInv
<1> QED BY <1>1, InitOInv, PTL DEF Spec

(* The types, the event loop's among them: only an upload past its last    *)
(* chunk ever keeps it, and a list of candidates is never run past its end.*)
THEOREM UploadTypeOK == Spec => []TypeOK
<1>1. OInv => TypeOK
  <2> SUFFICES ASSUME OInv PROVE TypeOK
    OBVIOUS
  <2>1. ASSUME NEW r \in Requests
        PROVE  /\ query[r] \in Queries
               /\ \A k \in DOMAIN todo[r] : todo[r][k] \in Targets
               /\ pc[r] \in {"lookup", "load", "store"} => todo[r] # <<>>
               /\ uploaded[r] \in 0..RawMax
               /\ loop = r => query[r].op = "upload" /\ pc[r] \in Sync
    <3>1. todo[r] \in Seq(Targets)
      BY DEF OInv, Typed
    <3> QED BY <3>1 DEF OInv, IInv, Shapes, Typed, Order, Looking, IsUpload
  <2> QED BY <2>1 DEF OInv, IInv, Shapes, Typed, TypeOK
<1> QED BY <1>1, OrderStays, PTL

(* Precedence of the candidates, for any number of names and whatever the  *)
(* credential manager does meanwhile.                                      *)
THEOREM NamesAreTriedInOrder == Spec => []ResolvesInOrder
<1>1. OInv => ResolvesInOrder
  <2> SUFFICES ASSUME OInv, NEW r \in Requests
      PROVE LET q       == query[r]
                names   == Candidates(q)
                skipped == SubSeq(names, 1, Len(names) - Len(todo[r]))
                looked  == ~Usable(q.inline) /\ names # <<>>
            IN
            /\ auth[r] # None =>
                 IF looked THEN /\ auth[r] \in held[Head(todo[r])] \/ pc[r] = "done"
                                /\ \A k \in DOMAIN skipped : skipped[k] \in missing[r]
                           ELSE auth[r] = q.inline
            /\ result[r] = "ok" => Usable(auth[r])
            /\ result[r] = "denied" /\ looked =>
                 \/ \A k \in DOMAIN names : names[k] \in missing[r]
                 \/ auth[r] \in Secretless
    BY DEF ResolvesInOrder
  <2> DEFINE names == Candidates(query[r])
             n == Len(names) - Len(todo[r])
             skipped == SubSeq(names, 1, n)
  <2>1. names \in Seq(Targets) /\ todo[r] \in Seq(Targets) /\ Order(r)
    BY QueryParts DEF OInv, IInv, Typed
  <2>2. ASSUME Tried(names, todo[r], missing[r])
        PROVE  /\ \A k \in DOMAIN skipped : skipped[k] \in missing[r]
               /\ todo[r] = <<>> => \A k \in DOMAIN names : names[k] \in missing[r]
    <3> DEFINE list == todo[r]
               m == Len(names) - Len(list)
    <3>0. list \in Seq(Targets) /\ names \in Seq(Targets) /\ m = n
      BY <2>1
    <3> HIDE DEF names, list, n
    <3>1. /\ Len(names) \in Nat /\ Len(list) \in Nat /\ n \in Nat /\ n <= Len(names)
          /\ DOMAIN names = 1..Len(names)
      BY <3>0, <2>2 DEF Tried, list
    <3>2. \A k \in 1..n : names[k] \in missing[r]
      BY <2>2, <3>0 DEF Tried, list
    <3>3. DOMAIN skipped = 1..n /\ \A k \in 1..n : skipped[k] = names[k]
      BY <3>0, <3>1
    <3>4. todo[r] = <<>> => n = Len(names)
      BY <3>0, <3>1 DEF list
    <3> QED BY <3>1, <3>2, <3>3, <3>4
  <2>3. Looks(r) <=> ~Usable(query[r].inline) /\ names # <<>>
    BY DEF Looks
  <2> HIDE DEF skipped, names
  <2>4. /\ Looks(r) /\ (todo[r] # <<>> \/ result[r] = "denied") =>
             Tried(names, todo[r], missing[r])
        /\ Looks(r) /\ auth[r] # None =>
             todo[r] # <<>> /\ (auth[r] \in held[Head(todo[r])] \/ pc[r] = "done")
        /\ ~Looks(r) /\ auth[r] # None => auth[r] = query[r].inline
        /\ result[r] = "ok" => Usable(auth[r])
        /\ result[r] = "denied" /\ Looks(r) => todo[r] = <<>> \/ auth[r] \in Secretless
    BY <2>1 DEF Order, names
  <2> QED BY <2>2, <2>3, <2>4 DEF names, skipped
<1> QED BY <1>1, OrderStays, PTL
=============================================================================
