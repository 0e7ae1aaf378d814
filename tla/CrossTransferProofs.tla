------------------------ MODULE CrossTransferProofs ------------------------
(* Theorems about CrossTransfer, for every value of its constants.         *)
EXTENDS CrossTransfer, TLAPS

(* The strengthening that is inductive.                                    *)
Strong == TypeOK /\ TransferInv /\ MoveKeepsDocument

LEMMA ConstantTypes ==
  /\ None \notin Contents /\ None \notin Query /\ None \notin Requests
  /\ None \notin Spots /\ Paths \subseteq Spots
  /\ Depth \in Nat
  /\ Queries \subseteq Query
  /\ Busy \subseteq Stores
  /\ \A n \in Conns \X (Paths \cup {Root}) :
       StoreOf[n[1]] \in Stores /\ Leads[n[1]][n[2]] \subseteq Spots
  /\ \A n \in Conns \X Paths : StoreOf[n[1]] \in Stores /\ n[2] \in Paths
  /\ \A n \in Conns \X (Paths \cup {Root}) : n[2] # Root => n[2] \in Paths
  /\ \A q \in Query : /\ q.op \in Ops /\ q.src \in Conns \X Paths
                      /\ q.dst \in Conns \X (Paths \cup {Root})
                      /\ q.content \in Contents
BY ConstantsOK DEF ConstantsOK, Query, Nodes

(* Where a lookup of the source or the target of a request may end.        *)
LEMMA SourceSpot ==
  ASSUME TypeOK, NEW x \in Requests, query[x] # None
  PROVE  /\ query[x] \in Query /\ StoreOf[Src(x)[1]] \in Stores
         /\ Lead(Src(x)) \subseteq Spots
<1>1. query[x] \in Query
  BY DEF TypeOK
<1>2. Src(x) \in Conns \X (Paths \cup {Root})
  BY <1>1 DEF Query, Src
<1> QED BY <1>1, <1>2, ConstantTypes DEF Lead

LEMMA TargetSpot ==
  ASSUME TypeOK, NEW x \in Requests, query[x] # None
  PROVE  /\ StoreOf[Dst(x)[1]] \in Stores /\ Lead(Dst(x)) \subseteq Spots
         /\ Dst(x)[2] # Root => Dst(x)[2] \in Lead(Dst(x))
<1>1. Dst(x) \in Conns \X (Paths \cup {Root})
  BY DEF TypeOK, Query, Nodes, Dst
<1>2. Dst(x)[2] # Root => Dst(x)[2] \in Lead(Dst(x))
  BY <1>1, ConstantsOK DEF ConstantsOK, Lead
<1> QED BY <1>1, <1>2, ConstantTypes DEF Lead

(* Every lookup of a path of a driver other than Alfresco's ends at it.    *)
LEMMA OneSpot ==
  ASSUME TypeOK, NEW x \in Requests, query[x] # None, ~Astray(Src(x)),
         NEW m \in Lead(Src(x)), NEW n \in Lead(Src(x))
  PROVE  m = n
<1>1. Src(x) \in Conns \X Paths
  BY ConstantTypes DEF TypeOK, Src
<1>2. Leads[Src(x)[1]][Src(x)[2]] = {Src(x)[2]}
  BY <1>1, ConstantsOK DEF ConstantsOK, Astray
<1> QED BY <1>2 DEF Lead

LEMMA InitStrong == Init => Strong
BY ConstantTypes DEF Init, Strong, TypeOK, PCs, Results, TransferInv, Steps, Src, Dst,
     SourceKept, FolderLevel, MoveKeepsDocument, Keeps, Uploading

(* The place a request read from, once it has read.                        *)
ReadFrom(x) == In(Src(x), readAt[x])

(* The invariant of one request, and what keeps it when the request stands *)
(* still: its own variables do not change, and a write to the place it     *)
(* read from marks it raced.                                               *)
Good(r) == Steps(r) /\ SourceKept(r) /\ FolderLevel(r) /\ Keeps(r)

StandsStill(r) ==
  /\ pc'[r] = pc[r] /\ query'[r] = query[r] /\ got'[r] = got[r]
  /\ level'[r] = level[r] /\ result'[r] = result[r] /\ readAt'[r] = readAt[r]
  /\ landed'[r] = landed[r] /\ removed'[r] = removed[r] /\ took'[r] = took[r]

SourceNoticed(r) ==
  /\ raced[r] => raced'[r]
  /\ query[r] # None /\ readAt[r] # None =>
       Held(ReadFrom(r))' \in {Held(ReadFrom(r)), None} \/ raced'[r]

LEMMA StillGood ==
  ASSUME TypeOK, TypeOK', NEW r \in Requests, Good(r), StandsStill(r), SourceNoticed(r)
  PROVE  Good(r)'
<1>1. Steps(r)' /\ FolderLevel(r)'
  BY DEF Good, Steps, FolderLevel, StandsStill, Src, Dst, Lead, Uploading
<1>2. Keeps(r)'
  BY DEF Good, Keeps, StandsStill, SourceNoticed, Src, Lead, Astray, TypeOK
<1>3. SourceKept(r)'
  BY DEF Good, Steps, SourceKept, StandsStill, SourceNoticed, ReadFrom, TypeOK
<1> QED BY <1>1, <1>2, <1>3 DEF Good

LEMMA StrongGood == Strong <=> TypeOK /\ \A r \in Requests : Good(r)
BY DEF Strong, TransferInv, MoveKeepsDocument, Good

(* A step of request r that writes nothing upstream.                       *)
LEMMA QuietStep ==
  ASSUME Strong, TypeOK', NEW r \in Requests, Good(r)',
         UNCHANGED <<file, raced>>,
         \A x \in Requests \ {r} : StandsStill(x)
  PROVE  Strong'
<1>1. \A x \in Requests \ {r} : SourceNoticed(x)
  BY DEF SourceNoticed, StandsStill, Held, ReadFrom, In, Src
<1>2. \A x \in Requests : Good(x)'
  BY <1>1, StillGood, StrongGood DEF Strong
<1> QED BY <1>2 DEF Strong, TransferInv, MoveKeepsDocument, Good

LEMMA RejectStrong ==
  ASSUME Strong, NEW r \in Requests, NEW q \in Queries, Reject(r, q)
  PROVE  Strong'
<1> USE ConstantTypes DEF Reject, Begin, Goto, upstream, history
<1>1. TypeOK'
  BY DEF Strong, TypeOK, PCs, Results
<1>2. Good(r)'
  BY StrongGood DEF Strong, TypeOK, Good, Steps, Src, Dst, SourceKept, FolderLevel, Keeps,
       Uploading
<1>3. \A x \in Requests \ {r} : StandsStill(x)
  BY DEF StandsStill, Strong, TypeOK
<1> QED BY <1>1, <1>2, <1>3, QuietStep

LEMMA StartTransferStrong ==
  ASSUME Strong, NEW r \in Requests, NEW q \in Queries, StartTransfer(r, q)
  PROVE  Strong'
<1> USE ConstantTypes DEF StartTransfer, Begin, Goto, upstream, history
<1>1. TypeOK'
  BY DEF Strong, TypeOK, PCs
<1>2. Good(r)'
  BY StrongGood DEF Strong, TypeOK, Good, Steps, Src, Dst, SourceKept, FolderLevel, Keeps,
       Uploading
<1>3. \A x \in Requests \ {r} : StandsStill(x)
  BY DEF StandsStill, Strong, TypeOK
<1> QED BY <1>1, <1>2, <1>3, QuietStep

LEMMA StartNativeStrong ==
  ASSUME Strong, NEW r \in Requests, NEW q \in Queries, StartNative(r, q)
  PROVE  Strong'
<1> USE ConstantTypes DEF StartNative, CrossConnection, Begin, Goto, upstream, history
<1>1. TypeOK'
  BY DEF Strong, TypeOK, PCs
<1>2. Good(r)'
  BY StrongGood DEF Strong, TypeOK, Good, Steps, Src, Dst, SourceKept, FolderLevel, Keeps,
       Uploading
<1>3. \A x \in Requests \ {r} : StandsStill(x)
  BY DEF StandsStill, Strong, TypeOK
<1> QED BY <1>1, <1>2, <1>3, QuietStep

LEMMA StartUploadStrong ==
  ASSUME Strong, NEW r \in Requests, NEW q \in Queries, StartUpload(r, q)
  PROVE  Strong'
<1> USE ConstantTypes DEF StartUpload, Begin, Goto, upstream, history, AfterFolder
<1>1. TypeOK'
  BY DEF Strong, TypeOK, PCs
<1>2. Good(r)'
  BY StrongGood DEF Strong, TypeOK, Good, Steps, Src, Dst, SourceKept, FolderLevel, Keeps,
       Uploading
<1>3. \A x \in Requests \ {r} : StandsStill(x)
  BY DEF StandsStill, Strong, TypeOK
<1> QED BY <1>1, <1>2, <1>3, QuietStep

LEMMA StopStrong ==
  ASSUME Strong, NEW r \in Requests, NEW res \in Results, pc[r] # "ready",
         Stop(r, res)
  PROVE  Strong'
<1> USE ConstantTypes DEF Stop, Answer, Goto, upstream, history, local
<1>1. TypeOK'
  BY DEF Strong, TypeOK, PCs
<1>2. Good(r)'
  BY StrongGood DEF Strong, TypeOK, Good, Steps, Src, Dst, Lead, SourceKept, FolderLevel,
       Keeps, Uploading, Astray, Held, In
<1>3. \A x \in Requests \ {r} : StandsStill(x)
  BY DEF StandsStill, Strong, TypeOK
<1> QED BY <1>1, <1>2, <1>3, QuietStep

LEMMA CheckTargetStrong ==
  ASSUME Strong, NEW r \in Requests, CheckTarget(r)
  PROVE  Strong'
<1>1. CASE Stop(r, "failed")
  BY <1>1, StopStrong DEF CheckTarget, Results
<1>2. CASE ~Stop(r, "failed")
  <2>a. /\ pc[r] = "check"
        /\ \E missing \in BOOLEAN : absent' = [absent EXCEPT ![r] = missing]
        /\ \E l \in {"download", "describe"} : pc' = [pc EXCEPT ![r] = l]
        /\ UNCHANGED <<file, dirs, query, got, level, temp, result, history>>
    BY <1>2 DEF CheckTarget, Missing, Goto, upstream
  <2>1. TypeOK'
    BY <2>a DEF Strong, TypeOK, PCs, history
  <2>b. Good(r) /\ query[r] # None /\ readAt[r] = None
    BY <2>a, ConstantTypes, StrongGood DEF Good, Steps
  <2>2. Good(r)'
    <3>1. Steps(r)'
      BY <2>a, <2>b DEF Strong, TypeOK, Good, Steps, Src, Dst, Uploading, history
    <3>2. SourceKept(r)' /\ FolderLevel(r)' /\ Keeps(r)'
      BY <2>a, <2>b DEF Strong, TypeOK, Good, Steps, SourceKept, FolderLevel, Keeps, history
    <3> QED BY <3>1, <3>2 DEF Good
  <2>3. \A x \in Requests \ {r} : StandsStill(x)
    BY <2>a DEF StandsStill, Strong, TypeOK, history
  <2> QED BY <2>a, <2>1, <2>2, <2>3, QuietStep DEF history
<1> QED BY <1>1, <1>2

LEMMA DescribeConflictStrong ==
  ASSUME Strong, NEW r \in Requests, DescribeConflict(r)
  PROVE  Strong'
BY StopStrong DEF DescribeConflict, Results

LEMMA AfterFolderType ==
  ASSUME NEW l \in 0..Depth
  PROVE  /\ AfterFolder(l) \in {"put", "folder"}
         /\ AfterFolder(l) = "folder" => l < Depth
BY ConstantTypes DEF AfterFolder

(* A request reads at a spot its source leads to.                          *)
LEMMA FetchStrong ==
  ASSUME Strong, NEW r \in Requests, NEW m \in Lead(Src(r)),
         Fetch(r, In(Src(r), m)), pc[r] \in {"download", "native"},
         NEW l \in {"stage", "put", "folder", "clone"}, Goto(r, l),
         l = "folder" => 0 < Depth,
         pc[r] = "native" => Dst(r)[2] # Root,
         UNCHANGED <<upstream, query, absent, level, temp, result,
                     landed, landedAt, replaced, removed, took, touched, raced>>
  PROVE  Strong'
<1> DEFINE s == StoreOf[Src(r)[1]]
           c == file[s][m]
<1>a. /\ c # None
      /\ got' = [got EXCEPT ![r] = c]
      /\ readAt' = [readAt EXCEPT ![r] = m]
      /\ pc' = [pc EXCEPT ![r] = l]
      /\ UNCHANGED <<file, dirs>>
  BY DEF Fetch, Held, In, Goto, upstream
<1>b. /\ query[r] # None /\ level[r] = 0 /\ readAt[r] = None
      /\ landed[r] = None /\ removed[r] = None /\ Dst(r)[2] # Root
  BY StrongGood DEF Good, Steps, FolderLevel
<1>c. query[r] \in Query /\ s \in Stores /\ m \in Spots
  BY <1>b, SourceSpot DEF Strong
<1>d. c \in Contents
  BY <1>a, <1>c DEF Strong, TypeOK
<1>1. TypeOK'
  <2> HIDE DEF c
  <2> QED BY <1>a, <1>c, <1>d DEF Strong, TypeOK, PCs
<1>2. /\ got'[r] = c /\ readAt'[r] = m /\ pc'[r] = l /\ query'[r] = query[r]
      /\ landed'[r] = None /\ removed'[r] = None /\ level'[r] = 0
  BY <1>a, <1>b DEF Strong, TypeOK
<1>3. Steps(r)'
  BY <1>a, <1>b, <1>c, <1>2, ConstantTypes DEF Steps, Src, Dst, Lead, Uploading
<1>4. SourceKept(r)'
  BY <1>a, <1>2 DEF SourceKept, Held, In, Src
<1>5. FolderLevel(r)' /\ Keeps(r)'
  BY <1>2 DEF FolderLevel, Keeps,
       Uploading
<1>6. \A x \in Requests \ {r} : StandsStill(x)
  BY <1>a DEF StandsStill, Strong, TypeOK
<1> QED BY <1>1, <1>3, <1>4, <1>5, <1>6, QuietStep DEF Good, upstream

LEMMA DownloadStrong ==
  ASSUME Strong, NEW r \in Requests, Download(r)
  PROVE  Strong'
<1>1. CASE Stop(r, "failed")
  BY <1>1, StopStrong DEF Download, Results
<1>2. CASE ~Stop(r, "failed")
  <2>1. PICK m \in Lead(Src(r)) :
          /\ Fetch(r, In(Src(r), m))
          /\ Goto(r, IF Size[got'[r]] = "large" THEN "stage" ELSE AfterFolder(0))
          /\ UNCHANGED <<upstream, query, absent, level, temp, result,
                         landed, landedAt, replaced, removed, took, touched, raced>>
    BY <1>2 DEF Download
  <2>2. PICK l \in {"stage", "put", "folder"} :
          Goto(r, l) /\ (l = "folder" => 0 < Depth)
    BY <2>1, AfterFolderType, ConstantTypes
  <2> QED BY <2>1, <2>2, FetchStrong DEF Download
<1> QED BY <1>1, <1>2

LEMMA StageStrong ==
  ASSUME Strong, NEW r \in Requests, Stage(r)
  PROVE  Strong'
<1>a. /\ pc[r] = "stage"
      /\ \E left \in {"none", "live", "orphan"} : temp' = [temp EXCEPT ![r] = left]
      /\ \/ pc' = [pc EXCEPT ![r] = AfterFolder(0)] /\ UNCHANGED result
         \/ pc' = [pc EXCEPT ![r] = "done"] /\ result' = [result EXCEPT ![r] = "failed"]
      /\ UNCHANGED <<upstream, query, absent, got, level, history>>
  BY DEF Stage, Answer, Goto
<1>b. AfterFolder(0) \in {"put", "folder"} /\ (AfterFolder(0) = "folder" => 0 < Depth)
  BY AfterFolderType, ConstantTypes
<1>1. TypeOK'
  BY <1>a, <1>b DEF Strong, TypeOK, PCs, Results, upstream, history
<1>2. Good(r)'
  BY <1>a, <1>b, ConstantTypes, StrongGood
  DEF Strong, TypeOK, Good, Steps, Src, Dst, Lead, SourceKept, FolderLevel, Keeps, Uploading, Astray,
      Held, In, upstream, history
<1>3. \A x \in Requests \ {r} : StandsStill(x)
  BY <1>a DEF StandsStill, Strong, TypeOK, history
<1> QED BY <1>a, <1>1, <1>2, <1>3, QuietStep DEF upstream, history

LEMMA CleanupStrong ==
  ASSUME Strong, NEW r \in Requests, Cleanup(r)
  PROVE  Strong'
<1>a. /\ pc[r] = "cleanup"
      /\ \E left \in {"none", "orphan"} : temp' = [temp EXCEPT ![r] = left]
      /\ UNCHANGED <<upstream, query, absent, got, level, result, history>>
      /\ pc' = [pc EXCEPT ![r] = AfterUpload(r, result[r])]
  BY DEF Cleanup, Goto
<1>b. PICK l \in {"remove", "done"} :
        /\ pc' = [pc EXCEPT ![r] = l]
        /\ l = "remove" => result[r] = "ok" /\ query[r].op = "move"
  BY <1>a DEF AfterUpload
<1>1. TypeOK'
  BY <1>a, <1>b DEF Strong, TypeOK, PCs, upstream, history
<1>2. Good(r)'
  BY <1>a, <1>b, ConstantTypes, StrongGood
  DEF Strong, TypeOK, Good, Steps, Src, Dst, Lead, SourceKept, FolderLevel, Keeps, Uploading, Astray,
      Held, In, upstream, history
<1>3. \A x \in Requests \ {r} : StandsStill(x)
  BY <1>a, <1>b DEF StandsStill, Strong, TypeOK, history
<1> QED BY <1>a, <1>1, <1>2, <1>3, QuietStep DEF upstream, history

(* Where a request may go with its upload's result.                        *)
LEMMA LeaveUploadGoes ==
  ASSUME NEW r, NEW res, LeaveUpload(r, res)
  PROVE  /\ result' = [result EXCEPT ![r] = res]
         /\ \E l \in {"cleanup", "remove", "done"} :
              /\ pc' = [pc EXCEPT ![r] = l]
              /\ l = "remove" => res = "ok" /\ query[r].op = "move"
BY DEF LeaveUpload, Goto, AfterUpload

(* A folder step, or an upload the server did not take.                    *)
LEMMA LeaveQuietly ==
  ASSUME Strong, NEW r \in Requests, NEW res \in Results \ {"ok"},
         pc[r] \in Uploading, pc[r] # "cleanup",
         LeaveUpload(r, res),
         UNCHANGED <<file, query, absent, got, level, temp, readAt, landed, landedAt,
                     replaced, removed, took, raced>>,
         dirs' \in [Stores -> 0..Depth], touched' \in [Requests -> BOOLEAN]
  PROVE  Strong'
<1>a. PICK l \in {"cleanup", "done"} :
         pc' = [pc EXCEPT ![r] = l] /\ result' = [result EXCEPT ![r] = res]
  BY LeaveUploadGoes
<1>1. TypeOK'
  BY <1>a DEF Strong, TypeOK, PCs
<1>2. Good(r)'
  BY <1>a, ConstantTypes, StrongGood
  DEF Strong, TypeOK, Good, Steps, Src, Dst, Lead, SourceKept, FolderLevel, Keeps, Astray,
      Held, In, Uploading
<1>3. \A x \in Requests \ {r} : StandsStill(x)
  BY <1>a DEF StandsStill, Strong, TypeOK
<1> QED BY <1>1, <1>2, <1>3, QuietStep

LEMMA PassFolderStrong ==
  ASSUME Strong, NEW r \in Requests, pc[r] \in {"folder", "mkdir"}, PassFolder(r),
         UNCHANGED <<file, query, absent, got, temp, readAt, landed, landedAt,
                     replaced, removed, took, raced>>,
         dirs' \in [Stores -> 0..Depth], touched' \in [Requests -> BOOLEAN]
  PROVE  Strong'
<1>a. /\ level' = [level EXCEPT ![r] = level[r] + 1]
      /\ pc' = [pc EXCEPT ![r] = AfterFolder(level[r] + 1)]
      /\ result' = result
  BY DEF PassFolder, Goto
<1>b. level[r] \in 0..Depth /\ level[r] + 1 \in 0..Depth
  BY ConstantTypes, StrongGood DEF Strong, TypeOK, Good, FolderLevel
<1>c. /\ AfterFolder(level[r] + 1) \in {"put", "folder"}
      /\ AfterFolder(level[r] + 1) = "folder" => level[r] + 1 < Depth
  BY <1>b, AfterFolderType
<1>1. TypeOK'
  BY <1>a, <1>b, <1>c DEF Strong, TypeOK, PCs
<1>2. Good(r)'
  BY <1>a, <1>b, <1>c, ConstantTypes, StrongGood
  DEF Strong, TypeOK, Good, Steps, Src, Dst, Lead, SourceKept, FolderLevel, Keeps, Astray,
      Held, In, Uploading
<1>3. \A x \in Requests \ {r} : StandsStill(x)
  BY <1>a DEF StandsStill, Strong, TypeOK
<1> QED BY <1>1, <1>2, <1>3, QuietStep

LEMMA StatFolderStrong ==
  ASSUME Strong, NEW r \in Requests, StatFolder(r)
  PROVE  Strong'
<1>a. /\ pc[r] = "folder"
      /\ UNCHANGED <<upstream, query, absent, got, temp, history>>
      /\ \/ LeaveUpload(r, "failed") /\ UNCHANGED level
         \/ PassFolder(r)
         \/ Goto(r, "mkdir") /\ UNCHANGED <<level, result>>
  BY DEF StatFolder
<1>b. dirs' \in [Stores -> 0..Depth] /\ touched' \in [Requests -> BOOLEAN]
  BY <1>a DEF Strong, TypeOK, upstream, history
<1>1. CASE LeaveUpload(r, "failed") /\ UNCHANGED level
  BY <1>a, <1>b, <1>1, LeaveQuietly DEF Results, Uploading, upstream, history
<1>2. CASE PassFolder(r)
  BY <1>a, <1>b, <1>2, PassFolderStrong DEF upstream, history
<1>3. CASE Goto(r, "mkdir") /\ UNCHANGED <<level, result>>
  <2>1. TypeOK'
    BY <1>a, <1>3 DEF Strong, TypeOK, PCs, Goto, upstream, history
  <2>2. Good(r)'
    BY <1>a, <1>3, ConstantTypes, StrongGood
    DEF Strong, TypeOK, Good, Steps, Src, Dst, Lead, SourceKept, FolderLevel, Keeps, Astray,
        Held, In, Uploading, Goto, upstream, history
  <2>3. \A x \in Requests \ {r} : StandsStill(x)
    BY <1>a, <1>3 DEF StandsStill, Strong, TypeOK, Goto, history
  <2> QED BY <1>a, <2>1, <2>2, <2>3, QuietStep DEF upstream, history
<1> QED BY <1>a, <1>1, <1>2, <1>3

LEMMA MakeFolderStrong ==
  ASSUME Strong, NEW r \in Requests, MakeFolder(r)
  PROVE  Strong'
<1> DEFINE s == StoreOf[Dst(r)[1]]
<1>a. /\ pc[r] = "mkdir"
      /\ UNCHANGED <<file, query, absent, got, temp, readAt, landed, landedAt,
                     replaced, removed, took, raced>>
      /\ PassFolder(r) \/ (LeaveUpload(r, "failed") /\ UNCHANGED level)
      /\ dirs' = dirs \/ dirs' = [dirs EXCEPT ![s] = level[r] + 1]
      /\ touched' = touched \/ touched' = [touched EXCEPT ![r] = TRUE]
  BY DEF MakeFolder, FolderMade, Touch
<1>b. level[r] \in 0..Depth /\ level[r] + 1 \in 0..Depth
  BY <1>a, ConstantTypes, StrongGood DEF Strong, TypeOK, Good, FolderLevel
<1> HIDE DEF s
<1>c. dirs' \in [Stores -> 0..Depth] /\ touched' \in [Requests -> BOOLEAN]
  <2>1. dirs \in [Stores -> 0..Depth] /\ touched \in [Requests -> BOOLEAN]
    BY DEF Strong, TypeOK
  <2>2. touched' \in [Requests -> BOOLEAN]
    BY <1>a, <2>1
  <2>3. dirs' \in [Stores -> 0..Depth]
    BY <1>a, <1>b, <2>1
  <2> QED BY <2>2, <2>3
<1> QED
  BY <1>a, <1>c, LeaveQuietly, PassFolderStrong DEF Results, Uploading

-----------------------------------------------------------------------------
(* Steps that write upstream.                                              *)

(* The place a request read from is a place of a repository.               *)
LEMMA ReadPlace ==
  ASSUME TypeOK, NEW x \in Requests, query[x] # None, readAt[x] # None
  PROVE  /\ ReadFrom(x) = <<StoreOf[Src(x)[1]], readAt[x]>>
         /\ StoreOf[Src(x)[1]] \in Stores /\ readAt[x] \in Spots
         /\ Held(ReadFrom(x)) = file[StoreOf[Src(x)[1]]][readAt[x]]
BY SourceSpot DEF TypeOK, ReadFrom, In, Held

(* A write changes what another request read only if it marks that request *)
(* raced.                                                                  *)
LEMMA WriteNoticed ==
  ASSUME TypeOK, NEW s \in Stores, NEW m, NEW c, NEW who,
         WriteAt(<<s, m>>, c, who), UNCHANGED <<query, readAt>>,
         NEW x \in Requests, x # who
  PROVE  SourceNoticed(x)
<1>1. raced[x] => raced'[x]
  BY DEF WriteAt, Race, TypeOK
<1>2. ASSUME query[x] # None, readAt[x] # None
      PROVE  Held(ReadFrom(x))' \in {Held(ReadFrom(x)), None} \/ raced'[x]
  <2>1. CASE ReadFrom(x) = <<s, m>>
    BY <1>2, <2>1 DEF WriteAt, Race, TypeOK, ReadFrom
  <2>2. CASE ReadFrom(x) # <<s, m>>
    <3>1. file' = [file EXCEPT ![s][m] = c]
      BY DEF WriteAt
    <3>2. file'[StoreOf[Src(x)[1]]][readAt[x]] = file[StoreOf[Src(x)[1]]][readAt[x]]
      BY <1>2, <2>2, <3>1, ReadPlace DEF TypeOK
    <3> QED BY <1>2, <3>2, ReadPlace DEF Held, ReadFrom, In, Src
  <2> QED BY <2>1, <2>2
<1> QED BY <1>1, <1>2 DEF SourceNoticed

LEMMA WriteTypes ==
  ASSUME TypeOK, NEW s \in Stores, NEW m, NEW c \in Contents \cup {None}, NEW who,
         WriteAt(<<s, m>>, c, who)
  PROVE  /\ file' \in [Stores -> [Spots -> Contents \cup {None}]]
         /\ raced' \in [Requests -> BOOLEAN]
         /\ file'[s] = [file[s] EXCEPT ![m] = c]
         /\ \A t \in Stores \ {s} : file'[t] = file[t]
BY DEF WriteAt, Race, TypeOK

(* What a server accepted went to a spot its target leads to, or beside it.*)
LEMMA AcceptStrong ==
  ASSUME Strong, NEW r \in Requests, pc[r] \in {"put", "clone"},
         NEW m \in Lead(Dst(r)), NEW over \in Contents \cup {None},
         AcceptAt(r, In(Dst(r), m), over) \/ (AcceptBeside(r) /\ over = None)
  PROVE  Strong'
<1> DEFINE s == StoreOf[Dst(r)[1]]
<1>a. /\ query[r] \in Query /\ got[r] \in Contents
      /\ landed[r] = None /\ removed[r] = None /\ s \in Stores /\ m \in Spots
      /\ query[r].op = "upload" \/ readAt[r] # None
      /\ query[r] # None /\ Dst(r)[2] # Root
  BY ConstantTypes, StrongGood, TargetSpot DEF Strong, TypeOK, Good, Steps, Uploading
<1>b. /\ landed' = [landed EXCEPT ![r] = got[r]]
      /\ replaced' = [replaced EXCEPT ![r] = over]
      /\ touched' = [touched EXCEPT ![r] = TRUE]
      /\ WriteAt(<<s, m>>, got[r], r) \/ UNCHANGED <<file, raced>>
      /\ UNCHANGED <<dirs, readAt, removed, took, query, absent, got, level, temp>>
  BY DEF AcceptAt, AcceptBeside, Accept, Touch, local, In
<1>n. PICK n \in {m, None} : landedAt' = [landedAt EXCEPT ![r] = n]
  BY DEF AcceptAt, AcceptBeside, In
<1>c. PICK l \in {"cleanup", "remove", "done"}, res \in {"ok", "failed"} :
        /\ pc' = [pc EXCEPT ![r] = l]
        /\ result' = [result EXCEPT ![r] = res]
        /\ l = "remove" => query[r].op = "move"
  BY LeaveUploadGoes DEF AcceptAt, AcceptBeside, Accept
<1> HIDE DEF s
<1>d. /\ file' \in [Stores -> [Spots -> Contents \cup {None}]]
      /\ raced' \in [Requests -> BOOLEAN]
  BY <1>a, <1>b, WriteTypes DEF Strong, TypeOK
<1>1. TypeOK'
  BY <1>a, <1>b, <1>n, <1>c, <1>d DEF Strong, TypeOK, PCs, Results
<1>e. \A x \in Requests \ {r} : SourceNoticed(x)
  <2>1. CASE WriteAt(<<s, m>>, got[r], r)
    BY <1>a, <1>b, <2>1, WriteNoticed DEF Strong
  <2>2. CASE UNCHANGED <<file, raced>>
    BY <1>b, <2>2 DEF SourceNoticed, Held, ReadFrom, In, Src
  <2> QED BY <1>b, <2>1, <2>2
<1>f. readAt[r] # None => Held(ReadFrom(r))' \in {Held(ReadFrom(r)), got[r]}
  <2> SUFFICES ASSUME readAt[r] # None
               PROVE  Held(ReadFrom(r))' \in {Held(ReadFrom(r)), got[r]}
    OBVIOUS
  <2>1. /\ ReadFrom(r)' = ReadFrom(r)
        /\ StoreOf[Src(r)[1]] \in Stores /\ readAt[r] \in Spots
        /\ Held(ReadFrom(r)) = file[StoreOf[Src(r)[1]]][readAt[r]]
        /\ Held(ReadFrom(r))' = file'[StoreOf[Src(r)[1]]][readAt[r]]
    BY <1>a, <1>b, ReadPlace DEF Strong, ReadFrom, In, Src, Held
  <2>2. CASE WriteAt(<<s, m>>, got[r], r)
    <3>1. /\ file'[s] = [file[s] EXCEPT ![m] = got[r]]
          /\ \A t \in Stores \ {s} : file'[t] = file[t]
      BY <1>a, <2>2, WriteTypes DEF Strong
    <3>2. file[s] \in [Spots -> Contents \cup {None}]
      BY <1>a DEF Strong, TypeOK
    <3> QED BY <1>a, <2>1, <3>1, <3>2
  <2>3. CASE UNCHANGED <<file, raced>>
    BY <2>1, <2>3
  <2> QED BY <1>b, <2>2, <2>3
<1>g. ~raced'[r] => ~raced[r]
  BY <1>b DEF WriteAt, Race, Strong, TypeOK
<1>h. /\ landed'[r] = got[r] /\ got'[r] = got[r] /\ removed'[r] = None
      /\ query'[r] = query[r] /\ readAt'[r] = readAt[r] /\ pc'[r] = l /\ result'[r] = res
      /\ got[r] # None
  BY <1>a, <1>b, <1>c, ConstantTypes DEF Strong, TypeOK
<1>2. Good(r)'
  <2>1. Good(r)
    BY StrongGood
  <2>2. Steps(r)'
    BY <1>a, <1>c, <1>h, <2>1 DEF Good, Steps, Src, Dst, Lead, Uploading
  <2>3. SourceKept(r)'
    BY <1>f, <1>g, <1>h, <1>a, <2>1 DEF Good, SourceKept, ReadFrom
  <2>4. FolderLevel(r)' /\ Keeps(r)'
    BY <1>c, <1>h DEF FolderLevel, Keeps
  <2> QED BY <2>2, <2>3, <2>4 DEF Good
<1>3. \A x \in Requests \ {r} : StandsStill(x)
  BY <1>b, <1>c DEF StandsStill, Strong, TypeOK
<1>4. \A x \in Requests : Good(x)'
  BY <1>1, <1>2, <1>3, <1>e, StillGood, StrongGood DEF Strong
<1> QED BY <1>1, <1>4 DEF Strong, TransferInv, MoveKeepsDocument, Good

LEMMA PutStrong ==
  ASSUME Strong, NEW r \in Requests, Put(r)
  PROVE  Strong'
<1>a. pc[r] = "put" /\ query[r] # None
  BY StrongGood DEF Put, Good, Steps
<1>1. CASE NotAccepted(r, "failed") \/ VersionRequired(r)
  BY <1>a, <1>1, LeaveQuietly
  DEF NotAccepted, VersionRequired, Results, Uploading, upstream, local, history,
      Strong, TypeOK
<1>2. ASSUME NEW m \in Lead(Dst(r)),
             \/ UploadNew(r, In(Dst(r), m)) \/ UploadVersion(r, In(Dst(r), m))
             \/ UploadOver(r, In(Dst(r), m)) \/ UploadSibling(r, In(Dst(r), m))
      PROVE  Strong'
  <2>1. m \in Spots /\ StoreOf[Dst(r)[1]] \in Stores
    BY <1>a, TargetSpot DEF Strong
  <2>2. Held(In(Dst(r), m)) \in Contents \cup {None}
    BY <2>1 DEF Strong, TypeOK, Held, In
  <2>3. \/ \E over \in Contents \cup {None} : AcceptAt(r, In(Dst(r), m), over)
        \/ AcceptBeside(r)
    BY <1>2, <2>2 DEF UploadNew, UploadVersion, UploadOver, UploadSibling
  <2> QED BY <1>a, <2>3, AcceptStrong
<1> QED BY <1>1, <1>2 DEF Put

(* Taking a document away never counts as a write: the requests that read  *)
(* it find nothing.                                                        *)
LEMMA RemovalNoticed ==
  ASSUME TypeOK, NEW s \in Stores, NEW m \in Spots,
         file' = [file EXCEPT ![s][m] = None], UNCHANGED <<query, readAt, raced>>,
         NEW x \in Requests
  PROVE  SourceNoticed(x)
<1> SUFFICES ASSUME query[x] # None, readAt[x] # None
             PROVE  Held(ReadFrom(x))' \in {Held(ReadFrom(x)), None}
  BY DEF SourceNoticed
<1>1. /\ StoreOf[Src(x)[1]] \in Stores /\ readAt[x] \in Spots
      /\ Held(ReadFrom(x)) = file[StoreOf[Src(x)[1]]][readAt[x]]
      /\ Held(ReadFrom(x))' = file'[StoreOf[Src(x)[1]]][readAt[x]]
  BY ReadPlace DEF ReadFrom, In, Src, Held
<1>2. file'[StoreOf[Src(x)[1]]][readAt[x]]
        \in {file[StoreOf[Src(x)[1]]][readAt[x]], None}
  BY <1>1 DEF TypeOK
<1> QED BY <1>1, <1>2

(* What the move takes: at the spot it read from, what it read, unless     *)
(* someone else wrote there; at another spot only through Alfresco.        *)
LEMMA RemoveStrong ==
  ASSUME Strong, NEW r \in Requests, Remove(r)
  PROVE  Strong'
<1>1. CASE Stop(r, "failed")
  BY <1>1, StopStrong DEF Remove, Results
<1>2. ASSUME NEW m \in Lead(Src(r)), RemoveAt(r, In(Src(r), m)) PROVE Strong'
  <2> DEFINE s == StoreOf[Src(r)[1]]
             old == file[s][m]
  <2>a. PICK res \in {"ok", "failed"} :
        /\ pc[r] = "remove" /\ old # None
        /\ removed' = [removed EXCEPT ![r] = old]
        /\ took' = [took EXCEPT ![r] = m]
        /\ file' = [file EXCEPT ![s][m] = None]
        /\ touched' = [touched EXCEPT ![r] = TRUE]
        /\ pc' = [pc EXCEPT ![r] = "done"]
        /\ result' = [result EXCEPT ![r] = res]
        /\ UNCHANGED <<dirs, query, absent, got, level, temp,
                       readAt, landed, landedAt, replaced, raced>>
    BY <1>2 DEF Remove, RemoveAt, Take, RemoveOutcomes, Touch, Answer, Goto, Held, In, local
  <2>b. /\ query[r] # None /\ query[r].op = "move" /\ got[r] # None
        /\ landed[r] = got[r] /\ removed[r] = None
        /\ readAt[r] # None /\ readAt[r] \in Lead(Src(r))
    BY <2>a, StrongGood DEF Good, Steps
  <2>c. s \in Stores /\ m \in Spots
    BY <2>b, SourceSpot DEF Strong
  <2>d. old \in Contents
    BY <2>a, <2>c DEF Strong, TypeOK
  <2>e. \/ old = landed[r]
        \/ raced[r]
        \/ Astray(Src(r)) /\ m # readAt[r]
    <3>1. CASE m = readAt[r]
      <4>1. Held(ReadFrom(r)) = old
        BY <3>1 DEF Held, ReadFrom, In
      <4> QED BY <2>a, <2>b, <4>1, StrongGood DEF Good, SourceKept, ReadFrom
    <3>2. CASE m # readAt[r]
      BY <2>b, <3>2, OneSpot DEF Strong
    <3> QED BY <3>1, <3>2
  <2> HIDE DEF s, old
  <2>1. TypeOK'
    BY <2>a, <2>c, <2>d DEF Strong, TypeOK, PCs, Results
  <2>2. Good(r)'
    <3>1. /\ pc'[r] = "done" /\ query'[r] = query[r] /\ landed'[r] = landed[r]
          /\ removed'[r] = old /\ took'[r] = m /\ raced'[r] = raced[r]
          /\ readAt'[r] = readAt[r]
          /\ old # None /\ m # None
      BY <2>a, <2>c, <2>d, ConstantTypes DEF Strong, TypeOK
    <3>2. Keeps(r)'
      BY <2>b, <2>e, <3>1 DEF Keeps, Src, Lead, Astray
    <3>3. SourceKept(r)' /\ FolderLevel(r)'
      BY <3>1 DEF SourceKept, FolderLevel
    <3>4. Steps(r)'
      BY <2>b, <3>1 DEF Steps, Uploading, Src, Lead
    <3> QED BY <3>2, <3>3, <3>4 DEF Good
  <2>3. \A x \in Requests \ {r} : StandsStill(x) /\ SourceNoticed(x)
    BY <2>a, <2>c, RemovalNoticed DEF StandsStill, Strong, TypeOK
  <2>4. \A x \in Requests : Good(x)'
    BY <2>1, <2>2, <2>3, StillGood, StrongGood DEF Strong
  <2> QED BY <2>1, <2>4 DEF Strong, TransferInv, MoveKeepsDocument, Good
<1> QED BY <1>1, <1>2 DEF Remove

(* A copy or move within one connection.                                   *)
LEMMA NativeDoneStrong ==
  ASSUME Strong, NEW r \in Requests, pc[r] = "native", Dst(r)[2] # Root,
         NEW m \in Lead(Src(r)), NEW t \in Lead(Dst(r)),
         NativeDone(r, In(Src(r), m), In(Dst(r), t))
  PROVE  Strong'
<1> DEFINE s == StoreOf[Src(r)[1]]
           c == file[s][m]
<1>b. /\ query[r] # None /\ got[r] = None /\ removed[r] = None /\ landed[r] = None
      /\ readAt[r] = None /\ Src(r)[1] = Dst(r)[1]
  BY StrongGood DEF Good, Steps
<1>n. In(Dst(r), t) = <<s, t>>
  BY <1>b DEF In
<1>a. PICK res \in {"ok", "failed"} :
      /\ c # None
      /\ landed' = [landed EXCEPT ![r] = c]
      /\ landedAt' = [landedAt EXCEPT ![r] = t]
      /\ Race(<<s, t>>, r)
      /\ touched' = [touched EXCEPT ![r] = TRUE]
      /\ pc' = [pc EXCEPT ![r] = "done"]
      /\ result' = [result EXCEPT ![r] = res]
      /\ UNCHANGED <<dirs, query, absent, got, level, temp, readAt, replaced>>
  BY <1>n DEF NativeDone, RemoveOutcomes, Touch, Answer, Goto, Held, In, local
<1>m. \/ /\ query[r].op = "move"
         /\ removed' = [removed EXCEPT ![r] = c]
         /\ took' = [took EXCEPT ![r] = m]
         /\ file' = [file EXCEPT ![s][m] = None, ![s][t] = c]
      \/ /\ UNCHANGED <<removed, took>>
         /\ file' = [file EXCEPT ![s][t] = c]
  BY <1>n DEF NativeDone, Take, Held, In
<1>c. s \in Stores /\ m \in Spots /\ t \in Spots
  BY <1>b, SourceSpot, TargetSpot DEF Strong
<1>d. c \in Contents
  BY <1>a, <1>c DEF Strong, TypeOK
<1>e. raced' \in [Requests -> BOOLEAN] /\ \A x \in Requests : raced[x] => raced'[x]
  BY <1>a DEF Race, Strong, TypeOK
<1> HIDE DEF s, c
<1>f. file' \in [Stores -> [Spots -> Contents \cup {None}]]
  <2>1. CASE file' = [file EXCEPT ![s][m] = None, ![s][t] = c]
    BY <1>c, <1>d, <2>1 DEF Strong, TypeOK
  <2>2. CASE file' = [file EXCEPT ![s][t] = c]
    BY <1>c, <1>d, <2>2 DEF Strong, TypeOK
  <2> QED BY <1>m, <2>1, <2>2
<1>g. /\ removed' \in [Requests -> Contents \cup {None}]
      /\ took' \in [Requests -> Spots \cup {None}]
  <2>1. /\ removed \in [Requests -> Contents \cup {None}]
        /\ took \in [Requests -> Spots \cup {None}]
    BY DEF Strong, TypeOK
  <2>2. CASE /\ removed' = [removed EXCEPT ![r] = c]
             /\ took' = [took EXCEPT ![r] = m]
    BY <1>c, <1>d, <2>1, <2>2
  <2> QED BY <1>m, <2>1, <2>2
<1>1. TypeOK'
  BY <1>a, <1>c, <1>d, <1>e, <1>f, <1>g DEF Strong, TypeOK, PCs, Results
<1>2. Good(r)'
  <2>1. /\ pc'[r] = "done" /\ query'[r] = query[r] /\ landed'[r] = c /\ c # None
        /\ got'[r] = None /\ readAt'[r] = None
    BY <1>a, <1>b, <1>d, ConstantTypes DEF Strong, TypeOK
  <2>2. \/ removed'[r] = None
        \/ removed'[r] = c /\ took'[r] = m /\ m # None /\ query[r].op = "move"
    BY <1>m, <1>b, <1>c, <1>d, ConstantTypes DEF Strong, TypeOK
  <2>3. Keeps(r)'
    BY <2>1, <2>2 DEF Keeps, Src, Lead
  <2>4. SourceKept(r)' /\ FolderLevel(r)'
    BY <2>1 DEF SourceKept, FolderLevel
  <2>5. Steps(r)'
    BY <1>b, <2>1, <2>2 DEF Steps, Uploading
  <2> QED BY <2>3, <2>4, <2>5 DEF Good
<1>3. \A x \in Requests \ {r} : StandsStill(x)
  BY <1>a, <1>m DEF StandsStill, Strong, TypeOK
<1>4. ASSUME NEW x \in Requests \ {r} PROVE SourceNoticed(x)
  <2> SUFFICES ASSUME query[x] # None, readAt[x] # None, ~raced'[x]
               PROVE  Held(ReadFrom(x))' \in {Held(ReadFrom(x)), None}
    BY <1>e DEF SourceNoticed
  <2>1. ReadFrom(x) # <<s, t>>
    BY <1>a DEF Race, Strong, TypeOK, ReadFrom
  <2>2. /\ ReadFrom(x) = <<StoreOf[Src(x)[1]], readAt[x]>>
        /\ StoreOf[Src(x)[1]] \in Stores /\ readAt[x] \in Spots
        /\ Held(ReadFrom(x)) = file[StoreOf[Src(x)[1]]][readAt[x]]
        /\ Held(ReadFrom(x))' = file'[StoreOf[Src(x)[1]]][readAt[x]]
    BY <1>a, ReadPlace DEF Strong, ReadFrom, In, Src, Held
  <2>3. file'[StoreOf[Src(x)[1]]][readAt[x]]
          \in {file[StoreOf[Src(x)[1]]][readAt[x]], None}
    BY <1>m, <1>c, <2>1, <2>2 DEF Strong, TypeOK
  <2> QED BY <2>2, <2>3
<1>5. \A x \in Requests : Good(x)'
  BY <1>1, <1>2, <1>3, <1>4, StillGood, StrongGood DEF Strong
<1> QED BY <1>1, <1>5 DEF Strong, TransferInv, MoveKeepsDocument, Good

LEMMA NativeStrong ==
  ASSUME Strong, NEW r \in Requests, Native(r)
  PROVE  Strong'
<1>1. CASE Stop(r, "failed")
  BY <1>1, StopStrong DEF Native, Results
<1>2. ASSUME NEW m \in Lead(Src(r)), NEW t \in Lead(Dst(r)), Dst(r)[2] # Root,
             NativeDone(r, In(Src(r), m), In(Dst(r), t))
      PROVE  Strong'
  BY <1>2, NativeDoneStrong DEF Native
<1>3. ASSUME NEW m \in Lead(Src(r)), Dst(r)[2] # Root, ReadToClone(r, In(Src(r), m))
      PROVE  Strong'
  <2>1. /\ Fetch(r, In(Src(r), m)) /\ Goto(r, "clone") /\ pc[r] = "native"
        /\ UNCHANGED <<upstream, query, absent, level, temp, result,
                       landed, landedAt, replaced, removed, took, touched, raced>>
    BY <1>3 DEF ReadToClone, Native
  <2> QED BY <1>3, <2>1, FetchStrong
<1> QED BY <1>1, <1>2, <1>3 DEF Native

LEMMA CloneStrong ==
  ASSUME Strong, NEW r \in Requests, Clone(r)
  PROVE  Strong'
<1>1. CASE Stop(r, "failed")
  BY <1>1, StopStrong DEF Clone, Results
<1>2. CASE AcceptAt(r, Place(Dst(r)), None) \/ AcceptBeside(r)
  <2>1. pc[r] = "clone" /\ query[r] # None /\ Dst(r)[2] # Root
    BY StrongGood DEF Clone, Good, Steps
  <2>2. Dst(r)[2] \in Lead(Dst(r)) /\ Place(Dst(r)) = In(Dst(r), Dst(r)[2])
    BY <2>1, TargetSpot DEF Strong, Place, In
  <2> QED BY <1>2, <2>1, <2>2, AcceptStrong
<1> QED BY <1>1, <1>2 DEF Clone
-----------------------------------------------------------------------------
(* Steps of no request.                                                    *)

LEMMA CrashStrong ==
  ASSUME Strong, Crash
  PROVE  Strong'
<1>1. /\ pc' = [r \in Requests |-> IF r \in Running THEN "done" ELSE pc[r]]
      /\ result' = [r \in Requests |-> IF r \in Running THEN "crashed" ELSE result[r]]
      /\ temp' = [r \in Requests |-> IF temp[r] = "live" THEN "orphan" ELSE temp[r]]
      /\ UNCHANGED <<file, dirs, query, absent, got, level, readAt, landed, landedAt,
                     replaced, removed, took, touched, raced>>
  BY DEF Crash, upstream, history
<1>2. TypeOK'
  BY <1>1 DEF Strong, TypeOK, PCs, Results
<1>3. ASSUME NEW r \in Requests PROVE Good(r)'
  <2>1. Good(r)
    BY StrongGood
  <2>2. CASE r \notin Running
    <3>1. StandsStill(r)
      BY <1>1, <2>2 DEF StandsStill, Strong, TypeOK
    <3>2. SourceNoticed(r)
      BY <1>1 DEF SourceNoticed, Held, ReadFrom, In, Src
    <3> QED BY <1>2, <2>1, <3>1, <3>2, StillGood DEF Strong
  <2>3. CASE r \in Running
    <3>1. pc'[r] = "done" /\ query[r] # None
      BY <1>1, <2>1, <2>3 DEF Running, Good, Steps
    <3>2. Keeps(r)' /\ SourceKept(r)'
      BY <1>1, <2>1 DEF Good, Keeps, SourceKept, Held, In, Src, Lead, Astray
    <3>3. Steps(r)' /\ FolderLevel(r)'
      BY <1>1, <2>1, <3>1 DEF Good, Steps, FolderLevel, Uploading, Src, Lead
    <3> QED BY <3>2, <3>3 DEF Good
  <2> QED BY <2>2, <2>3
<1> QED BY <1>2, <1>3 DEF Strong, TransferInv, MoveKeepsDocument, Good

LEMMA EnvironmentStep ==
  ASSUME Strong, TypeOK', UNCHANGED <<pc, query, got, level, result, readAt, landed, removed, took>>,
         \A x \in Requests : SourceNoticed(x)
  PROVE  Strong'
<1>1. \A x \in Requests : StandsStill(x)
  BY DEF StandsStill
<1>2. \A x \in Requests : Good(x)'
  BY <1>1, StillGood, StrongGood DEF Strong
<1> QED BY <1>2 DEF Strong, TransferInv, MoveKeepsDocument, Good

LEMMA ReachIsSpots ==
  ASSUME NEW s \in Stores
  PROVE  Reach(s) \subseteq Spots
BY ConstantsOK DEF ConstantsOK, Reach

LEMMA OthersStrong ==
  ASSUME Strong, Others
  PROVE  Strong'
<1>1. PICK s \in Stores :
        \/ \E m \in Reach(s) : OtherDelete(s, m) \/ \E c \in Contents : OtherWrite(s, m, c)
        \/ OtherFolders(s)
  BY ConstantTypes DEF Others
<1>r. Reach(s) \subseteq Spots
  BY ReachIsSpots
<1>2. ASSUME NEW m \in Reach(s), OtherDelete(s, m) PROVE Strong'
  <2>1. file' = [file EXCEPT ![s][m] = None] /\ UNCHANGED <<dirs, pc, local, result, history>>
    BY <1>2 DEF OtherDelete
  <2>2. TypeOK'
    BY <2>1 DEF Strong, TypeOK, local, history
  <2>3. \A x \in Requests : SourceNoticed(x)
    BY <1>r, <2>1, RemovalNoticed DEF Strong, local, history
  <2> QED BY <2>1, <2>2, <2>3, EnvironmentStep DEF local, history
<1>3. ASSUME NEW m \in Reach(s), NEW c \in Contents, OtherWrite(s, m, c) PROVE Strong'
  <2>1. /\ WriteAt(<<s, m>>, c, None)
        /\ UNCHANGED <<dirs, pc, local, result,
                       readAt, landed, landedAt, replaced, removed, took, touched>>
    BY <1>3 DEF OtherWrite
  <2>2. /\ file' \in [Stores -> [Spots -> Contents \cup {None}]]
        /\ raced' \in [Requests -> BOOLEAN]
    BY <2>1, WriteTypes DEF Strong
  <2>3. TypeOK'
    BY <2>1, <2>2 DEF Strong, TypeOK, local
  <2>4. ASSUME NEW x \in Requests PROVE SourceNoticed(x)
    <3>1. UNCHANGED <<query, readAt>> /\ x # None
      BY <2>1, ConstantTypes DEF local
    <3> QED BY <2>1, <3>1, WriteNoticed DEF Strong
  <2> QED BY <2>1, <2>3, <2>4, EnvironmentStep DEF local
<1>4. ASSUME OtherFolders(s) PROVE Strong'
  <2>1. /\ \/ dirs' = [dirs EXCEPT ![s] = @ + 1] /\ dirs[s] < Depth
           \/ dirs' = [dirs EXCEPT ![s] = @ - 1] /\ dirs[s] > 0
        /\ UNCHANGED <<file, pc, local, result, history>>
    BY <1>4 DEF OtherFolders
  <2>a. dirs' \in [Stores -> 0..Depth]
    <3>1. dirs \in [Stores -> 0..Depth]
      BY DEF Strong, TypeOK
    <3>2. dirs[s] < Depth => dirs[s] + 1 \in 0..Depth
      BY <3>1, ConstantTypes
    <3>3. dirs[s] > 0 => dirs[s] - 1 \in 0..Depth
      BY <3>1, ConstantTypes
    <3> QED BY <2>1, <3>1, <3>2, <3>3
  <2>2. TypeOK'
    BY <2>1, <2>a DEF Strong, TypeOK, local, history
  <2>3. \A x \in Requests : SourceNoticed(x)
    BY <2>1 DEF SourceNoticed, Held, ReadFrom, In, Src, local, history
  <2> QED BY <2>1, <2>2, <2>3, EnvironmentStep DEF local, history
<1> QED BY <1>1, <1>2, <1>3, <1>4, Zenon

LEMMA NextStrong == Strong /\ [Next]_vars => Strong'
<1> SUFFICES ASSUME Strong, [Next]_vars PROVE Strong'
  OBVIOUS
<1>1. ASSUME NEW r \in Requests, Start(r) PROVE Strong'
  BY <1>1, RejectStrong, StartTransferStrong, StartNativeStrong, StartUploadStrong DEF Start
<1>2. ASSUME NEW r \in Requests, Continue(r) PROVE Strong'
  BY <1>2, CheckTargetStrong, DescribeConflictStrong, DownloadStrong, StageStrong,
     StatFolderStrong, MakeFolderStrong, PutStrong, CleanupStrong, RemoveStrong,
     NativeStrong, CloneStrong DEF Continue
<1>3. CASE UNCHANGED vars
  <2>1. UNCHANGED <<file, dirs, pc, query, absent, got, level, temp, result, readAt,
                    landed, landedAt, replaced, removed, took, touched, raced>>
    BY <1>3 DEF vars
  <2>2. TypeOK' /\ \A x \in Requests : SourceNoticed(x)
    BY <2>1 DEF Strong, TypeOK, SourceNoticed, Held, ReadFrom, In, Src
  <2> QED BY <2>1, <2>2, EnvironmentStep
<1> QED BY <1>1, <1>2, <1>3, CrashStrong, OthersStrong DEF Next

(* The inductive invariant holds in every run: types, how far each request *)
(* is, and what it has read, delivered and taken.                          *)
THEOREM StrongInvariant == Spec => []Strong
<1>1. Init => Strong
  BY InitStrong
<1>2. Strong /\ [Next]_vars => Strong'
  BY NextStrong
<1> QED BY <1>1, <1>2, PTL DEF Spec

(* The variables keep their types: a request is always at a known step,    *)
(* and its folder loop never leaves the folder chain.                      *)
THEOREM TypeCorrect == Spec => []TypeOK
<1>1. Strong => TypeOK
  BY DEF Strong
<1> QED BY <1>1, StrongInvariant, PTL

(* How far a request is determines what it read, delivered and took, and   *)
(* the place it read from, which need not be the one an Alfresco           *)
(* connection leads to next, holds what was read, or nothing, until        *)
(* someone else writes there.                                              *)
THEOREM TransferInvariant == Spec => []TransferInv
<1>1. Strong => TransferInv
  BY DEF Strong
<1> QED BY <1>1, StrongInvariant, PTL

(* rename_path takes a document only after a server accepted one for it,   *)
(* from where its source leads, and what it takes a server had accepted,   *)
(* unless someone else wrote there after the move read it.  A driver that  *)
(* looks the source up anew for the delete, Alfresco's, is the exception:  *)
(* it takes what is where the second lookup ends.                          *)
THEOREM MoveSafe == Spec => []MoveKeepsDocument
<1>1. Strong => MoveKeepsDocument
  BY DEF Strong
<1> QED BY <1>1, StrongInvariant, PTL

-----------------------------------------------------------------------------
(* What the answers of a transfer are worth, what it may replace, and that *)
(* it implements the contract of TransferContract.                         *)

(* The parts of the strengthening speak of one request only; with Strong,  *)
(* each is inductive.                                                      *)

(* A temporary file belongs to a running upload.                           *)
Staged(r) == temp[r] = "live" => pc[r] \in Uploading

(* Until a request writes, nothing is touched, and it has no result before *)
(* it leaves its upload.                                                   *)
Quiet(r) ==
  /\ pc[r] \in {"ready", "check", "describe", "download", "stage", "native", "clone"} =>
       ~touched[r]
  /\ pc[r] \notin {"cleanup", "remove", "done"} => result[r] = None
  /\ pc[r] = "remove" => result[r] = "ok"
  /\ pc[r] = "cleanup" => result[r] \in {"ok", "failed", "version_required"}
  /\ result[r] = "conflict" => pc[r] = "done" /\ ~touched[r]
  /\ result[r] = "version_required" =>
       pc[r] \in {"cleanup", "done"} /\ landed[r] = None /\ removed[r] = None

(* A success has delivered what was read, and of a move has taken it.      *)
Cross(r) == query[r] # None /\ CrossConnection(query[r])
Earned(r) ==
  /\ pc[r] \in {"check", "describe", "download", "stage", "remove"} => Cross(r)
  /\ pc[r] \in Uploading => Cross(r) \/ query[r].op = "upload"
  /\ pc[r] = "native" => ~Cross(r)
  /\ pc[r] = "clone" => ~Cross(r) /\ query[r].op = "copy"
  /\ Cross(r) /\ got[r] # None => Size[got[r]] # "empty"
  /\ Cross(r) /\ landed[r] # None => landed[r] = got[r]
  /\ result[r] = "ok" => query[r] # None /\ landed[r] # None
  /\ pc[r] = "done" /\ result[r] = "ok" /\ query[r].op = "move" => removed[r] # None

(* A transfer gets past the check of its target by a choice, or by seeing  *)
(* nothing there.                                                          *)
Passed(r) ==
  Cross(r) /\ pc[r] \notin {"check", "describe"} /\ (pc[r] = "done" => removed[r] # None) =>
    Chosen(r) \/ absent[r]

(* What an upload took the place of, by the kind of the connection.        *)
Replaced(r) ==
  /\ pc[r] \in {"ready", "check"} => replaced[r] = None
  /\ replaced[r] # None =>
    \/ Kind[Dst(r)[1]] \in {"alfresco", "edocat"} /\ query[r].versioning
    \/ /\ Kind[Dst(r)[1]] = "webdav"
       /\ \/ query[r].overwrite
          \/ ~PutHonoursOverwrite /\ (query[r].op = "upload" \/ Chosen(r) \/ absent[r])

Own(r)  == Staged(r) /\ Quiet(r) /\ Earned(r) /\ Passed(r) /\ Replaced(r)
AnsInv  == Strong /\ \A r \in Requests : Own(r)

(* What Own speaks of does not change for a request that stands still.     *)
Untouched(x) ==
  /\ pc'[x] = pc[x] /\ query'[x] = query[x] /\ absent'[x] = absent[x]
  /\ got'[x] = got[x] /\ temp'[x] = temp[x] /\ result'[x] = result[x]
  /\ landed'[x] = landed[x] /\ replaced'[x] = replaced[x]
  /\ removed'[x] = removed[x] /\ touched'[x] = touched[x]

LEMMA OwnKept ==
  ASSUME NEW x \in Requests, Own(x), Untouched(x)
  PROVE  Own(x)'
<1> USE DEF Untouched, Cross, Chosen, Dst
<1>1. Staged(x)' /\ Quiet(x)'
  BY DEF Own, Staged, Quiet
<1>2. Earned(x)'
  BY DEF Own, Earned
<1>3. Passed(x)' /\ Replaced(x)'
  BY DEF Own, Passed, Replaced
<1> QED BY <1>1, <1>2, <1>3 DEF Own

LEMMA OwnStep ==
  ASSUME AnsInv, NEW r \in Requests, Own(r)', \A x \in Requests \ {r} : Untouched(x)
  PROVE  \A x \in Requests : Own(x)'
BY OwnKept DEF AnsInv

LEMMA RejectOwn ==
  ASSUME AnsInv, NEW r \in Requests, NEW q \in Queries, Reject(r, q)
  PROVE  \A x \in Requests : Own(x)'
<1> USE ConstantTypes DEF Reject, Begin, AnsInv, Own, Strong, TypeOK,
            TransferInv, Steps, Cross, Goto, upstream, local, history
<1>1. Staged(r)'
  BY DEF Staged, Uploading
<1>2. Quiet(r)'
  BY DEF Quiet, Uploading
<1>3. Earned(r)'
  BY DEF Earned, Uploading, Src, Dst
<1>4. Passed(r)'
  BY DEF Passed, Earned, Uploading, Chosen, Dst
<1>5. Replaced(r)'
  BY DEF Replaced, Chosen, Dst
<1>6. \A x \in Requests \ {r} : Untouched(x)
  BY DEF Untouched
<1> QED BY <1>1, <1>2, <1>3, <1>4, <1>5, <1>6, OwnStep

LEMMA StartTransferOwn ==
  ASSUME AnsInv, NEW r \in Requests, NEW q \in Queries, StartTransfer(r, q)
  PROVE  \A x \in Requests : Own(x)'
<1> USE ConstantTypes DEF StartTransfer, Begin, AnsInv, Own, Strong, TypeOK,
            TransferInv, Steps, Cross, Goto, upstream, local, history
<1>1. Staged(r)'
  BY DEF Staged, Uploading
<1>2. Quiet(r)'
  BY DEF Quiet, Uploading
<1>3. Earned(r)'
  BY DEF Earned, Uploading, Src, Dst
<1>4. Passed(r)'
  BY DEF Passed, Earned, Uploading, Chosen, Dst
<1>5. Replaced(r)'
  BY DEF Replaced, Chosen, Dst
<1>6. \A x \in Requests \ {r} : Untouched(x)
  BY DEF Untouched
<1> QED BY <1>1, <1>2, <1>3, <1>4, <1>5, <1>6, OwnStep

LEMMA StartNativeOwn ==
  ASSUME AnsInv, NEW r \in Requests, NEW q \in Queries, StartNative(r, q)
  PROVE  \A x \in Requests : Own(x)'
<1> USE ConstantTypes DEF StartNative, Begin, CrossConnection, AnsInv, Own,
            Strong, TypeOK, TransferInv, Steps, Cross, Goto, upstream, local,
            history
<1>1. Staged(r)'
  BY DEF Staged, Uploading
<1>2. Quiet(r)'
  BY DEF Quiet, Uploading
<1>3. Earned(r)'
  BY DEF Earned, Uploading, Src, Dst
<1>4. Passed(r)'
  BY DEF Passed, Earned, Uploading, Chosen, Dst
<1>5. Replaced(r)'
  BY DEF Replaced, Chosen, Dst
<1>6. \A x \in Requests \ {r} : Untouched(x)
  BY DEF Untouched
<1> QED BY <1>1, <1>2, <1>3, <1>4, <1>5, <1>6, OwnStep

LEMMA StartUploadOwn ==
  ASSUME AnsInv, NEW r \in Requests, NEW q \in Queries, StartUpload(r, q)
  PROVE  \A x \in Requests : Own(x)'
<1> USE ConstantTypes DEF StartUpload, Begin, AfterFolder, CrossConnection,
            AnsInv, Own, Strong, TypeOK, TransferInv, Steps, Cross, Goto,
            upstream, local, history
<1>1. Staged(r)'
  BY DEF Staged, Uploading
<1>2. Quiet(r)'
  BY DEF Quiet, Uploading
<1>3. Earned(r)'
  BY DEF Earned, Uploading, Src, Dst
<1>4. Passed(r)'
  BY DEF Passed, Earned, Uploading, Chosen, Dst
<1>5. Replaced(r)'
  BY DEF Replaced, Chosen, Dst
<1>6. \A x \in Requests \ {r} : Untouched(x)
  BY DEF Untouched
<1> QED BY <1>1, <1>2, <1>3, <1>4, <1>5, <1>6, OwnStep

LEMMA StopOwn ==
  ASSUME AnsInv, NEW r \in Requests, NEW res \in {"failed", "conflict"}, Stop(r, res),
         pc[r] \notin {"ready", "done"} \cup Uploading, res = "conflict" => pc[r] = "describe"
  PROVE  \A x \in Requests : Own(x)'
<1> USE ConstantTypes DEF Stop, Answer, AnsInv, Own, Strong, TypeOK,
            TransferInv, Steps, Cross, Goto, upstream, local, history
<1>1. Staged(r)'
  BY DEF Staged, Uploading
<1>2. Quiet(r)'
  BY DEF Quiet, Uploading
<1>3. Earned(r)'
  BY DEF Earned, Uploading, Src, Dst
<1>4. Passed(r)'
  BY DEF Passed, Earned, Uploading, Chosen, Dst
<1>5. Replaced(r)'
  BY DEF Replaced, Chosen, Dst
<1>6. \A x \in Requests \ {r} : Untouched(x)
  BY DEF Untouched
<1> QED BY <1>1, <1>2, <1>3, <1>4, <1>5, <1>6, OwnStep

LEMMA CheckTargetOwn ==
  ASSUME AnsInv, NEW r \in Requests, CheckTarget(r), ~Stop(r, "failed")
  PROVE  \A x \in Requests : Own(x)'
<1> USE ConstantTypes DEF CheckTarget, Proceeds, AnsInv, Own, Strong, TypeOK,
            TransferInv, Steps, Cross, Goto, upstream, local, history
<1>a. PICK missing \in BOOLEAN :
         /\ absent' = [absent EXCEPT ![r] = missing]
         /\ pc' = [pc EXCEPT ![r] = IF Proceeds(r, missing) THEN "download" ELSE "describe"]
  BY DEF Missing
<1>b. query' = query /\ Chosen(r)' = Chosen(r)
  BY DEF Chosen, Dst
<1>c. absent'[r] = missing
  BY <1>a
<1>1. Staged(r)'
  BY DEF Staged, Uploading
<1>2. Quiet(r)'
  BY DEF Quiet, Uploading
<1>3. Earned(r)'
  BY DEF Earned, Uploading, Src, Dst
<1>4. Passed(r)'
  <2>1. CASE Proceeds(r, missing)
    BY <1>b, <1>c, <2>1 DEF Passed
  <2>2. CASE ~Proceeds(r, missing)
    BY <1>a, <2>2 DEF Passed
  <2> QED BY <2>1, <2>2
<1>5. Replaced(r)'
  BY DEF Replaced, Chosen, Dst
<1>6. \A x \in Requests \ {r} : Untouched(x)
  BY DEF Untouched
<1> QED BY <1>1, <1>2, <1>3, <1>4, <1>5, <1>6, OwnStep

LEMMA DownloadOwn ==
  ASSUME AnsInv, NEW r \in Requests, Download(r), ~Stop(r, "failed")
  PROVE  \A x \in Requests : Own(x)'
<1> USE ConstantTypes DEF Download, Fetch, AfterFolder, AnsInv, Own, Strong, TypeOK,
            TransferInv, Steps, Cross, Goto, upstream, local, history
<1>1. Staged(r)'
  BY DEF Staged, Uploading
<1>2. Quiet(r)'
  BY DEF Quiet, Uploading
<1>3. Earned(r)'
  BY DEF Earned, Uploading, Src, Dst
<1>4. Passed(r)'
  BY DEF Passed, Earned, Uploading, Chosen, Dst
<1>5. Replaced(r)'
  BY DEF Replaced, Chosen, Dst
<1>6. \A x \in Requests \ {r} : Untouched(x)
  BY DEF Untouched
<1> QED BY <1>1, <1>2, <1>3, <1>4, <1>5, <1>6, OwnStep

LEMMA StageOwn ==
  ASSUME AnsInv, NEW r \in Requests, Stage(r)
  PROVE  \A x \in Requests : Own(x)'
<1> USE ConstantTypes DEF Stage, Answer, AfterFolder, AnsInv, Own, Strong,
            TypeOK, TransferInv, Steps, Cross, Goto, upstream, local, history
<1>1. Staged(r)'
  BY DEF Staged, Uploading
<1>2. Quiet(r)'
  BY DEF Quiet, Uploading
<1>3. Earned(r)'
  BY DEF Earned, Uploading, Src, Dst
<1>4. Passed(r)'
  BY DEF Passed, Earned, Uploading, Chosen, Dst
<1>5. Replaced(r)'
  BY DEF Replaced, Chosen, Dst
<1>6. \A x \in Requests \ {r} : Untouched(x)
  BY DEF Untouched
<1> QED BY <1>1, <1>2, <1>3, <1>4, <1>5, <1>6, OwnStep

LEMMA StatFolderOwn ==
  ASSUME AnsInv, NEW r \in Requests, StatFolder(r)
  PROVE  \A x \in Requests : Own(x)'
<1> USE ConstantTypes DEF StatFolder, LeaveUpload, AfterUpload, PassFolder,
            AfterFolder, AnsInv, Own, Strong, TypeOK, TransferInv, Steps,
            Cross, Goto, upstream, local, history
<1>1. Staged(r)'
  BY DEF Staged, Uploading
<1>2. Quiet(r)'
  BY DEF Quiet, Uploading
<1>3. Earned(r)'
  BY DEF Earned, Uploading, Src, Dst
<1>4. Passed(r)'
  BY DEF Passed, Earned, Uploading, Chosen, Dst
<1>5. Replaced(r)'
  BY DEF Replaced, Chosen, Dst
<1>6. \A x \in Requests \ {r} : Untouched(x)
  BY DEF Untouched
<1> QED BY <1>1, <1>2, <1>3, <1>4, <1>5, <1>6, OwnStep

LEMMA MakeFolderOwn ==
  ASSUME AnsInv, NEW r \in Requests, MakeFolder(r)
  PROVE  \A x \in Requests : Own(x)'
<1> USE ConstantTypes DEF MakeFolder, FolderMade, Touch, LeaveUpload,
            AfterUpload, PassFolder, AfterFolder, AnsInv, Own, Strong, TypeOK,
            TransferInv, Steps, Cross, Goto, upstream, local, history
<1>1. Staged(r)'
  BY DEF Staged, Uploading
<1>2. Quiet(r)'
  BY DEF Quiet, Uploading
<1>3. Earned(r)'
  BY DEF Earned, Uploading, Src, Dst
<1>4. Passed(r)'
  BY DEF Passed, Earned, Uploading, Chosen, Dst
<1>5. Replaced(r)'
  BY DEF Replaced, Chosen, Dst
<1>6. \A x \in Requests \ {r} : Untouched(x)
  BY DEF Untouched
<1> QED BY <1>1, <1>2, <1>3, <1>4, <1>5, <1>6, OwnStep

LEMMA NotAcceptedOwn ==
  ASSUME AnsInv, NEW r \in Requests, NEW res \in {"failed", "version_required"},
         NotAccepted(r, res),
         pc[r] = "put"
  PROVE  \A x \in Requests : Own(x)'
<1> USE ConstantTypes DEF NotAccepted, LeaveUpload, AfterUpload, AnsInv, Own,
            Strong, TypeOK, TransferInv, Steps, Cross, Goto, upstream, local,
            history
<1>1. Staged(r)'
  BY DEF Staged, Uploading
<1>2. Quiet(r)'
  BY DEF Quiet, Uploading
<1>3. Earned(r)'
  BY DEF Earned, Uploading, Src, Dst
<1>4. Passed(r)'
  BY DEF Passed, Earned, Uploading, Chosen, Dst
<1>5. Replaced(r)'
  BY DEF Replaced, Chosen, Dst
<1>6. \A x \in Requests \ {r} : Untouched(x)
  BY DEF Untouched
<1> QED BY <1>1, <1>2, <1>3, <1>4, <1>5, <1>6, OwnStep

LEMMA AcceptOwn ==
  ASSUME AnsInv, NEW r \in Requests, NEW over, Accept(r, over),
         pc[r] \in {"put", "clone"},
         over # None => /\ pc[r] = "put"
                        /\ \/ Kind[Dst(r)[1]] \in {"alfresco", "edocat"} /\ query[r].versioning
                           \/ /\ Kind[Dst(r)[1]] = "webdav"
                              /\ query[r].overwrite \/ ~PutHonoursOverwrite
  PROVE  \A x \in Requests : Own(x)'
<1> USE ConstantTypes DEF Accept, Touch, LeaveUpload, AfterUpload, AnsInv, Own, Strong, TypeOK, TransferInv, Steps, Cross,
            Goto, upstream, local, history
<1>1. Staged(r)'
  BY DEF Staged, Uploading
<1>2. Quiet(r)'
  BY DEF Quiet, Uploading
<1>3. Earned(r)'
  <2>1. /\ query' = query /\ got' = got /\ landed'[r] = got[r] /\ got[r] # None
        /\ removed' = removed
    OBVIOUS
  <2>2. pc'[r] \in {"cleanup", "remove", "done"}
    OBVIOUS
  <2>3. pc'[r] = "done" /\ result'[r] = "ok" => query[r].op # "move"
    OBVIOUS
  <2>4. pc'[r] = "remove" => query[r].op = "move"
    OBVIOUS
  <2>5. pc'[r] = "cleanup" => temp[r] = "live"
    OBVIOUS
  <2>6. query[r] # None
    OBVIOUS
  <2> QED BY <2>1, <2>2, <2>3, <2>4, <2>5, <2>6 DEF Earned, Uploading, Staged
<1>4. Passed(r)'
  BY DEF Passed, Earned, Uploading, Chosen, Dst
<1>5. Replaced(r)'
  BY DEF Replaced, Passed, Earned, Uploading, Chosen, Dst, CrossConnection
<1>6. \A x \in Requests \ {r} : Untouched(x)
  BY DEF Untouched
<1> QED BY <1>1, <1>2, <1>3, <1>4, <1>5, <1>6, OwnStep

LEMMA CleanupOwn ==
  ASSUME AnsInv, NEW r \in Requests, Cleanup(r)
  PROVE  \A x \in Requests : Own(x)'
<1> USE ConstantTypes DEF Cleanup, AfterUpload, AnsInv, Own, Strong, TypeOK,
            TransferInv, Steps, Cross, Goto, upstream, local, history
<1>1. Staged(r)'
  BY DEF Staged, Uploading
<1>2. Quiet(r)'
  BY DEF Quiet, Uploading
<1>3. Earned(r)'
  BY DEF Earned, Uploading, Src, Dst
<1>4. Passed(r)'
  BY DEF Passed, Earned, Uploading, Chosen, Dst
<1>5. Replaced(r)'
  BY DEF Replaced, Chosen, Dst
<1>6. \A x \in Requests \ {r} : Untouched(x)
  BY DEF Untouched
<1> QED BY <1>1, <1>2, <1>3, <1>4, <1>5, <1>6, OwnStep

LEMMA RemoveOwn ==
  ASSUME AnsInv, NEW r \in Requests, NEW place, RemoveAt(r, place), pc[r] = "remove"
  PROVE  \A x \in Requests : Own(x)'
<1> USE ConstantTypes DEF RemoveAt, Take, Touch, Answer, RemoveOutcomes, AnsInv, Own,
            Strong, TypeOK, TransferInv, Steps, Cross, Goto, upstream, local,
            history
<1>1. Staged(r)'
  BY DEF Staged, Uploading
<1>2. Quiet(r)'
  BY DEF Quiet, Uploading
<1>3. Earned(r)'
  BY DEF Earned, Uploading, Src, Dst
<1>4. Passed(r)'
  BY DEF Passed, Earned, Uploading, Chosen, Dst
<1>5. Replaced(r)'
  BY DEF Replaced, Chosen, Dst
<1>6. \A x \in Requests \ {r} : Untouched(x)
  BY DEF Untouched
<1> QED BY <1>1, <1>2, <1>3, <1>4, <1>5, <1>6, OwnStep

LEMMA NativeDoneOwn ==
  ASSUME AnsInv, NEW r \in Requests, NEW from, NEW to, NativeDone(r, from, to), pc[r] = "native"
  PROVE  \A x \in Requests : Own(x)'
<1> USE ConstantTypes DEF NativeDone, Take, Touch, Answer, RemoveOutcomes,
            AnsInv, Own, Strong, TypeOK, TransferInv, Steps, Cross, Goto,
            upstream, local, history
<1>1. Staged(r)'
  BY DEF Staged, Uploading
<1>2. Quiet(r)'
  BY DEF Quiet, Uploading
<1>3. Earned(r)'
  BY DEF Earned, Uploading, Src, Dst
<1>4. Passed(r)'
  BY DEF Passed, Earned, Uploading, Chosen, Dst
<1>5. Replaced(r)'
  BY DEF Replaced, Chosen, Dst
<1>6. \A x \in Requests \ {r} : Untouched(x)
  BY DEF Untouched
<1> QED BY <1>1, <1>2, <1>3, <1>4, <1>5, <1>6, OwnStep

LEMMA ReadToCloneOwn ==
  ASSUME AnsInv, NEW r \in Requests, NEW from, ReadToClone(r, from), pc[r] = "native"
  PROVE  \A x \in Requests : Own(x)'
<1> USE ConstantTypes DEF ReadToClone, Fetch, ByClone, AnsInv, Own, Strong, TypeOK,
            TransferInv, Steps, Cross, Goto, upstream, local, history
<1>1. Staged(r)'
  BY DEF Staged, Uploading
<1>2. Quiet(r)'
  BY DEF Quiet, Uploading
<1>3. Earned(r)'
  BY DEF Earned, Uploading, Src, Dst
<1>4. Passed(r)'
  BY DEF Passed, Earned, Uploading, Chosen, Dst
<1>5. Replaced(r)'
  BY DEF Replaced, Chosen, Dst
<1>6. \A x \in Requests \ {r} : Untouched(x)
  BY DEF Untouched
<1> QED BY <1>1, <1>2, <1>3, <1>4, <1>5, <1>6, OwnStep

LEMMA CrashOwn ==
  ASSUME AnsInv, Crash
  PROVE  \A x \in Requests : Own(x)'
<1> SUFFICES ASSUME NEW r \in Requests PROVE Own(r)'
  OBVIOUS
<1> USE DEF AnsInv, Own, Strong, TypeOK, Crash, Running, Cross, upstream, history
<1>1. Staged(r)'
  BY DEF Staged
<1>2. Quiet(r)'
  BY DEF Quiet
<1>3. Earned(r)'
  BY DEF Earned, Uploading
<1>4. Passed(r)'
  BY DEF Passed, Chosen, Dst, TransferInv, Steps
<1>5. Replaced(r)'
  BY DEF Replaced, Chosen, Dst
<1> QED BY <1>1, <1>2, <1>3, <1>4, <1>5

LEMMA IdleOwn ==
  ASSUME AnsInv, Others \/ UNCHANGED vars
  PROVE  \A x \in Requests : Own(x)'
<1>1. UNCHANGED <<pc, local, result, landed, replaced, removed, touched>>
  BY DEF Others, OtherDelete, OtherWrite, OtherFolders, history, vars, local
<1>2. \A x \in Requests : Untouched(x)
  BY <1>1 DEF Untouched, local
<1> QED BY <1>2, OwnKept DEF AnsInv

LEMMA StartOwn ==
  ASSUME AnsInv, NEW r \in Requests, Start(r)
  PROVE  \A x \in Requests : Own(x)'
BY RejectOwn, StartTransferOwn, StartNativeOwn, StartUploadOwn DEF Start

LEMMA PutOwn ==
  ASSUME AnsInv, NEW r \in Requests, Put(r)
  PROVE  \A x \in Requests : Own(x)'
<1>1. pc[r] = "put"
  BY DEF Put
<1>2. CASE NotAccepted(r, "failed")
  BY <1>1, <1>2, NotAcceptedOwn
<1>3. ASSUME NEW place, UploadNew(r, place) PROVE \A x \in Requests : Own(x)'
  BY <1>1, <1>3, AcceptOwn DEF UploadNew, AcceptAt
<1>4. ASSUME NEW place, UploadVersion(r, place) PROVE \A x \in Requests : Own(x)'
  BY <1>1, <1>4, AcceptOwn DEF UploadVersion, AcceptAt
<1>5. ASSUME NEW place, UploadOver(r, place) PROVE \A x \in Requests : Own(x)'
  BY <1>1, <1>5, AcceptOwn DEF UploadOver, AcceptAt
<1>6. ASSUME NEW place, UploadSibling(r, place) PROVE \A x \in Requests : Own(x)'
  BY <1>1, <1>6, AcceptOwn DEF UploadSibling, AcceptBeside
<1>7. CASE VersionRequired(r)
  BY <1>1, <1>7, NotAcceptedOwn DEF VersionRequired
<1> QED BY <1>2, <1>3, <1>4, <1>5, <1>6, <1>7 DEF Put

LEMMA ContinueOwn ==
  ASSUME AnsInv, NEW r \in Requests, Continue(r)
  PROVE  \A x \in Requests : Own(x)'
<1> USE DEF Uploading
<1>1. CASE CheckTarget(r)
  BY <1>1, StopOwn, CheckTargetOwn DEF CheckTarget
<1>2. CASE DescribeConflict(r)
  BY <1>2, StopOwn DEF DescribeConflict
<1>3. CASE Download(r)
  BY <1>3, StopOwn, DownloadOwn DEF Download
<1>4. CASE Stage(r) \/ StatFolder(r) \/ MakeFolder(r) \/ Put(r) \/ Cleanup(r)
  BY <1>4, StageOwn, StatFolderOwn, MakeFolderOwn, PutOwn, CleanupOwn
<1>5. CASE Remove(r)
  BY <1>5, StopOwn, RemoveOwn DEF Remove
<1>6. CASE Native(r)
  BY <1>6, StopOwn, NativeDoneOwn, ReadToCloneOwn DEF Native
<1>7. CASE Clone(r)
  BY <1>7, StopOwn, AcceptOwn DEF Clone, AcceptAt, AcceptBeside
<1> QED BY <1>1, <1>2, <1>3, <1>4, <1>5, <1>6, <1>7 DEF Continue

LEMMA InitAnsInv == Init => AnsInv
<1> SUFFICES ASSUME Init PROVE AnsInv
  OBVIOUS
<1>1. ASSUME NEW r \in Requests PROVE Own(r)
  BY NoneIsNoAnswer DEF Init, Own, Staged, Quiet, Earned, Passed, Replaced, Cross,
       Uploading
<1> QED BY <1>1, InitStrong DEF AnsInv

LEMMA NextAnsInv == AnsInv /\ [Next]_vars => AnsInv'
<1> SUFFICES ASSUME AnsInv, [Next]_vars PROVE AnsInv'
  OBVIOUS
<1>1. Strong'
  BY NextStrong DEF AnsInv
<1>2. \A x \in Requests : Own(x)'
  BY StartOwn, ContinueOwn, CrashOwn, IdleOwn DEF Next
<1> QED BY <1>1, <1>2 DEF AnsInv

(* The strengthening holds in every reachable state.                       *)
THEOREM AnswerInvariant == Spec => []AnsInv
<1> QED BY InitAnsInv, NextAnsInv, PTL DEF Spec

(* The temporary file of a large payload outlives its upload only through  *)
(* a failed unlink or a crash (bridge_service.py, the finally clauses).    *)
THEOREM TempFileIsReclaimed == Spec => []TempFileReclaimed
<1>1. AnsInv => TempFileReclaimed
  BY DEF AnsInv, Own, Staged, TempFileReclaimed
<1> QED BY <1>1, AnswerInvariant, PTL

(* An answer that asks the user to choose has changed nothing upstream.    *)
THEOREM ConflictsLeaveNoTrace == Spec => []ConflictLeavesNoTrace
<1>1. AnsInv => ConflictLeavesNoTrace
  BY DEF AnsInv, Own, Quiet, ConflictLeavesNoTrace
<1> QED BY <1>1, AnswerInvariant, PTL

(* Success is reported only for what a server accepted, never for an empty *)
(* download, and of a move only when it removed its source.                *)
THEOREM SuccessIsEarned == Spec => []OkIsEarned
<1>1. AnsInv => OkIsEarned
  BY DEF AnsInv, Own, Earned, Cross, OkIsEarned
<1> QED BY <1>1, AnswerInvariant, PTL

(* A document found at the target is replaced only by the caller's choice, *)
(* when the connections with versions are those the drivers declare.       *)
THEOREM ReplacedByChoice ==
  ASSUME \A c \in Conns : Versioned[c] <=> Kind[c] # "webdav"
  PROVE  Spec => []ReplaceOnlyByChoice
<1>1. AnsInv => ReplaceOnlyByChoice
  <2> SUFFICES ASSUME AnsInv, NEW r \in Requests, replaced[r] # None
               PROVE  \/ Chosen(r)
                      \/ Kind[Dst(r)[1]] = "webdav" /\ ~PutHonoursOverwrite
                         /\ (query[r].op = "upload" \/ absent[r])
    BY DEF ReplaceOnlyByChoice
  <2>1. query[r] \in Query
    BY DEF AnsInv, Own, Replaced, Strong, TypeOK, TransferInv, Steps
  <2>2. Dst(r)[1] \in Conns
    BY <2>1 DEF Query, Dst, Nodes
  <2>3. Versioned[Dst(r)[1]] <=> Kind[Dst(r)[1]] # "webdav"
    BY <2>2
  <2> QED BY <2>3 DEF AnsInv, Own, Replaced, Chosen
<1> QED BY <1>1, AnswerInvariant, PTL

(* A move onto the document itself deletes it only by the caller's choice, *)
(* or when the document was not there when the request looked.             *)
THEOREM SelfMoveIsChosen == Spec => []SelfMoveNeedsChoice
<1>1. AnsInv => SelfMoveNeedsChoice
  <2> SUFFICES ASSUME AnsInv, NEW r \in Requests, removed[r] # None, CrossConnection(query[r])
               PROVE  Chosen(r) \/ absent[r]
    BY DEF SelfMoveNeedsChoice
  <2>1. query[r] # None /\ pc[r] \notin {"check", "describe"}
    BY DEF AnsInv, Strong, TypeOK, TransferInv, Steps
  <2> QED BY <2>1 DEF AnsInv, Own, Passed, Cross
<1> QED BY <1>1, AnswerInvariant, PTL
-----------------------------------------------------------------------------
(* Two moves of one document.  A place that a move emptied stays empty     *)
(* until a client of a busy repository or a request puts something there.  *)
Restored(place) ==
  \/ place[1] \in Busy
  \/ \E x \in Requests : landed[x] # None /\ In(Dst(x), landedAt[x]) = place

(* The place a request took a document from, once it has taken one.        *)
TookFrom(x) == In(Src(x), took[x])

Emptied(r) == removed[r] # None => Held(TookFrom(r)) = None \/ Restored(TookFrom(r))
Twice(r, x) ==
  removed[r] # None /\ removed[x] # None /\ TookFrom(r) = TookFrom(x) =>
    Restored(TookFrom(r))
MovesInv ==
  /\ \A r \in Requests : Emptied(r)
  /\ \A r \in Requests : \A x \in Requests \ {r} : Twice(r, x)

(* What any step does to what was delivered and taken, and to the places.  *)
Recorded ==
  \A x \in Requests :
    /\ landed[x] # None =>
         landed'[x] # None /\ landedAt'[x] = landedAt[x] /\ query'[x] = query[x]
    /\ removed[x] # None =>
         removed'[x] = removed[x] /\ took'[x] = took[x] /\ query'[x] = query[x]
Filled ==
  \A s \in Stores, m \in Spots :
    file[s][m] = None => file'[s][m] = None \/ Restored(<<s, m>>)'
TakesAt(r, s, m) ==
  /\ took'[r] = m /\ StoreOf[Src(r)[1]] = s /\ query' = query
  /\ file[s][m] # None
  /\ file'[s][m] = None \/ Restored(<<s, m>>)'
Takes(r) ==
  /\ removed' = [removed EXCEPT ![r] = removed'[r]]
  /\ removed'[r] # removed[r] => \E s \in Stores, m \in Spots : TakesAt(r, s, m)

LEMMA TookPlace ==
  ASSUME Strong, NEW x \in Requests, removed[x] # None
  PROVE  /\ query[x] # None
         /\ StoreOf[Src(x)[1]] \in Stores /\ took[x] \in Spots
         /\ TookFrom(x) = <<StoreOf[Src(x)[1]], took[x]>>
         /\ Held(TookFrom(x)) = file[StoreOf[Src(x)[1]]][took[x]]
<1>1. query[x] # None /\ took[x] # None
  BY StrongGood DEF Good, Steps
<1>2. StoreOf[Src(x)[1]] \in Stores /\ took[x] \in Spots
  BY <1>1, SourceSpot DEF Strong, TypeOK
<1> QED BY <1>1, <1>2 DEF TookFrom, In, Held

LEMMA RestoredKept ==
  ASSUME Recorded, NEW place, Restored(place)
  PROVE  Restored(place)'
BY DEF Restored, Recorded, In, Dst

LEMMA RestoredAt ==
  ASSUME NEW p, NEW q, p = q
  PROVE  /\ Restored(p) <=> Restored(q)
         /\ Restored(p)' <=> Restored(q)'
OBVIOUS

(* A place that is emptied stays so, or is restored, for who took from it. *)
LEMMA TakenStays ==
  ASSUME Strong, Recorded, Filled, NEW x \in Requests, removed[x] # None
  PROVE  /\ removed'[x] # None /\ TookFrom(x)' = TookFrom(x)
         /\ Held(TookFrom(x)) = None =>
              Held(TookFrom(x))' = None \/ Restored(TookFrom(x))'
<1>1. removed'[x] = removed[x] /\ took'[x] = took[x] /\ query'[x] = query[x]
  BY DEF Recorded
<1>2. TookFrom(x)' = TookFrom(x)
  BY <1>1 DEF TookFrom, In, Src
<1>3. Held(TookFrom(x))' = file'[StoreOf[Src(x)[1]]][took[x]]
  BY <1>1 DEF Held, TookFrom, In, Src
<1> QED BY <1>1, <1>2, <1>3, TookPlace DEF Filled

LEMMA TwiceSymmetric ==
  ASSUME NEW x, NEW y, Twice(x, y)'
  PROVE  Twice(y, x)'
BY DEF Twice

LEMMA MovesStep ==
  ASSUME Strong, MovesInv, Recorded, Filled, NEW r \in Requests, Takes(r)
  PROVE  MovesInv'
<1>1. ASSUME NEW x \in Requests, removed[x] = None, removed'[x] # None
      PROVE  x = r /\ \E s \in Stores, m \in Spots : TakesAt(r, s, m)
  BY <1>1 DEF Takes, Strong, TypeOK
<1>2. ASSUME NEW s, NEW m, TakesAt(r, s, m)
      PROVE  TookFrom(r)' = <<s, m>> /\ Held(TookFrom(r))' = file'[s][m]
  <2>1. Src(r)' = Src(r)
    BY <1>2 DEF TakesAt, Src
  <2> QED BY <1>2, <2>1 DEF TakesAt, TookFrom, In, Held
<1>3. ASSUME NEW x \in Requests PROVE Emptied(x)'
  <2>1. CASE removed[x] # None
    BY <2>1, TakenStays, RestoredKept DEF MovesInv, Emptied
  <2>2. CASE removed[x] = None /\ removed'[x] # None
    <3>1. PICK s \in Stores, m \in Spots : TakesAt(r, s, m)
      BY <1>1, <2>2
    <3>2. TookFrom(r)' = <<s, m>> /\ Held(TookFrom(r))' = file'[s][m] /\ x = r
      BY <1>1, <1>2, <2>2, <3>1
    <3>3. file'[s][m] = None \/ Restored(<<s, m>>)'
      BY <3>1 DEF TakesAt
    <3> QED BY <3>2, <3>3, RestoredAt DEF Emptied
  <2> QED BY <2>1, <2>2 DEF Emptied
<1>4. ASSUME NEW x \in Requests, NEW y \in Requests \ {x}, removed[x] # None
      PROVE  Twice(x, y)'
  <2> SUFFICES ASSUME removed'[y] # None, TookFrom(x)' = TookFrom(y)'
               PROVE  Restored(TookFrom(x))'
    BY DEF Twice
  <2>0. TookFrom(x)' = TookFrom(x)
    BY <1>4, TakenStays
  <2>1. CASE removed[y] # None
    BY <1>4, <2>0, <2>1, TakenStays, RestoredKept, RestoredAt DEF MovesInv, Twice
  <2>2. CASE removed[y] = None
    <3>1. PICK s \in Stores, m \in Spots : TakesAt(r, s, m)
      BY <1>1, <2>2
    <3>2. TookFrom(x) = <<s, m>>
      BY <1>1, <1>2, <2>0, <2>2, <3>1
    <3>3. Held(TookFrom(x)) # None
      BY <3>1, <3>2 DEF TakesAt, Held
    <3> QED BY <1>4, <2>0, <3>3, RestoredKept, RestoredAt DEF MovesInv, Emptied
  <2> QED BY <2>1, <2>2
<1>5. ASSUME NEW x \in Requests, NEW y \in Requests \ {x} PROVE Twice(x, y)'
  <2>1. CASE removed[x] # None
    BY <1>4, <2>1
  <2>2. CASE removed[y] # None
    BY <1>4, <2>2, TwiceSymmetric
  <2>3. CASE removed[x] = None /\ removed[y] = None
    <3>1. removed'[x] = None \/ removed'[y] = None
      BY <1>1, <2>3
    <3> QED BY <3>1 DEF Twice
  <2> QED BY <2>1, <2>2, <2>3
<1> QED BY <1>3, <1>5 DEF MovesInv

(* What was delivered at a spot restores it.                               *)
LEMMA DeliveredRestores ==
  ASSUME NEW r \in Requests, NEW s, NEW m, landed'[r] # None, landedAt'[r] = m,
         query'[r] = query[r], StoreOf[Dst(r)[1]] = s
  PROVE  Restored(<<s, m>>)'
<1>1. In(Dst(r), landedAt[r])' = <<s, m>>
  BY DEF In, Dst
<1> QED BY <1>1 DEF Restored

LEMMA AcceptRecords ==
  ASSUME Strong, NEW r \in Requests, NEW m, NEW over, pc[r] \in {"put", "clone"},
         AcceptAt(r, In(Dst(r), m), over) \/ AcceptBeside(r)
  PROVE  Recorded /\ Filled /\ Takes(r)
<1>1. /\ UNCHANGED <<query, removed, took>> /\ landed' = [landed EXCEPT ![r] = got[r]]
      /\ \E n : landedAt' = [landedAt EXCEPT ![r] = n]
      /\ got[r] # None /\ landed[r] = None
  BY StrongGood DEF AcceptAt, AcceptBeside, Accept, local, Good, Steps
<1>s. PICK s \in Stores : s = StoreOf[Dst(r)[1]]
  BY StrongGood, TargetSpot DEF Good, Steps, Strong
<1>2. Recorded
  BY <1>1 DEF Recorded, Strong, TypeOK
<1>3. Filled
  <2>1. CASE AcceptAt(r, In(Dst(r), m), over)
    <3>1. file' = [file EXCEPT ![s][m] = got[r]] /\ landedAt' = [landedAt EXCEPT ![r] = m]
      BY <1>s, <2>1 DEF AcceptAt, WriteAt, In
    <3>2. landed'[r] # None /\ landedAt'[r] = m
      BY <1>1, <3>1 DEF Strong, TypeOK
    <3>3. Restored(<<s, m>>)'
      BY <1>1, <1>s, <3>2, DeliveredRestores
    <3>4. ASSUME NEW t \in Stores, NEW n \in Spots, ~(t = s /\ n = m)
          PROVE  file'[t][n] = file[t][n]
      BY <3>1, <3>4 DEF Strong, TypeOK
    <3>5. ASSUME NEW t \in Stores, NEW n \in Spots, t = s /\ n = m
          PROVE  Restored(<<t, n>>)'
      BY <3>3, <3>5
    <3> QED BY <3>4, <3>5 DEF Filled
  <2>2. CASE AcceptBeside(r)
    BY <2>2 DEF AcceptBeside, Filled
  <2> QED BY <2>1, <2>2
<1>4. Takes(r)
  BY <1>1 DEF Takes, Strong, TypeOK
<1> QED BY <1>2, <1>3, <1>4

(* A step that neither delivers nor takes nor writes a file.               *)
LEMMA IdleRecords ==
  ASSUME Strong, NEW r \in Requests, UNCHANGED <<file, landed, landedAt, removed, took>>,
         \A x \in Requests : query'[x] = query[x] \/ pc[x] = "ready"
  PROVE  Recorded /\ Filled /\ Takes(r)
<1>1. Recorded
  BY DEF Recorded, Strong, TransferInv, Steps
<1>2. Filled
  BY DEF Filled
<1>3. Takes(r)
  BY DEF Takes, Strong, TypeOK
<1> QED BY <1>1, <1>2, <1>3

LEMMA RemoveRecords ==
  ASSUME Strong, NEW r \in Requests, pc[r] = "remove",
         NEW m \in Lead(Src(r)), RemoveAt(r, In(Src(r), m))
  PROVE  Recorded /\ Filled /\ Takes(r)
<1>q. removed[r] = None /\ query[r] # None
  BY StrongGood DEF Good, Steps
<1>2. m \in Spots
  BY <1>q, SourceSpot DEF Strong
<1>s. PICK s \in Stores : s = StoreOf[Src(r)[1]]
  BY <1>q, SourceSpot DEF Strong
<1>1. /\ removed' = [removed EXCEPT ![r] = file[s][m]]
      /\ took' = [took EXCEPT ![r] = m]
      /\ file' = [file EXCEPT ![s][m] = None]
      /\ UNCHANGED <<query, landed, landedAt>> /\ file[s][m] # None
  BY <1>s DEF RemoveAt, Take, Held, In, local
<1>3. Recorded
  BY <1>1, <1>q DEF Recorded, Strong, TypeOK
<1>4. Filled
  BY <1>1 DEF Filled, Strong, TypeOK
<1>5. file'[s][m] = None /\ took'[r] = m
  BY <1>1, <1>2 DEF Strong, TypeOK
<1>6. TakesAt(r, s, m)
  BY <1>1, <1>5, <1>s DEF TakesAt
<1>7. Takes(r)
  BY <1>1, <1>2, <1>6 DEF Takes, Strong, TypeOK
<1> QED BY <1>3, <1>4, <1>7

LEMMA NativeRecords ==
  ASSUME Strong, NEW r \in Requests, pc[r] = "native",
         NEW m \in Lead(Src(r)), NEW t \in Lead(Dst(r)),
         NativeDone(r, In(Src(r), m), In(Dst(r), t))
  PROVE  Recorded /\ Filled /\ Takes(r)
<1>1. /\ removed[r] = None /\ landed[r] = None /\ query[r] # None
      /\ Src(r)[1] = Dst(r)[1]
  BY StrongGood DEF Good, Steps
<1>2. m \in Spots /\ t \in Spots
  BY <1>1, SourceSpot, TargetSpot DEF Strong
<1>s. PICK s \in Stores : s = StoreOf[Src(r)[1]] /\ s = StoreOf[Dst(r)[1]]
  BY <1>1, SourceSpot DEF Strong
<1>c. PICK c \in Contents \cup {None} : c = file[s][m]
  BY <1>2, <1>s DEF Strong, TypeOK
<1>3. /\ landed' = [landed EXCEPT ![r] = c] /\ landedAt' = [landedAt EXCEPT ![r] = t]
      /\ UNCHANGED query /\ c # None
  BY <1>s, <1>c DEF NativeDone, Held, In, local
<1>4. \/ /\ removed' = [removed EXCEPT ![r] = c]
         /\ took' = [took EXCEPT ![r] = m]
         /\ file' = [file EXCEPT ![s][m] = None, ![s][t] = c]
      \/ /\ UNCHANGED <<removed, took>>
         /\ file' = [file EXCEPT ![s][t] = c]
  BY <1>s, <1>c DEF NativeDone, Take, Held, In
<1>5. Restored(<<s, t>>)'
  <2>1. landed'[r] # None /\ landedAt'[r] = t
    BY <1>3 DEF Strong, TypeOK
  <2> QED BY <1>3, <1>s, <2>1, DeliveredRestores
<1>6. Recorded
  <2>1. ASSUME NEW x \in Requests, landed[x] # None
        PROVE  landed'[x] # None /\ landedAt'[x] = landedAt[x] /\ query'[x] = query[x]
    BY <1>1, <1>3, <2>1 DEF Strong, TypeOK
  <2>2. ASSUME NEW x \in Requests, removed[x] # None
        PROVE  removed'[x] = removed[x] /\ took'[x] = took[x] /\ query'[x] = query[x]
    BY <1>1, <1>3, <1>4, <2>2 DEF Strong, TypeOK
  <2> QED BY <2>1, <2>2 DEF Recorded
<1>f. ASSUME NEW u \in Stores, NEW n \in Spots, file[u][n] = None \/ (u = s /\ n = m),
             removed' # removed \/ file[u][n] = None
      PROVE  file'[u][n] = None \/ (u = s /\ n = t)
  BY <1>2, <1>4, <1>f DEF Strong, TypeOK
<1>g. ASSUME NEW u \in Stores, NEW n \in Spots, u = s /\ n = t
      PROVE  Restored(<<u, n>>)'
  BY <1>5, <1>g
<1>7. Filled
  BY <1>f, <1>g DEF Filled
<1>8. Takes(r)
  <2>1. CASE removed' = removed
    BY <2>1 DEF Takes, Strong, TypeOK
  <2>2. CASE removed' # removed
    <3>1. removed' = [removed EXCEPT ![r] = c] /\ took' = [took EXCEPT ![r] = m]
      BY <1>4, <2>2
    <3>2. file'[s][m] = None \/ Restored(<<s, m>>)'
      <4>1. file'[s][m] = None \/ m = t
        BY <1>2, <1>f, <2>2
      <4> QED BY <1>5, <4>1
    <3>3. took'[r] = m /\ file[s][m] # None
      BY <1>3, <1>c, <3>1 DEF Strong, TypeOK
    <3>4. TakesAt(r, s, m)
      BY <1>3, <1>s, <3>2, <3>3 DEF TakesAt
    <3> QED BY <1>2, <3>1, <3>4 DEF Takes, Strong, TypeOK
  <2> QED BY <2>1, <2>2
<1> QED BY <1>6, <1>7, <1>8

(* A step of no request: it takes nothing.                                 *)
LEMMA MovesOthers ==
  ASSUME Strong, MovesInv, Recorded, Filled, UNCHANGED removed
  PROVE  MovesInv'
<1>1. ASSUME NEW x \in Requests PROVE Emptied(x)'
  BY TakenStays, RestoredKept DEF MovesInv, Emptied
<1>2. ASSUME NEW x \in Requests, NEW y \in Requests \ {x} PROVE Twice(x, y)'
  BY TakenStays, RestoredKept, RestoredAt DEF MovesInv, Twice
<1> QED BY <1>1, <1>2 DEF MovesInv

(* Another client writes only in a repository that is busy.                *)
LEMMA OthersRecord ==
  ASSUME Strong, Others
  PROVE  Recorded /\ Filled /\ UNCHANGED removed
<1>1. PICK s \in Busy :
        \/ \E m \in Reach(s) : OtherDelete(s, m) \/ \E c \in Contents : OtherWrite(s, m, c)
        \/ OtherFolders(s)
  BY DEF Others
<1>2. UNCHANGED <<query, landed, landedAt, removed, took>>
  BY <1>1 DEF OtherDelete, OtherWrite, OtherFolders, local, history
<1>3. Recorded
  BY <1>2 DEF Recorded
<1>4. Filled
  <2> SUFFICES ASSUME NEW t \in Stores, NEW n \in Spots, file[t][n] = None
               PROVE  file'[t][n] = None \/ Restored(<<t, n>>)'
    BY DEF Filled
  <2>1. t \in Busy => Restored(<<t, n>>)'
    BY DEF Restored
  <2>2. CASE t # s
    BY <1>1, <2>2 DEF OtherDelete, OtherWrite, OtherFolders, WriteAt, Strong, TypeOK
  <2> QED BY <2>1, <2>2
<1> QED BY <1>2, <1>3, <1>4

LEMMA MovesNext ==
  ASSUME Strong, MovesInv, Next
  PROVE  MovesInv'
<1>1. ASSUME NEW r \in Requests, Start(r) PROVE MovesInv'
  <2>1. pc[r] = "ready" /\ UNCHANGED <<file, landed, landedAt, removed, took>>
    BY <1>1 DEF Start, Reject, StartTransfer, StartNative, StartUpload, Begin,
                upstream, history
  <2>2. \A x \in Requests : query'[x] = query[x] \/ pc[x] = "ready"
    BY <1>1, <2>1 DEF Start, Reject, StartTransfer, StartNative, StartUpload, Begin,
                      Strong, TypeOK
  <2> QED BY <2>1, <2>2, IdleRecords, MovesStep
<1>2. ASSUME NEW r \in Requests, UNCHANGED <<file, landed, landedAt, removed, took, query>>
      PROVE  MovesInv'
  BY <1>2, IdleRecords, MovesStep
<1>a. ASSUME NEW r \in Requests, pc[r] \in {"put", "clone"}, NEW m, NEW over,
             AcceptAt(r, In(Dst(r), m), over) \/ AcceptBeside(r)
      PROVE  MovesInv'
  BY <1>a, AcceptRecords, MovesStep
<1>3. ASSUME NEW r \in Requests, Continue(r) PROVE MovesInv'
  <2>1. CASE \/ CheckTarget(r) \/ DescribeConflict(r) \/ Download(r) \/ Stage(r)
             \/ StatFolder(r) \/ MakeFolder(r) \/ Cleanup(r)
    BY <1>2, <2>1 DEF CheckTarget, DescribeConflict, Download, Stage, StatFolder,
         MakeFolder, Cleanup, Stop, upstream, local, history
  <2>2. CASE Put(r)
    <3>1. CASE NotAccepted(r, "failed") \/ VersionRequired(r)
      BY <1>2, <3>1 DEF NotAccepted, VersionRequired, upstream, local, history
    <3>2. ASSUME NEW m, \/ UploadNew(r, In(Dst(r), m)) \/ UploadVersion(r, In(Dst(r), m))
                        \/ UploadOver(r, In(Dst(r), m)) \/ UploadSibling(r, In(Dst(r), m))
          PROVE  MovesInv'
      <4>1. pc[r] = "put"
        BY <2>2 DEF Put
      <4>2. AcceptBeside(r) \/ \E over : AcceptAt(r, In(Dst(r), m), over)
        BY <3>2 DEF UploadNew, UploadVersion, UploadOver, UploadSibling
      <4> QED BY <1>a, <4>1, <4>2
    <3> QED BY <2>2, <3>1, <3>2 DEF Put
  <2>3. CASE Remove(r)
    <3>1. CASE Stop(r, "failed")
      BY <1>2, <3>1 DEF Stop, upstream, local, history
    <3>2. ASSUME NEW m \in Lead(Src(r)), RemoveAt(r, In(Src(r), m)) PROVE MovesInv'
      BY <2>3, <3>2, RemoveRecords, MovesStep DEF Remove
    <3> QED BY <2>3, <3>1, <3>2 DEF Remove
  <2>4. CASE Native(r)
    <3>1. CASE Stop(r, "failed") \/ \E from : ReadToClone(r, from)
      BY <1>2, <3>1 DEF Stop, ReadToClone, upstream, local, history
    <3>2. ASSUME NEW m \in Lead(Src(r)), NEW t \in Lead(Dst(r)),
                 NativeDone(r, In(Src(r), m), In(Dst(r), t))
          PROVE  MovesInv'
      BY <2>4, <3>2, NativeRecords, MovesStep DEF Native
    <3> QED BY <2>4, <3>1, <3>2 DEF Native
  <2>5. CASE Clone(r)
    <3>1. CASE Stop(r, "failed")
      BY <1>2, <3>1 DEF Stop, upstream, local, history
    <3>2. CASE AcceptAt(r, Place(Dst(r)), None) \/ AcceptBeside(r)
      <4>1. pc[r] = "clone" /\ Place(Dst(r)) = In(Dst(r), Dst(r)[2])
        BY <2>5 DEF Clone, Place, In
      <4> QED BY <1>a, <3>2, <4>1
    <3> QED BY <2>5, <3>1, <3>2 DEF Clone
  <2> QED BY <1>3, <2>1, <2>2, <2>3, <2>4, <2>5 DEF Continue
<1>4. CASE Crash
  <2>1. PICK r \in Requests : r \in Running
    BY <1>4 DEF Crash, Running
  <2> QED BY <1>2, <1>4, <2>1 DEF Crash, upstream, history
<1>5. CASE Others
  BY <1>5, OthersRecord, MovesOthers
<1> QED BY <1>1, <1>3, <1>4, <1>5 DEF Next

LEMMA MovesStutter ==
  ASSUME MovesInv, UNCHANGED vars
  PROVE  MovesInv'
BY DEF MovesInv, Emptied, Twice, Restored, TookFrom, Held, In, Src, Dst, vars

(* Two moves that succeed have each taken a document, and from different   *)
(* places unless something was put at the place again: rename_path answers *)
(* "ok" only for a document this very request removed, wherever its driver *)
(* found it, and a place it emptied stays empty.                           *)
THEOREM OneMoveSucceeds == Spec => []OneMoveWins
<1>1. Init => MovesInv
  BY DEF Init, MovesInv, Emptied, Twice
<1>2. Strong /\ MovesInv /\ [Next]_vars => MovesInv'
  BY MovesNext, MovesStutter
<1>3. Strong /\ OkIsEarned /\ MovesInv => OneMoveWins
  <2> SUFFICES ASSUME Strong, OkIsEarned, MovesInv,
                      NEW r1 \in Requests, NEW r2 \in Requests, r1 # r2,
                      MovedAway(r1), MovedAway(r2),
                      StoreOf[Src(r1)[1]] = StoreOf[Src(r2)[1]],
                      StoreOf[Src(r1)[1]] \notin Busy
               PROVE  /\ None \notin {took[r1], took[r2]}
                      /\ \/ took[r1] # took[r2]
                         \/ \E x \in Requests :
                              /\ landed[x] # None
                              /\ In(Dst(x), landedAt[x]) = In(Src(r1), took[r1])
    BY DEF OneMoveWins
  <2>1. removed[r1] # None /\ removed[r2] # None
    BY DEF OkIsEarned, MovedAway
  <2>2. None \notin {took[r1], took[r2]}
    BY <2>1, StrongGood DEF Good, Steps
  <2>3. took[r1] = took[r2] => Restored(TookFrom(r1))
    BY <2>1 DEF MovesInv, Twice, TookFrom, In
  <2>4. TookFrom(r1)[1] \notin Busy
    BY DEF TookFrom, In
  <2> QED BY <2>2, <2>3, <2>4 DEF Restored, TookFrom
<1> QED BY <1>1, <1>2, <1>3, SuccessIsEarned, StrongInvariant, PTL DEF Spec
-----------------------------------------------------------------------------
(* CrossTransfer implements TransferContract.  A handler that is done has  *)
(* an answer; an answer shows when the handler is done, not when its       *)
(* upload has a result.                                                    *)
Answered == \A r \in Requests : pc[r] = "done" => result[r] # None

Hidden == UNCHANGED <<file, query, got, landed, removed>>

LEMMA Replies ==
  ASSUME TypeOK, NEW r \in Requests, NEW res, Answer(r, res)
  PROVE  Promise!Reply(r, res)
BY DEF Answer, Goto, TypeOK, Promise!Reply

LEMMA Silent ==
  ASSUME TypeOK, NEW r \in Requests, NEW l, Goto(r, l), l # "done", pc[r] # "done",
         \A x \in Requests \ {r} : result'[x] = result[x]
  PROVE  Promise!Unanswered
BY DEF Goto, TypeOK, Promise!Unanswered

LEMMA BeginIsAsk ==
  ASSUME AnsInv, NEW r \in Requests, NEW q \in Queries,
         Reject(r, q) \/ StartTransfer(r, q) \/ StartNative(r, q) \/ StartUpload(r, q)
  PROVE  Promise!Ask(r, q)
<1>1. TypeOK /\ pc[r] = "ready" /\ query[r] = None
      /\ query' = [query EXCEPT ![r] = q] /\ UNCHANGED <<file, landed, removed>>
  BY DEF Reject, StartTransfer, StartNative, StartUpload, Begin, upstream, history,
         AnsInv, Strong, TransferInv, Steps
<1>2. CASE Reject(r, q)
  <2>1. Answer(r, "failed") /\ UNCHANGED got
    BY <1>2 DEF Reject, Begin, Answer
  <2> QED BY <1>1, <2>1, Replies DEF Promise!Ask
<1>3. CASE StartTransfer(r, q) \/ StartNative(r, q)
  <2>1. PICK l \in {"check", "native"} : Goto(r, l) /\ UNCHANGED <<got, result>>
    BY <1>3 DEF StartTransfer, StartNative, Begin
  <2>2. Promise!Unanswered
    BY <1>1, <2>1, Silent
  <2> QED BY <1>1, <2>1, <2>2 DEF Promise!Ask
<1>4. CASE StartUpload(r, q)
  <2>1. PICK l \in {"put", "folder"} : Goto(r, l) /\ UNCHANGED result
    BY <1>4 DEF StartUpload, Begin, AfterFolder
  <2>2. Promise!Unanswered
    BY <1>1, <2>1, Silent
  <2> QED BY <1>1, <1>4, <2>2 DEF StartUpload, Promise!Ask
<1> QED BY <1>2, <1>3, <1>4

LEMMA RunningIsOpen ==
  ASSUME AnsInv, NEW r \in Requests, pc[r] \notin {"ready", "done"}
  PROVE  Promise!Open(r) /\ query[r] \in Query
BY DEF AnsInv, Strong, TransferInv, Steps, TypeOK, Promise!Open

LEMMA StepIsHidden ==
  ASSUME Hidden, Promise!Unanswered
  PROVE  UNCHANGED Promise!vars
BY DEF Hidden, Promise!Unanswered, Promise!vars

LEMMA AnswerIsFinish ==
  ASSUME AnsInv, NEW r \in Requests, NEW res, pc[r] \notin {"ready", "done"},
         Hidden, Answer(r, res),
         \/ res = "failed"
         \/ res = "ok" /\ landed[r] # None /\ query[r].op # "move"
         \/ res = "conflict" /\ got[r] = None
         \/ res = "version_required" /\ landed[r] = None
  PROVE  Promise!Finish(r)
<1>1. Promise!Open(r) /\ Promise!Reply(r, res)
  BY RunningIsOpen, Replies DEF AnsInv, Strong
<1> QED BY <1>1 DEF Hidden, Promise!Finish, Promise!Moves

(* A step of a handler is a step of the contract, or none of its business. *)
Kept == UNCHANGED Promise!vars

LEMMA StopIsFinish ==
  ASSUME AnsInv, NEW r \in Requests, pc[r] \notin {"ready", "done"}, Stop(r, "failed")
  PROVE  Promise!Finish(r)
BY AnswerIsFinish DEF Stop, Hidden, upstream, local, history

LEMMA GoesOn ==
  ASSUME AnsInv, NEW r \in Requests, NEW l, pc[r] # "done", Goto(r, l), l # "done",
         Hidden, \A x \in Requests \ {r} : result'[x] = result[x]
  PROVE  Kept
BY Silent, StepIsHidden DEF AnsInv, Strong, Kept

LEMMA CheckTargetStep ==
  ASSUME AnsInv, NEW r \in Requests, CheckTarget(r)
  PROVE  Promise!Finish(r) \/ Kept
<1>1. CASE Stop(r, "failed")
  BY <1>1, StopIsFinish DEF CheckTarget
<1>2. CASE ~Stop(r, "failed")
  <2>1. PICK l \in {"download", "describe"} : Goto(r, l)
    BY <1>2 DEF CheckTarget
  <2>2. Hidden /\ UNCHANGED result
    BY <1>2 DEF CheckTarget, Hidden, upstream, history
  <2> QED BY <2>1, <2>2, GoesOn DEF CheckTarget
<1> QED BY <1>1, <1>2

LEMMA DescribeConflictStep ==
  ASSUME AnsInv, NEW r \in Requests, DescribeConflict(r)
  PROVE  Promise!Finish(r)
<1>1. got[r] = None
  BY DEF DescribeConflict, AnsInv, Strong, TransferInv, Steps
<1>2. PICK res \in {"conflict", "failed"} : Stop(r, res)
  BY DEF DescribeConflict
<1> QED BY <1>1, <1>2, AnswerIsFinish
        DEF DescribeConflict, Stop, Hidden, upstream, local, history

(* A read where the source leads.                                          *)
LEMMA FetchIsRead ==
  ASSUME AnsInv, NEW r \in Requests, pc[r] \in {"download", "native"},
         NEW m \in Lead(Src(r)), Fetch(r, In(Src(r), m)),
         NEW l, Goto(r, l), l # "done",
         UNCHANGED <<file, query, landed, removed, result>>
  PROVE  Promise!Read(r)
<1>1. got[r] = None
  BY DEF AnsInv, Strong, TransferInv, Steps
<1>2. Promise!Open(r) /\ Promise!Unanswered
  BY RunningIsOpen, Silent DEF AnsInv, Strong
<1>3. /\ Promise!Held(In(Src(r), m)) # None
      /\ got' = [got EXCEPT ![r] = Promise!Held(In(Src(r), m))]
  BY DEF Fetch, Held, Promise!Held
<1> QED BY <1>1, <1>2, <1>3 DEF Promise!Read, Promise!Unanswered, Src

LEMMA DownloadStep ==
  ASSUME AnsInv, NEW r \in Requests, Download(r)
  PROVE  Promise!Finish(r) \/ Promise!Read(r)
<1>1. CASE Stop(r, "failed")
  BY <1>1, StopIsFinish DEF Download
<1>2. CASE ~Stop(r, "failed")
  <2>1. PICK l \in {"stage", "put", "folder"} : Goto(r, l)
    BY <1>2 DEF Download, AfterFolder
  <2>2. /\ pc[r] = "download" /\ \E m \in Lead(Src(r)) : Fetch(r, In(Src(r), m))
        /\ UNCHANGED <<file, query, landed, removed, result>>
    BY <1>2 DEF Download, upstream
  <2> QED BY <2>1, <2>2, FetchIsRead
<1> QED BY <1>1, <1>2

LEMMA StageStep ==
  ASSUME AnsInv, NEW r \in Requests, Stage(r)
  PROVE  Promise!Finish(r) \/ Kept
<1>1. CASE Answer(r, "failed")
  BY <1>1, AnswerIsFinish DEF Stage, Hidden, upstream, history
<1>2. CASE ~Answer(r, "failed")
  <2>1. PICK l \in {"put", "folder"} : Goto(r, l)
    BY <1>2 DEF Stage, AfterFolder
  <2>2. Hidden /\ UNCHANGED result
    BY <1>2 DEF Stage, Hidden, upstream, history
  <2> QED BY <2>1, <2>2, GoesOn DEF Stage
<1> QED BY <1>1, <1>2

(* Leaving the upload answers at once, or after the temporary file.        *)
LEMMA LeaveIsFinish ==
  ASSUME AnsInv, NEW r \in Requests, pc[r] \in Uploading, Hidden,
         NEW res, LeaveUpload(r, res),
         \/ res = "failed"
         \/ res = "version_required" /\ landed[r] = None
  PROVE  Promise!Finish(r) \/ Kept
<1>1. CASE temp[r] = "live"
  <2>1. Goto(r, "cleanup") /\ \A x \in Requests \ {r} : result'[x] = result[x]
    BY <1>1 DEF LeaveUpload, AnsInv, Strong, TypeOK
  <2> QED BY <2>1, GoesOn DEF Uploading
<1>2. CASE temp[r] # "live"
  <2>1. Answer(r, res)
    BY <1>2 DEF LeaveUpload, AfterUpload, Answer, Goto
  <2> QED BY <2>1, AnswerIsFinish DEF Uploading
<1> QED BY <1>1, <1>2

LEMMA PassFolderIsHidden ==
  ASSUME AnsInv, NEW r \in Requests, pc[r] \in Uploading, PassFolder(r), Hidden
  PROVE  Kept
<1>1. PICK l \in {"put", "folder"} : Goto(r, l)
  BY DEF PassFolder, AfterFolder
<1> QED BY <1>1, GoesOn DEF PassFolder, Uploading

LEMMA FolderStep ==
  ASSUME AnsInv, NEW r \in Requests, StatFolder(r) \/ MakeFolder(r)
  PROVE  Promise!Finish(r) \/ Kept
<1>1. pc[r] \in Uploading /\ Hidden
  BY DEF StatFolder, MakeFolder, FolderMade, upstream, history, Hidden, Uploading
<1>2. \/ LeaveUpload(r, "failed")
      \/ PassFolder(r)
      \/ Goto(r, "mkdir") /\ UNCHANGED result
  BY DEF StatFolder, MakeFolder, FolderMade
<1>3. CASE Goto(r, "mkdir") /\ UNCHANGED result
  BY <1>1, <1>3, GoesOn DEF Uploading
<1> QED BY <1>1, <1>2, <1>3, LeaveIsFinish, PassFolderIsHidden

LEMMA AcceptIsDeliver ==
  ASSUME AnsInv, NEW r \in Requests, pc[r] \in {"put", "clone"},
         NEW m \in Lead(Dst(r)), NEW over,
         AcceptAt(r, In(Dst(r), m), over) \/ AcceptBeside(r)
  PROVE  Promise!Deliver(r)
<1>a. Accept(r, over) \/ Accept(r, None)
  BY DEF AcceptAt, AcceptBeside
<1>1. /\ got[r] # None /\ landed[r] = None
      /\ landed' = [landed EXCEPT ![r] = got[r]]
      /\ UNCHANGED <<query, got, removed>>
  BY <1>a DEF Accept, local, AnsInv, Strong, TransferInv, Steps
<1>2. Promise!Open(r)
  BY RunningIsOpen
<1>3. \/ file' = file
      \/ \E t \in {In(query[r].dst, n) : n \in Lead(query[r].dst)} :
           file' = [file EXCEPT ![t[1]][t[2]] = got[r]]
  BY DEF AcceptAt, AcceptBeside, WriteAt, Dst
<1>4. PICK res \in {"ok", "failed"} : LeaveUpload(r, res)
  BY <1>a DEF Accept
<1>5. \/ Promise!Unanswered
      \/ Promise!Reply(r, "failed")
      \/ query[r].op # "move" /\ Promise!Reply(r, "ok")
  <2>1. CASE temp[r] = "live" \/ AfterUpload(r, res) # "done"
    <3>1. PICK l \in {"cleanup", "remove"} : Goto(r, l)
      BY <1>4, <2>1 DEF LeaveUpload, AfterUpload
    <3>2. \A x \in Requests \ {r} : result'[x] = result[x]
      BY <1>4 DEF LeaveUpload, AnsInv, Strong, TypeOK
    <3> QED BY <3>1, <3>2, Silent DEF AnsInv, Strong
  <2>2. CASE temp[r] # "live" /\ AfterUpload(r, res) = "done"
    <3>1. Answer(r, res) /\ (res = "ok" => query[r].op # "move")
      BY <1>4, <2>2 DEF LeaveUpload, AfterUpload, Answer
    <3> QED BY <3>1, Replies DEF AnsInv, Strong
  <2> QED BY <2>1, <2>2
<1> QED BY <1>1, <1>2, <1>3, <1>5 DEF Promise!Deliver, Promise!Moves

LEMMA PutStep ==
  ASSUME AnsInv, NEW r \in Requests, Put(r)
  PROVE  Promise!Finish(r) \/ Promise!Deliver(r) \/ Kept
<1>1. CASE NotAccepted(r, "failed") \/ VersionRequired(r)
  <2>1. PICK res \in {"failed", "version_required"} : NotAccepted(r, res)
    BY <1>1 DEF VersionRequired
  <2>2. landed[r] = None
    BY DEF Put, AnsInv, Strong, TransferInv, Steps
  <2> QED BY <2>1, <2>2, LeaveIsFinish
          DEF Put, NotAccepted, Hidden, Uploading, upstream, local, history
<1>2. ASSUME NEW m \in Lead(Dst(r)),
             \/ UploadNew(r, In(Dst(r), m)) \/ UploadVersion(r, In(Dst(r), m))
             \/ UploadOver(r, In(Dst(r), m)) \/ UploadSibling(r, In(Dst(r), m))
      PROVE  Promise!Deliver(r)
  <2>1. AcceptBeside(r) \/ \E over : AcceptAt(r, In(Dst(r), m), over)
    BY <1>2 DEF UploadNew, UploadVersion, UploadOver, UploadSibling
  <2> QED BY <2>1, AcceptIsDeliver DEF Put
<1> QED BY <1>1, <1>2 DEF Put

LEMMA CleanupStep ==
  ASSUME AnsInv, NEW r \in Requests, Cleanup(r)
  PROVE  Promise!Finish(r) \/ Kept
<1>1. pc[r] = "cleanup" /\ Hidden /\ UNCHANGED result
      /\ Goto(r, AfterUpload(r, result[r]))
  BY DEF Cleanup, Hidden, upstream, history
<1>2. CASE AfterUpload(r, result[r]) = "remove"
  BY <1>1, <1>2, GoesOn
<1>3. CASE AfterUpload(r, result[r]) = "done"
  <2>1. Answer(r, result[r])
    BY <1>1, <1>3 DEF Answer, AnsInv, Strong, TypeOK
  <2>2. \/ result[r] = "failed"
        \/ result[r] = "ok" /\ landed[r] # None /\ query[r].op # "move"
        \/ result[r] = "version_required" /\ landed[r] = None
    BY <1>1, <1>3 DEF AfterUpload, AnsInv, Own, Quiet, Earned
  <2> QED BY <1>1, <2>1, <2>2, AnswerIsFinish
<1> QED BY <1>2, <1>3 DEF AfterUpload

LEMMA RemoveStep ==
  ASSUME AnsInv, NEW r \in Requests, Remove(r)
  PROVE  Promise!Finish(r) \/ Promise!Take(r)
<1>1. CASE Stop(r, "failed")
  BY <1>1, StopIsFinish DEF Remove
<1>2. ASSUME NEW m \in Lead(Src(r)), RemoveAt(r, In(Src(r), m)) PROVE Promise!Take(r)
  <2> DEFINE s == In(Src(r), m)
  <2>1. /\ pc[r] = "remove" /\ query[r].op = "move"
        /\ landed[r] # None /\ removed[r] = None
        /\ Promise!Held(s) # None
        /\ removed' = [removed EXCEPT ![r] = Promise!Held(s)]
        /\ file' = [file EXCEPT ![s[1]][s[2]] = None]
        /\ UNCHANGED <<query, got, landed>>
    BY <1>2 DEF Remove, RemoveAt, Take, Held, Promise!Held, local, AnsInv, Strong,
                TransferInv, Steps
  <2>2. Promise!Open(r)
    BY <2>1, RunningIsOpen
  <2>3. Promise!Reply(r, "ok") \/ Promise!Reply(r, "failed")
    BY <1>2, Replies DEF RemoveAt, RemoveOutcomes, AnsInv, Strong
  <2>4. s \in {In(query[r].src, n) : n \in Lead(query[r].src)}
    BY DEF Src
  <2> HIDE DEF s
  <2> QED BY <2>1, <2>2, <2>3, <2>4 DEF Promise!Take, Promise!Moves
<1> QED BY <1>1, <1>2 DEF Remove

LEMMA NativeStep ==
  ASSUME AnsInv, NEW r \in Requests, Native(r)
  PROVE  Promise!Finish(r) \/ Promise!Within(r) \/ Promise!Read(r)
<1>1. CASE Stop(r, "failed")
  BY <1>1, StopIsFinish DEF Native
<1>2. ASSUME NEW m \in Lead(Src(r)), NEW n \in Lead(Dst(r)),
             NativeDone(r, In(Src(r), m), In(Dst(r), n))
      PROVE  Promise!Within(r)
  <2> DEFINE s == In(Src(r), m)
             t == In(Dst(r), n)
  <2>1. Promise!Open(r) /\ got[r] = None
    BY RunningIsOpen DEF Native, AnsInv, Strong, TransferInv, Steps
  <2>2. /\ Promise!Held(s) # None
        /\ Promise!Held(t) = None \/ (query[r].op = "move" /\ t = s)
        /\ landed' = [landed EXCEPT ![r] = Promise!Held(s)]
        /\ UNCHANGED <<query, got>>
    BY <1>2 DEF NativeDone, Held, Promise!Held, local
  <2>3. Promise!Reply(r, "ok") \/ Promise!Reply(r, "failed")
    BY <1>2, Replies DEF NativeDone, RemoveOutcomes, AnsInv, Strong
  <2>4. IF query[r].op = "move"
        THEN /\ removed' = [removed EXCEPT ![r] = Promise!Held(s)]
             /\ file' = [file EXCEPT ![s[1]][s[2]] = None, ![t[1]][t[2]] = Promise!Held(s)]
        ELSE /\ UNCHANGED removed
             /\ file' = [file EXCEPT ![t[1]][t[2]] = Promise!Held(s)]
    BY <1>2 DEF NativeDone, Take, Held, Promise!Held
  <2>5. /\ s \in {In(query[r].src, x) : x \in Lead(query[r].src)}
        /\ t \in {In(query[r].dst, x) : x \in Lead(query[r].dst)}
    BY DEF Src, Dst
  <2> HIDE DEF s, t
  <2> QED BY <2>1, <2>2, <2>3, <2>4, <2>5 DEF Promise!Within, Promise!Moves
<1>3. ASSUME NEW m \in Lead(Src(r)), ReadToClone(r, In(Src(r), m))
      PROVE  Promise!Read(r)
  <2>1. /\ Goto(r, "clone") /\ Fetch(r, In(Src(r), m)) /\ pc[r] = "native"
        /\ UNCHANGED <<file, query, landed, removed, result>>
    BY <1>3 DEF Native, ReadToClone, upstream
  <2> QED BY <2>1, FetchIsRead
<1> QED BY <1>1, <1>2, <1>3 DEF Native

LEMMA CloneStep ==
  ASSUME AnsInv, NEW r \in Requests, Clone(r)
  PROVE  Promise!Finish(r) \/ Promise!Deliver(r)
<1>1. CASE Stop(r, "failed")
  BY <1>1, StopIsFinish DEF Clone
<1>2. CASE AcceptAt(r, Place(Dst(r)), None) \/ AcceptBeside(r)
  <2>1. /\ pc[r] = "clone" /\ query[r] # None /\ Dst(r)[2] # Root
    BY DEF Clone, AnsInv, Strong, TransferInv, Steps
  <2>2. Dst(r)[2] \in Lead(Dst(r)) /\ Place(Dst(r)) = In(Dst(r), Dst(r)[2])
    BY <2>1, TargetSpot DEF AnsInv, Strong, Place, In
  <2> QED BY <1>2, <2>1, <2>2, AcceptIsDeliver
<1> QED BY <1>1, <1>2 DEF Clone

LEMMA CrashIsHalt ==
  ASSUME AnsInv, Answered, Crash
  PROVE  Promise!Halt
<1>1. UNCHANGED <<file, query, got, landed, removed>>
  BY DEF Crash, upstream, history
<1>2. ASSUME NEW r \in Requests
      PROVE  /\ r \in Running <=> Promise!Open(r)
             /\ pc'[r] = IF r \in Running THEN "done" ELSE pc[r]
             /\ result'[r] = IF r \in Running THEN "crashed" ELSE result[r]
             /\ pc[r] = "ready" => query[r] = None
  BY NoneIsNoAnswer DEF Crash, Running, Promise!Open, Answered, AnsInv, Strong, TransferInv, Steps
<1>3. ASSUME NEW r \in Requests
      PROVE  (IF pc'[r] = "done" THEN result'[r] ELSE None)
             = IF Promise!Open(r) THEN "crashed"
               ELSE IF pc[r] = "done" THEN result[r] ELSE None
  BY <1>2 DEF Running
<1> QED BY <1>1, <1>3 DEF Promise!Halt

LEMMA OthersAreElsewhere ==
  ASSUME AnsInv, Others
  PROVE  Promise!Elsewhere \/ Kept
<1>1. UNCHANGED <<pc, query, got, result, landed, removed>>
  BY DEF Others, OtherDelete, OtherWrite, OtherFolders, local, history
<1>2. Promise!Unanswered
  BY <1>1 DEF Promise!Unanswered
<1>3. PICK s \in Busy :
        \/ \E m \in Reach(s) : OtherDelete(s, m) \/ \E c \in Contents : OtherWrite(s, m, c)
        \/ OtherFolders(s)
  BY DEF Others
<1>4. CASE OtherFolders(s)
  BY <1>1, <1>2, <1>4, StepIsHidden DEF OtherFolders, Hidden, Kept
<1>5. CASE \E m \in Reach(s) : OtherDelete(s, m) \/ \E c \in Contents : OtherWrite(s, m, c)
  <2>1. \E m \in Spots, c \in Contents \cup {None} : file' = [file EXCEPT ![s][m] = c]
    BY <1>5, ConstantTypes, ReachIsSpots DEF OtherDelete, OtherWrite, WriteAt
  <2> QED BY <1>1, <1>2, <2>1, ConstantTypes DEF Promise!Elsewhere, Promise!Unanswered
<1> QED BY <1>3, <1>4, <1>5

LEMMA NextIsPromised ==
  ASSUME AnsInv, Answered, [Next]_vars
  PROVE  Promise!Next \/ Kept
<1>1. ASSUME NEW r \in Requests, Start(r) PROVE Promise!Next
  BY <1>1, BeginIsAsk DEF Start, Promise!Next
<1>2. ASSUME NEW r \in Requests, Continue(r) PROVE Promise!Next \/ Kept
  BY <1>2, CheckTargetStep, DescribeConflictStep, DownloadStep, StageStep, FolderStep,
     PutStep, CleanupStep, RemoveStep, NativeStep, CloneStep DEF Continue, Promise!Next
<1>3. CASE UNCHANGED vars
  BY <1>3 DEF vars, Kept, Promise!vars
<1> QED BY <1>1, <1>2, <1>3, CrashIsHalt, OthersAreElsewhere DEF Next, Promise!Next

LEMMA LeaveAnswers ==
  ASSUME Strong, Answered, NEW r \in Requests, NEW res \in {"ok", "failed", "version_required"},
         LeaveUpload(r, res)
  PROVE  Answered'
BY NoneIsNoAnswer DEF LeaveUpload, AfterUpload, Goto, Answered, Strong, TypeOK

LEMMA GotoAnswers ==
  ASSUME Strong, Answered, NEW r \in Requests, NEW l, Goto(r, l), UNCHANGED result,
         l = "done" => result[r] # None
  PROVE  Answered'
BY DEF Goto, Answered, Strong, TypeOK

LEMMA AnswerAnswers ==
  ASSUME Strong, Answered, NEW r \in Requests, NEW res \in {"ok", "failed", "conflict"},
         Answer(r, res)
  PROVE  Answered'
BY NoneIsNoAnswer DEF Answer, Goto, Answered, Strong, TypeOK

LEMMA NextAnswered ==
  ASSUME AnsInv, Answered, [Next]_vars
  PROVE  Answered'
<1> USE DEF AnsInv
<1>1. ASSUME NEW r \in Requests, Start(r) PROVE Answered'
  <2>1. \/ Answer(r, "failed")
        \/ \E l \in {"check", "native", "put", "folder"} : Goto(r, l) /\ UNCHANGED result
    BY <1>1 DEF Start, Reject, StartTransfer, StartNative, StartUpload, Begin, Answer, AfterFolder
  <2> QED BY <2>1, AnswerAnswers, GotoAnswers
<1>2. ASSUME NEW r \in Requests, Continue(r) PROVE Answered'
  <2>1. CASE CheckTarget(r) \/ DescribeConflict(r) \/ Download(r) \/ Stage(r)
             \/ Remove(r) \/ Native(r)
    <3>1. \/ \E res \in {"ok", "failed", "conflict"} : Answer(r, res)
          \/ \E l \in PCs \ {"done"} : Goto(r, l) /\ UNCHANGED result
      BY <2>1 DEF CheckTarget, DescribeConflict, Download, AfterFolder, Stage, Stop, Remove,
                  RemoveAt, Native, NativeDone, ReadToClone, RemoveOutcomes, PCs
    <3> QED BY <3>1, AnswerAnswers, GotoAnswers
  <2>2. CASE StatFolder(r) \/ MakeFolder(r)
    <3>1. \/ LeaveUpload(r, "failed")
          \/ \E l \in {"mkdir", "put", "folder"} : Goto(r, l) /\ UNCHANGED result
      BY <2>2 DEF StatFolder, MakeFolder, FolderMade, PassFolder, AfterFolder
    <3> QED BY <3>1, LeaveAnswers, GotoAnswers
  <2>3. CASE Put(r) \/ Clone(r)
    <3>1. \/ \E res \in {"ok", "failed", "version_required"} : LeaveUpload(r, res)
          \/ Answer(r, "failed")
      BY <2>3 DEF Put, UploadNew, UploadVersion, UploadOver, UploadSibling, VersionRequired,
                  NotAccepted, AcceptAt, AcceptBeside, Accept, Clone, Stop
    <3> QED BY <3>1, LeaveAnswers, AnswerAnswers
  <2>4. CASE Cleanup(r)
    <3>1. Goto(r, AfterUpload(r, result[r])) /\ UNCHANGED result /\ result[r] # None
      BY <2>4, NoneIsNoAnswer DEF Cleanup, Own, Quiet
    <3> QED BY <3>1, GotoAnswers
  <2> QED BY <1>2, <2>1, <2>2, <2>3, <2>4 DEF Continue
<1>3. CASE Crash
  BY <1>3, NoneIsNoAnswer DEF Crash, Running, Answered
<1>4. CASE Others \/ UNCHANGED vars
  BY <1>4 DEF Others, OtherDelete, OtherWrite, OtherFolders, Answered, vars
<1> QED BY <1>1, <1>2, <1>3, <1>4 DEF Next

(* copy_path, rename_path and upload_path keep their promise: every        *)
(* behaviour of the handlers, with their checks, folders, temporary files, *)
(* crashes and the repositories' other clients, is one of the contract:    *)
(* it reads once where the source leads, delivers what it read at most     *)
(* once, takes what a move's source leads to only after that, and answers  *)
(* "ok" only for all of it.                                                *)
THEOREM TransferImplementsContract == Spec => Contract
<1>1. Init => Promise!Init /\ Answered
  BY DEF Init, Promise!Init, Answered
<1>2. AnsInv /\ Answered /\ [Next]_vars => Answered'
  BY NextAnswered
<1>3. AnsInv /\ Answered /\ [Next]_vars => [Promise!Next]_(Promise!vars)
  BY NextIsPromised DEF Kept
<1> QED BY <1>1, <1>2, <1>3, AnswerInvariant, PTL DEF Spec, Contract, Promise!Spec
=============================================================================
