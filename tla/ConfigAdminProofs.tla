-------------------------- MODULE ConfigAdminProofs --------------------------
(* Theorems about ConfigAdmin, for every value of its constants.           *)
EXTENDS ConfigAdmin, TLAPS

ConnFiles == Files \ {Template}
Writing   == {"fill", "replace"}
Saving    == {"drivers", "list"} \cup Checking

(* No file the save has compared with, as it is now, has its mount.        *)
Clean(a) ==
  \A g \in ConnFiles :
    g # target[a] /\ g \notin unseen[a] /\ disk[g] \in Doc
      => disk[g].mount # draft[a].mount

(* What a handler's place implies.                                         *)
Placed(a) ==
  /\ pc[a] \in Saving => target[a] \in ConnFiles /\ draft[a] \in Doc
  /\ pc[a] = "unlink" => target[a] \in ConnFiles
  /\ pc[a] = "mounts" => unread[a] \subseteq unseen[a]
Checked(a) ==
  (pc[a] = "mounts" /\ ~fault[a]) \/ pc[a] \in {"exists", "open", "fill", "replace"}
    => Clean(a)
Looked(a) ==
  pc[a] \in {"open", "fill", "replace"} /\ ~Allowed(a)
    => target[a] \in unseen[a] \/ disk[target[a]] = None
OwnTmp(a) ==
  ~contended[a] =>
    /\ pc[a] = "fill" => tmp[target[a]] = Torn
    /\ pc[a] = "replace" => tmp[target[a]] = draft[a]
Good(a) == Placed(a) /\ Checked(a) /\ Looked(a) /\ OwnTmp(a)

(* Two that use one tmp both know it.                                      *)
Meets(a, b) == target[a] = target[b] /\ pc[a] \in Writing /\ pc[b] \in Writing
Noticed == \A a, b \in Admins : a # b /\ Meets(a, b) => contended[a]

(* The strengthening that is inductive.                                    *)
IInv ==
  /\ TypeOK /\ MountsUnique /\ FilesWhole /\ ChangesAnnounced /\ Noticed
  /\ \A a \in Admins : Good(a)

LEMMA InitIInv == Init => IInv
<1> SUFFICES ASSUME Init PROVE IInv
  OBVIOUS
<1>1. TypeOK
  BY ConfigConstantsOK DEF Init, TypeOK, Stages
<1>2. MountsUnique
  BY DEF Init, MountsUnique
<1>3. FilesWhole
  BY TornIsNoDoc DEF Init, FilesWhole
<1>4. ChangesAnnounced /\ Noticed
  BY DEF Init, ChangesAnnounced, Noticed, Meets, Writing
<1>5. ASSUME NEW a \in Admins PROVE Good(a)
  <2>1. pc[a] = "idle"
    BY DEF Init
  <2> QED BY <2>1 DEF Good, Placed, Checked, Looked, OwnTmp, Saving, Checking
<1> QED BY <1>1, <1>2, <1>3, <1>4, <1>5 DEF IInv

(* Handler x and the files stay as they are.                               *)
Still(x) ==
  /\ pc'[x] = pc[x] /\ from'[x] = from[x] /\ target'[x] = target[x]
  /\ draft'[x] = draft[x] /\ leave'[x] = leave[x] /\ unread'[x] = unread[x]
  /\ fault'[x] = fault[x] /\ contended'[x] = contended[x]

LEMMA StillGood ==
  ASSUME NEW x \in Admins, Good(x), Still(x), unseen'[x] = unseen[x],
         UNCHANGED <<disk, tmp>>
  PROVE  Good(x)'
<1>1. Placed(x)'
  BY DEF Good, Placed, Still
<1>2. Clean(x)' <=> Clean(x)
  BY DEF Clean, Still
<1>3. Checked(x)'
  BY <1>2 DEF Good, Checked, Still
<1>4. Looked(x)'
  BY DEF Good, Looked, Allowed, Still
<1>5. OwnTmp(x)'
  BY DEF Good, OwnTmp, Still
<1> QED BY <1>1, <1>3, <1>4, <1>5 DEF Good

LEMMA FilesStill ==
  ASSUME MountsUnique, FilesWhole, UNCHANGED <<disk, skipped>>
  PROVE  MountsUnique' /\ FilesWhole'
BY DEF MountsUnique, FilesWhole, Clash

(* A step of handler a that touches no file and does not enter a tmp.      *)
LEMMA LocalStep ==
  ASSUME IInv, NEW a \in Admins, TypeOK', Good(a)', pc'[a] \notin Writing,
         UNCHANGED <<disk, tmp, skipped>>,
         unannounced' => unannounced /\ pc[a] # "clear",
         \A x \in Admins \ {a} : Still(x) /\ unseen'[x] = unseen[x]
  PROVE  IInv'
<1>1. MountsUnique' /\ FilesWhole'
  BY FilesStill DEF IInv
<1>2. ChangesAnnounced'
  BY DEF IInv, ChangesAnnounced, Still
<1>3. Noticed'
  <2> SUFFICES ASSUME NEW x \in Admins, NEW y \in Admins, x # y, Meets(x, y)'
               PROVE  contended'[x]
    BY DEF Noticed
  <2>1. x # a /\ y # a
    BY DEF Meets
  <2> QED BY <2>1 DEF IInv, Noticed, Meets, Still
<1>4. \A x \in Admins \ {a} : Good(x)'
  BY StillGood DEF IInv
<1> QED BY <1>1, <1>2, <1>3, <1>4 DEF IInv

LEMMA AnswerIInv ==
  ASSUME IInv, NEW a \in Admins, Answer(a), UNCHANGED <<disk, tmp, drivers, skipped>>,
         unannounced' \in BOOLEAN, unannounced' => unannounced /\ pc[a] # "clear"
  PROVE  IInv'
<1> USE DEF Answer, Goto
<1>1. TypeOK'
  BY DEF IInv, TypeOK, Stages
<1>2. pc'[a] = "idle"
  BY DEF IInv, TypeOK
<1>3. Good(a)'
  BY <1>2 DEF Good, Placed, Checked, Looked, OwnTmp, Saving, Checking
<1>4. \A x \in Admins \ {a} : Still(x) /\ unseen'[x] = unseen[x]
  BY DEF IInv, TypeOK, Still
<1> QED BY <1>1, <1>2, <1>3, <1>4, LocalStep DEF Writing

LEMMA SubmitIInv ==
  ASSUME IInv, NEW a \in Admins, NEW o \in Files \cup {None}, NEW f \in Files,
         NEW c \in Doc, NEW w \in Flags, Submit(a, o, f, c, w)
  PROVE  IInv'
<1>a. /\ f \in ConnFiles
      /\ pc' = [pc EXCEPT ![a] = "drivers"]
      /\ from' = [from EXCEPT ![a] = o]
      /\ target' = [target EXCEPT ![a] = f]
      /\ draft' = [draft EXCEPT ![a] = c]
      /\ leave' = [leave EXCEPT ![a] = w]
      /\ w \in BOOLEAN
      /\ UNCHANGED <<disk, tmp, drivers, unread, fault, contended, unseen, skipped,
                     unannounced>>
      /\ pc[a] = "idle"
  BY ConfigConstantsOK DEF Submit, Goto, ReadOnly, ConnFiles, history
<1>1. TypeOK'
  BY <1>a DEF IInv, TypeOK, Stages
<1>2. pc'[a] = "drivers" /\ target'[a] = f /\ draft'[a] = c
  BY <1>a DEF IInv, TypeOK
<1>3. Good(a)'
  BY <1>a, <1>2 DEF Good, Placed, Checked, Looked, OwnTmp
<1>4. \A x \in Admins \ {a} : Still(x) /\ unseen'[x] = unseen[x]
  BY <1>a DEF IInv, TypeOK, Still
<1> QED BY <1>a, <1>1, <1>2, <1>3, <1>4, LocalStep DEF Writing

LEMMA ReadDriversIInv ==
  ASSUME IInv, NEW a \in Admins, ReadDrivers(a)
  PROVE  IInv'
<1> DEFINE w == draft[a].driver \notin drivers
<1>a. /\ pc[a] = "drivers"
      /\ pc' = [pc EXCEPT ![a] = "list"]
      /\ fault' = [fault EXCEPT ![a] = w]
      /\ w \in BOOLEAN
      /\ UNCHANGED <<disk, tmp, drivers, from, target, draft, leave, unread, contended,
                     unseen, skipped, unannounced>>
  BY DEF ReadDrivers, Goto, form, history
<1> HIDE DEF w
<1>1. TypeOK'
  BY <1>a DEF IInv, TypeOK, Stages
<1>2. pc'[a] = "list"
  BY <1>a DEF IInv, TypeOK
<1>3. Good(a)'
  BY <1>a, <1>2 DEF IInv, Good, Placed, Checked, Looked, OwnTmp, Saving
<1>4. \A x \in Admins \ {a} : Still(x) /\ unseen'[x] = unseen[x]
  BY <1>a DEF IInv, TypeOK, Still
<1> QED BY <1>a, <1>1, <1>2, <1>3, <1>4, LocalStep DEF Writing

LEMMA ListIInv ==
  ASSUME IInv, NEW a \in Admins, List(a)
  PROVE  IInv'
<1> DEFINE l == Listed(a)
           u == Listed(a) \cup ({Excluded(a)} \ {target[a]})
<1>a. /\ pc[a] = "list"
      /\ pc' = [pc EXCEPT ![a] = "mounts"]
      /\ unread' = [unread EXCEPT ![a] = l]
      /\ unseen' = [unseen EXCEPT ![a] = u]
      /\ UNCHANGED <<disk, tmp, drivers, from, target, draft, leave, fault, contended,
                     skipped, unannounced>>
  BY DEF List, Goto, form
<1>b. target[a] \in ConnFiles /\ draft[a] \in Doc /\ from[a] \in Files \cup {None}
  BY <1>a DEF IInv, Good, Placed, Saving, TypeOK
<1>c. l \subseteq ConnFiles /\ u \subseteq Files /\ l \subseteq u
  BY <1>b DEF Listed, Excluded, ConnFiles
(* What the list leaves out is absent, the target, or counted as unseen.   *)
<1>d. \A g \in ConnFiles : g # target[a] /\ disk[g] \in Doc => g \in u
  BY TornIsNoDoc DEF Listed, ConnFiles
<1> HIDE DEF l, u
<1>1. TypeOK'
  BY <1>a, <1>c DEF IInv, TypeOK, Stages, ConnFiles
<1>2. pc'[a] = "mounts" /\ unread'[a] = l /\ unseen'[a] = u
  BY <1>a DEF IInv, TypeOK
<1>3. Clean(a)'
  BY <1>a, <1>d, <1>2 DEF Clean
<1>4. Good(a)'
  BY <1>a, <1>b, <1>c, <1>2, <1>3 DEF Good, Placed, Checked, Looked, OwnTmp
<1>5. \A x \in Admins \ {a} : Still(x) /\ unseen'[x] = unseen[x]
  BY <1>a DEF IInv, TypeOK, Still
<1> QED BY <1>a, <1>1, <1>2, <1>4, <1>5, LocalStep DEF Writing

LEMMA ReadMountIInv ==
  ASSUME IInv, NEW a \in Admins, NEW f \in Files, ReadMount(a, f)
  PROVE  IInv'
<1> DEFINE w == Faulty(a, f)
<1>a. /\ pc[a] = "mounts" /\ f \in unread[a] /\ disk[f] \in Doc
      /\ fault' = [fault EXCEPT ![a] = w]
      /\ unread' = [unread EXCEPT ![a] = unread[a] \ {f}]
      /\ unseen' = [unseen EXCEPT ![a] = unseen[a] \ {f}]
      /\ UNCHANGED <<disk, tmp, drivers, pc, from, target, draft, leave, contended,
                     skipped, unannounced>>
  BY DEF ReadMount, form
<1>b. w \in BOOLEAN /\ (~w => ~fault[a] /\ disk[f].mount # draft[a].mount)
  BY DEF Faulty, IInv, TypeOK
<1> HIDE DEF w
<1>c. Good(a) /\ unread[a] \subseteq unseen[a]
  BY <1>a DEF IInv, Good, Placed
<1>1. TypeOK'
  BY <1>a, <1>b DEF IInv, TypeOK, Stages
<1>2. /\ pc'[a] = "mounts" /\ fault'[a] = w /\ target'[a] = target[a]
      /\ unread'[a] = unread[a] \ {f} /\ unseen'[a] = unseen[a] \ {f}
      /\ draft'[a] = draft[a]
  BY <1>a DEF IInv, TypeOK
<1>3. ~w => Clean(a)'
  <2> SUFFICES ASSUME ~w, NEW g \in ConnFiles, g # target[a], g \notin unseen[a] \ {f},
                      disk[g] \in Doc
               PROVE  disk[g].mount # draft[a].mount
    BY <1>a, <1>2 DEF Clean
  <2>1. CASE g = f
    BY <1>b, <2>1
  <2>2. CASE g # f
    BY <1>a, <1>b, <1>c, <2>2 DEF Good, Checked, Clean
  <2> QED BY <2>1, <2>2
<1>4. Good(a)'
  BY <1>a, <1>c, <1>2, <1>3 DEF Good, Placed, Checked, Looked, OwnTmp, Saving, Checking
<1>5. \A x \in Admins \ {a} : Still(x) /\ unseen'[x] = unseen[x]
  BY <1>a DEF IInv, TypeOK, Still
<1> QED BY <1>a, <1>1, <1>2, <1>4, <1>5, LocalStep DEF Writing

LEMMA UnreadableMountIInv ==
  ASSUME IInv, NEW a \in Admins, NEW f \in Files, UnreadableMount(a, f)
  PROVE  IInv'
<1>1. unannounced' \in BOOLEAN /\ (unannounced' => unannounced /\ pc[a] # "clear")
  BY DEF UnreadableMount, IInv, TypeOK
<1> QED BY <1>1, AnswerIInv DEF UnreadableMount

LEMMA ValidatedIInv ==
  ASSUME IInv, NEW a \in Admins, Validated(a)
  PROVE  IInv'
<1>1. CASE fault[a]
  <2>1. unannounced' \in BOOLEAN /\ (unannounced' => unannounced /\ pc[a] # "clear")
    BY DEF Validated, IInv, TypeOK
  <2> QED BY <1>1, <2>1, AnswerIInv DEF Validated
<1>2. CASE ~fault[a]
  <2>a. /\ pc[a] = "mounts"
        /\ pc' = [pc EXCEPT ![a] = "exists"]
        /\ UNCHANGED <<disk, tmp, drivers, from, target, draft, leave, unread, fault,
                       contended, unseen, skipped, unannounced>>
    BY <1>2 DEF Validated, Goto, form
  <2>1. TypeOK'
    BY <2>a DEF IInv, TypeOK, Stages
  <2>2. pc'[a] = "exists"
    BY <2>a DEF IInv, TypeOK
  <2>3. Clean(a)'
    BY <1>2, <2>a DEF IInv, Good, Checked, Clean
  <2>4. Good(a)'
    BY <2>a, <2>2, <2>3 DEF IInv, Good, Placed, Checked, Looked, OwnTmp, Saving, Checking
  <2>5. \A x \in Admins \ {a} : Still(x) /\ unseen'[x] = unseen[x]
    BY <2>a DEF IInv, TypeOK, Still
  <2> QED BY <2>a, <2>1, <2>2, <2>4, <2>5, LocalStep DEF Writing
<1> QED BY <1>1, <1>2

LEMMA LookForTargetIInv ==
  ASSUME IInv, NEW a \in Admins, LookForTarget(a)
  PROVE  IInv'
<1>1. CASE ~Writable(a)
  <2>1. unannounced' \in BOOLEAN /\ (unannounced' => unannounced /\ pc[a] # "clear")
    BY DEF LookForTarget, IInv, TypeOK
  <2> QED BY <1>1, <2>1, AnswerIInv DEF LookForTarget
<1>2. CASE Writable(a)
  <2>a. /\ pc[a] = "exists"
        /\ pc' = [pc EXCEPT ![a] = "open"]
        /\ unseen' = [unseen EXCEPT ![a] = unseen[a] \ {target[a]}]
        /\ UNCHANGED <<disk, tmp, drivers, from, target, draft, leave, unread, fault,
                       contended, skipped, unannounced>>
    BY <1>2 DEF LookForTarget, Goto, form
  <2>1. TypeOK'
    BY <2>a DEF IInv, TypeOK, Stages
  <2>2. /\ pc'[a] = "open" /\ unseen'[a] = unseen[a] \ {target[a]}
        /\ target'[a] = target[a] /\ draft'[a] = draft[a]
    BY <2>a DEF IInv, TypeOK
  <2>3. Clean(a)'
    BY <2>a, <2>2 DEF IInv, Good, Checked, Clean
  <2>4. Looked(a)'
    BY <1>2, <2>a DEF Looked, Writable, Allowed
  <2>5. Good(a)'
    BY <2>a, <2>2, <2>3, <2>4 DEF IInv, Good, Placed, Checked, OwnTmp, Saving, Checking
  <2>6. \A x \in Admins \ {a} : Still(x) /\ unseen'[x] = unseen[x]
    BY <2>a DEF IInv, TypeOK, Still
  <2> QED BY <2>a, <2>1, <2>2, <2>5, <2>6, LocalStep DEF Writing
<1> QED BY <1>1, <1>2

LEMMA DeleteIInv ==
  ASSUME IInv, NEW a \in Admins, NEW f \in Files, Delete(a, f)
  PROVE  IInv'
<1>a. /\ pc[a] = "idle" /\ f \in ConnFiles
      /\ pc' = [pc EXCEPT ![a] = "unlink"]
      /\ target' = [target EXCEPT ![a] = f]
      /\ UNCHANGED <<disk, tmp, drivers, from, draft, leave, unread, fault, contended,
                     unseen, skipped, unannounced>>
  BY DEF Delete, Goto, history, ConnFiles
<1>1. TypeOK'
  BY <1>a DEF IInv, TypeOK, Stages, ConnFiles
<1>2. pc'[a] = "unlink" /\ target'[a] = f
  BY <1>a DEF IInv, TypeOK
<1>3. Good(a)'
  BY <1>a, <1>2 DEF Good, Placed, Checked, Looked, OwnTmp, Saving, Checking
<1>4. \A x \in Admins \ {a} : Still(x) /\ unseen'[x] = unseen[x]
  BY <1>a DEF IInv, TypeOK, Still
<1> QED BY <1>a, <1>1, <1>2, <1>3, <1>4, LocalStep DEF Writing

LEMMA ClearIInv ==
  ASSUME IInv, NEW a \in Admins, Clear(a)
  PROVE  IInv'
<1>1. unannounced' = FALSE
  BY DEF Clear
<1> QED BY <1>1, AnswerIInv DEF Clear

LEMMA FailIInv ==
  ASSUME IInv, NEW a \in Admins, Fail(a)
  PROVE  IInv'
<1>1. unannounced' \in BOOLEAN /\ (unannounced' => unannounced /\ pc[a] # "clear")
  BY DEF Fail, IInv, TypeOK
<1> QED BY <1>1, AnswerIInv DEF Fail

(* Handler a truncates the tmp: its rivals and it learn of each other.     *)
LEMMA OpenIInv ==
  ASSUME IInv, NEW a \in Admins, Open(a)
  PROVE  IInv'
<1> DEFINE t == target[a]
<1>a. /\ pc[a] = "open"
      /\ tmp' = [tmp EXCEPT ![t] = Torn]
      /\ contended' = [b \in Admins |-> IF b = a THEN Rivals(a) # {}
                                        ELSE contended[b] \/ b \in Rivals(a)]
      /\ pc' = [pc EXCEPT ![a] = "fill"]
      /\ UNCHANGED <<disk, drivers, from, target, draft, leave, unread, fault, unseen,
                     skipped, unannounced>>
  BY DEF Open, Truncate, Goto, form
<1>b. t \in ConnFiles /\ t \in Files /\ Good(a)
  BY <1>a DEF IInv, Good, Placed, Saving, Checking, ConnFiles
<1>c. \A x \in Admins \ {a} : pc'[x] = pc[x]
  BY <1>a DEF IInv, TypeOK
<1>d. pc'[a] = "fill" /\ tmp'[t] = Torn /\ \A g \in Files \ {t} : tmp'[g] = tmp[g]
  BY <1>a, <1>b DEF IInv, TypeOK
<1>e. contended' \in [Admins -> BOOLEAN]
  <2>1. \A b \in Admins : contended'[b] \in BOOLEAN
    BY <1>a DEF IInv, TypeOK
  <2> QED BY <1>a, <2>1
<1>1. TypeOK'
  BY <1>a, <1>e, <1>b DEF IInv, TypeOK, Stages
<1>2. MountsUnique' /\ FilesWhole'
  BY <1>a, FilesStill DEF IInv
<1>3. ChangesAnnounced'
  BY <1>a, <1>c DEF IInv, ChangesAnnounced
<1>4. Noticed'
  <2> SUFFICES ASSUME NEW x \in Admins, NEW y \in Admins, x # y, Meets(x, y)'
               PROVE  contended'[x]
    BY DEF Noticed
  <2>1. target[x] = target[y] /\ pc'[x] \in Writing /\ pc'[y] \in Writing
    BY <1>a DEF Meets
  <2>2. CASE x = a
    <3>1. y \in Rivals(a)
      BY <1>c, <2>1, <2>2 DEF Rivals, Writing
    <3> QED BY <1>a, <2>2, <3>1
  <2>3. CASE y = a
    <3>1. x \in Rivals(a)
      BY <1>c, <2>1, <2>3 DEF Rivals, Writing
    <3> QED BY <1>a, <2>3, <3>1
  <2>4. CASE x # a /\ y # a
    <3>1. Meets(x, y)
      BY <1>c, <2>1, <2>4 DEF Meets
    <3>2. contended[x]
      BY <3>1 DEF IInv, Noticed
    <3> QED BY <1>a, <2>4, <3>2
  <2> QED BY <2>2, <2>3, <2>4
<1>5. ASSUME NEW x \in Admins PROVE Good(x)'
  <2>1. Placed(x)' /\ Checked(x)' /\ Looked(x)'
    <3>1. Clean(x)' <=> Clean(x)
      BY <1>a DEF Clean
    <3>2. Allowed(x)' <=> Allowed(x)
      BY <1>a DEF Allowed
    <3>3. CASE x = a
      BY <1>a, <1>b, <1>d, <3>1, <3>2, <3>3
         DEF Good, Placed, Checked, Looked, Saving, Checking
    <3>4. CASE x # a
      <4>1. pc'[x] = pc[x] /\ Good(x)
        BY <1>c, <3>4 DEF IInv
      <4> QED BY <1>a, <4>1, <3>1, <3>2 DEF Good, Placed, Checked, Looked
    <3> QED BY <3>3, <3>4
  <2>2. OwnTmp(x)'
    <3> SUFFICES ASSUME ~contended'[x]
                 PROVE  /\ pc'[x] = "fill" => tmp'[target[x]] = Torn
                        /\ pc'[x] = "replace" => tmp'[target[x]] = draft[x]
      BY <1>a DEF OwnTmp
    <3>1. CASE x = a
      BY <1>d, <3>1
    <3>2. CASE x # a
      <4>1. pc'[x] = pc[x] /\ Good(x)
        BY <1>c, <3>2 DEF IInv
      <4>2. ~contended[x] /\ x \notin Rivals(a)
        BY <1>a, <3>2
      <4>3. CASE pc[x] \in Writing
        <5>1. target[x] # t
          BY <4>2, <4>3, <3>2 DEF Rivals, Writing
        <5>2. target[x] \in Files
          BY <4>1, <4>3 DEF Good, Placed, Writing, Saving, Checking, ConnFiles
        <5> QED BY <1>d, <4>1, <4>2, <5>1, <5>2 DEF Good, OwnTmp
      <4> QED BY <4>1, <4>3 DEF Writing
    <3> QED BY <3>1, <3>2
  <2> QED BY <2>1, <2>2 DEF Good
<1> QED BY <1>1, <1>2, <1>3, <1>4, <1>5 DEF IInv

LEMMA FillIInv ==
  ASSUME IInv, NEW a \in Admins, Fill(a)
  PROVE  IInv'
<1> DEFINE t == target[a]
<1>1. PICK c \in {draft[a], Torn} :
        /\ tmp' = [tmp EXCEPT ![t] = c]
        /\ c = draft[a] \/ contended[a] \/ tmp[t] # Torn
  BY DEF Fill
<1>a. /\ pc[a] = "fill"
      /\ pc' = [pc EXCEPT ![a] = "replace"]
      /\ UNCHANGED <<disk, drivers, from, target, draft, leave, unread, fault, contended,
                     unseen, skipped, unannounced>>
  BY DEF Fill, Goto, form
<1>b. t \in ConnFiles /\ t \in Files /\ draft[a] \in Doc /\ Good(a)
  BY <1>a DEF IInv, Good, Placed, Saving, Checking, ConnFiles
<1>c. \A x \in Admins \ {a} : pc'[x] = pc[x]
  BY <1>a DEF IInv, TypeOK
<1>d. pc'[a] = "replace" /\ tmp'[t] = c /\ \A g \in Files \ {t} : tmp'[g] = tmp[g]
  BY <1>1, <1>a, <1>b DEF IInv, TypeOK
<1>2. TypeOK'
  BY <1>1, <1>a, <1>b DEF IInv, TypeOK, Stages
<1>3. MountsUnique' /\ FilesWhole'
  BY <1>a, FilesStill DEF IInv
<1>4. ChangesAnnounced'
  BY <1>a, <1>c DEF IInv, ChangesAnnounced
<1>5. Noticed'
  <2> SUFFICES ASSUME NEW x \in Admins, NEW y \in Admins, x # y, Meets(x, y)'
               PROVE  contended[x]
    BY <1>a DEF Noticed
  <2>1. pc[x] \in Writing /\ pc[y] \in Writing
    BY <1>a, <1>c DEF Meets, Writing
  <2>2. Meets(x, y)
    BY <1>a, <2>1 DEF Meets
  <2> QED BY <2>2 DEF IInv, Noticed
<1>6. ASSUME NEW x \in Admins PROVE Good(x)'
  <2>1. Placed(x)' /\ Checked(x)' /\ Looked(x)'
    <3>1. Clean(x)' <=> Clean(x)
      BY <1>a DEF Clean
    <3>2. Allowed(x)' <=> Allowed(x)
      BY <1>a DEF Allowed
    <3>3. CASE x = a
      BY <1>a, <1>b, <1>d, <3>1, <3>2, <3>3
         DEF Good, Placed, Checked, Looked, Saving, Checking
    <3>4. CASE x # a
      <4>1. pc'[x] = pc[x] /\ Good(x)
        BY <1>c, <3>4 DEF IInv
      <4> QED BY <1>a, <4>1, <3>1, <3>2 DEF Good, Placed, Checked, Looked
    <3> QED BY <3>3, <3>4
  <2>2. OwnTmp(x)'
    <3> SUFFICES ASSUME ~contended[x]
                 PROVE  /\ pc'[x] = "fill" => tmp'[target[x]] = Torn
                        /\ pc'[x] = "replace" => tmp'[target[x]] = draft[x]
      BY <1>a DEF OwnTmp
    <3>1. CASE x = a
      <4>1. tmp[t] = Torn
        BY <1>a, <1>b, <3>1 DEF Good, OwnTmp
      <4>2. c = draft[a]
        BY <1>1, <3>1, <4>1
      <4> QED BY <1>d, <3>1, <4>2
    <3>2. CASE x # a
      <4>1. pc'[x] = pc[x] /\ Good(x)
        BY <1>c, <3>2 DEF IInv
      <4>2. CASE pc[x] \in Writing
        <5>1. target[x] # t
          BY <1>a, <3>2, <4>2 DEF IInv, Noticed, Meets, Writing
        <5>2. target[x] \in Files
          BY <4>1, <4>2 DEF Good, Placed, Writing, Saving, Checking, ConnFiles
        <5> QED BY <1>d, <4>1, <5>1, <5>2 DEF Good, OwnTmp
      <4> QED BY <4>1, <4>2 DEF Writing
    <3> QED BY <3>1, <3>2
  <2> QED BY <2>1, <2>2 DEF Good
<1> QED BY <1>2, <1>3, <1>4, <1>5, <1>6 DEF IInv

(* File f gets the contents c from a writer that did not check the files u. *)
LEMMA DiskFiles ==
  ASSUME MountsUnique, FilesWhole, TypeOK, NEW f \in Files,
         NEW c \in Doc \cup {None, Torn}, NEW u \in SUBSET Files,
         disk' = [disk EXCEPT ![f] = c], Changed(f, u),
         c = Torn => f \in u,
         \A g \in ConnFiles : g # f /\ g \notin u /\ c \in Doc /\ disk[g] \in Doc
           => disk[g].mount # c.mount
  PROVE  MountsUnique' /\ FilesWhole'
<1>1. disk'[f] = c /\ \A g \in Files \ {f} : disk'[g] = disk[g]
  BY DEF TypeOK
<1>2. skipped'[f] = u /\ \A g \in Files \ {f} : skipped'[g] = skipped[g] \ {f}
  BY DEF Changed
<1>3. MountsUnique'
  <2> SUFFICES ASSUME NEW g \in ConnFiles, NEW h \in ConnFiles, g # h, Clash(g, h)'
               PROVE  h \in skipped'[g] \/ g \in skipped'[h]
    BY DEF MountsUnique, ConnFiles
  <2>1. g \in Files /\ h \in Files
    BY DEF ConnFiles
  <2>2. disk'[g] \in Doc /\ disk'[h] \in Doc /\ disk'[g].mount = disk'[h].mount
    BY DEF Clash
  <2>3. CASE g = f
    BY <1>1, <1>2, <2>1, <2>2, <2>3
  <2>4. CASE h = f
    BY <1>1, <1>2, <2>1, <2>2, <2>4
  <2>5. CASE g # f /\ h # f
    <3>1. Clash(g, h)
      BY <1>1, <2>1, <2>2, <2>5 DEF Clash
    <3>2. h \in skipped[g] \/ g \in skipped[h]
      BY <3>1 DEF MountsUnique, ConnFiles
    <3> QED BY <1>2, <2>1, <2>5, <3>2
  <2> QED BY <2>3, <2>4, <2>5
<1>4. FilesWhole'
  <2> SUFFICES ASSUME NEW g \in Files, disk'[g] = Torn PROVE g \in skipped'[g]
    BY DEF FilesWhole
  <2>1. CASE g = f
    BY <1>1, <1>2, <2>1
  <2>2. CASE g # f
    BY <1>1, <1>2, <2>2 DEF FilesWhole
  <2> QED BY <2>1, <2>2
<1> QED BY <1>3, <1>4

(* What a handler that does not itself write f still knows.                *)
LEMMA DiskOther ==
  ASSUME TypeOK, NEW x \in Admins, Good(x), Still(x), NEW f \in Files,
         NEW c \in Doc \cup {None, Torn}, NEW u \in SUBSET Files,
         disk' = [disk EXCEPT ![f] = c], Changed(f, u),
         pc[x] \in Writing /\ ~contended[x] => tmp'[target[x]] = tmp[target[x]]
  PROVE  Good(x)'
<1>1. \A g \in Files \ {f} : disk'[g] = disk[g]
  BY DEF TypeOK
<1>2. pc[x] \in Checking => unseen'[x] = unseen[x] \cup {f}
  BY DEF Changed, Still
<1>3. Placed(x)'
  BY <1>2 DEF Good, Placed, Still, Checking
<1>4. pc[x] \in Checking /\ Clean(x) => Clean(x)'
  BY <1>1, <1>2 DEF Clean, Still, ConnFiles
<1>5. Checked(x)'
  BY <1>4 DEF Good, Checked, Still, Checking
<1>6. Looked(x)'
  <2> SUFFICES ASSUME pc[x] \in {"open", "fill", "replace"}, ~Allowed(x)
               PROVE  target[x] \in unseen'[x] \/ disk'[target[x]] = None
    BY DEF Looked, Allowed, Still
  <2>1. target[x] \in Files
    BY DEF Good, Placed, Saving, Checking, ConnFiles
  <2>2. unseen'[x] = unseen[x] \cup {f}
    BY <1>2 DEF Checking
  <2> QED BY <1>1, <2>1, <2>2 DEF Good, Looked
<1>7. OwnTmp(x)'
  BY DEF Good, OwnTmp, Still, Writing
<1> QED BY <1>3, <1>5, <1>6, <1>7 DEF Good

(* The types of what Changed assigns.                                      *)
LEMMA ChangedType ==
  ASSUME TypeOK, NEW f \in Files, NEW u \in SUBSET Files, Changed(f, u)
  PROVE  skipped' \in [Files -> SUBSET Files] /\ unseen' \in [Admins -> SUBSET Files]
<1>1. \A g \in Files : (IF g = f THEN u ELSE skipped[g] \ {f}) \in SUBSET Files
  BY DEF TypeOK
<1>2. \A b \in Admins :
        (IF pc'[b] \in Checking THEN unseen[b] \cup {f} ELSE {}) \in SUBSET Files
  BY DEF TypeOK
<1> QED BY <1>1, <1>2 DEF Changed

LEMMA ReplaceIInv ==
  ASSUME IInv, NEW a \in Admins, Replace(a)
  PROVE  IInv'
<1> DEFINE t == target[a]
           c == tmp[t]
           u == IF contended[a] THEN Files ELSE unseen[a] \ {t}
<1>a. /\ pc[a] = "replace" /\ c # None
      /\ disk' = [disk EXCEPT ![t] = c]
      /\ tmp' = [tmp EXCEPT ![t] = None]
      /\ pc' = [pc EXCEPT ![a] = "clear"]
      /\ Changed(t, u)
      /\ unannounced' = TRUE
      /\ contended' = [contended EXCEPT ![a] = FALSE]
      /\ UNCHANGED <<drivers, from, target, draft, leave, unread, fault>>
  BY DEF Replace, Movable, Goto, form
<1>b. t \in ConnFiles /\ t \in Files /\ draft[a] \in Doc /\ Good(a) /\ Clean(a)
  BY <1>a DEF IInv, Good, Placed, Checked, Saving, Checking, ConnFiles
<1>c. c \in Doc \cup {None, Torn} /\ u \in SUBSET Files
  BY <1>b DEF IInv, TypeOK
<1>d. ~contended[a] => c = draft[a]
  BY <1>a, <1>b DEF Good, OwnTmp
<1>e. \A x \in Admins \ {a} : Still(x)
  BY <1>a DEF IInv, TypeOK, Still
<1>f. pc'[a] = "clear"
  BY <1>a DEF IInv, TypeOK
<1>1. TypeOK'
  <2>1. skipped' \in [Files -> SUBSET Files] /\ unseen' \in [Admins -> SUBSET Files]
    BY <1>a, <1>b, <1>c, ChangedType DEF IInv
  <2> HIDE DEF c, u
  <2> QED BY <1>a, <1>b, <1>c, <2>1 DEF IInv, TypeOK, Stages
<1>2. c = Torn => t \in u
  BY <1>b, <1>d, TornIsNoDoc
<1>3. \A g \in ConnFiles : g # t /\ g \notin u /\ c \in Doc /\ disk[g] \in Doc
        => disk[g].mount # c.mount
  BY <1>b, <1>d DEF Clean, ConnFiles
<1>4. MountsUnique' /\ FilesWhole'
  <2>1. disk' = [disk EXCEPT ![t] = c] /\ Changed(t, u)
    BY <1>a
  <2>2. MountsUnique /\ FilesWhole /\ TypeOK
    BY DEF IInv
  <2> HIDE DEF t, c, u
  <2> QED BY <2>1, <2>2, <1>b, <1>c, <1>2, <1>3, DiskFiles
<1>5. ChangesAnnounced'
  BY <1>f DEF ChangesAnnounced
<1>6. Noticed'
  <2> SUFFICES ASSUME NEW x \in Admins, NEW y \in Admins, x # y, Meets(x, y)'
               PROVE  contended'[x]
    BY DEF Noticed
  <2>1. x # a /\ y # a
    BY <1>f DEF Meets, Writing
  <2> QED BY <1>e, <2>1 DEF IInv, Noticed, Meets, Still
<1>7. Good(a)'
  BY <1>f DEF Good, Placed, Checked, Looked, OwnTmp, Saving, Checking
<1>8. ASSUME NEW x \in Admins \ {a} PROVE Good(x)'
  <2>1. ASSUME pc[x] \in Writing, ~contended[x] PROVE tmp'[target[x]] = tmp[target[x]]
    <3>1. target[x] # t
      BY <1>a, <2>1 DEF IInv, Noticed, Meets, Writing
    <3>2. target[x] \in Files
      BY <2>1 DEF IInv, Good, Placed, Writing, Saving, Checking, ConnFiles
    <3> QED BY <1>a, <3>1, <3>2 DEF IInv, TypeOK
  <2>2. Good(x) /\ Still(x) /\ x \in Admins /\ TypeOK
    BY <1>e DEF IInv
  <2> HIDE DEF c, u
  <2> QED BY <1>a, <1>b, <1>c, <2>1, <2>2, DiskOther
<1> QED BY <1>1, <1>4, <1>5, <1>6, <1>7, <1>8 DEF IInv

LEMMA UnlinkIInv ==
  ASSUME IInv, NEW a \in Admins, Unlink(a)
  PROVE  IInv'
<1> DEFINE t == target[a]
<1>a. /\ pc[a] = "unlink"
      /\ disk' = [disk EXCEPT ![t] = None]
      /\ pc' = [pc EXCEPT ![a] = "clear"]
      /\ Changed(t, {})
      /\ unannounced' = TRUE
      /\ UNCHANGED <<tmp, drivers, from, target, draft, leave, unread, fault, contended>>
  BY DEF Unlink, AfterUnlink, Goto, form
<1>b. t \in Files
  BY <1>a DEF IInv, Good, Placed, ConnFiles
<1>e. \A x \in Admins \ {a} : Still(x)
  BY <1>a DEF IInv, TypeOK, Still
<1>f. pc'[a] = "clear"
  BY <1>a DEF IInv, TypeOK
<1>1. TypeOK'
  <2>1. skipped' \in [Files -> SUBSET Files] /\ unseen' \in [Admins -> SUBSET Files]
    BY <1>a, <1>b, ChangedType DEF IInv
  <2> QED BY <1>a, <1>b, <2>1 DEF IInv, TypeOK, Stages
<1>2. MountsUnique' /\ FilesWhole'
  <2> DEFINE c == None
             u == {}
  <2>1. /\ c \in Doc \cup {None, Torn} /\ u \in SUBSET Files
        /\ c \notin Doc /\ c # Torn
        /\ disk' = [disk EXCEPT ![t] = c] /\ Changed(t, u)
    BY <1>a, TornIsNoDoc
  <2> HIDE DEF c, u
  <2> QED BY <1>b, <2>1, DiskFiles DEF IInv
<1>3. ChangesAnnounced'
  BY <1>f DEF ChangesAnnounced
<1>4. Noticed'
  <2> SUFFICES ASSUME NEW x \in Admins, NEW y \in Admins, x # y, Meets(x, y)'
               PROVE  contended'[x]
    BY DEF Noticed
  <2>1. x # a /\ y # a
    BY <1>f DEF Meets, Writing
  <2> QED BY <1>e, <2>1 DEF IInv, Noticed, Meets, Still
<1>5. Good(a)'
  BY <1>f DEF Good, Placed, Checked, Looked, OwnTmp, Saving, Checking
<1>6. \A x \in Admins \ {a} : Good(x)'
  <2> DEFINE c == None
             u == {}
  <2>1. /\ c \in Doc \cup {None, Torn} /\ u \in SUBSET Files
        /\ disk' = [disk EXCEPT ![t] = c] /\ Changed(t, u) /\ tmp' = tmp
    BY <1>a
  <2> HIDE DEF c, u
  <2> QED BY <1>b, <1>e, <2>1, DiskOther DEF IInv
<1> QED BY <1>1, <1>2, <1>3, <1>4, <1>5, <1>6 DEF IInv

LEMMA HandEditIInv ==
  ASSUME IInv, NEW f \in Edited, HandEdit(f)
  PROVE  IInv'
<1>1. PICK c \in Doc \cup {None, Torn} : disk' = [disk EXCEPT ![f] = c]
  BY DEF HandEdit
<1>a. /\ Changed(f, Files)
      /\ UNCHANGED <<tmp, pc, drivers, from, target, draft, leave, unread, fault,
                     contended, unannounced>>
  BY DEF HandEdit, form
<1>b. f \in Files
  BY ConfigConstantsOK
<1>2. TypeOK'
  <2>1. skipped' \in [Files -> SUBSET Files] /\ unseen' \in [Admins -> SUBSET Files]
    BY <1>a, <1>b, ChangedType DEF IInv
  <2> QED BY <1>1, <1>a, <1>b, <2>1 DEF IInv, TypeOK
<1>3. MountsUnique' /\ FilesWhole'
  <2>1. \A g \in ConnFiles : g \in Files
    BY DEF ConnFiles
  <2> QED BY <1>1, <1>a, <1>b, <2>1, DiskFiles DEF IInv
<1>4. ChangesAnnounced' /\ Noticed'
  BY <1>a DEF IInv, ChangesAnnounced, Noticed, Meets
<1>5. \A x \in Admins : Still(x)
  BY <1>a DEF Still
<1>6. \A x \in Admins : Good(x)'
  BY <1>1, <1>a, <1>b, <1>5, DiskOther DEF IInv
<1> QED BY <1>2, <1>3, <1>4, <1>6 DEF IInv

LEMMA DriverPageIInv ==
  ASSUME IInv, NEW d \in Drivers, DriverPage(d)
  PROVE  IInv'
<1>a. /\ drivers' \in {drivers \cup {d}, drivers \ {d}}
      /\ UNCHANGED <<disk, tmp, pc, from, target, draft, leave, unread, fault, contended,
                     unseen, skipped, unannounced>>
  BY DEF DriverPage, form, history
<1>1. TypeOK'
  BY <1>a DEF IInv, TypeOK
<1>2. MountsUnique' /\ FilesWhole'
  BY <1>a, FilesStill DEF IInv
<1>3. ChangesAnnounced' /\ Noticed'
  BY <1>a DEF IInv, ChangesAnnounced, Noticed, Meets
<1>4. \A x \in Admins : Good(x)'
  BY <1>a, StillGood DEF IInv, Still
<1> QED BY <1>1, <1>2, <1>3, <1>4 DEF IInv

LEMMA RestartIInv ==
  ASSUME IInv, Restart
  PROVE  IInv'
<1>1. TypeOK'
  BY DEF Restart, IInv, TypeOK, Stages
<1>2. MountsUnique' /\ FilesWhole'
  BY FilesStill DEF Restart, IInv
<1>3. ChangesAnnounced' /\ Noticed'
  BY DEF Restart, ChangesAnnounced, Noticed, Meets, Writing
<1>4. ASSUME NEW x \in Admins PROVE Good(x)'
  <2>1. pc'[x] = "idle"
    BY DEF Restart
  <2> QED BY <2>1 DEF Good, Placed, Checked, Looked, OwnTmp, Saving, Checking
<1> QED BY <1>1, <1>2, <1>3, <1>4 DEF IInv

LEMMA StutterIInv == IInv /\ UNCHANGED vars => IInv'
<1> SUFFICES ASSUME IInv, UNCHANGED vars PROVE IInv'
  OBVIOUS
<1>a. UNCHANGED <<disk, tmp, drivers, pc, from, target, draft, leave, unread, fault,
                  contended, unseen, skipped, unannounced>>
  BY DEF vars, form, history
<1>1. TypeOK'
  BY <1>a DEF IInv, TypeOK
<1>2. MountsUnique' /\ FilesWhole'
  BY <1>a, FilesStill DEF IInv
<1>3. ChangesAnnounced' /\ Noticed'
  BY <1>a DEF IInv, ChangesAnnounced, Noticed, Meets
<1>4. \A x \in Admins : Good(x)'
  BY <1>a, StillGood DEF IInv, Still
<1> QED BY <1>1, <1>2, <1>3, <1>4 DEF IInv

LEMMA NextIInv == IInv /\ [Next]_vars => IInv'
<1> SUFFICES ASSUME IInv, [Next]_vars PROVE IInv'
  OBVIOUS
<1>1. CASE \E a \in Admins : Save(a)
  BY <1>1, SubmitIInv, ReadDriversIInv, ListIInv, ReadMountIInv, UnreadableMountIInv,
     ValidatedIInv, LookForTargetIInv, OpenIInv, FillIInv, ReplaceIInv DEF Save
<1>2. CASE \E a \in Admins : Clear(a) \/ Fail(a)
  BY <1>2, ClearIInv, FailIInv
<1>3. CASE \E a \in Admins, f \in Files : Delete(a, f)
  BY <1>3, DeleteIInv
<1>4. CASE \E a \in Admins : Unlink(a)
  BY <1>4, UnlinkIInv
<1>5. CASE \E d \in Drivers : DriverPage(d)
  BY <1>5, DriverPageIInv
<1>6. CASE \E f \in Edited : HandEdit(f)
  BY <1>6, HandEditIInv
<1>7. CASE Restart
  BY <1>7, RestartIInv
<1>8. CASE UNCHANGED vars
  BY <1>8, StutterIInv
<1> QED BY <1>1, <1>2, <1>3, <1>4, <1>5, <1>6, <1>7, <1>8 DEF Next

LEMMA SavesIsReplace ==
  ASSUME IInv, [Next]_vars, NEW a \in Admins, Saves(a)
  PROVE  Replace(a)
<1>a. pc[a] = "replace" /\ pc'[a] = "clear" /\ pc \in [Admins -> Stages]
  BY DEF Saves, IInv, TypeOK
<1>1. CASE \E b \in Admins : Save(b) \/ Clear(b) \/ Fail(b)
  <2> PICK b \in Admins : Save(b) \/ Clear(b) \/ Fail(b)
    BY <1>1
  <2>1. ASSUME NEW s \in {"drivers", "list", "mounts", "exists", "open", "fill",
                          "replace", "idle"}, pc' = [pc EXCEPT ![b] = s]
        PROVE  FALSE
    BY <1>a, <2>1
  <2>2. ~(Clear(b) \/ Fail(b))
    BY <2>1 DEF Clear, Fail, Answer, Goto
  <2>3. ~(\E o \in Files \cup {None}, f \in Files, c \in Doc, w \in Flags :
            Submit(b, o, f, c, w))
    BY <2>1 DEF Submit, Goto
  <2>4. ~(ReadDrivers(b) \/ List(b) \/ Open(b) \/ Fill(b))
    BY <2>1 DEF ReadDrivers, List, Open, Fill, Goto
  <2>5. ~(\E f \in Files : ReadMount(b, f) \/ UnreadableMount(b, f))
    BY <1>a, <2>1 DEF ReadMount, UnreadableMount, Answer, Goto
  <2>6. ~(Validated(b) \/ LookForTarget(b))
    BY <2>1 DEF Validated, LookForTarget, Answer, Goto
  <2>7. Replace(b)
    BY <2>2, <2>3, <2>4, <2>5, <2>6 DEF Save
  <2>8. b = a
    BY <1>a, <2>7 DEF Replace, Goto
  <2> QED BY <2>7, <2>8
<1>2. ~(\E b \in Admins, f \in Files : Delete(b, f))
  BY <1>a DEF Delete, Goto
<1>3. ~(\E b \in Admins : Unlink(b))
  BY <1>a DEF Unlink, Goto
<1>4. ~(\E d \in Drivers : DriverPage(d)) /\ ~(\E f \in Edited : HandEdit(f))
  BY <1>a DEF DriverPage, HandEdit
<1>5. ~Restart /\ ~UNCHANGED vars
  BY <1>a DEF Restart, vars
<1> QED BY <1>1, <1>2, <1>3, <1>4, <1>5 DEF Next

-----------------------------------------------------------------------------
(* The strengthening holds in every reachable state of the configuration   *)
(* pages (app/routes/config.py), whatever files, handlers and saves.       *)
THEOREM ConfigInvariant == Spec => []IInv
<1>1. Init => IInv
  BY InitIInv
<1>2. IInv /\ [Next]_vars => IInv'
  BY NextIInv
<1> QED BY <1>1, <1>2, PTL DEF Spec

(* The handlers' variables and the files keep their types.                 *)
THEOREM ConfigTypeCorrect == Spec => []TypeOK
<1>1. IInv => TypeOK
  BY DEF IInv
<1> QED BY <1>1, ConfigInvariant, PTL

(* However config_save's mount check interleaves with other saves, deletes *)
(* and hand edits, two connections share a mount only past a change that   *)
(* the check of one of them could not see.                                 *)
THEOREM MountsStayUnique == Spec => []MountsUnique
<1>1. IInv => MountsUnique
  BY DEF IInv
<1> QED BY <1>1, ConfigInvariant, PTL

(* Writing <file>.tmp and moving it leaves no torn connection file, in any *)
(* order of failures and restarts, unless two saves shared the tmp.        *)
THEOREM FilesStayWhole == Spec => []FilesWhole
<1>1. IInv => FilesWhole
  BY DEF IInv
<1> QED BY <1>1, ConfigInvariant, PTL

(* No page has answered while the runtime cache outlives its change        *)
(* (reload_connection_runtime_cache after every write and delete).         *)
THEOREM ChangesAreAnnounced == Spec => []ChangesAnnounced
<1>1. IInv => ChangesAnnounced
  BY DEF IInv
<1> QED BY <1>1, ConfigInvariant, PTL

(* A save that had its tmp to itself puts the submitted payload into its   *)
(* target (write_text, then replace); one without overwrite replaces       *)
(* another connection's file only if that file appeared after config_save  *)
(* had looked for it.                                                      *)
THEOREM SavedIsSubmitted == Spec => SavesAsSubmitted
<1> DEFINE Faithful ==
             \A a \in Admins : Saves(a) =>
               /\ ~contended[a] => disk'[target[a]] = draft[a]
               /\ disk[target[a]] # None /\ ~Allowed(a) => target[a] \in unseen[a]
<1>1. ASSUME IInv, [Next]_vars, NEW a \in Admins, Saves(a), ~contended[a]
      PROVE  disk'[target[a]] = draft[a]
  <2>1. Replace(a)
    BY <1>1, SavesIsReplace
  <2>2. pc[a] = "replace" /\ disk' = [disk EXCEPT ![target[a]] = tmp[target[a]]]
    BY <2>1 DEF Replace
  <2>3. target[a] \in Files /\ tmp[target[a]] = draft[a]
    BY <1>1, <2>2 DEF IInv, Good, Placed, OwnTmp, Saving, Checking, ConnFiles
  <2> QED BY <1>1, <2>2, <2>3 DEF IInv, TypeOK
<1>2. IInv => \A a \in Admins : Saves(a) =>
        (disk[target[a]] # None /\ ~Allowed(a) => target[a] \in unseen[a])
  BY DEF IInv, Good, Looked, Saves
<1>3. IInv /\ [Next]_vars => [Faithful]_vars
  BY <1>1, <1>2
<1> QED BY <1>3, ConfigInvariant, PTL DEF Spec, SavesAsSubmitted
=============================================================================
