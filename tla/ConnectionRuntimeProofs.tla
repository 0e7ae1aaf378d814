---------------------- MODULE ConnectionRuntimeProofs ----------------------
(* Theorems about ConnectionRuntime, for every value of its constants.     *)
EXTENDS ConnectionRuntime, TLAPS

(* No file was written while the request has been running.                 *)
Undisturbed(t) == steady[t] \/ (~overtaken[t] /\ ~dirty)

(* What justifies that a name is served.                                   *)
Seen(t) == there[t] \/ (name[t] \in Drivers /\ writes[t] = 2)

Frame(t) ==
  /\ steady[t] => ~dirty
  /\ pc[t] = "ready" => ~steady[t] /\ writes[t] = 0
  /\ pc[t] # "ready" => name[t] \in Names
  /\ pc[t] # "ready" /\ Registered(name[t]) => there[t]
  /\ pc[t] \in {"resolve", "lookup", "probe", "readConn", "readDrv", "store"} => Seen(t)
  /\ pc[t] \in {"lookup", "probe", "readConn", "readDrv", "store"} => class[t] \in Drivers
  /\ pc[t] \notin {"readDrv", "store"} => conn[t] = None
  /\ left[t] # {} => pc[t] \in Listing

(* The driver files do not name n, and they, not the modules, name names.  *)
Unnamed(n) == n \notin Configured /\ (n \in Drivers => Configured # {})

(* A request that lists, for a name that has not been registered meanwhile:*)
(* with no file written it has just the files there are, and after one     *)
(* write there is still a file it will find, or no driver file names it.   *)
Rest(t) == left[t] \cup found[t]
Looks(t) ==
  /\ pc[t] = "driverFiles" => Rest(t) \subseteq Drivers
  /\ pc[t] = "drivers" /\ name[t] \in found[t] => there[t]
  /\ pc[t] \in {"keys", "drivers"} /\ ~there[t] =>
       /\ writes[t] = 0 => Rest(t) = Connected
       /\ writes[t] = 1 => Connected \cap Rest(t) # {} \/ Unnamed(name[t])
  /\ pc[t] = "driverFiles" /\ ~there[t] =>
       /\ writes[t] = 0 => Connected = {} /\ Rest(t) = Configured
       /\ writes[t] = 1 => \/ name[t] \notin Drivers
                           \/ name[t] \notin Rest(t) /\ Configured \cap Rest(t) # {}

(* Where a request is determines what it has read; undisturbed, it has     *)
(* read what the files still say.                                          *)
Reads(t) ==
  Undisturbed(t) =>
    /\ pc[t] \in {"lookup", "probe", "readConn", "readDrv", "store"} =>
         class[t] = DriverOf(name[t])
    /\ pc[t] \in {"readDrv", "store"} => conn[t] = connFile[name[t]]
    /\ pc[t] = "store" => drv[t] = drvFile[class[t]]
Sound(t) == Frame(t) /\ Looks(t) /\ Reads(t)

(* The strengthening that is inductive.                                    *)
IInv == TypeOK /\ FreshUnlessOvertaken /\ \A t \in Threads : Sound(t)

-----------------------------------------------------------------------------
LEMMA FilesKept ==
  ASSUME UNCHANGED files
  PROVE  /\ connFile' = connFile /\ drvFile' = drvFile
         /\ Connected' = Connected /\ Configured' = Configured
         /\ \A n : DriverOf(n)' = DriverOf(n)
         /\ \A n : Registered(n)' = Registered(n)
         /\ \A n : Current(n)' = Current(n)
         /\ \A n : Unnamed(n)' = Unnamed(n)
<1>1. connFile' = connFile /\ drvFile' = drvFile
  BY DEF files
<1>2. Connected' = Connected /\ Configured' = Configured
  BY <1>1 DEF Connected, Configured
<1>3. \A n : DriverOf(n)' = DriverOf(n)
  BY <1>1 DEF DriverOf
<1>4. \A n : Registered(n)' = Registered(n)
  BY <1>1, <1>2 DEF Registered
<1>5. \A n : Current(n)' = Current(n)
  BY <1>1 DEF Current, DriverOf
<1>6. \A n : Unnamed(n)' = Unnamed(n)
  BY <1>2 DEF Unnamed
<1> QED BY <1>1, <1>2, <1>3, <1>4, <1>5, <1>6

(* What a request is, at a thread that another step leaves alone.          *)
Kept(x) ==
  /\ pc'[x] = pc[x] /\ name'[x] = name[x] /\ left'[x] = left[x] /\ found'[x] = found[x]
  /\ class'[x] = class[x] /\ conn'[x] = conn[x] /\ drv'[x] = drv[x]
  /\ overtaken'[x] = overtaken[x] /\ steady'[x] = steady[x]
  /\ there'[x] = there[x] /\ writes'[x] = writes[x]

LEMMA OverReset ==
  ASSUME TypeOK, NEW T \in SUBSET Threads, Over(T)
  PROVE  /\ \A t \in T : /\ pc'[t] = "ready" /\ conn'[t] = None /\ left'[t] = {}
                         /\ steady'[t] = FALSE /\ writes'[t] = 0
         /\ \A x \in Threads \ T : Kept(x)
         /\ pc' \in [Threads -> Stages]
         /\ name' \in [Threads -> Names \cup {None}]
         /\ left' \in [Threads -> SUBSET Names]
         /\ found' \in [Threads -> SUBSET Names]
         /\ class' \in [Threads -> Drivers \cup {None}]
         /\ conn' \in [Threads -> Connection \cup {None}]
         /\ drv' \in [Threads -> Settings \cup {None}]
         /\ overtaken' \in [Threads -> BOOLEAN]
         /\ steady' \in [Threads -> BOOLEAN]
         /\ there' \in [Threads -> BOOLEAN]
         /\ writes' \in [Threads -> 0..2]
<1>a. /\ pc' = [t \in Threads |-> IF t \in T THEN "ready" ELSE pc[t]]
      /\ name' = [t \in Threads |-> IF t \in T THEN None ELSE name[t]]
      /\ left' = [t \in Threads |-> IF t \in T THEN {} ELSE left[t]]
      /\ found' = [t \in Threads |-> IF t \in T THEN {} ELSE found[t]]
      /\ class' = [t \in Threads |-> IF t \in T THEN None ELSE class[t]]
      /\ conn' = [t \in Threads |-> IF t \in T THEN None ELSE conn[t]]
      /\ drv' = [t \in Threads |-> IF t \in T THEN None ELSE drv[t]]
      /\ overtaken' = [t \in Threads |-> IF t \in T THEN FALSE ELSE overtaken[t]]
      /\ steady' = [t \in Threads |-> IF t \in T THEN FALSE ELSE steady[t]]
      /\ there' = [t \in Threads |-> IF t \in T THEN FALSE ELSE there[t]]
      /\ writes' = [t \in Threads |-> IF t \in T THEN 0 ELSE writes[t]]
  BY DEF Over
<1>1. \A t \in T : /\ pc'[t] = "ready" /\ conn'[t] = None /\ left'[t] = {}
                  /\ steady'[t] = FALSE /\ writes'[t] = 0
  BY <1>a
<1>2. \A x \in Threads \ T : Kept(x)
  BY <1>a DEF Kept
<1>3. /\ pc' \in [Threads -> Stages]
      /\ name' \in [Threads -> Names \cup {None}]
      /\ left' \in [Threads -> SUBSET Names]
      /\ found' \in [Threads -> SUBSET Names]
  BY <1>a DEF TypeOK, Stages
<1>4. /\ class' \in [Threads -> Drivers \cup {None}]
      /\ conn' \in [Threads -> Connection \cup {None}]
      /\ drv' \in [Threads -> Settings \cup {None}]
  BY <1>a DEF TypeOK
<1>5. /\ overtaken' \in [Threads -> BOOLEAN]
      /\ steady' \in [Threads -> BOOLEAN]
      /\ there' \in [Threads -> BOOLEAN]
  BY <1>a DEF TypeOK
<1>6. writes' \in [Threads -> 0..2]
  <2>1. writes \in [Threads -> 0..2] /\ 0 \in 0..2
    BY DEF TypeOK
  <2> QED BY <1>a, <2>1
<1> QED BY <1>1, <1>2, <1>3, <1>4, <1>5, <1>6

LEMMA InitIInv == Init => IInv
<1> SUFFICES ASSUME Init PROVE IInv
  OBVIOUS
<1>1. TypeOK
  <2>1. writes \in [Threads -> 0..2]
    <3>1. 0 \in 0..2
      OBVIOUS
    <3> QED BY <3>1 DEF Init
  <2>2. late \in [Names -> BOOLEAN] /\ dirty \in BOOLEAN
    BY DEF Init
  <2> QED BY <2>1, <2>2 DEF Init, TypeOK, Stages
<1>2. FreshUnlessOvertaken
  BY DEF Init, FreshUnlessOvertaken
<1>3. ASSUME NEW t \in Threads PROVE Sound(t)
  <2>1. /\ pc[t] = "ready" /\ conn[t] = None /\ left[t] = {} /\ ~steady[t] /\ writes[t] = 0
    BY DEF Init
  <2> QED BY <2>1 DEF Sound, Frame, Looks, Reads
<1> QED BY <1>1, <1>2, <1>3 DEF IInv

(* A thread that is free, and one that a step without a write left alone.  *)
LEMMA FreeIsSound ==
  ASSUME NEW t \in Threads, pc'[t] = "ready", conn'[t] = None, left'[t] = {},
         steady'[t] = FALSE, writes'[t] = 0
  PROVE  Sound(t)'
BY DEF Sound, Frame, Looks, Reads

LEMMA KeptIsSound ==
  ASSUME NEW x \in Threads, Sound(x), UNCHANGED <<files, dirty>>, Kept(x)
  PROVE  Sound(x)'
<1>1. /\ connFile' = connFile /\ drvFile' = drvFile /\ dirty' = dirty
      /\ Connected' = Connected /\ Configured' = Configured
      /\ DriverOf(name[x])' = DriverOf(name[x])
      /\ Registered(name[x])' = Registered(name[x])
      /\ Unnamed(name[x])' = Unnamed(name[x])
      /\ Rest(x)' = Rest(x)
  <2>1. name'[x] = name[x]
    BY DEF Kept
  <2>2. connFile' = connFile /\ drvFile' = drvFile /\ dirty' = dirty
    BY FilesKept
  <2>3. Connected' = Connected /\ Configured' = Configured
    BY FilesKept
  <2>4. DriverOf(name[x])' = DriverOf(name[x])
    BY <2>1, <2>2 DEF DriverOf
  <2>5. Registered(name[x])' = Registered(name[x])
    BY <2>1, <2>2, <2>3 DEF Registered
  <2>6. Unnamed(name[x])' = Unnamed(name[x])
    BY <2>1, <2>3 DEF Unnamed
  <2>7. Rest(x)' = Rest(x)
    BY DEF Rest, Kept
  <2> QED BY <2>2, <2>3, <2>4, <2>5, <2>6, <2>7
<1>2. Frame(x)'
  BY <1>1 DEF Sound, Frame, Kept, Seen
<1>3. Looks(x)'
  BY <1>1 DEF Sound, Looks, Kept
<1>4. Reads(x)'
  BY <1>1 DEF Sound, Reads, Undisturbed, Kept
<1> QED BY <1>2, <1>3, <1>4 DEF Sound

(* A step of request t that writes no file.                                *)
LEMMA ServingStep ==
  ASSUME IInv, NEW t \in Threads, UNCHANGED <<files, dirty>>,
         TypeOK', FreshUnlessOvertaken', Sound(t)',
         \A x \in Threads \ {t} : Kept(x)
  PROVE  IInv'
<1>1. ASSUME NEW x \in Threads \ {t} PROVE Sound(x)'
  BY KeptIsSound DEF IInv
<1> QED BY <1>1 DEF IInv

(* A step that keeps every file and the cache keeps the cache fresh.       *)
LEMMA StillFresh ==
  ASSUME FreshUnlessOvertaken, UNCHANGED <<files, cache, late, dirty>>
  PROVE  FreshUnlessOvertaken'
BY FilesKept DEF FreshUnlessOvertaken

(* The request is over and the cache is as it was.                         *)
LEMMA EndIInv ==
  ASSUME IInv, NEW t \in Threads, Over({t}), UNCHANGED <<files, cache, dirty, late>>
  PROVE  IInv'
<1>1. TypeOK'
  BY OverReset DEF IInv, TypeOK, files
<1>2. FreshUnlessOvertaken'
  BY StillFresh DEF IInv
<1>3. Sound(t)' /\ \A x \in Threads \ {t} : Kept(x)
  BY OverReset, FreeIsSound DEF IInv
<1> QED BY <1>1, <1>2, <1>3, ServingStep

-----------------------------------------------------------------------------
(* The list of connections.                                                *)

LEMMA AskIInv ==
  ASSUME IInv, NEW t \in Threads, NEW n \in Names, Ask(t, n)
  PROVE  IInv'
<1>a. /\ pc[t] = "ready" /\ Sound(t)
      /\ pc' = [pc EXCEPT ![t] = "keys"]
      /\ left' = [left EXCEPT ![t] = Connected]
      /\ found' = [found EXCEPT ![t] = {}]
      /\ name' = [name EXCEPT ![t] = n]
      /\ steady' = [steady EXCEPT ![t] = ~dirty]
      /\ there' = [there EXCEPT ![t] = Registered(n)]
      /\ UNCHANGED <<files, cache, class, conn, drv, dirty, overtaken, late, writes>>
  BY DEF Ask, Round, Goto, IInv, built
<1>b. /\ Connected \in SUBSET Names /\ Registered(n) \in BOOLEAN
      /\ Connected' = Connected /\ Registered(n)' = Registered(n) /\ dirty' = dirty
  BY <1>a, FilesKept DEF Connected, Registered
<1>1. TypeOK'
  BY <1>a, <1>b DEF IInv, TypeOK, Stages, Listing, files
<1>2. FreshUnlessOvertaken'
  BY <1>a, StillFresh DEF IInv
<1>3. /\ pc'[t] = "keys" /\ left'[t] = Connected /\ found'[t] = {} /\ name'[t] = n
      /\ steady'[t] = ~dirty /\ there'[t] = Registered(n)
      /\ conn'[t] = conn[t] /\ writes'[t] = writes[t]
  BY <1>a, <1>b DEF IInv, TypeOK
<1>4. conn[t] = None /\ writes[t] = 0
  BY <1>a DEF Sound, Frame
<1>5. Registered(name[t])' = Registered(n)
  BY <1>b, <1>3 DEF Registered
<1>6. Frame(t)'
  BY <1>b, <1>3, <1>4, <1>5 DEF Frame, Listing
<1>7. Looks(t)'
  BY <1>b, <1>3, <1>4 DEF Looks, Rest
<1>8. Reads(t)'
  BY <1>3 DEF Reads
<1>9. \A x \in Threads \ {t} : Kept(x)
  BY <1>a DEF Kept, IInv, TypeOK
<1> QED BY <1>a, <1>1, <1>2, <1>6, <1>7, <1>8, <1>9, ServingStep DEF Sound

(* A step of the list of connections, or of the request after it, that     *)
(* only moves on: what is left to show is that the list says as much.      *)
LEMMA ListingStep ==
  ASSUME IInv, NEW t \in Threads, pc[t] \in Listing,
         UNCHANGED <<files, cache, name, built, dirty, overtaken, late, begun>>,
         NEW l \in Stages, pc' = [pc EXCEPT ![t] = l],
         NEW L \in SUBSET Names, left' = [left EXCEPT ![t] = L],
         NEW F \in SUBSET Names, found' = [found EXCEPT ![t] = F],
         l \in Listing \/ (l = "resolve" /\ Seen(t) /\ L = {}),
         Looks(t)'
  PROVE  IInv'
<1>a. /\ Sound(t) /\ pc'[t] = l /\ left'[t] = L
      /\ UNCHANGED <<connFile, drvFile, cache, name, class, conn, drv, dirty, overtaken,
                     late, steady, there, writes>>
  BY DEF IInv, TypeOK, files, built, begun
<1>1. TypeOK'
  BY <1>a DEF IInv, TypeOK
<1>2. FreshUnlessOvertaken'
  BY StillFresh DEF IInv
<1>3. Registered(name[t])' = Registered(name[t])
  BY <1>a, FilesKept DEF Registered
<1>4. Frame(t)'
  <2>1. Seen(t)' = Seen(t)
    BY <1>a DEF Seen
  <2> QED BY <1>a, <1>3, <2>1 DEF Sound, Frame, Listing
<1>5. Reads(t)'
  BY <1>a DEF Reads, Listing
<1>6. \A x \in Threads \ {t} : Kept(x)
  BY <1>a DEF Kept, IInv, TypeOK
<1> QED BY <1>1, <1>2, <1>4, <1>5, <1>6, ServingStep DEF Sound

LEMMA ReadFileIInv ==
  ASSUME IInv, NEW t \in Threads, ReadFile(t), pc[t] \in Listing
  PROVE  IInv'
<1>a. Sound(t) /\ UNCHANGED <<files, cache, name, built, dirty, overtaken, late, begun>>
  BY DEF ReadFile, IInv
<1>b. PICK n \in left[t] :
        LET here == {n} \cap StillThere(t) IN
        IF pc[t] = "keys" /\ left[t] = {n}
        THEN Round(t, "drivers", found[t] \cup here)
        ELSE /\ left' = [left EXCEPT ![t] = left[t] \ {n}]
             /\ found' = [found EXCEPT ![t] = found[t] \cup here]
             /\ UNCHANGED pc
  BY DEF ReadFile
<1> DEFINE here == {n} \cap StillThere(t)
<1>c. /\ left[t] \in SUBSET Names /\ found[t] \in SUBSET Names /\ here \in SUBSET {n}
      /\ n \in here <=> n \in StillThere(t)
      /\ StillThere(t) = IF pc[t] = "driverFiles" THEN Configured ELSE Connected
  BY DEF IInv, TypeOK, StillThere
<1>d. /\ name'[t] = name[t] /\ there'[t] = there[t] /\ writes'[t] = writes[t]
      /\ Connected' = Connected /\ Configured' = Configured
      /\ Unnamed(name[t])' = Unnamed(name[t])
  BY <1>a, FilesKept DEF begun, Unnamed
<1>e. pc[t] # "driverFiles" /\ name[t] \in Connected => there[t]
  BY <1>a DEF Sound, Frame, Registered, Listing
<1> HIDE DEF here
<1>1. CASE pc[t] = "keys" /\ left[t] = {n}
  <2>1. /\ pc' = [pc EXCEPT ![t] = "drivers"]
        /\ left' = [left EXCEPT ![t] = found[t] \cup here]
        /\ found' = [found EXCEPT ![t] = {}]
    BY <1>1, <1>b DEF Round, Goto, here
  <2>2. pc'[t] = "drivers" /\ left'[t] = found[t] \cup here /\ found'[t] = {}
    BY <2>1 DEF IInv, TypeOK
  <2>3. Rest(t)' = found[t] \cup here /\ Rest(t) = found[t] \cup {n}
    BY <1>1, <2>2 DEF Rest
  <2>4. here = {n} \cap Connected
    BY <1>1, <1>c
  <2>5. Looks(t)'
    BY <1>1, <1>a, <1>d, <2>2, <2>3, <2>4 DEF Sound, Looks
  <2> DEFINE L == found[t] \cup here
  <2>6. L \in SUBSET Names /\ left' = [left EXCEPT ![t] = L] /\ {} \in SUBSET Names
    BY <1>c, <2>1
  <2>7. "drivers" \in Stages /\ "drivers" \in Listing
    BY DEF Stages, Listing
  <2> HIDE DEF L
  <2> QED BY <1>a, <2>1, <2>5, <2>6, <2>7, ListingStep
<1>2. CASE ~(pc[t] = "keys" /\ left[t] = {n})
  <2>1. /\ pc' = [pc EXCEPT ![t] = pc[t]]
        /\ left' = [left EXCEPT ![t] = left[t] \ {n}]
        /\ found' = [found EXCEPT ![t] = found[t] \cup here]
    BY <1>2, <1>b DEF here, IInv, TypeOK
  <2>2. /\ pc'[t] = pc[t] /\ left'[t] = left[t] \ {n} /\ found'[t] = found[t] \cup here
    BY <2>1 DEF IInv, TypeOK
  <2>3. Rest(t)' = (left[t] \ {n}) \cup found[t] \cup here
    BY <2>2 DEF Rest
  <2>4. Rest(t)' \subseteq Rest(t) /\ Rest(t) \cap StillThere(t) = Rest(t)' \cap StillThere(t)
    BY <1>c, <2>3 DEF Rest
  <2>5. Looks(t)'
    <3>1. CASE pc[t] = "driverFiles"
      BY <3>1, <1>a, <1>c, <1>d, <2>2, <2>4 DEF Sound, Looks
    <3>2. CASE pc[t] # "driverFiles"
      <4>1. name[t] \in here => there[t]
        BY <3>2, <1>c, <1>e
      <4> QED BY <3>2, <4>1, <1>a, <1>c, <1>d, <2>2, <2>4 DEF Sound, Looks
    <3> QED BY <3>1, <3>2
  <2>6. pc[t] \in Stages
    BY DEF Stages
  <2> DEFINE L == left[t] \ {n}
             F == found[t] \cup here
  <2>7. /\ L \in SUBSET Names /\ left' = [left EXCEPT ![t] = L]
        /\ F \in SUBSET Names /\ found' = [found EXCEPT ![t] = F]
    BY <1>c, <2>1
  <2>8. pc' = [pc EXCEPT ![t] = pc[t]]
    BY <2>1
  <2> HIDE DEF L, F
  <2> QED BY <1>a, <2>5, <2>6, <2>7, <2>8, ListingStep
<1> QED BY <1>1, <1>2

LEMMA ListDriversIInv ==
  ASSUME IInv, NEW t \in Threads, ListDrivers(t)
  PROVE  IInv'
<1>a. /\ Sound(t) /\ pc[t] \in {"keys", "drivers"} /\ left[t] = {} /\ found[t] = {}
      /\ pc' = [pc EXCEPT ![t] = "driverFiles"]
      /\ left' = [left EXCEPT ![t] = Configured]
      /\ found' = [found EXCEPT ![t] = {}]
      /\ UNCHANGED <<files, cache, name, built, dirty, overtaken, late, begun>>
  BY DEF ListDrivers, Round, Goto, IInv
<1>b. /\ pc'[t] = "driverFiles" /\ left'[t] = Configured /\ found'[t] = {}
      /\ name'[t] = name[t] /\ there'[t] = there[t] /\ writes'[t] = writes[t]
      /\ Connected' = Connected /\ Configured' = Configured
  BY <1>a, FilesKept DEF begun, IInv, TypeOK
<1>c. Configured \subseteq Drivers /\ Configured \in SUBSET Names
  BY RuntimeConstantsOK DEF Configured
<1>1. Rest(t) = {} /\ Rest(t)' = Configured
  BY <1>a, <1>b DEF Rest
<1>2. ~there[t] /\ writes[t] = 0 => Connected = {}
  BY <1>a, <1>1 DEF Sound, Looks
<1>3. ~there[t] /\ writes[t] = 1 => Unnamed(name[t])
  BY <1>a, <1>1 DEF Sound, Looks
<1>4. Looks(t)'
  BY <1>b, <1>c, <1>1, <1>2, <1>3 DEF Looks, Unnamed
<1> QED BY <1>a, <1>c, <1>4, ListingStep DEF Stages, Listing

LEMMA EndListIInv ==
  ASSUME IInv, NEW t \in Threads, EndList(t)
  PROVE  IInv'
<1>a. /\ Sound(t) /\ pc[t] \in Listing /\ left[t] = {}
      /\ UNCHANGED <<files, cache, dirty, late>>
  BY DEF EndList, IInv, Listing
<1>1. PICK names \in SUBSET Names :
        /\ Listed(t, names)
        /\ \/ pc[t] = "drivers" /\ names = found[t]
           \/ pc[t] = "driverFiles" /\ names = IF found[t] # {} THEN found[t] ELSE Drivers
  BY RuntimeConstantsOK DEF EndList, IInv, TypeOK
<1>2. CASE name[t] \notin names
  <2>1. Over({t})
    BY <1>1, <1>2 DEF Listed
  <2> QED BY <1>a, <2>1, EndIInv
<1>3. CASE name[t] \in names
  <2>1. /\ pc' = [pc EXCEPT ![t] = "resolve"]
        /\ left' = [left EXCEPT ![t] = {}] /\ found' = [found EXCEPT ![t] = {}]
        /\ UNCHANGED <<name, built, overtaken, begun>>
    BY <1>1, <1>3 DEF Listed, Round, Goto
  <2>2. pc'[t] = "resolve"
    BY <2>1 DEF IInv, TypeOK
  <2>3. Looks(t)'
    BY <2>2 DEF Looks
  <2>4. Rest(t) = found[t] /\ writes[t] \in 0..2
    BY <1>a DEF Rest, IInv, TypeOK
  <2>5. pc[t] = "driverFiles" => found[t] \subseteq Drivers /\ names \subseteq Drivers
    BY <1>1, <1>a, <2>4 DEF Sound, Looks
  <2>6. Seen(t)
    <3>1. CASE pc[t] = "drivers"
      BY <1>1, <1>3, <1>a, <3>1 DEF Sound, Looks, Seen
    <3>2. CASE pc[t] = "driverFiles" /\ ~there[t]
      <4>1. name[t] \in Drivers
        BY <1>3, <2>5, <3>2
      <4>2. writes[t] # 0
        <5> SUFFICES ASSUME writes[t] = 0 PROVE FALSE
          OBVIOUS
        <5>1. Connected = {} /\ found[t] = Configured
          BY <1>a, <2>4, <3>2 DEF Sound, Looks
        <5>2. ~Registered(name[t])
          BY <1>a, <3>2 DEF Sound, Frame
        <5> QED BY <1>1, <1>3, <3>2, <4>1, <5>1, <5>2 DEF Registered
      <4>3. writes[t] # 1
        <5> SUFFICES ASSUME writes[t] = 1 PROVE FALSE
          OBVIOUS
        <5>1. name[t] \notin found[t] /\ found[t] # {}
          BY <1>a, <2>4, <3>2, <4>1 DEF Sound, Looks
        <5> QED BY <1>1, <1>3, <3>2, <5>1
      <4> QED BY <2>4, <4>1, <4>2, <4>3 DEF Seen
    <3> QED BY <1>1, <3>1, <3>2 DEF Seen
  <2> QED BY <1>a, <2>1, <2>3, <2>6, ListingStep DEF Stages
<1> QED BY <1>2, <1>3

-----------------------------------------------------------------------------
(* The rest of the request.                                                *)

(* A step that keeps the list, the cache and the files.                    *)
LEMMA BuildingStep ==
  ASSUME IInv, NEW t \in Threads,
         pc[t] \in {"resolve", "lookup", "probe", "readConn", "readDrv"},
         UNCHANGED <<files, cache, name, looking, dirty, overtaken, late, begun>>,
         NEW l \in {"lookup", "probe", "readConn", "readDrv", "store"},
         pc' = [pc EXCEPT ![t] = l],
         NEW c \in Drivers, class' = [class EXCEPT ![t] = c],
         NEW k \in Connection \cup {None}, conn' = [conn EXCEPT ![t] = k],
         NEW d \in Settings \cup {None}, drv' = [drv EXCEPT ![t] = d],
         l \notin {"readDrv", "store"} => k = None,
         Undisturbed(t) =>
           /\ c = DriverOf(name[t])
           /\ l \in {"readDrv", "store"} => k = connFile[name[t]]
           /\ l = "store" => d = drvFile[c]
  PROVE  IInv'
<1>a. /\ Sound(t) /\ pc'[t] = l /\ class'[t] = c /\ conn'[t] = k /\ drv'[t] = d
      /\ UNCHANGED <<connFile, drvFile, cache, name, left, found, dirty, overtaken, late,
                     steady, there, writes>>
  BY DEF IInv, TypeOK, files, looking, begun
<1>1. TypeOK'
  BY <1>a DEF IInv, TypeOK, Stages
<1>2. FreshUnlessOvertaken'
  BY StillFresh DEF IInv
<1>3. /\ Registered(name[t])' = Registered(name[t])
      /\ DriverOf(name[t])' = DriverOf(name[t])
      /\ Seen(t)' = Seen(t) /\ Undisturbed(t)' = Undisturbed(t)
  BY <1>a, FilesKept DEF Registered, DriverOf, Seen, Undisturbed
<1>4. Frame(t)'
  BY <1>a, <1>3 DEF Sound, Frame, Listing
<1>5. Looks(t)'
  BY <1>a DEF Looks
<1>6. Reads(t)'
  BY <1>a, <1>3 DEF Reads
<1>7. \A x \in Threads \ {t} : Kept(x)
  BY <1>a DEF Kept, IInv, TypeOK
<1> QED BY <1>1, <1>2, <1>4, <1>5, <1>6, <1>7, ServingStep DEF Sound

LEMMA ResolveIInv ==
  ASSUME IInv, NEW t \in Threads, Resolve(t)
  PROVE  IInv'
<1>1. CASE Over({t})
  BY <1>1, EndIInv DEF Resolve
<1>2. CASE ~Over({t})
  <2>1. /\ pc[t] = "resolve" /\ DriverOf(name[t]) \in Drivers
        /\ pc' = [pc EXCEPT ![t] = "lookup"]
        /\ class' = [class EXCEPT ![t] = DriverOf(name[t])]
        /\ UNCHANGED <<files, cache, name, looking, conn, drv, dirty, overtaken, late,
                       begun>>
    BY <1>2 DEF Resolve, Usable, Goto
  <2>2. /\ conn[t] = None /\ drv[t] \in Settings \cup {None}
        /\ conn' = [conn EXCEPT ![t] = None] /\ drv' = [drv EXCEPT ![t] = drv[t]]
    BY <2>1 DEF IInv, TypeOK, Sound, Frame
  <2> QED BY <2>1, <2>2, BuildingStep
<1> QED BY <1>1, <1>2

LEMMA LookupIInv ==
  ASSUME IInv, NEW t \in Threads, Lookup(t)
  PROVE  IInv'
<1>1. CASE Over({t})
  BY <1>1, EndIInv DEF Lookup
<1>2. CASE ~Over({t})
  <2>1. /\ pc[t] = "lookup" /\ Sound(t) /\ pc' = [pc EXCEPT ![t] = "probe"]
        /\ UNCHANGED <<files, cache, name, looking, class, conn, drv, dirty, overtaken,
                       late, begun>>
    BY <1>2 DEF Lookup, Goto, built, IInv
  <2>2. class[t] \in Drivers /\ conn[t] = None /\ drv[t] \in Settings \cup {None}
    BY <2>1 DEF IInv, TypeOK, Sound, Frame
  <2>3. /\ class' = [class EXCEPT ![t] = class[t]]
        /\ conn' = [conn EXCEPT ![t] = None] /\ drv' = [drv EXCEPT ![t] = drv[t]]
    BY <2>1, <2>2 DEF IInv, TypeOK
  <2>4. Undisturbed(t) => class[t] = DriverOf(name[t])
    BY <2>1 DEF Sound, Reads
  <2>5. /\ pc[t] = "lookup" /\ pc' = [pc EXCEPT ![t] = "probe"]
        /\ UNCHANGED <<files, cache, name, looking, dirty, overtaken, late, begun>>
    BY <2>1
  <2> QED BY <2>2, <2>3, <2>4, <2>5, BuildingStep
<1> QED BY <1>1, <1>2

LEMMA ProbeIInv ==
  ASSUME IInv, NEW t \in Threads, Probe(t)
  PROVE  IInv'
<1> DEFINE l == IF connFile[name[t]] # None THEN "readConn" ELSE "readDrv"
<1>1. /\ pc[t] = "probe" /\ Sound(t) /\ l \in {"readConn", "readDrv"}
      /\ pc' = [pc EXCEPT ![t] = l]
      /\ l = "readDrv" => connFile[name[t]] = None
      /\ UNCHANGED <<files, cache, name, looking, class, conn, drv, dirty, overtaken,
                     late, begun>>
  BY DEF Probe, Goto, built, IInv
<1>2. class[t] \in Drivers /\ conn[t] = None /\ drv[t] \in Settings \cup {None}
  BY <1>1 DEF IInv, TypeOK, Sound, Frame
<1>3. /\ class' = [class EXCEPT ![t] = class[t]]
      /\ conn' = [conn EXCEPT ![t] = None] /\ drv' = [drv EXCEPT ![t] = drv[t]]
  BY <1>1, <1>2 DEF IInv, TypeOK
<1>4. Undisturbed(t) => class[t] = DriverOf(name[t])
  BY <1>1 DEF Sound, Reads
<1>5. l = "readDrv" => None = connFile[name[t]]
  BY <1>1
<1>6. /\ pc[t] = "probe" /\ pc' = [pc EXCEPT ![t] = l] /\ l \in {"readConn", "readDrv"}
      /\ UNCHANGED <<files, cache, name, looking, dirty, overtaken, late, begun>>
  BY <1>1
<1> HIDE DEF l
<1> QED BY <1>2, <1>3, <1>4, <1>5, <1>6, BuildingStep

LEMMA ReadConnIInv ==
  ASSUME IInv, NEW t \in Threads, ReadConn(t)
  PROVE  IInv'
<1>1. /\ pc[t] = "readConn" /\ Sound(t) /\ pc' = [pc EXCEPT ![t] = "readDrv"]
      /\ conn' = [conn EXCEPT ![t] = connFile[name[t]]]
      /\ UNCHANGED <<files, cache, name, looking, class, drv, dirty, overtaken, late,
                     begun>>
  BY DEF ReadConn, Goto, IInv
<1>2. /\ class[t] \in Drivers /\ drv[t] \in Settings \cup {None}
      /\ connFile[name[t]] \in Connection \cup {None}
  BY <1>1 DEF IInv, TypeOK, Sound, Frame
<1>3. /\ class' = [class EXCEPT ![t] = class[t]] /\ drv' = [drv EXCEPT ![t] = drv[t]]
  BY <1>1 DEF IInv, TypeOK
<1>4. Undisturbed(t) => class[t] = DriverOf(name[t])
  BY <1>1 DEF Sound, Reads
<1> QED BY <1>1, <1>2, <1>3, <1>4, BuildingStep

LEMMA ReadDrvIInv ==
  ASSUME IInv, NEW t \in Threads, ReadDrv(t)
  PROVE  IInv'
<1> DEFINE d == IF conn[t] # None THEN conn[t].driver ELSE class[t]
<1>1. /\ pc[t] = "readDrv" /\ Sound(t) /\ name[t] \in Names
      /\ pc' = [pc EXCEPT ![t] = "store"]
      /\ drv' = [drv EXCEPT ![t] = drvFile[d]]
      /\ UNCHANGED <<files, cache, name, looking, class, conn, dirty, overtaken, late,
                     begun>>
  BY DEF ReadDrv, Goto, IInv, Sound, Frame
<1>2. class[t] \in Drivers /\ conn[t] \in Connection \cup {None} /\ d \in Drivers
  BY <1>1 DEF IInv, TypeOK, Sound, Frame, Connection
<1>3. drvFile[d] \in Settings \cup {None}
  BY <1>2 DEF IInv, TypeOK
<1>4. /\ class' = [class EXCEPT ![t] = class[t]] /\ conn' = [conn EXCEPT ![t] = conn[t]]
  BY <1>1 DEF IInv, TypeOK
<1>5. Undisturbed(t) =>
        class[t] = DriverOf(name[t]) /\ conn[t] = connFile[name[t]] /\ d = class[t]
  BY <1>1 DEF Sound, Reads, DriverOf
<1> HIDE DEF d
<1> QED BY <1>1, <1>2, <1>3, <1>4, <1>5, BuildingStep

LEMMA StoreIInv ==
  ASSUME IInv, NEW t \in Threads, Store(t)
  PROVE  IInv'
<1> DEFINE n == name[t]
           b == Built(t)
<1>a. /\ pc[t] = "store" /\ Sound(t) /\ n \in Names /\ class[t] \in Drivers
      /\ cache' = [cache EXCEPT ![n] = b]
      /\ late' = [late EXCEPT ![n] = overtaken[t]]
      /\ Over({t}) /\ UNCHANGED <<files, dirty>>
  BY DEF Store, IInv, Sound, Frame
<1>b. b \in Runtime
  BY <1>a DEF Built, Runtime, IInv, TypeOK
<1>c. Undisturbed(t) => b = Current(n)
  BY <1>a DEF Sound, Reads, Built, Current
<1>d. \A m \in Names : Current(m)' = Current(m)
  BY <1>a, FilesKept
<1> HIDE DEF n, b
<1>1. TypeOK'
  <2>1. cache' \in [Names -> Runtime \cup {None}] /\ late' \in [Names -> BOOLEAN]
    BY <1>a, <1>b DEF IInv, TypeOK
  <2> QED BY <1>a, <2>1, OverReset DEF IInv, TypeOK, files
<1>2. FreshUnlessOvertaken'
  <2> SUFFICES ASSUME NEW m \in Names, cache'[m] # None, ~late'[m], ~dirty'
               PROVE  cache'[m] = Current(m)'
    BY DEF FreshUnlessOvertaken
  <2>1. CASE m = n
    <3>1. cache'[m] = b /\ ~overtaken[t] /\ ~dirty
      BY <1>a, <2>1 DEF IInv, TypeOK
    <3> QED BY <1>c, <1>d, <2>1, <3>1 DEF Undisturbed
  <2>2. CASE m # n
    <3>1. cache'[m] = cache[m] /\ late'[m] = late[m] /\ dirty' = dirty
      BY <1>a, <2>2 DEF IInv, TypeOK
    <3> QED BY <1>d, <3>1 DEF IInv, FreshUnlessOvertaken
  <2> QED BY <2>1, <2>2
<1>3. Sound(t)' /\ \A x \in Threads \ {t} : Kept(x)
  BY <1>a, OverReset, FreeIsSound DEF IInv
<1> QED BY <1>a, <1>1, <1>2, <1>3, ServingStep

-----------------------------------------------------------------------------
(* A file is written or removed, the cache is cleared.                     *)

(* One write changes one name: what the list found of the connections, or  *)
(* of the driver files, before it is not all gone after it.                *)
LEMMA OneWrite ==
  ASSUME TypeOK, WriteFile
  PROVE  \/ /\ Configured' = Configured
            /\ \E m : Connected \ {m} = Connected' \ {m}
         \/ /\ Connected' = Connected
            /\ \E d : Configured \ {d} = Configured' \ {d}
<1>1. CASE \E n \in Names, c \in Connection \cup {None} :
             connFile' = [connFile EXCEPT ![n] = c] /\ UNCHANGED drvFile
  <2>1. PICK n \in Names, c \in Connection \cup {None} :
          connFile' = [connFile EXCEPT ![n] = c] /\ UNCHANGED drvFile
    BY <1>1
  <2>2. Connected \ {n} = Connected' \ {n}
    BY <2>1 DEF Connected, TypeOK
  <2>3. Configured' = Configured
    BY <2>1 DEF Configured
  <2> QED BY <2>2, <2>3
<1>2. CASE \E d \in Drivers, s \in Settings \cup {None} :
             drvFile' = [drvFile EXCEPT ![d] = s] /\ UNCHANGED connFile
  <2>1. PICK d \in Drivers, s \in Settings \cup {None} :
          drvFile' = [drvFile EXCEPT ![d] = s] /\ UNCHANGED connFile
    BY <1>2
  <2>2. Configured \ {d} = Configured' \ {d}
    BY <2>1 DEF Configured, TypeOK
  <2>3. Connected' = Connected
    BY <2>1 DEF Connected
  <2> QED BY <2>2, <2>3
<1> QED BY <1>1, <1>2 DEF WriteFile

LEMMA WriteIInv ==
  ASSUME IInv, WriteFile
  PROVE  IInv'
<1>a. /\ UNCHANGED <<cache, pc, name, left, found, class, conn, drv, overtaken, late>>
      /\ dirty' = TRUE
      /\ steady' = [t \in Threads |-> FALSE]
      /\ there' = [t \in Threads |-> there[t] \/ Registered(name[t])']
      /\ writes' = [t \in Threads |->
                     IF there'[t] THEN 0
                     ELSE IF pc[t] \in Listing /\ writes[t] < 2 THEN writes[t] + 1
                     ELSE writes[t]]
  BY DEF WriteFile, looking, built
<1>b. /\ connFile' \in [Names -> Connection \cup {None}]
      /\ drvFile' \in [Drivers -> Settings \cup {None}]
  BY DEF WriteFile, IInv, TypeOK
<1>c. there' \in [Threads -> BOOLEAN]
  BY <1>a DEF Registered
<1>d. writes' \in [Threads -> 0..2]
  BY <1>a DEF IInv, TypeOK
<1>1. TypeOK'
  BY <1>a, <1>b, <1>c, <1>d DEF IInv, TypeOK
<1>2. FreshUnlessOvertaken'
  BY <1>a DEF FreshUnlessOvertaken
<1>3. ASSUME NEW t \in Threads PROVE Sound(t)'
  <2> DEFINE r == Registered(name[t])'
  <2>1. /\ Sound(t) /\ writes[t] \in 0..2 /\ pc[t] \in Stages
        /\ pc'[t] = pc[t] /\ name'[t] = name[t] /\ conn'[t] = conn[t] /\ class'[t] = class[t]
        /\ left'[t] = left[t] /\ found'[t] = found[t]
        /\ ~steady'[t] /\ (there'[t] <=> there[t] \/ r) /\ dirty'
        /\ writes'[t] = IF there'[t] THEN 0
                        ELSE IF pc[t] \in Listing /\ writes[t] < 2 THEN writes[t] + 1
                        ELSE writes[t]
    BY <1>a DEF IInv, TypeOK
  <2>2. (Registered(name[t])' <=> r) /\ Rest(t)' = Rest(t)
    BY <2>1 DEF Rest
  <2>r. r <=> \/ name[t] \in Connected'
              \/ /\ Connected' = {}
                 /\ name[t] \in Configured' \/ (name[t] \in Drivers /\ Configured' = {})
    BY <2>1 DEF Registered
  <2> HIDE DEF r
  <2>3. Frame(t)'
    <3>1. Seen(t) => Seen(t)'
      <4>1. CASE there'[t]
        BY <4>1 DEF Seen
      <4>2. CASE ~there'[t]
        BY <2>1, <4>2 DEF Seen
      <4> QED BY <4>1, <4>2
    <3> QED BY <2>1, <2>2, <3>1 DEF Sound, Frame, Listing
  <2>4. Reads(t)'
    BY <2>1 DEF Reads, Undisturbed
  <2>5. Looks(t)'
    <3>1. ASSUME ~there'[t], pc[t] \in Listing
          PROVE  /\ ~there[t] /\ writes'[t] # 0 /\ ~r
                 /\ writes'[t] = 1 => writes[t] = 0
                 /\ ~Registered(name[t])
      BY <2>1, <3>1 DEF Sound, Frame, Listing
    <3>2. pc[t] \in {"keys", "drivers"} /\ ~there'[t] /\ writes'[t] = 1
            => Connected' \cap Rest(t) # {} \/ Unnamed(name[t])'
      <4> SUFFICES ASSUME pc[t] \in {"keys", "drivers"}, ~there'[t], writes'[t] = 1,
                          Connected' \cap Rest(t) = {}
                   PROVE  Unnamed(name[t])'
        OBVIOUS
      <4>1. Rest(t) = Connected /\ ~r /\ ~Registered(name[t])
        BY <2>1, <3>1 DEF Sound, Looks, Listing
      <4>2. CASE Connected' = {}
        BY <4>1, <4>2, <2>1, <2>r DEF Unnamed
      <4>3. CASE Connected' # {}
        <5>1. Connected' # Connected
          BY <4>1, <4>3
        <5>2. Configured' = Configured /\ \E m : Connected \ {m} = Connected' \ {m}
          BY <5>1, OneWrite DEF IInv
        <5>3. Connected = {}
          BY <4>1, <4>3, <5>2
        <5> QED BY <4>1, <5>2, <5>3, <2>1 DEF Registered, Unnamed
      <4> QED BY <4>2, <4>3
    <3>3. pc[t] = "driverFiles" /\ ~there'[t] /\ writes'[t] = 1
            => \/ name[t] \notin Drivers
               \/ name[t] \notin Rest(t) /\ Configured' \cap Rest(t) # {}
      <4> SUFFICES ASSUME pc[t] = "driverFiles", ~there'[t], writes'[t] = 1,
                          name[t] \in Drivers
                   PROVE  name[t] \notin Rest(t) /\ Configured' \cap Rest(t) # {}
        OBVIOUS
      <4>1. /\ Connected = {} /\ Rest(t) = Configured /\ ~r /\ ~Registered(name[t])
        BY <2>1, <3>1 DEF Sound, Looks, Listing
      <4>2. name[t] \notin Configured /\ Configured # {}
        BY <4>1 DEF Registered
      <4>3. CASE Configured' = Configured
        BY <4>1, <4>2, <4>3
      <4>4. CASE Configured' # Configured
        <5>1. Connected' = {} /\ \E d : Configured \ {d} = Configured' \ {d}
          BY <4>1, <4>4, OneWrite DEF IInv
        <5>2. Configured' # {}
          BY <4>1, <5>1, <2>r
        <5> QED BY <4>1, <4>2, <4>4, <5>1, <5>2
      <4> QED BY <4>3, <4>4
    <3>4. pc[t] \in Listing /\ ~there'[t] => writes'[t] # 0
      BY <3>1
    <3> QED BY <2>1, <2>2, <3>2, <3>3, <3>4 DEF Sound, Looks, Listing
  <2> QED BY <2>3, <2>4, <2>5 DEF Sound
<1> QED BY <1>1, <1>2, <1>3 DEF IInv

(* The cache is cleared: whoever is running is overtaken.                  *)
LEMMA ClearIInv ==
  ASSUME IInv, Clear
  PROVE  IInv'
<1>a. /\ \A n \in Names : cache'[n] = None
      /\ dirty' = FALSE
      /\ \A t \in Threads : overtaken'[t] = (pc[t] # "ready")
      /\ UNCHANGED <<files, connFile, drvFile, pc, name, left, found, class, conn, drv,
                     steady, there, writes>>
  BY DEF Clear, Wiped, files, looking, built, begun
<1>b. /\ cache' \in [Names -> Runtime \cup {None}]
      /\ late' \in [Names -> BOOLEAN]
      /\ overtaken' \in [Threads -> BOOLEAN]
  BY DEF Clear, Wiped
<1>1. TypeOK'
  BY <1>a, <1>b DEF IInv, TypeOK
<1>2. FreshUnlessOvertaken'
  BY <1>a DEF FreshUnlessOvertaken
<1>3. ASSUME NEW t \in Threads PROVE Sound(t)'
  <2>1. Sound(t) /\ Rest(t)' = Rest(t) /\ Seen(t)' = Seen(t)
    BY <1>a DEF IInv, Rest, Seen
  <2>2. /\ Registered(name[t])' = Registered(name[t])
        /\ Unnamed(name[t])' = Unnamed(name[t])
        /\ DriverOf(name[t])' = DriverOf(name[t])
        /\ Connected' = Connected /\ Configured' = Configured
    BY <1>a, FilesKept DEF Registered, Unnamed, DriverOf
  <2>3. Frame(t)'
    BY <1>a, <2>1, <2>2 DEF Sound, Frame
  <2>4. Looks(t)'
    BY <1>a, <2>1, <2>2 DEF Sound, Looks
  <2>5. Reads(t)'
    <3>1. CASE steady[t]
      BY <1>a, <2>1, <2>2, <3>1 DEF Sound, Reads, Undisturbed
    <3>2. CASE ~steady[t]
      BY <1>a, <3>2 DEF Reads, Undisturbed
    <3> QED BY <3>1, <3>2
  <2> QED BY <2>3, <2>4, <2>5 DEF Sound
<1> QED BY <1>1, <1>2, <1>3 DEF IInv

LEMMA RestartIInv ==
  ASSUME IInv, Restart
  PROVE  IInv'
<1>a. /\ \A n \in Names : cache'[n] = None /\ late'[n] = FALSE
      /\ dirty' = FALSE /\ Over(Threads) /\ UNCHANGED files
  BY DEF Restart, Wiped
<1>1. TypeOK'
  <2>1. cache' \in [Names -> Runtime \cup {None}] /\ late' \in [Names -> BOOLEAN]
    BY DEF Restart, Wiped
  <2> QED BY <1>a, <2>1, OverReset DEF IInv, TypeOK, files
<1>2. FreshUnlessOvertaken'
  BY <1>a DEF FreshUnlessOvertaken
<1>3. ASSUME NEW t \in Threads PROVE Sound(t)'
  BY <1>a, OverReset, FreeIsSound DEF IInv
<1> QED BY <1>1, <1>2, <1>3 DEF IInv

LEMMA StutterIInv ==
  ASSUME IInv, UNCHANGED vars
  PROVE  IInv'
<1>a. UNCHANGED <<files, connFile, drvFile, cache, pc, name, left, found, class, conn, drv,
                  dirty, overtaken, late, steady, there, writes>>
  BY DEF vars, files
<1>1. TypeOK'
  BY <1>a DEF IInv, TypeOK
<1>2. FreshUnlessOvertaken'
  BY <1>a, StillFresh DEF IInv
<1>3. ASSUME NEW t \in Threads PROVE Sound(t)'
  <2>1. Kept(t)
    BY <1>a DEF Kept
  <2> QED BY <1>a, <2>1, KeptIsSound DEF IInv
<1> QED BY <1>1, <1>2, <1>3 DEF IInv

LEMMA NextIInv == IInv /\ [Next]_vars => IInv'
<1> SUFFICES ASSUME IInv, [Next]_vars PROVE IInv'
  OBVIOUS
<1>1. ASSUME NEW t \in Threads, Serve(t) PROVE IInv'
  <2>1. ASSUME ReadFile(t) PROVE IInv'
    <3>1. left[t] # {}
      BY <2>1 DEF ReadFile
    <3>2. pc[t] \in Listing
      BY <3>1 DEF IInv, Sound, Frame
    <3> QED BY <2>1, <3>2, ReadFileIInv
  <2>2. ASSUME Fail(t) PROVE IInv'
    BY <2>2, EndIInv DEF Fail
  <2> QED BY <1>1, <2>1, <2>2, AskIInv, ListDriversIInv, EndListIInv, ResolveIInv,
             LookupIInv, ProbeIInv, ReadConnIInv, ReadDrvIInv, StoreIInv DEF Serve
<1>2. ASSUME WriteFile PROVE IInv'
  BY <1>2, WriteIInv
<1>3. ASSUME Clear PROVE IInv'
  BY <1>3, ClearIInv
<1>4. ASSUME Restart PROVE IInv'
  BY <1>4, RestartIInv
<1>5. ASSUME UNCHANGED vars PROVE IInv'
  BY <1>5, StutterIInv
<1> QED BY <1>1, <1>2, <1>3, <1>4, <1>5 DEF Next

-----------------------------------------------------------------------------
(* The strengthening: besides the cache being fresh, what each running     *)
(* request has read so far is what the files still say, as long as no file *)
(* was written under it; and while it lists, a name that has not been      *)
(* registered meanwhile cannot come out of the list, unless two files were *)
(* written under it.                                                       *)
THEOREM RuntimeInvariant == Spec => []IInv
<1>1. Init => IInv
  BY InitIInv
<1>2. IInv /\ [Next]_vars => IInv'
  BY NextIInv
<1> QED BY <1>1, <1>2, PTL DEF Spec

(* Every variable keeps its type.                                          *)
THEOREM RuntimeTypeCorrect == Spec => []TypeOK
<1>1. IInv => TypeOK
  BY DEF IInv
<1> QED BY <1>1, RuntimeInvariant, PTL

(* Whatever the interleaving of requests, saves, hand edits, reloads and   *)
(* restarts, a cached runtime is the one the files describe unless a file  *)
(* was written since the last clear or the storing request was overtaken.  *)
THEOREM CacheIsFresh == Spec => []FreshUnlessOvertaken
<1>1. IInv => FreshUnlessOvertaken
  BY DEF IInv
<1> QED BY <1>1, RuntimeInvariant, PTL

(* A request that no write disturbed gets the current runtime, unless it   *)
(* found one that an overtaken request stored after the clear; and, the    *)
(* registry being read file by file, a connection absent throughout a      *)
(* request is not served to it, even while the cache still holds its       *)
(* runtime, unless two writes emptied the list of connections under it     *)
(* and the name is a driver's.                                             *)
THEOREM UndisturbedIsServedCurrent == Spec => []ServesCurrent
<1>1. ASSUME IInv PROVE ServesCurrent
  <2> SUFFICES ASSUME NEW t \in Threads, Answer(t) # None
               PROVE  /\ steady[t] => \/ Answer(t) = Current(name[t])
                                      \/ pc[t] = "lookup" /\ late[name[t]]
                      /\ there[t] \/ (name[t] \in Drivers /\ writes[t] = 2)
    BY DEF ServesCurrent
  <2>1. Sound(t)
    BY <1>1 DEF IInv
  <2>2. CASE pc[t] = "lookup"
    BY <1>1, <2>1, <2>2 DEF Answer, IInv, Sound, Frame, Seen, FreshUnlessOvertaken
  <2>3. CASE pc[t] = "store"
    <3>1. Answer(t) = Built(t)
      BY <2>3 DEF Answer
    <3> QED BY <2>1, <2>3, <3>1 DEF Sound, Frame, Seen, Reads, Undisturbed, Built, Current
  <2> QED BY <2>2, <2>3 DEF Answer
<1> QED BY <1>1, RuntimeInvariant, PTL
=============================================================================
