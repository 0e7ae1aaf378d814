------------------------- MODULE ConnectionRuntime -------------------------
(***************************************************************************)
(* The cache of connection runtimes (services/connection_runtime_service.  *)
(* py) against the JSON files it is built from (core/config_loader.py) and *)
(* the administration pages that write those files and then clear the      *)
(* cache (app/routes/config.py).  Requests and pages run in the thread     *)
(* pool; nothing is locked, so they interleave at every file read and at   *)
(* every access to the cache.                                              *)
(***************************************************************************)
EXTENDS Naturals

CONSTANTS
  Threads,    \* handlers that call get_connection_runtime
  Names,      \* names of connections and of drivers
  Drivers,    \* the driver modules (a connection may bear a driver's name)
  Settings,   \* what else a configuration file says
  None

ASSUME RuntimeConstantsOK ==
  /\ Drivers \subseteq Names
  /\ None \notin Names \cup Settings

Connection == [driver: Drivers, settings: Settings]   \* a connection's file
Runtime    == [class: Drivers, conn: Connection \cup {None},
               drv: Settings \cup {None}]             \* a driver and its config

ASSUME NoneIsNoRecord == None \notin Connection \cup Runtime

VARIABLES
  connFile,   \* config/connections/<name>.json, or None
  drvFile,    \* config/drivers/<name>.json, or None
  cache,      \* _CONNECTION_RUNTIME_CACHE
  pc,         \* where each request is in get_connection_runtime
  name,       \* the connection it was asked for, None at a free thread
  left,       \* names list_registered_connections has yet to look up
  found,      \* those it looked up and found
  class,      \* factory
  conn, drv,  \* what load_connection_config has read
  \* history, read by the properties only
  dirty,      \* a file was written since the cache was last cleared
  overtaken,  \* the cache was cleared while this request was running
  late,       \* late[n]: cache[n] was stored by a request a clear overtook
  steady,     \* the request began with a clear cache's files and none changed
  there,      \* its connection was registered at some time since it began
  writes      \* how many files were written, up to 2, while it listed, if not there

files   == <<connFile, drvFile>>
looking == <<left, found>>
built   == <<class, conn, drv>>
begun   == <<steady, there, writes>>
vars    == <<connFile, drvFile, cache, pc, name, left, found, class, conn, drv,
             dirty, overtaken, late, steady, there, writes>>

Listing == {"keys", "drivers", "driverFiles"}
Stages  == Listing \cup {"ready", "resolve", "lookup", "probe", "readConn", "readDrv",
                         "store"}

(* connection_driver_name(n) or n                                          *)
DriverOf(n) == IF connFile[n] # None THEN connFile[n].driver ELSE n

Connected  == {n \in Names : connFile[n] # None}
Configured == {d \in Drivers : drvFile[d] # None}

(* The names there are now: without any connection file the driver files   *)
(* name the connections, and without those the driver modules.             *)
Registered(n) ==
  \/ n \in Connected
  \/ Connected = {} /\ (n \in Configured \/ (n \in Drivers /\ Configured = {}))

(* The runtime the files describe now.                                     *)
Current(n) == [class |-> DriverOf(n), conn |-> connFile[n], drv |-> drvFile[DriverOf(n)]]

TypeOK ==
  /\ connFile \in [Names -> Connection \cup {None}]
  /\ drvFile \in [Drivers -> Settings \cup {None}]
  /\ cache \in [Names -> Runtime \cup {None}]
  /\ pc \in [Threads -> Stages]
  /\ name \in [Threads -> Names \cup {None}]
  /\ left \in [Threads -> SUBSET Names]
  /\ found \in [Threads -> SUBSET Names]
  /\ class \in [Threads -> Drivers \cup {None}]
  /\ conn \in [Threads -> Connection \cup {None}]
  /\ drv \in [Threads -> Settings \cup {None}]
  /\ dirty \in BOOLEAN
  /\ overtaken \in [Threads -> BOOLEAN]
  /\ late \in [Names -> BOOLEAN]
  /\ steady \in [Threads -> BOOLEAN]
  /\ there \in [Threads -> BOOLEAN]
  /\ writes \in [Threads -> 0..2]

Init ==
  /\ connFile \in [Names -> Connection \cup {None}]
  /\ drvFile \in [Drivers -> Settings \cup {None}]
  /\ cache = [n \in Names |-> None]
  /\ pc = [t \in Threads |-> "ready"]
  /\ name = [t \in Threads |-> None]
  /\ left = [t \in Threads |-> {}]
  /\ found = [t \in Threads |-> {}]
  /\ class = [t \in Threads |-> None]
  /\ conn = [t \in Threads |-> None]
  /\ drv = [t \in Threads |-> None]
  /\ dirty = FALSE
  /\ overtaken = [t \in Threads |-> FALSE]
  /\ late = [n \in Names |-> FALSE]
  /\ steady = [t \in Threads |-> FALSE]
  /\ there = [t \in Threads |-> FALSE]
  /\ writes = [t \in Threads |-> 0]

Goto(t, l) == pc' = [pc EXCEPT ![t] = l]

(* The requests of T are over, answered or failed: nothing of them is kept.*)
Over(T) ==
  LET Reset(f, v) == [t \in Threads |-> IF t \in T THEN v ELSE f[t]] IN
  /\ pc' = Reset(pc, "ready")
  /\ name' = Reset(name, None)
  /\ left' = Reset(left, {})
  /\ found' = Reset(found, {})
  /\ class' = Reset(class, None)
  /\ conn' = Reset(conn, None)
  /\ drv' = Reset(drv, None)
  /\ overtaken' = Reset(overtaken, FALSE)
  /\ steady' = Reset(steady, FALSE)
  /\ there' = Reset(there, FALSE)
  /\ writes' = Reset(writes, 0)

-----------------------------------------------------------------------------
(* get_connection_runtime                                                  *)

(* registered = set(list_registered_connections()): a directory is listed, *)
(* and then one file after the other is read, in an order that depends on  *)
(* the directory.  Three rounds of reading are in one: the keys of the     *)
(* connection files, connection_driver_name of each of these names, and,   *)
(* if that leaves no name, the keys of the driver files.                   *)
Round(t, l, names) ==
  /\ Goto(t, l)
  /\ left' = [left EXCEPT ![t] = names]
  /\ found' = [found EXCEPT ![t] = {}]

(* A request arrives, at a thread that is free.                            *)
Ask(t, n) ==
  /\ pc[t] = "ready"
  /\ Round(t, "keys", Connected)
  /\ name' = [name EXCEPT ![t] = n]
  /\ steady' = [steady EXCEPT ![t] = ~dirty]
  /\ there' = [there EXCEPT ![t] = Registered(n)]
  /\ UNCHANGED <<files, cache, built, dirty, overtaken, late, writes>>

(* A file that went since the directory was listed is skipped.             *)
StillThere(t) == IF pc[t] = "driverFiles" THEN Configured ELSE Connected

ReadFile(t) ==
  /\ \E n \in left[t] :
       LET here == {n} \cap StillThere(t) IN
       IF pc[t] = "keys" /\ left[t] = {n}
       THEN Round(t, "drivers", found[t] \cup here)
       ELSE /\ left' = [left EXCEPT ![t] = left[t] \ {n}]
            /\ found' = [found EXCEPT ![t] = found[t] \cup here]
            /\ UNCHANGED pc
  /\ UNCHANGED <<files, cache, name, built, dirty, overtaken, late, begun>>

(* No connection is left: the drivers' directory is listed.                *)
ListDrivers(t) ==
  /\ pc[t] \in {"keys", "drivers"} /\ left[t] = {} /\ found[t] = {}
  /\ Round(t, "driverFiles", Configured)
  /\ UNCHANGED <<files, cache, name, built, dirty, overtaken, late, begun>>

(* The list is there; a name that is not on it is "not registered".        *)
Mut_Listed(t, names) ==
  Round(t, "resolve", {}) /\ UNCHANGED <<name, built, overtaken, begun>>
Listed(t, names) ==
  \/ /\ name[t] \in names
     /\ Round(t, "resolve", {})
     /\ UNCHANGED <<name, built, overtaken, begun>>
  \/ name[t] \notin names /\ Over({t})

EndList(t) ==
  /\ left[t] = {}
  /\ \/ pc[t] = "drivers" /\ found[t] # {} /\ Listed(t, found[t])
     \/ pc[t] = "driverFiles" /\ Listed(t, IF found[t] # {} THEN found[t] ELSE Drivers)
  /\ UNCHANGED <<files, cache, dirty, late>>

(* The driver is read from the file once more; a name whose file went in   *)
(* between and that is no driver's is "not registered".                    *)
Mut_UsableListed(n) == TRUE
Usable(n) == DriverOf(n) \in Drivers

Resolve(t) ==
  /\ pc[t] = "resolve"
  /\ \/ /\ Usable(name[t])
        /\ Goto(t, "lookup")
        /\ class' = [class EXCEPT ![t] = DriverOf(name[t])]
        /\ UNCHANGED <<name, looking, conn, drv, overtaken, begun>>
     \/ ~Usable(name[t]) /\ Over({t})
  /\ UNCHANGED <<files, cache, dirty, late>>

Lookup(t) ==
  /\ pc[t] = "lookup"
  /\ \/ /\ cache[name[t]] = None
        /\ Goto(t, "probe")
        /\ UNCHANGED <<name, looking, built, overtaken, begun>>
     \/ cache[name[t]] # None /\ Over({t})
  /\ UNCHANGED <<files, cache, dirty, late>>

(* config = load_connection_config(name) if connection_driver_name(name)   *)
Probe(t) ==
  /\ pc[t] = "probe"
  /\ Goto(t, IF connFile[name[t]] # None THEN "readConn" ELSE "readDrv")
  /\ UNCHANGED <<files, cache, name, looking, built, dirty, overtaken, late, begun>>

ReadConn(t) ==
  /\ pc[t] = "readConn"
  /\ conn' = [conn EXCEPT ![t] = connFile[name[t]]]
  /\ Goto(t, "readDrv")
  /\ UNCHANGED <<files, cache, name, looking, class, drv, dirty, overtaken, late,
                 begun>>

(* load_driver_config, of the driver the connection file names; a factory  *)
(* given no config loads that of its own driver.                           *)
ReadDrv(t) ==
  /\ pc[t] = "readDrv"
  /\ drv' = [drv EXCEPT ![t] =
               drvFile[IF conn[t] # None THEN conn[t].driver ELSE class[t]]]
  /\ Goto(t, "store")
  /\ UNCHANGED <<files, cache, name, looking, class, conn, dirty, overtaken, late,
                 begun>>

Built(t) == [class |-> class[t], conn |-> conn[t], drv |-> drv[t]]

Store(t) ==
  /\ pc[t] = "store"
  /\ cache' = [cache EXCEPT ![name[t]] = Built(t)]
  /\ late' = [late EXCEPT ![name[t]] = overtaken[t]]
  /\ Over({t})
  /\ UNCHANGED <<files, dirty>>

(* A file that cannot be read, or a driver that refuses its config.        *)
Fail(t) ==
  /\ pc[t] # "ready"
  /\ Over({t})
  /\ UNCHANGED <<files, cache, dirty, late>>

-----------------------------------------------------------------------------
(* The administration pages.  Whether a save is admitted, and that a page  *)
(* clears the cache after it wrote a file, is ConfigAdmin's subject; here  *)
(* a file is written or removed at any moment, by config_save and          *)
(* config_delete or by hand, and the cache is cleared at any moment, by    *)
(* these pages or by config_reload, whose audit then asks for every        *)
(* connection, as requests do.                                             *)

WriteFile ==
  /\ \/ /\ \E n \in Names, c \in Connection \cup {None} :
             connFile' = [connFile EXCEPT ![n] = c]
        /\ UNCHANGED drvFile
     \/ /\ \E d \in Drivers, s \in Settings \cup {None} :
             drvFile' = [drvFile EXCEPT ![d] = s]
        /\ UNCHANGED connFile
  /\ UNCHANGED <<cache, pc, name, looking, built, overtaken, late>>
  /\ dirty' = TRUE
  /\ steady' = [t \in Threads |-> FALSE]
  /\ there' = [t \in Threads |-> there[t] \/ Registered(name[t])']
  /\ writes' = [t \in Threads |->
                 IF there'[t] THEN 0
                 ELSE IF pc[t] \in Listing /\ writes[t] < 2 THEN writes[t] + 1
                 ELSE writes[t]]

(* _CONNECTION_RUNTIME_CACHE.clear()                                       *)
Mut_WipeDeleted == [n \in Names |-> IF connFile[n] = None THEN None ELSE cache[n]]
Wiped == [n \in Names |-> None]

Clear ==
  /\ cache' = Wiped
  /\ dirty' = FALSE
  /\ overtaken' = [t \in Threads |-> pc[t] # "ready"]
  /\ late' = [n \in Names |-> FALSE]
  /\ UNCHANGED <<files, pc, name, looking, built, begun>>

Restart ==
  /\ cache' = Wiped
  /\ late' = [n \in Names |-> FALSE]
  /\ dirty' = FALSE
  /\ Over(Threads)
  /\ UNCHANGED files

-----------------------------------------------------------------------------
Serve(t) ==
  \/ \E n \in Names : Ask(t, n)
  \/ ReadFile(t) \/ ListDrivers(t) \/ EndList(t) \/ Resolve(t) \/ Lookup(t) \/ Probe(t)
  \/ ReadConn(t) \/ ReadDrv(t) \/ Store(t) \/ Fail(t)

Next == (\E t \in Threads : Serve(t)) \/ WriteFile \/ Clear \/ Restart

Spec == Init /\ [][Next]_vars

-----------------------------------------------------------------------------
(* A cached runtime is the one the files describe, unless a file was       *)
(* written since the cache was last cleared or the request that stored it  *)
(* was overtaken by that clear.                                            *)
FreshUnlessOvertaken ==
  \A n \in Names :
    cache[n] # None /\ ~late[n] /\ ~dirty => cache[n] = Current(n)

(* What a request answers with if it ends now: the runtime it finds in the *)
(* cache or the one it has built.                                          *)
Answer(t) ==
  CASE pc[t] = "lookup" -> cache[name[t]]
    [] pc[t] = "store"  -> Built(t)
    [] OTHER            -> None

(* A request that began after the last clear, and during which no file was *)
(* written, is served the runtime of the current files, unless it finds    *)
(* one that an overtaken request left there.  A connection that was not    *)
(* registered at any time during the request is not served, whatever the   *)
(* cache still holds, with one exception: when files were written twice    *)
(* while the request listed the connections (one appears behind it, one    *)
(* goes before it), the list may come out empty, and a driver's name       *)
(* passes for a connection although there were connections all the time.   *)
ServesCurrent ==
  \A t \in Threads : Answer(t) # None =>
    /\ steady[t] => \/ Answer(t) = Current(name[t])
                    \/ pc[t] = "lookup" /\ late[name[t]]
    /\ there[t] \/ (name[t] \in Drivers /\ writes[t] = 2)

(* The reload page: "Configuration cache was reloaded.  Next bridge        *)
(* request will use current JSON files."                                   *)
NextRequestUsesCurrentFiles ==
  \A t \in Threads :
    Answer(t) # None /\ steady[t] => Answer(t) = Current(name[t])
=============================================================================
