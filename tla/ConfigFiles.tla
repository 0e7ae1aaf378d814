---------------------------- MODULE ConfigFiles ----------------------------
(***************************************************************************)
(* The configuration of a connection, put together from up to four JSON    *)
(* files (core/config_loader.py): its driver's and its own, each with a    *)
(* local file that overrides it, under an old or a new path.               *)
(*                                                                         *)
(* A section maps keys to texts or to sections of texts: one level of      *)
(* nesting stands for all of them.  A file holds values at its root and    *)
(* may hold a section of its own name (or under its key), or is Absent.    *)
(***************************************************************************)
EXTENDS Call, SequencesExt

Text(t)     == [kind |-> "text", is |-> t]
Section(s)  == [kind |-> "section", of |-> s]
NoText      == ""
EmptyMap    == [k \in {} |-> NoText]
File(root, inner) == [root |-> root, inner |-> inner]

(* _merge_dicts: what overrides wins key by key, sections are merged.      *)
MergeTexts(base, over) ==
  [a \in DOMAIN base \cup DOMAIN over |-> IF a \in DOMAIN over THEN over[a] ELSE base[a]]

Merge(base, over) ==
  [k \in DOMAIN base \cup DOMAIN over |->
     IF k \notin DOMAIN over THEN base[k]
     ELSE IF k \in DOMAIN base /\ base[k].kind = "section" /\ over[k].kind = "section"
     THEN Section(MergeTexts(base[k].of, over[k].of))
     ELSE over[k]]

(* _extract_keyed_section: a section of the file overrides its root.       *)
Extract(file) ==
  IF Given(file.inner) THEN Merge(file.root, file.inner) ELSE file.root

(* _strip_empty_overrides                                                  *)
NonBlank(texts) == [k \in {k \in DOMAIN texts : texts[k] # NoText} |-> texts[k]]
Stripped(value) == IF value.kind = "text" THEN value ELSE Section(NonBlank(value.of))
Mut_Strip(section) == section
Strip(section) ==
  [k \in {k \in DOMAIN section : Stripped(section[k]) \notin {Text(NoText), Section(EmptyMap)}}
     |-> Stripped(section[k])]

-----------------------------------------------------------------------------
(* Which files are read.  d holds, for a driver or a connection, the files *)
(* under the old and the new path and the local ones likewise.             *)

(* _driver_config_paths: an old base file brings its old local file along. *)
DriverBase(d)  == FirstOf(d.old, d.new)
DriverLocal(d) == IF Given(d.old) THEN d.oldLocal ELSE FirstOf(d.newLocal, d.oldLocal)

(* _connection_config_paths: of the local files, here the old one counts.  *)
ConnectionLocal(c) == FirstOf(c.oldLocal, c.newLocal)

(* A base file and its override; without a base file nothing is loaded.    *)
Layered(base, local) ==
  IF ~Given(base) THEN EmptyMap
  ELSE IF ~Given(local) THEN Extract(base)
  ELSE Merge(Extract(base), Extract(local))

LoadDriver(d)     == Layered(DriverBase(d), DriverLocal(d))
OwnSection(c)     == Layered(c.new, ConnectionLocal(c))
HasDriver(own)    == /\ "driver" \in DOMAIN own
                     /\ own["driver"].kind = "text" /\ own["driver"] # Text(NoText)

(* load_connection_config                                                  *)
LoadConnection(c, d) ==
  LET own == OwnSection(c) IN
  IF HasDriver(own) THEN Merge(LoadDriver(d), Strip(own)) ELSE own

(* load_connection_metadata and connection_driver_name, of the same files. *)
Metadata(c) ==
  LET own == OwnSection(c) IN
  [kind   |-> IF Given(c.new) THEN "connection" ELSE "driver",
   driver |-> IF HasDriver(own) THEN own["driver"] ELSE Absent]

-----------------------------------------------------------------------------
(* The texts a section holds, by their path.                               *)
Leaves(section) ==
  LET Of(k) == IF section[k].kind = "text" THEN {<<<<k>>, section[k].is>>}
               ELSE {<<<<k, a>>, section[k].of[a]>> : a \in DOMAIN section[k].of}
  IN UNION {Of(k) : k \in DOMAIN section}

FileLeaves(file) ==
  IF ~Given(file) THEN {}
  ELSE Leaves(file.root)
       \cup (IF Given(file.inner) THEN Leaves(file.inner) ELSE {})

Related(p, q) == IsPrefix(p, q) \/ IsPrefix(q, p)

(* What a connection gets from its files: a local file that exists is read *)
(* (except a driver's under the new path beside a base file under the old  *)
(* one); a value the connection's last file sets is used; a value it       *)
(* leaves out or sets blank is the driver's, never blank while the driver  *)
(* has one, and nothing comes from elsewhere.  (A blank in the local file  *)
(* also gives up what the connection's own file sets.)                     *)
ConfigLayers ==
  Asks("config") =>
    LET c == call.connection
        d == call.driver
        effective == Leaves(LoadConnection(c, d))
        drivers   == Leaves(LoadDriver(d))
        own       == Leaves(OwnSection(c))
        last      == IF Given(ConnectionLocal(c)) THEN ConnectionLocal(c) ELSE c.new
        found(f)  == Given(f.oldLocal) \/ Given(f.newLocal)
    IN
    /\ found(c) => Given(ConnectionLocal(c))
    /\ found(d) /\ ~Given(DriverLocal(d)) => Given(d.old) /\ ~Given(d.oldLocal)
    /\ HasDriver(OwnSection(c)) =>
         /\ \A leaf \in Leaves(Extract(last)) : leaf[2] # NoText => leaf \in effective
         /\ \A leaf \in drivers :
              \/ leaf \in effective
              \/ \E o \in own : o[2] # NoText /\ Related(o[1], leaf[1])
         /\ \A leaf \in effective : leaf[2] = NoText => leaf \in drivers
         /\ effective \subseteq UNION {FileLeaves(f) : f \in
              {DriverBase(d), DriverLocal(d), c.new, ConnectionLocal(c)}}
         /\ Metadata(c).driver = LoadConnection(c, d)["driver"]
=============================================================================
