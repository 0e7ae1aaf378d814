-------------------------- MODULE MCCrossTransfer --------------------------
(* Small instances of CrossTransfer for TLC.                               *)
EXTENDS CrossTransfer, TLC

CONSTANTS alf, dav, edo, alt, \* an Alfresco, a WebDAV and two eDoCat connections
          sA, sB,             \* two repositories
          p1, p2,             \* paths
          e,                  \* where a lookup of p1 through alf may end
          small, big, nothing \* contents

MCKind == [c \in Conns |->
  CASE c = alf -> "alfresco" [] c = dav -> "webdav" [] OTHER -> "edocat"]
MCVersioned == [c \in Conns |-> c # dav]
MCSize == [c \in Contents |->
  CASE c = small -> "inline" [] c = big -> "large" [] OTHER -> "empty"]

(* alt is the eDoCat connection to the repository of alf.                  *)
Behind == [c \in Conns |-> IF c \in {alf, alt} THEN sA ELSE sB]

Strays == [c \in Conns |-> [p \in Paths \cup {Root} |->
  Spots \cap (IF c = alf /\ p = p1 THEN {p, e} ELSE {p})]]

Ask(op, src, dst, c, flags) ==
  [op |-> op, src |-> <<src, p1>>, dst |-> dst, content |-> c,
   overwrite |-> flags[1], versioning |-> flags[2]]

NoChoice  == <<FALSE, FALSE>>
Overwrite == <<TRUE, FALSE>>
Version   == <<FALSE, TRUE>>

Every == {NoChoice, Overwrite, Version}

AlfrescoAndWebdav ==
  {Ask("move", alf, <<dav, p1>>, small, f) : f \in {NoChoice, Overwrite}}
  \cup {Ask("move", dav, <<alf, p1>>, small, f) : f \in {NoChoice, Version}}
  \cup {Ask("copy", c[1], <<c[2], p1>>, small, NoChoice) :
          c \in {<<alf, dav>>, <<dav, alf>>}}

ToEdocat ==
  {Ask("move", alf, <<edo, p1>>, small, f) : f \in Every}
  \cup {Ask("copy", alf, <<edo, p1>>, small, NoChoice)}
  \cup {Ask("upload", alf, <<edo, p1>>, small, f) : f \in {NoChoice, Version}}
  \cup {Ask("copy", edo, <<edo, p>>, small, NoChoice) : p \in Paths}

(* Two moves of one document to two places, a copy between them.           *)
TwoTargets ==
  {Ask("move", alf, <<dav, p>>, small, NoChoice) : p \in {p1, p2}}
  \cup {Ask(op, dav, <<dav, p2>>, small, NoChoice) : op \in {"move", "copy"}}
  \cup {Ask("copy", alf, <<alf, p2>>, small, NoChoice),
        Ask("move", alf, <<dav, Root>>, small, NoChoice)}

(* One document seen through an Alfresco and an eDoCat connection.         *)
OntoItself ==
  {Ask("move", c[1], <<c[2], p1>>, small, f) :
     c \in {<<alf, alt>>, <<alt, alf>>}, f \in Every}

OneRequest == AlfrescoAndWebdav \cup ToEdocat \cup OntoItself

(* What others do after the last answer concerns no request.               *)
SomeoneIsServed == \E r \in Requests : pc[r] # "done"

Threads == Permutations(Requests)
=============================================================================
