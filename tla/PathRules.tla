----------------------------- MODULE PathRules -----------------------------
(***************************************************************************)
(* The names of eDoCat nodes (drivers/edocat_paths.py, services/           *)
(* bridge_service.py).  A client sees paths below the configured document  *)
(* library, the server works with paths that include it, and reports a     *)
(* node under its own path or under its folder's.  What was listed must be *)
(* found again under the path it was listed with.                          *)
(*                                                                         *)
(* A path is the sequence of its segments.  Its first segment is empty for *)
(* a text that begins with two slashes; trailing slashes do not count.     *)
(***************************************************************************)
EXTENDS Call, SequencesExt

NoName == ""

(* resolve_path.  With "/" as the root, a path is given a second slash.    *)
AtOrBelow(path, root) ==
  IF root = <<>> THEN path # <<>> /\ Head(path) = NoName ELSE IsPrefix(root, path)

Mut_ResolvePath(path, root) == root \o path
ResolvePath(path, root) ==
  IF path = <<>> THEN root
  ELSE IF AtOrBelow(path, root) THEN path
  ELSE IF root = <<>> THEN <<NoName>> \o path
  ELSE root \o path

(* public_path                                                             *)
PublicPath(path, root) ==
  IF IsPrefix(root, path) THEN SubSeq(path, Len(root) + 1, Len(path)) ELSE path

(* parent_and_name                                                         *)
ParentAndName(path, root) ==
  LET resolved == ResolvePath(path, root) IN
  IF resolved = <<>> THEN [parent |-> <<>>, name |-> NoName]
  ELSE [parent |-> Front(resolved), name |-> Last(resolved)]

(* normalize_node_path: the name is appended unless the path ends with it. *)
NodePath(node) ==
  IF node.path # <<>> /\ Last(node.path) = node.name THEN node.path
  ELSE Append(node.path, node.name)

(* find_exact_node: the first node with that path, else the first with     *)
(* that name in that folder.                                               *)
ParentOf(path) == IF path = <<>> THEN <<>> ELSE Front(path)
NoNode == [path |-> <<>>, name |-> NoName]

(* The text before the last slash, or "/" when nothing is left of it.      *)
ParentText(path) == IF ParentOf(path) = <<NoName>> THEN <<>> ELSE ParentOf(path)

FindExact(nodes, target) ==
  LET same == SelectInSeq(nodes, LAMBDA n : NodePath(n) = target)
      near == SelectInSeq(nodes, LAMBDA n : /\ target # <<>> /\ n.name = Last(target)
                                            /\ ParentText(NodePath(n)) = ParentText(target))
  IN IF same # 0 THEN same ELSE near

(* _deduplicate_repeated_leaf: what a stat tries when it finds nothing.    *)
WithoutRepeat(path) ==
  IF Len(path) >= 2 /\ path[Len(path)] = path[Len(path) - 1] THEN Front(path) ELSE path

(* stat_path: of what exists, the path itself or the one without repeat.   *)
StatPath(path, existing) ==
  IF path \in existing THEN path
  ELSE IF WithoutRepeat(path) \in existing THEN WithoutRepeat(path) ELSE Absent

(* parse_wfx_path and build_wfx_path, for a text that may lack its parts.  *)
BuildWfx(connection, path) == [connection |-> connection, colon |-> TRUE, path |-> path]
ParseWfx(raw) ==
  IF ~raw.colon \/ raw.connection = NoName THEN [ok |-> FALSE]
  ELSE [ok |-> TRUE, connection |-> raw.connection, path |-> raw.path]

-----------------------------------------------------------------------------
(* The server's side, for the property: a folder's children, reported      *)
(* under their own paths or under the folder's.                            *)
Reported(folder, names, style) ==
  [k \in DOMAIN names |->
     [path |-> IF style = "own" THEN Append(folder, names[k]) ELSE folder,
      name |-> names[k]]]

(* A child that is listed is found again: the path shown for it parses and *)
(* resolves back to it, and the node picked among the folder's children is *)
(* that child; resolving twice changes nothing.  A stat of a path whose    *)
(* last name is doubled finds it too, but never in place of a node that    *)
(* really has that path.  The exceptions are what the rules cannot tell    *)
(* apart: a path below the library that begins like the library, a child   *)
(* named like its folder where the server reports folders, and below the   *)
(* first level when the library is the root.                               *)
ListedIsFound ==
  Asks("path") =>
    LET root   == call.root
        folder == call.folder
        nodes  == Reported(folder, call.names, call.style)
        listed == {Append(folder, call.names[k]) : k \in DOMAIN call.names} \cup {folder}
    IN
    /\ \A path \in listed : StatPath(path, listed) = path
    /\ \A path \in listed \ {<<>>} :
         Append(path, Last(path)) \notin listed =>
           StatPath(Append(path, Last(path)), listed) = path
    /\ \A k \in DOMAIN nodes :
       LET shown    == PublicPath(NodePath(nodes[k]), root)
           parsed   == ParseWfx(BuildWfx("c", shown))
           resolved == ResolvePath(parsed.path, root)
           split    == ParentAndName(parsed.path, root)
           ambiguous == \/ root # <<>> /\ IsPrefix(root, shown)
                        \/ call.style = "folder" /\ folder # <<>> /\ Last(folder) = nodes[k].name
                        \/ root = <<>> /\ folder # <<>>
       IN
       /\ parsed.ok
       /\ ResolvePath(resolved, root) = resolved
       /\ ~ambiguous =>
            /\ FindExact(nodes, resolved) = k
            /\ split.name = nodes[k].name /\ ParentText(resolved) = folder
=============================================================================
