---------------------------- MODULE MCEdocatTree ----------------------------
(* Small instances of EdocatTree for TLC.                                  *)
EXTENDS EdocatTree, TLC

CONSTANTS a, b, x,    \* names
          doc, note   \* contents

N(i, body) == [id |-> i, body |-> body]

(* A folder a with a document and a folder that holds a document, beside a *)
(* folder b.                                                               *)
Deep == (<<a>> :> N(1, Folder)) @@ (<<a, a>> :> N(2, doc)) @@ (<<a, b>> :> N(3, Folder))
        @@ (<<a, b, a>> :> N(4, note)) @@ (<<b>> :> N(5, Folder))

(* One more node than an operation may touch.                              *)
Large == Deep @@ (<<a, b, b>> :> N(6, doc))

(* Folders only, as deep as they may be.                                   *)
Nested == (<<a>> :> N(1, Folder)) @@ (<<a, b>> :> N(2, Folder)) @@ (<<a, b, a>> :> N(3, Folder))

(* A document a and a folder b.                                            *)
Flat == (<<a>> :> N(1, doc)) @@ (<<b>> :> N(2, Folder))

MCTrees == {Deep, Large, Nested, Flat}

Ask(op, src, dst) == [op |-> op, src |-> src, dst |-> dst]

MCQueries ==
  {Ask("copy", <<a>>, q) : q \in {<<x>>, <<b>>, <<a, x>>}}
  \cup {Ask(op, <<a>>, <<x>>) : op \in {"delete", "rename", "download"}}
  \cup {Ask("rename", <<a>>, q) : q \in {<<b>>, <<b, x>>}}
  \cup {Ask("mkdir", <<a>>, q) : q \in {<<b>>, <<b, x>>}}
=============================================================================
