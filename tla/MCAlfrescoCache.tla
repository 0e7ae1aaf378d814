--------------------------- MODULE MCAlfrescoCache ---------------------------
(* Small instances of AlfrescoCache for TLC.                               *)
EXTENDS AlfrescoCache, TLC
CONSTANTS a, b

Folder == <<a>>
File   == <<a, b>>
Top    == <<b>>     \* where the second attempt at File leads
On(op, src, dst) == [op |-> op, src |-> src, dst |-> dst]

(* One session looks and deletes.                                          *)
LookAndDelete == {On("list", File, <<>>), On("delete", File, <<>>)}
(* Every kind of change, but on few paths.                                 *)
Changing ==
  {On("rename", Top, Folder), On("copy", Top, File), On("mkdir", Folder, <<>>),
   On("upload", <<>>, Top), On("delete", File, <<>>)}

Ids == Permutations(Nodes \ {Root})
Interchangeable == Permutations(Requests) \cup Permutations(Sessions) \cup Ids
=============================================================================
