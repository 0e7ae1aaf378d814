\* One operation on a folder or a document while other clients change the tree once.
CONSTANTS
  a = a
  b = b
  x = x
  doc = doc
  note = note
  Folder = Folder
  Names = {a, b, x}
  Spare = {x}
  Contents = {doc, note}
  MaxDepth = 3
  MaxIds = 10
  MaxEdits = 1
  Trees <- MCTrees
  Queries <- MCQueries
  Answers = {"children", "subtree"}
  CopyMax = 4
  DeleteMax = 4
  DownloadMax = 4
  ZipEndpoint = TRUE
SPECIFICATION Spec
CHECK_DEADLOCK FALSE
INVARIANTS TypeOK WalksAreExact OnlyTheTargetIsNamed
PROPERTIES LeavesFirst
