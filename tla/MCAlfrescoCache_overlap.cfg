\* Two requests of one session, which look up and delete, and other clients.
CONSTANTS
  a = a
  b = b
  Names = {a, b}
  Root = Root
  None = None
  Unknown = Unknown
  Requests = {r, x}
  Sessions = {s}
  Renewed = {}
  Nodes = {Root, n1, n2}
  Depth = 2
  Limit = 20
  MaxEdits = 2
  Calls <- LookAndDelete
SYMMETRY Interchangeable
SPECIFICATION Spec
INVARIANTS CachesRemember
