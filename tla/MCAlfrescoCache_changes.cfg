\* Every kind of change by one client, tickets that are refused, lost answers, caches of two entries.
CONSTANTS
  a = a
  b = b
  Names = {a, b}
  Root = Root
  None = None
  Unknown = Unknown
  Requests = {r}
  Sessions = {s}
  Renewed = {z}
  Nodes = {Root, n1}
  Depth = 2
  Limit = 2
  MaxEdits = 2
  Calls <- Changing
SPECIFICATION FairSpec
INVARIANTS TypeOK AtMostOnce
PROPERTIES ActsWhereNamed RequestsEnd
