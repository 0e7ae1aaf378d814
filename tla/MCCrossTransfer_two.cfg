\* Two requests for one document; nobody else writes.
CONSTANTS
  alf = alf
  dav = dav
  edo = edo
  alt = alt
  sA = sA
  sB = sB
  p1 = p1
  p2 = p2
  e = e
  small = small
  big = big
  nothing = nothing
  Requests = {r1, r2}
  Conns = {alf, dav}
  Stores = {sA, sB}
  StoreOf <- Behind
  Kind <- MCKind
  Versioned <- MCVersioned
  Paths = {p1, p2}
  Root = Root
  Spots = {p1, p2, e}
  Leads <- Strays
  Contents = {small, big}
  Size <- MCSize
  Depth = 1
  Busy = {}
  Queries <- TwoTargets
  PutHonoursOverwrite = FALSE
  None = None
SPECIFICATION Spec
SYMMETRY Threads
CHECK_DEADLOCK FALSE
INVARIANTS OneMoveWins
