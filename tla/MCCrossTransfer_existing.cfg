\* One upload or transfer from an Alfresco to an eDoCat connection.
CONSTANTS
  alf = alf
  dav = dav
  edo = edo
  alt = alt
  sA = sA
  sB = sB
  p1 = p1
  p2 = p2
  e = e
  small = small
  big = big
  nothing = nothing
  Requests = {r1}
  Conns = {alf, edo}
  Stores = {sA, sB}
  StoreOf <- Behind
  Kind <- MCKind
  Versioned <- MCVersioned
  Paths = {p1, p2}
  Root = Root
  Spots = {p1, p2}
  Leads <- Strays
  Contents = {small, big}
  Size <- MCSize
  Depth = 1
  Busy = {sA, sB}
  Queries <- ToEdocat
  PutHonoursOverwrite = FALSE
  None = None
SPECIFICATION Spec
INVARIANTS ExistingUploadNeedsVersionChoice
