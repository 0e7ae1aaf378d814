\* One request among four connections to two repositories, other clients busy on both.
CONSTANTS
  alf = alf
  dav = dav
  edo = edo
  alt = alt
  sA = sA
  sB = sB
  p1 = p1
  p2 = p2
  e = e
  small = small
  big = big
  nothing = nothing
  Requests = {r1}
  Conns = {alf, dav, edo, alt}
  Stores = {sA, sB}
  StoreOf <- Behind
  Kind <- MCKind
  Versioned <- MCVersioned
  Paths = {p1}
  Root = Root
  Spots = {p1, e}
  Leads <- Strays
  Contents = {small, big, nothing}
  Size <- MCSize
  Depth = 2
  Busy = {sA, sB}
  Queries <- OneRequest
  PutHonoursOverwrite = FALSE
  None = None
CONSTRAINT SomeoneIsServed
SPECIFICATION FairSpec
INVARIANTS TypeOK MoveKeepsDocument ReplaceOnlyByChoice OkIsEarned TempFileReclaimed
  ConflictLeavesNoTrace SelfMoveNeedsChoice
PROPERTIES RequestsAreAnswered Contract
