\* One handler and no hand edits: a connection is saved under another key.
CONSTANTS
  Admins = {a}
  Files = {f, g, T}
  Template = T
  Edited = {}
  Flags = {TRUE, FALSE}
  Mounts = {m, n}
  Drivers = {d}
  None = None
  Torn = Torn
SYMMETRY Interchangeable
SPECIFICATION Spec
INVARIANTS UsedMountIsRejected
