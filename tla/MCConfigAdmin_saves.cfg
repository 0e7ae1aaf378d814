\* Two handlers save and delete two connections, every save with the same mount.
CONSTANTS
  Admins = {a, b}
  Files = {f, g, T}
  Template = T
  Edited = {}
  Mounts = {m}
  Flags = {FALSE}
  Drivers = {d}
  None = None
  Torn = Torn
SYMMETRY Interchangeable
SPECIFICATION Spec
INVARIANTS TypeOK MountsUnique ChangesAnnounced
