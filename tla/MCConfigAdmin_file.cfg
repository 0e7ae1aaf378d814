\* Two handlers at one connection file, which is also edited by hand.
CONSTANTS
  Admins = {a, b}
  Files = {f, T}
  Template = T
  Edited = {f}
  Flags = {TRUE, FALSE}
  Mounts = {m, n}
  Drivers = {d}
  None = None
  Torn = Torn
SYMMETRY Interchangeable
SPECIFICATION Spec
INVARIANTS FilesWhole
PROPERTIES SavesAsSubmitted
