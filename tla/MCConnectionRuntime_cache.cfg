\* Two requests for one name, or one among three; writes and clears at any moment.
CONSTANTS
  Threads = {t1, t2}
  Names = {c, e, d}
  Drivers = {d}
  Settings = {s}
  None = None
SYMMETRY Interchangeable
CONSTRAINT OneOrTwo
SPECIFICATION Spec
INVARIANTS TypeOK FreshUnlessOvertaken ServesCurrent
