\* The reload page says the next request uses the current files.
CONSTANTS
  Threads = {t1, t2}
  Names = {c, d}
  Drivers = {d}
  Settings = {s}
  None = None
SYMMETRY Interchangeable
SPECIFICATION Spec
INVARIANTS NextRequestUsesCurrentFiles
