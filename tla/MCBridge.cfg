CONSTANTS
  r1 = r1
  r2 = r2
  ta = ta
  tb = tb
  u1 = u1
  u2 = u2
  one = one
  other = other
  None = None
  Absent = Absent
  Broken = Broken
  Blank = Blank
  Requests = {r1, r2}
  Targets = {ta, tb}
  Users = {u1, u2}
  Secretless = {u2}
  Queries <- SentQueries
  RawMax = 3
  DriverMax = 2
  Chunk = 2
  MaxVersion = 2
  MaxChanges = 1
  PageNodes <- FolderNodes
  PageSize = 2
  MaxPages = 4
  Habits <- AllHabits
  MaxEdits = 2
  Paths <- SharePaths
SPECIFICATION MCSpec
INVARIANTS
  TypeOK
  CachedWasHeld
  ResolvesInOrder
  VersionsNotOlder
  UploadsEndRight
  UploadsTakeTurns
  FolderIsRead
  DryRunTells
  ConfigLayers
  ListedIsFound
  FailuresKeepMeaning
  CredentialRules
PROPERTIES
  EveryoneIsAnswered
CHECK_DEADLOCK FALSE
