SPECIFICATION FairSpec
CONSTANTS
  Nobody = Nobody
  NoRow = NoRow
  Providers = {p1, p2}
  Helpers = {h1, h2}
  Writers = {w1}
  Maintainers = {m1}
  Modes = {"use", "bypass"}
  Replies = {"windows", "unreachable"}
  Ttl = 1
  MaxHold = 1
  MayBeCorrupt = FALSE
  MaxTime = 1
  MaxRuns = 1
PROPERTIES
  MaintenanceWritesAlone
  SiblingsAreKept
  RequestsEnd
CHECK_DEADLOCK FALSE
