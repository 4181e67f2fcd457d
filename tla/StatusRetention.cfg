SPECIFICATION Spec
CONSTANTS
  Nobody = Nobody
  NoRow = NoRow
  Providers = {p1}
  Helpers = {h1}
  Writers = {}
  Maintainers = {}
  Modes = {"use", "bypass"}
  Replies = {"windows", "empty", "unreachable", "denied", "limited"}
  Ttl = 1
  MaxHold = 2
  MayBeCorrupt = TRUE
  MaxTime = 5
  MaxRuns = 4
INVARIANTS
  ReadingsAreDated
PROPERTIES
  LastGoodIsKept
  PollsRespectRetryAfter
CHECK_DEADLOCK FALSE
