SPECIFICATION Spec
CONSTANTS
  Nobody = Nobody
  Absent = Absent
  Leftover = Leftover
  Runs = {r1}
  Readers = {x1}
  FirstMarkers = {Absent}
  Mortal = {}
  Window = 2
  LinkAttempts = 3
  MaxTime = 3
INVARIANTS
  RunsAreReportedOnce
CHECK_DEADLOCK FALSE
