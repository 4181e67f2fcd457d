SPECIFICATION Spec
CONSTANTS
  Nobody = Nobody
  Absent = Absent
  Leftover = Leftover
  Runs = {r1, r2}
  Readers = {x1}
  FirstMarkers = {Absent}
  Mortal = {r1, x1}
  Window = 1
  LinkAttempts = 3
  MaxTime = 1
INVARIANTS
  ResultsAreReportedOnce
  UpdatesAreAttributed
PROPERTIES
  NoRunIsForgotten
CHECK_DEADLOCK FALSE
