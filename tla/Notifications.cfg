SPECIFICATION Spec
CONSTANTS
  Providers = {{1, 2}}
  Evaluators = {e1}
  Dateless = {2}
  NoReset = NoReset
  NoReading = NoReading
  NoEntry = NoEntry
  Tolerance = 1
  Jitter = 1
  Period = 3
  MayLag = FALSE
  MaxTime = 3
PROPERTIES
  AlertsOnlyRise
  EveryCrossingIsAnnounced
