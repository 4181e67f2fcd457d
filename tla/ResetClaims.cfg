SPECIFICATION Spec
CONSTANTS
  NULL = NULL
  LongIds = {"long"}
  TIMEOUT = 10000
  RETRY_DELAY = 250
  TOKEN_EXPIRY_MARGIN = 60000
  MIN_VERSION = 10111
  RESET_LANE_TIMEOUT = 45000
  MaxLeft = 2
  Grants <- MCGrants
  Targets <- MCTargets
  ClaudeFiles <- MCClaudeFiles
  Exchanges <- MCExchanges
  VersionRuns <- MCVersionRuns
  ClaimAnswers = {"already_used", "cooldown"}
INVARIANTS
  ReportsAreTruthful
  TheNamedResetIsSpent
  ClaimFitsItsLane
CHECK_DEADLOCK FALSE
