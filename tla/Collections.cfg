SPECIFICATION Spec
CONSTANTS
  NULL = NULL
  LongIds = {"long"}
  TIMEOUT = 10000
  RETRY_DELAY = 250
  TOKEN_EXPIRY_MARGIN = 60000
  MIN_VERSION = 10111
  EXCHANGE_TIMEOUT = 10000
  GRACE = 200
  LANE_TIMEOUT = 60000
  Environments <- MCEnvironments
  GrokFiles <- MCGrokFiles
  ClaudeFiles <- MCClaudeFiles
  Exchanges <- MCExchanges
  GrokAnswers <- MCGrokAnswers
  ClaudeAnswers <- MCClaudeAnswers
  VersionRuns <- MCVersionRuns
  RenewalRuns <- MCRenewalRuns
  UsageRuns <- MCUsageRuns
  Accounts <- MCAccounts
  LimitAnswers <- MCLimitAnswers
  Arrivals <- MCArrivals
INVARIANTS
  RowsAreSound
  ReadingsAreShown
  RetentionFollowsTheCause
  GrokTokensOutliveTheirRequests
  CollectionFitsItsLane
PROPERTIES
  LimitsReceivedAreReturned
