SPECIFICATION FairSpec
CONSTANTS
  Providers = {p1, p2}
  NoProvider = NoProvider
  Docs = {d1}
  NoDoc = NoDoc
  DefaultDoc = d1
  Owners = {bar}
  NoOwner = NoOwner
  UserOps = {"close", "refresh", "reset"}
  SlowLanes = {"reset", "status"}
  LossyLanes = {}
  Offers = {{}, {p1, p2}}
  CheckReplies = {"error"}
  UpdateReplies = {}
  ResetReplies = {"read"}
  MaxGeneration = 0
INVARIANTS
  DialogOffersACurrentReset
  ClaimShownIsTheOneRunning
PROPERTIES
  QueuedTargetsGetARun
