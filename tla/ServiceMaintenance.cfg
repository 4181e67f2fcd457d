SPECIFICATION FairSpec
CONSTANTS
  Providers = {p1, p2}
  NoProvider = NoProvider
  Docs = {d1}
  NoDoc = NoDoc
  DefaultDoc = d1
  Owners = {bar}
  NoOwner = NoOwner
  UserOps = {"check", "uninstall", "update"}
  SlowLanes = {"update", "maintenanceHandoff"}
  LossyLanes = {}
  Offers = {{}}
  CheckReplies = {"update_available", "error"}
  UpdateReplies = {"started", "unreadable", "none", "running", "updated", "failed"}
  ResetReplies = {"read"}
  MaxGeneration = 0
INVARIANTS
  HandoffRunsAlone
PROPERTIES
  HandoffEnds
  ArmedDialogKeepsItsWord
  UpdateWatchEnds
