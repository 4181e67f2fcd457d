SPECIFICATION FairSpec
CONSTANTS
  Providers = {p1, p2}
  NoProvider = NoProvider
  Docs = {d1, d2}
  NoDoc = NoDoc
  DefaultDoc = d1
  Owners = {bar}
  NoOwner = NoOwner
  UserOps = {"close", "settings"}
  SlowLanes = {"settingsWrite", "settingsBootstrap", "settingsRead"}
  LossyLanes = {"settingsRead", "settingsWrite"}
  Offers = {{}}
  CheckReplies = {"error"}
  UpdateReplies = {"none"}
  ResetReplies = {"read"}
  MaxGeneration = 3
INVARIANTS
  AppliedSettingsAreTheFile
  CleanDialogShowsTheFile
PROPERTIES
  SaveKeepsTheEdits
  LoadingAndSavingEnd
