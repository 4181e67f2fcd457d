SPECIFICATION Spec
CONSTANTS
  None = None
  NoFile = NoFile
  NoDocument = NoDocument
  Dashed = {"-", "-x"}
  Txids = {"t1"}
  Helpers = {h1, h2}
  MaxRuns = 3
  Vectors <- MCVectors
  Intents <- MCIntents
  Documents <- MCDocuments
  Answers <- MCAnswers
  FirstFiles <- MCFirstFiles
  Receipts <- MCReceipts
  Quickshells <- MCQuickshells
  NoVersion = NoVersion
  NoReceipt = NoReceipt
  NoOffer = NoOffer
  CheckFails = CheckFails
  CARGO_VERSION = 10
  MINIMUM_QUICKSHELL_VERSION = 3
SYMMETRY Symmetry
INVARIANTS
  SavedSettingsSurvive
  OldSettingsStayUsable
  IntentsAreUnderstood
  OffersAreInstallable
  PurgesWaitForWrites
