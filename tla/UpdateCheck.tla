---------------------------- MODULE UpdateCheck ----------------------------
(***************************************************************************)
(* plugin/maintenance.rs: `update check', the document it prints from the  *)
(* published receipt, the installed Quickshell and the plugin's tree, and  *)
(* what the plugin's dialog makes of it (CoreMaintenance.js).  Versions    *)
(* are numbers in the order of semantic versions.                          *)
(***************************************************************************)
EXTENDS Integers

CONSTANTS
  NoVersion,   \* text that is no semantic version
  NoReceipt,   \* a body that is no receipt; a request that failed
  NoOffer,     \* latestCompatible: null
  CheckFails,  \* the check printed nothing
  CARGO_VERSION,
  MINIMUM_QUICKSHELL_VERSION

DistReceipt ==
  [schema : Nat, plugin : STRING, target : STRING, contract : Nat,
   version : Nat \cup {NoVersion}, minimum : Nat \cup {NoVersion}]

\* ReleaseHttp::get(): the body of an answer with status 200.
Fetched(answer) == IF answer = NoReceipt THEN NoReceipt
                   ELSE IF answer.status # 200 THEN NoReceipt ELSE answer.body

\* UpdateCheckProbe: qs --version, or the build's minimum when it does not say.
QuickshellVersion(probe) ==
  IF probe.exit # 0 \/ probe.version = NoVersion THEN MINIMUM_QUICKSHELL_VERSION ELSE probe.version

\* UpdateCheck::run(), as far as what it must be a receipt of.
Ours(receipt) ==
  /\ receipt.schema = 1 /\ receipt.plugin = "othavi0.agent-bar"
  /\ receipt.target = "x86_64-unknown-linux-gnu" /\ receipt.contract = 1
  /\ receipt.version # NoVersion /\ receipt.minimum # NoVersion

Compatible_AnyQuickshell(quickshell, receipt) == TRUE
Compatible(quickshell, receipt) == quickshell >= receipt.minimum

UpdateCheckDocument(receipt, quickshell, reinstall) ==
  LET offered == ~reinstall /\ Compatible(quickshell, receipt)
  IN  [reinstall |-> reinstall,
       available |-> offered /\ receipt.version > CARGO_VERSION,
       latest    |-> IF offered THEN [version |-> receipt.version, contract |-> receipt.contract, minimum |-> receipt.minimum]
                     ELSE NoOffer]

\* UpdateCheckDocument::validate()
ValidCheck(doc) ==
  /\ doc.reinstall => ~doc.available /\ doc.latest = NoOffer
  /\ IF doc.latest = NoOffer THEN ~doc.available
     ELSE /\ doc.latest.contract = 1
          /\ doc.latest.minimum = MINIMUM_QUICKSHELL_VERSION
          /\ doc.available <=> doc.latest.version > CARGO_VERSION

\* The document, or CheckFails (exit 5).
UpdateCheckRun(answer, probe, git) ==
  IF Fetched(answer) = NoReceipt THEN CheckFails
  ELSE IF ~Ours(Fetched(answer)) THEN CheckFails
  ELSE LET doc == UpdateCheckDocument(Fetched(answer), QuickshellVersion(probe), ~git)
       IN  IF ValidCheck(doc) THEN doc ELSE CheckFails

\* maintenanceUiFromCheck(): the phase of the dialog.
CheckPhase(doc) ==
  IF doc = CheckFails THEN "error"
  ELSE IF doc.reinstall THEN "reinstall_required"
  ELSE IF doc.available /\ doc.latest # NoOffer THEN "update_available"
  ELSE IF ~doc.available THEN "up_to_date"
  ELSE "error"
=============================================================================
