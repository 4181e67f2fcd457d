------------------------------ MODULE Service ------------------------------
(***************************************************************************)
(* Service.qml: the one object per shell that owns the nine helper lanes   *)
(* and everything the bar, the popup and IPC ask of them.  The Service is  *)
(* single threaded, so each handler is one step: a lane's settlement, the  *)
(* callback that receives it, and every call the callback makes.           *)
(*                                                                         *)
(* Time is left out: a deadline may beat its helper whenever the lane is   *)
(* in SlowLanes, and a timer may fire whenever it runs.                    *)
(***************************************************************************)
EXTENDS LanePhase, CoreService, CoreSettings, CoreMaintenance

CONSTANTS
  Owners,        \* bar widgets (one per monitor) that can own the popup
  NoOwner,       \* null
  UserOps,       \* bound: which groups of user operations a run exercises
  SlowLanes,     \* bound: lanes whose deadline may beat the helper
  LossyLanes,    \* bound: lanes whose helper may fail to start
  Offers,        \* bound: the sets of providers a snapshot may show with a reset
  CheckReplies,  \* bound: what the update check may answer
  UpdateReplies, \* bound: what the update helper may answer
  ResetReplies,  \* bound: what the reset helper may answer
  MaxGeneration  \* bound: settingsGeneration, an unbounded counter

Lanes == {"versionProbe", "status", "settingsRead", "settingsBootstrap", "settingsWrite",
          "maintenanceCheck", "maintenanceHandoff", "update", "reset"}

Operations == {"refresh", "settings", "check", "update", "uninstall", "reset", "close"}

ASSUME ServiceAssumption ==
  /\ NoOwner \notin Owners
  /\ UserOps \subseteq Operations
  /\ SlowLanes \subseteq Lanes /\ LossyLanes \subseteq Lanes
  /\ Offers \subseteq SUBSET Providers
  /\ CheckReplies \subseteq CheckAnswers
  /\ UpdateReplies \subseteq ApplyAnswers \cup StatusAnswers
  /\ ResetReplies \subseteq {"read", "unreadable", "silent"}
  /\ MaxGeneration \in Nat

\* Lanes the uninstall hand-off waits for.
DrainedLanes ==
  {"status", "settingsRead", "settingsBootstrap", "settingsWrite", "maintenanceCheck", "reset"}

VARIABLES
  lane,           \* the phase of each lane
  stall,          \* the stall mark of each lane
  version,        \* versionReady and versionFailed: unknown, ready or failed
  pollOn,         \* pollTimer.running
  followUp,       \* a callLater(maybeFollowUpStatus) is queued
  pending,        \* pendingForcedTargets
  captured,       \* the targets the last status run took with it
  resetQueued,    \* resetRefreshQueued
  resetRun,       \* resetRefreshRunId is the outstanding status run
  offering,       \* snapshot: the providers that offer a reset
  resetUi,
  claim,          \* the context of the reset run: the provider it claims for
  blocked,        \* maintenanceState is the hand-off
  purgeIntent,    \* pendingMaintenanceIntention.purge
  ui,             \* maintenanceUi
  updateWindow,   \* updatePollWindow.running, which is also updateRunning
  updatePoll,     \* updatePollTimer.running
  updateCtx,      \* the context of the update lane's run
  restartPending,
  popup,          \* popupOwner
  settings,       \* settingsState, whose draft is settingsDraft
  generation,     \* settingsGeneration
  applied,        \* appliedSettings
  readGen,        \* the context of the settingsRead run
  writeGen,       \* the context of the settingsWrite run
  payload,        \* the document the settingsWrite helper was given
  file,           \* the settings file
  seen,           \* what each reading helper has read of it
  written,        \* the settingsWrite helper has replaced the file
  unaccounted     \* history: a write took effect that was not reported

laneVars     == <<lane, stall>>
statusVars   == <<pending, captured, resetQueued, resetRun>>
pollVars     == <<version, pollOn, followUp>>
resetVars    == <<offering, resetUi, claim>>
maintVars    == <<blocked, purgeIntent, ui, restartPending>>
updateVars   == <<updateWindow, updatePoll, updateCtx>>
dialogVars   == <<popup, settings, generation>>
settingsVars == <<applied, readGen, writeGen, payload>>
fileVars     == <<file, seen, written, unaccounted>>
vars == <<laneVars, statusVars, pollVars, resetVars, maintVars, updateVars, dialogVars,
          settingsVars, fileVars>>

Readers == {"settingsRead", "settingsBootstrap"}

Init ==
  /\ lane = [l \in Lanes |-> "idle"]
  /\ stall = [l \in Lanes |-> FALSE]
  /\ version = "unknown"
  /\ pollOn = FALSE
  /\ followUp = FALSE
  /\ pending = EmptyPending
  /\ captured = EmptyPending
  /\ resetQueued = FALSE
  /\ resetRun = FALSE
  /\ offering = {}
  /\ resetUi = ResetUiIdle
  /\ claim = NoProvider
  /\ blocked = FALSE
  /\ purgeIntent = FALSE
  /\ ui = UiIdle
  /\ restartPending = FALSE
  /\ updateWindow = FALSE
  /\ updatePoll = FALSE
  /\ updateCtx = "status"
  /\ popup = NoOwner
  /\ settings = SettingsClosed
  /\ generation = 0
  /\ applied = NoDoc
  /\ readGen = 0
  /\ writeGen = 0
  /\ payload = NoDoc
  /\ file = DefaultDoc
  /\ seen = [l \in Readers |-> NoDoc]
  /\ written = FALSE
  /\ unaccounted = FALSE

---------------------------------------------------------------------------
(* Lanes.  `L' is the lanes as the calls so far of a handler leave them.   *)

Started(L, l) == IF Ready(L[l]) THEN [L EXCEPT ![l] = "running"] ELSE L

\* A run ends by its helper's exit, or by its deadline.
Ends(l, timedOut) ==
  IF timedOut THEN lane[l] = "lost" \/ (lane[l] = "running" /\ l \in SlowLanes)
              ELSE lane[l] = "running"

Ended(l, timedOut) ==
  [lane EXCEPT ![l] = IF timedOut THEN Expired(@) ELSE "idle"]

\* settle() and noteLaneSettled(): one answer clears every lane's mark.
MarkStall(l, timedOut) ==
  stall' = IF timedOut THEN [stall EXCEPT ![l] = TRUE] ELSE [k \in Lanes |-> FALSE]

\* tryMaintenanceDetach()
Detached_DoesNotWait(handoff, L) == IF handoff THEN Started(L, "maintenanceHandoff") ELSE L
Detached_WaitsForEveryLane(handoff, L) ==
  IF handoff /\ \A l \in Lanes : ~Busy(L[l]) THEN Started(L, "maintenanceHandoff") ELSE L
Detached(handoff, L) ==
  IF handoff /\ \A l \in DrainedLanes : ~Busy(L[l])
  THEN Started(L, "maintenanceHandoff") ELSE L

\* kickStatus(): a run takes every queued target with it.
CanKick_IgnoresTheBlock == version = "ready"
CanKick == version = "ready" /\ ~blocked

KickStatus(able, L, targets, queued) ==
  IF able /\ Ready(L["status"])
  THEN /\ lane' = Started(L, "status")
       /\ captured' = targets
       /\ resetRun' = queued
       /\ resetQueued' = FALSE
       /\ pending' = EmptyPending
  ELSE /\ lane' = L
       /\ pending' = targets
       /\ resetQueued' = queued
       /\ resetRun' = (resetRun /\ Busy(L["status"]))
       /\ UNCHANGED captured

\* maybeFollowUpStatus()
FollowUpStatus(L) ==
  KickStatus(CanKick /\ ~PendingIsEmpty(pending), L, pending, resetQueued)

---------------------------------------------------------------------------
(* The version probe and collection.                                       *)

\* syncMaintenanceVersion(): an idle About tab starts over.
SyncVersion(shown) == IF shown.phase = "idle" THEN UiIdle ELSE shown

CanProbe == version # "ready" /\ Ready(lane["versionProbe"])

\* onCompleted, onHelperPathChanged -> tryStartProduction()
TryStartProduction ==
  /\ CanProbe
  /\ version' = "unknown"
  /\ lane' = Started(lane, "versionProbe")
  /\ UNCHANGED <<stall, statusVars, pollOn, followUp, resetVars, maintVars, updateVars,
                 dialogVars, settingsVars, fileVars>>

\* onManifestChanged
ManifestChanged ==
  /\ ui' = SyncVersion(ui)
  /\ \/ CanProbe /\ version' = "unknown" /\ lane' = Started(lane, "versionProbe")
     \/ ~CanProbe /\ UNCHANGED <<version, lane>>
  /\ UNCHANGED <<stall, statusVars, pollOn, followUp, resetVars, blocked, purgeIntent,
                 restartPending, updateVars, dialogVars, settingsVars, fileVars>>

\* pollUpdateStatus() and kickSettingsBootstrap(), on success before collection.
VersionProbeFails ==
  \E timedOut \in BOOLEAN :
    /\ Ends("versionProbe", timedOut)
    /\ lane' = Ended("versionProbe", timedOut)
    /\ MarkStall("versionProbe", timedOut)
    /\ version' = "failed"
    /\ UNCHANGED <<statusVars, pollOn, followUp, resetVars, maintVars, updateVars,
                   dialogVars, settingsVars, fileVars>>

VersionProbeSucceeds ==
  /\ Ends("versionProbe", FALSE)
  /\ MarkStall("versionProbe", FALSE)
  /\ version' = "ready"
  /\ pollOn' = TRUE
  /\ ui' = SyncVersion(ui)
  /\ LET polled == Started(Ended("versionProbe", FALSE), "update")
         boots  == applied = NoDoc /\ ~blocked /\ Ready(lane["settingsBootstrap"])
         booted == IF boots THEN Started(polled, "settingsBootstrap") ELSE polled
     IN /\ updateCtx' = IF Ready(lane["update"]) THEN "status" ELSE updateCtx
        /\ seen' = IF boots THEN [seen EXCEPT !["settingsBootstrap"] = NoDoc] ELSE seen
        /\ KickStatus(~blocked, booted, pending, resetQueued)
  /\ UNCHANGED <<followUp, resetVars, blocked, purgeIntent, restartPending, updateWindow,
                 updatePoll, dialogVars, settingsVars, file, written, unaccounted>>

PollTick ==
  /\ pollOn
  /\ CanKick /\ Ready(lane["status"])
  /\ KickStatus(TRUE, lane, pending, resetQueued)
  /\ UNCHANGED <<stall, pollVars, resetVars, maintVars, updateVars, dialogVars, settingsVars,
                 fileVars>>

---------------------------------------------------------------------------
(* Refreshes.                                                              *)

\* refreshAll(force), refreshProvider(id, TRUE), and the IPC refresh.
Refresh ==
  /\ "refresh" \in UserOps
  /\ ~blocked
  /\ \/ KickStatus(CanKick, lane, pending, resetQueued)
     \/ \E target \in Providers \cup {AllProviders} :
          KickStatus(CanKick, lane, UnionForced(pending, target), resetQueued)
  /\ UNCHANGED <<stall, pollVars, resetVars, maintVars, updateVars, dialogVars, settingsVars,
                 fileVars>>

\* applyStatusResult().  The refresh a settled claim fired keeps its caption.
KeepsResetCaption == resetQueued \/ resetRun

StatusSettles ==
  \E timedOut \in BOOLEAN :
    /\ Ends("status", timedOut)
    /\ MarkStall("status", timedOut)
    /\ LET L == Detached(blocked, Ended("status", timedOut))
       IN /\ FollowUpStatus(L)
          /\ followUp' = (followUp \/ Ready(L["status"]))
    /\ \/ UNCHANGED resetVars
       \/ /\ ~timedOut
          /\ \E offers \in Offers :
               LET shown == ResetUiAfterSnapshot(resetUi, offers)
               IN /\ offering' = offers /\ UNCHANGED claim
                  /\ resetUi' = IF KeepsResetCaption THEN shown ELSE ResetUiClearOutcome(shown)
    /\ UNCHANGED <<version, pollOn, maintVars, updateVars, dialogVars, settingsVars, fileVars>>

\* The callLater of statusLane.onReadyChanged.
FollowUp ==
  /\ followUp
  /\ followUp' = FALSE
  /\ FollowUpStatus(lane)
  /\ UNCHANGED <<stall, version, pollOn, resetVars, maintVars, updateVars, dialogVars,
                 settingsVars, fileVars>>

---------------------------------------------------------------------------
(* What becomes of a helper the Service has no say in.                     *)

\* statusLane.onReadyChanged
LaneReopens_Unheard(l) == UNCHANGED followUp
LaneReopens(l) == followUp' = (followUp \/ l = "status")

\* A terminated helper exits: its lane opens, and its owner is not told.
CorpseExits(l) ==
  /\ lane[l] = "dying"
  /\ lane' = [lane EXCEPT ![l] = "idle"]
  /\ stall' = [stall EXCEPT ![l] = FALSE]
  /\ LaneReopens(l)
  /\ UNCHANGED <<version, pollOn, statusVars, resetVars, maintVars, updateVars, dialogVars,
                 settingsVars, fileVars>>

HelperLost(l) ==
  /\ l \in LossyLanes
  /\ lane[l] = "running"
  /\ l \in Readers => seen[l] = NoDoc
  /\ l = "settingsWrite" => ~written
  /\ lane' = [lane EXCEPT ![l] = "lost"]
  /\ UNCHANGED <<stall, pollVars, statusVars, resetVars, maintVars, updateVars, dialogVars,
                 settingsVars, fileVars>>

\* `config show' reads the settings file at some moment of its life.
HelperReads(l) ==
  /\ lane[l] = "running"
  /\ seen[l] = NoDoc
  /\ seen' = [seen EXCEPT ![l] = file]
  /\ UNCHANGED <<laneVars, pollVars, statusVars, resetVars, maintVars, updateVars, dialogVars,
                 settingsVars, file, written, unaccounted>>

\* `config apply stdin' replaces the file, perhaps after its deadline.
HelperWrites ==
  /\ lane["settingsWrite"] \in {"running", "dying"}
  /\ ~written
  /\ written' = TRUE
  /\ file' = payload
  /\ unaccounted' = (unaccounted \/ lane["settingsWrite"] = "dying")
  /\ UNCHANGED <<laneVars, pollVars, statusVars, resetVars, maintVars, updateVars, dialogVars,
                 settingsVars, seen>>

---------------------------------------------------------------------------
(* The popup and the Settings dialog.                                      *)

ResetBusy_Never == FALSE
ResetBusy == ~Ready(lane["reset"])

\* closePopup(owner) and dismissPopup(): what happens once nobody owns it.
Popup(owner) ==
  /\ popup' = owner
  /\ IF owner = NoOwner
     THEN /\ resetUi' = ResetUiOnClose(resetUi, ResetBusy)
          /\ settings' = IF SettingsRetainOnClose(settings) THEN settings ELSE SettingsClosed
     ELSE UNCHANGED <<resetUi, settings>>

ClosePopup ==
  /\ "close" \in UserOps
  /\ \/ \E owner \in Owners : Popup(IF popup = owner THEN NoOwner ELSE popup)
     \/ Popup(NoOwner)
  /\ UNCHANGED <<laneVars, statusVars, pollVars, offering, claim, maintVars, updateVars,
                 generation, settingsVars, fileVars>>

RequestPopup ==
  /\ \E owner \in Owners : popup' = owner
  /\ UNCHANGED <<laneVars, statusVars, pollVars, resetVars, maintVars, updateVars, settings,
                 generation, settingsVars, fileVars>>

\* openSettings() -> kickSettingsRead(), which a lane not ready refuses.
OpenSettings ==
  /\ "settings" \in UserOps
  /\ ~blocked
  /\ \E owner \in Owners : popup' = owner
  /\ IF settings.phase = "closed"
     THEN /\ generation < MaxGeneration
          /\ generation' = generation + 1
          /\ settings' = SettingsBeginLoad(generation + 1)
          /\ lane' = Started(lane, "settingsRead")
          /\ IF Ready(lane["settingsRead"])
             THEN readGen' = generation + 1 /\ seen' = [seen EXCEPT !["settingsRead"] = NoDoc]
             ELSE UNCHANGED <<readGen, seen>>
     ELSE UNCHANGED <<generation, settings, lane, readGen, seen>>
  /\ UNCHANGED <<stall, statusVars, pollVars, resetVars, maintVars, updateVars, applied,
                 writeGen, payload, file, written, unaccounted>>

\* The form's controls, Restore defaults and Cancel.
EditSettings ==
  /\ "settings" \in UserOps
  /\ popup # NoOwner
  /\ settings' \in {SettingsEdit(settings, d) : d \in Docs}
                   \cup {SettingsRestoreDefaults(settings), SettingsCancel(settings)}
  /\ UNCHANGED <<laneVars, statusVars, pollVars, resetVars, maintVars, updateVars, popup,
                 generation, settingsVars, fileVars>>

\* saveSettings() -> kickSettingsWrite(), whose guards it has passed.
SaveSettings ==
  /\ "settings" \in UserOps
  /\ popup # NoOwner
  /\ ~blocked /\ SettingsCanSave(settings) /\ Ready(lane["settingsWrite"])
  /\ generation < MaxGeneration
  /\ generation' = generation + 1
  /\ settings' = SettingsBeginSave(settings, generation + 1)
  /\ payload' = settings.draft
  /\ writeGen' = generation + 1
  /\ written' = FALSE
  /\ lane' = Started(lane, "settingsWrite")
  /\ UNCHANGED <<stall, statusVars, pollVars, resetVars, maintVars, updateVars, popup, applied,
                 readGen, file, seen, unaccounted>>

\* applySettingsBootstrapResult()
BootstrapSettles ==
  \E timedOut \in BOOLEAN :
    /\ Ends("settingsBootstrap", timedOut)
    /\ MarkStall("settingsBootstrap", timedOut)
    /\ lane' = Detached(blocked, Ended("settingsBootstrap", timedOut))
    /\ \/ applied' = SettingsBootstrapResult(applied, NoDoc)
       \/ /\ ~timedOut /\ seen["settingsBootstrap"] # NoDoc
          /\ applied' = SettingsBootstrapResult(applied, seen["settingsBootstrap"])
    /\ UNCHANGED <<statusVars, pollVars, resetVars, maintVars, updateVars, dialogVars, readGen,
                   writeGen, payload, fileVars>>

\* applySettingsReadResult()
ReadSettles ==
  \E timedOut \in BOOLEAN :
    /\ Ends("settingsRead", timedOut)
    /\ MarkStall("settingsRead", timedOut)
    /\ lane' = Detached(blocked, Ended("settingsRead", timedOut))
    /\ IF settings.phase = "closed" THEN UNCHANGED <<settings, applied>>
       ELSE \/ /\ settings' = SettingsFailLoad(settings, readGen)
               /\ UNCHANGED applied
            \/ /\ ~timedOut /\ seen["settingsRead"] # NoDoc
               /\ settings' = SettingsFinishLoad(settings, readGen, seen["settingsRead"])
               /\ applied' = seen["settingsRead"]
    /\ UNCHANGED <<statusVars, pollVars, resetVars, maintVars, updateVars, popup, generation,
                   readGen, writeGen, payload, fileVars>>

\* applySettingsWriteResult().  The helper reports the document it wrote; a
\* helper that fails may have replaced the file before it failed.
WriteSettles ==
  \E timedOut \in BOOLEAN, ok \in BOOLEAN :
    /\ ok => ~timedOut /\ written
    /\ Ends("settingsWrite", timedOut)
    /\ MarkStall("settingsWrite", timedOut)
    /\ settings' = SettingsFinishSave(settings, writeGen, ok, payload)
    /\ applied' = IF ok THEN payload ELSE applied
    /\ unaccounted' = (~ok /\ (unaccounted \/ written))
    /\ lane' = Detached(blocked, Ended("settingsWrite", timedOut))
    /\ UNCHANGED <<statusVars, pollVars, resetVars, maintVars, updateVars, popup, generation,
                   readGen, writeGen, payload, file, seen, written>>

---------------------------------------------------------------------------
(* Maintenance: the update check, the update and the uninstall hand-off.   *)
(* A dialog is modal: while one is open only its own buttons can be used.  *)

AboutTab(op) == op \in UserOps /\ popup # NoOwner
NoDialog == ~ui.uninstallOpen /\ ~ui.updateOpen /\ ~resetUi.confirmOpen

\* The button of MaintenanceView.qml, then startUpdateCheck().
StartUpdateCheck ==
  /\ AboutTab("check") /\ NoDialog
  /\ ui.phase \notin {"checking", "uninstalling", "updating", "restart_required", "update_available"}
  /\ ~blocked /\ Ready(lane["maintenanceCheck"])
  /\ ui' = UiChecking(SyncVersion(ui))
  /\ lane' = Started(lane, "maintenanceCheck")
  /\ UNCHANGED <<stall, statusVars, pollVars, resetVars, blocked, purgeIntent, restartPending,
                 updateVars, dialogVars, settingsVars, fileVars>>

\* applyUpdateCheckResult(): the answer is shown whatever the tab shows now.
CheckSettles ==
  \E timedOut \in BOOLEAN :
    /\ Ends("maintenanceCheck", timedOut)
    /\ MarkStall("maintenanceCheck", timedOut)
    /\ lane' = Detached(blocked, Ended("maintenanceCheck", timedOut))
    /\ \E answer \in IF timedOut THEN {"error"} ELSE CheckReplies : ui' = UiFromCheck(ui, answer)
    /\ UNCHANGED <<statusVars, pollVars, resetVars, blocked, purgeIntent, restartPending,
                   updateVars, dialogVars, settingsVars, fileVars>>

\* openUpdateConfirm() and closeUpdateConfirm()
UpdateDialog ==
  /\ AboutTab("update")
  /\ \/ NoDialog /\ ~blocked /\ UiCanUpdate(ui) /\ ui' = UiOpenUpdateConfirm(ui)
     \/ ui.updateOpen /\ ui' = UiCloseUpdateConfirm(ui)
  /\ UNCHANGED <<laneVars, statusVars, pollVars, resetVars, blocked, purgeIntent,
                 restartPending, updateVars, dialogVars, settingsVars, fileVars>>

FinishUpdate_KeepsTheWindow(shown, result) ==
  /\ updatePoll' = FALSE
  /\ UNCHANGED updateWindow
  /\ ui' = UiFromUpdateResult(shown, result)
  /\ restartPending' = (restartPending \/ result = "updated")

FinishUpdate(shown, result) ==
  /\ updatePoll' = FALSE
  /\ updateWindow' = FALSE
  /\ ui' = UiFromUpdateResult(shown, result)
  /\ restartPending' = (restartPending \/ result = "updated")

BeginUpdatePoll == updatePoll' = TRUE /\ updateWindow' = TRUE

ConfirmUpdate ==
  /\ AboutTab("update")
  /\ ui.updateOpen /\ ~blocked
  /\ IF ui.target /\ Ready(lane["update"])
     THEN /\ ui' = UiUpdating(ui, FALSE)
          /\ updateWindow' = TRUE
          /\ lane' = Started(lane, "update")
          /\ updateCtx' = "apply"
          /\ UNCHANGED <<updatePoll, restartPending>>
     ELSE FinishUpdate(ui, "failed") /\ UNCHANGED <<lane, updateCtx>>
  /\ UNCHANGED <<stall, statusVars, pollVars, resetVars, blocked, purgeIntent, dialogVars,
                 settingsVars, fileVars>>

UpdatePollTick ==
  /\ updatePoll
  /\ Ready(lane["update"])
  /\ lane' = Started(lane, "update")
  /\ updateCtx' = "status"
  /\ UNCHANGED <<stall, statusVars, pollVars, resetVars, maintVars, updateWindow, updatePoll,
                 dialogVars, settingsVars, fileVars>>

UpdateWindowEnds ==
  /\ updateWindow
  /\ FinishUpdate(ui, "failed")
  /\ UNCHANGED <<laneVars, statusVars, pollVars, resetVars, blocked, purgeIntent, updateCtx,
                 dialogVars, settingsVars, fileVars>>

\* applyUpdateLaneResult()
UpdateAnswered(answer) ==
  CASE updateCtx = "apply" /\ answer \in ApplyAnswers ->
         BeginUpdatePoll /\ UNCHANGED <<ui, restartPending>>
    [] updateCtx = "status" /\ answer \in UpdateResults ->
         FinishUpdate(ui, answer)
    [] updateCtx = "status" /\ answer = "running" /\ ~updateWindow ->
         ui' = UiUpdating(ui, TRUE) /\ BeginUpdatePoll /\ UNCHANGED restartPending
    [] updateCtx = "apply" \/ (answer # "running" /\ updateWindow) ->
         FinishUpdate(ui, "failed")
    [] OTHER -> UNCHANGED <<ui, restartPending, updatePoll, updateWindow>>

UpdateSettles ==
  \E timedOut \in BOOLEAN :
    /\ Ends("update", timedOut)
    /\ MarkStall("update", timedOut)
    /\ lane' = Ended("update", timedOut)
    /\ \E answer \in IF timedOut THEN {"unreadable"}
                     ELSE UpdateReplies \cap (IF updateCtx = "apply"
                                              THEN ApplyAnswers \cup {"unreadable"}
                                              ELSE StatusAnswers) :
         UpdateAnswered(answer)
    /\ UNCHANGED <<statusVars, pollVars, resetVars, blocked, purgeIntent, updateCtx, dialogVars,
                   settingsVars, fileVars>>

\* restartShell(); the shell's own restart is not modelled.
RestartShell ==
  /\ restartPending
  /\ popup # NoOwner
  /\ restartPending' = FALSE
  /\ ui' = IF ui.phase = "restart_required" THEN UiIdle ELSE ui
  /\ UNCHANGED <<laneVars, statusVars, pollVars, resetVars, blocked, purgeIntent, updateVars,
                 dialogVars, settingsVars, fileVars>>

\* openUninstallConfirm(), closeUninstallConfirm() and setUninstallPurge()
UninstallDialog ==
  /\ AboutTab("uninstall")
  /\ \/ /\ NoDialog /\ ~blocked /\ ~UiBusy(ui) /\ ~updateWindow
        /\ ui' = UiOpenUninstallConfirm(ui)
     \/ /\ ui.uninstallOpen
        /\ ui' \in {UiCloseUninstallConfirm(ui), UiSetPurge(ui, ~ui.purge)}
  /\ UNCHANGED <<laneVars, statusVars, pollVars, resetVars, blocked, purgeIntent,
                 restartPending, updateVars, dialogVars, settingsVars, fileVars>>

\* armOrConfirmUninstall() -> beginMaintenanceHandoff() -> tryMaintenanceDetach()
ArmOrConfirmUninstall ==
  /\ AboutTab("uninstall")
  /\ ui.uninstallOpen /\ ~blocked /\ ~updateWindow
  /\ IF UiConfirmed(ui)
     THEN /\ purgeIntent' = ui.purge
          /\ ui' = UiUninstalling(ui)
          /\ blocked' = TRUE
          /\ pollOn' = FALSE
          /\ lane' = Detached(TRUE, lane)
     ELSE /\ ui' = UiArm(ui)
          /\ UNCHANGED <<purgeIntent, blocked, pollOn, lane>>
  /\ UNCHANGED <<stall, statusVars, version, followUp, resetVars, restartPending, updateVars,
                 dialogVars, settingsVars, fileVars>>

ResumePolling == pollOn' = (pollOn \/ version = "ready")

\* applyMaintenanceHandoffDone()
HandoffSettles ==
  \E timedOut \in BOOLEAN :
    /\ Ends("maintenanceHandoff", timedOut)
    /\ MarkStall("maintenanceHandoff", timedOut)
    /\ lane' = Ended("maintenanceHandoff", timedOut)
    /\ blocked' = FALSE
    /\ ResumePolling
    /\ purgeIntent' = FALSE
    /\ \/ ~timedOut /\ ui' = UiIdle
       \/ ui' = [ui EXCEPT !.phase = "error"]
    /\ UNCHANGED <<statusVars, version, followUp, resetVars, restartPending, updateVars,
                   dialogVars, settingsVars, fileVars>>

---------------------------------------------------------------------------
(* Resets.                                                                 *)

\* requestReset(), which the popup offers for a claimable reset, and
\* closeResetConfirm()
ResetDialog ==
  /\ "reset" \in UserOps
  /\ popup # NoOwner
  /\ \/ /\ NoDialog /\ ~blocked /\ ~ResetBusy
        /\ \E p \in offering : resetUi' = ResetUiOpenConfirm(p)
     \/ /\ resetUi.confirmOpen
        /\ resetUi' = ResetUiOnClose(resetUi, ResetBusy)
  /\ UNCHANGED <<laneVars, statusVars, pollVars, offering, claim, maintVars, updateVars,
                 dialogVars, settingsVars, fileVars>>

ConfirmReset ==
  /\ "reset" \in UserOps
  /\ popup # NoOwner
  /\ resetUi.confirmOpen
  /\ IF blocked
     THEN resetUi' = ResetUiIdle /\ UNCHANGED <<lane, claim>>
     ELSE /\ resetUi' = ResetUiAwaiting(resetUi)
          /\ lane' = Started(lane, "reset")
          /\ claim' = IF Ready(lane["reset"]) THEN resetUi.provider ELSE claim
  /\ UNCHANGED <<stall, statusVars, pollVars, offering, maintVars, updateVars, dialogVars,
                 settingsVars, fileVars>>

\* applyResetResult()
ResetSettles ==
  \E timedOut \in BOOLEAN :
    /\ Ends("reset", timedOut)
    /\ MarkStall("reset", timedOut)
    /\ \E answer \in IF timedOut THEN {"silent"} ELSE ResetReplies :
         resetUi' = ResetUiSettled(claim, ResetOutcomeFromLane(answer))
    /\ LET L == Detached(blocked, Ended("reset", timedOut))
       IN IF blocked
          THEN lane' = L /\ UNCHANGED statusVars
          ELSE KickStatus(CanKick, L, UnionForced(pending, claim), TRUE)
    /\ UNCHANGED <<pollVars, offering, claim, maintVars, updateVars, dialogVars,
                   settingsVars, fileVars>>

---------------------------------------------------------------------------
Next ==
  \/ TryStartProduction
  \/ ManifestChanged
  \/ VersionProbeFails
  \/ VersionProbeSucceeds
  \/ PollTick
  \/ Refresh
  \/ StatusSettles
  \/ FollowUp
  \/ \E l \in Lanes : CorpseExits(l)
  \/ \E l \in Lanes : HelperLost(l)
  \/ \E l \in Readers : HelperReads(l)
  \/ HelperWrites
  \/ ClosePopup
  \/ RequestPopup
  \/ OpenSettings
  \/ EditSettings
  \/ SaveSettings
  \/ BootstrapSettles
  \/ ReadSettles
  \/ WriteSettles
  \/ StartUpdateCheck
  \/ CheckSettles
  \/ UpdateDialog
  \/ ConfirmUpdate
  \/ UpdatePollTick
  \/ UpdateWindowEnds
  \/ UpdateSettles
  \/ RestartShell
  \/ UninstallDialog
  \/ ArmOrConfirmUninstall
  \/ HandoffSettles
  \/ ResetDialog
  \/ ConfirmReset
  \/ ResetSettles

Spec == Init /\ [][Next]_vars

\* Helpers end or meet their deadline, terminated helpers exit (no others than
\* those of SlowLanes are ever terminated), the update's window closes, queued
\* callbacks run.  Each subscript is what the step always changes.  Nothing is
\* assumed of the user, nor of the timers that poll, whose next tick may be an
\* hour away.
FairSpec ==
  /\ Spec
  /\ WF_vars(StatusSettles)
  /\ WF_lane(BootstrapSettles)
  /\ WF_lane(ReadSettles)
  /\ WF_lane(WriteSettles)
  /\ WF_lane(CheckSettles)
  /\ WF_lane(UpdateSettles)
  /\ WF_lane(HandoffSettles)
  /\ WF_lane(ResetSettles)
  /\ \A l \in SlowLanes : WF_lane(CorpseExits(l))
  /\ WF_followUp(FollowUp)
  /\ WF_updateWindow(UpdateWindowEnds)

---------------------------------------------------------------------------
TypeOK ==
  /\ lane \in [Lanes -> LanePhases]
  /\ stall \in [Lanes -> BOOLEAN]
  /\ version \in {"unknown", "ready", "failed"}
  /\ pollOn \in BOOLEAN
  /\ followUp \in BOOLEAN
  /\ pending \in Pendings
  /\ captured \in Pendings
  /\ resetQueued \in BOOLEAN
  /\ resetRun \in BOOLEAN
  /\ offering \in SUBSET Providers
  /\ resetUi \in ResetUis
  /\ claim \in Providers \cup {NoProvider}
  /\ blocked \in BOOLEAN
  /\ purgeIntent \in BOOLEAN
  /\ ui \in Uis
  /\ restartPending \in BOOLEAN
  /\ updateWindow \in BOOLEAN
  /\ updatePoll \in BOOLEAN
  /\ updateCtx \in {"apply", "status"}
  /\ popup \in Owners \cup {NoOwner}
  /\ settings \in SettingsStates
  /\ generation \in Nat
  /\ applied \in Docs \cup {NoDoc}
  /\ readGen \in Nat
  /\ writeGen \in Nat
  /\ payload \in Docs \cup {NoDoc}
  /\ file \in Docs
  /\ seen \in [Readers -> Docs \cup {NoDoc}]
  /\ written \in BOOLEAN
  /\ unaccounted \in BOOLEAN

\* The one state from which a hand-off never starts (see HandoffEnds).
HandoffStranded ==
  blocked /\ lane["maintenanceHandoff"] = "dying" /\ \A l \in DrainedLanes : ~Busy(lane[l])

Targets(p) == IF p.all THEN Providers ELSE p.ids

StatusStarts == Ready(lane["status"]) /\ ~Ready(lane'["status"])

---------------------------------------------------------------------------
(* Lanes.                                                                  *)

\* Whatever chain of calls a handler makes, it does nothing to a lane that the
\* lane's contract does not allow: no lane is started that is not ready, none
\* twice, none settled that has no run (kickStatus(), tryMaintenanceDetach(),
\* noteLaneSettled() and the callers of start()).
LanesKeepTheirContract ==
  [][\A l \in Lanes : LaneStep(lane[l], stall[l], lane'[l], stall'[l])]_vars

---------------------------------------------------------------------------
(* Refreshes.                                                              *)

\* A target queued behind a running status helper leaves the queue only with
\* a run that asks for it, whatever else is queued, settled or timed out
\* meanwhile (pendingForcedTargets, unionForced, takePending).
QueuedTargetsAreNotDropped ==
  [][Targets(pending) \subseteq Targets(pending') \cup Targets(captured')]_vars

\* Queued targets do not wait for the next poll, which may be an hour away:
\* whenever the lane could take them, the follow-up that will is queued.  The
\* case a test hardly reaches is a target queued while a helper the deadline
\* terminated is still dying (statusLane.onReadyChanged).  (After an uninstall
\* that failed they do wait; see the README.)
QueuedTargetsNeedNoPoll ==
  CanKick /\ Ready(lane["status"]) /\ ~PendingIsEmpty(pending) => followUp

\* Every queued target is handed to a run in the end, without any help of the
\* poll timer, also one queued while a helper that the deadline terminated is
\* still dying (statusLane.onReadyChanged) - as long as no uninstall is
\* confirmed: after one that failed the queue waits for the poll, for nothing
\* in applyMaintenanceHandoffDone() kicks it.
QueuedTargetsGetARun ==
  []~blocked => \A t \in Providers :
    version = "ready" /\ t \in Targets(pending) ~> t \in Targets(captured) \ Targets(pending)

\* Refreshing providers by name asks upstream for those providers only.
ProviderRefreshStaysScoped ==
  [][~captured'.all =>
       LET request == StatusArgv(captured')
       IN  request.bypass => request.only \in captured'.ids]_captured

---------------------------------------------------------------------------
(* Resets.                                                                 *)

\* The dialog never confirms a reset the latest snapshot does not offer.
DialogOffersACurrentReset == resetUi.confirmOpen => resetUi.provider \in offering

\* While the reset lane is occupied, by a claim or by a terminated helper that
\* is still dying, the popup shows the claim it was occupied with and no other
\* as under way (resetBusy, confirmReset()); and once that is settled, the
\* refresh it fires carries its provider, wherever that waits, queued behind
\* another run or running (applyResetResult()).
ClaimShownIsTheOneRunning ==
  /\ ~Ready(lane["reset"]) /\ resetUi.provider # NoProvider => resetUi.provider = claim
  /\ resetUi.outcome # "none" /\ (resetQueued \/ resetRun) =>
       resetUi.provider \in Targets(pending) \cup Targets(captured)

---------------------------------------------------------------------------
(* Settings.                                                               *)

\* The bar applies the settings file as it is, once no writer is left and
\* every write was reported: a slow bootstrap read does not undo a save.
AppliedSettingsAreTheFile ==
  ~unaccounted /\ Ready(lane["settingsWrite"]) /\ ~Busy(lane["settingsRead"])
    => applied \in {NoDoc, file}

\* So does a dialog without unsaved changes.
CleanDialogShowsTheFile ==
  settings.phase = "clean" /\ ~unaccounted => settings.snapshot = file

\* A save that fails or times out leaves the user's edits in the form, even
\* when the popup was closed and reopened meanwhile.
SaveKeepsTheEdits ==
  [][settings.phase = "saving" =>
       settings'.phase \in {"saving", "clean", "dirty"} /\ settings'.draft = settings.draft]_vars

\* The dialog is never left loading or saving, whatever the order in which the
\* popup is closed and reopened, and also when a read or a save times out - as
\* long as it never reopens before a terminated read helper has exited: then
\* kickSettingsRead() finds the lane busy and nothing reads again
\* (Service.qml:674), and only closing the popup ends the loading.
LoadingAndSavingEnd ==
  []~(settings.phase = "loading" /\ lane["settingsRead"] = "dying") =>
    \A phase \in {"loading", "saving"} : settings.phase = phase ~> settings.phase # phase

---------------------------------------------------------------------------
(* Maintenance.                                                            *)

\* The uninstall helper is started alone: while its run is outstanding no
\* lane that reads or writes Agent Bar's state has one.
HandoffRunsAlone ==
  Busy(lane["maintenanceHandoff"]) => \A l \in DrainedLanes : ~Busy(lane[l])

\* Between the confirmation and the answer no such lane starts a run.
NothingStartsDuringHandoff ==
  [][blocked => \A l \in DrainedLanes : Ready(lane[l]) => Ready(lane'[l])]_vars

\* The hand-off ends and the Service is not left blocked, also when the helper
\* times out - as long as no hand-off is ready to start before the
\* terminated helper of the one before has exited: then tryMaintenanceDetach()
\* finds the lane busy (Service.qml:759), nothing calls it again, and the
\* Service stays blocked (against docs/dev/architecture.md:119).
HandoffEnds == []~HandoffStranded => (blocked ~> ~blocked)

\* What the armed dialog says it deletes is what the helper is told to delete.
ArmedDialogKeepsItsWord ==
  [][/\ ui.armed /\ ui'.armed => ui'.purge = ui.purge
     /\ ~blocked /\ blocked' => ui.armed /\ purgeIntent' = ui.purge]_vars

\* An About tab that shows an update running, and the watch over it, both come
\* to an end, with the update's result or without, whatever the helper answers.
UpdateWatchEnds ==
  ui.phase = "updating" \/ updateWindow ~> ui.phase # "updating" /\ ~updateWindow

\* An update and an uninstall are never under way together (ARCH-024).
UpdateAndUninstallExclude == ~(blocked /\ updateWindow)
==========================================================================
