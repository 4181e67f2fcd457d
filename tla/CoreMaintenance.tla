-------------------------- MODULE CoreMaintenance --------------------------
(***************************************************************************)
(* CoreMaintenance.js: the About tab's state (maintenanceUi) and the       *)
(* readings of the update and uninstall helpers' answers.  Version strings *)
(* are reduced to whether a target is known; wording is left out.          *)
(***************************************************************************)

UiPhases == {"idle", "checking", "reinstall_required", "update_available", "up_to_date",
             "error", "updating", "update_failed", "restart_required", "uninstalling"}

\* What a run of the update unit ends with: "failed" stands for every result
\* the UI offers to retry, "rejected" for those it does not.
UpdateResults == {"none", "updated", "up_to_date", "failed", "rejected"}

Uis == [phase: UiPhases, target: BOOLEAN, updateResult: UpdateResults, purge: BOOLEAN,
        uninstallOpen: BOOLEAN, armed: BOOLEAN, updateOpen: BOOLEAN]

UiIdle == [phase |-> "idle", target |-> FALSE, updateResult |-> "none", purge |-> FALSE,
           uninstallOpen |-> FALSE, armed |-> FALSE, updateOpen |-> FALSE]

UiChecking(ui) == [ui EXCEPT !.phase = "checking"]

CheckAnswers == {"reinstall_required", "update_available", "up_to_date", "error"}

UiFromCheck(ui, answer) ==
  [ui EXCEPT !.phase = answer, !.updateResult = "none",
             !.target = IF answer = "error" THEN @ ELSE answer = "update_available"]

UiCanUpdate(ui) ==
  /\ ui.target
  /\ \/ ui.phase = "update_available"
     \/ ui.phase = "update_failed" /\ ui.updateResult = "failed"

UiOpenUpdateConfirm(ui) == [ui EXCEPT !.updateOpen = UiCanUpdate(ui)]

UiCloseUpdateConfirm(ui) == [ui EXCEPT !.updateOpen = FALSE]

UiUpdating(ui, target) ==
  [ui EXCEPT !.phase = "updating", !.updateOpen = FALSE, !.target = @ \/ target]

UiFromUpdateResult(ui, result) ==
  [ui EXCEPT
     !.updateOpen = FALSE, !.updateResult = result,
     !.phase  = CASE result = "updated"    -> "restart_required"
                  [] result = "up_to_date" -> "up_to_date"
                  [] OTHER                 -> "update_failed",
     !.target = CASE result = "updated" -> TRUE [] result = "up_to_date" -> FALSE [] OTHER -> @]

UiOpenUninstallConfirm(ui) ==
  [ui EXCEPT !.uninstallOpen = TRUE, !.armed = FALSE, !.purge = FALSE]

UiCloseUninstallConfirm(ui) == [ui EXCEPT !.uninstallOpen = FALSE, !.armed = FALSE]

UiSetPurge_KeepsArmed(ui, purge) == [ui EXCEPT !.purge = purge]
UiSetPurge(ui, purge) == [ui EXCEPT !.purge = purge, !.armed = FALSE]

\* The first confirmation arms, the second confirms.
UiArm(ui) == IF ui.uninstallOpen THEN [ui EXCEPT !.armed = TRUE] ELSE ui
UiConfirmed(ui) == ui.uninstallOpen /\ ui.armed

UiUninstalling(ui) == [ui EXCEPT !.phase = "uninstalling", !.uninstallOpen = FALSE]

\* Phases in which the About tab disables its buttons (MaintenanceView.qml).
UiBusy(ui) == ui.phase \in {"uninstalling", "updating"}

\* The readings of an answer to `update apply' and `update status'; a timeout
\* or an unreadable document is neither.
ApplyAnswers == {"started", "already_running"}
StatusAnswers == {"none", "running", "unreadable"} \cup (UpdateResults \ {"none"})
==========================================================================
