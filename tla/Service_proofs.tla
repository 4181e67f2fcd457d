--------------------------- MODULE Service_proofs ---------------------------
(***************************************************************************)
(* Proofs about Service, for any providers, documents and bar widgets, any *)
(* group of user operations, and any lanes that are slow or lossy.         *)
(***************************************************************************)
EXTENDS Service, TLAPS

---------------------------------------------------------------------------
(* Lanes, and what the calls of a handler make of them.                    *)

LaneMaps == [Lanes -> LanePhases]

LEMMA StartedLanes ==
  ASSUME NEW L \in LaneMaps, NEW l \in Lanes, NEW M, M = Started(L, l)
  PROVE  /\ M \in LaneMaps
         /\ \A k \in Lanes \ {l} : M[k] = L[k]
         /\ Ready(L[l]) => M[l] = "running"
         /\ ~Ready(L[l]) => M[l] = L[l]
BY DEF Started, LaneMaps, LanePhases, Ready

\* The hand-off starts only where every lane it waits for has been drained.
LEMMA DetachedLanes ==
  ASSUME NEW L \in LaneMaps, NEW handoff \in BOOLEAN, NEW M, M = Detached(handoff, L)
  PROVE  /\ M \in LaneMaps
         /\ \A k \in Lanes \ {"maintenanceHandoff"} : M[k] = L[k]
         /\ \/ M["maintenanceHandoff"] = L["maintenanceHandoff"]
            \/ handoff /\ \A k \in DrainedLanes : ~Busy(M[k])
<1>1. "maintenanceHandoff" \in Lanes /\ DrainedLanes \subseteq Lanes \ {"maintenanceHandoff"}
  BY DEF Lanes, DrainedLanes
<1>2. CASE M = L
  BY <1>1, <1>2
<1>3. CASE handoff /\ (\A k \in DrainedLanes : ~Busy(L[k])) /\ M = Started(L, "maintenanceHandoff")
  <2>1. PICK N : N = Started(L, "maintenanceHandoff")
    OBVIOUS
  <2>2. N \in LaneMaps /\ \A k \in Lanes \ {"maintenanceHandoff"} : N[k] = L[k]
    BY <1>1, <2>1, StartedLanes
  <2> QED
    BY <1>1, <1>3, <2>1, <2>2
<1> QED
  BY <1>2, <1>3 DEF Detached

LEMMA EndedLanes ==
  ASSUME lane \in LaneMaps, NEW l \in Lanes, NEW timedOut \in BOOLEAN, Ends(l, timedOut),
         NEW M, M = Ended(l, timedOut)
  PROVE  /\ M \in LaneMaps
         /\ \A k \in Lanes \ {l} : M[k] = lane[k]
         /\ Busy(lane[l]) /\ ~Busy(M[l])
BY DEF Ends, Ended, Expired, Busy, LaneMaps, LanePhases

LEMMA KickLanes ==
  ASSUME NEW able, NEW L \in LaneMaps, NEW targets, NEW queued, KickStatus(able, L, targets, queued)
  PROVE  /\ lane' \in LaneMaps
         /\ \A k \in Lanes \ {"status"} : lane'[k] = L[k]
         /\ \/ lane'["status"] = L["status"]
            \/ able /\ Ready(L["status"]) /\ lane'["status"] = "running"
<1>1. "status" \in Lanes
  BY DEF Lanes
<1>2. CASE lane' = L
  BY <1>2
<1>3. CASE able /\ Ready(L["status"]) /\ lane' = Started(L, "status")
  BY <1>1, <1>3, StartedLanes
<1> QED
  BY <1>2, <1>3 DEF KickStatus

\* A lane that only ends, if anything.
Winds(u, w) == (Ready(u) => Ready(w)) /\ (Busy(w) => Busy(u))

\* What a step may do to the lanes of the hand-off.
Quiet ==
  /\ \A l \in DrainedLanes \cup {"maintenanceHandoff"} : Winds(lane[l], lane'[l])
  /\ UNCHANGED blocked

Starts ==
  /\ ~blocked /\ UNCHANGED blocked
  /\ Winds(lane["maintenanceHandoff"], lane'["maintenanceHandoff"])

Hands ==
  /\ blocked' = TRUE
  /\ \A l \in DrainedLanes : Winds(lane[l], lane'[l])
  /\ \/ Winds(lane["maintenanceHandoff"], lane'["maintenanceHandoff"])
     \/ \A l \in DrainedLanes : ~Busy(lane'[l])

Answered ==
  /\ ~Busy(lane'["maintenanceHandoff"])
  /\ \A l \in DrainedLanes : lane'[l] = lane[l]

LanesOK == lane \in LaneMaps /\ blocked \in BOOLEAN

LEMMA InitLanes == Init => LanesOK
BY DEF Init, LanesOK, LaneMaps, LanePhases

\* A lane's settlement and the call of tryMaintenanceDetach() after it.
LEMMA SettledLanes ==
  ASSUME LanesOK, NEW l \in DrainedLanes, NEW timedOut \in BOOLEAN, Ends(l, timedOut),
         NEW M, M = Detached(blocked, Ended(l, timedOut))
  PROVE  /\ M \in LaneMaps
         /\ Busy(lane[l]) /\ ~Busy(M[l])
         /\ \A k \in Lanes \ {l, "maintenanceHandoff"} : M[k] = lane[k]
         /\ \/ M["maintenanceHandoff"] = lane["maintenanceHandoff"]
            \/ blocked /\ \A k \in DrainedLanes : ~Busy(M[k])
<1>1. l \in Lanes /\ l # "maintenanceHandoff" /\ "maintenanceHandoff" \in Lanes
  BY DEF Lanes, DrainedLanes
<1>2. PICK E : E = Ended(l, timedOut)
  OBVIOUS
<1>3. /\ E \in LaneMaps /\ \A k \in Lanes \ {l} : E[k] = lane[k]
      /\ Busy(lane[l]) /\ ~Busy(E[l])
  BY <1>1, <1>2, EndedLanes DEF LanesOK
<1>4. /\ M \in LaneMaps
      /\ \A k \in Lanes \ {"maintenanceHandoff"} : M[k] = E[k]
      /\ \/ M["maintenanceHandoff"] = E["maintenanceHandoff"]
         \/ blocked /\ \A k \in DrainedLanes : ~Busy(M[k])
  BY <1>2, <1>3, DetachedLanes DEF LanesOK
<1> QED
  BY <1>1, <1>3, <1>4

LEMMA LaneNames ==
  /\ "versionProbe" \in Lanes /\ "maintenanceHandoff" \in Lanes /\ "update" \in Lanes
  /\ "status" \in Lanes /\ "settingsRead" \in Lanes /\ "settingsBootstrap" \in Lanes
  /\ "settingsWrite" \in Lanes /\ "maintenanceCheck" \in Lanes /\ "reset" \in Lanes
BY DEF Lanes

LEMMA DrainedNames ==
  /\ \A l \in DrainedLanes : l \in Lanes /\ l # "versionProbe" /\ l # "maintenanceHandoff" /\ l # "update"
  /\ "status" \in DrainedLanes /\ "settingsRead" \in DrainedLanes /\ "settingsBootstrap" \in DrainedLanes
  /\ "settingsWrite" \in DrainedLanes /\ "maintenanceCheck" \in DrainedLanes /\ "reset" \in DrainedLanes
BY DEF DrainedLanes, Lanes

\* Whatever a step does to the lanes the hand-off waits for, it starts none of
\* them while the Service is blocked, and the hand-off only once they are drained.
LEMMA StepLanes ==
  ASSUME LanesOK, [Next]_vars
  PROVE  LanesOK' /\ (Quiet \/ Starts \/ Hands \/ Answered)
<1> DEFINE Goal == LanesOK' /\ (Quiet \/ Starts \/ Hands \/ Answered)
<1> SUFFICES Goal
  OBVIOUS
<1>0. lane \in LaneMaps /\ blocked \in BOOLEAN
  BY DEF LanesOK
<1>probe. "versionProbe" \in Lanes
  BY LaneNames
<1>update. "update" \in Lanes
  BY LaneNames
<1>handoff. "maintenanceHandoff" \in Lanes
  BY LaneNames
<1>boot. "settingsBootstrap" \in Lanes
  BY LaneNames
<1>1. CASE TryStartProduction \/ ManifestChanged
  <2>1. (lane' = Started(lane, "versionProbe") \/ UNCHANGED lane) /\ UNCHANGED blocked
    BY <1>1 DEF TryStartProduction, ManifestChanged, maintVars
  <2>2. lane' \in LaneMaps /\ \A k \in Lanes \ {"versionProbe"} : lane'[k] = lane[k]
    BY <1>0, <1>probe, <2>1, StartedLanes
  <2> QED
    BY <1>0, <2>1, <2>2, LaneNames, DrainedNames DEF LanesOK, Quiet, Winds
<1>2. CASE VersionProbeFails
  <2>1. PICK timedOut \in BOOLEAN :
          Ends("versionProbe", timedOut) /\ lane' = Ended("versionProbe", timedOut) /\ UNCHANGED blocked
    BY <1>2 DEF VersionProbeFails, maintVars
  <2>2. lane' \in LaneMaps /\ \A k \in Lanes \ {"versionProbe"} : lane'[k] = lane[k]
    BY <1>0, <1>probe, <2>1, EndedLanes
  <2> QED
    BY <1>0, <2>1, <2>2, LaneNames, DrainedNames DEF LanesOK, Quiet, Winds
<1>3. CASE VersionProbeSucceeds
  <2>0. PICK early \in BOOLEAN : early = FALSE
    OBVIOUS
  <2>1. PICK E, polled, booted :
          /\ Ends("versionProbe", FALSE) /\ E = Ended("versionProbe", FALSE)
          /\ polled = Started(E, "update")
          /\ booted = polled \/ (~blocked /\ booted = Started(polled, "settingsBootstrap"))
          /\ KickStatus(~blocked, booted, pending, resetQueued)
          /\ UNCHANGED blocked
    <3>1. UNCHANGED blocked /\ Ends("versionProbe", FALSE)
      BY <1>3 DEF VersionProbeSucceeds, maintVars
    <3>2. PICK E : E = Ended("versionProbe", FALSE)
      OBVIOUS
    <3>3. PICK polled : polled = Started(E, "update")
      OBVIOUS
    <3>4. PICK booted : booted = IF applied = NoDoc /\ ~blocked /\ Ready(lane["settingsBootstrap"])
                                 THEN Started(polled, "settingsBootstrap") ELSE polled
      OBVIOUS
    <3>5. KickStatus(~blocked, booted, pending, resetQueued)
      BY <1>3, <3>2, <3>3, <3>4 DEF VersionProbeSucceeds
    <3>6. booted = polled \/ (~blocked /\ booted = Started(polled, "settingsBootstrap"))
      BY <3>4
    <3> QED
      BY <3>1, <3>2, <3>3, <3>5, <3>6
  <2>2. E \in LaneMaps /\ \A k \in Lanes \ {"versionProbe"} : E[k] = lane[k]
    <3>1. Ends("versionProbe", early) /\ E = Ended("versionProbe", early)
      BY <2>0, <2>1
    <3> QED
      BY <1>0, <1>probe, <2>0, <3>1, EndedLanes
  <2>3. polled \in LaneMaps /\ \A k \in Lanes \ {"update"} : polled[k] = E[k]
    <3>1. polled = Started(E, "update")
      BY <2>1
    <3> QED
      BY <1>update, <2>2, <3>1, StartedLanes
  <2>4. PICK full : full = Started(polled, "settingsBootstrap")
    OBVIOUS
  <2>5. full \in LaneMaps /\ \A k \in Lanes \ {"settingsBootstrap"} : full[k] = polled[k]
    BY <1>boot, <2>3, <2>4, StartedLanes
  <2>6. /\ booted \in LaneMaps
        /\ \A k \in Lanes \ {"settingsBootstrap"} : booted[k] = polled[k]
        /\ blocked => booted = polled
    BY <2>1, <2>3, <2>4, <2>5
  <2>7. /\ lane' \in LaneMaps
        /\ \A k \in Lanes \ {"status"} : lane'[k] = booted[k]
        /\ blocked => lane'["status"] = booted["status"]
    BY <2>1, <2>6, KickLanes
  <2>8. \A k \in Lanes \ {"versionProbe", "update", "settingsBootstrap", "status"} : lane'[k] = lane[k]
    BY <2>2, <2>3, <2>6, <2>7
  <2>9. UNCHANGED blocked
    BY <2>1
  <2>10. CASE ~blocked
    BY <1>0, <2>7, <2>8, <2>9, <2>10, LaneNames DEF LanesOK, Starts, Winds
  <2>11. CASE blocked
    <3>1. \A k \in Lanes \ {"versionProbe", "update"} : lane'[k] = lane[k]
      BY <2>2, <2>3, <2>6, <2>7, <2>11, LaneNames
    <3> QED
      BY <1>0, <2>7, <2>9, <3>1, LaneNames, DrainedNames DEF LanesOK, Quiet, Winds
  <2> QED
    BY <2>10, <2>11
<1>4. ASSUME NEW able, NEW targets, NEW queued, able => ~blocked,
             KickStatus(able, lane, targets, queued), UNCHANGED blocked
      PROVE  Goal
  <2>1. /\ lane' \in LaneMaps
        /\ \A k \in Lanes \ {"status"} : lane'[k] = lane[k]
        /\ blocked => lane'["status"] = lane["status"]
    BY <1>0, <1>4, KickLanes
  <2> QED
    BY <1>0, <1>4, <2>1, LaneNames, DrainedNames DEF LanesOK, Quiet, Starts, Winds
<1>5. CASE PollTick \/ Refresh \/ FollowUp
  <2>1. CanKick => ~blocked
    BY DEF CanKick
  <2>2. \E able, targets, queued :
          (able => ~blocked) /\ KickStatus(able, lane, targets, queued) /\ UNCHANGED blocked
    BY <1>5, <2>1 DEF PollTick, Refresh, FollowUp, FollowUpStatus, maintVars
  <2> QED
    BY <1>4, <2>2
<1>6. ASSUME NEW L \in LaneMaps,
             \/ L["maintenanceHandoff"] = lane["maintenanceHandoff"]
             \/ blocked /\ \A k \in DrainedLanes : ~Busy(L[k]),
             \A k \in DrainedLanes : Winds(lane[k], L[k]),
             UNCHANGED blocked,
             \/ lane' = L
             \/ ~blocked /\ \E able, targets, queued : KickStatus(able, L, targets, queued)
             \/ \E able, targets, queued : ~able /\ KickStatus(able, L, targets, queued)
      PROVE  Goal
  <2>1. CASE lane' = L
    BY <1>0, <1>6, <2>1, LaneNames, DrainedNames DEF LanesOK, Quiet, Hands, Winds
  <2>2. ASSUME NEW able, NEW targets, NEW queued, ~blocked \/ ~able, KickStatus(able, L, targets, queued)
        PROVE  Goal
    <3>1. /\ lane' \in LaneMaps
          /\ \A k \in Lanes \ {"status"} : lane'[k] = L[k]
          /\ blocked => lane'["status"] = L["status"]
      BY <1>6, <2>2, KickLanes
    <3> QED
      BY <1>0, <1>6, <3>1, LaneNames, DrainedNames DEF LanesOK, Quiet, Starts, Hands, Winds
  <2> QED
    BY <1>6, <2>1, <2>2
<1>7. ASSUME NEW l \in DrainedLanes, NEW timedOut \in BOOLEAN, Ends(l, timedOut), UNCHANGED blocked,
             NEW L, L = Detached(blocked, Ended(l, timedOut)),
             \/ lane' = L
             \/ ~blocked /\ \E able, targets, queued : KickStatus(able, L, targets, queued)
             \/ \E able, targets, queued : ~able /\ KickStatus(able, L, targets, queued)
      PROVE  Goal
  <2>1. /\ L \in LaneMaps
        /\ Busy(lane[l]) /\ ~Busy(L[l])
        /\ \A k \in Lanes \ {l, "maintenanceHandoff"} : L[k] = lane[k]
        /\ \/ L["maintenanceHandoff"] = lane["maintenanceHandoff"]
           \/ blocked /\ \A k \in DrainedLanes : ~Busy(L[k])
    BY <1>7, SettledLanes
  <2>2. \A k \in DrainedLanes : Winds(lane[k], L[k])
    BY <2>1, DrainedNames DEF Winds, Busy, Ready
  <2> QED
    BY <1>6, <1>7, <2>1, <2>2, DrainedNames
<1>8. CASE StatusSettles
  <2>1. PICK timedOut, L :
          /\ timedOut \in BOOLEAN
          /\ Ends("status", timedOut) /\ UNCHANGED blocked
          /\ L = Detached(blocked, Ended("status", timedOut))
          /\ FollowUpStatus(L)
    BY <1>8 DEF StatusSettles, maintVars
  <2>2. \E able, targets, queued : (able => ~blocked) /\ KickStatus(able, L, targets, queued)
    BY <2>1 DEF FollowUpStatus, CanKick
  <2> QED
    BY <1>7, <2>1, <2>2, DrainedNames
<1>9. CASE ResetSettles
  <2>1. UNCHANGED blocked
    BY <1>9 DEF ResetSettles, maintVars
  <2>2. PICK timedOut \in BOOLEAN :
          /\ Ends("reset", timedOut)
          /\ blocked => lane' = Detached(blocked, Ended("reset", timedOut))
          /\ ~blocked => KickStatus(CanKick, Detached(blocked, Ended("reset", timedOut)),
                                    UnionForced(pending, claim), TRUE)
    BY <1>9 DEF ResetSettles
  <2>3. PICK L : L = Detached(blocked, Ended("reset", timedOut))
    OBVIOUS
  <2>4. lane' = L \/ (~blocked /\ KickStatus(CanKick, L, UnionForced(pending, claim), TRUE))
    BY <2>2, <2>3
  <2> QED
    BY <1>7, <2>1, <2>2, <2>3, <2>4, DrainedNames
<1>10. CASE BootstrapSettles \/ ReadSettles \/ WriteSettles \/ CheckSettles
  <2>1. PICK l \in DrainedLanes, timedOut \in BOOLEAN :
          Ends(l, timedOut) /\ UNCHANGED blocked /\ lane' = Detached(blocked, Ended(l, timedOut))
    BY <1>10, DrainedNames DEF BootstrapSettles, ReadSettles, WriteSettles, CheckSettles, maintVars
  <2> QED
    BY <1>7, <2>1, DrainedNames
<1>11. ASSUME NEW l \in Lanes, CorpseExits(l) PROVE Goal
  <2>1. lane[l] = "dying" /\ lane' = [lane EXCEPT ![l] = "idle"] /\ UNCHANGED blocked
    BY <1>11 DEF CorpseExits, maintVars
  <2> QED
    BY <1>0, <2>1 DEF LanesOK, LaneMaps, LanePhases, Quiet, Winds, Busy, Ready
<1>12. ASSUME NEW l \in Lanes, HelperLost(l) PROVE Goal
  <2>1. lane[l] = "running" /\ lane' = [lane EXCEPT ![l] = "lost"] /\ UNCHANGED blocked
    BY <1>12 DEF HelperLost, maintVars
  <2> QED
    BY <1>0, <2>1 DEF LanesOK, LaneMaps, LanePhases, Quiet, Winds, Busy, Ready
<1>13. CASE OpenSettings \/ SaveSettings \/ StartUpdateCheck \/ (ConfirmReset /\ ~blocked)
  <2>1. PICK l \in DrainedLanes :
          ~blocked /\ UNCHANGED blocked /\ (lane' = lane \/ lane' = Started(lane, l))
    BY <1>13, DrainedNames DEF OpenSettings, SaveSettings, StartUpdateCheck, ConfirmReset, maintVars
  <2>0. l \in Lanes
    BY DrainedNames
  <2>2. lane' \in LaneMaps /\ \A k \in Lanes \ {l} : lane'[k] = lane[k]
    BY <1>0, <2>1, <2>0, StartedLanes
  <2> QED
    BY <1>0, <2>1, <2>2, LaneNames, DrainedNames DEF LanesOK, Starts, Winds
<1>14. CASE ConfirmUpdate \/ UpdatePollTick
  <2>1. UNCHANGED blocked /\ (lane' = lane \/ lane' = Started(lane, "update"))
    BY <1>14 DEF ConfirmUpdate, UpdatePollTick, maintVars
  <2>2. lane' \in LaneMaps /\ \A k \in Lanes \ {"update"} : lane'[k] = lane[k]
    BY <1>0, <1>update, <2>1, StartedLanes
  <2> QED
    BY <1>0, <2>1, <2>2, LaneNames, DrainedNames DEF LanesOK, Quiet, Winds
<1>15. CASE UpdateSettles
  <2>1. PICK timedOut \in BOOLEAN :
          Ends("update", timedOut) /\ lane' = Ended("update", timedOut) /\ UNCHANGED blocked
    BY <1>15 DEF UpdateSettles, maintVars
  <2>2. lane' \in LaneMaps /\ \A k \in Lanes \ {"update"} : lane'[k] = lane[k]
    BY <1>0, <1>update, <2>1, EndedLanes
  <2> QED
    BY <1>0, <2>1, <2>2, LaneNames, DrainedNames DEF LanesOK, Quiet, Winds
<1>16. CASE ArmOrConfirmUninstall /\ UiConfirmed(ui)
  <2>1. lane' = Detached(TRUE, lane) /\ blocked' = TRUE
    BY <1>16 DEF ArmOrConfirmUninstall
  <2>2. PICK b \in BOOLEAN : b = TRUE
    OBVIOUS
  <2>3. /\ lane' \in LaneMaps
        /\ \A k \in Lanes \ {"maintenanceHandoff"} : lane'[k] = lane[k]
        /\ \/ lane'["maintenanceHandoff"] = lane["maintenanceHandoff"]
           \/ \A k \in DrainedLanes : ~Busy(lane'[k])
    BY <1>0, <2>1, <2>2, LaneNames, DetachedLanes
  <2> QED
    BY <2>1, <2>3, LaneNames, DrainedNames DEF LanesOK, Hands, Winds
<1>17. CASE HandoffSettles
  <2>1. PICK timedOut \in BOOLEAN :
          /\ Ends("maintenanceHandoff", timedOut) /\ lane' = Ended("maintenanceHandoff", timedOut)
          /\ blocked' = FALSE
    BY <1>17 DEF HandoffSettles
  <2>2. /\ lane' \in LaneMaps /\ ~Busy(lane'["maintenanceHandoff"])
        /\ \A k \in Lanes \ {"maintenanceHandoff"} : lane'[k] = lane[k]
    BY <1>0, <2>1, LaneNames, EndedLanes
  <2> QED
    BY <2>1, <2>2, LaneNames, DrainedNames DEF LanesOK, Answered
<1>18. CASE UNCHANGED <<lane, blocked>>
  BY <1>0, <1>18 DEF LanesOK, Quiet, Winds
<1>19. CASE \/ \E l \in Readers : HelperReads(l)
            \/ HelperWrites \/ ClosePopup \/ RequestPopup \/ EditSettings \/ UpdateDialog \/ UpdateWindowEnds
            \/ RestartShell \/ UninstallDialog \/ (ArmOrConfirmUninstall /\ ~UiConfirmed(ui)) \/ ResetDialog
            \/ (ConfirmReset /\ blocked) \/ UNCHANGED vars
  BY <1>18, <1>19 DEF HelperReads, HelperWrites, ClosePopup, RequestPopup, EditSettings, UpdateDialog,
     UpdateWindowEnds, RestartShell, UninstallDialog, ArmOrConfirmUninstall, ResetDialog, ConfirmReset, vars,
     laneVars, maintVars
<1> HIDE DEF Goal
<1> QED
  BY <1>1, <1>2, <1>3, <1>5, <1>8, <1>9, <1>10, <1>11, <1>12, <1>13, <1>14, <1>15, <1>16, <1>17, <1>19 DEF Next

LEMMA NextLanes == LanesOK /\ [Next]_vars => LanesOK'
BY StepLanes

\* While the hand-off is under way the Service is blocked.
HandoffBlocks == Busy(lane["maintenanceHandoff"]) => blocked

LEMMA NextHandoff ==
  LanesOK /\ HandoffBlocks /\ HandoffRunsAlone /\ [Next]_vars => HandoffBlocks' /\ HandoffRunsAlone'
<1> SUFFICES ASSUME LanesOK, HandoffBlocks, HandoffRunsAlone, [Next]_vars
             PROVE  HandoffBlocks' /\ HandoffRunsAlone'
  OBVIOUS
<1>1. CASE Quiet
  BY <1>1 DEF Quiet, Winds, HandoffBlocks, HandoffRunsAlone
<1>2. CASE Starts
  BY <1>2 DEF Starts, Winds, HandoffBlocks, HandoffRunsAlone
<1>3. CASE Hands
  BY <1>3 DEF Hands, Winds, HandoffBlocks, HandoffRunsAlone
<1>4. CASE Answered
  BY <1>4 DEF Answered, HandoffBlocks, HandoffRunsAlone
<1> QED
  BY <1>1, <1>2, <1>3, <1>4, StepLanes

\* The uninstall helper never runs next to a lane that reads or writes Agent
\* Bar's state (tryMaintenanceDetach(), and every call that starts a lane).
THEOREM HandoffRunsAloneHolds == Spec => []HandoffRunsAlone
<1>1. Init => HandoffBlocks /\ HandoffRunsAlone
  BY LaneNames DEF Init, HandoffBlocks, HandoffRunsAlone, Busy
<1> QED
  BY <1>1, InitLanes, NextLanes, NextHandoff, PTL DEF Spec

\* Between the confirmation of an uninstall and its answer nothing starts on
\* those lanes, whatever fires, settles or is asked for meanwhile (blocked).
THEOREM NothingStartsDuringHandoffHolds == Spec => NothingStartsDuringHandoff
<1> DEFINE Still == blocked => \A l \in DrainedLanes : Ready(lane[l]) => Ready(lane'[l])
<1>1. LanesOK /\ [Next]_vars => Still
  BY StepLanes DEF Quiet, Starts, Hands, Answered, Winds
<1> HIDE DEF Still
<1>2. LanesOK /\ [Next]_vars => [Still]_vars
  BY <1>1
<1>3. Spec => [][Still]_vars
  BY <1>2, InitLanes, NextLanes, PTL DEF Spec
<1> QED
  BY <1>3 DEF Still, NothingStartsDuringHandoff

---------------------------------------------------------------------------
(* The About tab and its dialogs.                                          *)

\* u has the fields of maintenanceUi, whatever is in them.
IsUi(u) ==
  u = [phase |-> u.phase, target |-> u.target, updateResult |-> u.updateResult, purge |-> u.purge,
       uninstallOpen |-> u.uninstallOpen, armed |-> u.armed, updateOpen |-> u.updateOpen]

\* v says the same about what an uninstall deletes; v does, or is not armed.
SamePurge(u, v) == IsUi(v) /\ v.purge = u.purge
KeepsWord(u, v) == IsUi(v) /\ (v.armed => v.purge = u.purge)

LEMMA SetUi ==
  ASSUME NEW u, IsUi(u), NEW x
  PROVE  /\ SamePurge(u, [u EXCEPT !.phase = x])
         /\ SamePurge(u, [u EXCEPT !.target = x])
         /\ SamePurge(u, [u EXCEPT !.updateResult = x])
         /\ SamePurge(u, [u EXCEPT !.uninstallOpen = x])
         /\ SamePurge(u, [u EXCEPT !.armed = x])
         /\ SamePurge(u, [u EXCEPT !.updateOpen = x])
BY DEF IsUi, SamePurge

LEMMA CheckKeepsPurge ==
  ASSUME NEW u, IsUi(u), NEW answer
  PROVE  SamePurge(u, UiChecking(u)) /\ SamePurge(u, UiFromCheck(u, answer))
<1>1. SamePurge(u, UiChecking(u))
  BY SetUi DEF UiChecking
<1>2. PICK v : v = [u EXCEPT !.phase = answer]
  OBVIOUS
<1>3. PICK w : w = [v EXCEPT !.updateResult = "none"]
  OBVIOUS
<1>4. PICK target : target = IF answer = "error" THEN u.target ELSE answer = "update_available"
  OBVIOUS
<1>5. UiFromCheck(u, answer) = [w EXCEPT !.target = target]
  BY <1>2, <1>3, <1>4 DEF UiFromCheck
<1>6. SamePurge(u, v)
  BY <1>2, SetUi
<1>7. SamePurge(v, w)
  BY <1>3, <1>6, SetUi DEF SamePurge
<1>8. IsUi(w)
  BY <1>7 DEF SamePurge
<1>9. SamePurge(w, [w EXCEPT !.target = target])
  BY <1>8, SetUi
<1> QED
  BY <1>1, <1>5, <1>6, <1>7, <1>9 DEF SamePurge

LEMMA SetPurgeFields ==
  ASSUME NEW u, IsUi(u), NEW x
  PROVE  IsUi(UiSetPurge(u, x)) /\ ~UiSetPurge(u, x).armed
<1>1. PICK v : v = [u EXCEPT !.purge = x]
  OBVIOUS
<1>2. IsUi(v)
  BY <1>1 DEF IsUi
<1>3. UiSetPurge(u, x) = [v EXCEPT !.armed = FALSE]
  BY <1>1 DEF UiSetPurge
<1> QED
  BY <1>2, <1>3 DEF IsUi

LEMMA UpdateKeepsPurge ==
  ASSUME NEW u, IsUi(u), NEW x
  PROVE  /\ SamePurge(u, UiOpenUpdateConfirm(u)) /\ SamePurge(u, UiCloseUpdateConfirm(u))
         /\ SamePurge(u, UiUpdating(u, x)) /\ SamePurge(u, UiFromUpdateResult(u, x))
<1>1. SamePurge(u, UiOpenUpdateConfirm(u)) /\ SamePurge(u, UiCloseUpdateConfirm(u))
  BY SetUi DEF UiOpenUpdateConfirm, UiCloseUpdateConfirm
<1>2. SamePurge(u, UiUpdating(u, x))
  <2>1. PICK v : v = [u EXCEPT !.phase = "updating"]
    OBVIOUS
  <2>2. PICK w : w = [v EXCEPT !.updateOpen = FALSE]
    OBVIOUS
  <2>3. PICK target : target = (u.target \/ x)
    OBVIOUS
  <2>4. UiUpdating(u, x) = [w EXCEPT !.target = target]
    BY <2>1, <2>2, <2>3 DEF UiUpdating
  <2>5. SamePurge(u, v)
    BY <2>1, SetUi
  <2>6. SamePurge(v, w)
    BY <2>2, <2>5, SetUi DEF SamePurge
  <2>7. IsUi(w)
    BY <2>6 DEF SamePurge
  <2>8. SamePurge(w, [w EXCEPT !.target = target])
    BY <2>7, SetUi
  <2> QED
    BY <2>4, <2>5, <2>6, <2>8 DEF SamePurge
<1>3. SamePurge(u, UiFromUpdateResult(u, x))
  <2>1. PICK v : v = [u EXCEPT !.updateOpen = FALSE]
    OBVIOUS
  <2>2. PICK w : w = [v EXCEPT !.updateResult = x]
    OBVIOUS
  <2>3. PICK phase : phase = CASE x = "updated"    -> "restart_required"
                               [] x = "up_to_date" -> "up_to_date"
                               [] OTHER            -> "update_failed"
    OBVIOUS
  <2>4. PICK target : target = CASE x = "updated" -> TRUE [] x = "up_to_date" -> FALSE [] OTHER -> u.target
    OBVIOUS
  <2>5. PICK r : r = [w EXCEPT !.phase = phase]
    OBVIOUS
  <2>6. UiFromUpdateResult(u, x) = [r EXCEPT !.target = target]
    BY <2>1, <2>2, <2>3, <2>4, <2>5, Zenon DEF UiFromUpdateResult
  <2>7. SamePurge(u, v)
    BY <2>1, SetUi
  <2>8. SamePurge(v, w)
    BY <2>2, <2>7, SetUi DEF SamePurge
  <2>9. SamePurge(w, r)
    BY <2>5, <2>8, SetUi DEF SamePurge
  <2>10. IsUi(r)
    BY <2>9 DEF SamePurge
  <2>11. SamePurge(r, [r EXCEPT !.target = target])
    BY <2>10, SetUi
  <2> QED
    BY <2>6, <2>7, <2>8, <2>9, <2>11 DEF SamePurge
<1> QED
  BY <1>1, <1>2, <1>3

LEMMA UninstallKeepsWord ==
  ASSUME NEW u, IsUi(u)
  PROVE  /\ KeepsWord(u, UiIdle) /\ KeepsWord(u, UiOpenUninstallConfirm(u))
         /\ KeepsWord(u, UiCloseUninstallConfirm(u)) /\ \A x : KeepsWord(u, UiSetPurge(u, x))
         /\ KeepsWord(u, UiArm(u)) /\ KeepsWord(u, UiUninstalling(u))
<1>1. KeepsWord(u, UiIdle)
  BY DEF UiIdle, IsUi, KeepsWord
<1>2. KeepsWord(u, UiOpenUninstallConfirm(u))
  <2>1. PICK v : v = [u EXCEPT !.uninstallOpen = TRUE]
    OBVIOUS
  <2>2. PICK w : w = [v EXCEPT !.armed = FALSE]
    OBVIOUS
  <2>3. PICK r : r = [w EXCEPT !.purge = FALSE]
    OBVIOUS
  <2>4. UiOpenUninstallConfirm(u) = r
    BY <2>1, <2>2, <2>3 DEF UiOpenUninstallConfirm
  <2>5. IsUi(v)
    BY <2>1 DEF IsUi
  <2>6. IsUi(w) /\ ~w.armed
    BY <2>2, <2>5 DEF IsUi
  <2>7. IsUi(r) /\ r.armed = w.armed
    BY <2>3, <2>6 DEF IsUi
  <2> QED
    BY <2>4, <2>6, <2>7 DEF KeepsWord
<1>3. KeepsWord(u, UiCloseUninstallConfirm(u))
  <2>1. PICK v : v = [u EXCEPT !.uninstallOpen = FALSE]
    OBVIOUS
  <2>2. UiCloseUninstallConfirm(u) = [v EXCEPT !.armed = FALSE]
    BY <2>1 DEF UiCloseUninstallConfirm
  <2>3. SamePurge(u, v)
    BY <2>1, SetUi
  <2>4. SamePurge(v, [v EXCEPT !.armed = FALSE])
    BY <2>3, SetUi DEF SamePurge
  <2> QED
    BY <2>2, <2>3, <2>4 DEF SamePurge, KeepsWord
<1>4. ASSUME NEW x PROVE KeepsWord(u, UiSetPurge(u, x))
  BY SetPurgeFields DEF KeepsWord
<1>5. KeepsWord(u, UiArm(u))
  BY SetUi DEF UiArm, SamePurge, KeepsWord
<1>6. KeepsWord(u, UiUninstalling(u))
  <2>1. PICK v : v = [u EXCEPT !.phase = "uninstalling"]
    OBVIOUS
  <2>2. UiUninstalling(u) = [v EXCEPT !.uninstallOpen = FALSE]
    BY <2>1 DEF UiUninstalling
  <2>3. SamePurge(u, v)
    BY <2>1, SetUi
  <2>4. SamePurge(v, [v EXCEPT !.uninstallOpen = FALSE])
    BY <2>3, SetUi DEF SamePurge
  <2> QED
    BY <2>2, <2>3, <2>4 DEF SamePurge, KeepsWord
<1> QED
  BY <1>1, <1>2, <1>3, <1>4, <1>5, <1>6

UiOK == IsUi(ui)

LEMMA InitUi == Init => UiOK
BY DEF Init, UiOK, IsUi, UiIdle

\* What a step does to maintenanceUi, and when the Service becomes blocked.
Worded ==
  /\ KeepsWord(ui, ui')
  /\ ~blocked /\ blocked' => ui.armed /\ purgeIntent' = ui.purge

LEMMA StepWords ==
  ASSUME UiOK, [Next]_vars
  PROVE  Worded
<1>0. IsUi(ui)
  BY DEF UiOK
<1>1. ASSUME UNCHANGED ui, UNCHANGED blocked PROVE Worded
  BY <1>0, <1>1 DEF KeepsWord, Worded
<1>2. ASSUME SamePurge(ui, ui'), UNCHANGED blocked PROVE Worded
  BY <1>2 DEF SamePurge, KeepsWord, Worded
<1>3. CASE StartUpdateCheck \/ CheckSettles
  <2>1. /\ UNCHANGED blocked
        /\ \/ ui' = UiChecking(SyncVersion(ui))
           \/ \E answer : ui' = UiFromCheck(ui, answer)
    BY <1>3 DEF StartUpdateCheck, CheckSettles
  <2>2. ui' = UiChecking(UiIdle) \/ ui' = UiChecking(ui) \/ \E answer : ui' = UiFromCheck(ui, answer)
    BY <2>1, Zenon DEF SyncVersion
  <2>3. KeepsWord(ui, UiChecking(UiIdle))
    <3>1. IsUi(UiIdle)
      BY DEF UiIdle, IsUi
    <3>2. SamePurge(UiIdle, UiChecking(UiIdle))
      BY <3>1, CheckKeepsPurge
    <3>3. ~UiChecking(UiIdle).armed
      BY DEF UiChecking, UiIdle
    <3> QED
      BY <3>2, <3>3 DEF SamePurge, KeepsWord
  <2> QED
    BY <1>0, <1>2, <2>1, <2>2, <2>3, CheckKeepsPurge DEF Worded
<1>4. CASE UpdateDialog
  <2>1. UNCHANGED blocked /\ (ui' = UiOpenUpdateConfirm(ui) \/ ui' = UiCloseUpdateConfirm(ui))
    BY <1>4 DEF UpdateDialog
  <2> QED
    BY <1>0, <1>2, <2>1, UpdateKeepsPurge
<1>5. CASE ConfirmUpdate \/ UpdateWindowEnds
  <2>1. UNCHANGED blocked /\ (ui' = UiUpdating(ui, FALSE) \/ ui' = UiFromUpdateResult(ui, "failed"))
    BY <1>5 DEF ConfirmUpdate, UpdateWindowEnds, FinishUpdate
  <2> QED
    BY <1>0, <1>2, <2>1, UpdateKeepsPurge
<1>6. CASE UpdateSettles
  <2>1. UNCHANGED blocked /\ \E answer : UpdateAnswered(answer)
    BY <1>6 DEF UpdateSettles
  <2>2. ASSUME NEW answer, UpdateAnswered(answer)
        PROVE  \/ UNCHANGED ui
               \/ ui' = UiUpdating(ui, TRUE)
               \/ ui' = UiFromUpdateResult(ui, answer)
               \/ ui' = UiFromUpdateResult(ui, "failed")
    BY <2>2, Zenon DEF UpdateAnswered, FinishUpdate
  <2> QED
    BY <1>0, <1>1, <1>2, <2>1, <2>2, UpdateKeepsPurge
<1>7. CASE RestartShell
  <2>1. UNCHANGED blocked /\ (ui' = UiIdle \/ ui' = ui)
    BY <1>7 DEF RestartShell
  <2> QED
    BY <1>0, <1>1, <2>1, UninstallKeepsWord DEF Worded
<1>8. CASE UninstallDialog
  <2>1. /\ UNCHANGED blocked
        /\ \/ ui' = UiOpenUninstallConfirm(ui) \/ ui' = UiCloseUninstallConfirm(ui)
           \/ \E x : ui' = UiSetPurge(ui, x)
    BY <1>8 DEF UninstallDialog
  <2> QED
    BY <1>0, <2>1, UninstallKeepsWord DEF Worded
<1>9. CASE ArmOrConfirmUninstall
  <2>1. CASE UiConfirmed(ui)
    BY <1>0, <1>9, <2>1, UninstallKeepsWord DEF ArmOrConfirmUninstall, UiConfirmed, Worded
  <2>2. CASE ~UiConfirmed(ui)
    BY <1>0, <1>9, <2>2, UninstallKeepsWord DEF ArmOrConfirmUninstall, Worded
  <2> QED
    BY <2>1, <2>2
<1>10. CASE HandoffSettles
  <2>1. blocked' = FALSE /\ (ui' = UiIdle \/ ui' = [ui EXCEPT !.phase = "error"])
    BY <1>10 DEF HandoffSettles
  <2>2. KeepsWord(ui, UiIdle)
    BY <1>0, UninstallKeepsWord
  <2>3. KeepsWord(ui, [ui EXCEPT !.phase = "error"])
    BY <1>0, SetUi DEF SamePurge, KeepsWord
  <2> QED
    BY <2>1, <2>2, <2>3 DEF Worded
<1>11. CASE TryStartProduction \/ VersionProbeFails \/ PollTick \/ Refresh \/ StatusSettles
            \/ FollowUp \/ (\E l \in Lanes : CorpseExits(l) \/ HelperLost(l)) \/ (\E l \in Readers : HelperReads(l))
            \/ HelperWrites
  BY <1>1, <1>11 DEF TryStartProduction, VersionProbeFails, PollTick, Refresh,
     StatusSettles, FollowUp, CorpseExits, HelperLost, HelperReads, HelperWrites, maintVars
<1>12. CASE ClosePopup \/ RequestPopup \/ OpenSettings \/ EditSettings \/ SaveSettings \/ BootstrapSettles
            \/ ReadSettles \/ WriteSettles \/ UpdatePollTick \/ ResetDialog \/ ConfirmReset \/ ResetSettles
            \/ UNCHANGED vars
  BY <1>1, <1>12 DEF ClosePopup, RequestPopup, OpenSettings, EditSettings, SaveSettings, BootstrapSettles,
     ReadSettles, WriteSettles, UpdatePollTick, ResetDialog, ConfirmReset, ResetSettles, maintVars, vars
<1>13. CASE VersionProbeSucceeds \/ ManifestChanged
  <2>1. UNCHANGED blocked /\ (ui' = UiIdle \/ ui' = ui)
    BY <1>13, Zenon DEF VersionProbeSucceeds, ManifestChanged, SyncVersion
  <2> QED
    BY <1>0, <1>1, <2>1, UninstallKeepsWord DEF Worded
<1> QED
  BY <1>3, <1>4, <1>5, <1>6, <1>7, <1>8, <1>9, <1>10, <1>11, <1>12, <1>13 DEF Next

LEMMA NextUi == UiOK /\ [Next]_vars => UiOK'
BY StepWords DEF Worded, KeepsWord, UiOK

\* What the armed uninstall dialog says it deletes is what the helper is told
\* to delete, whatever is answered or pressed in between (armOrConfirmUninstall()).
THEOREM ArmedDialogKeepsItsWordHolds == Spec => ArmedDialogKeepsItsWord
<1> DEFINE Word == /\ ui.armed /\ ui'.armed => ui'.purge = ui.purge
                   /\ ~blocked /\ blocked' => ui.armed /\ purgeIntent' = ui.purge
<1>1. UiOK /\ [Next]_vars => [Word]_vars
  BY StepWords DEF Worded, KeepsWord
<1> HIDE DEF Word
<1>2. Spec => [][Word]_vars
  BY <1>1, InitUi, NextUi, PTL DEF Spec
<1> QED
  BY <1>2 DEF Word, ArmedDialogKeepsItsWord

---------------------------------------------------------------------------
(* Which lanes a step moves.                                               *)

Own == {"settingsRead", "settingsBootstrap", "settingsWrite", "reset"}

\* Of the lanes of the settings and of the resets, at most l moves.
OnlyMoves(l) == \A k \in Own \ {l} : lane'[k] = lane[k]

LEMMA OwnNames ==
  /\ \A k \in Own : k \in Lanes /\ k \in DrainedLanes
  /\ \A k \in Own : k # "status" /\ k # "versionProbe" /\ k # "maintenanceHandoff" /\ k # "update"
                    /\ k # "maintenanceCheck"
BY DEF Own, Lanes, DrainedLanes

LEMMA KickMoves ==
  ASSUME LanesOK, NEW able, NEW targets, NEW queued, KickStatus(able, lane, targets, queued), NEW x
  PROVE  OnlyMoves(x)
<1>1. \A k \in Lanes \ {"status"} : lane'[k] = lane[k]
  BY KickLanes DEF LanesOK
<1> QED
  BY <1>1, OwnNames DEF OnlyMoves

LEMMA StartMoves ==
  ASSUME LanesOK, NEW l \in Lanes, lane' = lane \/ lane' = Started(lane, l)
  PROVE  OnlyMoves(l)
<1>1. PICK M : M = Started(lane, l)
  OBVIOUS
<1>2. \A k \in Lanes \ {l} : M[k] = lane[k]
  BY <1>1, StartedLanes DEF LanesOK
<1> QED
  BY <1>1, <1>2, OwnNames DEF OnlyMoves

LEMMA EndMoves ==
  ASSUME LanesOK, NEW l \in Lanes, NEW timedOut \in BOOLEAN, Ends(l, timedOut), lane' = Ended(l, timedOut)
  PROVE  OnlyMoves(l)
<1>1. PICK M : M = Ended(l, timedOut)
  OBVIOUS
<1>2. \A k \in Lanes \ {l} : M[k] = lane[k]
  BY <1>1, EndedLanes DEF LanesOK
<1> QED
  BY <1>1, <1>2, OwnNames DEF OnlyMoves

LEMMA SettleMoves ==
  ASSUME LanesOK, NEW l \in DrainedLanes, NEW timedOut \in BOOLEAN, Ends(l, timedOut),
         lane' = Detached(blocked, Ended(l, timedOut))
  PROVE  OnlyMoves(l) /\ Busy(lane[l]) /\ ~Busy(lane'[l])
<1>1. PICK M : M = Detached(blocked, Ended(l, timedOut))
  OBVIOUS
<1>2. /\ Busy(lane[l]) /\ ~Busy(M[l])
      /\ \A k \in Lanes \ {l, "maintenanceHandoff"} : M[k] = lane[k]
  BY <1>1, SettledLanes
<1> QED
  BY <1>1, <1>2, OwnNames DEF OnlyMoves

LEMMA ProbeMoves ==
  ASSUME LanesOK, VersionProbeSucceeds
  PROVE  /\ OnlyMoves("settingsBootstrap")
         /\ \/ lane'["settingsBootstrap"] = lane["settingsBootstrap"] /\ UNCHANGED seen
            \/ /\ applied = NoDoc /\ Ready(lane["settingsBootstrap"])
               /\ seen' = [seen EXCEPT !["settingsBootstrap"] = NoDoc]
<1> DEFINE boots == applied = NoDoc /\ ~blocked /\ Ready(lane["settingsBootstrap"])
<1>1. PICK early \in BOOLEAN : early = FALSE
  OBVIOUS
<1>2. PICK E : E = Ended("versionProbe", early)
  OBVIOUS
<1>3. PICK polled : polled = Started(E, "update")
  OBVIOUS
<1>4. PICK booted : booted = IF boots THEN Started(polled, "settingsBootstrap") ELSE polled
  OBVIOUS
<1>5. /\ Ends("versionProbe", early)
      /\ KickStatus(~blocked, booted, pending, resetQueued)
      /\ seen' = IF boots THEN [seen EXCEPT !["settingsBootstrap"] = NoDoc] ELSE seen
  BY <1>1, <1>2, <1>3, <1>4 DEF VersionProbeSucceeds
<1>probe. "versionProbe" \in Lanes
  BY LaneNames
<1>update. "update" \in Lanes
  BY LaneNames
<1>boot. "settingsBootstrap" \in Lanes
  BY LaneNames
<1>6. lane \in LaneMaps
  BY DEF LanesOK
<1>7. E \in LaneMaps /\ \A k \in Lanes \ {"versionProbe"} : E[k] = lane[k]
  BY <1>1, <1>2, <1>5, <1>6, <1>probe, EndedLanes
<1>8. polled \in LaneMaps /\ \A k \in Lanes \ {"update"} : polled[k] = E[k]
  BY <1>3, <1>7, <1>update, StartedLanes
<1>9. PICK full : full = Started(polled, "settingsBootstrap")
  OBVIOUS
<1>10. full \in LaneMaps /\ \A k \in Lanes \ {"settingsBootstrap"} : full[k] = polled[k]
  BY <1>8, <1>9, <1>boot, StartedLanes
<1>11. booted \in {polled, full} /\ (~boots => booted = polled)
  BY <1>4, <1>9
<1> HIDE DEF boots
<1>lanes. booted \in LaneMaps
  BY <1>8, <1>10, <1>11
<1>kick. KickStatus(~blocked, booted, pending, resetQueued)
  BY <1>5
<1>12. \A k \in Lanes \ {"status"} : lane'[k] = booted[k]
  BY <1>lanes, <1>kick, KickLanes
<1>13. OnlyMoves("settingsBootstrap")
  BY <1>7, <1>8, <1>10, <1>11, <1>12, OwnNames DEF OnlyMoves
<1>14. CASE boots
  BY <1>5, <1>13, <1>14 DEF boots
<1>15. CASE ~boots
  <2>1. lane'["settingsBootstrap"] = lane["settingsBootstrap"]
    BY <1>7, <1>8, <1>11, <1>12, <1>15, <1>boot
  <2> QED
    BY <1>5, <1>13, <1>15, <2>1
<1> QED
  BY <1>14, <1>15

\* A lane whose run, if it has one, stays outstanding, and which none takes.
Undisturbed(k) == (Busy(lane'[k]) <=> Busy(lane[k])) /\ (Ready(lane[k]) => Ready(lane'[k]))

\* The steps of neither the settings nor the resets.
OtherStep ==
  \/ TryStartProduction \/ ManifestChanged \/ VersionProbeFails \/ PollTick \/ Refresh \/ StatusSettles \/ FollowUp
  \/ \E l \in Lanes : CorpseExits(l) \/ HelperLost(l)
  \/ RequestPopup \/ StartUpdateCheck \/ CheckSettles \/ UpdateDialog \/ ConfirmUpdate
  \/ UpdatePollTick \/ UpdateWindowEnds \/ UpdateSettles \/ RestartShell \/ UninstallDialog
  \/ ArmOrConfirmUninstall \/ HandoffSettles \/ UNCHANGED vars

LEMMA Bystanders ==
  ASSUME LanesOK, OtherStep
  PROVE  \A k \in Own : Undisturbed(k)
<1> DEFINE Goal == \A k \in Own : Undisturbed(k)
<1> SUFFICES Goal
  OBVIOUS
<1>0. lane \in LaneMaps
  BY DEF LanesOK
<1>1. ASSUME \A k \in Own : lane'[k] = lane[k] PROVE Goal
  BY <1>1 DEF Undisturbed
<1>2. ASSUME NEW l, l \notin Own, OnlyMoves(l) PROVE Goal
  BY <1>1, <1>2 DEF OnlyMoves
<1>probe. "versionProbe" \in Lanes /\ "versionProbe" \notin Own
  BY LaneNames, OwnNames
<1>update. "update" \in Lanes /\ "update" \notin Own
  BY LaneNames, OwnNames
<1>check. "maintenanceCheck" \in Lanes /\ "maintenanceCheck" \notin Own
  BY LaneNames, OwnNames
<1>handoff. "maintenanceHandoff" \in Lanes /\ "maintenanceHandoff" \notin Own
  BY LaneNames, OwnNames
<1>status. "status" \in DrainedLanes /\ "status" \notin Own
  BY DrainedNames, OwnNames
<1>3. CASE TryStartProduction \/ ManifestChanged
  <2>1. lane' = Started(lane, "versionProbe") \/ UNCHANGED lane
    BY <1>3 DEF TryStartProduction, ManifestChanged
  <2> QED
    BY <1>1, <1>2, <2>1, <1>probe, StartMoves
<1>4. CASE VersionProbeFails
  <2>1. PICK timedOut \in BOOLEAN :
          Ends("versionProbe", timedOut) /\ lane' = Ended("versionProbe", timedOut)
    BY <1>4 DEF VersionProbeFails
  <2> QED
    BY <1>2, <2>1, <1>probe, EndMoves
<1>5. CASE PollTick \/ Refresh \/ FollowUp
  <2>1. \E able, targets, queued : KickStatus(able, lane, targets, queued)
    BY <1>5 DEF PollTick, Refresh, FollowUp, FollowUpStatus
  <2> QED
    BY <1>2, <2>1, <1>status, KickMoves
<1>6. CASE StatusSettles
  <2>1. PICK timedOut, L :
          /\ timedOut \in BOOLEAN
          /\ Ends("status", timedOut)
          /\ L = Detached(blocked, Ended("status", timedOut))
          /\ FollowUpStatus(L)
    BY <1>6 DEF StatusSettles
  <2>2. L \in LaneMaps /\ \A k \in Lanes \ {"status", "maintenanceHandoff"} : L[k] = lane[k]
    BY <2>1, <1>status, SettledLanes
  <2>3. \A k \in Lanes \ {"status"} : lane'[k] = L[k]
    BY <2>1, <2>2, KickLanes DEF FollowUpStatus
  <2> QED
    BY <1>1, <2>2, <2>3, OwnNames
<1>7. ASSUME NEW l \in Lanes, CorpseExits(l) PROVE Goal
  <2>1. lane[l] = "dying" /\ lane' = [lane EXCEPT ![l] = "idle"]
    BY <1>7 DEF CorpseExits
  <2> QED
    BY <1>0, <2>1, OwnNames DEF LaneMaps, Undisturbed, Busy, Ready
<1>8. ASSUME NEW l \in Lanes, HelperLost(l) PROVE Goal
  <2>1. lane[l] = "running" /\ lane' = [lane EXCEPT ![l] = "lost"]
    BY <1>8 DEF HelperLost
  <2> QED
    BY <1>0, <2>1, OwnNames DEF LaneMaps, Undisturbed, Busy, Ready
<1>9. CASE StartUpdateCheck
  <2>1. lane' = Started(lane, "maintenanceCheck")
    BY <1>9 DEF StartUpdateCheck
  <2> QED
    BY <1>2, <2>1, <1>check, StartMoves
<1>10. CASE CheckSettles
  <2>1. PICK timedOut \in BOOLEAN :
          /\ Ends("maintenanceCheck", timedOut)
          /\ lane' = Detached(blocked, Ended("maintenanceCheck", timedOut))
    BY <1>10 DEF CheckSettles
  <2>2. "maintenanceCheck" \in DrainedLanes
    BY DrainedNames
  <2> QED
    BY <1>2, <2>1, <2>2, <1>check, SettleMoves
<1>11. CASE ConfirmUpdate \/ UpdatePollTick
  <2>1. lane' = lane \/ lane' = Started(lane, "update")
    BY <1>11 DEF ConfirmUpdate, UpdatePollTick
  <2> QED
    BY <1>2, <2>1, <1>update, StartMoves
<1>12. CASE UpdateSettles
  <2>1. PICK timedOut \in BOOLEAN : Ends("update", timedOut) /\ lane' = Ended("update", timedOut)
    BY <1>12 DEF UpdateSettles
  <2> QED
    BY <1>2, <2>1, <1>update, EndMoves
<1>13. CASE HandoffSettles
  <2>1. PICK timedOut \in BOOLEAN :
          Ends("maintenanceHandoff", timedOut) /\ lane' = Ended("maintenanceHandoff", timedOut)
    BY <1>13 DEF HandoffSettles
  <2> QED
    BY <1>2, <2>1, <1>handoff, EndMoves
<1>14. CASE ArmOrConfirmUninstall
  <2>1. lane' = lane \/ lane' = Detached(TRUE, lane)
    BY <1>14 DEF ArmOrConfirmUninstall
  <2>2. PICK b \in BOOLEAN : b = TRUE
    OBVIOUS
  <2>3. PICK M : M = Detached(b, lane)
    OBVIOUS
  <2>4. \A k \in Lanes \ {"maintenanceHandoff"} : M[k] = lane[k]
    BY <1>0, <2>3, DetachedLanes
  <2> QED
    BY <1>1, <2>1, <2>2, <2>3, <2>4, OwnNames
<1>15. CASE \/ RequestPopup \/ UpdateDialog \/ UpdateWindowEnds \/ RestartShell \/ UninstallDialog
            \/ UNCHANGED vars
  BY <1>1, <1>15 DEF RequestPopup, UpdateDialog, UpdateWindowEnds, RestartShell, UninstallDialog, vars,
     laneVars
<1> HIDE DEF Goal
<1> QED
  BY <1>3, <1>4, <1>5, <1>6, <1>7, <1>8, <1>9, <1>10, <1>11, <1>12, <1>13, <1>14, <1>15 DEF OtherStep

LEMMA ResetMoves ==
  ASSUME LanesOK, ResetSettles
  PROVE  OnlyMoves("reset") /\ Busy(lane["reset"]) /\ ~Busy(lane'["reset"])
<1>1. PICK timedOut \in BOOLEAN :
        /\ Ends("reset", timedOut)
        /\ LET L == Detached(blocked, Ended("reset", timedOut))
           IN lane' = L \/ KickStatus(CanKick, L, UnionForced(pending, claim), TRUE)
  BY DEF ResetSettles
<1>2. PICK L : L = Detached(blocked, Ended("reset", timedOut))
  OBVIOUS
<1>3. "reset" \in DrainedLanes /\ "reset" \in Lanes /\ "reset" # "status" /\ "reset" # "maintenanceHandoff"
  BY LaneNames, DrainedNames
<1>4. /\ L \in LaneMaps
      /\ Busy(lane["reset"]) /\ ~Busy(L["reset"])
      /\ \A k \in Lanes \ {"reset", "maintenanceHandoff"} : L[k] = lane[k]
  BY <1>1, <1>2, <1>3, SettledLanes
<1>5. lane' = L \/ KickStatus(CanKick, L, UnionForced(pending, claim), TRUE)
  BY <1>1, <1>2
<1>6. \A k \in Lanes \ {"status"} : lane'[k] = L[k]
  BY <1>4, <1>5, KickLanes
<1> QED
  BY <1>3, <1>4, <1>6, OwnNames DEF OnlyMoves

LEMMA ConfirmMoves ==
  ASSUME LanesOK, ConfirmReset
  PROVE  OnlyMoves("reset")
<1>1. "reset" \in Lanes
  BY LaneNames
<1>2. lane' = lane \/ lane' = Started(lane, "reset")
  BY DEF ConfirmReset
<1> QED
  BY <1>1, <1>2, StartMoves

---------------------------------------------------------------------------
(* The settings file, the dialog and what the bar applies.                 *)

\* s has the fields of settingsState, whatever is in them.
IsSettings(s) ==
  s = [phase |-> s.phase, generation |-> s.generation, snapshot |-> s.snapshot, draft |-> s.draft]

Settled == {"clean", "dirty", "saving"}

\* Documents are documents: what a settled dialog shows, and what is on disk.
DocsOK ==
  /\ IsSettings(settings)
  /\ settings.phase \in Settled => settings.snapshot \in Docs /\ settings.draft \in Docs
  /\ seen \in [Readers -> Docs \cup {NoDoc}]
  /\ file \in Docs
  /\ ~Ready(lane["settingsWrite"]) => payload \in Docs

\* The dialog is in the phase of the helper it waits for.
DialogOK ==
  /\ settings.phase = "saving" => payload = settings.draft
  /\ Busy(lane["settingsWrite"]) => settings.phase = "saving" /\ settings.generation = writeGen
  /\ Busy(lane["settingsRead"]) => settings.phase = "loading" /\ settings.generation = readGen
  /\ Busy(lane["settingsWrite"]) /\ written => file = payload

\* While a writer that has replaced the file has not answered, what was read
\* of it is behind; whatever was read otherwise is the file.
Unreported == Busy(lane["settingsWrite"]) /\ written

UpToDate ==
  ~unaccounted =>
    /\ ~Unreported =>
         /\ applied \in {NoDoc, file}
         /\ Busy(lane["settingsBootstrap"]) /\ applied = NoDoc => seen["settingsBootstrap"] \in {NoDoc, file}
         /\ settings.phase \in Settled => settings.snapshot = file
    /\ Busy(lane["settingsRead"]) => seen["settingsRead"] \in {NoDoc, file}

SettingsOK == LanesOK /\ DocsOK /\ DialogOK /\ UpToDate

LEMMA InitSettings == Init => SettingsOK
<1> SUFFICES ASSUME Init PROVE SettingsOK
  OBVIOUS
<1>1. /\ \A l \in Lanes : lane[l] = "idle"
      /\ settings = SettingsClosed
      /\ file = DefaultDoc /\ applied = NoDoc /\ seen = [l \in Readers |-> NoDoc]
  BY DEF Init
<1>2. settings.phase = "closed" /\ IsSettings(settings)
  BY <1>1 DEF SettingsClosed, IsSettings
<1> QED
  BY <1>1, <1>2, InitLanes, LaneNames, DocAssumption
  DEF SettingsOK, DocsOK, DialogOK, UpToDate, Unreported, Settled, Ready, Busy, Readers

\* What the dialog's operations make of a state.
LEMMA EditedSettings ==
  ASSUME NEW s, IsSettings(s), NEW doc \in Docs, NEW t,
         t = SettingsEdit(s, doc) \/ t = SettingsRestoreDefaults(s) \/ t = SettingsCancel(s)
  PROVE  \/ t = s
         \/ /\ IsSettings(t) /\ s.phase \in {"clean", "dirty"} /\ t.phase \in {"clean", "dirty"}
            /\ t.snapshot = s.snapshot /\ t.generation = s.generation
            /\ t.draft \in Docs \cup {s.snapshot}
<1>1. ASSUME NEW d \in Docs \cup {s.snapshot}, NEW phase \in {"clean", "dirty"},
             t = [s EXCEPT !.phase = phase, !.draft = d], s.phase \in {"clean", "dirty"}
      PROVE  /\ IsSettings(t) /\ t.phase \in {"clean", "dirty"}
             /\ t.snapshot = s.snapshot /\ t.generation = s.generation
             /\ t.draft \in Docs \cup {s.snapshot}
  <2>1. PICK v : v = [s EXCEPT !.phase = phase]
    OBVIOUS
  <2>2. t = [v EXCEPT !.draft = d]
    BY <1>1, <2>1
  <2>3. IsSettings(v) /\ v.phase = phase /\ v.snapshot = s.snapshot /\ v.generation = s.generation
    BY <2>1 DEF IsSettings
  <2>4. IsSettings(t) /\ t.phase = phase /\ t.snapshot = s.snapshot /\ t.generation = s.generation /\ t.draft = d
    BY <2>2, <2>3 DEF IsSettings
  <2> QED
    BY <1>1, <2>4
<1>2. CASE t = SettingsEdit(s, doc) \/ t = SettingsRestoreDefaults(s)
  BY <1>1, <1>2, DocAssumption DEF SettingsEdit, SettingsRestoreDefaults, Unlocked
<1>3. CASE t = SettingsCancel(s)
  BY <1>1, <1>3 DEF SettingsCancel, Unlocked
<1> QED
  BY <1>2, <1>3

LEMMA SavingSettings ==
  ASSUME NEW s, IsSettings(s), NEW gen, NEW t, t = SettingsBeginSave(s, gen)
  PROVE  /\ IsSettings(t) /\ t.phase = "saving" /\ t.generation = gen
         /\ t.snapshot = s.snapshot /\ t.draft = s.draft
<1>1. PICK v : v = [s EXCEPT !.phase = "saving"]
  OBVIOUS
<1>2. t = [v EXCEPT !.generation = gen]
  BY <1>1 DEF SettingsBeginSave
<1>3. IsSettings(v) /\ v.phase = "saving" /\ v.snapshot = s.snapshot /\ v.draft = s.draft
  BY <1>1 DEF IsSettings
<1> QED
  BY <1>2, <1>3 DEF IsSettings

\* What SettingsFinishSave() makes of the state it was called for.
Saved(s, doc) == [s EXCEPT !.phase = "clean", !.snapshot = doc, !.draft = doc]
Unsaved(s) == [s EXCEPT !.phase = "dirty"]

LEMMA SavedSettings ==
  ASSUME NEW s, IsSettings(s), NEW doc, NEW t, t = Saved(s, doc)
  PROVE  IsSettings(t) /\ t.phase = "clean" /\ t.snapshot = doc /\ t.draft = doc
<1>1. PICK v : v = [s EXCEPT !.phase = "clean"]
  OBVIOUS
<1>2. PICK w : w = [v EXCEPT !.snapshot = doc]
  OBVIOUS
<1>3. t = [w EXCEPT !.draft = doc]
  BY <1>1, <1>2 DEF Saved
<1>4. IsSettings(v) /\ v.phase = "clean"
  BY <1>1 DEF IsSettings
<1>5. IsSettings(w) /\ w.phase = "clean" /\ w.snapshot = doc
  BY <1>2, <1>4 DEF IsSettings
<1> QED
  BY <1>3, <1>5 DEF IsSettings

LEMMA UnsavedSettings ==
  ASSUME NEW s, IsSettings(s), NEW t, t = Unsaved(s)
  PROVE  IsSettings(t) /\ t.phase = "dirty" /\ t.snapshot = s.snapshot /\ t.draft = s.draft
BY DEF IsSettings, Unsaved

LEMMA SettingsNames ==
  /\ "settingsRead" \in Own /\ "settingsBootstrap" \in Own /\ "settingsWrite" \in Own /\ "reset" \in Own
  /\ "settingsRead" \in Lanes /\ "settingsBootstrap" \in Lanes /\ "settingsWrite" \in Lanes
  /\ "settingsRead" \in Readers /\ "settingsBootstrap" \in Readers
BY DEF Own, Lanes, Readers

\* The steps the settings have no part in.
LEMMA SettingsAside ==
  ASSUME SettingsOK, OtherStep \/ ResetDialog \/ ConfirmReset \/ ResetSettles
  PROVE  /\ DocsOK' /\ DialogOK' /\ UpToDate'
         /\ UNCHANGED settings
<1>1. LanesOK
  BY DEF SettingsOK
<1>2. UNCHANGED <<settings, settingsVars, fileVars>>
  BY DEF OtherStep, TryStartProduction, ManifestChanged, VersionProbeFails, PollTick, Refresh, StatusSettles,
     FollowUp,
     CorpseExits, HelperLost, RequestPopup, StartUpdateCheck, CheckSettles, UpdateDialog, ConfirmUpdate,
     UpdatePollTick, UpdateWindowEnds, UpdateSettles, RestartShell, UninstallDialog, ArmOrConfirmUninstall,
     HandoffSettles, ResetDialog, ConfirmReset, ResetSettles, vars, dialogVars
<1>3. \A k \in Own \ {"reset"} : Undisturbed(k)
  <2>1. CASE OtherStep
    BY <1>1, <2>1, Bystanders
  <2>2. CASE ResetDialog
    BY <2>2 DEF ResetDialog, laneVars, Undisturbed
  <2>3. CASE ConfirmReset
    BY <1>1, <2>3, ConfirmMoves DEF OnlyMoves, Undisturbed
  <2>4. CASE ResetSettles
    BY <1>1, <2>4, ResetMoves DEF OnlyMoves, Undisturbed
  <2> QED
    BY <2>1, <2>2, <2>3, <2>4
<1>4. "reset" # "settingsRead" /\ "reset" # "settingsBootstrap" /\ "reset" # "settingsWrite"
  OBVIOUS
<1>5. Undisturbed("settingsRead") /\ Undisturbed("settingsBootstrap") /\ Undisturbed("settingsWrite")
  BY <1>3, <1>4, SettingsNames
<1>6. UNCHANGED <<settings, applied, readGen, writeGen, payload, file, seen, written, unaccounted>>
  BY <1>2 DEF settingsVars, fileVars
<1>7. DocsOK'
  BY <1>5, <1>6 DEF SettingsOK, DocsOK, Undisturbed
<1>8. DialogOK'
  BY <1>5, <1>6 DEF SettingsOK, DialogOK, Undisturbed
<1>9. UpToDate'
  BY <1>5, <1>6 DEF SettingsOK, UpToDate, Unreported, Undisturbed
<1> QED
  BY <1>6, <1>7, <1>8, <1>9

LEMMA ProbeKeepsSettings ==
  ASSUME SettingsOK, VersionProbeSucceeds
  PROVE  /\ DocsOK' /\ DialogOK' /\ UpToDate'
         /\ UNCHANGED settings
<1>1. LanesOK
  BY DEF SettingsOK
<1>2. UNCHANGED <<settings, applied, readGen, writeGen, payload, file, written, unaccounted>>
  BY DEF VersionProbeSucceeds, dialogVars, settingsVars
<1>3. /\ lane'["settingsRead"] = lane["settingsRead"] /\ lane'["settingsWrite"] = lane["settingsWrite"]
      /\ \/ lane'["settingsBootstrap"] = lane["settingsBootstrap"] /\ UNCHANGED seen
         \/ seen' = [seen EXCEPT !["settingsBootstrap"] = NoDoc]
  BY <1>1, ProbeMoves, SettingsNames DEF OnlyMoves
<1>4. seen'["settingsRead"] = seen["settingsRead"]
  BY <1>3, SettingsNames DEF SettingsOK, DocsOK
<1>5. /\ seen' \in [Readers -> Docs \cup {NoDoc}]
      /\ \/ lane'["settingsBootstrap"] = lane["settingsBootstrap"] /\ UNCHANGED seen
         \/ seen'["settingsBootstrap"] = NoDoc
  BY <1>3, SettingsNames DEF SettingsOK, DocsOK
<1>6. DocsOK'
  BY <1>2, <1>3, <1>5 DEF SettingsOK, DocsOK
<1>7. DialogOK'
  BY <1>2, <1>3 DEF SettingsOK, DialogOK
<1>8. UpToDate'
  BY <1>2, <1>3, <1>4, <1>5 DEF SettingsOK, UpToDate, Unreported
<1> QED
  BY <1>2, <1>6, <1>7, <1>8

LEMMA OpenKeepsSettings ==
  ASSUME SettingsOK, OpenSettings
  PROVE  /\ DocsOK' /\ DialogOK' /\ UpToDate'
         /\ settings.phase # "closed" => UNCHANGED settings
<1>1. LanesOK
  BY DEF SettingsOK
<1>2. UNCHANGED <<applied, writeGen, payload, file, written, unaccounted>>
  BY DEF OpenSettings
<1>3. CASE settings.phase # "closed"
  <2>1. UNCHANGED <<settings, lane, readGen, seen>>
    BY <1>3 DEF OpenSettings
  <2> QED
    BY <1>2, <2>1 DEF SettingsOK, DocsOK, DialogOK, UpToDate, Unreported
<1>4. CASE settings.phase = "closed"
  <2>1. ~Busy(lane["settingsRead"]) /\ ~Busy(lane["settingsWrite"])
    BY <1>4 DEF SettingsOK, DialogOK
  <2>2. PICK g : g = generation + 1
    OBVIOUS
  <2>3. /\ settings' = SettingsBeginLoad(g) /\ lane' = Started(lane, "settingsRead")
        /\ \/ Ready(lane["settingsRead"]) /\ readGen' = g /\ seen' = [seen EXCEPT !["settingsRead"] = NoDoc]
           \/ ~Ready(lane["settingsRead"]) /\ UNCHANGED <<readGen, seen>>
    BY <1>4, <2>2 DEF OpenSettings
  <2>4. IsSettings(settings') /\ settings'.phase = "loading" /\ settings'.generation = g
    BY <2>3 DEF SettingsBeginLoad, IsSettings
  <2>5. PICK M : M = Started(lane, "settingsRead")
    OBVIOUS
  <2>read. "settingsRead" \in Lanes
    BY LaneNames
  <2>6. /\ \A k \in Lanes \ {"settingsRead"} : M[k] = lane[k]
        /\ ~Ready(lane["settingsRead"]) => M["settingsRead"] = lane["settingsRead"]
    BY <1>1, <2>5, <2>read, StartedLanes DEF LanesOK
  <2>7. /\ lane'["settingsBootstrap"] = lane["settingsBootstrap"]
        /\ lane'["settingsWrite"] = lane["settingsWrite"]
        /\ ~Ready(lane["settingsRead"]) => ~Busy(lane'["settingsRead"])
    BY <2>1, <2>3, <2>5, <2>6, SettingsNames
  <2>8. /\ seen' \in [Readers -> Docs \cup {NoDoc}]
        /\ seen'["settingsBootstrap"] = seen["settingsBootstrap"]
        /\ Busy(lane'["settingsRead"]) => readGen' = g /\ seen'["settingsRead"] = NoDoc
    BY <2>3, <2>7, SettingsNames DEF SettingsOK, DocsOK
  <2>9. DocsOK'
    BY <1>2, <2>4, <2>7, <2>8 DEF SettingsOK, DocsOK, Settled
  <2>10. DialogOK'
    BY <1>2, <2>1, <2>4, <2>7, <2>8 DEF SettingsOK, DialogOK
  <2>11. UpToDate'
    BY <1>2, <2>4, <2>7, <2>8 DEF SettingsOK, UpToDate, Unreported, Settled
  <2> QED
    BY <1>4, <2>9, <2>10, <2>11
<1> QED
  BY <1>3, <1>4

LEMMA EditKeepsSettings ==
  ASSUME SettingsOK, EditSettings
  PROVE  /\ DocsOK' /\ DialogOK' /\ UpToDate'
         /\ settings.phase \notin {"clean", "dirty"} => UNCHANGED settings
<1>1. UNCHANGED <<lane, applied, readGen, writeGen, payload, file, seen, written, unaccounted>>
  BY DEF EditSettings, laneVars, settingsVars, fileVars
<1>2. PICK doc \in Docs :
        \/ settings' = SettingsEdit(settings, doc) \/ settings' = SettingsRestoreDefaults(settings)
        \/ settings' = SettingsCancel(settings)
  BY DocAssumption DEF EditSettings
<1>3. IsSettings(settings)
  BY DEF SettingsOK, DocsOK
<1>4. \/ UNCHANGED settings
      \/ /\ IsSettings(settings')
         /\ settings.phase \in {"clean", "dirty"} /\ settings'.phase \in {"clean", "dirty"}
         /\ settings'.snapshot = settings.snapshot /\ settings'.generation = settings.generation
         /\ settings'.draft \in Docs \cup {settings.snapshot}
  BY <1>2, <1>3, EditedSettings
<1>5. DocsOK'
  BY <1>1, <1>4 DEF SettingsOK, DocsOK, Settled
<1>6. DialogOK'
  BY <1>1, <1>4 DEF SettingsOK, DialogOK
<1>7. UpToDate'
  BY <1>1, <1>4 DEF SettingsOK, UpToDate, Unreported, Settled
<1> QED
  BY <1>4, <1>5, <1>6, <1>7

LEMMA CloseKeepsSettings ==
  ASSUME SettingsOK, ClosePopup
  PROVE  /\ DocsOK' /\ DialogOK' /\ UpToDate'
         /\ settings.phase \in {"loading", "saving"} => UNCHANGED settings
<1>1. UNCHANGED <<lane, applied, readGen, writeGen, payload, file, seen, written, unaccounted>>
  BY DEF ClosePopup, laneVars, settingsVars, fileVars
<1>2. UNCHANGED settings \/ (settings.phase \notin {"loading", "saving"} /\ settings' = SettingsClosed)
  BY DEF ClosePopup, Popup, SettingsRetainOnClose
<1>3. \/ UNCHANGED settings
      \/ /\ settings.phase \notin {"loading", "saving"}
         /\ IsSettings(settings') /\ settings'.phase = "closed"
  BY <1>2 DEF SettingsClosed, IsSettings
<1>4. DocsOK'
  BY <1>1, <1>3 DEF SettingsOK, DocsOK, Settled
<1>5. DialogOK'
  BY <1>1, <1>3 DEF SettingsOK, DialogOK
<1>6. UpToDate'
  BY <1>1, <1>3 DEF SettingsOK, UpToDate, Unreported, Settled
<1> QED
  BY <1>3, <1>4, <1>5, <1>6

LEMMA SaveKeepsSettings ==
  ASSUME SettingsOK, SaveSettings
  PROVE  /\ DocsOK' /\ DialogOK' /\ UpToDate'
         /\ settings.phase = "dirty"
<1>1. LanesOK /\ IsSettings(settings)
  BY DEF SettingsOK, DocsOK
<1>2. UNCHANGED <<applied, readGen, file, seen, unaccounted>>
  BY DEF SaveSettings
<1>3. settings.phase = "dirty" /\ Ready(lane["settingsWrite"]) /\ payload' = settings.draft /\ written' = FALSE
  BY DEF SaveSettings, SettingsCanSave
<1>4. PICK g : g = generation + 1
  OBVIOUS
<1>5. settings' = SettingsBeginSave(settings, g) /\ writeGen' = g /\ lane' = Started(lane, "settingsWrite")
  BY <1>4 DEF SaveSettings
<1>6. /\ IsSettings(settings') /\ settings'.phase = "saving" /\ settings'.generation = g
      /\ settings'.snapshot = settings.snapshot /\ settings'.draft = settings.draft
  BY <1>1, <1>5, SavingSettings
<1>write. "settingsWrite" \in Lanes
  BY LaneNames
<1>7. OnlyMoves("settingsWrite")
  BY <1>1, <1>5, <1>write, StartMoves
<1>8. /\ lane'["settingsRead"] = lane["settingsRead"]
      /\ lane'["settingsBootstrap"] = lane["settingsBootstrap"]
  BY <1>7, SettingsNames DEF OnlyMoves
<1>9. ~Busy(lane["settingsRead"]) /\ ~Unreported
  BY <1>3 DEF SettingsOK, DialogOK, Unreported, Busy, Ready
<1>10. settings.snapshot \in Docs /\ settings.draft \in Docs
  BY <1>3 DEF SettingsOK, DocsOK, Settled
<1>11. DocsOK'
  BY <1>2, <1>3, <1>6, <1>10 DEF SettingsOK, DocsOK
<1>12. DialogOK'
  BY <1>3, <1>5, <1>6, <1>8, <1>9 DEF DialogOK
<1>13. UpToDate'
  BY <1>2, <1>3, <1>6, <1>8, <1>9 DEF SettingsOK, UpToDate, Unreported, Settled
<1> QED
  BY <1>3, <1>11, <1>12, <1>13

LEMMA HelpersKeepSettings ==
  ASSUME SettingsOK, (\E l \in Readers : HelperReads(l)) \/ HelperWrites
  PROVE  /\ DocsOK' /\ DialogOK' /\ UpToDate'
         /\ UNCHANGED settings
<1>1. UNCHANGED <<lane, settings, applied, readGen, writeGen, payload>>
  BY DEF HelperReads, HelperWrites, laneVars, dialogVars, settingsVars
<1>2. CASE \E l \in Readers : HelperReads(l)
  <2>1. PICK l \in Readers : seen' = [seen EXCEPT ![l] = file]
    BY <1>2 DEF HelperReads
  <2>2. UNCHANGED <<file, written, unaccounted>>
    BY <1>2 DEF HelperReads
  <2>3. seen' \in [Readers -> Docs \cup {NoDoc}] /\ \A k \in Readers : seen'[k] \in {seen[k], file}
    BY <2>1 DEF SettingsOK, DocsOK
  <2>4. /\ seen'["settingsRead"] \in {seen["settingsRead"], file}
        /\ seen'["settingsBootstrap"] \in {seen["settingsBootstrap"], file}
    BY <2>3, SettingsNames
  <2>5. DocsOK' /\ DialogOK'
    BY <1>1, <2>2, <2>3 DEF SettingsOK, DocsOK, DialogOK
  <2>6. UpToDate'
    BY <1>1, <2>2, <2>4 DEF SettingsOK, UpToDate, Unreported
  <2> QED
    BY <1>1, <2>5, <2>6
<1>3. CASE HelperWrites
  <2>1. /\ lane["settingsWrite"] \in {"running", "dying"}
        /\ written' = TRUE /\ file' = payload /\ UNCHANGED seen
        /\ unaccounted' = (unaccounted \/ lane["settingsWrite"] = "dying")
    BY <1>3 DEF HelperWrites
  <2>2. payload \in Docs
    BY <2>1 DEF SettingsOK, DocsOK, Ready
  <2>3. DocsOK' /\ DialogOK'
    BY <1>1, <2>1, <2>2 DEF SettingsOK, DocsOK, DialogOK
  <2>4. CASE lane["settingsWrite"] = "running"
    <3>1. Unreported' /\ ~Busy(lane["settingsRead"])
      BY <1>1, <2>1, <2>4 DEF SettingsOK, DialogOK, Unreported, Busy
    <3> QED
      BY <1>1, <2>3, <3>1 DEF UpToDate
  <2>5. CASE lane["settingsWrite"] = "dying"
    BY <1>1, <2>1, <2>3, <2>5 DEF UpToDate
  <2> QED
    BY <2>1, <2>4, <2>5
<1> QED
  BY <1>2, <1>3

LEMMA BootKeepsSettings ==
  ASSUME SettingsOK, BootstrapSettles
  PROVE  /\ DocsOK' /\ DialogOK' /\ UpToDate'
         /\ UNCHANGED settings
<1>1. LanesOK
  BY DEF SettingsOK
<1>2. UNCHANGED <<settings, readGen, writeGen, payload, file, seen, written, unaccounted>>
  BY DEF BootstrapSettles, dialogVars, fileVars
<1>3. PICK timedOut \in BOOLEAN :
        /\ Ends("settingsBootstrap", timedOut)
        /\ lane' = Detached(blocked, Ended("settingsBootstrap", timedOut))
        /\ applied' \in {SettingsBootstrapResult(applied, NoDoc),
                         SettingsBootstrapResult(applied, seen["settingsBootstrap"])}
  BY DEF BootstrapSettles
<1>boot. "settingsBootstrap" \in DrainedLanes
  BY DrainedNames
<1>4. /\ OnlyMoves("settingsBootstrap")
      /\ Busy(lane["settingsBootstrap"]) /\ ~Busy(lane'["settingsBootstrap"])
  BY <1>1, <1>3, <1>boot, SettleMoves
<1>5. lane'["settingsRead"] = lane["settingsRead"] /\ lane'["settingsWrite"] = lane["settingsWrite"]
  BY <1>4, SettingsNames DEF OnlyMoves
<1>6. applied' = applied \/ (applied = NoDoc /\ applied' = seen["settingsBootstrap"])
  BY <1>3 DEF SettingsBootstrapResult
<1>7. DocsOK' /\ DialogOK'
  BY <1>2, <1>5 DEF SettingsOK, DocsOK, DialogOK
<1>8. UpToDate'
  BY <1>2, <1>4, <1>5, <1>6 DEF SettingsOK, UpToDate, Unreported
<1> QED
  BY <1>2, <1>7, <1>8

LEMMA ReadKeepsSettings ==
  ASSUME SettingsOK, ReadSettles
  PROVE  /\ DocsOK' /\ DialogOK' /\ UpToDate'
         /\ settings.phase = "loading"
<1>1. LanesOK
  BY DEF SettingsOK
<1>2. UNCHANGED <<readGen, writeGen, payload, file, seen, written, unaccounted>>
  BY DEF ReadSettles, fileVars
<1>3. PICK timedOut \in BOOLEAN :
        /\ Ends("settingsRead", timedOut)
        /\ lane' = Detached(blocked, Ended("settingsRead", timedOut))
        /\ \/ settings.phase = "closed"
           \/ settings' = SettingsFailLoad(settings, readGen) /\ UNCHANGED applied
           \/ /\ seen["settingsRead"] # NoDoc
              /\ settings' = SettingsFinishLoad(settings, readGen, seen["settingsRead"])
              /\ applied' = seen["settingsRead"]
  BY DEF ReadSettles
<1>read. "settingsRead" \in DrainedLanes
  BY DrainedNames
<1>4. OnlyMoves("settingsRead") /\ Busy(lane["settingsRead"]) /\ ~Busy(lane'["settingsRead"])
  BY <1>1, <1>3, <1>read, SettleMoves
<1>5. lane'["settingsBootstrap"] = lane["settingsBootstrap"] /\ lane'["settingsWrite"] = lane["settingsWrite"]
  BY <1>4, SettingsNames DEF OnlyMoves
<1>6. settings.phase = "loading" /\ settings.generation = readGen /\ ~Busy(lane["settingsWrite"])
  BY <1>4 DEF SettingsOK, DialogOK
<1>7. \/ IsSettings(settings') /\ settings'.phase = "load_failed" /\ UNCHANGED applied
      \/ /\ IsSettings(settings') /\ settings'.phase = "clean"
         /\ settings'.snapshot = seen["settingsRead"] /\ settings'.draft = seen["settingsRead"]
         /\ seen["settingsRead"] # NoDoc /\ applied' = seen["settingsRead"]
  BY <1>3, <1>6 DEF SettingsFailLoad, SettingsFinishLoad, IsSettings
<1>8. seen["settingsRead"] \in Docs \cup {NoDoc}
  BY SettingsNames DEF SettingsOK, DocsOK
<1>9. DocsOK'
  BY <1>2, <1>5, <1>7, <1>8 DEF SettingsOK, DocsOK, Settled
<1>10. DialogOK'
  BY <1>4, <1>5, <1>6, <1>7 DEF DialogOK
<1>11. UpToDate'
  BY <1>2, <1>4, <1>5, <1>6, <1>7 DEF SettingsOK, UpToDate, Unreported, Settled
<1> QED
  BY <1>6, <1>9, <1>10, <1>11

\* An answered save leaves the edits in the form, or in the file.
LEMMA WriteKeepsSettings ==
  ASSUME SettingsOK, WriteSettles
  PROVE  /\ DocsOK' /\ DialogOK' /\ UpToDate'
         /\ settings'.phase \in {"clean", "dirty"} /\ settings'.draft = settings.draft
<1>1. LanesOK /\ IsSettings(settings)
  BY DEF SettingsOK, DocsOK
<1>2. UNCHANGED <<readGen, writeGen, payload, file, seen, written>>
  BY DEF WriteSettles
<1>3. PICK timedOut \in BOOLEAN, ok \in BOOLEAN :
        /\ ok => written
        /\ Ends("settingsWrite", timedOut)
        /\ settings' = SettingsFinishSave(settings, writeGen, ok, payload)
        /\ applied' = IF ok THEN payload ELSE applied
        /\ unaccounted' = (~ok /\ (unaccounted \/ written))
        /\ lane' = Detached(blocked, Ended("settingsWrite", timedOut))
  BY DEF WriteSettles
<1>write. "settingsWrite" \in DrainedLanes
  BY DrainedNames
<1>4. OnlyMoves("settingsWrite") /\ Busy(lane["settingsWrite"]) /\ ~Busy(lane'["settingsWrite"])
  BY <1>1, <1>3, <1>write, SettleMoves
<1>5. /\ lane'["settingsRead"] = lane["settingsRead"]
      /\ lane'["settingsBootstrap"] = lane["settingsBootstrap"]
  BY <1>4, SettingsNames DEF OnlyMoves
<1>6. /\ settings.phase = "saving" /\ settings.generation = writeGen /\ payload = settings.draft
      /\ ~Busy(lane["settingsRead"])
      /\ written => file = payload
  BY <1>4 DEF SettingsOK, DialogOK
<1>7. payload \in Docs /\ settings.snapshot \in Docs
  BY <1>4, <1>6 DEF SettingsOK, DocsOK, Settled, Busy, Ready
<1>8. CASE ok
  <2>0. settings' = Saved(settings, payload)
    BY <1>3, <1>6, <1>8 DEF SettingsFinishSave, Saved
  <2>1. /\ IsSettings(settings') /\ settings'.phase = "clean"
        /\ settings'.snapshot = payload /\ settings'.draft = payload
    BY <1>1, <2>0, SavedSettings
  <2>2. file = payload /\ applied' = payload
    BY <1>3, <1>6, <1>8
  <2>3. DocsOK'
    BY <1>2, <1>7, <2>1 DEF SettingsOK, DocsOK, Settled
  <2>4. DialogOK'
    BY <1>4, <1>5, <1>6, <2>1 DEF DialogOK
  <2>5. UpToDate'
    BY <1>2, <1>5, <1>6, <1>7, <2>1, <2>2, DocAssumption DEF UpToDate, Settled
  <2> QED
    BY <1>6, <2>1, <2>3, <2>4, <2>5
<1>9. CASE ~ok
  <2>0. settings' = Unsaved(settings)
    BY <1>3, <1>6, <1>9 DEF SettingsFinishSave, Unsaved
  <2>1. /\ IsSettings(settings') /\ settings'.phase = "dirty"
        /\ settings'.snapshot = settings.snapshot /\ settings'.draft = settings.draft
    BY <1>1, <2>0, UnsavedSettings
  <2>2. applied' = applied /\ unaccounted' = (unaccounted \/ written)
    BY <1>3, <1>9
  <2>3. DocsOK'
    BY <1>2, <1>6, <1>7, <2>1 DEF SettingsOK, DocsOK, Settled
  <2>4. DialogOK'
    BY <1>4, <1>5, <1>6, <2>1 DEF DialogOK
  <2>5. UpToDate'
    BY <1>2, <1>5, <1>6, <2>1, <2>2 DEF SettingsOK, UpToDate, Unreported, Settled
  <2> QED
    BY <2>1, <2>3, <2>4, <2>5
<1> QED
  BY <1>8, <1>9

\* A save under way keeps the edits, whatever else a step does.
KeepsEdits ==
  settings.phase = "saving" =>
    settings'.phase \in {"saving", "clean", "dirty"} /\ settings'.draft = settings.draft

LEMMA StepSettings ==
  ASSUME SettingsOK, [Next]_vars
  PROVE  SettingsOK' /\ KeepsEdits
<1> DEFINE Goal == DocsOK' /\ DialogOK' /\ UpToDate' /\ KeepsEdits
<1> SUFFICES Goal
  BY NextLanes DEF SettingsOK
<1>1. CASE OtherStep \/ ResetDialog \/ ConfirmReset \/ ResetSettles
  BY <1>1, SettingsAside DEF KeepsEdits
<1>2. CASE VersionProbeSucceeds
  BY <1>2, ProbeKeepsSettings DEF KeepsEdits
<1>3. CASE OpenSettings
  BY <1>3, OpenKeepsSettings DEF KeepsEdits
<1>4. CASE EditSettings
  BY <1>4, EditKeepsSettings DEF KeepsEdits
<1>5. CASE ClosePopup
  BY <1>5, CloseKeepsSettings DEF KeepsEdits
<1>6. CASE SaveSettings
  BY <1>6, SaveKeepsSettings DEF KeepsEdits
<1>7. CASE (\E l \in Readers : HelperReads(l)) \/ HelperWrites
  BY <1>7, HelpersKeepSettings DEF KeepsEdits
<1>8. CASE BootstrapSettles
  BY <1>8, BootKeepsSettings DEF KeepsEdits
<1>9. CASE ReadSettles
  BY <1>9, ReadKeepsSettings DEF KeepsEdits
<1>10. CASE WriteSettles
  BY <1>10, WriteKeepsSettings DEF KeepsEdits
<1> HIDE DEF Goal
<1> QED
  BY <1>1, <1>2, <1>3, <1>4, <1>5, <1>6, <1>7, <1>8, <1>9, <1>10 DEF Next, OtherStep

LEMMA NextSettings == SettingsOK /\ [Next]_vars => SettingsOK'
BY StepSettings

\* Once no writer and no dialog's reader is left, and every write was answered,
\* the bar applies the settings file as it is, or has not read it yet.
THEOREM AppliedSettingsAreTheFileHolds == Spec => []AppliedSettingsAreTheFile
<1>1. SettingsOK => AppliedSettingsAreTheFile
  BY DEF SettingsOK, UpToDate, Unreported, AppliedSettingsAreTheFile, Busy, Ready
<1> QED
  BY <1>1, InitSettings, NextSettings, PTL DEF Spec

\* A dialog without unsaved changes shows the settings file as it is, in
\* whatever order reads, saves, closings and timeouts came (CoreSettings.js).
THEOREM CleanDialogShowsTheFileHolds == Spec => []CleanDialogShowsTheFile
<1>1. SettingsOK => CleanDialogShowsTheFile
  BY DEF SettingsOK, DialogOK, UpToDate, Unreported, Settled, CleanDialogShowsTheFile
<1> QED
  BY <1>1, InitSettings, NextSettings, PTL DEF Spec

\* A save that fails or times out leaves the user's edits in the form, also
\* when the popup is closed and reopened meanwhile (applySettingsWriteResult()).
THEOREM SaveKeepsTheEditsHolds == Spec => SaveKeepsTheEdits
<1>1. SettingsOK /\ [Next]_vars => [KeepsEdits]_vars
  BY StepSettings
<1>2. Spec => [][KeepsEdits]_vars
  BY <1>1, InitSettings, NextSettings, PTL DEF Spec
<1> QED
  BY <1>2 DEF KeepsEdits, SaveKeepsTheEdits

---------------------------------------------------------------------------
(* The reset dialog and the claim.                                         *)

\* r has the fields of resetUi, whatever is in them.
IsResetUi(r) == r = [confirmOpen |-> r.confirmOpen, provider |-> r.provider, outcome |-> r.outcome]

ResetOK ==
  /\ IsResetUi(resetUi)
  /\ offering \subseteq Providers
  /\ resetUi.confirmOpen => resetUi.provider \in offering /\ Ready(lane["reset"])
  /\ Busy(lane["reset"]) => claim \in Providers
  /\ ResetBusy => resetUi.provider \in {NoProvider, claim}

LEMMA InitResets == Init => ResetOK
<1> SUFFICES ASSUME Init PROVE ResetOK
  OBVIOUS
<1>1. resetUi = ResetUiIdle /\ offering = {} /\ lane["reset"] = "idle"
  BY LaneNames DEF Init
<1>2. IsResetUi(resetUi) /\ ~resetUi.confirmOpen
  BY <1>1 DEF ResetUiIdle, IsResetUi
<1> QED
  BY <1>1, <1>2 DEF ResetOK, ResetBusy, Busy, Ready

\* What the dialog's operations make of it.
LEMMA ResetUiFields ==
  /\ IsResetUi(ResetUiIdle) /\ ~ResetUiIdle.confirmOpen
  /\ ResetUiIdle.provider = NoProvider /\ ResetUiIdle.outcome = "none"
  /\ \A p : /\ IsResetUi(ResetUiOpenConfirm(p)) /\ ResetUiOpenConfirm(p).provider = p
            /\ ResetUiOpenConfirm(p).outcome = "none"
  /\ \A p, o : /\ IsResetUi(ResetUiSettled(p, o)) /\ ~ResetUiSettled(p, o).confirmOpen
               /\ ResetUiSettled(p, o).provider = p
BY DEF ResetUiIdle, ResetUiOpenConfirm, ResetUiSettled, IsResetUi

LEMMA AwaitingFields ==
  ASSUME NEW r, IsResetUi(r), NEW t, t = ResetUiAwaiting(r)
  PROVE  IsResetUi(t) /\ ~t.confirmOpen /\ t.provider = r.provider /\ t.outcome = "none"
<1>1. PICK v : v = [r EXCEPT !.confirmOpen = FALSE]
  OBVIOUS
<1>2. t = [v EXCEPT !.outcome = "none"]
  BY <1>1 DEF ResetUiAwaiting
<1>3. IsResetUi(v) /\ ~v.confirmOpen /\ v.provider = r.provider
  BY <1>1 DEF IsResetUi
<1> QED
  BY <1>2, <1>3 DEF IsResetUi

\* How a step that neither starts nor settles a claim leaves the dialog: as it
\* was, closed, waiting for the claim, or opened on an offered reset.
Stays ==
  /\ UNCHANGED resetUi
  /\ offering' \subseteq Providers
  /\ resetUi.confirmOpen => resetUi.provider \in offering'
Closes == resetUi' = ResetUiIdle /\ offering' \subseteq Providers
Awaits == resetUi' = ResetUiAwaiting(resetUi) /\ UNCHANGED offering
Opens ==
  /\ \E p \in offering : resetUi' = ResetUiOpenConfirm(p)
  /\ UNCHANGED <<offering, lane>> /\ Ready(lane["reset"])

LEMMA StepDialog ==
  ASSUME ResetOK, [Next]_vars, ~ConfirmReset, ~ResetSettles
  PROVE  Stays \/ Closes \/ Awaits \/ Opens
<1> DEFINE Goal == Stays \/ Closes \/ Awaits \/ Opens
<1> SUFFICES Goal
  OBVIOUS
<1>0. offering \subseteq Providers /\ (resetUi.confirmOpen => resetUi.provider \in offering)
  BY DEF ResetOK
<1>1. ASSUME UNCHANGED <<resetUi, offering>> PROVE Goal
  BY <1>0, <1>1 DEF Stays
<1>2. CASE StatusSettles
  <2>1. CASE UNCHANGED resetVars
    BY <1>1, <2>1 DEF resetVars
  <2>2. ASSUME NEW offers \in Offers, offering' = offers,
               resetUi' = ResetUiAfterSnapshot(resetUi, offers)
                 \/ resetUi' = ResetUiClearOutcome(ResetUiAfterSnapshot(resetUi, offers))
        PROVE  Goal
    <3>1. offers \subseteq Providers
      BY ServiceAssumption
    <3>2. \/ resetUi' = ResetUiIdle
          \/ UNCHANGED resetUi /\ (resetUi.confirmOpen => resetUi.provider \in offers)
      BY <2>2 DEF ResetUiAfterSnapshot, ResetUiClearOutcome
    <3> QED
      BY <2>2, <3>1, <3>2 DEF Stays, Closes
  <2> QED
    BY <1>2, <2>1, <2>2 DEF StatusSettles
<1>3. CASE ClosePopup
  <2>1. UNCHANGED offering /\ (UNCHANGED resetUi \/ resetUi' = ResetUiOnClose(resetUi, ResetBusy))
    BY <1>3 DEF ClosePopup, Popup
  <2> QED
    BY <1>0, <1>1, <2>1 DEF ResetUiOnClose, Closes, Awaits
<1>4. CASE ResetDialog
  <2>1. /\ UNCHANGED <<offering, lane>>
        /\ \/ ~ResetBusy /\ \E p \in offering : resetUi' = ResetUiOpenConfirm(p)
           \/ resetUi' = ResetUiOnClose(resetUi, ResetBusy)
    BY <1>4 DEF ResetDialog, laneVars
  <2> QED
    BY <1>0, <2>1 DEF ResetUiOnClose, ResetBusy, Closes, Awaits, Opens
<1>5. CASE OtherStep /\ ~StatusSettles
  BY <1>1, <1>5 DEF OtherStep, TryStartProduction, ManifestChanged, VersionProbeFails, PollTick, Refresh,
     FollowUp, CorpseExits,
     HelperLost, RequestPopup, StartUpdateCheck, CheckSettles, UpdateDialog, ConfirmUpdate, UpdatePollTick,
     UpdateWindowEnds, UpdateSettles, RestartShell, UninstallDialog, ArmOrConfirmUninstall, HandoffSettles,
     vars, resetVars
<1>6. CASE VersionProbeSucceeds \/ OpenSettings \/ EditSettings \/ SaveSettings \/ BootstrapSettles
           \/ ReadSettles \/ WriteSettles \/ (\E l \in Readers : HelperReads(l)) \/ HelperWrites
  BY <1>1, <1>6 DEF VersionProbeSucceeds, OpenSettings, EditSettings, SaveSettings, BootstrapSettles,
     ReadSettles, WriteSettles, HelperReads, HelperWrites, resetVars
<1> HIDE DEF Goal
<1> QED
  BY <1>2, <1>3, <1>4, <1>5, <1>6 DEF Next, OtherStep

LEMMA ClaimAside ==
  ASSUME LanesOK, [Next]_vars, ~ConfirmReset, ~ResetSettles
  PROVE  Undisturbed("reset") /\ UNCHANGED claim
<1>1. UNCHANGED claim
  <2>1. CASE OtherStep
    BY <2>1 DEF OtherStep, TryStartProduction, ManifestChanged, VersionProbeFails, PollTick, Refresh,
       StatusSettles, FollowUp,
       CorpseExits, HelperLost, RequestPopup, StartUpdateCheck, CheckSettles, UpdateDialog, ConfirmUpdate,
       UpdatePollTick, UpdateWindowEnds, UpdateSettles, RestartShell, UninstallDialog,
       ArmOrConfirmUninstall, HandoffSettles, vars, resetVars
  <2>2. CASE ~OtherStep
    BY <2>2 DEF Next, OtherStep, VersionProbeSucceeds, OpenSettings, EditSettings, SaveSettings,
       BootstrapSettles, ReadSettles, WriteSettles, HelperReads, HelperWrites, ClosePopup, ResetDialog,
       resetVars
  <2> QED
    BY <2>1, <2>2
<1>2. ASSUME UNCHANGED lane \/ \E l : l # "reset" /\ OnlyMoves(l) PROVE Undisturbed("reset")
  BY <1>2, SettingsNames DEF OnlyMoves, Undisturbed
<1>3. CASE OtherStep
  BY <1>1, <1>3, Bystanders, SettingsNames
<1>4. CASE VersionProbeSucceeds
  BY <1>1, <1>2, <1>4, ProbeMoves
<1>5. CASE OpenSettings \/ SaveSettings
  <2>1. PICK l \in {"settingsRead", "settingsWrite"} : lane' = lane \/ lane' = Started(lane, l)
    BY <1>5 DEF OpenSettings, SaveSettings
  <2>2. l \in Lanes /\ l # "reset"
    BY SettingsNames
  <2> QED
    BY <1>1, <1>2, <2>1, <2>2, StartMoves
<1>6. CASE BootstrapSettles \/ ReadSettles \/ WriteSettles
  <2>1. PICK l \in {"settingsRead", "settingsBootstrap", "settingsWrite"}, timedOut \in BOOLEAN :
          Ends(l, timedOut) /\ lane' = Detached(blocked, Ended(l, timedOut))
    BY <1>6 DEF BootstrapSettles, ReadSettles, WriteSettles
  <2>2. l \in DrainedLanes /\ l # "reset"
    BY DrainedNames
  <2> QED
    BY <1>1, <1>2, <2>1, <2>2, SettleMoves
<1>7. CASE EditSettings \/ ClosePopup \/ ResetDialog \/ (\E l \in Readers : HelperReads(l)) \/ HelperWrites
  BY <1>1, <1>2, <1>7 DEF EditSettings, ClosePopup, ResetDialog, HelperReads, HelperWrites, laneVars
<1> QED
  BY <1>3, <1>4, <1>5, <1>6, <1>7 DEF Next, OtherStep

\* A settled claim is shown for the provider it was made for.
LEMMA SettledReset ==
  ASSUME LanesOK, ResetOK, ResetSettles
  PROVE  /\ claim \in Providers /\ UNCHANGED <<claim, offering>>
         /\ IsResetUi(resetUi') /\ ~resetUi'.confirmOpen /\ resetUi'.provider = claim
         /\ ~Busy(lane'["reset"])
<1>1. Busy(lane["reset"]) /\ ~Busy(lane'["reset"])
  BY ResetMoves
<1>2. UNCHANGED <<claim, offering>> /\ \E outcome : resetUi' = ResetUiSettled(claim, outcome)
  BY DEF ResetSettles
<1> QED
  BY <1>1, <1>2, ResetUiFields DEF ResetOK

LEMMA ConfirmedReset ==
  ASSUME LanesOK, ResetOK, ConfirmReset
  PROVE  ResetOK' /\ IsResetUi(resetUi') /\ resetUi'.outcome = "none"
<1>0. /\ IsResetUi(resetUi) /\ resetUi.confirmOpen /\ UNCHANGED offering
      /\ resetUi.provider \in Providers /\ Ready(lane["reset"])
  BY DEF ConfirmReset, ResetOK
<1>1. CASE blocked
  <2>1. resetUi' = ResetUiIdle /\ UNCHANGED lane
    BY <1>1 DEF ConfirmReset
  <2> QED
    BY <1>0, <2>1, ResetUiFields DEF ResetOK, ResetBusy, Busy, Ready
<1>2. CASE ~blocked
  <2>1. resetUi' = ResetUiAwaiting(resetUi) /\ claim' = resetUi.provider
    BY <1>0, <1>2 DEF ConfirmReset
  <2>2. /\ IsResetUi(resetUi') /\ ~resetUi'.confirmOpen
        /\ resetUi'.provider = resetUi.provider /\ resetUi'.outcome = "none"
    BY <1>0, <2>1, AwaitingFields
  <2> QED
    BY <1>0, <2>1, <2>2 DEF ResetOK, ResetBusy
<1> QED
  BY <1>1, <1>2

LEMMA NextResets == LanesOK /\ ResetOK /\ [Next]_vars => ResetOK'
<1> SUFFICES ASSUME LanesOK, ResetOK, [Next]_vars PROVE ResetOK'
  OBVIOUS
<1>1. CASE ConfirmReset
  BY <1>1, ConfirmedReset
<1>2. CASE ResetSettles
  BY <1>2, SettledReset DEF ResetOK, ResetBusy
<1>3. CASE ~ConfirmReset /\ ~ResetSettles
  <2>1. Undisturbed("reset") /\ UNCHANGED claim
    BY <1>3, ClaimAside
  <2>2. CASE Stays
    BY <2>1, <2>2 DEF Stays, ResetOK, ResetBusy, Undisturbed
  <2>3. CASE Closes
    BY <2>1, <2>3, ResetUiFields DEF Closes, ResetOK, ResetBusy, Undisturbed
  <2>4. CASE Awaits
    BY <2>1, <2>4, AwaitingFields DEF Awaits, ResetOK, ResetBusy, Undisturbed
  <2>5. CASE Opens
    BY <2>1, <2>5, ResetUiFields DEF Opens, ResetOK, ResetBusy, Busy, Ready
  <2> QED
    BY <1>3, <2>2, <2>3, <2>4, <2>5, StepDialog
<1> QED
  BY <1>1, <1>2, <1>3

\* The dialog never confirms a reset the latest snapshot does not offer,
\* whichever snapshot settles while it is open (resetUiAfterSnapshot()).
THEOREM DialogOffersACurrentResetHolds == Spec => []DialogOffersACurrentReset
<1>1. ResetOK => DialogOffersACurrentReset
  BY DEF ResetOK, DialogOffersACurrentReset
<1> QED
  BY <1>1, InitLanes, NextLanes, InitResets, NextResets, PTL DEF Spec

---------------------------------------------------------------------------
(* The queue of forced targets, and the refresh a settled claim fires.     *)

LEMMA UnionTargets ==
  ASSUME NEW p \in Pendings, NEW target \in Providers \cup {AllProviders},
         NEW q, q = UnionForced(p, target)
  PROVE  /\ q \in Pendings
         /\ Targets(p) \subseteq Targets(q)
         /\ target \in Providers => target \in Targets(q)
<1>0. p.all \in BOOLEAN /\ p.ids \in SUBSET Providers /\ p = [all |-> p.all, ids |-> p.ids]
  BY DEF Pendings
<1>1. CASE target = AllProviders
  <2>1. q = [all |-> TRUE, ids |-> {}]
    BY <1>1 DEF UnionForced
  <2> QED
    BY <1>0, <2>1 DEF Pendings, Targets
<1>2. CASE target # AllProviders /\ p.all
  BY <1>0, <1>2 DEF UnionForced, Targets
<1>3. CASE target # AllProviders /\ ~p.all
  <2>1. q = [p EXCEPT !.ids = @ \cup {target}]
    BY <1>3 DEF UnionForced
  <2>2. q \in Pendings /\ ~q.all /\ q.ids = p.ids \cup {target}
    BY <1>0, <1>3, <2>1 DEF Pendings
  <2> QED
    BY <1>3, <2>2 DEF Targets
<1> QED
  BY <1>1, <1>2, <1>3

QueueOK == pending \in Pendings /\ captured \in Pendings

\* kickStatus(): the targets are handed to a run, or they stay queued.
Queues(targets, queued) ==
  \/ /\ captured' = targets /\ pending' = EmptyPending
     /\ resetRun' = queued /\ resetQueued' = FALSE
  \/ /\ pending' = targets /\ UNCHANGED captured
     /\ resetQueued' = queued /\ (resetRun' => resetRun)

LEMMA KickQueues ==
  ASSUME NEW able, NEW L, NEW targets, NEW queued, KickStatus(able, L, targets, queued)
  PROVE  Queues(targets, queued)
BY DEF KickStatus, Queues

LEMMA InitQueue == Init => QueueOK
BY DEF Init, QueueOK, EmptyPending, Pendings

\* What a step makes of the queue: nothing, or the kick of all that is in it.
Kicks(queued) ==
  \E targets \in Pendings : Targets(pending) \subseteq Targets(targets) /\ Queues(targets, queued)

LEMMA StepQueue ==
  ASSUME QueueOK, [Next]_vars, ~ResetSettles
  PROVE  UNCHANGED statusVars \/ Kicks(resetQueued)
<1>0. pending \in Pendings
  BY DEF QueueOK
<1>1. ASSUME NEW able, NEW L, KickStatus(able, L, pending, resetQueued) PROVE Kicks(resetQueued)
  BY <1>0, <1>1, KickQueues DEF Kicks
<1>2. CASE VersionProbeSucceeds \/ PollTick \/ FollowUp \/ StatusSettles
  <2>1. \E able, L : KickStatus(able, L, pending, resetQueued)
    BY <1>2 DEF VersionProbeSucceeds, PollTick, FollowUp, StatusSettles, FollowUpStatus
  <2> QED
    BY <1>1, <2>1
<1>3. CASE Refresh
  <2>1. ASSUME NEW target \in Providers \cup {AllProviders},
               KickStatus(CanKick, lane, UnionForced(pending, target), resetQueued)
        PROVE  Kicks(resetQueued)
    <3>1. PICK targets : targets = UnionForced(pending, target)
      OBVIOUS
    <3>2. targets \in Pendings /\ Targets(pending) \subseteq Targets(targets)
      BY <1>0, <3>1, UnionTargets
    <3>3. Queues(targets, resetQueued)
      BY <2>1, <3>1, KickQueues
    <3> QED
      BY <3>2, <3>3 DEF Kicks
  <2> QED
    BY <1>1, <1>3, <2>1 DEF Refresh
<1>4. CASE OtherStep /\ ~PollTick /\ ~Refresh /\ ~FollowUp /\ ~StatusSettles
  BY <1>4 DEF OtherStep, TryStartProduction, ManifestChanged, VersionProbeFails, CorpseExits, HelperLost,
     RequestPopup,
     StartUpdateCheck, CheckSettles, UpdateDialog, ConfirmUpdate, UpdatePollTick, UpdateWindowEnds,
     UpdateSettles, RestartShell, UninstallDialog, ArmOrConfirmUninstall, HandoffSettles, vars
<1>5. CASE OpenSettings \/ EditSettings \/ SaveSettings \/ BootstrapSettles \/ ReadSettles \/ WriteSettles
           \/ (\E l \in Readers : HelperReads(l)) \/ HelperWrites \/ ClosePopup \/ ResetDialog \/ ConfirmReset
  BY <1>5 DEF OpenSettings, EditSettings, SaveSettings, BootstrapSettles, ReadSettles, WriteSettles,
     HelperReads, HelperWrites, ClosePopup, ResetDialog, ConfirmReset
<1> QED
  BY <1>2, <1>3, <1>4, <1>5 DEF Next, OtherStep

\* A settled claim queues its provider, except while the hand-off drains.
LEMMA SettledQueue ==
  ASSUME LanesOK, ResetOK, QueueOK, ResetSettles
  PROVE  \/ blocked /\ UNCHANGED statusVars
         \/ /\ ~blocked
            /\ \E targets \in Pendings : /\ Targets(pending) \subseteq Targets(targets)
                                         /\ claim \in Targets(targets)
                                         /\ Queues(targets, TRUE)
<1>1. claim \in Providers
  BY SettledReset
<1>2. CASE blocked
  BY <1>2 DEF ResetSettles
<1>3. CASE ~blocked
  <2>1. PICK queued \in BOOLEAN : queued = TRUE
    OBVIOUS
  <2>2. PICK targets : targets = UnionForced(pending, claim)
    OBVIOUS
  <2>3. PICK L : KickStatus(CanKick, L, targets, queued)
    BY <1>3, <2>1, <2>2 DEF ResetSettles
  <2>4. Queues(targets, queued)
    BY <2>3, KickQueues
  <2>5. targets \in Pendings /\ Targets(pending) \subseteq Targets(targets) /\ claim \in Targets(targets)
    BY <1>1, <2>2, UnionTargets DEF QueueOK
  <2> QED
    BY <1>3, <2>1, <2>4, <2>5
<1> QED
  BY <1>2, <1>3

LEMMA KeptQueue ==
  ASSUME QueueOK, UNCHANGED statusVars \/ \E queued : Kicks(queued)
  PROVE  QueueOK' /\ Targets(pending) \subseteq Targets(pending') \cup Targets(captured')
<1>0. EmptyPending \in Pendings
  BY DEF EmptyPending, Pendings
<1>1. CASE UNCHANGED statusVars
  BY <1>1 DEF QueueOK, Targets, statusVars
<1>2. ASSUME NEW queued, Kicks(queued)
      PROVE  QueueOK' /\ Targets(pending) \subseteq Targets(pending') \cup Targets(captured')
  <2>1. PICK targets \in Pendings : Targets(pending) \subseteq Targets(targets) /\ Queues(targets, queued)
    BY <1>2 DEF Kicks
  <2>2. \/ captured' = targets /\ pending' = EmptyPending
        \/ pending' = targets /\ UNCHANGED captured
    BY <2>1 DEF Queues
  <2> QED
    BY <1>0, <2>1, <2>2 DEF QueueOK
<1> QED
  BY <1>1, <1>2

\* No step loses a queued target.
KeepsTargets == Targets(pending) \subseteq Targets(pending') \cup Targets(captured')

LEMMA NextQueue ==
  LanesOK /\ ResetOK /\ QueueOK /\ [Next]_vars => QueueOK' /\ KeepsTargets
<1> SUFFICES ASSUME LanesOK, ResetOK, QueueOK, [Next]_vars PROVE QueueOK' /\ KeepsTargets
  OBVIOUS
<1>1. CASE ResetSettles
  BY <1>1, SettledQueue, KeptQueue DEF Kicks, KeepsTargets
<1>2. CASE ~ResetSettles
  BY <1>2, StepQueue, KeptQueue DEF KeepsTargets
<1> QED
  BY <1>1, <1>2

\* A target queued behind a running status helper leaves the queue only with a
\* run that asks for it, whatever is queued, settled or timed out meanwhile.
THEOREM QueuedTargetsAreNotDroppedHolds == Spec => QueuedTargetsAreNotDropped
<1>1. LanesOK /\ ResetOK /\ QueueOK /\ [Next]_vars => [KeepsTargets]_vars
  BY NextQueue
<1>2. LanesOK /\ ResetOK /\ QueueOK /\ [Next]_vars => QueueOK'
  BY NextQueue
<1>3. Spec => [][KeepsTargets]_vars
  BY <1>1, <1>2, InitLanes, NextLanes, InitResets, NextResets, InitQueue, PTL DEF Spec
<1> QED
  BY <1>3 DEF KeepsTargets, QueuedTargetsAreNotDropped

\* What the refresh of a settled claim still has to carry.  It needs that no
\* hand-off ever blocks the Service: a claim that settles while it drains fires
\* no refresh, and finds the flags of an earlier claim's (applyResetResult()).
CarriedOK ==
  /\ ~blocked
  /\ resetUi.outcome # "none" =>
       /\ resetUi.provider \in Providers
       /\ resetQueued => resetUi.provider \in Targets(pending)
       /\ resetRun /\ ~resetQueued => resetUi.provider \in Targets(captured)

LEMMA InitCarried == Init => CarriedOK
BY DEF Init, CarriedOK, ResetUiIdle

LEMMA NeverBlocked ==
  ASSUME "uninstall" \notin UserOps, ~blocked, [Next]_vars
  PROVE  ~blocked'
<1>1. ~ArmOrConfirmUninstall
  BY DEF ArmOrConfirmUninstall, AboutTab
<1>2. CASE OtherStep
  BY <1>1, <1>2 DEF OtherStep, TryStartProduction, ManifestChanged, VersionProbeFails, PollTick, Refresh,
     StatusSettles,
     FollowUp, CorpseExits, HelperLost, RequestPopup, StartUpdateCheck, CheckSettles, UpdateDialog,
     ConfirmUpdate, UpdatePollTick, UpdateWindowEnds, UpdateSettles, RestartShell, UninstallDialog,
     HandoffSettles, vars, maintVars
<1>3. CASE ~OtherStep
  BY <1>3 DEF Next, OtherStep, VersionProbeSucceeds, OpenSettings, EditSettings, SaveSettings,
     BootstrapSettles, ReadSettles, WriteSettles, HelperReads, HelperWrites, ClosePopup, ResetDialog,
     ConfirmReset, ResetSettles, maintVars
<1> QED
  BY <1>2, <1>3

LEMMA NextCarried ==
  ASSUME "uninstall" \notin UserOps
  PROVE  LanesOK /\ ResetOK /\ QueueOK /\ CarriedOK /\ [Next]_vars => CarriedOK'
<1> SUFFICES ASSUME LanesOK, ResetOK, QueueOK, CarriedOK, [Next]_vars PROVE CarriedOK'
  OBVIOUS
<1>1. ~blocked /\ ~blocked'
  BY NeverBlocked DEF CarriedOK
<1>2. CASE ResetSettles
  <2>1. PICK targets \in Pendings : claim \in Targets(targets) /\ Queues(targets, TRUE)
    BY <1>1, <1>2, SettledQueue
  <2>2. claim \in Providers /\ resetUi'.provider = claim
    BY <1>2, SettledReset
  <2>3. CASE captured' = targets /\ ~resetQueued'
    BY <1>1, <2>1, <2>2, <2>3 DEF CarriedOK
  <2>4. CASE pending' = targets /\ resetQueued'
    BY <1>1, <2>1, <2>2, <2>4 DEF CarriedOK
  <2> QED
    BY <2>1, <2>3, <2>4 DEF Queues
<1>3. CASE ~ResetSettles
  <2>1. \/ resetUi'.outcome = "none"
        \/ resetUi' = resetUi
    <3>1. CASE ConfirmReset
      BY <3>1, ConfirmedReset
    <3>2. CASE ~ConfirmReset
      BY <1>3, <3>2, StepDialog, ResetUiFields, AwaitingFields DEF Stays, Closes, Awaits, Opens, ResetOK
    <3> QED
      BY <3>1, <3>2
  <2>2. CASE resetUi'.outcome = "none"
    BY <1>1, <2>2 DEF CarriedOK
  <2>3. CASE resetUi' = resetUi /\ UNCHANGED statusVars
    <3>1. UNCHANGED <<pending, captured, resetQueued, resetRun>>
      BY <2>3 DEF statusVars
    <3> QED
      BY <1>1, <2>3, <3>1 DEF CarriedOK, Targets
  <2>4. CASE resetUi' = resetUi /\ Kicks(resetQueued)
    <3>1. PICK targets \in Pendings : Targets(pending) \subseteq Targets(targets) /\ Queues(targets, resetQueued)
      BY <2>4 DEF Kicks
    <3>2. CASE captured' = targets /\ resetRun' = resetQueued /\ ~resetQueued'
      BY <1>1, <2>4, <3>1, <3>2 DEF CarriedOK
    <3>3. CASE /\ pending' = targets /\ UNCHANGED captured
               /\ resetQueued' = resetQueued /\ (resetRun' => resetRun)
      BY <1>1, <2>4, <3>1, <3>3 DEF CarriedOK
    <3> QED
      BY <3>1, <3>2, <3>3 DEF Queues
  <2> QED
    BY <1>3, <2>1, <2>2, <2>3, <2>4, StepQueue
<1> QED
  BY <1>2, <1>3

\* The claim under way is the one shown as under way, and the refresh a settled
\* claim fires carries its provider, queued or running (applyResetResult()):
\* where no uninstall is asked for.
THEOREM ClaimShownIsTheOneRunningHolds ==
  ASSUME "uninstall" \notin UserOps
  PROVE  Spec => []ClaimShownIsTheOneRunning
<1>1. ResetOK /\ CarriedOK => ClaimShownIsTheOneRunning
  BY DEF ResetOK, CarriedOK, ClaimShownIsTheOneRunning, ResetBusy
<1> QED
  BY <1>1, InitLanes, NextLanes, InitResets, NextResets, InitQueue, NextQueue, InitCarried, NextCarried, PTL
  DEF Spec

---------------------------------------------------------------------------
(* Queued targets need no poll.                                            *)

\* kickStatus() leaves targets queued only where it cannot run them.
LEMMA KickServes ==
  ASSUME NEW able, NEW L, NEW targets, NEW queued, KickStatus(able, L, targets, queued),
         CanKick' => able \/ PendingIsEmpty(targets)
  PROVE  QueuedTargetsNeedNoPoll'
<1>1. CASE able /\ Ready(L["status"])
  <2>1. pending' = EmptyPending
    BY <1>1 DEF KickStatus
  <2> QED
    BY <2>1 DEF QueuedTargetsNeedNoPoll, PendingIsEmpty, EmptyPending
<1>2. CASE ~(able /\ Ready(L["status"]))
  <2>1. pending' = targets /\ lane' = L
    BY <1>2 DEF KickStatus
  <2> QED
    BY <1>2, <2>1 DEF QueuedTargetsNeedNoPoll
<1> QED
  BY <1>1, <1>2

\* The steps that have no part in the queue leave the status lane alone.
LEMMA StatusAside ==
  ASSUME LanesOK,
         \/ OpenSettings \/ SaveSettings \/ BootstrapSettles \/ ReadSettles \/ WriteSettles
         \/ StartUpdateCheck \/ CheckSettles \/ ConfirmUpdate \/ UpdatePollTick \/ UpdateSettles
         \/ HandoffSettles \/ ConfirmReset
  PROVE  lane'["status"] = lane["status"]
<1>0. lane \in LaneMaps
  BY DEF LanesOK
<1>1. ASSUME NEW l \in Lanes \ {"status"}, lane' = lane \/ lane' = Started(lane, l)
      PROVE  lane'["status"] = lane["status"]
  <2>1. PICK M : M = Started(lane, l)
    OBVIOUS
  <2>2. l \in Lanes
    OBVIOUS
  <2>3. \A k \in Lanes \ {l} : M[k] = lane[k]
    BY <1>0, <2>1, <2>2, StartedLanes
  <2> QED
    BY <1>1, <2>1, <2>3, LaneNames
<1>2. ASSUME NEW l \in Lanes \ {"status"}, NEW timedOut \in BOOLEAN, Ends(l, timedOut), lane' = Ended(l, timedOut)
      PROVE  lane'["status"] = lane["status"]
  BY <1>0, <1>2, LaneNames, EndedLanes
<1>3. ASSUME NEW l \in DrainedLanes \ {"status"}, NEW timedOut \in BOOLEAN, Ends(l, timedOut),
             lane' = Detached(blocked, Ended(l, timedOut))
      PROVE  lane'["status"] = lane["status"]
  BY <1>3, LaneNames, SettledLanes
<1>4. CASE OpenSettings \/ SaveSettings \/ StartUpdateCheck \/ ConfirmUpdate \/ UpdatePollTick \/ ConfirmReset
  <2>1. \/ lane' = lane
        \/ lane' = Started(lane, "settingsRead") \/ lane' = Started(lane, "settingsWrite")
        \/ lane' = Started(lane, "maintenanceCheck") \/ lane' = Started(lane, "update")
        \/ lane' = Started(lane, "reset")
    BY <1>4 DEF OpenSettings, SaveSettings, StartUpdateCheck, ConfirmUpdate, UpdatePollTick, ConfirmReset
  <2> QED
    BY <1>1, <2>1, LaneNames
<1>5. CASE UpdateSettles \/ HandoffSettles
  <2>1. \E l \in Lanes \ {"status"}, timedOut \in BOOLEAN : Ends(l, timedOut) /\ lane' = Ended(l, timedOut)
    BY <1>5, LaneNames DEF UpdateSettles, HandoffSettles
  <2> QED
    BY <1>2, <2>1
<1>6. CASE BootstrapSettles \/ ReadSettles \/ WriteSettles \/ CheckSettles
  <2>1. \E l \in DrainedLanes \ {"status"}, timedOut \in BOOLEAN :
          Ends(l, timedOut) /\ lane' = Detached(blocked, Ended(l, timedOut))
    BY <1>6, DrainedNames DEF BootstrapSettles, ReadSettles, WriteSettles, CheckSettles
  <2> QED
    BY <1>3, <2>1
<1> QED
  BY <1>4, <1>5, <1>6

ServedOK == ~blocked /\ QueuedTargetsNeedNoPoll

LEMMA NextServed ==
  ASSUME "uninstall" \notin UserOps
  PROVE  LanesOK /\ ServedOK /\ [Next]_vars => ServedOK'
<1> SUFFICES ASSUME LanesOK, ServedOK, [Next]_vars PROVE ServedOK'
  OBVIOUS
<1>1. ~blocked /\ ~blocked'
  BY NeverBlocked DEF ServedOK
<1> SUFFICES QueuedTargetsNeedNoPoll'
  BY <1>1 DEF ServedOK
<1>2. CASE TryStartProduction \/ ManifestChanged \/ VersionProbeFails
  <2>1. version' # "ready" \/ UNCHANGED <<version, lane, pending, followUp>>
    BY <1>2 DEF TryStartProduction, ManifestChanged, VersionProbeFails, statusVars
  <2> QED
    BY <2>1 DEF CanKick, ServedOK, QueuedTargetsNeedNoPoll
<1>3. CASE VersionProbeSucceeds
  <2>1. \E L : KickStatus(TRUE, L, pending, resetQueued)
    BY <1>1, <1>3 DEF VersionProbeSucceeds
  <2> QED
    BY <2>1, KickServes
<1>4. CASE PollTick
  BY <1>4, KickServes DEF PollTick
<1>5. CASE Refresh \/ ResetSettles
  <2>1. UNCHANGED version
    BY <1>5 DEF Refresh, ResetSettles, pollVars
  <2>2. CanKick' => CanKick
    BY <1>1, <2>1 DEF CanKick
  <2>3. \E L, targets, queued : KickStatus(CanKick, L, targets, queued)
    BY <1>1, <1>5 DEF Refresh, ResetSettles
  <2> QED
    BY <2>2, <2>3, KickServes
<1>6. CASE StatusSettles \/ FollowUp
  <2>1. UNCHANGED version
    BY <1>6 DEF StatusSettles, FollowUp
  <2>2. CanKick' => (CanKick /\ ~PendingIsEmpty(pending)) \/ PendingIsEmpty(pending)
    BY <1>1, <2>1 DEF CanKick
  <2>3. \E L : KickStatus(CanKick /\ ~PendingIsEmpty(pending), L, pending, resetQueued)
    BY <1>6 DEF StatusSettles, FollowUp, FollowUpStatus
  <2> QED
    BY <2>2, <2>3, KickServes
<1>7. ASSUME UNCHANGED <<version, pending>>, followUp => followUp',
             Ready(lane'["status"]) => Ready(lane["status"]) \/ followUp'
      PROVE  QueuedTargetsNeedNoPoll'
  BY <1>1, <1>7 DEF ServedOK, QueuedTargetsNeedNoPoll, CanKick
<1>8. ASSUME NEW l \in Lanes, CorpseExits(l) PROVE QueuedTargetsNeedNoPoll'
  <2>1. UNCHANGED <<version, pending>> /\ followUp' = (followUp \/ l = "status")
    BY <1>8 DEF CorpseExits, LaneReopens, statusVars
  <2>2. l # "status" => lane'["status"] = lane["status"]
    BY <1>8, LaneNames DEF CorpseExits, LanesOK, LaneMaps
  <2> QED
    BY <1>7, <2>1, <2>2
<1>9. ASSUME NEW l \in Lanes, HelperLost(l) PROVE QueuedTargetsNeedNoPoll'
  <2>1. UNCHANGED <<version, pending, followUp>>
    BY <1>9 DEF HelperLost, pollVars, statusVars
  <2>2. Ready(lane'["status"]) => Ready(lane["status"])
    BY <1>9, LaneNames DEF HelperLost, LanesOK, LaneMaps, Ready
  <2> QED
    BY <1>7, <2>1, <2>2
<1>10. CASE \/ OpenSettings \/ SaveSettings \/ BootstrapSettles \/ ReadSettles \/ WriteSettles
            \/ StartUpdateCheck \/ CheckSettles \/ ConfirmUpdate \/ UpdatePollTick \/ UpdateSettles
            \/ HandoffSettles \/ ConfirmReset
  <2>1. UNCHANGED <<version, pending, followUp>>
    BY <1>10 DEF OpenSettings, SaveSettings, BootstrapSettles, ReadSettles, WriteSettles, StartUpdateCheck,
       CheckSettles, ConfirmUpdate, UpdatePollTick, UpdateSettles, HandoffSettles, ConfirmReset, pollVars, statusVars
  <2>2. lane'["status"] = lane["status"]
    BY <1>10, StatusAside
  <2> QED
    BY <1>7, <2>1, <2>2
<1>11. CASE \/ (\E l \in Readers : HelperReads(l)) \/ HelperWrites \/ ClosePopup \/ RequestPopup \/ EditSettings
            \/ UpdateDialog \/ UpdateWindowEnds \/ RestartShell \/ UninstallDialog \/ ResetDialog \/ UNCHANGED vars
  <2>1. UNCHANGED <<version, pending, followUp, lane>>
    BY <1>11 DEF HelperReads, HelperWrites, ClosePopup, RequestPopup, EditSettings, UpdateDialog,
       UpdateWindowEnds,
       RestartShell, UninstallDialog, ResetDialog, vars, pollVars, statusVars, laneVars
  <2> QED
    BY <1>7, <2>1
<1>12. ~ArmOrConfirmUninstall
  BY DEF ArmOrConfirmUninstall, AboutTab
<1> QED
  BY <1>2, <1>3, <1>4, <1>5, <1>6, <1>8, <1>9, <1>10, <1>11, <1>12 DEF Next

\* A target queued behind a status helper, also behind one that is still dying, is
\* never left for the next poll (statusLane.onReadyChanged, maybeFollowUpStatus()):
\* where no uninstall is asked for.
THEOREM QueuedTargetsNeedNoPollHolds ==
  ASSUME "uninstall" \notin UserOps
  PROVE  Spec => []QueuedTargetsNeedNoPoll
<1>1. Init => ServedOK
  BY DEF Init, ServedOK, QueuedTargetsNeedNoPoll, CanKick
<1>2. ServedOK => QueuedTargetsNeedNoPoll
  BY DEF ServedOK
<1> QED
  BY <1>1, <1>2, InitLanes, NextLanes, NextServed, PTL DEF Spec

---------------------------------------------------------------------------
(* The contract of the lanes.                                              *)

\* What calls that start lanes make of them.
Grows(L, M) == \A k \in Lanes : M[k] = L[k] \/ (Ready(L[k]) /\ M[k] = "running")

LEMMA StartedGrows ==
  ASSUME NEW L \in LaneMaps, NEW l \in Lanes
  PROVE  Started(L, l) \in LaneMaps /\ Grows(L, Started(L, l))
<1>1. PICK M : M = Started(L, l)
  OBVIOUS
<1>2. M \in LaneMaps /\ Grows(L, M)
  BY <1>1, StartedLanes DEF Grows
<1> QED
  BY <1>1, <1>2

LEMMA GrowsOn ==
  ASSUME NEW L, NEW M, NEW N, Grows(L, M), Grows(M, N)
  PROVE  Grows(L, N)
BY DEF Grows, Ready

LEMMA DetachedGrows ==
  ASSUME NEW L \in LaneMaps, NEW handoff \in BOOLEAN
  PROVE  Detached(handoff, L) \in LaneMaps /\ Grows(L, Detached(handoff, L))
<1>1. Detached(handoff, L) \in {L, Started(L, "maintenanceHandoff")}
  BY DEF Detached
<1>2. Grows(L, L)
  BY DEF Grows
<1>3. Started(L, "maintenanceHandoff") \in LaneMaps /\ Grows(L, Started(L, "maintenanceHandoff"))
  BY LaneNames, StartedGrows
<1> QED
  BY <1>1, <1>2, <1>3

LEMMA KickGrows ==
  ASSUME NEW able, NEW L \in LaneMaps, NEW targets, NEW queued, KickStatus(able, L, targets, queued)
  PROVE  Grows(L, lane')
BY KickLanes DEF Grows

\* The lanes and their marks are typed.
MarksOK == LanesOK /\ stall \in [Lanes -> BOOLEAN]

Contracted ==
  /\ stall' \in [Lanes -> BOOLEAN]
  /\ \A l \in Lanes : LaneStep(lane[l], stall[l], lane'[l], stall'[l])

\* Calls alone keep the contract of every lane.
LEMMA CallsKeepTheContract ==
  ASSUME MarksOK, Grows(lane, lane'), UNCHANGED stall
  PROVE  Contracted
BY DEF MarksOK, Grows, Contracted, LaneStep

\* So does a settlement, and the calls its handler makes of the lanes it leaves.
LEMMA SettlementKeepsTheContract ==
  ASSUME MarksOK, NEW l \in Lanes, NEW timedOut \in BOOLEAN, Ends(l, timedOut),
         MarkStall(l, timedOut), Grows(Ended(l, timedOut), lane')
  PROVE  Contracted
<1>1. lane \in LaneMaps /\ stall \in [Lanes -> BOOLEAN]
  BY DEF MarksOK, LanesOK
<1>2. PICK E : E = Ended(l, timedOut)
  OBVIOUS
<1>3. /\ \A k \in Lanes \ {l} : E[k] = lane[k]
      /\ E[l] = IF timedOut THEN Expired(lane[l]) ELSE "idle"
  BY <1>1, <1>2 DEF Ended, LaneMaps
<1>4. /\ stall' \in [Lanes -> BOOLEAN]
      /\ stall'[l] = timedOut
      /\ \A k \in Lanes \ {l} : stall'[k] \in {stall[k], FALSE}
  BY <1>1 DEF MarkStall
<1>5. \A k \in Lanes : lane'[k] = E[k] \/ (Ready(E[k]) /\ lane'[k] = "running")
  BY <1>2 DEF Grows
<1>6. Busy(lane[l]) /\ (~timedOut => lane[l] = "running")
  BY DEF Ends, Busy
<1>7. \A k \in Lanes \ {l} : LaneStep(lane[k], stall[k], lane'[k], stall'[k])
  BY <1>3, <1>4, <1>5 DEF LaneStep
<1>8. CASE timedOut
  <2>1. LaneStep(lane[l], stall[l], lane'[l], stall'[l])
    BY <1>3, <1>4, <1>5, <1>6, <1>8 DEF LaneStep
  <2> QED
    BY <1>4, <1>7, <2>1 DEF Contracted
<1>9. CASE ~timedOut
  <2>1. LaneStep(lane[l], stall[l], lane'[l], stall'[l])
    BY <1>3, <1>4, <1>5, <1>6, <1>9 DEF LaneStep
  <2> QED
    BY <1>4, <1>7, <2>1 DEF Contracted
<1> QED
  BY <1>8, <1>9

\* A settlement whose handler calls tryMaintenanceDetach() and no more.
LEMMA DetachesGrow ==
  ASSUME LanesOK, NEW l \in Lanes, NEW timedOut \in BOOLEAN, Ends(l, timedOut)
  PROVE  /\ Detached(blocked, Ended(l, timedOut)) \in LaneMaps
         /\ Grows(Ended(l, timedOut), Detached(blocked, Ended(l, timedOut)))
<1>1. Ended(l, timedOut) \in LaneMaps
  BY EndedLanes DEF LanesOK
<1> QED
  BY <1>1, DetachedGrows DEF LanesOK

\* The probe's success starts up to three lanes.
LEMMA ProbeKeepsTheContract ==
  ASSUME MarksOK, VersionProbeSucceeds
  PROVE  Contracted
<1> DEFINE boots == applied = NoDoc /\ ~blocked /\ Ready(lane["settingsBootstrap"])
<1>0. PICK early \in BOOLEAN : early = FALSE
  OBVIOUS
<1>1. Ends("versionProbe", early) /\ MarkStall("versionProbe", early)
  BY <1>0 DEF VersionProbeSucceeds
<1>2. PICK E : E = Ended("versionProbe", early)
  OBVIOUS
<1>3. E \in LaneMaps
  BY <1>1, <1>2, LaneNames, EndedLanes DEF MarksOK, LanesOK
<1>4. PICK polled : polled = Started(E, "update")
  OBVIOUS
<1>5. polled \in LaneMaps /\ Grows(E, polled)
  BY <1>3, <1>4, LaneNames, StartedGrows
<1>6. PICK booted : booted = IF boots THEN Started(polled, "settingsBootstrap") ELSE polled
  OBVIOUS
<1>7. booted \in LaneMaps /\ Grows(polled, booted)
  <2>1. Grows(polled, polled)
    BY DEF Grows
  <2>2. Started(polled, "settingsBootstrap") \in LaneMaps /\ Grows(polled, Started(polled, "settingsBootstrap"))
    BY <1>5, LaneNames, StartedGrows
  <2> QED
    BY <1>5, <1>6, <2>1, <2>2
<1>8. KickStatus(~blocked, booted, pending, resetQueued)
  BY <1>0, <1>2, <1>4, <1>6 DEF VersionProbeSucceeds
<1>9. Grows(booted, lane')
  BY <1>7, <1>8, KickGrows
<1>10. Grows(E, lane')
  BY <1>5, <1>7, <1>9, GrowsOn
<1> QED
  BY <1>1, <1>2, <1>10, LaneNames, SettlementKeepsTheContract

LEMMA StepContract ==
  ASSUME MarksOK, [Next]_vars
  PROVE  Contracted
<1>0. lane \in LaneMaps /\ blocked \in BOOLEAN /\ stall \in [Lanes -> BOOLEAN] /\ LanesOK
  BY DEF MarksOK, LanesOK
<1>1. ASSUME UNCHANGED stall, UNCHANGED lane PROVE Contracted
  BY <1>0, <1>1 DEF Contracted, LaneStep
<1>2. ASSUME UNCHANGED stall, NEW l \in Lanes, lane' = Started(lane, l) PROVE Contracted
  BY <1>0, <1>2, StartedGrows, CallsKeepTheContract
<1>3. CASE \/ TryStartProduction \/ ManifestChanged \/ OpenSettings \/ SaveSettings \/ StartUpdateCheck
           \/ ConfirmUpdate \/ UpdatePollTick \/ ConfirmReset
  <2>1. UNCHANGED stall /\ (UNCHANGED lane \/ \E l \in Lanes : lane' = Started(lane, l))
    BY <1>3, LaneNames DEF TryStartProduction, ManifestChanged, OpenSettings, SaveSettings, StartUpdateCheck,
       ConfirmUpdate,
       UpdatePollTick, ConfirmReset
  <2> QED
    BY <1>1, <1>2, <2>1
<1>4. CASE PollTick \/ Refresh \/ FollowUp
  <2>1. UNCHANGED stall /\ \E able, targets, queued : KickStatus(able, lane, targets, queued)
    BY <1>4 DEF PollTick, Refresh, FollowUp, FollowUpStatus
  <2> QED
    BY <1>0, <2>1, KickGrows, CallsKeepTheContract
<1>5. CASE VersionProbeFails \/ UpdateSettles \/ HandoffSettles
  <2>1. PICK l \in Lanes, timedOut \in BOOLEAN :
          Ends(l, timedOut) /\ MarkStall(l, timedOut) /\ lane' = Ended(l, timedOut)
    BY <1>5, LaneNames DEF VersionProbeFails, UpdateSettles, HandoffSettles
  <2>2. Grows(Ended(l, timedOut), lane')
    BY <2>1 DEF Grows
  <2> QED
    BY <2>1, <2>2, SettlementKeepsTheContract
<1>6. CASE VersionProbeSucceeds
  BY <1>6, ProbeKeepsTheContract
<1>7. CASE BootstrapSettles \/ ReadSettles \/ WriteSettles \/ CheckSettles
  <2>1. PICK l \in Lanes, timedOut \in BOOLEAN :
          /\ Ends(l, timedOut) /\ MarkStall(l, timedOut)
          /\ lane' = Detached(blocked, Ended(l, timedOut))
    BY <1>7, LaneNames DEF BootstrapSettles, ReadSettles, WriteSettles, CheckSettles
  <2>2. Grows(Ended(l, timedOut), lane')
    BY <1>0, <2>1, DetachesGrow
  <2> QED
    BY <2>1, <2>2, SettlementKeepsTheContract
<1>8. CASE StatusSettles \/ ResetSettles
  <2>1. PICK l, timedOut, L :
          /\ l \in Lanes /\ timedOut \in BOOLEAN
          /\ Ends(l, timedOut) /\ MarkStall(l, timedOut)
          /\ L = Detached(blocked, Ended(l, timedOut))
          /\ lane' = L \/ \E able, targets, queued : KickStatus(able, L, targets, queued)
    BY <1>8, LaneNames DEF StatusSettles, ResetSettles, FollowUpStatus
  <2>2. L \in LaneMaps /\ Grows(Ended(l, timedOut), L)
    BY <1>0, <2>1, DetachesGrow
  <2>3. Grows(L, lane')
    <3>1. CASE lane' = L
      BY <3>1 DEF Grows
    <3>2. CASE \E able, targets, queued : KickStatus(able, L, targets, queued)
      BY <2>2, <3>2, KickGrows
    <3> QED
      BY <2>1, <3>1, <3>2
  <2>4. Grows(Ended(l, timedOut), lane')
    BY <2>2, <2>3, GrowsOn
  <2> QED
    BY <2>1, <2>4, SettlementKeepsTheContract
<1>9. ASSUME NEW l \in Lanes, CorpseExits(l) PROVE Contracted
  <2>1. /\ lane[l] = "dying" /\ lane' = [lane EXCEPT ![l] = "idle"]
        /\ stall' = [stall EXCEPT ![l] = FALSE]
    BY <1>9 DEF CorpseExits
  <2> QED
    BY <1>0, <2>1 DEF Contracted, LaneStep, LaneMaps
<1>10. ASSUME NEW l \in Lanes, HelperLost(l) PROVE Contracted
  <2>1. lane[l] = "running" /\ lane' = [lane EXCEPT ![l] = "lost"] /\ UNCHANGED stall
    BY <1>10 DEF HelperLost
  <2> QED
    BY <1>0, <2>1 DEF Contracted, LaneStep, LaneMaps
<1>11. CASE ArmOrConfirmUninstall
  <2>1. UNCHANGED stall /\ (UNCHANGED lane \/ lane' = Detached(TRUE, lane))
    BY <1>11 DEF ArmOrConfirmUninstall
  <2> QED
    BY <1>0, <1>1, <2>1, DetachedGrows, CallsKeepTheContract
<1>12. CASE \/ \E l \in Readers : HelperReads(l)
            \/ HelperWrites \/ ClosePopup \/ RequestPopup \/ EditSettings \/ UpdateDialog \/ UpdateWindowEnds
            \/ RestartShell \/ UninstallDialog \/ ResetDialog \/ UNCHANGED vars
  BY <1>1, <1>12 DEF HelperReads, HelperWrites, ClosePopup, RequestPopup, EditSettings, UpdateDialog,
     UpdateWindowEnds, RestartShell, UninstallDialog, ResetDialog, vars, laneVars
<1> QED
  BY <1>3, <1>4, <1>5, <1>6, <1>7, <1>8, <1>9, <1>10, <1>11, <1>12 DEF Next

\* In every step of the Service each of its lanes does what a HelperLane may do,
\* whatever chain of calls the handler makes (kickStatus(), tryMaintenanceDetach(),
\* noteLaneSettled()): nothing else of the lanes is relied on.
THEOREM LanesKeepTheirContractHolds == Spec => LanesKeepTheirContract
<1>1. Init => MarksOK
  BY InitLanes DEF Init, MarksOK
<1>2. MarksOK /\ [Next]_vars => MarksOK'
  BY StepContract, NextLanes DEF MarksOK, Contracted
<1>3. MarksOK /\ [Next]_vars => [\A l \in Lanes : LaneStep(lane[l], stall[l], lane'[l], stall'[l])]_vars
  BY StepContract DEF Contracted
<1> QED
  BY <1>1, <1>2, <1>3, PTL DEF Spec, LanesKeepTheirContract
---------------------------------------------------------------------------
(* Type correctness.                                                       *)

LEMMA SetUiTypes ==
  ASSUME NEW u \in Uis
  PROVE  /\ \A x \in UiPhases : [u EXCEPT !.phase = x] \in Uis
         /\ \A x \in UpdateResults : [u EXCEPT !.updateResult = x] \in Uis
         /\ \A x \in BOOLEAN : /\ [u EXCEPT !.target = x] \in Uis /\ [u EXCEPT !.purge = x] \in Uis
                               /\ [u EXCEPT !.armed = x] \in Uis /\ [u EXCEPT !.updateOpen = x] \in Uis
                               /\ [u EXCEPT !.uninstallOpen = x] \in Uis
BY DEF Uis

LEMMA CheckTypes ==
  ASSUME NEW u \in Uis, NEW answer \in CheckAnswers
  PROVE  UiChecking(u) \in Uis /\ UiFromCheck(u, answer) \in Uis
<1>1. UiChecking(u) \in Uis
  BY SetUiTypes DEF UiChecking, UiPhases
<1>2. UiFromCheck(u, answer) \in Uis
  BY DEF UiFromCheck, Uis, CheckAnswers, UiPhases, UpdateResults
<1> QED
  BY <1>1, <1>2

LEMMA UpdateTypes ==
  ASSUME NEW u \in Uis
  PROVE  /\ UiOpenUpdateConfirm(u) \in Uis /\ UiCloseUpdateConfirm(u) \in Uis
         /\ \A x \in BOOLEAN : UiUpdating(u, x) \in Uis
         /\ \A x \in UpdateResults : UiFromUpdateResult(u, x) \in Uis
<1>1. UiOpenUpdateConfirm(u) \in Uis /\ UiCloseUpdateConfirm(u) \in Uis
  BY DEF UiOpenUpdateConfirm, UiCloseUpdateConfirm, UiCanUpdate, Uis
<1>2. ASSUME NEW x \in BOOLEAN PROVE UiUpdating(u, x) \in Uis
  BY <1>2 DEF UiUpdating, Uis, UiPhases
<1>3. ASSUME NEW x \in UpdateResults PROVE UiFromUpdateResult(u, x) \in Uis
  BY <1>3 DEF UiFromUpdateResult, Uis, UiPhases
<1> QED
  BY <1>1, <1>2, <1>3

LEMMA UninstallTypes ==
  ASSUME NEW u \in Uis
  PROVE  /\ UiIdle \in Uis /\ UiOpenUninstallConfirm(u) \in Uis /\ UiCloseUninstallConfirm(u) \in Uis
         /\ UiSetPurge(u, ~u.purge) \in Uis /\ UiArm(u) \in Uis /\ UiUninstalling(u) \in Uis
         /\ [u EXCEPT !.phase = "error"] \in Uis
<1>1. UiIdle \in Uis
  BY DEF UiIdle, Uis, UiPhases, UpdateResults
<1>2. UiOpenUninstallConfirm(u) \in Uis
  BY DEF UiOpenUninstallConfirm, Uis
<1>3. UiCloseUninstallConfirm(u) \in Uis /\ UiSetPurge(u, ~u.purge) \in Uis
  BY DEF UiCloseUninstallConfirm, UiSetPurge, Uis
<1>4. UiArm(u) \in Uis
  BY DEF UiArm, Uis
<1>5. UiUninstalling(u) \in Uis /\ [u EXCEPT !.phase = "error"] \in Uis
  BY DEF UiUninstalling, Uis, UiPhases
<1> QED
  BY <1>1, <1>2, <1>3, <1>4, <1>5
LEMMA NextUiTypes == ui \in Uis /\ [Next]_vars => ui' \in Uis
<1> SUFFICES ASSUME ui \in Uis, [Next]_vars PROVE ui' \in Uis
  OBVIOUS
<1>sync. SyncVersion(ui) \in Uis
  BY UninstallTypes DEF SyncVersion
<1>1. CASE StartUpdateCheck
  BY <1>1, <1>sync, CheckTypes DEF StartUpdateCheck, CheckAnswers
<1>2. CASE CheckSettles
  <2>1. \E answer \in CheckAnswers : ui' = UiFromCheck(ui, answer)
    BY <1>2, ServiceAssumption DEF CheckSettles, CheckAnswers
  <2> QED
    BY <2>1, CheckTypes
<1>3. CASE UpdateDialog
  BY <1>3, UpdateTypes DEF UpdateDialog
<1>4. CASE ConfirmUpdate \/ UpdateWindowEnds
  <2>1. "failed" \in UpdateResults
    BY DEF UpdateResults
  <2>2. ui' = UiUpdating(ui, FALSE) \/ ui' = UiFromUpdateResult(ui, "failed")
    BY <1>4 DEF ConfirmUpdate, UpdateWindowEnds, FinishUpdate
  <2> QED
    BY <2>1, <2>2, UpdateTypes
<1>5. CASE UpdateSettles
  <2>1. \E answer : UpdateAnswered(answer)
    BY <1>5 DEF UpdateSettles
  <2>2. ASSUME NEW answer, UpdateAnswered(answer)
        PROVE  \/ UNCHANGED ui
               \/ ui' = UiUpdating(ui, TRUE)
               \/ answer \in UpdateResults /\ ui' = UiFromUpdateResult(ui, answer)
               \/ ui' = UiFromUpdateResult(ui, "failed")
    BY <2>2, Zenon DEF UpdateAnswered, FinishUpdate
  <2>3. "failed" \in UpdateResults
    BY DEF UpdateResults
  <2> QED
    BY <2>1, <2>2, <2>3, UpdateTypes
<1>6. CASE RestartShell
  BY <1>6, UninstallTypes DEF RestartShell
<1>7. CASE UninstallDialog
  BY <1>7, UninstallTypes DEF UninstallDialog
<1>8. CASE ArmOrConfirmUninstall
  BY <1>8, UninstallTypes DEF ArmOrConfirmUninstall
<1>9. CASE HandoffSettles
  BY <1>9, UninstallTypes DEF HandoffSettles
<1>10. CASE \/ TryStartProduction \/ ManifestChanged \/ VersionProbeFails \/ VersionProbeSucceeds \/ PollTick
            \/ Refresh \/ StatusSettles \/ FollowUp \/ (\E l \in Lanes : CorpseExits(l) \/ HelperLost(l))
            \/ (\E l \in Readers : HelperReads(l)) \/ HelperWrites
  BY <1>10, <1>sync DEF TryStartProduction, ManifestChanged, VersionProbeFails, VersionProbeSucceeds, PollTick,
     Refresh, StatusSettles, FollowUp, CorpseExits, HelperLost, HelperReads, HelperWrites, maintVars
<1>11. CASE ClosePopup \/ RequestPopup \/ OpenSettings \/ EditSettings \/ SaveSettings \/ BootstrapSettles
            \/ ReadSettles \/ WriteSettles \/ UpdatePollTick \/ ResetDialog \/ ConfirmReset \/ ResetSettles
            \/ UNCHANGED vars
  BY <1>11 DEF ClosePopup, RequestPopup, OpenSettings, EditSettings, SaveSettings, BootstrapSettles,
     ReadSettles, WriteSettles, UpdatePollTick, ResetDialog, ConfirmReset, ResetSettles, maintVars, vars
<1> QED
  BY <1>1, <1>2, <1>3, <1>4, <1>5, <1>6, <1>7, <1>8, <1>9, <1>10, <1>11 DEF Next

ResetTyped == resetUi \in ResetUis /\ claim \in Providers \cup {NoProvider}

LEMMA ResetUiTypes ==
  ASSUME NEW u \in ResetUis
  PROVE  /\ ResetUiIdle \in ResetUis /\ ResetUiAwaiting(u) \in ResetUis
         /\ \A occupied : ResetUiOnClose(u, occupied) \in ResetUis
         /\ \A offers : /\ ResetUiAfterSnapshot(u, offers) \in ResetUis
                        /\ ResetUiClearOutcome(ResetUiAfterSnapshot(u, offers)) \in ResetUis
         /\ \A p \in Providers : /\ ResetUiOpenConfirm(p) \in ResetUis
                                 /\ \A answer : ResetUiSettled(p, ResetOutcomeFromLane(answer)) \in ResetUis
<1>1. ResetUiIdle \in ResetUis
  BY DEF ResetUiIdle, ResetUis, ResetOutcomes
<1>2. ResetUiAwaiting(u) \in ResetUis
  BY DEF ResetUiAwaiting, ResetUis, ResetOutcomes
<1>3. \A answer : ResetOutcomeFromLane(answer) \in ResetOutcomes
  BY DEF ResetOutcomeFromLane, ResetOutcomes
<1>4. \A p \in Providers : \A outcome \in ResetOutcomes : ResetUiSettled(p, outcome) \in ResetUis
  BY DEF ResetUiSettled, ResetUis
<1>5. \A p \in Providers : ResetUiOpenConfirm(p) \in ResetUis
  BY DEF ResetUiOpenConfirm, ResetUis, ResetOutcomes
<1> QED
  BY <1>1, <1>2, <1>3, <1>4, <1>5 DEF ResetUiOnClose, ResetUiAfterSnapshot, ResetUiClearOutcome

LEMMA NextResetTypes == LanesOK /\ ResetOK /\ ResetTyped /\ [Next]_vars => ResetTyped'
<1> SUFFICES ASSUME LanesOK, ResetOK, ResetTyped, [Next]_vars PROVE ResetTyped'
  OBVIOUS
<1>0. resetUi \in ResetUis /\ claim \in Providers \cup {NoProvider}
  BY DEF ResetTyped
<1>1. CASE StatusSettles
  <2>1. UNCHANGED claim
    BY <1>1 DEF StatusSettles, resetVars
  <2>2. \/ UNCHANGED resetUi
        \/ \E offers : resetUi' \in {ResetUiAfterSnapshot(resetUi, offers),
                                     ResetUiClearOutcome(ResetUiAfterSnapshot(resetUi, offers))}
    BY <1>1 DEF StatusSettles, resetVars
  <2> QED
    BY <1>0, <2>1, <2>2, ResetUiTypes DEF ResetTyped
<1>2. CASE ClosePopup
  BY <1>0, <1>2, ResetUiTypes DEF ClosePopup, Popup, ResetTyped
<1>3. CASE ResetDialog
  <2>1. /\ UNCHANGED claim
        /\ (\E p \in offering : resetUi' = ResetUiOpenConfirm(p)) \/ resetUi' = ResetUiOnClose(resetUi, ResetBusy)
    BY <1>3 DEF ResetDialog
  <2> QED
    BY <1>0, <2>1, ResetUiTypes DEF ResetTyped, ResetOK
<1>4. CASE ConfirmReset
  <2>1. resetUi.provider \in Providers
    BY <1>4 DEF ConfirmReset, ResetOK
  <2>2. resetUi' \in {ResetUiIdle, ResetUiAwaiting(resetUi)} /\ claim' \in {claim, resetUi.provider}
    BY <1>4 DEF ConfirmReset
  <2> QED
    BY <1>0, <2>1, <2>2, ResetUiTypes DEF ResetTyped
<1>5. CASE ResetSettles
  <2>1. claim \in Providers /\ UNCHANGED claim
    BY <1>5 DEF ResetSettles, Ends, Busy, ResetOK
  <2>2. \E answer : resetUi' = ResetUiSettled(claim, ResetOutcomeFromLane(answer))
    BY <1>5 DEF ResetSettles
  <2> QED
    BY <1>0, <2>1, <2>2, ResetUiTypes DEF ResetTyped
<1>6. CASE ~(StatusSettles \/ ClosePopup \/ ResetDialog \/ ConfirmReset \/ ResetSettles)
  <2>1. UNCHANGED <<resetUi, claim>>
    BY <1>6, Zenon DEF Next, TryStartProduction, ManifestChanged, VersionProbeFails, VersionProbeSucceeds,
       PollTick, Refresh,
       FollowUp,
       CorpseExits, HelperLost, HelperReads, HelperWrites, RequestPopup, OpenSettings, EditSettings, SaveSettings,
       BootstrapSettles, ReadSettles, WriteSettles, StartUpdateCheck, CheckSettles, UpdateDialog, ConfirmUpdate,
       UpdatePollTick, UpdateWindowEnds, UpdateSettles, RestartShell, UninstallDialog, ArmOrConfirmUninstall,
       HandoffSettles, vars, resetVars
  <2> QED
    BY <1>0, <2>1 DEF ResetTyped
<1> QED
  BY <1>1, <1>2, <1>3, <1>4, <1>5, <1>6
SettingsTyped ==
  /\ settings \in SettingsStates
  /\ applied \in Docs \cup {NoDoc} /\ payload \in Docs \cup {NoDoc}
  /\ generation \in Nat /\ readGen \in Nat /\ writeGen \in Nat

LEMMA DialogTypes ==
  ASSUME NEW s \in SettingsStates, NEW gen \in Nat, NEW doc \in Docs
  PROVE  /\ SettingsClosed \in SettingsStates /\ SettingsBeginLoad(gen) \in SettingsStates
         /\ SettingsFinishLoad(s, gen, doc) \in SettingsStates /\ SettingsFailLoad(s, gen) \in SettingsStates
         /\ SettingsEdit(s, doc) \in SettingsStates /\ SettingsRestoreDefaults(s) \in SettingsStates
         /\ SettingsCancel(s) \in SettingsStates /\ SettingsBeginSave(s, gen) \in SettingsStates
<1>1. SettingsClosed \in SettingsStates /\ SettingsBeginLoad(gen) \in SettingsStates
  BY DEF SettingsClosed, SettingsBeginLoad, SettingsStates, SettingsPhases
<1>2. SettingsFinishLoad(s, gen, doc) \in SettingsStates /\ SettingsFailLoad(s, gen) \in SettingsStates
  BY DEF SettingsFinishLoad, SettingsFailLoad, SettingsStates, SettingsPhases
<1>3. \A d \in Docs : SettingsEdit(s, d) \in SettingsStates
  BY DEF SettingsEdit, SettingsStates, SettingsPhases
<1>4. SettingsRestoreDefaults(s) \in SettingsStates
  BY <1>3, DocAssumption DEF SettingsRestoreDefaults
<1>5. SettingsCancel(s) \in SettingsStates
  BY DEF SettingsCancel, SettingsStates, SettingsPhases
<1>6. SettingsBeginSave(s, gen) \in SettingsStates
  BY DEF SettingsBeginSave, SettingsStates, SettingsPhases
<1> QED
  BY <1>1, <1>2, <1>3, <1>4, <1>5, <1>6

LEMMA SaveTypes ==
  ASSUME NEW s \in SettingsStates, NEW gen, NEW ok \in BOOLEAN, NEW doc \in Docs \cup {NoDoc}
  PROVE  SettingsFinishSave(s, gen, ok, doc) \in SettingsStates
BY DEF SettingsFinishSave, SettingsStates, SettingsPhases

LEMMA NextSettingsTypes == SettingsOK /\ SettingsTyped /\ [Next]_vars => SettingsTyped'
<1> SUFFICES ASSUME SettingsOK, SettingsTyped, [Next]_vars PROVE SettingsTyped'
  OBVIOUS
<1>0. /\ settings \in SettingsStates
      /\ applied \in Docs \cup {NoDoc} /\ payload \in Docs \cup {NoDoc}
      /\ generation \in Nat /\ readGen \in Nat /\ writeGen \in Nat
      /\ seen \in [Readers -> Docs \cup {NoDoc}]
      /\ "settingsRead" \in Readers /\ "settingsBootstrap" \in Readers
  BY SettingsNames DEF SettingsTyped, SettingsOK, DocsOK
<1>1. CASE ClosePopup
  <2>1. settings' \in {settings, SettingsClosed} /\ UNCHANGED <<generation, applied, payload, readGen, writeGen>>
    BY <1>1 DEF ClosePopup, Popup, settingsVars
  <2> QED
    BY <1>0, <2>1, DialogTypes, DocAssumption DEF SettingsTyped
<1>2. CASE OpenSettings
  <2>1. /\ settings' \in {settings, SettingsBeginLoad(generation + 1)}
        /\ generation' \in {generation, generation + 1} /\ readGen' \in {readGen, generation + 1}
        /\ UNCHANGED <<applied, payload, writeGen>>
    BY <1>2 DEF OpenSettings
  <2> QED
    BY <1>0, <2>1, DialogTypes, DocAssumption DEF SettingsTyped
<1>3. CASE EditSettings
  <2>1. /\ \E d \in Docs : settings' \in {SettingsEdit(settings, d), SettingsRestoreDefaults(settings),
                                          SettingsCancel(settings)}
        /\ UNCHANGED <<generation, applied, payload, readGen, writeGen>>
    BY <1>3, DocAssumption DEF EditSettings, settingsVars
  <2> QED
    BY <1>0, <2>1, DialogTypes DEF SettingsTyped
<1>4. CASE SaveSettings
  <2>1. /\ settings' = SettingsBeginSave(settings, generation + 1) /\ payload' = settings.draft
        /\ generation' = generation + 1 /\ writeGen' = generation + 1 /\ UNCHANGED <<applied, readGen>>
    BY <1>4 DEF SaveSettings
  <2>2. settings.draft \in Docs \cup {NoDoc}
    BY <1>0 DEF SettingsStates
  <2> QED
    BY <1>0, <2>1, <2>2, DialogTypes, DocAssumption DEF SettingsTyped
<1>5. CASE BootstrapSettles
  <2>1. /\ UNCHANGED <<settings, generation, payload, readGen, writeGen>>
        /\ applied' \in {applied, NoDoc, seen["settingsBootstrap"]}
    BY <1>5 DEF BootstrapSettles, SettingsBootstrapResult, dialogVars
  <2> QED
    BY <1>0, <2>1 DEF SettingsTyped
<1>6. CASE ReadSettles
  <2>1. /\ UNCHANGED <<generation, payload, readGen, writeGen>>
        /\ \/ UNCHANGED <<settings, applied>>
           \/ settings' = SettingsFailLoad(settings, readGen) /\ UNCHANGED applied
           \/ /\ seen["settingsRead"] # NoDoc /\ applied' = seen["settingsRead"]
              /\ settings' = SettingsFinishLoad(settings, readGen, seen["settingsRead"])
    BY <1>6 DEF ReadSettles
  <2> QED
    BY <1>0, <2>1, DialogTypes, DocAssumption DEF SettingsTyped
<1>7. CASE WriteSettles
  <2>1. /\ UNCHANGED <<generation, payload, readGen, writeGen>> /\ applied' \in {applied, payload}
        /\ \E ok \in BOOLEAN : settings' = SettingsFinishSave(settings, writeGen, ok, payload)
    BY <1>7 DEF WriteSettles
  <2> QED
    BY <1>0, <2>1, SaveTypes DEF SettingsTyped
<1>8. ASSUME UNCHANGED <<settings, generation, settingsVars>> PROVE SettingsTyped'
  BY <1>0, <1>8 DEF SettingsTyped, settingsVars
<1>9. CASE \/ TryStartProduction \/ ManifestChanged \/ VersionProbeFails \/ VersionProbeSucceeds
           \/ PollTick \/ Refresh \/ StatusSettles \/ FollowUp \/ (\E l \in Lanes : CorpseExits(l) \/ HelperLost(l)) \/ (\E l \in Readers : HelperReads(l))
           \/ HelperWrites
  BY <1>8, <1>9 DEF TryStartProduction, ManifestChanged, VersionProbeFails, VersionProbeSucceeds, PollTick,
     Refresh,
     StatusSettles, FollowUp, CorpseExits, HelperLost, HelperReads, HelperWrites, dialogVars
<1>10. CASE \/ RequestPopup \/ StartUpdateCheck \/ CheckSettles \/ UpdateDialog \/ ConfirmUpdate \/ UpdatePollTick
            \/ UpdateWindowEnds \/ UpdateSettles
  BY <1>8, <1>10 DEF RequestPopup, StartUpdateCheck, CheckSettles, UpdateDialog, ConfirmUpdate, UpdatePollTick,
     UpdateWindowEnds, UpdateSettles, dialogVars
<1>11. CASE RestartShell \/ UninstallDialog \/ ArmOrConfirmUninstall \/ HandoffSettles \/ ResetDialog \/ ConfirmReset
            \/ ResetSettles \/ UNCHANGED vars
  BY <1>8, <1>11 DEF RestartShell, UninstallDialog, ArmOrConfirmUninstall, HandoffSettles, ResetDialog,
     ConfirmReset,
     ResetSettles, dialogVars, vars
<1> QED
  BY <1>1, <1>2, <1>3, <1>4, <1>5, <1>6, <1>7, <1>9, <1>10, <1>11 DEF Next
\* What is left: flags, and values from small sets.
StatusFlags == resetQueued \in BOOLEAN /\ resetRun \in BOOLEAN

LEMMA KickTypes ==
  ASSUME StatusFlags, NEW able, NEW L, NEW targets, NEW queued \in BOOLEAN, KickStatus(able, L, targets, queued)
  PROVE  StatusFlags'
BY DEF KickStatus, StatusFlags

LEMMA NextStatusFlags == StatusFlags /\ [Next]_vars => StatusFlags'
<1> SUFFICES ASSUME StatusFlags, [Next]_vars PROVE StatusFlags'
  OBVIOUS
<1>1. CASE VersionProbeSucceeds \/ PollTick \/ Refresh \/ StatusSettles \/ FollowUp
  <2>1. \E able, L, targets : KickStatus(able, L, targets, resetQueued)
    BY <1>1 DEF VersionProbeSucceeds, PollTick, Refresh, StatusSettles, FollowUp, FollowUpStatus
  <2> QED
    BY <2>1, KickTypes DEF StatusFlags
<1>2. CASE ResetSettles
  <2>1. UNCHANGED statusVars \/ \E able, L, targets : KickStatus(able, L, targets, TRUE)
    BY <1>2 DEF ResetSettles
  <2> QED
    BY <2>1, KickTypes DEF StatusFlags, statusVars
<1>3. ASSUME UNCHANGED statusVars PROVE StatusFlags'
  BY <1>3 DEF StatusFlags, statusVars
<1>4. CASE \/ TryStartProduction \/ ManifestChanged \/ VersionProbeFails
           \/ (\E l \in Lanes : CorpseExits(l) \/ HelperLost(l))
           \/ (\E l \in Readers : HelperReads(l)) \/ HelperWrites \/ ClosePopup \/ RequestPopup \/ OpenSettings
           \/ EditSettings \/ SaveSettings \/ BootstrapSettles \/ ReadSettles \/ WriteSettles
  BY <1>3, <1>4 DEF TryStartProduction, ManifestChanged, VersionProbeFails, CorpseExits, HelperLost,
     HelperReads, HelperWrites,
     ClosePopup, RequestPopup, OpenSettings, EditSettings, SaveSettings, BootstrapSettles, ReadSettles, WriteSettles
<1>5. CASE \/ StartUpdateCheck \/ CheckSettles \/ UpdateDialog \/ ConfirmUpdate \/ UpdatePollTick \/ UpdateWindowEnds
           \/ UpdateSettles \/ RestartShell \/ UninstallDialog \/ ArmOrConfirmUninstall \/ HandoffSettles
           \/ ResetDialog \/ ConfirmReset \/ UNCHANGED vars
  BY <1>3, <1>5 DEF StartUpdateCheck, CheckSettles, UpdateDialog, ConfirmUpdate, UpdatePollTick,
     UpdateWindowEnds, UpdateSettles, RestartShell, UninstallDialog, ArmOrConfirmUninstall, HandoffSettles,
     ResetDialog, ConfirmReset, vars
<1> QED
  BY <1>1, <1>2, <1>4, <1>5 DEF Next

PollFlags ==
  version \in {"unknown", "ready", "failed"} /\ pollOn \in BOOLEAN /\ followUp \in BOOLEAN

LEMMA NextPollFlags == PollFlags /\ [Next]_vars => PollFlags'
<1> SUFFICES ASSUME PollFlags, [Next]_vars PROVE PollFlags'
  OBVIOUS
<1>1. CASE TryStartProduction \/ ManifestChanged \/ VersionProbeFails \/ VersionProbeSucceeds
  BY <1>1 DEF TryStartProduction, ManifestChanged, VersionProbeFails, VersionProbeSucceeds, PollFlags
<1>2. CASE StatusSettles \/ FollowUp
  BY <1>2 DEF StatusSettles, FollowUp, PollFlags, Ready
<1>3. CASE \E l \in Lanes : CorpseExits(l)
  BY <1>3 DEF CorpseExits, LaneReopens, PollFlags
<1>4. CASE ArmOrConfirmUninstall
  BY <1>4 DEF ArmOrConfirmUninstall, PollFlags
<1>5. CASE HandoffSettles
  BY <1>5 DEF HandoffSettles, ResumePolling, PollFlags
<1>6. ASSUME UNCHANGED pollVars PROVE PollFlags'
  BY <1>6 DEF PollFlags, pollVars
<1>7. CASE \/ PollTick \/ Refresh \/ (\E l \in Lanes : HelperLost(l))
           \/ (\E l \in Readers : HelperReads(l)) \/ HelperWrites \/ ClosePopup \/ RequestPopup \/ OpenSettings
           \/ EditSettings \/ SaveSettings \/ BootstrapSettles \/ ReadSettles \/ WriteSettles
  BY <1>6, <1>7 DEF PollTick, Refresh, HelperLost, HelperReads, HelperWrites,
     ClosePopup, RequestPopup, OpenSettings, EditSettings, SaveSettings, BootstrapSettles, ReadSettles, WriteSettles
<1>8. CASE \/ StartUpdateCheck \/ CheckSettles \/ UpdateDialog \/ ConfirmUpdate \/ UpdatePollTick \/ UpdateWindowEnds
           \/ UpdateSettles \/ RestartShell \/ UninstallDialog
           \/ ResetDialog \/ ConfirmReset \/ ResetSettles \/ UNCHANGED vars
  BY <1>6, <1>8 DEF StartUpdateCheck, CheckSettles, UpdateDialog, ConfirmUpdate, UpdatePollTick,
     UpdateWindowEnds,
     UpdateSettles, RestartShell, UninstallDialog, ResetDialog, ConfirmReset, ResetSettles, vars
<1> QED
  BY <1>1, <1>2, <1>3, <1>4, <1>5, <1>7, <1>8 DEF Next

UpdateFlags ==
  /\ purgeIntent \in BOOLEAN /\ restartPending \in BOOLEAN
  /\ updateWindow \in BOOLEAN /\ updatePoll \in BOOLEAN /\ updateCtx \in {"apply", "status"}

LEMMA NextUpdateFlags == ui \in Uis /\ UpdateFlags /\ [Next]_vars => UpdateFlags'
<1> SUFFICES ASSUME ui \in Uis, UpdateFlags, [Next]_vars PROVE UpdateFlags'
  OBVIOUS
<1>0. ui.purge \in BOOLEAN
  BY DEF Uis
<1>1. CASE VersionProbeSucceeds
  BY <1>1 DEF VersionProbeSucceeds, UpdateFlags, maintVars
<1>2. CASE ConfirmUpdate \/ UpdateWindowEnds \/ UpdatePollTick
  BY <1>2 DEF ConfirmUpdate, UpdateWindowEnds, UpdatePollTick, FinishUpdate, UpdateFlags, maintVars
<1>3. CASE UpdateSettles
  <2>1. UNCHANGED <<purgeIntent, updateCtx>> /\ \E answer : UpdateAnswered(answer)
    BY <1>3 DEF UpdateSettles
  <2>2. ASSUME NEW answer, UpdateAnswered(answer)
        PROVE  \/ \E shown, result : FinishUpdate(shown, result)
               \/ BeginUpdatePoll /\ UNCHANGED restartPending
               \/ UNCHANGED <<restartPending, updatePoll, updateWindow>>
    BY <2>2, Zenon DEF UpdateAnswered
  <2> QED
    BY <2>1, <2>2 DEF FinishUpdate, BeginUpdatePoll, UpdateFlags
<1>4. CASE RestartShell
  BY <1>4 DEF RestartShell, updateVars, UpdateFlags
<1>5. CASE ArmOrConfirmUninstall
  BY <1>0, <1>5 DEF ArmOrConfirmUninstall, updateVars, UpdateFlags
<1>6. CASE HandoffSettles
  BY <1>6 DEF HandoffSettles, updateVars, UpdateFlags
<1>7. ASSUME UNCHANGED <<purgeIntent, restartPending, updateVars>> PROVE UpdateFlags'
  BY <1>7 DEF UpdateFlags, updateVars
<1>8. CASE \/ TryStartProduction \/ ManifestChanged \/ VersionProbeFails \/ PollTick \/ Refresh
           \/ StatusSettles \/ FollowUp
           \/ (\E l \in Lanes : CorpseExits(l) \/ HelperLost(l)) \/ (\E l \in Readers : HelperReads(l))
           \/ HelperWrites \/ ClosePopup \/ RequestPopup \/ OpenSettings
  BY <1>7, <1>8 DEF TryStartProduction, ManifestChanged, VersionProbeFails, PollTick, Refresh, StatusSettles,
     FollowUp,
     CorpseExits,
     HelperLost, HelperReads, HelperWrites, ClosePopup, RequestPopup, OpenSettings, maintVars
<1>9. CASE \/ EditSettings \/ SaveSettings \/ BootstrapSettles \/ ReadSettles \/ WriteSettles \/ StartUpdateCheck
           \/ CheckSettles \/ UpdateDialog \/ UninstallDialog \/ ResetDialog \/ ConfirmReset \/ ResetSettles
           \/ UNCHANGED vars
  BY <1>7, <1>9 DEF EditSettings, SaveSettings, BootstrapSettles, ReadSettles, WriteSettles, StartUpdateCheck,
     CheckSettles, UpdateDialog, UninstallDialog, ResetDialog, ConfirmReset, ResetSettles, maintVars, vars
<1> QED
  BY <1>1, <1>2, <1>3, <1>4, <1>5, <1>6, <1>8, <1>9 DEF Next

DialogFlags == popup \in Owners \cup {NoOwner} /\ written \in BOOLEAN /\ unaccounted \in BOOLEAN

LEMMA NextDialogFlags == DialogFlags /\ [Next]_vars => DialogFlags'
<1> SUFFICES ASSUME DialogFlags, [Next]_vars PROVE DialogFlags'
  OBVIOUS
<1>1. CASE VersionProbeSucceeds \/ (\E l \in Readers : HelperReads(l)) \/ HelperWrites
  BY <1>1 DEF VersionProbeSucceeds, HelperReads, HelperWrites, DialogFlags, dialogVars
<1>2. CASE ClosePopup \/ RequestPopup \/ OpenSettings
  BY <1>2 DEF ClosePopup, Popup, RequestPopup, OpenSettings, DialogFlags, fileVars
<1>3. CASE EditSettings \/ SaveSettings \/ ReadSettles \/ WriteSettles
  BY <1>3 DEF EditSettings, SaveSettings, ReadSettles, WriteSettles, DialogFlags, fileVars
<1>4. ASSUME UNCHANGED <<dialogVars, fileVars>> PROVE DialogFlags'
  BY <1>4 DEF DialogFlags, dialogVars, fileVars
<1>5. CASE \/ TryStartProduction \/ ManifestChanged \/ VersionProbeFails \/ PollTick \/ Refresh
           \/ StatusSettles \/ FollowUp
           \/ (\E l \in Lanes : CorpseExits(l) \/ HelperLost(l)) \/ BootstrapSettles \/ StartUpdateCheck
           \/ CheckSettles \/ UpdateDialog
  BY <1>4, <1>5 DEF TryStartProduction, ManifestChanged, VersionProbeFails, PollTick, Refresh, StatusSettles,
     FollowUp,
     CorpseExits,
     HelperLost, BootstrapSettles, StartUpdateCheck, CheckSettles, UpdateDialog
<1>6. CASE \/ ConfirmUpdate \/ UpdatePollTick \/ UpdateWindowEnds \/ UpdateSettles \/ RestartShell \/ UninstallDialog
           \/ ArmOrConfirmUninstall \/ HandoffSettles \/ ResetDialog \/ ConfirmReset \/ ResetSettles \/ UNCHANGED vars
  BY <1>4, <1>6 DEF ConfirmUpdate, UpdatePollTick, UpdateWindowEnds, UpdateSettles, RestartShell,
     UninstallDialog,
     ArmOrConfirmUninstall, HandoffSettles, ResetDialog, ConfirmReset, ResetSettles, vars
<1> QED
  BY <1>1, <1>2, <1>3, <1>5, <1>6 DEF Next

\* The types, with the invariants that some of them rest on: the provider of a
\* claim, the document of a write and the queue.
TypesOK ==
  /\ MarksOK /\ QueueOK /\ ResetOK /\ SettingsOK
  /\ ui \in Uis /\ ResetTyped /\ SettingsTyped
  /\ StatusFlags /\ PollFlags /\ UpdateFlags /\ DialogFlags

\* Type correctness of the Service's state (Service.qml, CoreService.js,
\* CoreSettings.js, CoreMaintenance.js).
THEOREM ServiceTypeOK == Spec => []TypeOK
<1>1. Init => TypesOK
  <2> SUFFICES ASSUME Init PROVE TypesOK
    OBVIOUS
  <2>1. MarksOK
    BY InitLanes DEF Init, MarksOK
  <2>2. ui \in Uis
    BY DEF Init, UiIdle, Uis, UiPhases, UpdateResults
  <2>3. ResetTyped
    BY DEF Init, ResetUiIdle, ResetUis, ResetOutcomes, ResetTyped
  <2>4. SettingsTyped
    BY DEF Init, SettingsClosed, SettingsStates, SettingsPhases, SettingsTyped
  <2>5. StatusFlags /\ PollFlags /\ UpdateFlags /\ DialogFlags
    BY DEF Init, StatusFlags, PollFlags, UpdateFlags, DialogFlags
  <2> QED
    BY <2>1, <2>2, <2>3, <2>4, <2>5, InitQueue, InitResets, InitSettings DEF TypesOK
<1>2. TypesOK /\ [Next]_vars => TypesOK'
  <2> SUFFICES ASSUME TypesOK, [Next]_vars PROVE TypesOK'
    OBVIOUS
  <2>1. LanesOK /\ MarksOK'
    BY StepContract, NextLanes DEF TypesOK, MarksOK, Contracted
  <2>2. QueueOK' /\ ResetOK' /\ SettingsOK'
    BY <2>1, NextQueue, NextResets, NextSettings DEF TypesOK
  <2>3. ui' \in Uis /\ ResetTyped' /\ SettingsTyped'
    BY <2>1, NextUiTypes, NextResetTypes, NextSettingsTypes DEF TypesOK
  <2>4. StatusFlags' /\ PollFlags' /\ UpdateFlags' /\ DialogFlags'
    BY NextStatusFlags, NextPollFlags, NextUpdateFlags, NextDialogFlags DEF TypesOK
  <2> QED
    BY <2>1, <2>2, <2>3, <2>4 DEF TypesOK
<1>3. TypesOK => TypeOK
  BY DEF TypesOK, TypeOK, MarksOK, LanesOK, LaneMaps, QueueOK, ResetOK, SettingsOK, DocsOK, ResetTyped,
     SettingsTyped, StatusFlags, PollFlags, UpdateFlags, DialogFlags
<1> QED
  BY <1>1, <1>2, <1>3, PTL DEF Spec
=============================================================================
