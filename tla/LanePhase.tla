---------------------------- MODULE LanePhase ----------------------------
(***************************************************************************)
(* The four situations a HelperLane can be in, seen from outside.  The     *)
(* lane keeps two independent booleans, `outstanding` (a run has not been  *)
(* settled) and `process.running`; these are their four combinations.      *)
(*                                                                         *)
(*    idle     nothing outstanding, no process: the lane may start         *)
(*    running  a run is outstanding and its process lives                  *)
(*    lost     a run is outstanding but its process ended with no exit     *)
(*             signal (it never started): only the deadline can settle it  *)
(*    dying    the run was settled by the deadline, and its terminated     *)
(*             process has not exited yet                                  *)
(***************************************************************************)

LanePhases == {"idle", "running", "lost", "dying"}

PhaseOf(outstanding, running) ==
  IF outstanding THEN IF running THEN "running" ELSE "lost"
                 ELSE IF running THEN "dying" ELSE "idle"

Busy(phase) == phase \in {"running", "lost"}

Ready(phase) == phase = "idle"

\* What the deadline leaves behind: a live process is only asked to stop.
Expired(phase) == IF phase = "running" THEN "dying" ELSE "idle"

\* What one handler may make of a lane in phase `p' with stall mark `s': the
\* actions of LaneContract without their counts.  The mark may be cleared on the
\* way, by the answer of another lane, and a settled lane may start its next run.
LaneStep(p, s, q, t) ==
  \/ q = p /\ t \in {s, FALSE}                               \* nothing, or Forgive
  \/ Ready(p) /\ q = "running" /\ t \in {s, FALSE}            \* Accept
  \/ p = "running" /\ q \in {"idle", "running"} /\ t = FALSE  \* Answer
  \/ /\ Busy(p) /\ t = TRUE                                   \* GiveUp
     /\ q = Expired(p) \/ (Ready(Expired(p)) /\ q = "running")
  \/ p = "running" /\ q = "lost" /\ t = s                     \* Lose
  \/ p = "dying" /\ q = "idle" /\ t = FALSE                   \* Bury
==========================================================================
