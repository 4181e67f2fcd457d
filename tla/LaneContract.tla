--------------------------- MODULE LaneContract ---------------------------
(***************************************************************************)
(* What a HelperLane promises the Service: one run at a time, each settled *)
(* exactly once, by its own exit or by the deadline; a process the         *)
(* deadline gave up on keeps the lane closed until it is gone, and its     *)
(* exit settles nothing.  `settled' counts what the owner was told.        *)
(***************************************************************************)
EXTENDS LanePhase, Naturals

VARIABLES
  phase,    \* one of LanePhases
  stall,    \* the last settlement was a timeout, and nothing succeeded since
  started,  \* runs accepted so far
  settled   \* runs reported to the owner so far

contractVars == <<phase, stall, started, settled>>

ContractInit ==
  /\ phase = "idle"
  /\ stall = FALSE
  /\ started = 0
  /\ settled = 0

Accept ==
  /\ Ready(phase)
  /\ phase' = "running"
  /\ started' = started + 1
  /\ UNCHANGED <<stall, settled>>

\* The owner is told inside the lane's own transition, and may ask for the
\* next run before that transition returns; it gets it if the lane is ready.
Report(after, mark) ==
  /\ Busy(phase)
  /\ settled' = settled + 1
  /\ stall' = mark
  /\ \/ phase' = after /\ started' = started
     \/ Ready(after) /\ phase' = "running" /\ started' = started + 1

Answer == phase = "running" /\ Report("idle", FALSE)

GiveUp == Report(Expired(phase), TRUE)

Lose ==
  /\ phase = "running"
  /\ phase' = "lost"
  /\ UNCHANGED <<stall, started, settled>>

Bury ==
  /\ phase = "dying"
  /\ phase' = "idle"
  /\ stall' = FALSE
  /\ UNCHANGED <<started, settled>>

Forgive ==
  /\ stall' = FALSE
  /\ UNCHANGED <<phase, started, settled>>

ContractNext == Accept \/ Answer \/ GiveUp \/ Lose \/ Bury \/ Forgive

ContractSpec == ContractInit /\ [][ContractNext]_contractVars

\* Exactly one run is unreported while the lane is busy, and none otherwise.
NoneLostNorRepeated == started = settled + (IF Busy(phase) THEN 1 ELSE 0)
==========================================================================
