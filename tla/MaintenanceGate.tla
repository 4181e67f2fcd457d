-------------------------- MODULE MaintenanceGate --------------------------
(***************************************************************************)
(* support/maintenance_gate.rs: the advisory lock every Agent Bar process  *)
(* takes, shared for collections and settings writes, exclusive for an     *)
(* update or an uninstall.  It is a flock: a process that dies lets go, a  *)
(* waiting writer does not keep new readers out, and a holder of the       *)
(* shared lock may take it again through another descriptor.               *)
(***************************************************************************)
CONSTANT Nobody  \* no process

VARIABLES
  shared,    \* the processes that hold the gate shared
  exclusive  \* the process that holds it exclusively, or Nobody

gateVars == <<shared, exclusive>>

GateInit == shared = {} /\ exclusive = Nobody

OpenToSharers == exclusive = Nobody

LockShared(p) ==
  /\ OpenToSharers
  /\ shared' = shared \cup {p}
  /\ UNCHANGED exclusive

LockExclusive(p) ==
  /\ exclusive = Nobody
  /\ shared = {}
  /\ exclusive' = p
  /\ UNCHANGED shared

\* The guards' Drop, and the kernel when the process dies.
Unlock(p) ==
  /\ shared' = shared \ {p}
  /\ exclusive' = IF exclusive = p THEN Nobody ELSE exclusive

GateTypeOK(Processes) == shared \in SUBSET Processes /\ exclusive \in Processes \cup {Nobody}

GateExcludes == exclusive # Nobody => shared = {}
============================================================================
