---------------------------- MODULE UpdateState ----------------------------
(***************************************************************************)
(* plugin/update_state.rs and plugin/update_apply.rs: the two state files  *)
(* that `update apply', the unit it starts and `update status' share       *)
(* without a lock.  A run is one launcher and then its unit, under one     *)
(* txid; its marker is that txid.  Every file operation is a step.         *)
(***************************************************************************)
EXTENDS MaintenanceGate, Naturals, FiniteSets

CONSTANTS
  Runs,
  Readers,       \* `update status' processes, each run again and again
  Absent,        \* no such file, or no version to be read from it
  Leftover,      \* a marker of an earlier run, expired or unreadable
  FirstMarkers,  \* bound: what the marker file may hold at first
  Mortal,        \* bound: the processes that may be killed
  Window,        \* UPDATE_RUN_WINDOW
  LinkAttempts,  \* LINK_ATTEMPTS
  MaxTime        \* bound on the clock

Processes == Runs \cup Readers

Markers == Runs \cup {Leftover}

\* UpdateResult: whether the run moved the tree is what matters of it.
Outcome == [txid: Markers, result: {"updated", "unchanged"}]

ASSUME UpdateAssumption ==
  /\ Runs \cap Readers = {} /\ Mortal \subseteq Processes
  /\ Leftover \notin Processes /\ Absent \notin Processes \cup {Leftover} \cup Outcome \cup Nat
  /\ Nobody \notin Processes
  /\ FirstMarkers \subseteq {Absent, Leftover}
  /\ Window \in Nat \ {0} /\ LinkAttempts \in Nat \ {0} /\ MaxTime \in Nat

VARIABLES
  now,
  running,  \* update-running.json
  result,   \* update-result.json
  tree,     \* the tree version: how often it moved
  legible,  \* whether bundle.json says which
  pc,
  at,       \* when each process read the clock: a run's startedAt
  from,     \* a run's fromVersion
  before,   \* the tree version its unit found under the gate
  goal,     \* why a process removes a marker: "slot", "release" or "abandoned"
  seen,     \* the marker it judged
  taken,    \* the marker it took out of the directory
  tries,
  got,      \* the outcome a unit reached, or a reader claimed
  told,     \* history: how often a run's result was reported
  deemed,   \* history: how often a run was reported as abandoned
  lost,     \* history: the runs whose marker or result made room for another's,
            \* or that another process was killed with
  movers    \* history: the runs that moved the tree to a version one can read

fileVars == <<running, result>>
treeVars == <<tree, legible, movers>>
runVars == <<at, from, before>>
removalVars == <<goal, seen, taken, tries>>
history == <<told, deemed, lost>>
vars == <<now, fileVars, treeVars, gateVars, pc, runVars, removalVars, got, history>>

Init ==
  /\ GateInit
  /\ now = 0
  /\ running \in FirstMarkers
  /\ result = Absent
  /\ tree = 0
  /\ legible \in BOOLEAN
  /\ pc = [p \in Processes |-> "idle"]
  /\ at = [p \in Processes |-> 0]
  /\ from = [m \in Markers |-> 0]
  /\ before = [r \in Runs |-> 0]
  /\ goal = [p \in Processes |-> "slot"]
  /\ seen = [p \in Processes |-> Absent]
  /\ taken = [p \in Processes |-> Absent]
  /\ tries = [p \in Processes |-> 0]
  /\ got = [p \in Processes |-> Absent]
  /\ told = [m \in Markers |-> 0]
  /\ deemed = [m \in Markers |-> 0]
  /\ lost = {}
  /\ movers = {}

At(p, here) == pc[p] = here
Goto(p, there) == pc' = [pc EXCEPT ![p] = there]
TxidOf(outcome) == IF outcome = Absent THEN {} ELSE {outcome.txid}

InWindow_Forever(marker, instant) == marker # Leftover /\ at[marker] <= instant
\* UpdateRunning::is_live(): by the clock as the judging process read it.
InWindow(marker, instant) ==
  marker # Leftover /\ at[marker] <= instant /\ instant < at[marker] + Window

\* read_tree_version(), and whether it is known to differ from an earlier one.
TreeVersion == IF legible THEN tree ELSE Absent
MovedFrom(version) == Absent \notin {version, TreeVersion} /\ TreeVersion # version

---------------------------------------------------------------------------
(* Removing a marker: remove_if_unchanged().                               *)

\* The next of the LINK_ATTEMPTS rounds, or none.
Retry(p, first, otherwise) ==
  /\ tries' = [tries EXCEPT ![p] = @ + 1]
  /\ Goto(p, IF tries[p] + 1 < LinkAttempts THEN first ELSE otherwise)

Abandoned(marker) ==
  [txid |-> marker, result |-> IF marker # Leftover /\ MovedFrom(from[marker]) THEN "updated" ELSE "unchanged"]

\* What the caller does with the answer.
Resume(p, removed) ==
  \/ goal[p] = "slot" /\ Retry(p, "linking", "done") /\ UNCHANGED <<got, told, deemed>>
  \/ /\ goal[p] = "release"
     /\ Goto(p, IF p \in Runs THEN "done" ELSE "answered")
     /\ told' = IF p \in Runs THEN told ELSE [told EXCEPT ![got[p].txid] = @ + 1]
     /\ UNCHANGED <<tries, got, deemed>>
  \/ /\ goal[p] = "abandoned" /\ removed
     /\ Goto(p, "answered")
     /\ got' = [got EXCEPT ![p] = Abandoned(seen[p])]
     /\ deemed' = [deemed EXCEPT ![seen[p]] = @ + 1]
     /\ UNCHANGED <<tries, told>>
  \/ goal[p] = "abandoned" /\ ~removed /\ Retry(p, "looking", "answered") /\ UNCHANGED <<got, told, deemed>>

\* The rename takes whatever the file holds by now.
Take(p) ==
  /\ At(p, "taking")
  /\ IF running = Absent
     THEN Resume(p, FALSE) /\ UNCHANGED <<running, taken>>
     ELSE /\ taken' = [taken EXCEPT ![p] = running]
          /\ running' = Absent
          /\ Goto(p, "returning")
          /\ UNCHANGED <<tries, got, told, deemed>>
  /\ UNCHANGED <<now, result, treeVars, gateVars, runVars, goal, seen, lost>>

\* The marker taken is not put back, and nobody is told of its run.
Displaced(p) ==
  IF taken[p] # seen[p] THEN (IF running = Absent THEN {} ELSE {taken[p]})
  ELSE IF goal[p] = "slot" THEN {taken[p]} ELSE {}

Return_DropsIt(p) ==
  /\ At(p, "returning")
  /\ taken' = [taken EXCEPT ![p] = Absent]
  /\ Resume(p, taken[p] = seen[p])
  /\ UNCHANGED <<now, fileVars, treeVars, gateVars, runVars, goal, seen, lost>>
\* A marker other than the one judged is put back, unless there is one.
Return(p) ==
  /\ At(p, "returning")
  /\ running' = IF taken[p] # seen[p] /\ running = Absent THEN taken[p] ELSE running
  /\ lost' = lost \cup Displaced(p)
  /\ taken' = [taken EXCEPT ![p] = Absent]
  /\ Resume(p, taken[p] = seen[p])
  /\ UNCHANGED <<now, result, treeVars, gateVars, runVars, goal, seen>>

\* release(): only the marker of the run that `p' speaks for.
Release(p, txid) ==
  /\ At(p, "releasing")
  /\ IF running = txid
     THEN /\ seen' = [seen EXCEPT ![p] = txid]
          /\ Goto(p, "taking")
          /\ UNCHANGED <<tries, got, told, deemed>>
     ELSE Resume(p, FALSE) /\ UNCHANGED seen
  /\ UNCHANGED <<now, fileVars, treeVars, gateVars, runVars, goal, taken, lost>>

---------------------------------------------------------------------------
(* update apply: begin() and link_marker().                                *)

Confirm(r) ==
  /\ At(r, "idle") /\ Goto(r, "linking")
  /\ now + Window <= MaxTime
  /\ at' = [at EXCEPT ![r] = now]
  /\ from' = [from EXCEPT ![r] = TreeVersion]
  /\ UNCHANGED <<now, fileVars, treeVars, gateVars, before, removalVars, got, history>>

Link(r) ==
  /\ At(r, "linking")
  /\ IF running = Absent
     THEN running' = r /\ Goto(r, "linked")
     ELSE UNCHANGED running /\ Goto(r, "inspecting")
  /\ UNCHANGED <<now, result, treeVars, gateVars, runVars, removalVars, got, history>>

Inspect(r) ==
  /\ At(r, "inspecting")
  /\ IF running = Absent
     THEN Retry(r, "linking", "done") /\ UNCHANGED seen
     ELSE /\ seen' = [seen EXCEPT ![r] = running]
          /\ Goto(r, IF InWindow(running, at[r]) THEN "checking" ELSE "taking")
          /\ UNCHANGED tries
  /\ UNCHANGED <<now, fileVars, treeVars, gateVars, runVars, goal, taken, got, history>>

\* A marker inside its window is live unless its run has left a result.
Check(r) ==
  /\ At(r, "checking")
  /\ Goto(r, IF seen[r] \in TxidOf(result) THEN "taking" ELSE "done")
  /\ UNCHANGED <<now, fileVars, treeVars, gateVars, runVars, removalVars, got, history>>

ClearResult(r) ==
  /\ At(r, "linked") /\ Goto(r, "starting")
  /\ result' = Absent
  /\ lost' = lost \cup TxidOf(result)
  /\ UNCHANGED <<now, running, treeVars, gateVars, runVars, removalVars, got, told, deemed>>

\* systemd-run; the launcher drops its marker when it fails.
StartUnit(r) ==
  /\ At(r, "starting")
  /\ goal' = [goal EXCEPT ![r] = "release"]
  /\ Goto(r, "waiting") \/ Goto(r, "releasing")
  /\ UNCHANGED <<now, fileVars, treeVars, gateVars, runVars, seen, taken, tries, got, history>>

---------------------------------------------------------------------------
(* update run: run_update() and finish().                                  *)

Found_Anonymous(r, result_) == got' = [got EXCEPT ![r] = [result |-> result_]]
Found(r, result_) == got' = [got EXCEPT ![r] = [txid |-> r, result |-> result_]]

Acquire(r) ==
  /\ At(r, "waiting") /\ Goto(r, "updating")
  /\ LockExclusive(r)
  /\ legible
  /\ before' = [before EXCEPT ![r] = tree]
  /\ UNCHANGED <<now, fileVars, treeVars, at, from, removalVars, got, history>>

\* The wait ended, for the gate may have other holders than the ones modelled;
\* or bundle.json cannot be read, which ends the run once the gate is its own.
GiveUp(r) ==
  /\ At(r, "waiting") /\ Goto(r, "publishing")
  /\ Found(r, "unchanged")
  /\ UNCHANGED <<now, fileVars, treeVars, gateVars, runVars, removalVars, history>>

Install(r) ==
  /\ At(r, "updating") /\ Goto(r, "installed")
  /\ tree' \in {tree, tree + 1}
  /\ legible' \in BOOLEAN
  /\ movers' = IF tree' # tree /\ legible' THEN movers \cup {r} ELSE movers
  /\ UNCHANGED <<now, fileVars, gateVars, runVars, removalVars, got, history>>

Classify_AgainstTheMarker(r) ==
  /\ At(r, "installed") /\ Goto(r, "publishing")
  /\ Found(r, IF MovedFrom(from[r]) THEN "updated" ELSE "unchanged")
  /\ Unlock(r)
  /\ UNCHANGED <<now, fileVars, treeVars, runVars, removalVars, history>>
\* classify(): the tree decides, whatever the plugin manager said.
Classify(r) ==
  /\ At(r, "installed") /\ Goto(r, "publishing")
  /\ Found(r, IF MovedFrom(before[r]) THEN "updated" ELSE "unchanged")
  /\ Unlock(r)
  /\ UNCHANGED <<now, fileVars, treeVars, runVars, removalVars, history>>

Publish(r) ==
  /\ At(r, "publishing") /\ Goto(r, "releasing")
  /\ result' = got[r]
  /\ lost' = lost \cup TxidOf(result)
  /\ UNCHANGED <<now, running, treeVars, gateVars, runVars, removalVars, got, told, deemed>>

---------------------------------------------------------------------------
(* update status: read_status().                                           *)

Ask(x) ==
  /\ At(x, "idle") /\ Goto(x, "claiming")
  /\ at' = [at EXCEPT ![x] = now]
  /\ UNCHANGED <<now, fileVars, treeVars, gateVars, from, before, removalVars, got, history>>

Claim_LeavesTheFile(x) ==
  /\ At(x, "claiming")
  /\ got' = [got EXCEPT ![x] = result]
  /\ IF result = Absent
     THEN Goto(x, "looking") /\ goal' = [goal EXCEPT ![x] = "abandoned"]
     ELSE Goto(x, "releasing") /\ goal' = [goal EXCEPT ![x] = "release"]
  /\ UNCHANGED <<now, fileVars, treeVars, gateVars, runVars, seen, taken, tries, history>>
Claim(x) ==
  /\ At(x, "claiming")
  /\ result' = Absent
  /\ got' = [got EXCEPT ![x] = result]
  /\ IF result = Absent
     THEN Goto(x, "looking") /\ goal' = [goal EXCEPT ![x] = "abandoned"]
     ELSE Goto(x, "releasing") /\ goal' = [goal EXCEPT ![x] = "release"]
  /\ UNCHANGED <<now, running, treeVars, gateVars, runVars, seen, taken, tries, history>>

\* Without a result: none, running, or a marker whose unit must be gone.
Look(x) ==
  /\ At(x, "looking")
  /\ IF running = Absent \/ InWindow(running, at[x])
     THEN Goto(x, "answered") /\ UNCHANGED seen
     ELSE seen' = [seen EXCEPT ![x] = running] /\ Goto(x, "taking")
  /\ UNCHANGED <<now, fileVars, treeVars, gateVars, runVars, goal, taken, tries, got, history>>

Forget(x) ==
  /\ at' = [at EXCEPT ![x] = 0]
  /\ goal' = [goal EXCEPT ![x] = "slot"]
  /\ seen' = [seen EXCEPT ![x] = Absent]
  /\ taken' = [taken EXCEPT ![x] = Absent]
  /\ tries' = [tries EXCEPT ![x] = 0]
  /\ got' = [got EXCEPT ![x] = Absent]
  /\ UNCHANGED <<from, before>>

Answer(x) ==
  /\ At(x, "answered") /\ Goto(x, "idle")
  /\ Forget(x)
  /\ UNCHANGED <<now, fileVars, treeVars, gateVars, history>>

---------------------------------------------------------------------------
\* A launcher or a unit is killed (RuntimeMaxSec, a reboot): a marker in its
\* hand is lost, and the gate is let go.
Stop(r) ==
  /\ r \in Mortal
  /\ pc[r] \notin {"idle", "done"} /\ Goto(r, "done")
  /\ taken' = [taken EXCEPT ![r] = Absent]
  /\ Unlock(r)
  /\ lost' = lost \cup ({taken[r]} \ {Absent, r})
  /\ UNCHANGED <<now, fileVars, treeVars, runVars, goal, seen, tries, got, told, deemed>>

\* So is a reader, with what it claimed.
Vanish(x) ==
  /\ x \in Mortal
  /\ pc[x] # "idle" /\ Goto(x, "idle")
  /\ Forget(x)
  /\ lost' = lost \cup TxidOf(got[x]) \cup ({taken[x]} \ {Absent})
  /\ UNCHANGED <<now, fileVars, treeVars, gateVars, told, deemed>>

Tick ==
  /\ now < MaxTime
  /\ now' = now + 1
  /\ UNCHANGED <<fileVars, treeVars, gateVars, pc, runVars, removalVars, got, history>>

RunStep(r) ==
  \/ Link(r) \/ Inspect(r) \/ Check(r) \/ ClearResult(r) \/ StartUnit(r)
  \/ Acquire(r) \/ GiveUp(r) \/ Install(r) \/ Classify(r) \/ Publish(r)
  \/ Take(r) \/ Return(r) \/ Release(r, r)

ReaderStep(x) ==
  \/ Ask(x) \/ Claim(x) \/ Look(x) \/ Answer(x)
  \/ Take(x) \/ Return(x)
  \/ got[x] # Absent /\ Release(x, got[x].txid)

Next ==
  \/ \E r \in Runs : Confirm(r) \/ RunStep(r) \/ Stop(r)
  \/ \E x \in Readers : ReaderStep(x) \/ Vanish(x)
  \/ Tick

Spec == Init /\ [][Next]_vars

\* The Service polls every 2 s while it watches an update and once whenever it
\* starts; a process runs on until it ends or is killed, and the deadline does
\* not kill each of those polls at the same step.
FairSpec ==
  /\ Spec
  /\ \A r \in Runs : WF_vars(RunStep(r))
  /\ \A x \in Readers : WF_vars(ReaderStep(x)) /\ SF_vars(Claim(x)) /\ SF_vars(Look(x)) /\ SF_vars(Take(x))
  /\ WF_vars(Tick)

---------------------------------------------------------------------------
TypeOK ==
  /\ GateTypeOK(Runs)
  /\ now \in Nat /\ tree \in Nat /\ legible \in BOOLEAN /\ movers \in SUBSET Runs
  /\ running \in Markers \cup {Absent}
  /\ result \in Outcome \cup {Absent}
  /\ pc \in [Processes -> {"idle", "linking", "inspecting", "checking", "taking", "returning", "linked",
                           "starting", "waiting", "updating", "installed", "publishing", "releasing",
                           "done", "claiming", "looking", "answered"}]
  /\ at \in [Processes -> Nat]
  /\ from \in [Markers -> Nat \cup {Absent}]
  /\ before \in [Runs -> Nat]
  /\ goal \in [Processes -> {"slot", "release", "abandoned"}]
  /\ seen \in [Processes -> Markers \cup {Absent}]
  /\ taken \in [Processes -> Markers \cup {Absent}]
  /\ tries \in [Processes -> 0..LinkAttempts]
  /\ got \in [Processes -> Outcome \cup {Absent}]
  /\ told \in [Markers -> Nat] /\ deemed \in [Markers -> Nat] /\ lost \in SUBSET Markers

\* A run that saw `Started' and has neither reached an outcome nor outlived
\* its window.
HoldsSlot(r) ==
  /\ pc[r] \in {"linked", "starting", "waiting", "updating", "installed"}
  /\ InWindow(r, now)

Reported(r) == told[r] + deemed[r] > 0

\* A result names an update exactly when its own run moved the tree to another
\* version, one that can be read, whatever other runs did between its launch and
\* its result (CLI-029C).
UpdatesAreAttributed ==
  result # Absent => (result.result = "updated" <=> result.txid \in movers)

\* No two readers report one result document (CLI-029B).
ResultsAreReportedOnce == \A m \in Markers : told[m] <= 1

\* A run that holds the slot keeps its marker, however readers that judged an
\* earlier marker and launchers that lost the race handle the file: it is on
\* disk or in the hands of a process about to put it back.  It holds with one
\* launcher; with a second, a run that took its marker for the own one and is
\* killed before it puts it back loses it.
MarkersSurvive ==
  \A r \in Runs : HoldsSlot(r) /\ ~Reported(r) =>
    running = r \/ \E p \in Processes : taken[p] = r

\* A marker does not block the slot for ever: its run, a reader or the next
\* launcher removes it, also when its run was killed.
EverySlotIsFreed == \A r \in Runs : running = r ~> running # r

\* A run whose unit started is reported, also when the unit was killed before
\* it left a result, unless a later launcher clears what it left or a reader is
\* killed with it in hand (read_status(), begin_racing()).  Checked with one run.
EveryRunIsReported ==
  \A r \in Runs : pc[r] = "waiting" ~> Reported(r) \/ r \in lost \/ \E q \in Runs \ {r} : pc[q] # "idle"

\* What is left of a run: its unit, its marker or its result, on disk or in
\* the hands of another process.
Traced(r) ==
  \/ pc[r] \in {"waiting", "updating", "installed", "publishing"}
  \/ running = r
  \/ r \in TxidOf(result)
  \/ \E p \in Processes \ {r} : taken[p] = r
  \/ \E x \in Readers : r \in TxidOf(got[x])

\* A launcher that drops its own marker because its unit did not start.
Withdraws(r) == got[r] = Absent /\ pc[r] # pc'[r]

LeavesNoRunUnreported ==
  \A r \in Runs : Traced(r) /\ ~Traced(r)' => Reported(r)' \/ r \in lost' \/ Withdraws(r)

\* Nothing of a run disappears unreported, whether it ends, is killed or is
\* judged by a reader that meant another marker (finish(), read_status(),
\* remove_if_unchanged()), but for its own failed launch, a marker or a result
\* that makes room for another run's, and a process killed with it in hand.
NoRunIsForgotten == [][LeavesNoRunUnreported]_vars

\* Two racing launchers never both start a unit (CLI-029A).
OneLauncherStarts ==
  \A q, r \in Runs : q # r => ~(HoldsSlot(q) /\ HoldsSlot(r))

\* Each finished run is reported exactly once (read_status()).
RunsAreReportedOnce == \A r \in Runs : told[r] + deemed[r] <= 1
=============================================================================
