---------------------------- MODULE HelperLane ----------------------------
(***************************************************************************)
(* components/HelperLane.qml: one lane runs one helper process at a time   *)
(* under a deadline.  JavaScript handlers run to completion, so each       *)
(* handler is one step, the owner's `settled' callback included.  Setting  *)
(* process.running to false only sends SIGTERM: the process keeps running  *)
(* until its own exit arrives (tests/qml/tst_HelperLane.qml:24).           *)
(***************************************************************************)
EXTENDS LanePhase, Naturals, Sequences

CONSTANTS
  Contexts,   \* what an owner attaches to a run
  NoContext,  \* the null context
  MaxRunId    \* bound on runId: the counter itself is unbounded

ASSUME ContextAssumption == NoContext \notin Contexts
ASSUME BoundAssumption == MaxRunId \in Nat

VARIABLES
  outstanding, stallMark, runId, startedRunId, pendingContext,
  running,     \* process.running
  processRun,  \* the run the process was spawned for
  accepted,    \* history: the context of each run start() accepted
  outcomes     \* history: what the owner was told, oldest first

laneVars == <<outstanding, stallMark, runId, startedRunId, pendingContext,
              running, processRun, accepted, outcomes>>

Outcome == [run: Nat, servedBy: Nat, timedOut: BOOLEAN, context: Contexts]

Init ==
  /\ outstanding = FALSE
  /\ stallMark = FALSE
  /\ runId = 0
  /\ startedRunId = 0
  /\ pendingContext = NoContext
  /\ running = FALSE
  /\ processRun = 0
  /\ accepted = <<>>
  /\ outcomes = <<>>

IsReady_ForgetsTheProcess(out, alive) == ~out
IsReady(out, alive) == ~out /\ ~alive

\* start(), from a transition that has brought the run counter to `id'.
\* Asking a live process to run again does nothing: it serves its old run.
Begin(id, alive, c) ==
  /\ IsReady(FALSE, alive)
  /\ id < MaxRunId
  /\ runId' = id + 1
  /\ startedRunId' = id + 1
  /\ outstanding' = TRUE
  /\ pendingContext' = c
  /\ running' = TRUE
  /\ processRun' = IF alive THEN processRun ELSE id + 1
  /\ accepted' = Append(accepted, c)

Start(c) ==
  /\ IsReady(outstanding, running)
  /\ Begin(runId, running, c)
  /\ UNCHANGED <<stallMark, outcomes>>

\* What the owner is told; settle() clears the context only afterwards.
Report_AfterClearing(timedOut) ==
  [run |-> startedRunId, servedBy |-> processRun, timedOut |-> timedOut,
   context |-> NoContext]
Report(timedOut) ==
  [run |-> startedRunId, servedBy |-> processRun, timedOut |-> timedOut,
   context |-> pendingContext]

\* settle(): the run is over before the owner hears of it, so the owner's
\* callback may already start the next one.
Settle(id, alive, timedOut) ==
  /\ outcomes' = Append(outcomes, Report(timedOut))
  /\ stallMark' = timedOut
  /\ \/ /\ outstanding' = FALSE
        /\ pendingContext' = NoContext
        /\ running' = alive
        /\ runId' = id
        /\ UNCHANGED <<startedRunId, processRun, accepted>>
     \/ \E c \in Contexts : Begin(id, alive, c)

\* The deadline moved the counter on: this exit belongs to no pending run.
Abandoned_AnyExitCounts == FALSE
Abandoned == startedRunId # runId

\* onExited -> finish()
Exit ==
  /\ running
  /\ IF outstanding /\ ~Abandoned
     THEN Settle(runId, FALSE, FALSE)
     ELSE /\ running' = FALSE
          /\ stallMark' = (stallMark /\ ~Abandoned)
          /\ UNCHANGED <<outstanding, runId, startedRunId, pendingContext,
                         processRun, accepted, outcomes>>

\* The process ends with no exited signal: it never started.
Lose ==
  /\ running /\ outstanding
  /\ running' = FALSE
  /\ UNCHANGED <<outstanding, stallMark, runId, startedRunId, pendingContext,
                 processRun, accepted, outcomes>>

\* expire(): the deadline timer runs exactly while a run is outstanding.
Expire_OnlyLiveProcesses ==
  /\ outstanding /\ running
  /\ Settle(runId + 1, running, TRUE)
Expire ==
  /\ outstanding
  /\ Settle(runId + 1, running, TRUE)

ClearStall ==
  /\ stallMark' = FALSE
  /\ UNCHANGED <<outstanding, runId, startedRunId, pendingContext, running,
                 processRun, accepted, outcomes>>

Next ==
  \/ \E c \in Contexts : Start(c)
  \/ Exit
  \/ Lose
  \/ Expire
  \/ ClearStall

Spec == Init /\ [][Next]_laneVars

\* The deadline timer fires, and a terminated process exits in the end.
FairSpec ==
  /\ Spec
  /\ WF_laneVars(Expire)
  /\ WF_laneVars(~outstanding /\ Exit)

---------------------------------------------------------------------------
TypeOK ==
  /\ outstanding \in BOOLEAN
  /\ stallMark \in BOOLEAN
  /\ runId \in Nat
  /\ startedRunId \in Nat
  /\ pendingContext \in Contexts \cup {NoContext}
  /\ running \in BOOLEAN
  /\ processRun \in Nat
  /\ accepted \in Seq(Contexts)
  /\ outcomes \in Seq(Outcome)

\* The run counter tells a live run's exit from a corpse's: while a run is
\* outstanding its id is the counter and the process is its own, and a process
\* that outlives its run is always one the counter has moved past.
ExitsAreTellable ==
  /\ outstanding => startedRunId = runId /\ processRun = startedRunId
  /\ running /\ ~outstanding => startedRunId # runId

\* A run answered by an exit was answered by its own process: the exit of a
\* process the deadline gave up on never becomes a later run's result
\* (startedRunId against runId in finish(), and `ready' in start()).
AnsweredByItsOwnProcess ==
  \A i \in DOMAIN outcomes :
    ~outcomes[i].timedOut => outcomes[i].run = outcomes[i].servedBy

\* The owner is told of every accepted run once, in the order it started
\* them, with the context it pinned at start, whatever exits, losses and
\* deadlines interleave.
ToldOnceInOrder ==
  /\ Len(accepted) = Len(outcomes) + (IF outstanding THEN 1 ELSE 0)
  /\ \A i \in DOMAIN outcomes : outcomes[i].context = accepted[i]
  /\ outstanding => pendingContext = accepted[Len(accepted)]

\* Every accepted run is settled, even when its process never started, and a
\* lane that its deadline closed opens again: no run stays busy, and none
\* keeps a terminated process in the lane (expire(), onExited).
EveryRunSettles ==
  \A id \in 1..MaxRunId :
    LET Holds == (outstanding /\ startedRunId = id) \/ (running /\ processRun = id)
    IN  Holds ~> ~Holds

\* The lane implements the contract the Service builds on.
Contract == INSTANCE LaneContract WITH
  phase   <- PhaseOf(outstanding, running),
  stall   <- stallMark,
  started <- Len(accepted),
  settled <- Len(outcomes)

ImplementsContract == Contract!ContractSpec

\* Every transition of the lane, whatever its owner asks for inside it, is one
\* of those the Service reckons with (settle(), start(), clearStall()).
StepsAreReckonedWith ==
  [][LaneStep(PhaseOf(outstanding, running), stallMark,
              PhaseOf(outstanding', running'), stallMark')]_laneVars
==========================================================================
