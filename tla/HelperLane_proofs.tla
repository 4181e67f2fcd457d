------------------------- MODULE HelperLane_proofs -------------------------
(* Theorems about HelperLane for any contexts and any bound on the counter. *)
EXTENDS HelperLane, TLAPS

\* The inductive invariant.  ToldOnceInOrder speaks of the histories; that a
\* step keeps it depends on which exits settle a run, hence ExitsAreTellable.
LaneInv ==
  /\ TypeOK
  /\ ExitsAreTellable
  /\ AnsweredByItsOwnProcess
  /\ ToldOnceInOrder

LEMMA InitLaneInv == Init => LaneInv
<1> SUFFICES ASSUME Init PROVE LaneInv
  OBVIOUS
<1>1. Len(accepted) = 0 /\ Len(outcomes) = 0 /\ DOMAIN outcomes = {}
  BY DEF Init
<1>2. accepted \in Seq(Contexts) /\ outcomes \in Seq(Outcome)
  BY DEF Init
<1>3. TypeOK
  BY <1>2 DEF Init, TypeOK
<1>4. ToldOnceInOrder
  BY <1>1 DEF Init, ToldOnceInOrder
<1> QED
  BY <1>1, <1>3, <1>4 DEF Init, LaneInv, ExitsAreTellable, AnsweredByItsOwnProcess

\* A settlement reports the outstanding run, to an owner who may start another.
LEMMA SettleKeepsLaneInv ==
  ASSUME LaneInv, outstanding, NEW id \in Nat, NEW alive \in BOOLEAN, NEW timedOut \in BOOLEAN,
         alive => id # startedRunId,
         Settle(id, alive, timedOut)
  PROVE  LaneInv'
<1> DEFINE o == Report(timedOut)
<1> USE DEF LaneInv
<1>1. o \in Outcome /\ outcomes' = Append(outcomes, o) /\ pendingContext = accepted[Len(accepted)]
      /\ pendingContext \in Contexts
  <2>1. Len(accepted) \in DOMAIN accepted
    BY DEF ToldOnceInOrder, TypeOK
  <2>2. pendingContext \in Contexts
    BY <2>1 DEF ToldOnceInOrder, TypeOK
  <2> QED
    BY <2>2 DEF Settle, Report, Outcome, TypeOK, ToldOnceInOrder
<1>2. /\ outcomes' \in Seq(Outcome)
      /\ Len(outcomes') = Len(outcomes) + 1
      /\ \A i \in DOMAIN outcomes : outcomes'[i] = outcomes[i]
      /\ outcomes'[Len(outcomes) + 1] = o
      /\ DOMAIN outcomes' = DOMAIN outcomes \cup {Len(outcomes) + 1}
  BY <1>1 DEF TypeOK
<1>3. AnsweredByItsOwnProcess'
  BY <1>2 DEF AnsweredByItsOwnProcess, ExitsAreTellable, Report
<1>4. \A i \in DOMAIN outcomes' : outcomes'[i].context = accepted[i]
  BY <1>1, <1>2 DEF ToldOnceInOrder, TypeOK, Report
<1>5. CASE /\ outstanding' = FALSE
           /\ pendingContext' = NoContext
           /\ running' = alive
           /\ runId' = id
           /\ UNCHANGED <<startedRunId, processRun, accepted>>
  <2>1. TypeOK'
    BY <1>2, <1>5 DEF TypeOK, Settle
  <2>2. ExitsAreTellable'
    BY <1>5 DEF ExitsAreTellable
  <2>3. ToldOnceInOrder'
    BY <1>2, <1>4, <1>5 DEF ToldOnceInOrder, TypeOK
  <2> QED
    BY <2>1, <2>2, <2>3, <1>3
<1>6. ASSUME NEW c \in Contexts, Begin(id, alive, c)
      PROVE  LaneInv'
  <2>1. TypeOK'
    BY <1>2, <1>6 DEF TypeOK, Settle, Begin
  <2>2. ExitsAreTellable'
    BY <1>6 DEF ExitsAreTellable, Begin, IsReady
  <2>3. /\ Len(accepted') = Len(accepted) + 1
        /\ \A i \in DOMAIN accepted : accepted'[i] = accepted[i]
        /\ accepted'[Len(accepted')] = c
    BY <1>6 DEF Begin, TypeOK
  <2>4. ToldOnceInOrder'
    <3>1. DOMAIN outcomes' = DOMAIN accepted
      BY <1>2 DEF ToldOnceInOrder, TypeOK
    <3> QED
      BY <3>1, <1>2, <1>4, <1>6, <2>3 DEF ToldOnceInOrder, TypeOK, Begin
  <2> QED
    BY <2>1, <2>2, <2>4, <1>3
<1> QED
  BY <1>5, <1>6 DEF Settle

LEMMA NextLaneInv == LaneInv /\ [Next]_laneVars => LaneInv'
<1> SUFFICES ASSUME LaneInv, [Next]_laneVars PROVE LaneInv'
  OBVIOUS
<1>1. ASSUME NEW c \in Contexts, Start(c) PROVE LaneInv'
  <2> USE <1>1 DEF LaneInv
  <2>1. /\ Len(accepted') = Len(accepted) + 1
        /\ \A i \in DOMAIN accepted : accepted'[i] = accepted[i]
        /\ accepted'[Len(accepted')] = c
    BY DEF Start, Begin, TypeOK
  <2>2. TypeOK'
    BY DEF Start, Begin, TypeOK
  <2>3. ExitsAreTellable' /\ AnsweredByItsOwnProcess'
    BY DEF Start, Begin, IsReady, ExitsAreTellable, AnsweredByItsOwnProcess
  <2>4. ToldOnceInOrder'
    <3>1. DOMAIN outcomes = DOMAIN accepted /\ outcomes' = outcomes
      BY DEF ToldOnceInOrder, TypeOK, Start, Begin, IsReady
    <3> QED
      BY <3>1, <2>1 DEF ToldOnceInOrder, TypeOK, Start, Begin, IsReady
  <2> QED
    BY <2>2, <2>3, <2>4
<1>2. CASE Exit
  <2>1. CASE outstanding /\ ~Abandoned
    <3>1. Settle(runId, FALSE, FALSE) /\ runId \in Nat
      BY <1>2, <2>1 DEF Exit, LaneInv, TypeOK
    <3> QED
      BY <3>1, <2>1, SettleKeepsLaneInv
  <2>2. CASE ~(outstanding /\ ~Abandoned)
    BY <1>2, <2>2 DEF Exit, LaneInv, TypeOK, ExitsAreTellable, AnsweredByItsOwnProcess, ToldOnceInOrder
  <2> QED
    BY <2>1, <2>2
<1>3. CASE Lose
  BY <1>3 DEF Lose, LaneInv, TypeOK, ExitsAreTellable, AnsweredByItsOwnProcess, ToldOnceInOrder
<1>4. CASE Expire
  <2>1. outstanding /\ Settle(runId + 1, running, TRUE)
    BY <1>4 DEF Expire
  <2>2. runId + 1 \in Nat /\ runId + 1 # startedRunId
    BY <2>1 DEF LaneInv, TypeOK, ExitsAreTellable
  <2>3. running \in BOOLEAN
    BY DEF LaneInv, TypeOK
  <2> QED
    BY <2>1, <2>2, <2>3, SettleKeepsLaneInv
<1>5. CASE ClearStall
  BY <1>5 DEF ClearStall, LaneInv, TypeOK, ExitsAreTellable, AnsweredByItsOwnProcess, ToldOnceInOrder
<1>6. CASE UNCHANGED laneVars
  BY <1>6 DEF laneVars, LaneInv, TypeOK, ExitsAreTellable, AnsweredByItsOwnProcess, ToldOnceInOrder
<1> QED
  BY <1>1, <1>2, <1>3, <1>4, <1>5, <1>6 DEF Next

LEMMA LaneInvHolds == Spec => []LaneInv
  BY InitLaneInv, NextLaneInv, PTL DEF Spec

\* Type correctness of the lane's state (HelperLane.qml:20-26).
THEOREM LaneTypeOK == Spec => []TypeOK
<1>1. LaneInv => TypeOK
  BY DEF LaneInv
<1> QED
  BY <1>1, LaneInvHolds, PTL

\* finish() compares run ids, so a corpse's exit never answers a later run.
THEOREM LaneAnswersOwnRun == Spec => [](ExitsAreTellable /\ AnsweredByItsOwnProcess)
<1>1. LaneInv => ExitsAreTellable /\ AnsweredByItsOwnProcess
  BY DEF LaneInv
<1> QED
  BY <1>1, LaneInvHolds, PTL

\* settle() reports every accepted run once, in order, with its own context.
THEOREM LaneTellsOnceInOrder == Spec => []ToldOnceInOrder
<1>1. LaneInv => ToldOnceInOrder
  BY DEF LaneInv
<1> QED
  BY <1>1, LaneInvHolds, PTL
---------------------------------------------------------------------------
\* A settlement is an answer or a giving-up in the contract's terms.
LEMMA SettleReports ==
  ASSUME LaneInv, outstanding, NEW id \in Nat, NEW alive \in BOOLEAN, NEW timedOut \in BOOLEAN,
         Settle(id, alive, timedOut)
  PROVE  Contract!Report(PhaseOf(FALSE, alive), timedOut)
<1> USE DEF LaneInv, TypeOK, Contract!Report, Contract!Busy, Contract!Ready, PhaseOf
<1>1. Len(outcomes') = Len(outcomes) + 1 /\ stallMark' = timedOut
  BY DEF Settle
<1>2. CASE outstanding' = FALSE /\ running' = alive /\ UNCHANGED accepted
  BY <1>1, <1>2
<1>3. ASSUME NEW c \in Contexts, Begin(id, alive, c)
      PROVE  Contract!Report(PhaseOf(FALSE, alive), timedOut)
  <2>1. Len(accepted') = Len(accepted) + 1
    BY <1>3 DEF Begin
  <2> QED
    BY <1>1, <1>3, <2>1 DEF Begin, IsReady
<1> QED
  BY <1>2, <1>3 DEF Settle

LEMMA LaneStepIsContractStep ==
  LaneInv /\ [Next]_laneVars => [Contract!ContractNext]_(Contract!contractVars)
<1> SUFFICES ASSUME LaneInv, [Next]_laneVars
             PROVE  [Contract!ContractNext]_(Contract!contractVars)
  OBVIOUS
<1> USE DEF Contract!ContractNext, Contract!contractVars
<1>1. ASSUME NEW c \in Contexts, Start(c) PROVE Contract!Accept
  BY <1>1 DEF Start, Begin, IsReady, Contract!Accept, Contract!Ready, PhaseOf, LaneInv, TypeOK
<1>2. CASE Exit
  <2>1. CASE outstanding /\ ~Abandoned
    <3>1. Settle(runId, FALSE, FALSE) /\ runId \in Nat /\ running
      BY <1>2, <2>1 DEF Exit, LaneInv, TypeOK
    <3>2. Contract!Report(PhaseOf(FALSE, FALSE), FALSE)
      BY <3>1, <2>1, SettleReports
    <3> QED
      BY <3>1, <3>2, <2>1 DEF Contract!Answer, PhaseOf
  <2>2. CASE ~(outstanding /\ ~Abandoned)
    <3>1. ~outstanding /\ Abandoned
      BY <1>2, <2>2 DEF Exit, LaneInv, ExitsAreTellable, Abandoned
    <3> QED
      BY <1>2, <3>1 DEF Exit, Contract!Bury, PhaseOf
  <2> QED
    BY <2>1, <2>2
<1>3. CASE Lose
  BY <1>3 DEF Lose, Contract!Lose, PhaseOf
<1>4. CASE Expire
  <2>1. outstanding /\ Settle(runId + 1, running, TRUE)
    BY <1>4 DEF Expire
  <2>2. runId + 1 \in Nat
    BY DEF LaneInv, TypeOK
  <2>3. running \in BOOLEAN
    BY DEF LaneInv, TypeOK
  <2>4. Contract!Report(PhaseOf(FALSE, running), TRUE)
    BY <2>1, <2>2, <2>3, SettleReports
  <2>5. PhaseOf(FALSE, running) = Contract!Expired(PhaseOf(outstanding, running))
    BY <2>1, <2>3 DEF PhaseOf, Contract!Expired
  <2> QED
    BY <2>4, <2>5 DEF Contract!GiveUp
<1>5. CASE ClearStall
  BY <1>5 DEF ClearStall, Contract!Forgive, PhaseOf
<1>6. CASE UNCHANGED laneVars
  BY <1>6 DEF laneVars, PhaseOf
<1> QED
  BY <1>1, <1>2, <1>3, <1>4, <1>5, <1>6 DEF Next

\* The lane is a LaneContract: what the Service may assume of each lane.
THEOREM LaneImplementsContract == Spec => ImplementsContract
<1>1. Init => Contract!ContractInit
  BY DEF Init, Contract!ContractInit, PhaseOf
<1> QED
  BY <1>1, LaneInvHolds, LaneStepIsContractStep, PTL
     DEF Spec, ImplementsContract, Contract!ContractSpec

\* The contract's actions, without their counts.
LEMMA ContractStepsAreLaneSteps ==
  [Contract!ContractNext]_(Contract!contractVars) =>
    LaneStep(PhaseOf(outstanding, running), stallMark, PhaseOf(outstanding', running'), stallMark')
<1> USE DEF LaneStep, Ready, Busy, Expired, Contract!Ready, Contract!Busy, Contract!Expired
<1>1. CASE Contract!Accept
  BY <1>1 DEF Contract!Accept
<1>2. CASE Contract!Answer
  BY <1>2 DEF Contract!Answer, Contract!Report
<1>3. CASE Contract!GiveUp
  BY <1>3 DEF Contract!GiveUp, Contract!Report
<1>4. CASE Contract!Lose
  BY <1>4 DEF Contract!Lose
<1>5. CASE Contract!Bury
  BY <1>5 DEF Contract!Bury
<1>6. CASE Contract!Forgive
  BY <1>6 DEF Contract!Forgive
<1>7. CASE UNCHANGED Contract!contractVars
  BY <1>7 DEF Contract!contractVars
<1> QED
  BY <1>1, <1>2, <1>3, <1>4, <1>5, <1>6, <1>7 DEF Contract!ContractNext

\* Every transition of the lane is a LaneStep, which is what the Service makes of
\* its lanes in every step of its own (settle() calls the owner back).
THEOREM LaneStepsAreReckonedWith == Spec => StepsAreReckonedWith
<1>1. LaneInv /\ [Next]_laneVars =>
        [LaneStep(PhaseOf(outstanding, running), stallMark,
                  PhaseOf(outstanding', running'), stallMark')]_laneVars
  BY LaneStepIsContractStep, ContractStepsAreLaneSteps
<1> QED
  BY <1>1, LaneInvHolds, PTL DEF Spec, StepsAreReckonedWith
==========================================================================
