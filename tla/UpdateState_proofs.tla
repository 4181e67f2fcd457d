------------------------- MODULE UpdateState_proofs -------------------------
(***************************************************************************)
(* Proofs about UpdateState, for any number of update runs and status      *)
(* readers, any first marker, and any choice of the processes that may be  *)
(* killed.                                                                 *)
(***************************************************************************)
EXTENDS UpdateState, TLAPS

\* The marker that release() is called for: a run's own, or that of the result
\* a reader claimed.
Speaks(p, txid) ==
  /\ p \in Runs => txid = p
  /\ p \in Readers => got[p] # Absent /\ txid = got[p].txid

---------------------------------------------------------------------------
(* The steps, by the process that takes them.                              *)

LEMMA StepCases ==
  [Next]_vars =>
    \/ \E r \in Runs :
         \/ Confirm(r) \/ Link(r) \/ Inspect(r) \/ Check(r) \/ ClearResult(r) \/ StartUnit(r)
         \/ Acquire(r) \/ GiveUp(r) \/ Install(r) \/ Classify(r) \/ Publish(r) \/ Stop(r)
    \/ \E x \in Readers : Ask(x) \/ Claim(x) \/ Look(x) \/ Answer(x) \/ Vanish(x)
    \/ \E p \in Processes : Take(p) \/ Return(p) \/ \E txid : Release(p, txid) /\ Speaks(p, txid)
    \/ Tick
    \/ UNCHANGED vars
<1> SUFFICES ASSUME [Next]_vars
             PROVE  \/ \E r \in Runs :
                         \/ Confirm(r) \/ Link(r) \/ Inspect(r) \/ Check(r) \/ ClearResult(r) \/ StartUnit(r)
                         \/ Acquire(r) \/ GiveUp(r) \/ Install(r) \/ Classify(r) \/ Publish(r) \/ Stop(r)
                    \/ \E x \in Readers : Ask(x) \/ Claim(x) \/ Look(x) \/ Answer(x) \/ Vanish(x)
                    \/ \E p \in Processes : Take(p) \/ Return(p) \/ \E txid : Release(p, txid) /\ Speaks(p, txid)
                    \/ Tick
                    \/ UNCHANGED vars
  OBVIOUS
<1>1. ASSUME NEW r \in Runs PROVE r \in Processes /\ Speaks(r, r)
  BY UpdateAssumption DEF Processes, Speaks
<1>2. ASSUME NEW x \in Readers, got[x] # Absent PROVE x \in Processes /\ Speaks(x, got[x].txid)
  BY <1>2, UpdateAssumption DEF Processes, Speaks
<1>3. CASE \E r \in Runs : Confirm(r) \/ RunStep(r) \/ Stop(r)
  BY <1>1, <1>3 DEF RunStep
<1>4. CASE \E x \in Readers : ReaderStep(x) \/ Vanish(x)
  BY <1>2, <1>4 DEF ReaderStep, Processes
<1> QED
  BY <1>3, <1>4 DEF Next

---------------------------------------------------------------------------
(* Where each process is, and what it knows there.                         *)

\* A run has its slot to win before its unit starts, and its marker to drop
\* afterwards.
RunControl ==
  \A r \in Runs :
    /\ pc[r] \in {"idle", "linking", "inspecting", "checking", "taking", "returning", "linked", "starting",
                  "waiting", "updating", "installed", "publishing", "releasing", "done"}
    /\ goal[r] \in {"slot", "release"}
    /\ pc[r] \in {"idle", "linking", "inspecting", "checking", "linked", "starting"} => goal[r] = "slot"
    /\ pc[r] \in {"waiting", "updating", "installed", "publishing", "releasing"} => goal[r] = "release"
    /\ got[r] # Absent => got[r].txid = r
    /\ pc[r] = "publishing" => got[r] # Absent
    /\ pc[r] \in {"taking", "returning"} /\ goal[r] = "release" => seen[r] = r

\* A reader either claimed a result, whose run's marker it then drops, or
\* judged a marker that has none.
ReaderControl ==
  \A x \in Readers :
    /\ pc[x] \in {"idle", "claiming", "looking", "taking", "returning", "releasing", "answered"}
    /\ pc[x] \in {"idle", "claiming", "looking"} => got[x] = Absent
    /\ pc[x] = "looking" => goal[x] = "abandoned"
    /\ pc[x] = "releasing" => goal[x] = "release" /\ got[x] # Absent
    /\ pc[x] \in {"taking", "returning"} =>
         \/ goal[x] = "release" /\ got[x] # Absent /\ seen[x] = got[x].txid
         \/ goal[x] = "abandoned" /\ got[x] = Absent

RemovalControl ==
  \A p \in Processes :
    /\ pc[p] = "returning" => taken[p] \in Markers
    /\ pc[p] # "returning" => taken[p] = Absent
    /\ pc[p] \in {"checking", "taking", "returning"} => seen[p] \in Markers
    /\ tries[p] = LinkAttempts => pc[p] \in {"done", "answered"}

Control == RunControl /\ ReaderControl /\ RemovalControl

\* One of the LINK_ATTEMPTS rounds is over.
LEMMA RetryTypes ==
  ASSUME TypeOK, RemovalControl, NEW p \in Processes, pc[p] \notin {"done", "answered"},
         NEW first, NEW otherwise, Retry(p, first, otherwise)
  PROVE  tries' \in [Processes -> 0..LinkAttempts]
<1>1. tries[p] \in 0..LinkAttempts /\ tries[p] # LinkAttempts
  BY DEF TypeOK, RemovalControl
<1>2. tries[p] + 1 \in 0..LinkAttempts
  BY <1>1, UpdateAssumption
<1> QED
  BY <1>2 DEF Retry, TypeOK

\* What the caller of remove_if_unchanged() does with its answer.
LEMMA ResumeTypes ==
  ASSUME TypeOK, Control, NEW p \in Processes, pc[p] \notin {"done", "answered"},
         NEW removed \in BOOLEAN, removed => seen[p] \in Markers, Resume(p, removed)
  PROVE  /\ tries' \in [Processes -> 0..LinkAttempts]
         /\ told' \in [Markers -> Nat] /\ deemed' \in [Markers -> Nat]
         /\ got' \in [Processes -> Outcome \cup {Absent}]
         /\ pc' \in [Processes -> {"idle", "linking", "inspecting", "checking", "taking", "returning", "linked",
                                  "starting", "waiting", "updating", "installed", "publishing", "releasing",
                                  "done", "claiming", "looking", "answered"}]
<1>1. removed => Abandoned(seen[p]) \in Outcome
  BY DEF Abandoned, Outcome
<1>2. CASE goal[p] = "slot"
  BY <1>2, RetryTypes DEF Resume, Retry, Goto, TypeOK, Control
<1>3. CASE goal[p] = "release"
  BY <1>3 DEF Resume, Goto, TypeOK
<1>4. CASE goal[p] = "abandoned" /\ removed
  BY <1>1, <1>4 DEF Resume, Goto, TypeOK
<1>5. CASE goal[p] = "abandoned" /\ ~removed
  BY <1>5, RetryTypes DEF Resume, Retry, Goto, TypeOK, Control
<1> QED
  BY <1>2, <1>3, <1>4, <1>5 DEF TypeOK

LEMMA InitControl == Init => TypeOK /\ Control
BY UpdateAssumption DEF Init, GateInit, TypeOK, GateTypeOK, Markers, Processes, Control, RunControl,
   ReaderControl, RemovalControl

LEMMA NextControl == TypeOK /\ Control /\ [Next]_vars => (TypeOK /\ Control)'
<1> SUFFICES ASSUME TypeOK, Control, [Next]_vars PROVE (TypeOK /\ Control)'
  OBVIOUS
<1> USE DEF fileVars, treeVars, runVars, removalVars, history, gateVars
<1>1. ASSUME NEW r \in Runs, Confirm(r) PROVE (TypeOK /\ Control)'
  <2>1. TypeOK'
    BY <1>1, UpdateAssumption DEF Confirm, TreeVersion, At, Goto, TypeOK, GateTypeOK, Outcome, Markers, Processes, Control,
       RunControl, ReaderControl, RemovalControl
  <2>2. RunControl'
    BY <1>1, UpdateAssumption DEF Confirm, At, Goto, TypeOK, Processes, Outcome, Markers, Control, RunControl
  <2>3. ReaderControl'
    BY <1>1, UpdateAssumption DEF Confirm, At, Goto, TypeOK, Processes, Outcome, Control, ReaderControl,
       RunControl
  <2>4. RemovalControl'
    BY <1>1, UpdateAssumption DEF Confirm, At, Goto, TypeOK, Outcome, Processes, Markers, Control,
       RemovalControl, ReaderControl
  <2> QED
    BY <2>1, <2>2, <2>3, <2>4 DEF Control
<1>2. ASSUME NEW r \in Runs, Link(r) PROVE (TypeOK /\ Control)'
  <2>1. TypeOK'
    BY <1>2, UpdateAssumption DEF Link, At, Goto, TypeOK, GateTypeOK, Outcome, Markers, Processes, Control,
       RunControl, ReaderControl, RemovalControl
  <2>2. RunControl'
    BY <1>2, UpdateAssumption DEF Link, At, Goto, TypeOK, Processes, Outcome, Markers, Control, RunControl
  <2>3. ReaderControl'
    BY <1>2, UpdateAssumption DEF Link, At, Goto, TypeOK, Processes, Outcome, Control, ReaderControl, RunControl
  <2>4. RemovalControl'
    BY <1>2, UpdateAssumption DEF Link, At, Goto, TypeOK, Outcome, Processes, Markers, Control, RemovalControl,
       ReaderControl
  <2> QED
    BY <2>1, <2>2, <2>3, <2>4 DEF Control
<1>3. ASSUME NEW r \in Runs, Inspect(r) PROVE (TypeOK /\ Control)'
  <2>1. TypeOK'
    <3>1. CASE running = Absent
      <4>1. tries' \in [Processes -> 0..LinkAttempts]
        BY <1>3, <3>1, RetryTypes DEF Inspect, At, Control, Processes
      <4> QED
        BY <1>3, <3>1, <4>1 DEF Inspect, At, Goto, Retry, TypeOK, GateTypeOK, Processes
    <3>2. CASE running # Absent
      BY <1>3, <3>2 DEF Inspect, At, Goto, TypeOK, GateTypeOK, Processes
    <3> QED
      BY <3>1, <3>2
  <2>2. RunControl'
    BY <1>3, UpdateAssumption DEF Inspect, At, Goto, Retry, TypeOK, Processes, Outcome, Markers, Control,
       RunControl
  <2>3. ReaderControl'
    BY <1>3, UpdateAssumption DEF Inspect, At, Goto, Retry, TypeOK, Processes, Outcome, Control, ReaderControl,
       RunControl
  <2>4. RemovalControl'
    BY <1>3, UpdateAssumption DEF Inspect, At, Goto, Retry, TypeOK, Outcome, Processes, Markers, Control,
       RemovalControl, ReaderControl
  <2> QED
    BY <2>1, <2>2, <2>3, <2>4 DEF Control
<1>4. ASSUME NEW r \in Runs, Check(r) PROVE (TypeOK /\ Control)'
  <2>1. TypeOK'
    BY <1>4, UpdateAssumption DEF Check, At, Goto, TypeOK, GateTypeOK, Outcome, Markers, Processes, Control,
       RunControl, ReaderControl, RemovalControl
  <2>2. RunControl'
    BY <1>4, UpdateAssumption DEF Check, At, Goto, TypeOK, Processes, Outcome, Markers, Control, RunControl
  <2>3. ReaderControl'
    BY <1>4, UpdateAssumption DEF Check, At, Goto, TypeOK, Processes, Outcome, Control, ReaderControl,
       RunControl
  <2>4. RemovalControl'
    BY <1>4, UpdateAssumption DEF Check, At, Goto, TypeOK, Outcome, Processes, Markers, Control, RemovalControl,
       ReaderControl
  <2> QED
    BY <2>1, <2>2, <2>3, <2>4 DEF Control
<1>5. ASSUME NEW r \in Runs, ClearResult(r) PROVE (TypeOK /\ Control)'
  <2>1. TypeOK'
    BY <1>5, UpdateAssumption DEF ClearResult, At, Goto, TxidOf, TypeOK, GateTypeOK, Outcome, Markers,
       Processes, Control, RunControl, ReaderControl, RemovalControl
  <2>2. RunControl'
    BY <1>5, UpdateAssumption DEF ClearResult, At, Goto, TxidOf, TypeOK, Processes, Outcome, Markers, Control,
       RunControl
  <2>3. ReaderControl'
    BY <1>5, UpdateAssumption DEF ClearResult, At, Goto, TxidOf, TypeOK, Processes, Outcome, Control,
       ReaderControl, RunControl
  <2>4. RemovalControl'
    BY <1>5, UpdateAssumption DEF ClearResult, At, Goto, TxidOf, TypeOK, Outcome, Processes, Markers, Control,
       RemovalControl, ReaderControl
  <2> QED
    BY <2>1, <2>2, <2>3, <2>4 DEF Control
<1>6. ASSUME NEW r \in Runs, StartUnit(r) PROVE (TypeOK /\ Control)'
  <2>1. TypeOK'
    BY <1>6, UpdateAssumption DEF StartUnit, At, Goto, TypeOK, GateTypeOK, Outcome, Markers, Processes, Control,
       RunControl, ReaderControl, RemovalControl
  <2>2. RunControl'
    BY <1>6, UpdateAssumption DEF StartUnit, At, Goto, TypeOK, Processes, Outcome, Markers, Control, RunControl
  <2>3. ReaderControl'
    BY <1>6, UpdateAssumption DEF StartUnit, At, Goto, TypeOK, Processes, Outcome, Control, ReaderControl,
       RunControl
  <2>4. RemovalControl'
    BY <1>6, UpdateAssumption DEF StartUnit, At, Goto, TypeOK, Outcome, Processes, Markers, Control,
       RemovalControl, ReaderControl
  <2> QED
    BY <2>1, <2>2, <2>3, <2>4 DEF Control
<1>7. ASSUME NEW r \in Runs, Acquire(r) PROVE (TypeOK /\ Control)'
  <2>1. TypeOK'
    BY <1>7, UpdateAssumption DEF Acquire, At, Goto, LockExclusive, TypeOK, GateTypeOK, Outcome, Markers,
       Processes, Control, RunControl, ReaderControl, RemovalControl
  <2>2. RunControl'
    BY <1>7, UpdateAssumption DEF Acquire, At, Goto, LockExclusive, TypeOK, Processes, Outcome, Markers,
       Control, RunControl
  <2>3. ReaderControl'
    BY <1>7, UpdateAssumption DEF Acquire, At, Goto, LockExclusive, TypeOK, Processes, Outcome, Control,
       ReaderControl, RunControl
  <2>4. RemovalControl'
    BY <1>7, UpdateAssumption DEF Acquire, At, Goto, LockExclusive, TypeOK, Outcome, Processes, Markers,
       Control, RemovalControl, ReaderControl
  <2> QED
    BY <2>1, <2>2, <2>3, <2>4 DEF Control
<1>8. ASSUME NEW r \in Runs, GiveUp(r) PROVE (TypeOK /\ Control)'
  <2>1. TypeOK'
    BY <1>8, UpdateAssumption DEF GiveUp, Found, At, Goto, TypeOK, GateTypeOK, Outcome, Markers, Processes,
       Control, RunControl, ReaderControl, RemovalControl
  <2>2. RunControl'
    BY <1>8, UpdateAssumption DEF GiveUp, Found, At, Goto, TypeOK, Processes, Outcome, Markers, Control,
       RunControl
  <2>3. ReaderControl'
    BY <1>8, UpdateAssumption DEF GiveUp, Found, At, Goto, TypeOK, Processes, Outcome, Control, ReaderControl,
       RunControl
  <2>4. RemovalControl'
    BY <1>8, UpdateAssumption DEF GiveUp, Found, At, Goto, TypeOK, Outcome, Processes, Markers, Control,
       RemovalControl, ReaderControl
  <2> QED
    BY <2>1, <2>2, <2>3, <2>4 DEF Control
<1>9. ASSUME NEW r \in Runs, Install(r) PROVE (TypeOK /\ Control)'
  <2>1. TypeOK'
    BY <1>9, UpdateAssumption DEF Install, At, Goto, TypeOK, GateTypeOK, Outcome, Markers, Processes, Control,
       RunControl, ReaderControl, RemovalControl
  <2>2. RunControl'
    BY <1>9, UpdateAssumption DEF Install, At, Goto, TypeOK, Processes, Outcome, Markers, Control, RunControl
  <2>3. ReaderControl'
    BY <1>9, UpdateAssumption DEF Install, At, Goto, TypeOK, Processes, Outcome, Control, ReaderControl,
       RunControl
  <2>4. RemovalControl'
    BY <1>9, UpdateAssumption DEF Install, At, Goto, TypeOK, Outcome, Processes, Markers, Control,
       RemovalControl, ReaderControl
  <2> QED
    BY <2>1, <2>2, <2>3, <2>4 DEF Control
<1>10. ASSUME NEW r \in Runs, Classify(r) PROVE (TypeOK /\ Control)'
  <2>1. TypeOK'
    BY <1>10, UpdateAssumption DEF Classify, Found, Unlock, At, Goto, TypeOK, GateTypeOK, Outcome, Markers,
       Processes, Control, RunControl, ReaderControl, RemovalControl
  <2>2. RunControl'
    BY <1>10, UpdateAssumption DEF Classify, Found, Unlock, At, Goto, TypeOK, Processes, Outcome, Markers,
       Control, RunControl
  <2>3. ReaderControl'
    BY <1>10, UpdateAssumption DEF Classify, Found, Unlock, At, Goto, TypeOK, Processes, Outcome, Control,
       ReaderControl, RunControl
  <2>4. RemovalControl'
    BY <1>10, UpdateAssumption DEF Classify, Found, Unlock, At, Goto, TypeOK, Outcome, Processes, Markers,
       Control, RemovalControl, ReaderControl
  <2> QED
    BY <2>1, <2>2, <2>3, <2>4 DEF Control
<1>11. ASSUME NEW r \in Runs, Publish(r) PROVE (TypeOK /\ Control)'
  <2>1. TypeOK'
    BY <1>11, UpdateAssumption DEF Publish, At, Goto, TxidOf, TypeOK, GateTypeOK, Outcome, Markers, Processes,
       Control, RunControl, ReaderControl, RemovalControl
  <2>2. RunControl'
    BY <1>11, UpdateAssumption DEF Publish, At, Goto, TxidOf, TypeOK, Processes, Outcome, Markers, Control,
       RunControl
  <2>3. ReaderControl'
    BY <1>11, UpdateAssumption DEF Publish, At, Goto, TxidOf, TypeOK, Processes, Outcome, Control,
       ReaderControl, RunControl
  <2>4. RemovalControl'
    BY <1>11, UpdateAssumption DEF Publish, At, Goto, TxidOf, TypeOK, Outcome, Processes, Markers, Control,
       RemovalControl, ReaderControl
  <2> QED
    BY <2>1, <2>2, <2>3, <2>4 DEF Control
<1>12. ASSUME NEW r \in Runs, Stop(r) PROVE (TypeOK /\ Control)'
  <2>1. TypeOK'
    BY <1>12, UpdateAssumption DEF Stop, Unlock, Goto, TypeOK, GateTypeOK, Outcome, Markers, Processes, Control,
       RunControl, ReaderControl, RemovalControl
  <2>2. RunControl'
    BY <1>12, UpdateAssumption DEF Stop, Unlock, Goto, TypeOK, Processes, Outcome, Markers, Control, RunControl
  <2>3. ReaderControl'
    BY <1>12, UpdateAssumption DEF Stop, Unlock, Goto, TypeOK, Processes, Outcome, Control, ReaderControl,
       RunControl
  <2>4. RemovalControl'
    BY <1>12, UpdateAssumption DEF Stop, Unlock, Goto, TypeOK, Outcome, Processes, Markers, Control,
       RemovalControl, ReaderControl
  <2> QED
    BY <2>1, <2>2, <2>3, <2>4 DEF Control
<1>13. ASSUME NEW x \in Readers, Ask(x) PROVE (TypeOK /\ Control)'
  <2>1. TypeOK'
    BY <1>13, UpdateAssumption DEF Ask, At, Goto, TypeOK, GateTypeOK, Outcome, Markers, Processes, Control,
       RunControl, ReaderControl, RemovalControl
  <2>2. RunControl'
    BY <1>13, UpdateAssumption DEF Ask, At, Goto, TypeOK, Processes, Outcome, Markers, Control, RunControl
  <2>3. ReaderControl'
    BY <1>13, UpdateAssumption DEF Ask, At, Goto, TypeOK, Processes, Outcome, Control, ReaderControl, RunControl
  <2>4. RemovalControl'
    BY <1>13, UpdateAssumption DEF Ask, At, Goto, TypeOK, Outcome, Processes, Markers, Control, RemovalControl,
       ReaderControl
  <2> QED
    BY <2>1, <2>2, <2>3, <2>4 DEF Control
<1>14. ASSUME NEW x \in Readers, Claim(x) PROVE (TypeOK /\ Control)'
  <2>1. TypeOK'
    BY <1>14, UpdateAssumption DEF Claim, At, Goto, TypeOK, GateTypeOK, Outcome, Markers, Processes, Control,
       RunControl, ReaderControl, RemovalControl
  <2>2. RunControl'
    BY <1>14, UpdateAssumption DEF Claim, At, Goto, TypeOK, Processes, Outcome, Markers, Control, RunControl
  <2>3. ReaderControl'
    BY <1>14, UpdateAssumption DEF Claim, At, Goto, TypeOK, Processes, Outcome, Control, ReaderControl,
       RunControl
  <2>4. RemovalControl'
    BY <1>14, UpdateAssumption DEF Claim, At, Goto, TypeOK, Outcome, Processes, Markers, Control,
       RemovalControl, ReaderControl
  <2> QED
    BY <2>1, <2>2, <2>3, <2>4 DEF Control
<1>15. ASSUME NEW x \in Readers, Look(x) PROVE (TypeOK /\ Control)'
  <2>1. TypeOK'
    BY <1>15, UpdateAssumption DEF Look, At, Goto, TypeOK, GateTypeOK, Outcome, Markers, Processes, Control,
       RunControl, ReaderControl, RemovalControl
  <2>2. RunControl'
    BY <1>15, UpdateAssumption DEF Look, At, Goto, TypeOK, Processes, Outcome, Markers, Control, RunControl
  <2>3. ReaderControl'
    BY <1>15, UpdateAssumption DEF Look, At, Goto, TypeOK, Processes, Outcome, Control, ReaderControl,
       RunControl
  <2>4. RemovalControl'
    BY <1>15, UpdateAssumption DEF Look, At, Goto, TypeOK, Outcome, Processes, Markers, Control, RemovalControl,
       ReaderControl
  <2> QED
    BY <2>1, <2>2, <2>3, <2>4 DEF Control
<1>16. ASSUME NEW x \in Readers, Answer(x) PROVE (TypeOK /\ Control)'
  <2>1. TypeOK'
    BY <1>16, UpdateAssumption DEF Answer, Forget, At, Goto, TypeOK, GateTypeOK, Outcome, Markers, Processes,
       Control, RunControl, ReaderControl, RemovalControl
  <2>2. RunControl'
    BY <1>16, UpdateAssumption DEF Answer, Forget, At, Goto, TypeOK, Processes, Outcome, Markers, Control,
       RunControl
  <2>3. ReaderControl'
    BY <1>16, UpdateAssumption DEF Answer, Forget, At, Goto, TypeOK, Processes, Outcome, Control, ReaderControl,
       RunControl
  <2>4. RemovalControl'
    BY <1>16, UpdateAssumption DEF Answer, Forget, At, Goto, TypeOK, Outcome, Processes, Markers, Control,
       RemovalControl, ReaderControl
  <2> QED
    BY <2>1, <2>2, <2>3, <2>4 DEF Control
<1>17. ASSUME NEW x \in Readers, Vanish(x) PROVE (TypeOK /\ Control)'
  <2>1. TypeOK'
    BY <1>17, UpdateAssumption DEF Vanish, Forget, Goto, TxidOf, TypeOK, GateTypeOK, Outcome, Markers,
       Processes, Control, RunControl, ReaderControl, RemovalControl
  <2>2. RunControl'
    BY <1>17, UpdateAssumption DEF Vanish, Forget, Goto, TxidOf, TypeOK, Processes, Outcome, Markers, Control,
       RunControl
  <2>3. ReaderControl'
    BY <1>17, UpdateAssumption DEF Vanish, Forget, Goto, TxidOf, TypeOK, Processes, Outcome, Control,
       ReaderControl, RunControl
  <2>4. RemovalControl'
    BY <1>17, UpdateAssumption DEF Vanish, Forget, Goto, TxidOf, TypeOK, Outcome, Processes, Markers, Control,
       RemovalControl, ReaderControl
  <2> QED
    BY <2>1, <2>2, <2>3, <2>4 DEF Control
<1>18. ASSUME NEW p \in Processes, Take(p) PROVE (TypeOK /\ Control)'
  <2>1. TypeOK'
    <3>1. CASE running = Absent
      BY <1>18, <3>1, ResumeTypes DEF Take, At, TypeOK, GateTypeOK
    <3>2. CASE running # Absent
      BY <1>18, <3>2 DEF Take, At, Goto, TypeOK, GateTypeOK
    <3> QED
      BY <3>1, <3>2
  <2>2. RunControl'
    BY <1>18, UpdateAssumption DEF Take, Resume, Retry, At, Goto, TypeOK, Processes, Outcome, Markers, Control,
       RunControl
  <2>3. ReaderControl'
    BY <1>18, UpdateAssumption DEF Take, Resume, Retry, At, Goto, TypeOK, Processes, Outcome, Control,
       ReaderControl, RunControl, Markers
  <2>4. RemovalControl'
    BY <1>18, UpdateAssumption DEF Take, Resume, Retry, At, Goto, TypeOK, Outcome, Processes, Markers, Control,
       RemovalControl, ReaderControl
  <2> QED
    BY <2>1, <2>2, <2>3, <2>4 DEF Control
<1>19. ASSUME NEW p \in Processes, Return(p) PROVE (TypeOK /\ Control)'
  <2>1. TypeOK'
    <3>1. pc[p] = "returning" /\ taken[p] \in Markers /\ running' \in Markers \cup {Absent}
      BY <1>19 DEF Return, At, TypeOK, Control, RemovalControl
    <3>2. taken' \in [Processes -> Markers \cup {Absent}] /\ lost' \in SUBSET Markers
      BY <1>19, <3>1 DEF Return, Displaced, TypeOK
    <3> QED
      BY <1>19, <3>1, <3>2, ResumeTypes DEF Return, TypeOK, GateTypeOK
  <2>2. RunControl'
    BY <1>19, UpdateAssumption DEF Return, Displaced, Resume, Retry, Abandoned, At, Goto, TypeOK, Processes,
       Outcome, Markers, Control, RunControl
  <2>3. ReaderControl'
    BY <1>19, UpdateAssumption DEF Return, Displaced, Resume, Retry, Abandoned, At, Goto, TypeOK, Processes,
       Outcome, Control, ReaderControl, RunControl, Markers
  <2>4. RemovalControl'
    BY <1>19, UpdateAssumption DEF Return, Displaced, Resume, Retry, Abandoned, At, Goto, TypeOK, Outcome,
       Processes, Markers, Control, RemovalControl, ReaderControl
  <2> QED
    BY <2>1, <2>2, <2>3, <2>4 DEF Control
<1>20. ASSUME NEW p \in Processes, NEW txid, Release(p, txid), Speaks(p, txid) PROVE (TypeOK /\ Control)'
  <2>1. TypeOK'
    <3>1. CASE running = txid
      <4>1. txid \in Markers
        BY <1>20, UpdateAssumption DEF Speaks, Markers, Processes, Outcome, TypeOK
      <4> QED
        BY <1>20, <3>1, <4>1 DEF Release, At, Goto, TypeOK, GateTypeOK
    <3>2. CASE running # txid
      BY <1>20, <3>2, ResumeTypes DEF Release, At, TypeOK, GateTypeOK
    <3> QED
      BY <3>1, <3>2
  <2>2. RunControl'
    BY <1>20, UpdateAssumption DEF Release, Resume, Retry, At, Goto, TypeOK, Processes, Outcome, Markers,
       Control, RunControl, Speaks
  <2>3. ReaderControl'
    BY <1>20, UpdateAssumption DEF Release, Resume, Retry, At, Goto, TypeOK, Processes, Outcome, Control,
       ReaderControl, RunControl, Speaks, Markers
  <2>4. RemovalControl'
    BY <1>20, UpdateAssumption DEF Release, Resume, Retry, At, Goto, TypeOK, Outcome, Processes, Markers,
       Control, RemovalControl, ReaderControl, Speaks
  <2> QED
    BY <2>1, <2>2, <2>3, <2>4 DEF Control
<1>21. CASE Tick
  <2>1. TypeOK'
    BY <1>21, UpdateAssumption DEF Tick, TypeOK, GateTypeOK, Outcome, Markers, Processes, Control, RunControl,
       ReaderControl, RemovalControl
  <2>2. RunControl'
    BY <1>21, UpdateAssumption DEF Tick, TypeOK, Processes, Outcome, Markers, Control, RunControl
  <2>3. ReaderControl'
    BY <1>21, UpdateAssumption DEF Tick, TypeOK, Processes, Outcome, Control, ReaderControl, RunControl
  <2>4. RemovalControl'
    BY <1>21, UpdateAssumption DEF Tick, TypeOK, Outcome, Processes, Markers, Control, RemovalControl,
       ReaderControl
  <2> QED
    BY <2>1, <2>2, <2>3, <2>4 DEF Control
<1>22. CASE UNCHANGED vars
  <2>1. TypeOK'
    BY <1>22, UpdateAssumption DEF vars, TypeOK, GateTypeOK, Outcome, Markers, Processes, Control, RunControl,
       ReaderControl, RemovalControl
  <2>2. RunControl'
    BY <1>22, UpdateAssumption DEF vars, TypeOK, Processes, Outcome, Markers, Control, RunControl
  <2>3. ReaderControl'
    BY <1>22, UpdateAssumption DEF vars, TypeOK, Processes, Outcome, Control, ReaderControl, RunControl
  <2>4. RemovalControl'
    BY <1>22, UpdateAssumption DEF vars, TypeOK, Outcome, Processes, Markers, Control, RemovalControl,
       ReaderControl
  <2> QED
    BY <2>1, <2>2, <2>3, <2>4 DEF Control
<1> QED
  BY StepCases, <1>1, <1>2, <1>3, <1>4, <1>5, <1>6, <1>7, <1>8, <1>9, <1>10, <1>11, <1>12,
     <1>13, <1>14, <1>15, <1>16, <1>17, <1>18, <1>19, <1>20, <1>21, <1>22

\* The processes stay where the model has them, for any number of them.
THEOREM UpdateTypeOK == Spec => []TypeOK
BY InitControl, NextControl, PTL DEF Spec

---------------------------------------------------------------------------
(* Attribution.                                                            *)

\* Before the unit looks at the tree under the gate.
Early(r) ==
  \/ pc[r] \in {"idle", "linking", "inspecting", "checking", "linked", "starting", "waiting", "updating"}
  \/ pc[r] \in {"taking", "returning"} /\ goal[r] = "slot"

\* The unit that updates holds the gate, so nothing but itself moved the tree
\* since it looked; what it concluded stays true, and what is published is
\* what its own unit concluded.
Attribution ==
  /\ \A r \in Runs :
       /\ pc[r] \in {"updating", "installed"} => exclusive = r
       /\ Early(r) => r \notin movers
       /\ pc[r] = "updating" => tree = before[r]
       /\ pc[r] = "installed" => (tree # before[r] /\ legible <=> r \in movers)
       /\ Early(r) \/ pc[r] = "installed" => got[r] = Absent
       /\ got[r] # Absent => (got[r].result = "updated" <=> r \in movers)
  /\ result # Absent => result.txid \in Runs /\ got[result.txid] = result

LEMMA InitAttribution == Init => Attribution
BY UpdateAssumption DEF Init, Attribution, Processes

LEMMA NextAttribution == TypeOK /\ Control /\ Attribution /\ [Next]_vars => Attribution'
<1> SUFFICES ASSUME TypeOK, Control, Attribution, [Next]_vars PROVE Attribution'
  OBVIOUS
<1> USE DEF fileVars, treeVars, runVars, removalVars, history, gateVars
<1>1. ASSUME NEW r \in Runs, Confirm(r) PROVE Attribution'
  BY <1>1, UpdateAssumption DEF Confirm, At, Goto, TypeOK, GateTypeOK, Outcome, Processes, Markers, Control,
     RunControl, ReaderControl, Attribution, Early
<1>2. ASSUME NEW r \in Runs, Link(r) PROVE Attribution'
  BY <1>2, UpdateAssumption DEF Link, At, Goto, TypeOK, GateTypeOK, Outcome, Processes, Markers, Control,
     RunControl, ReaderControl, Attribution, Early
<1>3. ASSUME NEW r \in Runs, Inspect(r) PROVE Attribution'
  BY <1>3, UpdateAssumption DEF Inspect, At, Goto, Retry, TypeOK, GateTypeOK, Outcome, Processes, Markers,
     Control, RunControl, ReaderControl, Attribution, Early
<1>4. ASSUME NEW r \in Runs, Check(r) PROVE Attribution'
  BY <1>4, UpdateAssumption DEF Check, At, Goto, TypeOK, GateTypeOK, Outcome, Processes, Markers, Control,
     RunControl, ReaderControl, Attribution, Early
<1>5. ASSUME NEW r \in Runs, ClearResult(r) PROVE Attribution'
  BY <1>5, UpdateAssumption DEF ClearResult, At, Goto, TxidOf, TypeOK, GateTypeOK, Outcome, Processes, Markers,
     Control, RunControl, ReaderControl, Attribution, Early
<1>6. ASSUME NEW r \in Runs, StartUnit(r) PROVE Attribution'
  BY <1>6, UpdateAssumption DEF StartUnit, At, Goto, TypeOK, GateTypeOK, Outcome, Processes, Markers, Control,
     RunControl, ReaderControl, Attribution, Early
<1>7. ASSUME NEW r \in Runs, Acquire(r) PROVE Attribution'
  BY <1>7, UpdateAssumption DEF Acquire, At, Goto, LockExclusive, TypeOK, GateTypeOK, Outcome, Processes,
     Markers, Control, RunControl, ReaderControl, Attribution, Early
<1>8. ASSUME NEW r \in Runs, GiveUp(r) PROVE Attribution'
  BY <1>8, UpdateAssumption DEF GiveUp, Found, At, Goto, TypeOK, GateTypeOK, Outcome, Processes, Markers,
     Control, RunControl, ReaderControl, Attribution, Early
<1>9. ASSUME NEW r \in Runs, Install(r) PROVE Attribution'
  <2>1. tree = before[r] /\ r \notin movers /\ tree \in Nat
    BY <1>9 DEF Install, At, Attribution, Early, TypeOK
  <2>2. tree' # before[r] /\ legible' <=> r \in movers'
    BY <1>9, <2>1 DEF Install
  <2>3. \A q \in Runs \ {r} : pc[q] \notin {"updating", "installed"}
    BY <1>9 DEF Install, At, Attribution
  <2>4. ASSUME NEW q \in Runs \ {r} PROVE q \in movers' <=> q \in movers
    BY <1>9 DEF Install
  <2> QED
    BY <1>9, <2>2, <2>3, <2>4, UpdateAssumption DEF Install, At, Goto, TypeOK, Processes, Attribution, Early, Control,
       RunControl
<1>10. ASSUME NEW r \in Runs, Classify(r) PROVE Attribution'
  <2>1. MovedFrom(before[r]) <=> tree # before[r] /\ legible
    BY UpdateAssumption DEF MovedFrom, TreeVersion, TypeOK
  <2> QED
    BY <1>10, <2>1, UpdateAssumption DEF Classify, Found, Unlock, At, Goto, TypeOK, GateTypeOK, Outcome, Processes,
     Markers, Control, RunControl, ReaderControl, Attribution, Early
<1>11. ASSUME NEW r \in Runs, Publish(r) PROVE Attribution'
  BY <1>11, UpdateAssumption DEF Publish, At, Goto, TxidOf, TypeOK, GateTypeOK, Outcome, Processes, Markers,
     Control, RunControl, ReaderControl, Attribution, Early
<1>12. ASSUME NEW r \in Runs, Stop(r) PROVE Attribution'
  BY <1>12, UpdateAssumption DEF Stop, Unlock, Goto, TypeOK, GateTypeOK, Outcome, Processes, Markers, Control,
     RunControl, ReaderControl, Attribution, Early
<1>13. ASSUME NEW x \in Readers, Ask(x) PROVE Attribution'
  BY <1>13, UpdateAssumption DEF Ask, At, Goto, TypeOK, GateTypeOK, Outcome, Processes, Markers, Control,
     RunControl, ReaderControl, Attribution, Early
<1>14. ASSUME NEW x \in Readers, Claim(x) PROVE Attribution'
  BY <1>14, UpdateAssumption DEF Claim, At, Goto, TypeOK, GateTypeOK, Outcome, Processes, Markers, Control,
     RunControl, ReaderControl, Attribution, Early
<1>15. ASSUME NEW x \in Readers, Look(x) PROVE Attribution'
  BY <1>15, UpdateAssumption DEF Look, At, Goto, TypeOK, GateTypeOK, Outcome, Processes, Markers, Control,
     RunControl, ReaderControl, Attribution, Early
<1>16. ASSUME NEW x \in Readers, Answer(x) PROVE Attribution'
  BY <1>16, UpdateAssumption DEF Answer, Forget, At, Goto, TypeOK, GateTypeOK, Outcome, Processes, Markers,
     Control, RunControl, ReaderControl, Attribution, Early
<1>17. ASSUME NEW x \in Readers, Vanish(x) PROVE Attribution'
  BY <1>17, UpdateAssumption DEF Vanish, Forget, Goto, TxidOf, TypeOK, GateTypeOK, Outcome, Processes, Markers,
     Control, RunControl, ReaderControl, Attribution, Early
<1>18. ASSUME NEW p \in Processes, Take(p) PROVE Attribution'
  BY <1>18, UpdateAssumption DEF Take, Resume, Retry, At, Goto, TypeOK, GateTypeOK, Outcome, Processes, Markers,
     Control, RunControl, ReaderControl, Attribution, Early
<1>19. ASSUME NEW p \in Processes, Return(p) PROVE Attribution'
  BY <1>19, UpdateAssumption DEF Return, Displaced, Resume, Retry, Abandoned, At, Goto, TypeOK, GateTypeOK,
     Outcome, Processes, Markers, Control, RunControl, ReaderControl, Attribution, Early
<1>20. ASSUME NEW p \in Processes, NEW txid, Release(p, txid), Speaks(p, txid) PROVE Attribution'
  BY <1>20, UpdateAssumption DEF Release, Resume, Retry, At, Goto, Speaks, TypeOK, GateTypeOK, Outcome,
     Processes, Markers, Control, RunControl, ReaderControl, Attribution, Early
<1>21. CASE Tick
  BY <1>21, UpdateAssumption DEF Tick, TypeOK, GateTypeOK, Outcome, Processes, Markers, Control, RunControl,
     ReaderControl, Attribution, Early
<1>22. CASE UNCHANGED vars
  BY <1>22, UpdateAssumption DEF vars, TypeOK, GateTypeOK, Outcome, Processes, Markers, Control, RunControl,
     ReaderControl, Attribution, Early
<1> QED
  BY StepCases, <1>1, <1>2, <1>3, <1>4, <1>5, <1>6, <1>7, <1>8, <1>9, <1>10, <1>11, <1>12,
     <1>13, <1>14, <1>15, <1>16, <1>17, <1>18, <1>19, <1>20, <1>21, <1>22

\* An update is reported as having moved the tree exactly when its own unit did
\* (classify()).
THEOREM UpdatesAreAttributedHolds == Spec => []UpdatesAreAttributed
<1>1. TypeOK /\ Control /\ Attribution => UpdatesAreAttributed
  BY DEF Attribution, UpdatesAreAttributed, Processes
<1> QED
  BY <1>1, InitControl, NextControl, InitAttribution, NextAttribution, PTL DEF Spec

---------------------------------------------------------------------------
(* Reports.                                                                *)

\* Before its unit leaves a result.
Unpublished(r) == Early(r) \/ pc[r] \in {"installed", "publishing"}

\* A reader with the result of `m', which it is about to report.
Carries(x, m) ==
  pc[x] \in {"releasing", "taking", "returning"} /\ goal[x] = "release" /\ m \in TxidOf(got[x])

\* A result is in one place, on disk or with one reader, until it is reported,
\* and nowhere afterwards.
Reports ==
  /\ \A m \in Markers :
       /\ told[m] <= 1
       /\ told[m] = 1 => m \notin TxidOf(result) /\ \A x \in Readers : ~Carries(x, m)
       /\ m \in TxidOf(result) => \A x \in Readers : ~Carries(x, m)
       /\ \A x, y \in Readers : Carries(x, m) /\ Carries(y, m) => x = y
  /\ \A r \in Runs : Unpublished(r) =>
       told[r] = 0 /\ r \notin TxidOf(result) /\ \A x \in Readers : ~Carries(x, r)

LEMMA InitReports == Init => Reports
BY UpdateAssumption DEF Init, Reports, Carries, TxidOf, Processes, Markers

LEMMA ResumeReports ==
  ASSUME TypeOK, Control, Reports, NEW p \in Processes, pc[p] \in {"releasing", "taking", "returning"},
         NEW removed \in BOOLEAN, Resume(p, removed), UNCHANGED <<result, goal>>
  PROVE  Reports'
<1> USE DEF TypeOK, Control, RunControl, ReaderControl
<1>1. CASE p \in Runs
  <2>1. /\ UNCHANGED <<told, got>>
        /\ pc' \in {[pc EXCEPT ![p] = "linking"], [pc EXCEPT ![p] = "done"]}
        /\ pc'[p] = "linking" => goal[p] = "slot"
    BY <1>1 DEF Resume, Retry, Goto, history
  <2>2. /\ \A x \in Readers, m \in Markers : Carries(x, m)' <=> Carries(x, m)
        /\ \A r \in Runs : Unpublished(r)' => Unpublished(r)
    BY <2>1, <1>1, UpdateAssumption DEF Carries, TxidOf, Unpublished, Early, Processes
  <2> QED
    BY <2>1, <2>2 DEF Reports, TxidOf, Markers
<1>2. CASE p \in Readers
  <2>0. /\ p \notin Runs
        /\ pc' \in {[pc EXCEPT ![p] = "looking"], [pc EXCEPT ![p] = "answered"]}
    BY <1>2, UpdateAssumption DEF Resume, Retry, Goto
  <2>1. \A r \in Runs : Unpublished(r)' => Unpublished(r)
    BY <2>0, UpdateAssumption DEF Unpublished, Early, Processes
  <2>2. CASE goal[p] = "release"
    <3>1. got[p] \in Outcome /\ Carries(p, got[p].txid)
      BY <1>2, <2>2, UpdateAssumption DEF Carries, TxidOf, Processes
    <3>2. told' = [told EXCEPT ![got[p].txid] = @ + 1] /\ UNCHANGED got
      BY <2>0, <2>2 DEF Resume
    <3>3. \A x \in Readers, m \in Markers : Carries(x, m)' <=> x # p /\ Carries(x, m)
      BY <1>2, <2>0, <3>2, UpdateAssumption DEF Carries, TxidOf, Processes
    <3>4. got[p].txid \in Markers /\ told[got[p].txid] = 0
      <4>1. got[p].txid \in Markers
        BY <3>1 DEF Outcome
      <4>2. told[got[p].txid] \in Nat /\ told[got[p].txid] <= 1 /\ told[got[p].txid] # 1
        BY <1>2, <3>1, <4>1 DEF Reports
      <4> HIDE DEF TypeOK, Control, RunControl, ReaderControl
      <4> QED
        BY <4>1, <4>2
    <3>5. \A m \in Markers : told'[m] = IF m = got[p].txid THEN 1 ELSE told[m]
      BY <3>2, <3>4
    <3>6. \A m \in Markers : Carries(p, m) => m = got[p].txid
      BY <3>1, UpdateAssumption DEF Carries, TxidOf
    <3> HIDE DEF TypeOK, Control, RunControl, ReaderControl
    <3> QED
      BY <1>2, <2>1, <3>1, <3>3, <3>4, <3>5, <3>6 DEF Reports, TxidOf, Markers
  <2>3. CASE goal[p] = "abandoned"
    <3>1. UNCHANGED told
      BY <2>3 DEF Resume
    <3>2. got' = got \/ \E o : got' = [got EXCEPT ![p] = o]
      BY <2>3 DEF Resume
    <3>3. \A x \in Readers, m \in Markers : Carries(x, m)' <=> Carries(x, m)
      BY <1>2, <2>0, <2>3, <3>2, UpdateAssumption DEF Carries, TxidOf, Processes
    <3> HIDE DEF TypeOK, Control, RunControl, ReaderControl
    <3> QED
      BY <2>1, <3>1, <3>3 DEF Reports, TxidOf, Markers
  <2> QED
    BY <1>2, <2>2, <2>3
<1> QED
  BY <1>1, <1>2 DEF Processes

LEMMA NextReports == TypeOK /\ Control /\ Reports /\ [Next]_vars => Reports'
<1> SUFFICES ASSUME TypeOK, Control, Reports, [Next]_vars PROVE Reports'
  OBVIOUS
<1> USE DEF fileVars, treeVars, runVars, removalVars, history, gateVars
<1>1. ASSUME NEW r \in Runs, Confirm(r) PROVE Reports'
  BY <1>1, UpdateAssumption DEF Confirm, At, Goto, TypeOK, GateTypeOK, Outcome, Processes, Markers, Control,
     RunControl, ReaderControl, RemovalControl, Reports, Unpublished, Carries, Early, TxidOf
<1>2. ASSUME NEW r \in Runs, Link(r) PROVE Reports'
  BY <1>2, UpdateAssumption DEF Link, At, Goto, TypeOK, GateTypeOK, Outcome, Processes, Markers, Control,
     RunControl, ReaderControl, RemovalControl, Reports, Unpublished, Carries, Early, TxidOf
<1>3. ASSUME NEW r \in Runs, Inspect(r) PROVE Reports'
  <2>1. /\ UNCHANGED <<told, got, result, goal>>
        /\ pc[r] = "inspecting" /\ r \in Processes /\ r \notin Readers
        /\ \E there \in {"linking", "done", "checking", "taking"} : pc' = [pc EXCEPT ![r] = there]
    BY <1>3, UpdateAssumption DEF Inspect, At, Goto, Retry, Processes
  <2>2. \A o \in Processes \ {r} : pc'[o] = pc[o]
    BY <2>1 DEF TypeOK
  <2>3. \A x \in Readers, m \in Markers : Carries(x, m)' <=> Carries(x, m)
    BY <2>1, <2>2 DEF Carries, TxidOf, Processes
  <2>4. \A o \in Runs : Unpublished(o)' => Unpublished(o)
    BY <2>1, <2>2 DEF Unpublished, Early, Processes
  <2> QED
    BY <2>1, <2>3, <2>4 DEF Reports, TxidOf, Markers
<1>4. ASSUME NEW r \in Runs, Check(r) PROVE Reports'
  BY <1>4, UpdateAssumption DEF Check, At, Goto, TypeOK, GateTypeOK, Outcome, Processes, Markers, Control,
     RunControl, ReaderControl, RemovalControl, Reports, Unpublished, Carries, Early, TxidOf
<1>5. ASSUME NEW r \in Runs, ClearResult(r) PROVE Reports'
  BY <1>5, UpdateAssumption DEF ClearResult, At, Goto, TxidOf, TypeOK, GateTypeOK, Outcome, Processes, Markers,
     Control, RunControl, ReaderControl, RemovalControl, Reports, Unpublished, Carries, Early, TxidOf
<1>6. ASSUME NEW r \in Runs, StartUnit(r) PROVE Reports'
  BY <1>6, UpdateAssumption DEF StartUnit, At, Goto, TypeOK, GateTypeOK, Outcome, Processes, Markers, Control,
     RunControl, ReaderControl, RemovalControl, Reports, Unpublished, Carries, Early, TxidOf
<1>7. ASSUME NEW r \in Runs, Acquire(r) PROVE Reports'
  BY <1>7, UpdateAssumption DEF Acquire, At, Goto, LockExclusive, TypeOK, GateTypeOK, Outcome, Processes,
     Markers, Control, RunControl, ReaderControl, RemovalControl, Reports, Unpublished, Carries, Early, TxidOf
<1>8. ASSUME NEW r \in Runs, GiveUp(r) PROVE Reports'
  BY <1>8, UpdateAssumption DEF GiveUp, Found, At, Goto, TypeOK, GateTypeOK, Outcome, Processes, Markers,
     Control, RunControl, ReaderControl, RemovalControl, Reports, Unpublished, Carries, Early, TxidOf
<1>9. ASSUME NEW r \in Runs, Install(r) PROVE Reports'
  BY <1>9, UpdateAssumption DEF Install, At, Goto, TypeOK, GateTypeOK, Outcome, Processes, Markers, Control,
     RunControl, ReaderControl, RemovalControl, Reports, Unpublished, Carries, Early, TxidOf
<1>10. ASSUME NEW r \in Runs, Classify(r) PROVE Reports'
  BY <1>10, UpdateAssumption DEF Classify, Found, Unlock, At, Goto, TypeOK, GateTypeOK, Outcome, Processes,
     Markers, Control, RunControl, ReaderControl, RemovalControl, Reports, Unpublished, Carries, Early, TxidOf
<1>11. ASSUME NEW r \in Runs, Publish(r) PROVE Reports'
  BY <1>11, UpdateAssumption DEF Publish, At, Goto, TxidOf, TypeOK, GateTypeOK, Outcome, Processes, Markers,
     Control, RunControl, ReaderControl, RemovalControl, Reports, Unpublished, Carries, Early, TxidOf
<1>12. ASSUME NEW r \in Runs, Stop(r) PROVE Reports'
  BY <1>12, UpdateAssumption DEF Stop, Unlock, Goto, TypeOK, GateTypeOK, Outcome, Processes, Markers, Control,
     RunControl, ReaderControl, RemovalControl, Reports, Unpublished, Carries, Early, TxidOf
<1>13. ASSUME NEW x \in Readers, Ask(x) PROVE Reports'
  BY <1>13, UpdateAssumption DEF Ask, At, Goto, TypeOK, GateTypeOK, Outcome, Processes, Markers, Control,
     RunControl, ReaderControl, RemovalControl, Reports, Unpublished, Carries, Early, TxidOf
<1>14. ASSUME NEW x \in Readers, Claim(x) PROVE Reports'
  BY <1>14, UpdateAssumption DEF Claim, At, Goto, TypeOK, GateTypeOK, Outcome, Processes, Markers, Control,
     RunControl, ReaderControl, RemovalControl, Reports, Unpublished, Carries, Early, TxidOf
<1>15. ASSUME NEW x \in Readers, Look(x) PROVE Reports'
  BY <1>15, UpdateAssumption DEF Look, At, Goto, TypeOK, GateTypeOK, Outcome, Processes, Markers, Control,
     RunControl, ReaderControl, RemovalControl, Reports, Unpublished, Carries, Early, TxidOf
<1>16. ASSUME NEW x \in Readers, Answer(x) PROVE Reports'
  BY <1>16, UpdateAssumption DEF Answer, Forget, At, Goto, TypeOK, GateTypeOK, Outcome, Processes, Markers,
     Control, RunControl, ReaderControl, RemovalControl, Reports, Unpublished, Carries, Early, TxidOf
<1>17. ASSUME NEW x \in Readers, Vanish(x) PROVE Reports'
  BY <1>17, UpdateAssumption DEF Vanish, Forget, Goto, TxidOf, TypeOK, GateTypeOK, Outcome, Processes, Markers,
     Control, RunControl, ReaderControl, RemovalControl, Reports, Unpublished, Carries, Early, TxidOf
<1>18. ASSUME NEW p \in Processes, Take(p) PROVE Reports'
  <2>1. CASE running = Absent
    BY <1>18, <2>1, ResumeReports DEF Take, At
  <2>2. CASE running # Absent
    <3>1. /\ UNCHANGED <<told, got, result, goal>>
          /\ pc[p] = "taking" /\ pc' = [pc EXCEPT ![p] = "returning"]
      BY <1>18, <2>2 DEF Take, At, Goto
    <3>2. pc'[p] = "returning" /\ \A o \in Processes \ {p} : pc'[o] = pc[o]
      BY <3>1 DEF TypeOK
    <3>3. \A x \in Readers, m \in Markers : Carries(x, m)' <=> Carries(x, m)
      BY <3>1, <3>2 DEF Carries, TxidOf, Processes
    <3>4. \A r \in Runs : Unpublished(r)' => Unpublished(r)
      BY <3>1, <3>2 DEF Unpublished, Early, Processes
    <3> QED
      BY <3>1, <3>3, <3>4 DEF Reports, TxidOf, Markers
  <2> QED
    BY <2>1, <2>2
<1>19. ASSUME NEW p \in Processes, Return(p) PROVE Reports'
  BY <1>19, ResumeReports DEF Return, At
<1>20. ASSUME NEW p \in Processes, NEW txid, Release(p, txid), Speaks(p, txid) PROVE Reports'
  <2>1. CASE running # txid
    BY <1>20, <2>1, ResumeReports DEF Release, At
  <2>2. CASE running = txid
    <3>1. p \in Processes /\ pc[p] = "releasing" /\ pc' = [pc EXCEPT ![p] = "taking"]
      BY <1>20, <2>2 DEF Release, At, Goto
    <3>2. UNCHANGED <<result, got, told, goal>>
      BY <1>20, <2>2 DEF Release
    <3> QED
      BY <3>1, <3>2, UpdateAssumption
         DEF TypeOK, Processes, Markers, Control, RunControl, ReaderControl, Reports, Unpublished, Carries, Early,
             TxidOf
  <2> QED
    BY <2>1, <2>2
<1>21. CASE Tick
  BY <1>21, UpdateAssumption DEF Tick, TypeOK, GateTypeOK, Outcome, Processes, Markers, Control, RunControl,
     ReaderControl, RemovalControl, Reports, Unpublished, Carries, Early, TxidOf
<1>22. CASE UNCHANGED vars
  BY <1>22, UpdateAssumption DEF vars, TypeOK, GateTypeOK, Outcome, Processes, Markers, Control, RunControl,
     ReaderControl, RemovalControl, Reports, Unpublished, Carries, Early, TxidOf
<1> QED
  BY StepCases, <1>1, <1>2, <1>3, <1>4, <1>5, <1>6, <1>7, <1>8, <1>9, <1>10, <1>11, <1>12,
     <1>13, <1>14, <1>15, <1>16, <1>17, <1>18, <1>19, <1>20, <1>21, <1>22

\* No result is reported twice, whichever readers race for it (claim()).
THEOREM ResultsAreReportedOnceHolds == Spec => []ResultsAreReportedOnce
<1>1. Reports => ResultsAreReportedOnce
  BY DEF Reports, ResultsAreReportedOnce
<1> QED
  BY <1>1, InitControl, NextControl, InitReports, NextReports, PTL DEF Spec

---------------------------------------------------------------------------
(* Traces.                                                                 *)

Accounted(r) == Reported(r) \/ r \in lost

\* From the moment a run has the slot its marker is on disk or with a process
\* that took it, and once its unit has left a result, that is on disk or with a
\* reader, unless the run was reported or its trace made room for another's.
Traces ==
  /\ \A r \in Runs :
       /\ pc[r] \in {"linked", "starting", "waiting", "updating", "installed", "publishing"} =>
            running = r \/ (\E p \in Processes \ {r} : taken[p] = r) \/ Accounted(r)
       /\ pc[r] \in {"releasing", "taking", "returning"} /\ got[r] # Absent =>
            r \in TxidOf(result) \/ (\E x \in Readers : r \in TxidOf(got[x])) \/ Accounted(r)
       /\ pc[r] \in {"idle", "linking", "inspecting", "checking", "linked", "starting", "waiting"} => got[r] = Absent
       /\ pc[r] \in {"taking", "returning"} /\ goal[r] = "slot" => got[r] = Absent
  /\ \A x \in Readers : \A r \in Runs : pc[x] = "answered" /\ r \in TxidOf(got[x]) => Reported(r)

LEMMA InitTraces == Init => Traces
BY UpdateAssumption DEF Init, Traces, TxidOf, Processes

LEMMA NextTraces == TypeOK /\ Control /\ Traces /\ [Next]_vars => Traces'
<1> SUFFICES ASSUME TypeOK, Control, Traces, [Next]_vars PROVE Traces'
  OBVIOUS
<1> USE DEF fileVars, treeVars, runVars, removalVars, history, gateVars
<1>1. ASSUME NEW r \in Runs, Confirm(r) PROVE Traces'
  BY <1>1, UpdateAssumption DEF Confirm, At, Goto, TypeOK, GateTypeOK, Outcome, Processes, Markers, Control,
     RunControl, ReaderControl, RemovalControl, Traces, Accounted, Reported, TxidOf
<1>2. ASSUME NEW r \in Runs, Link(r) PROVE Traces'
  BY <1>2, UpdateAssumption DEF Link, At, Goto, TypeOK, GateTypeOK, Outcome, Processes, Markers, Control,
     RunControl, ReaderControl, RemovalControl, Traces, Accounted, Reported, TxidOf
<1>3. ASSUME NEW r \in Runs, Inspect(r) PROVE Traces'
  BY <1>3, UpdateAssumption DEF Inspect, At, Goto, Retry, TypeOK, GateTypeOK, Outcome, Processes, Markers,
     Control, RunControl, ReaderControl, RemovalControl, Traces, Accounted, Reported, TxidOf
<1>4. ASSUME NEW r \in Runs, Check(r) PROVE Traces'
  BY <1>4, UpdateAssumption DEF Check, At, Goto, TypeOK, GateTypeOK, Outcome, Processes, Markers, Control,
     RunControl, ReaderControl, RemovalControl, Traces, Accounted, Reported, TxidOf
<1>5. ASSUME NEW r \in Runs, ClearResult(r) PROVE Traces'
  BY <1>5, UpdateAssumption DEF ClearResult, At, Goto, TxidOf, TypeOK, GateTypeOK, Outcome, Processes, Markers,
     Control, RunControl, ReaderControl, RemovalControl, Traces, Accounted, Reported, TxidOf
<1>6. ASSUME NEW r \in Runs, StartUnit(r) PROVE Traces'
  BY <1>6, UpdateAssumption DEF StartUnit, At, Goto, TypeOK, GateTypeOK, Outcome, Processes, Markers, Control,
     RunControl, ReaderControl, RemovalControl, Traces, Accounted, Reported, TxidOf
<1>7. ASSUME NEW r \in Runs, Acquire(r) PROVE Traces'
  BY <1>7, UpdateAssumption DEF Acquire, At, Goto, LockExclusive, TypeOK, GateTypeOK, Outcome, Processes,
     Markers, Control, RunControl, ReaderControl, RemovalControl, Traces, Accounted, Reported, TxidOf
<1>8. ASSUME NEW r \in Runs, GiveUp(r) PROVE Traces'
  BY <1>8, UpdateAssumption DEF GiveUp, Found, At, Goto, TypeOK, GateTypeOK, Outcome, Processes, Markers,
     Control, RunControl, ReaderControl, RemovalControl, Traces, Accounted, Reported, TxidOf
<1>9. ASSUME NEW r \in Runs, Install(r) PROVE Traces'
  BY <1>9, UpdateAssumption DEF Install, At, Goto, TypeOK, GateTypeOK, Outcome, Processes, Markers, Control,
     RunControl, ReaderControl, RemovalControl, Traces, Accounted, Reported, TxidOf
<1>10. ASSUME NEW r \in Runs, Classify(r) PROVE Traces'
  BY <1>10, UpdateAssumption DEF Classify, Found, Unlock, At, Goto, TypeOK, GateTypeOK, Outcome, Processes,
     Markers, Control, RunControl, ReaderControl, RemovalControl, Traces, Accounted, Reported, TxidOf
<1>11. ASSUME NEW r \in Runs, Publish(r) PROVE Traces'
  BY <1>11, UpdateAssumption DEF Publish, At, Goto, TxidOf, TypeOK, GateTypeOK, Outcome, Processes, Markers,
     Control, RunControl, ReaderControl, RemovalControl, Traces, Accounted, Reported, TxidOf
<1>12. ASSUME NEW r \in Runs, Stop(r) PROVE Traces'
  BY <1>12, UpdateAssumption DEF Stop, Unlock, Goto, TypeOK, GateTypeOK, Outcome, Processes, Markers, Control,
     RunControl, ReaderControl, RemovalControl, Traces, Accounted, Reported, TxidOf
<1>13. ASSUME NEW x \in Readers, Ask(x) PROVE Traces'
  BY <1>13, UpdateAssumption DEF Ask, At, Goto, TypeOK, GateTypeOK, Outcome, Processes, Markers, Control,
     RunControl, ReaderControl, RemovalControl, Traces, Accounted, Reported, TxidOf
<1>14. ASSUME NEW x \in Readers, Claim(x) PROVE Traces'
  BY <1>14, UpdateAssumption DEF Claim, At, Goto, TypeOK, GateTypeOK, Outcome, Processes, Markers, Control,
     RunControl, ReaderControl, RemovalControl, Traces, Accounted, Reported, TxidOf
<1>15. ASSUME NEW x \in Readers, Look(x) PROVE Traces'
  BY <1>15, UpdateAssumption DEF Look, At, Goto, TypeOK, GateTypeOK, Outcome, Processes, Markers, Control,
     RunControl, ReaderControl, RemovalControl, Traces, Accounted, Reported, TxidOf
<1>16. ASSUME NEW x \in Readers, Answer(x) PROVE Traces'
  BY <1>16, UpdateAssumption DEF Answer, Forget, At, Goto, TypeOK, GateTypeOK, Outcome, Processes, Markers,
     Control, RunControl, ReaderControl, RemovalControl, Traces, Accounted, Reported, TxidOf
<1>17. ASSUME NEW x \in Readers, Vanish(x) PROVE Traces'
  BY <1>17, UpdateAssumption DEF Vanish, Forget, Goto, TxidOf, TypeOK, GateTypeOK, Outcome, Processes, Markers,
     Control, RunControl, ReaderControl, RemovalControl, Traces, Accounted, Reported, TxidOf
<1>18. ASSUME NEW p \in Processes, Take(p) PROVE Traces'
  BY <1>18, UpdateAssumption, SMTT(20) DEF Take, Resume, Retry, At, Goto, TypeOK, GateTypeOK, Outcome,
     Processes, Markers,
     Control, RunControl, ReaderControl, RemovalControl, Traces, Accounted, Reported, TxidOf
<1>19. ASSUME NEW p \in Processes, Return(p) PROVE Traces'
  <2>0. /\ At(p, "returning") /\ seen[p] \in Markers /\ taken[p] \in Markers
        /\ Resume(p, taken[p] = seen[p]) /\ UNCHANGED <<result, goal, seen>>
        /\ lost' = lost \cup Displaced(p)
    BY <1>19 DEF Return, At, Control, RemovalControl
  <2>1. \A r \in Runs : Accounted(r) => Accounted(r)'
    <3>1. \A m \in Markers : told[m] > 0 => told'[m] > 0
      BY <2>0 DEF Resume, TypeOK
    <3>2. \A m \in Markers : deemed[m] > 0 => deemed'[m] > 0
      BY <2>0 DEF Resume, TypeOK
    <3>3. \A m \in Markers : /\ told[m] \in Nat /\ deemed[m] \in Nat
                             /\ told'[m] \in Nat /\ deemed'[m] \in Nat
      BY <2>0 DEF Resume, TypeOK
    <3> QED
      BY <2>0, <3>1, <3>2, <3>3 DEF Accounted, Reported, Markers
  <2>2. ASSUME NEW m \in Markers, taken[p] = m, m # p
        PROVE  running' = m \/ m \in lost' \/ Reported(m)'
    <3>1. CASE taken[p] # seen[p]
      BY <1>19, <2>0, <2>2, <3>1 DEF Return, Displaced
    <3>2. CASE taken[p] = seen[p] /\ goal[p] = "slot"
      BY <2>0, <2>2, <3>2 DEF Displaced
    <3>3. CASE taken[p] = seen[p] /\ goal[p] = "release"
      <4>1. p \in Readers /\ p \notin Runs /\ got[p].txid = m
        <5>1. pc[p] = "returning" /\ goal[p] = "release" /\ seen[p] = m /\ seen[p] # p
          BY <2>0, <2>2, <3>3 DEF At
        <5>2. p \notin Runs
          BY <5>1 DEF Control, RunControl
        <5> QED
          BY <5>1, <5>2 DEF Processes, Control, ReaderControl
      <4>2. told'[m] = told[m] + 1 /\ UNCHANGED deemed
        <5>1. told' = [told EXCEPT ![m] = @ + 1] /\ UNCHANGED deemed
          BY <2>0, <3>3, <4>1 DEF Resume
        <5> QED
          BY <2>2, <5>1 DEF TypeOK
      <4>3. told[m] \in Nat /\ deemed[m] \in Nat
        BY <2>2 DEF TypeOK
      <4> QED
        BY <4>2, <4>3 DEF Reported
    <3>4. CASE taken[p] = seen[p] /\ goal[p] = "abandoned"
      <4>1. deemed'[m] = deemed[m] + 1 /\ UNCHANGED told
        BY <2>0, <2>2, <3>4 DEF Resume, TypeOK
      <4>2. told[m] \in Nat /\ deemed[m] \in Nat
        BY <2>2 DEF TypeOK
      <4> QED
        BY <4>1, <4>2 DEF Reported
    <3> QED
      BY <2>0, <2>2, <3>1, <3>2, <3>3, <3>4 DEF Resume
  <2>3. /\ pc' \in {[pc EXCEPT ![p] = here] : here \in {"linking", "done", "looking", "answered"}}
        /\ pc'[p] = "linking" => goal[p] = "slot"
    BY <2>0 DEF Resume, Retry, Goto, TypeOK
  <2>4. /\ \A q \in Processes \ {p} : got'[q] = got[q] /\ taken'[q] = taken[q]
        /\ \A r \in Runs : got'[r] = got[r]
        /\ \A x \in Readers : got[x] # Absent => got'[x] = got[x]
    BY <1>19, <2>0, UpdateAssumption
       DEF Return, Resume, history, At, TypeOK, Processes, Control, RunControl, ReaderControl
  <2>5. \A r \in Runs : running = r => running' = r
    BY <1>19, UpdateAssumption DEF Return, Processes
  <2>6. ASSUME NEW r \in Runs,
               pc'[r] \in {"linked", "starting", "waiting", "updating", "installed", "publishing"}
        PROVE  (running = r \/ (\E q \in Processes \ {r} : taken[q] = r) \/ Accounted(r))'
    <3>1. r # p /\ pc[r] = pc'[r]
      BY <2>0, <2>3, <2>6 DEF TypeOK, Processes
    <3>2. running = r \/ (\E q \in Processes \ {r} : taken[q] = r) \/ Accounted(r)
      BY <2>6, <3>1 DEF Traces
    <3>3. ASSUME NEW q \in Processes \ {r}, taken[q] = r
          PROVE  running' = r \/ (\E o \in Processes \ {r} : taken'[o] = r) \/ Accounted(r)'
      <4>1. CASE q = p
        BY <2>2, <3>1, <3>3, <4>1 DEF Accounted, Markers
      <4>2. CASE q # p
        BY <2>4, <3>3, <4>2
      <4> QED
        BY <4>1, <4>2
    <3> QED
      BY <2>1, <2>5, <3>2, <3>3
  <2>7. ASSUME NEW r \in Runs, pc'[r] \in {"releasing", "taking", "returning"}, got'[r] # Absent
        PROVE  (r \in TxidOf(result) \/ (\E x \in Readers : r \in TxidOf(got[x])) \/ Accounted(r))'
    <3>1. pc[r] = pc'[r] /\ got[r] # Absent
      BY <2>0, <2>3, <2>4, <2>7 DEF TypeOK, Processes
    <3>2. r \in TxidOf(result) \/ (\E x \in Readers : r \in TxidOf(got[x])) \/ Accounted(r)
      BY <2>7, <3>1 DEF Traces
    <3> QED
      BY <2>0, <2>1, <2>4, <3>2 DEF TxidOf
  <2>8. ASSUME NEW x \in Readers, NEW r \in Runs, pc'[x] = "answered", r \in TxidOf(got'[x])
        PROVE  Reported(r)'
    <3>1. CASE x # p
      <4>1. Reported(r)
        BY <2>3, <2>4, <2>8, <3>1 DEF TypeOK, Processes, Traces
      <4>2. \A m \in Markers : /\ told[m] \in Nat /\ deemed[m] \in Nat /\ told'[m] \in Nat /\ deemed'[m] \in Nat
                               /\ told'[m] >= told[m] /\ deemed'[m] >= deemed[m]
        BY <2>0 DEF Resume, TypeOK
      <4> QED
        BY <4>1, <4>2 DEF Reported, Markers
    <3>2. CASE x = p
      BY <2>0, <2>8, <3>2, UpdateAssumption
         DEF Resume, Retry, Goto, Abandoned, Reported, TxidOf, At, TypeOK, Processes, Markers, Control, ReaderControl
    <3> QED
      BY <3>1, <3>2
  <2>9. ASSUME NEW r \in Runs
        PROVE  /\ pc'[r] \in {"idle", "linking", "inspecting", "checking", "linked", "starting", "waiting"} =>
                    got'[r] = Absent
               /\ pc'[r] \in {"taking", "returning"} /\ goal'[r] = "slot" => got'[r] = Absent
    BY <2>0, <2>3, <2>4 DEF At, TypeOK, Processes, Traces
  <2> QED
    BY <2>6, <2>7, <2>8, <2>9 DEF Traces, TxidOf
<1>20. ASSUME NEW p \in Processes, NEW txid, Release(p, txid), Speaks(p, txid) PROVE Traces'
  <2>1. CASE running = txid
    <3>1. pc[p] = "releasing" /\ pc' = [pc EXCEPT ![p] = "taking"]
      BY <1>20, <2>1 DEF Release, At, Goto
    <3>2. UNCHANGED <<running, result, goal, taken, got, told, deemed, lost>>
      BY <1>20, <2>1 DEF Release
    <3> QED
      BY <3>1, <3>2, UpdateAssumption
         DEF TypeOK, Processes, Control, RunControl, ReaderControl, Traces, Accounted, Reported, TxidOf
  <2>2. CASE running # txid
    <3>1. pc[p] = "releasing" /\ goal[p] = "release"
      BY <1>20, <2>2 DEF Release, At, Control, RunControl, ReaderControl, Processes
    <3>2. /\ pc' = [pc EXCEPT ![p] = IF p \in Runs THEN "done" ELSE "answered"]
          /\ told' = IF p \in Runs THEN told ELSE [told EXCEPT ![got[p].txid] = @ + 1]
          /\ UNCHANGED <<running, result, goal, taken, got, deemed, lost>>
      BY <1>20, <2>2, <3>1 DEF Release, Resume, Goto
    <3>3. \A r \in Runs : Reported(r) => Reported(r)'
      BY <3>2 DEF Reported, TypeOK, Markers
    <3>4. ASSUME p \in Readers, NEW r \in Runs, r \in TxidOf(got[p]) PROVE Reported(r)'
      BY <3>2, <3>4, UpdateAssumption DEF Reported, TypeOK, Markers, TxidOf
    <3> QED
      BY <3>1, <3>2, <3>3, <3>4, UpdateAssumption DEF TypeOK, Processes, Traces, Accounted, TxidOf
  <2> QED
    BY <2>1, <2>2
<1>21. CASE Tick
  BY <1>21, UpdateAssumption DEF Tick, TypeOK, GateTypeOK, Outcome, Processes, Markers, Control, RunControl,
     ReaderControl, RemovalControl, Traces, Accounted, Reported, TxidOf
<1>22. CASE UNCHANGED vars
  BY <1>22, UpdateAssumption DEF vars, TypeOK, GateTypeOK, Outcome, Processes, Markers, Control, RunControl,
     ReaderControl, RemovalControl, Traces, Accounted, Reported, TxidOf
<1> QED
  BY StepCases, <1>1, <1>2, <1>3, <1>4, <1>5, <1>6, <1>7, <1>8, <1>9, <1>10, <1>11, <1>12,
     <1>13, <1>14, <1>15, <1>16, <1>17, <1>18, <1>19, <1>20, <1>21, <1>22

\* Every step that leaves nothing of a run accounts for it.
LEMMA NextKept == TypeOK /\ Control /\ Traces /\ [Next]_vars => LeavesNoRunUnreported
<1> SUFFICES ASSUME TypeOK, Control, Traces, [Next]_vars PROVE LeavesNoRunUnreported
  OBVIOUS
<1> USE DEF fileVars, treeVars, runVars, removalVars, history, gateVars
<1>1. ASSUME NEW r \in Runs, Confirm(r) PROVE LeavesNoRunUnreported
  BY <1>1, UpdateAssumption DEF Confirm, At, Goto, TypeOK, Processes, Markers, Control, RunControl,
     ReaderControl, RemovalControl, Traces, LeavesNoRunUnreported, Traced, Withdraws, Accounted, Reported,
     TxidOf
<1>2. ASSUME NEW r \in Runs, Link(r) PROVE LeavesNoRunUnreported
  BY <1>2, UpdateAssumption DEF Link, At, Goto, TypeOK, Processes, Markers, Control, RunControl, ReaderControl,
     RemovalControl, Traces, LeavesNoRunUnreported, Traced, Withdraws, Accounted, Reported, TxidOf
<1>3. ASSUME NEW r \in Runs, Inspect(r) PROVE LeavesNoRunUnreported
  BY <1>3, UpdateAssumption DEF Inspect, At, Goto, Retry, TypeOK, Processes, Markers, Control, RunControl,
     ReaderControl, RemovalControl, Traces, LeavesNoRunUnreported, Traced, Withdraws, Accounted, Reported,
     TxidOf
<1>4. ASSUME NEW r \in Runs, Check(r) PROVE LeavesNoRunUnreported
  BY <1>4, UpdateAssumption DEF Check, At, Goto, TypeOK, Processes, Markers, Control, RunControl, ReaderControl,
     RemovalControl, Traces, LeavesNoRunUnreported, Traced, Withdraws, Accounted, Reported, TxidOf
<1>5. ASSUME NEW r \in Runs, ClearResult(r) PROVE LeavesNoRunUnreported
  BY <1>5, UpdateAssumption DEF ClearResult, At, Goto, TxidOf, TypeOK, Processes, Markers, Control, RunControl,
     ReaderControl, RemovalControl, Traces, LeavesNoRunUnreported, Traced, Withdraws, Accounted, Reported,
     TxidOf
<1>6. ASSUME NEW r \in Runs, StartUnit(r) PROVE LeavesNoRunUnreported
  BY <1>6, UpdateAssumption DEF StartUnit, At, Goto, TypeOK, Processes, Markers, Control, RunControl,
     ReaderControl, RemovalControl, Traces, LeavesNoRunUnreported, Traced, Withdraws, Accounted, Reported,
     TxidOf
<1>7. ASSUME NEW r \in Runs, Acquire(r) PROVE LeavesNoRunUnreported
  BY <1>7, UpdateAssumption DEF Acquire, At, Goto, LockExclusive, TypeOK, Processes, Markers, Control,
     RunControl, ReaderControl, RemovalControl, Traces, LeavesNoRunUnreported, Traced, Withdraws, Accounted,
     Reported, TxidOf
<1>8. ASSUME NEW r \in Runs, GiveUp(r) PROVE LeavesNoRunUnreported
  BY <1>8, UpdateAssumption DEF GiveUp, Found, At, Goto, TypeOK, Processes, Markers, Control, RunControl,
     ReaderControl, RemovalControl, Traces, LeavesNoRunUnreported, Traced, Withdraws, Accounted, Reported,
     TxidOf
<1>9. ASSUME NEW r \in Runs, Install(r) PROVE LeavesNoRunUnreported
  BY <1>9, UpdateAssumption DEF Install, At, Goto, TypeOK, Processes, Markers, Control, RunControl,
     ReaderControl, RemovalControl, Traces, LeavesNoRunUnreported, Traced, Withdraws, Accounted, Reported,
     TxidOf
<1>10. ASSUME NEW r \in Runs, Classify(r) PROVE LeavesNoRunUnreported
  BY <1>10, UpdateAssumption DEF Classify, Found, Unlock, At, Goto, TypeOK, Processes, Markers, Control,
     RunControl, ReaderControl, RemovalControl, Traces, LeavesNoRunUnreported, Traced, Withdraws, Accounted,
     Reported, TxidOf
<1>11. ASSUME NEW r \in Runs, Publish(r) PROVE LeavesNoRunUnreported
  BY <1>11, UpdateAssumption DEF Publish, At, Goto, TxidOf, TypeOK, Processes, Markers, Control, RunControl,
     ReaderControl, RemovalControl, Traces, LeavesNoRunUnreported, Traced, Withdraws, Accounted, Reported,
     TxidOf
<1>12. ASSUME NEW r \in Runs, Stop(r) PROVE LeavesNoRunUnreported
  BY <1>12, UpdateAssumption DEF Stop, Unlock, Goto, TypeOK, Processes, Markers, Control, RunControl,
     ReaderControl, RemovalControl, Traces, LeavesNoRunUnreported, Traced, Withdraws, Accounted, Reported,
     TxidOf
<1>13. ASSUME NEW x \in Readers, Ask(x) PROVE LeavesNoRunUnreported
  BY <1>13, UpdateAssumption DEF Ask, At, Goto, TypeOK, Processes, Markers, Control, RunControl, ReaderControl,
     RemovalControl, Traces, LeavesNoRunUnreported, Traced, Withdraws, Accounted, Reported, TxidOf
<1>14. ASSUME NEW x \in Readers, Claim(x) PROVE LeavesNoRunUnreported
  BY <1>14, UpdateAssumption DEF Claim, At, Goto, TypeOK, Processes, Markers, Control, RunControl,
     ReaderControl, RemovalControl, Traces, LeavesNoRunUnreported, Traced, Withdraws, Accounted, Reported,
     TxidOf
<1>15. ASSUME NEW x \in Readers, Look(x) PROVE LeavesNoRunUnreported
  BY <1>15, UpdateAssumption DEF Look, At, Goto, TypeOK, Processes, Markers, Control, RunControl, ReaderControl,
     RemovalControl, Traces, LeavesNoRunUnreported, Traced, Withdraws, Accounted, Reported, TxidOf
<1>16. ASSUME NEW x \in Readers, Answer(x) PROVE LeavesNoRunUnreported
  <2>1. SUFFICES ASSUME NEW r \in Runs, Traced(r), ~Traced(r)' PROVE Reported(r)'
    BY DEF LeavesNoRunUnreported
  <2>2. pc[x] = "answered" /\ taken[x] = Absent
    BY <1>16 DEF Answer, At, Control, RemovalControl, Processes
  <2>3. /\ UNCHANGED <<fileVars, told, deemed>>
        /\ \A q \in Runs : pc'[q] = pc[q]
        /\ \A q \in Processes \ {x} : got'[q] = got[q] /\ taken'[q] = taken[q]
    BY <1>16, UpdateAssumption DEF Answer, Forget, Goto, TypeOK, Processes
  <2>4. r # Absent /\ Readers \subseteq Processes
    BY UpdateAssumption DEF Processes
  <2>5. r \in TxidOf(got[x])
    BY <2>1, <2>2, <2>3, <2>4 DEF Traced, TxidOf
  <2>6. Reported(r)
    BY <2>2, <2>5 DEF Traces
  <2> QED
    BY <2>3, <2>6 DEF Reported
<1>17. ASSUME NEW x \in Readers, Vanish(x) PROVE LeavesNoRunUnreported
  BY <1>17, UpdateAssumption DEF Vanish, Forget, Goto, TxidOf, TypeOK, Processes, Markers, Control, RunControl,
     ReaderControl, RemovalControl, Traces, LeavesNoRunUnreported, Traced, Withdraws, Accounted, Reported,
     TxidOf
<1>18. ASSUME NEW p \in Processes, Take(p) PROVE LeavesNoRunUnreported
  BY <1>18, UpdateAssumption, SMTT(20) DEF Take, Resume, Retry, At, Goto, TypeOK, Processes, Markers, Control,
     RunControl,
     ReaderControl, RemovalControl, Traces, LeavesNoRunUnreported, Traced, Withdraws, Accounted, Reported,
     TxidOf
<1>19. ASSUME NEW p \in Processes, Return(p) PROVE LeavesNoRunUnreported
  BY <1>19, UpdateAssumption DEF Return, Displaced, Resume, Retry, Abandoned, At, Goto, TypeOK, Processes,
     Markers, Control, RunControl, ReaderControl, RemovalControl, Traces, LeavesNoRunUnreported, Traced,
     Withdraws, Accounted, Reported, TxidOf
<1>20. ASSUME NEW p \in Processes, NEW txid, Release(p, txid), Speaks(p, txid) PROVE LeavesNoRunUnreported
  BY <1>20, UpdateAssumption DEF Release, Resume, Retry, At, Goto, Speaks, TypeOK, Processes, Markers, Control,
     RunControl, ReaderControl, RemovalControl, Traces, LeavesNoRunUnreported, Traced, Withdraws, Accounted,
     Reported, TxidOf
<1>21. CASE Tick
  BY <1>21, UpdateAssumption DEF Tick, TypeOK, Processes, Markers, Control, RunControl, ReaderControl,
     RemovalControl, Traces, LeavesNoRunUnreported, Traced, Withdraws, Accounted, Reported, TxidOf
<1>22. CASE UNCHANGED vars
  BY <1>22, UpdateAssumption DEF vars, TypeOK, Processes, Markers, Control, RunControl, ReaderControl,
     RemovalControl, Traces, LeavesNoRunUnreported, Traced, Withdraws, Accounted, Reported, TxidOf
<1> QED
  BY StepCases, <1>1, <1>2, <1>3, <1>4, <1>5, <1>6, <1>7, <1>8, <1>9, <1>10, <1>11, <1>12,
     <1>13, <1>14, <1>15, <1>16, <1>17, <1>18, <1>19, <1>20, <1>21, <1>22

\* Nothing of an update run disappears unreported, however launchers, units and
\* readers interleave and wherever they are killed (finish(), read_status(),
\* remove_if_unchanged()).
THEOREM NoRunIsForgottenHolds == Spec => NoRunIsForgotten
<1>1. TypeOK /\ Control /\ Traces /\ [Next]_vars => [LeavesNoRunUnreported]_vars
  BY NextKept
<1> QED
  BY <1>1, InitControl, NextControl, InitTraces, NextTraces, PTL DEF Spec, NoRunIsForgotten
=============================================================================
