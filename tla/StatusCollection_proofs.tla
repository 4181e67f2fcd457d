---------------------- MODULE StatusCollection_proofs ----------------------
(***************************************************************************)
(* Proofs about StatusCollection, for any providers, any number of helper, *)
(* writer and maintenance processes, and any values of the bounds.         *)
(***************************************************************************)
EXTENDS StatusCollection, TLAPS

---------------------------------------------------------------------------
(* Rows.                                                                   *)

\* What a reply is turned into fits the document.
LEMMA EntryIsARow ==
  ASSUME now \in Nat, NEW reply \in Replies, NEW prior \in Row \cup {NoRow}, NEW retry \in Nat
  PROVE  Entry(Retained(Live(reply), prior), retry) \in Row
<1> DEFINE status == Retained(Live(reply), prior)
<1>1. /\ status.state \in States /\ status.success \in Nat /\ status.windows \in BOOLEAN
  <2>1. /\ Live(reply).state \in States
        /\ Live(reply).success \in Nat
        /\ Live(reply).windows \in BOOLEAN
    BY CollectionAssumption DEF Live, AllReplies, States
  <2>2. CASE status = Live(reply)
    BY <2>1, <2>2
  <2>3. CASE status # Live(reply)
    <3>1. status = Stale(prior) /\ Usable(prior)
      BY <2>3 DEF Retained
    <3>2. prior \in Row
      BY <3>1 DEF Usable
    <3> QED
      BY <3>1, <3>2 DEF Stale, Row, States
  <2> QED
    BY <2>2, <2>3
<1>2. Hold(retry) \in Nat
  BY CollectionAssumption DEF Hold, Earlier
<1>3. HoldExpiry(status, retry) \in Nat
  BY <1>2, CollectionAssumption DEF HoldExpiry, Later
<1> QED
  BY <1>1, <1>2, <1>3 DEF Entry, Row

LEMMA MergedIsADoc ==
  ASSUME NEW doc \in Doc, NEW rows \in Doc, NEW ids
  PROVE  Merged(doc, rows, ids) \in Doc
BY DEF Merged, Doc

LEMMA EmptyIsADoc == EmptyDoc \in Doc
BY DEF EmptyDoc, Doc

---------------------------------------------------------------------------
(* Types.                                                                  *)

LEMMA InitTypeOK == Init => TypeOK
<1> SUFFICES ASSUME Init PROVE TypeOK
  OBVIOUS
<1>1. corrupt \in BOOLEAN
  <2>1. corrupt = FALSE \/ corrupt = MayBeCorrupt
    BY DEF Init
  <2> QED
    BY <2>1, CollectionAssumption
<1>2. GateTypeOK(Processes)
  BY DEF Init, GateInit, GateTypeOK
<1> QED
  BY <1>1, <1>2, EmptyIsADoc DEF Init, TypeOK

\* Unlock(), Forget() and Begin() are shared by several actions.
LEMMA BeginTypeOK ==
  ASSUME TypeOK, NEW h \in Helpers, NEW doc \in Doc, Begin(h, doc)
  PROVE  /\ collect' \in [Helpers -> SUBSET Providers]
         /\ loaded' \in [Helpers -> Doc]
         /\ pc' \in [Processes -> {"idle", "waiting", "loading", "quarantining", "collecting",
                                  "merging", "evaluating", "applying", "maintaining"}]
<1>1. \A ids : Merged(EmptyDoc, doc, ids) \in Doc
  BY EmptyIsADoc, MergedIsADoc
<1> QED
  BY <1>1 DEF Begin, TypeOK

LEMMA ForgetTypeOK ==
  ASSUME TypeOK, NEW h \in Helpers, Forget(h)
  PROVE  /\ mode' \in [Helpers -> {"use", "bypass"}]
         /\ targets' \in [Helpers -> SUBSET Providers]
         /\ requestedAt' \in [Helpers -> Nat]
         /\ collect' \in [Helpers -> SUBSET Providers]
         /\ loaded' \in [Helpers -> Doc]
         /\ result' \in [Helpers -> Doc]
         /\ base' \in [Helpers -> Doc]
BY EmptyIsADoc DEF Forget, TypeOK

LEMMA UnlockTypeOK ==
  ASSUME TypeOK, NEW q \in Processes, Unlock(q)
  PROVE  GateTypeOK(Processes)'
BY DEF Unlock, GateTypeOK, TypeOK

LEMMA NextTypeOK == TypeOK /\ [Next]_vars => TypeOK'
<1> SUFFICES ASSUME TypeOK, [Next]_vars PROVE TypeOK'
  OBVIOUS
<1> USE DEF fileVars, lockVars, planVars, workVars
<1>0. Helpers \subseteq Processes /\ Writers \subseteq Processes /\ Maintainers \subseteq Processes
  BY DEF Processes
<1>1. ASSUME NEW h \in Helpers, Request(h) PROVE TypeOK'
  BY <1>0, <1>1, CollectionAssumption DEF Request, At, TypeOK, GateTypeOK
<1>2. ASSUME NEW h \in Helpers, Enter(h) PROVE TypeOK'
  BY <1>0, <1>2 DEF Enter, At, LockShared, TypeOK, GateTypeOK
<1>3. ASSUME NEW h \in Helpers, Load(h) PROVE TypeOK'
  <2>1. CASE corrupt
    BY <1>0, <1>3, <2>1 DEF Load, TypeOK, GateTypeOK
  <2>2. CASE ~corrupt
    <3>1. Begin(h, cache) /\ cache \in Doc
      BY <1>3, <2>2 DEF Load, TypeOK
    <3> QED
      BY <1>3, <3>1, BeginTypeOK DEF Load, TypeOK, GateTypeOK
  <2> QED
    BY <2>1, <2>2
<1>4. ASSUME NEW h \in Helpers, Quarantine(h) PROVE TypeOK'
  BY <1>4, BeginTypeOK, EmptyIsADoc DEF Quarantine, TypeOK, GateTypeOK
<1>5. ASSUME NEW h \in Helpers, NEW p \in Providers, Measure(h, p) PROVE TypeOK'
  <2>0. PICK reply \in Replies : \E retry \in IF reply = "limited" THEN 0..MaxTime ELSE {0} :
          /\ result' = [result EXCEPT ![h][p] = Entry(Retained(Live(reply), loaded[h][p]), retry)]
          /\ readings' = IF reply = "windows" THEN [readings EXCEPT ![p] = @ \cup {now}] ELSE readings
    BY <1>5 DEF Measure
  <2>1. PICK retry \in Nat :
          /\ result' = [result EXCEPT ![h][p] = Entry(Retained(Live(reply), loaded[h][p]), retry)]
          /\ readings' = IF reply = "windows" THEN [readings EXCEPT ![p] = @ \cup {now}] ELSE readings
    <3>1. 0..MaxTime \subseteq Nat
      OBVIOUS
    <3> QED
      BY <2>0, <3>1
  <2>2. loaded[h][p] \in Row \cup {NoRow} /\ now \in Nat
    BY DEF TypeOK, Doc
  <2>3. Entry(Retained(Live(reply), loaded[h][p]), retry) \in Row
    BY <2>2, EntryIsARow
  <2>4. result' \in [Helpers -> Doc]
    BY <2>1, <2>3 DEF TypeOK, Doc
  <2>5. readings' \in [Providers -> SUBSET Nat]
    BY <2>1 DEF TypeOK
  <2> QED
    BY <1>5, <2>4, <2>5 DEF Measure, TypeOK, GateTypeOK
<1>6. ASSUME NEW h \in Helpers, StartMerge(h) PROVE TypeOK'
  BY <1>0, <1>6, EmptyIsADoc DEF StartMerge, At, TypeOK, GateTypeOK
<1>7. ASSUME NEW h \in Helpers, Publish(h) PROVE TypeOK'
  <2>1. cache' \in Doc
    BY <1>7, MergedIsADoc DEF Publish, TypeOK
  <2> QED
    BY <1>0, <1>7, <2>1 DEF Publish, At, TypeOK, GateTypeOK
<1>8. ASSUME NEW h \in Helpers, Finish(h) PROVE TypeOK'
  BY <1>0, <1>8, ForgetTypeOK, UnlockTypeOK DEF Finish, At, TypeOK
<1>9. ASSUME NEW h \in Helpers, Die(h) PROVE TypeOK'
  BY <1>0, <1>9, ForgetTypeOK, UnlockTypeOK DEF Die, TypeOK
<1>10. ASSUME NEW w \in Writers, BeginApply(w) PROVE TypeOK'
  BY <1>0, <1>10 DEF BeginApply, At, LockShared, TypeOK, GateTypeOK
<1>11. ASSUME NEW w \in Writers, Apply(w) PROVE TypeOK'
  BY <1>0, <1>11, UnlockTypeOK DEF Apply, At, TypeOK
<1>12. ASSUME NEW m \in Maintainers, BeginMaintenance(m) PROVE TypeOK'
  BY <1>0, <1>12 DEF BeginMaintenance, At, LockExclusive, TypeOK, GateTypeOK
<1>13. ASSUME NEW m \in Maintainers, Purge(m) PROVE TypeOK'
  BY <1>13, EmptyIsADoc DEF Purge, TypeOK, GateTypeOK
<1>14. ASSUME NEW m \in Maintainers, EndMaintenance(m) PROVE TypeOK'
  BY <1>0, <1>14, UnlockTypeOK DEF EndMaintenance, At, TypeOK
<1>15. CASE Tick
  BY <1>15 DEF Tick, TypeOK, GateTypeOK
<1>16. CASE UNCHANGED vars
  BY <1>16 DEF vars, TypeOK, GateTypeOK
<1> QED
  BY <1>1, <1>2, <1>3, <1>4, <1>5, <1>6, <1>7, <1>8, <1>9, <1>10, <1>11, <1>12, <1>13, <1>14,
     <1>15, <1>16 DEF Next, HelperStep

\* Every variable keeps its type, for any processes, providers and bounds.
THEOREM CollectionTypeOK == Spec => []TypeOK
BY InitTypeOK, NextTypeOK, PTL DEF Spec

---------------------------------------------------------------------------
(* The gate.                                                               *)

\* Why maintenance is alone: whoever is past the gate holds it, and the gate
\* is held shared or exclusively, never both.
GateInv ==
  /\ \A q \in Processes : pc[q] \notin {"idle", "waiting", "maintaining"} => q \in shared
  /\ \A q \in Processes : pc[q] = "maintaining" => exclusive = q
  /\ GateExcludes

LEMMA InitGateInv == Init => GateInv
BY DEF Init, GateInv, GateInit, GateExcludes

LEMMA NextGateInv == TypeOK /\ GateInv /\ [Next]_vars => GateInv'
<1> SUFFICES ASSUME TypeOK, GateInv, [Next]_vars PROVE GateInv'
  OBVIOUS
<1> USE DEF fileVars, lockVars, planVars, workVars
<1>0. Helpers \subseteq Processes /\ Writers \subseteq Processes /\ Maintainers \subseteq Processes
  BY DEF Processes
<1>1. ASSUME NEW h \in Helpers, Request(h) PROVE GateInv'
  BY <1>0, <1>1, CollectionAssumption DEF Request, At, GateInv, GateExcludes, TypeOK
<1>2. ASSUME NEW h \in Helpers, Enter(h) PROVE GateInv'
  BY <1>0, <1>2, CollectionAssumption DEF Enter, At, LockShared, OpenToSharers, GateInv, GateExcludes, TypeOK
<1>3. ASSUME NEW h \in Helpers, Load(h) PROVE GateInv'
  BY <1>0, <1>3, CollectionAssumption DEF Load, Begin, GateInv, GateExcludes, TypeOK
<1>4. ASSUME NEW h \in Helpers, Quarantine(h) PROVE GateInv'
  BY <1>0, <1>4, CollectionAssumption DEF Quarantine, Begin, GateInv, GateExcludes, TypeOK
<1>5. ASSUME NEW h \in Helpers, NEW p \in Providers, Measure(h, p) PROVE GateInv'
  BY <1>0, <1>5, CollectionAssumption DEF Measure, GateInv, GateExcludes, TypeOK
<1>6. ASSUME NEW h \in Helpers, StartMerge(h) PROVE GateInv'
  BY <1>0, <1>6, CollectionAssumption DEF StartMerge, At, GateInv, GateExcludes, TypeOK
<1>7. ASSUME NEW h \in Helpers, Publish(h) PROVE GateInv'
  BY <1>0, <1>7, CollectionAssumption DEF Publish, At, GateInv, GateExcludes, TypeOK
<1>8. ASSUME NEW h \in Helpers, Finish(h) PROVE GateInv'
  BY <1>0, <1>8, CollectionAssumption DEF Finish, At, Unlock, GateInv, GateExcludes, TypeOK
<1>9. ASSUME NEW h \in Helpers, Die(h) PROVE GateInv'
  BY <1>0, <1>9, CollectionAssumption DEF Die, Unlock, GateInv, GateExcludes, TypeOK
<1>10. ASSUME NEW w \in Writers, BeginApply(w) PROVE GateInv'
  BY <1>0, <1>10, CollectionAssumption DEF BeginApply, At, LockShared, OpenToSharers, GateInv, GateExcludes,
     TypeOK
<1>11. ASSUME NEW w \in Writers, Apply(w) PROVE GateInv'
  BY <1>0, <1>11, CollectionAssumption DEF Apply, At, Unlock, GateInv, GateExcludes, TypeOK
<1>12. ASSUME NEW m \in Maintainers, BeginMaintenance(m) PROVE GateInv'
  BY <1>0, <1>12, CollectionAssumption DEF BeginMaintenance, At, LockExclusive, GateInv, GateExcludes, TypeOK
<1>13. ASSUME NEW m \in Maintainers, Purge(m) PROVE GateInv'
  BY <1>0, <1>13, CollectionAssumption DEF Purge, GateInv, GateExcludes, TypeOK
<1>14. ASSUME NEW m \in Maintainers, EndMaintenance(m) PROVE GateInv'
  BY <1>0, <1>14, CollectionAssumption DEF EndMaintenance, At, Unlock, GateInv, GateExcludes, TypeOK
<1>15. CASE Tick
  BY <1>0, <1>15, CollectionAssumption DEF Tick, GateInv, GateExcludes, TypeOK
<1>16. CASE UNCHANGED vars
  BY <1>0, <1>16, CollectionAssumption DEF vars, GateInv, GateExcludes, TypeOK
<1> QED
  BY <1>1, <1>2, <1>3, <1>4, <1>5, <1>6, <1>7, <1>8, <1>9, <1>10, <1>11, <1>12, <1>13, <1>14, <1>15, <1>16
     DEF Next, HelperStep

LEMMA GateInvHolds == Spec => [](TypeOK /\ GateInv)
BY InitTypeOK, NextTypeOK, InitGateInv, NextGateInv, PTL DEF Spec

\* An update or an uninstall is alone past the gate, wherever helpers are
\* killed and whatever they wait for.
THEOREM CollectionMaintenanceRunsAlone == Spec => []MaintenanceRunsAlone
<1>1. TypeOK /\ GateInv => MaintenanceRunsAlone
  <2> SUFFICES ASSUME TypeOK, GateInv, exclusive # Nobody, NEW q \in Processes \ {exclusive}
               PROVE  pc[q] \in {"idle", "waiting"}
    BY DEF MaintenanceRunsAlone
  <2> QED
    BY DEF GateInv, GateExcludes
<1> QED
  BY <1>1, GateInvHolds, PTL

\* No other process writes the cache or the settings meanwhile.
THEOREM CollectionMaintenanceWritesAlone == Spec => MaintenanceWritesAlone
<1> DEFINE Alone == exclusive # Nobody =>
      (cache' # cache \/ enabled' # enabled => \E m \in Maintainers : Purge(m))
<1>1. ASSUME TypeOK, GateInv, Next PROVE Alone
  <2> SUFFICES ASSUME exclusive # Nobody, cache' # cache \/ enabled' # enabled,
                      ~ \E m \in Maintainers : Purge(m)
               PROVE  FALSE
    OBVIOUS
  <2> USE DEF fileVars, lockVars, planVars, workVars
  <2>0. Helpers \subseteq Processes /\ Writers \subseteq Processes
    BY DEF Processes
  <2>1. \/ \E h \in Helpers : Quarantine(h) \/ Publish(h)
        \/ \E w \in Writers : Apply(w)
    BY <1>1 DEF Next, HelperStep, Request, Enter, Load, Measure, StartMerge, Finish, Die, BeginApply,
                BeginMaintenance, EndMaintenance, Tick
  <2>2. \E q \in Processes : pc[q] \in {"quarantining", "merging", "applying"}
    BY <2>0, <2>1 DEF Quarantine, Publish, Apply, At
  <2> QED
    BY <1>1, <2>2 DEF GateInv, GateExcludes
<1>2. Spec => [][Alone]_vars
  <2>1. TypeOK /\ GateInv /\ [Next]_vars => [Alone]_vars
    BY <1>1
  <2> QED
    BY <2>1, GateInvHolds, PTL DEF Spec
<1> QED
  BY <1>2 DEF MaintenanceWritesAlone

---------------------------------------------------------------------------
(* Merges.                                                                 *)

\* Why a merge keeps its siblings: status.lock has one holder, and nothing
\* but that holder's own publication changes the document it read.
MergeInv ==
  /\ ~corrupt
  /\ \A h \in Helpers : pc[h] # "quarantining"
  /\ \A h \in Helpers : pc[h] = "merging" => statusLock = h /\ base[h] = cache

LEMMA InitMergeInv == MayBeCorrupt = FALSE /\ Init => MergeInv
<1> SUFFICES ASSUME MayBeCorrupt = FALSE, Init PROVE MergeInv
  OBVIOUS
<1>1. corrupt = FALSE
  <2>1. corrupt \in {FALSE, MayBeCorrupt}
    BY DEF Init
  <2> QED
    BY <2>1
<1> QED
  BY <1>1 DEF Init, MergeInv, Processes

LEMMA NextMergeInv == TypeOK /\ GateInv /\ MergeInv /\ [Next]_vars => MergeInv'
<1> SUFFICES ASSUME TypeOK, GateInv, MergeInv, [Next]_vars PROVE MergeInv'
  OBVIOUS
<1> USE DEF fileVars, lockVars, planVars, workVars
<1>0. Helpers \subseteq Processes /\ Writers \subseteq Processes /\ Maintainers \subseteq Processes
  BY DEF Processes
<1>1. ASSUME NEW h \in Helpers, Request(h) PROVE MergeInv'
  BY <1>0, <1>1, CollectionAssumption DEF Request, At, MergeInv, TypeOK
<1>2. ASSUME NEW h \in Helpers, Enter(h) PROVE MergeInv'
  BY <1>0, <1>2, CollectionAssumption DEF Enter, At, MergeInv, TypeOK
<1>3. ASSUME NEW h \in Helpers, Load(h) PROVE MergeInv'
  BY <1>0, <1>3, CollectionAssumption DEF Load, Begin, MergeInv, TypeOK
<1>4. ASSUME NEW h \in Helpers, Quarantine(h) PROVE MergeInv'
  BY <1>0, <1>4, CollectionAssumption DEF Quarantine, Begin, MergeInv, TypeOK
<1>5. ASSUME NEW h \in Helpers, NEW p \in Providers, Measure(h, p) PROVE MergeInv'
  BY <1>0, <1>5, CollectionAssumption DEF Measure, MergeInv, TypeOK
<1>6. ASSUME NEW h \in Helpers, StartMerge(h) PROVE MergeInv'
  BY <1>0, <1>6, CollectionAssumption DEF StartMerge, At, MergeInv, TypeOK
<1>7. ASSUME NEW h \in Helpers, Publish(h) PROVE MergeInv'
  BY <1>0, <1>7, CollectionAssumption DEF Publish, At, MergeInv, TypeOK
<1>8. ASSUME NEW h \in Helpers, Finish(h) PROVE MergeInv'
  BY <1>0, <1>8, CollectionAssumption DEF Finish, At, Forget, MergeInv, TypeOK
<1>9. ASSUME NEW h \in Helpers, Die(h) PROVE MergeInv'
  BY <1>0, <1>9, CollectionAssumption DEF Die, Forget, MergeInv, TypeOK
<1>10. ASSUME NEW w \in Writers, BeginApply(w) PROVE MergeInv'
  BY <1>0, <1>10, CollectionAssumption DEF BeginApply, At, MergeInv, TypeOK
<1>11. ASSUME NEW w \in Writers, Apply(w) PROVE MergeInv'
  BY <1>0, <1>11, CollectionAssumption DEF Apply, At, MergeInv, TypeOK
<1>12. ASSUME NEW m \in Maintainers, BeginMaintenance(m) PROVE MergeInv'
  BY <1>0, <1>12, CollectionAssumption DEF BeginMaintenance, At, MergeInv, TypeOK
<1>13. ASSUME NEW m \in Maintainers, Purge(m) PROVE MergeInv'
  <2>1. \A h \in Helpers : pc[h] # "merging"
    BY <1>0, <1>13, CollectionAssumption DEF Purge, GateInv, GateExcludes
  <2> QED
    BY <1>0, <1>13, <2>1 DEF Purge, MergeInv, TypeOK
<1>14. ASSUME NEW m \in Maintainers, EndMaintenance(m) PROVE MergeInv'
  BY <1>0, <1>14, CollectionAssumption DEF EndMaintenance, At, MergeInv, TypeOK
<1>15. CASE Tick
  BY <1>0, <1>15, CollectionAssumption DEF Tick, MergeInv, TypeOK
<1>16. CASE UNCHANGED vars
  BY <1>0, <1>16, CollectionAssumption DEF vars, MergeInv, TypeOK
<1> QED
  BY <1>1, <1>2, <1>3, <1>4, <1>5, <1>6, <1>7, <1>8, <1>9, <1>10, <1>11, <1>12, <1>13, <1>14, <1>15, <1>16
     DEF Next, HelperStep

\* Unless the first document is corrupt, a merge changes the rows it collected
\* and no others.
THEOREM CollectionSiblingsAreKept ==
  ASSUME MayBeCorrupt = FALSE
  PROVE  Spec => SiblingsAreKept
<1> DEFINE Kept == \A p \in Providers :
       cache'[p] # cache[p] =>
         \/ \E h \in Helpers : pc[h] = "merging" /\ p \in collect[h] /\ cache'[p] = result[h][p]
         \/ \E m \in Maintainers : Purge(m)
<1>1. ASSUME TypeOK, MergeInv, Next PROVE Kept
  <2> SUFFICES ASSUME NEW p \in Providers, cache'[p] # cache[p], ~ \E m \in Maintainers : Purge(m)
               PROVE  \E h \in Helpers : pc[h] = "merging" /\ p \in collect[h] /\ cache'[p] = result[h][p]
    OBVIOUS
  <2> USE DEF fileVars, lockVars, planVars, workVars
  <2>1. \E h \in Helpers : Quarantine(h) \/ Publish(h)
    BY <1>1 DEF Next, HelperStep, Request, Enter, Load, Measure, StartMerge, Finish, Die, BeginApply,
                Apply, BeginMaintenance, EndMaintenance, Tick
  <2>2. PICK h \in Helpers : Publish(h)
    BY <1>1, <2>1 DEF Quarantine, MergeInv
  <2>3. cache' = Merged(cache, result[h], collect[h])
    BY <1>1, <2>2 DEF Publish, At, MergeInv
  <2>4. p \in collect[h] /\ cache'[p] = result[h][p]
    BY <2>3 DEF Merged
  <2> QED
    BY <2>2, <2>4 DEF Publish, At
<1>2. Init => MergeInv
  BY InitMergeInv
<1>3. Spec => [][Kept]_vars
  <2>1. TypeOK /\ MergeInv /\ [Next]_vars => [Kept]_vars
    BY <1>1
  <2>2. Spec => [](TypeOK /\ GateInv /\ MergeInv)
    BY <1>2, GateInvHolds, NextMergeInv, PTL DEF Spec
  <2> QED
    BY <2>1, <2>2, PTL DEF Spec
<1> QED
  BY <1>3 DEF SiblingsAreKept

---------------------------------------------------------------------------
(* Readings.                                                               *)

Dated(row, dates) == Usable(row) /\ row.windows => row.success \in dates

\* A row is dated wherever it is on its way: in the document, in a helper's
\* copy of it, among its results, and in what it merges into.
DatedInv ==
  /\ \A p \in Providers : Dated(cache[p], readings[p])
  /\ \A h \in Helpers, p \in Providers :
       Dated(loaded[h][p], readings[p]) /\ Dated(result[h][p], readings[p]) /\ Dated(base[h][p], readings[p])

LEMMA EmptyIsDated == \A p \in Providers : \A dates : Dated(EmptyDoc[p], dates)
BY DEF Dated, EmptyDoc, Usable

LEMMA InitDatedInv == Init => DatedInv
BY EmptyIsDated DEF Init, DatedInv

\* Retaining a reading keeps its date; a reply's own date is now.
LEMMA EntryIsDated ==
  ASSUME NEW reply \in Replies, NEW prior \in Row \cup {NoRow}, NEW retry, NEW dates,
         Dated(prior, dates), reply = "windows" => now \in dates
  PROVE  Dated(Entry(Retained(Live(reply), prior), retry), dates)
<1> DEFINE status == Retained(Live(reply), prior)
           row    == Entry(status, retry)
<1>1. row.state = status.state /\ row.success = status.success /\ row.windows = status.windows
  BY DEF Entry
<1>2. \/ /\ status.windows = (reply = "windows")
         /\ reply = "windows" => status.success = now
      \/ /\ Usable(prior)
         /\ status.windows = prior.windows /\ status.success = prior.success
  <2>1. CASE status = Live(reply)
    BY <2>1 DEF Live
  <2>2. CASE status = Stale(prior) /\ Usable(prior)
    BY <2>2 DEF Stale
  <2> QED
    BY <2>1, <2>2 DEF Retained
<1> HIDE DEF status, row
<1>3. Dated(row, dates)
  <2> SUFFICES ASSUME row.windows PROVE row.success \in dates
    BY DEF Dated
  <2>1. CASE status.windows = (reply = "windows") /\ (reply = "windows" => status.success = now)
    BY <1>1, <2>1
  <2>2. CASE Usable(prior) /\ status.windows = prior.windows /\ status.success = prior.success
    BY <1>1, <2>2 DEF Dated
  <2> QED
    BY <1>2, <2>1, <2>2
<1> QED
  BY <1>3 DEF row, status

LEMMA NextDatedInv == TypeOK /\ DatedInv /\ [Next]_vars => DatedInv'
<1> SUFFICES ASSUME TypeOK, DatedInv, [Next]_vars PROVE DatedInv'
  OBVIOUS
<1> USE DEF fileVars, lockVars, planVars, workVars
<1>0. Helpers \subseteq Processes /\ Writers \subseteq Processes /\ Maintainers \subseteq Processes
  BY DEF Processes
<1>1. ASSUME NEW h \in Helpers, Request(h) PROVE DatedInv'
  BY <1>1 DEF Request, DatedInv, Dated
<1>2. ASSUME NEW h \in Helpers, Enter(h) PROVE DatedInv'
  BY <1>2 DEF Enter, DatedInv, Dated
<1>3. ASSUME NEW h \in Helpers, Load(h) PROVE DatedInv'
  <2>1. CASE corrupt
    BY <1>3, <2>1 DEF Load, DatedInv, Dated
  <2>2. CASE ~corrupt
    <3>1. Begin(h, cache) /\ readings' = readings
      BY <1>3, <2>2 DEF Load
    <3>2. \A k \in Helpers, p \in Providers : Dated(loaded'[k][p], readings'[p])
      BY <3>1, EmptyIsDated DEF Begin, Merged, DatedInv, TypeOK
    <3> QED
      BY <1>3, <3>2 DEF Load, DatedInv, Dated
  <2> QED
    BY <2>1, <2>2
<1>4. ASSUME NEW h \in Helpers, Quarantine(h) PROVE DatedInv'
  <2>1. \A k \in Helpers, p \in Providers : Dated(loaded'[k][p], readings'[p])
    BY <1>4, EmptyIsDated DEF Quarantine, Begin, Merged, DatedInv, TypeOK
  <2> QED
    BY <1>4, <2>1, EmptyIsDated DEF Quarantine, DatedInv, Dated
<1>5. ASSUME NEW h \in Helpers, NEW p \in Providers, Measure(h, p) PROVE DatedInv'
  <2>0. PICK reply \in Replies : \E retry \in IF reply = "limited" THEN 0..MaxTime ELSE {0} :
          /\ result' = [result EXCEPT ![h][p] = Entry(Retained(Live(reply), loaded[h][p]), retry)]
          /\ readings' = IF reply = "windows" THEN [readings EXCEPT ![p] = @ \cup {now}] ELSE readings
    BY <1>5 DEF Measure
  <2>1. PICK retry :
          /\ result' = [result EXCEPT ![h][p] = Entry(Retained(Live(reply), loaded[h][p]), retry)]
          /\ readings' = IF reply = "windows" THEN [readings EXCEPT ![p] = @ \cup {now}] ELSE readings
    BY <2>0
  <2>2. \A q \in Providers : readings[q] \subseteq readings'[q]
    BY <2>1 DEF TypeOK
  <2>3. reply = "windows" => now \in readings'[p]
    BY <2>1 DEF TypeOK
  <2>4. Dated(loaded[h][p], readings'[p]) /\ loaded[h][p] \in Row \cup {NoRow}
    BY <2>2 DEF DatedInv, Dated, TypeOK, Doc
  <2>5. Dated(Entry(Retained(Live(reply), loaded[h][p]), retry), readings'[p])
    BY <2>3, <2>4, EntryIsDated
  <2>6. \A k \in Helpers, q \in Providers :
          result'[k][q] = result[k][q] \/ (q = p /\ Dated(result'[k][q], readings'[p]))
    BY <2>1, <2>5 DEF TypeOK, Doc
  <2>7. \A k \in Helpers, q \in Providers : Dated(result'[k][q], readings'[q])
    BY <2>2, <2>6 DEF DatedInv, Dated
  <2> QED
    BY <1>5, <2>2, <2>7 DEF Measure, DatedInv, Dated
<1>6. ASSUME NEW h \in Helpers, StartMerge(h) PROVE DatedInv'
  BY <1>6, EmptyIsDated DEF StartMerge, At, DatedInv, Dated, TypeOK
<1>7. ASSUME NEW h \in Helpers, Publish(h) PROVE DatedInv'
  BY <1>7 DEF Publish, At, Merged, DatedInv, Dated, TypeOK
<1>8. ASSUME NEW h \in Helpers, Finish(h) PROVE DatedInv'
  BY <1>8, EmptyIsDated DEF Finish, At, Forget, DatedInv, Dated, TypeOK
<1>9. ASSUME NEW h \in Helpers, Die(h) PROVE DatedInv'
  BY <1>9, EmptyIsDated DEF Die, At, Forget, DatedInv, Dated, TypeOK
<1>10. ASSUME NEW w \in Writers, BeginApply(w) PROVE DatedInv'
  BY <1>10 DEF BeginApply, DatedInv, Dated
<1>11. ASSUME NEW w \in Writers, Apply(w) PROVE DatedInv'
  BY <1>11 DEF Apply, DatedInv, Dated
<1>12. ASSUME NEW m \in Maintainers, BeginMaintenance(m) PROVE DatedInv'
  BY <1>12 DEF BeginMaintenance, DatedInv, Dated
<1>13. ASSUME NEW m \in Maintainers, Purge(m) PROVE DatedInv'
  BY <1>13, EmptyIsDated DEF Purge, DatedInv, Dated
<1>14. ASSUME NEW m \in Maintainers, EndMaintenance(m) PROVE DatedInv'
  BY <1>14 DEF EndMaintenance, DatedInv, Dated
<1>15. CASE Tick
  BY <1>15 DEF Tick, DatedInv, Dated
<1>16. CASE UNCHANGED vars
  BY <1>16 DEF vars, DatedInv, Dated
<1> QED
  BY <1>1, <1>2, <1>3, <1>4, <1>5, <1>6, <1>7, <1>8, <1>9, <1>10, <1>11, <1>12, <1>13, <1>14, <1>15, <1>16
     DEF Next, HelperStep

\* Usage windows on display were read on the date they are shown with.
THEOREM CollectionReadingsAreDated == Spec => []ReadingsAreDated
<1>1. DatedInv => ReadingsAreDated
  BY DEF DatedInv, Dated, ReadingsAreDated
<1> QED
  BY <1>1, InitTypeOK, NextTypeOK, InitDatedInv, NextDatedInv, PTL DEF Spec

---------------------------------------------------------------------------
(* Holds.                                                                  *)

Held(row) ==
  row # NoRow =>
    /\ row.until <= row.expires
    /\ row.state \notin {"ready", "stale", "limited"} => row.until = 0

\* A row never expires before its Retry-After, and only rows that are served
\* have one.
HoldInv ==
  /\ \A p \in Providers : Held(cache[p])
  /\ \A h \in Helpers, p \in Providers : Held(result[h][p]) /\ Held(base[h][p])

LEMMA EmptyIsHeld == \A p \in Providers : Held(EmptyDoc[p])
BY DEF Held, EmptyDoc

LEMMA InitHoldInv == Init => HoldInv
BY EmptyIsHeld DEF Init, HoldInv

\* The row a reply becomes expires no earlier than its Retry-After, which only
\* a 429 has, and a 429 is kept as such or retained as stale.
LEMMA EntryIsHeld ==
  ASSUME now \in Nat, NEW reply \in Replies, NEW prior \in Row \cup {NoRow}, NEW retry \in Nat,
         reply # "limited" => retry = 0
  PROVE  Held(Entry(Retained(Live(reply), prior), retry))
<1> DEFINE status == Retained(Live(reply), prior)
           row    == Entry(status, retry)
<1>1. row.state = status.state /\ row.until = Hold(retry) /\ row.expires = HoldExpiry(status, retry)
  BY DEF Entry
<1>2. Hold(retry) \in Nat /\ (retry = 0 => Hold(retry) = 0)
  BY CollectionAssumption DEF Hold, Earlier
<1>3. Hold(retry) <= HoldExpiry(status, retry)
  BY <1>2, CollectionAssumption DEF HoldExpiry, Later
<1>4. status.state \in {"ready", "stale", "limited"} \/ reply # "limited"
  BY DEF Live, Retained, Stale
<1> HIDE DEF status, row
<1>5. Held(row)
  BY <1>1, <1>2, <1>3, <1>4 DEF Held
<1> QED
  BY <1>5 DEF row, status

LEMMA NextHoldInv == TypeOK /\ HoldInv /\ [Next]_vars => HoldInv'
<1> SUFFICES ASSUME TypeOK, HoldInv, [Next]_vars PROVE HoldInv'
  OBVIOUS
<1> USE DEF fileVars, lockVars, planVars, workVars
<1>0. Helpers \subseteq Processes /\ Writers \subseteq Processes /\ Maintainers \subseteq Processes
  BY DEF Processes
<1>1. ASSUME NEW h \in Helpers, Request(h) PROVE HoldInv'
  BY <1>1 DEF Request, HoldInv
<1>2. ASSUME NEW h \in Helpers, Enter(h) PROVE HoldInv'
  BY <1>2 DEF Enter, HoldInv
<1>3. ASSUME NEW h \in Helpers, Load(h) PROVE HoldInv'
  BY <1>3 DEF Load, HoldInv
<1>4. ASSUME NEW h \in Helpers, Quarantine(h) PROVE HoldInv'
  BY <1>4, EmptyIsHeld DEF Quarantine, HoldInv
<1>5. ASSUME NEW h \in Helpers, NEW p \in Providers, Measure(h, p) PROVE HoldInv'
  <2>0. PICK reply \in Replies : \E retry \in IF reply = "limited" THEN 0..MaxTime ELSE {0} :
          result' = [result EXCEPT ![h][p] = Entry(Retained(Live(reply), loaded[h][p]), retry)]
    BY <1>5 DEF Measure
  <2>1. PICK retry \in Nat :
          /\ reply # "limited" => retry = 0
          /\ result' = [result EXCEPT ![h][p] = Entry(Retained(Live(reply), loaded[h][p]), retry)]
    <3>1. 0..MaxTime \subseteq Nat
      OBVIOUS
    <3> QED
      BY <2>0, <3>1
  <2>2. loaded[h][p] \in Row \cup {NoRow} /\ now \in Nat
    BY DEF TypeOK, Doc
  <2>3. Held(Entry(Retained(Live(reply), loaded[h][p]), retry))
    BY <2>1, <2>2, EntryIsHeld
  <2>4. \A k \in Helpers, q \in Providers : result'[k][q] = result[k][q] \/ Held(result'[k][q])
    BY <2>1, <2>3 DEF TypeOK, Doc
  <2> QED
    BY <1>5, <2>4 DEF Measure, HoldInv
<1>6. ASSUME NEW h \in Helpers, StartMerge(h) PROVE HoldInv'
  BY <1>6, EmptyIsHeld DEF StartMerge, HoldInv, TypeOK
<1>7. ASSUME NEW h \in Helpers, Publish(h) PROVE HoldInv'
  BY <1>7 DEF Publish, Merged, HoldInv, TypeOK
<1>8. ASSUME NEW h \in Helpers, Finish(h) PROVE HoldInv'
  BY <1>8, EmptyIsHeld DEF Finish, Forget, HoldInv, TypeOK
<1>9. ASSUME NEW h \in Helpers, Die(h) PROVE HoldInv'
  BY <1>9, EmptyIsHeld DEF Die, Forget, HoldInv, TypeOK
<1>10. ASSUME NEW w \in Writers, BeginApply(w) PROVE HoldInv'
  BY <1>10 DEF BeginApply, HoldInv
<1>11. ASSUME NEW w \in Writers, Apply(w) PROVE HoldInv'
  BY <1>11 DEF Apply, HoldInv
<1>12. ASSUME NEW m \in Maintainers, BeginMaintenance(m) PROVE HoldInv'
  BY <1>12 DEF BeginMaintenance, HoldInv
<1>13. ASSUME NEW m \in Maintainers, Purge(m) PROVE HoldInv'
  BY <1>13, EmptyIsHeld DEF Purge, HoldInv
<1>14. ASSUME NEW m \in Maintainers, EndMaintenance(m) PROVE HoldInv'
  BY <1>14 DEF EndMaintenance, HoldInv
<1>15. CASE Tick
  BY <1>15 DEF Tick, HoldInv
<1>16. CASE UNCHANGED vars
  BY <1>16 DEF vars, HoldInv
<1> QED
  BY <1>1, <1>2, <1>3, <1>4, <1>5, <1>6, <1>7, <1>8, <1>9, <1>10, <1>11, <1>12, <1>13, <1>14, <1>15, <1>16
     DEF Next, HelperStep

\* No poll asks a provider before the Retry-After its row was written under.
THEOREM CollectionPollsRespectRetryAfter == Spec => PollsRespectRetryAfter
<1> DEFINE Respected == \A h \in Helpers :
       pc[h] = "loading" /\ mode[h] = "use" =>
         \A p \in collect'[h] \ collect[h] :
           cache[p] # NoRow => cache[p].until <= requestedAt[h]
<1>1. ASSUME TypeOK, HoldInv, [Next]_vars PROVE Respected
  <2> SUFFICES ASSUME NEW h \in Helpers, pc[h] = "loading", mode[h] = "use",
                      NEW p \in collect'[h] \ collect[h], cache[p] # NoRow
               PROVE  cache[p].until <= requestedAt[h]
    OBVIOUS
  <2> USE DEF fileVars, lockVars, planVars, workVars
  <2>1. collect'[h] # collect[h] /\ collect'[h] # {}
    OBVIOUS
  <2>2. \E k \in Helpers : Load(k) \/ Quarantine(k) \/ Finish(k) \/ Die(k)
    BY <1>1, <2>1 DEF Next, HelperStep, Request, Enter, Measure, StartMerge, Publish, BeginApply, Apply,
                      BeginMaintenance, Purge, EndMaintenance, Tick, vars
  <2>3. PICK k \in Helpers : (Load(k) /\ ~corrupt) \/ Quarantine(k)
    BY <1>1, <2>1, <2>2 DEF Load, Finish, Die, Forget, TypeOK
  <2>4. k = h
    BY <1>1, <2>1, <2>3 DEF Load, Quarantine, Begin, TypeOK
  <2>5. Begin(h, cache)
    BY <2>3, <2>4 DEF Load, Quarantine
  <2>6. p \in targets[h] /\ ~IsFresh(cache[p], requestedAt[h])
    BY <1>1, <2>5 DEF Begin, TypeOK
  <2>7. p \in Providers /\ cache[p] \in Row /\ requestedAt[h] \in Nat
    BY <1>1, <2>6 DEF TypeOK, Doc
  <2>8. Held(cache[p])
    BY <1>1, <2>7 DEF HoldInv
  <2> QED
    BY <2>6, <2>7, <2>8 DEF Held, IsFresh, Row
<1>2. Spec => [][Respected]_vars
  <2>1. TypeOK /\ HoldInv /\ [Next]_vars => [Respected]_vars
    BY <1>1
  <2> QED
    BY <2>1, InitTypeOK, NextTypeOK, InitHoldInv, NextHoldInv, PTL DEF Spec
<1> QED
  BY <1>2 DEF PollsRespectRetryAfter

---------------------------------------------------------------------------
(* The last good reading, for one helper at a time.                        *)

OneHelper == \A h, k \in Helpers : h = k

\* What may replace a row that was usable.
Follows(row, prior) ==
  Usable(prior) /\ row # NoRow =>
    /\ row.state \notin {"unreachable", "limited"}
    /\ prior.windows /\ row.state = "ready" => row.windows

\* Why it is kept: what a helper found is still in the cache when it merges.
GoodInv ==
  /\ corrupt => cache = EmptyDoc
  /\ \A h \in Helpers :
       /\ pc[h] \in {"idle", "waiting", "loading", "quarantining"} => result[h] = EmptyDoc
       /\ pc[h] \in {"collecting", "merging"} =>
            \A p \in collect[h] : loaded[h][p] = cache[p] /\ Follows(result[h][p], cache[p])
       /\ pc[h] = "merging" => base[h] = cache

\* A failure that may pass and an answer without windows are retained.
LEMMA EntryFollows ==
  ASSUME NEW reply \in Replies, NEW prior \in Row \cup {NoRow}, NEW retry
  PROVE  Follows(Entry(Retained(Live(reply), prior), retry), prior)
<1> DEFINE live   == Live(reply)
           status == Retained(live, prior)
           row    == Entry(status, retry)
<1>1. row.state = status.state /\ row.windows = status.windows
  BY DEF Entry
<1>2. \/ status = live /\ (Usable(prior) => ~Omits(live, prior) /\ ~Temporary(live))
      \/ status.state = "stale"
  BY DEF Retained, Stale
<1> HIDE DEF live, status, row
<1>3. Follows(row, prior)
  BY <1>1, <1>2 DEF Follows, Omits, Temporary
<1> QED
  BY <1>3 DEF row, status, live

LEMMA BegunIsGood ==
  ASSUME OneHelper, TypeOK, GoodInv, NEW h \in Helpers, NEW doc, Begin(h, doc), cache' = doc,
         pc[h] \in {"loading", "quarantining"}, UNCHANGED <<result, base>>,
         corrupt' => cache' = EmptyDoc
  PROVE  GoodInv'
<1>1. \A k \in Helpers : k = h
  BY DEF OneHelper
<1>2. \A p \in Providers : result'[h][p] = NoRow
  BY DEF GoodInv, EmptyDoc
<1>3. pc'[h] \in {"evaluating", "collecting"}
  <2>1. h \in Processes
    BY DEF Processes
  <2> QED
    BY <2>1 DEF Begin, TypeOK
<1>4. collect'[h] \in SUBSET Providers /\ \A p \in collect'[h] : loaded'[h][p] = doc[p]
  BY DEF Begin, Merged, TypeOK
<1>5. \A p \in collect'[h] : loaded'[h][p] = cache'[p] /\ Follows(result'[h][p], cache'[p])
  BY <1>2, <1>4 DEF Follows
<1> QED
  BY <1>1, <1>3, <1>5 DEF GoodInv, Follows, Usable

LEMMA InitGoodInv == Init => GoodInv
BY DEF Init, GoodInv, Processes

LEMMA NextGoodInv ==
  ASSUME OneHelper
  PROVE  TypeOK /\ GateInv /\ GoodInv /\ [Next]_vars => GoodInv'
<1> SUFFICES ASSUME TypeOK, GateInv, GoodInv, [Next]_vars PROVE GoodInv'
  OBVIOUS
<1> USE DEF fileVars, lockVars, planVars, workVars, OneHelper
<1>0. Helpers \subseteq Processes /\ Writers \subseteq Processes /\ Maintainers \subseteq Processes
  BY DEF Processes
<1>1. ASSUME NEW h \in Helpers, Request(h) PROVE GoodInv'
  BY <1>0, <1>1, CollectionAssumption DEF Request, At, GoodInv, TypeOK
<1>2. ASSUME NEW h \in Helpers, Enter(h) PROVE GoodInv'
  BY <1>0, <1>2, CollectionAssumption DEF Enter, At, GoodInv, TypeOK
<1>3. ASSUME NEW h \in Helpers, Load(h) PROVE GoodInv'
  <2>1. CASE corrupt
    BY <1>0, <1>3, <2>1, CollectionAssumption DEF Load, GoodInv, TypeOK
  <2>2. CASE ~corrupt
    <3>1. Begin(h, cache) /\ pc[h] = "loading" /\ UNCHANGED <<cache, corrupt, result, base>>
      BY <1>3, <2>2 DEF Load
    <3>2. cache' = cache /\ ~corrupt'
      BY <2>2, <3>1
    <3> QED
      BY <3>1, <3>2, BegunIsGood
  <2> QED
    BY <2>1, <2>2
<1>4. ASSUME NEW h \in Helpers, Quarantine(h) PROVE GoodInv'
  <2>1. /\ Begin(h, EmptyDoc) /\ pc[h] = "quarantining" /\ cache' = EmptyDoc
        /\ UNCHANGED <<result, base>> /\ corrupt' = FALSE
    BY <1>4 DEF Quarantine
  <2> QED
    BY <1>0, <2>1, BegunIsGood
<1>5. ASSUME NEW h \in Helpers, NEW p \in Providers, Measure(h, p) PROVE GoodInv'
  <2>0. PICK reply \in Replies : \E retry \in IF reply = "limited" THEN 0..MaxTime ELSE {0} :
          result' = [result EXCEPT ![h][p] = Entry(Retained(Live(reply), loaded[h][p]), retry)]
    BY <1>5 DEF Measure
  <2>1. PICK retry :
          result' = [result EXCEPT ![h][p] = Entry(Retained(Live(reply), loaded[h][p]), retry)]
    BY <2>0
  <2>2. pc[h] = "collecting" /\ loaded[h][p] = cache[p] /\ loaded[h][p] \in Row \cup {NoRow}
    BY <1>5 DEF Measure, GoodInv, TypeOK, Doc
  <2>3. Follows(Entry(Retained(Live(reply), loaded[h][p]), retry), cache[p])
    BY <2>2, EntryFollows
  <2>4. \A q \in Providers : result'[h][q] = result[h][q] \/ (q = p /\ Follows(result'[h][q], cache[q]))
    BY <2>1, <2>3 DEF TypeOK, Doc
  <2>5. UNCHANGED <<cache, corrupt, pc, collect, loaded, base>>
    BY <1>5 DEF Measure
  <2>6. \A k \in Helpers : k = h
    OBVIOUS
  <2>7. \A q \in collect[h] :
          q \in Providers /\ loaded[h][q] = cache[q] /\ Follows(result[h][q], cache[q])
    BY <2>2 DEF GoodInv, TypeOK
  <2>8. \A q \in collect[h] : Follows(result'[h][q], cache[q])
    BY <2>4, <2>7
  <2>9. \A q \in collect'[h] : loaded'[h][q] = cache'[q] /\ Follows(result'[h][q], cache'[q])
    BY <2>5, <2>7, <2>8
  <2> QED
    BY <2>2, <2>5, <2>6, <2>9 DEF GoodInv, Follows, Usable
<1>6. ASSUME NEW h \in Helpers, StartMerge(h) PROVE GoodInv'
  BY <1>0, <1>6, CollectionAssumption DEF StartMerge, At, GoodInv, TypeOK
<1>7. ASSUME NEW h \in Helpers, Publish(h) PROVE GoodInv'
  BY <1>0, <1>7, CollectionAssumption DEF Publish, At, GoodInv, TypeOK
<1>8. ASSUME NEW h \in Helpers, Finish(h) PROVE GoodInv'
  BY <1>0, <1>8, CollectionAssumption DEF Finish, At, Forget, GoodInv, TypeOK
<1>9. ASSUME NEW h \in Helpers, Die(h) PROVE GoodInv'
  BY <1>0, <1>9, CollectionAssumption DEF Die, Forget, GoodInv, TypeOK
<1>10. ASSUME NEW w \in Writers, BeginApply(w) PROVE GoodInv'
  BY <1>0, <1>10, CollectionAssumption DEF BeginApply, At, GoodInv, TypeOK
<1>11. ASSUME NEW w \in Writers, Apply(w) PROVE GoodInv'
  BY <1>0, <1>11, CollectionAssumption DEF Apply, At, GoodInv, TypeOK
<1>12. ASSUME NEW m \in Maintainers, BeginMaintenance(m) PROVE GoodInv'
  BY <1>0, <1>12, CollectionAssumption DEF BeginMaintenance, At, GoodInv, TypeOK
<1>13. ASSUME NEW m \in Maintainers, Purge(m) PROVE GoodInv'
  <2>1. \A h \in Helpers : pc[h] \notin {"collecting", "merging"}
    BY <1>0, <1>13, CollectionAssumption DEF Purge, GateInv, GateExcludes
  <2> QED
    BY <1>0, <1>13, <2>1 DEF Purge, GoodInv, TypeOK
<1>14. ASSUME NEW m \in Maintainers, EndMaintenance(m) PROVE GoodInv'
  BY <1>0, <1>14, CollectionAssumption DEF EndMaintenance, At, GoodInv, TypeOK
<1>15. CASE Tick
  BY <1>0, <1>15 DEF Tick, GoodInv
<1>16. CASE UNCHANGED vars
  BY <1>0, <1>16 DEF vars, GoodInv
<1> QED
  BY <1>1, <1>2, <1>3, <1>4, <1>5, <1>6, <1>7, <1>8, <1>9, <1>10, <1>11, <1>12, <1>13, <1>14, <1>15, <1>16
     DEF Next, HelperStep

\* While one helper collects at a time, no failure that may pass and no answer
\* without windows replaces a usable reading, also after a corrupt document.
THEOREM CollectionLastGoodIsKept ==
  ASSUME OneHelper
  PROVE  Spec => LastGoodIsKept
<1> DEFINE Kept == \A p \in Providers :
       Usable(cache[p]) /\ cache'[p] # NoRow =>
         /\ cache'[p].state \notin {"unreachable", "limited"}
         /\ cache[p].windows /\ cache'[p].state = "ready" => cache'[p].windows
<1>1. ASSUME TypeOK, GateInv, GoodInv, [Next]_vars, NEW p \in Providers
      PROVE  Follows(cache'[p], cache[p])
  <2> USE DEF fileVars, lockVars, planVars, workVars
  <2>1. CASE cache' = cache
    BY <2>1 DEF Follows, Usable
  <2>2. CASE cache' # cache
    <3>1. \/ \E h \in Helpers : Quarantine(h) \/ Publish(h)
          \/ \E m \in Maintainers : Purge(m)
      BY <1>1, <2>2 DEF Next, HelperStep, Request, Enter, Load, Measure, StartMerge, Finish, Die,
                  BeginApply, Apply, BeginMaintenance, EndMaintenance, Tick, vars
    <3>2. CASE cache' = EmptyDoc
      BY <3>2 DEF Follows, EmptyDoc
    <3>3. ASSUME NEW h \in Helpers, Publish(h) PROVE Follows(cache'[p], cache[p])
      <4>1. pc[h] = "merging" /\ cache' = Merged(cache, result[h], collect[h])
        BY <1>1, <3>3 DEF Publish, At, GoodInv
      <4>2. cache'[p] = IF p \in collect[h] THEN result[h][p] ELSE cache[p]
        BY <4>1 DEF Merged
      <4>3. p \in collect[h] => Follows(result[h][p], cache[p])
        BY <1>1, <4>1 DEF GoodInv
      <4>4. Follows(cache[p], cache[p])
        BY DEF Follows, Usable
      <4> QED
        BY <4>2, <4>3, <4>4
    <3> QED
      BY <3>1, <3>2, <3>3 DEF Quarantine, Purge
  <2> QED
    BY <2>1, <2>2
<1>2. TypeOK /\ GateInv /\ GoodInv /\ [Next]_vars => [Kept]_vars
  BY <1>1 DEF Follows
<1>3. Spec => [][Kept]_vars
  <2> HIDE DEF Kept
  <2> QED
    BY <1>2, GateInvHolds, InitGoodInv, NextGoodInv, PTL DEF Spec
<1> QED
  BY <1>3 DEF LastGoodIsKept
============================================================================
