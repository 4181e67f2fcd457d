------------------------- MODULE StatusCollection -------------------------
(***************************************************************************)
(* status/coordinator.rs and cache/: helper processes that answer a status *)
(* request from the shared cache or collect it live, and merge what they   *)
(* collected, under the maintenance gate; with the settings writers and    *)
(* the maintenance processes that share the gate.  Every helper is its own *)
(* process, so the in-process CacheCoordinator never accepts for another,  *)
(* and the document's revision is written and never read: both left out.   *)
(***************************************************************************)
EXTENDS MaintenanceGate, Naturals, FiniteSets

CONSTANTS
  Providers,
  Helpers,      \* `status' processes
  Writers,      \* `config apply' processes
  Maintainers,  \* update units and uninstalls
  NoRow,        \* a provider the document says nothing of
  Modes,        \* bound: the cache modes used, out of "use" and "bypass"
  Replies,      \* bound: what a provider may reply
  Ttl,          \* the catalog's cache_ttl
  MaxHold,      \* MAX_RETRY_HOLD
  MayBeCorrupt, \* bound: whether the first document may be unreadable
  MaxTime,      \* bound on the clock
  MaxRuns       \* bound on the runs of each process

Processes == Helpers \cup Writers \cup Maintainers

\* A reply is a reading with usage windows or without ("empty"), a 429, or a
\* failure: "unreachable" for those that may pass (network errors, and errors
\* marked retryable), "denied" for those that do not.
AllReplies == {"windows", "empty", "limited", "unreachable", "denied"}

States == {"ready", "stale", "limited", "unreachable", "denied"}

ASSUME CollectionAssumption ==
  /\ Nobody \notin Processes
  /\ Helpers \cap Writers = {} /\ Helpers \cap Maintainers = {} /\ Writers \cap Maintainers = {}
  /\ Modes \subseteq {"use", "bypass"} /\ Replies \subseteq AllReplies
  /\ Ttl \in Nat /\ MaxHold \in Nat /\ MaxTime \in Nat \ {0} /\ MaxRuns \in Nat
  /\ MayBeCorrupt \in BOOLEAN

\* A row of the document.  `success' is lastSuccessAt and zero when there is
\* none; `until' is history: the Retry-After instant the row was written under.
Row == [state: States, success: Nat, windows: BOOLEAN, expires: Nat, until: Nat]

ASSUME RowAssumption == NoRow \notin Row

Doc == [Providers -> Row \cup {NoRow}]

EmptyDoc == [p \in Providers |-> NoRow]

VARIABLES
  now,
  cache,       \* the document on disk
  corrupt,     \* the file does not parse, and `cache' is what it counts for
  statusLock,  \* who holds status.lock
  enabled,     \* the enabled providers of the settings file
  pc, mode, targets, requestedAt,
  collect,     \* the targets a helper collects live
  loaded,      \* the rows it found for them
  result,      \* the rows it made of the replies
  base,        \* the document it merges into
  runs,        \* runs so far of each process
  readings     \* history: when each provider replied with windows

fileVars == <<cache, corrupt, enabled>>
lockVars == <<shared, exclusive, statusLock>>
planVars == <<mode, targets, requestedAt>>
workVars == <<collect, loaded, result, base>>
vars == <<now, fileVars, lockVars, pc, planVars, workVars, runs, readings>>

Init ==
  /\ GateInit
  /\ now = 1
  /\ cache = EmptyDoc
  /\ corrupt \in {FALSE, MayBeCorrupt}
  /\ statusLock = Nobody
  /\ enabled = Providers
  /\ pc = [q \in Processes |-> "idle"]
  /\ mode = [h \in Helpers |-> "use"]
  /\ targets = [h \in Helpers |-> {}]
  /\ requestedAt = [h \in Helpers |-> 0]
  /\ collect = [h \in Helpers |-> {}]
  /\ loaded = [h \in Helpers |-> EmptyDoc]
  /\ result = [h \in Helpers |-> EmptyDoc]
  /\ base = [h \in Helpers |-> EmptyDoc]
  /\ runs = [q \in Processes |-> 0]
  /\ readings = [p \in Providers |-> {}]

---------------------------------------------------------------------------
(* Rows.                                                                   *)

Usable(row) == row # NoRow /\ row.state \in {"ready", "stale"}

\* Failures are written but never served, except a 429 the provider dated.
IsFresh(row, at) ==
  row # NoRow /\ at < row.expires /\ row.state \in {"ready", "stale", "limited"}

Live(reply) ==
  LET answered == reply \in {"windows", "empty"}
  IN  [state   |-> IF answered THEN "ready" ELSE reply,
       success |-> IF answered THEN now ELSE 0,
       windows |-> reply = "windows"]

Stale(prior) == [state |-> "stale", success |-> prior.success, windows |-> prior.windows]

Omits(live, prior) == live.state = "ready" /\ ~live.windows /\ prior.windows

Temporary(live) == live.state \in {"unreachable", "limited"}

Retained_OnlyReady(live, prior) ==
  IF Usable(prior) /\ prior.state = "ready" /\ (Omits(live, prior) \/ Temporary(live))
  THEN Stale(prior) ELSE live
Retained_AsOfNow(live, prior) ==
  IF Usable(prior) /\ (Omits(live, prior) \/ Temporary(live))
  THEN [Stale(prior) EXCEPT !.success = now] ELSE live
\* apply_stale_retention()
Retained(live, prior) ==
  IF Usable(prior) /\ (Omits(live, prior) \/ Temporary(live)) THEN Stale(prior) ELSE live

Earlier(a, b) == IF a < b THEN a ELSE b
Later(a, b) == IF a < b THEN b ELSE a

\* hold_expiry(): `hold' is the capped Retry-After instant, or zero.
Hold(retry) == IF retry = 0 THEN 0 ELSE Earlier(retry, now + MaxHold)

HoldExpiry_OnlyLimitedRows(status, retry) ==
  IF status.state # "limited" THEN now + Ttl ELSE IF retry = 0 THEN now ELSE Hold(retry)
HoldExpiry(status, retry) ==
  IF status.state # "limited" THEN Later(now + Ttl, Hold(retry))
  ELSE IF retry = 0 THEN now ELSE Hold(retry)

Entry_Undated(status, retry) ==
  [state |-> status.state, success |-> status.success, windows |-> status.windows]
Entry(status, retry) ==
  [state |-> status.state, success |-> status.success, windows |-> status.windows,
   expires |-> HoldExpiry(status, retry), until |-> Hold(retry)]

Merged(doc, rows, ids) == [p \in Providers |-> IF p \in ids THEN rows[p] ELSE doc[p]]

---------------------------------------------------------------------------
(* A collection.                                                           *)

At(q, from, to) == pc[q] = from /\ pc' = [pc EXCEPT ![q] = to]

\* collect(): the request and the settings are taken before the gate.
Request(h) ==
  /\ At(h, "idle", "waiting")
  /\ runs[h] < MaxRuns
  /\ runs' = [runs EXCEPT ![h] = @ + 1]
  /\ requestedAt' = [requestedAt EXCEPT ![h] = now]
  /\ \E m \in Modes : mode' = [mode EXCEPT ![h] = m]
  /\ \E ids \in {enabled} \cup {{p} : p \in Providers} : targets' = [targets EXCEPT ![h] = ids]
  /\ UNCHANGED <<now, fileVars, lockVars, workVars, readings>>

Enter_DuringMaintenance(h) ==
  /\ At(h, "waiting", "loading")
  /\ shared' = shared \cup {h}
  /\ UNCHANGED <<now, fileVars, exclusive, statusLock, planVars, workVars, runs, readings>>
Enter(h) ==
  /\ At(h, "waiting", "loading")
  /\ LockShared(h)
  /\ UNCHANGED <<now, fileVars, statusLock, planVars, workVars, runs, readings>>

\* What is left to collect once the document has been read.
Begin(h, doc) ==
  LET served == IF mode[h] = "use" THEN {p \in targets[h] : IsFresh(doc[p], requestedAt[h])} ELSE {}
      ids    == targets[h] \ served
  IN /\ collect' = [collect EXCEPT ![h] = ids]
     /\ loaded' = [loaded EXCEPT ![h] = Merged(EmptyDoc, doc, ids)]
     /\ pc' = [pc EXCEPT ![h] = IF ids = {} THEN "evaluating" ELSE "collecting"]

\* CacheStore::load(), which the first reader does outside status.lock.
Load(h) ==
  /\ pc[h] = "loading"
  /\ IF corrupt
     THEN pc' = [pc EXCEPT ![h] = "quarantining"] /\ UNCHANGED <<collect, loaded>>
     ELSE Begin(h, cache)
  /\ UNCHANGED <<now, fileVars, lockVars, planVars, result, base, runs, readings>>

\* quarantine(): removes the file that is there now.
Quarantine(h) ==
  /\ pc[h] = "quarantining"
  /\ cache' = EmptyDoc
  /\ corrupt' = FALSE
  /\ Begin(h, EmptyDoc)
  /\ UNCHANGED <<now, enabled, lockVars, planVars, result, base, runs, readings>>

\* collect_one(): the providers are asked concurrently.
Measure(h, p) ==
  /\ pc[h] = "collecting"
  /\ p \in collect[h] /\ result[h][p] = NoRow
  /\ \E reply \in Replies :
     \E retry \in IF reply = "limited" THEN 0..MaxTime ELSE {0} :
       /\ result' = [result EXCEPT ![h][p] = Entry(Retained(Live(reply), loaded[h][p]), retry)]
       /\ readings' = IF reply = "windows" THEN [readings EXCEPT ![p] = @ \cup {now}] ELSE readings
  /\ UNCHANGED <<now, fileVars, lockVars, pc, planVars, collect, loaded, base, runs>>

\* merge_providers(): under status.lock, from the document as it is by then.
StartMerge_Unlocked(h) ==
  /\ At(h, "collecting", "merging")
  /\ \A p \in collect[h] : result[h][p] # NoRow
  /\ OpenToSharers
  /\ base' = [base EXCEPT ![h] = IF corrupt THEN EmptyDoc ELSE cache]
  /\ UNCHANGED <<now, fileVars, lockVars, planVars, collect, loaded, result, runs, readings>>
StartMerge(h) ==
  /\ At(h, "collecting", "merging")
  /\ \A p \in collect[h] : result[h][p] # NoRow
  /\ OpenToSharers
  /\ statusLock = Nobody
  /\ statusLock' = h
  /\ base' = [base EXCEPT ![h] = IF corrupt THEN EmptyDoc ELSE cache]
  /\ corrupt' = FALSE
  /\ UNCHANGED <<now, cache, enabled, shared, exclusive, planVars, collect, loaded, result,
                 runs, readings>>

Publish_KeepsTheLock(h) ==
  /\ At(h, "merging", "evaluating")
  /\ cache' = Merged(base[h], result[h], collect[h])
  /\ corrupt' = FALSE
  /\ UNCHANGED <<now, enabled, lockVars, planVars, workVars, runs, readings>>
Publish(h) ==
  /\ At(h, "merging", "evaluating")
  /\ cache' = Merged(base[h], result[h], collect[h])
  /\ corrupt' = FALSE
  /\ statusLock' = Nobody
  /\ UNCHANGED <<now, enabled, shared, exclusive, planVars, workVars, runs, readings>>

Forget(h) ==
  /\ mode' = [mode EXCEPT ![h] = "use"]
  /\ targets' = [targets EXCEPT ![h] = {}]
  /\ requestedAt' = [requestedAt EXCEPT ![h] = 0]
  /\ collect' = [collect EXCEPT ![h] = {}]
  /\ loaded' = [loaded EXCEPT ![h] = EmptyDoc]
  /\ result' = [result EXCEPT ![h] = EmptyDoc]
  /\ base' = [base EXCEPT ![h] = EmptyDoc]

\* Notifications are evaluated under the gate, then the helper exits.
Finish(h) ==
  /\ At(h, "evaluating", "idle")
  /\ Unlock(h)
  /\ Forget(h)
  /\ UNCHANGED <<now, fileVars, statusLock, runs, readings>>

\* The Service's deadline terminates a helper anywhere.
Die(h) ==
  /\ pc[h] # "idle"
  /\ pc' = [pc EXCEPT ![h] = "idle"]
  /\ Unlock(h)
  /\ statusLock' = IF statusLock = h THEN Nobody ELSE statusLock
  /\ Forget(h)
  /\ UNCHANGED <<now, fileVars, runs, readings>>

---------------------------------------------------------------------------
(* The processes that share the gate.                                      *)

BeginApply_WithoutTheGate(w) ==
  /\ At(w, "idle", "applying")
  /\ runs[w] < MaxRuns
  /\ runs' = [runs EXCEPT ![w] = @ + 1]
  /\ UNCHANGED <<now, fileVars, lockVars, planVars, workVars, readings>>
\* SettingsStore::apply()
BeginApply(w) ==
  /\ At(w, "idle", "applying")
  /\ runs[w] < MaxRuns
  /\ runs' = [runs EXCEPT ![w] = @ + 1]
  /\ LockShared(w)
  /\ UNCHANGED <<now, fileVars, statusLock, planVars, workVars, readings>>

Apply(w) ==
  /\ At(w, "applying", "idle")
  /\ \E ids \in SUBSET Providers : enabled' = ids
  /\ Unlock(w)
  /\ UNCHANGED <<now, cache, corrupt, statusLock, planVars, workVars, runs, readings>>

\* wait_for_exclusive() and dispatch_uninstall()
BeginMaintenance(m) ==
  /\ At(m, "idle", "maintaining")
  /\ runs[m] < MaxRuns
  /\ runs' = [runs EXCEPT ![m] = @ + 1]
  /\ LockExclusive(m)
  /\ UNCHANGED <<now, fileVars, statusLock, planVars, workVars, readings>>

\* An uninstall that purges removes the cache and the settings.
Purge(m) ==
  /\ pc[m] = "maintaining"
  /\ cache' = EmptyDoc
  /\ corrupt' = FALSE
  /\ enabled' = Providers
  /\ UNCHANGED <<now, lockVars, pc, planVars, workVars, runs, readings>>

EndMaintenance(m) ==
  /\ At(m, "maintaining", "idle")
  /\ Unlock(m)
  /\ UNCHANGED <<now, fileVars, statusLock, planVars, workVars, runs, readings>>

Tick ==
  /\ now < MaxTime
  /\ now' = now + 1
  /\ UNCHANGED <<fileVars, lockVars, pc, planVars, workVars, runs, readings>>

HelperStep(h) ==
  \/ Enter(h)
  \/ Load(h)
  \/ Quarantine(h)
  \/ \E p \in Providers : Measure(h, p)
  \/ StartMerge(h)
  \/ Publish(h)
  \/ Finish(h)

Next ==
  \/ \E h \in Helpers : Request(h) \/ HelperStep(h) \/ Die(h)
  \/ \E w \in Writers : BeginApply(w) \/ Apply(w)
  \/ \E m \in Maintainers : BeginMaintenance(m) \/ Purge(m) \/ EndMaintenance(m)
  \/ Tick

Spec == Init /\ [][Next]_vars

\* Every process runs on: network calls time out, locks are advisory and are
\* granted to whoever can have them.
FairSpec ==
  /\ Spec
  /\ \A h \in Helpers : WF_vars(HelperStep(h))
  /\ \A w \in Writers : WF_vars(Apply(w))
  /\ \A m \in Maintainers : WF_vars(EndMaintenance(m))

---------------------------------------------------------------------------
TypeOK ==
  /\ GateTypeOK(Processes)
  /\ now \in Nat
  /\ cache \in Doc
  /\ corrupt \in BOOLEAN
  /\ statusLock \in Helpers \cup {Nobody}
  /\ enabled \in SUBSET Providers
  /\ pc \in [Processes -> {"idle", "waiting", "loading", "quarantining", "collecting", "merging",
                           "evaluating", "applying", "maintaining"}]
  /\ mode \in [Helpers -> {"use", "bypass"}]
  /\ targets \in [Helpers -> SUBSET Providers]
  /\ requestedAt \in [Helpers -> Nat]
  /\ collect \in [Helpers -> SUBSET Providers]
  /\ loaded \in [Helpers -> Doc]
  /\ result \in [Helpers -> Doc]
  /\ base \in [Helpers -> Doc]
  /\ runs \in [Processes -> Nat]
  /\ readings \in [Providers -> SUBSET Nat]

\* While an update or an uninstall holds the gate, every other process is idle
\* or waits at it: also one that was killed between two locks, or that waits
\* for status.lock (ARCH-026).
MaintenanceRunsAlone ==
  exclusive # Nobody => \A q \in Processes \ {exclusive} : pc[q] \in {"idle", "waiting"}

\* While an update or an uninstall holds the gate, the cache and the settings
\* change by its own hand only (CACHE-019B): no collection that was waiting,
\* measuring or merging when it began writes under it.
MaintenanceWritesAlone ==
  [][exclusive # Nobody =>
       (cache' # cache \/ enabled' # enabled => \E m \in Maintainers : Purge(m))]_vars

\* A merge touches the rows it collected and no others, also when another
\* helper published since it read the document (CACHE-013, CACHE-025).
SiblingsAreKept ==
  [][\A p \in Providers :
       cache'[p] # cache[p] =>
         \/ \E h \in Helpers : pc[h] = "merging" /\ p \in collect[h] /\ cache'[p] = result[h][p]
         \/ \E m \in Maintainers : Purge(m)]_vars

\* A temporary failure, a 429 or an answer without windows never replaces a
\* usable reading (CACHE-022).
LastGoodIsKept ==
  [][\A p \in Providers :
       Usable(cache[p]) /\ cache'[p] # NoRow =>
         /\ cache'[p].state \notin {"unreachable", "limited"}
         /\ cache[p].windows /\ cache'[p].state = "ready" => cache'[p].windows]_vars

\* Windows shown with a date were read from the provider on that date,
\* however often the row was retained since (CACHE-024).
ReadingsAreDated ==
  \A p \in Providers :
    Usable(cache[p]) /\ cache[p].windows => cache[p].success \in readings[p]

\* A poll never asks a provider before the Retry-After its row was written
\* under, whether the row shows the 429 or an older reading (CACHE-026).
PollsRespectRetryAfter ==
  [][\A h \in Helpers :
       pc[h] = "loading" /\ mode[h] = "use" =>
         \A p \in collect'[h] \ collect[h] :
           cache[p] # NoRow => cache[p].until <= requestedAt[h]]_vars

\* What quarantine() moves aside is corrupt (CACHE-018), not what another
\* helper has rebuilt since this one read the file.
OnlyCorruptCacheIsMovedAside ==
  [][\A h \in Helpers :
       pc[h] = "quarantining" /\ pc'[h] \in {"collecting", "evaluating"} =>
         corrupt \/ cache = EmptyDoc]_vars

\* A collection that began ends, whatever it waits for.
RequestsEnd == \A h \in Helpers : pc[h] # "idle" ~> pc[h] = "idle"

\* Two helpers do not ask the same provider at once: the second rechecks the
\* generation the first was publishing (CACHE-009, CACHE-013).
OneCollectionAtATime ==
  \A h, k \in Helpers :
    h # k /\ pc[h] = "collecting" /\ pc[k] = "collecting" => collect[h] \cap collect[k] = {}
===========================================================================
