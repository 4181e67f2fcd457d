# Agent Bar in TLA+

Agent Bar shows the usage of AI coding plans in the Omarchy bar. It has two
halves: a Quickshell plugin (QML and JavaScript), one object per shell, that
draws and asks; and a helper executable (Rust), one short-lived process per
question, that reads caches, calls the providers and writes files. This
directory models what happens between them and between the helper's processes:
the parts where the order of events matters.

## The system

| Part | Source | State | Operations |
| --- | --- | --- | --- |
| Helper lane | `components/HelperLane.qml` | `outstanding`, `process.running`, `runId`, `startedRunId`, the context of the run, the stall mark | `start`, `finish` (an exit), `expire` (the deadline), `settle`, `clearStall` |
| Service | `Service.qml`, `CoreService.js`, `CoreSettings.js`, `CoreMaintenance.js` | nine lanes, the refresh queue, the reset dialog, the settings dialog, the update and uninstall screens, timers | the handlers of lanes, timers and user calls |
| Views | `BarWidget.qml`, `Popup.qml`, `SettingsView.qml`, `MaintenanceView.qml`, `components/` | layout and focus | calls into the Service |
| View functions | `CoreView.js`, `CoreScroll.js` | none | formatting, ordering, geometry |
| Command line | `src/cli/` | none | the grammar, one process per command, exit codes |
| Status collection | `src/status/coordinator.rs`, `collect.rs` | per process: targets, loaded rows, results | `collect` |
| Status document | `src/status/schema.rs`, `human.rs` | none | validation, cache-hit and stale conversions |
| Cache | `src/cache/` | `status-v2.json`, `status.lock` | `load`, `merge_providers`, `quarantine` |
| Maintenance gate | `src/support/maintenance_gate.rs` | a flock | shared and exclusive, blocking and not |
| Settings file | `src/settings/` | the settings file | `show`, `apply`; the document's rules and those for files of earlier releases |
| Atomic replacement | `src/support/atomic_file.rs` | a temporary file, the directory | create, write, sync, mode, rename, sync of the directory |
| Notifications | `src/notifications/` | the levels already announced | `evaluate` |
| Update runs | `src/plugin/update_state.rs`, `update_apply.rs` | `update-running.json`, `update-result.json`, the installed tree | `begin`, `run_update`, `finish`, `read_status` |
| Update check | `src/plugin/maintenance.rs` | none | reads two manifests |
| Uninstall | `src/cli/mod.rs` | removes the directories of the others | `dispatch_uninstall` |
| Providers | `src/providers/` | credential files that the providers' own programs write | `collect` of each adapter, the single retry, the mapping of each document |
| Reset claim | `src/providers/reset.rs` | none; the provider's resets | read the usage, send one claim, report |
| Codex app-server client | `src/providers/codex_app_server.rs` | one exchange | three requests, a deadline and a grace timer |
| Process runner | `src/providers/process.rs` | one child | run, deadline, kill |
| Bundle | `src/plugin/bundle.rs`, `src/bin/` | none | release-time validation |

How they interact. The Service starts a helper through a lane; the lane answers
exactly once with the helper's exit or with its own deadline, inside the
Service's single thread, and the answer's handler may start more helpers. A
deadline only asks the process to stop: until it has exited the lane stays
closed. The helpers of one shell run next to each other (status, settings,
update, reset lanes) and next to those typed in a terminal and to the systemd
unit of an update; they meet only in files: the cache under `status.lock`, the
settings file by atomic replacement, the two update files by rename and hard
link, everything under the maintenance gate.

What is hard: a late exit taken for the answer of a newer run; requests queued
behind a run, behind a killed helper or behind the uninstall hand-off; dialogs
whose premise changes while they are open; a read-merge-write over a file with
network calls in between; files moved by processes that may be killed between
any two operations; clocks read early and used late; answers that are late,
lost, repeated under one name or legible only in part; deadlines inside
deadlines; a lock file in a directory that is itself removed.

What makes each part correct:

- lane: every accepted run is reported once, in order, by its own process or by
  the deadline, and never waits for ever;
- Service: no queued refresh is lost or left waiting for the next poll, a claim
  shown as running is running, the applied settings are those in the file, edits
  survive a failed save, the hand-off runs alone and ends, the update screen ends;
- collection and cache: maintenance is alone, a merge touches its own rows only,
  a reading keeps its date, a `Retry-After` is respected, no request waits for ever;
- update runs: an outcome is that of its own run, a result is reported once, a
  started run is reported;
- notifications: inside a window alerts only rise, and no crossing stays silent;
- providers: what a document says is shown, rows are valid whatever it says, a
  failure is retained exactly when its cause passes by itself, a token is not
  used after it expires, and everything fits the deadline of the lane;
- reset claim: at most one reset is spent, the one that was named, and no report
  claims more of the account than is known;
- settings: what was reported as saved survives kills and losses of power, and
  files of earlier releases stay readable;
- command line: the helper takes the plugin's argument lists for what the plugin
  meant, and removes data only on a confirmation of exactly that;
- update check: what is offered is newer and can be installed.

## Modules

| Module | Models | Lines of state to code |
| --- | --- | --- |
| `LanePhase` | `busy` and `ready` of a lane as four phases | `PhaseOf(outstanding, running)` |
| `LaneContract` | what a lane promises (abstract specification) | |
| `HelperLane` | the lane itself, with the processes behind it | variables carry the QML names; `accepted` and `outcomes` are histories |
| `HelperLane_proofs` | its theorems | |
| `CoreService`, `CoreSettings`, `CoreMaintenance` | the state functions of the three JavaScript libraries, as operators | one operator per function |
| `Service` | the Service over nine lanes, composed from `LanePhase` and the three above | one action per handler with every call it makes: a lane's settlement is one action `...Settles` |
| `Service_proofs` | its theorems | |
| `MaintenanceGate` | the gate, instantiated by extension in the two below | `shared`, `exclusive` |
| `StatusCollection` | `collect` of several processes over the cache, with settings writers and maintenance | `pc` follows the code between two operations another process can see |
| `StatusCollection_proofs` | its theorems | |
| `UpdateState` | launchers, units and status readers over the two update files | one file operation per action |
| `UpdateState_proofs` | its theorems | |
| `Notifications` | `evaluate` after a collection, over the saved levels | `pc` follows load, first save, dispatch and save of each announcement |
| `Notifications_proofs` | its theorems | |
| `StatusSchema` | rows, windows and resets, their validation, and the row made of a result | operators named after the constructors |
| `UsageMaps` | each provider's document to windows, resets and a result | operators, extends `StatusSchema` |
| `ProviderAccess` | discovery, child processes, requests, the retry, credential files | operators, extends `UsageMaps` |
| `AppServer` | the exchange with Codex's app-server | one action per answer and timer, extends `UsageMaps` |
| `ProviderCollection` | one live collection of one provider, composed from `ProviderAccess` and `AppServer` | one action per await of an adapter |
| `ProviderCollection_proofs` | its theorems, and that of `AppServer` | |
| `ResetClaim` | a reset claim against a provider with other clients | one action per await of `claim_claude_reset` |
| `ResetClaim_proofs` | its theorems | |
| `CommandLine` | the grammar and the plugin's argument lists | operators on sequences of words |
| `SettingsDocument` | which bytes are settings | operators, extends `CommandLine` |
| `UpdateCheck` | the receipt, the check's document and the dialog's phase | operators |
| `HelperCommands` | processes of `config show`, `config apply`, `uninstall` and `update check` over the settings file and the gate's lock file | one action per file operation |
| `HelperCommands_proofs` | its theorems | |
| `MCProviders`, `MCReset`, `MCCommands` | the inputs of the last three state machines for TLC | |

Reading `Service`. It is single threaded, so a handler is one step even when it
calls others: `Detached`, `KickStatus` and `FollowUpStatus` are operators over
the lanes "as the calls so far leave them". Each lane is one phase and a stall mark.
`LaneStep` says what one handler may make of them, and it is proved of both sides:
every transition of `HelperLane`, which implements `LaneContract`, is one, and every
step of the Service makes one of each of its lanes. Time is left out: the deadline may win
whenever a lane is listed in `SlowLanes`, a helper may be lost without an exit
when listed in `LossyLanes`, and timers fire whenever they run. Documents are
model values, an invalid document or envelope is one outcome, and
`seen`/`written`/`file` model when the helper of a settings lane reaches the
file, which need not be in the order of the answers. `SyncVersion` is what a
version or a manifest that becomes known does to the About tab.

Reading `StatusCollection`. A helper reads the settings, waits for the gate,
loads the cache (`pc` "loaded"), polls each provider it must, turns replies into
rows with the rows *loaded before the polls* as priors, and merges them under
`status.lock` over a fresh load. The document is a function from providers to
rows; a row keeps its state, whether it has windows, the instant of its reading
and its expiry, plus the `Retry-After` it was written under as history. A poll's
reply is chosen among those the adapters can produce. Any process may be killed
at any step; the kernel then releases its locks.

Reading `UpdateState`. A run is one process: the launcher until its unit starts,
the unit from then on, under one `txid`, which is also the marker. `Take` and
`Return` are the two halves of `remove_if_unchanged`, used by launchers, units
and readers alike; `Link`, `Inspect` and `Check` are the attempts of
`link_marker`; `Claim` and `Look` are `read_status`. The installed tree is a
counter of its versions, beside whether its `bundle.json` can be read: an update
shows only between two versions that can (`MovedFrom`), and a run whose tree
cannot be read at its start ends without one. `told` counts the reports of each result and `deemed`
those of each abandoned marker, and `lost` holds the runs whose marker or result
made room for another's or went with a killed process; all three are histories.

Reading `Notifications`. Each window has a real end beside what is reported of
it, so that an alert can be judged by the window it was about: resets are
reported up to `Jitter` apart, readings may come from the cache after their end,
a window may end early (a claimed reset), vanish or drop below the thresholds.
A percentage is its level. `heard` is a history of what was announced and not
rearmed since; an announcement whose process dies before recording it is taken
out of it, because the code promises at least one notification there, not exactly one.

Reading `ProviderCollection`. Time is in milliseconds and passes only where the
code awaits something. A child, a request or an exchange is a record of when it
ends, what it says and how it breaks; `RunProcess` and `HttpSend` say what the
code sees of it, and how long it waited for that, also for a child whose pipes
break. Names are split into the part that survives sanitizing and the
part that does not, so two names can collide. A document is a record of the
fields the code reads, absent ones `NULL`; percentages are whole numbers, and
numeric and date syntax is left out. `result`, `requests` and `causes` are
histories: what the adapter returned, which tokens left when, and what stood in
the way.

Reading `ResetClaim`. The provider keeps `left` resets of each grant and one
weekly reset; other clients spend them at any time. The claim in flight is
handled or lost in any order with the helper's deadline and its death, and an
answer that does not name the result, an error status among them, may come
whatever has become of the claim. `report` is what the popup takes the end for:
a killed helper leaves `unconfirmed`. `refused` is a history: the claim was
answered with an error status.

Reading `HelperCommands`. The file has a rank that grows with every change, and
`onDisk` holds the files a loss of power may leave: a rename adds one, the sync
of the directory leaves only the current one. Syncing a directory is taken to
make its entries durable and the directory's own entry too. A lock file is an
inode: a purge removes the name, helpers that opened it before keep the old one,
and the next opens another. Commands that are modelled elsewhere end at once
with one of their exit codes.

## What the runs check

| Run | What it shows | Bounds |
| --- | --- | --- |
| `HelperLane` | The properties of a lane, among them that it implements `LaneContract`, with exits, losses and deadlines in any order | two contexts and a few runs: a run, the corpse of the previous one and a new run already give every pairing of exit and run |
| `ServiceRequests` | Queued refreshes reach a run; the reset dialog, the claim and the refresh after it stay consistent | two providers (a queue can hold none, one, the other, both, all); status and reset helpers may outlive their deadlines; a reset helper that answers says that it read the result, one that times out nothing; the update poll at the start stays out, which nothing here waits for |
| `ServiceSettings` | The dialog shows and keeps what it must although reads and writes reach the file in any order; loading and saving end, unless the dialog reopens over a dying read helper | two documents, three generations: one read or save under way, one abandoned, one new; all three settings helpers may outlive their deadlines |
| `ServiceMaintenance` | The uninstall hand-off drains, runs alone and ends, unless the next one is ready while its terminated helper lives; the armed dialog means what it said; the update screen and the watch over it end, also next to an uninstall | every kind of answer of `update apply` and `update status`; a check that offers an update or fails; a slow update helper and a slow hand-off helper |
| `StatusMerge` | Nothing writes during maintenance, merges keep the siblings, requests end | two helpers, two providers, one settings writer, one maintenance process, all mortal |
| `StatusRetention` | Readings keep their dates, the last good reading is kept, `Retry-After` is respected, also after a corrupt document | one helper, four requests over five instants: a reading, its expiry, a hold, a retention of a retention |
| `Updates` | A result says `updated` exactly when its run moved the tree, no result is reported twice, and nothing of a run disappears unreported | two runs, one of them mortal, one mortal reader; a tree that becomes unreadable and readable with its updates; a window of one tick, so that a marker expires under its run |
| `UpdateTwiceReported` (violation) | A run can be reported twice, once as abandoned and once by its result | one run, one reader |
| `Notifications` | Alerts only rise inside a window, and every crossing is announced | one provider with a dated window and one without a reset, a clock that reaches the end of the first window, jitter equal to the tolerance, one evaluation at a time |
| `Collections` | Rows are valid, readings are shown, failures are retained by their cause, tokens outlive their requests, everything fits the lane, and received limits are returned | every provider, with answers chosen so that each field is once there, once absent and once unreadable and so that names collide; ends at 0, at the timeout and never; tokens that expire around each boundary |
| `ResetClaims` | No report claims more of the account than is so, the named reset is spent, and the claim fits its lane | two grants whose names collide and one of its own, up to two resets each, ids that name nothing |
| `Commands` | Saved settings survive, old settings stay usable, the helper understands the plugin, offers can be installed, a purge waits for a write | two helpers and three starts: a save, a purge and one process after it; four first files, thirty argument lists |

Two of anything that competes is enough for the races modelled: every shared
file has one reader or writer between another one's two operations. `MaxTime`,
`MaxRuns`, `MaxGeneration` and the lane's bound on its counter only cut
behaviours off; runs that stop at them say `CHECK_DEADLOCK FALSE` because
processes really end, while the Service never stops and is checked for deadlock.
`ProviderCollection` is checked for deadlock too: it stutters only once a row is
made. The helpers of `Commands` are alike, so their permutations are a symmetry;
that run has no liveness property.

Three liveness properties of the Service have a premise, and what happens without
it is among the observations below: `HandoffEnds` that no hand-off is ready to
start while the terminated helper of the one before lives (`HandoffStranded`);
`LoadingAndSavingEnd` that no dialog is loading while a terminated read helper
lives; `QueuedTargetsGetARun` that no uninstall is confirmed. The first two have
the hand-off and the reading lane in `SlowLanes`, so both sides of the premise
occur. `LastGoodIsKept` is checked with one helper because with two it fails, and
`Notifications` has one evaluator and `MayLag = FALSE` for the same reason. Its
second window stands for every window without a reset, and a second provider
would add nothing that being ready or not does not: entries of different windows
never meet in a rule. The properties of `Updates` also hold with two
readers that are not killed (29.8 million states), and with a leftover marker
when one run alone is killed (9.7 million). Closing the popup is
left out of `ServiceMaintenance`: it takes operations away from the user and
changes nothing of maintenance.

Some definitions of the modules are in no run: `MaintenanceRunsAlone`,
`ToldOnceInOrder`, `QueuedTargetsAreNotDropped`, `QueuedTargetsNeedNoPoll` (without
`uninstall`), `NothingStartsDuringHandoff`, `EntriesWereAnnounced` (one evaluator),
`StepsAreReckonedWith`, `LanesKeepTheirContract` and the type invariants of
`Service`, `StatusCollection` and `UpdateState`, which are proved; that of
`Notifications`, which is a part of the invariant proved there; `EverySlotIsFreed`
and `MarkersSurvive` (one launcher) and `EveryRunIsReported` (one run), which
TLC finds to hold under these bounds and which the properties above subsume or come close to; and
the refuted ones among the observations.

Fairness. `Service` is fair to the settlement of a lane's run (a lane's deadline
is a timer that is restarted at every start), to the exit of a terminated
process, to queued callbacks and to the window that ends the watch over an
update. It is fair neither to the timers that poll, so that no property holds
because the next poll repairs what a handler forgot, nor to the version probe,
nor to anything the user does. `HelperLane` is fair to its deadline and to the
exit of a process it terminated, so `EveryRunSettles` says that every run is
reported and that its process is gone in the end, which opens the lane again.
`StatusCollection` is weakly fair to each helper's steps (polls have
deadlines, and a lock that stays free is granted), to a settings write and to the
end of a maintenance run, and to the start of nothing. `UpdateState` is fair to running
processes and to the clock, and strongly fair to a reader's file steps: the
Service repeats `update status` every two seconds, and its deadline does not
kill each of those repetitions at the same step. `ProviderCollection`,
`ResetClaim` and `HelperCommands` state safety only and assume none: their
deadlines are bounds on `now` and `elapsed`.

## What is proved

With TLAPS, for every value of the constants that satisfies the named
assumptions:

- `HelperLane_proofs`: the types, `AnsweredByItsOwnProcess`, `ToldOnceInOrder`
  and the refinement of `LaneContract`, from which follows that its transitions are
  `LaneStep`s. The inductive invariant `LaneInv` adds
  `ExitsAreTellable` (a live process that was given up on carries another number
  than `runId`): without it nothing says which exits settle a run.
- `StatusCollection_proofs`: the types; `MaintenanceRunsAlone` and
  `MaintenanceWritesAlone` from `GateInv` (whoever is past the gate holds it, and
  it is never held both ways); `SiblingsAreKept` from `MergeInv` (the document a
  merge was read from is still on disk, because only the holder of `status.lock`
  replaces it), assuming `MayBeCorrupt = FALSE`, since a quarantine is not under that lock;
  `ReadingsAreDated` from `DatedInv` (dates survive in every copy a helper
  holds); `PollsRespectRetryAfter` from `HoldInv` (a row never expires before its
  `Retry-After`, wherever it is on its way); `LastGoodIsKept`, an action
  property, from `GoodInv` (what a helper found of its providers is still in the
  cache when it merges), assuming that helpers collect one at a time
  (`OneHelper`): with two of them it is refuted, see the observations.
- `Service_proofs`: the types; `LanesKeepTheirContract`, an action property: the
  calls of a handler only make lanes run that are ready (`Grows`), so a step is
  at most one settlement and such calls after it; `HandoffRunsAlone` and `NothingStartsDuringHandoff` from
  `LanesOK` (which phase, queue flag and dialog state may go together) and
  `HandoffBlocks` (from the confirmation to the answer no lane over the state is
  started, and the hand-off waits for those that run); `ArmedDialogKeepsItsWord`
  from `UiOK`; `AppliedSettingsAreTheFile`, `CleanDialogShowsTheFile` and
  `SaveKeepsTheEdits` from `SettingsOK`, whose `UpToDate` says for the bar, the
  form and every helper on its way which generation of the file it is of, and
  whose `Unreported` names the writes nobody has heard of: without it a late read
  could put an old document back; `DialogOffersACurrentReset` and
  `ClaimShownIsTheOneRunning` from `ResetOK` (the claim, what is shown of it and the
  refresh after it carry one provider), the latter for instances without the
  operation `uninstall`: with it, it is refuted; `QueuedTargetsAreNotDropped`,
  an action property, from `QueueOK` and `CarriedOK` (what is queued stays in
  `pending` or is what a run carries); `QueuedTargetsNeedNoPoll`, the safe half of
  `QueuedTargetsGetARun`, by itself and again without `uninstall`: the kick leaves
  targets queued only where the lane cannot take them, and whatever opens the lane
  queues the follow-up.
- `Notifications_proofs`: `AlertsOnlyRise` and `EveryCrossingIsAnnounced`, which
  are action properties, and `EntriesWereAnnounced`, from `IInv`. Its halves are
  `Covered` (an alert that was heard for the latest window has an entry at least as
  high, or is being recorded) and `Backed` (an entry has such an alert); what
  joins them is that resets reported of one window lie within the tolerance and
  those of two windows do not (`OneWindow`). They assume one evaluation at a time
  (`OneEvaluation`) and `MayLag = FALSE`, without which they are refuted. That the
  announcements of an evaluation are exactly what is due, each once, needs that a finite set
  of numbers has an ordered list (`OrderExists`), proved by induction on finite
  sets in the form the prover takes: for the members of a set of sets
  (`FiniteInduction`) instead of for a predicate.
- `UpdateState_proofs`: the types, and `Control` (where a run, a reader and a
  removal may be, and what each has in hand there); `UpdatesAreAttributed` from
  `Attribution` (a unit that updates holds the gate, so nobody else moves the tree
  between its two looks, and what is published is what its own unit concluded);
  `ResultsAreReportedOnce` from `Reports` (a result is on disk or with one
  reader until it is reported, and nowhere afterwards: nothing weaker excludes
  the second reader); `NoRunIsForgotten`, an action property, from `Traces` (a
  run's marker is on disk or with a process that took it, since a file is
  renamed away before it is compared, and then its result is).
- `HelperCommands_proofs`: `HelperControl`, whose `Control` says which places a
  command passes, that a process holds the gate exactly from `Acquire` to its
  end or `Release`, with an inode that a lock file has had, and that an
  exclusive holder is alone on its inode; `PurgesWaitForWrites` follows from it.
  `SavedSettingsSurvive` from `Durable` (no version that a loss of power may
  leave is older than the last one reported, and what is renamed was synced);
  `OffersAreInstallable` for any receipts and manifests, with lemmas about the
  operators of `UpdateCheck`; `IntentsAreUnderstood` from `AllUnderstood` (a
  process was given the command its intent means, and an uninstall that removes
  data has read a confirmation of exactly that), with a lemma on what the
  grammar makes of the arguments of each kind of intent; `OldSettingsStayUsable`
  from `AllTold` (a `config show` that has ended told what its file parses to),
  with a lemma for every settings file that a release may have left
  (`ReleaseIsShown`): its document is taken, and of its lists of providers only
  what the current release does not know is dropped, none twice, none missing.
- `ResetClaim_proofs`: `ReportsAreTruthful` from `Course` (at most one claim is
  out, it was handled or it was not, and a report other than `reset` and
  `unconfirmed` has nothing spent behind it, unless it is that of an error status); `ClaimFitsItsLane` from `Pace` (a bound
  on the time at each step); `TheNamedResetIsSpent` from `Aim` (the claim in
  flight, and any that was handled, names the only grant the id can mean,
  because the names of the grants never change).
- `ProviderCollection_proofs`: `LimitsReceivedAreReturned` of `AppServer`, an
  action property, from `Server` (limits at hand are an answer's, and an account
  that is known is one that was answered); `CollectionFitsItsLane` from `Clock`
  (a bound on the time at each step, tighter on a first attempt than on a
  second); `RowsAreSound` and `ReadingsAreShown` from `Kept` (the row is
  `RowOf` the result, and the result is a failure of this provider or a reading with
  valid windows, valid resets and no window id twice) and `Exchanged` (what the
  exchange with the app-server hands over is a document), with a lemma for each
  provider's mapping that says this of any document; `GrokTokensOutliveTheirRequests` from `Tokens` (how much later than
  the token's check each request can be); `RetentionFollowsTheCause` from
  `Judged` (until the row is made only what is tried again stood in the way),
  with a lemma about the row of each kind of result.

Three of these quantify over lists of any length: the rows of a document, its
windows, a settings file's providers. What the folds and selections of the
mappings compute is proved by `FiniteInduction` and `CountedInduction`, which
speak of the members of a set of positions instead of a predicate, after the
recursive functions behind `FlattenSeq` and the folds are shown to exist
(`JoinsExist`, `FoldExists`). `HelperCommands_proofs` and `ProviderCollection_proofs`
each state those they use. `RowsAreSoundHolds` and
`ReadingsAreShownHolds` have one hypothesis, that `ToString` of an integer is a
string: its definition in TLA+ gives no value, TLC's does.

Each invariant is shown in three steps: it holds initially, each action keeps it,
and it implies the property. The sets, files, answers and numbers of processes
are arbitrary in all of them. The assumptions are named in the modules, and TLC
evaluates them in the runs: `UpdateAssumption` and `CollectionAssumption` type
the processes; `ServiceAssumption`, `ProviderAssumption` and `DocAssumption` type the Service's
providers, operations and documents; `NotificationsAssumption` says that a window
is longer than the tolerance and the jitter together; `IntentAssumption` says what the plugin can mean; `LaneAssumption` (of
`ResetClaim` and of `ProviderCollection`) and `MarginAssumption` are the three
inequalities between timeouts that the code's constants satisfy (10 s, 0.25 s,
60 s) and that nothing in the code checks; `ClaimAssumption`, `InputAssumption`,
`CollectionConstants` and `ServerAssumption` type the inputs; `NullAssumption`,
`RowAssumption`, `CreditsAssumption` and `NormalizedAssumption` say that the
values for "none" are no row, reading or document; `NoDocumentAssumption` says
that of settings; `WordAssumption` says that the words the mappings write are strings.

Model-checked only are the liveness properties (`EveryRunSettles`, `QueuedTargetsGetARun`,
`LoadingAndSavingEnd`, `HandoffEnds`, `UpdateWatchEnds`, `RequestsEnd`), since
fairness involves ENABLED, which the prover does not handle.

## Observations

One disagreement between a comment and the code is a run of this project:

- `UpdateTwiceReported`. A reader that finds no result, and an expired marker,
  reports the run as abandoned while its unit is about to publish
  (`update_state.rs:260`; the comment at line 238 says exactly once).

Others were met on the way. Each is refuted by TLC with the property named,
alone in a configuration like the ones here:

- `LastGoodIsKept` (`StatusCollection`, two helpers, one request each): the
  prior of a failed poll is the row loaded before the polls
  (`status/coordinator.rs:165`), so a reading another helper publishes in the
  meantime is overwritten by the failure (`CACHE-022` promises `stale`).
- `AlertsOnlyRise` (`Notifications`, `MayLag = TRUE`): a provider that keeps
  reporting a window live after its reset has its entry pruned at every poll
  (`notifications/state.rs:165`), and the same level is announced again each time
  (against `NOTIFY-003`).
- `EntriesWereAnnounced` (`Notifications`, two evaluators): two evaluations that
  loaded the same levels overwrite each other's entries; `notification.lock` is
  held for a save only (`notifications/state.rs:241`), while
  `docs/specs/v10/05-settings-cache-and-notifications.md` has it held from the
  reload to the last save.
- `ProviderRefreshStaysScoped` (`Service`, operations `refresh`): two queued
  providers become one request for every enabled provider (`CoreService.js:168`,
  against `docs/dev/architecture.md:111`).
- `LoadingAndSavingEnd` (`Service`) without its premise: a dialog reopened while the
  timed-out read helper is still dying stays loading until the popup is closed
  (`Service.qml:674`, against `docs/dev/architecture.md:119`).
- `HandoffEnds` without its premise: an uninstall retried while the terminated
  helper of its predecessor is dying is never detached (`Service.qml:759`), nothing
  calls `tryMaintenanceDetach()` again, and the Service stays blocked until the
  shell restarts (against `docs/dev/architecture.md:119`: no busy flag is left set
  for ever).
- `QueuedTargetsGetARun` without its premise, for the reason given below for
  `QueuedTargetsNeedNoPoll`.
- `ClaimShownIsTheOneRunning` (`Service`, operations `reset` and `uninstall`): a
  claim that is answered while the hand-off drains fires no refresh of its own
  (`Service.qml:515`), so the refresh still queued may be that of an earlier claim
  for another provider.
- `QueuedTargetsNeedNoPoll` (`Service`, operations `refresh` and `uninstall`): the
  poll timer is restarted after a failed uninstall without the kick that the end of
  other work gives (`Service.qml:773`), so a refresh queued before it waits for the
  next poll; the comment at line 800 has it kicked once the lane reopens, but the lane
  reopened during the hand-off, when the kick was refused.
- `UpdateAndUninstallExclude` (`Service`, operations `uninstall`, reply
  `running`): the update poll takes up an update during the hand-off
  (`Service.qml:428`, against ARCH-024).
- `OneCollectionAtATime` (`StatusCollection`, two helpers): two processes poll the
  same provider at once (`coordinator.rs:119`).
- `OnlyCorruptCacheIsMovedAside` (`StatusCollection`, two helpers, a corrupt first
  document): the good document written in between is moved aside
  (`cache/store.rs:159`, against CACHE-018).
- `OneLauncherStarts` (`UpdateState`, two runs): a launcher whose clock reading
  is older than its rival's marker takes it for a dead one
  (`update_state.rs:111`), and a reader that moves the marker away to compare it
  leaves the slot open for a moment (`update_state.rs:376`).
- `MarkersSurvive` (`UpdateState`, two runs): a launcher that took a rival's
  marker for its own old one and is killed before it puts it back loses it.
- `UnknownResultsAreUnconfirmed` (`ResetClaim`): a claim whose POST is answered
  with an error status, which may come after the provider has spent the reset,
  is reported as `provider_error` or `unauthenticated` (`providers/reset.rs:316`),
  where CLI-036 (`03-cli-and-json-contract.md:526`) calls every claim that left
  without a known result `unconfirmed`. `ReportsAreTruthful` makes the exception:
  of such an answer it says which reports it can get, and nothing of the account.
- `PurgesWaitForWrites` without `inodes <= 1` (`HelperCommands`, three
  starts): the purge drops the gate and then removes its lock file
  (`cli/mod.rs:297`), a second uninstall locks a new one, and a save that opened
  the old one writes beside it (against ARCH-026). A save that waited at the gate
  likewise writes the settings back after the purge.
- An invariant that a `config apply` that exits with an error leaves the file as
  it was (CLI-023, and the comment at `atomic_file.rs:79`) fails at the last
  step: the directory's sync may fail after the rename (`atomic_file.rs:126`).

Read in the code while modelling it, and part of the model, without a property
of their own:

- Codex's two main windows are not compared (only extra buckets are), so a
  document that gives both one length becomes `provider_error`;
  `ReadingsAreShown` makes the exception. Two weekly models with ordinals 0 and 1
  share a window id.
- Two cedar-ember grants whose names sanitize alike are both shown and neither
  can be claimed (`v2_map.rs:624`).
- When the app-server closes its output after the limits and before the account,
  the limits are lost, although the deadline would have returned them
  (`codex_app_server.rs`).
- Claude's token has no expiry margin, Grok's has; a 429 of Grok is a final
  error, one of Claude a `Retry-After`; Grok's reading is dated before its first
  request.
- A descendant of a child that keeps its standard output open makes
  `run_process` time out.
- `update check` fails (exit 5) when the receipt raises the minimum Quickshell
  and the installed one satisfies it, or names another target or contract, where
  `08` has `latestCompatible: null`.
- A killed `config apply` leaves its temporary file behind. The purge of a
  directory, and a new settings directory's own entry in its parent, are not synced.

## Not modelled

- `CoreView.js`, `CoreScroll.js` and the views' layout, and `status/human.rs`:
  text, order and geometry that nothing reads back.
- `plugin/bundle.rs` and the release scripts: a validator of a directory tree
  that runs once, sequentially, before a release.
- Redaction, paths, executables' absolute names, help texts, labels, URLs, and
  the syntax of JSON, numbers and dates.
- The interactive login program and the terminal it opens in, the popup's
  placement and focus, and opened links.
- Pipes, signals and the draining of a child's output: the kernel's; a child is
  its outcome.

## Plan

What is left is composition: `Service` with its lanes replaced by `HelperLane`
instances, shown to implement `Service` (the `LaneStep` theorems are the two sides
of it, action by action); `StatusCollection`'s replies as the rows that
`ProviderCollection` can make.
