--------------------------- MODULE HelperCommands ---------------------------
(***************************************************************************)
(* cli/mod.rs: the processes of the helper that read and write the         *)
(* settings file, or remove it, next to each other: config show, config    *)
(* apply (settings/store.rs, support/atomic_file.rs) and uninstall.  They  *)
(* meet at the maintenance gate, whose lock file is in a directory that    *)
(* an uninstall may remove.  Any process may be killed, and the machine    *)
(* may lose power.  update check answers next to them.                     *)
(*                                                                         *)
(* A directory's fsync makes its own entries durable, the directory's own  *)
(* entry included when it is new, as journaling file systems do.  The      *)
(* temporary file of a killed process stays behind; nothing reads it.      *)
(***************************************************************************)
EXTENDS SettingsDocument, UpdateCheck

CONSTANTS
  NoFile,      \* the settings file is missing
  Helpers,     \* the processes
  MaxRuns,     \* how many times a helper is started (a bound)
  Vectors,     \* argument lists users type
  Intents,     \* what the plugin asks for, as Argv takes it
  Documents,   \* what config apply is given: settings documents or NoDocument
  Answers,     \* what uninstall reads: a terminal's line or a JSON document
  Receipts,    \* what the published receipt may be, or NoReceipt
  Quickshells, \* what qs --version may answer
  FirstFiles   \* the settings files there may be at first

VARIABLES
  runs,      \* helpers started so far
  helper,    \* what each process is at and knows
  lockFile,  \* the inode of the gate's lock file, 0 when the state directory is gone
  inodes,    \* how many lock files there have been
  file,      \* the settings file: its bytes, a rank that grows with every change, whether its data may be lost
  onDisk,    \* the files a loss of power may leave
  ranks,     \* the last rank given
  saved      \* the rank of the last file a config apply reported as saved

vars == <<runs, helper, lockFile, inodes, file, onDisk, ranks, saved>>
gateVars == <<lockFile, inodes>>
fileVars == <<file, onDisk, ranks, saved>>

\* A process that has read nothing, locked nothing and made no file.
Process(pc, intent, command, exit) ==
  [pc |-> pc, intent |-> intent, command |-> command, input |-> None, exit |-> exit, out |-> None,
   inode |-> 0, holds |-> "nothing", temp |-> "none", rank |-> 0]
Fresh == Process("idle", None, Refused, 0)

Init ==
  /\ runs = 0
  /\ helper = [h \in Helpers |-> Fresh]
  /\ lockFile = 0 /\ inodes = 0
  /\ \E bytes \in FirstFiles : file = [bytes |-> bytes, rank |-> 0, torn |-> FALSE]
  /\ onDisk = {file} /\ ranks = 0 /\ saved = 0

At(h, pc) == helper[h].pc = pc
Goto(h, pc) == helper' = [helper EXCEPT ![h].pc = pc]

\* A process that ends lets go of the gate; a writer that fails removes its temporary file.
Ended(h, code) == Process("done", helper[h].intent, helper[h].command, code)
Exit(h, code) == helper' = [helper EXCEPT ![h] = Ended(h, code)]

---------------------------------------------------------------------------
(* main(), dispatch()                                                      *)

\* What the plugin may ask for: providers are the catalog's (isClosedProvider()),
\* and a reset's id is one that a status printed (validate_reset_id()).
Intended(intent) ==
  \/ /\ intent.kind = "status"
     /\ intent.targets.all \in BOOLEAN /\ intent.targets.ids \subseteq Catalog
  \/ intent.kind = "login" /\ intent.provider \in Catalog
  \/ intent.kind = "reset" /\ intent.id \notin Dashed
  \/ intent.kind = "uninstall" /\ intent.purge \in BOOLEAN
  \/ intent.kind \in {"show", "apply", "check", "update", "progress"}

ASSUME IntentAssumption == None \notin Intents /\ \A intent \in Intents : Intended(intent)

Local == {"config show", "config apply", "uninstall"}

\* The exits of the commands whose inside is another module's, by their dispatcher.
UpdateHelpExits == {3}
UpdateApplyExits == {0, 3, 5, 70}    \* 3: not confirmed
UpdateRunExits == {0, 5, 70}         \* 0 whatever the update came to, once that is published
UpdateStatusExits == {0, 5, 70}
StatusExits == {0, 4, 70}            \* 0 also when every provider failed
LoginExits == {0, 1, 3, 70}          \* or the login program's own
ResetExits == {0, 3, 70}             \* 0 whatever the claim came to

Exits(verb) ==
  CASE verb \in {"help", "version"} -> {0}
    [] verb = "update"        -> UpdateHelpExits
    [] verb = "update apply"  -> UpdateApplyExits
    [] verb = "update run"    -> UpdateRunExits
    [] verb = "update status" -> UpdateStatusExits
    [] verb = "status"        -> StatusExits
    [] verb = "login"         -> LoginExits
    [] verb = "reset"         -> ResetExits

Begin(h, intent, words) ==
  LET command == Parse(words)
      started(pc) == Process(pc, intent, command, 0)
      kept        == IF intent = None THEN Refused ELSE command  \* nothing asks what a user's command was
      ended(code) == Process("done", intent, kept, code)
  IN  /\ At(h, "idle") /\ runs < MaxRuns
      /\ runs' = runs + 1
      /\ \/ command = Refused /\ helper' = [helper EXCEPT ![h] = ended(2)]
         \/ command.verb \in Local /\ helper' = [helper EXCEPT ![h] = started("open")]
         \/ command.verb = "update check" /\ helper' = [helper EXCEPT ![h] = started("check")]
         \/ /\ command # Refused /\ command.verb \notin Local \cup {"update check"}
            /\ \E code \in Exits(command.verb) :
                 helper' = [helper EXCEPT ![h] = ended(code)]
      /\ UNCHANGED <<gateVars, fileVars>>

PluginStarts(h) == \E intent \in Intents : Begin(h, intent, Argv(intent))
UserStarts(h) == \E words \in Vectors : Begin(h, None, words)

Forget(h) ==
  /\ At(h, "done")
  /\ helper' = [helper EXCEPT ![h] = Fresh]
  /\ UNCHANGED <<runs, gateVars, fileVars>>

---------------------------------------------------------------------------
(* The gate: opened first, which makes its directory and its lock file,    *)
(* then opened again and locked.                                           *)

Failure(h) == IF helper[h].command.verb = "uninstall" THEN 5 ELSE 3

Open(h) ==
  /\ At(h, "open")
  /\ \/ /\ lockFile' = IF lockFile = 0 THEN inodes + 1 ELSE lockFile
        /\ inodes' = IF lockFile = 0 THEN inodes + 1 ELSE inodes
        /\ Goto(h, CASE helper[h].command.verb = "config show"  -> "read"
                     [] helper[h].command.verb = "config apply" -> "input"
                     [] helper[h].command.verb = "uninstall"    -> "bind")
     \/ Exit(h, Failure(h)) /\ UNCHANGED gateVars
  /\ UNCHANGED <<runs, fileVars>>

\* reopen() creates no directory.
Bind(h) ==
  /\ At(h, "bind")
  /\ \/ lockFile # 0 /\ helper' = [helper EXCEPT ![h].pc = "acquire", ![h].inode = lockFile]
     \/ Exit(h, Failure(h))
  /\ UNCHANGED <<runs, gateVars, fileVars>>

Mode_Shared(command) == "shared"
Mode(command) == IF command.verb = "uninstall" THEN "exclusive" ELSE "shared"

Acquire(h) ==
  LET mode == Mode(helper[h].command)
  IN  /\ At(h, "acquire")
      /\ \A o \in Helpers \ {h} :
           helper[o].inode = helper[h].inode =>
             helper[o].holds \in (IF mode = "shared" THEN {"nothing", "shared"} ELSE {"nothing"})
      /\ helper' = [helper EXCEPT ![h].holds = mode,
                      ![h].pc = IF helper[h].command.verb = "uninstall" THEN "resolve" ELSE "create"]
      /\ UNCHANGED <<runs, gateVars, fileVars>>

---------------------------------------------------------------------------
(* update check, without the gate                                          *)

Check(h) ==
  /\ At(h, "check")
  /\ \E answer \in Receipts, probe \in Quickshells, git \in BOOLEAN :
       LET doc == UpdateCheckRun(answer, probe, git)
       IN  helper' = [helper EXCEPT ![h] =
             IF doc = CheckFails THEN Ended(h, 5)
             ELSE [Ended(h, 0) EXCEPT !.out = doc,
                     !.input = [receipt |-> Fetched(answer), quickshell |-> probe, git |-> git]]]
  /\ UNCHANGED <<runs, gateVars, fileVars>>

---------------------------------------------------------------------------
(* config show, without the gate                                           *)

Show(h) ==
  LET shown == IF file.bytes = NoFile THEN Defaults ELSE ParseWithPolicy(file.bytes, TRUE)
      code  == IF shown = NoDocument THEN 3 ELSE 0
  IN  /\ At(h, "read")
      /\ \/ Exit(h, 3)  \* the file cannot be read
         \/ helper' = [helper EXCEPT ![h] = [Ended(h, code) EXCEPT !.input = file.bytes, !.out = shown]]
      /\ UNCHANGED <<runs, gateVars, fileVars>>

---------------------------------------------------------------------------
(* config apply                                                            *)

ReadDocument(h) ==
  /\ At(h, "input")
  /\ \E raw \in Documents :
       IF ParseStrict(raw) = NoDocument THEN Exit(h, 3)
       ELSE helper' = [helper EXCEPT ![h].pc = "bind", ![h].out = ParseStrict(raw)]
  /\ UNCHANGED <<runs, gateVars, fileVars>>

\* replace_atomically_with()
ReplaceSteps_LateSync == <<"create", "write", "mode", "rename", "sync", "syncdir">>
ReplaceSteps == <<"create", "write", "sync", "mode", "rename", "syncdir">>

Writing(h) == \E i \in DOMAIN ReplaceSteps : At(h, ReplaceSteps[i])

\* The step after this one, when this one succeeds.
NextStep(h) ==
  LET i == CHOOSE i \in DOMAIN ReplaceSteps : At(h, ReplaceSteps[i]) IN ReplaceSteps[i + 1]

WriteTemp(h) ==
  /\ \/ At(h, "create") /\ helper' = [helper EXCEPT ![h].pc = NextStep(h), ![h].temp = "empty"]
     \/ At(h, "write") /\ Goto(h, NextStep(h))
     \/ /\ At(h, "sync")
        /\ helper' = [helper EXCEPT ![h].pc = NextStep(h), ![h].temp = IF @ = "empty" THEN "synced" ELSE @]
     \/ At(h, "mode") /\ helper[h].temp # "none" /\ Goto(h, NextStep(h))
  /\ UNCHANGED <<runs, gateVars, fileVars>>

RenameTemp(h) ==
  LET replaced == [bytes |-> Document(helper[h].out), rank |-> ranks + 1, torn |-> helper[h].temp # "synced"]
  IN  /\ At(h, "rename") /\ helper[h].temp # "none"
      /\ file' = replaced
      /\ onDisk' = onDisk \cup {replaced}
      /\ ranks' = ranks + 1
      /\ helper' = [helper EXCEPT ![h].pc = NextStep(h), ![h].temp = "none", ![h].rank = ranks + 1]
      /\ UNCHANGED <<runs, gateVars, saved>>

SyncDirectory(h) ==
  /\ At(h, "syncdir") /\ file.bytes # NoFile
  /\ onDisk' = {file}
  /\ saved' = IF helper[h].rank > saved THEN helper[h].rank ELSE saved
  /\ Exit(h, 0)
  /\ UNCHANGED <<runs, gateVars, file, ranks>>

\* Any of the steps may fail; after the rename nothing is put back.
WriteFails(h) == Writing(h) /\ Exit(h, 3) /\ UNCHANGED <<runs, gateVars, fileVars>>

---------------------------------------------------------------------------
(* uninstall, with the gate held from Acquire to Release                   *)

\* resolve_absolute_executable(), for omarchy and systemd-run.
Resolve(h) ==
  /\ At(h, "resolve")
  /\ Goto(h, "confirm") \/ Exit(h, 5)
  /\ UNCHANGED <<runs, gateVars, fileVars>>

Confirmation(purge) == [operation |-> "uninstall", confirmed |-> TRUE, purge |-> purge]

\* confirm_uninstall(): the phrase on a terminal, else exactly this document.
Confirmed(answer, purge) ==
  IF answer.tty THEN answer.text = "uninstall agent-bar" ELSE answer.text = Confirmation(purge)

AnswersFor(intent) ==
  IF intent = None THEN Answers ELSE {[tty |-> FALSE, text |-> Confirmation(intent.purge)]}

Confirm(h) ==
  /\ At(h, "confirm")
  /\ \/ Exit(h, 70)  \* standard input cannot be read
     \/ \E answer \in AnswersFor(helper[h].intent) :
          IF ~Confirmed(answer, helper[h].command.purge) THEN Exit(h, 3)
          ELSE helper' = [helper EXCEPT ![h].input = answer,
                            ![h].pc = IF helper[h].command.purge THEN "purgeSettings" ELSE "release"]
  /\ UNCHANGED <<runs, gateVars, fileVars>>

\* remove_dir_all_idempotent(): an error may come before the file is removed or after it.
PurgeSettings(h) ==
  LET gone    == [bytes |-> NoFile, rank |-> ranks + 1, torn |-> FALSE]
      without == [o \in Helpers |-> [helper[o] EXCEPT !.temp = "none"]]
  IN  /\ At(h, "purgeSettings")
      /\ \/ /\ file' = gone /\ onDisk' = onDisk \cup {gone} /\ ranks' = ranks + 1 /\ UNCHANGED saved
            /\ \/ helper' = [without EXCEPT ![h].pc = "purgeCache"]
               \/ helper' = [without EXCEPT ![h] = Ended(h, 5)]
         \/ Exit(h, 5) /\ UNCHANGED fileVars
      /\ UNCHANGED <<runs, gateVars>>

PurgeCache(h) ==
  /\ At(h, "purgeCache")
  /\ Goto(h, "release") \/ Exit(h, 5)
  /\ UNCHANGED <<runs, gateVars, fileVars>>

\* drop(exclusive)
Release(h) ==
  /\ At(h, "release")
  /\ helper' = [helper EXCEPT ![h].holds = "nothing", ![h].inode = 0,
                  ![h].pc = IF helper[h].command.purge THEN "purgeState" ELSE "delegate"]
  /\ UNCHANGED <<runs, gateVars, fileVars>>

PurgeState(h) ==
  /\ At(h, "purgeState")
  /\ \/ lockFile' = 0 /\ (Goto(h, "delegate") \/ Exit(h, 5))
     \/ Exit(h, 5) /\ UNCHANGED lockFile
  /\ UNCHANGED <<runs, inodes, fileVars>>

\* systemd-run starts the unit that removes the plugin, or not.
Delegate(h) ==
  /\ At(h, "delegate")
  /\ \E code \in {0, 5} : Exit(h, code)
  /\ UNCHANGED <<runs, gateVars, fileVars>>

---------------------------------------------------------------------------
Kill(h) ==
  /\ helper[h].pc \notin {"idle", "done"}
  /\ helper' = [helper EXCEPT ![h] = Fresh]
  /\ UNCHANGED <<runs, gateVars, fileVars>>

PowerLoss ==
  /\ file' \in onDisk
  /\ onDisk' = {file'}
  /\ helper' = [h \in Helpers |-> Fresh]
  /\ UNCHANGED <<runs, gateVars, ranks, saved>>

Next ==
  \/ \E h \in Helpers :
       \/ PluginStarts(h) \/ UserStarts(h) \/ Forget(h)
       \/ Open(h) \/ Bind(h) \/ Acquire(h) \/ Check(h) \/ Show(h)
       \/ ReadDocument(h) \/ WriteTemp(h) \/ RenameTemp(h) \/ SyncDirectory(h) \/ WriteFails(h)
       \/ Resolve(h) \/ Confirm(h) \/ PurgeSettings(h) \/ PurgeCache(h) \/ Release(h) \/ PurgeState(h) \/ Delegate(h)
       \/ Kill(h)
  \/ PowerLoss

Spec == Init /\ [][Next]_vars

---------------------------------------------------------------------------
\* Settings that a config apply reported as saved are never lost: whatever
\* else runs, is killed or loses power, the file is theirs or a later one, and
\* never one whose data did not reach the disk (replace_atomically_with()).
SavedSettingsSurvive == \A v \in onDisk \cup {file} : v.rank >= saved /\ ~v.torn

\* The settings entries of a document that an earlier release wrote, Amp's aside.
EntriesOf(raw) ==
  [i \in DOMAIN WithoutAmp(raw.providers) |-> [id |-> WithoutAmp(raw.providers)[i].id, enabled |-> WithoutAmp(raw.providers)[i].enabled]]

\* A settings file that an earlier release wrote and that can be read is shown,
\* with its own entries in its own order and its own options, and what is shown
\* is a document that config apply takes (parse_with_policy(),
\* strip_legacy_amp_provider_entries()).
OldSettingsStayUsable ==
  \A h \in Helpers :
    LET p == helper[h]
    IN  (p.pc = "done" /\ p.command = Only("config show") /\ p.input \notin {None, NoFile}) =>
          (WrittenByARelease(p.input) =>
             /\ p.exit = 0
             /\ IsPrefix(EntriesOf(p.input), p.out.providers)
             /\ <<p.out.metric, p.out.interval, p.out.notify>> = <<p.input.metric, p.input.interval, p.input.notify>>
             /\ ParseStrict(Document(p.out)) = p.out)

\* What a command line of the plugin's must mean to the helper.
Means(command, intent) ==
  CASE intent.kind = "status" ->
         LET targets == intent.targets
         IN  /\ command.verb = "status"
             /\ command.options.format = "json" /\ command.options.notifications = "evaluate"
             /\ targets.all => command.options.provider = "all"
             /\ command.options.provider = "all" \/ targets.ids = {command.options.provider}
             /\ command.options.cache = "bypass" <=> (targets.all \/ targets.ids # {})
             /\ Cardinality(targets.ids) = 1 /\ ~targets.all => command.options.provider # "all"
    [] intent.kind = "login"     -> command = [verb |-> "login", provider |-> intent.provider]
    [] intent.kind = "reset"     -> command = [verb |-> "reset", id |-> intent.id]
    [] intent.kind = "show"      -> command = Only("config show")
    [] intent.kind = "apply"     -> command = [verb |-> "config apply", from |-> "stdin"]
    [] intent.kind = "check"     -> command = Only("update check")
    [] intent.kind = "update"    -> command = Only("update apply")
    [] intent.kind = "progress"  -> command = Only("update status")
    [] intent.kind = "uninstall" -> command = [verb |-> "uninstall", purge |-> intent.purge]

\* The dialog takes every document the helper prints, and offers an update
\* exactly when the receipt is of a newer release and the plugin's tree is a
\* git checkout, which alone can be updated; never one that the installed
\* Quickshell, where it says its version, is too old for (UpdateCheck::run(),
\* UpdateCheckDocument::validate(), maintenanceUiFromCheck()).
OffersAreInstallable ==
  \A h \in Helpers :
    LET p     == helper[h]
        told  == p.input.quickshell.exit = 0 /\ p.input.quickshell.version # NoVersion
        newer == p.input.receipt.version > CARGO_VERSION
        fits  == p.input.quickshell.version >= p.input.receipt.minimum
    IN  (p.pc = "done" /\ p.command = Only("update check") /\ p.exit = 0) =>
          /\ CheckPhase(p.out) # "error"
          /\ CheckPhase(p.out) = "reinstall_required" <=> ~p.input.git
          /\ CheckPhase(p.out) = "update_available" => p.input.git /\ newer /\ (told => fits)
          /\ p.input.git /\ newer /\ told /\ fits => CheckPhase(p.out) = "update_available"

Purging(h) == helper[h].pc \in {"purgeSettings", "purgeCache", "purgeState"}

\* The helper takes every argument list the plugin builds for what the plugin
\* meant by it, and removes data only for an answer that names the purge, or
\* for the phrase typed after a command that does (grammar.rs, statusArgv()).
IntentsAreUnderstood ==
  \A h \in Helpers :
    LET p == helper[h]
    IN  /\ p.intent # None => Means(p.command, p.intent)
        /\ Purging(h) => /\ p.command.purge
                         /\ p.input.tty \/ p.input.text.purge
                         /\ p.intent # None => p.intent.purge

\* An uninstall removes the settings and the cache while no config apply is
\* in the middle of its write, as long as the gate's first lock file is the
\* only one there has been (MaintenanceGate, dispatch_uninstall()).
PurgesWaitForWrites ==
  inodes <= 1 =>
    \A u, w \in Helpers : ~(helper[u].pc \in {"purgeSettings", "purgeCache"} /\ Writing(w))
=============================================================================
