--------------------------- MODULE CoreSettings ---------------------------
(***************************************************************************)
(* CoreSettings.js: the Settings dialog as a state machine over documents. *)
(* A document is a model value; validation has accepted it.  The JS state  *)
(* also carries `busy', true exactly while loading or saving, and          *)
(* `pendingPayload', the draft being saved; both are derived here.         *)
(***************************************************************************)
EXTENDS Naturals

CONSTANTS
  Docs,        \* settings documents
  NoDoc,       \* null
  DefaultDoc   \* the document of defaultSettings()

ASSUME DocAssumption == NoDoc \notin Docs /\ DefaultDoc \in Docs

SettingsPhases == {"closed", "loading", "clean", "dirty", "saving", "load_failed"}

SettingsStates == [phase: SettingsPhases, generation: Nat,
                   snapshot: Docs \cup {NoDoc}, draft: Docs \cup {NoDoc}]

SettingsClosed == [phase |-> "closed", generation |-> 0, snapshot |-> NoDoc, draft |-> NoDoc]

SettingsBeginLoad(gen) ==
  [phase |-> "loading", generation |-> gen, snapshot |-> NoDoc, draft |-> NoDoc]

SettingsFinishLoad(s, gen, doc) ==
  IF s.generation = gen /\ s.phase \in {"loading", "clean"}
  THEN [phase |-> "clean", generation |-> gen, snapshot |-> doc, draft |-> doc]
  ELSE s

SettingsFailLoad_OnlyReloads(s, gen) ==
  IF s.generation = gen /\ s.phase = "clean" THEN [s EXCEPT !.phase = "load_failed"] ELSE s
SettingsFailLoad(s, gen) ==
  IF s.generation = gen /\ s.phase = "loading"
  THEN [phase |-> "load_failed", generation |-> gen, snapshot |-> NoDoc, draft |-> NoDoc]
  ELSE s

Unlocked(s) == s.phase \in {"clean", "dirty"}

\* mutateSettingsDraft(): any control of the form.
SettingsEdit(s, doc) == IF Unlocked(s) THEN [s EXCEPT !.phase = "dirty", !.draft = doc] ELSE s

SettingsRestoreDefaults(s) == SettingsEdit(s, DefaultDoc)

SettingsCancel(s) ==
  IF Unlocked(s) THEN [s EXCEPT !.phase = "clean", !.draft = s.snapshot] ELSE s

SettingsCanSave(s) == s.phase = "dirty"

SettingsBeginSave(s, gen) == [s EXCEPT !.phase = "saving", !.generation = gen]

SettingsFinishSave_ForgetsTheDraft(s, gen, ok, canonical) ==
  IF s.generation # gen \/ s.phase # "saving" THEN s
  ELSE IF ok THEN [s EXCEPT !.phase = "clean", !.snapshot = canonical, !.draft = canonical]
  ELSE [s EXCEPT !.phase = "clean", !.draft = s.snapshot]
SettingsFinishSave_OnlySuccess(s, gen, ok, canonical) ==
  IF s.generation # gen \/ s.phase # "saving" \/ ~ok THEN s
  ELSE [s EXCEPT !.phase = "clean", !.snapshot = canonical, !.draft = canonical]
SettingsFinishSave(s, gen, ok, canonical) ==
  IF s.generation # gen \/ s.phase # "saving" THEN s
  ELSE IF ok THEN [s EXCEPT !.phase = "clean", !.snapshot = canonical, !.draft = canonical]
  ELSE [s EXCEPT !.phase = "dirty"]

\* A dialog closed with a helper at work keeps its state for that answer.
SettingsRetainOnClose_OnlyLoads(s) == s.phase = "loading"
SettingsRetainOnClose(s) == s.phase \in {"loading", "saving"}

\* The bootstrap read may be answered after a dialog's read or save.
SettingsBootstrapResult_LastAnswerWins(applied, doc) == doc
SettingsBootstrapResult(applied, doc) == IF applied # NoDoc THEN applied ELSE doc
==========================================================================
