-------------------------- MODULE SettingsDocument --------------------------
(***************************************************************************)
(* settings/schema.rs: which bytes are a settings document.  Bytes are     *)
(* NoDocument, or a record of what matters of the JSON object they hold:   *)
(* an entry of `providers' is well formed when it has an id and a Boolean  *)
(* `enabled' and nothing else; `closed' says that no key is unknown or     *)
(* missing; `updates' and `reminder' are the blocks of earlier releases.   *)
(***************************************************************************)
EXTENDS CommandLine, SequencesExt

CONSTANTS NoDocument, None

MIN_REFRESH == 30
MAX_REFRESH == 3600
LEGACY_REMINDER_MINUTES == 15..1440
ORIGINAL_V10_PROVIDERS == {"claude", "codex", "grok"}

DefaultEnabled(id) == id \in {"claude", "codex"}

Setting(id, enabled) == [id |-> id, enabled |-> enabled]

Settings(providers, metric, interval, notify) ==
  [schema |-> 1, providers |-> providers, metric |-> metric, interval |-> interval, notify |-> notify]

\* Settings::defaults()
Defaults ==
  Settings([i \in DOMAIN CatalogOrder |-> Setting(CatalogOrder[i], DefaultEnabled(CatalogOrder[i]))],
           "remaining", 60, TRUE)

Ids(providers) == {providers[i].id : i \in DOMAIN providers}

\* Settings::validate()
Valid(settings) ==
  /\ settings.schema = 1
  /\ settings.interval \in MIN_REFRESH..MAX_REFRESH
  /\ Cardinality(Ids(settings.providers)) = Len(settings.providers)
  /\ Ids(settings.providers) = Catalog

Document(settings) ==
  [schema |-> settings.schema,
   providers |-> [i \in DOMAIN settings.providers |->
                    [id |-> settings.providers[i].id, enabled |-> settings.providers[i].enabled, wellFormed |-> TRUE]],
   metric |-> settings.metric, interval |-> settings.interval, notify |-> settings.notify,
   reminder |-> None, updates |-> None, closed |-> TRUE]

\* validate_legacy_updates_block(), strip_legacy_reminder_minutes()
LegacyBlocksPass_OpenRange(raw) ==
  /\ raw.updates \in {None, "automatic"}
  /\ raw.reminder # None => raw.reminder \in LEGACY_REMINDER_MINUTES \ {15, 1440}
LegacyBlocksPass(raw) ==
  /\ raw.updates \in {None, "automatic"}
  /\ raw.reminder # None => raw.reminder \in LEGACY_REMINDER_MINUTES

\* strip_legacy_amp_provider_entries()
WithoutAmp(providers) ==
  LET amp(e) == e.id = "amp" /\ e.wellFormed
  IN  FlattenSeq([i \in DOMAIN providers |-> IF amp(providers[i]) THEN <<>> ELSE <<providers[i]>>])

\* Whether serde takes the rest for a Settings.
Typed(raw) ==
  /\ raw.closed
  /\ \A i \in DOMAIN WithoutAmp(raw.providers) :
       WithoutAmp(raw.providers)[i].wellFormed /\ WithoutAmp(raw.providers)[i].id \in Catalog
  /\ raw.metric \in {"used", "remaining"}

\* FillFromCatalog, for a document with every original provider.
Filled(providers) ==
  LET added(id) == IF id \in Ids(providers) THEN <<>> ELSE <<Setting(id, DefaultEnabled(id))>>
  IN  IF ORIGINAL_V10_PROVIDERS \subseteq Ids(providers)
      THEN providers \o FlattenSeq([i \in DOMAIN CatalogOrder |-> added(CatalogOrder[i])])
      ELSE providers

\* parse_with_policy(): the settings, or NoDocument for an error.
ParseWithPolicy(raw, fill) ==
  IF raw = NoDocument THEN NoDocument
  ELSE IF ~LegacyBlocksPass(raw) \/ ~Typed(raw) THEN NoDocument
  ELSE LET kept     == WithoutAmp(raw.providers)
           listed   == [i \in DOMAIN kept |-> Setting(kept[i].id, kept[i].enabled)]
           settings == [Settings(IF fill THEN Filled(listed) ELSE listed, raw.metric, raw.interval, raw.notify)
                          EXCEPT !.schema = raw.schema]
       IN  IF Valid(settings) THEN settings ELSE NoDocument

ParseStrict(raw) == ParseWithPolicy(raw, FALSE)

\* NoDocument is neither a Settings nor a document that one is written as.
ASSUME NoDocumentAssumption ==
  /\ NoDocument \notin
       [schema : {1}, providers : Seq([id : Catalog, enabled : BOOLEAN]), metric : {"used", "remaining"},
        interval : MIN_REFRESH..MAX_REFRESH, notify : BOOLEAN]
  /\ NoDocument \notin
       [schema : {1}, providers : Seq([id : Catalog, enabled : BOOLEAN, wellFormed : {TRUE}]),
        metric : {"used", "remaining"}, interval : MIN_REFRESH..MAX_REFRESH, notify : BOOLEAN,
        reminder : {None}, updates : {None}, closed : {TRUE}]

---------------------------------------------------------------------------
\* What the releases since 10.0 may have left on disk: every original provider
\* once, at most one entry of Amp's, and either legacy block.
WrittenByARelease(raw) ==
  /\ raw # NoDocument
  /\ raw.schema = 1 /\ raw.closed /\ raw.interval \in MIN_REFRESH..MAX_REFRESH
  /\ raw.metric \in {"used", "remaining"} /\ raw.notify \in BOOLEAN
  /\ raw.providers \in Seq([id : Catalog \cup {"amp"}, enabled : BOOLEAN, wellFormed : {TRUE}])
  /\ Cardinality(Ids(raw.providers)) = Len(raw.providers)
  /\ ORIGINAL_V10_PROVIDERS \subseteq Ids(raw.providers)
  /\ raw.reminder \in LEGACY_REMINDER_MINUTES \cup {None}
  /\ raw.updates \in {None, "automatic"}
=============================================================================
