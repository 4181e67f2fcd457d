---------------------------- MODULE CommandLine ----------------------------
(***************************************************************************)
(* cli/grammar.rs and cli/command.rs: the command a list of words is, and  *)
(* the argument lists the plugin builds (CoreService.js,                   *)
(* CoreMaintenance.js, CoreSettings.js).  A word is an opaque value; what  *)
(* its first character is matters only for the words in Dashed.            *)
(***************************************************************************)
EXTENDS Integers, Sequences, FiniteSets

CONSTANTS
  Dashed,  \* the words in use that begin with a dash
  Txids    \* the words in use that are 32 lowercase hex digits

\* ProviderId::ALL, the catalog's order.
CatalogOrder == <<"claude", "codex", "grok", "antigravity">>
Catalog == {CatalogOrder[i] : i \in DOMAIN CatalogOrder}

HelpTopics == {"status", "login", "config", "update", "uninstall", "reset", "help", "version"}

Refused == [verb |-> "refused"]
Only(verb) == [verb |-> verb]

---------------------------------------------------------------------------
(* status: clauses in any order, each at most once.                        *)

Clauses ==
  [format |-> {"human", "json"}, provider |-> Catalog,
   cache |-> {"use", "bypass"}, notifications |-> {"evaluate", "skip"}]

\* StatusOptions::default()
DefaultOptions == [format |-> "human", provider |-> "all", cache |-> "use", notifications |-> "skip"]

ParseStatus_LastWins(words) ==
  LET names == {i \in DOMAIN words : i % 2 = 1}
      valid == /\ Len(words) % 2 = 0
               /\ \A i \in names : words[i] \in DOMAIN Clauses /\ words[i + 1] \in Clauses[words[i]]
  IN  IF ~valid THEN Refused
      ELSE [verb |-> "status",
            options |-> [c \in DOMAIN Clauses |->
              LET at == {i \in names : words[i] = c /\ c # "provider"}
              IN IF at = {} THEN DefaultOptions[c] ELSE words[1 + CHOOSE i \in at : TRUE]]]
ParseStatus(words) ==
  LET names == {i \in DOMAIN words : i % 2 = 1}
      valid == /\ Len(words) % 2 = 0
               /\ \A i \in names : words[i] \in DOMAIN Clauses /\ words[i + 1] \in Clauses[words[i]]
               /\ \A i, j \in names : words[i] = words[j] => i = j
  IN  IF ~valid THEN Refused
      ELSE [verb |-> "status",
            options |-> [c \in DOMAIN Clauses |->
              LET at == {i \in names : words[i] = c}
              IN IF at = {} THEN DefaultOptions[c] ELSE words[1 + CHOOSE i \in at : TRUE]]]

---------------------------------------------------------------------------
(* The other commands.                                                     *)

ParseLogin(words) ==
  IF Len(words) = 1 /\ words[1] \in Catalog THEN [verb |-> "login", provider |-> words[1]] ELSE Refused

\* A file named by a word with a dash is refused, "-" excepted; a JSON value is not.
ParseConfig(words) ==
  LET apply == Len(words) >= 2 /\ words[1] = "apply"
  IN  IF words = <<"show">> THEN Only("config show")
      ELSE IF apply /\ Len(words) = 2 /\ words[2] = "stdin" THEN [verb |-> "config apply", from |-> "stdin"]
      ELSE IF apply /\ Len(words) = 3 /\ words[2] = "json" THEN [verb |-> "config apply", from |-> "json"]
      ELSE IF apply /\ Len(words) = 3 /\ words[2] = "file" /\ words[3] \notin Dashed \ {"-"}
      THEN [verb |-> "config apply", from |-> "file"]
      ELSE Refused

ParseUpdate(words) ==
  IF words = <<>> THEN Only("update")
  ELSE IF words = <<"check">> THEN Only("update check")
  ELSE IF words = <<"apply">> THEN Only("update apply")
  ELSE IF words = <<"status">> THEN Only("update status")
  ELSE IF Len(words) = 2 /\ words[1] = "run" /\ words[2] \in Txids
  THEN [verb |-> "update run", txid |-> words[2]]
  ELSE Refused

ParseUninstall(words) ==
  IF words \in {<<>>, <<"purge">>} THEN [verb |-> "uninstall", purge |-> words # <<>>] ELSE Refused

\* The id's own shape is judged later.
ParseReset(words) ==
  IF Len(words) = 2 /\ words[1] = "claude" /\ words[2] \notin Dashed
  THEN [verb |-> "reset", id |-> words[2]]
  ELSE Refused

ParseHelp(words) ==
  IF words = <<>> THEN Only("help")
  ELSE IF Len(words) = 1 /\ words[1] \in HelpTopics THEN [verb |-> "help", topic |-> words[1]]
  ELSE Refused

\* parse_tokens(): no word at all is a status.
Parse(words) ==
  LET rest == IF words = <<>> THEN <<>> ELSE Tail(words)
  IN  IF words = <<>> THEN ParseStatus(<<>>)
      ELSE CASE words[1] = "--help"    -> IF rest = <<>> THEN Only("help") ELSE Refused
             [] words[1] = "--version" -> IF rest = <<>> THEN Only("version") ELSE Refused
             [] words[1] = "status"    -> ParseStatus(rest)
             [] words[1] = "login"     -> ParseLogin(rest)
             [] words[1] = "config"    -> ParseConfig(rest)
             [] words[1] = "update"    -> ParseUpdate(rest)
             [] words[1] = "uninstall" -> ParseUninstall(rest)
             [] words[1] = "reset"     -> ParseReset(rest)
             [] words[1] = "help"      -> ParseHelp(rest)
             [] words[1] = "version"   -> IF rest = <<>> THEN Only("version") ELSE Refused
             [] OTHER -> Refused

---------------------------------------------------------------------------
(* What the plugin asks for: a status of targets ([all, ids]), a login, a  *)
(* reset and so on.                                                        *)

\* statusArgv(): one target is named, several are asked for as all.
StatusArgv(targets) ==
  LET cache == IF targets.all \/ targets.ids # {} THEN "bypass" ELSE "use"
      one   == IF ~targets.all /\ Cardinality(targets.ids) = 1
               THEN <<"provider", CHOOSE id \in targets.ids : TRUE>> ELSE <<>>
  IN  <<"status", "format", "json", "cache", cache, "notifications", "evaluate">> \o one

Argv(intent) ==
  CASE intent.kind = "status"    -> StatusArgv(intent.targets)
    [] intent.kind = "login"     -> <<"login", intent.provider>>
    [] intent.kind = "reset"     -> <<"reset", "claude", intent.id>>
    [] intent.kind = "show"      -> <<"config", "show">>
    [] intent.kind = "apply"     -> <<"config", "apply", "stdin">>
    [] intent.kind = "check"     -> <<"update", "check">>
    [] intent.kind = "update"    -> <<"update", "apply">>
    [] intent.kind = "progress"  -> <<"update", "status">>
    [] intent.kind = "uninstall" -> IF intent.purge THEN <<"uninstall", "purge">> ELSE <<"uninstall">>
=============================================================================
