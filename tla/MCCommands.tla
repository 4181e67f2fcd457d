----------------------------- MODULE MCCommands -----------------------------
(***************************************************************************)
(* What TLC takes HelperCommands' inputs from.                             *)
(***************************************************************************)
EXTENDS HelperCommands, TLC

Symmetry == Permutations(Helpers)

MCVectors == {
  <<>>, <<"--help">>, <<"--version">>, <<"--version", "x">>, <<"help">>, <<"help", "reset">>, <<"help", "x">>,
  <<"version">>, <<"status", "format", "json", "format", "human">>, <<"status", "cache">>, <<"status", "cache", "on">>,
  <<"login", "grok">>, <<"login", "amp">>, <<"config", "show">>, <<"config", "show", "x">>, <<"config", "apply">>,
  <<"config", "apply", "file", "-">>, <<"config", "apply", "file", "-x">>, <<"config", "apply", "json", "-x">>,
  <<"update">>, <<"update", "run", "t1">>, <<"update", "run", "t">>, <<"update", "now">>,
  <<"uninstall">>, <<"uninstall", "purge">>, <<"uninstall", "all">>,
  <<"reset", "codex", "id">>, <<"reset", "claude", "-x">>, <<"restart">>, <<"-x">>}

Targets == [all : BOOLEAN, ids : {{}, {"grok"}, {"claude", "codex"}}]

MCIntents ==
  [kind : {"status"}, targets : Targets] \cup
  {[kind |-> "login", provider |-> "codex"], [kind |-> "reset", id |-> "id"]} \cup
  [kind : {"uninstall"}, purge : BOOLEAN] \cup
  [kind : {"show", "apply", "check", "update", "progress"}]

Entry(id, enabled) == [id |-> id, enabled |-> enabled, wellFormed |-> TRUE]

Saved == Document(Defaults)
\* What release 10.0 wrote, Amp's entry among the others, and the blocks it had.
Original == [Saved EXCEPT
  !.providers = <<Entry("grok", TRUE), Entry("amp", TRUE), Entry("claude", FALSE), Entry("codex", TRUE)>>,
  !.metric = "used", !.reminder = 15, !.updates = "automatic"]

MCFirstFiles == {
  NoFile, NoDocument, Original,
  [Saved EXCEPT !.providers = SubSeq(@, 1, 3), !.interval = MAX_REFRESH]}

MCDocuments == {
  NoDocument, Saved,
  [Original EXCEPT !.providers = <<Entry("antigravity", TRUE)>> \o @],
  [Saved EXCEPT !.providers = SubSeq(@, 1, 3)],
  [Saved EXCEPT !.providers = Append(@, Entry("grok", TRUE))],
  [Saved EXCEPT !.closed = FALSE],
  [Saved EXCEPT !.interval = MAX_REFRESH + 1]}

MCReceipts ==
  LET receipt == [schema |-> 1, plugin |-> "othavi0.agent-bar", target |-> "x86_64-unknown-linux-gnu", contract |-> 1,
                  version |-> CARGO_VERSION, minimum |-> MINIMUM_QUICKSHELL_VERSION]
      bodies  == {NoReceipt, [receipt EXCEPT !.contract = 2], [receipt EXCEPT !.version = NoVersion]} \cup
                 {[receipt EXCEPT !.version = v, !.minimum = m] :
                    v \in {CARGO_VERSION, CARGO_VERSION + 1},
                    m \in {MINIMUM_QUICKSHELL_VERSION, MINIMUM_QUICKSHELL_VERSION + 1}}
  IN  {NoReceipt, [status |-> 404, body |-> receipt]} \cup [status : {200}, body : bodies]

MCQuickshells ==
  [exit : {0}, version : {MINIMUM_QUICKSHELL_VERSION - 1, MINIMUM_QUICKSHELL_VERSION + 1, NoVersion}]

MCAnswers ==
  [tty : {TRUE}, text : {"uninstall agent-bar", "yes"}] \cup
  [tty : {FALSE}, text : {Confirmation(TRUE), Confirmation(FALSE), [Confirmation(TRUE) EXCEPT !.confirmed = FALSE]}]
=============================================================================
