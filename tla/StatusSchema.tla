---------------------------- MODULE StatusSchema ----------------------------
(***************************************************************************)
(* status/schema.rs and status/collect.rs: the rows of the status          *)
(* document, how they are made, and what the document may say.  A          *)
(* constructor that returns Err in the code is NULL here.  Names, labels   *)
(* and messages are left out, percentages are whole numbers, and instants  *)
(* are positive numbers.                                                   *)
(***************************************************************************)
EXTENDS Integers, Sequences, FiniteSets

CONSTANTS
  NULL,
  LongIds  \* the identifiers longer than RESET_GRANT_ID_MAX_CHARS

Optional(S) == S \cup {NULL}

ProviderId == {"claude", "codex", "grok", "antigravity"}
Failures == {"cli_missing", "unauthenticated", "rate_limited", "network_error", "provider_error"}
ProviderState == {"ready", "stale"} \cup Failures
DataSource == {"live", "cache"}
ActionKind == {"retry", "login", "view_installation"}

---------------------------------------------------------------------------
(* Windows and resets.                                                     *)

Percent == 0..100
Instant == Nat
Id == Seq(STRING)  \* its parts, between colons

UsageWindow ==
  [id : Id, used : Percent, left : Percent, resetsAt : Optional(Instant), minutes : Optional(Nat)]

UsageReset ==
  [id : Id, available : Nat, total : Optional(Nat), clears : Seq(STRING), expiresAt : Optional(Instant),
   refillsAt : Optional(Instant), cooldownUntil : Optional(Instant), claimable : BOOLEAN]

ValidWindow(w) ==
  /\ w.used \in Percent /\ w.left \in Percent
  /\ w.used + w.left = 100
  /\ w.minutes # 0

\* UsageWindow::try_new() as a sequence of one window, or of none.
TryWindow(id, used, left, resetsAt, minutes) ==
  LET window == [id |-> id, used |-> used, left |-> left, resetsAt |-> resetsAt, minutes |-> minutes]
  IN  IF ValidWindow(window) THEN <<window>> ELSE <<>>

UniqueWindowIds(windows) ==
  \A i, j \in DOMAIN windows : windows[i].id = windows[j].id => i = j

\* validate_reset_id(): the suffix of a cedar-ember id is a sanitized name.
ValidResetId(id) ==
  \/ id \in {<<"juniper-tide">>, <<"codex-credits">>}
  \/ Len(id) = 2 /\ id[1] = "cedar-ember" /\ id[2] \notin LongIds \cup {""}

\* UsageReset::try_new(): `label' is "" when nothing of it is printable.
TryReset(id, label, available, total, clears, dates, claimable) ==
  IF ValidResetId(id) /\ label # ""
  THEN <<[id |-> id, available |-> available, total |-> total, clears |-> clears,
          expiresAt |-> dates.expires, refillsAt |-> dates.refills,
          cooldownUntil |-> dates.cooldown, claimable |-> claimable]>>
  ELSE <<>>

---------------------------------------------------------------------------
(* Rows.                                                                   *)

ProviderError == [retryable : BOOLEAN]

ProviderStatus ==
  [id : ProviderId, state : ProviderState, source : Optional(DataSource), plan : Optional(STRING),
   windows : Seq(UsageWindow), lastSuccessAt : Optional(Instant), error : Optional(ProviderError),
   action : Optional(ActionKind), resets : Seq(UsageReset)]

ASSUME NullAssumption ==
  NULL \notin Nat \cup DataSource \cup ProviderError \cup ActionKind /\ NULL \notin ProviderStatus

Failure(id, state, retryable, action) ==
  [id |-> id, state |-> state, source |-> NULL, plan |-> NULL, windows |-> <<>>,
   lastSuccessAt |-> NULL, error |-> [retryable |-> retryable], action |-> action, resets |-> <<>>]

Ready_Unchecked(id, source, plan, windows, at) ==
  [id |-> id, state |-> "ready", source |-> source, plan |-> plan, windows |-> windows,
   lastSuccessAt |-> at, error |-> NULL, action |-> NULL, resets |-> <<>>]
Ready(id, source, plan, windows, at) ==
  IF UniqueWindowIds(windows)
  THEN [id |-> id, state |-> "ready", source |-> source, plan |-> plan, windows |-> windows,
        lastSuccessAt |-> at, error |-> NULL, action |-> NULL, resets |-> <<>>]
  ELSE NULL

Stale(id, plan, windows, at, error, action) ==
  IF UniqueWindowIds(windows) /\ action = "retry"
  THEN [id |-> id, state |-> "stale", source |-> "cache", plan |-> plan, windows |-> windows,
        lastSuccessAt |-> at, error |-> error, action |-> action, resets |-> <<>>]
  ELSE NULL

CliMissing(id, retryable, action) ==
  IF action = "view_installation" THEN Failure(id, "cli_missing", retryable, action) ELSE NULL

Unauthenticated(id, retryable, action) ==
  IF action \in {"login", "view_installation"}
  THEN Failure(id, "unauthenticated", retryable, action)
  ELSE NULL

\* failure_state(), for rate_limited() and network_error().
PassingFailure(id, state, retryable, action) ==
  IF retryable /\ action = "retry" THEN Failure(id, state, retryable, action) ELSE NULL

ProviderErrorRow(id, retryable, action) ==
  IF action = "retry" THEN Failure(id, "provider_error", retryable, action) ELSE NULL

WithResets(row, resets) == IF row = NULL THEN NULL ELSE [row EXCEPT !.resets = resets]

ValidateStateShape(row) ==
  /\ row.state = "ready" =>
       row.source # NULL /\ row.lastSuccessAt # NULL /\ row.error = NULL /\ row.action = NULL
  /\ row.state = "stale" =>
       row.source = "cache" /\ row.lastSuccessAt # NULL /\ row.error # NULL /\ row.action = "retry"
  /\ row.state \in Failures =>
       /\ row.source = NULL /\ row.windows = <<>> /\ row.lastSuccessAt = NULL
       /\ row.error # NULL /\ row.action # NULL
  /\ UniqueWindowIds(row.windows)

\* for_cache_hit()
ForCacheHit(row) ==
  IF row.state # "ready" THEN row
  ELSE IF row.lastSuccessAt = NULL THEN NULL
  ELSE WithResets(Ready(row.id, "cache", row.plan, row.windows, row.lastSuccessAt), row.resets)

\* retain_as_stale()
RetainAsStale(row, error) ==
  IF row.lastSuccessAt = NULL \/ row.state \notin {"ready", "stale"} THEN NULL
  ELSE WithResets(Stale(row.id, row.plan, row.windows, row.lastSuccessAt, error, "retry"), row.resets)

\* is_temporary_failure()
IsTemporaryFailure(row) ==
  \/ row.state \in {"network_error", "rate_limited"}
  \/ row.state \in {"provider_error", "unauthenticated"} /\ row.error.retryable

---------------------------------------------------------------------------
(* The document.                                                           *)

\* StatusEnvelope::validate_semantics()
ValidateSemantics(request, providers) ==
  /\ request.provider # NULL => Len(providers) = 1 /\ providers[1].id = request.provider
  /\ \A i, j \in DOMAIN providers : providers[i].id = providers[j].id => i = j
  /\ \A i \in DOMAIN providers :
       /\ ValidateStateShape(providers[i])
       /\ \A k \in DOMAIN providers[i].windows : ValidWindow(providers[i].windows[k])

---------------------------------------------------------------------------
(* What an adapter returns, and the row made of it.                        *)

ReadyResult(id, plan, windows, at, resets) ==
  [kind |-> "ready", id |-> id, plan |-> plan, windows |-> windows, at |-> at, resets |-> resets]
MissingResult(id) == [kind |-> "cli_missing", id |-> id]
UnauthenticatedResult(id, login, retryable) ==
  [kind |-> "unauthenticated", id |-> id, login |-> login, retryable |-> retryable]
LimitedResult(id, retryAt) == [kind |-> "rate_limited", id |-> id, retryAt |-> retryAt]
NetworkResult(id) == [kind |-> "network_error", id |-> id]
ErrorResult(id, retryable) == [kind |-> "provider_error", id |-> id, retryable |-> retryable]

\* provider_status_from_result()
StatusFromResult(r) ==
  CASE r.kind = "ready" -> WithResets(Ready(r.id, "live", r.plan, r.windows, r.at), r.resets)
    [] r.kind = "cli_missing" -> CliMissing(r.id, FALSE, "view_installation")
    [] r.kind = "unauthenticated" ->
         Unauthenticated(r.id, r.retryable, IF r.login THEN "login" ELSE "view_installation")
    [] r.kind \in {"rate_limited", "network_error"} -> PassingFailure(r.id, r.kind, TRUE, "retry")
    [] r.kind = "provider_error" -> ProviderErrorRow(r.id, r.retryable, "retry")
=============================================================================
