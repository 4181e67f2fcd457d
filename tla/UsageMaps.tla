----------------------------- MODULE UsageMaps -----------------------------
(***************************************************************************)
(* providers/v2_map.rs: how each provider's answer becomes windows and     *)
(* resets.  An answer is the record its document parses to, and NULL when  *)
(* it does not parse; an absent field is NULL.  A date is NULL, zero when  *)
(* it cannot be read, or an instant.  A name is the pair of what           *)
(* sanitizing keeps of it and what it drops.                               *)
(***************************************************************************)
EXTENDS StatusSchema, SequencesExt

SESSION_MINUTES == 300
WEEK_MINUTES == 10080

Name == STRING \X STRING
RawDate == Optional(Nat)

\* The words of identifiers and of resets are strings, which the provers do
\* not know of a literal.
ASSUME WordAssumption ==
  {"session", "weekly", "monthly", "other", "2", "workspace-limit", "codex", "bucket", "weekly-model",
   "model", "opus", "sonnet", "gemini-weekly", "gemini-5h", "3p-weekly", "3p-5h",
   "codex-credits", "cedar-ember", "juniper-tide", ""} \subseteq STRING

Clamp(percent) == IF percent < 0 THEN 0 ELSE IF percent > 100 THEN 100 ELSE percent

Date(raw) == IF raw = NULL \/ raw = 0 THEN NULL ELSE raw

\* sanitize_bucket_id(), and the same rule in weekly_model_id().
Sanitized(name, default) == IF name[1] = "" THEN default ELSE name[1]

Or(optional, default) == IF optional = NULL THEN default ELSE optional

\* The elements of a list that are in S, in their order.
Among(list, S) == FlattenSeq([i \in DOMAIN list |-> IF list[i] \in S THEN <<list[i]>> ELSE <<>>])

WindowOf(id, used, resetsAt, minutes) ==
  TryWindow(id, Clamp(used), 100 - Clamp(used), resetsAt, minutes)

\* push_window_unique(), of a sequence of no window or one.
PushUnique_Always(windows, w) == windows \o w
PushUnique(windows, w) ==
  IF w # <<>> /\ \E i \in DOMAIN windows : windows[i].id = w[1].id THEN windows ELSE windows \o w

---------------------------------------------------------------------------
(* Grok.                                                                   *)

GrokBillingDoc ==
  [credit : Optional(Int), product : Seq(Optional(Int)), limit : Optional(Int), used : Optional(Int),
   period : [type : Optional(STRING), end : RawDate], billingEnd : RawDate, tier : Optional(STRING)]

\* grok_window_identity(): a period type is NULL, a type with the known
\* prefix by what follows it, or "foreign".
GrokWindowId(type) == IF type \in {NULL, "foreign"} THEN <<"weekly">> ELSE <<type>>

GrokWindowMinutes(type) == IF type = "weekly" THEN WEEK_MINUTES ELSE NULL

GrokProductUsed(doc) ==
  LET known == {doc.product[i] : i \in DOMAIN doc.product} \ {NULL}
  IN  IF known = {} THEN NULL ELSE CHOOSE best \in known : \A used \in known : used <= best

GrokMonthlyUsed(doc) ==
  IF doc.limit = NULL \/ doc.used = NULL THEN NULL
  ELSE IF doc.limit <= 0 THEN NULL
  ELSE (doc.used * 100) \div doc.limit

\* grok_billing_resets_at(): a period's end hides the billing period's end
\* even when it cannot be read.
GrokResetsAt(doc) == Date(Or(doc.period.end, doc.billingEnd))

\* grok_from_billing_json()
GrokResult(doc, now) ==
  LET type    == doc.period.type
      metered == Or(doc.credit, GrokProductUsed(doc))
      window  == IF metered # NULL
                 THEN WindowOf(GrokWindowId(type), metered, GrokResetsAt(doc), GrokWindowMinutes(type))
                 ELSE IF GrokMonthlyUsed(doc) # NULL
                 THEN WindowOf(<<"monthly">>, GrokMonthlyUsed(doc), GrokResetsAt(doc), NULL)
                 ELSE <<>>
  IN  IF doc = NULL THEN ErrorResult("grok", FALSE)
      ELSE ReadyResult("grok", doc.tier, window, now, <<>>)

---------------------------------------------------------------------------
(* Codex.                                                                  *)

CodexWindowRaw == [used : Int, minutes : Optional(Int), resetsAt : Optional(Int)]
CodexIndividualLimitRaw == [left : Int, resetsAt : Optional(Int)]
CodexExtraBucketRaw ==
  [limitId : Name, primary : Optional(CodexWindowRaw), secondary : Optional(CodexWindowRaw)]
CodexRateLimitsDoc ==
  [plan : Optional(STRING), primary : Optional(CodexWindowRaw), secondary : Optional(CodexWindowRaw),
   individual : Optional(CodexIndividualLimitRaw), extras : Seq(CodexExtraBucketRaw), credits : Optional(Nat)]

CodexWindowId(minutes, ordinal) ==
  CASE minutes = WEEK_MINUTES -> <<"weekly">>
    [] minutes = SESSION_MINUTES -> <<"session">>
    [] minutes \notin {NULL, WEEK_MINUTES, SESSION_MINUTES} /\ minutes > 0 -> <<"other", ToString(minutes), ToString(ordinal)>>
    [] OTHER -> IF ordinal = 1 THEN <<"session">> ELSE <<"weekly">>

PositiveInstant(seconds) == IF seconds = NULL \/ seconds <= 0 THEN NULL ELSE seconds

\* codex_window(): a length that is no positive number is left out.
CodexWindow(id, raw) ==
  WindowOf(id, raw.used, PositiveInstant(raw.resetsAt), PositiveInstant(raw.minutes))

CodexSlot(id, raw) == IF raw = NULL THEN <<>> ELSE CodexWindow(id, raw)

CodexBucket(windows, bucket) ==
  LET name == Sanitized(bucket.limitId, "bucket")
  IN  PushUnique(PushUnique(windows, CodexSlot(<<"codex", name>>, bucket.primary)),
                 CodexSlot(<<"codex", name, "2">>, bucket.secondary))

\* The two main slots are pushed unconditionally.
CodexMainWindows(doc) ==
  LET slot(raw, ordinal) == IF raw = NULL THEN <<>> ELSE CodexWindow(CodexWindowId(raw.minutes, ordinal), raw)
  IN  slot(doc.primary, 1) \o slot(doc.secondary, 2)

CodexWorkspaceLimit(limit) ==
  IF limit = NULL THEN <<>>
  ELSE WindowOf(<<"workspace-limit">>, 100 - Clamp(limit.left), PositiveInstant(limit.resetsAt), NULL)

NoDates == [expires |-> NULL, refills |-> NULL, cooldown |-> NULL]

CodexCredits(count) ==
  IF count \in {NULL, 0} THEN <<>>
  ELSE TryReset(<<"codex-credits">>, "resets", count, NULL, <<>>, NoDates, FALSE)

\* codex_from_rate_limits_json()
CodexResult(doc, now) ==
  IF doc = NULL THEN ErrorResult("codex", FALSE)
  ELSE ReadyResult("codex", doc.plan,
         FoldLeft(CodexBucket, CodexMainWindows(doc), doc.extras) \o CodexWorkspaceLimit(doc.individual),
         now, CodexCredits(doc.credits))

---------------------------------------------------------------------------
(* Claude.                                                                 *)

ClaudeWindowRaw == [used : Int, resetsAt : RawDate]
ClaudeLimitRaw == [kind : STRING, used : Optional(Int), resetsAt : RawDate, model : Optional(Name)]
ClaudeCedarEmberGrantRaw ==
  [id : Name, label : Optional(STRING), left : Optional(Nat), total : Optional(Nat), ends : RawDate,
   clears : Seq(STRING), paused : BOOLEAN, usable : BOOLEAN, cooldown : RawDate]
ClaudeCedarEmberRaw == [eligible : BOOLEAN, next : Optional(Name), grants : Seq(ClaudeCedarEmberGrantRaw)]
ClaudeJuniperTideRaw ==
  [eligible : BOOLEAN, available : BOOLEAN, next : RawDate, weekly : RawDate, perWeek : Optional(Nat)]
ClaudeUsageDoc ==
  [five_hour : Optional(ClaudeWindowRaw), seven_day : Optional(ClaudeWindowRaw),
   oauth_apps : Optional(ClaudeWindowRaw), opus : Optional(ClaudeWindowRaw), sonnet : Optional(ClaudeWindowRaw),
   error : Optional(STRING), limits : Seq(ClaudeLimitRaw), cedar : Optional(ClaudeCedarEmberRaw),
   tide : Optional(ClaudeJuniperTideRaw)]

ClaudeWindow(id, raw, minutes) ==
  IF raw = NULL THEN <<>> ELSE WindowOf(id, raw.used, Date(raw.resetsAt), minutes)

\* weekly_model_id(): the first two scoped limits carry no ordinal.
WeeklyModelId(name, ordinal) ==
  <<"weekly-model", Sanitized(name, "model")>> \o (IF ordinal <= 1 THEN <<>> ELSE <<ToString(ordinal)>>)

\* One entry of limits[]; `acc.scoped' counts the model windows so far.
ClaudeLimit(acc, limit) ==
  LET raw     == [used |-> limit.used, resetsAt |-> limit.resetsAt]
      grouped == limit.kind \in {"session", "weekly_all"}
      window  == CASE limit.kind = "session" -> ClaudeWindow(<<"session">>, raw, SESSION_MINUTES)
                   [] limit.kind = "weekly_all" -> ClaudeWindow(<<"weekly">>, raw, WEEK_MINUTES)
                   [] OTHER -> ClaudeWindow(WeeklyModelId(Or(limit.model, <<"model", "">>), acc.scoped), raw,
                                            IF limit.kind = "weekly_scoped" THEN WEEK_MINUTES ELSE NULL)
  IN  IF limit.used = NULL \/ limit.kind \in {"five_hour", "seven_day", "seven_day_oauth_apps"}
      THEN acc
      ELSE [windows |-> PushUnique(acc.windows, window),
            scoped  |-> IF grouped THEN acc.scoped ELSE acc.scoped + 1]

ClaudeWindows(doc) ==
  LET session == ClaudeWindow(<<"session">>, doc.five_hour, SESSION_MINUTES)
      week    == ClaudeWindow(<<"weekly">>, Or(doc.oauth_apps, doc.seven_day), WEEK_MINUTES)
      limits  == FoldLeft(ClaudeLimit, [windows |-> PushUnique(session, week), scoped |-> 0], doc.limits)
      opus    == ClaudeWindow(WeeklyModelId(<<"opus", "">>, 0), doc.opus, WEEK_MINUTES)
      sonnet  == ClaudeWindow(WeeklyModelId(<<"sonnet", "">>, 0), doc.sonnet, WEEK_MINUTES)
  IN  PushUnique(PushUnique(limits.windows, opus), sonnet)

\* claude_reset_clears()
Clears(keys) ==
  LET known == Among(keys, {"five_hour", "seven_day"})
  IN  [i \in DOMAIN known |-> IF known[i] = "five_hour" THEN "session" ELSE "weekly"]

GrantOffered(grant) == ~grant.paused /\ (Or(grant.left, 0) > 0 \/ grant.cooldown # NULL)

GrantReset(grant) ==
  TryReset(<<"cedar-ember", Sanitized(grant.id, "bucket")>>, Or(grant.label, "Usage reset"),
           Or(grant.left, 0), grant.total, Clears(grant.clears),
           [expires |-> Date(grant.ends), refills |-> NULL, cooldown |-> Date(grant.cooldown)],
           grant.usable /\ Date(grant.cooldown) = NULL)

\* claude_cedar_ember_resets(): the next grant first, the others in order.
CedarEmberResets(cedar) ==
  LET grants  == cedar.grants
      offered == {grants[i] : i \in {j \in DOMAIN grants : GrantOffered(grants[j])}}
      first   == {g \in offered : g.id = cedar.next}
      sorted  == Among(grants, first) \o Among(grants, offered \ first)
  IN  IF cedar = NULL THEN <<>>
      ELSE IF ~cedar.eligible THEN <<>>
      ELSE FlattenSeq([i \in DOMAIN sorted |-> GrantReset(sorted[i])])

\* claude_cedar_ember_raw_grant_id(): NULL unless one grant only has the name.
RawGrantId(doc, name) ==
  LET grants == IF doc = NULL \/ doc.cedar = NULL THEN <<>> ELSE doc.cedar.grants
      named  == {i \in DOMAIN grants : Sanitized(grants[i].id, "bucket") = name}
  IN  IF \E i \in named : named = {i} THEN grants[CHOOSE i \in named : TRUE].id ELSE NULL

\* claude_juniper_tide_reset()
JuniperTideReset(tide) ==
  IF tide = NULL THEN <<>>
  ELSE IF ~tide.eligible \/ (~tide.available /\ tide.next = NULL) THEN <<>>
  ELSE TryReset(<<"juniper-tide">>, "Weekly reset", IF tide.available THEN 1 ELSE 0, tide.perWeek,
                <<"session">>,
                [expires |-> NULL, refills |-> Date(Or(tide.next, tide.weekly)), cooldown |-> NULL],
                tide.available)

\* claude_from_usage_json()
ClaudeResult(doc, now, plan, login) ==
  IF doc = NULL THEN ErrorResult("claude", FALSE)
  ELSE IF doc.error = "token_expired" THEN UnauthenticatedResult("claude", login, TRUE)
  ELSE IF doc.error # NULL THEN ErrorResult("claude", FALSE)
  ELSE ReadyResult("claude", plan, ClaudeWindows(doc), now,
                   CedarEmberResets(doc.cedar) \o JuniperTideReset(doc.tide))

---------------------------------------------------------------------------
(* Antigravity.                                                            *)

AntigravityBucket == [id : STRING, left : Optional(Int), reset : RawDate]
AntigravityDoc == [status : STRING, buckets : Seq(AntigravityBucket)]

AntigravitySlots ==
  <<[id |-> "gemini-weekly", minutes |-> WEEK_MINUTES], [id |-> "gemini-5h", minutes |-> SESSION_MINUTES],
    [id |-> "3p-weekly", minutes |-> WEEK_MINUTES], [id |-> "3p-5h", minutes |-> SESSION_MINUTES]>>

\* A slot shows the first of its buckets that states what is left; a full
\* bucket has no reset.
AntigravityWindow(slot, buckets) ==
  LET stated == {i \in DOMAIN buckets : buckets[i].id = slot.id /\ buckets[i].left # NULL}
      bucket == buckets[Min(stated)]
  IN  IF stated = {} THEN <<>>
      ELSE WindowOf(<<slot.id>>, 100 - Clamp(bucket.left),
                    IF bucket.left < 100 THEN Date(bucket.reset) ELSE NULL, slot.minutes)

\* antigravity_from_usage_json()
AntigravityResult(doc, now) ==
  IF doc = NULL THEN ErrorResult("antigravity", FALSE)
  ELSE IF doc.status # "SUCCESS" THEN ErrorResult("antigravity", FALSE)
  ELSE ReadyResult("antigravity", NULL,
         FlattenSeq([i \in 1..4 |-> AntigravityWindow(AntigravitySlots[i], doc.buckets)]), now, <<>>)
=============================================================================
