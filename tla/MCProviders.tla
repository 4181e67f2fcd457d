---------------------------- MODULE MCProviders ----------------------------
(***************************************************************************)
(* What TLC takes ProviderCollection's inputs from: a few answers of each  *)
(* provider, chosen so that every field is once present, once absent, once *)
(* unreadable, and so that names collide.                                  *)
(***************************************************************************)
EXTENDS ProviderCollection

MCEnvironments ==
  [onPath : {TRUE}, fallback : {TRUE}, home : {"absolute"}, grokHome : {NULL, "invalid"}]
    \cup [onPath : {FALSE}, fallback : BOOLEAN, home : {"absolute", "relative"}, grokHome : {NULL, "valid", "invalid"}]

MCGrokFiles ==
  [is : {"missing", "unreadable", "torn", "empty"}] \cup
  [is : {"token"}, expires : {NULL, 0, 10000, 60000, 70000, 80000, 90000}]

MCClaudeFiles ==
  [is : {"missing", "empty"}] \cup [is : {"token"}, expires : {NULL, 0, 5000}, plan : {NULL, "max_5x"}]

---------------------------------------------------------------------------

Exchange(status, body) ==
  [ends |-> 0, reached |-> TRUE, broken |-> FALSE, large |-> FALSE, status |-> status, retryAfter |-> NULL, body |-> body]

MCExchanges ==
  {Exchange(status, NULL) : status \in {200, 302, 401, 403, 404, 500}} \cup
  {[Exchange(200, NULL) EXCEPT !.ends = ends, !.reached = FALSE] : ends \in {0, NULL}} \cup
  {[Exchange(200, NULL) EXCEPT !.ends = NULL], [Exchange(200, NULL) EXCEPT !.large = TRUE],
   [Exchange(200, NULL) EXCEPT !.broken = TRUE], [Exchange(503, NULL) EXCEPT !.ends = TIMEOUT],
   [Exchange(429, NULL) EXCEPT !.retryAfter = [form |-> "seconds", value |-> 5]],
   [Exchange(429, NULL) EXCEPT !.retryAfter = [form |-> "date", value |-> 7]]}

Slow(answers) == answers \cup {[a EXCEPT !.ends = TIMEOUT] : a \in answers}

GrokDoc ==
  [credit |-> NULL, period |-> [type |-> NULL, end |-> NULL], billingEnd |-> NULL, product |-> <<>>,
   limit |-> NULL, used |-> NULL, tier |-> NULL]

MCGrokAnswers == Slow({Exchange(200, doc) : doc \in {
  GrokDoc,
  [GrokDoc EXCEPT !.credit = 140, !.period = [type |-> "weekly", end |-> 0], !.billingEnd = 5],
  [GrokDoc EXCEPT !.product = <<NULL, 30, 20>>, !.period.type = "daily", !.tier = "supergrok"],
  [GrokDoc EXCEPT !.limit = 50, !.used = 20, !.billingEnd = 5, !.period.type = "foreign", !.tier = "heavy"],
  [GrokDoc EXCEPT !.limit = 0, !.used = 20]}})

AClaudeWindow(used) == [used |-> used, resetsAt |-> 5]

ClaudeDoc ==
  [five_hour |-> NULL, seven_day |-> NULL, oauth_apps |-> NULL, opus |-> NULL, sonnet |-> NULL,
   error |-> NULL, limits |-> <<>>, cedar |-> NULL, tide |-> NULL]

Limit(kind, model) == [kind |-> kind, used |-> 10, resetsAt |-> 0, model |-> model]

Grant(id, left, cooldown) ==
  [id |-> id, label |-> NULL, left |-> left, total |-> 2, ends |-> 9, clears |-> <<"seven_day", "other", "five_hour">>,
   paused |-> FALSE, usable |-> TRUE, cooldown |-> cooldown]

MCClaudeAnswers == Slow({Exchange(200, doc) : doc \in {
  ClaudeDoc,
  [ClaudeDoc EXCEPT !.error = "token_expired"],
  [ClaudeDoc EXCEPT !.error = "other"],
  [ClaudeDoc EXCEPT !.five_hour = AClaudeWindow(20), !.seven_day = AClaudeWindow(30), !.oauth_apps = AClaudeWindow(101)],
  [ClaudeDoc EXCEPT !.five_hour = AClaudeWindow(20),
     !.limits = <<Limit("session", NULL), Limit("weekly_all", NULL), Limit("seven_day", NULL),
                  Limit("weekly_scoped", <<"opus", "4">>), Limit("weekly_scoped", <<"opus", "5">>),
                  Limit("hourly", <<"opus", "6">>), Limit("hourly", NULL)>>,
     !.opus = AClaudeWindow(40), !.sonnet = AClaudeWindow(50)],
  [ClaudeDoc EXCEPT
     !.cedar = [eligible |-> TRUE, next |-> <<"spring", "">>,
                grants |-> <<Grant(<<"long", "">>, 1, NULL), Grant(<<"", "?">>, NULL, 3),
                             Grant(<<"spring", "">>, 1, 0), [Grant(<<"old", "">>, 1, NULL) EXCEPT !.paused = TRUE]>>],
     !.tide = [eligible |-> TRUE, available |-> FALSE, next |-> 4, weekly |-> NULL, perWeek |-> 1]]}})

---------------------------------------------------------------------------

ACodexWindow(minutes) == [used |-> 10, minutes |-> minutes, resetsAt |-> NULL]

Bucket(primary, secondary) ==
  [NoBucket EXCEPT !.primary = primary, !.secondary = secondary, !.plan = "free"]

Limits(root, byId) == [rateLimits |-> root, byLimitId |-> byId, plan |-> NULL, credits |-> 3]

Named(key, bucket) == [key |-> key, bucket |-> bucket]

MCLimitAnswers ==
  {[error |-> error, result |-> NULL] : error \in {"auth", "other", NULL}} \cup
  {[error |-> NULL, result |-> raw] : raw \in {
     Limits(NULL, NULL),
     Limits(Bucket(NULL, NULL), <<>>),
     Limits(Bucket(ACodexWindow(NULL), ACodexWindow(NULL)), NULL),
     Limits(Bucket(ACodexWindow(10080), ACodexWindow(NULL)), NULL),
     Limits([Bucket(ACodexWindow(60), ACodexWindow(60)) EXCEPT !.individual = [left |-> 40, resetsAt |-> 8]],
            <<Named(<<"a", "">>, Bucket(ACodexWindow(5), ACodexWindow(5))), Named(<<"a", "?">>, Bucket(ACodexWindow(7), NULL)),
              Named(<<"codex", "">>, Bucket(ACodexWindow(300), NULL)), Named(<<"premium", "">>, NoBucket)>>),
     Limits(NULL, <<Named(<<"a", "">>, Bucket(ACodexWindow(-1), NULL)), Named(<<"codex", "">>, Bucket(ACodexWindow(300), NULL))>>),
     Limits(NULL, <<Named(<<"b", "">>, Bucket(NULL, ACodexWindow(NULL)))>>)}}

MCAccounts == {NULL, "plus"}
MCArrivals == {0, TIMEOUT - GRACE \div 2, TIMEOUT}

---------------------------------------------------------------------------

Children(out) ==
  [starts : {FALSE}] \cup [starts : {TRUE}, broken : {TRUE}, ends : {TIMEOUT}, out : out] \cup
  [starts : {TRUE}, broken : {FALSE}, ends : {0, TIMEOUT, NULL}, code : {0, 1}, out : out]

MCVersionRuns == Children({[version |-> v] : v \in {NULL, MIN_VERSION - 1, MIN_VERSION}})
MCRenewalRuns == Children({NULL})

AgyBucket(id, left) == [id |-> id, left |-> left, reset |-> 6]
AgyDoc(status, buckets) == [status |-> status, buckets |-> buckets]

MCUsageRuns == Children({[banner |-> banner, doc |-> doc] : banner \in BOOLEAN, doc \in {
  NULL, AgyDoc("ERROR", <<>>), AgyDoc("SUCCESS", <<>>),
  AgyDoc("SUCCESS", <<AgyBucket("3p-5h", 100), AgyBucket("gemini-weekly", NULL), AgyBucket("other", 3),
                      AgyBucket("gemini-weekly", 30), AgyBucket("gemini-weekly", 60), AgyBucket("3p-weekly", -1)>>)}})
=============================================================================
