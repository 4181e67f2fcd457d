----------------------------- MODULE AppServer -----------------------------
(***************************************************************************)
(* providers/codex_app_server.rs: one exchange with `codex app-server',    *)
(* which is asked for the account and for the rate limits, answers late,   *)
(* in any order, with an error or not at all, and may close its output.    *)
(* It answers each request once at most.                                   *)
(***************************************************************************)
EXTENDS UsageMaps

CONSTANTS
  Accounts,       \* bound: the plans account/read may answer with, or NULL
  LimitAnswers,   \* bound: the answers to account/rateLimits/read
  Arrivals,       \* bound: when, after the start, a line may arrive
  EXCHANGE_TIMEOUT,
  GRACE           \* how long the account is waited for after the limits

CodexAppServerBucket ==
  [limitId : Optional(Name), primary : Optional(CodexWindowRaw), secondary : Optional(CodexWindowRaw),
   plan : Optional(STRING),
   individual : Optional([left : Optional(Int), resetsAt : Optional(Int)])]
CodexAppServerRateLimits ==
  [rateLimits : Optional(CodexAppServerBucket),
   byLimitId  : Optional(Seq([key : Name, bucket : CodexAppServerBucket])),
   plan       : Optional(STRING), credits : Optional(Nat)]
AppServerResponse ==
  [error : Optional({"auth", "other"}), result : Optional(CodexAppServerRateLimits)]

ASSUME ServerAssumption ==
  /\ LimitAnswers \subseteq AppServerResponse /\ Accounts \subseteq Optional(STRING)
  /\ Arrivals \subseteq Nat /\ EXCHANGE_TIMEOUT \in Nat /\ GRACE \in Nat

VARIABLES
  exchange,     \* "none", "opening", "asked" or "over"
  elapsed,      \* time since the exchange began
  accountKnown, accountPlan,
  rateLimits,   \* the last answer that said anything, or NULL
  graceAt,      \* when the grace timer fires, or NULL while it is not armed
  answered,     \* the requests the server has answered
  outcome       \* what the exchange came to, or NULL

serverVars == <<exchange, elapsed, accountKnown, accountPlan, rateLimits, graceAt, answered, outcome>>

ServerInit ==
  /\ exchange = "none" /\ elapsed = 0 /\ accountKnown = FALSE /\ accountPlan = NULL
  /\ rateLimits = NULL /\ graceAt = NULL /\ answered = {} /\ outcome = NULL

---------------------------------------------------------------------------
(* normalize_to_rate_limits_json(): the buckets listed by id are in the    *)
(* order of their ids.                                                     *)

NoBucket == [limitId |-> NULL, primary |-> NULL, secondary |-> NULL, plan |-> NULL, individual |-> NULL]

HasWindows(bucket) == bucket.primary # NULL \/ bucket.secondary # NULL

\* window_to_json()
WindowJson(window, fallback) ==
  IF window = NULL THEN NULL
  ELSE [used |-> window.used, minutes |-> Or(window.minutes, fallback), resetsAt |-> Or(window.resetsAt, 0)]

BucketJson(entry) ==
  [limitId   |-> entry.key,
   primary   |-> WindowJson(entry.bucket.primary, SESSION_MINUTES),
   secondary |-> WindowJson(entry.bucket.secondary, WEEK_MINUTES)]

IndividualJson(limit) ==
  IF limit = NULL THEN NULL
  ELSE IF limit.left = NULL THEN NULL
  ELSE [left |-> limit.left, resetsAt |-> Or(limit.resetsAt, 0)]

CodexKey == <<"codex", "">>

\* NULL when there is no window to show.
Normalized(raw, account) ==
  LET root    == Or(raw.rateLimits, NoBucket)
      entries == Or(raw.byLimitId, <<>>)
      listed  == Among(entries, {entries[i] : i \in {j \in DOMAIN entries : HasWindows(entries[j].bucket)}})
      named   == {i \in DOMAIN listed : listed[i].key = CodexKey}
      chosen  == listed[IF named # {} THEN Min(named) ELSE 1]
      fromId  == ~HasWindows(root) /\ listed # <<>>
      bucket  == IF fromId THEN chosen.bucket ELSE root
      mainKey == IF fromId THEN chosen.key ELSE Or(root.limitId, CodexKey)
      others  == Among(listed, {listed[i] : i \in {j \in DOMAIN listed : listed[j].key # mainKey}})
  IN  IF ~HasWindows(bucket) THEN NULL
      ELSE [primary    |-> WindowJson(bucket.primary, SESSION_MINUTES),
            secondary  |-> WindowJson(bucket.secondary, WEEK_MINUTES),
            plan       |-> Or(account, Or(raw.plan, root.plan)),
            individual |-> IndividualJson(bucket.individual),
            credits    |-> raw.credits,
            extras     |-> [i \in DOMAIN others |-> BucketJson(others[i])]]

\* has_rate_limit_data()
HasData(raw) == raw # NULL /\ (raw.rateLimits # NULL \/ raw.byLimitId # NULL)

\* NULL is none of the documents made of an answer, with a plan or without.
ASSUME NormalizedAssumption ==
  \A answer \in LimitAnswers, plan \in Accounts : answer.result # NULL =>
    (Normalized(answer.result, plan) = NULL <=> Normalized(answer.result, NULL) = NULL)

---------------------------------------------------------------------------
(* The exchange.                                                           *)

Outcome(tag) == [tag |-> tag, doc |-> NULL]

\* What the limits at hand come to, `otherwise' when there is none to show.
Concluded(limits, plan, otherwise) ==
  LET doc == IF limits = NULL THEN NULL ELSE Normalized(limits, plan)
  IN  IF doc = NULL THEN Outcome(otherwise) ELSE [tag |-> "ok", doc |-> doc]

EndExchange(o) == exchange' = "over" /\ outcome' = o

\* fetch_rate_limits_via_appserver(): spawn, and the initialize request.
Open(started) ==
  /\ exchange = "none"
  /\ IF started THEN exchange' = "opening" /\ outcome' = NULL ELSE EndExchange(Outcome("failed"))
  /\ elapsed' = 0
  /\ accountKnown' = FALSE /\ accountPlan' = NULL
  /\ rateLimits' = NULL /\ graceAt' = NULL /\ answered' = {}

Running == exchange \in {"opening", "asked"}

\* No timer that has fired is behind a line that arrives at `at'; of those
\* that are due at once, select! takes any.
InTime(at) == at >= elapsed /\ at <= EXCHANGE_TIMEOUT /\ (graceAt # NULL => at <= graceAt)

Arrives == \E at \in Arrivals \cup {elapsed} : InTime(at) /\ elapsed' = at

\* The answer to initialize; a write that fails ends the exchange.
Initialized(ok) ==
  /\ exchange = "opening"
  /\ Arrives
  /\ answered' = answered \cup {0}
  /\ IF ok THEN exchange' = "asked" /\ UNCHANGED outcome ELSE EndExchange(Outcome("failed"))
  /\ UNCHANGED <<accountKnown, accountPlan, rateLimits, graceAt>>

\* The answer to account/read; an error counts as no plan.
AccountRead(plan) ==
  /\ exchange = "asked" /\ 1 \notin answered
  /\ Arrives
  /\ answered' = answered \cup {1}
  /\ accountKnown' = TRUE /\ accountPlan' = plan
  /\ IF rateLimits = NULL
     THEN UNCHANGED <<exchange, outcome>>
     ELSE EndExchange(Concluded(rateLimits, plan, "failed"))
  /\ UNCHANGED <<rateLimits, graceAt>>

\* The answer to account/rateLimits/read.
RateLimitsRead(answer) ==
  /\ exchange = "asked" /\ 2 \notin answered
  /\ Arrives
  /\ answered' = answered \cup {2}
  /\ UNCHANGED <<accountKnown, accountPlan>>
  /\ \/ /\ answer.error # NULL
        /\ EndExchange(Outcome(IF answer.error = "auth" THEN "unauthenticated" ELSE "failed"))
        /\ UNCHANGED <<rateLimits, graceAt>>
     \/ /\ answer.error = NULL /\ HasData(answer.result)
        /\ rateLimits' = answer.result
        /\ IF accountKnown
           THEN EndExchange(Concluded(answer.result, accountPlan, "failed")) /\ UNCHANGED graceAt
           ELSE graceAt' = elapsed' + GRACE /\ UNCHANGED <<exchange, outcome>>
     \/ /\ answer.error = NULL /\ ~HasData(answer.result)
        /\ UNCHANGED <<exchange, outcome, rateLimits, graceAt>>

\* End of file, a read error.
Closed ==
  /\ Running
  /\ Arrives
  /\ EndExchange(Outcome("failed"))
  /\ UNCHANGED <<accountKnown, accountPlan, rateLimits, graceAt, answered>>

GraceExpires ==
  /\ Running /\ graceAt # NULL /\ graceAt <= EXCHANGE_TIMEOUT
  /\ elapsed' = graceAt
  /\ EndExchange(Concluded(rateLimits, IF accountKnown THEN accountPlan ELSE NULL, "failed"))
  /\ UNCHANGED <<accountKnown, accountPlan, rateLimits, graceAt, answered>>

HardTimeout_GivesUp ==
  /\ Running /\ (graceAt # NULL => graceAt >= EXCHANGE_TIMEOUT)
  /\ elapsed' = EXCHANGE_TIMEOUT
  /\ EndExchange(Outcome("timed_out"))
  /\ UNCHANGED <<accountKnown, accountPlan, rateLimits, graceAt, answered>>
HardTimeout ==
  /\ Running /\ (graceAt # NULL => graceAt >= EXCHANGE_TIMEOUT)
  /\ elapsed' = EXCHANGE_TIMEOUT
  /\ EndExchange(Concluded(rateLimits, IF accountKnown THEN accountPlan ELSE NULL, "timed_out"))
  /\ UNCHANGED <<accountKnown, accountPlan, rateLimits, graceAt, answered>>

ServerNext ==
  \/ \E ok \in BOOLEAN : Initialized(ok)
  \/ \E plan \in Accounts : AccountRead(plan)
  \/ \E answer \in LimitAnswers : RateLimitsRead(answer)
  \/ Closed \/ GraceExpires \/ HardTimeout

\* The adapter takes the outcome and, for one more attempt, opens again.
Taken ==
  /\ exchange = "over"
  /\ exchange' = "none"
  /\ UNCHANGED <<elapsed, accountKnown, accountPlan, rateLimits, graceAt, answered, outcome>>

---------------------------------------------------------------------------

\* Limits that can be shown and came in before the deadline are returned,
\* whichever of the deadline, the grace timer and the account's answer ends
\* the exchange; only the server's closing its output loses them.
LimitsReceivedAreReturned ==
  [][ /\ exchange # "over" /\ exchange' = "over"
      /\ ~Closed
      /\ rateLimits' # NULL /\ Normalized(rateLimits', NULL) # NULL
      => outcome'.tag = "ok" ]_serverVars
=============================================================================
