------------------------- MODULE ProviderCollection -------------------------
(***************************************************************************)
(* providers/adapters.rs and StatusCoordinator::collect_one(): one live    *)
(* collection of one provider, from discovery to the row it makes.  Each   *)
(* step ends where the code awaits a child, a request or an exchange, and  *)
(* what comes back is any of the bounded sets below.                       *)
(***************************************************************************)
EXTENDS ProviderAccess, AppServer

CONSTANTS
  Environments,      \* bound: where the executables are, HOME and GROK_HOME
  GrokFiles,         \* bound: what reading Grok's auth.json may give
  ClaudeFiles,       \* bound: what reading Claude's .credentials.json may give
  Exchanges,         \* bound: the HTTP exchanges that are no readable success
  GrokAnswers, ClaudeAnswers,  \* bound: the exchanges with a usage document
  VersionRuns,       \* bound: how a `--version' child may run
  RenewalRuns,       \* bound: how `grok models' may run
  UsageRuns,         \* bound: how agy's usage command may run
  LANE_TIMEOUT       \* Service.qml's statusTimeoutMs

ASSUME CollectionConstants ==
  /\ EXCHANGE_TIMEOUT = TIMEOUT
  /\ \A x \in GrokAnswers : x.body \in GrokBillingDoc
  /\ \A x \in ClaudeAnswers : x.body \in ClaudeUsageDoc
  /\ \A run \in UsageRuns : run.starts => run.out.doc \in Optional(AntigravityDoc)

\* What the inputs are, whichever are chosen.
ASSUME InputAssumption ==
  /\ \A x \in Exchanges \cup GrokAnswers \cup ClaudeAnswers : x.ends \in Optional(Nat)
  /\ \A x \in Exchanges : Success(HttpSend(x)) => x.body = NULL
  /\ \A child \in VersionRuns \cup RenewalRuns \cup UsageRuns : child.starts => child.ends \in Optional(Nat)
  /\ \A f \in GrokFiles :
       f.is \in {"missing", "unreadable", "torn", "empty"} \/ (f.is = "token" /\ f.expires \in Optional(Nat))
  /\ \A f \in ClaudeFiles :
       f.is \in {"missing", "empty"} \/ (f.is = "token" /\ f.plan \in Optional(STRING))

\* A lane waits for Grok's five waits with their two delays, the most there
\* are; three of them are after the token was checked and before its last use.
ASSUME LaneAssumption == LANE_TIMEOUT \in Nat /\ 5 * TIMEOUT + 2 * RETRY_DELAY <= LANE_TIMEOUT
ASSUME MarginAssumption == 3 * TIMEOUT + 2 * RETRY_DELAY <= TOKEN_EXPIRY_MARGIN

VARIABLES
  provider, env,
  pc,       \* what the collection awaits
  now,
  attempt,  \* of the request or exchange awaited
  file,     \* the credentials in hand, or NULL
  askedAt,  \* Grok's reading is dated before its first request
  credits,  \* Grok's answer without a window, or NULL
  row,      \* what is collected, or NULL
  result,   \* history: what the adapter returned, or NULL
  requests, \* history: the requests sent with a token
  causes    \* history: what stood in the way

collectionVars == <<provider, env, pc, now, attempt, file, askedAt, credits, row, result, requests, causes>>
vars == <<collectionVars, serverVars>>

Init ==
  /\ ServerInit
  /\ provider \in ProviderId /\ env \in Environments
  /\ pc = "start" /\ now = 0 /\ attempt = 1
  /\ file = NULL /\ askedAt = 0 /\ credits = NULL
  /\ row = NULL /\ result = NULL
  /\ requests = {} /\ causes = {}

login == LoginAvailable(provider, env)

\* collect_one(): a result the schema refuses becomes a provider error.
RowOf(r) == LET made == StatusFromResult(r) IN IF made = NULL THEN ProviderErrorRow(r.id, FALSE, "retry") ELSE made

Finish(r) == pc' = "done" /\ result' = r /\ row' = RowOf(r)

Await(next) == pc' = next /\ UNCHANGED <<result, row>>

Because(new) == causes' = causes \cup new

---------------------------------------------------------------------------
(* Requests.                                                               *)

Faulty(body) ==
  body = NULL \/ (provider = "claude" /\ body.error \notin {NULL, "token_expired"})

Cause(answer) ==
  IF answer.tag = "network" THEN {"network"}
  ELSE IF answer.tag # "ok" THEN {"transport"}
  ELSE IF answer.status \in {401, 403} THEN {"rejected"}
  ELSE IF answer.status = 429 THEN {"limited"}
  ELSE IF ~Success(answer) THEN {"status"}
  ELSE IF Faulty(answer.body) THEN {"body"} ELSE {}

\* A request with the token in hand, and what came of it.
Sent(answer) ==
  /\ requests' = requests \cup {[to |-> provider, at |-> now, expires |-> file.expires]}
  /\ Because(Cause(answer))
  /\ UNCHANGED <<provider, env, file, serverVars>>

\* http_get_with_retry(): an answer is given up for another attempt, or taken.
GivenUp(answer) == Again(provider, attempt, answer.tag = "network")

SentAgain(answer) ==
  /\ GivenUp(answer)
  /\ attempt' = 2 /\ now' = now + answer.took + RETRY_DELAY
  /\ UNCHANGED <<pc, row, result, credits, askedAt>>

Answered(answer) ==
  /\ ~GivenUp(answer)
  /\ attempt' = 1 /\ now' = now + answer.took

---------------------------------------------------------------------------
(* Grok.                                                                   *)

GrokHome == env.grokHome # "invalid" /\ (env.grokHome = NULL => env.home = "absolute")

ExpiredGrok == UnauthenticatedResult("grok", login, TRUE)

\* GrokAdapter::collect(), up to the renewal or the first request.
GrokStart ==
  /\ pc = "start" /\ provider = "grok"
  /\ \/ ~GrokHome /\ Finish(ErrorResult("grok", FALSE)) /\ Because({"setup"}) /\ UNCHANGED <<file, askedAt>>
     \/ /\ GrokHome
        /\ \E f \in GrokFiles :
             \/ f.is # "token" /\ Finish(GrokAuthFailure(f, login)) /\ Because({f.is})
                  /\ UNCHANGED <<file, askedAt>>
             \/ /\ f.is = "token" /\ file' = f /\ askedAt' = now
                /\ \/ ~GrokTokenExpired(f, now) /\ Await("billing") /\ UNCHANGED causes
                   \/ GrokTokenExpired(f, now) /\ Executable("grok", env) /\ Await("renewing") /\ UNCHANGED causes
                   \/ GrokTokenExpired(f, now) /\ ~Executable("grok", env) /\ Finish(ExpiredGrok)
                        /\ Because({"expired"})
  /\ UNCHANGED <<provider, env, now, attempt, credits, requests, serverVars>>

\* `grok models' has run, or has not: only what it left in the file counts.
GrokRenewed ==
  /\ pc = "renewing"
  /\ \E child \in RenewalRuns, f \in GrokFiles :
       /\ now' = now + RunProcess(child).took /\ askedAt' = now'
       /\ \/ f.is \in {"missing", "empty", "unreadable"} /\ Finish(GrokAuthFailure(f, login))
               /\ Because({f.is}) /\ UNCHANGED file
          \/ /\ f.is \in {"token", "torn"}
             /\ file' = IF f.is = "torn" THEN file ELSE f
             /\ \/ GrokTokenExpired(file', now') /\ Finish(ExpiredGrok) /\ Because({"expired"})
                \/ ~GrokTokenExpired(file', now') /\ Await("billing") /\ UNCHANGED causes
  /\ UNCHANGED <<provider, env, attempt, credits, requests, serverVars>>

GrokBilling ==
  /\ pc = "billing"
  /\ \E x \in GrokAnswers \cup Exchanges :
       LET answer  == HttpSend(x)
           reading == GrokResult(answer.body, askedAt)
           empty   == reading.kind = "ready" /\ reading.windows = <<>>
       IN  /\ Sent(answer)
           /\ \/ SentAgain(answer)
              \/ /\ Answered(answer)
                 /\ UNCHANGED askedAt
                 /\ \/ ~Success(answer) /\ Finish(HttpFailure("grok", login, answer, TRUE)) /\ UNCHANGED credits
                    \/ Success(answer) /\ ~empty /\ Finish(reading) /\ UNCHANGED credits
                    \/ Success(answer) /\ empty /\ credits' = reading /\ Await("monthly")

\* A reading without windows is kept as what the credits said.
Credits == [kind : {"ready"}, id : {"grok"}, plan : Optional(STRING), windows : {<<>>}, at : Nat, resets : {<<>>}]

ASSUME CreditsAssumption == NULL \notin Credits

\* grok_monthly_fallback()
GrokMonthly ==
  /\ pc = "monthly"
  /\ \E x \in GrokAnswers \cup Exchanges :
       LET answer  == HttpSend(x)
           monthly == GrokResult(answer.body, askedAt)
           refused == answer.tag = "ok" /\ ~Success(answer) /\ answer.status < 500
           merged  == IF monthly.kind = "ready"
                      THEN [credits EXCEPT !.windows = monthly.windows, !.plan = Or(@, monthly.plan)]
                      ELSE credits
       IN  /\ Sent(answer)
           /\ \/ SentAgain(answer)
              \/ /\ Answered(answer)
                 /\ UNCHANGED <<askedAt, credits>>
                 /\ \/ refused /\ Finish(credits)
                    \/ ~refused /\ ~Success(answer) /\ Finish(HttpFailure("grok", login, answer, TRUE))
                    \/ Success(answer) /\ Finish(merged)

---------------------------------------------------------------------------
(* Codex.                                                                  *)

CodexUnchanged == UNCHANGED <<provider, env, file, askedAt, credits, requests>>

CodexStart ==
  /\ pc = "start" /\ provider = "codex"
  /\ \/ env.home # "absolute" /\ Finish(ErrorResult("codex", FALSE)) /\ Because({"setup"}) /\ UNCHANGED serverVars
     \/ env.home = "absolute" /\ ~Executable("codex", env) /\ Finish(MissingResult("codex"))
          /\ Because({"missing"}) /\ UNCHANGED serverVars
     \/ /\ env.home = "absolute" /\ Executable("codex", env) /\ Await("exchange") /\ UNCHANGED causes
        /\ \E started \in BOOLEAN : Open(started)
  /\ UNCHANGED <<now, attempt>> /\ CodexUnchanged

CodexExchange == pc = "exchange" /\ ServerNext /\ UNCHANGED collectionVars

CodexAgain ==
  /\ pc = "retrying"
  /\ \E started \in BOOLEAN : Open(started)
  /\ Await("exchange")
  /\ UNCHANGED <<now, attempt, causes>> /\ CodexUnchanged

\* Only a timeout is tried again.
CodexOutcome ==
  /\ pc = "exchange" /\ Taken
  /\ IF Again("codex", attempt, outcome.tag = "timed_out")
     THEN /\ Await("retrying") /\ attempt' = 2 /\ now' = now + elapsed + RETRY_DELAY
          /\ Because({"timeout"})
     ELSE /\ now' = now + elapsed /\ UNCHANGED attempt
          /\ Because(CASE outcome.tag = "ok" -> {} [] outcome.tag = "timed_out" -> {"timeout"}
                       [] outcome.tag = "failed" -> {"exchange"} [] OTHER -> {"rejected"})
          /\ Finish(CASE outcome.tag = "ok" -> CodexResult(outcome.doc, now')
                      [] outcome.tag = "unauthenticated" -> UnauthenticatedResult("codex", login, FALSE)
                      [] OTHER -> ErrorResult("codex", TRUE))
  /\ CodexUnchanged

---------------------------------------------------------------------------
(* Claude.                                                                 *)

ClaudeStart ==
  /\ pc = "start" /\ provider = "claude"
  /\ \E f \in ClaudeFiles :
       CASE ClaudeCredentials(f, now) = "missing" ->
              Finish(UnauthenticatedResult("claude", login, FALSE)) /\ Because({f.is}) /\ UNCHANGED file
         [] ClaudeCredentials(f, now) = "expired" ->
              Finish(UnauthenticatedResult("claude", login, TRUE)) /\ Because({"expired"}) /\ UNCHANGED file
         [] OTHER ->
              Await(IF Executable("claude", env) THEN "version" ELSE "usage") /\ file' = f /\ UNCHANGED causes
  /\ UNCHANGED <<provider, env, now, attempt, askedAt, credits, requests, serverVars>>

\* The version only shapes the headers, and with them the reset blocks.
ClaudeProbed ==
  /\ pc = "version" /\ provider = "claude"
  /\ \E child \in VersionRuns : now' = now + RunProcess(child).took
  /\ Await("usage")
  /\ UNCHANGED <<provider, env, attempt, file, askedAt, credits, requests, causes, serverVars>>

ClaudeUsage ==
  /\ pc = "usage" /\ provider = "claude"
  /\ \E x \in ClaudeAnswers \cup Exchanges :
       LET answer  == HttpSend(x)
           reading == IF Success(answer) THEN ClaudeResult(answer.body, now', file.plan, login)
                      ELSE IF answer.tag = "ok" /\ answer.status = 429
                      THEN LimitedResult("claude", RetryInstant(answer.retryAfter, now'))
                      ELSE HttpFailure("claude", login, answer, FALSE)
       IN  /\ Sent(answer)
           /\ \/ SentAgain(answer)
              \/ Answered(answer) /\ Finish(reading) /\ UNCHANGED <<askedAt, credits>>

---------------------------------------------------------------------------
(* Antigravity.                                                            *)

AgyUnchanged == UNCHANGED <<provider, env, attempt, file, askedAt, credits, requests, serverVars>>

AgyStart ==
  /\ pc = "start" /\ provider = "antigravity"
  /\ \/ ~Executable("antigravity", env) /\ Finish(MissingResult("antigravity")) /\ Because({"missing"})
     \/ Executable("antigravity", env) /\ Await("reaching") /\ UNCHANGED causes
  /\ UNCHANGED now /\ AgyUnchanged

\* Any answer at all shows that the host is there.
AgyReached ==
  /\ pc = "reaching"
  /\ \E x \in Exchanges :
       /\ now' = now + HttpSend(x).took
       /\ \/ HttpSend(x).tag = "network" /\ Finish(NetworkResult("antigravity")) /\ Because({"network"})
          \/ HttpSend(x).tag # "network" /\ Await("version") /\ UNCHANGED causes
  /\ AgyUnchanged

AgyVersion ==
  /\ pc = "version" /\ provider = "antigravity"
  /\ \E child \in VersionRuns :
       LET run == RunProcess(child)
       IN /\ now' = now + run.took
          /\ \/ run.tag # "exit" /\ Finish(NetworkResult("antigravity")) /\ Because({"timeout"})
             \/ run.tag = "exit" /\ ~AntigravitySupported(run) /\ Finish(ErrorResult("antigravity", FALSE))
                  /\ Because({"unsupported"})
             \/ run.tag = "exit" /\ AntigravitySupported(run) /\ Await("agy") /\ UNCHANGED causes
  /\ AgyUnchanged

AgyUsage ==
  /\ pc = "agy"
  /\ \E child \in UsageRuns :
       LET run == RunProcess(child)
       IN /\ now' = now + run.took
          /\ Finish(AntigravityUsage(run, login, now'))
          /\ Because(IF run.tag # "exit" THEN {"timeout"} ELSE IF run.out.banner THEN {"rejected"} ELSE {"body"})
  /\ AgyUnchanged

---------------------------------------------------------------------------

\* The helper prints the row and exits.
Done == pc = "done" /\ UNCHANGED vars

Next ==
  \/ GrokStart \/ GrokRenewed \/ GrokBilling \/ GrokMonthly
  \/ CodexStart \/ CodexExchange \/ CodexAgain \/ CodexOutcome
  \/ ClaudeStart \/ ClaudeProbed \/ ClaudeUsage
  \/ AgyStart \/ AgyReached \/ AgyVersion \/ AgyUsage
  \/ Done

Spec == Init /\ [][Next]_vars

---------------------------------------------------------------------------
(* Properties.                                                             *)

\* The row that is collected is one the document may show, from the cache as
\* well, and one that may be kept as stale later, whatever the provider sent.
RowsAreSound ==
  row # NULL =>
    LET forms == {row, ForCacheHit(row)} \cup
                 (IF row.state = "ready" THEN {RetainAsStale(row, [retryable |-> TRUE])} ELSE {})
    IN \A form \in forms : form \in ProviderStatus /\ ValidateSemantics([provider |-> provider], <<form>>)

\* A reading an adapter made is shown.  Codex's two main windows are not
\* compared, and a document that gives both one length is shown as an error;
\* nothing else that a document says twice makes it one.
ReadingsAreShown ==
  row # NULL /\ result.kind = "ready" =>
    row.state = "ready" \/ (provider = "codex" /\ ~UniqueWindowIds(CodexMainWindows(outcome.doc)))

\* What passes by itself (no network, a slow child, an expired session, a file
\* being rewritten) leaves a failure the last good reading survives, and a
\* rejected or absent sign-in leaves one it does not.
RetentionFollowsTheCause ==
  row # NULL =>
    /\ causes \subseteq {"network", "timeout", "expired", "torn"} =>
         result.kind = "ready" \/ IsTemporaryFailure(row)
    /\ causes \cap {"rejected", "missing", "empty"} # {} /\ credits = NULL =>
         row.state \in Failures /\ ~IsTemporaryFailure(row)

\* Grok's token is checked once and then sent up to four times: the margin
\* covers the requests that may come before the last.
GrokTokensOutliveTheirRequests ==
  \A r \in requests : r.to = "grok" /\ r.expires # NULL => r.at < r.expires

\* No collection takes longer than the plugin waits for a status helper.
CollectionFitsItsLane == now <= LANE_TIMEOUT
=============================================================================
