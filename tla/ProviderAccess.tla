--------------------------- MODULE ProviderAccess ---------------------------
(***************************************************************************)
(* What a collection and a claim reach a provider with: the catalog and    *)
(* the discovery of executables (providers/catalog.rs), child processes    *)
(* (process.rs), HTTP requests (http.rs, retry.rs), credential files and   *)
(* the failures made of them (adapters.rs, adapter.rs).  Instants and      *)
(* durations are milliseconds.                                             *)
(***************************************************************************)
EXTENDS UsageMaps

CONSTANTS
  TIMEOUT,             \* the catalog's timeout, of a request and of a child
  RETRY_DELAY,
  TOKEN_EXPIRY_MARGIN, \* GROK_TOKEN_EXPIRY_MARGIN
  MIN_VERSION          \* ANTIGRAVITY_MIN_VERSION

ASSUME AccessAssumption ==
  /\ TIMEOUT \in Nat \ {0} /\ RETRY_DELAY \in Nat /\ TOKEN_EXPIRY_MARGIN \in Nat

\* RetryPolicy: the providers whose descriptor has a retry delay.
OneTransient == {"claude", "codex", "grok"}
WithLogin == {"claude", "codex", "grok"}

---------------------------------------------------------------------------
(* Discovery.  `env' says where the executable is, what HOME is, and what  *)
(* GROK_HOME holds (NULL when it is not set).                              *)

GrokHomeInvalid(env) == env.grokHome = "invalid"

\* discover(): the search stops with an error at the fallback under an
\* invalid GROK_HOME, which collect_one() takes for nothing found.
Executable(provider, env) ==
  \/ env.onPath
  \/ env.fallback /\ ~(provider = "grok" /\ GrokHomeInvalid(env))

LoginAvailable(provider, env) == Executable(provider, env) /\ provider \in WithLogin

---------------------------------------------------------------------------
(* A child process: whether it starts, when it and those that share its    *)
(* pipes have ended (NULL for never), whether reading it or waiting for it *)
(* breaks then instead, its exit code and what it printed.                 *)

\* run_process(): what exceeds the cap is drained and lost.
RunProcess(child) ==
  IF ~child.starts THEN [tag |-> "error", took |-> 0]
  ELSE IF child.ends = NULL \/ child.ends > TIMEOUT THEN [tag |-> "timeout", took |-> TIMEOUT]
  ELSE IF child.broken THEN [tag |-> "error", took |-> child.ends]
  ELSE [tag |-> "exit", took |-> child.ends, code |-> child.code, out |-> child.out]

---------------------------------------------------------------------------
(* An HTTP exchange: when its answer is complete or it breaks (NULL for    *)
(* never), whether it is broken before or inside the body, its status, its *)
(* size next to the cap, its Retry-After and what its body parses to.      *)

\* ReqwestHttpClient::send(): no redirect is followed.
HttpSend(x) ==
  LET took == IF x.ends = NULL \/ x.ends > TIMEOUT THEN TIMEOUT ELSE x.ends
      cut  == x.ends = NULL \/ x.ends > TIMEOUT \/ x.broken
      tag  == IF ~x.reached THEN "network"
              ELSE IF x.status \in 300..399 THEN "redirect_refused"
              ELSE IF x.large THEN "body_too_large"
              ELSE IF cut THEN "network"
              ELSE "ok"
  IN  [tag |-> tag, took |-> took, status |-> x.status, retryAfter |-> x.retryAfter, body |-> x.body]

Success(answer) == answer.tag = "ok" /\ answer.status \in 200..299
Rejected(answer) == answer.tag = "ok" /\ answer.status \in {401, 403}

\* RetryAfter::instant()
RetryInstant(after, received) ==
  IF after = NULL THEN NULL
  ELSE IF after.form = "seconds" THEN received + after.value ELSE after.value

\* retry_once_if_transient(), as http_get_with_retry() uses it: whether the
\* answer to this attempt is given up for one more.
Again_Always(provider, attempt, transient) == provider \in OneTransient /\ transient
Again(provider, attempt, transient) == attempt = 1 /\ transient /\ provider \in OneTransient

\* http_failure()
HttpFailure(provider, login, answer, retryable5xx) ==
  IF Rejected(answer) THEN UnauthenticatedResult(provider, login, FALSE)
  ELSE IF answer.tag = "network" THEN NetworkResult(provider)
  ELSE ErrorResult(provider, answer.tag = "ok" /\ retryable5xx /\ answer.status >= 500)

---------------------------------------------------------------------------
(* Credential files.  A file is what reading it gives: "missing",          *)
(* "unreadable", "torn" (no whole document), "empty" (no usable token), or *)
(* "token" with when it expires (NULL when that is not said).              *)

\* grok_token_expired()
GrokTokenExpired_AtTheLastMoment(file, now) == file.expires # NULL /\ file.expires <= now
GrokTokenExpired(file, now) ==
  file.expires # NULL /\ file.expires <= now + TOKEN_EXPIRY_MARGIN

\* read_grok_credentials(), grok_auth_failure()
GrokAuthFailure_TornIsFinal(file, login) ==
  IF file.is = "unreadable" THEN ErrorResult("grok", FALSE) ELSE UnauthenticatedResult("grok", login, FALSE)
GrokAuthFailure(file, login) ==
  CASE file.is \in {"missing", "empty"} -> UnauthenticatedResult("grok", login, FALSE)
    [] file.is = "torn" -> UnauthenticatedResult("grok", login, TRUE)
    [] file.is = "unreadable" -> ErrorResult("grok", FALSE)

\* read_claude_credentials(): "Missing", "Expired" or the credentials.
ClaudeCredentials(file, now) ==
  IF file.is # "token" THEN "missing"
  ELSE IF file.expires # NULL /\ file.expires <= now THEN "expired"
  ELSE "valid"

\* probe_claude_version(): NULL whenever there is no version to tell.
ClaudeVersion(run) ==
  IF run.tag = "exit" THEN (IF run.code = 0 THEN run.out.version ELSE NULL) ELSE NULL

---------------------------------------------------------------------------
(* Antigravity's command line.                                             *)

AntigravitySupported(run) ==
  run.code = 0 /\ run.out.version # NULL /\ run.out.version >= MIN_VERSION

\* What the usage command makes of its run: the banner is trusted whatever
\* the exit code, and any other non-zero exit is a provider error.
AntigravityUsage(run, login, now) ==
  IF run.tag # "exit" THEN NetworkResult("antigravity")
  ELSE IF run.out.banner THEN UnauthenticatedResult("antigravity", login, FALSE)
  ELSE IF run.code # 0 THEN ErrorResult("antigravity", FALSE)
  ELSE AntigravityResult(run.out.doc, now)
=============================================================================
