----------------------------- MODULE ResetClaim -----------------------------
(***************************************************************************)
(* providers/reset.rs and dispatch_reset(): `agent-bar reset claude <id>'. *)
(* The provider keeps the resets, others may spend them meanwhile, the one *)
(* request that spends is lost, answered late or answered unreadably, and  *)
(* the helper may be killed at any point.                                  *)
(***************************************************************************)
EXTENDS ProviderAccess

CONSTANTS
  Grants,       \* the raw names of the cedar-ember grants, in their order
  Targets,      \* bound: the reset ids the command is given
  ClaudeFiles, Exchanges, VersionRuns,  \* bounds, as in ProviderCollection
  ClaimAnswers, \* bound: the results the provider names, besides "reset"
  MaxLeft,      \* bound on the resets of a grant
  RESET_LANE_TIMEOUT  \* Service.qml's resetTimeoutMs

\* An exchange that is no usage has no readable body, or one that names an error.
ASSUME ClaimAssumption ==
  /\ MaxLeft \in Nat
  /\ \A x \in Exchanges : x.ends \in Optional(Nat) /\ (Success(HttpSend(x)) => x.body = NULL \/ x.body.error # NULL)
  /\ \A child \in VersionRuns : child.starts => child.ends \in Optional(Nat)
  /\ NULL \notin {"reset"} \cup ClaimAnswers /\ "reset" \notin ClaimAnswers

\* The lane waits for a child, two requests with the delay between them, and
\* the claim, each as long as it may take.
ASSUME LaneAssumption == RESET_LANE_TIMEOUT \in Nat /\ 4 * TIMEOUT + RETRY_DELAY <= RESET_LANE_TIMEOUT

VARIABLES
  left,      \* the provider's resets of each grant
  weekly,    \* whether its weekly reset is due
  pc,        \* what the helper awaits
  elapsed, attempt,
  target, installed,
  usage,     \* the usage it read last
  inFlight,  \* the claim that left and that the provider has not handled
  reply,     \* the provider's result for it, or NULL
  report,    \* what the popup takes it for, or NULL
  refused,   \* history: whether the POST was answered with an error status
  spent      \* history: what this command spent, in order

providerVars == <<left, weekly>>
claimVars == <<inFlight, reply, refused, spent>>
vars == <<providerVars, pc, elapsed, attempt, target, installed, usage, claimVars, report>>

Init ==
  /\ left \in [{Grants[i] : i \in DOMAIN Grants} -> 0..MaxLeft] /\ weekly \in BOOLEAN
  /\ pc = "start" /\ elapsed = 0 /\ attempt = 1
  /\ target = NULL /\ installed \in BOOLEAN /\ usage = NULL
  /\ inFlight = NULL /\ reply = NULL /\ report = NULL /\ refused = FALSE /\ spent = <<>>

---------------------------------------------------------------------------
(* The provider.                                                           *)

Grant(name) ==
  [id |-> name, label |-> NULL, left |-> left[name], total |-> MaxLeft, ends |-> NULL, clears |-> <<"five_hour">>,
   paused |-> FALSE, usable |-> left[name] > 0, cooldown |-> NULL]

UsageDoc ==
  [five_hour |-> NULL, seven_day |-> NULL, oauth_apps |-> NULL, opus |-> NULL, sonnet |-> NULL,
   error |-> NULL, limits |-> <<>>,
   cedar |-> [eligible |-> TRUE, next |-> NULL, grants |-> [i \in DOMAIN Grants |-> Grant(Grants[i])]],
   tide |-> [eligible |-> TRUE, available |-> weekly, next |-> 9, weekly |-> NULL, perWeek |-> 1]]

UsageExchange ==
  [ends |-> 0, reached |-> TRUE, broken |-> FALSE, large |-> FALSE, status |-> 200, retryAfter |-> NULL, body |-> UsageDoc]

Spend(claim) ==
  IF claim.program = "juniper_tide"
  THEN weekly /\ weekly' = FALSE /\ UNCHANGED left
  ELSE left[claim.grant] > 0 /\ left' = [left EXCEPT ![claim.grant] = @ - 1] /\ UNCHANGED weekly

\* Another client of the account.
OtherSpends ==
  /\ \/ Spend([program |-> "juniper_tide"])
     \/ \E name \in DOMAIN left : Spend([program |-> "cedar_ember", grant |-> name])
  /\ UNCHANGED <<pc, elapsed, attempt, target, installed, usage, claimVars, report>>

\* The claim arrives: it is granted, or refused with some other result.
Handle ==
  /\ inFlight # NULL
  /\ inFlight' = NULL
  /\ \/ Spend(inFlight) /\ reply' = "reset" /\ spent' = Append(spent, inFlight)
     \/ reply' \in ClaimAnswers /\ UNCHANGED <<providerVars, spent>>
  /\ UNCHANGED <<pc, elapsed, attempt, target, installed, usage, refused, report>>

Lose ==
  /\ inFlight # NULL
  /\ inFlight' = NULL
  /\ UNCHANGED <<providerVars, pc, elapsed, attempt, target, installed, usage, reply, refused, report, spent>>

---------------------------------------------------------------------------
(* The command.                                                            *)

Report(result) == pc' = "done" /\ report' = result

\* ClaimTarget::parse(), after validate_reset_id().
HasProgram(id) == ValidResetId(id) /\ id # <<"codex-credits">>

Program(id) == IF id = <<"juniper-tide">> THEN "juniper_tide" ELSE "cedar_ember"

\* dispatch_reset() and the local part of claim_claude_reset(); the id is
\* refused before any file is read, and `org' is organization_uuid().
Claim ==
  /\ pc = "start"
  /\ \E id \in Targets, f \in ClaudeFiles, org \in BOOLEAN :
       /\ target' = id
       /\ CASE ~HasProgram(id) -> Report("validation")
            [] HasProgram(id) /\ ClaudeCredentials(f, elapsed) # "valid" -> Report("unauthenticated")
            [] HasProgram(id) /\ ClaudeCredentials(f, elapsed) = "valid" /\ ~org -> Report("unavailable")
            [] OTHER -> pc' = (IF installed THEN "version" ELSE "usage") /\ UNCHANGED report
  /\ UNCHANGED <<providerVars, elapsed, attempt, installed, usage, claimVars>>

Probed ==
  /\ pc = "version"
  /\ \E child \in VersionRuns : elapsed' = elapsed + RunProcess(child).took
  /\ pc' = "usage"
  /\ UNCHANGED <<providerVars, attempt, target, installed, usage, claimVars, report>>

Resets(doc) == ClaudeResult(doc, 0, NULL, FALSE).resets

Claimable(doc, id) ==
  LET listed == SelectSeq(Resets(doc), LAMBDA r : r.id = id)
  IN  listed # <<>> /\ listed[1].claimable

FirstGrant(doc, name) ==
  SelectSeq(doc.cedar.grants, LAMBDA g : Sanitized(g.id, "bucket") = name)[1].id
ClaimOf_Guessing(doc, id) ==
  IF ~Claimable(doc, id) THEN NULL
  ELSE IF Program(id) = "juniper_tide" THEN [program |-> "juniper_tide"]
  ELSE [program |-> "cedar_ember", grant |-> FirstGrant(doc, id[2])]
\* The claim the usage allows, or NULL: the reset is listed as claimable, and
\* its name is that of one grant.
ClaimOf(doc, id) ==
  IF ~Claimable(doc, id) THEN NULL
  ELSE IF Program(id) = "juniper_tide" THEN [program |-> "juniper_tide"]
  ELSE IF RawGrantId(doc, id[2]) = NULL THEN NULL
  ELSE [program |-> "cedar_ember", grant |-> RawGrantId(doc, id[2])]

Refusal(answer) ==
  IF Rejected(answer) THEN "unauthenticated"
  ELSE IF answer.tag = "network" THEN "network_error"
  ELSE "provider_error"

UsageKind(body) == ClaudeResult(body, 0, NULL, FALSE).kind

\* The usage is read again, and once more when the network fails.
ReadUsage ==
  /\ pc = "usage"
  /\ \E x \in Exchanges \cup {UsageExchange} :
       LET answer == HttpSend(x)
       IN IF Again("claude", attempt, answer.tag = "network")
          THEN attempt' = 2 /\ elapsed' = elapsed + answer.took + RETRY_DELAY /\ UNCHANGED <<pc, usage, report>>
          ELSE /\ elapsed' = elapsed + answer.took /\ UNCHANGED attempt
               /\ \/ ~Success(answer) /\ Report(Refusal(answer)) /\ UNCHANGED usage
                  \/ /\ Success(answer) /\ UsageKind(answer.body) # "ready"
                     /\ Report(IF UsageKind(answer.body) = "unauthenticated" THEN "unauthenticated" ELSE "provider_error")
                     /\ UNCHANGED usage
                  \/ /\ Success(answer) /\ UsageKind(answer.body) = "ready"
                     /\ usage' = answer.body /\ pc' = "deciding" /\ UNCHANGED report
  /\ UNCHANGED <<providerVars, target, installed, claimVars>>

\* The claim is sent, and only once.
Post ==
  /\ pc = "deciding"
  /\ LET claim == ClaimOf(usage, target)
     IN IF claim = NULL
        THEN Report("unavailable") /\ UNCHANGED inFlight
        ELSE pc' = "claiming" /\ inFlight' = claim /\ UNCHANGED report
  /\ UNCHANGED <<providerVars, elapsed, attempt, target, installed, usage, reply, refused, spent>>

PostReport_LostIsFailed(answer, result) ==
  IF Success(answer) THEN (IF answer.body = "unreadable" THEN "unconfirmed" ELSE result)
  ELSE IF Rejected(answer) THEN "unauthenticated" ELSE "provider_error"
\* The last part of claim_claude_reset(), and report_from_claim_body().
PostReport(answer, result) ==
  IF Success(answer) THEN (IF answer.body = "unreadable" THEN "unconfirmed" ELSE result)
  ELSE IF Rejected(answer) THEN "unauthenticated"
  ELSE IF answer.tag = "ok" THEN "provider_error" ELSE "unconfirmed"

ClaimExchanges ==
  {[UsageExchange EXCEPT !.body = body, !.ends = took] : body \in {"legible", "unreadable"}, took \in {0, TIMEOUT}}

\* An answer that names the result comes after the provider has handled the
\* claim; one that is unreadable, an error status or no answer at all may
\* come whatever has become of the claim, or will.
PostAnswered ==
  /\ pc = "claiming"
  /\ \E x \in {y \in Exchanges : ~Success(HttpSend(y))} \cup ClaimExchanges :
       LET answer == HttpSend(x)
       IN /\ Success(answer) /\ answer.body = "legible" => reply # NULL
          /\ Report(PostReport(answer, reply))
          /\ refused' = (answer.tag = "ok" /\ ~Success(answer))
          /\ elapsed' = elapsed + answer.took
  /\ UNCHANGED <<providerVars, attempt, target, installed, usage, inFlight, reply, spent>>

\* The lane kills the helper, or the shell ends: the popup reads a claim
\* without output as unconfirmed.
Killed ==
  /\ pc \in {"version", "usage", "deciding", "claiming"}
  /\ Report("unconfirmed")
  /\ UNCHANGED <<providerVars, elapsed, attempt, target, installed, usage, claimVars>>

Next ==
  \/ OtherSpends \/ Handle \/ Lose
  \/ Claim \/ Probed \/ ReadUsage \/ Post \/ PostAnswered \/ Killed

Spec == Init /\ [][Next]_vars

---------------------------------------------------------------------------
(* Properties.                                                             *)

\* What the popup is told is what happened: a claim reported as done spent
\* one reset, no claim spends two, and a claim reported as neither done nor
\* unconfirmed spent nothing and will not.  The exception is a POST answered
\* with an error status, which proves nothing of the claim and which
\* claim_claude_reset() reports as an error all the same (reset.rs:316-319,
\* against CLI-036: UnknownResultsAreUnconfirmed, below).
ReportsAreTruthful ==
  /\ Len(spent) <= 1
  /\ report = "reset" => Len(spent) = 1
  /\ report \notin {NULL, "reset", "unconfirmed"} /\ ~refused => spent = <<>> /\ inFlight = NULL
  /\ refused => report \in {"provider_error", "unauthenticated"}

\* The reset that is spent is the one whose id was given, and no other reset
\* has that id.
TheNamedResetIsSpent ==
  \A i \in DOMAIN spent :
    IF target = <<"juniper-tide">> THEN spent[i].program = "juniper_tide"
    ELSE {name \in DOMAIN left : Sanitized(name, "bucket") = target[2]} = {spent[i].grant}

\* The popup does not give the claim up before the helper does.
ClaimFitsItsLane == elapsed <= RESET_LANE_TIMEOUT

\* 03-cli-and-json-contract.md: `unconfirmed' means that the POST left and
\* that no known result was read back.
UnknownResultsAreUnconfirmed ==
  [][ pc = "claiming" /\ report' \notin {NULL, "reset"} \cup ClaimAnswers => report' = "unconfirmed" ]_vars
=============================================================================
