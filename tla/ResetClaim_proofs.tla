-------------------------- MODULE ResetClaim_proofs --------------------------
(***************************************************************************)
(* Proofs about ResetClaim, for any grants, any ids, any exchanges and     *)
(* child processes, any results of the provider and any timeouts.          *)
(***************************************************************************)
EXTENDS ResetClaim, TLAPS

---------------------------------------------------------------------------
(* What a request and a child process come to.                             *)

Ending(x) == x.ends \in Optional(Nat)

LEMMA RequestTakes ==
  ASSUME NEW x, Ending(x)
  PROVE  HttpSend(x).took \in 0..TIMEOUT
BY AccessAssumption DEF HttpSend, Ending, Optional

LEMMA RequestFields ==
  ASSUME NEW x
  PROVE  HttpSend(x).status = x.status /\ HttpSend(x).body = x.body
BY DEF HttpSend

LEMMA ChildTakes ==
  ASSUME NEW child, child.starts => child.ends \in Optional(Nat)
  PROVE  RunProcess(child).took \in 0..TIMEOUT
<1>1. CASE ~child.starts
  BY <1>1, AccessAssumption DEF RunProcess
<1>2. CASE child.starts /\ (child.ends = NULL \/ child.ends > TIMEOUT)
  BY <1>2, AccessAssumption DEF RunProcess
<1>3. CASE child.starts /\ child.ends # NULL /\ ~(child.ends > TIMEOUT)
  <2>1. child.ends \in Nat /\ child.ends <= TIMEOUT
    BY <1>3, AccessAssumption DEF Optional
  <2>2. RunProcess(child).took = child.ends
    <3>1. CASE child.broken
      BY <1>3, <3>1 DEF RunProcess
    <3>2. CASE ~child.broken
      BY <1>3, <3>2 DEF RunProcess
    <3> QED
      BY <3>1, <3>2
  <2> QED
    BY <2>1, <2>2
<1> QED
  BY <1>1, <1>2, <1>3

\* An exchange with the usage, or with an answer to the claim, is a success.
LEMMA ReadableSucceeds ==
  ASSUME NEW x, NEW took \in {0, TIMEOUT}, x.ends = took, x.reached, ~x.broken, ~x.large,
         x.status = 200
  PROVE  Success(HttpSend(x)) /\ HttpSend(x).took = took
<1>1. TIMEOUT \in Nat /\ took \in Nat /\ ~(took > TIMEOUT)
  BY AccessAssumption
<1>2. HttpSend(x).status = 200 /\ 200 \notin 300..399 /\ 200 \in 200..299
  BY DEF HttpSend
<1> QED
  BY <1>1, <1>2, NullAssumption DEF Success, HttpSend

AnswerTo(body, took) == [UsageExchange EXCEPT !.body = body, !.ends = took]

LEMMA AnswerFields ==
  ASSUME NEW body, NEW took, NEW x, x = AnswerTo(body, took)
  PROVE  /\ x.body = body /\ x.ends = took /\ x.status = 200
         /\ x.reached /\ ~x.broken /\ ~x.large
BY DEF AnswerTo, UsageExchange

\* An answer with the claim's result, legible or not.
LEMMA ClaimAnswer ==
  ASSUME NEW x \in ClaimExchanges
  PROVE  /\ Success(HttpSend(x))
         /\ HttpSend(x).body \in {"legible", "unreadable"}
         /\ HttpSend(x).took \in 0..TIMEOUT
<1>1. PICK body \in {"legible", "unreadable"}, took \in {0, TIMEOUT} : x = AnswerTo(body, took)
  BY DEF ClaimExchanges, AnswerTo
<1>2. x.body = body /\ x.ends = took /\ x.status = 200 /\ x.reached /\ ~x.broken /\ ~x.large
  BY <1>1, AnswerFields
<1> QED
  BY <1>2, ReadableSucceeds, RequestFields, AccessAssumption

LEMMA UsageFields ==
  /\ UsageExchange.ends = 0 /\ UsageExchange.body = UsageDoc
  /\ Ending(UsageExchange)
BY DEF UsageExchange, Ending, Optional

---------------------------------------------------------------------------
(* How far the claim is, and what has come of it.                          *)

Before == {"start", "version", "usage", "deciding"}

\* At most one claim is under way, and it was either handled or not.
Course ==
  /\ pc \in Before \cup {"claiming", "done"}
  /\ pc \in Before => inFlight = NULL /\ reply = NULL /\ spent = <<>>
  /\ pc # "done" => ~refused
  /\ refused => report \in {"provider_error", "unauthenticated"}
  /\ pc # "done" => report = NULL
  /\ inFlight # NULL => reply = NULL
  /\ reply \in {NULL, "reset"} \cup ClaimAnswers
  /\ reply # "reset" => spent = <<>>
  /\ reply = "reset" => \E claim : spent = <<claim>>
  /\ report = "reset" => reply = "reset"
  /\ report \notin {NULL, "reset", "unconfirmed"} /\ ~refused => spent = <<>> /\ inFlight = NULL

LEMMA InitCourse == Init => Course
BY ClaimAssumption DEF Init, Course, Before

LEMMA NextCourse == Course /\ [Next]_vars => Course'
<1> SUFFICES ASSUME Course, [Next]_vars PROVE Course'
  OBVIOUS
<1> USE DEF Course, Before
<1>1. CASE OtherSpends
  BY <1>1 DEF OtherSpends, claimVars
<1>2. CASE Handle
  <2>1. CASE reply' = "reset" /\ spent' = Append(spent, inFlight)
    BY <1>2, <2>1, ClaimAssumption DEF Handle
  <2>2. CASE reply' \in ClaimAnswers /\ UNCHANGED spent
    BY <1>2, <2>2, ClaimAssumption DEF Handle
  <2> QED
    BY <1>2, <2>1, <2>2 DEF Handle
<1>3. CASE Lose
  BY <1>3 DEF Lose
<1>4. CASE Claim
  <2>1. UNCHANGED claimVars /\ pc = "start"
    BY <1>4 DEF Claim
  <2>2. \/ pc' = "done" /\ report' \in {"validation", "unauthenticated", "unavailable"}
        \/ pc' \in {"version", "usage"} /\ report' = report
    BY <1>4 DEF Claim, Report
  <2> QED
    BY <2>1, <2>2 DEF claimVars
<1>5. CASE Probed
  BY <1>5 DEF Probed, claimVars
<1>6. CASE ReadUsage
  <2>1. UNCHANGED claimVars /\ pc = "usage"
    BY <1>6 DEF ReadUsage
  <2>2. \/ pc' = "done" /\ report' \in {"unauthenticated", "network_error", "provider_error"}
        \/ pc' \in {"usage", "deciding"} /\ report' = report
    BY <1>6 DEF ReadUsage, Report, Refusal
  <2> QED
    BY <2>1, <2>2 DEF claimVars
<1>7. CASE Post
  BY <1>7 DEF Post, Report
<1>8. CASE PostAnswered
  <2>1. pc = "claiming" /\ pc' = "done" /\ ~refused /\ UNCHANGED <<inFlight, reply, spent>>
    BY <1>8 DEF PostAnswered, Report
  <2>2. PICK x : /\ x \in {y \in Exchanges : ~Success(HttpSend(y))} \cup ClaimExchanges
                 /\ Success(HttpSend(x)) /\ HttpSend(x).body = "legible" => reply # NULL
                 /\ report' = PostReport(HttpSend(x), reply)
                 /\ refused' = (HttpSend(x).tag = "ok" /\ ~Success(HttpSend(x)))
    BY <1>8 DEF PostAnswered, Report
  <2>3. CASE x \in ClaimExchanges
    <3>1. Success(HttpSend(x)) /\ HttpSend(x).body \in {"legible", "unreadable"}
      BY <2>3, ClaimAnswer
    <3>2. ~refused'
      BY <2>2, <3>1
    <3>3. report' = "unconfirmed" \/ (report' = reply /\ reply # NULL)
      BY <2>2, <3>1 DEF PostReport
    <3>4. CASE report' = "unconfirmed"
      BY <2>1, <3>2, <3>4
    <3>5. CASE report' = reply /\ reply = "reset"
      BY <2>1, <3>2, <3>5
    <3>6. CASE report' = reply /\ reply \in ClaimAnswers
      BY <2>1, <3>2, <3>6, ClaimAssumption
    <3> QED
      BY <3>3, <3>4, <3>5, <3>6
  <2>4. CASE ~Success(HttpSend(x)) /\ HttpSend(x).tag = "ok"
    <3>1. refused' /\ report' \in {"unauthenticated", "provider_error"}
      BY <2>2, <2>4 DEF PostReport
    <3> QED
      BY <2>1, <3>1
  <2>5. CASE HttpSend(x).tag # "ok"
    <3>1. ~refused' /\ report' = "unconfirmed"
      BY <2>2, <2>5 DEF PostReport, Success, Rejected
    <3> QED
      BY <2>1, <3>1
  <2> QED
    BY <2>2, <2>3, <2>4, <2>5
<1>9. CASE Killed
  BY <1>9 DEF Killed, Report, claimVars
<1>10. CASE UNCHANGED vars
  BY <1>10 DEF vars, claimVars
<1> QED
  BY <1>1, <1>2, <1>3, <1>4, <1>5, <1>6, <1>7, <1>8, <1>9, <1>10 DEF Next

\* What the popup is told is what happened to the resets: nothing was spent
\* unless it says so or says that it does not know, for any provider, any
\* other clients and any way the one request may go but one: where the POST is
\* answered with an error status, the report is one of two errors and nothing
\* is said of the reset (claim_claude_reset()).
THEOREM ReportsAreTruthfulHolds == Spec => []ReportsAreTruthful
<1>1. ASSUME Course PROVE ReportsAreTruthful
  <2>1. Len(spent) <= 1 /\ (reply = "reset" => Len(spent) = 1)
    BY <1>1 DEF Course
  <2> QED
    BY <1>1, <2>1 DEF Course, ReportsAreTruthful
<1> QED
  BY <1>1, InitCourse, NextCourse, PTL DEF Spec

---------------------------------------------------------------------------
(* What the claim takes.                                                   *)

Pace ==
  /\ elapsed \in Nat /\ attempt \in {1, 2}
  /\ pc \in {"start", "version"} => elapsed = 0 /\ attempt = 1
  /\ pc = "usage" => elapsed <= (IF attempt = 1 THEN TIMEOUT ELSE 2 * TIMEOUT + RETRY_DELAY)
  /\ pc \in {"deciding", "claiming"} => elapsed <= 3 * TIMEOUT + RETRY_DELAY
  /\ elapsed <= 4 * TIMEOUT + RETRY_DELAY

LEMMA InitPace == Init => Pace
BY AccessAssumption DEF Init, Pace

LEMMA NextPace == Course /\ Pace /\ [Next]_vars => Pace'
<1> SUFFICES ASSUME Course, Pace, [Next]_vars PROVE Pace'
  OBVIOUS
<1> USE AccessAssumption DEF Pace
<1>1. CASE OtherSpends
  BY <1>1 DEF OtherSpends
<1>2. CASE Handle
  BY <1>2 DEF Handle
<1>3. CASE Lose
  BY <1>3 DEF Lose
<1>4. CASE Claim
  <2>1. pc = "start" /\ pc' \in {"done", "version", "usage"} /\ UNCHANGED <<elapsed, attempt>>
    BY <1>4 DEF Claim, Report
  <2> QED
    BY <2>1
<1>5. CASE Probed
  <2>1. PICK child \in VersionRuns : elapsed' = elapsed + RunProcess(child).took
    BY <1>5 DEF Probed
  <2>2. RunProcess(child).took \in 0..TIMEOUT
    BY ChildTakes, ClaimAssumption
  <2>3. pc = "version" /\ pc' = "usage" /\ attempt' = attempt
    BY <1>5 DEF Probed
  <2> QED
    BY <2>1, <2>2, <2>3
<1>6. CASE ReadUsage
  <2>1. PICK x \in Exchanges \cup {UsageExchange} :
          \/ /\ attempt = 1 /\ attempt' = 2 /\ elapsed' = elapsed + HttpSend(x).took + RETRY_DELAY /\ pc' = pc
          \/ elapsed' = elapsed + HttpSend(x).took /\ attempt' = attempt /\ pc' \in {"done", "deciding"}
    BY <1>6 DEF ReadUsage, Report, Again
  <2>2. HttpSend(x).took \in 0..TIMEOUT
    BY RequestTakes, ClaimAssumption, UsageFields DEF Ending
  <2>3. pc = "usage"
    BY <1>6 DEF ReadUsage
  <2> QED
    BY <2>1, <2>2, <2>3
<1>7. CASE Post
  <2>1. pc = "deciding" /\ pc' \in {"done", "claiming"} /\ UNCHANGED <<elapsed, attempt>>
    BY <1>7 DEF Post, Report
  <2> QED
    BY <2>1
<1>8. CASE PostAnswered
  <2>1. pc = "claiming" /\ pc' = "done" /\ attempt' = attempt
    BY <1>8 DEF PostAnswered, Report
  <2>2. PICK x \in Exchanges \cup ClaimExchanges : elapsed' = elapsed + HttpSend(x).took
    BY <1>8 DEF PostAnswered
  <2>3. HttpSend(x).took \in 0..TIMEOUT
    BY RequestTakes, ClaimAnswer, ClaimAssumption DEF Ending
  <2> QED
    BY <2>1, <2>2, <2>3
<1>9. CASE Killed
  BY <1>9 DEF Killed, Report
<1>10. CASE UNCHANGED vars
  BY <1>10 DEF vars
<1> QED
  BY <1>1, <1>2, <1>3, <1>4, <1>5, <1>6, <1>7, <1>8, <1>9, <1>10 DEF Next

\* The plugin's lane never gives a claim up that the helper is still making,
\* for any timeouts of which four and one retry fit the lane
\* (Service.qml's resetTimeoutMs, claim_claude_reset()).
THEOREM ClaimFitsItsLaneHolds == Spec => []ClaimFitsItsLane
<1>1. Pace => ClaimFitsItsLane
  BY LaneAssumption, AccessAssumption DEF Pace, ClaimFitsItsLane
<1> QED
  BY <1>1, InitCourse, NextCourse, InitPace, NextPace, PTL DEF Spec

---------------------------------------------------------------------------
(* Which reset the claim is for.                                           *)

\* What a usage document lists, whatever was left when it was made.
ListsGrants(doc) ==
  /\ doc.cedar # NULL
  /\ DOMAIN doc.cedar.grants = DOMAIN Grants
  /\ \A i \in DOMAIN Grants : doc.cedar.grants[i].id = Grants[i]

GrantNames == {Grants[i] : i \in DOMAIN Grants}

\* The claim is for the one reset that the id names.
Named(claim, id) ==
  IF id = <<"juniper-tide">> THEN claim.program = "juniper_tide"
  ELSE {name \in GrantNames : Sanitized(name, "bucket") = id[2]} = {claim.grant}

Aim ==
  /\ DOMAIN left = GrantNames
  /\ usage # NULL => usage.cedar = NULL \/ ListsGrants(usage)
  /\ pc = "deciding" => usage # NULL
  /\ inFlight # NULL => Named(inFlight, target)
  /\ \A i \in DOMAIN spent : Named(spent[i], target)

LEMMA UsageLists == UsageDoc.cedar = NULL \/ ListsGrants(UsageDoc)
<1> DEFINE listed == [i \in DOMAIN Grants |-> Grant(Grants[i])]
<1>1. /\ DOMAIN listed = DOMAIN Grants
      /\ \A i \in DOMAIN Grants : listed[i].id = Grants[i]
  BY DEF Grant
<1> HIDE DEF listed
<1>2. UsageDoc.cedar = [eligible |-> TRUE, next |-> NULL, grants |-> listed]
  BY DEF UsageDoc, listed
<1>3. UsageDoc.cedar.grants = listed
  BY <1>2
<1> QED
  BY <1>1, <1>3 DEF ListsGrants

\* claude_cedar_ember_raw_grant_id(): a name it returns is the only one with the id.
LEMMA RawGrantIsTheOnlyOne ==
  ASSUME NEW doc, doc # NULL, doc.cedar = NULL \/ ListsGrants(doc), NEW name, RawGrantId(doc, name) # NULL
  PROVE  {n \in GrantNames : Sanitized(n, "bucket") = name} = {RawGrantId(doc, name)}
<1> DEFINE grants == IF doc = NULL \/ doc.cedar = NULL THEN <<>> ELSE doc.cedar.grants
           named == {i \in DOMAIN grants : Sanitized(grants[i].id, "bucket") = name}
<1>1. RawGrantId(doc, name) = IF \E i \in named : named = {i} THEN grants[CHOOSE i \in named : TRUE].id ELSE NULL
  BY DEF RawGrantId
<1>2. PICK i \in named : named = {i}
  BY <1>1
<1>3. (CHOOSE k \in named : TRUE) = i
  BY <1>2
<1>4. RawGrantId(doc, name) = grants[i].id
  BY <1>1, <1>2, <1>3
<1>5. doc.cedar # NULL
  BY <1>2
<1>6. /\ DOMAIN grants = DOMAIN Grants
      /\ \A k \in DOMAIN Grants : grants[k].id = Grants[k]
  BY <1>5 DEF ListsGrants
<1>7. \A k \in DOMAIN Grants : Sanitized(Grants[k], "bucket") = name <=> k = i
  BY <1>2, <1>6
<1>8. i \in DOMAIN Grants /\ RawGrantId(doc, name) = Grants[i]
  BY <1>4, <1>6
<1> QED
  BY <1>7, <1>8 DEF GrantNames

LEMMA ClaimIsNamed ==
  ASSUME NEW doc, doc # NULL, doc.cedar = NULL \/ ListsGrants(doc), NEW id, ClaimOf(doc, id) # NULL
  PROVE  Named(ClaimOf(doc, id), id)
<1>1. CASE id = <<"juniper-tide">>
  <2>1. ClaimOf(doc, id) = [program |-> "juniper_tide"]
    BY <1>1 DEF ClaimOf, Program
  <2> QED
    BY <1>1, <2>1 DEF Named
<1>2. CASE id # <<"juniper-tide">>
  <2>1. RawGrantId(doc, id[2]) # NULL
    BY <1>2 DEF ClaimOf, Program
  <2>2. ClaimOf(doc, id) = [program |-> "cedar_ember", grant |-> RawGrantId(doc, id[2])]
    BY <1>2 DEF ClaimOf, Program
  <2>3. ClaimOf(doc, id).grant = RawGrantId(doc, id[2])
    BY <2>2
  <2> QED
    BY <1>2, <2>1, <2>3, RawGrantIsTheOnlyOne DEF Named
<1> QED
  BY <1>1, <1>2

\* Of the answers to the request for the usage only the usage is ready.
LEMMA UsefulIsUsage ==
  ASSUME NEW x \in Exchanges \cup {UsageExchange}, Success(HttpSend(x)), UsageKind(HttpSend(x).body) = "ready"
  PROVE  HttpSend(x).body = UsageDoc /\ UsageDoc # NULL
<1>1. HttpSend(x).body # NULL /\ ~(HttpSend(x).body.error # NULL)
  BY DEF UsageKind, ClaudeResult, ErrorResult, UnauthenticatedResult
<1> QED
  BY <1>1, ClaimAssumption, RequestFields, UsageFields

LEMMA InitAim == Init => Aim
BY DEF Init, Aim, GrantNames

LEMMA SpendKeepsGrants ==
  ASSUME NEW claim, Spend(claim)
  PROVE  DOMAIN left' = DOMAIN left
BY DEF Spend

LEMMA NextAim == Course /\ Aim /\ [Next]_vars => Aim'
<1> SUFFICES ASSUME Course, Aim, [Next]_vars PROVE Aim'
  OBVIOUS
<1> USE DEF Aim
<1>1. CASE OtherSpends
  <2>1. DOMAIN left' = DOMAIN left
    BY <1>1, SpendKeepsGrants DEF OtherSpends
  <2> QED
    BY <1>1, <2>1 DEF OtherSpends, claimVars
<1>2. CASE Handle
  <2>1. inFlight # NULL /\ inFlight' = NULL /\ UNCHANGED <<pc, target, usage>>
    BY <1>2 DEF Handle
  <2>2. CASE Spend(inFlight) /\ spent' = Append(spent, inFlight)
    <3>1. DOMAIN left' = DOMAIN left
      BY <2>2, SpendKeepsGrants
    <3>2. spent = <<>>
      BY <2>1, ClaimAssumption DEF Course
    <3>3. spent' = <<inFlight>>
      BY <2>2, <3>2
    <3>4. \A i \in DOMAIN spent' : spent'[i] = inFlight
      BY <3>3
    <3> QED
      BY <2>1, <3>1, <3>4
  <2>3. CASE UNCHANGED <<providerVars, spent>>
    BY <2>1, <2>3 DEF providerVars
  <2> QED
    BY <1>2, <2>2, <2>3 DEF Handle
<1>3. CASE Lose
  BY <1>3 DEF Lose, providerVars
<1>4. CASE Claim
  <2>1. UNCHANGED <<providerVars, usage, claimVars>> /\ pc = "start" /\ pc' # "deciding"
    BY <1>4 DEF Claim, Report
  <2>2. inFlight = NULL /\ spent = <<>>
    BY <2>1 DEF Course, Before
  <2> QED
    BY <2>1, <2>2 DEF providerVars, claimVars
<1>5. CASE Probed
  BY <1>5 DEF Probed, providerVars, claimVars
<1>6. CASE ReadUsage
  <2>1. UNCHANGED <<providerVars, target, claimVars>>
    BY <1>6 DEF ReadUsage
  <2>2. \/ usage' = usage /\ pc' # "deciding"
        \/ \E x \in Exchanges \cup {UsageExchange} :
             Success(HttpSend(x)) /\ UsageKind(HttpSend(x).body) = "ready" /\ usage' = HttpSend(x).body
    BY <1>6 DEF ReadUsage, Report
  <2>3. (usage' = usage /\ pc' # "deciding") \/ (usage' = UsageDoc /\ usage' # NULL)
    BY <2>2, UsefulIsUsage, RequestFields, UsageFields
  <2> QED
    BY <2>1, <2>3, UsageLists DEF providerVars, claimVars
<1>7. CASE Post
  <2>1. UNCHANGED <<providerVars, target, usage, spent>> /\ pc' # "deciding"
    BY <1>7 DEF Post, Report
  <2>2. inFlight' = inFlight \/ (inFlight' = ClaimOf(usage, target) /\ ClaimOf(usage, target) # NULL)
    BY <1>7 DEF Post
  <2>3. usage # NULL
    BY <1>7 DEF Post
  <2> QED
    BY <2>1, <2>2, <2>3, ClaimIsNamed DEF providerVars
<1>8. CASE PostAnswered
  BY <1>8 DEF PostAnswered, Report, providerVars
<1>9. CASE Killed
  BY <1>9 DEF Killed, Report, providerVars, claimVars
<1>10. CASE UNCHANGED vars
  BY <1>10 DEF vars, providerVars, claimVars
<1> QED
  BY <1>1, <1>2, <1>3, <1>4, <1>5, <1>6, <1>7, <1>8, <1>9, <1>10 DEF Next

\* A reset that is spent is the one that was asked for, and the only one the
\* id can mean, for any names of the grants, however many of them sanitize to
\* one id, and whatever others spend meanwhile (claude_cedar_ember_raw_grant_id()).
THEOREM TheNamedResetIsSpentHolds == Spec => []TheNamedResetIsSpent
<1>1. Aim => TheNamedResetIsSpent
  BY DEF Aim, Named, TheNamedResetIsSpent
<1> QED
  BY <1>1, InitCourse, NextCourse, InitAim, NextAim, PTL DEF Spec
=============================================================================
